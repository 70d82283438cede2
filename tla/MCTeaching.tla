------------------------------ MODULE MCTeaching ------------------------------
(***************************************************************************)
(* Instances of what instructors write: the index of a course, resources   *)
(* and their files, slides, the library and the bank of questions.  They   *)
(* share no rows and do not call each other: parte is the one that a       *)
(* behaviour is about, whose requests peticion keeps, and the rest has no  *)
(* rows.  The sizes of the parts that keep files are constants, so that    *)
(* what is proved of them in MCTeaching_proofs is proved of any size.      *)
(***************************************************************************)
EXTENDS Naturals, FiniteSets, TLC

CONSTANTS
    Partes,      \* the parts that a run explores
    q1, Formularios,         \* the only request, or those that overlap
    Alumnos, Examenes, Copiados,     \* of QuestionBank, with evaluations that a seed copied
    Enunciados, Sembrados, Anotados, \* texts of questions, seeded ones, texts of options
    MaxPreguntas, MaxPocas, MaxOpciones, MaxPocasOpciones, MaxIntentos, MaxPracticas,
    MaxNumerado, MaxEditado, MaxCalificado, MaxPracticado,
    curso, Secciones, Lecciones,     \* of CourseIndex
    MaxOrdenadas, MaxSecciones, MaxOrdenado, MaxBloqueado, MaxInterrumpidos,
    Laminas, MaxCambiadas, MaxGuardadas,     \* of Slideshow
    Escritos, Titulos,       \* the resources of CourseResources and what they say
    Ficheros, Contenidos,    \* the files of CourseLibrary; what they and slides hold
    MaxArchivos, MaxEscritos, MaxEscritosMuertos,   \* bounds of CourseResources
    MaxSubidas, MaxDeUnaEnUna, MaxMuertas,          \* bounds of CourseLibrary
    Nada

VARIABLES
    parte, peticion, operaciones, caidas, pagina,
    \* QuestionBank
    preguntas, opciones, usadas, intentos, version,
    \* CourseIndex
    indice, padre, cerradura,
    \* CourseResources
    recurso, archivos, nombres,
    \* Slideshow
    slides, conocidas, cambios, guardados,
    \* CourseLibrary
    filas, disco, anunciado

varsBanco == <<preguntas, opciones, usadas, intentos, version>>
varsIndice == <<indice, padre, cerradura>>
varsRecursos == <<recurso, archivos, nombres>>
varsSlides == <<slides, conocidas, cambios, guardados>>
varsBiblioteca == <<filas, disco, anunciado>>
vars == <<parte, peticion, operaciones, caidas, pagina,
          varsBanco, varsIndice, varsRecursos, varsSlides, varsBiblioteca>>

----------------------------------------
Una == {q1}

\* A bank of questions of the size k.
Bateria(k) == INSTANCE QuestionBank WITH
    Estudiantes <- Alumnos, Evaluaciones <- k.examenes, Peticiones <- k.peticiones,
    Textos <- k.textos, Sembradas <- k.sembradas, Escritos <- k.escritos, Traducido <- FALSE,
    Acciones <- k.acciones, MaxPreguntas <- k.preguntas, MaxOpciones <- k.opciones,
    MaxOperaciones <- k.operaciones, MaxIntentos <- k.intentos

\* One form at a time: questions, through additions and deletions.
DeNumerar == [examenes |-> Examenes, peticiones |-> Una, textos |-> Sembrados,
    sembradas |-> Sembrados, escritos |-> Anotados,
    acciones |-> {"pregunta", "editar", "borrar", "opcion", "quitar"},
    preguntas |-> MaxPreguntas, opciones |-> MaxOpciones, operaciones |-> MaxNumerado,
    intentos |-> 0]
\* Every form beside the submission of an attempt.
DeEditar == [examenes |-> Examenes, peticiones |-> Formularios, textos |-> Enunciados,
    sembradas |-> Sembrados, escritos |-> Anotados,
    acciones |-> {"pregunta", "editar", "borrar", "opcion", "cambiar", "quitar", "intento"},
    preguntas |-> MaxPocas, opciones |-> MaxPocasOpciones, operaciones |-> MaxEditado,
    intentos |-> MaxIntentos]
\* True/false questions with the same options.
DeCalificar == [examenes |-> Examenes, peticiones |-> Una, textos |-> Sembrados,
    sembradas |-> {}, escritos |-> {}, acciones |-> {"pregunta", "cambiar", "intento"},
    preguntas |-> MaxPocas, opciones |-> MaxPocasOpciones, operaciones |-> MaxCalificado,
    intentos |-> MaxIntentos]
\* A copy for every evaluation of an item of a certification, edited and answered.
DePracticar == [examenes |-> Copiados, peticiones |-> Una, textos |-> Enunciados,
    sembradas |-> Sembrados, escritos |-> Anotados, acciones |-> {"editar", "cambiar", "intento"},
    preguntas |-> Cardinality(Copiados), opciones |-> MaxPocasOpciones,
    operaciones |-> MaxPracticado, intentos |-> MaxPracticas]

\* The order of a course.
Orden(k) == INSTANCE CourseIndex WITH
    Peticiones <- k.peticiones, Recursos <- k.recursos, Curso <- curso,
    Operaciones <- k.operaciones, ConBloqueo <- k.bloqueo, Integridad <- TRUE,
    Comienzo <- {k.comienzo}, PadreInicial <- [x \in Secciones \cup k.recursos |-> Nada],
    MaxIndice <- k.indice, MaxOperaciones <- k.maximo, MaxCaidas <- k.caidas

\* One request at a time from an empty course.
DeOrdenar == [peticiones |-> Una, recursos |-> Lecciones, bloqueo |-> FALSE,
    operaciones |-> {"nueva_seccion", "nuevo_recurso", "mover_recurso", "eliminar_recurso",
                     "eliminar_seccion"},
    comienzo |-> [x \in Secciones \cup Lecciones |-> 0],
    indice |-> MaxOrdenadas, maximo |-> MaxOrdenado, caidas |-> 0]
\* Sections in sequence that overlapping requests move, on a database with row locks.
EnSecuencia ==
    CHOOSE f \in [Secciones -> 1..Cardinality(Secciones)] :
        \A x, y \in Secciones : f[x] = f[y] => x = y
DeBloquear == [peticiones |-> Formularios, recursos |-> {}, bloqueo |-> TRUE,
    operaciones |-> {"mover_seccion", "nueva_seccion", "eliminar_seccion"},
    comienzo |-> EnSecuencia, indice |-> MaxSecciones, maximo |-> MaxBloqueado,
    caidas |-> MaxInterrumpidos]

\* Forms of any type that overlap, and may die.
Archivado == INSTANCE CourseResources WITH
    Recursos <- Escritos, Peticiones <- Formularios, Textos <- Titulos, EnlacesPropios <- TRUE,
    Tipos <- {"html", "youtube", "text", "link", "pdf", "meet", "img", "mp3", "descargable",
              "slides"},
    MaxOperaciones <- MaxEscritos, MaxCaidas <- MaxEscritosMuertos

\* A presentation on one page of the editor.
Presentado == INSTANCE Slideshow WITH
    Ids <- Laminas, Textos <- Contenidos, Pestanas <- Una, MaxCambios <- MaxCambiadas,
    MaxGuardados <- MaxGuardadas

\* Uploads and deletions that overlap, or one at a time that may die.
Subido == INSTANCE CourseLibrary WITH
    Nombres <- Ficheros, Peticiones <- Formularios,
    MaxOperaciones <- MaxSubidas, MaxCaidas <- 0
Caido == INSTANCE CourseLibrary WITH
    Nombres <- Ficheros, Peticiones <- {q1},
    MaxOperaciones <- MaxDeUnaEnUna, MaxCaidas <- MaxMuertas

ASSUME TeachingAssumption ==
    /\ Bateria(DeNumerar)!BankAssumption /\ Bateria(DeEditar)!BankAssumption
    /\ Bateria(DeCalificar)!BankAssumption /\ Bateria(DePracticar)!BankAssumption
    /\ Orden(DeOrdenar)!IndexAssumption /\ Orden(DeBloquear)!IndexAssumption
    /\ Cardinality(Sembrados) = 1 /\ Anotados \cap {"True", "False"} = {}
    /\ Archivado!ResourcesAssumption /\ Presentado!SlideshowAssumption
    /\ Subido!LibraryAssumption /\ Caido!LibraryAssumption

----------------------------------------
SinBanco ==
    preguntas = Nada /\ opciones = Nada /\ usadas = Nada /\ intentos = Nada /\ version = 0
SinIndice == indice = Nada /\ padre = Nada /\ cerradura = Nada
SinRecursos == recurso = Nada /\ archivos = Nada /\ nombres = Nada
SinSlides == slides = Nada /\ conocidas = Nada /\ cambios = 0 /\ guardados = 0
SinBiblioteca == filas = Nada /\ disco = Nada /\ anunciado = Nada

DeBanco == {"numerado", "editado", "calificado", "practicado"}
DeIndice == {"ordenado", "bloqueado"}
DeBiblioteca == {"subido", "caido"}

Init ==
    /\ parte \in Partes
    /\ \/ parte = "numerado" /\ Bateria(DeNumerar)!Init
       \/ parte = "editado" /\ Bateria(DeEditar)!Init
       \/ parte = "calificado" /\ Bateria(DeCalificar)!Init
       \/ parte = "practicado" /\ Bateria(DePracticar)!Init
       \/ parte = "ordenado" /\ Orden(DeOrdenar)!Init
       \/ parte = "bloqueado" /\ Orden(DeBloquear)!Init
       \/ parte = "archivado" /\ Archivado!Init
       \/ parte = "presentado" /\ Presentado!Init
       \/ parte = "subido" /\ Subido!Init
       \/ parte = "caido" /\ Caido!Init
    /\ parte \notin DeBanco => SinBanco
    /\ parte \notin DeIndice => SinIndice
    /\ parte # "archivado" => SinRecursos
    /\ parte # "presentado" => SinSlides
    /\ parte \notin DeBiblioteca => SinBiblioteca
    /\ parte \notin DeBanco \cup {"presentado"} => pagina = Nada
    /\ parte \in DeBanco \cup {"presentado"} => caidas = 0
    /\ parte = "presentado" => peticion = Nada /\ operaciones = 0

Banco ==
    /\ \/ parte = "numerado" /\ Bateria(DeNumerar)!Next
       \/ parte = "editado" /\ Bateria(DeEditar)!Next
       \/ parte = "calificado" /\ Bateria(DeCalificar)!Next
       \/ parte = "practicado" /\ Bateria(DePracticar)!Next
    /\ UNCHANGED <<parte, caidas, varsIndice, varsRecursos, varsSlides, varsBiblioteca>>
Indice ==
    /\ \/ parte = "ordenado" /\ Orden(DeOrdenar)!Next
       \/ parte = "bloqueado" /\ Orden(DeBloquear)!Next
    /\ UNCHANGED <<parte, pagina, varsBanco, varsRecursos, varsSlides, varsBiblioteca>>
Recursos ==
    /\ parte = "archivado" /\ Archivado!Next
    /\ UNCHANGED <<parte, pagina, varsBanco, varsIndice, varsSlides, varsBiblioteca>>
Slides ==
    /\ parte = "presentado" /\ Presentado!Next
    /\ UNCHANGED <<parte, peticion, operaciones, caidas,
                   varsBanco, varsIndice, varsRecursos, varsBiblioteca>>
Biblioteca ==
    /\ \/ parte = "subido" /\ Subido!Next
       \/ parte = "caido" /\ Caido!Next
    /\ UNCHANGED <<parte, pagina, varsBanco, varsIndice, varsRecursos, varsSlides>>

Next == Banco \/ Indice \/ Recursos \/ Slides \/ Biblioteca

Spec == Init /\ [][Next]_vars

Intercambiables ==
    Permutations(Formularios) \cup Permutations(Laminas) \cup Permutations(Ficheros)

----------------------------------------
TypeOK ==
    /\ parte = "editado" => Bateria(DeEditar)!TypeOK
    /\ parte = "practicado" => Bateria(DePracticar)!TypeOK
    /\ parte = "ordenado" => Orden(DeOrdenar)!TypeOK
    /\ parte = "bloqueado" => Orden(DeBloquear)!TypeOK
    /\ parte = "archivado" => Archivado!TypeOK
    /\ parte = "presentado" => Presentado!TypeOK
    /\ parte = "subido" => Subido!TypeOK
    /\ parte = "caido" => Caido!TypeOK

\* One request at a time, what a student goes through has an order: the resources of
\* a section are numbered without a gap (modificar_indice_seccion,
\* reorganiza_indice_seccion) and the next and the previous page of a resource
\* follow it (crear_indice_recurso); the questions of an evaluation have one, and
\* two options at least (new_question, delete_question_option).  The practice page
\* agrees with the exam on what a member last answered (_certification_practice).
CourseHolds ==
    /\ parte = "ordenado" => Orden(DeOrdenar)!ResourcesSequential /\ Orden(DeOrdenar)!NavigationFollowsOrder
    /\ parte = "numerado" => Bateria(DeNumerar)!OrdersDistinct /\ Bateria(DeNumerar)!TwoOptionsRemain
    /\ parte = "practicado" => Bateria(DePracticar)!PracticeAgrees

\* A resource never names a file that is not there, though the forms overlap and die
\* (courses/resources.py); uploads and deletions of the library overlap, and while none
\* dies no file is left without the row that lets it be deleted; a request at a time,
\* and until one dies, rows and files go together (_store_library_file,
\* delete_library_file).
FilesHold ==
    /\ parte = "archivado" => Archivado!DocExists
    /\ parte = "subido" => Subido!NoOrphanFiles
    /\ parte = "caido" /\ caidas = 0 => Caido!RowsMatchFiles

\* What is saved is what was sent.  A score that was given stays, whatever becomes
\* of the bank (take_evaluation), and the right answer of a page that is up to
\* date counts (calculate_score); a move of a section exchanges it with its
\* neighbour, whatever other requests do under locks (modificar_indice_curso);
\* slides are saved as the page showed them (editar_slideshow); an upload that is
\* announced left its content, over what a dead one had left (_store_library_file).
SavedIsKept ==
    [][/\ parte = "editado" => Bateria(DeEditar)!ScoresAreFinal /\ Bateria(DeEditar)!GradedAsShown
       /\ parte = "calificado" => Bateria(DeCalificar)!GradedAsShown /\ Bateria(DeCalificar)!RightButtonCounts
       /\ parte = "bloqueado" => Orden(DeBloquear)!LockedMovesExchange
       /\ parte = "presentado" => Presentado!SimpleChangesSaved
       /\ parte = "caido" => Caido!AnnouncedContent]_vars
===============================================================================
