------------------------------ MODULE MCLearning ------------------------------
(***************************************************************************)
(* Instances of learning: courses, programs and certificates.  The parts   *)
(* share no rows and do not call each other, so that a behaviour of all is *)
(* an interleaving of one of each, and every property here is about one    *)
(* part: parte is the one that takes steps, and the others have no rows.   *)
(* Courses come with their theorems, which the proofs about these          *)
(* instances cite.                                                         *)
(***************************************************************************)
EXTENDS Naturals, TLC

CONSTANTS
    Partes,      \* the parts that a run explores
    ana, x, y, e1, e2, r1, r2, q1, c1, c2, i1, Nada

VARIABLES
    parte,
    \* CourseCompletion
    curso, matricula, recursos, avances, resumenes, evaluaciones, intentos, solicitudes,
    certificados, peticion, ediciones, caidas,
    \* Programs
    programa, enlaces, inscritos, pagos, ordenes, matriculas, certificadosP, diplomas,
    peticionP, edicionesP, bajas, caidasP,
    \* Certificates
    plantilla, emitida, nombre, lista, bisiesto, peticionC, cambios

varsCursos == <<curso, matricula, recursos, avances, resumenes, evaluaciones, intentos,
                solicitudes, certificados, peticion, ediciones, caidas>>
varsProgramas == <<programa, enlaces, inscritos, pagos, ordenes, matriculas, certificadosP,
                   diplomas, peticionP, edicionesP, bajas, caidasP>>
varsCertificados == <<plantilla, emitida, nombre, lista, bisiesto, peticionC, cambios>>
vars == <<parte, varsCursos, varsProgramas, varsCertificados>>

----------------------------------------
\* Two requests at a time, and nobody changes the course.
Seguido == INSTANCE CourseCompletion_proofs WITH
    Estudiantes <- {ana}, Auditores <- {}, Recursos <- {x, y}, Evaluaciones <- {e1},
    Peticiones <- {r1, r2}, Topes <- {1}, Cascada <- TRUE, Recertifica <- FALSE,
    MaxIntentos <- 1, MaxCertificados <- 1, MaxEdiciones <- 0, MaxCaidas <- 0
\* Two requests at a time, one of which dies.
Caido == INSTANCE CourseCompletion_proofs WITH
    Estudiantes <- {ana}, Auditores <- {}, Recursos <- {x}, Evaluaciones <- {e1},
    Peticiones <- {r1, r2}, Topes <- {1}, Cascada <- TRUE, Recertifica <- FALSE,
    MaxIntentos <- 1, MaxCertificados <- 1, MaxEdiciones <- 0, MaxCaidas <- 1
\* One request at a time, and the instructor changes the course twice.
Editado == INSTANCE CourseCompletion_proofs WITH
    Estudiantes <- {ana}, Auditores <- {}, Recursos <- {x, y}, Evaluaciones <- {e1},
    Peticiones <- {q1}, Topes <- {0, 1}, Cascada <- FALSE, Recertifica <- TRUE,
    MaxIntentos <- 1, MaxCertificados <- 1, MaxEdiciones <- 2, MaxCaidas <- 1
\* One request at a time, two evaluations and three attempts.
Evaluado == INSTANCE CourseCompletion_proofs WITH
    Estudiantes <- {ana}, Auditores <- {}, Recursos <- {x, y}, Evaluaciones <- {e1, e2},
    Peticiones <- {q1}, Topes <- {0, 1, 2}, Cascada <- TRUE, Recertifica <- FALSE,
    MaxIntentos <- 3, MaxCertificados <- 1, MaxEdiciones <- 0, MaxCaidas <- 0

Fila(k, pagado, publico, certifica) ==
    [codigo |-> k, pagado |-> pagado, publico |-> publico, certificado |-> certifica,
     estado |-> IF publico THEN "open" ELSE "draft", plantilla |-> certifica]

\* A program, whose students, forms and bounds k gives.
Plan(k) == INSTANCE Programs WITH
    Estudiantes <- k.estudiantes, Cursos <- k.cursos, Codigos <- k.codigos, IdPrograma <- k.id,
    PagoIds <- k.pagos, Ordenes <- k.ordenes, Peticiones <- k.peticiones,
    Integridad <- k.integridad, Programas <- k.programas, MaxFilas <- k.filas,
    MaxEdiciones <- k.ediciones, MaxBajas <- k.bajas, MaxCaidas <- k.caidas,
    matricula <- matriculas, certificados <- certificadosP, peticion <- peticionP,
    ediciones <- edicionesP, caidas <- caidasP
\* Two requests at a time, two payments, and requests that die.
DePagar ==
    [estudiantes |-> {ana}, cursos |-> {x, y}, codigos |-> {"k1"}, id |-> "id", pagos |-> {1, 2},
     ordenes |-> {1, 2}, peticiones |-> {r1, r2}, integridad |-> TRUE,
     programas |-> {Fila("k1", p, TRUE, TRUE) : p \in BOOLEAN},
     filas |-> 2, ediciones |-> 0, bajas |-> 0, caidas |-> 1]
\* One request at a time; administrators change the program and its code.
DeCambiar ==
    [estudiantes |-> {ana}, cursos |-> {x, y}, codigos |-> {"k1", "k2"}, id |-> "id",
     pagos |-> {1, 2}, ordenes |-> {1}, peticiones |-> {q1}, integridad |-> FALSE,
     programas |-> {Fila(k, a, b, c) : k \in {"k1", "k2"}, a, b, c \in BOOLEAN},
     filas |-> 2, ediciones |-> 2, bajas |-> 1, caidas |-> 0]

\* The templates that are installed, and the bodies that administrators write.
Cuerpos == INSTANCE CertificateTemplates
Escrito(c) ==
    [retrato |-> Cuerpos!Cuerpo(Cuerpos!DeCurso \cup Cuerpos!Personales),
     nacimiento |-> [Cuerpos!Cuerpo(Cuerpos!Titular) EXCEPT !.llama = {"usuario.nacimiento"}]][c]
Instalado == INSTANCE Certificates WITH
    Nuevas <- {}, Propios <- {}, CuerpoDe <- Escrito, Emitidas <- {i1}, Cursos <- {c1, c2},
    MaxNombres <- 2, MaxCambios <- 1, programa <- lista, peticion <- peticionC
Redactado == INSTANCE Certificates WITH
    Nuevas <- {"n1"}, Propios <- {"retrato", "nacimiento"}, CuerpoDe <- Escrito,
    Emitidas <- {i1}, Cursos <- {c1, c2}, MaxNombres <- 1, MaxCambios <- 1,
    programa <- lista, peticion <- peticionC

ASSUME LearningAssumption ==
    /\ Seguido!ProgressAssumption /\ Caido!ProgressAssumption
    /\ Editado!ProgressAssumption /\ Evaluado!ProgressAssumption
    /\ Seguido!ProgressNull /\ Caido!ProgressNull /\ Editado!ProgressNull /\ Evaluado!ProgressNull
    /\ Plan(DePagar)!ProgramsAssumption /\ Plan(DeCambiar)!ProgramsAssumption
    /\ Instalado!CertificatesAssumption /\ Redactado!CertificatesAssumption

----------------------------------------
\* A part that the behaviour is not about has no rows.
SinCursos ==
    /\ curso = Nada /\ matricula = Nada /\ recursos = Nada /\ avances = Nada
    /\ resumenes = Nada /\ evaluaciones = Nada /\ intentos = Nada /\ solicitudes = Nada
    /\ certificados = Nada /\ peticion = Nada /\ ediciones = 0 /\ caidas = 0
SinProgramas ==
    /\ programa = Nada /\ enlaces = Nada /\ inscritos = Nada /\ pagos = Nada
    /\ ordenes = Nada /\ matriculas = Nada /\ certificadosP = Nada /\ diplomas = Nada
    /\ peticionP = Nada /\ edicionesP = 0 /\ bajas = 0 /\ caidasP = 0
SinCertificados ==
    /\ plantilla = Nada /\ emitida = Nada /\ nombre = Nada /\ lista = Nada
    /\ bisiesto = Nada /\ peticionC = Nada /\ cambios = 0

Init ==
    /\ parte \in Partes
    /\ CASE parte = "seguido" -> Seguido!Init
         [] parte = "caido" -> Caido!Init
         [] parte = "editado" -> Editado!Init
         [] parte = "evaluado" -> Evaluado!Init
         [] OTHER -> SinCursos
    /\ CASE parte = "pagado" -> Plan(DePagar)!Init
         [] parte = "cambiado" -> Plan(DeCambiar)!Init
         [] OTHER -> SinProgramas
    /\ CASE parte = "instalado" -> Instalado!Init
         [] parte = "redactado" -> Redactado!Init
         [] OTHER -> SinCertificados

Cursos ==
    /\ \/ parte = "seguido" /\ Seguido!Next
       \/ parte = "caido" /\ Caido!Next
       \/ parte = "editado" /\ Editado!Next
       \/ parte = "evaluado" /\ Evaluado!Next
    /\ UNCHANGED <<parte, varsProgramas, varsCertificados>>
Programas ==
    /\ \/ parte = "pagado" /\ Plan(DePagar)!Next
       \/ parte = "cambiado" /\ Plan(DeCambiar)!Next
    /\ UNCHANGED <<parte, varsCursos, varsCertificados>>
Certificados ==
    /\ \/ parte = "instalado" /\ Instalado!Next
       \/ parte = "redactado" /\ Redactado!Next
    /\ UNCHANGED <<parte, varsCursos, varsProgramas>>

Next == Cursos \/ Programas \/ Certificados

Spec == Init /\ [][Next]_vars

Intercambiables == Permutations({x, y}) \cup Permutations({r1, r2}) \cup Permutations({c1, c2})

----------------------------------------
TypeOK ==
    /\ parte = "seguido" => Seguido!TypeOK
    /\ parte = "caido" => Caido!TypeOK
    /\ parte = "editado" => Editado!TypeOK
    /\ parte = "evaluado" => Evaluado!TypeOK
    /\ parte = "pagado" => Plan(DePagar)!TypeOK
    /\ parte = "instalado" => Instalado!TypeOK

\* A certificate says what is true.  Through overlapping requests, completions
\* are earned and none is lost (_actualizar_avance_curso); a request at a time no
\* certificate is forgotten, whichever of resources and evaluations comes last
\* (_try_issue_certificate).  A template that is installed shows its holder, and
\* none that an administrator writes shows personal data (certificates_templates.py).
CertificatesAreTrue ==
    /\ parte = "seguido" => Seguido!CertificadoMerecido /\ Seguido!CompletionNotLost
    /\ parte = "caido" => Caido!CertificadoMerecido
    /\ parte = "evaluado" => Evaluado!CertificadoMerecido /\ Evaluado!CertificateNotForgotten
    /\ parte = "instalado" => Instalado!InstalledShowsHolder
    /\ parte = "redactado" => Redactado!PersonalIsBlank

\* One request at a time: attempts stay within the limit, and at most one
\* request to reopen is pending, when it is needed (take_evaluation, request_reopen).
AttemptsHold == parte = "evaluado" => Evaluado!TopeRespetado /\ Evaluado!ReaperturaUnica

\* A paid program is enrolled in with all of its courses or not at all; a request
\* at a time, its certificate lists what the student completed and nothing exists
\* twice (_save_payment_enrollment, tomar_programa, _emitir_certificado_programa).
ProgramsHold ==
    /\ parte = "pagado" => Plan(DePagar)!AllOrNothing
    /\ parte = "cambiado" => Plan(DeCambiar)!SnapshotCompleted /\ Plan(DeCambiar)!NothingTwice

\* A certificate is issued to nobody whose course was not recorded as completed,
\* though the instructor changes the course (can_user_receive_certificate), and
\* that of a program keeps the courses it was issued for (DatabaseSnapshotWrapper).
CertificatesKept ==
    [][/\ parte = "editado" => Editado!CertificateHadCompletion
       /\ parte = "instalado" => Instalado!ProgramKeepsItsCourses]_vars

\* "Certificates are created when completion criteria are met"
\* (docs/course-creator/course-creation.md).  It does not hold when the last
\* resource and the last evaluation are completed at once: the roll-up and
\* _try_issue_certificate each look before the other has committed.
CertificateFollows == parte = "seguido" => Seguido!CertificateNotForgotten
===============================================================================
