--------------------------- MODULE CourseResources ---------------------------
(***************************************************************************)
(* The resources that an instructor writes, one form per type              *)
(* (vistas/courses/resources.py): the row, the file that some types keep   *)
(* on disk, and the pages that show them.  A file is saved under a fresh   *)
(* name before the row that names it is committed.                         *)
(***************************************************************************)
EXTENDS Naturals, FiniteSets

CONSTANTS
    Recursos, Peticiones,
    Textos,          \* what the text fields of a form may say
    Tipos,           \* the types an instance writes
    EnlacesPropios,  \* an edit page is opened for a resource of its own type
    MaxArchivos,     \* bound: files saved
    MaxOperaciones, MaxCaidas,  \* bounds: requests, and requests that die
    Nada

VARIABLES
    recurso,      \* CursoRecurso rows
    archivos,     \* files on disk: the upload set and the name
    nombres,      \* names taken so far: a ULID is never used twice
    peticion, operaciones, caidas

vars == <<recurso, archivos, nombres, peticion, operaciones, caidas>>

----------------------------------------
TodosLosTipos == {"html", "youtube", "text", "link", "pdf", "meet", "img", "mp3",
                  "descargable", "slides"}

\* What an instance assumes of its constants.
ResourcesAssumption ==
    /\ Tipos \subseteq TodosLosTipos
    /\ Nada \notin Recursos \cup Textos
    /\ EnlacesPropios \in BOOLEAN
    /\ {MaxArchivos, MaxOperaciones, MaxCaidas} \subseteq Nat

\* The upload set of a type that keeps a file.
Conjunto(t) == CASE t \in {"pdf", "descargable"} -> "files"
                 [] t = "img" -> "images"
                 [] t = "mp3" -> "audio"
                 [] OTHER     -> Nada

ConArchivo(t) == Conjunto(t) # Nada
Conjuntos == {"files", "images", "audio"}

\* 0 is no file.
Fila == [tipo: TodosLosTipos, texto: Textos, base: Conjuntos \cup {Nada},
         doc: 0..MaxArchivos]

Peticion == [pc: {"idle", "archivo", "guardar"},
             recurso: Recursos \cup {Nada},
             tipo: TodosLosTipos \cup {Nada},
             leida: Fila \cup {Nada},     \* the row as it was read; none for a new one
             texto: Textos \cup {Nada},
             doc: 0..MaxArchivos]

Libre == [pc |-> "idle", recurso |-> Nada, tipo |-> Nada, leida |-> Nada,
          texto |-> Nada, doc |-> 0]

Existe(r) == recurso[r] # Nada

TypeOK ==
    /\ recurso \in [Recursos -> Fila \cup {Nada}]
    /\ archivos \subseteq Conjuntos \X (1..MaxArchivos)
    /\ nombres \in 0..MaxArchivos
    /\ peticion \in [Peticiones -> Peticion]
    /\ operaciones <= MaxOperaciones /\ caidas <= MaxCaidas
    /\ \A r \in Recursos : Existe(r) => (ConArchivo(recurso[r].tipo) <=> recurso[r].doc > 0)

----------------------------------------
(* Forms *)

Pedir(p) ==
    /\ peticion[p].pc = "idle"
    /\ operaciones < MaxOperaciones
    /\ operaciones' = operaciones + 1
    /\ UNCHANGED <<recurso, archivos, nombres, caidas>>

\* A new resource of type t.
Nuevo(p, t) ==
    /\ Pedir(p)
    /\ t \in Tipos
    /\ \E r \in Recursos, x \in Textos :
          /\ ~Existe(r) /\ \A o \in Peticiones : peticion[o].recurso # r
          /\ peticion' = [peticion EXCEPT ![p] =
                [Libre EXCEPT !.pc = IF ConArchivo(t) THEN "archivo" ELSE "guardar",
                              !.recurso = r, !.tipo = t, !.texto = x]]

nuevo_recurso_html(p) == Nuevo(p, "html")
nuevo_recurso_youtube_video(p) == Nuevo(p, "youtube")
nuevo_recurso_text(p) == Nuevo(p, "text")
nuevo_recurso_link(p) == Nuevo(p, "link")
nuevo_recurso_pdf(p) == Nuevo(p, "pdf")
nuevo_recurso_meet(p) == Nuevo(p, "meet")
nuevo_recurso_img(p) == Nuevo(p, "img")
nuevo_recurso_audio(p) == Nuevo(p, "mp3")
nuevo_recurso_descargable(p) == Nuevo(p, "descargable")
nuevo_recurso_slideshow(p) == Nuevo(p, "slides")

\* The form of type t over a resource of that type, with or without a new file.
Editar(p, r, t) ==
    /\ Pedir(p)
    /\ \E x \in Textos, nuevo \in BOOLEAN :
          /\ nuevo => ConArchivo(t)
          /\ peticion' = [peticion EXCEPT ![p] =
                [Libre EXCEPT !.pc = IF nuevo THEN "archivo" ELSE "guardar",
                              !.recurso = r, !.tipo = t, !.leida = recurso[r],
                              !.texto = x]]

\* Most forms check the type of the row.
EditarTipo(p, t) == \E r \in Recursos : Existe(r) /\ recurso[r].tipo = t /\ Editar(p, r, t)

editar_recurso_html(p) == EditarTipo(p, "html")
editar_recurso_youtube_video(p) == EditarTipo(p, "youtube")
editar_recurso_text(p) == EditarTipo(p, "text")
editar_recurso_link(p) == EditarTipo(p, "link")
editar_recurso_pdf(p) == EditarTipo(p, "pdf")
editar_recurso_meet(p) == EditarTipo(p, "meet")
editar_recurso_img(p) == EditarTipo(p, "img")
editar_recurso_audio(p) == EditarTipo(p, "mp3")

\* This one does not.
editar_recurso_descargable(p) ==
    \E r \in Recursos :
        /\ Existe(r)
        /\ EnlacesPropios => recurso[r].tipo = "descargable"
        /\ Editar(p, r, "descargable")

----------------------------------------
(* The file, then the row *)

\* The set that receives the file of a form.
Destino(q) == Conjunto(q.tipo)

\* files.save, images.save, audio.save
SubirArchivo(p) ==
    LET q == peticion[p] IN
    /\ q.pc = "archivo"
    /\ nombres < MaxArchivos
    /\ nombres' = nombres + 1
    /\ archivos' = archivos \cup {<<Destino(q), nombres + 1>>}
    /\ peticion' = [peticion EXCEPT ![p].pc = "guardar", ![p].doc = nombres + 1]
    /\ UNCHANGED <<recurso, operaciones, caidas>>

Terminar(p) ==
    /\ peticion' = [peticion EXCEPT ![p] = Libre]
    /\ UNCHANGED <<archivos, nombres, operaciones, caidas>>

GuardarNuevo(p) ==
    LET q == peticion[p] IN
    /\ q.pc = "guardar" /\ q.leida = Nada
    /\ recurso' = [recurso EXCEPT ![q.recurso] =
          [tipo |-> q.tipo, texto |-> q.texto, base |-> Conjunto(q.tipo), doc |-> q.doc]]
    /\ Terminar(p)

\* The columns in which the form differs from the row that was read; the form
\* of a downloadable file does not write the set.
Escrita(q, fila) ==
    [fila EXCEPT !.texto = IF q.texto = q.leida.texto THEN @ ELSE q.texto,
                 !.doc = IF q.doc = 0 THEN @ ELSE q.doc,
                 !.base = IF q.doc = 0 \/ q.tipo = "descargable" THEN @ ELSE Conjunto(q.tipo)]

\* The row may be gone: the UPDATE finds nothing and the request fails.
GuardarEdicion(p) ==
    LET q == peticion[p] IN
    /\ q.pc = "guardar" /\ q.leida # Nada
    /\ recurso' = IF Existe(q.recurso)
                  THEN [recurso EXCEPT ![q.recurso] = Escrita(q, @)] ELSE recurso
    /\ Terminar(p)

\* actions.eliminar_recurso; the file stays.
eliminar_recurso(p) ==
    /\ peticion[p].pc = "idle" /\ operaciones < MaxOperaciones
    /\ operaciones' = operaciones + 1
    /\ \E r \in Recursos : Existe(r) /\ recurso' = [recurso EXCEPT ![r] = Nada]
    /\ UNCHANGED <<archivos, nombres, peticion, caidas>>

\* A request dies: the file it saved stays without a row.
Caer(p) ==
    /\ peticion[p].pc # "idle"
    /\ caidas < MaxCaidas
    /\ caidas' = caidas + 1
    /\ peticion' = [peticion EXCEPT ![p] = Libre]
    /\ UNCHANGED <<recurso, archivos, nombres, operaciones>>

----------------------------------------
(* Pages *)

\* RESOURCE_TEMPLATES
Plantillas == {"html", "img", "link", "meet", "mp3", "pdf", "slides", "text", "youtube"}

\* pagina_recurso answers 404 for a type without a template.
pagina_recurso(r) == recurso[r].tipo \in Plantillas

\* recurso_file finds the upload set and the file of the row.
recurso_file(r) ==
    recurso[r].base \in Conjuntos /\ <<recurso[r].base, recurso[r].doc>> \in archivos

\* The endpoints of the edit links of curso/admin.html that exist; the page
\* shows none for the other types.
EnlaceDeEdicion(t) ==
    IF t = "html" THEN "course.editar_recurso_html" ELSE "resources.editar_recurso"

\* administrar_curso builds a link for every resource, and fails if one has an
\* endpoint that is not registered.
administrar_curso ==
    \A r \in Recursos : Existe(r) => EnlaceDeEdicion(recurso[r].tipo) = "resources.editar_recurso"

----------------------------------------
Init ==
    /\ recurso = [r \in Recursos |-> Nada]
    /\ archivos = {}
    /\ nombres = 0
    /\ peticion = [p \in Peticiones |-> Libre]
    /\ operaciones = 0
    /\ caidas = 0

Crear(p) ==
    \/ nuevo_recurso_html(p) \/ nuevo_recurso_youtube_video(p) \/ nuevo_recurso_text(p)
    \/ nuevo_recurso_link(p) \/ nuevo_recurso_pdf(p) \/ nuevo_recurso_meet(p)
    \/ nuevo_recurso_img(p) \/ nuevo_recurso_audio(p) \/ nuevo_recurso_descargable(p)
    \/ nuevo_recurso_slideshow(p)

Modificar(p) ==
    \/ editar_recurso_html(p) \/ editar_recurso_youtube_video(p) \/ editar_recurso_text(p)
    \/ editar_recurso_link(p) \/ editar_recurso_pdf(p) \/ editar_recurso_meet(p)
    \/ editar_recurso_img(p) \/ editar_recurso_audio(p) \/ editar_recurso_descargable(p)

Next == \E p \in Peticiones :
    \/ Crear(p) \/ Modificar(p) \/ eliminar_recurso(p)
    \/ SubirArchivo(p) \/ GuardarNuevo(p) \/ GuardarEdicion(p)
    \/ Caer(p)

Spec == Init /\ [][Next]_vars

----------------------------------------
(* Properties *)

\* A row that names a file names one that is on disk, in the set it says,
\* through concurrent edits and requests that die between the file and the row.
DocExists == \A r \in Recursos : Existe(r) /\ recurso[r].doc > 0 => recurso_file(r)

----------------------------------------
(* What the pages, the comments and the guides say, and the code does not keep:  *)
(* TLC finds a counterexample to each of the following.                          *)

\* An edit that is answered with MSG_RECURSO_ACTUALIZADO left in the row what its
\* form said.
EditTakesEffect ==
    \A p \in Peticiones :
          LET q == peticion[p] IN
          (GuardarEdicion(p) /\ Existe(q.recurso)) => recurso'[q.recurso].texto = q.texto

\* A resource has a page.
EveryResourceHasAPage == \A r \in Recursos : Existe(r) => pagina_recurso(r)

\* The page from which the course is edited can be shown.
AdminPageShows == administrar_curso
===============================================================================
