---------------------------- MODULE CourseLibrary ----------------------------
(***************************************************************************)
(* The library of one course (vistas/courses/resources.py): files that are *)
(* stored under their own sanitized names, and the row of each one.  The   *)
(* file and the row are written one after the other, in both directions.   *)
(***************************************************************************)
EXTENDS Naturals, FiniteSets

CONSTANTS
    Nombres,         \* sanitized file names
    Contenidos,      \* what a file holds
    Peticiones,
    MaxOperaciones, MaxCaidas,   \* bounds: requests, and requests that die
    Nada

\* What an instance assumes of its constants.
LibraryAssumption ==
    /\ Nada \notin Nombres \cup Contenidos
    /\ MaxOperaciones \in Nat /\ MaxCaidas \in Nat

VARIABLES
    filas,        \* CourseLibrary rows by name (course_library_unique_file)
    disco,        \* the files in the directory of the library
    anunciado,    \* history: names whose upload was answered with success
    peticion, operaciones, caidas

vars == <<filas, disco, anunciado, peticion, operaciones, caidas>>

----------------------------------------
\* A row is its upload; 0 is no row.
Filas == [Nombres -> 0..MaxOperaciones]

Peticion == [pc: {"idle", "subir", "fila", "limpiar", "borrar", "quitar"},
             nombre: Nombres \cup {Nada},
             contenido: Contenidos \cup {Nada},
             fila: 0..MaxOperaciones]    \* to insert, or to delete

Libre == [pc |-> "idle", nombre |-> Nada, contenido |-> Nada, fila |-> 0]

TypeOK ==
    /\ filas \in Filas
    /\ disco \in [Nombres -> Contenidos \cup {Nada}]
    /\ anunciado \subseteq Nombres
    /\ peticion \in [Peticiones -> Peticion]
    /\ operaciones <= MaxOperaciones /\ caidas <= MaxCaidas
    /\ \A p \in Peticiones : peticion[p].fila <= operaciones

Pedir(p) ==
    /\ peticion[p].pc = "idle"
    /\ operaciones < MaxOperaciones
    /\ operaciones' = operaciones + 1
    /\ UNCHANGED <<filas, disco, anunciado, caidas>>

A(p, pc) == peticion' = [peticion EXCEPT ![p].pc = pc]

----------------------------------------
(* Upload *)

\* CourseLibrary.filter_by(curso=..., filename=...) finds none.
NoExiste(n) == filas[n] = 0

\* upload_library_file, for a file that validate_downloadable_file accepts; the
\* name is looked up before anything is written.
upload_library_file(p) ==
    /\ Pedir(p)
    /\ \E n \in Nombres, x \in Contenidos :
          /\ NoExiste(n)
          /\ peticion' = [peticion EXCEPT ![p] =
                [pc |-> "subir", nombre |-> n, contenido |-> x, fila |-> operaciones + 1]]

\* uploaded_file.save overwrites what was there.
Sobrescrito(q) == [disco EXCEPT ![q.nombre] = q.contenido]

GuardarArchivo(p) ==
    LET q == peticion[p] IN
    /\ q.pc = "subir"
    /\ disco' = Sobrescrito(q)
    /\ A(p, "fila")
    /\ UNCHANGED <<filas, anunciado, operaciones, caidas>>

\* The row is inserted, unless one of that name is there already.
_store_library_file(p) ==
    LET q == peticion[p] IN
    /\ q.pc = "fila"
    /\ \/ /\ filas[q.nombre] = 0
          /\ filas' = [filas EXCEPT ![q.nombre] = q.fila]
          /\ anunciado' = anunciado \cup {q.nombre}
          /\ peticion' = [peticion EXCEPT ![p] = Libre]
       \/ /\ filas[q.nombre] # 0
          /\ A(p, "limpiar")
          /\ UNCHANGED <<filas, anunciado>>
    /\ UNCHANGED <<disco, operaciones, caidas>>

\* Mutation: the file stays.
SinLimpiar(n) == disco

\* After a failed insertion the file at the path is removed, whoever wrote it.
Limpiado(n) == [disco EXCEPT ![n] = Nada]

LimpiarArchivo(p) ==
    LET q == peticion[p] IN
    /\ q.pc = "limpiar"
    /\ disco' = Limpiado(q.nombre)
    /\ peticion' = [peticion EXCEPT ![p] = Libre]
    /\ UNCHANGED <<filas, anunciado, operaciones, caidas>>

----------------------------------------
(* Deletion: the file first *)

delete_library_file(p) ==
    /\ Pedir(p)
    /\ \E n \in Nombres :
          /\ filas[n] # 0
          /\ peticion' = [peticion EXCEPT ![p] =
                [Libre EXCEPT !.pc = "borrar", !.nombre = n, !.fila = filas[n]]]

QuitarArchivo(p) ==
    LET q == peticion[p] IN
    /\ q.pc = "borrar"
    /\ disco' = [disco EXCEPT ![q.nombre] = Nada]
    /\ A(p, "quitar")
    /\ UNCHANGED <<filas, anunciado, operaciones, caidas>>

\* The row that was read, which another deletion may have taken first.
SinFila(q) == [filas EXCEPT ![q.nombre] = IF @ = q.fila THEN 0 ELSE @]

QuitarFila(p) ==
    LET q == peticion[p] IN
    /\ q.pc = "quitar"
    /\ filas' = SinFila(q)
    /\ anunciado' = anunciado \ {q.nombre}
    /\ peticion' = [peticion EXCEPT ![p] = Libre]
    /\ UNCHANGED <<disco, operaciones, caidas>>

Caer(p) ==
    /\ peticion[p].pc # "idle"
    /\ caidas < MaxCaidas
    /\ caidas' = caidas + 1
    /\ peticion' = [peticion EXCEPT ![p] = Libre]
    /\ UNCHANGED <<filas, disco, anunciado, operaciones>>

----------------------------------------
(* Pages *)

SoloArchivo(n) == filas[n] = 0 /\ disco[n] # Nada

----------------------------------------
Init ==
    /\ filas = [n \in Nombres |-> 0]
    /\ disco = [n \in Nombres |-> Nada]
    /\ anunciado = {}
    /\ peticion = [p \in Peticiones |-> Libre]
    /\ operaciones = 0
    /\ caidas = 0

Sigue(p) ==
    \/ GuardarArchivo(p) \/ _store_library_file(p) \/ LimpiarArchivo(p)
    \/ QuitarArchivo(p) \/ QuitarFila(p)

Next == \E p \in Peticiones :
    \/ upload_library_file(p) \/ delete_library_file(p)
    \/ Sigue(p) \/ Caer(p)

Spec == Init /\ [][Next]_vars

----------------------------------------
(* Properties *)

EnUso(n) == \E p \in Peticiones : peticion[p].nombre = n

\* One request at a time and none that dies: rows and files go together.
RowsMatchFiles == \A n \in Nombres : EnUso(n) \/ (filas[n] # 0 <=> disco[n] # Nada)

\* Through concurrent uploads and deletions of one name, none of which dies: no file
\* is left without the row that lets an instructor delete it.
NoOrphanFiles == \A n \in Nombres : SoloArchivo(n) => EnUso(n)

\* One request at a time, some of which die: an upload that is announced left its
\* own content in the library, whatever a dead request had left there before.
AnnouncedContent ==
    \A p \in Peticiones :
          (_store_library_file(p) /\ peticion'[p].pc = "idle")
          => disco[peticion[p].nombre] = peticion[p].contenido

----------------------------------------
(* What the pages, the comments and the guides say, and the code does not keep:  *)
(* TLC finds a counterexample to each of the following.                          *)

\* A row whose upload was announced and that nobody deletes has its file.
AnnouncedHasFile ==
    \A n \in Nombres : (n \in anunciado /\ ~EnUso(n)) => disco[n] # Nada
===============================================================================
