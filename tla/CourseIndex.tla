----------------------------- MODULE CourseIndex -----------------------------
(***************************************************************************)
(* The order of a course: its sections, the resources of every section,    *)
(* and the page that follows or precedes a resource (bi.py,                *)
(* vistas/courses/base.py, vistas/courses/actions.py, db/tools.py).        *)
(* Sections and resources are rows with an index in the list of their      *)
(* parent; nothing in the database keeps an index single.  A request is    *)
(* split where another one can commit.                                     *)
(***************************************************************************)
EXTENDS Integers, FiniteSets

CONSTANTS
    Peticiones,    \* requests in flight at once
    Secciones, Recursos, Curso,
    Operaciones,   \* what the requests of an instance ask for
    Comienzo,      \* orders that a course may already have: index of every row
    PadreInicial,  \* and the section of the resources
    ConBloqueo,    \* the database honours SELECT ... FOR UPDATE (SQLite ignores it)
    Integridad,    \* the database enforces foreign keys
    MaxIndice,     \* bound: no move goes further down
    MaxOperaciones, MaxCaidas,   \* bounds: requests, and requests that die half way
    Nada

Filas == Secciones \cup Recursos

\* What an instance assumes of its constants.
IndexAssumption ==
    /\ Nada \notin Filas \cup Peticiones /\ Curso \notin Filas
    /\ Secciones \cap Recursos = {}
    /\ ConBloqueo \in BOOLEAN /\ Integridad \in BOOLEAN
    /\ {MaxIndice, MaxOperaciones, MaxCaidas} \subseteq Nat
    /\ \A l \in {Secciones, Recursos} : IsFiniteSet(l) /\ Cardinality(l) <= MaxIndice + 1

VARIABLES
    indice,        \* CursoSeccion.indice, CursoRecurso.indice; 0 for no row
    padre,         \* the course of a section, the section of a resource
    cerradura,     \* the request that holds the lock of a row
    peticion,      \* local state of every request
    operaciones, caidas

vars == <<indice, padre, cerradura, peticion, operaciones, caidas>>

----------------------------------------
Peticion == [pc: {"idle", "insertar", "actual", "superior", "inferior", "guardar",
                  "reorganizar"},
             lista: Secciones \cup {Curso, Nada},
             fila: Filas \cup {Nada},       \* to insert
             indice: 0..MaxIndice + 1,      \* asked for, or of the new row
             tarea: {"increment", "decrement"},
             actual: Filas \cup {Nada}, superior: Filas \cup {Nada},
             inferior: Filas \cup {Nada},   \* rows found
             espera: Filas \cup {Nada}]     \* the locked row it waits for

Libre == [pc |-> "idle", lista |-> Nada, fila |-> Nada, indice |-> 0,
          tarea |-> "increment", actual |-> Nada, superior |-> Nada,
          inferior |-> Nada, espera |-> Nada]

TypeOK ==
    /\ indice \in [Filas -> 0..MaxIndice + 1]
    /\ padre \in [Filas -> Secciones \cup {Curso, Nada}]
    /\ \A x \in Filas : padre[x] \in IF indice[x] = 0 THEN {Nada}
                                    ELSE IF x \in Secciones THEN {Curso} ELSE Secciones
    /\ cerradura \in [Filas -> Peticiones \cup {Nada}]
    /\ peticion \in [Peticiones -> Peticion]
    /\ operaciones <= MaxOperaciones /\ caidas <= MaxCaidas

----------------------------------------
(* The rows of a list *)

Existe(x) == indice[x] > 0
Hijos(l) == {x \in Filas : Existe(x) /\ padre[x] = l}
En(l, i) == {x \in Hijos(l) : indice[x] = i}
Listas == {Curso} \cup {s \in Secciones : Existe(s)}

\* Mutation: the new row takes the number of rows, not one more.
SinSumar(l) == Cardinality(Hijos(l))

\* func.count(...) + 1
NuevoIndice(l) == Cardinality(Hijos(l)) + 1

\* The ways to number a list again in the order of its indices; rows with the
\* same index come in any order.
Ordenes(l) ==
    LET n == Cardinality(Hijos(l)) IN
    {f \in [Hijos(l) -> 1..n] :
        \A x, y \in Hijos(l) :
            /\ x # y => f[x] # f[y]
            /\ indice[x] < indice[y] => f[x] < f[y]}

----------------------------------------
(* Requests *)

Soltar(p) == cerradura' = [x \in Filas |-> IF cerradura[x] = p THEN Nada ELSE cerradura[x]]

Pedir(p, op) ==
    /\ peticion[p].pc = "idle"
    /\ op \in Operaciones
    /\ operaciones < MaxOperaciones
    /\ operaciones' = operaciones + 1
    /\ UNCHANGED caidas

Terminar(p) ==
    /\ peticion' = [peticion EXCEPT ![p] = Libre]
    /\ Soltar(p)
    /\ UNCHANGED <<operaciones, caidas>>

\* The rows of a list are counted first: a section (nuevo_seccion) ...
nuevo_seccion(p) ==
    /\ Pedir(p, "nueva_seccion")
    /\ NuevoIndice(Curso) <= MaxIndice
    /\ \E x \in Secciones :
          /\ ~Existe(x) /\ \A q \in Peticiones : peticion[q].fila # x
          /\ peticion' = [peticion EXCEPT ![p] =
                [Libre EXCEPT !.pc = "insertar", !.lista = Curso, !.fila = x,
                              !.indice = NuevoIndice(Curso)]]
    /\ UNCHANGED <<indice, padre, cerradura>>

\* ... or a resource, of whatever type.
nuevo_recurso(p) ==
    /\ Pedir(p, "nuevo_recurso")
    /\ \E s \in Secciones, x \in Recursos :
          /\ Existe(s) /\ NuevoIndice(s) <= MaxIndice
          /\ ~Existe(x) /\ \A q \in Peticiones : peticion[q].fila # x
          /\ peticion' = [peticion EXCEPT ![p] =
                [Libre EXCEPT !.pc = "insertar", !.lista = s, !.fila = x,
                              !.indice = NuevoIndice(s)]]
    /\ UNCHANGED <<indice, padre, cerradura>>

\* The row is inserted with the index counted before; a section deleted
\* meanwhile makes the insertion fail where the key is enforced.
Insertar(p) ==
    LET q == peticion[p] IN
    /\ q.pc = "insertar"
    /\ IF Integridad /\ q.lista \notin Listas
       THEN UNCHANGED <<indice, padre>>
       ELSE /\ indice' = [indice EXCEPT ![q.fila] = q.indice]
            /\ padre' = [padre EXCEPT ![q.fila] = q.lista]
    /\ Terminar(p)

\* The move of the section or the resource at an index of its list.
modificar_indice_curso(p) ==
    /\ Pedir(p, "mover_seccion")
    /\ \E x \in Hijos(Curso), t \in {"increment", "decrement"} :
          /\ t = "increment" => indice[x] < MaxIndice
          /\ peticion' = [peticion EXCEPT ![p] =
                [Libre EXCEPT !.pc = "actual", !.lista = Curso, !.indice = indice[x],
                              !.tarea = t]]
    /\ UNCHANGED <<indice, padre, cerradura>>

modificar_indice_seccion(p) ==
    /\ Pedir(p, "mover_recurso")
    /\ \E x \in Recursos, t \in {"increment", "decrement"} :
          /\ Existe(x)
          /\ t = "increment" => indice[x] < MaxIndice
          /\ peticion' = [peticion EXCEPT ![p] =
                [Libre EXCEPT !.pc = "actual", !.lista = padre[x], !.indice = indice[x],
                              !.tarea = t]]
    /\ UNCHANGED <<indice, padre, cerradura>>

\* The rows are looked for one after the other: the sections above first,
\* the resources below first.
Buscado(q) == CASE q.pc = "actual"   -> q.indice
                [] q.pc = "superior" -> q.indice + 1
                [] OTHER             -> q.indice - 1

Despues(q) ==
    IF q.lista = Curso
    THEN [actual |-> "superior", superior |-> "inferior", inferior |-> "guardar"][q.pc]
    ELSE [actual |-> "inferior", inferior |-> "superior", superior |-> "guardar"][q.pc]

Buscando(q) == q.pc \in {"actual", "superior", "inferior"}

\* Mutation: the sections are read without FOR UPDATE.
SinBloqueo(q) == FALSE

\* Only the sections are read FOR UPDATE.
Bloquea(q) == ConBloqueo /\ q.lista = Curso

\* A search ends with the row x, or with none.
Hallar(p, x) ==
    LET q == peticion[p] IN
    peticion' = [peticion EXCEPT ![p] =
        IF q.pc = "actual" /\ x = Nada /\ q.lista = Curso THEN Libre
        ELSE [[q EXCEPT ![q.pc] = x, !.espera = Nada] EXCEPT !.pc = Despues(q)]]

\* scalar_one_or_none() over the rows committed now.
BuscarFila(p) ==
    LET q == peticion[p]
        filas == En(q.lista, Buscado(q)) IN
    /\ Buscando(q) /\ q.espera = Nada
    /\ \/ /\ filas = {}
          /\ Hallar(p, Nada)
          /\ IF q.pc = "actual" /\ q.lista = Curso THEN Soltar(p) ELSE UNCHANGED cerradura
       \/ \E x \in Filas :
             /\ filas = {x}
             /\ Bloquea(q) => cerradura[x] \in {Nada, p}
             /\ Hallar(p, x)
             /\ cerradura' = IF Bloquea(q) THEN [cerradura EXCEPT ![x] = p] ELSE cerradura
       \/ \E x \in Filas :       \* the row is locked by another request
             /\ filas = {x} /\ Bloquea(q) /\ cerradura[x] \notin {Nada, p}
             /\ peticion' = [peticion EXCEPT ![p].espera = x]
             /\ UNCHANGED cerradura
       \/ /\ Cardinality(filas) > 1      \* MultipleResultsFound
          /\ peticion' = [peticion EXCEPT ![p] = Libre]
          /\ Soltar(p)
    /\ UNCHANGED <<indice, padre, operaciones, caidas>>

\* The lock is free: the row counts if it still has the index looked for, and
\* a row that took that index meanwhile is not seen.
Despertar(p) ==
    LET q == peticion[p] IN
    /\ q.espera # Nada
    /\ cerradura[q.espera] = Nada
    /\ IF Existe(q.espera) /\ indice[q.espera] = Buscado(q)
       THEN /\ Hallar(p, q.espera)
            /\ cerradura' = [cerradura EXCEPT ![q.espera] = p]
       ELSE /\ Hallar(p, Nada)
            /\ IF q.pc = "actual" THEN Soltar(p) ELSE UNCHANGED cerradura
    /\ UNCHANGED <<indice, padre, operaciones, caidas>>

\* Two requests wait for a row of each other.
Interbloqueados(p) ==
    /\ peticion[p].espera # Nada
    /\ LET q == cerradura[peticion[p].espera] IN
       q # Nada /\ peticion[q].espera # Nada /\ cerradura[peticion[q].espera] = p

\* The database aborts one of them.
Interbloqueo(p) ==
    /\ Interbloqueados(p)
    /\ Terminar(p)
    /\ UNCHANGED <<indice, padre>>

----------------------------------------
(* The move is committed *)

Vecino(q) == IF q.tarea = "increment" THEN q.superior ELSE q.inferior

Destino(q) == IF q.tarea = "increment" THEN q.indice + 1 ELSE q.indice - 1

\* A section moves down without a neighbour and never above 1; a resource
\* needs a neighbour.
Mueve(q) ==
    IF q.lista = Curso
    THEN q.tarea = "increment" \/ q.indice # 1
    ELSE q.actual # Nada /\ Vecino(q) # Nada

Movidos(q) ==
    IF Vecino(q) = Nada THEN [indice EXCEPT ![q.actual] = Destino(q)]
    ELSE [indice EXCEPT ![q.actual] = Destino(q), ![Vecino(q)] = q.indice]

\* A row deleted meanwhile makes the UPDATE fail (StaleDataError).
GuardarOrden(p) ==
    LET q == peticion[p]
        filas == {q.actual, Vecino(q)} \ {Nada} IN
    /\ q.pc = "guardar"
    /\ indice' = IF Mueve(q) /\ \A x \in filas : Existe(x) THEN Movidos(q) ELSE indice
    /\ Terminar(p)
    /\ UNCHANGED padre

----------------------------------------
(* Deletion, and the numbering that follows it in a transaction of its own *)

Libres(l, p) == \A x \in Hijos(l) : cerradura[x] \in {Nada, p}

eliminar_recurso(p) ==
    /\ Pedir(p, "eliminar_recurso")
    /\ \E x \in Recursos :
          /\ Existe(x)
          /\ indice' = [indice EXCEPT ![x] = 0]
          /\ padre' = [padre EXCEPT ![x] = Nada]
          /\ peticion' = [peticion EXCEPT ![p] =
                [Libre EXCEPT !.pc = "reorganizar", !.lista = padre[x]]]
    /\ UNCHANGED cerradura

\* The resources of the section go with it where the key is enforced.
eliminar_seccion(p) ==
    /\ Pedir(p, "eliminar_seccion")
    /\ \E s \in Secciones :
          LET filas == {s} \cup (IF Integridad THEN Hijos(s) ELSE {}) IN
          /\ Existe(s) /\ cerradura[s] = Nada
          /\ indice' = [x \in Filas |-> IF x \in filas THEN 0 ELSE indice[x]]
          /\ padre' = [x \in Filas |-> IF x \in filas THEN Nada ELSE padre[x]]
    /\ peticion' = [peticion EXCEPT ![p] =
          [Libre EXCEPT !.pc = "reorganizar", !.lista = Curso]]
    /\ UNCHANGED cerradura

Renumerar(l, f) == [x \in Filas |-> IF x \in Hijos(l) THEN f[x] ELSE indice[x]]

\* reorganiza_indice_curso, reorganiza_indice_seccion: one SELECT locks the whole list.
Reorganizar(p) ==
    LET l == peticion[p].lista IN
    /\ peticion[p].pc = "reorganizar"
    /\ ConBloqueo => Libres(l, p)
    /\ \E f \in Ordenes(l) : indice' = Renumerar(l, f)
    /\ Terminar(p)
    /\ UNCHANGED padre

\* A request dies; what it did not commit is lost.
Caer(p) ==
    /\ peticion[p].pc # "idle"
    /\ caidas < MaxCaidas
    /\ caidas' = caidas + 1
    /\ peticion' = [peticion EXCEPT ![p] = Libre]
    /\ Soltar(p)
    /\ UNCHANGED <<indice, padre, operaciones>>

----------------------------------------
(* The page before and after a resource (crear_indice_recurso).  The value is
   the set of answers the query may give; empty when there is none. *)

\* .order_by(order).first()
Extremos(l, d) ==
    {x \in Hijos(l) : \A y \in Hijos(l) :
        IF d = 1 THEN indice[x] <= indice[y] ELSE indice[x] >= indice[y]}

NavegarDesde(r, d) ==
    LET juntos == En(padre[r], indice[r] + d) IN
    IF juntos # {} THEN juntos
    ELSE UNION {Extremos(s, d) : s \in En(Curso, indice[padre[r]] + d)}

Navegar(r, d) == IF padre[r] \in Listas THEN NavegarDesde(r, d) ELSE {}

----------------------------------------
Init ==
    /\ indice \in Comienzo
    /\ padre = [x \in Filas |-> IF indice[x] = 0 THEN Nada
                                ELSE IF x \in Secciones THEN Curso ELSE PadreInicial[x]]
    /\ cerradura = [x \in Filas |-> Nada]
    /\ peticion = [p \in Peticiones |-> Libre]
    /\ operaciones = 0
    /\ caidas = 0

Seguir(p) ==
    \/ Insertar(p)
    \/ BuscarFila(p) \/ Despertar(p) \/ Interbloqueo(p) \/ GuardarOrden(p)
    \/ Reorganizar(p)

Empezar(p) ==
    \/ nuevo_seccion(p) \/ nuevo_recurso(p)
    \/ modificar_indice_curso(p) \/ modificar_indice_seccion(p)
    \/ eliminar_recurso(p) \/ eliminar_seccion(p)

Next == \E p \in Peticiones : Seguir(p) \/ Empezar(p) \/ Caer(p)

Spec == Init /\ [][Next]_vars

----------------------------------------
(* Properties *)

Secuencial(l) == {indice[x] : x \in Hijos(l)} = 1..Cardinality(Hijos(l))

\* One request at a time and none that dies: the resources of a section are
\* numbered from 1 without a gap, through insertions, moves and deletions,
\* whenever no deletion is half way.
ResourcesSequential ==
    \A s \in Secciones :
        \/ ~Existe(s)
        \/ \E p \in Peticiones : peticion[p].pc = "reorganizar" /\ peticion[p].lista = s
        \/ Secuencial(s)

\* The page after a resource is the next one in the order of the course, and the
\* page before it the previous one, while lists are in sequence and no section
\* is empty.
Precede(x, y) ==
    \/ padre[x] = padre[y] /\ indice[x] < indice[y]
    \/ padre[x] # padre[y] /\ indice[padre[x]] < indice[padre[y]]

Vigentes == {r \in Recursos : Existe(r) /\ padre[r] \in Listas}

NavigationFollowsOrder ==
    (/\ \A l \in Listas : Secuencial(l)
     /\ \A s \in Listas : Hijos(s) # {})
    => \A x, y \in Vigentes :
          LET seguidos == Precede(x, y)
                          /\ ~\E z \in Vigentes : Precede(x, z) /\ Precede(z, y) IN
          /\ y \in Navegar(x, 1) <=> seguidos
          /\ x \in Navegar(y, -1) <=> seguidos

\* A move that holds both rows exchanges their indices, whatever the other
\* requests do.
LockedMovesExchange ==
    \A p \in Peticiones :
          LET q == peticion[p] IN
          (q.pc = "guardar" /\ peticion'[p].pc = "idle" /\ caidas' = caidas
             /\ q.lista = Curso /\ Mueve(q) /\ Vecino(q) # Nada)
          => /\ indice'[q.actual] = indice[Vecino(q)]
             /\ indice'[Vecino(q)] = indice[q.actual]

----------------------------------------
(* What the pages, the comments and the guides say, and the code does not keep:  *)
(* TLC finds a counterexample to each of the following.                          *)

\* The sections of a course are in sequence (docs/course-creator/
\* sections-resources.md).
SectionsSequential ==
    \/ \E p \in Peticiones : peticion[p].pc = "reorganizar"
    \/ Secuencial(Curso)

\* No two sections share an index.
SectionsDistinct ==
    \A x, y \in Hijos(Curso) : x # y => indice[x] # indice[y]

\* A resource that others follow in the course has a next page.
NextCrossesSections ==
    (\A l \in Listas : Secuencial(l))
    => \A x \in Vigentes : (\E y \in Vigentes : Precede(x, y)) => Navegar(x, 1) # {}
===============================================================================
