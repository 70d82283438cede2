------------------------------ MODULE LmsTables ------------------------------
(***************************************************************************)
(* The rows one paid course keeps in the database of the LMS, and the      *)
(* requests that the workers are serving.  A row is a record, a table a    *)
(* function; a request is the local state that a view function carries     *)
(* from one SQL statement to the next.  Commits are atomic; what a request *)
(* read before another one committed may be stale when it is used.         *)
(***************************************************************************)
EXTENDS Naturals, FiniteSets

CONSTANTS
    Estudiantes,    \* user names of the students
    Personal,       \* the instructor or administrator who enrolls by hand
    PagoIds,        \* primary keys of Pago (bounds the number of payments)
    Ordenes,        \* PayPal order ids (bounds the number of captures)
    Peticiones,     \* requests that can be in flight at once
    Cursos,         \* the settings the course can have
    Descuentos,     \* discount_type and discount_value a coupon can have
    Limites,        \* values of Coupon.max_uses; 0 stands for NULL, no limit
    NoVerificados,  \* students who must still verify their e-mail
    Traducido,      \* the catalog translates the coupon prefix consistently
    MaxEdiciones,   \* bound: edits of the course and of its coupon
    MaxCaidas,      \* bound: requests that die half way
    Nada            \* NULL

ASSUME TablesAssumption ==
    /\ Nada \notin Estudiantes \cup {Personal} \cup PagoIds \cup Ordenes
    /\ Personal \notin Estudiantes
    /\ Cursos \subseteq [pagado: BOOLEAN, auditable: BOOLEAN, precio: Nat]
    /\ Descuentos \subseteq [discount_type: {"percentage", "fixed"},
                             discount_value: Nat \ {0}]
    /\ \A d \in Descuentos : d.discount_type = "percentage" => d.discount_value <= 100
    /\ Limites \subseteq Nat
    /\ NoVerificados \subseteq Estudiantes
    /\ Traducido \in BOOLEAN
    /\ MaxEdiciones \in Nat /\ MaxCaidas \in Nat

VARIABLES
    curso,         \* the Curso row
    cupon,         \* the Coupon row of the course (one code)
    pagos,         \* Pago rows by primary key
    inscripcion,   \* EstudianteCurso rows; UNIQUE(usuario, curso) makes it a function
    indice,        \* users with CursoRecursoAvance rows for the course
    ordenes,       \* external: what PayPal has captured
    pagina,        \* amount on the open payment page of a student, 0 for none
    peticion,      \* local state of every request in flight
    ediciones,     \* edits so far
    caidas         \* requests lost so far

vars == <<curso, cupon, pagos, inscripcion, indice, ordenes, pagina, peticion,
          ediciones, caidas>>

----------------------------------------
(* Rows *)

Coupon == [id: Nat, existe: BOOLEAN, discount_type: {"percentage", "fixed"},
           discount_value: Nat, max_uses: Nat, current_uses: Nat, vencido: BOOLEAN]

Pago == [usuario: Estudiantes, estado: {"pending", "completed"}, monto: Nat,
         metodo: {"paypal", "free", "audit", "admin_enrollment"},
         referencia: Ordenes \cup {Nada}, cupon: BOOLEAN, audit: BOOLEAN]

EstudianteCurso == [vigente: BOOLEAN, pago: PagoIds]

Captura == [usuario: Estudiantes, monto: Nat \ {0}]

Peticion ==
    [pc: {"idle", "lookup", "enroll", "pending", "admin", "record", "flush",
          "pay", "coupon", "index", "index_admin"},
     usuario: Estudiantes \cup {Nada},
     metodo: {"paypal", "free", "audit", "admin_enrollment"},
     monto: Nat,
     audit: BOOLEAN,
     cupon: Nat,                    \* id of the applied coupon, 0 for none
     usos: Nat,                     \* current_uses as the request read it
     pago: PagoIds \cup {Nada},     \* Pago object held by a confirmation
     orden: Ordenes \cup {Nada},
     leida: {"ninguna", "inactiva", "activa"}]  \* EstudianteCurso as read

Libre == [pc |-> "idle", usuario |-> Nada, metodo |-> "free", monto |-> 0,
          audit |-> FALSE, cupon |-> 0, usos |-> 0, pago |-> Nada,
          orden |-> Nada, leida |-> "ninguna"]

SinCupon == [id |-> 0, existe |-> FALSE, discount_type |-> "fixed",
             discount_value |-> 0, max_uses |-> 0, current_uses |-> 0,
             vencido |-> FALSE]

\* NULL is not a row.
ASSUME NadaAssumption == Nada \notin Pago \cup EstudianteCurso \cup Captura

TypeOK ==
    /\ curso \in Cursos
    /\ cupon \in Coupon
    /\ pagos \in [PagoIds -> Pago \cup {Nada}]
    /\ inscripcion \in [Estudiantes -> EstudianteCurso \cup {Nada}]
    /\ indice \subseteq Estudiantes \cup {Personal}
    /\ ordenes \in [Ordenes -> Captura \cup {Nada}]
    /\ pagina \in [Estudiantes -> Nat]
    /\ peticion \in [Peticiones -> Peticion]
    /\ ediciones \in 0..MaxEdiciones
    /\ caidas \in 0..MaxCaidas

Init ==
    /\ curso \in Cursos
    /\ cupon = SinCupon
    /\ pagos = [p \in PagoIds |-> Nada]
    /\ inscripcion = [s \in Estudiantes |-> Nada]
    /\ indice = {}
    /\ ordenes = [o \in Ordenes |-> Nada]
    /\ pagina = [s \in Estudiantes |-> 0]
    /\ peticion = [r \in Peticiones |-> Libre]
    /\ ediciones = 0
    /\ caidas = 0

----------------------------------------
(* Queries *)

Existe(p) == pagos[p] # Nada

Completado(p) == Existe(p) /\ pagos[p].estado = "completed"

\* Mutation: the filter on the state is forgotten.
PagosDelEstudiante(s) == {p \in PagoIds : Existe(p) /\ pagos[p].usuario = s}

\* Pago.filter_by(usuario, curso, estado="pending")
Pendientes(s) == {p \in PagoIds : Existe(p) /\ pagos[p].estado = "pending"
                                            /\ pagos[p].usuario = s}

\* EstudianteCurso.filter_by(usuario, curso, vigente=True)
Activa(s) == inscripcion[s] # Nada /\ inscripcion[s].vigente

\* What a request sees when it looks up the student's EstudianteCurso row.
Leer(s) == IF inscripcion[s] = Nada THEN "ninguna"
           ELSE IF inscripcion[s].vigente THEN "activa" ELSE "inactiva"

\* A bound: with no key left an insert fails like any other database error.
HayPagoLibre == \E p \in PagoIds : ~Existe(p)
PagoNuevo == CHOOSE p \in PagoIds : ~Existe(p)

----------------------------------------
(* Writes of the unit of work *)

\* The insert of a second row for the same student is refused by
\* uq_estudiante_curso_usuario_curso and rolls the whole transaction back.
IntegrityError(s, leida) == leida = "ninguna" /\ inscripcion[s] # Nada

RolledBack(s, leida) == IntegrityError(s, leida) \/ ~HayPagoLibre

\* The row the commit leaves: a new one, or the existing one with the columns
\* that changed since it was loaded (an attribute set to the value already
\* read is not part of the UPDATE).
FilaGuardada(s, leida, p) ==
    [vigente |-> leida # "activa" \/ inscripcion[s].vigente, pago |-> p]

Terminar(r) == peticion' = [peticion EXCEPT ![r] = Libre]
Avanzar(r, pc) == peticion' = [peticion EXCEPT ![r].pc = pc]

=============================================================================
