--------------------------- MODULE RemoteEnrollment ---------------------------
(***************************************************************************)
(* POST /api/v1/public/enrollments (vistas/public_api.py): another system  *)
(* enrolls a student by e-mail address under a request id of its own, and  *)
(* repeats the request when the answer does not reach it.  The handler is  *)
(* cut where another transaction can commit between two of its statements. *)
(***************************************************************************)
EXTENDS Naturals

CONSTANTS
    Ids,         \* request_id
    Correos,     \* e-mail addresses; a user created here is named by it
    Cursos,      \* course codes that exist
    DePago,      \* the courses with a price (Curso.pagado)
    Peticiones,  \* requests the server works on at a time
    MaxCaidas,   \* bound: workers that die half way
    Nada

Pares == Correos \X Cursos

ASSUME RemoteAssumption ==
    /\ DePago \subseteq Cursos
    /\ MaxCaidas \in Nat
    /\ Nada \notin Ids /\ Nada \notin Correos \cup Cursos /\ Nada \notin Pares

VARIABLES
    usuarios,    \* Usuario: no row, created here and never verified, or active
    matricula,   \* EstudianteCurso; UNIQUE(usuario, curso)
    pagos,       \* enrollments that point to a payment
    registros,   \* RemoteEnrollmentRequest; UNIQUE(request_id)
    invitados,   \* new users that were sent the link to set their password
    peticion,
    respuestas,  \* the last answer the caller saw for each id, and its pair
    caidas

vars == <<usuarios, matricula, pagos, registros, invitados, peticion, respuestas, caidas>>

Peticion ==
    [pc: {"libre", "usuario", "matricula", "guardar", "correo", "responder"},
     id: Ids \cup {Nada}, par: Pares \cup {Nada},
     nuevo: BOOLEAN,              \* the user is created in this transaction
     respuesta: {"", "enrolled", "already_processed", "already_enrolled", "error"}]

Libre == [pc |-> "libre", id |-> Nada, par |-> Nada, nuevo |-> FALSE, respuesta |-> ""]
SinRespuesta == [par |-> Nada, respuesta |-> ""]

TypeOK ==
    /\ usuarios \in [Correos -> {"no", "pendiente", "activo"}]
    /\ matricula \in [Pares -> {"no", "vigente", "baja"}]
    /\ pagos \subseteq Pares
    /\ registros \in [Ids -> Pares \cup {Nada}]
    /\ invitados \subseteq Correos
    /\ peticion \in [Peticiones -> Peticion]
    /\ respuestas \in [Ids -> [par: Pares \cup {Nada},
                               respuesta: {"", "enrolled", "already_processed", "already_enrolled"}]]
    /\ caidas \in 0..MaxCaidas

Init ==
    /\ usuarios \in [Correos -> {"no", "activo"}]
    /\ matricula = [p \in Pares |-> "no"]
    /\ pagos = {}
    /\ registros = [i \in Ids |-> Nada]
    /\ invitados = {}
    /\ peticion = [r \in Peticiones |-> Libre]
    /\ respuestas = [i \in Ids |-> SinRespuesta]
    /\ caidas = 0

----------------------------------------
(* The handler *)

tablas == <<usuarios, matricula, pagos, registros>>

Ir(r, pc) == peticion' = [peticion EXCEPT ![r].pc = pc]
Contestar(r, respuesta) ==
    peticion' = [peticion EXCEPT ![r].pc = "responder", ![r].respuesta = respuesta]

\* A request with an API key, all fields and a confirmed payment: any other is
\* refused before anything is read.
Recibir(r, i, p) ==
    /\ peticion[r].pc = "libre"
    /\ peticion' = [peticion EXCEPT ![r] = [Libre EXCEPT !.id = i, !.par = p,
          !.pc = IF registros[i] = Nada THEN "usuario" ELSE "responder",
          !.respuesta = IF registros[i] = Nada THEN "" ELSE "already_processed"]]
    /\ UNCHANGED <<tablas, invitados, respuestas, caidas>>

EsNuevo(c) == usuarios[c] = "no"

\* The user is inserted and flushed, not committed.
BuscarUsuario(r) ==
    LET c == peticion[r].par[1] IN
    /\ peticion[r].pc = "usuario"
    /\ peticion' = [peticion EXCEPT ![r].pc = "matricula", ![r].nuevo = EsNuevo(c)]
    /\ UNCHANGED <<tablas, invitados, respuestas, caidas>>

BuscarMatricula(r) ==
    /\ peticion[r].pc = "matricula"
    /\ IF matricula[peticion[r].par] # "no" THEN Contestar(r, "already_enrolled")
       ELSE Ir(r, "guardar")
    /\ UNCHANGED <<tablas, invitados, respuestas, caidas>>

\* Mutation: request_id is not unique.
RepiteLlave(q) ==
    \/ q.nuevo /\ usuarios[q.par[1]] # "no"
    \/ matricula[q.par] # "no"

\* Mutation: the user's e-mail address is not looked at again.
SinCorreoUnico(q) ==
    \/ matricula[q.par] # "no"
    \/ registros[q.id] # Nada

\* The unique keys that the three inserts of the transaction meet.
ViolaUnico(q) ==
    \/ q.nuevo /\ usuarios[q.par[1]] # "no"
    \/ matricula[q.par] # "no"
    \/ registros[q.id] # Nada

Mas(q) == [usuarios EXCEPT ![q.par[1]] = IF q.nuevo THEN "pendiente" ELSE @]

\* Mutation: the enrollment is left for a later transaction.
SoloRegistro(q) ==
    /\ usuarios' = Mas(q)
    /\ registros' = [registros EXCEPT ![q.id] = q.par]
    /\ UNCHANGED matricula

\* Mutation: the request is not logged.
SinRegistro(q) ==
    /\ usuarios' = Mas(q)
    /\ matricula' = [matricula EXCEPT ![q.par] = "vigente"]
    /\ UNCHANGED registros

\* Mutation: the log names the student without the course.
RegistraCorreo(q) ==
    /\ usuarios' = Mas(q)
    /\ matricula' = [matricula EXCEPT ![q.par] = "vigente"]
    /\ registros' = [registros EXCEPT ![q.id] = q.par[1]]

Inserta(q) ==
    /\ usuarios' = Mas(q)
    /\ matricula' = [matricula EXCEPT ![q.par] = "vigente"]
    /\ registros' = [registros EXCEPT ![q.id] = q.par]

\* User, enrollment and log row are one commit, or an error and none of them.
Guardar(r) ==
    LET q == peticion[r] IN
    /\ q.pc = "guardar"
    /\ IF ViolaUnico(q)
       THEN Contestar(r, "error") /\ UNCHANGED <<usuarios, matricula, registros>>
       ELSE Inserta(q) /\ Ir(r, "correo")
    /\ UNCHANGED <<pagos, invitados, respuestas, caidas>>

\* The link reaches a new user, or the exception is swallowed.
Invitar(r) ==
    LET q == peticion[r] IN
    /\ q.pc = "correo" /\ q.nuevo
    /\ invitados' = invitados \cup {q.par[1]}
    /\ Contestar(r, "enrolled")
    /\ UNCHANGED <<tablas, respuestas, caidas>>

SinInvitar(r) ==
    /\ peticion[r].pc = "correo"
    /\ Contestar(r, "enrolled")
    /\ UNCHANGED <<tablas, invitados, respuestas, caidas>>

\* An error tells the caller nothing.
Responder(r) ==
    LET q == peticion[r] IN
    /\ q.pc = "responder"
    /\ peticion' = [peticion EXCEPT ![r] = Libre]
    /\ respuestas' = IF q.respuesta = "error" THEN respuestas
                     ELSE [respuestas EXCEPT ![q.id] = [par |-> q.par, respuesta |-> q.respuesta]]
    /\ UNCHANGED <<tablas, invitados, caidas>>

PerderRespuesta(r) ==
    /\ peticion[r].pc = "responder"
    /\ peticion' = [peticion EXCEPT ![r] = Libre]
    /\ UNCHANGED <<tablas, invitados, respuestas, caidas>>

Caer(r) ==
    /\ caidas < MaxCaidas
    /\ peticion[r].pc # "libre"
    /\ caidas' = caidas + 1
    /\ peticion' = [peticion EXCEPT ![r] = Libre]
    /\ UNCHANGED <<tablas, invitados, respuestas>>

----------------------------------------
(* Others: students register and enroll in the page of the course, and an  *)
(* administrator removes them                                              *)

Inscribirse(p) ==
    /\ usuarios[p[1]] = "activo"
    /\ matricula[p] # "vigente" \/ p[2] \in DePago
    /\ matricula' = [matricula EXCEPT ![p] = "vigente"]
    /\ pagos' = pagos \cup {p}
    /\ UNCHANGED <<usuarios, registros, invitados, peticion, respuestas, caidas>>

DarDeBaja(p) ==
    /\ matricula[p] = "vigente"
    /\ matricula' = [matricula EXCEPT ![p] = "baja"]
    /\ UNCHANGED <<usuarios, pagos, registros, invitados, peticion, respuestas, caidas>>

\* crear_cuenta; its mail is lost as easily.
Registrarse(c) ==
    /\ usuarios[c] = "no"
    /\ usuarios' = [usuarios EXCEPT ![c] = "pendiente"]
    /\ invitados' \in {invitados, invitados \cup {c}}
    /\ UNCHANGED <<matricula, pagos, registros, peticion, respuestas, caidas>>

\* The link of the mail.
Verificar(c) ==
    /\ c \in invitados /\ usuarios[c] = "pendiente"
    /\ usuarios' = [usuarios EXCEPT ![c] = "activo"]
    /\ UNCHANGED <<matricula, pagos, registros, invitados, peticion, respuestas, caidas>>

Atender(r) ==
    \/ BuscarUsuario(r) \/ BuscarMatricula(r) \/ Guardar(r)
    \/ Invitar(r) \/ SinInvitar(r)
    \/ Responder(r) \/ PerderRespuesta(r)

Llega(r) == \E i \in Ids, p \in Pares : Recibir(r, i, p)

Next ==
    \/ \E r \in Peticiones : Llega(r) \/ Atender(r) \/ Caer(r)
    \/ \E p \in Pares : Inscribirse(p) \/ DarDeBaja(p)
    \/ \E c \in Correos : Registrarse(c) \/ Verificar(c)

Spec == Init /\ [][Next]_vars

----------------------------------------
(* Properties *)

\* A request id is served at most once, with the enrollment it asked for, and
\* nothing else changes who is enrolled, however requests are repeated,
\* interleaved or cut off.
Servicio == INSTANCE IdempotentEnrollment
    WITH servidas <- registros,
         inscritos <- {p \in Pares : matricula[p] # "no"}

ImplementsService == Servicio!Spec

\* What the log says was processed is enrolled, and its user exists.
LoggedIsEnrolled ==
    \A i \in Ids : registros[i] # Nada =>
       /\ matricula[registros[i]] # "no"
       /\ usuarios[registros[i][1]] # "no"

\* A caller that was told enrolled or already_enrolled has a student enrolled
\* (or removed since), and one told already_processed the log row of its id,
\* although the rows were read before other requests committed.
AnswerIsTrue ==
    \A i \in Ids :
       LET a == respuestas[i] IN
       /\ a.respuesta \in {"enrolled", "already_enrolled"} => matricula[a.par] # "no"
       /\ a.respuesta \in {"enrolled", "already_processed"} => registros[i] # Nada

\* A verified address is never set back to pending by a request that found no
\* user before it was created.
VerifiedStaysVerified ==
    [][\A c \in Correos : usuarios[c] = "activo" => usuarios'[c] = "activo"]_vars

\* verifica_estudiante_asignado_a_curso
Acceso(p) == matricula[p] = "vigente" /\ (p \in pagos \/ p[2] \notin DePago)

----------------------------------------
(* What the pages, the comments and the guides say, and the code does not keep:  *)
(* TLC finds a counterexample to each of the following.                          *)

\* "Enrolls a user in a specific course": once enrolled was answered, a live
\* enrollment lets the student in (verifica_estudiante_asignado_a_curso).
EnrolledMayEnter ==
    \A i \in Ids : LET a == respuestas[i] IN
       (a.respuesta = "enrolled" /\ matricula[a.par] = "vigente") => Acceso(a.par)

\* "Already enrolled" is said of a student whose enrollment is live at that
\* moment.
AlreadyEnrolledIsLive ==
    [][\A r \in Peticiones :
          (peticion[r].pc = "matricula" /\ peticion'[r].respuesta = "already_enrolled")
             => matricula[peticion[r].par] = "vigente"]_vars

\* "All remote enrollment requests are logged".
AllLogged == \A i \in Ids : respuestas[i].respuesta # "" => registros[i] # Nada
=============================================================================
