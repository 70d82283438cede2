------------------------------- MODULE Messages -------------------------------
(***************************************************************************)
(* Threads between the students of a course and its staff, and the reports *)
(* of messages (vistas/messages.py).  A thread is opened by a student, is  *)
(* fixed by the student and closed by the staff.  A request reads a row    *)
(* first and writes later, and only the columns in which it differs from   *)
(* what was read.                                                          *)
(***************************************************************************)
EXTENDS Naturals, FiniteSets

CONSTANTS
    Hilos, Mensajes,
    Alumnos, Personal,   \* users by their role
    Peticiones,
    MaxOperaciones, MaxCaidas,   \* bounds: requests, and requests that die
    Nada

Usuarios == Alumnos \cup Personal

VARIABLES
    hilo,        \* MessageThread rows
    mensaje,     \* Message rows
    inscritos,   \* students with an enrollment in force
    peticion, operaciones, caidas

vars == <<hilo, mensaje, inscritos, peticion, operaciones, caidas>>

----------------------------------------
\* cerrado: closed_at is set.
Hilo == [status: {"open", "fixed", "closed"}, student: Alumnos, cerrado: BOOLEAN]

\* The reason of a report is who reported.
Mensaje == [hilo: Hilos, sender: Usuarios, leido: BOOLEAN,
            is_reported: BOOLEAN, reason: Usuarios \cup {Nada}]

\* What an instance assumes of its constants; the null value is no row.
MessagesAssumption ==
    /\ Nada \notin Hilos \cup Mensajes \cup Usuarios
    /\ Alumnos \cap Personal = {}
    /\ MaxOperaciones \in Nat /\ MaxCaidas \in Nat
    /\ Nada \notin Hilo \cup Mensaje

Peticion == [pc: {"idle", "hilo", "respuesta", "estado", "leer", "informe"},
             usuario: Usuarios \cup {Nada},
             hilo: Hilos \cup {Nada}, mensaje: Mensajes \cup {Nada},
             status: {"open", "fixed", "closed"},
             visto: SUBSET Mensajes,           \* unread messages of a page
             antes: Mensaje \cup {Nada}, despues: Mensaje \cup {Nada}]  \* of a report

Libre == [pc |-> "idle", usuario |-> Nada, hilo |-> Nada, mensaje |-> Nada,
          status |-> "open", visto |-> {}, antes |-> Nada, despues |-> Nada]

Existe(m) == mensaje[m] # Nada
Abierto(h) == hilo[h] # Nada

TypeOK ==
    /\ hilo \in [Hilos -> Hilo \cup {Nada}]
    /\ mensaje \in [Mensajes -> Mensaje \cup {Nada}]
    /\ inscritos \subseteq Alumnos
    /\ peticion \in [Peticiones -> Peticion]
    /\ operaciones <= MaxOperaciones /\ caidas <= MaxCaidas
    \* a message is in a thread; a thread has a message of its student
    /\ \A m \in Mensajes : Existe(m) => Abierto(mensaje[m].hilo)
    /\ \A h \in Hilos : Abierto(h) =>
          \E m \in Mensajes : Existe(m) /\ mensaje[m].hilo = h
                              /\ mensaje[m].sender = hilo[h].student

Pedir(p) ==
    /\ peticion[p].pc = "idle"
    /\ operaciones < MaxOperaciones
    /\ operaciones' = operaciones + 1
    /\ UNCHANGED <<hilo, mensaje, inscritos, caidas>>

Terminar(p) == /\ peticion' = [peticion EXCEPT ![p] = Libre]
               /\ UNCHANGED <<inscritos, operaciones, caidas>>

\* The staff of the course is appointed all along.
check_course_access(u) == u \in Personal \cup inscritos

\* A student keeps the thread after leaving the course.
check_thread_access(h, u) == u \in Personal \/ hilo[h].student = u

----------------------------------------
(* Threads *)

Reservado(m) == \E p \in Peticiones : peticion[p].mensaje = m
SinUsar(m) == ~Existe(m) /\ ~Reservado(m)

new_thread(p) ==
    /\ Pedir(p)
    /\ \E u \in Alumnos, h \in Hilos, m \in Mensajes :
          /\ check_course_access(u)
          /\ ~Abierto(h) /\ \A q \in Peticiones : peticion[q].hilo # h
          /\ SinUsar(m)
          /\ peticion' = [peticion EXCEPT ![p] =
                [Libre EXCEPT !.pc = "hilo", !.usuario = u, !.hilo = h, !.mensaje = m]]

Escrito(q) ==
    [mensaje EXCEPT ![q.mensaje] = [hilo |-> q.hilo, sender |-> q.usuario, leido |-> FALSE,
                                    is_reported |-> FALSE, reason |-> Nada]]

\* The thread is flushed and committed with its first message.
GuardarHilo(p) ==
    LET q == peticion[p] IN
    /\ q.pc = "hilo"
    /\ hilo' = [hilo EXCEPT ![q.hilo] = [status |-> "open", student |-> q.usuario, cerrado |-> FALSE]]
    /\ mensaje' = Escrito(q)
    /\ Terminar(p)

Respondible(h) == hilo[h].status # "closed"

reply_to_thread(p) ==
    /\ Pedir(p)
    /\ \E u \in Usuarios, h \in Hilos, m \in Mensajes :
          /\ Abierto(h) /\ SinUsar(m)
          /\ check_thread_access(h, u)
          /\ Respondible(h)
          /\ peticion' = [peticion EXCEPT ![p] =
                [Libre EXCEPT !.pc = "respuesta", !.usuario = u, !.hilo = h, !.mensaje = m]]

GuardarRespuesta(p) ==
    /\ peticion[p].pc = "respuesta"
    /\ mensaje' = Escrito(peticion[p])
    /\ Terminar(p)
    /\ UNCHANGED hilo

Permitido(u, s) == IF s = "fixed" THEN u \in Alumnos ELSE u \in Personal

\* Mutation: a closed thread can be fixed.
Cualquiera(de, a) == a \in {"fixed", "closed"} \ {de}

\* valid_transitions
Transicion(de, a) ==
    a \in [open |-> {"fixed", "closed"}, fixed |-> {"closed"}, closed |-> {}][de]

change_thread_status(p) ==
    /\ Pedir(p)
    /\ \E u \in Usuarios, h \in Hilos, s \in {"fixed", "closed"} :
          /\ Abierto(h)
          /\ check_thread_access(h, u)
          /\ Permitido(u, s)
          /\ Transicion(hilo[h].status, s)
          /\ peticion' = [peticion EXCEPT ![p] =
                [Libre EXCEPT !.pc = "estado", !.usuario = u, !.hilo = h, !.status = s]]

Fechado(s, antes) == antes \/ s = "closed"

GuardarEstado(p) ==
    LET q == peticion[p] IN
    /\ q.pc = "estado"
    /\ hilo' = [hilo EXCEPT ![q.hilo].status = q.status,
                            ![q.hilo].cerrado = Fechado(q.status, hilo[q.hilo].cerrado)]
    /\ Terminar(p)
    /\ UNCHANGED mensaje

\* The staff reads a thread: what others wrote is marked.
view_thread(p) ==
    /\ Pedir(p)
    /\ \E u \in Personal, h \in Hilos :
          LET visto == {m \in Mensajes : /\ Existe(m) /\ mensaje[m].hilo = h
                                         /\ mensaje[m].sender # u /\ ~mensaje[m].leido} IN
          /\ visto # {}
          /\ peticion' = [peticion EXCEPT ![p] =
                [Libre EXCEPT !.pc = "leer", !.usuario = u, !.hilo = h, !.visto = visto]]

Vistos(q) == q.visto

MarcarLeidos(p) ==
    /\ peticion[p].pc = "leer"
    /\ mensaje' = [m \in Mensajes |-> IF m \in Vistos(peticion[p])
                                      THEN [mensaje[m] EXCEPT !.leido = TRUE] ELSE mensaje[m]]
    /\ Terminar(p)
    /\ UNCHANGED hilo

----------------------------------------
(* Reports *)

\* Mutation: the reason stays.
ConMotivo(m) == [mensaje[m] EXCEPT !.is_reported = FALSE]

Resuelto(m) == [mensaje[m] EXCEPT !.is_reported = FALSE, !.reason = Nada]

Informado(m, u) == [mensaje[m] EXCEPT !.is_reported = TRUE, !.reason = u]

\* Students of the course may report any of its messages.
PuedeInformar(u, m) ==
    IF u \in Alumnos THEN check_course_access(u) ELSE check_thread_access(mensaje[m].hilo, u)

\* report_message, and standalone_report_message with the same checks
report_message(p) ==
    /\ Pedir(p)
    /\ \E u \in Usuarios, m \in Mensajes :
          /\ Existe(m) /\ PuedeInformar(u, m)
          /\ peticion' = [peticion EXCEPT ![p] =
                [Libre EXCEPT !.pc = "informe", !.usuario = u, !.mensaje = m, !.antes = mensaje[m],
                    !.despues = Informado(m, u)]]

resolve_report(p) ==
    /\ Pedir(p)
    /\ \E m \in Mensajes :
          /\ Existe(m) /\ mensaje[m].is_reported
          /\ peticion' = [peticion EXCEPT ![p] =
                [Libre EXCEPT !.pc = "informe", !.mensaje = m, !.antes = mensaje[m],
                              !.despues = Resuelto(m)]]

GuardarInforme(p) ==
    LET q == peticion[p] IN
    /\ q.pc = "informe"
    /\ mensaje' = [mensaje EXCEPT ![q.mensaje] =
          [c \in DOMAIN @ |-> IF q.despues[c] = q.antes[c] THEN @[c] ELSE q.despues[c]]]
    /\ Terminar(p)
    /\ UNCHANGED hilo

----------------------------------------
\* admin_course_unenrollment
Desinscribir ==
    /\ \E u \in inscritos : inscritos' = inscritos \ {u}
    /\ UNCHANGED <<hilo, mensaje, peticion, operaciones, caidas>>

Caer(p) ==
    /\ peticion[p].pc # "idle"
    /\ caidas < MaxCaidas
    /\ caidas' = caidas + 1
    /\ peticion' = [peticion EXCEPT ![p] = Libre]
    /\ UNCHANGED <<hilo, mensaje, inscritos, operaciones>>

Init ==
    /\ hilo = [h \in Hilos |-> Nada]
    /\ mensaje = [m \in Mensajes |-> Nada]
    /\ inscritos = Alumnos
    /\ peticion = [p \in Peticiones |-> Libre]
    /\ operaciones = 0
    /\ caidas = 0

Sigue(p) ==
    \/ GuardarHilo(p) \/ GuardarRespuesta(p) \/ GuardarEstado(p)
    \/ MarcarLeidos(p) \/ GuardarInforme(p)

Empieza(p) ==
    \/ new_thread(p) \/ reply_to_thread(p) \/ change_thread_status(p) \/ view_thread(p)
    \/ report_message(p) \/ resolve_report(p)

Next == Desinscribir \/ \E p \in Peticiones : Sigue(p) \/ Empieza(p) \/ Caer(p)

Spec == Init /\ [][Next]_vars

----------------------------------------
(* Properties *)

\* Through overlapping changes of status: a closed thread has the date of its
\* closing (change_thread_status).
ClosedHasDate == \A h \in Hilos : Abierto(h) /\ hilo[h].status = "closed" => hilo[h].cerrado

\* What is marked as read was on a page that the staff opened and was written by
\* somebody else, through overlapping replies (view_thread).
ReadWasSeen ==
    \A m \in Mensajes :
          (Existe(m) /\ ~mensaje[m].leido /\ mensaje'[m].leido)
          => \E p \in Peticiones : m \in peticion[p].visto
                                   /\ peticion[p].usuario # mensaje[m].sender

\* One request at a time: a report has its reason, and a message without a report
\* has none (report_message, resolve_report).
ReportHasReason ==
    \A m \in Mensajes : Existe(m) => (mensaje[m].is_reported <=> mensaje[m].reason # Nada)

\* One request at a time: a thread that is closed stays closed, and nobody
\* answers it (change_thread_status, reply_to_thread).
ClosedIsFinal ==
    \A h \in Hilos :
          (Abierto(h) /\ hilo[h].status = "closed") => hilo'[h].status = "closed"

ClosedIsSilent ==
    \A m \in Mensajes :
          (~Existe(m) /\ mensaje'[m] # Nada /\ Abierto(mensaje'[m].hilo))
          => hilo[mensaje'[m].hilo].status # "closed"

\* A report that was answered reaches the administrators: it is listed until one
\* of them resolves it (report_message, admin_flagged_messages).
ReportIsListed ==
    \A p \in Peticiones :
          (GuardarInforme(p) /\ peticion[p].usuario # Nada)
          => mensaje'[peticion[p].mensaje].is_reported
===============================================================================
