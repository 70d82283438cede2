----------------------------- MODULE CourseForum -----------------------------
(***************************************************************************)
(* The status of a course, who may see it, and its forum (bi.py,           *)
(* vistas/courses/actions.py, vistas/courses/base.py, vistas/forum.py).    *)
(* A change of status commits two or three times: the status, the closing  *)
(* of the forum, the removal from the web site.  A request writes only the *)
(* columns in which it differs from the row that it read.                  *)
(***************************************************************************)
EXTENDS Naturals, FiniteSets

CONSTANTS
    Peticiones,
    Mensajes,         \* forum messages, roots and replies
    Estados,          \* statuses that requests ask for; the pages offer three
    Formularios,      \* what the course form says of publico
    Acciones,         \* what the requests of an instance do
    MaxOperaciones, MaxCaidas,   \* bounds: requests, and requests that die
    Nada

VARIABLES
    curso,        \* the Curso row
    mensaje,      \* ForoMensaje rows
    peticion, operaciones, caidas

vars == <<curso, mensaje, peticion, operaciones, caidas>>

----------------------------------------
Curso == [estado: {"draft", "open", "closed", "finalized"}, publico: BOOLEAN,
          modalidad: {"self_paced", "live"}, foro: BOOLEAN]

\* padre is Nada for the first message of a thread.
Mensaje == [estado: {"abierto", "cerrado"}, padre: Mensajes \cup {Nada}]

\* What an instance assumes of its constants; the null value is no row.
ForumAssumption ==
    /\ Nada \notin Mensajes
    /\ Estados \subseteq {"draft", "open", "closed", "finalized"}
    /\ Formularios \subseteq BOOLEAN
    /\ MaxOperaciones \in Nat /\ MaxCaidas \in Nat
    /\ Nada \notin Curso \cup Mensaje

Peticion == [pc: {"idle", "estado", "cerrar", "despublicar", "publicar", "editar",
                  "mensaje", "respuesta", "marcar"},
             leido: Curso \cup {Nada},      \* the course when it was read
             escribe: Curso \cup {Nada},    \* the course as the request leaves it
             mensaje: Mensajes \cup {Nada},
             fila: Mensaje \cup {Nada}]     \* the message to insert or to write

Libre == [pc |-> "idle", leido |-> Nada, escribe |-> Nada, mensaje |-> Nada, fila |-> Nada]

Existe(m) == mensaje[m] # Nada
EsRaiz(m) == mensaje[m].padre = Nada

TypeOK ==
    /\ curso \in Curso
    /\ mensaje \in [Mensajes -> Mensaje \cup {Nada}]
    /\ peticion \in [Peticiones -> Peticion]
    /\ operaciones <= MaxOperaciones /\ caidas <= MaxCaidas
    \* a thread is a first message and its replies
    /\ \A m \in Mensajes : (Existe(m) /\ ~EsRaiz(m)) =>
          Existe(mensaje[m].padre) /\ EsRaiz(mensaje[m].padre)

Pedir(p, accion) ==
    /\ peticion[p].pc = "idle"
    /\ accion \in Acciones
    /\ operaciones < MaxOperaciones
    /\ operaciones' = operaciones + 1
    /\ UNCHANGED <<curso, mensaje, caidas>>

Terminar(p) == peticion' = [peticion EXCEPT ![p] = Libre]

\* What an UPDATE of the request leaves of the row committed now.
Escrito(q) ==
    [c \in DOMAIN curso |-> IF q.escribe[c] = q.leido[c] THEN curso[c] ELSE q.escribe[c]]

----------------------------------------
(* Status and publication *)

\* cambiar_estatus_curso reads the course ...
cambia_estado_curso_por_id(p) ==
    /\ Pedir(p, "estado")
    /\ \E e \in Estados :
          peticion' = [peticion EXCEPT ![p] =
             [Libre EXCEPT !.pc = "estado", !.leido = curso, !.escribe = [curso EXCEPT !.estado = e]]]

\* ... a course that becomes finalized closes its forum ...
Finaliza(q) == q.escribe.estado = "finalized" /\ q.leido.estado # "finalized"

\* ... commits the status ...
GuardarEstado(p) ==
    LET q == peticion[p] IN
    /\ q.pc = "estado"
    /\ curso' = Escrito(q)
    /\ peticion' = [peticion EXCEPT ![p].pc = IF Finaliza(q) THEN "cerrar" ELSE "despublicar"]
    /\ UNCHANGED <<mensaje, operaciones, caidas>>

\* ... ForoMensaje.close_all_for_course ...
close_all_for_course(p) ==
    /\ peticion[p].pc = "cerrar"
    /\ mensaje' = [m \in Mensajes |->
          IF Existe(m) THEN [mensaje[m] EXCEPT !.estado = "cerrado"] ELSE Nada]
    /\ peticion' = [peticion EXCEPT ![p].pc = "despublicar"]
    /\ UNCHANGED <<curso, operaciones, caidas>>

\* ... and takes a course that is not open off the site.
PublicoDespues == IF curso.estado # "open" THEN FALSE ELSE curso.publico

Despublicar(p) ==
    /\ peticion[p].pc = "despublicar"
    /\ curso' = [curso EXCEPT !.publico = PublicoDespues]
    /\ Terminar(p)
    /\ UNCHANGED <<mensaje, operaciones, caidas>>

\* cambiar_curso_publico: only an open course; only the change to public is
\* committed.
cambia_curso_publico(p) ==
    /\ Pedir(p, "publicar")
    /\ peticion' = [peticion EXCEPT ![p] =
          IF curso.estado = "open" /\ ~curso.publico
          THEN [Libre EXCEPT !.pc = "publicar", !.leido = curso,
                             !.escribe = [curso EXCEPT !.publico = TRUE]]
          ELSE Libre]

\* A self-paced course has no forum.
ForoPermitido(modalidad, foro) == foro /\ modalidad # "self_paced"

\* editar_curso: the page sends every field, and publico is not compared with the
\* status.
editar_curso(p) ==
    /\ Pedir(p, "editar")
    /\ \E publico \in Formularios, modalidad \in {"self_paced", "live"}, foro \in BOOLEAN :
          peticion' = [peticion EXCEPT ![p] =
             [Libre EXCEPT !.pc = "editar", !.leido = curso,
                !.escribe = [estado |-> curso.estado, publico |-> publico, modalidad |-> modalidad,
                             foro |-> ForoPermitido(modalidad, foro)]]]

GuardarCurso(p) ==
    /\ peticion[p].pc \in {"publicar", "editar"}
    /\ curso' = Escrito(peticion[p])
    /\ Terminar(p)
    /\ UNCHANGED <<mensaje, operaciones, caidas>>

----------------------------------------
(* Forum *)

\* get_thread_root
Raiz(m) == IF EsRaiz(m) THEN m ELSE mensaje[m].padre

is_thread_open(m) == mensaje[Raiz(m)].estado = "abierto"

\* The forum tests the status for "finalizado", which no request sets.
is_course_forum_active == curso.foro /\ curso.estado # "finalizado"

can_reply(m) == is_thread_open(m) /\ is_course_forum_active

Nuevo(m) == ~Existe(m) /\ \A p \in Peticiones : peticion[p].mensaje # m

nuevo_mensaje(p) ==
    /\ Pedir(p, "mensaje")
    /\ curso.foro /\ curso.estado # "finalizado"
    /\ \E m \in Mensajes :
          /\ Nuevo(m)
          /\ peticion' = [peticion EXCEPT ![p] =
                [Libre EXCEPT !.pc = "mensaje", !.mensaje = m,
                              !.fila = [estado |-> "abierto", padre |-> Nada]]]

\* A reply hangs from the first message of the thread.
PadreDeRespuesta(m) == Raiz(m)

responder_mensaje(p) ==
    /\ Pedir(p, "respuesta")
    /\ \E m, r \in Mensajes :
          /\ Existe(m) /\ Nuevo(r)
          /\ can_reply(m)
          /\ peticion' = [peticion EXCEPT ![p] =
                [Libre EXCEPT !.pc = "respuesta", !.mensaje = r,
                              !.fila = [estado |-> "abierto", padre |-> PadreDeRespuesta(m)]]]

InsertarMensaje(p) ==
    LET q == peticion[p] IN
    /\ q.pc \in {"mensaje", "respuesta"}
    /\ mensaje' = [mensaje EXCEPT ![q.mensaje] = q.fila]
    /\ Terminar(p)
    /\ UNCHANGED <<curso, operaciones, caidas>>

cerrar_mensaje(p) ==
    /\ Pedir(p, "cerrar")
    /\ \E m \in Mensajes :
          /\ Existe(m) /\ mensaje[m].estado = "abierto"
          /\ peticion' = [peticion EXCEPT ![p] =
                [Libre EXCEPT !.pc = "marcar", !.mensaje = m,
                              !.fila = [mensaje[m] EXCEPT !.estado = "cerrado"]]]

abrir_mensaje(p) ==
    /\ Pedir(p, "abrir")
    /\ curso.estado # "finalizado"
    /\ \E m \in Mensajes :
          /\ Existe(m) /\ mensaje[m].estado = "cerrado"
          /\ peticion' = [peticion EXCEPT ![p] =
                [Libre EXCEPT !.pc = "marcar", !.mensaje = m,
                              !.fila = [mensaje[m] EXCEPT !.estado = "abierto"]]]

MarcarMensaje(p) ==
    LET q == peticion[p] IN
    /\ q.pc = "marcar"
    /\ mensaje' = [mensaje EXCEPT ![q.mensaje] = q.fila]
    /\ Terminar(p)
    /\ UNCHANGED <<curso, operaciones, caidas>>

Caer(p) ==
    /\ peticion[p].pc # "idle"
    /\ caidas < MaxCaidas
    /\ caidas' = caidas + 1
    /\ Terminar(p)
    /\ UNCHANGED <<curso, mensaje, operaciones>>

----------------------------------------
\* nuevo_curso: a draft, with what its form says of the rest.
Init ==
    /\ \E publico \in Formularios, modalidad \in {"self_paced", "live"}, foro \in BOOLEAN :
          curso = [estado |-> "draft", publico |-> publico, modalidad |-> modalidad,
                   foro |-> ForoPermitido(modalidad, foro)]
    /\ mensaje = [m \in Mensajes |-> Nada]
    /\ peticion = [p \in Peticiones |-> Libre]
    /\ operaciones = 0
    /\ caidas = 0

Sigue(p) ==
    \/ GuardarEstado(p) \/ close_all_for_course(p) \/ Despublicar(p)
    \/ GuardarCurso(p) \/ InsertarMensaje(p) \/ MarcarMensaje(p)

Empieza(p) ==
    \/ cambia_estado_curso_por_id(p) \/ cambia_curso_publico(p) \/ editar_curso(p)
    \/ nuevo_mensaje(p) \/ responder_mensaje(p) \/ cerrar_mensaje(p) \/ abrir_mensaje(p)

Next == \E p \in Peticiones : Sigue(p) \/ Empieza(p) \/ Caer(p)

Spec == Init /\ [][Next]_vars

----------------------------------------
(* Properties *)

ComoDiceElEstado == curso.publico => curso.estado = "open"
CambiandoEstado == \E p \in Peticiones : peticion[p].pc \in {"cerrar", "despublicar"}

\* One request at a time: a course that is not open becomes public through the
\* form of the course only.  The button publishes none (cambia_curso_publico), and
\* a change of status that is not cut short takes the course off the site, whatever
\* the form had said before (cambia_estado_curso_por_id).
OnlyTheFormPublishes ==
    ~ComoDiceElEstado' =>
       \/ CambiandoEstado'
       \/ \E p \in Peticiones : peticion[p].pc = "editar" /\ peticion[p].escribe.publico
       \/ caidas' > caidas
       \/ ~ComoDiceElEstado /\ ~CambiandoEstado

\* One request at a time: no reply is added to a thread that was closed, nor to
\* the forum of a course without one (responder_mensaje).
ClosedThreadStaysAsItIs ==
    \A m \in Mensajes :
          (mensaje[m] = Nada /\ mensaje'[m] # Nada /\ mensaje'[m].padre # Nada)
          => /\ mensaje[mensaje'[m].padre].estado = "abierto"
             /\ curso.foro

\* A self-paced course has no forum (Curso.validar_foro_habilitado).
SelfPacedHasNoForum == curso.foro => curso.modalidad # "self_paced"

----------------------------------------
(* What the pages, the comments and the guides say, and the code does not keep:  *)
(* TLC finds a counterexample to each of the following.                          *)

\* A public course is open, unless its status is being changed: the button says that
\* another cannot be published, and a change of status takes it off the site
\* (cambia_curso_publico, cambia_estado_curso_por_id); the form of a course publishes
\* it whatever its status (_update_course_fields, nuevo_curso).
PublicIsOpen == ComoDiceElEstado \/ CambiandoEstado

\* No message is written in a finalized course (nuevo_mensaje).
FinalizedIsSilent ==
    \A m \in Mensajes :
          (mensaje[m] = Nada /\ mensaje'[m] # Nada) => curso.estado # "finalized"

\* The button that publishes a course takes it off too (cambia_curso_publico).
ToggleTakesOff ==
    \A p \in Peticiones :
          (cambia_curso_publico(p) /\ curso.estado = "open" /\ curso.publico) => ~curso'.publico
===============================================================================
