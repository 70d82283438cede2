--------------------------- MODULE MCCommunity_proofs --------------------------
(***************************************************************************)
(* What is proved of the forums, the threads, the community, the blog and  *)
(* the pages, for any members, rows and requests: TypeOK, ModerationAgrees, *)
(* ClosedIsClosed and WritingCounts of MCCommunity.  Each part has an      *)
(* inductive invariant, for any number of requests, and one that is        *)
(* stronger for one request at a time where the code is right only then.   *)
(***************************************************************************)
EXTENDS MCCommunity, Sequences, FiniteSets, TLAPS, FiniteSetTheorems, WellFoundedInduction

----------------------------------------
(* The forum of a course (CourseForum), one request at a time *)

ForoTipos ==
    /\ curso \in Foro!Curso
    /\ mensaje \in [Mensajes -> Foro!Mensaje \cup {Nada}]
    /\ peticion \in [Una -> Foro!Peticion]
    /\ operaciones \in 0..MaxSeguidas /\ caidas \in 0..MaxCaidas

\* The first message of a thread.
EsPrimero(m) == m \in Mensajes /\ mensaje[m] # Nada /\ mensaje[m].padre = Nada

\* A thread is a first message and its replies.
RaicesFirmes ==
    \A m \in Mensajes : mensaje[m] # Nada => mensaje[m].padre = Nada \/ EsPrimero(mensaje[m].padre)

\* A self-paced course has no forum.
CursoFirme == curso.foro => curso.modalidad # "self_paced"

\* The course is still what the request read, and will be firm when it is written; the
\* button publishes an open one.
DelCurso(q) ==
    q.pc \in {"estado", "publicar", "editar"} =>
        /\ q.leido = curso /\ q.escribe \in Foro!Curso
        /\ q.escribe.foro => q.escribe.modalidad # "self_paced"
        /\ q.pc = "publicar" => q.escribe.estado = "open"

\* A message that is to be inserted is new, and hangs from an open thread of a course
\* with a forum; one that is to be marked is there, with the same place in its thread.
DelForo(q) ==
    /\ q.pc \in {"mensaje", "respuesta"} =>
          /\ q.mensaje \in Mensajes /\ mensaje[q.mensaje] = Nada /\ q.fila \in Foro!Mensaje
          /\ q.fila.padre # Nada =>
                /\ EsPrimero(q.fila.padre) /\ mensaje[q.fila.padre].estado = "abierto"
                /\ curso.foro
    /\ q.pc = "marcar" =>
          /\ q.mensaje \in Mensajes /\ mensaje[q.mensaje] # Nada /\ q.fila \in Foro!Mensaje
          /\ q.fila.padre = mensaje[q.mensaje].padre

ForoInv ==
    ForoTipos /\ RaicesFirmes /\ CursoFirme /\ DelCurso(peticion[q1]) /\ DelForo(peticion[q1])

----------------------------------------
(* ... is kept by every step *)

\* The constants of the forum.
LEMMA ForoConstants ==
    /\ Nada \notin Mensajes /\ MaxSeguidas \in Nat /\ MaxCaidas \in Nat
    /\ Nada \notin Foro!Mensaje /\ Nada \notin Foro!Curso
BY CommunityAssumption DEF Foro!ForumAssumption

\* A request that has not begun is one.
LEMMA ForoLibre == Foro!Libre \in Foro!Peticion /\ Foro!Libre.pc = "idle"
BY DEF Foro!Libre, Foro!Peticion

\* A course without threads.
LEMMA ForoEmpieza == Foro!Init => ForoInv
<1> SUFFICES ASSUME Foro!Init PROVE ForoInv
  OBVIOUS
<1>0. PICK v \in BOOLEAN, o \in {"self_paced", "live"}, foro \in BOOLEAN :
          curso = [estado |-> "draft", publico |-> v, modalidad |-> o,
                   foro |-> Foro!ForoPermitido(o, foro)]
  BY DEF Foro!Init
<1>3. curso \in Foro!Curso /\ CursoFirme
  BY <1>0 DEF Foro!Curso, Foro!ForoPermitido, CursoFirme
<1>1. ForoTipos
  BY <1>3, ForoConstants, ForoLibre DEF Foro!Init, ForoTipos
<1>2. peticion[q1].pc = "idle" /\ \A m \in Mensajes : mensaje[m] = Nada
  BY ForoLibre DEF Foro!Init, Una
<1> QED BY <1>1, <1>2, <1>3 DEF ForoInv, RaicesFirmes, CursoFirme, DelCurso, DelForo

\* A request that begins with what it has to say of the rows of now.
LEMMA ForoBegins ==
    ASSUME ForoInv, NEW f \in Foro!Peticion, peticion' = [peticion EXCEPT ![q1] = f],
           peticion[q1].pc = "idle", UNCHANGED <<curso, mensaje, caidas>>,
           operaciones < MaxSeguidas, operaciones' = operaciones + 1,
           DelCurso(f), DelForo(f)
    PROVE  ForoInv'
<1>1. ForoTipos' /\ peticion'[q1] = f
  BY ForoConstants DEF ForoInv, ForoTipos, Una
<1>2. RaicesFirmes' /\ CursoFirme'
  BY <1>1 DEF ForoInv, RaicesFirmes, EsPrimero, CursoFirme
<1>3. DelCurso(f)' /\ DelForo(f)'
  BY DEF DelCurso, DelForo, EsPrimero
<1> QED BY <1>1, <1>2, <1>3 DEF ForoInv

\* What Pedir says.
LEMMA ForoPide ==
    ASSUME NEW a, Foro!Pedir(q1, a)
    PROVE  /\ peticion[q1].pc = "idle" /\ UNCHANGED <<curso, mensaje, caidas>>
           /\ operaciones < MaxSeguidas /\ operaciones' = operaciones + 1
BY DEF Foro!Pedir

\* The requests that begin.
LEMMA ForoPeticiones ==
    ASSUME ForoInv, Foro!Empieza(q1)
    PROVE  ForoInv'
<1>0. /\ curso \in Foro!Curso /\ mensaje \in [Mensajes -> Foro!Mensaje \cup {Nada}]
      /\ peticion \in [Una -> Foro!Peticion]
  BY DEF ForoInv, ForoTipos
<1>1. CASE Foro!cambia_estado_curso_por_id(q1)
  <2>1. PICK e \in {"draft", "open", "closed", "finalized"} : peticion' = [peticion EXCEPT ![q1] =
             [Foro!Libre EXCEPT !.pc = "estado", !.leido = curso, !.escribe = [curso EXCEPT !.estado = e]]]
    BY <1>1 DEF Foro!cambia_estado_curso_por_id
  <2>2. PICK w : w = [curso EXCEPT !.estado = e]
    OBVIOUS
  <2>3. /\ w \in Foro!Curso /\ w.foro = curso.foro /\ w.modalidad = curso.modalidad
    BY <1>0, <2>2 DEF Foro!Curso
  <2>4. PICK f : f = [Foro!Libre EXCEPT !.pc = "estado", !.leido = curso, !.escribe = w]
    OBVIOUS
  <2>r. f = [pc |-> "estado", leido |-> curso, escribe |-> w, mensaje |-> Nada, fila |-> Nada]
    BY <2>4 DEF Foro!Libre
  <2>p. peticion' = [peticion EXCEPT ![q1] = f]
    BY <2>1, <2>2, <2>4
  <2>6. f \in Foro!Peticion /\ DelCurso(f) /\ DelForo(f)
    BY <1>0, <2>3, <2>r DEF Foro!Peticion, DelCurso, DelForo, ForoInv, CursoFirme
  <2> QED BY <1>1, <2>p, <2>6, ForoPide, ForoBegins DEF Foro!cambia_estado_curso_por_id
<1>2. CASE Foro!cambia_curso_publico(q1)
  <2>1. CASE curso.estado = "open" /\ ~curso.publico
    <3>1. PICK w : w = [curso EXCEPT !.publico = TRUE]
      OBVIOUS
    <3>2. /\ w \in Foro!Curso /\ w.foro = curso.foro /\ w.modalidad = curso.modalidad
          /\ w.estado = "open"
      BY <1>0, <2>1, <3>1 DEF Foro!Curso
    <3>3. PICK f : f = [Foro!Libre EXCEPT !.pc = "publicar", !.leido = curso, !.escribe = w]
      OBVIOUS
    <3>r. f = [pc |-> "publicar", leido |-> curso, escribe |-> w, mensaje |-> Nada, fila |-> Nada]
      BY <3>3 DEF Foro!Libre
    <3>p. peticion' = [peticion EXCEPT ![q1] = f]
      BY <1>2, <2>1, <3>1, <3>3 DEF Foro!cambia_curso_publico
    <3>5. f \in Foro!Peticion /\ DelCurso(f) /\ DelForo(f)
      BY <1>0, <3>2, <3>r DEF Foro!Peticion, DelCurso, DelForo, ForoInv, CursoFirme
    <3> QED BY <1>2, <3>p, <3>5, ForoPide, ForoBegins DEF Foro!cambia_curso_publico
  <2>2. CASE ~(curso.estado = "open" /\ ~curso.publico)
    <3>1. peticion' = [peticion EXCEPT ![q1] = Foro!Libre]
      BY <1>2, <2>2 DEF Foro!cambia_curso_publico
    <3>2. DelCurso(Foro!Libre) /\ DelForo(Foro!Libre)
      BY ForoLibre DEF DelCurso, DelForo
    <3> QED BY <1>2, <3>1, <3>2, ForoLibre, ForoPide, ForoBegins DEF Foro!cambia_curso_publico
  <2> QED BY <2>1, <2>2
<1>3. CASE Foro!editar_curso(q1)
  <2>1. PICK v \in BOOLEAN, o \in {"self_paced", "live"}, foro \in BOOLEAN : peticion' = [peticion EXCEPT ![q1] =
             [Foro!Libre EXCEPT !.pc = "editar", !.leido = curso,
                !.escribe = [estado |-> curso.estado, publico |-> v, modalidad |-> o,
                             foro |-> Foro!ForoPermitido(o, foro)]]]
    BY <1>3 DEF Foro!editar_curso
  <2>2. PICK w : w = [estado |-> curso.estado, publico |-> v, modalidad |-> o,
                      foro |-> Foro!ForoPermitido(o, foro)]
    OBVIOUS
  <2>3. /\ w \in Foro!Curso
        /\ w.foro => w.modalidad # "self_paced"
    BY <1>0, <2>2 DEF Foro!Curso, Foro!ForoPermitido
  <2>4. PICK f : f = [Foro!Libre EXCEPT !.pc = "editar", !.leido = curso, !.escribe = w]
    OBVIOUS
  <2>r. f = [pc |-> "editar", leido |-> curso, escribe |-> w, mensaje |-> Nada, fila |-> Nada]
    BY <2>4 DEF Foro!Libre
  <2>p. peticion' = [peticion EXCEPT ![q1] = f]
    BY <2>1, <2>2, <2>4
  <2>6. f \in Foro!Peticion /\ DelCurso(f) /\ DelForo(f)
    BY <1>0, <2>3, <2>r DEF Foro!Peticion, DelCurso, DelForo
  <2> QED BY <1>3, <2>p, <2>6, ForoPide, ForoBegins DEF Foro!editar_curso
<1>4. CASE Foro!nuevo_mensaje(q1)
  <2>1. PICK m \in Mensajes :
           /\ Foro!Nuevo(m)
           /\ peticion' = [peticion EXCEPT ![q1] =
                [Foro!Libre EXCEPT !.pc = "mensaje", !.mensaje = m,
                              !.fila = [estado |-> "abierto", padre |-> Nada]]]
    BY <1>4 DEF Foro!nuevo_mensaje
  <2>2. PICK w : w = [estado |-> "abierto", padre |-> Nada]
    OBVIOUS
  <2>3. w \in Foro!Mensaje /\ w.padre = Nada
    BY <2>2 DEF Foro!Mensaje
  <2>4. PICK f : f = [Foro!Libre EXCEPT !.pc = "mensaje", !.mensaje = m, !.fila = w]
    OBVIOUS
  <2>r. f = [pc |-> "mensaje", leido |-> Nada, escribe |-> Nada, mensaje |-> m, fila |-> w]
    BY <2>4 DEF Foro!Libre
  <2>p. peticion' = [peticion EXCEPT ![q1] = f]
    BY <2>1, <2>2, <2>4
  <2>6. f \in Foro!Peticion /\ DelCurso(f) /\ DelForo(f)
    BY <1>0, <2>1, <2>3, <2>r DEF Foro!Peticion, DelCurso, DelForo, Foro!Nuevo, Foro!Existe
  <2> QED BY <1>4, <2>p, <2>6, ForoPide, ForoBegins DEF Foro!nuevo_mensaje
<1>5. CASE Foro!responder_mensaje(q1)
  <2>1. PICK m \in Mensajes, r \in Mensajes :
           /\ Foro!Existe(m) /\ Foro!Nuevo(r) /\ Foro!can_reply(m)
           /\ peticion' = [peticion EXCEPT ![q1] =
                [Foro!Libre EXCEPT !.pc = "respuesta", !.mensaje = r,
                              !.fila = [estado |-> "abierto", padre |-> Foro!PadreDeRespuesta(m)]]]
    BY <1>5 DEF Foro!responder_mensaje
  <2>2. PICK d : d = Foro!PadreDeRespuesta(m)
    OBVIOUS
  <2>3. EsPrimero(d) /\ mensaje[d].estado = "abierto" /\ curso.foro
    BY <2>1, <2>2 DEF ForoInv, RaicesFirmes, EsPrimero, Foro!PadreDeRespuesta, Foro!Raiz, Foro!EsRaiz,
       Foro!Existe, Foro!can_reply, Foro!is_thread_open, Foro!is_course_forum_active
  <2>4. PICK w : w = [estado |-> "abierto", padre |-> d]
    OBVIOUS
  <2>5. w \in Foro!Mensaje /\ w.padre = d
    BY <2>3, <2>4 DEF Foro!Mensaje, EsPrimero
  <2>6. PICK f : f = [Foro!Libre EXCEPT !.pc = "respuesta", !.mensaje = r, !.fila = w]
    OBVIOUS
  <2>r. f = [pc |-> "respuesta", leido |-> Nada, escribe |-> Nada, mensaje |-> r, fila |-> w]
    BY <2>6 DEF Foro!Libre
  <2>p. peticion' = [peticion EXCEPT ![q1] = f]
    BY <2>1, <2>2, <2>4, <2>6
  <2>8. f \in Foro!Peticion /\ DelCurso(f) /\ DelForo(f)
    BY <1>0, <2>1, <2>3, <2>5, <2>r DEF Foro!Peticion, DelCurso, DelForo, Foro!Nuevo, Foro!Existe
  <2> QED BY <1>5, <2>p, <2>8, ForoPide, ForoBegins DEF Foro!responder_mensaje
<1>6. ASSUME NEW a, Foro!Pedir(q1, a), NEW m \in Mensajes, mensaje[m] # Nada, NEW s \in {"abierto", "cerrado"},
             peticion' = [peticion EXCEPT ![q1] =
                [Foro!Libre EXCEPT !.pc = "marcar", !.mensaje = m,
                              !.fila = [mensaje[m] EXCEPT !.estado = s]]]
      PROVE  ForoInv'
  <2>1. PICK w : w = [mensaje[m] EXCEPT !.estado = s]
    OBVIOUS
  <2>2. w \in Foro!Mensaje /\ w.padre = mensaje[m].padre
    <3>1. mensaje[m] \in Foro!Mensaje
      BY <1>0, <1>6
    <3> QED BY <2>1, <3>1 DEF Foro!Mensaje
  <2>3. PICK f : f = [Foro!Libre EXCEPT !.pc = "marcar", !.mensaje = m, !.fila = w]
    OBVIOUS
  <2>r. f = [pc |-> "marcar", leido |-> Nada, escribe |-> Nada, mensaje |-> m, fila |-> w]
    BY <2>3 DEF Foro!Libre
  <2>p. peticion' = [peticion EXCEPT ![q1] = f]
    BY <1>6, <2>1, <2>3
  <2>5. f \in Foro!Peticion /\ DelCurso(f) /\ DelForo(f)
    BY <1>0, <1>6, <2>2, <2>r DEF Foro!Peticion, DelCurso, DelForo
  <2> QED BY <1>6, <2>p, <2>5, ForoPide, ForoBegins
<1>7. CASE Foro!cerrar_mensaje(q1)
  BY <1>6, <1>7 DEF Foro!cerrar_mensaje, Foro!Existe
<1>8. CASE Foro!abrir_mensaje(q1)
  BY <1>6, <1>8 DEF Foro!abrir_mensaje, Foro!Existe
<1> QED BY <1>1, <1>2, <1>3, <1>4, <1>5, <1>7, <1>8 DEF Foro!Empieza

\* What an UPDATE leaves of a course that nobody has changed since it was read.
LEMMA ForoEscrito ==
    ASSUME curso \in Foro!Curso, NEW q, q.leido = curso, q.escribe \in Foro!Curso
    PROVE  Foro!Escrito(q) = q.escribe
<1>1. DOMAIN curso = DOMAIN q.escribe
  BY DEF Foro!Curso
<1>2. Foro!Escrito(q) = [c \in DOMAIN q.escribe |-> q.escribe[c]]
  BY <1>1 DEF Foro!Escrito
<1> QED BY <1>2 DEF Foro!Curso

\* The statements that follow.
LEMMA ForoSentencias ==
    ASSUME ForoInv, Foro!Sigue(q1) \/ Foro!Caer(q1)
    PROVE  ForoInv'
<1> DEFINE q == peticion[q1]
<1>0. /\ curso \in Foro!Curso /\ mensaje \in [Mensajes -> Foro!Mensaje \cup {Nada}]
      /\ peticion \in [Una -> Foro!Peticion] /\ q \in Foro!Peticion
      /\ operaciones \in 0..MaxSeguidas /\ caidas \in 0..MaxCaidas
      /\ DelCurso(q) /\ DelForo(q) /\ RaicesFirmes /\ CursoFirme
  BY DEF ForoInv, ForoTipos, Una
<1>a. ASSUME NEW s \in {"idle", "cerrar", "despublicar"}, NEW f \in Foro!Peticion, f.pc = s,
             peticion' = [peticion EXCEPT ![q1] = f], UNCHANGED operaciones, caidas' \in 0..MaxCaidas,
             curso' \in Foro!Curso, curso'.foro => curso'.modalidad # "self_paced",
             mensaje' \in [Mensajes -> Foro!Mensaje \cup {Nada}], RaicesFirmes'
      PROVE  ForoInv'
  <2>1. ForoTipos' /\ peticion'[q1] = f
    BY <1>0, <1>a DEF ForoTipos, Una
  <2>2. CursoFirme' /\ DelCurso(peticion[q1])' /\ DelForo(peticion[q1])'
    BY <1>a, <2>1 DEF CursoFirme, DelCurso, DelForo
  <2> QED BY <1>a, <2>1, <2>2 DEF ForoInv
<1>b. ASSUME UNCHANGED mensaje PROVE RaicesFirmes'
  BY <1>0, <1>b DEF RaicesFirmes, EsPrimero
<1>1. CASE Foro!GuardarEstado(q1)
  <2>1. /\ q.pc = "estado" /\ curso' = Foro!Escrito(q) /\ UNCHANGED <<mensaje, operaciones, caidas>>
        /\ peticion' = [peticion EXCEPT ![q1].pc = IF Foro!Finaliza(q) THEN "cerrar" ELSE "despublicar"]
    BY <1>1 DEF Foro!GuardarEstado
  <2>2. curso' = q.escribe /\ curso' \in Foro!Curso /\ (curso'.foro => curso'.modalidad # "self_paced")
    BY <1>0, <2>1, ForoEscrito DEF DelCurso
  <2>3. PICK s : s = IF Foro!Finaliza(q) THEN "cerrar" ELSE "despublicar"
    OBVIOUS
  <2>4. PICK f : f = [q EXCEPT !.pc = s]
    OBVIOUS
  <2>5. peticion' = [peticion EXCEPT ![q1] = f]
    BY <1>0, <2>1, <2>3, <2>4 DEF Una
  <2>6. s \in {"cerrar", "despublicar"} /\ f \in Foro!Peticion /\ f.pc = s
    <3> HIDE DEF q
    <3> QED BY <1>0, <2>3, <2>4 DEF Foro!Peticion
  <2> QED BY <1>0, <1>a, <1>b, <2>1, <2>2, <2>5, <2>6
<1>2. CASE Foro!close_all_for_course(q1)
  <2>1. /\ q.pc = "cerrar" /\ UNCHANGED <<curso, operaciones, caidas>>
        /\ mensaje' = [m \in Mensajes |->
              IF mensaje[m] # Nada THEN [mensaje[m] EXCEPT !.estado = "cerrado"] ELSE Nada]
        /\ peticion' = [peticion EXCEPT ![q1].pc = "despublicar"]
    BY <1>2 DEF Foro!close_all_for_course, Foro!Existe
  <2>2. PICK f : f = [q EXCEPT !.pc = "despublicar"]
    OBVIOUS
  <2>3. peticion' = [peticion EXCEPT ![q1] = f]
    BY <1>0, <2>1, <2>2 DEF Una
  <2>4. f \in Foro!Peticion /\ f.pc = "despublicar"
    <3> HIDE DEF q
    <3> QED BY <1>0, <2>2 DEF Foro!Peticion
  <2>5. ASSUME NEW m \in Mensajes
        PROVE  /\ mensaje[m] = Nada => mensaje'[m] = Nada
               /\ mensaje[m] # Nada => /\ mensaje'[m] \in Foro!Mensaje
                                       /\ mensaje'[m].padre = mensaje[m].padre
    <3>1. CASE mensaje[m] = Nada
      BY <2>1, <3>1
    <3>2. CASE mensaje[m] # Nada
      <4>1. mensaje[m] \in Foro!Mensaje /\ mensaje'[m] = [mensaje[m] EXCEPT !.estado = "cerrado"]
        BY <1>0, <2>1, <3>2
      <4> QED BY <3>2, <4>1 DEF Foro!Mensaje
    <3> QED BY <3>1, <3>2
  <2>6. mensaje' \in [Mensajes -> Foro!Mensaje \cup {Nada}]
    <3>1. mensaje' = [m \in Mensajes |-> mensaje'[m]]
      BY <2>1
    <3> QED BY <2>5, <3>1
  <2>7. RaicesFirmes'
    BY <1>0, <2>5, ForoConstants DEF RaicesFirmes, EsPrimero
  <2> QED BY <1>0, <1>a, <2>1, <2>3, <2>4, <2>6, <2>7 DEF CursoFirme
<1>3. CASE Foro!Despublicar(q1)
  <2>1. /\ UNCHANGED <<mensaje, operaciones, caidas>>
        /\ peticion' = [peticion EXCEPT ![q1] = Foro!Libre]
        /\ curso' = [curso EXCEPT !.publico = Foro!PublicoDespues]
    BY <1>3 DEF Foro!Despublicar, Foro!Terminar
  <2>2. Foro!PublicoDespues \in BOOLEAN
    BY <1>0 DEF Foro!PublicoDespues, Foro!Curso
  <2>3. /\ curso' \in Foro!Curso /\ curso'.foro = curso.foro /\ curso'.modalidad = curso.modalidad
    BY <1>0, <2>1, <2>2 DEF Foro!Curso
  <2> QED BY <1>0, <1>a, <1>b, <2>1, <2>2, <2>3, ForoLibre DEF CursoFirme
<1>4. CASE Foro!GuardarCurso(q1)
  <2>1. /\ q.pc \in {"publicar", "editar"} /\ UNCHANGED <<mensaje, operaciones, caidas>>
        /\ peticion' = [peticion EXCEPT ![q1] = Foro!Libre]
        /\ curso' = Foro!Escrito(q)
    BY <1>4 DEF Foro!GuardarCurso, Foro!Terminar
  <2>2. curso' = q.escribe
    BY <1>0, <2>1, ForoEscrito DEF DelCurso
  <2>3. /\ q.escribe \in Foro!Curso
        /\ q.escribe.foro => q.escribe.modalidad # "self_paced"
    BY <1>0, <2>1 DEF DelCurso
  <2> HIDE DEF q
  <2> QED BY <1>0, <1>a, <1>b, <2>1, <2>2, <2>3, ForoLibre
<1>5. CASE Foro!InsertarMensaje(q1)
  <2>1. /\ q.pc \in {"mensaje", "respuesta"} /\ UNCHANGED <<curso, operaciones, caidas>>
        /\ peticion' = [peticion EXCEPT ![q1] = Foro!Libre]
        /\ mensaje' = [mensaje EXCEPT ![q.mensaje] = q.fila]
    BY <1>5 DEF Foro!InsertarMensaje, Foro!Terminar
  <2>2. /\ q.mensaje \in Mensajes /\ mensaje[q.mensaje] = Nada /\ q.fila \in Foro!Mensaje
        /\ q.fila.padre # Nada => EsPrimero(q.fila.padre)
    BY <1>0, <2>1 DEF DelForo
  <2>3. mensaje' \in [Mensajes -> Foro!Mensaje \cup {Nada}]
    BY <1>0, <2>1, <2>2
  <2>4. mensaje'[q.mensaje] = q.fila /\ \A m \in Mensajes \ {q.mensaje} : mensaje'[m] = mensaje[m]
    BY <1>0, <2>1, <2>2
  <2>5. RaicesFirmes'
    BY <1>0, <2>2, <2>4 DEF RaicesFirmes, EsPrimero
  <2> HIDE DEF q
  <2> QED BY <1>0, <1>a, <2>1, <2>3, <2>5, ForoLibre DEF CursoFirme, q
<1>6. CASE Foro!MarcarMensaje(q1)
  <2>1. /\ q.pc = "marcar" /\ UNCHANGED <<curso, operaciones, caidas>>
        /\ peticion' = [peticion EXCEPT ![q1] = Foro!Libre]
        /\ mensaje' = [mensaje EXCEPT ![q.mensaje] = q.fila]
    BY <1>6 DEF Foro!MarcarMensaje, Foro!Terminar
  <2>2. /\ q.mensaje \in Mensajes /\ mensaje[q.mensaje] # Nada /\ q.fila \in Foro!Mensaje
        /\ q.fila.padre = mensaje[q.mensaje].padre
    BY <1>0, <2>1 DEF DelForo
  <2>3. mensaje' \in [Mensajes -> Foro!Mensaje \cup {Nada}]
    BY <1>0, <2>1, <2>2
  <2>4. mensaje'[q.mensaje] = q.fila /\ \A m \in Mensajes \ {q.mensaje} : mensaje'[m] = mensaje[m]
    BY <1>0, <2>1, <2>2
  <2>5. RaicesFirmes'
    BY <1>0, <2>2, <2>4, ForoConstants DEF RaicesFirmes, EsPrimero
  <2> QED BY <1>0, <1>a, <2>1, <2>3, <2>5, ForoLibre DEF CursoFirme
<1>7. CASE Foro!Caer(q1)
  <2>1. /\ peticion' = [peticion EXCEPT ![q1] = Foro!Libre] /\ caidas' = caidas + 1
        /\ caidas < MaxCaidas /\ UNCHANGED <<curso, mensaje, operaciones>>
    BY <1>7 DEF Foro!Caer, Foro!Terminar
  <2>2. caidas' \in 0..MaxCaidas
    BY <1>0, <2>1, ForoConstants
  <2> QED BY <1>0, <1>a, <1>b, <2>1, <2>2, ForoLibre DEF CursoFirme
<1> QED BY <1>1, <1>2, <1>3, <1>4, <1>5, <1>6, <1>7 DEF Foro!Sigue

\* Every step keeps the invariant.
LEMMA ForoSigue == ForoInv /\ [Foro!Next]_(Foro!vars) => ForoInv'
<1>1. ASSUME ForoInv, Foro!Next PROVE ForoInv'
  BY <1>1, ForoPeticiones, ForoSentencias DEF Foro!Next, Una
<1>2. ASSUME ForoInv, UNCHANGED Foro!vars PROVE ForoInv'
  BY <1>2 DEF Foro!vars, ForoInv, ForoTipos, RaicesFirmes, EsPrimero, CursoFirme, DelCurso, DelForo
<1> QED BY <1>1, <1>2

\* What the run checks of the forum.
LEMMA ForoDice ==
    ForoInv => Foro!TypeOK /\ Foro!SelfPacedHasNoForum
<1> SUFFICES ASSUME ForoInv PROVE Foro!TypeOK /\ Foro!SelfPacedHasNoForum
  OBVIOUS
<1>1. Foro!TypeOK
  <2>1. operaciones <= MaxSeguidas /\ caidas <= MaxCaidas
    BY ForoConstants DEF ForoInv, ForoTipos
  <2> QED BY <2>1 DEF ForoInv, ForoTipos, RaicesFirmes, EsPrimero, Foro!TypeOK, Foro!Existe, Foro!EsRaiz
<1>2. Foro!SelfPacedHasNoForum
  BY DEF ForoInv, CursoFirme, Foro!SelfPacedHasNoForum
<1> QED BY <1>1, <1>2

\* No reply to a thread that is closed.
LEMMA ForoCalla ==
    ForoInv /\ [Foro!Next]_(Foro!vars) => Foro!ClosedThreadStaysAsItIs
<1> SUFFICES ASSUME ForoInv, [Foro!Next]_(Foro!vars),
                    NEW m \in Mensajes, mensaje[m] = Nada, mensaje'[m] # Nada, mensaje'[m].padre # Nada
             PROVE  mensaje[mensaje'[m].padre].estado = "abierto" /\ curso.foro
  BY DEF Foro!ClosedThreadStaysAsItIs
<1>1. mensaje \in [Mensajes -> Foro!Mensaje \cup {Nada}] /\ DelForo(peticion[q1])
  BY DEF ForoInv, ForoTipos
<1>2. ~ UNCHANGED mensaje /\ Foro!Next
  BY DEF Foro!vars
<1>3. \/ Foro!close_all_for_course(q1) \/ Foro!InsertarMensaje(q1) \/ Foro!MarcarMensaje(q1)
  <2>1. Foro!Empieza(q1) => UNCHANGED mensaje
    BY ForoPide DEF Foro!Empieza, Foro!cambia_estado_curso_por_id, Foro!cambia_curso_publico, Foro!editar_curso,
       Foro!nuevo_mensaje, Foro!responder_mensaje, Foro!cerrar_mensaje, Foro!abrir_mensaje
  <2>2. Foro!Caer(q1) => UNCHANGED mensaje
    BY DEF Foro!Caer
  <2>3. Foro!GuardarEstado(q1) \/ Foro!Despublicar(q1) \/ Foro!GuardarCurso(q1) => UNCHANGED mensaje
    BY DEF Foro!GuardarEstado, Foro!Despublicar, Foro!GuardarCurso
  <2> QED BY <1>2, <2>1, <2>2, <2>3 DEF Foro!Next, Foro!Sigue, Una
<1>4. CASE Foro!close_all_for_course(q1)
  BY <1>4 DEF Foro!close_all_for_course, Foro!Existe
<1>5. CASE Foro!MarcarMensaje(q1)
  BY <1>1, <1>5 DEF Foro!MarcarMensaje, DelForo
<1>6. CASE Foro!InsertarMensaje(q1)
  BY <1>1, <1>6 DEF Foro!InsertarMensaje, DelForo
<1> QED BY <1>3, <1>4, <1>5, <1>6

\* A course that is not open is made public by its form only.
LEMMA ForoPublica ==
    ForoInv /\ [Foro!Next]_(Foro!vars) => Foro!OnlyTheFormPublishes
<1> SUFFICES ASSUME ForoInv, [Foro!Next]_(Foro!vars), ~Foro!ComoDiceElEstado',
                    ~Foro!CambiandoEstado', ~(caidas' > caidas),
                    Foro!ComoDiceElEstado \/ Foro!CambiandoEstado
             PROVE  peticion[q1].pc = "editar" /\ peticion[q1].escribe.publico
  BY DEF Foro!OnlyTheFormPublishes, Una
<1> DEFINE q == peticion[q1]
<1>1. /\ curso \in Foro!Curso /\ peticion \in [Una -> Foro!Peticion] /\ DelCurso(q)
      /\ caidas \in Nat
  BY ForoConstants DEF ForoInv, ForoTipos
<1>2. ~(UNCHANGED Foro!vars)
  BY DEF Foro!vars, Foro!ComoDiceElEstado, Foro!CambiandoEstado
<1>3. CASE Foro!Empieza(q1)
  <2>1. q.pc = "idle" /\ UNCHANGED curso
    BY <1>3, ForoPide DEF Foro!Empieza, Foro!cambia_estado_curso_por_id, Foro!cambia_curso_publico,
       Foro!editar_curso, Foro!nuevo_mensaje, Foro!responder_mensaje, Foro!cerrar_mensaje, Foro!abrir_mensaje
  <2> QED BY <2>1 DEF Foro!ComoDiceElEstado, Foro!CambiandoEstado, Una
<1>4. CASE Foro!GuardarEstado(q1) \/ Foro!close_all_for_course(q1)
  <2>1. PICK s \in {"cerrar", "despublicar"} : peticion' = [peticion EXCEPT ![q1].pc = s]
    BY <1>4 DEF Foro!GuardarEstado, Foro!close_all_for_course
  <2>2. q \in Foro!Peticion
    BY <1>1 DEF Una
  <2>3. PICK f : f = [q EXCEPT !.pc = s]
    OBVIOUS
  <2>4. peticion'[q1] = f
    BY <1>1, <2>1, <2>3 DEF Una
  <2>5. f.pc = s
    <3> HIDE DEF q
    <3> QED BY <2>2, <2>3 DEF Foro!Peticion
  <2> QED BY <2>1, <2>4, <2>5 DEF Foro!CambiandoEstado, Una
<1>5. CASE Foro!Despublicar(q1)
  <2>1. curso'.estado = curso.estado /\ curso'.publico = Foro!PublicoDespues
    BY <1>1, <1>5 DEF Foro!Despublicar, Foro!Curso
  <2> QED BY <2>1 DEF Foro!ComoDiceElEstado, Foro!PublicoDespues
<1>6. CASE Foro!GuardarCurso(q1)
  <2>1. q.pc \in {"publicar", "editar"} /\ curso' = Foro!Escrito(q)
    BY <1>6 DEF Foro!GuardarCurso
  <2>2. curso' = q.escribe /\ (q.pc = "publicar" => q.escribe.estado = "open")
    BY <1>1, <2>1, ForoEscrito DEF DelCurso
  <2> QED BY <2>1, <2>2 DEF Foro!ComoDiceElEstado
<1>7. CASE Foro!InsertarMensaje(q1) \/ Foro!MarcarMensaje(q1)
  <2>1. q.pc \notin {"cerrar", "despublicar"} /\ UNCHANGED curso
    BY <1>7 DEF Foro!InsertarMensaje, Foro!MarcarMensaje
  <2> QED BY <2>1 DEF Foro!ComoDiceElEstado, Foro!CambiandoEstado, Una
<1>8. CASE Foro!Caer(q1)
  BY <1>1, <1>8 DEF Foro!Caer
<1> QED BY <1>2, <1>3, <1>4, <1>5, <1>6, <1>7, <1>8 DEF Foro!Next, Foro!Sigue, Una

----------------------------------------
(* Threads (Messages), for any number of requests *)

HiloTipos(P, N) ==
    /\ hilo \in [Hilos -> Hilo(P, N)!Hilo \cup {Nada}]
    /\ mensaje \in [Mensajes -> Hilo(P, N)!Mensaje \cup {Nada}]
    /\ inscritos \subseteq Miembros
    /\ peticion \in [P -> Hilo(P, N)!Peticion]
    /\ operaciones \in 0..N /\ caidas \in 0..MaxCaidas

\* A message is in a thread; a thread has a message of its student, and its date if
\* it is closed.
MensajeFirme(m) == mensaje[m] # Nada => hilo[mensaje[m].hilo] # Nada

HiloFirme(h) ==
    hilo[h] # Nada =>
        /\ \E m \in Mensajes :
              mensaje[m] # Nada /\ mensaje[m].hilo = h /\ mensaje[m].sender = hilo[h].student
        /\ hilo[h].status = "closed" => hilo[h].cerrado

\* What is to be written is new, what is to be changed is there, what is to be marked
\* was written by somebody else, and a report changes nothing but the report.
SoloElInforme(a, d) ==
    /\ a \in Hilo(Una, MaxSeguidas)!Mensaje /\ d \in Hilo(Una, MaxSeguidas)!Mensaje
    /\ d.hilo = a.hilo /\ d.sender = a.sender /\ d.leido = a.leido

DelHilo(q) ==
    /\ q.pc \in {"hilo", "respuesta"} =>
          /\ q.mensaje \in Mensajes /\ mensaje[q.mensaje] = Nada /\ q.hilo \in Hilos
          /\ q.usuario \in Miembros \cup Personal
    /\ q.pc = "hilo" => hilo[q.hilo] = Nada /\ q.usuario \in Miembros
    /\ q.pc = "respuesta" => hilo[q.hilo] # Nada
    /\ q.pc = "estado" => q.hilo \in Hilos /\ hilo[q.hilo] # Nada
    /\ q.pc = "leer" =>
          \A m \in q.visto : mensaje[m] # Nada /\ mensaje[m].sender # q.usuario
    /\ q.pc = "informe" =>
          /\ q.mensaje \in Mensajes /\ mensaje[q.mensaje] # Nada
          /\ SoloElInforme(q.antes, q.despues)

\* No two requests write one row.
NadieLoEscribe(P) ==
    \A p, o \in P :
        /\ p # o /\ {peticion[p].pc, peticion[o].pc} \subseteq {"hilo", "respuesta"}
           => peticion[p].mensaje # peticion[o].mensaje
        /\ p # o /\ peticion[p].pc = "hilo" /\ peticion[o].pc = "hilo"
           => peticion[p].hilo # peticion[o].hilo

HiloInv(P, N) ==
    /\ HiloTipos(P, N)
    /\ \A m \in Mensajes : MensajeFirme(m)
    /\ \A h \in Hilos : HiloFirme(h)
    /\ \A p \in P : DelHilo(peticion[p])
    /\ NadieLoEscribe(P)

----------------------------------------
(* ... are kept by every step *)

\* The constants of the threads.
LEMMA HiloConstants ==
    ASSUME NEW P, NEW N
    PROVE  /\ Nada \notin Hilos \cup Mensajes \cup (Miembros \cup Personal)
           /\ Nada \notin Hilo(P, N)!Hilo /\ Nada \notin Hilo(P, N)!Mensaje
           /\ Hilo(P, N)!Mensaje = Hilo(Una, MaxSeguidas)!Mensaje
           /\ Miembros \cap Personal = {}
           /\ MaxSeguidas \in Nat /\ MaxCruzadas \in Nat /\ MaxCaidas \in Nat
BY CommunityAssumption
DEF Hilo!MessagesAssumption, Hilo!Hilo, Hilo!Mensaje, Hilo!Usuarios

\* A request that has not begun is one.
LEMMA HiloLibre ==
    ASSUME NEW P, NEW N
    PROVE  Hilo(P, N)!Libre \in Hilo(P, N)!Peticion /\ Hilo(P, N)!Libre.pc = "idle"
BY DEF Hilo!Libre, Hilo!Peticion

\* No threads at first.
LEMMA HiloEmpieza ==
    ASSUME NEW P, NEW N \in Nat, Hilo(P, N)!Init
    PROVE  HiloInv(P, N)
<1>1. HiloTipos(P, N)
  BY HiloConstants, HiloLibre DEF Hilo!Init, HiloTipos
<1>2. /\ \A p \in P : peticion[p].pc = "idle"
      /\ \A m \in Mensajes : mensaje[m] = Nada
      /\ \A h \in Hilos : hilo[h] = Nada
  BY HiloLibre DEF Hilo!Init
<1> QED BY <1>1, <1>2 DEF HiloInv, MensajeFirme, HiloFirme, DelHilo, NadieLoEscribe

\* A request that begins.
LEMMA HiloBegins ==
    ASSUME NEW P, NEW N \in Nat, HiloInv(P, N), NEW p \in P,
           NEW f \in Hilo(P, N)!Peticion, peticion' = [peticion EXCEPT ![p] = f],
           UNCHANGED <<hilo, mensaje, inscritos, caidas>>,
           operaciones < N, operaciones' = operaciones + 1, DelHilo(f),
           f.pc \in {"hilo", "respuesta"} => \A o \in P : peticion[o].mensaje # f.mensaje,
           f.pc = "hilo" => \A o \in P : peticion[o].hilo # f.hilo
    PROVE  HiloInv(P, N)'
<1>1. HiloTipos(P, N)'
  BY DEF HiloInv, HiloTipos
<1>2. peticion'[p] = f /\ \A o \in P \ {p} : peticion'[o] = peticion[o]
  BY DEF HiloInv, HiloTipos
<1>3. (\A m \in Mensajes : MensajeFirme(m)') /\ (\A h \in Hilos : HiloFirme(h)')
  BY DEF HiloInv, MensajeFirme, HiloFirme
<1>4. ASSUME NEW o \in P PROVE DelHilo(peticion[o])'
  <2>1. PICK q : DelHilo(q) /\ q = peticion'[o]
    BY <1>2 DEF HiloInv
  <2>2. DelHilo(q)'
    BY <2>1 DEF DelHilo
  <2> QED BY <2>1, <2>2 DEF DelHilo
<1>5. NadieLoEscribe(P)'
  BY <1>2 DEF HiloInv, NadieLoEscribe
<1> QED BY <1>1, <1>3, <1>4, <1>5 DEF HiloInv

\* What Pedir says.
LEMMA HiloPide ==
    ASSUME NEW P, NEW N, NEW p, Hilo(P, N)!Pedir(p)
    PROVE  /\ peticion[p].pc = "idle" /\ UNCHANGED <<hilo, mensaje, inscritos, caidas>>
           /\ operaciones < N /\ operaciones' = operaciones + 1
BY DEF Hilo!Pedir

\* The requests that begin.
LEMMA HiloPeticiones ==
    ASSUME NEW P, NEW N \in Nat, HiloInv(P, N), NEW p \in P, Hilo(P, N)!Empieza(p)
    PROVE  HiloInv(P, N)'
<1>0. /\ hilo \in [Hilos -> Hilo(P, N)!Hilo \cup {Nada}]
      /\ mensaje \in [Mensajes -> Hilo(P, N)!Mensaje \cup {Nada}]
      /\ inscritos \subseteq Miembros /\ peticion \in [P -> Hilo(P, N)!Peticion]
  BY DEF HiloInv, HiloTipos
<1>1. CASE Hilo(P, N)!new_thread(p)
  <2>1. PICK u \in Miembros, h \in Hilos, m \in Mensajes :
          /\ hilo[h] = Nada /\ \A q \in P : peticion[q].hilo # h
          /\ mensaje[m] = Nada /\ \A q \in P : peticion[q].mensaje # m
          /\ peticion' = [peticion EXCEPT ![p] =
                [Hilo(P, N)!Libre EXCEPT !.pc = "hilo", !.usuario = u, !.hilo = h, !.mensaje = m]]
    BY <1>1 DEF Hilo!new_thread, Hilo!Abierto, Hilo!SinUsar, Hilo!Existe, Hilo!Reservado
  <2>2. PICK f : f = [Hilo(P, N)!Libre EXCEPT !.pc = "hilo", !.usuario = u, !.hilo = h, !.mensaje = m]
    OBVIOUS
  <2>3. f = [pc |-> "hilo", usuario |-> u, hilo |-> h, mensaje |-> m, status |-> "open",
             visto |-> {}, antes |-> Nada, despues |-> Nada]
    BY <2>2 DEF Hilo!Libre
  <2>4. f \in Hilo(P, N)!Peticion
    BY <2>3 DEF Hilo!Peticion, Hilo!Usuarios
  <2>5. DelHilo(f)
    BY <2>1, <2>3 DEF DelHilo
  <2>6. f.pc = "hilo" /\ f.mensaje = m /\ f.hilo = h /\ peticion' = [peticion EXCEPT ![p] = f]
    BY <2>1, <2>2, <2>3
  <2>7. Hilo(P, N)!Pedir(p)
    BY <1>1 DEF Hilo!new_thread
  <2>8. \A o \in P : peticion[o].mensaje # f.mensaje /\ peticion[o].hilo # f.hilo
    BY <2>1, <2>6
  <2> QED BY <2>4, <2>5, <2>6, <2>7, <2>8, HiloPide, HiloBegins
<1>2. CASE Hilo(P, N)!reply_to_thread(p)
  <2>1. PICK u \in Miembros \cup Personal, h \in Hilos, m \in Mensajes :
          /\ hilo[h] # Nada
          /\ mensaje[m] = Nada /\ \A q \in P : peticion[q].mensaje # m
          /\ peticion' = [peticion EXCEPT ![p] =
                [Hilo(P, N)!Libre EXCEPT !.pc = "respuesta", !.usuario = u, !.hilo = h, !.mensaje = m]]
    BY <1>2 DEF Hilo!reply_to_thread, Hilo!Abierto, Hilo!SinUsar, Hilo!Existe, Hilo!Reservado, Hilo!Usuarios
  <2>2. PICK f : f = [Hilo(P, N)!Libre EXCEPT !.pc = "respuesta", !.usuario = u, !.hilo = h, !.mensaje = m]
    OBVIOUS
  <2>3. f = [pc |-> "respuesta", usuario |-> u, hilo |-> h, mensaje |-> m, status |-> "open",
             visto |-> {}, antes |-> Nada, despues |-> Nada]
    BY <2>2 DEF Hilo!Libre
  <2>4. f \in Hilo(P, N)!Peticion
    BY <2>3 DEF Hilo!Peticion, Hilo!Usuarios
  <2>5. DelHilo(f)
    BY <2>1, <2>3 DEF DelHilo
  <2>6. f.pc = "respuesta" /\ f.mensaje = m /\ peticion' = [peticion EXCEPT ![p] = f]
    BY <2>1, <2>2, <2>3
  <2> QED BY <1>2, <2>1, <2>4, <2>5, <2>6, HiloPide, HiloBegins DEF Hilo!reply_to_thread
<1>3. CASE Hilo(P, N)!change_thread_status(p)
  <2>1. PICK u \in Miembros \cup Personal, h \in Hilos, s \in {"fixed", "closed"} :
          /\ hilo[h] # Nada
          /\ peticion' = [peticion EXCEPT ![p] =
                [Hilo(P, N)!Libre EXCEPT !.pc = "estado", !.usuario = u, !.hilo = h, !.status = s]]
    BY <1>3 DEF Hilo!change_thread_status, Hilo!Abierto, Hilo!Usuarios
  <2>2. PICK f : f = [Hilo(P, N)!Libre EXCEPT !.pc = "estado", !.usuario = u, !.hilo = h, !.status = s]
    OBVIOUS
  <2>3. f = [pc |-> "estado", usuario |-> u, hilo |-> h, mensaje |-> Nada, status |-> s,
             visto |-> {}, antes |-> Nada, despues |-> Nada]
    BY <2>2 DEF Hilo!Libre
  <2>4. f \in Hilo(P, N)!Peticion
    BY <2>3 DEF Hilo!Peticion, Hilo!Usuarios
  <2>5. DelHilo(f)
    BY <2>1, <2>3 DEF DelHilo
  <2>6. f.pc = "estado" /\ peticion' = [peticion EXCEPT ![p] = f]
    BY <2>1, <2>2, <2>3
  <2> QED BY <1>3, <2>4, <2>5, <2>6, HiloPide, HiloBegins DEF Hilo!change_thread_status
<1>4. CASE Hilo(P, N)!view_thread(p)
  <2>1. PICK u \in Personal, h \in Hilos, x \in SUBSET Mensajes :
          /\ \A m \in x : mensaje[m] # Nada /\ mensaje[m].sender # u
          /\ peticion' = [peticion EXCEPT ![p] =
                [Hilo(P, N)!Libre EXCEPT !.pc = "leer", !.usuario = u, !.hilo = h, !.visto = x]]
    BY <1>4 DEF Hilo!view_thread, Hilo!Existe
  <2>2. PICK f : f = [Hilo(P, N)!Libre EXCEPT !.pc = "leer", !.usuario = u, !.hilo = h, !.visto = x]
    OBVIOUS
  <2>3. f = [pc |-> "leer", usuario |-> u, hilo |-> h, mensaje |-> Nada, status |-> "open",
             visto |-> x, antes |-> Nada, despues |-> Nada]
    BY <2>2 DEF Hilo!Libre
  <2>4. f \in Hilo(P, N)!Peticion
    BY <2>3 DEF Hilo!Peticion, Hilo!Usuarios
  <2>5. DelHilo(f)
    BY <2>1, <2>3 DEF DelHilo
  <2>6. f.pc = "leer" /\ peticion' = [peticion EXCEPT ![p] = f]
    BY <2>1, <2>2, <2>3
  <2> QED BY <1>4, <2>4, <2>5, <2>6, HiloPide, HiloBegins DEF Hilo!view_thread
<1>5. CASE Hilo(P, N)!report_message(p)
  <2>1. PICK u \in Miembros \cup Personal, m \in Mensajes :
          /\ mensaje[m] # Nada
          /\ peticion' = [peticion EXCEPT ![p] =
                [Hilo(P, N)!Libre EXCEPT !.pc = "informe", !.usuario = u, !.mensaje = m,
                    !.antes = mensaje[m], !.despues = Hilo(P, N)!Informado(m, u)]]
    BY <1>5 DEF Hilo!report_message, Hilo!Existe, Hilo!Usuarios
  <2>2. PICK d : d = Hilo(P, N)!Informado(m, u)
    OBVIOUS
  <2>3. mensaje[m] \in Hilo(P, N)!Mensaje
    BY <1>0, <2>1
  <2>4. /\ d \in Hilo(P, N)!Mensaje /\ d.hilo = mensaje[m].hilo
        /\ d.sender = mensaje[m].sender /\ d.leido = mensaje[m].leido
    BY <2>2, <2>3 DEF Hilo!Informado, Hilo!Mensaje, Hilo!Usuarios
  <2>5. PICK f : f = [Hilo(P, N)!Libre EXCEPT !.pc = "informe", !.usuario = u, !.mensaje = m,
                                              !.antes = mensaje[m], !.despues = d]
    OBVIOUS
  <2>6. f = [pc |-> "informe", usuario |-> u, hilo |-> Nada, mensaje |-> m,
             status |-> "open", visto |-> {}, antes |-> mensaje[m], despues |-> d]
    BY <2>5 DEF Hilo!Libre
  <2>7. peticion' = [peticion EXCEPT ![p] = f]
    BY <2>1, <2>2, <2>5
  <2>8. f \in Hilo(P, N)!Peticion /\ f.pc = "informe"
    BY <2>1, <2>3, <2>4, <2>6 DEF Hilo!Peticion, Hilo!Usuarios
  <2>9. DelHilo(f)
    BY <2>1, <2>3, <2>4, <2>6, HiloConstants DEF DelHilo, SoloElInforme
  <2> QED BY <1>5, <2>7, <2>8, <2>9, HiloPide, HiloBegins DEF Hilo!report_message
<1>6. CASE Hilo(P, N)!resolve_report(p)
  <2>1. PICK m \in Mensajes :
          /\ mensaje[m] # Nada
          /\ peticion' = [peticion EXCEPT ![p] =
                [Hilo(P, N)!Libre EXCEPT !.pc = "informe", !.mensaje = m, !.antes = mensaje[m],
                              !.despues = Hilo(P, N)!Resuelto(m)]]
    BY <1>6 DEF Hilo!resolve_report, Hilo!Existe
  <2>2. PICK d : d = Hilo(P, N)!Resuelto(m)
    OBVIOUS
  <2>3. mensaje[m] \in Hilo(P, N)!Mensaje
    BY <1>0, <2>1
  <2>4. /\ d \in Hilo(P, N)!Mensaje /\ d.hilo = mensaje[m].hilo
        /\ d.sender = mensaje[m].sender /\ d.leido = mensaje[m].leido
    BY <2>2, <2>3 DEF Hilo!Resuelto, Hilo!Mensaje, Hilo!Usuarios
  <2>5. PICK f : f = [Hilo(P, N)!Libre EXCEPT !.pc = "informe", !.mensaje = m,
                                              !.antes = mensaje[m], !.despues = d]
    OBVIOUS
  <2>6. f = [pc |-> "informe", usuario |-> Nada, hilo |-> Nada, mensaje |-> m,
             status |-> "open", visto |-> {}, antes |-> mensaje[m], despues |-> d]
    BY <2>5 DEF Hilo!Libre
  <2>7. peticion' = [peticion EXCEPT ![p] = f]
    BY <2>1, <2>2, <2>5
  <2>8. f \in Hilo(P, N)!Peticion /\ f.pc = "informe"
    BY <2>1, <2>3, <2>4, <2>6 DEF Hilo!Peticion, Hilo!Usuarios
  <2>9. DelHilo(f)
    BY <2>1, <2>3, <2>4, <2>6, HiloConstants DEF DelHilo, SoloElInforme
  <2> QED BY <1>6, <2>7, <2>8, <2>9, HiloPide, HiloBegins DEF Hilo!resolve_report
<1> QED BY <1>1, <1>2, <1>3, <1>4, <1>5, <1>6 DEF Hilo!Empieza

\* What is written keeps its place and its author, and a thread that is closed gets
\* its date.
HilosCrecen ==
    /\ \A m \in Mensajes : mensaje[m] # Nada =>
          /\ mensaje'[m] # Nada
          /\ mensaje'[m].hilo = mensaje[m].hilo /\ mensaje'[m].sender = mensaje[m].sender
    /\ \A h \in Hilos : hilo[h] # Nada =>
          /\ hilo'[h] # Nada /\ hilo'[h].student = hilo[h].student
          /\ hilo'[h].status = "closed" => hilo'[h].cerrado

\* Nobody else was about to write what is new.
NadieMasLoEscribe(P, p) ==
    \A o \in P \ {p} :
        /\ peticion[o].pc \in {"hilo", "respuesta"} => mensaje'[peticion[o].mensaje] = Nada
        /\ peticion[o].pc = "hilo" => hilo'[peticion[o].hilo] = Nada

\* A request that ends: what it wrote is firm, and the others are not disturbed.
LEMMA HiloEnds ==
    ASSUME NEW P, NEW N \in Nat, HiloInv(P, N), NEW p \in P,
           peticion' = [peticion EXCEPT ![p] = Hilo(P, N)!Libre],
           UNCHANGED <<inscritos, operaciones>>, caidas' \in 0..MaxCaidas,
           hilo' \in [Hilos -> Hilo(P, N)!Hilo \cup {Nada}],
           mensaje' \in [Mensajes -> Hilo(P, N)!Mensaje \cup {Nada}],
           HilosCrecen, NadieMasLoEscribe(P, p),
           \A m \in Mensajes : mensaje[m] = Nada => MensajeFirme(m)',
           \A h \in Hilos : hilo[h] = Nada => HiloFirme(h)'
    PROVE  HiloInv(P, N)'
<1>0. mensaje \in [Mensajes -> Hilo(P, N)!Mensaje \cup {Nada}]
  BY DEF HiloInv, HiloTipos
<1>1. HiloTipos(P, N)'
  BY HiloLibre DEF HiloInv, HiloTipos
<1>2. peticion'[p].pc = "idle" /\ \A o \in P \ {p} : peticion'[o] = peticion[o]
  BY HiloLibre DEF HiloInv, HiloTipos
<1>3. ASSUME NEW m \in Mensajes PROVE MensajeFirme(m)'
  <2>1. CASE mensaje[m] # Nada
    <3>1. mensaje[m] \in Hilo(P, N)!Mensaje
      BY <1>0, <2>1
    <3>2. mensaje[m].hilo \in Hilos
      BY <3>1 DEF Hilo!Mensaje
    <3> QED BY <2>1, <3>2 DEF HiloInv, MensajeFirme, HilosCrecen
  <2> QED BY <2>1
<1>4. ASSUME NEW h \in Hilos PROVE HiloFirme(h)'
  <2>1. CASE hilo[h] # Nada
    <3>1. PICK m \in Mensajes :
             mensaje[m] # Nada /\ mensaje[m].hilo = h /\ mensaje[m].sender = hilo[h].student
      BY <2>1 DEF HiloInv, HiloFirme
    <3>2. /\ mensaje'[m] # Nada /\ mensaje'[m].hilo = h /\ mensaje'[m].sender = hilo'[h].student
          /\ hilo'[h].status = "closed" => hilo'[h].cerrado
      BY <2>1, <3>1 DEF HilosCrecen
    <3> QED BY <3>2 DEF HiloFirme
  <2> QED BY <2>1
<1>5. ASSUME NEW o \in P PROVE DelHilo(peticion[o])'
  <2>1. CASE o = p
    BY <1>2, <2>1 DEF DelHilo
  <2>2. CASE o # p
    <3>0. PICK q : q = peticion[o] /\ q = peticion'[o]
      BY <1>2, <2>2
    <3>1. DelHilo(q) /\ q \in Hilo(P, N)!Peticion
      BY <2>2, <3>0 DEF HiloInv, HiloTipos
    <3>2. q.visto \subseteq Mensajes
      BY <3>1 DEF Hilo!Peticion
    <3>3. /\ q.pc \in {"hilo", "respuesta"} => mensaje'[q.mensaje] = Nada
          /\ q.pc = "hilo" => hilo'[q.hilo] = Nada
      BY <2>2, <3>0 DEF NadieMasLoEscribe
    <3>4. q.pc = "leer" => \A m \in q.visto : mensaje'[m] # Nada /\ mensaje'[m].sender # q.usuario
      BY <3>1, <3>2 DEF DelHilo, HilosCrecen
    <3>5. q.pc = "informe" => mensaje'[q.mensaje] # Nada
      BY <3>1 DEF DelHilo, HilosCrecen
    <3>6. q.pc \in {"respuesta", "estado"} => hilo'[q.hilo] # Nada
      BY <3>1 DEF DelHilo, HilosCrecen
    <3>7. DelHilo(q)'
      BY <3>1, <3>3, <3>4, <3>5, <3>6 DEF DelHilo
    <3> QED BY <3>0, <3>7 DEF DelHilo
  <2> QED BY <2>1, <2>2
<1>6. NadieLoEscribe(P)'
  BY <1>2 DEF HiloInv, NadieLoEscribe
<1> QED BY <1>1, <1>3, <1>4, <1>5, <1>6 DEF HiloInv

\* A thread with its first message.
LEMMA HiloNuevo ==
    ASSUME NEW P, NEW N \in Nat, HiloInv(P, N), NEW p \in P, Hilo(P, N)!GuardarHilo(p)
    PROVE  HiloInv(P, N)'
<1> DEFINE q == peticion[p]
<1>0. /\ hilo \in [Hilos -> Hilo(P, N)!Hilo \cup {Nada}]
      /\ mensaje \in [Mensajes -> Hilo(P, N)!Mensaje \cup {Nada}]
      /\ caidas \in 0..MaxCaidas /\ DelHilo(q) /\ NadieLoEscribe(P)
      /\ \A o \in P : DelHilo(peticion[o])
      /\ \A h \in Hilos : HiloFirme(h)
  BY DEF HiloInv, HiloTipos
<1>1. /\ q.pc = "hilo" /\ peticion' = [peticion EXCEPT ![p] = Hilo(P, N)!Libre]
      /\ UNCHANGED <<inscritos, operaciones, caidas>>
  BY DEF Hilo!GuardarHilo, Hilo!Terminar
<1>2. PICK w : w = [status |-> "open", student |-> q.usuario, cerrado |-> FALSE]
  OBVIOUS
<1>3. PICK n : n = [hilo |-> q.hilo, sender |-> q.usuario, leido |-> FALSE,
                    is_reported |-> FALSE, reason |-> Nada]
  OBVIOUS
<1>4. hilo' = [hilo EXCEPT ![q.hilo] = w] /\ mensaje' = [mensaje EXCEPT ![q.mensaje] = n]
  BY <1>2, <1>3 DEF Hilo!GuardarHilo, Hilo!Escrito
<1>5. /\ q.mensaje \in Mensajes /\ mensaje[q.mensaje] = Nada
      /\ q.hilo \in Hilos /\ hilo[q.hilo] = Nada /\ q.usuario \in Miembros
  BY <1>0, <1>1 DEF DelHilo
<1> HIDE DEF q
<1>6. /\ w \in Hilo(P, N)!Hilo /\ n \in Hilo(P, N)!Mensaje
      /\ w.status = "open" /\ w.student = q.usuario
      /\ n.hilo = q.hilo /\ n.sender = q.usuario
  BY <1>2, <1>3, <1>5 DEF Hilo!Hilo, Hilo!Mensaje, Hilo!Usuarios
<1>7. /\ hilo' \in [Hilos -> Hilo(P, N)!Hilo \cup {Nada}]
      /\ mensaje' \in [Mensajes -> Hilo(P, N)!Mensaje \cup {Nada}]
  BY <1>0, <1>4, <1>6
<1>8. /\ hilo'[q.hilo] = w /\ \A h \in Hilos \ {q.hilo} : hilo'[h] = hilo[h]
      /\ mensaje'[q.mensaje] = n /\ \A m \in Mensajes \ {q.mensaje} : mensaje'[m] = mensaje[m]
      /\ w # Nada /\ n # Nada
  BY <1>0, <1>4, <1>5, <1>6, HiloConstants
<1>9. HilosCrecen
  BY <1>0, <1>5, <1>8 DEF HilosCrecen, HiloFirme
<1>10. NadieMasLoEscribe(P, p)
  <2> SUFFICES ASSUME NEW o \in P \ {p}
               PROVE  /\ peticion[o].pc \in {"hilo", "respuesta"} => mensaje'[peticion[o].mensaje] = Nada
                      /\ peticion[o].pc = "hilo" => hilo'[peticion[o].hilo] = Nada
    BY DEF NadieMasLoEscribe
  <2>1. /\ peticion[o].pc \in {"hilo", "respuesta"} => peticion[o].mensaje # q.mensaje
        /\ peticion[o].pc = "hilo" => peticion[o].hilo # q.hilo
    BY <1>0, <1>1 DEF NadieLoEscribe, q
  <2> QED BY <1>0, <1>8, <2>1 DEF DelHilo
<1>11. ASSUME NEW m \in Mensajes, mensaje[m] = Nada PROVE MensajeFirme(m)'
  BY <1>6, <1>8, <1>11 DEF MensajeFirme
<1>12. ASSUME NEW h \in Hilos, hilo[h] = Nada PROVE HiloFirme(h)'
  BY <1>5, <1>6, <1>8, <1>12 DEF HiloFirme
<1> QED BY <1>0, <1>1, <1>7, <1>9, <1>10, <1>11, <1>12, HiloEnds

\* A reply.
LEMMA HiloRespuesta ==
    ASSUME NEW P, NEW N \in Nat, HiloInv(P, N), NEW p \in P, Hilo(P, N)!GuardarRespuesta(p)
    PROVE  HiloInv(P, N)'
<1> DEFINE q == peticion[p]
<1>0. /\ hilo \in [Hilos -> Hilo(P, N)!Hilo \cup {Nada}]
      /\ mensaje \in [Mensajes -> Hilo(P, N)!Mensaje \cup {Nada}]
      /\ caidas \in 0..MaxCaidas /\ DelHilo(q) /\ NadieLoEscribe(P)
      /\ \A o \in P : DelHilo(peticion[o])
      /\ \A h \in Hilos : HiloFirme(h)
  BY DEF HiloInv, HiloTipos
<1>1. /\ q.pc = "respuesta" /\ peticion' = [peticion EXCEPT ![p] = Hilo(P, N)!Libre]
      /\ UNCHANGED <<hilo, inscritos, operaciones, caidas>>
  BY DEF Hilo!GuardarRespuesta, Hilo!Terminar
<1>2. PICK n : n = [hilo |-> q.hilo, sender |-> q.usuario, leido |-> FALSE,
                    is_reported |-> FALSE, reason |-> Nada]
  OBVIOUS
<1>3. mensaje' = [mensaje EXCEPT ![q.mensaje] = n]
  BY <1>2 DEF Hilo!GuardarRespuesta, Hilo!Escrito
<1>4. /\ q.mensaje \in Mensajes /\ mensaje[q.mensaje] = Nada
      /\ q.hilo \in Hilos /\ hilo[q.hilo] # Nada /\ q.usuario \in Miembros \cup Personal
  BY <1>0, <1>1 DEF DelHilo
<1> HIDE DEF q
<1>5. n \in Hilo(P, N)!Mensaje /\ n.hilo = q.hilo
  BY <1>2, <1>4 DEF Hilo!Mensaje, Hilo!Usuarios
<1>6. mensaje' \in [Mensajes -> Hilo(P, N)!Mensaje \cup {Nada}]
  BY <1>0, <1>3, <1>5
<1>7. mensaje'[q.mensaje] = n /\ \A m \in Mensajes \ {q.mensaje} : mensaje'[m] = mensaje[m]
  BY <1>0, <1>3, <1>4
<1>8. HilosCrecen
  BY <1>0, <1>1, <1>4, <1>7 DEF HilosCrecen, HiloFirme
<1>9. NadieMasLoEscribe(P, p)
  <2> SUFFICES ASSUME NEW o \in P \ {p}
               PROVE  /\ peticion[o].pc \in {"hilo", "respuesta"} => mensaje'[peticion[o].mensaje] = Nada
                      /\ peticion[o].pc = "hilo" => hilo'[peticion[o].hilo] = Nada
    BY DEF NadieMasLoEscribe
  <2>1. peticion[o].pc \in {"hilo", "respuesta"} => peticion[o].mensaje # q.mensaje
    BY <1>0, <1>1 DEF NadieLoEscribe, q
  <2> QED BY <1>0, <1>1, <1>7, <2>1 DEF DelHilo
<1>10. ASSUME NEW m \in Mensajes, mensaje[m] = Nada PROVE MensajeFirme(m)'
  BY <1>1, <1>4, <1>5, <1>7, <1>10 DEF MensajeFirme
<1>11. ASSUME NEW h \in Hilos, hilo[h] = Nada PROVE HiloFirme(h)'
  BY <1>1, <1>11 DEF HiloFirme
<1> QED BY <1>0, <1>1, <1>6, <1>8, <1>9, <1>10, <1>11, HiloEnds

\* Neither a change of status nor a mark nor a report adds a row.
LEMMA HiloCambia ==
    ASSUME NEW P, NEW N \in Nat, HiloInv(P, N), NEW p \in P,
           peticion' = [peticion EXCEPT ![p] = Hilo(P, N)!Libre],
           UNCHANGED <<inscritos, operaciones>>, caidas' \in 0..MaxCaidas,
           hilo' \in [Hilos -> Hilo(P, N)!Hilo \cup {Nada}],
           mensaje' \in [Mensajes -> Hilo(P, N)!Mensaje \cup {Nada}],
           HilosCrecen,
           \A m \in Mensajes : mensaje[m] = Nada => mensaje'[m] = Nada,
           \A h \in Hilos : hilo[h] = Nada => hilo'[h] = Nada
    PROVE  HiloInv(P, N)'
<1>1. NadieMasLoEscribe(P, p)
  BY DEF NadieMasLoEscribe, HiloInv, DelHilo
<1>2. ASSUME NEW m \in Mensajes, mensaje[m] = Nada PROVE MensajeFirme(m)'
  BY <1>2 DEF MensajeFirme
<1>3. ASSUME NEW h \in Hilos, hilo[h] = Nada PROVE HiloFirme(h)'
  BY <1>3 DEF HiloFirme
<1> QED BY <1>1, <1>2, <1>3, HiloEnds

\* The status of a thread.
LEMMA HiloEstado ==
    ASSUME NEW P, NEW N \in Nat, HiloInv(P, N), NEW p \in P, Hilo(P, N)!GuardarEstado(p)
    PROVE  HiloInv(P, N)'
<1>1. PICK q : q = peticion[p]
  OBVIOUS
<1>2. /\ hilo \in [Hilos -> Hilo(P, N)!Hilo \cup {Nada}]
      /\ mensaje \in [Mensajes -> Hilo(P, N)!Mensaje \cup {Nada}]
      /\ caidas \in 0..MaxCaidas /\ DelHilo(q) /\ q \in Hilo(P, N)!Peticion
      /\ \A h \in Hilos : HiloFirme(h)
  BY <1>1 DEF HiloInv, HiloTipos
<1>3. /\ q.pc = "estado" /\ peticion' = [peticion EXCEPT ![p] = Hilo(P, N)!Libre]
      /\ UNCHANGED <<mensaje, inscritos, operaciones, caidas>>
      /\ hilo' = [hilo EXCEPT ![q.hilo].status = q.status,
                              ![q.hilo].cerrado = Hilo(P, N)!Fechado(q.status, hilo[q.hilo].cerrado)]
  BY <1>1 DEF Hilo!GuardarEstado, Hilo!Terminar
<1>4. q.hilo \in Hilos /\ hilo[q.hilo] # Nada /\ q.status \in {"open", "fixed", "closed"}
  BY <1>2, <1>3 DEF DelHilo, Hilo!Peticion
<1>5. PICK v \in Hilo(P, N)!Hilo : v = hilo[q.hilo]
  BY <1>2, <1>4
<1>6. PICK c : c = Hilo(P, N)!Fechado(q.status, v.cerrado)
  OBVIOUS
<1>7. c \in BOOLEAN /\ (q.status = "closed" => c)
  BY <1>5, <1>6 DEF Hilo!Fechado, Hilo!Hilo
<1>8. PICK w : w = [[v EXCEPT !.status = q.status] EXCEPT !.cerrado = c]
  OBVIOUS
<1>9. /\ w \in Hilo(P, N)!Hilo /\ w.student = v.student /\ w.status = q.status /\ w.cerrado = c
  BY <1>4, <1>5, <1>7, <1>8 DEF Hilo!Hilo
<1>10. hilo' = [hilo EXCEPT ![q.hilo] = w]
  BY <1>2, <1>3, <1>4, <1>5, <1>6, <1>8
<1>11. hilo' \in [Hilos -> Hilo(P, N)!Hilo \cup {Nada}]
  BY <1>2, <1>9, <1>10
<1>12. hilo'[q.hilo] = w /\ w # Nada /\ \A h \in Hilos \ {q.hilo} : hilo'[h] = hilo[h]
  BY <1>2, <1>4, <1>9, <1>10, HiloConstants
<1>13. HilosCrecen
  BY <1>2, <1>3, <1>5, <1>7, <1>9, <1>12 DEF HilosCrecen, HiloFirme
<1>14. \A h \in Hilos : hilo[h] = Nada => hilo'[h] = Nada
  BY <1>4, <1>12
<1> QED BY <1>2, <1>3, <1>11, <1>13, <1>14, HiloCambia

\* What a page showed is marked.
LEMMA HiloLeido ==
    ASSUME NEW P, NEW N \in Nat, HiloInv(P, N), NEW p \in P, Hilo(P, N)!MarcarLeidos(p)
    PROVE  HiloInv(P, N)'
<1>1. PICK q : q = peticion[p]
  OBVIOUS
<1>2. /\ hilo \in [Hilos -> Hilo(P, N)!Hilo \cup {Nada}]
      /\ mensaje \in [Mensajes -> Hilo(P, N)!Mensaje \cup {Nada}]
      /\ caidas \in 0..MaxCaidas /\ DelHilo(q)
      /\ \A h \in Hilos : HiloFirme(h)
  BY <1>1 DEF HiloInv, HiloTipos
<1>3. /\ q.pc = "leer" /\ peticion' = [peticion EXCEPT ![p] = Hilo(P, N)!Libre]
      /\ UNCHANGED <<hilo, inscritos, operaciones, caidas>>
      /\ mensaje' = [m \in Mensajes |-> IF m \in q.visto
                                        THEN [mensaje[m] EXCEPT !.leido = TRUE] ELSE mensaje[m]]
  BY <1>1 DEF Hilo!MarcarLeidos, Hilo!Terminar, Hilo!Vistos
<1>4. ASSUME NEW m \in Mensajes
      PROVE  /\ mensaje[m] = Nada => mensaje'[m] = Nada
             /\ mensaje[m] # Nada => /\ mensaje'[m] \in Hilo(P, N)!Mensaje
                                     /\ mensaje'[m].hilo = mensaje[m].hilo
                                     /\ mensaje'[m].sender = mensaje[m].sender
  <2>1. CASE m \in q.visto
    <3>1. mensaje[m] # Nada /\ mensaje[m] \in Hilo(P, N)!Mensaje
      BY <1>2, <1>3, <2>1 DEF DelHilo
    <3>2. mensaje'[m] = [mensaje[m] EXCEPT !.leido = TRUE]
      BY <1>3, <2>1
    <3> QED BY <3>1, <3>2 DEF Hilo!Mensaje
  <2>2. CASE m \notin q.visto
    BY <1>2, <1>3, <2>2
  <2> QED BY <2>1, <2>2
<1>5. mensaje' \in [Mensajes -> Hilo(P, N)!Mensaje \cup {Nada}]
  <2>1. mensaje' = [m \in Mensajes |-> mensaje'[m]]
    BY <1>3
  <2> QED BY <1>4, <2>1
<1>6. HilosCrecen
  BY <1>2, <1>3, <1>4, HiloConstants DEF HilosCrecen, HiloFirme
<1> QED BY <1>2, <1>3, <1>4, <1>5, <1>6, HiloCambia

\* The columns of a report.
LEMMA HiloColumnas ==
    ASSUME NEW q, SoloElInforme(q.antes, q.despues),
           NEW v \in Hilo(Una, MaxSeguidas)!Mensaje, NEW w,
           w = [c \in DOMAIN v |-> IF q.despues[c] = q.antes[c] THEN v[c] ELSE q.despues[c]]
    PROVE  /\ w \in Hilo(Una, MaxSeguidas)!Mensaje
           /\ w.hilo = v.hilo /\ w.sender = v.sender /\ w.leido = v.leido
BY DEF SoloElInforme, Hilo!Mensaje

\* A report is written or resolved.
LEMMA HiloInforme ==
    ASSUME NEW P, NEW N \in Nat, HiloInv(P, N), NEW p \in P, Hilo(P, N)!GuardarInforme(p)
    PROVE  HiloInv(P, N)'
<1>1. PICK q : q = peticion[p]
  OBVIOUS
<1>2. /\ hilo \in [Hilos -> Hilo(P, N)!Hilo \cup {Nada}]
      /\ mensaje \in [Mensajes -> Hilo(P, N)!Mensaje \cup {Nada}]
      /\ caidas \in 0..MaxCaidas /\ DelHilo(q)
      /\ \A h \in Hilos : HiloFirme(h)
  BY <1>1 DEF HiloInv, HiloTipos
<1>3. /\ q.pc = "informe" /\ peticion' = [peticion EXCEPT ![p] = Hilo(P, N)!Libre]
      /\ UNCHANGED <<hilo, inscritos, operaciones, caidas>>
      /\ mensaje' = [mensaje EXCEPT ![q.mensaje] =
            [c \in DOMAIN @ |-> IF q.despues[c] = q.antes[c] THEN @[c] ELSE q.despues[c]]]
  BY <1>1 DEF Hilo!GuardarInforme, Hilo!Terminar
<1>4. /\ q.mensaje \in Mensajes /\ mensaje[q.mensaje] # Nada
      /\ SoloElInforme(q.antes, q.despues)
  BY <1>2, <1>3 DEF DelHilo
<1>5. PICK v \in Hilo(P, N)!Mensaje : v = mensaje[q.mensaje]
  BY <1>2, <1>4
<1>6. PICK w : w = [c \in DOMAIN v |-> IF q.despues[c] = q.antes[c] THEN v[c] ELSE q.despues[c]]
  OBVIOUS
<1>7. mensaje' = [mensaje EXCEPT ![q.mensaje] = w]
  BY <1>3, <1>5, <1>6
<1>8. w \in Hilo(P, N)!Mensaje /\ w.hilo = v.hilo /\ w.sender = v.sender
  BY <1>4, <1>5, <1>6, HiloColumnas, HiloConstants
<1>9. mensaje' \in [Mensajes -> Hilo(P, N)!Mensaje \cup {Nada}]
  BY <1>2, <1>7, <1>8
<1>10. /\ mensaje'[q.mensaje] = w /\ w # Nada
       /\ \A m \in Mensajes \ {q.mensaje} : mensaje'[m] = mensaje[m]
  BY <1>2, <1>4, <1>7, <1>8, HiloConstants
<1>11. HilosCrecen
  BY <1>2, <1>3, <1>5, <1>8, <1>10 DEF HilosCrecen, HiloFirme
<1>12. \A m \in Mensajes : mensaje[m] = Nada => mensaje'[m] = Nada
  BY <1>4, <1>10
<1> QED BY <1>2, <1>3, <1>9, <1>11, <1>12, HiloCambia

\* A request that dies.
LEMMA HiloCae ==
    ASSUME NEW P, NEW N \in Nat, HiloInv(P, N), NEW p \in P, Hilo(P, N)!Caer(p)
    PROVE  HiloInv(P, N)'
<1>1. /\ hilo \in [Hilos -> Hilo(P, N)!Hilo \cup {Nada}]
      /\ mensaje \in [Mensajes -> Hilo(P, N)!Mensaje \cup {Nada}]
      /\ caidas' \in 0..MaxCaidas /\ UNCHANGED <<hilo, mensaje, inscritos, operaciones>>
      /\ peticion' = [peticion EXCEPT ![p] = Hilo(P, N)!Libre]
  BY HiloConstants DEF HiloInv, HiloTipos, Hilo!Caer
<1>2. HilosCrecen
  BY <1>1 DEF HilosCrecen, HiloInv, HiloFirme
<1> QED BY <1>1, <1>2, HiloCambia

\* Every step keeps the invariant.
LEMMA HiloSigue ==
    ASSUME NEW P, NEW N \in Nat, HiloInv(P, N), [Hilo(P, N)!Next]_(Hilo(P, N)!vars)
    PROVE  HiloInv(P, N)'
<1>1. CASE \E p \in P : Hilo(P, N)!Sigue(p) \/ Hilo(P, N)!Empieza(p) \/ Hilo(P, N)!Caer(p)
  BY <1>1, HiloPeticiones, HiloNuevo, HiloRespuesta, HiloEstado, HiloLeido, HiloInforme, HiloCae
  DEF Hilo!Sigue
<1>2. CASE Hilo(P, N)!Desinscribir \/ UNCHANGED Hilo(P, N)!vars
  <2>1. UNCHANGED <<hilo, mensaje, peticion, operaciones, caidas>> /\ inscritos' \subseteq Miembros
    BY <1>2 DEF Hilo!Desinscribir, Hilo!vars, HiloInv, HiloTipos
  <2> QED BY <2>1 DEF HiloInv, HiloTipos, MensajeFirme, HiloFirme, DelHilo, NadieLoEscribe
<1> QED BY <1>1, <1>2 DEF Hilo!Next

\* What the runs check of the threads through any number of requests.
LEMMA HiloDice ==
    ASSUME NEW P, NEW N \in Nat, HiloInv(P, N)
    PROVE  Hilo(P, N)!TypeOK /\ Hilo(P, N)!ClosedHasDate
<1>1. operaciones <= N /\ caidas <= MaxCaidas
  BY HiloConstants DEF HiloInv, HiloTipos
<1>2. Hilo(P, N)!TypeOK
  BY <1>1 DEF HiloInv, HiloTipos, MensajeFirme, HiloFirme, Hilo!TypeOK, Hilo!Existe, Hilo!Abierto
<1>3. Hilo(P, N)!ClosedHasDate
  BY DEF HiloInv, HiloFirme, Hilo!ClosedHasDate, Hilo!Abierto
<1> QED BY <1>2, <1>3

\* Who begins or dies writes nothing.
LEMMA HiloEscriben ==
    ASSUME NEW P, NEW N, [Hilo(P, N)!Next]_(Hilo(P, N)!vars)
    PROVE  \/ UNCHANGED <<hilo, mensaje>>
           \/ \E p \in P : Hilo(P, N)!Sigue(p)
<1>1. ASSUME NEW p \in P, Hilo(P, N)!Empieza(p) PROVE UNCHANGED <<hilo, mensaje>>
  BY <1>1, HiloPide
  DEF Hilo!Empieza, Hilo!new_thread, Hilo!reply_to_thread, Hilo!change_thread_status, Hilo!view_thread,
      Hilo!report_message, Hilo!resolve_report
<1>2. ASSUME NEW p \in P, Hilo(P, N)!Caer(p) PROVE UNCHANGED <<hilo, mensaje>>
  BY <1>2 DEF Hilo!Caer
<1>3. CASE Hilo(P, N)!Desinscribir \/ UNCHANGED Hilo(P, N)!vars
  BY <1>3 DEF Hilo!Desinscribir, Hilo!vars
<1> QED BY <1>1, <1>2, <1>3 DEF Hilo!Next

\* What is marked was on a page and written by somebody else.
LEMMA HiloVisto ==
    ASSUME NEW P, NEW N \in Nat, HiloInv(P, N), [Hilo(P, N)!Next]_(Hilo(P, N)!vars)
    PROVE  Hilo(P, N)!ReadWasSeen
<1> SUFFICES ASSUME NEW m \in Mensajes, mensaje[m] # Nada, ~mensaje[m].leido, mensaje'[m].leido
             PROVE  \E p \in P : m \in peticion[p].visto /\ peticion[p].usuario # mensaje[m].sender
  BY DEF Hilo!ReadWasSeen, Hilo!Existe
<1>1. PICK p \in P : Hilo(P, N)!Sigue(p)
  BY HiloEscriben
<1>2. PICK q : q = peticion[p]
  OBVIOUS
<1>3. mensaje \in [Mensajes -> Hilo(P, N)!Mensaje \cup {Nada}] /\ DelHilo(q)
  BY <1>2 DEF HiloInv, HiloTipos
<1>4. CASE Hilo(P, N)!GuardarHilo(p) \/ Hilo(P, N)!GuardarRespuesta(p)
  <2>1. \E n : mensaje' = [mensaje EXCEPT ![q.mensaje] = n]
    BY <1>2, <1>4 DEF Hilo!GuardarHilo, Hilo!GuardarRespuesta, Hilo!Escrito
  <2>2. mensaje[q.mensaje] = Nada
    BY <1>2, <1>3, <1>4 DEF Hilo!GuardarHilo, Hilo!GuardarRespuesta, DelHilo
  <2> QED BY <1>3, <2>1, <2>2
<1>5. CASE Hilo(P, N)!GuardarEstado(p)
  BY <1>5 DEF Hilo!GuardarEstado
<1>6. CASE Hilo(P, N)!MarcarLeidos(p)
  <2>1. m \in q.visto
    BY <1>2, <1>6 DEF Hilo!MarcarLeidos, Hilo!Vistos
  <2>2. q.usuario # mensaje[m].sender
    BY <1>2, <1>3, <1>6, <2>1 DEF Hilo!MarcarLeidos, DelHilo
  <2> QED BY <1>2, <2>1, <2>2
<1>7. CASE Hilo(P, N)!GuardarInforme(p)
  <2>1. q.mensaje \in Mensajes /\ mensaje[q.mensaje] # Nada /\ SoloElInforme(q.antes, q.despues)
    BY <1>2, <1>3, <1>7 DEF Hilo!GuardarInforme, DelHilo
  <2>2. PICK v \in Hilo(P, N)!Mensaje : v = mensaje[q.mensaje]
    BY <1>3, <2>1
  <2>3. PICK w : w = [c \in DOMAIN v |-> IF q.despues[c] = q.antes[c] THEN v[c] ELSE q.despues[c]]
    OBVIOUS
  <2>4. mensaje' = [mensaje EXCEPT ![q.mensaje] = w]
    BY <1>2, <1>7, <2>2, <2>3 DEF Hilo!GuardarInforme
  <2>5. w.leido = v.leido
    BY <2>1, <2>2, <2>3, HiloColumnas, HiloConstants
  <2> QED BY <1>3, <2>1, <2>2, <2>4, <2>5
<1> QED BY <1>1, <1>4, <1>5, <1>6, <1>7 DEF Hilo!Sigue

----------------------------------------
(* Threads, one request at a time *)

\* A report has its reason.
MotivoFirme(m) == mensaje[m] # Nada => (mensaje[m].is_reported <=> mensaje[m].reason # Nada)

\* What a request read is still so: the thread that it answers or changes is not
\* closed, and the message that it reports is as it was.
SinCambios(q) ==
    /\ q.pc \in {"respuesta", "estado"} => hilo[q.hilo].status # "closed"
    /\ q.pc = "informe" =>
          /\ q.antes = mensaje[q.mensaje]
          /\ q.despues.is_reported <=> q.despues.reason # Nada
          /\ q.usuario # Nada => q.despues.is_reported

UnHiloInv ==
    /\ HiloInv(Una, MaxSeguidas)
    /\ \A m \in Mensajes : MotivoFirme(m)
    /\ SinCambios(peticion[q1])

\* No threads at first.
LEMMA UnHiloEmpieza == Hilo(Una, MaxSeguidas)!Init => UnHiloInv
<1> SUFFICES ASSUME Hilo(Una, MaxSeguidas)!Init PROVE UnHiloInv
  OBVIOUS
<1>1. HiloInv(Una, MaxSeguidas)
  BY HiloEmpieza, HiloConstants
<1>2. peticion[q1].pc = "idle" /\ \A m \in Mensajes : mensaje[m] = Nada
  BY HiloLibre DEF Hilo!Init, Una
<1> QED BY <1>1, <1>2 DEF UnHiloInv, MotivoFirme, SinCambios

\* A request that begins has read the rows of now.
LEMMA UnHiloBegins ==
    ASSUME UnHiloInv, Hilo(Una, MaxSeguidas)!Empieza(q1)
    PROVE  SinCambios(peticion[q1])' /\ UNCHANGED <<hilo, mensaje>>
<1> DEFINE L == Hilo(Una, MaxSeguidas)!Libre
<1>0. /\ mensaje \in [Mensajes -> Hilo(Una, MaxSeguidas)!Mensaje \cup {Nada}]
      /\ peticion \in [Una -> Hilo(Una, MaxSeguidas)!Peticion] /\ q1 \in Una
  BY DEF UnHiloInv, HiloInv, HiloTipos, Una
<1>1. UNCHANGED <<hilo, mensaje>>
  BY HiloPide
  DEF Hilo!Empieza, Hilo!new_thread, Hilo!reply_to_thread, Hilo!change_thread_status, Hilo!view_thread,
      Hilo!report_message, Hilo!resolve_report
<1>a. ASSUME NEW f, peticion' = [peticion EXCEPT ![q1] = f], SinCambios(f)
      PROVE  SinCambios(peticion[q1])'
  BY <1>0, <1>1, <1>a DEF SinCambios
<1>2. CASE Hilo(Una, MaxSeguidas)!new_thread(q1)
  <2>1. PICK u, h, m : peticion' = [peticion EXCEPT ![q1] =
                [L EXCEPT !.pc = "hilo", !.usuario = u, !.hilo = h, !.mensaje = m]]
    BY <1>2 DEF Hilo!new_thread
  <2>2. PICK f : f = [L EXCEPT !.pc = "hilo", !.usuario = u, !.hilo = h, !.mensaje = m]
    OBVIOUS
  <2>3. f.pc = "hilo"
    BY <2>2 DEF Hilo!Libre
  <2>p. peticion' = [peticion EXCEPT ![q1] = f]
    BY <2>1, <2>2
  <2>s. SinCambios(f)
    BY <2>1, <2>3 DEF SinCambios
  <2> QED BY <1>1, <1>a, <2>p, <2>s
<1>3. CASE Hilo(Una, MaxSeguidas)!reply_to_thread(q1)
  <2>1. PICK u, h, m : /\ hilo[h].status # "closed"
                       /\ peticion' = [peticion EXCEPT ![q1] =
                             [L EXCEPT !.pc = "respuesta", !.usuario = u, !.hilo = h, !.mensaje = m]]
    BY <1>3 DEF Hilo!reply_to_thread, Hilo!Respondible
  <2>2. PICK f : f = [L EXCEPT !.pc = "respuesta", !.usuario = u, !.hilo = h, !.mensaje = m]
    OBVIOUS
  <2>3. f.pc = "respuesta" /\ f.hilo = h
    BY <2>2 DEF Hilo!Libre
  <2>p. peticion' = [peticion EXCEPT ![q1] = f]
    BY <2>1, <2>2
  <2>s. SinCambios(f)
    BY <2>1, <2>3 DEF SinCambios
  <2> QED BY <1>1, <1>a, <2>p, <2>s
<1>4. CASE Hilo(Una, MaxSeguidas)!change_thread_status(q1)
  <2>1. PICK u, h, s : /\ Hilo(Una, MaxSeguidas)!Transicion(hilo[h].status, s)
                       /\ peticion' = [peticion EXCEPT ![q1] =
                             [L EXCEPT !.pc = "estado", !.usuario = u, !.hilo = h, !.status = s]]
    BY <1>4 DEF Hilo!change_thread_status
  <2>2. PICK f : f = [L EXCEPT !.pc = "estado", !.usuario = u, !.hilo = h, !.status = s]
    OBVIOUS
  <2>3. f.pc = "estado" /\ f.hilo = h
    BY <2>2 DEF Hilo!Libre
  <2>4. hilo[h].status # "closed"
    BY <2>1 DEF Hilo!Transicion
  <2>p. peticion' = [peticion EXCEPT ![q1] = f]
    BY <2>1, <2>2
  <2>s. SinCambios(f)
    BY <2>1, <2>3, <2>4 DEF SinCambios
  <2> QED BY <1>1, <1>a, <2>p, <2>s
<1>5. CASE Hilo(Una, MaxSeguidas)!view_thread(q1)
  <2>1. PICK u, h, x : peticion' = [peticion EXCEPT ![q1] =
                [L EXCEPT !.pc = "leer", !.usuario = u, !.hilo = h, !.visto = x]]
    BY <1>5 DEF Hilo!view_thread
  <2>2. PICK f : f = [L EXCEPT !.pc = "leer", !.usuario = u, !.hilo = h, !.visto = x]
    OBVIOUS
  <2>3. f.pc = "leer"
    BY <2>2 DEF Hilo!Libre
  <2>p. peticion' = [peticion EXCEPT ![q1] = f]
    BY <2>1, <2>2
  <2>s. SinCambios(f)
    BY <2>1, <2>3 DEF SinCambios
  <2> QED BY <1>1, <1>a, <2>p, <2>s
<1>6. CASE Hilo(Una, MaxSeguidas)!report_message(q1)
  <2>1. PICK u \in Miembros \cup Personal, m \in Mensajes :
          /\ mensaje[m] # Nada
          /\ peticion' = [peticion EXCEPT ![q1] =
                [L EXCEPT !.pc = "informe", !.usuario = u, !.mensaje = m,
                    !.antes = mensaje[m], !.despues = Hilo(Una, MaxSeguidas)!Informado(m, u)]]
    BY <1>6 DEF Hilo!report_message, Hilo!Usuarios, Hilo!Existe
  <2>2. PICK d : d = Hilo(Una, MaxSeguidas)!Informado(m, u)
    OBVIOUS
  <2>3. mensaje[m] \in Hilo(Una, MaxSeguidas)!Mensaje
    BY <1>0, <2>1
  <2>4. d.is_reported = TRUE /\ d.reason = u
    BY <2>2, <2>3 DEF Hilo!Informado, Hilo!Mensaje
  <2>5. PICK f : f = [L EXCEPT !.pc = "informe", !.usuario = u, !.mensaje = m,
                               !.antes = mensaje[m], !.despues = d]
    OBVIOUS
  <2>6. /\ f.pc = "informe" /\ f.usuario = u /\ f.mensaje = m
        /\ f.antes = mensaje[m] /\ f.despues = d
    BY <2>5 DEF Hilo!Libre
  <2>7. u # Nada
    BY HiloConstants
  <2>8. SinCambios(f)
    BY <2>4, <2>6, <2>7 DEF SinCambios
  <2>p. peticion' = [peticion EXCEPT ![q1] = f]
    BY <2>1, <2>2, <2>5
  <2> QED BY <1>1, <1>a, <2>p, <2>8
<1>7. CASE Hilo(Una, MaxSeguidas)!resolve_report(q1)
  <2>1. PICK m \in Mensajes :
          /\ mensaje[m] # Nada
          /\ peticion' = [peticion EXCEPT ![q1] =
                [L EXCEPT !.pc = "informe", !.mensaje = m, !.antes = mensaje[m],
                              !.despues = Hilo(Una, MaxSeguidas)!Resuelto(m)]]
    BY <1>7 DEF Hilo!resolve_report, Hilo!Existe
  <2>2. PICK d : d = Hilo(Una, MaxSeguidas)!Resuelto(m)
    OBVIOUS
  <2>3. mensaje[m] \in Hilo(Una, MaxSeguidas)!Mensaje
    BY <1>0, <2>1
  <2>4. d.is_reported = FALSE /\ d.reason = Nada
    BY <2>2, <2>3 DEF Hilo!Resuelto, Hilo!Mensaje
  <2>5. PICK f : f = [L EXCEPT !.pc = "informe", !.mensaje = m, !.antes = mensaje[m], !.despues = d]
    OBVIOUS
  <2>6. /\ f.pc = "informe" /\ f.usuario = Nada /\ f.mensaje = m
        /\ f.antes = mensaje[m] /\ f.despues = d
    BY <2>5 DEF Hilo!Libre
  <2>7. SinCambios(f)
    BY <2>4, <2>6 DEF SinCambios
  <2>p. peticion' = [peticion EXCEPT ![q1] = f]
    BY <2>1, <2>2, <2>5
  <2> QED BY <1>1, <1>a, <2>p, <2>7
<1> QED BY <1>1, <1>2, <1>3, <1>4, <1>5, <1>6, <1>7 DEF Hilo!Empieza

\* The only request ends what it began: a new message has no report, and a report
\* leaves the message as the request meant it.
LEMMA UnHiloWrites ==
    ASSUME UnHiloInv, Hilo(Una, MaxSeguidas)!Sigue(q1)
    PROVE  SinCambios(peticion[q1])' /\ \A m \in Mensajes : MotivoFirme(m)'
<1>1. PICK q : q = peticion[q1]
  OBVIOUS
<1>2. /\ mensaje \in [Mensajes -> Hilo(Una, MaxSeguidas)!Mensaje \cup {Nada}]
      /\ peticion \in [Una -> Hilo(Una, MaxSeguidas)!Peticion] /\ q1 \in Una
      /\ DelHilo(q) /\ SinCambios(q) /\ \A m \in Mensajes : MotivoFirme(m)
  BY <1>1 DEF UnHiloInv, HiloInv, HiloTipos, Una
<1>3. peticion' = [peticion EXCEPT ![q1] = Hilo(Una, MaxSeguidas)!Libre]
  BY DEF Hilo!Sigue, Hilo!GuardarHilo, Hilo!GuardarRespuesta, Hilo!GuardarEstado, Hilo!MarcarLeidos,
         Hilo!GuardarInforme, Hilo!Terminar
<1>4. SinCambios(peticion[q1])'
  <2>1. peticion'[q1].pc = "idle"
    BY <1>2, <1>3, HiloLibre
  <2> QED BY <2>1 DEF SinCambios
<1>5. CASE Hilo(Una, MaxSeguidas)!GuardarHilo(q1) \/ Hilo(Una, MaxSeguidas)!GuardarRespuesta(q1)
  <2>1. PICK n : n = [hilo |-> q.hilo, sender |-> q.usuario, leido |-> FALSE,
                      is_reported |-> FALSE, reason |-> Nada]
    OBVIOUS
  <2>2. mensaje' = [mensaje EXCEPT ![q.mensaje] = n]
    BY <1>1, <1>5, <2>1 DEF Hilo!GuardarHilo, Hilo!GuardarRespuesta, Hilo!Escrito
  <2>3. n.is_reported = FALSE /\ n.reason = Nada
    BY <2>1
  <2>4. \A m \in Mensajes : mensaje'[m] = mensaje[m] \/ mensaje'[m] = n
    BY <1>2, <2>2
  <2> QED BY <1>2, <1>4, <2>3, <2>4 DEF MotivoFirme
<1>6. CASE Hilo(Una, MaxSeguidas)!GuardarEstado(q1)
  BY <1>2, <1>4, <1>6 DEF Hilo!GuardarEstado, MotivoFirme
<1>7. CASE Hilo(Una, MaxSeguidas)!MarcarLeidos(q1)
  <2>1. ASSUME NEW m \in Mensajes PROVE MotivoFirme(m)'
    <3>1. CASE m \in q.visto
      <4>1. mensaje[m] # Nada /\ mensaje[m] \in Hilo(Una, MaxSeguidas)!Mensaje
        BY <1>1, <1>2, <1>7, <3>1 DEF DelHilo, Hilo!MarcarLeidos
      <4>2. mensaje'[m] = [mensaje[m] EXCEPT !.leido = TRUE]
        BY <1>1, <1>7, <3>1 DEF Hilo!MarcarLeidos, Hilo!Vistos
      <4>3. mensaje'[m].is_reported = mensaje[m].is_reported /\ mensaje'[m].reason = mensaje[m].reason
        BY <4>1, <4>2 DEF Hilo!Mensaje
      <4> QED BY <1>2, <4>1, <4>3 DEF MotivoFirme
    <3>2. CASE m \notin q.visto
      BY <1>1, <1>2, <1>7, <3>2 DEF Hilo!MarcarLeidos, Hilo!Vistos, MotivoFirme
    <3> QED BY <3>1, <3>2
  <2> QED BY <1>4, <2>1
<1>8. CASE Hilo(Una, MaxSeguidas)!GuardarInforme(q1)
  <2>1. /\ q.mensaje \in Mensajes /\ SoloElInforme(q.antes, q.despues) /\ q.antes = mensaje[q.mensaje]
        /\ q.despues.is_reported <=> q.despues.reason # Nada
    BY <1>1, <1>2, <1>8 DEF Hilo!GuardarInforme, DelHilo, SinCambios
  <2>2. PICK v \in Hilo(Una, MaxSeguidas)!Mensaje : v = mensaje[q.mensaje] /\ v = q.antes
    BY <2>1 DEF SoloElInforme
  <2>3. PICK w : w = [c \in DOMAIN v |-> IF q.despues[c] = q.antes[c] THEN v[c] ELSE q.despues[c]]
    OBVIOUS
  <2>4. mensaje' = [mensaje EXCEPT ![q.mensaje] = w]
    BY <1>1, <1>8, <2>2, <2>3 DEF Hilo!GuardarInforme
  <2>5. w.is_reported = q.despues.is_reported /\ w.reason = q.despues.reason
    BY <2>1, <2>2, <2>3 DEF SoloElInforme, Hilo!Mensaje
  <2>6. \A m \in Mensajes : mensaje'[m] = mensaje[m] \/ mensaje'[m] = w
    BY <1>2, <2>4
  <2> QED BY <1>2, <1>4, <2>1, <2>5, <2>6 DEF MotivoFirme
<1> QED BY <1>5, <1>6, <1>7, <1>8 DEF Hilo!Sigue

\* Every step keeps the invariant.
LEMMA UnHiloSigue ==
    ASSUME UnHiloInv, [Hilo(Una, MaxSeguidas)!Next]_(Hilo(Una, MaxSeguidas)!vars)
    PROVE  UnHiloInv'
<1>1. HiloInv(Una, MaxSeguidas)'
  BY HiloSigue, HiloConstants DEF UnHiloInv
<1>2. ASSUME UNCHANGED <<hilo, mensaje>>, SinCambios(peticion[q1])' PROVE UnHiloInv'
  BY <1>1, <1>2 DEF UnHiloInv, MotivoFirme
<1>3. CASE Hilo(Una, MaxSeguidas)!Sigue(q1)
  BY <1>1, <1>3, UnHiloWrites DEF UnHiloInv
<1>4. CASE Hilo(Una, MaxSeguidas)!Empieza(q1)
  BY <1>2, <1>4, UnHiloBegins
<1>5. CASE Hilo(Una, MaxSeguidas)!Caer(q1)
  <2>1. peticion'[q1].pc = "idle" /\ UNCHANGED <<hilo, mensaje>>
    BY <1>5, HiloLibre DEF Hilo!Caer, UnHiloInv, HiloInv, HiloTipos, Una
  <2> QED BY <1>2, <2>1 DEF SinCambios
<1>6. CASE Hilo(Una, MaxSeguidas)!Desinscribir \/ UNCHANGED Hilo(Una, MaxSeguidas)!vars
  <2>1. UNCHANGED <<hilo, mensaje, peticion>>
    BY <1>6 DEF Hilo!Desinscribir, Hilo!vars
  <2> QED BY <1>2, <2>1 DEF SinCambios, UnHiloInv
<1> QED BY <1>3, <1>4, <1>5, <1>6 DEF Hilo!Next, Una

\* What the run checks of the threads, one request at a time: states ...
LEMMA UnHiloDice == UnHiloInv => Hilo(Una, MaxSeguidas)!ReportHasReason
BY DEF UnHiloInv, MotivoFirme, Hilo!ReportHasReason, Hilo!Existe

\* ... and steps: a closed thread stays closed and nobody answers it, and a report
\* that was answered is listed.
LEMMA UnHiloCalla ==
    ASSUME UnHiloInv, [Hilo(Una, MaxSeguidas)!Next]_(Hilo(Una, MaxSeguidas)!vars)
    PROVE  /\ Hilo(Una, MaxSeguidas)!ClosedIsFinal /\ Hilo(Una, MaxSeguidas)!ClosedIsSilent
           /\ Hilo(Una, MaxSeguidas)!ReportIsListed
<1>1. PICK q : q = peticion[q1]
  OBVIOUS
<1>2. /\ hilo \in [Hilos -> Hilo(Una, MaxSeguidas)!Hilo \cup {Nada}]
      /\ mensaje \in [Mensajes -> Hilo(Una, MaxSeguidas)!Mensaje \cup {Nada}]
      /\ DelHilo(q) /\ SinCambios(q)
  BY <1>1 DEF UnHiloInv, HiloInv, HiloTipos, Una
<1>3. UNCHANGED <<hilo, mensaje>> \/ Hilo(Una, MaxSeguidas)!Sigue(q1)
  BY HiloEscriben DEF Una
<1>4. Hilo(Una, MaxSeguidas)!ClosedIsFinal
  <2> SUFFICES ASSUME NEW h \in Hilos, hilo[h] # Nada, hilo[h].status = "closed"
               PROVE  hilo'[h] = hilo[h]
    BY DEF Hilo!ClosedIsFinal, Hilo!Abierto
  <2>1. CASE Hilo(Una, MaxSeguidas)!GuardarHilo(q1)
    <3>1. hilo[q.hilo] = Nada /\ \E w : hilo' = [hilo EXCEPT ![q.hilo] = w]
      BY <1>1, <1>2, <2>1 DEF Hilo!GuardarHilo, DelHilo
    <3> QED BY <1>2, <3>1
  <2>2. CASE Hilo(Una, MaxSeguidas)!GuardarEstado(q1)
    <3>1. hilo[q.hilo].status # "closed" /\ \E w : hilo' = [hilo EXCEPT ![q.hilo] = w]
      BY <1>1, <1>2, <2>2 DEF Hilo!GuardarEstado, SinCambios
    <3> QED BY <1>2, <3>1
  <2>3. CASE Hilo(Una, MaxSeguidas)!GuardarRespuesta(q1) \/ Hilo(Una, MaxSeguidas)!MarcarLeidos(q1)
             \/ Hilo(Una, MaxSeguidas)!GuardarInforme(q1)
    BY <2>3 DEF Hilo!GuardarRespuesta, Hilo!MarcarLeidos, Hilo!GuardarInforme
  <2> QED BY <1>3, <2>1, <2>2, <2>3 DEF Hilo!Sigue
<1>5. Hilo(Una, MaxSeguidas)!ClosedIsSilent
  <2> SUFFICES ASSUME NEW m \in Mensajes, mensaje[m] = Nada, mensaje'[m] # Nada,
                      hilo[mensaje'[m].hilo] # Nada
               PROVE  hilo[mensaje'[m].hilo].status # "closed"
    BY DEF Hilo!ClosedIsSilent, Hilo!Abierto, Hilo!Existe
  <2>1. CASE Hilo(Una, MaxSeguidas)!GuardarHilo(q1) \/ Hilo(Una, MaxSeguidas)!GuardarRespuesta(q1)
    <3>1. PICK n : n = [hilo |-> q.hilo, sender |-> q.usuario, leido |-> FALSE,
                        is_reported |-> FALSE, reason |-> Nada]
      OBVIOUS
    <3>2. mensaje' = [mensaje EXCEPT ![q.mensaje] = n] /\ n.hilo = q.hilo
      BY <1>1, <2>1, <3>1 DEF Hilo!GuardarHilo, Hilo!GuardarRespuesta, Hilo!Escrito
    <3>3. mensaje'[m] = n
      BY <1>2, <3>2
    <3>4. q.pc = "respuesta"
      BY <1>1, <1>2, <2>1, <3>2, <3>3 DEF Hilo!GuardarHilo, Hilo!GuardarRespuesta, DelHilo
    <3> QED BY <1>2, <3>2, <3>3, <3>4 DEF SinCambios
  <2>2. CASE Hilo(Una, MaxSeguidas)!GuardarEstado(q1)
    BY <2>2 DEF Hilo!GuardarEstado
  <2>3. CASE Hilo(Una, MaxSeguidas)!MarcarLeidos(q1)
    BY <1>1, <1>2, <2>3 DEF Hilo!MarcarLeidos, Hilo!Vistos, DelHilo
  <2>4. CASE Hilo(Una, MaxSeguidas)!GuardarInforme(q1)
    <3>1. mensaje[q.mensaje] # Nada /\ \E w : mensaje' = [mensaje EXCEPT ![q.mensaje] = w]
      BY <1>1, <1>2, <2>4 DEF Hilo!GuardarInforme, DelHilo
    <3> QED BY <1>2, <3>1
  <2> QED BY <1>3, <2>1, <2>2, <2>3, <2>4 DEF Hilo!Sigue
<1>6. Hilo(Una, MaxSeguidas)!ReportIsListed
  <2> SUFFICES ASSUME Hilo(Una, MaxSeguidas)!GuardarInforme(q1), q.usuario # Nada
               PROVE  mensaje'[q.mensaje].is_reported
    BY <1>1 DEF Hilo!ReportIsListed, Una
  <2>1. /\ q.mensaje \in Mensajes /\ SoloElInforme(q.antes, q.despues) /\ q.antes = mensaje[q.mensaje]
        /\ q.despues.is_reported
    BY <1>1, <1>2 DEF Hilo!GuardarInforme, DelHilo, SinCambios
  <2>2. PICK v \in Hilo(Una, MaxSeguidas)!Mensaje : v = mensaje[q.mensaje] /\ v = q.antes
    BY <2>1 DEF SoloElInforme
  <2>3. PICK w : w = [c \in DOMAIN v |-> IF q.despues[c] = q.antes[c] THEN v[c] ELSE q.despues[c]]
    OBVIOUS
  <2>4. mensaje' = [mensaje EXCEPT ![q.mensaje] = w]
    BY <1>1, <2>2, <2>3 DEF Hilo!GuardarInforme
  <2>5. w.is_reported = q.despues.is_reported
    BY <2>1, <2>2, <2>3 DEF SoloElInforme, Hilo!Mensaje
  <2> QED BY <1>2, <2>1, <2>4, <2>5
<1> QED BY <1>4, <1>5, <1>6

----------------------------------------
(* Posts of the community (CommunityHub), for any number of requests *)

HubEventos == {"report", "hide", "restore", "lock", "unlock", "pin", "unpin"}

\* A post that was reported k times at most.
HubPost(k) ==
    [autor: Miembros \cup Personal, estado_moderacion: {"visible", "oculto"},
     estado: {"abierto", "cerrado"}, fijado: BOOLEAN, reportes_abiertos: 0..k]

\* The last event of these kinds is e, in a trail.
UltimoEn(s, e, tipos) ==
    \E i \in 1..Len(s) : s[i] = e /\ \A j \in i + 1..Len(s) : s[j] \notin tipos

\* What a decision changes in a post, and what not.
HubCambio(e, a, d) ==
    /\ e \in HubEventos /\ d.autor = a.autor
    /\ e = "report" => d.reportes_abiertos > a.reportes_abiertos
    /\ e = "restore" => d.reportes_abiertos = 0 /\ d.estado_moderacion = "visible"
    /\ e = "hide" => d.estado_moderacion = "oculto"
    /\ e = "lock" => d.estado = "cerrado"
    /\ e = "unlock" => d.estado = "abierto"
    /\ e = "pin" => d.fijado = TRUE
    /\ e = "unpin" => d.fijado = FALSE
    /\ e \notin {"report", "restore"} => d.reportes_abiertos = a.reportes_abiertos
    /\ e \notin {"hide", "restore"} => d.estado_moderacion = a.estado_moderacion
    /\ e \notin {"lock", "unlock"} => d.estado = a.estado
    /\ e \notin {"pin", "unpin"} => d.fijado = a.fijado

HubTipos(P, N) ==
    /\ operaciones \in 0..N /\ caidas \in 0..MaxCaidas
    /\ post \in [Posts -> HubPost(operaciones) \cup {Nada}]
    /\ respuesta \in [Respuestas -> [raiz: Posts, autor: Miembros \cup Personal] \cup {Nada}]
    /\ likes \subseteq Posts \X (Miembros \cup Personal)
    /\ traza \in [Posts -> Seq(HubEventos)]
    /\ activos \subseteq Miembros \cup Personal

\* A post that is not there has no events, and one that was reported after the last
\* restore has a report open.
PostFirme(p) ==
    /\ post[p] = Nada => traza[p] = <<>>
    /\ post[p] # Nada /\ UltimoEn(traza[p], "report", {"report", "restore"})
       => post[p].reportes_abiertos > 0

\* Replies and likes are of a post; nobody likes their own.
HubEnlaces ==
    /\ \A r \in Respuestas : respuesta[r] # Nada => post[respuesta[r].raiz] # Nada
    /\ \A l \in likes : post[l[1]] # Nada /\ post[l[1]].autor # l[2]

\* What a request is about, with the types of its fields.
HubForma(q) ==
    /\ q.pc \in {"idle", "responder", "like", "escribir"}
    /\ q.usuario \in Miembros \cup Personal \cup {Nada} /\ q.post \in Posts \cup {Nada}
    /\ q.evento \in HubEventos \cup {Nada}
    /\ q.antes \in HubPost(operaciones) \cup {Nada}
    /\ q.despues \in HubPost(operaciones) \cup {Nada}

DelHub(q) ==
    /\ HubForma(q)
    /\ q.pc \in {"responder", "like"} =>
          q.usuario \in Miembros \cup Personal /\ q.post \in Posts /\ post[q.post] # Nada
    /\ q.pc = "like" => post[q.post].autor # q.usuario
    /\ q.pc = "escribir" =>
          /\ q.post \in Posts /\ post[q.post] # Nada
          /\ q.antes # Nada /\ q.despues # Nada /\ HubCambio(q.evento, q.antes, q.despues)

HubInv(P, A, N) ==
    /\ HubTipos(P, N)
    /\ peticion \in [P -> Hub(P, A, N)!Peticion]
    /\ \A p \in Posts : PostFirme(p)
    /\ HubEnlaces
    /\ \A r \in P : DelHub(peticion[r])

----------------------------------------
(* ... are kept by every step *)

\* The constants of the community.
LEMMA HubConstants ==
    ASSUME NEW P, NEW A, NEW N, Hub(P, A, N)!HubAssumption
    PROVE  /\ Nada \notin Posts \cup Respuestas \cup (Miembros \cup Personal)
           /\ Hub(P, A, N)!Eventos = HubEventos
           /\ Hub(P, A, N)!Usuarios = Miembros \cup Personal
           /\ Hub(P, A, N)!Post = HubPost(N) /\ Nada \notin HubPost(N)
           /\ Hub(P, A, N)!Respuesta = [raiz: Posts, autor: Miembros \cup Personal]
           /\ Nada \notin [raiz: Posts, autor: Miembros \cup Personal]
           /\ N \in Nat /\ MaxCaidas \in Nat
BY DEF Hub!HubAssumption, Hub!Post, HubPost, Hub!Respuesta, Hub!Usuarios, Hub!Eventos, HubEventos

\* A post that was reported less often is a post.
LEMMA HubPostCrece ==
    ASSUME NEW k \in Nat, NEW n \in Nat, k <= n
    PROVE  HubPost(k) \subseteq HubPost(n)
BY DEF HubPost

\* The last event of a trail that grows by one.
LEMMA UltimoTrasUno ==
    ASSUME NEW s \in Seq(HubEventos), NEW x \in HubEventos, NEW tipos, NEW e \in tipos
    PROVE  /\ x \in tipos => (UltimoEn(Append(s, x), e, tipos) <=> x = e)
           /\ x \notin tipos => (UltimoEn(Append(s, x), e, tipos) <=> UltimoEn(s, e, tipos))
<1>1. PICK t : t = Append(s, x)
  OBVIOUS
<1>2. /\ Len(t) = Len(s) + 1 /\ Len(s) \in Nat /\ t[Len(s) + 1] = x
      /\ \A i \in 1..Len(s) : t[i] = s[i]
  BY <1>1
<1>3. ASSUME x \in tipos, UltimoEn(t, e, tipos) PROVE x = e
  <2>1. PICK i \in 1..Len(t) : t[i] = e /\ \A j \in i + 1..Len(t) : t[j] \notin tipos
    BY <1>3 DEF UltimoEn
  <2>2. CASE i = Len(s) + 1
    BY <1>2, <2>1, <2>2
  <2>3. CASE i # Len(s) + 1
    <3>1. Len(s) + 1 \in i + 1..Len(t)
      BY <1>2, <2>1, <2>3
    <3>2. t[Len(s) + 1] \notin tipos
      BY <2>1, <3>1
    <3> QED BY <1>2, <1>3, <3>2
  <2> QED BY <2>2, <2>3
<1>4. ASSUME x = e PROVE UltimoEn(t, e, tipos)
  <2>1. /\ Len(s) + 1 \in 1..Len(t) /\ t[Len(s) + 1] = e
        /\ \A j \in (Len(s) + 1) + 1..Len(t) : t[j] \notin tipos
    BY <1>2, <1>4
  <2> QED BY <2>1 DEF UltimoEn
<1>5. ASSUME x \notin tipos, UltimoEn(t, e, tipos) PROVE UltimoEn(s, e, tipos)
  <2>1. PICK i \in 1..Len(t) : t[i] = e /\ \A j \in i + 1..Len(t) : t[j] \notin tipos
    BY <1>5 DEF UltimoEn
  <2>2. i # Len(s) + 1
    BY <1>2, <1>5, <2>1
  <2>3. i \in 1..Len(s) /\ s[i] = e
    BY <1>2, <2>1, <2>2
  <2>4. \A j \in i + 1..Len(s) : s[j] \notin tipos
    BY <1>2, <2>1, <2>3
  <2> QED BY <2>3, <2>4 DEF UltimoEn
<1>6. ASSUME x \notin tipos, UltimoEn(s, e, tipos) PROVE UltimoEn(t, e, tipos)
  <2>1. PICK i \in 1..Len(s) : s[i] = e /\ \A j \in i + 1..Len(s) : s[j] \notin tipos
    BY <1>6 DEF UltimoEn
  <2>2. i \in 1..Len(t) /\ t[i] = e
    BY <1>2, <2>1
  <2>3. ASSUME NEW j \in i + 1..Len(t) PROVE t[j] \notin tipos
    <3>1. CASE j = Len(s) + 1
      BY <1>2, <1>6, <3>1
    <3>2. CASE j # Len(s) + 1
      <4>1. j \in i + 1..Len(s) /\ j \in 1..Len(s)
        BY <1>2, <2>1, <3>2
      <4> QED BY <1>2, <2>1, <4>1
    <3> QED BY <3>1, <3>2
  <2> QED BY <2>2, <2>3 DEF UltimoEn
<1> QED BY <1>1, <1>3, <1>4, <1>5, <1>6

\* No events, no last one.
LEMMA UltimoDeNinguno ==
    ASSUME NEW e, NEW tipos PROVE ~UltimoEn(<<>>, e, tipos)
BY DEF UltimoEn

\* A request that has not begun is one, about nothing.
LEMMA HubLibre ==
    ASSUME NEW P, NEW A, NEW N
    PROVE  /\ Hub(P, A, N)!Libre \in Hub(P, A, N)!Peticion /\ Hub(P, A, N)!Libre.pc = "idle"
           /\ DelHub(Hub(P, A, N)!Libre) /\ DelHub(Hub(P, A, N)!Libre)'
BY DEF Hub!Libre, Hub!Peticion, DelHub, HubForma

\* No posts at first.
LEMMA HubEmpieza ==
    ASSUME NEW P, NEW A, NEW N, Hub(P, A, N)!HubAssumption, Hub(P, A, N)!Init
    PROVE  HubInv(P, A, N)
<1>1. /\ post = [p \in Posts |-> Nada] /\ respuesta = [r \in Respuestas |-> Nada]
      /\ likes = {} /\ traza = [p \in Posts |-> <<>>] /\ activos = Miembros \cup Personal
      /\ peticion = [r \in P |-> Hub(P, A, N)!Libre] /\ operaciones = 0 /\ caidas = 0
  BY DEF Hub!Init, Hub!Usuarios
<1>2. HubTipos(P, N)
  BY <1>1, HubConstants DEF HubTipos
<1>3. HubEnlaces /\ \A p \in Posts : PostFirme(p)
  BY <1>1 DEF HubEnlaces, PostFirme
<1> QED BY <1>1, <1>2, <1>3, HubLibre DEF HubInv

\* Posts stay and keep their author.
PostsQuedan ==
    \A p \in Posts : post[p] # Nada => post'[p] # Nada /\ post'[p].autor = post[p].autor

\* What a request is about stays true while posts stay.
LEMMA HubQueda ==
    ASSUME NEW q, DelHub(q), PostsQuedan, operaciones \in Nat, operaciones' \in Nat,
           operaciones <= operaciones'
    PROVE  DelHub(q)'
<1>1. HubPost(operaciones) \subseteq HubPost(operaciones')
  BY HubPostCrece
<1> QED BY <1>1 DEF DelHub, HubForma, PostsQuedan

\* A step that keeps the posts, and of the requests changes what is about one.
LEMMA HubPaso ==
    ASSUME NEW P, NEW A, NEW N, Hub(P, A, N)!HubAssumption, HubInv(P, A, N),
           peticion' \in [P -> Hub(P, A, N)!Peticion],
           \A o \in P : peticion'[o] = peticion[o] \/ DelHub(peticion[o])',
           HubTipos(P, N)', \A p \in Posts : PostFirme(p)', HubEnlaces',
           operaciones <= operaciones', PostsQuedan
    PROVE  HubInv(P, A, N)'
<1>1. operaciones \in Nat /\ operaciones' \in Nat
  BY HubConstants DEF HubInv, HubTipos
<1>2. ASSUME NEW o \in P, peticion'[o] = peticion[o] PROVE DelHub(peticion[o])'
  <2>1. PICK q : q = peticion[o]
    OBVIOUS
  <2>2. DelHub(q)
    BY <2>1 DEF HubInv
  <2>3. DelHub(q)'
    BY <1>1, <2>2, HubQueda
  <2>4. peticion'[o] = q
    BY <1>2, <2>1
  <2> QED BY <2>3, <2>4 DEF DelHub, HubForma
<1> QED BY <1>2 DEF HubInv

\* A request that begins or ends and leaves the rows alone.
LEMMA HubPide ==
    ASSUME NEW P, NEW A, NEW N, Hub(P, A, N)!HubAssumption, HubInv(P, A, N), NEW p \in P,
           NEW f \in Hub(P, A, N)!Peticion, peticion' = [peticion EXCEPT ![p] = f], DelHub(f)',
           UNCHANGED <<post, respuesta, likes, traza, activos>>,
           operaciones' \in operaciones..N, caidas' \in 0..MaxCaidas
    PROVE  HubInv(P, A, N)'
<1>0. HubTipos(P, N) /\ operaciones \in Nat /\ operaciones' \in 0..N /\ operaciones <= operaciones'
      /\ N \in Nat
  BY HubConstants DEF HubInv, HubTipos
<1>1. HubPost(operaciones) \subseteq HubPost(operaciones')
  BY <1>0, HubPostCrece
<1>2. HubTipos(P, N)'
  BY <1>0, <1>1 DEF HubTipos
<1>3. (\A x \in Posts : PostFirme(x)') /\ HubEnlaces' /\ PostsQuedan
  BY DEF HubInv, PostFirme, HubEnlaces, PostsQuedan
<1>4. peticion' \in [P -> Hub(P, A, N)!Peticion]
  BY DEF HubInv
<1>5. ASSUME NEW o \in P PROVE peticion'[o] = peticion[o] \/ DelHub(peticion[o])'
  <2>1. CASE o = p
    <3>1. peticion'[o] = f
      BY <2>1 DEF HubInv
    <3> QED BY <3>1 DEF DelHub, HubForma
  <2>2. CASE o # p
    BY <2>2 DEF HubInv
  <2> QED BY <2>1, <2>2
<1> QED BY <1>0, <1>2, <1>3, <1>4, <1>5, HubPaso

\* A member who replies or likes, once the request is known.
LEMMA HubMiembroPide ==
    ASSUME NEW P, NEW A, NEW N, Hub(P, A, N)!HubAssumption, HubInv(P, A, N), NEW p \in P,
           NEW u \in Miembros \cup Personal, NEW x \in Posts, NEW k \in {"responder", "like"},
           post[x] # Nada, k = "like" => post[x].autor # u, NEW a, Hub(P, A, N)!Pedir(p, a),
           peticion' = [peticion EXCEPT ![p] =
              [Hub(P, A, N)!Libre EXCEPT !.pc = k, !.usuario = u, !.post = x]]
    PROVE  HubInv(P, A, N)'
<1>2. PICK f : f = [Hub(P, A, N)!Libre EXCEPT !.pc = k, !.usuario = u, !.post = x]
  OBVIOUS
<1>3. f = [pc |-> k, usuario |-> u, post |-> x, evento |-> Nada, antes |-> Nada, despues |-> Nada]
  BY <1>2 DEF Hub!Libre
<1>4. f \in Hub(P, A, N)!Peticion
  BY <1>3, HubConstants DEF Hub!Peticion
<1>5. UNCHANGED <<post, respuesta, likes, traza, activos, caidas>> /\ operaciones' = operaciones + 1
      /\ operaciones < N
  BY DEF Hub!Pedir
<1>6. DelHub(f)'
  BY <1>3, <1>5 DEF DelHub, HubForma
<1>7. operaciones' \in operaciones..N /\ caidas' \in 0..MaxCaidas
  BY <1>5, HubConstants DEF HubInv, HubTipos
<1>8. peticion' = [peticion EXCEPT ![p] = f]
  BY <1>2
<1> QED BY <1>4, <1>5, <1>6, <1>7, <1>8, HubPide

\* A member who replies or likes.
LEMMA HubMiembro ==
    ASSUME NEW P, NEW A, NEW N, Hub(P, A, N)!HubAssumption, HubInv(P, A, N), NEW p \in P,
           Hub(P, A, N)!responder(p) \/ Hub(P, A, N)!dar_like(p)
    PROVE  HubInv(P, A, N)'
<1>1. CASE Hub(P, A, N)!responder(p)
  <2>1. PICK u \in Miembros \cup Personal, x \in Posts :
          /\ Hub(P, A, N)!_cargar(u, x)
          /\ peticion' = [peticion EXCEPT ![p] =
                [Hub(P, A, N)!Libre EXCEPT !.pc = "responder", !.usuario = u, !.post = x]]
    BY <1>1 DEF Hub!responder, Hub!Usuarios
  <2>2. post[x] # Nada
    BY <2>1 DEF Hub!_cargar, Hub!Publicado
  <2>3. Hub(P, A, N)!Pedir(p, "responder")
    BY <1>1 DEF Hub!responder
  <2> QED BY <2>1, <2>2, <2>3, HubMiembroPide
<1>2. CASE Hub(P, A, N)!dar_like(p)
  <2>1. PICK u \in Miembros \cup Personal, x \in Posts :
          /\ Hub(P, A, N)!_cargar(u, x) /\ Hub(P, A, N)!PuedeGustar(u, x)
          /\ peticion' = [peticion EXCEPT ![p] =
                [Hub(P, A, N)!Libre EXCEPT !.pc = "like", !.usuario = u, !.post = x]]
    BY <1>2 DEF Hub!dar_like, Hub!Usuarios
  <2>2. post[x] # Nada /\ post[x].autor # u
    BY <2>1 DEF Hub!_cargar, Hub!Publicado, Hub!PuedeGustar
  <2>3. Hub(P, A, N)!Pedir(p, "like")
    BY <1>2 DEF Hub!dar_like
  <2> QED BY <2>1, <2>2, <2>3, HubMiembroPide
<1> QED BY <1>1, <1>2

\* A report or a decision, once it is known what it will write.
LEMMA HubEscribira ==
    ASSUME NEW P, NEW A, NEW N, Hub(P, A, N)!HubAssumption, HubInv(P, A, N), NEW p \in P,
           NEW u \in Miembros \cup Personal, NEW x \in Posts, NEW e, NEW d, NEW a,
           post[x] # Nada, Hub(P, A, N)!Pedir(p, a),
           d \in HubPost(operaciones + 1), HubCambio(e, post[x], d),
           Hub(P, A, N)!Escribira(p, u, x, e, d)
    PROVE  HubInv(P, A, N)'
<1>1. PICK f : f = [pc |-> "escribir", usuario |-> u, post |-> x, evento |-> e,
                    antes |-> post[x], despues |-> d]
  OBVIOUS
<1>2. UNCHANGED <<post, respuesta, likes, traza, activos, caidas>> /\ operaciones' = operaciones + 1
      /\ operaciones < N
  BY DEF Hub!Pedir
<1>3. operaciones' \in operaciones..N /\ caidas' \in 0..MaxCaidas /\ operaciones \in Nat
      /\ operaciones + 1 <= N /\ N \in Nat /\ post[x] \in HubPost(operaciones)
  BY <1>2, HubConstants DEF HubInv, HubTipos
<1>4. /\ HubPost(operaciones) \subseteq HubPost(operaciones + 1)
      /\ HubPost(operaciones + 1) \subseteq HubPost(N)
  BY <1>3, HubPostCrece
<1>5. post[x] \in HubPost(operaciones + 1) /\ post[x] \in HubPost(N) /\ d \in HubPost(N) /\ d # Nada
  BY <1>3, <1>4, HubConstants
<1>6. e \in HubEventos
  BY DEF HubCambio
<1>7. f \in Hub(P, A, N)!Peticion
  <2>1. Hub(P, A, N)!Peticion =
          [pc: {"idle", "responder", "like", "escribir"},
           usuario: Miembros \cup Personal \cup {Nada},
           post: Posts \cup {Nada}, evento: HubEventos \cup {Nada},
           antes: HubPost(N) \cup {Nada}, despues: HubPost(N) \cup {Nada}]
    BY HubConstants DEF Hub!Peticion
  <2> QED BY <1>1, <1>5, <1>6, <2>1
<1>8. DelHub(f)'
  BY <1>1, <1>2, <1>5, <1>6 DEF DelHub, HubForma
<1>9. peticion' = [peticion EXCEPT ![p] = f]
  BY <1>1 DEF Hub!Escribira
<1> QED BY <1>2, <1>3, <1>7, <1>8, <1>9, HubPide

\* A report and the decisions of the staff.
HubDecision(P, A, N, p) ==
    \/ Hub(P, A, N)!reportar(p) \/ Hub(P, A, N)!ocultar(p) \/ Hub(P, A, N)!restaurar(p)
    \/ Hub(P, A, N)!cerrar(p) \/ Hub(P, A, N)!abrir(p) \/ Hub(P, A, N)!fijar(p)

\* What each of them will write is a post, and the event says in what it differs.
LEMMA HubDecide ==
    ASSUME NEW P, NEW A, NEW N, Hub(P, A, N)!HubAssumption, HubInv(P, A, N), NEW p \in P,
           HubDecision(P, A, N, p)
    PROVE  \E u \in Miembros \cup Personal, x \in Posts :
             \E e, a : \E d \in HubPost(operaciones + 1) :
                /\ post[x] # Nada /\ Hub(P, A, N)!Pedir(p, a)
                /\ HubCambio(e, post[x], d) /\ Hub(P, A, N)!Escribira(p, u, x, e, d)
<1>0. operaciones \in Nat /\ \A x \in Posts : post[x] # Nada => post[x] \in HubPost(operaciones)
  BY HubConstants DEF HubInv, HubTipos
<1>1. CASE Hub(P, A, N)!reportar(p)
  <2>1. PICK u \in Miembros \cup Personal, x \in Posts :
          /\ Hub(P, A, N)!_cargar(u, x)
          /\ Hub(P, A, N)!Escribira(p, u, x, "report", Hub(P, A, N)!Reportado(x))
    BY <1>1 DEF Hub!reportar, Hub!Usuarios
  <2>2. PICK d : d = [post[x] EXCEPT !.reportes_abiertos = @ + 1]
    OBVIOUS
  <2>3. post[x] # Nada /\ post[x] \in HubPost(operaciones)
    BY <1>0, <2>1 DEF Hub!_cargar, Hub!Publicado
  <2>4. d \in HubPost(operaciones + 1) /\ HubCambio("report", post[x], d)
    BY <1>0, <2>2, <2>3 DEF HubPost, HubCambio, HubEventos
  <2>5. Hub(P, A, N)!Escribira(p, u, x, "report", d)
    BY <2>1, <2>2 DEF Hub!Reportado
  <2>6. Hub(P, A, N)!Pedir(p, "reportar")
    BY <1>1 DEF Hub!reportar
  <2> QED BY <2>3, <2>4, <2>5, <2>6
<1>2. CASE Hub(P, A, N)!ocultar(p)
  <2>1. PICK u \in Miembros \cup Personal, x \in Posts :
          /\ Hub(P, A, N)!Publicado(x)
          /\ Hub(P, A, N)!Escribira(p, u, x, "hide", [post[x] EXCEPT !.estado_moderacion = "oculto"])
    BY <1>2 DEF Hub!ocultar
  <2>2. PICK d : d = [post[x] EXCEPT !.estado_moderacion = "oculto"]
    OBVIOUS
  <2>3. post[x] # Nada /\ post[x] \in HubPost(operaciones)
    BY <1>0, <2>1 DEF Hub!Publicado
  <2>4. d \in HubPost(operaciones + 1) /\ HubCambio("hide", post[x], d)
    BY <1>0, <2>2, <2>3 DEF HubPost, HubCambio, HubEventos
  <2>5. Hub(P, A, N)!Escribira(p, u, x, "hide", d)
    BY <2>1, <2>2
  <2>6. Hub(P, A, N)!Pedir(p, "ocultar")
    BY <1>2 DEF Hub!ocultar
  <2> QED BY <2>3, <2>4, <2>5, <2>6
<1>3. CASE Hub(P, A, N)!restaurar(p)
  <2>1. PICK u \in Miembros \cup Personal, x \in Posts :
          /\ Hub(P, A, N)!Publicado(x)
          /\ Hub(P, A, N)!Escribira(p, u, x, "restore", Hub(P, A, N)!Restaurado(x))
    BY <1>3 DEF Hub!restaurar
  <2>2. PICK d : d = [[post[x] EXCEPT !.estado_moderacion = "visible"] EXCEPT !.reportes_abiertos = 0]
    OBVIOUS
  <2>3. post[x] # Nada /\ post[x] \in HubPost(operaciones)
    BY <1>0, <2>1 DEF Hub!Publicado
  <2>4. d \in HubPost(operaciones + 1) /\ HubCambio("restore", post[x], d)
    <3>1. PICK v \in HubPost(operaciones) : v = post[x]
      BY <2>3
    <3>2. d = [autor |-> v.autor, estado_moderacion |-> "visible", estado |-> v.estado,
               fijado |-> v.fijado, reportes_abiertos |-> 0]
      BY <2>2, <3>1 DEF HubPost
    <3>3. d \in HubPost(operaciones + 1)
      BY <1>0, <3>1, <3>2 DEF HubPost
    <3> QED BY <3>1, <3>2, <3>3 DEF HubCambio, HubEventos
  <2>5. Hub(P, A, N)!Escribira(p, u, x, "restore", d)
    BY <2>1, <2>2 DEF Hub!Restaurado
  <2>6. Hub(P, A, N)!Pedir(p, "ocultar")
    BY <1>3 DEF Hub!restaurar
  <2> QED BY <2>3, <2>4, <2>5, <2>6
<1>4. CASE Hub(P, A, N)!cerrar(p)
  <2>1. PICK u \in Miembros \cup Personal, x \in Posts :
          /\ Hub(P, A, N)!Publicado(x)
          /\ Hub(P, A, N)!Escribira(p, u, x, "lock", [post[x] EXCEPT !.estado = "cerrado"])
    BY <1>4 DEF Hub!cerrar
  <2>2. PICK d : d = [post[x] EXCEPT !.estado = "cerrado"]
    OBVIOUS
  <2>3. post[x] # Nada /\ post[x] \in HubPost(operaciones)
    BY <1>0, <2>1 DEF Hub!Publicado
  <2>4. d \in HubPost(operaciones + 1) /\ HubCambio("lock", post[x], d)
    BY <1>0, <2>2, <2>3 DEF HubPost, HubCambio, HubEventos
  <2>5. Hub(P, A, N)!Escribira(p, u, x, "lock", d)
    BY <2>1, <2>2
  <2>6. Hub(P, A, N)!Pedir(p, "cerrar")
    BY <1>4 DEF Hub!cerrar
  <2> QED BY <2>3, <2>4, <2>5, <2>6
<1>5. CASE Hub(P, A, N)!abrir(p)
  <2>1. PICK u \in Miembros \cup Personal, x \in Posts :
          /\ Hub(P, A, N)!Publicado(x)
          /\ Hub(P, A, N)!Escribira(p, u, x, "unlock", [post[x] EXCEPT !.estado = "abierto"])
    BY <1>5 DEF Hub!abrir
  <2>2. PICK d : d = [post[x] EXCEPT !.estado = "abierto"]
    OBVIOUS
  <2>3. post[x] # Nada /\ post[x] \in HubPost(operaciones)
    BY <1>0, <2>1 DEF Hub!Publicado
  <2>4. d \in HubPost(operaciones + 1) /\ HubCambio("unlock", post[x], d)
    BY <1>0, <2>2, <2>3 DEF HubPost, HubCambio, HubEventos
  <2>5. Hub(P, A, N)!Escribira(p, u, x, "unlock", d)
    BY <2>1, <2>2
  <2>6. Hub(P, A, N)!Pedir(p, "cerrar")
    BY <1>5 DEF Hub!abrir
  <2> QED BY <2>3, <2>4, <2>5, <2>6
<1>6. CASE Hub(P, A, N)!fijar(p)
  <2>1. PICK u \in Miembros \cup Personal, x \in Posts :
          /\ Hub(P, A, N)!Publicado(x)
          /\ Hub(P, A, N)!Escribira(p, u, x, Hub(P, A, N)!EventoDeFijar(x), [post[x] EXCEPT !.fijado = ~@])
    BY <1>6 DEF Hub!fijar
  <2>2. PICK d : d = [post[x] EXCEPT !.fijado = ~@]
    OBVIOUS
  <2>3. post[x] # Nada /\ post[x] \in HubPost(operaciones)
    BY <1>0, <2>1 DEF Hub!Publicado
  <2>4. PICK e : e = Hub(P, A, N)!EventoDeFijar(x)
    OBVIOUS
  <2>5. d \in HubPost(operaciones + 1) /\ HubCambio(e, post[x], d)
    <3>1. PICK v \in HubPost(operaciones) : v = post[x]
      BY <2>3
    <3>2. PICK b \in BOOLEAN : b = ~v.fijado
      OBVIOUS
    <3>3. d = [autor |-> v.autor, estado_moderacion |-> v.estado_moderacion, estado |-> v.estado,
               fijado |-> b, reportes_abiertos |-> v.reportes_abiertos]
      BY <2>2, <3>1, <3>2 DEF HubPost
    <3>4. d \in HubPost(operaciones + 1)
      BY <1>0, <3>1, <3>2, <3>3 DEF HubPost
    <3>5. e = (IF v.fijado THEN "unpin" ELSE "pin") /\ v.fijado \in BOOLEAN
      BY <2>4, <3>1 DEF Hub!EventoDeFijar, HubPost
    <3> QED BY <3>1, <3>2, <3>3, <3>4, <3>5 DEF HubCambio, HubEventos
  <2>6. Hub(P, A, N)!Escribira(p, u, x, e, d)
    BY <2>1, <2>2, <2>4
  <2>7. Hub(P, A, N)!Pedir(p, "fijar")
    BY <1>6 DEF Hub!fijar
  <2> QED BY <2>3, <2>5, <2>6, <2>7
<1> QED BY <1>1, <1>2, <1>3, <1>4, <1>5, <1>6 DEF HubDecision

\* The requests of reports and decisions begin.
LEMMA HubDecidePide ==
    ASSUME NEW P, NEW A, NEW N, Hub(P, A, N)!HubAssumption, HubInv(P, A, N), NEW p \in P,
           HubDecision(P, A, N, p)
    PROVE  HubInv(P, A, N)'
BY HubDecide, HubEscribira

\* A request dies.
LEMMA HubCae ==
    ASSUME NEW P, NEW A, NEW N, Hub(P, A, N)!HubAssumption, HubInv(P, A, N), NEW p \in P,
           Hub(P, A, N)!Caer(p)
    PROVE  HubInv(P, A, N)'
<1>1. /\ peticion' = [peticion EXCEPT ![p] = Hub(P, A, N)!Libre]
      /\ UNCHANGED <<post, respuesta, likes, traza, activos, operaciones>>
      /\ caidas' = caidas + 1 /\ caidas < MaxCaidas
  BY DEF Hub!Caer
<1>2. operaciones' \in operaciones..N /\ caidas' \in 0..MaxCaidas
  BY <1>1, HubConstants DEF HubInv, HubTipos
<1> QED BY <1>1, <1>2, HubLibre, HubPide

\* A new post.
LEMMA HubPublica ==
    ASSUME NEW P, NEW A, NEW N, Hub(P, A, N)!HubAssumption, HubInv(P, A, N),
           NEW u \in Miembros \cup Personal, NEW x \in Posts, Hub(P, A, N)!nueva_publicacion(u, x)
    PROVE  HubInv(P, A, N)'
<1>0. HubTipos(P, N) /\ operaciones \in Nat /\ N \in Nat /\ HubEnlaces
  BY HubConstants DEF HubInv, HubTipos
<1>1. PICK n : n = [autor |-> u, estado_moderacion |-> "visible", estado |-> "abierto",
                    fijado |-> FALSE, reportes_abiertos |-> 0]
  OBVIOUS
<1>2. /\ post' = [post EXCEPT ![x] = n] /\ post[x] = Nada
      /\ UNCHANGED <<respuesta, likes, traza, activos, peticion, caidas>>
      /\ operaciones < N /\ operaciones' = operaciones + 1
  BY <1>1 DEF Hub!nueva_publicacion, Hub!Publicado
<1>3. HubPost(operaciones) \subseteq HubPost(operaciones + 1) /\ n \in HubPost(operaciones + 1)
      /\ HubPost(operaciones + 1) \subseteq HubPost(N)
  <2>1. n \in HubPost(operaciones + 1)
    BY <1>0, <1>1 DEF HubPost
  <2> QED BY <1>0, <1>2, <2>1, HubPostCrece
<1>4. HubTipos(P, N)'
  BY <1>0, <1>2, <1>3 DEF HubTipos
<1>5. post'[x] = n /\ n # Nada /\ \A y \in Posts : y # x => post'[y] = post[y]
  BY <1>0, <1>2, <1>3, HubConstants DEF HubTipos
<1>6. PostsQuedan
  BY <1>2, <1>5 DEF PostsQuedan
<1>7. HubEnlaces'
  BY <1>0, <1>2, <1>6 DEF HubEnlaces, PostsQuedan, HubTipos
<1>8. ASSUME NEW y \in Posts PROVE PostFirme(y)'
  <2>1. PostFirme(y)
    BY DEF HubInv
  <2>2. CASE y = x
    BY <1>2, <1>5, <2>1, <2>2, UltimoDeNinguno DEF PostFirme
  <2>3. CASE y # x
    BY <1>2, <1>5, <2>1, <2>3 DEF PostFirme
  <2> QED BY <2>2, <2>3
<1>9. peticion' \in [P -> Hub(P, A, N)!Peticion] /\ \A o \in P : peticion'[o] = peticion[o]
  BY <1>2 DEF HubInv
<1> QED BY <1>0, <1>2, <1>4, <1>6, <1>7, <1>8, <1>9, HubPaso

\* Replies, likes and accounts change; posts and their events do not.
LEMMA HubSinPosts ==
    ASSUME NEW P, NEW A, NEW N, Hub(P, A, N)!HubAssumption, HubInv(P, A, N),
           UNCHANGED <<post, traza, caidas>>, HubEnlaces',
           operaciones' \in operaciones..N, activos' \subseteq activos,
           respuesta' \in [Respuestas -> [raiz: Posts, autor: Miembros \cup Personal] \cup {Nada}],
           likes' \subseteq Posts \X (Miembros \cup Personal),
           \/ peticion' = peticion
           \/ \E p \in P : peticion' = [peticion EXCEPT ![p] = Hub(P, A, N)!Libre]
    PROVE  HubInv(P, A, N)'
<1>0. HubTipos(P, N) /\ operaciones \in Nat /\ operaciones' \in 0..N /\ operaciones <= operaciones'
      /\ N \in Nat
  BY HubConstants DEF HubInv, HubTipos
<1>1. HubPost(operaciones) \subseteq HubPost(operaciones')
  BY <1>0, HubPostCrece
<1>2. HubTipos(P, N)'
  BY <1>0, <1>1 DEF HubTipos
<1>3. (\A x \in Posts : PostFirme(x)') /\ PostsQuedan
  BY DEF HubInv, PostFirme, PostsQuedan
<1>4. peticion' \in [P -> Hub(P, A, N)!Peticion]
  BY HubLibre DEF HubInv
<1>5. ASSUME NEW o \in P PROVE peticion'[o] = peticion[o] \/ DelHub(peticion[o])'
  <2>1. peticion'[o] = peticion[o] \/ peticion'[o] = Hub(P, A, N)!Libre
    BY DEF HubInv
  <2>2. CASE peticion'[o] = Hub(P, A, N)!Libre
    BY <2>2, HubLibre DEF DelHub, HubForma
  <2> QED BY <2>1, <2>2
<1> QED BY <1>0, <1>2, <1>3, <1>4, <1>5, HubPaso

\* A reply, a like or the end of one, and an account that is closed.
LEMMA HubEscribeSinPosts ==
    ASSUME NEW P, NEW A, NEW N, Hub(P, A, N)!HubAssumption, HubInv(P, A, N),
           \/ \E p \in P : Hub(P, A, N)!GuardarRespuesta(p) \/ Hub(P, A, N)!GuardarLike(p)
           \/ \E u \in Miembros \cup Personal, x \in Posts : Hub(P, A, N)!quitar_like(u, x)
           \/ Hub(P, A, N)!Desactivar
    PROVE  HubInv(P, A, N)'
<1>0. HubTipos(P, N) /\ operaciones \in 0..N /\ N \in Nat /\ HubEnlaces
      /\ operaciones \in operaciones..N
  BY HubConstants DEF HubInv, HubTipos
<1>1. ASSUME NEW p \in P, Hub(P, A, N)!GuardarRespuesta(p) PROVE HubInv(P, A, N)'
  <2>1. PICK q : q = peticion[p] /\ DelHub(q)
    BY DEF HubInv
  <2>2. PICK n \in Respuestas :
          respuesta[n] = Nada /\ respuesta' = [respuesta EXCEPT ![n] = [raiz |-> q.post, autor |-> q.usuario]]
    BY <1>1, <2>1 DEF Hub!GuardarRespuesta
  <2>3. /\ q.pc = "responder" /\ peticion' = [peticion EXCEPT ![p] = Hub(P, A, N)!Libre]
        /\ UNCHANGED <<post, likes, traza, activos, operaciones, caidas>>
    BY <1>1, <2>1 DEF Hub!GuardarRespuesta, Hub!Terminar
  <2>4. q.usuario \in Miembros \cup Personal /\ q.post \in Posts /\ post[q.post] # Nada
    BY <2>1, <2>3 DEF DelHub
  <2>5. PICK w \in [raiz: Posts, autor: Miembros \cup Personal] :
          w = [raiz |-> q.post, autor |-> q.usuario]
    BY <2>4
  <2>6. respuesta' = [respuesta EXCEPT ![n] = w] /\ w.raiz = q.post
    BY <2>2, <2>5
  <2>7. respuesta' \in [Respuestas -> [raiz: Posts, autor: Miembros \cup Personal] \cup {Nada}]
    BY <1>0, <2>6 DEF HubTipos
  <2>8. HubEnlaces'
    BY <1>0, <2>3, <2>4, <2>6 DEF HubEnlaces, HubTipos
  <2>9. /\ likes' \subseteq Posts \X (Miembros \cup Personal) /\ activos' \subseteq activos
        /\ operaciones' \in operaciones..N
    BY <1>0, <2>3 DEF HubTipos
  <2> QED BY <2>3, <2>7, <2>8, <2>9, HubSinPosts
<1>2. ASSUME NEW p \in P, Hub(P, A, N)!GuardarLike(p) PROVE HubInv(P, A, N)'
  <2>1. PICK q : q = peticion[p] /\ DelHub(q)
    BY DEF HubInv
  <2>2. /\ q.pc = "like" /\ peticion' = [peticion EXCEPT ![p] = Hub(P, A, N)!Libre]
        /\ likes' = likes \cup {<<q.post, q.usuario>>}
        /\ UNCHANGED <<post, respuesta, traza, activos, operaciones, caidas>>
    BY <1>2, <2>1 DEF Hub!GuardarLike, Hub!Terminar
  <2>3. /\ q.usuario \in Miembros \cup Personal /\ q.post \in Posts /\ post[q.post] # Nada
        /\ post[q.post].autor # q.usuario
    BY <2>1, <2>2 DEF DelHub
  <2>4. HubEnlaces'
    BY <1>0, <2>2, <2>3 DEF HubEnlaces
  <2>5. /\ likes' \subseteq Posts \X (Miembros \cup Personal) /\ activos' \subseteq activos
        /\ operaciones' \in operaciones..N
        /\ respuesta' \in [Respuestas -> [raiz: Posts, autor: Miembros \cup Personal] \cup {Nada}]
    BY <1>0, <2>2, <2>3 DEF HubTipos
  <2> QED BY <2>2, <2>4, <2>5, HubSinPosts
<1>3. ASSUME NEW u \in Miembros \cup Personal, NEW x \in Posts, Hub(P, A, N)!quitar_like(u, x)
      PROVE  HubInv(P, A, N)'
  <2>1. /\ UNCHANGED <<post, respuesta, traza, activos, peticion, caidas>>
        /\ likes' = likes \ {<<x, u>>} /\ operaciones' = operaciones + 1 /\ operaciones < N
    BY <1>3 DEF Hub!quitar_like
  <2>2. HubEnlaces'
    BY <1>0, <2>1 DEF HubEnlaces
  <2>3. /\ likes' \subseteq Posts \X (Miembros \cup Personal) /\ activos' \subseteq activos
        /\ operaciones' \in operaciones..N
        /\ respuesta' \in [Respuestas -> [raiz: Posts, autor: Miembros \cup Personal] \cup {Nada}]
    BY <1>0, <2>1 DEF HubTipos
  <2> QED BY <2>1, <2>2, <2>3, HubSinPosts
<1>4. ASSUME Hub(P, A, N)!Desactivar PROVE HubInv(P, A, N)'
  <2>1. /\ UNCHANGED <<post, respuesta, likes, traza, peticion, operaciones, caidas>>
        /\ activos' \subseteq activos
    BY <1>4 DEF Hub!Desactivar
  <2>2. HubEnlaces'
    BY <1>0, <2>1 DEF HubEnlaces
  <2>3. /\ likes' \subseteq Posts \X (Miembros \cup Personal) /\ operaciones' \in operaciones..N
        /\ respuesta' \in [Respuestas -> [raiz: Posts, autor: Miembros \cup Personal] \cup {Nada}]
    BY <1>0, <2>1 DEF HubTipos
  <2> QED BY <2>1, <2>2, <2>3, HubSinPosts
<1> QED BY <1>1, <1>2, <1>3, <1>4

\* The columns of a post that a decision changes.
LEMMA HubColumnas ==
    ASSUME NEW k, NEW a \in HubPost(k), NEW d \in HubPost(k), NEW v \in HubPost(k), NEW e,
           HubCambio(e, a, d),
           NEW w, w = [c \in DOMAIN v |-> IF d[c] # a[c] THEN d[c] ELSE v[c]]
    PROVE  /\ w \in HubPost(k) /\ w.autor = v.autor
           /\ a = v => w = d
           /\ e = "report" => w.reportes_abiertos = d.reportes_abiertos
           /\ e \notin {"report", "restore"} => w.reportes_abiertos = v.reportes_abiertos
<1>1. w \in HubPost(k)
  BY DEF HubPost
<1>2. /\ w.autor = (IF d.autor # a.autor THEN d.autor ELSE v.autor)
      /\ w.reportes_abiertos = (IF d.reportes_abiertos # a.reportes_abiertos
                                THEN d.reportes_abiertos ELSE v.reportes_abiertos)
  BY DEF HubPost
<1>3. ASSUME a = v PROVE w = d
  <2>1. /\ w.autor = d.autor /\ w.estado_moderacion = d.estado_moderacion
        /\ w.estado = d.estado /\ w.fijado = d.fijado /\ w.reportes_abiertos = d.reportes_abiertos
    BY <1>3 DEF HubPost
  <2> QED BY <1>1, <2>1 DEF HubPost
<1>4. e = "report" => d.reportes_abiertos # a.reportes_abiertos
  <2>1. d.reportes_abiertos \in 0..k /\ a.reportes_abiertos \in 0..k
    BY DEF HubPost
  <2> QED BY <2>1 DEF HubCambio
<1> QED BY <1>1, <1>2, <1>3, <1>4 DEF HubCambio

\* The post of a request is written: the columns in which it differs.
HubEscrito(q, w) ==
    /\ w = [c \in DOMAIN post[q.post] |->
               IF q.despues[c] # q.antes[c] THEN q.despues[c] ELSE post[q.post][c]]
    /\ post' = [post EXCEPT ![q.post] = w]

\* What Guardar does to its post and its trail.
LEMMA HubEscribe ==
    ASSUME NEW P, NEW A, NEW N, Hub(P, A, N)!HubAssumption, HubInv(P, A, N), NEW p \in P,
           Hub(P, A, N)!Guardar(p), NEW q, q = peticion[p]
    PROVE  /\ q.pc = "escribir" /\ DelHub(q) /\ HubCambio(q.evento, q.antes, q.despues)
           /\ q.post \in Posts /\ post[q.post] \in HubPost(operaciones)
           /\ q.antes \in HubPost(operaciones) /\ q.despues \in HubPost(operaciones)
           /\ \E w : HubEscrito(q, w)
           /\ traza' = [traza EXCEPT ![q.post] = Append(traza[q.post], q.evento)]
           /\ peticion' = [peticion EXCEPT ![p] = Hub(P, A, N)!Libre]
           /\ UNCHANGED <<respuesta, likes, activos, operaciones, caidas>>
<1>1. /\ q.pc = "escribir" /\ peticion' = [peticion EXCEPT ![p] = Hub(P, A, N)!Libre]
      /\ UNCHANGED <<respuesta, likes, activos, operaciones, caidas>>
  BY DEF Hub!Guardar, Hub!Terminar
<1>2. DelHub(q)
  BY DEF HubInv
<1>3. /\ q.post \in Posts /\ post[q.post] # Nada /\ q.antes # Nada /\ q.despues # Nada
      /\ HubCambio(q.evento, q.antes, q.despues)
      /\ q.antes \in HubPost(operaciones) /\ q.despues \in HubPost(operaciones)
  BY <1>1, <1>2 DEF DelHub, HubForma
<1>4. /\ post \in [Posts -> HubPost(operaciones) \cup {Nada}] /\ traza \in [Posts -> Seq(HubEventos)]
  BY DEF HubInv, HubTipos
<1>5. post[q.post] \in HubPost(operaciones)
  BY <1>3, <1>4
<1>6. traza' = [traza EXCEPT ![q.post] = Append(traza[q.post], q.evento)]
  BY <1>3, <1>4 DEF Hub!Guardar
<1>7. post' = [post EXCEPT ![q.post] = [c \in DOMAIN post[q.post] |->
                  IF q.despues[c] # q.antes[c] THEN q.despues[c] ELSE post[q.post][c]]]
  BY <1>3, <1>4 DEF Hub!Guardar, Hub!Cambia
<1>8. \E w : HubEscrito(q, w)
  BY <1>7 DEF HubEscrito
<1> QED BY <1>1, <1>2, <1>3, <1>5, <1>6, <1>8

\* A report or a decision is written, with its event.
LEMMA HubGuarda ==
    ASSUME NEW P, NEW A, NEW N, Hub(P, A, N)!HubAssumption, HubInv(P, A, N), NEW p \in P,
           Hub(P, A, N)!Guardar(p)
    PROVE  HubInv(P, A, N)'
<1>0. HubTipos(P, N) /\ operaciones \in Nat /\ N \in Nat /\ HubEnlaces /\ operaciones <= N
  BY HubConstants DEF HubInv, HubTipos
<1>1. PICK q : q = peticion[p]
  OBVIOUS
<1>2. PICK w : HubEscrito(q, w)
  BY <1>1, HubEscribe
<1>3. /\ HubCambio(q.evento, q.antes, q.despues)
      /\ q.post \in Posts /\ post[q.post] \in HubPost(operaciones)
      /\ q.antes \in HubPost(operaciones) /\ q.despues \in HubPost(operaciones)
      /\ traza' = [traza EXCEPT ![q.post] = Append(traza[q.post], q.evento)]
      /\ peticion' = [peticion EXCEPT ![p] = Hub(P, A, N)!Libre]
      /\ UNCHANGED <<respuesta, likes, activos, operaciones, caidas>>
  BY <1>1, HubEscribe
<1>4. PICK v : v = post[q.post]
  OBVIOUS
<1>5. /\ w \in HubPost(operaciones) /\ w.autor = v.autor
      /\ q.evento = "report" => w.reportes_abiertos = q.despues.reportes_abiertos
      /\ q.evento \notin {"report", "restore"} => w.reportes_abiertos = v.reportes_abiertos
  <2>1. w = [c \in DOMAIN v |-> IF q.despues[c] # q.antes[c] THEN q.despues[c] ELSE v[c]]
    BY <1>2, <1>4 DEF HubEscrito
  <2> QED BY <1>3, <1>4, <2>1, HubColumnas
<1>6. w # Nada /\ v # Nada /\ q.evento \in HubEventos
  <2>1. HubPost(operaciones) \subseteq HubPost(N)
    BY <1>0, HubPostCrece
  <2> QED BY <1>3, <1>4, <1>5, <2>1, HubConstants DEF HubCambio
<1>7. /\ post'[q.post] = w /\ \A y \in Posts : y # q.post => post'[y] = post[y]
      /\ traza'[q.post] = Append(traza[q.post], q.evento)
      /\ \A y \in Posts : y # q.post => traza'[y] = traza[y]
      /\ traza[q.post] \in Seq(HubEventos) /\ Append(traza[q.post], q.evento) \in Seq(HubEventos)
  <2>1. post'[q.post] = w /\ \A y \in Posts : y # q.post => post'[y] = post[y]
    BY <1>0, <1>2, <1>3 DEF HubTipos, HubEscrito
  <2>2. traza \in [Posts -> Seq(HubEventos)]
    BY <1>0 DEF HubTipos
  <2>3. /\ traza'[q.post] = Append(traza[q.post], q.evento)
        /\ \A y \in Posts : y # q.post => traza'[y] = traza[y]
    BY <1>3, <2>2
  <2>4. traza[q.post] \in Seq(HubEventos) /\ Append(traza[q.post], q.evento) \in Seq(HubEventos)
    BY <1>3, <1>6, <2>2
  <2> QED BY <2>1, <2>3, <2>4
<1>8. HubTipos(P, N)'
  <2>1. post' \in [Posts -> HubPost(operaciones') \cup {Nada}]
    BY <1>0, <1>2, <1>3, <1>5 DEF HubTipos, HubEscrito
  <2>2. traza' \in [Posts -> Seq(HubEventos)]
    BY <1>0, <1>3, <1>7 DEF HubTipos
  <2> QED BY <1>0, <1>3, <2>1, <2>2 DEF HubTipos
<1>9. PostsQuedan
  BY <1>4, <1>5, <1>6, <1>7 DEF PostsQuedan
<1>10. HubEnlaces'
  BY <1>0, <1>3, <1>9 DEF HubEnlaces, PostsQuedan, HubTipos
<1>11. PostFirme(q.post)'
  <2>1. CASE q.evento = "report"
    <3>1. w.reportes_abiertos > 0
      <4>1. q.despues.reportes_abiertos > q.antes.reportes_abiertos
        BY <1>3, <2>1 DEF HubCambio
      <4>2. q.despues.reportes_abiertos \in Nat /\ q.antes.reportes_abiertos \in Nat
        BY <1>0, <1>3 DEF HubPost
      <4> QED BY <1>5, <2>1, <4>1, <4>2
    <3> QED BY <1>6, <1>7, <3>1 DEF PostFirme
  <2>2. CASE q.evento = "restore"
    <3>1. ~UltimoEn(Append(traza[q.post], q.evento), "report", {"report", "restore"})
      BY <1>6, <1>7, <2>2, UltimoTrasUno
    <3> QED BY <1>6, <1>7, <3>1 DEF PostFirme
  <2>3. CASE q.evento \notin {"report", "restore"}
    <3>1. UltimoEn(Append(traza[q.post], q.evento), "report", {"report", "restore"})
            <=> UltimoEn(traza[q.post], "report", {"report", "restore"})
      BY <1>6, <1>7, <2>3, UltimoTrasUno
    <3>2. PostFirme(q.post)
      BY <1>3 DEF HubInv
    <3> QED BY <1>4, <1>5, <1>6, <1>7, <2>3, <3>1, <3>2 DEF PostFirme
  <2> QED BY <2>1, <2>2, <2>3
<1>12. ASSUME NEW y \in Posts PROVE PostFirme(y)'
  <2>1. CASE y = q.post
    BY <1>11, <2>1
  <2>2. CASE y # q.post
    BY <1>7, <2>2 DEF PostFirme, HubInv
  <2> QED BY <2>1, <2>2
<1>13. ASSUME NEW o \in P PROVE peticion'[o] = peticion[o] \/ DelHub(peticion[o])'
  <2>1. peticion'[o] = peticion[o] \/ peticion'[o] = Hub(P, A, N)!Libre
    BY <1>3 DEF HubInv
  <2>2. CASE peticion'[o] = Hub(P, A, N)!Libre
    BY <2>2, HubLibre DEF DelHub, HubForma
  <2> QED BY <2>1, <2>2
<1>14. peticion' \in [P -> Hub(P, A, N)!Peticion] /\ operaciones <= operaciones'
  BY <1>0, <1>3, HubLibre DEF HubInv
<1> QED BY <1>8, <1>9, <1>10, <1>12, <1>13, <1>14, HubPaso

\* The invariant of the community is inductive.
LEMMA HubSigue ==
    ASSUME NEW P, NEW A, NEW N, Hub(P, A, N)!HubAssumption, HubInv(P, A, N),
           [Hub(P, A, N)!Next]_(Hub(P, A, N)!vars)
    PROVE  HubInv(P, A, N)'
<1>1. CASE Hub(P, A, N)!Next
  <2>1. \/ \E u \in Miembros \cup Personal, x \in Posts :
              Hub(P, A, N)!nueva_publicacion(u, x) \/ Hub(P, A, N)!quitar_like(u, x)
        \/ \E p \in P :
              \/ Hub(P, A, N)!responder(p) \/ Hub(P, A, N)!dar_like(p)
              \/ HubDecision(P, A, N, p)
              \/ Hub(P, A, N)!GuardarRespuesta(p) \/ Hub(P, A, N)!GuardarLike(p)
              \/ Hub(P, A, N)!Guardar(p) \/ Hub(P, A, N)!Caer(p)
        \/ Hub(P, A, N)!Desactivar
    BY <1>1 DEF Hub!Next, Hub!Usuarios, HubDecision
  <2> QED BY <2>1, HubPublica, HubMiembro, HubDecidePide, HubEscribeSinPosts, HubGuarda, HubCae
<1>2. CASE UNCHANGED Hub(P, A, N)!vars
  <2>1. UNCHANGED <<post, respuesta, likes, traza, activos, peticion, operaciones, caidas>>
    BY <1>2 DEF Hub!vars
  <2>2. HubEnlaces' /\ operaciones' \in operaciones..N /\ activos' \subseteq activos
        /\ respuesta' \in [Respuestas -> [raiz: Posts, autor: Miembros \cup Personal] \cup {Nada}]
        /\ likes' \subseteq Posts \X (Miembros \cup Personal)
    BY <2>1, HubConstants DEF HubInv, HubTipos, HubEnlaces
  <2> QED BY <2>1, <2>2, HubSinPosts
<1> QED BY <1>1, <1>2

\* What it says.
LEMMA HubDice ==
    ASSUME NEW P, NEW A, NEW N, Hub(P, A, N)!HubAssumption, HubInv(P, A, N)
    PROVE  Hub(P, A, N)!TypeOK /\ Hub(P, A, N)!ReportIsQueued
<1>0. HubTipos(P, N) /\ N \in Nat /\ HubEnlaces /\ operaciones \in 0..N /\ caidas \in 0..MaxCaidas
  BY HubConstants DEF HubInv, HubTipos
<1>1. HubPost(operaciones) \subseteq HubPost(N)
  BY <1>0, HubPostCrece
<1>2. /\ post \in [Posts -> Hub(P, A, N)!Post \cup {Nada}]
      /\ respuesta \in [Respuestas -> Hub(P, A, N)!Respuesta \cup {Nada}]
      /\ likes \subseteq Posts \X Hub(P, A, N)!Usuarios
      /\ \A p \in Posts : traza[p] \in Seq(Hub(P, A, N)!Eventos)
      /\ activos \subseteq Hub(P, A, N)!Usuarios
  <2>1. /\ Hub(P, A, N)!Eventos = HubEventos /\ Hub(P, A, N)!Usuarios = Miembros \cup Personal
        /\ Hub(P, A, N)!Post = HubPost(N)
        /\ Hub(P, A, N)!Respuesta = [raiz: Posts, autor: Miembros \cup Personal]
    BY HubConstants
  <2>2. /\ post \in [Posts -> HubPost(operaciones) \cup {Nada}]
        /\ respuesta \in [Respuestas -> [raiz: Posts, autor: Miembros \cup Personal] \cup {Nada}]
        /\ likes \subseteq Posts \X (Miembros \cup Personal)
        /\ traza \in [Posts -> Seq(HubEventos)]
        /\ activos \subseteq Miembros \cup Personal
    BY <1>0 DEF HubTipos
  <2>3. post \in [Posts -> HubPost(N) \cup {Nada}]
    BY <1>1, <2>2
  <2> QED BY <2>1, <2>2, <2>3
<1>3. peticion \in [P -> Hub(P, A, N)!Peticion] /\ operaciones <= N /\ caidas <= MaxCaidas
  BY <1>0, HubConstants DEF HubInv
<1>4. Hub(P, A, N)!TypeOK
  BY <1>0, <1>2, <1>3 DEF Hub!TypeOK, Hub!Publicado, HubEnlaces
<1>5. Hub(P, A, N)!ReportIsQueued
  <2> SUFFICES ASSUME NEW p \in Posts,
                      Hub(P, A, N)!Ultimo(p, "report", {"report", "restore"})
               PROVE  post[p].reportes_abiertos > 0
    BY DEF Hub!ReportIsQueued
  <2>1. UltimoEn(traza[p], "report", {"report", "restore"})
    BY DEF Hub!Ultimo, UltimoEn
  <2>2. PostFirme(p)
    BY DEF HubInv
  <2>3. post[p] # Nada
    BY <2>1, <2>2, UltimoDeNinguno DEF PostFirme
  <2> QED BY <2>1, <2>2, <2>3 DEF PostFirme
<1> QED BY <1>4, <1>5

----------------------------------------
(* Posts of the community, one request at a time and trending *)

\* The last events of a trail say how a post is.
Explicado(v, s) ==
    /\ v.estado_moderacion = "oculto" <=> UltimoEn(s, "hide", {"hide", "restore"})
    /\ v.estado = "cerrado" <=> UltimoEn(s, "lock", {"lock", "unlock"})
    /\ v.fijado <=> UltimoEn(s, "pin", {"pin", "unpin"})

\* The request knows its post: what it will change is as it was read, and what it
\* answers is open and seen by its user.
HubFresco(q) ==
    /\ q.pc = "escribir" => q.antes = post[q.post]
    /\ q.pc = "responder" =>
          /\ post[q.post].estado = "abierto"
          /\ \/ post[q.post].estado_moderacion = "visible"
             \/ q.usuario \in Personal \/ post[q.post].autor = q.usuario

UnHubInv(A, N) ==
    /\ HubInv(Una, A, N)
    /\ \A x \in Posts : post[x] # Nada => Explicado(post[x], traza[x])
    /\ HubFresco(peticion[q1])

\* A decision and its event explain each other.
LEMMA HubExplica ==
    ASSUME NEW k, NEW v \in HubPost(k), NEW d \in HubPost(k), NEW e, HubCambio(e, v, d),
           NEW s \in Seq(HubEventos), Explicado(v, s)
    PROVE  Explicado(d, Append(s, e))
<1>0. /\ e \in HubEventos /\ v.fijado \in BOOLEAN /\ d.fijado \in BOOLEAN
      /\ v.estado_moderacion \in {"visible", "oculto"} /\ d.estado_moderacion \in {"visible", "oculto"}
      /\ v.estado \in {"abierto", "cerrado"} /\ d.estado \in {"abierto", "cerrado"}
  BY DEF HubCambio, HubPost
<1>1. d.estado_moderacion = "oculto" <=> UltimoEn(Append(s, e), "hide", {"hide", "restore"})
  <2>1. CASE e \in {"hide", "restore"}
    <3>1. UltimoEn(Append(s, e), "hide", {"hide", "restore"}) <=> e = "hide"
      BY <1>0, <2>1, UltimoTrasUno
    <3> QED BY <2>1, <3>1 DEF HubCambio
  <2>2. CASE e \notin {"hide", "restore"}
    <3>1. UltimoEn(Append(s, e), "hide", {"hide", "restore"}) <=> UltimoEn(s, "hide", {"hide", "restore"})
      BY <1>0, <2>2, UltimoTrasUno
    <3> QED BY <2>2, <3>1 DEF HubCambio, Explicado
  <2> QED BY <2>1, <2>2
<1>2. d.estado = "cerrado" <=> UltimoEn(Append(s, e), "lock", {"lock", "unlock"})
  <2>1. CASE e \in {"lock", "unlock"}
    <3>1. UltimoEn(Append(s, e), "lock", {"lock", "unlock"}) <=> e = "lock"
      BY <1>0, <2>1, UltimoTrasUno
    <3> QED BY <2>1, <3>1 DEF HubCambio
  <2>2. CASE e \notin {"lock", "unlock"}
    <3>1. UltimoEn(Append(s, e), "lock", {"lock", "unlock"}) <=> UltimoEn(s, "lock", {"lock", "unlock"})
      BY <1>0, <2>2, UltimoTrasUno
    <3> QED BY <2>2, <3>1 DEF HubCambio, Explicado
  <2> QED BY <2>1, <2>2
<1>3. d.fijado <=> UltimoEn(Append(s, e), "pin", {"pin", "unpin"})
  <2>1. CASE e \in {"pin", "unpin"}
    <3>1. UltimoEn(Append(s, e), "pin", {"pin", "unpin"}) <=> e = "pin"
      BY <1>0, <2>1, UltimoTrasUno
    <3> QED BY <2>1, <3>1 DEF HubCambio
  <2>2. CASE e \notin {"pin", "unpin"}
    <3>1. UltimoEn(Append(s, e), "pin", {"pin", "unpin"}) <=> UltimoEn(s, "pin", {"pin", "unpin"})
      BY <1>0, <2>2, UltimoTrasUno
    <3>2. d.fijado = v.fijado
      BY <2>2 DEF HubCambio
    <3> QED BY <3>1, <3>2 DEF Explicado
  <2> QED BY <2>1, <2>2
<1> QED BY <1>1, <1>2, <1>3 DEF Explicado

\* No posts at first.
LEMMA UnHubEmpieza ==
    ASSUME NEW A, NEW N, Hub(Una, A, N)!HubAssumption, Hub(Una, A, N)!Init
    PROVE  UnHubInv(A, N)
<1>1. HubInv(Una, A, N)
  BY HubEmpieza
<1>2. peticion[q1].pc = "idle" /\ \A x \in Posts : post[x] = Nada
  BY HubLibre DEF Hub!Init, Una
<1> QED BY <1>1, <1>2 DEF UnHubInv, HubFresco

\* Posts and trails stay; the request ends, or is fresh.
LEMMA UnHubQuieto ==
    ASSUME NEW A, NEW N, UnHubInv(A, N), HubInv(Una, A, N)', UNCHANGED <<post, traza>>,
           HubFresco(peticion[q1])'
    PROVE  UnHubInv(A, N)'
BY DEF UnHubInv, Explicado

\* ... and of one request they are kept by every step.
LEMMA UnHubSigue ==
    ASSUME NEW A, NEW N, Hub(Una, A, N)!HubAssumption, UnHubInv(A, N),
           [Hub(Una, A, N)!Next]_(Hub(Una, A, N)!vars)
    PROVE  UnHubInv(A, N)'
<1>0. HubInv(Una, A, N) /\ HubInv(Una, A, N)'
  BY HubSigue DEF UnHubInv
<1>1. /\ peticion \in [Una -> Hub(Una, A, N)!Peticion] /\ q1 \in Una /\ \A p \in Una : p = q1
      /\ DelHub(peticion[q1]) /\ HubFresco(peticion[q1])
      /\ post \in [Posts -> HubPost(operaciones) \cup {Nada}]
      /\ traza \in [Posts -> Seq(HubEventos)] /\ operaciones \in Nat
  BY <1>0, HubConstants DEF HubInv, HubTipos, UnHubInv, Una
<1>2. CASE UNCHANGED Hub(Una, A, N)!vars
  <2>1. UNCHANGED <<post, traza, peticion>>
    BY <1>2 DEF Hub!vars
  <2>2. HubFresco(peticion[q1])'
    BY <1>1, <2>1 DEF HubFresco
  <2> QED BY <1>0, <2>1, <2>2, UnHubQuieto
<1>3. ASSUME NEW u \in Miembros \cup Personal, NEW x \in Posts, Hub(Una, A, N)!nueva_publicacion(u, x)
      PROVE  UnHubInv(A, N)'
  <2>1. PICK n : n = [autor |-> u, estado_moderacion |-> "visible", estado |-> "abierto",
                      fijado |-> FALSE, reportes_abiertos |-> 0]
    OBVIOUS
  <2>2. /\ post[x] = Nada /\ post' = [post EXCEPT ![x] = n] /\ UNCHANGED <<traza, peticion>>
    BY <1>3, <2>1 DEF Hub!nueva_publicacion, Hub!Publicado
  <2>3. post'[x] = n /\ \A y \in Posts : y # x => post'[y] = post[y]
    BY <1>1, <2>2
  <2>4. traza[x] = <<>>
    BY <1>0, <2>2 DEF HubInv, PostFirme
  <2>5. Explicado(n, <<>>)
    BY <2>1, UltimoDeNinguno DEF Explicado
  <2>6. ASSUME NEW y \in Posts, post'[y] # Nada PROVE Explicado(post[y], traza[y])'
    <3>1. CASE y = x
      BY <2>2, <2>3, <2>4, <2>5, <3>1 DEF Explicado
    <3>2. CASE y # x
      BY <2>2, <2>3, <2>6, <3>2 DEF UnHubInv, Explicado
    <3> QED BY <3>1, <3>2
  <2>7. HubFresco(peticion[q1])'
    BY <1>1, <2>2, <2>3 DEF HubFresco, DelHub
  <2> QED BY <1>0, <2>6, <2>7 DEF UnHubInv
<1>4. ASSUME Hub(Una, A, N)!responder(q1) PROVE UnHubInv(A, N)'
  <2>1. PICK u \in Miembros \cup Personal, x \in Posts :
          /\ Hub(Una, A, N)!_cargar(u, x) /\ post[x].estado # "cerrado"
          /\ peticion' = [peticion EXCEPT ![q1] =
                [Hub(Una, A, N)!Libre EXCEPT !.pc = "responder", !.usuario = u, !.post = x]]
    BY <1>4 DEF Hub!responder, Hub!Usuarios
  <2>2. UNCHANGED <<post, traza>>
    BY <1>4 DEF Hub!responder, Hub!Pedir
  <2>3. /\ post[x] # Nada
        /\ \/ post[x].estado_moderacion = "visible"
           \/ u \in Personal \/ post[x].autor = u
    BY <2>1 DEF Hub!_cargar, Hub!Publicado, Hub!es_staff
  <2>4. post[x].estado = "abierto"
    <3>1. post[x] \in HubPost(operaciones)
      BY <1>1, <2>3
    <3> QED BY <2>1, <3>1 DEF HubPost
  <2>5. PICK f : f = [Hub(Una, A, N)!Libre EXCEPT !.pc = "responder", !.usuario = u, !.post = x]
    OBVIOUS
  <2>6. f.pc = "responder" /\ f.usuario = u /\ f.post = x
    BY <2>5 DEF Hub!Libre
  <2>7. peticion'[q1] = f
    BY <1>1, <2>1, <2>5
  <2>8. HubFresco(peticion[q1])'
    BY <2>2, <2>3, <2>4, <2>6, <2>7 DEF HubFresco
  <2> QED BY <1>0, <2>2, <2>8, UnHubQuieto
<1>5. ASSUME Hub(Una, A, N)!dar_like(q1) PROVE UnHubInv(A, N)'
  <2>1. PICK u \in Miembros \cup Personal, x \in Posts :
          peticion' = [peticion EXCEPT ![q1] =
                [Hub(Una, A, N)!Libre EXCEPT !.pc = "like", !.usuario = u, !.post = x]]
    BY <1>5 DEF Hub!dar_like, Hub!Usuarios
  <2>2. UNCHANGED <<post, traza>>
    BY <1>5 DEF Hub!dar_like, Hub!Pedir
  <2>3. peticion'[q1].pc = "like"
    BY <1>1, <2>1 DEF Hub!Libre
  <2> QED BY <1>0, <2>2, <2>3, UnHubQuieto DEF HubFresco
<1>6. ASSUME HubDecision(Una, A, N, q1) PROVE UnHubInv(A, N)'
  <2>1. PICK u, x, e, d, a : Hub(Una, A, N)!Pedir(q1, a) /\ Hub(Una, A, N)!Escribira(q1, u, x, e, d)
    BY <1>0, <1>1, <1>6, HubDecide
  <2>2. UNCHANGED <<post, traza>>
    BY <2>1 DEF Hub!Pedir
  <2>3. /\ peticion'[q1].pc = "escribir" /\ peticion'[q1].post = x /\ peticion'[q1].antes = post[x]
    BY <1>1, <2>1 DEF Hub!Escribira
  <2> QED BY <1>0, <2>2, <2>3, UnHubQuieto DEF HubFresco
<1>7. ASSUME Hub(Una, A, N)!Guardar(q1) PROVE UnHubInv(A, N)'
  <2>1. PICK q : q = peticion[q1]
    OBVIOUS
  <2>2. PICK w : HubEscrito(q, w)
    BY <1>0, <1>1, <1>7, <2>1, HubEscribe
  <2>3. /\ q.pc = "escribir" /\ HubCambio(q.evento, q.antes, q.despues)
        /\ q.post \in Posts /\ post[q.post] \in HubPost(operaciones)
        /\ q.antes \in HubPost(operaciones) /\ q.despues \in HubPost(operaciones)
        /\ traza' = [traza EXCEPT ![q.post] = Append(traza[q.post], q.evento)]
        /\ peticion' = [peticion EXCEPT ![q1] = Hub(Una, A, N)!Libre]
    BY <1>0, <1>1, <1>7, <2>1, HubEscribe
  <2>4. q.antes = post[q.post]
    BY <1>1, <2>1, <2>3 DEF HubFresco
  <2>5. w = q.despues
    BY <2>2, <2>3, <2>4, HubColumnas DEF HubEscrito
  <2>6. /\ post'[q.post] = w /\ \A y \in Posts : y # q.post => post'[y] = post[y]
        /\ traza'[q.post] = Append(traza[q.post], q.evento)
        /\ \A y \in Posts : y # q.post => traza'[y] = traza[y]
    BY <1>1, <2>2, <2>3 DEF HubEscrito
  <2>7. Explicado(post[q.post], traza[q.post]) /\ traza[q.post] \in Seq(HubEventos)
    <3>1. post[q.post] # Nada
      BY <1>1, <2>1, <2>3 DEF DelHub
    <3> QED BY <1>1, <2>3, <3>1 DEF UnHubInv
  <2>8. Explicado(w, Append(traza[q.post], q.evento))
    BY <2>3, <2>4, <2>5, <2>7, HubExplica
  <2>9. ASSUME NEW y \in Posts, post'[y] # Nada PROVE Explicado(post[y], traza[y])'
    <3>1. CASE y = q.post
      BY <2>6, <2>8, <3>1 DEF Explicado
    <3>2. CASE y # q.post
      BY <2>6, <2>9, <3>2 DEF UnHubInv, Explicado
    <3> QED BY <3>1, <3>2
  <2>10. HubFresco(peticion[q1])'
    BY <1>1, <2>3, HubLibre DEF HubFresco
  <2> QED BY <1>0, <2>9, <2>10 DEF UnHubInv
<1>8. ASSUME \/ Hub(Una, A, N)!GuardarRespuesta(q1) \/ Hub(Una, A, N)!GuardarLike(q1)
             \/ Hub(Una, A, N)!Caer(q1)
      PROVE  UnHubInv(A, N)'
  <2>1. UNCHANGED <<post, traza>> /\ peticion' = [peticion EXCEPT ![q1] = Hub(Una, A, N)!Libre]
    BY <1>8 DEF Hub!GuardarRespuesta, Hub!GuardarLike, Hub!Caer, Hub!Terminar
  <2>2. HubFresco(peticion[q1])'
    BY <1>1, <2>1, HubLibre DEF HubFresco
  <2> QED BY <1>0, <2>1, <2>2, UnHubQuieto
<1>9. ASSUME \/ \E u \in Miembros \cup Personal, x \in Posts : Hub(Una, A, N)!quitar_like(u, x)
             \/ Hub(Una, A, N)!Desactivar
      PROVE  UnHubInv(A, N)'
  <2>1. UNCHANGED <<post, traza, peticion>>
    BY <1>9 DEF Hub!quitar_like, Hub!Desactivar
  <2>2. HubFresco(peticion[q1])'
    BY <1>1, <2>1 DEF HubFresco
  <2> QED BY <1>0, <2>1, <2>2, UnHubQuieto
<1> QED
  <2>1. CASE Hub(Una, A, N)!Next
    <3>1. \/ \E u \in Miembros \cup Personal, x \in Posts :
                Hub(Una, A, N)!nueva_publicacion(u, x) \/ Hub(Una, A, N)!quitar_like(u, x)
          \/ Hub(Una, A, N)!responder(q1) \/ Hub(Una, A, N)!dar_like(q1)
          \/ HubDecision(Una, A, N, q1)
          \/ Hub(Una, A, N)!GuardarRespuesta(q1) \/ Hub(Una, A, N)!GuardarLike(q1)
          \/ Hub(Una, A, N)!Guardar(q1) \/ Hub(Una, A, N)!Caer(q1)
          \/ Hub(Una, A, N)!Desactivar
      BY <1>1, <2>1 DEF Hub!Next, Hub!Usuarios, HubDecision
    <3> QED BY <1>3, <1>4, <1>5, <1>6, <1>7, <1>8, <1>9, <3>1
  <2> QED BY <1>2, <2>1

\* What they say.
LEMMA UnHubDice ==
    ASSUME NEW A, NEW N, UnHubInv(A, N) PROVE Hub(Una, A, N)!TrailExplains
BY DEF UnHubInv, Explicado, UltimoEn, Hub!TrailExplains, Hub!Publicado, Hub!Ultimo

\* The only step that writes a reply, and what it writes.
LEMMA HubResponde ==
    ASSUME NEW P, NEW A, NEW N, HubInv(P, A, N), [Hub(P, A, N)!Next]_(Hub(P, A, N)!vars),
           NEW r \in Respuestas, respuesta[r] = Nada, respuesta'[r] # Nada
    PROVE  \E p \in P : /\ peticion[p].pc = "responder"
                        /\ respuesta'[r].raiz = peticion[p].post
                        /\ respuesta'[r].autor = peticion[p].usuario
                        /\ \A n \in Respuestas : n # r => respuesta'[n] = respuesta[n]
                        /\ UNCHANGED <<post, likes, activos>>
<1>1. respuesta' # respuesta
  OBVIOUS
<1>2. Hub(P, A, N)!Next
  BY <1>1 DEF Hub!vars
<1>3. PICK p \in P : Hub(P, A, N)!GuardarRespuesta(p)
  BY <1>1, <1>2
  DEF Hub!Next, Hub!nueva_publicacion, Hub!quitar_like, Hub!responder, Hub!dar_like,
      Hub!reportar, Hub!ocultar, Hub!restaurar, Hub!cerrar, Hub!abrir, Hub!fijar,
      Hub!GuardarLike, Hub!Guardar, Hub!Caer, Hub!Desactivar, Hub!Pedir
<1>4. PICK n \in Respuestas :
        /\ respuesta' = [respuesta EXCEPT ![n] =
              [raiz |-> peticion[p].post, autor |-> peticion[p].usuario]]
        /\ peticion[p].pc = "responder" /\ UNCHANGED <<post, likes, activos>>
  BY <1>3 DEF Hub!GuardarRespuesta, Hub!Terminar
<1>5. respuesta \in [Respuestas -> [raiz: Posts, autor: Miembros \cup Personal] \cup {Nada}]
  BY DEF HubInv, HubTipos
<1>6. n = r
  BY <1>4, <1>5
<1> QED BY <1>4, <1>5, <1>6

\* A reply goes to a post that is open and that its author sees.
LEMMA UnHubCalla ==
    ASSUME NEW A, NEW N, UnHubInv(A, N), [Hub(Una, A, N)!Next]_(Hub(Una, A, N)!vars)
    PROVE  Hub(Una, A, N)!HiddenGetsNothing
<1> SUFFICES ASSUME NEW r \in Respuestas, respuesta[r] = Nada, respuesta'[r] # Nada
             PROVE  /\ post[respuesta'[r].raiz].estado = "abierto"
                    /\ \/ post[respuesta'[r].raiz].estado_moderacion = "visible"
                       \/ respuesta'[r].autor \in Personal
                       \/ post[respuesta'[r].raiz].autor = respuesta'[r].autor
  BY DEF Hub!HiddenGetsNothing, Hub!es_staff
<1>1. HubInv(Una, A, N) /\ HubFresco(peticion[q1])
  BY DEF UnHubInv
<1>2. /\ peticion[q1].pc = "responder" /\ respuesta'[r].raiz = peticion[q1].post
      /\ respuesta'[r].autor = peticion[q1].usuario
  BY <1>1, HubResponde DEF Una
<1> QED BY <1>1, <1>2 DEF HubFresco

\* Who counts already counts once: a further reply of the same member changes no score.
LEMMA HubSpam ==
    ASSUME NEW P, NEW A, NEW N, HubInv(P, A, N), [Hub(P, A, N)!Next]_(Hub(P, A, N)!vars)
    PROVE  Hub(P, A, N)!SpamIsWorthless
<1> SUFFICES ASSUME NEW r \in Respuestas, NEW p \in Posts,
                    respuesta[r] = Nada, respuesta'[r] # Nada, respuesta'[r].raiz = p,
                    respuesta'[r].autor \in Hub(P, A, N)!Responden(p)
             PROVE  /\ Hub(P, A, N)!Bruto(p)' = Hub(P, A, N)!Bruto(p)
                    /\ Hub(P, A, N)!Destacado(p)' = Hub(P, A, N)!Destacado(p)
  BY DEF Hub!SpamIsWorthless
<1>1. (\A n \in Respuestas : n # r => respuesta'[n] = respuesta[n]) /\ UNCHANGED <<post, likes, activos>>
  BY HubResponde
<1>2. Hub(P, A, N)!Responden(p)' = Hub(P, A, N)!Responden(p)
  BY <1>1 DEF Hub!Responden
<1>3. Hub(P, A, N)!Gustan(p)' = Hub(P, A, N)!Gustan(p)
  BY <1>1 DEF Hub!Gustan
<1>4. Hub(P, A, N)!Comprometidos(p)' = Hub(P, A, N)!Comprometidos(p)
  BY <1>2, <1>3 DEF Hub!Comprometidos
<1> QED BY <1>1, <1>2, <1>3, <1>4 DEF Hub!Bruto, Hub!Destacado, Hub!Publicado

----------------------------------------
(* The blog (Blog), for any number of requests *)

\* A row of a post that was viewed k times at most.
EntradaDe(E, k) ==
    [slug: Titulos \X (0 .. Cardinality(Entradas)), title: Titulos,
     author_id: Autores \cup Personal, status: {"draft", "pending", "published", "banned"},
     comment_count: 0 .. Cardinality(Comentarios), view_count: 0..k, tags: SUBSET E]

FilaComentario == [post_id: Entradas, status: {"visible", "flagged", "banned"}]

BlogTipos(P, E, N) ==
    /\ operaciones \in 0..N
    /\ entradas \in [Entradas -> EntradaDe(E, operaciones) \cup {Nada}]
    /\ comentarios \in [Comentarios -> FilaComentario \cup {Nada}]
    /\ etiquetas \subseteq E
    /\ indices = [t \in E \cup {Nada} |-> indices[t]]
    /\ peticion = [r \in P |-> peticion[r]]

\* A slug is of one post, its tags are rows, and a comment is of a post.
BlogEnlaces ==
    /\ \A e, f \in Entradas :
          (entradas[e] # Nada /\ entradas[f] # Nada /\ entradas[e].slug = entradas[f].slug) => e = f
    /\ \A e \in Entradas : entradas[e] # Nada => entradas[e].tags \subseteq etiquetas
    /\ \A c \in Comentarios : comentarios[c] # Nada => entradas[comentarios[c].post_id] # Nada

\* What a request will write: a row, of a post that is there unless it is made, whose
\* tags it leaves alone; only a form changes the slug or the status.
LoQueHace(E, q) ==
    /\ q.pc \in {"crear", "editar", "vista", "contar"} =>
          q.entrada \in Entradas /\ q.escrito \in EntradaDe(E, operaciones)
    /\ q.pc = "crear" =>
          q.escrito.tags = {} /\ q.etiquetas \subseteq E /\ q.escrito.status # "banned"
    /\ q.pc \in {"editar", "vista", "contar"} =>
          /\ entradas[q.entrada] # Nada /\ q.leido \in EntradaDe(E, operaciones)
          /\ q.escrito.tags = q.leido.tags
    /\ q.pc \in {"vista", "contar"} =>
          q.escrito.slug = q.leido.slug /\ q.escrito.status = q.leido.status
    /\ q.pc \in {"editar", "vista"} => q.escrito.comment_count = q.leido.comment_count
    /\ q.pc = "contar" =>
          /\ q.comentario[1] \in Comentarios
          /\ q.comentario[2] \in FilaComentario \cup {Nada}
          /\ q.comentario[2] # Nada => q.comentario[2].post_id = q.entrada

BlogInv(P, E, A, N) ==
    /\ BlogTipos(P, E, N) /\ BlogEnlaces
    /\ \A r \in P : LoQueHace(E, peticion[r])

----------------------------------------
(* ... are kept by every step *)

\* Sets are counted in the blog as they are here.
LEMMA BlogCuenta ==
    ASSUME NEW P, NEW E, NEW A, NEW N
    PROVE  /\ \A S : Bitacora(P, E, A, N)!Cardinality(S) = Cardinality(S)
           /\ \A S : Bitacora(P, E, A, N)!IsFiniteSet(S) = IsFiniteSet(S)
<1>1. ASSUME NEW S PROVE Bitacora(P, E, A, N)!Cardinality(S) = Cardinality(S)
  BY DEF Bitacora!Cardinality, Cardinality
<1>2. ASSUME NEW S PROVE Bitacora(P, E, A, N)!IsFiniteSet(S) = IsFiniteSet(S)
  BY DEF Bitacora!IsFiniteSet, IsFiniteSet
<1> QED BY <1>1, <1>2

\* The constants of the blog.
LEMMA BlogConstants ==
    ASSUME NEW P, NEW E, NEW A, NEW N, Bitacora(P, E, A, N)!BlogAssumption
    PROVE  /\ N \in Nat /\ Personal \cap Autores = {}
           /\ IsFiniteSet(Entradas) /\ IsFiniteSet(Comentarios)
           /\ Bitacora(P, E, A, N)!Entrada = EntradaDe(E, N)
           /\ Bitacora(P, E, A, N)!Comentario = FilaComentario
           /\ Nada \notin EntradaDe(E, N) /\ Nada \notin FilaComentario
<1>1. Bitacora(P, E, A, N)!Entrada = EntradaDe(E, N)
  <2>1. /\ Bitacora(P, E, A, N)!Slugs = Titulos \X (0 .. Cardinality(Entradas))
        /\ Bitacora(P, E, A, N)!Estados = {"draft", "pending", "published", "banned"}
    BY BlogCuenta DEF Bitacora!Slugs, Bitacora!Estados
  <2>2. Bitacora(P, E, A, N)!Entrada =
          [slug: Bitacora(P, E, A, N)!Slugs, title: Titulos,
           author_id: Autores \cup Personal, status: Bitacora(P, E, A, N)!Estados,
           comment_count: 0 .. Cardinality(Comentarios), view_count: 0..N, tags: SUBSET E]
    BY BlogCuenta DEF Bitacora!Entrada
  <2> QED BY <2>1, <2>2 DEF EntradaDe
<1>2. Bitacora(P, E, A, N)!Comentario = FilaComentario
  BY DEF Bitacora!Comentario, FilaComentario
<1>3. /\ N \in Nat /\ Personal \cap Autores = {}
      /\ IsFiniteSet(Entradas) /\ IsFiniteSet(Comentarios)
  BY BlogCuenta DEF Bitacora!BlogAssumption
<1>4. Nada \notin Bitacora(P, E, A, N)!Entrada \cup Bitacora(P, E, A, N)!Comentario
  BY DEF Bitacora!BlogAssumption
<1> QED BY <1>1, <1>2, <1>3, <1>4

\* A row that was viewed less often is a row.
LEMMA EntradaCrece ==
    ASSUME NEW E, NEW k \in Nat, NEW n \in Nat, k <= n
    PROVE  EntradaDe(E, k) \subseteq EntradaDe(E, n)
BY DEF EntradaDe

\* A request that has not begun is one, about nothing.
LEMMA BlogLibre ==
    ASSUME NEW P, NEW E, NEW A, NEW N
    PROVE  /\ Bitacora(P, E, A, N)!Libre.pc = "idle"
           /\ \A F : LoQueHace(F, Bitacora(P, E, A, N)!Libre) /\ LoQueHace(F, Bitacora(P, E, A, N)!Libre)'
BY DEF Bitacora!Libre, LoQueHace

\* A nonempty set of natural numbers has a least one.
LEMMA ElMenor ==
    ASSUME NEW T, T \subseteq Nat, T # {} PROVE \E x \in T : \A y \in T : x <= y
<1>1. PICK R : R = {ss \in Nat \X Nat : ss[1] < ss[2]}
  OBVIOUS
<1>2. IsWellFoundedOn(R, Nat)
  BY <1>1, NatLessThanWellFounded DEF OpToRel
<1>3. PICK x \in T : \A y \in T : ~ (<<y, x>> \in R)
  BY <1>2, WFMin
<1>4. \A y \in T : x <= y
  <2> SUFFICES ASSUME NEW y \in T, y < x PROVE FALSE
    OBVIOUS
  <2>1. PICK z : z = <<y, x>>
    OBVIOUS
  <2>2. z \in Nat \X Nat /\ z[1] = y /\ z[2] = x
    BY <2>1
  <2>3. z \in R
    BY <1>1, <2>2
  <2> QED BY <1>3, <2>1, <2>3
<1> QED BY <1>4

\* The first number that no post of a set has.
PrimerLibre(S, t, n) ==
    /\ \A f \in S : entradas[f].slug # <<t, n>>
    /\ \A k \in 0 .. n - 1 : \E f \in S : entradas[f].slug = <<t, k>>

\* Of one number more than there are posts, one is free.
LEMMA HayUnSlugLibre ==
    ASSUME NEW S, S \subseteq Entradas, IsFiniteSet(Entradas), NEW t
    PROVE  \E n \in 0 .. Cardinality(Entradas) : PrimerLibre(S, t, n)
<1> DEFINE C == Cardinality(Entradas)
           T == {n \in 0 .. C : \A f \in S : entradas[f].slug # <<t, n>>}
<1>1. C \in Nat /\ IsFiniteSet(S) /\ Cardinality(S) <= C
  BY FS_Subset, FS_CardinalityType
<1>2. IsFiniteSet(0 .. C) /\ Cardinality(0 .. C) = C + 1
  BY <1>1, FS_Interval
<1>3. T # {}
  <2> SUFFICES ASSUME \A n \in 0 .. C : \E f \in S : entradas[f].slug = <<t, n>> PROVE FALSE
    OBVIOUS
  <2>1. PICK g : g = [n \in 0 .. C |-> CHOOSE f \in S : entradas[f].slug = <<t, n>>]
    OBVIOUS
  <2>2. \A n \in 0 .. C : g[n] \in S /\ entradas[g[n]].slug = <<t, n>>
    BY <2>1
  <2>3. g \in [0 .. C -> S]
    BY <2>1, <2>2
  <2>4. PICK x, y \in 0 .. C : x # y /\ g[x] = g[y]
    BY <1>1, <1>2, <2>3, FS_PigeonHole, FS_CardinalityType
  <2>5. <<t, x>> = <<t, y>>
    BY <2>2, <2>4
  <2> QED BY <2>4, <2>5
<1>4. PICK n \in T : \A m \in T : n <= m
  <2>1. T \subseteq Nat
    BY <1>1
  <2> HIDE DEF T
  <2> QED BY <1>3, <2>1, ElMenor
<1>5. ASSUME NEW k \in 0 .. n - 1 PROVE \E f \in S : entradas[f].slug = <<t, k>>
  <2>1. k \in 0 .. C /\ ~(n <= k)
    BY <1>1, <1>4
  <2> QED BY <1>4, <2>1
<1> QED BY <1>4, <1>5 DEF PrimerLibre

\* ensure_unique_slug gives a slug.
LEMMA SlugTipado ==
    ASSUME NEW P, NEW E, NEW A, NEW N, IsFiniteSet(Entradas), NEW t \in Titulos, NEW e
    PROVE  Bitacora(P, E, A, N)!ensure_unique_slug(t, e) \in Titulos \X (0 .. Cardinality(Entradas))
<1>1. \E n \in 0 .. Cardinality(Entradas) :
         /\ ~Bitacora(P, E, A, N)!Tomado(t, e, n)
         /\ \A k \in 0 .. n - 1 : Bitacora(P, E, A, N)!Tomado(t, e, k)
  <2>1. PICK S : S = Bitacora(P, E, A, N)!Existentes \ {e} /\ S \subseteq Entradas
    BY DEF Bitacora!Existentes
  <2>2. \A n : Bitacora(P, E, A, N)!Tomado(t, e, n) <=> \E f \in S : entradas[f].slug = <<t, n>>
    BY <2>1 DEF Bitacora!Tomado
  <2>3. PICK n \in 0 .. Cardinality(Entradas) : PrimerLibre(S, t, n)
    BY <2>1, HayUnSlugLibre
  <2> QED BY <2>2, <2>3 DEF PrimerLibre
<1>2. Bitacora(P, E, A, N)!Cardinality(Entradas) = Cardinality(Entradas)
  BY BlogCuenta
<1> QED BY <1>1, <1>2 DEF Bitacora!ensure_unique_slug

\* No posts at first.
LEMMA BlogEmpieza ==
    ASSUME NEW P, NEW E, NEW A, NEW N, Bitacora(P, E, A, N)!BlogAssumption,
           Bitacora(P, E, A, N)!Init
    PROVE  BlogInv(P, E, A, N)
<1>1. /\ entradas = [e \in Entradas |-> Nada] /\ comentarios = [c \in Comentarios |-> Nada]
      /\ etiquetas = {} /\ indices = [t \in E \cup {Nada} |-> Nada]
      /\ peticion = [r \in P |-> Bitacora(P, E, A, N)!Libre] /\ operaciones = 0
  BY DEF Bitacora!Init
<1>2. BlogTipos(P, E, N)
  BY <1>1, BlogConstants DEF BlogTipos
<1>3. BlogEnlaces
  BY <1>1 DEF BlogEnlaces
<1> QED BY <1>1, <1>2, <1>3, BlogLibre DEF BlogInv

\* Posts stay.
EntradasQuedan == \A e \in Entradas : entradas[e] # Nada => entradas'[e] # Nada

\* What a request is about stays true while posts stay.
LEMMA BlogQueda ==
    ASSUME NEW E, NEW q, LoQueHace(E, q), EntradasQuedan, operaciones \in Nat,
           operaciones' \in Nat, operaciones <= operaciones'
    PROVE  LoQueHace(E, q)'
<1>1. EntradaDe(E, operaciones) \subseteq EntradaDe(E, operaciones')
  BY EntradaCrece
<1> QED BY <1>1 DEF LoQueHace, EntradasQuedan

\* A step that keeps the posts, and of the requests changes what is about one.
LEMMA BlogPaso ==
    ASSUME NEW P, NEW E, NEW A, NEW N, Bitacora(P, E, A, N)!BlogAssumption,
           BlogInv(P, E, A, N), BlogTipos(P, E, N)', BlogEnlaces',
           \A o \in P : peticion'[o] = peticion[o] \/ LoQueHace(E, peticion[o])',
           operaciones <= operaciones', EntradasQuedan
    PROVE  BlogInv(P, E, A, N)'
<1>1. operaciones \in Nat /\ operaciones' \in Nat
  BY BlogConstants DEF BlogInv, BlogTipos
<1>2. ASSUME NEW o \in P, peticion'[o] = peticion[o] PROVE LoQueHace(E, peticion[o])'
  <2>1. PICK q : q = peticion[o]
    OBVIOUS
  <2>2. LoQueHace(E, q)
    BY <2>1 DEF BlogInv
  <2>3. LoQueHace(E, q)'
    BY <1>1, <2>2, BlogQueda
  <2>4. peticion'[o] = q
    BY <1>2, <2>1
  <2> QED BY <2>3, <2>4 DEF LoQueHace
<1> QED BY <1>2 DEF BlogInv

\* A request that begins or ends and leaves the rows alone.
LEMMA BlogPide ==
    ASSUME NEW P, NEW E, NEW A, NEW N, Bitacora(P, E, A, N)!BlogAssumption,
           BlogInv(P, E, A, N), NEW p \in P, NEW f,
           peticion' = [peticion EXCEPT ![p] = f], LoQueHace(E, f)',
           UNCHANGED <<entradas, comentarios, etiquetas>>,
           indices' = [t \in E \cup {Nada} |-> indices'[t]],
           operaciones' \in operaciones..N
    PROVE  BlogInv(P, E, A, N)'
<1>0. BlogTipos(P, E, N) /\ operaciones \in Nat /\ operaciones' \in 0..N /\ operaciones <= operaciones'
      /\ N \in Nat
  BY BlogConstants DEF BlogInv, BlogTipos
<1>1. EntradaDe(E, operaciones) \subseteq EntradaDe(E, operaciones')
  BY <1>0, EntradaCrece
<1>2. /\ peticion' = [r \in P |-> peticion'[r]]
      /\ peticion'[p] = f /\ \A o \in P : o # p => peticion'[o] = peticion[o]
  <2>1. peticion = [r \in P |-> peticion[r]]
    BY <1>0 DEF BlogTipos
  <2> QED BY <2>1
<1>3. BlogTipos(P, E, N)'
  BY <1>0, <1>1, <1>2 DEF BlogTipos
<1>4. BlogEnlaces' /\ EntradasQuedan
  BY DEF BlogInv, BlogEnlaces, EntradasQuedan
<1>5. ASSUME NEW o \in P PROVE peticion'[o] = peticion[o] \/ LoQueHace(E, peticion[o])'
  <2>1. CASE o = p
    <3>1. peticion'[o] = f
      BY <1>2, <2>1
    <3> QED BY <3>1 DEF LoQueHace
  <2>2. CASE o # p
    BY <1>2, <2>2
  <2> QED BY <2>1, <2>2
<1> QED BY <1>0, <1>3, <1>4, <1>5, BlogPaso

\* What a request that begins says.
LEMMA BlogEmpezar ==
    ASSUME NEW P, NEW E, NEW A, NEW N, Bitacora(P, E, A, N)!BlogAssumption,
           BlogInv(P, E, A, N), NEW p, NEW a, Bitacora(P, E, A, N)!Empezar(p, a)
    PROVE  /\ peticion[p].pc = "idle" /\ a \in A
           /\ operaciones \in Nat /\ N \in Nat /\ operaciones < N /\ operaciones' = operaciones + 1
           /\ operaciones' \in operaciones..N
           /\ EntradaDe(E, operaciones) \subseteq EntradaDe(E, operaciones + 1)
           /\ EntradaDe(E, operaciones + 1) \subseteq EntradaDe(E, N)
<1>1. /\ operaciones < N /\ operaciones' = operaciones + 1 /\ peticion[p].pc = "idle" /\ a \in A
      /\ operaciones \in Nat /\ N \in Nat
  BY BlogConstants DEF Bitacora!Empezar, BlogInv, BlogTipos
<1> QED BY <1>1, EntradaCrece

\* What begins leaves the rows and what is cached.
LEMMA BlogPideFilas ==
    ASSUME NEW P, NEW E, NEW A, NEW N, Bitacora(P, E, A, N)!BlogAssumption,
           BlogInv(P, E, A, N), NEW p \in P, NEW a, Bitacora(P, E, A, N)!Empezar(p, a), NEW f,
           peticion' = [peticion EXCEPT ![p] = f], LoQueHace(E, f)',
           UNCHANGED <<Bitacora(P, E, A, N)!filas, Bitacora(P, E, A, N)!cache>>
    PROVE  BlogInv(P, E, A, N)'
<1>1. UNCHANGED <<entradas, comentarios, etiquetas, indices>>
  BY DEF Bitacora!filas, Bitacora!cache
<1>2. indices' = [t \in E \cup {Nada} |-> indices'[t]]
  BY <1>1 DEF BlogInv, BlogTipos
<1> QED BY <1>1, <1>2, BlogEmpezar, BlogPide

\* A form for a new post.
LEMMA BlogCrea ==
    ASSUME NEW P, NEW E, NEW A, NEW N, Bitacora(P, E, A, N)!BlogAssumption,
           BlogInv(P, E, A, N), NEW p \in P, NEW u \in Autores \cup Personal,
           Bitacora(P, E, A, N)!admin_create_post(p, u)
    PROVE  /\ BlogInv(P, E, A, N)'
           /\ UNCHANGED <<Bitacora(P, E, A, N)!filas, Bitacora(P, E, A, N)!cache>>
           /\ \E f : /\ peticion' = [peticion EXCEPT ![p] = f] /\ f.pc = "crear"
                     /\ entradas[f.entrada] = Nada /\ f.escrito.comment_count = 0
<1>1. PICK e \in Entradas, t \in Titulos, pide \in SUBSET E :
        /\ entradas[e] = Nada
        /\ peticion' = [peticion EXCEPT ![p] =
              [Bitacora(P, E, A, N)!Libre EXCEPT !.pc = "crear", !.usuario = u, !.entrada = e,
                 !.etiquetas = pide, !.escrito =
                   [slug |-> Bitacora(P, E, A, N)!ensure_unique_slug(t, e), title |-> t,
                    author_id |-> u, comment_count |-> 0, view_count |-> 0,
                    status |-> IF u \in Personal THEN "published" ELSE "pending", tags |-> {}]]]
  BY DEF Bitacora!admin_create_post, Bitacora!Seguir, Bitacora!Existentes
<1>2. PICK s : s = Bitacora(P, E, A, N)!ensure_unique_slug(t, e)
  OBVIOUS
<1>3. PICK w : w = [slug |-> s, title |-> t, author_id |-> u, comment_count |-> 0, view_count |-> 0,
                    status |-> IF u \in Personal THEN "published" ELSE "pending", tags |-> {}]
  OBVIOUS
<1>4. PICK f : f = [Bitacora(P, E, A, N)!Libre EXCEPT !.pc = "crear", !.usuario = u, !.entrada = e,
                      !.etiquetas = pide, !.escrito = w]
  OBVIOUS
<1>5. peticion' = [peticion EXCEPT ![p] = f]
  BY <1>1, <1>2, <1>3, <1>4
<1>6. f.pc = "crear" /\ f.entrada = e /\ f.etiquetas = pide /\ f.escrito = w
  BY <1>4 DEF Bitacora!Libre
<1>7. Bitacora(P, E, A, N)!Empezar(p, "crear")
      /\ UNCHANGED <<Bitacora(P, E, A, N)!filas, Bitacora(P, E, A, N)!cache>>
  BY DEF Bitacora!admin_create_post
<1>8. operaciones' \in Nat
  BY <1>7, BlogEmpezar
<1>9. w \in EntradaDe(E, operaciones') /\ w.tags = {} /\ w.status # "banned" /\ w.comment_count = 0
  <2>1. s \in Titulos \X (0 .. Cardinality(Entradas))
    BY <1>2, BlogConstants, SlugTipado
  <2>2. Cardinality(Comentarios) \in Nat
    BY BlogConstants, FS_CardinalityType
  <2> QED BY <1>3, <1>8, <2>1, <2>2 DEF EntradaDe
<1>10. LoQueHace(E, f)'
  BY <1>6, <1>9 DEF LoQueHace
<1>11. BlogInv(P, E, A, N)'
  BY <1>5, <1>7, <1>10, BlogPideFilas
<1> QED BY <1>1, <1>5, <1>6, <1>7, <1>9, <1>11

\* A form for a post that is there.
LEMMA BlogEdita ==
    ASSUME NEW P, NEW E, NEW A, NEW N, Bitacora(P, E, A, N)!BlogAssumption,
           BlogInv(P, E, A, N), NEW p \in P, NEW u \in Autores \cup Personal, NEW e \in Entradas,
           Bitacora(P, E, A, N)!admin_edit_post(p, u, e)
    PROVE  /\ BlogInv(P, E, A, N)'
           /\ UNCHANGED <<Bitacora(P, E, A, N)!filas, Bitacora(P, E, A, N)!cache>>
           /\ \E f : /\ peticion' = [peticion EXCEPT ![p] = f] /\ f.pc = "editar"
                     /\ f.leido = entradas[f.entrada]
                     /\ \/ f.usuario \in Personal \/ f.leido.status = "draft"
                        \/ f.escrito.status = f.leido.status
<1>1. PICK t \in Titulos, z \in {"draft", "pending", "published", "banned"}, pide \in SUBSET etiquetas :
        peticion' = [peticion EXCEPT ![p] =
              [Bitacora(P, E, A, N)!Libre EXCEPT !.pc = "editar", !.usuario = u, !.entrada = e,
                 !.leido = entradas[e], !.etiquetas = pide, !.escrito =
                   [entradas[e] EXCEPT !.title = t, !.slug = Bitacora(P, E, A, N)!ensure_unique_slug(t, e),
                                       !.status = Bitacora(P, E, A, N)!NuevoEstado(u, @, z)]]]
  BY DEF Bitacora!admin_edit_post, Bitacora!Seguir, Bitacora!Estados
<1>2. PICK s : s = Bitacora(P, E, A, N)!ensure_unique_slug(t, e)
  OBVIOUS
<1>3. PICK v \in EntradaDe(E, operaciones) : v = entradas[e]
  BY DEF Bitacora!admin_edit_post, Bitacora!Existentes, BlogInv, BlogTipos
<1>4. PICK n : n = Bitacora(P, E, A, N)!NuevoEstado(u, v.status, z)
  OBVIOUS
<1>5. PICK w : w = [v EXCEPT !.title = t, !.slug = s, !.status = n]
  OBVIOUS
<1>6. w = [slug |-> s, title |-> t, author_id |-> v.author_id, status |-> n,
           comment_count |-> v.comment_count, view_count |-> v.view_count, tags |-> v.tags]
  BY <1>3, <1>5 DEF EntradaDe
<1>7. PICK f : f = [Bitacora(P, E, A, N)!Libre EXCEPT !.pc = "editar", !.usuario = u, !.entrada = e,
                      !.leido = v, !.etiquetas = pide, !.escrito = w]
  OBVIOUS
<1>8. w = [entradas[e] EXCEPT !.title = t, !.slug = Bitacora(P, E, A, N)!ensure_unique_slug(t, e),
                              !.status = Bitacora(P, E, A, N)!NuevoEstado(u, @, z)]
  BY <1>2, <1>3, <1>4, <1>5
<1>9. peticion' = [peticion EXCEPT ![p] = f]
  BY <1>1, <1>3, <1>7, <1>8
<1>10. f.pc = "editar" /\ f.entrada = e /\ f.usuario = u /\ f.leido = v /\ f.escrito = w
  BY <1>7 DEF Bitacora!Libre
<1>11. Bitacora(P, E, A, N)!Empezar(p, "editar") /\ entradas[e] # Nada
       /\ UNCHANGED <<Bitacora(P, E, A, N)!filas, Bitacora(P, E, A, N)!cache>> /\ UNCHANGED entradas
  BY DEF Bitacora!admin_edit_post, Bitacora!Existentes, Bitacora!filas
<1>12. v \in EntradaDe(E, operaciones') /\ operaciones' \in Nat
  BY <1>3, <1>11, BlogEmpezar
<1>13. n \in {"draft", "pending", "published", "banned"}
       /\ (u \in Personal \/ v.status = "draft" \/ n = v.status)
  <2>1. v.status \in {"draft", "pending", "published", "banned"}
    BY <1>3 DEF EntradaDe
  <2> QED BY <1>4, <2>1 DEF Bitacora!NuevoEstado
<1>14. w \in EntradaDe(E, operaciones')
  <2>1. s \in Titulos \X (0 .. Cardinality(Entradas))
    BY <1>2, BlogConstants, SlugTipado
  <2> QED BY <1>6, <1>12, <1>13, <2>1 DEF EntradaDe
<1>15. w.tags = v.tags /\ w.comment_count = v.comment_count /\ w.status = n
  BY <1>6
<1>16. LoQueHace(E, f)'
  BY <1>10, <1>11, <1>12, <1>14, <1>15 DEF LoQueHace
<1>17. BlogInv(P, E, A, N)'
  BY <1>9, <1>11, <1>16, BlogPideFilas
<1> QED BY <1>3, <1>9, <1>10, <1>11, <1>13, <1>15, <1>17

\* A view begins to be counted.
LEMMA BlogMira ==
    ASSUME NEW P, NEW E, NEW A, NEW N, Bitacora(P, E, A, N)!BlogAssumption,
           BlogInv(P, E, A, N), NEW p \in P, NEW e \in Entradas, Bitacora(P, E, A, N)!count_view(p, e)
    PROVE  /\ BlogInv(P, E, A, N)'
           /\ UNCHANGED <<Bitacora(P, E, A, N)!filas, Bitacora(P, E, A, N)!cache>>
           /\ \E f : /\ peticion' = [peticion EXCEPT ![p] = f] /\ f.pc = "vista"
                     /\ f.leido = entradas[f.entrada]
<1>1. /\ Bitacora(P, E, A, N)!Empezar(p, "ver") /\ entradas[e] # Nada
      /\ UNCHANGED <<Bitacora(P, E, A, N)!filas, Bitacora(P, E, A, N)!cache>> /\ UNCHANGED entradas
      /\ peticion' = [peticion EXCEPT ![p] =
            [Bitacora(P, E, A, N)!Libre EXCEPT !.pc = "vista", !.entrada = e, !.leido = entradas[e],
               !.escrito = [entradas[e] EXCEPT !.view_count = @ + 1]]]
  BY DEF Bitacora!count_view, Bitacora!Existentes, Bitacora!Seguir, Bitacora!filas
<1>2. PICK v \in EntradaDe(E, operaciones) : v = entradas[e]
  BY <1>1 DEF BlogInv, BlogTipos
<1>3. PICK w : w = [v EXCEPT !.view_count = @ + 1]
  OBVIOUS
<1>4. PICK f : f = [Bitacora(P, E, A, N)!Libre EXCEPT !.pc = "vista", !.entrada = e, !.leido = v,
                      !.escrito = w]
  OBVIOUS
<1>5. peticion' = [peticion EXCEPT ![p] = f]
  BY <1>1, <1>2, <1>3, <1>4
<1>6. f.pc = "vista" /\ f.entrada = e /\ f.leido = v /\ f.escrito = w
  BY <1>4 DEF Bitacora!Libre
<1>7. operaciones' = operaciones + 1 /\ operaciones \in Nat /\ v \in EntradaDe(E, operaciones')
  BY <1>1, <1>2, BlogEmpezar
<1>8. w \in EntradaDe(E, operaciones')
  BY <1>2, <1>3, <1>7 DEF EntradaDe
<1>9. /\ w.tags = v.tags /\ w.slug = v.slug /\ w.status = v.status
      /\ w.comment_count = v.comment_count
  BY <1>2, <1>3 DEF EntradaDe
<1>10. LoQueHace(E, f)'
  BY <1>1, <1>6, <1>7, <1>8, <1>9 DEF LoQueHace
<1>11. BlogInv(P, E, A, N)'
  BY <1>1, <1>5, <1>10, BlogPideFilas
<1> QED BY <1>1, <1>2, <1>5, <1>6, <1>11

\* The comments that a post shows, and those it will show when a request is done.
VisiblesDe(e) ==
    {c \in Comentarios : /\ comentarios[c] # Nada /\ comentarios[c].post_id = e
                         /\ comentarios[c].status = "visible"}

VisiblesTras(q) ==
    {c \in Comentarios : IF c = q.comentario[1]
                         THEN q.comentario[2] # Nada /\ q.comentario[2].status = "visible"
                         ELSE c \in VisiblesDe(q.entrada)}

\* The request writes the number of comments there will be, and its comment is of its post.
Cuadra(q) ==
    /\ q.escrito.comment_count = Cardinality(VisiblesTras(q))
    /\ comentarios[q.comentario[1]] # Nada
       => comentarios[q.comentario[1]].post_id = q.entrada

\* A comment is of a post, or it is none; a request that counts anew.
ComentarioDe(x, e) == x # Nada => x.post_id = e
BlogContando(p, f, e, c, x, n) ==
    /\ peticion' = [peticion EXCEPT ![p] = f] /\ f.pc = "contar"
    /\ f.entrada = e /\ f.leido = entradas[e] /\ f.comentario = <<c, x>>
    /\ f.escrito.comment_count = n

\* It begins.
LEMMA BlogRecuenta ==
    ASSUME NEW P, NEW E, NEW A, NEW N, Bitacora(P, E, A, N)!BlogAssumption,
           BlogInv(P, E, A, N), NEW p \in P, NEW e \in Entradas, entradas[e] # Nada,
           NEW a, Bitacora(P, E, A, N)!Empezar(p, a),
           UNCHANGED <<Bitacora(P, E, A, N)!filas, Bitacora(P, E, A, N)!cache>>,
           NEW c \in Comentarios, NEW x \in FilaComentario \cup {Nada},
           ComentarioDe(x, e), NEW n \in 0 .. Cardinality(Comentarios),
           Bitacora(P, E, A, N)!Recontar(p, e, <<c, x>>, n)
    PROVE  BlogInv(P, E, A, N)' /\ \E f : BlogContando(p, f, e, c, x, n)
<1>1. /\ UNCHANGED entradas
      /\ peticion' = [peticion EXCEPT ![p] =
            [Bitacora(P, E, A, N)!Libre EXCEPT !.pc = "contar", !.entrada = e, !.leido = entradas[e],
               !.comentario = <<c, x>>, !.escrito = [entradas[e] EXCEPT !.comment_count = n]]]
  BY DEF Bitacora!Recontar, Bitacora!Seguir, Bitacora!filas
<1>2. PICK v \in EntradaDe(E, operaciones) : v = entradas[e]
  BY DEF BlogInv, BlogTipos
<1>3. PICK w : w = [v EXCEPT !.comment_count = n]
  OBVIOUS
<1>4. PICK f : f = [Bitacora(P, E, A, N)!Libre EXCEPT !.pc = "contar", !.entrada = e, !.leido = v,
                      !.comentario = <<c, x>>, !.escrito = w]
  OBVIOUS
<1>5. peticion' = [peticion EXCEPT ![p] = f]
  BY <1>1, <1>2, <1>3, <1>4
<1>6. f.pc = "contar" /\ f.entrada = e /\ f.leido = v /\ f.comentario = <<c, x>> /\ f.escrito = w
  BY <1>4 DEF Bitacora!Libre
<1>7. v \in EntradaDe(E, operaciones')
  BY <1>2, BlogEmpezar
<1>8. w \in EntradaDe(E, operaciones')
  BY <1>3, <1>7 DEF EntradaDe
<1>9. w.tags = v.tags /\ w.slug = v.slug /\ w.status = v.status /\ w.comment_count = n
  BY <1>2, <1>3 DEF EntradaDe
<1>10. LoQueHace(E, f)'
  BY <1>1, <1>6, <1>7, <1>8, <1>9 DEF LoQueHace, ComentarioDe
<1>11. BlogInv(P, E, A, N)'
  BY <1>5, <1>10, BlogPideFilas
<1>12. BlogContando(p, f, e, c, x, n)
  BY <1>2, <1>5, <1>6, <1>9 DEF BlogContando
<1> QED BY <1>11, <1>12

\* The number of some comments.
LEMMA CuantosComentarios ==
    ASSUME NEW S, S \subseteq Comentarios, IsFiniteSet(Comentarios)
    PROVE  Cardinality(S) \in 0 .. Cardinality(Comentarios)
BY FS_Subset, FS_CardinalityType

\* The three requests that change a comment.
BlogComenta(P, E, A, N, p) ==
    \/ \E e \in Entradas : Bitacora(P, E, A, N)!add_comment(p, e)
    \/ \E u \in Personal, c \in Comentarios :
          Bitacora(P, E, A, N)!ban_comment(p, u, c) \/ Bitacora(P, E, A, N)!delete_comment(p, u, c)

\* Each of them begins with the number it will leave.
LEMMA BlogComentan ==
    ASSUME NEW P, NEW E, NEW A, NEW N, Bitacora(P, E, A, N)!BlogAssumption,
           BlogInv(P, E, A, N), NEW p \in P, BlogComenta(P, E, A, N, p)
    PROVE  /\ BlogInv(P, E, A, N)'
           /\ UNCHANGED <<Bitacora(P, E, A, N)!filas, Bitacora(P, E, A, N)!cache>>
           /\ \E f : /\ peticion' = [peticion EXCEPT ![p] = f] /\ f.pc = "contar"
                     /\ f.leido = entradas[f.entrada] /\ Cuadra(f)
<1>0. /\ IsFiniteSet(Comentarios)
      /\ \A S : Bitacora(P, E, A, N)!Cardinality(S) = Cardinality(S)
      /\ \A e : Bitacora(P, E, A, N)!Visibles(e) = VisiblesDe(e)
      /\ comentarios \in [Comentarios -> FilaComentario \cup {Nada}]
      /\ \A c \in Comentarios : comentarios[c] # Nada => entradas[comentarios[c].post_id] # Nada
      /\ Nada \notin FilaComentario
  BY BlogConstants, BlogCuenta DEF Bitacora!Visibles, VisiblesDe, BlogInv, BlogTipos, BlogEnlaces
<1>1. ASSUME NEW e \in Entradas, Bitacora(P, E, A, N)!add_comment(p, e)
      PROVE  /\ BlogInv(P, E, A, N)'
             /\ UNCHANGED <<Bitacora(P, E, A, N)!filas, Bitacora(P, E, A, N)!cache>>
             /\ \E f : /\ peticion' = [peticion EXCEPT ![p] = f] /\ f.pc = "contar"
                       /\ f.leido = entradas[f.entrada] /\ Cuadra(f)
  <2>1. /\ entradas[e] # Nada /\ Bitacora(P, E, A, N)!Empezar(p, "comentar")
        /\ UNCHANGED <<Bitacora(P, E, A, N)!filas, Bitacora(P, E, A, N)!cache>>
    BY <1>1 DEF Bitacora!add_comment, Bitacora!Existentes
  <2>2. PICK c \in Comentarios :
          /\ comentarios[c] = Nada
          /\ Bitacora(P, E, A, N)!Recontar(p, e, <<c, [post_id |-> e, status |-> "visible"]>>,
                Bitacora(P, E, A, N)!Cardinality(Bitacora(P, E, A, N)!Visibles(e) \cup {c}))
    BY <1>1 DEF Bitacora!add_comment
  <2>3. PICK x \in FilaComentario : x = [post_id |-> e, status |-> "visible"]
    BY DEF FilaComentario
  <2>4. PICK n : n = Cardinality(VisiblesDe(e) \cup {c})
    OBVIOUS
  <2>5. n \in 0 .. Cardinality(Comentarios)
    BY <1>0, <2>4, CuantosComentarios DEF VisiblesDe
  <2>6. Bitacora(P, E, A, N)!Recontar(p, e, <<c, x>>, n) /\ x.post_id = e /\ x.status = "visible"
    BY <1>0, <2>2, <2>3, <2>4
  <2>7. PICK f : BlogContando(p, f, e, c, x, n) /\ BlogInv(P, E, A, N)'
    <3>1. ComentarioDe(x, e) /\ entradas[e] # Nada
      BY <2>1, <2>6 DEF ComentarioDe
    <3> QED BY <2>1, <2>3, <2>5, <2>6, <3>1, BlogRecuenta
  <2>8. VisiblesTras(f) = VisiblesDe(e) \cup {c}
    BY <1>0, <2>6, <2>7 DEF VisiblesTras, VisiblesDe, BlogContando
  <2>9. Cuadra(f)
    BY <2>2, <2>4, <2>7, <2>8 DEF Cuadra, BlogContando
  <2> QED BY <2>1, <2>7, <2>9 DEF BlogContando
<1>2. ASSUME NEW u \in Personal, NEW c \in Comentarios,
             Bitacora(P, E, A, N)!ban_comment(p, u, c) \/ Bitacora(P, E, A, N)!delete_comment(p, u, c)
      PROVE  /\ BlogInv(P, E, A, N)'
             /\ UNCHANGED <<Bitacora(P, E, A, N)!filas, Bitacora(P, E, A, N)!cache>>
             /\ \E f : /\ peticion' = [peticion EXCEPT ![p] = f] /\ f.pc = "contar"
                       /\ f.leido = entradas[f.entrada] /\ Cuadra(f)
  <2>1. PICK a : /\ comentarios[c] # Nada /\ Bitacora(P, E, A, N)!Empezar(p, a)
                 /\ UNCHANGED <<Bitacora(P, E, A, N)!filas, Bitacora(P, E, A, N)!cache>>
    BY <1>2 DEF Bitacora!ban_comment, Bitacora!delete_comment
  <2>2. PICK e \in Entradas : e = comentarios[c].post_id /\ entradas[e] # Nada
    BY <1>0, <2>1 DEF FilaComentario
  <2>3. PICK x \in FilaComentario \cup {Nada} :
          /\ x # Nada => x.post_id = e /\ x.status = "banned"
          /\ Bitacora(P, E, A, N)!Recontar(p, e, <<c, x>>, Bitacora(P, E, A, N)!SinEse(c))
    <3>1. CASE Bitacora(P, E, A, N)!ban_comment(p, u, c)
      <4>1. PICK x : x = [comentarios[c] EXCEPT !.status = "banned"]
        OBVIOUS
      <4>2. x \in FilaComentario /\ x.post_id = e /\ x.status = "banned"
        BY <1>0, <2>1, <2>2, <4>1 DEF FilaComentario
      <4>3. Bitacora(P, E, A, N)!Recontar(p, e, <<c, x>>, Bitacora(P, E, A, N)!SinEse(c))
        BY <2>2, <3>1, <4>1 DEF Bitacora!ban_comment
      <4> QED BY <4>2, <4>3
    <3>2. CASE Bitacora(P, E, A, N)!delete_comment(p, u, c)
      BY <2>2, <3>2 DEF Bitacora!delete_comment
    <3> QED BY <1>2, <3>1, <3>2
  <2>4. PICK n : n = Cardinality(VisiblesDe(e) \ {c})
    OBVIOUS
  <2>5. n \in 0 .. Cardinality(Comentarios)
    BY <1>0, <2>4, CuantosComentarios DEF VisiblesDe
  <2>6. Bitacora(P, E, A, N)!Recontar(p, e, <<c, x>>, n) /\ (x # Nada => x.post_id = e)
    BY <1>0, <2>2, <2>3, <2>4 DEF Bitacora!SinEse
  <2>7. PICK f : BlogContando(p, f, e, c, x, n) /\ BlogInv(P, E, A, N)'
    <3>1. ComentarioDe(x, e) /\ entradas[e] # Nada
      BY <2>2, <2>6 DEF ComentarioDe
    <3> QED BY <2>1, <2>2, <2>3, <2>5, <2>6, <3>1, BlogRecuenta
  <2>8. VisiblesTras(f) = VisiblesDe(e) \ {c}
    BY <2>3, <2>7 DEF VisiblesTras, VisiblesDe, BlogContando
  <2>9. Cuadra(f)
    BY <2>2, <2>4, <2>7, <2>8 DEF Cuadra, BlogContando
  <2> QED BY <2>1, <2>7, <2>9 DEF BlogContando
<1> QED BY <1>1, <1>2 DEF BlogComenta

\* A page or a list begins to be drawn.
LEMMA BlogLee ==
    ASSUME NEW P, NEW E, NEW A, NEW N, Bitacora(P, E, A, N)!BlogAssumption,
           BlogInv(P, E, A, N), NEW p \in P,
           \/ \E u \in Lectores, s \in Bitacora(P, E, A, N)!Slugs : Bitacora(P, E, A, N)!blog_post(p, u, s)
           \/ \E t \in E \cup {Nada} : Bitacora(P, E, A, N)!blog_index(p, t)
    PROVE  /\ BlogInv(P, E, A, N)'
           /\ UNCHANGED <<Bitacora(P, E, A, N)!filas, Bitacora(P, E, A, N)!cache>>
           /\ \E f : /\ peticion' = [peticion EXCEPT ![p] = f]
                     /\ \/ f.pc = "pagina"
                        \/ /\ f.pc = "indice"
                           /\ \A e \in f.escrito : e \in Entradas /\ entradas[e] # Nada
                                                   /\ entradas[e].status = "published"
<1>1. PICK a : /\ Bitacora(P, E, A, N)!Empezar(p, a)
               /\ UNCHANGED <<Bitacora(P, E, A, N)!filas, Bitacora(P, E, A, N)!cache>>
  BY DEF Bitacora!blog_post, Bitacora!blog_index
<1>2. PICK f : /\ peticion' = [peticion EXCEPT ![p] = f]
               /\ \/ f.pc = "pagina"
                  \/ /\ f.pc = "indice"
                     /\ \A e \in f.escrito : e \in Entradas /\ entradas[e] # Nada
                                             /\ entradas[e].status = "published"
  <2>1. CASE \E u \in Lectores, s \in Bitacora(P, E, A, N)!Slugs : Bitacora(P, E, A, N)!blog_post(p, u, s)
    <3>1. PICK u, s, e : peticion' = [peticion EXCEPT ![p] =
              [Bitacora(P, E, A, N)!Libre EXCEPT !.pc = "pagina", !.usuario = u, !.entrada = e, !.escrito = s]]
      BY <2>1 DEF Bitacora!blog_post, Bitacora!Seguir
    <3>2. PICK f : f = [Bitacora(P, E, A, N)!Libre EXCEPT !.pc = "pagina", !.usuario = u, !.entrada = e, !.escrito = s]
      OBVIOUS
    <3>3. f.pc = "pagina"
      BY <3>2 DEF Bitacora!Libre
    <3> QED BY <3>1, <3>2, <3>3
  <2>2. CASE \E t \in E \cup {Nada} : Bitacora(P, E, A, N)!blog_index(p, t)
    <3>1. PICK t : peticion' = [peticion EXCEPT ![p] =
              [Bitacora(P, E, A, N)!Libre EXCEPT !.pc = "indice", !.leido = t,
                 !.escrito = Bitacora(P, E, A, N)!Listadas(t)]]
      BY <2>2 DEF Bitacora!blog_index, Bitacora!Seguir
    <3>2. PICK L : L = Bitacora(P, E, A, N)!Listadas(t)
      OBVIOUS
    <3>3. PICK f : f = [Bitacora(P, E, A, N)!Libre EXCEPT !.pc = "indice", !.leido = t, !.escrito = L]
      OBVIOUS
    <3>4. f.pc = "indice" /\ f.escrito = L
      BY <3>3 DEF Bitacora!Libre
    <3>5. \A e \in L : e \in Entradas /\ entradas[e] # Nada /\ entradas[e].status = "published"
      BY <3>2 DEF Bitacora!Listadas, Bitacora!Existentes
    <3>6. peticion' = [peticion EXCEPT ![p] = f]
      BY <3>1, <3>2, <3>3
    <3> QED BY <3>4, <3>5, <3>6
  <2> QED BY <2>1, <2>2
<1>3. LoQueHace(E, f)'
  BY <1>2 DEF LoQueHace
<1>4. BlogInv(P, E, A, N)'
  BY <1>1, <1>2, <1>3, BlogPideFilas
<1> QED BY <1>1, <1>2, <1>4

\* Rows are written: a request ends, or was done in one step.
BlogTermina(P, E, A, N) ==
    \/ peticion' = peticion
    \/ \E p \in P : peticion' = [peticion EXCEPT ![p] = Bitacora(P, E, A, N)!Libre]

\* Rows of their types, with the links between them.
LEMMA BlogFilas ==
    ASSUME NEW P, NEW E, NEW A, NEW N, Bitacora(P, E, A, N)!BlogAssumption,
           BlogInv(P, E, A, N), BlogTermina(P, E, A, N), operaciones' \in operaciones..N,
           entradas' \in [Entradas -> EntradaDe(E, operaciones) \cup {Nada}],
           comentarios' \in [Comentarios -> FilaComentario \cup {Nada}], etiquetas' \subseteq E,
           indices' = [t \in E \cup {Nada} |-> indices'[t]], BlogEnlaces', EntradasQuedan
    PROVE  BlogInv(P, E, A, N)'
<1>0. /\ operaciones \in Nat /\ operaciones' \in 0..N /\ operaciones <= operaciones'
      /\ peticion = [r \in P |-> peticion[r]]
  BY BlogConstants DEF BlogInv, BlogTipos
<1>1. EntradaDe(E, operaciones) \subseteq EntradaDe(E, operaciones')
  BY <1>0, EntradaCrece
<1>2. /\ peticion' = [r \in P |-> peticion'[r]]
      /\ \A o \in P : peticion'[o] = peticion[o] \/ peticion'[o] = Bitacora(P, E, A, N)!Libre
  <2>1. CASE peticion' = peticion
    BY <1>0, <2>1
  <2>2. ASSUME NEW p \in P, peticion' = [peticion EXCEPT ![p] = Bitacora(P, E, A, N)!Libre]
        PROVE  /\ peticion' = [r \in P |-> peticion'[r]]
               /\ \A o \in P : peticion'[o] = peticion[o] \/ peticion'[o] = Bitacora(P, E, A, N)!Libre
    BY <1>0, <2>2
  <2> QED BY <2>1, <2>2 DEF BlogTermina
<1>3. BlogTipos(P, E, N)'
  BY <1>0, <1>1, <1>2 DEF BlogTipos
<1>4. ASSUME NEW o \in P PROVE peticion'[o] = peticion[o] \/ LoQueHace(E, peticion[o])'
  <2>1. CASE peticion'[o] = Bitacora(P, E, A, N)!Libre
    BY <2>1, BlogLibre DEF LoQueHace
  <2> QED BY <1>2, <2>1
<1> QED BY <1>0, <1>3, <1>4, BlogPaso

\* One post is written and no other.
BlogEscrita(e, w) ==
    e \in Entradas /\ w # Nada /\ entradas'[e] = w /\ \A f \in Entradas : f # e => entradas'[f] = entradas[f]

\* One post is written.
LEMMA BlogUnaFila ==
    ASSUME NEW P, NEW E, NEW A, NEW N, Bitacora(P, E, A, N)!BlogAssumption,
           BlogInv(P, E, A, N), BlogTermina(P, E, A, N), operaciones' \in operaciones..N,
           NEW e \in Entradas, NEW w \in EntradaDe(E, operaciones),
           entradas' = [entradas EXCEPT ![e] = w],
           \A f \in Entradas : f # e /\ entradas[f] # Nada => entradas[f].slug # w.slug,
           etiquetas \subseteq etiquetas', etiquetas' \subseteq E, w.tags \subseteq etiquetas',
           comentarios' \in [Comentarios -> FilaComentario \cup {Nada}],
           \A c \in Comentarios : comentarios'[c] # Nada => entradas[comentarios'[c].post_id] # Nada,
           indices' = [t \in E \cup {Nada} |-> indices'[t]]
    PROVE  BlogInv(P, E, A, N)' /\ BlogEscrita(e, w)
<1>0. /\ operaciones \in Nat /\ operaciones <= N /\ N \in Nat
      /\ entradas \in [Entradas -> EntradaDe(E, operaciones) \cup {Nada}] /\ BlogEnlaces
  BY BlogConstants DEF BlogInv, BlogTipos
<1>1. w # Nada
  BY <1>0, EntradaCrece, BlogConstants
<1>2. entradas'[e] = w /\ \A f \in Entradas : f # e => entradas'[f] = entradas[f]
  BY <1>0
<1>3. EntradasQuedan
  BY <1>1, <1>2 DEF EntradasQuedan
<1>4. \A f, g \in Entradas :
         (entradas'[f] # Nada /\ entradas'[g] # Nada /\ entradas'[f].slug = entradas'[g].slug) => f = g
  <2> SUFFICES ASSUME NEW f \in Entradas, NEW g \in Entradas, entradas'[f] # Nada,
                      entradas'[g] # Nada, entradas'[f].slug = entradas'[g].slug
               PROVE  f = g
    OBVIOUS
  <2>1. CASE f = e
    BY <1>2, <2>1
  <2>2. CASE g = e
    BY <1>2, <2>2
  <2>3. CASE f # e /\ g # e
    BY <1>0, <1>2, <2>3 DEF BlogEnlaces
  <2> QED BY <2>1, <2>2, <2>3
<1>5. \A f \in Entradas : entradas'[f] # Nada => entradas'[f].tags \subseteq etiquetas'
  BY <1>0, <1>2 DEF BlogEnlaces
<1>6. ASSUME NEW c \in Comentarios, comentarios'[c] # Nada PROVE entradas'[comentarios'[c].post_id] # Nada
  <2>1. comentarios'[c].post_id \in Entradas
    BY <1>6 DEF FilaComentario
  <2> QED BY <1>1, <1>2, <1>6, <2>1
<1>7. BlogEnlaces'
  BY <1>4, <1>5, <1>6 DEF BlogEnlaces
<1>8. entradas' \in [Entradas -> EntradaDe(E, operaciones) \cup {Nada}]
  BY <1>0
<1>9. BlogInv(P, E, A, N)'
  BY <1>3, <1>7, <1>8, BlogFilas
<1> QED BY <1>1, <1>2, <1>9 DEF BlogEscrita

\* The columns that a request changed.
LEMMA BlogColumnas ==
    ASSUME NEW E, NEW k, NEW a \in EntradaDe(E, k), NEW d \in EntradaDe(E, k),
           NEW v \in EntradaDe(E, k), NEW w,
           w = [c \in DOMAIN v |-> IF d[c] # a[c] THEN d[c] ELSE v[c]]
    PROVE  /\ w \in EntradaDe(E, k)
           /\ w.slug = (IF d.slug # a.slug THEN d.slug ELSE v.slug)
           /\ w.status = (IF d.status # a.status THEN d.status ELSE v.status)
           /\ w.tags = (IF d.tags # a.tags THEN d.tags ELSE v.tags)
           /\ w.comment_count = (IF d.comment_count # a.comment_count THEN d.comment_count ELSE v.comment_count)
<1>1. w \in EntradaDe(E, k)
  BY DEF EntradaDe
<1> QED BY <1>1 DEF EntradaDe

\* A new post is written, or its slug was taken.
LEMMA BlogCrear ==
    ASSUME NEW P, NEW E, NEW A, NEW N, Bitacora(P, E, A, N)!BlogAssumption,
           BlogInv(P, E, A, N), NEW p \in P, Bitacora(P, E, A, N)!CrearEntrada(p),
           NEW q, q = peticion[p]
    PROVE  /\ BlogInv(P, E, A, N)' /\ q.pc = "crear"
           /\ peticion' = [peticion EXCEPT ![p] = Bitacora(P, E, A, N)!Libre]
           /\ UNCHANGED <<comentarios, quitados, indices>>
           /\ \/ UNCHANGED entradas
              \/ \E w : /\ BlogEscrita(q.entrada, w) /\ w.status = q.escrito.status
                        /\ w.comment_count = q.escrito.comment_count
<1>0. /\ LoQueHace(E, q) /\ BlogTipos(P, E, N) /\ BlogEnlaces
  BY DEF BlogInv
<1>1. /\ q.pc = "crear" /\ peticion' = [peticion EXCEPT ![p] = Bitacora(P, E, A, N)!Libre]
      /\ UNCHANGED <<comentarios, quitados, indices, operaciones>>
  BY DEF Bitacora!CrearEntrada, Bitacora!Terminar, Bitacora!Seguir, Bitacora!filas, Bitacora!cache
<1>2. /\ q.entrada \in Entradas /\ q.escrito \in EntradaDe(E, operaciones)
      /\ q.etiquetas \subseteq E
  BY <1>0, <1>1 DEF LoQueHace
<1>3. BlogTermina(P, E, A, N) /\ operaciones' \in operaciones..N
      /\ indices' = [t \in E \cup {Nada} |-> indices'[t]]
  <2>1. BlogTermina(P, E, A, N)
    BY <1>1 DEF BlogTermina
  <2>2. operaciones' \in operaciones..N
    BY <1>0, <1>1, BlogConstants DEF BlogTipos
  <2>3. indices' = [t \in E \cup {Nada} |-> indices'[t]]
    BY <1>0, <1>1 DEF BlogTipos
  <2> QED BY <2>1, <2>2, <2>3
<1>4. CASE ~Bitacora(P, E, A, N)!SlugLibre(q.entrada, q.escrito.slug)
  <2>1. UNCHANGED <<entradas, etiquetas>>
    BY <1>4 DEF Bitacora!CrearEntrada, Bitacora!filas
  <2>2. BlogEnlaces' /\ EntradasQuedan
    BY <1>0, <1>1, <2>1 DEF BlogEnlaces, EntradasQuedan
  <2>3. /\ entradas' \in [Entradas -> EntradaDe(E, operaciones) \cup {Nada}]
        /\ comentarios' \in [Comentarios -> FilaComentario \cup {Nada}] /\ etiquetas' \subseteq E
    BY <1>0, <1>1, <2>1 DEF BlogTipos
  <2> QED BY <1>1, <1>3, <2>1, <2>2, <2>3, BlogFilas
<1>5. CASE Bitacora(P, E, A, N)!SlugLibre(q.entrada, q.escrito.slug)
  <2>1. PICK g : g = Bitacora(P, E, A, N)!Asignadas(q.usuario, q.etiquetas)
    OBVIOUS
  <2>2. g \subseteq E
    BY <1>2, <2>1 DEF Bitacora!Asignadas
  <2>3. PICK w : w = [q.escrito EXCEPT !.tags = g]
    OBVIOUS
  <2>4. /\ w \in EntradaDe(E, operaciones) /\ w.tags = g /\ w.slug = q.escrito.slug
        /\ w.status = q.escrito.status /\ w.comment_count = q.escrito.comment_count
    BY <1>2, <2>2, <2>3 DEF EntradaDe
  <2>5. entradas' = [entradas EXCEPT ![q.entrada] = w] /\ etiquetas' = etiquetas \cup g
    BY <1>5, <2>1, <2>3 DEF Bitacora!CrearEntrada
  <2>6. \A f \in Entradas : f # q.entrada /\ entradas[f] # Nada => entradas[f].slug # w.slug
    BY <1>5, <2>4 DEF Bitacora!SlugLibre, Bitacora!Existentes
  <2>7. /\ comentarios' \in [Comentarios -> FilaComentario \cup {Nada}]
        /\ \A c \in Comentarios : comentarios'[c] # Nada => entradas[comentarios'[c].post_id] # Nada
        /\ etiquetas' \subseteq E /\ etiquetas \subseteq etiquetas' /\ w.tags \subseteq etiquetas'
    BY <1>0, <1>1, <2>2, <2>4, <2>5 DEF BlogTipos, BlogEnlaces
  <2>8. BlogInv(P, E, A, N)' /\ BlogEscrita(q.entrada, w)
    BY <1>2, <1>3, <2>4, <2>5, <2>6, <2>7, BlogUnaFila
  <2> QED BY <1>1, <2>4, <2>8
<1> QED BY <1>4, <1>5

\* The row of the post of a request, of which it writes the columns that it changed.
BlogMezcla(q, w) ==
    /\ BlogEscrita(q.entrada, w)
    /\ w.status = (IF q.escrito.status # q.leido.status
                   THEN q.escrito.status ELSE entradas[q.entrada].status)
    /\ w.comment_count = (IF q.escrito.comment_count # q.leido.comment_count
                          THEN q.escrito.comment_count ELSE entradas[q.entrada].comment_count)

\* A request writes the columns that it changed in its post.
LEMMA BlogDistintos ==
    ASSUME NEW P, NEW E, NEW A, NEW N, Bitacora(P, E, A, N)!BlogAssumption,
           BlogInv(P, E, A, N), NEW p \in P, NEW q, q = peticion[p],
           q.pc \in {"editar", "vista", "contar"},
           peticion' = [peticion EXCEPT ![p] = Bitacora(P, E, A, N)!Libre], operaciones' = operaciones,
           entradas' = [entradas EXCEPT ![q.entrada] =
                          Bitacora(P, E, A, N)!Distintos(q.leido, q.escrito, @)],
           q.pc = "editar" => Bitacora(P, E, A, N)!SlugLibre(q.entrada, q.escrito.slug),
           UNCHANGED etiquetas, indices' = [t \in E \cup {Nada} |-> indices'[t]],
           comentarios' \in [Comentarios -> FilaComentario \cup {Nada}],
           \A c \in Comentarios : comentarios'[c] # Nada => entradas[comentarios'[c].post_id] # Nada
    PROVE  /\ BlogInv(P, E, A, N)'
           /\ \E w : BlogMezcla(q, w)
<1>0. LoQueHace(E, q) /\ BlogTipos(P, E, N) /\ BlogEnlaces
  BY DEF BlogInv
<1>1. /\ q.entrada \in Entradas /\ entradas[q.entrada] # Nada
      /\ q.escrito \in EntradaDe(E, operaciones) /\ q.leido \in EntradaDe(E, operaciones)
      /\ q.escrito.tags = q.leido.tags
      /\ q.pc \in {"vista", "contar"} => q.escrito.slug = q.leido.slug
  BY <1>0 DEF LoQueHace
<1>2. PICK v \in EntradaDe(E, operaciones) : v = entradas[q.entrada]
  BY <1>0, <1>1 DEF BlogTipos
<1>3. PICK w : w = [c \in DOMAIN v |-> IF q.escrito[c] # q.leido[c] THEN q.escrito[c] ELSE v[c]]
  OBVIOUS
<1>4. /\ w \in EntradaDe(E, operaciones)
      /\ w.slug = (IF q.escrito.slug # q.leido.slug THEN q.escrito.slug ELSE v.slug)
      /\ w.status = (IF q.escrito.status # q.leido.status THEN q.escrito.status ELSE v.status)
      /\ w.tags = v.tags
      /\ w.comment_count = (IF q.escrito.comment_count # q.leido.comment_count
                            THEN q.escrito.comment_count ELSE v.comment_count)
  BY <1>1, <1>3, BlogColumnas
<1>5. entradas' = [entradas EXCEPT ![q.entrada] = w]
  BY <1>0, <1>1, <1>2, <1>3 DEF BlogTipos, Bitacora!Distintos
<1>6. \A f \in Entradas : f # q.entrada /\ entradas[f] # Nada => entradas[f].slug # w.slug
  <2> SUFFICES ASSUME NEW f \in Entradas, f # q.entrada, entradas[f] # Nada
               PROVE  entradas[f].slug # w.slug
    OBVIOUS
  <2>1. CASE q.escrito.slug # q.leido.slug
    <3>1. w.slug = q.escrito.slug /\ q.pc = "editar"
      BY <1>1, <1>4, <2>1
    <3> QED BY <3>1 DEF Bitacora!SlugLibre, Bitacora!Existentes
  <2>2. CASE q.escrito.slug = q.leido.slug
    BY <1>0, <1>1, <1>2, <1>4, <2>2 DEF BlogEnlaces
  <2> QED BY <2>1, <2>2
<1>7. /\ etiquetas \subseteq etiquetas' /\ etiquetas' \subseteq E /\ w.tags \subseteq etiquetas'
  BY <1>0, <1>1, <1>2, <1>4 DEF BlogTipos, BlogEnlaces
<1>8. BlogTermina(P, E, A, N) /\ operaciones' \in operaciones..N
  <2>1. BlogTermina(P, E, A, N)
    BY DEF BlogTermina
  <2>2. operaciones' \in operaciones..N
    BY <1>0, BlogConstants DEF BlogTipos
  <2> QED BY <2>1, <2>2
<1>9. BlogInv(P, E, A, N)' /\ BlogEscrita(q.entrada, w)
  BY <1>1, <1>4, <1>5, <1>6, <1>7, <1>8, BlogUnaFila
<1> QED BY <1>2, <1>4, <1>9 DEF BlogMezcla

\* A step that leaves posts and comments alone, and no tag away.
LEMMA BlogMismas ==
    ASSUME NEW P, NEW E, NEW A, NEW N, Bitacora(P, E, A, N)!BlogAssumption,
           BlogInv(P, E, A, N), BlogTermina(P, E, A, N), operaciones' \in operaciones..N,
           UNCHANGED <<entradas, comentarios>>, etiquetas \subseteq etiquetas', etiquetas' \subseteq E,
           indices' = [t \in E \cup {Nada} |-> indices'[t]]
    PROVE  BlogInv(P, E, A, N)'
<1>0. BlogTipos(P, E, N) /\ BlogEnlaces
  BY DEF BlogInv
<1>1. BlogEnlaces' /\ EntradasQuedan
  BY <1>0 DEF BlogEnlaces, EntradasQuedan
<1>2. /\ entradas' \in [Entradas -> EntradaDe(E, operaciones) \cup {Nada}]
      /\ comentarios' \in [Comentarios -> FilaComentario \cup {Nada}]
  BY <1>0 DEF BlogTipos
<1> QED BY <1>1, <1>2, BlogFilas

\* The unfiltered list is dropped.
BlogSinLista == indices' = [indices EXCEPT ![Nada] = Nada]

\* The row of a post after a form for it.
BlogEditada(q, w) ==
    /\ BlogEscrita(q.entrada, w)
    /\ w.comment_count = entradas[q.entrada].comment_count
    /\ w.status = (IF q.escrito.status # q.leido.status
                   THEN q.escrito.status ELSE entradas[q.entrada].status)
    /\ quitados' = (IF q.usuario \in Personal /\ q.escrito.status # q.leido.status
                    THEN quitados \ {q.entrada} ELSE quitados)
    /\ BlogSinLista

\* A form is written, or the slug it asks for was taken.
LEMMA BlogEditar ==
    ASSUME NEW P, NEW E, NEW A, NEW N, Bitacora(P, E, A, N)!BlogAssumption,
           BlogInv(P, E, A, N), NEW p \in P, Bitacora(P, E, A, N)!EditarEntrada(p),
           NEW q, q = peticion[p]
    PROVE  /\ BlogInv(P, E, A, N)' /\ q.pc = "editar"
           /\ peticion' = [peticion EXCEPT ![p] = Bitacora(P, E, A, N)!Libre]
           /\ UNCHANGED comentarios
           /\ \/ UNCHANGED <<entradas, quitados, indices>>
              \/ \E w : BlogEditada(q, w)
<1>0. LoQueHace(E, q) /\ BlogTipos(P, E, N) /\ BlogEnlaces
  BY DEF BlogInv
<1>1. /\ q.pc = "editar" /\ peticion' = [peticion EXCEPT ![p] = Bitacora(P, E, A, N)!Libre]
      /\ UNCHANGED <<comentarios, etiquetas, operaciones>>
  BY DEF Bitacora!EditarEntrada, Bitacora!Terminar, Bitacora!Seguir, Bitacora!filas
<1>2. /\ operaciones' \in operaciones..N /\ etiquetas \subseteq etiquetas' /\ etiquetas' \subseteq E
      /\ indices = [t \in E \cup {Nada} |-> indices[t]]
  BY <1>0, <1>1, BlogConstants DEF BlogTipos
<1>3. CASE ~Bitacora(P, E, A, N)!SlugLibre(q.entrada, q.escrito.slug)
  <2>1. UNCHANGED <<entradas, quitados, indices>>
    BY <1>3 DEF Bitacora!EditarEntrada, Bitacora!filas, Bitacora!cache
  <2>2. BlogTermina(P, E, A, N)
    BY <1>1 DEF BlogTermina
  <2>3. indices' = [t \in E \cup {Nada} |-> indices'[t]]
    BY <1>2, <2>1
  <2>4. BlogInv(P, E, A, N)'
    BY <1>1, <1>2, <2>1, <2>2, <2>3, BlogMismas
  <2> QED BY <1>1, <2>1, <2>4
<1>4. CASE Bitacora(P, E, A, N)!SlugLibre(q.entrada, q.escrito.slug)
  <2>1. /\ entradas' = [entradas EXCEPT ![q.entrada] =
              Bitacora(P, E, A, N)!Distintos(q.leido, q.escrito, @)]
        /\ quitados' = (IF q.usuario \in Personal /\ q.escrito.status # q.leido.status
                        THEN quitados \ {q.entrada} ELSE quitados)
        /\ BlogSinLista
    BY <1>4 DEF Bitacora!EditarEntrada, Bitacora!SinElIndice, BlogSinLista
  <2>2. indices' = [t \in E \cup {Nada} |-> indices'[t]]
    BY <1>2, <2>1 DEF BlogSinLista
  <2>3. /\ comentarios' \in [Comentarios -> FilaComentario \cup {Nada}]
        /\ \A c \in Comentarios : comentarios'[c] # Nada => entradas[comentarios'[c].post_id] # Nada
    BY <1>0, <1>1 DEF BlogTipos, BlogEnlaces
  <2>4. q.escrito.comment_count = q.leido.comment_count
    BY <1>0, <1>1 DEF LoQueHace
  <2>5. /\ BlogInv(P, E, A, N)'
        /\ \E w : BlogMezcla(q, w)
    BY <1>1, <1>4, <2>1, <2>2, <2>3, BlogDistintos
  <2> QED BY <1>1, <2>1, <2>4, <2>5 DEF BlogEditada, BlogMezcla
<1> QED BY <1>3, <1>4

\* A view is counted.
LEMMA BlogContar ==
    ASSUME NEW P, NEW E, NEW A, NEW N, Bitacora(P, E, A, N)!BlogAssumption,
           BlogInv(P, E, A, N), NEW p \in P, Bitacora(P, E, A, N)!ContarVista(p),
           NEW q, q = peticion[p]
    PROVE  /\ BlogInv(P, E, A, N)'
           /\ peticion' = [peticion EXCEPT ![p] = Bitacora(P, E, A, N)!Libre]
           /\ UNCHANGED <<comentarios, quitados, indices>>
           /\ \E w : /\ BlogEscrita(q.entrada, w) /\ w.status = entradas[q.entrada].status
                     /\ w.comment_count = entradas[q.entrada].comment_count
<1>0. LoQueHace(E, q) /\ BlogTipos(P, E, N) /\ BlogEnlaces
  BY DEF BlogInv
<1>1. /\ q.pc = "vista" /\ peticion' = [peticion EXCEPT ![p] = Bitacora(P, E, A, N)!Libre]
      /\ UNCHANGED <<comentarios, etiquetas, quitados, indices>> /\ operaciones' = operaciones
      /\ entradas' = [entradas EXCEPT ![q.entrada] =
              Bitacora(P, E, A, N)!Distintos(q.leido, q.escrito, @)]
  BY DEF Bitacora!ContarVista, Bitacora!Terminar, Bitacora!Seguir, Bitacora!cache
<1>2. indices' = [t \in E \cup {Nada} |-> indices'[t]]
  BY <1>0, <1>1 DEF BlogTipos
<1>3. /\ comentarios' \in [Comentarios -> FilaComentario \cup {Nada}]
      /\ \A c \in Comentarios : comentarios'[c] # Nada => entradas[comentarios'[c].post_id] # Nada
  BY <1>0, <1>1 DEF BlogTipos, BlogEnlaces
<1>4. q.escrito.comment_count = q.leido.comment_count /\ q.escrito.status = q.leido.status
  BY <1>0, <1>1 DEF LoQueHace
<1>5. /\ BlogInv(P, E, A, N)'
      /\ \E w : BlogMezcla(q, w)
  BY <1>1, <1>2, <1>3, BlogDistintos
<1> QED BY <1>1, <1>4, <1>5 DEF BlogMezcla

\* A comment and the number of comments are written.
LEMMA BlogContada ==
    ASSUME NEW P, NEW E, NEW A, NEW N, Bitacora(P, E, A, N)!BlogAssumption,
           BlogInv(P, E, A, N), NEW p \in P, Bitacora(P, E, A, N)!GuardarCuenta(p),
           NEW q, q = peticion[p]
    PROVE  /\ BlogInv(P, E, A, N)' /\ q.pc = "contar"
           /\ peticion' = [peticion EXCEPT ![p] = Bitacora(P, E, A, N)!Libre]
           /\ comentarios' = [comentarios EXCEPT ![q.comentario[1]] = q.comentario[2]]
           /\ UNCHANGED <<quitados, indices>>
           /\ \E w : /\ BlogEscrita(q.entrada, w) /\ w.status = entradas[q.entrada].status
                     /\ w.comment_count = (IF q.escrito.comment_count # q.leido.comment_count
                                           THEN q.escrito.comment_count
                                           ELSE entradas[q.entrada].comment_count)
<1>0. LoQueHace(E, q) /\ BlogTipos(P, E, N) /\ BlogEnlaces
  BY DEF BlogInv
<1>1. /\ q.pc = "contar" /\ peticion' = [peticion EXCEPT ![p] = Bitacora(P, E, A, N)!Libre]
      /\ comentarios' = [comentarios EXCEPT ![q.comentario[1]] = q.comentario[2]]
      /\ UNCHANGED <<etiquetas, quitados, indices>> /\ operaciones' = operaciones
      /\ entradas' = [entradas EXCEPT ![q.entrada] =
              Bitacora(P, E, A, N)!Distintos(q.leido, q.escrito, @)]
  BY DEF Bitacora!GuardarCuenta, Bitacora!Terminar, Bitacora!Seguir
<1>2. indices' = [t \in E \cup {Nada} |-> indices'[t]]
  BY <1>0, <1>1 DEF BlogTipos
<1>3. /\ comentarios' \in [Comentarios -> FilaComentario \cup {Nada}]
      /\ \A c \in Comentarios : comentarios'[c] # Nada => entradas[comentarios'[c].post_id] # Nada
  <2>1. /\ q.comentario[1] \in Comentarios /\ q.comentario[2] \in FilaComentario \cup {Nada}
        /\ q.comentario[2] # Nada => q.comentario[2].post_id = q.entrada
        /\ entradas[q.entrada] # Nada
    BY <1>0, <1>1 DEF LoQueHace
  <2>2. comentarios \in [Comentarios -> FilaComentario \cup {Nada}]
    BY <1>0 DEF BlogTipos
  <2> QED BY <1>0, <1>1, <2>1, <2>2 DEF BlogEnlaces
<1>4. q.escrito.status = q.leido.status
  BY <1>0, <1>1 DEF LoQueHace
<1>5. /\ BlogInv(P, E, A, N)'
      /\ \E w : BlogMezcla(q, w)
  BY <1>1, <1>2, <1>3, BlogDistintos
<1> QED BY <1>1, <1>4, <1>5 DEF BlogMezcla

\* An administrator publishes a post or bans it.
BlogDecidida(e, w, z) ==
    /\ BlogEscrita(e, w) /\ w.comment_count = entradas[e].comment_count /\ w.status = z
    /\ BlogSinLista
    /\ \/ z = "published" /\ quitados' = quitados \ {e}
       \/ z = "banned" /\ quitados' = quitados \cup {e}

\* A post is approved or banned.
LEMMA BlogDecide ==
    ASSUME NEW P, NEW E, NEW A, NEW N, Bitacora(P, E, A, N)!BlogAssumption,
           BlogInv(P, E, A, N), NEW p \in P, NEW e \in Entradas,
           Bitacora(P, E, A, N)!approve_post(p, e) \/ Bitacora(P, E, A, N)!ban_post(p, e)
    PROVE  /\ BlogInv(P, E, A, N)' /\ UNCHANGED <<comentarios, peticion>> /\ entradas[e] # Nada
           /\ \E w, z : BlogDecidida(e, w, z)
<1>1. PICK z, a :
        /\ z \in {"published", "banned"}
        /\ entradas[e] # Nada /\ Bitacora(P, E, A, N)!Empezar(p, a)
        /\ entradas' = [entradas EXCEPT ![e].status = z]
        /\ BlogSinLista
        /\ \/ z = "published" /\ quitados' = quitados \ {e}
           \/ z = "banned" /\ quitados' = quitados \cup {e}
        /\ UNCHANGED <<comentarios, etiquetas, peticion>>
  BY DEF Bitacora!approve_post, Bitacora!ban_post, Bitacora!Existentes, Bitacora!SinIndiceDe,
         Bitacora!SinElIndice, BlogSinLista
<1>2. BlogTipos(P, E, N) /\ BlogEnlaces
  BY DEF BlogInv
<1>3. PICK v \in EntradaDe(E, operaciones) : v = entradas[e]
  BY <1>1, <1>2 DEF BlogTipos
<1>4. PICK w : w = [v EXCEPT !.status = z]
  OBVIOUS
<1>5. /\ w \in EntradaDe(E, operaciones) /\ w.slug = v.slug /\ w.tags = v.tags
      /\ w.comment_count = v.comment_count /\ w.status = z
  BY <1>1, <1>3, <1>4 DEF EntradaDe
<1>6. entradas' = [entradas EXCEPT ![e] = w]
  BY <1>1, <1>3, <1>4
<1>7. \A f \in Entradas : f # e /\ entradas[f] # Nada => entradas[f].slug # w.slug
  BY <1>1, <1>2, <1>3, <1>5 DEF BlogEnlaces
<1>8. /\ etiquetas \subseteq etiquetas' /\ etiquetas' \subseteq E /\ w.tags \subseteq etiquetas'
      /\ comentarios' \in [Comentarios -> FilaComentario \cup {Nada}]
      /\ \A c \in Comentarios : comentarios'[c] # Nada => entradas[comentarios'[c].post_id] # Nada
  BY <1>1, <1>2, <1>3, <1>5 DEF BlogTipos, BlogEnlaces
<1>9. indices' = [t \in E \cup {Nada} |-> indices'[t]]
  BY <1>1, <1>2 DEF BlogTipos, BlogSinLista
<1>10. BlogTermina(P, E, A, N) /\ operaciones' \in operaciones..N
  BY <1>1, BlogEmpezar DEF BlogTermina
<1>11. BlogInv(P, E, A, N)' /\ BlogEscrita(e, w)
  BY <1>5, <1>6, <1>7, <1>8, <1>9, <1>10, BlogUnaFila
<1> QED BY <1>1, <1>3, <1>5, <1>11 DEF BlogDecidida

\* A page is kept in the cache, or it leaves the cache.
BlogPagina(P, E, A, N) ==
    \/ \E p \in P : Bitacora(P, E, A, N)!GuardarPagina(p)
    \/ \E u \in Lectores, s \in Bitacora(P, E, A, N)!Slugs : Bitacora(P, E, A, N)!CaducarPagina(s, u)

\* A list is kept, or it leaves the cache.
BlogLista(P, E, A, N) ==
    \/ \E p \in P :
          /\ peticion[p].pc = "indice"
          /\ indices' = [indices EXCEPT ![peticion[p].leido] = peticion[p].escrito]
          /\ peticion' = [peticion EXCEPT ![p] = Bitacora(P, E, A, N)!Libre]
    \/ \E t \in E \cup {Nada} :
          indices' = [indices EXCEPT ![t] = Nada] /\ peticion' = peticion

\* What is shown is kept or expires, and posts and comments stay as they are.
LEMMA BlogGuarda ==
    ASSUME NEW P, NEW E, NEW A, NEW N, Bitacora(P, E, A, N)!BlogAssumption,
           BlogInv(P, E, A, N),
           \/ BlogPagina(P, E, A, N)
           \/ \E p \in P : Bitacora(P, E, A, N)!GuardarIndice(p)
           \/ \E t \in E \cup {Nada} : Bitacora(P, E, A, N)!CaducarIndice(t)
    PROVE  /\ BlogInv(P, E, A, N)' /\ UNCHANGED <<entradas, comentarios, quitados>>
           /\ BlogTermina(P, E, A, N)
           /\ UNCHANGED indices \/ BlogLista(P, E, A, N)
<1>1. UNCHANGED <<entradas, comentarios, etiquetas, quitados>> /\ operaciones' = operaciones
  BY DEF BlogPagina, Bitacora!GuardarPagina, Bitacora!GuardarIndice, Bitacora!CaducarPagina,
         Bitacora!CaducarIndice, Bitacora!filas, Bitacora!Terminar
<1>2. BlogTermina(P, E, A, N)
  BY DEF BlogTermina, BlogPagina, Bitacora!GuardarPagina, Bitacora!GuardarIndice,
         Bitacora!CaducarPagina, Bitacora!CaducarIndice, Bitacora!Terminar, Bitacora!Seguir
<1>3. UNCHANGED indices \/ BlogLista(P, E, A, N)
  BY DEF BlogLista, BlogPagina, Bitacora!GuardarPagina, Bitacora!GuardarIndice,
         Bitacora!CaducarPagina, Bitacora!CaducarIndice, Bitacora!Terminar, Bitacora!Seguir
<1>4. BlogTipos(P, E, N)
  BY DEF BlogInv
<1>5. indices' = [t \in E \cup {Nada} |-> indices'[t]]
  BY <1>3, <1>4 DEF BlogLista, BlogTipos
<1>6. /\ operaciones' \in operaciones..N /\ etiquetas \subseteq etiquetas' /\ etiquetas' \subseteq E
  BY <1>1, <1>4, BlogConstants DEF BlogTipos
<1>7. BlogInv(P, E, A, N)'
  BY <1>1, <1>2, <1>5, <1>6, BlogMismas
<1> QED BY <1>1, <1>2, <1>3, <1>7

\* A comment is reported.
LEMMA BlogMarca ==
    ASSUME NEW P, NEW E, NEW A, NEW N, Bitacora(P, E, A, N)!BlogAssumption,
           BlogInv(P, E, A, N), NEW p \in P, NEW c \in Comentarios,
           Bitacora(P, E, A, N)!flag_comment(p, c)
    PROVE  BlogInv(P, E, A, N)' /\ UNCHANGED <<entradas, quitados, indices, peticion>> /\ "marcar" \in A
<1>1. /\ comentarios[c] # Nada /\ Bitacora(P, E, A, N)!Empezar(p, "marcar")
      /\ comentarios' = [comentarios EXCEPT ![c].status = "flagged"]
      /\ UNCHANGED <<entradas, quitados, etiquetas, indices, peticion>>
  BY DEF Bitacora!flag_comment
<1>2. BlogTipos(P, E, N) /\ BlogEnlaces
  BY DEF BlogInv
<1>3. PICK v \in FilaComentario : v = comentarios[c]
  BY <1>1, <1>2 DEF BlogTipos
<1>4. PICK w : w = [v EXCEPT !.status = "flagged"]
  OBVIOUS
<1>5. w \in FilaComentario /\ w.post_id = v.post_id
  BY <1>3, <1>4 DEF FilaComentario
<1>6. comentarios' = [comentarios EXCEPT ![c] = w]
  BY <1>1, <1>3, <1>4
<1>7. comentarios' \in [Comentarios -> FilaComentario \cup {Nada}]
  BY <1>2, <1>5, <1>6 DEF BlogTipos
<1>8. BlogEnlaces' /\ EntradasQuedan
  <2>1. \A d \in Comentarios : comentarios'[d] # Nada => entradas'[comentarios'[d].post_id] # Nada
    BY <1>1, <1>2, <1>3, <1>5, <1>6 DEF BlogEnlaces, BlogTipos
  <2> QED BY <1>1, <1>2, <2>1 DEF BlogEnlaces, EntradasQuedan
<1>9. /\ BlogTermina(P, E, A, N) /\ operaciones' \in operaciones..N /\ "marcar" \in A
  BY <1>1, BlogEmpezar DEF BlogTermina
<1>10. /\ entradas' \in [Entradas -> EntradaDe(E, operaciones) \cup {Nada}] /\ etiquetas' \subseteq E
       /\ indices' = [t \in E \cup {Nada} |-> indices'[t]]
  BY <1>1, <1>2 DEF BlogTipos
<1>11. BlogInv(P, E, A, N)'
  BY <1>7, <1>8, <1>9, <1>10, BlogFilas
<1> QED BY <1>1, <1>9, <1>11

\* The tags of posts change, and nothing else of them.
SoloEtiquetas ==
    \A e \in Entradas :
       /\ entradas'[e] # Nada <=> entradas[e] # Nada
       /\ entradas[e] # Nada => /\ entradas'[e].status = entradas[e].status
                                /\ entradas'[e].comment_count = entradas[e].comment_count
                                /\ entradas'[e].slug = entradas[e].slug

\* A tag is made, or it leaves the posts that have it.
LEMMA BlogEtiqueta ==
    ASSUME NEW P, NEW E, NEW A, NEW N, Bitacora(P, E, A, N)!BlogAssumption,
           BlogInv(P, E, A, N), NEW p \in P, NEW t \in E,
           Bitacora(P, E, A, N)!create_tag(p, t) \/ Bitacora(P, E, A, N)!delete_tag(p, t)
    PROVE  /\ BlogInv(P, E, A, N)' /\ UNCHANGED <<comentarios, quitados, indices, peticion>>
           /\ SoloEtiquetas
<1>0. BlogTipos(P, E, N) /\ BlogEnlaces
  BY DEF BlogInv
<1>1. UNCHANGED <<comentarios, quitados, indices, peticion>>
  BY DEF Bitacora!create_tag, Bitacora!delete_tag, Bitacora!cache
<1>2. BlogTermina(P, E, A, N) /\ operaciones' \in operaciones..N
  <2>1. PICK a : Bitacora(P, E, A, N)!Empezar(p, a)
    BY DEF Bitacora!create_tag, Bitacora!delete_tag
  <2> QED BY <1>1, <2>1, BlogEmpezar DEF BlogTermina
<1>3. indices' = [x \in E \cup {Nada} |-> indices'[x]]
  BY <1>0, <1>1 DEF BlogTipos
<1>4. CASE Bitacora(P, E, A, N)!create_tag(p, t)
  <2>1. UNCHANGED entradas /\ etiquetas' = etiquetas \cup {t}
    BY <1>4 DEF Bitacora!create_tag
  <2>2. etiquetas \subseteq etiquetas' /\ etiquetas' \subseteq E
    BY <1>0, <2>1 DEF BlogTipos
  <2>3. BlogInv(P, E, A, N)'
    BY <1>1, <1>2, <1>3, <2>1, <2>2, BlogMismas
  <2> QED BY <1>1, <2>1, <2>3 DEF SoloEtiquetas
<1>5. CASE Bitacora(P, E, A, N)!delete_tag(p, t)
  <2>1. /\ etiquetas' = etiquetas \ {t}
        /\ entradas' = [e \in Entradas |-> IF entradas[e] = Nada THEN Nada
                                            ELSE [entradas[e] EXCEPT !.tags = @ \ {t}]]
    BY <1>5 DEF Bitacora!delete_tag, Bitacora!SinEtiqueta
  <2>2. ASSUME NEW e \in Entradas
        PROVE  /\ entradas[e] = Nada => entradas'[e] = Nada
               /\ entradas[e] # Nada =>
                     /\ entradas'[e] \in EntradaDe(E, operaciones) /\ entradas'[e] # Nada
                     /\ entradas'[e].status = entradas[e].status
                     /\ entradas'[e].comment_count = entradas[e].comment_count
                     /\ entradas'[e].slug = entradas[e].slug
                     /\ entradas'[e].tags = entradas[e].tags \ {t}
    <3>1. CASE entradas[e] = Nada
      BY <2>1, <3>1
    <3>2. CASE entradas[e] # Nada
      <4>1. PICK v \in EntradaDe(E, operaciones) : v = entradas[e]
        BY <1>0, <3>2 DEF BlogTipos
      <4>2. PICK w : w = [v EXCEPT !.tags = @ \ {t}]
        OBVIOUS
      <4>3. /\ w \in EntradaDe(E, operaciones) /\ w.status = v.status /\ w.slug = v.slug
            /\ w.comment_count = v.comment_count /\ w.tags = v.tags \ {t}
        BY <4>1, <4>2 DEF EntradaDe
      <4>4. entradas'[e] = w
        BY <2>1, <3>2, <4>1, <4>2
      <4>5. w # Nada
        BY <1>0, <4>3, EntradaCrece, BlogConstants DEF BlogTipos
      <4> QED BY <3>2, <4>1, <4>3, <4>4, <4>5
    <3> QED BY <3>1, <3>2
  <2>3. entradas' \in [Entradas -> EntradaDe(E, operaciones) \cup {Nada}]
    BY <2>1, <2>2
  <2>4. EntradasQuedan /\ SoloEtiquetas
    BY <2>2 DEF EntradasQuedan, SoloEtiquetas
  <2>5. \A c \in Comentarios : comentarios'[c] # Nada => entradas'[comentarios'[c].post_id] # Nada
    BY <1>0, <1>1, <2>2 DEF BlogEnlaces, BlogTipos, FilaComentario
  <2>6. /\ \A e, f \in Entradas :
              (entradas'[e] # Nada /\ entradas'[f] # Nada /\ entradas'[e].slug = entradas'[f].slug) => e = f
        /\ \A e \in Entradas : entradas'[e] # Nada => entradas'[e].tags \subseteq etiquetas'
    BY <1>0, <2>1, <2>2 DEF BlogEnlaces
  <2>7. BlogEnlaces'
    BY <2>5, <2>6 DEF BlogEnlaces
  <2>8. /\ comentarios' \in [Comentarios -> FilaComentario \cup {Nada}] /\ etiquetas' \subseteq E
    BY <1>0, <1>1, <2>1 DEF BlogTipos
  <2>9. BlogInv(P, E, A, N)'
    BY <1>2, <1>3, <2>3, <2>4, <2>7, <2>8, BlogFilas
  <2> QED BY <1>1, <2>4, <2>9
<1> QED BY <1>4, <1>5

\* What a step of the blog is.
BlogHace(P, E, A, N) ==
    \/ \E p \in P, u \in Autores \cup Personal : Bitacora(P, E, A, N)!admin_create_post(p, u)
    \/ \E p \in P, u \in Autores \cup Personal, e \in Entradas :
          Bitacora(P, E, A, N)!admin_edit_post(p, u, e)
    \/ \E p \in P, e \in Entradas : Bitacora(P, E, A, N)!count_view(p, e)
    \/ \E p \in P : BlogComenta(P, E, A, N, p)
    \/ \E p \in P :
          \/ \E u \in Lectores, s \in Bitacora(P, E, A, N)!Slugs : Bitacora(P, E, A, N)!blog_post(p, u, s)
          \/ \E t \in E \cup {Nada} : Bitacora(P, E, A, N)!blog_index(p, t)
    \/ \E p \in P : Bitacora(P, E, A, N)!CrearEntrada(p)
    \/ \E p \in P : Bitacora(P, E, A, N)!EditarEntrada(p)
    \/ \E p \in P : Bitacora(P, E, A, N)!ContarVista(p)
    \/ \E p \in P : Bitacora(P, E, A, N)!GuardarCuenta(p)
    \/ \E p \in P, e \in Entradas :
          Bitacora(P, E, A, N)!approve_post(p, e) \/ Bitacora(P, E, A, N)!ban_post(p, e)
    \/ \/ BlogPagina(P, E, A, N)
       \/ \E p \in P : Bitacora(P, E, A, N)!GuardarIndice(p)
       \/ \E t \in E \cup {Nada} : Bitacora(P, E, A, N)!CaducarIndice(t)
    \/ \E p \in P, c \in Comentarios : Bitacora(P, E, A, N)!flag_comment(p, c)
    \/ \E p \in P, t \in E : Bitacora(P, E, A, N)!create_tag(p, t) \/ Bitacora(P, E, A, N)!delete_tag(p, t)

\* A step of the blog is one of them.
LEMMA BlogPasos ==
    ASSUME NEW P, NEW E, NEW A, NEW N, Bitacora(P, E, A, N)!Next
    PROVE  BlogHace(P, E, A, N)
BY DEF Bitacora!Next, Bitacora!Terminos, BlogHace, BlogComenta, BlogPagina

\* ... and they are kept by every step.
LEMMA BlogSigue ==
    ASSUME NEW P, NEW E, NEW A, NEW N, Bitacora(P, E, A, N)!BlogAssumption, BlogInv(P, E, A, N),
           [Bitacora(P, E, A, N)!Next]_(Bitacora(P, E, A, N)!vars)
    PROVE  BlogInv(P, E, A, N)'
<1>1. CASE UNCHANGED Bitacora(P, E, A, N)!vars
  <2>1. UNCHANGED <<entradas, comentarios, etiquetas, indices, peticion, operaciones>>
    BY <1>1 DEF Bitacora!vars
  <2>2. BlogTermina(P, E, A, N)
    BY <2>1 DEF BlogTermina
  <2>3. /\ operaciones' \in operaciones..N /\ etiquetas' \subseteq E
        /\ indices' = [x \in E \cup {Nada} |-> indices'[x]]
    BY <2>1, BlogConstants DEF BlogInv, BlogTipos
  <2> QED BY <2>1, <2>2, <2>3, BlogMismas
<1>2. ASSUME NEW p \in P, NEW u \in Autores \cup Personal, Bitacora(P, E, A, N)!admin_create_post(p, u)
      PROVE  BlogInv(P, E, A, N)'
  BY <1>2, BlogCrea
<1>3. ASSUME NEW p \in P, NEW u \in Autores \cup Personal, NEW e \in Entradas,
             Bitacora(P, E, A, N)!admin_edit_post(p, u, e)
      PROVE  BlogInv(P, E, A, N)'
  BY <1>3, BlogEdita
<1>4. ASSUME NEW p \in P, NEW e \in Entradas, Bitacora(P, E, A, N)!count_view(p, e)
      PROVE  BlogInv(P, E, A, N)'
  BY <1>4, BlogMira
<1>5. ASSUME NEW p \in P, BlogComenta(P, E, A, N, p) PROVE BlogInv(P, E, A, N)'
  BY <1>5, BlogComentan
<1>6. ASSUME NEW p \in P,
             \/ \E u \in Lectores, s \in Bitacora(P, E, A, N)!Slugs : Bitacora(P, E, A, N)!blog_post(p, u, s)
             \/ \E t \in E \cup {Nada} : Bitacora(P, E, A, N)!blog_index(p, t)
      PROVE  BlogInv(P, E, A, N)'
  BY <1>6, BlogLee
<1>7. ASSUME NEW p \in P, Bitacora(P, E, A, N)!CrearEntrada(p) PROVE BlogInv(P, E, A, N)'
  BY <1>7, BlogCrear
<1>8. ASSUME NEW p \in P, Bitacora(P, E, A, N)!EditarEntrada(p) PROVE BlogInv(P, E, A, N)'
  BY <1>8, BlogEditar
<1>9. ASSUME NEW p \in P, Bitacora(P, E, A, N)!ContarVista(p) PROVE BlogInv(P, E, A, N)'
  BY <1>9, BlogContar
<1>10. ASSUME NEW p \in P, Bitacora(P, E, A, N)!GuardarCuenta(p) PROVE BlogInv(P, E, A, N)'
  BY <1>10, BlogContada
<1>11. ASSUME NEW p \in P, NEW e \in Entradas,
              Bitacora(P, E, A, N)!approve_post(p, e) \/ Bitacora(P, E, A, N)!ban_post(p, e)
       PROVE  BlogInv(P, E, A, N)'
  BY <1>11, BlogDecide
<1>12. ASSUME \/ BlogPagina(P, E, A, N)
              \/ \E p \in P : Bitacora(P, E, A, N)!GuardarIndice(p)
              \/ \E t \in E \cup {Nada} : Bitacora(P, E, A, N)!CaducarIndice(t)
       PROVE  BlogInv(P, E, A, N)'
  BY <1>12, BlogGuarda
<1>13. ASSUME NEW p \in P, NEW c \in Comentarios, Bitacora(P, E, A, N)!flag_comment(p, c)
       PROVE  BlogInv(P, E, A, N)'
  BY <1>13, BlogMarca
<1>14. ASSUME NEW p \in P, NEW t \in E,
              Bitacora(P, E, A, N)!create_tag(p, t) \/ Bitacora(P, E, A, N)!delete_tag(p, t)
       PROVE  BlogInv(P, E, A, N)'
  BY <1>14, BlogEtiqueta
<1> QED
  <2>1. CASE Bitacora(P, E, A, N)!Next
    <3>1. BlogHace(P, E, A, N)
      BY <2>1, BlogPasos
    <3> QED BY <1>2, <1>3, <1>4, <1>5, <1>6, <1>7, <1>8, <1>9, <1>10, <1>11, <1>12, <1>13, <1>14, <3>1
            DEF BlogHace
  <2> QED BY <1>1, <2>1

\* Rows are of their types and hold together.
LEMMA BlogDice ==
    ASSUME NEW P, NEW E, NEW A, NEW N, Bitacora(P, E, A, N)!BlogAssumption, BlogInv(P, E, A, N)
    PROVE  Bitacora(P, E, A, N)!TypeOK
<1>1. BlogTipos(P, E, N) /\ BlogEnlaces /\ N \in Nat /\ operaciones \in Nat /\ operaciones <= N
  BY BlogConstants DEF BlogInv, BlogTipos
<1>2. EntradaDe(E, operaciones) \subseteq EntradaDe(E, N)
  BY <1>1, EntradaCrece
<1>3. /\ entradas \in [Entradas -> Bitacora(P, E, A, N)!Entrada \cup {Nada}]
      /\ comentarios \in [Comentarios -> Bitacora(P, E, A, N)!Comentario \cup {Nada}]
  BY <1>1, <1>2, BlogConstants DEF BlogTipos
<1>4. /\ \A e, f \in Bitacora(P, E, A, N)!Existentes : entradas[e].slug = entradas[f].slug => e = f
      /\ \A e \in Bitacora(P, E, A, N)!Existentes : entradas[e].tags \subseteq etiquetas
  BY <1>1 DEF BlogEnlaces, Bitacora!Existentes
<1>5. \A c \in Comentarios : comentarios[c] # Nada
                              => comentarios[c].post_id \in Bitacora(P, E, A, N)!Existentes
  BY <1>1 DEF BlogEnlaces, BlogTipos, FilaComentario, Bitacora!Existentes
<1> QED BY <1>1, <1>3, <1>4, <1>5 DEF Bitacora!TypeOK

----------------------------------------
(* The blog, one request at a time *)

\* A set of posts none of which is banned.
SinBaneadas(S) == \A e \in S : e \in Entradas /\ entradas[e] # Nada /\ entradas[e].status # "banned"

\* The request knows its post: what it writes is about the post as it is.
BlogFresco(q) ==
    /\ q.pc \in {"editar", "vista", "contar"} => q.leido = entradas[q.entrada]
    /\ q.pc = "editar" => \/ q.usuario \in Personal \/ q.leido.status = "draft"
                          \/ q.escrito.status = q.leido.status
    /\ q.pc = "crear" => entradas[q.entrada] = Nada /\ q.escrito.comment_count = 0
    /\ q.pc = "contar" => Cuadra(q)
    /\ q.pc = "indice" => SinBaneadas(q.escrito)

\* What was banned is banned; no list shows it; what is counted is there.
BlogQuitadas == \A e \in quitados : e \in Entradas /\ entradas[e] # Nada /\ entradas[e].status = "banned"
BlogListada == indices[Nada] # Nada => SinBaneadas(indices[Nada])
BlogCuentas == \A e \in Entradas : entradas[e] # Nada => entradas[e].comment_count = Cardinality(VisiblesDe(e))

UnBlogInv(E, A, N) ==
    /\ BlogInv(Una, E, A, N) /\ BlogFresco(peticion[q1])
    /\ BlogQuitadas /\ BlogListada
    /\ "marcar" \notin A => BlogCuentas

\* No posts at first.
LEMMA UnBlogEmpieza ==
    ASSUME NEW E, NEW A, NEW N, Bitacora(Una, E, A, N)!BlogAssumption, Bitacora(Una, E, A, N)!Init
    PROVE  UnBlogInv(E, A, N)
<1>1. BlogInv(Una, E, A, N)
  BY BlogEmpieza
<1>2. /\ entradas = [e \in Entradas |-> Nada] /\ indices = [t \in E \cup {Nada} |-> Nada]
      /\ quitados = {} /\ peticion = [r \in Una |-> Bitacora(Una, E, A, N)!Libre]
  BY DEF Bitacora!Init
<1>3. peticion[q1].pc = "idle"
  BY <1>2, BlogLibre DEF Una
<1>4. BlogFresco(peticion[q1])
  BY <1>3 DEF BlogFresco
<1>5. BlogQuitadas /\ BlogListada /\ BlogCuentas
  BY <1>2 DEF BlogQuitadas, BlogListada, BlogCuentas
<1> QED BY <1>1, <1>4, <1>5 DEF UnBlogInv

\* Posts and comments stay, and so does what is said of them.
LEMMA UnBlogQuieto ==
    ASSUME NEW E, NEW A, NEW N, UnBlogInv(E, A, N), BlogInv(Una, E, A, N)',
           UNCHANGED <<entradas, comentarios, quitados>>, BlogListada', NEW f,
           peticion'[q1] = f, BlogFresco(f)
    PROVE  UnBlogInv(E, A, N)'
<1>1. \A e : VisiblesDe(e)' = VisiblesDe(e)
  BY DEF VisiblesDe
<1>2. BlogQuitadas' /\ ("marcar" \notin A => BlogCuentas')
  BY <1>1 DEF UnBlogInv, BlogQuitadas, BlogCuentas
<1>3. VisiblesTras(f)' = VisiblesTras(f)
  BY <1>1 DEF VisiblesTras
<1>4. Cuadra(f)' <=> Cuadra(f)
  BY <1>3 DEF Cuadra
<1>5. BlogFresco(f)'
  BY <1>4 DEF BlogFresco, SinBaneadas
<1>6. BlogFresco(peticion[q1])'
  <2>1. (peticion[q1])' = f
    OBVIOUS
  <2>2. PICK g : g = f /\ BlogFresco(g)'
    BY <1>5
  <2> QED BY <2>1, <2>2 DEF BlogFresco, Cuadra, VisiblesTras, SinBaneadas
<1> QED BY <1>2, <1>6 DEF UnBlogInv

\* A request begins.
LEMMA UnBlogPide ==
    ASSUME NEW E, NEW A, NEW N, UnBlogInv(E, A, N), BlogInv(Una, E, A, N)',
           UNCHANGED <<Bitacora(Una, E, A, N)!filas, Bitacora(Una, E, A, N)!cache>>, NEW f,
           peticion' = [peticion EXCEPT ![q1] = f], BlogFresco(f)
    PROVE  UnBlogInv(E, A, N)'
<1>1. UNCHANGED <<entradas, comentarios, quitados, indices>>
  BY DEF Bitacora!filas, Bitacora!cache
<1>2. BlogListada'
  BY <1>1 DEF UnBlogInv, BlogListada, SinBaneadas
<1>3. peticion'[q1] = f
  <2>1. peticion = [r \in Una |-> peticion[r]]
    BY DEF UnBlogInv, BlogInv, BlogTipos
  <2> QED BY <2>1 DEF Una
<1> QED BY <1>1, <1>2, <1>3, UnBlogQuieto

\* One post is written as it was but for what is not said here.
LEMMA UnBlogEscribe ==
    ASSUME NEW E, NEW A, NEW N, UnBlogInv(E, A, N), BlogInv(Una, E, A, N)', NEW e, NEW w,
           BlogEscrita(e, w),
           \A f \in quitados' : f \in quitados \cup {e} /\ (f = e => w.status = "banned"),
           indices'[Nada] = Nada \/ (indices' = indices /\ (entradas[e] # Nada => w.status = entradas[e].status)),
           "marcar" \notin A => \A f \in Entradas : entradas'[f] # Nada
                                   => entradas'[f].comment_count = Cardinality(VisiblesDe(f)'),
           peticion'[q1].pc = "idle"
    PROVE  UnBlogInv(E, A, N)'
<1>1. /\ e \in Entradas /\ w # Nada /\ entradas'[e] = w
      /\ \A f \in Entradas : f # e => entradas'[f] = entradas[f]
  BY DEF BlogEscrita
<1>2. BlogQuitadas'
  BY <1>1 DEF UnBlogInv, BlogQuitadas
<1>3. BlogListada'
  <2>1. CASE indices'[Nada] = Nada
    BY <2>1 DEF BlogListada
  <2>2. CASE indices' = indices /\ (entradas[e] # Nada => w.status = entradas[e].status)
    BY <1>1, <2>2 DEF UnBlogInv, BlogListada, SinBaneadas
  <2> QED BY <2>1, <2>2
<1>4. "marcar" \notin A => BlogCuentas'
  BY DEF BlogCuentas
<1>5. BlogFresco(peticion[q1])'
  BY DEF BlogFresco
<1> QED BY <1>2, <1>3, <1>4, <1>5 DEF UnBlogInv

\* The comments of a post stay where they are when another row changes.
LEMMA VisiblesQuedan ==
    ASSUME UNCHANGED comentarios PROVE \A e : VisiblesDe(e)' = VisiblesDe(e)
BY DEF VisiblesDe

\* What is counted is what there will be, of the post of the request and of all others.
LEMMA VisiblesCuentan ==
    ASSUME NEW E, NEW q, LoQueHace(E, q), q.pc = "contar", Cuadra(q),
           comentarios \in [Comentarios -> FilaComentario \cup {Nada}],
           comentarios' = [comentarios EXCEPT ![q.comentario[1]] = q.comentario[2]]
    PROVE  /\ VisiblesDe(q.entrada)' = VisiblesTras(q)
           /\ \A e : e # q.entrada => VisiblesDe(e)' = VisiblesDe(e)
<1>1. PICK c \in Comentarios, x \in FilaComentario \cup {Nada} :
        /\ c = q.comentario[1] /\ x = q.comentario[2] /\ (x # Nada => x.post_id = q.entrada)
  BY DEF LoQueHace
<1>2. comentarios'[c] = x /\ \A d \in Comentarios : d # c => comentarios'[d] = comentarios[d]
  BY <1>1
<1>3. comentarios[c] # Nada => comentarios[c].post_id = q.entrada
  BY <1>1 DEF Cuadra
<1>4. VisiblesDe(q.entrada)' = VisiblesTras(q)
  BY <1>1, <1>2 DEF VisiblesDe, VisiblesTras
<1>5. \A e : e # q.entrada => VisiblesDe(e)' = VisiblesDe(e)
  BY <1>1, <1>2, <1>3 DEF VisiblesDe
<1> QED BY <1>4, <1>5

\* ... and of one request they are kept by every step.
LEMMA UnBlogSigue ==
    ASSUME NEW E, NEW A, NEW N, Bitacora(Una, E, A, N)!BlogAssumption, UnBlogInv(E, A, N),
           [Bitacora(Una, E, A, N)!Next]_(Bitacora(Una, E, A, N)!vars)
    PROVE  UnBlogInv(E, A, N)'
<1>0. BlogInv(Una, E, A, N) /\ BlogInv(Una, E, A, N)'
  BY BlogSigue DEF UnBlogInv
<1>1. PICK q : q = peticion[q1] /\ LoQueHace(E, q) /\ BlogFresco(q)
  BY <1>0 DEF UnBlogInv, BlogInv, Una
<1>2. /\ q1 \in Una /\ \A p \in Una : p = q1
      /\ peticion = [r \in Una |-> peticion[r]] /\ indices = [t \in E \cup {Nada} |-> indices[t]]
      /\ comentarios \in [Comentarios -> FilaComentario \cup {Nada}] /\ BlogEnlaces
  BY <1>0 DEF BlogInv, BlogTipos, Una
<1>3. ASSUME NEW f, peticion' = [peticion EXCEPT ![q1] = f] PROVE peticion'[q1] = f
  BY <1>2, <1>3
<1>4. ASSUME peticion' = [peticion EXCEPT ![q1] = Bitacora(Una, E, A, N)!Libre]
      PROVE  peticion'[q1].pc = "idle"
  BY <1>3, <1>4, BlogLibre
<1>5. ASSUME NEW p \in Una, NEW a, Bitacora(Una, E, A, N)!Empezar(p, a) PROVE q.pc = "idle"
  BY <1>1, <1>2, <1>5 DEF Bitacora!Empezar
<1>6. CASE UNCHANGED Bitacora(Una, E, A, N)!vars
  <2>1. UNCHANGED <<entradas, comentarios, quitados, indices, peticion>>
    BY <1>6 DEF Bitacora!vars
  <2>2. BlogListada' /\ peticion'[q1] = q
    BY <1>1, <2>1 DEF UnBlogInv, BlogListada, SinBaneadas
  <2> QED BY <1>0, <1>1, <2>1, <2>2, UnBlogQuieto
<1>7. ASSUME NEW p \in Una, NEW u \in Autores \cup Personal, Bitacora(Una, E, A, N)!admin_create_post(p, u)
      PROVE  UnBlogInv(E, A, N)'
  <2>1. PICK f : /\ UNCHANGED <<Bitacora(Una, E, A, N)!filas, Bitacora(Una, E, A, N)!cache>>
                 /\ peticion' = [peticion EXCEPT ![p] = f] /\ f.pc = "crear"
                 /\ entradas[f.entrada] = Nada /\ f.escrito.comment_count = 0
    BY <1>0, <1>7, BlogCrea
  <2>2. BlogFresco(f)
    BY <2>1 DEF BlogFresco
  <2> QED BY <1>0, <1>2, <2>1, <2>2, UnBlogPide
<1>8. ASSUME NEW p \in Una, NEW u \in Autores \cup Personal, NEW e \in Entradas,
             Bitacora(Una, E, A, N)!admin_edit_post(p, u, e)
      PROVE  UnBlogInv(E, A, N)'
  <2>1. PICK f : /\ UNCHANGED <<Bitacora(Una, E, A, N)!filas, Bitacora(Una, E, A, N)!cache>>
                 /\ peticion' = [peticion EXCEPT ![p] = f] /\ f.pc = "editar"
                 /\ f.leido = entradas[f.entrada]
                 /\ \/ f.usuario \in Personal \/ f.leido.status = "draft"
                    \/ f.escrito.status = f.leido.status
    BY <1>0, <1>8, BlogEdita
  <2>2. BlogFresco(f)
    BY <2>1 DEF BlogFresco
  <2> QED BY <1>0, <1>2, <2>1, <2>2, UnBlogPide
<1>9. ASSUME NEW p \in Una, NEW e \in Entradas, Bitacora(Una, E, A, N)!count_view(p, e)
      PROVE  UnBlogInv(E, A, N)'
  <2>1. PICK f : /\ UNCHANGED <<Bitacora(Una, E, A, N)!filas, Bitacora(Una, E, A, N)!cache>>
                 /\ peticion' = [peticion EXCEPT ![p] = f] /\ f.pc = "vista"
                 /\ f.leido = entradas[f.entrada]
    BY <1>0, <1>9, BlogMira
  <2>2. BlogFresco(f)
    BY <2>1 DEF BlogFresco
  <2> QED BY <1>0, <1>2, <2>1, <2>2, UnBlogPide
<1>10. ASSUME NEW p \in Una, BlogComenta(Una, E, A, N, p) PROVE UnBlogInv(E, A, N)'
  <2>1. PICK f : /\ UNCHANGED <<Bitacora(Una, E, A, N)!filas, Bitacora(Una, E, A, N)!cache>>
                 /\ peticion' = [peticion EXCEPT ![p] = f] /\ f.pc = "contar"
                 /\ f.leido = entradas[f.entrada] /\ Cuadra(f)
    BY <1>0, <1>10, BlogComentan
  <2>2. BlogFresco(f)
    BY <2>1 DEF BlogFresco
  <2> QED BY <1>0, <1>2, <2>1, <2>2, UnBlogPide
<1>11. ASSUME NEW p \in Una,
              \/ \E u \in Lectores, s \in Bitacora(Una, E, A, N)!Slugs : Bitacora(Una, E, A, N)!blog_post(p, u, s)
              \/ \E t \in E \cup {Nada} : Bitacora(Una, E, A, N)!blog_index(p, t)
       PROVE  UnBlogInv(E, A, N)'
  <2>1. PICK f : /\ UNCHANGED <<Bitacora(Una, E, A, N)!filas, Bitacora(Una, E, A, N)!cache>>
                 /\ peticion' = [peticion EXCEPT ![p] = f]
                 /\ \/ f.pc = "pagina"
                    \/ /\ f.pc = "indice"
                       /\ \A e \in f.escrito : e \in Entradas /\ entradas[e] # Nada
                                               /\ entradas[e].status = "published"
    BY <1>0, <1>11, BlogLee
  <2>2. BlogFresco(f)
    BY <2>1 DEF BlogFresco, SinBaneadas
  <2> QED BY <1>0, <1>2, <2>1, <2>2, UnBlogPide
<1>12. ASSUME NEW p \in Una, Bitacora(Una, E, A, N)!CrearEntrada(p) PROVE UnBlogInv(E, A, N)'
  <2>1. /\ q.pc = "crear" /\ peticion' = [peticion EXCEPT ![q1] = Bitacora(Una, E, A, N)!Libre]
        /\ UNCHANGED <<comentarios, quitados, indices>>
        /\ \/ UNCHANGED entradas
           \/ \E w : /\ BlogEscrita(q.entrada, w) /\ w.status = q.escrito.status
                     /\ w.comment_count = q.escrito.comment_count
    BY <1>0, <1>1, <1>2, <1>12, BlogCrear
  <2>2. entradas[q.entrada] = Nada /\ q.escrito.comment_count = 0
    BY <1>1, <2>1 DEF BlogFresco
  <2>3. CASE UNCHANGED entradas
    <3>1. PICK f : f = Bitacora(Una, E, A, N)!Libre /\ peticion'[q1] = f /\ f.pc = "idle"
      BY <1>3, <2>1, BlogLibre
    <3>2. BlogFresco(f) /\ BlogListada'
      BY <2>1, <2>3, <3>1 DEF BlogFresco, UnBlogInv, BlogListada, SinBaneadas
    <3> QED BY <1>0, <2>1, <2>3, <3>1, <3>2, UnBlogQuieto
  <2>4. ASSUME NEW w, BlogEscrita(q.entrada, w), w.comment_count = q.escrito.comment_count
        PROVE  UnBlogInv(E, A, N)'
    <3>1. \A f \in quitados' : f \in quitados \cup {q.entrada} /\ (f = q.entrada => w.status = "banned")
      BY <2>1, <2>2 DEF UnBlogInv, BlogQuitadas
    <3>2. VisiblesDe(q.entrada) = {} /\ Cardinality({}) = 0
      BY <1>2, <2>2, FS_EmptySet DEF VisiblesDe, BlogEnlaces
    <3>3. "marcar" \notin A => \A f \in Entradas : entradas'[f] # Nada
                                   => entradas'[f].comment_count = Cardinality(VisiblesDe(f)')
      <4>1. ASSUME "marcar" \notin A, NEW f \in Entradas, entradas'[f] # Nada
            PROVE  entradas'[f].comment_count = Cardinality(VisiblesDe(f))
        BY <2>2, <2>4, <3>2, <4>1 DEF BlogEscrita, UnBlogInv, BlogCuentas
      <4> QED BY <2>1, <4>1, VisiblesQuedan
    <3>4. indices' = indices /\ (entradas[q.entrada] # Nada => w.status = entradas[q.entrada].status)
      BY <2>1, <2>2
    <3>5. peticion'[q1].pc = "idle"
      BY <1>4, <2>1
    <3> QED BY <1>0, <2>4, <3>1, <3>3, <3>4, <3>5, UnBlogEscribe
  <2> QED BY <2>1, <2>3, <2>4
<1>13. ASSUME NEW p \in Una, Bitacora(Una, E, A, N)!EditarEntrada(p) PROVE UnBlogInv(E, A, N)'
  <2>1. /\ q.pc = "editar" /\ peticion' = [peticion EXCEPT ![q1] = Bitacora(Una, E, A, N)!Libre]
        /\ UNCHANGED comentarios
        /\ \/ UNCHANGED <<entradas, quitados, indices>>
           \/ \E w : BlogEditada(q, w)
    BY <1>0, <1>1, <1>2, <1>13, BlogEditar
  <2>2. /\ q.leido = entradas[q.entrada] /\ entradas[q.entrada] # Nada
        /\ \/ q.usuario \in Personal \/ q.leido.status = "draft" \/ q.escrito.status = q.leido.status
    BY <1>1, <2>1 DEF BlogFresco, LoQueHace
  <2>3. CASE UNCHANGED <<entradas, quitados, indices>>
    <3>1. PICK f : f = Bitacora(Una, E, A, N)!Libre /\ peticion'[q1] = f /\ f.pc = "idle"
      BY <1>3, <2>1, BlogLibre
    <3>2. BlogFresco(f) /\ BlogListada'
      BY <2>1, <2>3, <3>1 DEF BlogFresco, UnBlogInv, BlogListada, SinBaneadas
    <3> QED BY <1>0, <2>1, <2>3, <3>1, <3>2, UnBlogQuieto
  <2>4. ASSUME NEW w, BlogEditada(q, w) PROVE UnBlogInv(E, A, N)'
    <3>1. BlogEscrita(q.entrada, w) /\ w.comment_count = entradas[q.entrada].comment_count
      BY <2>4 DEF BlogEditada
    <3>2. \A f \in quitados' : f \in quitados \cup {q.entrada} /\ (f = q.entrada => w.status = "banned")
      BY <2>2, <2>4 DEF BlogEditada, UnBlogInv, BlogQuitadas
    <3>3. "marcar" \notin A => \A f \in Entradas : entradas'[f] # Nada
                                   => entradas'[f].comment_count = Cardinality(VisiblesDe(f)')
      <4>1. ASSUME "marcar" \notin A, NEW f \in Entradas, entradas'[f] # Nada
            PROVE  entradas'[f].comment_count = Cardinality(VisiblesDe(f))
        BY <2>2, <3>1, <4>1 DEF BlogEscrita, UnBlogInv, BlogCuentas
      <4> QED BY <2>1, <4>1, VisiblesQuedan
    <3>4. indices'[Nada] = Nada
      BY <1>2, <2>4 DEF BlogEditada, BlogSinLista
    <3>5. peticion'[q1].pc = "idle"
      BY <1>4, <2>1
    <3> QED BY <1>0, <3>1, <3>2, <3>3, <3>4, <3>5, UnBlogEscribe
  <2> QED BY <2>1, <2>3, <2>4
<1>14. ASSUME NEW p \in Una, Bitacora(Una, E, A, N)!ContarVista(p) PROVE UnBlogInv(E, A, N)'
  <2>1. PICK w : /\ peticion' = [peticion EXCEPT ![q1] = Bitacora(Una, E, A, N)!Libre]
                 /\ UNCHANGED <<comentarios, quitados, indices>>
                 /\ BlogEscrita(q.entrada, w) /\ w.status = entradas[q.entrada].status
                 /\ w.comment_count = entradas[q.entrada].comment_count
    BY <1>0, <1>1, <1>2, <1>14, BlogContar
  <2>2. q.pc = "vista" /\ entradas[q.entrada] # Nada
    BY <1>1, <1>2, <1>14 DEF Bitacora!ContarVista, LoQueHace
  <2>3. \A f \in quitados' : f \in quitados \cup {q.entrada} /\ (f = q.entrada => w.status = "banned")
    BY <2>1 DEF UnBlogInv, BlogQuitadas
  <2>4. "marcar" \notin A => \A f \in Entradas : entradas'[f] # Nada
                                 => entradas'[f].comment_count = Cardinality(VisiblesDe(f)')
    <3>1. ASSUME "marcar" \notin A, NEW f \in Entradas, entradas'[f] # Nada
          PROVE  entradas'[f].comment_count = Cardinality(VisiblesDe(f))
      BY <2>1, <2>2, <3>1 DEF BlogEscrita, UnBlogInv, BlogCuentas
    <3> QED BY <2>1, <3>1, VisiblesQuedan
  <2>5. peticion'[q1].pc = "idle"
    BY <1>4, <2>1
  <2> QED BY <1>0, <2>1, <2>3, <2>4, <2>5, UnBlogEscribe
<1>15. ASSUME NEW p \in Una, Bitacora(Una, E, A, N)!GuardarCuenta(p) PROVE UnBlogInv(E, A, N)'
  <2>1. PICK w : /\ q.pc = "contar" /\ peticion' = [peticion EXCEPT ![q1] = Bitacora(Una, E, A, N)!Libre]
                 /\ comentarios' = [comentarios EXCEPT ![q.comentario[1]] = q.comentario[2]]
                 /\ UNCHANGED <<quitados, indices>>
                 /\ BlogEscrita(q.entrada, w) /\ w.status = entradas[q.entrada].status
                 /\ w.comment_count = (IF q.escrito.comment_count # q.leido.comment_count
                                       THEN q.escrito.comment_count
                                       ELSE entradas[q.entrada].comment_count)
    BY <1>0, <1>1, <1>2, <1>15, BlogContada
  <2>2. q.leido = entradas[q.entrada] /\ Cuadra(q)
    BY <1>1, <2>1 DEF BlogFresco
  <2>3. \A f \in quitados' : f \in quitados \cup {q.entrada} /\ (f = q.entrada => w.status = "banned")
    BY <2>1 DEF UnBlogInv, BlogQuitadas
  <2>4. w.comment_count = Cardinality(VisiblesTras(q))
    BY <2>1, <2>2 DEF Cuadra
  <2>5. /\ VisiblesDe(q.entrada)' = VisiblesTras(q)
        /\ \A e : e # q.entrada => VisiblesDe(e)' = VisiblesDe(e)
    BY <1>1, <1>2, <2>1, <2>2, VisiblesCuentan
  <2>6. "marcar" \notin A => \A f \in Entradas : entradas'[f] # Nada
                                 => entradas'[f].comment_count = Cardinality(VisiblesDe(f)')
    <3>1. ASSUME "marcar" \notin A, NEW f \in Entradas, entradas'[f] # Nada
          PROVE  entradas'[f].comment_count = Cardinality(VisiblesDe(f)')
      <4>1. CASE f = q.entrada
        BY <2>1, <2>4, <2>5, <4>1 DEF BlogEscrita
      <4>2. CASE f # q.entrada
        BY <2>1, <2>5, <3>1, <4>2 DEF BlogEscrita, UnBlogInv, BlogCuentas
      <4> QED BY <4>1, <4>2
    <3> QED BY <3>1
  <2>7. peticion'[q1].pc = "idle"
    BY <1>4, <2>1
  <2> QED BY <1>0, <2>1, <2>3, <2>6, <2>7, UnBlogEscribe
<1>16. ASSUME NEW p \in Una, NEW e \in Entradas,
              Bitacora(Una, E, A, N)!approve_post(p, e) \/ Bitacora(Una, E, A, N)!ban_post(p, e)
       PROVE  UnBlogInv(E, A, N)'
  <2>1. PICK w, z : /\ UNCHANGED <<comentarios, peticion>> /\ entradas[e] # Nada
                    /\ BlogDecidida(e, w, z)
    BY <1>0, <1>16, BlogDecide
  <2>2. PICK a : Bitacora(Una, E, A, N)!Empezar(p, a)
    BY <1>16 DEF Bitacora!approve_post, Bitacora!ban_post
  <2>3. peticion'[q1].pc = "idle"
    BY <1>1, <1>5, <2>1, <2>2
  <2>4. BlogEscrita(e, w) /\ w.comment_count = entradas[e].comment_count
    BY <2>1 DEF BlogDecidida
  <2>5. \A f \in quitados' : f \in quitados \cup {e} /\ (f = e => w.status = "banned")
    BY <2>1 DEF BlogDecidida
  <2>6. indices'[Nada] = Nada
    BY <1>2, <2>1 DEF BlogDecidida, BlogSinLista
  <2>7. "marcar" \notin A => \A f \in Entradas : entradas'[f] # Nada
                                 => entradas'[f].comment_count = Cardinality(VisiblesDe(f)')
    <3>1. ASSUME "marcar" \notin A, NEW f \in Entradas, entradas'[f] # Nada
          PROVE  entradas'[f].comment_count = Cardinality(VisiblesDe(f))
      BY <2>1, <2>4, <3>1 DEF BlogEscrita, UnBlogInv, BlogCuentas
    <3> QED BY <2>1, <3>1, VisiblesQuedan
  <2> QED BY <1>0, <2>3, <2>4, <2>5, <2>6, <2>7, UnBlogEscribe
<1>17. ASSUME \/ BlogPagina(Una, E, A, N)
              \/ \E p \in Una : Bitacora(Una, E, A, N)!GuardarIndice(p)
              \/ \E t \in E \cup {Nada} : Bitacora(Una, E, A, N)!CaducarIndice(t)
       PROVE  UnBlogInv(E, A, N)'
  <2>1. /\ UNCHANGED <<entradas, comentarios, quitados>> /\ BlogTermina(Una, E, A, N)
        /\ UNCHANGED indices \/ BlogLista(Una, E, A, N)
    BY <1>0, <1>17, BlogGuarda
  <2>2. PICK f : peticion'[q1] = f /\ BlogFresco(f)
    <3>1. CASE peticion' = peticion
      BY <1>1, <3>1
    <3>2. CASE peticion' = [peticion EXCEPT ![q1] = Bitacora(Una, E, A, N)!Libre]
      <4>1. PICK f : f = Bitacora(Una, E, A, N)!Libre /\ peticion'[q1] = f /\ f.pc = "idle"
        BY <1>3, <3>2, BlogLibre
      <4>2. BlogFresco(f)
        BY <4>1 DEF BlogFresco
      <4> QED BY <4>1, <4>2
    <3> QED BY <1>2, <2>1, <3>1, <3>2 DEF BlogTermina
  <2>3. indices'[Nada] # Nada => SinBaneadas(indices'[Nada])
    <3>1. BlogListada
      BY DEF UnBlogInv
    <3>2. CASE UNCHANGED indices
      BY <3>1, <3>2 DEF BlogListada
    <3>3. CASE q.pc = "indice" /\ indices' = [indices EXCEPT ![q.leido] = q.escrito]
      <4>1. SinBaneadas(q.escrito)
        BY <1>1, <3>3 DEF BlogFresco
      <4> QED BY <1>2, <3>1, <3>3, <4>1 DEF BlogListada
    <3>4. ASSUME NEW t \in E \cup {Nada}, indices' = [indices EXCEPT ![t] = Nada]
          PROVE  indices'[Nada] # Nada => SinBaneadas(indices'[Nada])
      BY <1>2, <3>1, <3>4 DEF BlogListada
    <3> QED BY <1>1, <1>2, <2>1, <3>2, <3>3, <3>4 DEF BlogLista
  <2>4. BlogListada'
    BY <2>1, <2>3 DEF BlogListada, SinBaneadas
  <2> QED BY <1>0, <2>1, <2>2, <2>4, UnBlogQuieto
<1>18. ASSUME NEW p \in Una, NEW c \in Comentarios, Bitacora(Una, E, A, N)!flag_comment(p, c)
       PROVE  UnBlogInv(E, A, N)'
  <2>1. UNCHANGED <<entradas, quitados, indices, peticion>> /\ "marcar" \in A
    BY <1>0, <1>18, BlogMarca
  <2>2. peticion'[q1].pc = "idle"
    <3>1. Bitacora(Una, E, A, N)!Empezar(p, "marcar")
      BY <1>18 DEF Bitacora!flag_comment
    <3> QED BY <1>1, <1>5, <2>1, <3>1
  <2>3. BlogFresco(peticion[q1])'
    BY <2>2 DEF BlogFresco
  <2>4. BlogQuitadas' /\ BlogListada'
    BY <2>1 DEF UnBlogInv, BlogQuitadas, BlogListada, SinBaneadas
  <2> QED BY <1>0, <2>1, <2>3, <2>4 DEF UnBlogInv
<1>19. ASSUME NEW p \in Una, NEW t \in E,
              Bitacora(Una, E, A, N)!create_tag(p, t) \/ Bitacora(Una, E, A, N)!delete_tag(p, t)
       PROVE  UnBlogInv(E, A, N)'
  <2>1. UNCHANGED <<comentarios, quitados, indices, peticion>> /\ SoloEtiquetas
    BY <1>0, <1>19, BlogEtiqueta
  <2>2. peticion'[q1].pc = "idle"
    <3>1. PICK a : Bitacora(Una, E, A, N)!Empezar(p, a)
      BY <1>19 DEF Bitacora!create_tag, Bitacora!delete_tag
    <3> QED BY <1>1, <1>5, <2>1, <3>1
  <2>3. BlogFresco(peticion[q1])'
    BY <2>2 DEF BlogFresco
  <2>4. BlogQuitadas' /\ BlogListada'
    BY <2>1 DEF UnBlogInv, BlogQuitadas, BlogListada, SinBaneadas, SoloEtiquetas
  <2>5. "marcar" \notin A => BlogCuentas'
    <3>1. ASSUME "marcar" \notin A, NEW f \in Entradas, entradas'[f] # Nada
          PROVE  entradas'[f].comment_count = Cardinality(VisiblesDe(f)')
      <4>1. entradas'[f].comment_count = Cardinality(VisiblesDe(f))
        BY <2>1, <3>1 DEF UnBlogInv, BlogCuentas, SoloEtiquetas
      <4> QED BY <2>1, <4>1, VisiblesQuedan
    <3> QED BY <3>1 DEF BlogCuentas
  <2> QED BY <1>0, <2>3, <2>4, <2>5 DEF UnBlogInv
<1> QED
  <2>1. CASE Bitacora(Una, E, A, N)!Next
    <3>1. BlogHace(Una, E, A, N)
      BY <2>1, BlogPasos
    <3> QED BY <1>7, <1>8, <1>9, <1>10, <1>11, <1>12, <1>13, <1>14, <1>15, <1>16, <1>17, <1>18, <1>19, <3>1
            DEF BlogHace
  <2> QED BY <1>6, <2>1

\* What they say.
LEMMA UnBlogDice ==
    ASSUME NEW E, NEW A, NEW N, UnBlogInv(E, A, N)
    PROVE  /\ Bitacora(Una, E, A, N)!OnlyAdminsRestore /\ Bitacora(Una, E, A, N)!IndexHasNoBanned
           /\ "marcar" \notin A => Bitacora(Una, E, A, N)!CountIsVisible
<1>1. Bitacora(Una, E, A, N)!OnlyAdminsRestore
  BY DEF UnBlogInv, BlogQuitadas, Bitacora!OnlyAdminsRestore
<1>2. Bitacora(Una, E, A, N)!IndexHasNoBanned
  BY DEF UnBlogInv, BlogListada, SinBaneadas, Bitacora!IndexHasNoBanned
<1>3. ASSUME "marcar" \notin A PROVE Bitacora(Una, E, A, N)!CountIsVisible
  <2>1. /\ \A S : Bitacora(Una, E, A, N)!Cardinality(S) = Cardinality(S)
        /\ \A e : Bitacora(Una, E, A, N)!Visibles(e) = VisiblesDe(e)
    BY BlogCuenta DEF Bitacora!Visibles, VisiblesDe
  <2> QED BY <1>3, <2>1 DEF UnBlogInv, BlogCuentas, Bitacora!CountIsVisible, Bitacora!Existentes
<1> QED BY <1>1, <1>2, <1>3

----------------------------------------
(* The pages of the site (CustomPages), for any number of requests *)

FilaPagina(D) == [slug: D \cup OtrosSlugs, texto: Propios \cup Enviados, is_active: BOOLEAN]
Mostradas == Propios \cup Enviados \cup {"redirect"}

\* A request of its type; what is written is a row, and what is corrected was found.
PidePagina(D, I) ==
    [pc: {"idle", "escribir", "invalidar", "borrar", "sincronizar", "vaciar", "hecho"},
     hace: {"", "crear", "editar", "alternar", "borrar", "sincronizar", "idioma"}, id: Paginas \cup {Nada}, leida: FilaPagina(D) \cup {Nada},
     escrita: FilaPagina(D) \cup {Nada}, slugs: SUBSET (D \cup OtrosSlugs), idioma: I \cup {Nada},
     hallada: [D -> Paginas \cup {Nada}],
     estado: [D -> {"faltante", "al-dia", "desactualizada", "personalizada"}]]

SabePagina(D, q) ==
    /\ q.pc = "escribir" => q.id \in Paginas /\ q.escrita \in FilaPagina(D)
    /\ q.pc = "sincronizar" => \A s \in D : q.estado[s] = "desactualizada" => q.hallada[s] \in Paginas

PidenPagina(D, I) == {q \in PidePagina(D, I) : SabePagina(D, q)}

\* A slug is of one page.
SitioUnicos ==
    \A i, j \in Paginas : (pagina[i] # Nada /\ pagina[j] # Nada /\ pagina[i].slug = pagina[j].slug) => i = j

SitioInv(P, D, I, V, N) ==
    /\ pagina \in [Paginas -> FilaPagina(D) \cup {Nada}] /\ SitioUnicos
    /\ lang \in I
    /\ cache \in [D \cup OtrosSlugs -> Mostradas \cup {Nada}]
    /\ visita \in [V -> [slug: D \cup OtrosSlugs \cup {Nada}, respuesta: Mostradas \cup {Nada}]]
    /\ peticion \in [P -> PidenPagina(D, I)]
    /\ operaciones \in 0..N

----------------------------------------
(* ... are kept by every step *)

\* The constants of the pages.
LEMMA SitioConstants ==
    ASSUME NEW P, NEW D, NEW I, NEW V, NEW N, Sitio(P, D, I, V, N)!PagesAssumption
    PROVE  /\ N \in Nat /\ DeFabrica \in Enviados /\ Enviados \cap Propios = {}
           /\ Nada \notin Paginas /\ Nada \notin D \cup OtrosSlugs /\ Nada \notin FilaPagina(D)
           /\ Sitio(P, D, I, V, N)!Slugs = D \cup OtrosSlugs
           /\ Sitio(P, D, I, V, N)!Pagina = FilaPagina(D)
           /\ Sitio(P, D, I, V, N)!Servidas = Mostradas
           /\ Sitio(P, D, I, V, N)!Peticion = PidePagina(D, I)
           /\ \A l : Sitio(P, D, I, V, N)!paginas_predeterminadas(l) \in Enviados
<1>1. /\ Sitio(P, D, I, V, N)!Slugs = D \cup OtrosSlugs
      /\ Sitio(P, D, I, V, N)!Textos = Propios \cup Enviados
  BY DEF Sitio!Slugs, Sitio!Textos
<1>2. Sitio(P, D, I, V, N)!Pagina = FilaPagina(D)
  BY <1>1 DEF Sitio!Pagina, FilaPagina
<1>3. Sitio(P, D, I, V, N)!Servidas = Mostradas
  BY <1>1 DEF Sitio!Servidas, Mostradas
<1>4. Sitio(P, D, I, V, N)!Peticion = PidePagina(D, I)
  <2>1. {"crear", "editar", "alternar", "borrar", "sincronizar", "idioma"} \cup {""}
        = {"", "crear", "editar", "alternar", "borrar", "sincronizar", "idioma"}
    OBVIOUS
  <2> QED BY <1>1, <1>2, <2>1 DEF Sitio!Peticion, PidePagina
<1>5. /\ N \in Nat /\ DeFabrica \in Enviados /\ Enviados \cap Propios = {}
      /\ Nada \notin Paginas \cup Sitio(P, D, I, V, N)!Slugs
      /\ Nada \notin Sitio(P, D, I, V, N)!Pagina
  BY DEF Sitio!PagesAssumption
<1>6. \A l : Sitio(P, D, I, V, N)!paginas_predeterminadas(l) \in Enviados
  BY <1>5 DEF Sitio!paginas_predeterminadas
<1> QED BY <1>1, <1>2, <1>3, <1>4, <1>5, <1>6

\* A request that has not begun is one.
LEMMA SitioLibre ==
    ASSUME NEW P, NEW D, NEW I, NEW V, NEW N
    PROVE  /\ Sitio(P, D, I, V, N)!Libre \in PidenPagina(D, I)
           /\ Sitio(P, D, I, V, N)!Libre \in PidePagina(D, I)
           /\ Sitio(P, D, I, V, N)!Libre.pc = "idle"
<1>1. PICK h \in [D -> Paginas \cup {Nada}], z \in [D -> {"faltante", "al-dia", "desactualizada", "personalizada"}] :
        h = [s \in D |-> Nada] /\ z = [s \in D |-> "faltante"]
  OBVIOUS
<1>2. PICK q : q = [pc |-> "idle", hace |-> "", id |-> Nada, leida |-> Nada, escrita |-> Nada, slugs |-> {},
                    idioma |-> Nada, hallada |-> h, estado |-> z]
  OBVIOUS
<1>3. q \in PidePagina(D, I) /\ q.pc = "idle"
  BY <1>2 DEF PidePagina
<1>4. q = Sitio(P, D, I, V, N)!Libre
  BY <1>1, <1>2 DEF Sitio!Libre
<1> QED BY <1>3, <1>4 DEF PidenPagina, SabePagina

\* The default pages at first.
LEMMA SitioEmpieza ==
    ASSUME NEW P, NEW D, NEW I, NEW V, NEW N, Sitio(P, D, I, V, N)!PagesAssumption,
           Sitio(P, D, I, V, N)!Init
    PROVE  SitioInv(P, D, I, V, N)
<1>1. PICK g \in [D -> Paginas] :
        /\ \A s, t \in D : g[s] = g[t] => s = t
        /\ pagina = [x \in Paginas |->
              IF \E s \in D : g[s] = x
              THEN [slug |-> CHOOSE s \in D : g[s] = x,
                    texto |-> Sitio(P, D, I, V, N)!paginas_predeterminadas(lang), is_active |-> TRUE]
              ELSE Nada]
  BY DEF Sitio!Init
<1>2. PICK t \in Enviados : t = Sitio(P, D, I, V, N)!paginas_predeterminadas(lang)
  BY SitioConstants
<1>3. ASSUME NEW x \in Paginas
      PROVE  /\ pagina[x] \in FilaPagina(D) \cup {Nada}
             /\ pagina[x] # Nada => g[pagina[x].slug] = x
  <2>1. CASE \E s \in D : g[s] = x
    <3>1. PICK s : s = CHOOSE y \in D : g[y] = x
      OBVIOUS
    <3>2. s \in D /\ g[s] = x
      BY <2>1, <3>1
    <3>3. PICK w : w = [slug |-> s, texto |-> t, is_active |-> TRUE]
      OBVIOUS
    <3>4. pagina[x] = w
      BY <1>1, <1>2, <2>1, <3>1, <3>3
    <3>5. w \in FilaPagina(D) /\ w.slug = s
      BY <1>2, <3>2, <3>3 DEF FilaPagina
    <3> QED BY <3>2, <3>4, <3>5
  <2>2. CASE ~\E s \in D : g[s] = x
    BY <1>1, <2>2
  <2> QED BY <2>1, <2>2
<1>4. pagina \in [Paginas -> FilaPagina(D) \cup {Nada}]
  <2>1. \A x \in Paginas : pagina[x] \in FilaPagina(D) \cup {Nada}
    BY <1>3
  <2>2. pagina = [x \in Paginas |-> pagina[x]]
    BY <1>1
  <2> QED BY <2>1, <2>2
<1>5. SitioUnicos
  <2>1. \A x \in Paginas : pagina[x] # Nada => g[pagina[x].slug] = x
    BY <1>3
  <2> QED BY <2>1 DEF SitioUnicos
<1>6. /\ lang \in I /\ cache = [s \in D \cup OtrosSlugs |-> Nada]
      /\ visita = [v \in V |-> [slug |-> Nada, respuesta |-> Nada]]
      /\ peticion = [p \in P |-> Sitio(P, D, I, V, N)!Libre] /\ operaciones = 0
  BY SitioConstants DEF Sitio!Init
<1>7. peticion \in [P -> PidenPagina(D, I)]
  BY <1>6, SitioLibre
<1> QED BY <1>4, <1>5, <1>6, <1>7, SitioConstants DEF SitioInv

\* A request that begins.
LEMMA SitioEmpezar ==
    ASSUME NEW P, NEW D, NEW I, NEW V, NEW N, Sitio(P, D, I, V, N)!PagesAssumption,
           SitioInv(P, D, I, V, N), NEW p \in P, NEW a, Sitio(P, D, I, V, N)!Empezar(p, a),
           NEW f \in PidenPagina(D, I), peticion' = [peticion EXCEPT ![p] = f]
    PROVE  SitioInv(P, D, I, V, N)'
<1>1. /\ UNCHANGED <<pagina, lang, cache, visita>> /\ operaciones < N /\ operaciones' = operaciones + 1
  BY DEF Sitio!Empezar
<1>2. peticion' \in [P -> PidenPagina(D, I)]
  BY DEF SitioInv
<1>3. operaciones' \in 0..N
  BY <1>1, SitioConstants DEF SitioInv
<1>4. SitioUnicos'
  BY <1>1 DEF SitioInv, SitioUnicos
<1> QED BY <1>1, <1>2, <1>3, <1>4 DEF SitioInv

\* The four requests of an administrator begin.
SitioPide(P, D, I, V, N, p) ==
    \/ Sitio(P, D, I, V, N)!create_page(p) \/ Sitio(P, D, I, V, N)!edit_page(p)
    \/ Sitio(P, D, I, V, N)!toggle_page(p) \/ Sitio(P, D, I, V, N)!delete_page(p)

\* Their types stay, and no synchronisation begins.
LEMMA SitioPiden ==
    ASSUME NEW P, NEW D, NEW I, NEW V, NEW N, Sitio(P, D, I, V, N)!PagesAssumption,
           SitioInv(P, D, I, V, N), NEW p \in P, SitioPide(P, D, I, V, N, p)
    PROVE  /\ SitioInv(P, D, I, V, N)'
           /\ \E f : peticion' = [peticion EXCEPT ![p] = f] /\ f.pc # "sincronizar"
<1>0. /\ pagina \in [Paginas -> FilaPagina(D) \cup {Nada}]
      /\ Sitio(P, D, I, V, N)!Slugs = D \cup OtrosSlugs
  BY SitioConstants DEF SitioInv
<1>1. CASE Sitio(P, D, I, V, N)!create_page(p)
  <2>1. PICK i \in Paginas \ Sitio(P, D, I, V, N)!Existentes, s \in Sitio(P, D, I, V, N)!Slugs,
             t \in Propios, a \in BOOLEAN :
          /\ Sitio(P, D, I, V, N)!_validate_slug_unique(s, Nada)
          /\ peticion' = [peticion EXCEPT ![p] =
                [[Sitio(P, D, I, V, N)!Libre EXCEPT !.id = i, !.slugs = {s},
                    !.escrita = [slug |-> s, texto |-> t, is_active |-> a]] EXCEPT !.pc = "escribir", !.hace = "crear"]]
    BY Zenon, <1>1 DEF Sitio!create_page, Sitio!Seguir
  <2>2. PICK w \in FilaPagina(D) : w = [slug |-> s, texto |-> t, is_active |-> a]
    BY <1>0 DEF FilaPagina
  <2>3. PICK f : f = [[Sitio(P, D, I, V, N)!Libre EXCEPT !.id = i, !.slugs = {s}, !.escrita = w]
                        EXCEPT !.pc = "escribir", !.hace = "crear"]
    OBVIOUS
  <2>4. PICK q \in PidePagina(D, I) : q = Sitio(P, D, I, V, N)!Libre
    BY SitioLibre
  <2>5. f \in PidePagina(D, I) /\ f.pc = "escribir" /\ f.id = i /\ f.escrita = w
    <3>1. {s} \subseteq D \cup OtrosSlugs
      BY <1>0
    <3> QED BY <2>3, <2>4, <3>1 DEF PidePagina
  <2>6. f \in PidenPagina(D, I)
    BY <2>5 DEF PidenPagina, SabePagina
  <2>7. peticion' = [peticion EXCEPT ![p] = f]
    BY <2>1, <2>2, <2>3
  <2>8. Sitio(P, D, I, V, N)!Empezar(p, "crear")
    BY <1>1 DEF Sitio!create_page
  <2> QED BY <2>5, <2>6, <2>7, <2>8, SitioEmpezar
<1>2. PICK q \in PidePagina(D, I) : q = Sitio(P, D, I, V, N)!Libre
  BY SitioLibre
<1>3. CASE Sitio(P, D, I, V, N)!edit_page(p)
  <2>1. PICK i \in Sitio(P, D, I, V, N)!Existentes, s \in Sitio(P, D, I, V, N)!Slugs,
             t \in Propios, a \in BOOLEAN :
          /\ s # pagina[i].slug => Sitio(P, D, I, V, N)!_validate_slug_unique(s, i)
          /\ peticion' = [peticion EXCEPT ![p] =
                [[Sitio(P, D, I, V, N)!Libre EXCEPT !.id = i, !.leida = pagina[i], !.slugs = {pagina[i].slug, s},
                    !.escrita = [slug |-> s, texto |-> t, is_active |-> a]] EXCEPT !.pc = "escribir", !.hace = "editar"]]
    BY Zenon, <1>3 DEF Sitio!edit_page, Sitio!Seguir
  <2>2. PICK e \in FilaPagina(D) : e = [slug |-> s, texto |-> t, is_active |-> a]
    BY <1>0 DEF FilaPagina
  <2>3. PICK w \in FilaPagina(D) : i \in Paginas /\ w = pagina[i]
    BY <1>0 DEF Sitio!Existentes
  <2>4. PICK z : z = {w.slug, s} /\ z \subseteq D \cup OtrosSlugs
    <3>1. w.slug \in D \cup OtrosSlugs
      BY <2>3 DEF FilaPagina
    <3>2. s \in D \cup OtrosSlugs
      BY <1>0
    <3> QED BY <3>1, <3>2
  <2>5. PICK f : f = [[Sitio(P, D, I, V, N)!Libre EXCEPT !.id = i, !.leida = w, !.slugs = z, !.escrita = e]
                        EXCEPT !.pc = "escribir", !.hace = "editar"]
    OBVIOUS
  <2>6. f \in PidePagina(D, I) /\ f.pc = "escribir" /\ f.id = i /\ f.escrita = e
    BY <1>2, <2>3, <2>4, <2>5 DEF PidePagina
  <2>7. peticion' = [peticion EXCEPT ![p] = f]
    BY <2>1, <2>2, <2>3, <2>4, <2>5
  <2>8. Sitio(P, D, I, V, N)!Empezar(p, "editar")
    BY <1>3 DEF Sitio!edit_page
  <2>9. f \in PidenPagina(D, I)
    BY <2>2, <2>3, <2>6 DEF PidenPagina, SabePagina
  <2> QED BY <2>6, <2>7, <2>8, <2>9, SitioEmpezar
<1>4. CASE Sitio(P, D, I, V, N)!toggle_page(p)
  <2>1. PICK i \in Paginas :
          /\ pagina[i] # Nada
          /\ peticion' = [peticion EXCEPT ![p] =
                [[Sitio(P, D, I, V, N)!Libre EXCEPT !.id = i, !.leida = pagina[i], !.slugs = {pagina[i].slug},
                    !.escrita = [pagina[i] EXCEPT !.is_active = ~@]] EXCEPT !.pc = "escribir", !.hace = "alternar"]]
    BY <1>4 DEF Sitio!toggle_page, Sitio!Seguir, Sitio!Existentes
  <2>2. PICK w \in FilaPagina(D) : w = pagina[i]
    BY <1>0, <2>1
  <2>3. PICK e : e = [w EXCEPT !.is_active = ~@]
    OBVIOUS
  <2>4. e \in FilaPagina(D)
    BY <2>3 DEF FilaPagina
  <2>5. PICK z : z = {w.slug} /\ z \subseteq D \cup OtrosSlugs
    BY DEF FilaPagina
  <2>6. PICK f : f = [[Sitio(P, D, I, V, N)!Libre EXCEPT !.id = i, !.leida = w, !.slugs = z, !.escrita = e]
                        EXCEPT !.pc = "escribir", !.hace = "alternar"]
    OBVIOUS
  <2>7. f \in PidePagina(D, I) /\ f.pc = "escribir" /\ f.id = i /\ f.escrita = e
    BY <1>2, <2>4, <2>5, <2>6 DEF PidePagina
  <2>8. peticion' = [peticion EXCEPT ![p] = f]
    BY <2>1, <2>2, <2>3, <2>5, <2>6
  <2>9. Sitio(P, D, I, V, N)!Empezar(p, "alternar")
    BY <1>4 DEF Sitio!toggle_page
  <2>10. f \in PidenPagina(D, I)
    BY <2>4, <2>7 DEF PidenPagina, SabePagina
  <2> QED BY <2>7, <2>8, <2>9, <2>10, SitioEmpezar
<1>5. CASE Sitio(P, D, I, V, N)!delete_page(p)
  <2>1. PICK i \in Paginas :
          /\ pagina[i] # Nada
          /\ peticion' = [peticion EXCEPT ![p] =
                [[Sitio(P, D, I, V, N)!Libre EXCEPT !.id = i, !.leida = pagina[i], !.slugs = {pagina[i].slug}]
                    EXCEPT !.pc = "invalidar", !.hace = "borrar"]]
    BY <1>5 DEF Sitio!delete_page, Sitio!Seguir, Sitio!Existentes
  <2>2. PICK w \in FilaPagina(D) : w = pagina[i]
    BY <1>0, <2>1
  <2>3. PICK z : z = {w.slug} /\ z \subseteq D \cup OtrosSlugs
    BY DEF FilaPagina
  <2>4. PICK f : f = [[Sitio(P, D, I, V, N)!Libre EXCEPT !.id = i, !.leida = w, !.slugs = z]
                        EXCEPT !.pc = "invalidar", !.hace = "borrar"]
    OBVIOUS
  <2>5. f \in PidePagina(D, I) /\ f.pc = "invalidar"
    BY <1>2, <2>3, <2>4 DEF PidePagina
  <2>6. peticion' = [peticion EXCEPT ![p] = f]
    BY <2>1, <2>2, <2>3, <2>4
  <2>7. Sitio(P, D, I, V, N)!Empezar(p, "borrar")
    BY <1>5 DEF Sitio!delete_page
  <2>8. f \in PidenPagina(D, I)
    BY <2>5 DEF PidenPagina, SabePagina
  <2> QED BY <2>5, <2>6, <2>7, <2>8, SitioEmpezar
<1> QED BY <1>1, <1>3, <1>4, <1>5 DEF SitioPide

\* A row of a page changes, or leaves, or the rows are as they were; the request goes on.
LEMMA SitioPaso ==
    ASSUME NEW P, NEW D, NEW I, NEW V, NEW N, SitioInv(P, D, I, V, N), NEW p \in P,
           NEW f \in PidenPagina(D, I), peticion' = [peticion EXCEPT ![p] = f],
           pagina' \in [Paginas -> FilaPagina(D) \cup {Nada}], SitioUnicos',
           cache' \in [D \cup OtrosSlugs -> Mostradas \cup {Nada}], UNCHANGED <<lang, visita, operaciones>>
    PROVE  SitioInv(P, D, I, V, N)'
<1>1. peticion' \in [P -> PidenPagina(D, I)]
  BY DEF SitioInv
<1> QED BY <1>1 DEF SitioInv

\* A request that goes on to something that asks for no row.
LEMMA SitioPasa ==
    ASSUME NEW D, NEW I, NEW q \in PidenPagina(D, I), NEW z \in {"invalidar", "borrar", "vaciar", "hecho"},
           NEW f, f = [q EXCEPT !.pc = z]
    PROVE  f \in PidenPagina(D, I) /\ f.pc = z
<1>1. f \in PidePagina(D, I) /\ f.pc = z
  BY DEF PidePagina, PidenPagina
<1> QED BY <1>1 DEF PidenPagina, SabePagina

\* The columns that a request changed.
LEMMA SitioEscrita ==
    ASSUME NEW P, NEW D, NEW I, NEW V, NEW N, SitioInv(P, D, I, V, N), NEW p \in P,
           NEW v \in FilaPagina(D), pagina[peticion[p].id] = v, peticion[p].pc = "escribir"
    PROVE  Sitio(P, D, I, V, N)!Escrita(p) \in FilaPagina(D)
<1>1. PICK q : q = peticion[p] /\ q \in PidenPagina(D, I)
  BY DEF SitioInv
<1>2. PICK e \in FilaPagina(D) : e = q.escrita
  BY <1>1 DEF PidenPagina, SabePagina
<1>3. PICK n : n = [c \in {"slug", "texto", "is_active"} |->
                      IF q.leida # Nada /\ q.leida[c] = q.escrita[c] THEN pagina[q.id][c] ELSE q.escrita[c]]
  OBVIOUS
<1>4. Sitio(P, D, I, V, N)!Escrita(p) = [slug |-> n["slug"], texto |-> n["texto"], is_active |-> n["is_active"]]
  BY <1>1, <1>3 DEF Sitio!Escrita
<1>5. /\ n["slug"] \in {v["slug"], e["slug"]} /\ n["texto"] \in {v["texto"], e["texto"]}
      /\ n["is_active"] \in {v["is_active"], e["is_active"]}
  BY <1>1, <1>2, <1>3
<1>6. /\ v["slug"] \in D \cup OtrosSlugs /\ e["slug"] \in D \cup OtrosSlugs
      /\ v["texto"] \in Propios \cup Enviados /\ e["texto"] \in Propios \cup Enviados
      /\ v["is_active"] \in BOOLEAN /\ e["is_active"] \in BOOLEAN
  BY <1>2 DEF FilaPagina
<1>7. n["slug"] \in D \cup OtrosSlugs
  BY <1>5, <1>6
<1>8. n["texto"] \in Propios \cup Enviados
  BY <1>5, <1>6
<1>9. n["is_active"] \in BOOLEAN
  BY <1>5, <1>6
<1> QED BY <1>4, <1>7, <1>8, <1>9 DEF FilaPagina

\* A page is written.
LEMMA SitioEscribe ==
    ASSUME NEW P, NEW D, NEW I, NEW V, NEW N, Sitio(P, D, I, V, N)!PagesAssumption,
           SitioInv(P, D, I, V, N), NEW p \in P, Sitio(P, D, I, V, N)!Escribir(p)
    PROVE  /\ SitioInv(P, D, I, V, N)'
           /\ \E f : peticion' = [peticion EXCEPT ![p] = f] /\ f.pc # "sincronizar"
<1>1. PICK q \in PidenPagina(D, I) : q = peticion[p]
  BY DEF SitioInv
<1>2. /\ q.pc = "escribir" /\ q.id \in Paginas /\ q.escrita \in FilaPagina(D)
      /\ UNCHANGED <<lang, cache, visita, operaciones>>
      /\ pagina \in [Paginas -> FilaPagina(D) \cup {Nada}] /\ SitioUnicos
      /\ cache' \in [D \cup OtrosSlugs -> Mostradas \cup {Nada}]
  BY <1>1 DEF Sitio!Escribir, PidenPagina, SabePagina, SitioInv
<1>3. ASSUME NEW w \in FilaPagina(D), Sitio(P, D, I, V, N)!SlugLibre(q.id, w.slug),
             pagina' = [pagina EXCEPT ![q.id] = w],
             peticion' = [peticion EXCEPT ![p].pc = "invalidar"]
      PROVE  /\ SitioInv(P, D, I, V, N)'
             /\ \E f : peticion' = [peticion EXCEPT ![p] = f] /\ f.pc # "sincronizar"
  <2>1. PICK f : f = [q EXCEPT !.pc = "invalidar"]
    OBVIOUS
  <2>2. f \in PidenPagina(D, I) /\ f.pc = "invalidar"
    BY <2>1, SitioPasa
  <2>3. peticion' = [peticion EXCEPT ![p] = f]
    BY <1>1, <1>3, <2>1
  <2>4. pagina' \in [Paginas -> FilaPagina(D) \cup {Nada}]
    BY <1>2, <1>3
  <2>5. SitioUnicos'
    <3>1. \A j \in Paginas : j # q.id /\ pagina[j] # Nada => pagina[j].slug # w.slug
      BY <1>3 DEF Sitio!SlugLibre, Sitio!Existentes
    <3>2. pagina'[q.id] = w /\ \A j \in Paginas : j # q.id => pagina'[j] = pagina[j]
      BY <1>2, <1>3
    <3> QED BY <1>2, <3>1, <3>2 DEF SitioUnicos
  <2> QED BY <1>2, <2>2, <2>3, <2>4, <2>5, SitioPaso
<1>4. ASSUME pagina' = pagina, peticion' = [peticion EXCEPT ![p].pc = "hecho"]
      PROVE  /\ SitioInv(P, D, I, V, N)'
             /\ \E f : peticion' = [peticion EXCEPT ![p] = f] /\ f.pc # "sincronizar"
  <2>1. PICK f : f = [q EXCEPT !.pc = "hecho"]
    OBVIOUS
  <2>2. f \in PidenPagina(D, I) /\ f.pc = "hecho"
    BY <2>1, SitioPasa
  <2>3. peticion' = [peticion EXCEPT ![p] = f]
    BY <1>1, <1>4, <2>1
  <2>4. pagina' \in [Paginas -> FilaPagina(D) \cup {Nada}] /\ SitioUnicos'
    BY <1>2, <1>4 DEF SitioUnicos
  <2> QED BY <1>2, <2>2, <2>3, <2>4, SitioPaso
<1>5. CASE q.leida = Nada
  <2>1. PICK puede \in BOOLEAN : puede <=> (pagina[q.id] = Nada /\ Sitio(P, D, I, V, N)!SlugLibre(q.id, q.escrita.slug))
    OBVIOUS
  <2>2. /\ puede => /\ pagina' = [pagina EXCEPT ![q.id] = q.escrita]
                    /\ peticion' = [peticion EXCEPT ![p].pc = "invalidar"]
        /\ ~puede => pagina' = pagina /\ peticion' = [peticion EXCEPT ![p].pc = "hecho"]
    BY <1>1, <1>5, <2>1 DEF Sitio!Escribir
  <2> QED BY <1>2, <1>3, <1>4, <2>1, <2>2
<1>6. CASE q.leida # Nada
  <2>1. PICK w : w = Sitio(P, D, I, V, N)!Escrita(p)
    OBVIOUS
  <2>2. PICK puede \in BOOLEAN : puede <=> (pagina[q.id] # Nada /\ Sitio(P, D, I, V, N)!SlugLibre(q.id, w.slug))
    OBVIOUS
  <2>3. /\ puede => /\ pagina' = [pagina EXCEPT ![q.id] = w]
                    /\ peticion' = [peticion EXCEPT ![p].pc = "invalidar"]
        /\ ~puede => pagina' = pagina /\ peticion' = [peticion EXCEPT ![p].pc = "hecho"]
    BY <1>1, <1>6, <2>1, <2>2 DEF Sitio!Escribir
  <2>4. CASE puede
    <3>1. PICK v \in FilaPagina(D) : pagina[peticion[p].id] = v
      BY <1>1, <1>2, <2>2, <2>4
    <3>2. w \in FilaPagina(D)
      BY <1>1, <1>2, <2>1, <3>1, SitioEscrita
    <3> QED BY <1>3, <2>2, <2>3, <2>4, <3>2
  <2>5. CASE ~puede
    BY <1>4, <2>3, <2>5
  <2> QED BY <2>4, <2>5
<1> QED BY <1>5, <1>6

\* What is cached is dropped, or the page is deleted.
SitioBorra(P, D, I, V, N, p) ==
    \/ Sitio(P, D, I, V, N)!Invalidar(p) \/ Sitio(P, D, I, V, N)!Borrar(p) \/ Sitio(P, D, I, V, N)!Vaciar(p)

\* Their types stay, and no synchronisation begins.
LEMMA SitioBorran ==
    ASSUME NEW P, NEW D, NEW I, NEW V, NEW N, Sitio(P, D, I, V, N)!PagesAssumption,
           SitioInv(P, D, I, V, N), NEW p \in P, SitioBorra(P, D, I, V, N, p)
    PROVE  /\ SitioInv(P, D, I, V, N)'
           /\ \E f : peticion' = [peticion EXCEPT ![p] = f] /\ f.pc # "sincronizar"
<1>1. PICK q \in PidenPagina(D, I) : q = peticion[p]
  BY DEF SitioInv
<1>2. PICK z \in {"borrar", "hecho"} : peticion' = [peticion EXCEPT ![p].pc = z]
  BY DEF SitioBorra, Sitio!Invalidar, Sitio!Borrar, Sitio!Vaciar
<1>3. PICK f : f = [q EXCEPT !.pc = z]
  OBVIOUS
<1>4. f \in PidenPagina(D, I) /\ f.pc = z
  BY <1>3, SitioPasa
<1>5. peticion' = [peticion EXCEPT ![p] = f]
  BY <1>1, <1>2, <1>3
<1>6. /\ pagina \in [Paginas -> FilaPagina(D) \cup {Nada}] /\ SitioUnicos
      /\ cache \in [D \cup OtrosSlugs -> Mostradas \cup {Nada}]
      /\ Sitio(P, D, I, V, N)!Slugs = D \cup OtrosSlugs
  BY SitioConstants DEF SitioInv
<1>7. UNCHANGED <<lang, visita, operaciones>>
  BY DEF SitioBorra, Sitio!Invalidar, Sitio!Borrar, Sitio!Vaciar
<1>8. cache' \in [D \cup OtrosSlugs -> Mostradas \cup {Nada}]
  BY <1>6 DEF SitioBorra, Sitio!Invalidar, Sitio!Borrar, Sitio!Vaciar
<1>9. \A i \in Paginas : pagina'[i] = pagina[i] \/ pagina'[i] = Nada
  BY <1>6 DEF SitioBorra, Sitio!Invalidar, Sitio!Borrar, Sitio!Vaciar
<1>10. pagina' \in [Paginas -> FilaPagina(D) \cup {Nada}]
  BY <1>6 DEF SitioBorra, Sitio!Invalidar, Sitio!Borrar, Sitio!Vaciar
<1>11. SitioUnicos'
  BY <1>6, <1>9 DEF SitioUnicos
<1> QED BY <1>4, <1>5, <1>7, <1>8, <1>10, <1>11, SitioPaso

\* A visitor reads, an answer is kept or expires, the language changes.
SitioMira(P, D, I, V, N) ==
    \/ \E l \in I : Sitio(P, D, I, V, N)!CambiarIdioma(l)
    \/ \E v \in V, s \in Sitio(P, D, I, V, N)!Slugs : Sitio(P, D, I, V, N)!view_page(v, s)
    \/ \E v \in V : Sitio(P, D, I, V, N)!Guardar(v)
    \/ \E s \in Sitio(P, D, I, V, N)!Slugs : Sitio(P, D, I, V, N)!Expirar(s)

\* Their types stay, and so do pages and requests.
LEMMA SitioMiran ==
    ASSUME NEW P, NEW D, NEW I, NEW V, NEW N, Sitio(P, D, I, V, N)!PagesAssumption,
           SitioInv(P, D, I, V, N), SitioMira(P, D, I, V, N)
    PROVE  SitioInv(P, D, I, V, N)' /\ UNCHANGED <<pagina, peticion>>
<1>0. /\ pagina \in [Paginas -> FilaPagina(D) \cup {Nada}] /\ SitioUnicos
      /\ cache \in [D \cup OtrosSlugs -> Mostradas \cup {Nada}] /\ lang \in I
      /\ visita \in [V -> [slug: D \cup OtrosSlugs \cup {Nada}, respuesta: Mostradas \cup {Nada}]]
      /\ peticion \in [P -> PidenPagina(D, I)] /\ operaciones \in 0..N /\ N \in Nat
      /\ Sitio(P, D, I, V, N)!Slugs = D \cup OtrosSlugs
  BY SitioConstants DEF SitioInv
<1>1. UNCHANGED <<pagina, peticion>>
  BY DEF SitioMira, Sitio!CambiarIdioma, Sitio!view_page, Sitio!Guardar, Sitio!Expirar
<1>2. SitioUnicos'
  BY <1>0, <1>1 DEF SitioUnicos
<1>3. ASSUME NEW l \in I, Sitio(P, D, I, V, N)!CambiarIdioma(l) PROVE SitioInv(P, D, I, V, N)'
  <2>1. lang' = l /\ operaciones' \in 0..N /\ UNCHANGED <<cache, visita>>
    BY <1>0, <1>3 DEF Sitio!CambiarIdioma
  <2> QED BY <1>0, <1>1, <1>2, <2>1 DEF SitioInv
<1>4. ASSUME NEW v \in V, NEW s \in D \cup OtrosSlugs, Sitio(P, D, I, V, N)!view_page(v, s)
      PROVE  SitioInv(P, D, I, V, N)'
  <2>1. PICK r : r = Sitio(P, D, I, V, N)!Render(s)
    OBVIOUS
  <2>2. r \in Mostradas
    <3>1. CASE \E i \in Sitio(P, D, I, V, N)!ConSlug(s) : pagina[i].is_active
      <4>1. PICK i : i = CHOOSE j \in Sitio(P, D, I, V, N)!Existentes : pagina[j].slug = s
        OBVIOUS
      <4>2. i \in Sitio(P, D, I, V, N)!Existentes
        BY <3>1, <4>1 DEF Sitio!ConSlug
      <4>3. pagina[i] \in FilaPagina(D)
        BY <1>0, <4>2 DEF Sitio!Existentes
      <4>4. r = pagina[i].texto
        BY <2>1, <3>1, <4>1 DEF Sitio!Render
      <4> QED BY <4>3, <4>4 DEF FilaPagina, Mostradas
    <3>2. CASE ~\E i \in Sitio(P, D, I, V, N)!ConSlug(s) : pagina[i].is_active
      <4>1. r = "redirect"
        BY <2>1, <3>2 DEF Sitio!Render
      <4> QED BY <4>1 DEF Mostradas
    <3> QED BY <3>1, <3>2
  <2>3. visita' = [visita EXCEPT ![v] = [slug |-> s, respuesta |-> r]] /\ UNCHANGED <<lang, cache, operaciones>>
    BY <1>4, <2>1 DEF Sitio!view_page
  <2>4. visita' \in [V -> [slug: D \cup OtrosSlugs \cup {Nada}, respuesta: Mostradas \cup {Nada}]]
    BY <1>0, <2>2, <2>3
  <2> QED BY <1>0, <1>1, <1>2, <2>3, <2>4 DEF SitioInv
<1>5. ASSUME NEW v \in V, Sitio(P, D, I, V, N)!Guardar(v) PROVE SitioInv(P, D, I, V, N)'
  <2>1. /\ visita[v].slug # Nada /\ UNCHANGED <<lang, operaciones>>
        /\ cache' = [cache EXCEPT ![visita[v].slug] = visita[v].respuesta]
        /\ visita' = [visita EXCEPT ![v] = [slug |-> Nada, respuesta |-> Nada]]
    BY <1>5 DEF Sitio!Guardar
  <2>2. visita[v].respuesta \in Mostradas \cup {Nada}
    BY <1>0
  <2>3. cache' \in [D \cup OtrosSlugs -> Mostradas \cup {Nada}]
    BY <1>0, <2>1, <2>2
  <2>4. visita' \in [V -> [slug: D \cup OtrosSlugs \cup {Nada}, respuesta: Mostradas \cup {Nada}]]
    BY <1>0, <2>1
  <2> QED BY <1>0, <1>1, <1>2, <2>1, <2>3, <2>4 DEF SitioInv
<1>6. ASSUME NEW s \in D \cup OtrosSlugs, Sitio(P, D, I, V, N)!Expirar(s) PROVE SitioInv(P, D, I, V, N)'
  <2>1. cache' = [cache EXCEPT ![s] = Nada] /\ UNCHANGED <<lang, visita, operaciones>>
    BY <1>6 DEF Sitio!Expirar
  <2>2. cache' \in [D \cup OtrosSlugs -> Mostradas \cup {Nada}]
    BY <1>0, <2>1
  <2> QED BY <1>0, <1>1, <1>2, <2>1, <2>2 DEF SitioInv
<1> QED BY <1>0, <1>1, <1>3, <1>4, <1>5, <1>6 DEF SitioMira

\* The text of the default pages of a language.
TextoDe(l) == IF l \in Enviados THEN l ELSE DeFabrica

\* No page has a slug; a page was found to be as it is.
SinPagina(s) == \A i \in Paginas : pagina[i] # Nada => pagina[i].slug # s
Hallada(q, s) ==
    LET i == q.hallada[s] IN
    /\ i \in Paginas /\ pagina[i] # Nada /\ pagina[i].slug = s
    /\ \/ q.estado[s] = "al-dia" /\ pagina[i].texto = TextoDe(q.idioma)
       \/ q.estado[s] = "desactualizada" /\ pagina[i].texto \in Enviados
       \/ q.estado[s] = "personalizada" /\ pagina[i].texto \notin Enviados

\* The synchronisation knows the pages as they are.
SitioSabe(D, q) ==
    \A s \in D : (q.estado[s] = "faltante" /\ SinPagina(s)) \/ Hallada(q, s)

\* The synchronisation reads the default pages.
LEMMA SitioLee ==
    ASSUME NEW P, NEW D, NEW I, NEW V, NEW N, Sitio(P, D, I, V, N)!PagesAssumption,
           SitioInv(P, D, I, V, N), NEW p \in P,
           Sitio(P, D, I, V, N)!sincronizar_paginas_predeterminadas(p)
    PROVE  /\ SitioInv(P, D, I, V, N)' /\ UNCHANGED pagina
           /\ \E f : peticion' = [peticion EXCEPT ![p] = f] /\ SitioSabe(D, f)
<1>0. /\ pagina \in [Paginas -> FilaPagina(D) \cup {Nada}] /\ lang \in I /\ Nada \notin Paginas
      /\ \A t : Sitio(P, D, I, V, N)!paginas_predeterminadas(t) = TextoDe(t)
  BY SitioConstants DEF SitioInv, Sitio!paginas_predeterminadas, TextoDe
<1>1. PICK h : h = [s \in D |-> IF Sitio(P, D, I, V, N)!ConSlug(s) = {} THEN Nada
                                ELSE CHOOSE i \in Sitio(P, D, I, V, N)!Existentes : pagina[i].slug = s]
  OBVIOUS
<1>2. PICK z : z = [s \in D |-> IF h[s] = Nada THEN "faltante"
                                ELSE Sitio(P, D, I, V, N)!Estado(pagina[h[s]].texto, lang)]
  OBVIOUS
<1>3. peticion' = [peticion EXCEPT ![p] =
          [[Sitio(P, D, I, V, N)!Libre EXCEPT !.idioma = lang, !.hallada = h, !.estado = z]
             EXCEPT !.pc = "sincronizar", !.hace = "sincronizar"]]
  BY <1>1, <1>2 DEF Sitio!sincronizar_paginas_predeterminadas, Sitio!Seguir
<1>4. PICK q \in PidePagina(D, I) : q = Sitio(P, D, I, V, N)!Libre
  BY SitioLibre
<1>5. PICK f : f = [[q EXCEPT !.idioma = lang, !.hallada = h, !.estado = z]
                      EXCEPT !.pc = "sincronizar", !.hace = "sincronizar"]
  OBVIOUS
<1>6. peticion' = [peticion EXCEPT ![p] = f]
  BY <1>3, <1>4, <1>5
<1>7. ASSUME NEW s \in D
      PROVE  \/ h[s] = Nada /\ z[s] = "faltante" /\ SinPagina(s)
             \/ /\ h[s] \in Paginas /\ pagina[h[s]] # Nada /\ pagina[h[s]].slug = s
                /\ \/ z[s] = "al-dia" /\ pagina[h[s]].texto = TextoDe(lang)
                   \/ z[s] = "desactualizada" /\ pagina[h[s]].texto \in Enviados
                   \/ z[s] = "personalizada" /\ pagina[h[s]].texto \notin Enviados
  <2>1. CASE Sitio(P, D, I, V, N)!ConSlug(s) = {}
    <3>1. SinPagina(s)
      BY <2>1 DEF SinPagina, Sitio!ConSlug, Sitio!Existentes
    <3>2. h[s] = Nada
      BY <1>1, <2>1
    <3> QED BY <1>2, <3>1, <3>2
  <2>2. CASE Sitio(P, D, I, V, N)!ConSlug(s) # {}
    <3>1. PICK i : i = CHOOSE j \in Sitio(P, D, I, V, N)!Existentes : pagina[j].slug = s
      OBVIOUS
    <3>2. i \in Sitio(P, D, I, V, N)!Existentes /\ pagina[i].slug = s
      BY <2>2, <3>1 DEF Sitio!ConSlug
    <3>3. i \in Paginas /\ pagina[i] # Nada
      BY <3>2 DEF Sitio!Existentes
    <3>4. h[s] = i
      BY <1>1, <2>2, <3>1
    <3>5. z[s] = Sitio(P, D, I, V, N)!Estado(pagina[i].texto, lang)
      BY <1>0, <1>2, <3>3, <3>4
    <3>6. z[s] = (IF pagina[i].texto = TextoDe(lang) THEN "al-dia"
                  ELSE IF pagina[i].texto \in Enviados THEN "desactualizada" ELSE "personalizada")
      BY <1>0, <3>5 DEF Sitio!Estado
    <3> QED BY <3>2, <3>3, <3>4, <3>6
  <2> QED BY <2>1, <2>2
<1>8. h \in [D -> Paginas \cup {Nada}]
  <2>1. \A s \in D : h[s] \in Paginas \cup {Nada}
    BY <1>7
  <2>2. h = [s \in D |-> h[s]]
    BY <1>1
  <2> QED BY <2>1, <2>2
<1>9. z \in [D -> {"faltante", "al-dia", "desactualizada", "personalizada"}]
  <2>1. \A s \in D : z[s] \in {"faltante", "al-dia", "desactualizada", "personalizada"}
    BY <1>7
  <2>2. z = [s \in D |-> z[s]]
    BY <1>2
  <2> QED BY <2>1, <2>2
<1>10. /\ f \in PidePagina(D, I) /\ f.pc = "sincronizar" /\ f.idioma = lang
       /\ f.hallada = h /\ f.estado = z
  BY <1>0, <1>5, <1>8, <1>9 DEF PidePagina
<1>11. f \in PidenPagina(D, I)
  <2>1. \A s \in D : z[s] = "desactualizada" => h[s] \in Paginas
    BY <1>7
  <2> QED BY <1>10, <2>1 DEF PidenPagina, SabePagina
<1>12. SitioSabe(D, f)
  BY <1>7, <1>10 DEF SitioSabe, Hallada
<1>13. Sitio(P, D, I, V, N)!Empezar(p, "sincronizar") /\ UNCHANGED pagina
  BY DEF Sitio!sincronizar_paginas_predeterminadas, Sitio!Empezar
<1>14. SitioInv(P, D, I, V, N)'
  BY <1>6, <1>11, <1>13, SitioEmpezar
<1> QED BY <1>6, <1>12, <1>13, <1>14

\* The pages to correct are there, and those to make are not.
SitioPuede(D, q) ==
    /\ \A s \in D : q.estado[s] = "desactualizada" => pagina[q.hallada[s]] # Nada
    /\ \A s \in D : q.estado[s] = "faltante" => SinPagina(s)

\* What the synchronisation writes: texts of the pages that are there, and the pages
\* that are missing, at the ids of g.
SitioSincroniza(D, q, g) ==
    /\ SitioPuede(D, q)
    /\ \A s \in D : q.estado[s] = "faltante" =>
          /\ g[s] \in Paginas /\ pagina[g[s]] = Nada
          /\ pagina'[g[s]] = [slug |-> s, texto |-> TextoDe(q.idioma), is_active |-> TRUE]
    /\ \A i \in Paginas : pagina[i] # Nada =>
          \/ /\ \E s \in D : q.estado[s] = "desactualizada" /\ q.hallada[s] = i
             /\ pagina'[i] = [pagina[i] EXCEPT !.texto = TextoDe(q.idioma)]
          \/ /\ ~\E s \in D : q.estado[s] = "desactualizada" /\ q.hallada[s] = i
             /\ pagina'[i] = pagina[i]
    /\ \A i \in Paginas : pagina[i] = Nada =>
          pagina'[i] = Nada \/ \E s \in D : q.estado[s] = "faltante" /\ g[s] = i

\* The commit of the synchronisation.
LEMMA SitioCorrige ==
    ASSUME NEW P, NEW D, NEW I, NEW V, NEW N, Sitio(P, D, I, V, N)!PagesAssumption,
           SitioInv(P, D, I, V, N), NEW p \in P, Sitio(P, D, I, V, N)!Sincronizar(p)
    PROVE  /\ peticion[p].pc = "sincronizar" /\ UNCHANGED <<lang, cache, visita, operaciones>>
           /\ pagina' = [i \in Paginas |-> pagina'[i]]
           /\ \E z \in {"vaciar", "hecho"} : peticion' = [peticion EXCEPT ![p].pc = z]
           /\ \/ pagina' = pagina /\ ~SitioPuede(D, peticion[p])
              \/ \E g : SitioSincroniza(D, peticion[p], g)
<1> DEFINE q == peticion[p]
           W == {s \in D : q.estado[s] = "desactualizada"}
           F == {s \in D : q.estado[s] = "faltante"}
           t == Sitio(P, D, I, V, N)!paginas_predeterminadas(q.idioma)
           puede == /\ \A s \in W : pagina[q.hallada[s]] # Nada
                    /\ \A s \in F : Sitio(P, D, I, V, N)!ConSlug(s) = {}
<1>0. /\ t = TextoDe(q.idioma)
      /\ pagina \in [Paginas -> FilaPagina(D) \cup {Nada}]
      /\ \A s : Sitio(P, D, I, V, N)!ConSlug(s) = {} <=> SinPagina(s)
  BY DEF SitioInv, Sitio!paginas_predeterminadas, TextoDe, Sitio!ConSlug, Sitio!Existentes, SinPagina
<1>1. q.pc = "sincronizar" /\ UNCHANGED <<lang, cache, visita, operaciones>>
  BY DEF Sitio!Sincronizar
<1>2. /\ \A s : s \in W <=> (s \in D /\ q.estado[s] = "desactualizada")
      /\ \A s : s \in F <=> (s \in D /\ q.estado[s] = "faltante")
  OBVIOUS
<1>3. puede <=> /\ \A s \in W : pagina[q.hallada[s]] # Nada
                /\ \A s \in F : SinPagina(s)
  BY <1>0
<1>4. puede <=> SitioPuede(D, q)
  BY <1>2, <1>3 DEF SitioPuede
<1>5. PICK g \in {h \in [F -> Paginas \ Sitio(P, D, I, V, N)!Existentes] : \A r, s \in F : h[r] = h[s] => r = s} :
        pagina' = IF ~puede THEN pagina
                  ELSE [i \in Paginas |->
                          IF \E s \in W : q.hallada[s] = i THEN Sitio(P, D, I, V, N)!Corregida(i, t)
                          ELSE IF \E s \in F : g[s] = i
                               THEN [slug |-> CHOOSE s \in F : g[s] = i, texto |-> t, is_active |-> TRUE]
                               ELSE pagina[i]]
  BY Zenon DEF Sitio!Sincronizar
<1>6. \E z \in {"vaciar", "hecho"} : peticion' = [peticion EXCEPT ![p].pc = z]
  BY DEF Sitio!Sincronizar
<1> HIDE DEF q, W, F, t, puede
<1>10. /\ g \in [F -> Paginas \ Sitio(P, D, I, V, N)!Existentes]
       /\ \A r, s \in F : g[r] = g[s] => r = s
       /\ \A i : Sitio(P, D, I, V, N)!Corregida(i, t) = [pagina[i] EXCEPT !.texto = t]
  BY <1>5 DEF Sitio!Corregida
<1>7. pagina' = [i \in Paginas |-> pagina'[i]]
  <2>1. CASE puede
    BY <1>5, <2>1
  <2>2. CASE ~puede
    BY <1>0, <1>5, <2>2
  <2> QED BY <2>1, <2>2
<1>8. CASE ~puede
  BY <1>1, <1>4, <1>5, <1>6, <1>7, <1>8 DEF q
<1>9. CASE puede
  <2>1. ASSUME NEW i \in Paginas
        PROVE  pagina'[i] = IF \E s \in W : q.hallada[s] = i THEN [pagina[i] EXCEPT !.texto = t]
                            ELSE IF \E s \in F : g[s] = i
                                 THEN [slug |-> CHOOSE s \in F : g[s] = i, texto |-> t, is_active |-> TRUE]
                                 ELSE pagina[i]
    BY <1>5, <1>9, <1>10
  <2>2. \A s \in F : g[s] \in Paginas /\ pagina[g[s]] = Nada
    BY <1>10 DEF Sitio!Existentes
  <2>3. \A s \in W : pagina[q.hallada[s]] # Nada
    BY <1>9 DEF puede
  <2>4. ASSUME NEW s \in F PROVE pagina'[g[s]] = [slug |-> s, texto |-> t, is_active |-> TRUE]
    <3>1. ~\E r \in W : q.hallada[r] = g[s]
      BY <2>2, <2>3
    <3>2. s = CHOOSE r \in F : g[r] = g[s]
      BY <1>10
    <3>3. \E r \in F : g[r] = g[s]
      OBVIOUS
    <3>4. pagina'[g[s]] = [slug |-> CHOOSE r \in F : g[r] = g[s], texto |-> t, is_active |-> TRUE]
      BY <2>1, <2>2, <3>1, <3>3
    <3> QED BY <3>2, <3>4
  <2>5. ASSUME NEW i \in Paginas, pagina[i] # Nada
        PROVE  \/ (\E s \in W : q.hallada[s] = i) /\ pagina'[i] = [pagina[i] EXCEPT !.texto = t]
               \/ (~\E s \in W : q.hallada[s] = i) /\ pagina'[i] = pagina[i]
    BY <2>1, <2>2, <2>5
  <2>6. ASSUME NEW i \in Paginas, pagina[i] = Nada
        PROVE  pagina'[i] = Nada \/ \E s \in F : g[s] = i
    BY <2>1, <2>3, <2>6
  <2>7. \A s \in D : q.estado[s] = "faltante" =>
          /\ g[s] \in Paginas /\ pagina[g[s]] = Nada
          /\ pagina'[g[s]] = [slug |-> s, texto |-> TextoDe(q.idioma), is_active |-> TRUE]
    BY <1>0, <1>2, <2>2, <2>4
  <2>8. \A i \in Paginas : pagina[i] # Nada =>
          \/ /\ \E s \in D : q.estado[s] = "desactualizada" /\ q.hallada[s] = i
             /\ pagina'[i] = [pagina[i] EXCEPT !.texto = TextoDe(q.idioma)]
          \/ /\ ~\E s \in D : q.estado[s] = "desactualizada" /\ q.hallada[s] = i
             /\ pagina'[i] = pagina[i]
    BY <1>0, <1>2, <2>5
  <2>9. \A i \in Paginas : pagina[i] = Nada =>
          pagina'[i] = Nada \/ \E s \in D : q.estado[s] = "faltante" /\ g[s] = i
    BY <1>2, <2>6
  <2>10. SitioSincroniza(D, q, g)
    BY <1>4, <1>9, <2>7, <2>8, <2>9 DEF SitioSincroniza
  <2> QED BY <1>1, <1>6, <1>7, <2>10 DEF q
<1> QED BY <1>8, <1>9

\* Texts change and pages are made: each page keeps its slug and whether it is shown.
LEMMA SitioCorregido ==
    ASSUME NEW P, NEW D, NEW I, NEW V, NEW N, Sitio(P, D, I, V, N)!PagesAssumption,
           SitioInv(P, D, I, V, N), NEW q, NEW g, SitioSincroniza(D, q, g), NEW i \in Paginas
    PROVE  /\ pagina'[i] \in FilaPagina(D) \cup {Nada}
           /\ pagina[i] # Nada => /\ pagina'[i].slug = pagina[i].slug /\ pagina'[i] # Nada
                                  /\ pagina'[i].is_active = pagina[i].is_active
                                  /\ pagina'[i].texto \in {pagina[i].texto, TextoDe(q.idioma)}
           /\ (pagina[i] = Nada /\ pagina'[i] # Nada) =>
                 SinPagina(pagina'[i].slug) /\ g[pagina'[i].slug] = i
<1>0. pagina \in [Paginas -> FilaPagina(D) \cup {Nada}] /\ TextoDe(q.idioma) \in Enviados
      /\ Nada \notin FilaPagina(D)
  BY SitioConstants DEF SitioInv, TextoDe
<1>1. CASE pagina[i] # Nada
  <2>1. PICK v \in FilaPagina(D) : v = pagina[i]
    BY <1>0, <1>1
  <2>2. PICK w : w = [v EXCEPT !.texto = TextoDe(q.idioma)]
    OBVIOUS
  <2>3. /\ w \in FilaPagina(D) /\ w.slug = v.slug /\ w.is_active = v.is_active
        /\ w.texto = TextoDe(q.idioma)
    BY <1>0, <2>2 DEF FilaPagina
  <2>4. pagina'[i] = v \/ pagina'[i] = w
    BY <1>1, <2>1, <2>2 DEF SitioSincroniza
  <2> QED BY <1>0, <1>1, <2>1, <2>3, <2>4
<1>2. CASE pagina[i] = Nada /\ pagina'[i] # Nada
  <2>1. PICK s \in D : q.estado[s] = "faltante" /\ g[s] = i
    BY <1>2 DEF SitioSincroniza
  <2>2. PICK w : w = [slug |-> s, texto |-> TextoDe(q.idioma), is_active |-> TRUE]
    OBVIOUS
  <2>3. pagina'[i] = w /\ SinPagina(s)
    BY <2>1, <2>2 DEF SitioSincroniza, SitioPuede
  <2>4. w \in FilaPagina(D) /\ w.slug = s
    BY <1>0, <2>2 DEF FilaPagina
  <2> QED BY <1>2, <2>1, <2>3, <2>4
<1> QED BY <1>1, <1>2

\* The synchronisation is written, or it could not be.
LEMMA SitioSincronizan ==
    ASSUME NEW P, NEW D, NEW I, NEW V, NEW N, Sitio(P, D, I, V, N)!PagesAssumption,
           SitioInv(P, D, I, V, N), NEW p \in P, Sitio(P, D, I, V, N)!Sincronizar(p)
    PROVE  /\ SitioInv(P, D, I, V, N)'
           /\ \E f : peticion' = [peticion EXCEPT ![p] = f] /\ f.pc # "sincronizar"
<1>1. PICK q \in PidenPagina(D, I) : q = peticion[p]
  BY DEF SitioInv
<1>2. /\ UNCHANGED <<lang, cache, visita, operaciones>> /\ pagina' = [i \in Paginas |-> pagina'[i]]
      /\ \E z \in {"vaciar", "hecho"} : peticion' = [peticion EXCEPT ![p].pc = z]
      /\ \/ pagina' = pagina /\ ~SitioPuede(D, q)
         \/ \E g : SitioSincroniza(D, q, g)
  BY <1>1, SitioCorrige
<1>3. PICK z \in {"vaciar", "hecho"} : peticion' = [peticion EXCEPT ![p].pc = z]
  BY <1>2
<1>4. PICK f : f = [q EXCEPT !.pc = z]
  OBVIOUS
<1>5. f \in PidenPagina(D, I) /\ f.pc = z /\ peticion' = [peticion EXCEPT ![p] = f]
  <2>1. f \in PidenPagina(D, I) /\ f.pc = z
    BY <1>4, SitioPasa
  <2>2. peticion' = [peticion EXCEPT ![p] = f]
    BY <1>1, <1>3, <1>4
  <2> QED BY <2>1, <2>2
<1>6. cache' \in [D \cup OtrosSlugs -> Mostradas \cup {Nada}]
  BY <1>2 DEF SitioInv
<1>7. CASE pagina' = pagina
  <2>1. pagina' \in [Paginas -> FilaPagina(D) \cup {Nada}] /\ SitioUnicos'
    BY <1>7 DEF SitioInv, SitioUnicos
  <2> QED BY <1>2, <1>5, <1>6, <2>1, SitioPaso
<1>8. ASSUME NEW g, SitioSincroniza(D, q, g)
      PROVE  pagina' \in [Paginas -> FilaPagina(D) \cup {Nada}] /\ SitioUnicos'
  <2>1. \A i \in Paginas :
           /\ pagina'[i] \in FilaPagina(D) \cup {Nada}
           /\ pagina[i] # Nada => pagina'[i].slug = pagina[i].slug
           /\ (pagina[i] = Nada /\ pagina'[i] # Nada) =>
                 SinPagina(pagina'[i].slug) /\ g[pagina'[i].slug] = i
    BY <1>8, SitioCorregido
  <2>2. pagina' \in [Paginas -> FilaPagina(D) \cup {Nada}]
    BY <1>2, <2>1
  <2>3. ASSUME NEW i \in Paginas, NEW j \in Paginas, pagina'[i] # Nada, pagina'[j] # Nada,
               pagina'[i].slug = pagina'[j].slug
        PROVE  i = j
    <3>1. CASE pagina[i] # Nada /\ pagina[j] # Nada
      BY <2>1, <2>3, <3>1 DEF SitioInv, SitioUnicos
    <3>2. CASE pagina[i] = Nada /\ pagina[j] = Nada
      BY <2>1, <2>3, <3>2
    <3>3. CASE pagina[i] = Nada /\ pagina[j] # Nada
      BY <2>1, <2>3, <3>3 DEF SinPagina
    <3>4. CASE pagina[i] # Nada /\ pagina[j] = Nada
      BY <2>1, <2>3, <3>4 DEF SinPagina
    <3> QED BY <3>1, <3>2, <3>3, <3>4
  <2>4. SitioUnicos'
    BY <2>3 DEF SitioUnicos
  <2> QED BY <2>2, <2>4
<1>9. CASE \E g : SitioSincroniza(D, q, g)
  <2>1. pagina' \in [Paginas -> FilaPagina(D) \cup {Nada}] /\ SitioUnicos'
    BY <1>8, <1>9
  <2> QED BY <1>2, <1>5, <1>6, <2>1, SitioPaso
<1> QED BY <1>2, <1>7, <1>9

\* A step of one request.
SitioDa(P, D, I, V, N, p) ==
    \/ SitioPide(P, D, I, V, N, p) \/ Sitio(P, D, I, V, N)!Escribir(p) \/ SitioBorra(P, D, I, V, N, p)
    \/ Sitio(P, D, I, V, N)!Sincronizar(p)

\* A step is one of a request, one that reads the default pages, or one of another.
LEMMA SitioPasos ==
    ASSUME NEW P, NEW D, NEW I, NEW V, NEW N, [Sitio(P, D, I, V, N)!Next]_(Sitio(P, D, I, V, N)!vars)
    PROVE  \/ \E p \in P : \/ SitioDa(P, D, I, V, N, p)
                           \/ Sitio(P, D, I, V, N)!sincronizar_paginas_predeterminadas(p)
           \/ SitioMira(P, D, I, V, N)
           \/ UNCHANGED Sitio(P, D, I, V, N)!vars
BY DEF Sitio!Next, SitioDa, SitioPide, SitioBorra, SitioMira

\* A request that does not read the default pages.
LEMMA SitioDan ==
    ASSUME NEW P, NEW D, NEW I, NEW V, NEW N, Sitio(P, D, I, V, N)!PagesAssumption,
           SitioInv(P, D, I, V, N), NEW p \in P, SitioDa(P, D, I, V, N, p)
    PROVE  /\ SitioInv(P, D, I, V, N)'
           /\ \E f : peticion' = [peticion EXCEPT ![p] = f] /\ f.pc # "sincronizar"
BY SitioPiden, SitioEscribe, SitioBorran, SitioSincronizan DEF SitioDa

\* Any number of requests keep them.
LEMMA SitioSigue ==
    ASSUME NEW P, NEW D, NEW I, NEW V, NEW N, Sitio(P, D, I, V, N)!PagesAssumption,
           SitioInv(P, D, I, V, N), [Sitio(P, D, I, V, N)!Next]_(Sitio(P, D, I, V, N)!vars)
    PROVE  SitioInv(P, D, I, V, N)'
<1>1. ASSUME NEW p \in P, SitioDa(P, D, I, V, N, p) PROVE SitioInv(P, D, I, V, N)'
  BY <1>1, SitioDan
<1>2. ASSUME NEW p \in P, Sitio(P, D, I, V, N)!sincronizar_paginas_predeterminadas(p)
      PROVE  SitioInv(P, D, I, V, N)'
  BY <1>2, SitioLee
<1>3. CASE SitioMira(P, D, I, V, N)
  BY <1>3, SitioMiran
<1>4. CASE UNCHANGED Sitio(P, D, I, V, N)!vars
  BY <1>4 DEF Sitio!vars, SitioInv, SitioUnicos
<1> QED BY <1>1, <1>2, <1>3, <1>4, SitioPasos

\* The types of the rows, the cache and the requests.
LEMMA SitioDice ==
    ASSUME NEW P, NEW D, NEW I, NEW V, NEW N, Sitio(P, D, I, V, N)!PagesAssumption,
           SitioInv(P, D, I, V, N)
    PROVE  Sitio(P, D, I, V, N)!TypeOK
<1>1. /\ Sitio(P, D, I, V, N)!Slugs = D \cup OtrosSlugs
      /\ Sitio(P, D, I, V, N)!Pagina = FilaPagina(D)
      /\ Sitio(P, D, I, V, N)!Servidas = Mostradas
      /\ Sitio(P, D, I, V, N)!Peticion = PidePagina(D, I) /\ N \in Nat
  BY SitioConstants
<1>2. peticion \in [P -> PidePagina(D, I)]
  BY DEF SitioInv, PidenPagina
<1>3. \A i, j \in Sitio(P, D, I, V, N)!Existentes : pagina[i].slug = pagina[j].slug => i = j
  BY DEF SitioInv, SitioUnicos, Sitio!Existentes
<1>4. operaciones <= N
  BY <1>1 DEF SitioInv
<1> QED BY <1>1, <1>2, <1>3, <1>4 DEF SitioInv, Sitio!TypeOK

\* No synchronisation shows or moves a page, whatever the others do while it runs.
LEMMA SitioEscondidas ==
    ASSUME NEW P, NEW D, NEW I, NEW V, NEW N, Sitio(P, D, I, V, N)!PagesAssumption,
           SitioInv(P, D, I, V, N)
    PROVE  Sitio(P, D, I, V, N)!HiddenStayHidden
<1> SUFFICES ASSUME NEW p \in P, Sitio(P, D, I, V, N)!Sincronizar(p),
                    NEW i \in Paginas, pagina[i] # Nada
             PROVE  pagina'[i].is_active = pagina[i].is_active /\ pagina'[i].slug = pagina[i].slug
  BY DEF Sitio!HiddenStayHidden, Sitio!Existentes
<1>1. pagina' = pagina \/ \E g : SitioSincroniza(D, peticion[p], g)
  BY SitioCorrige
<1>2. ASSUME NEW g, SitioSincroniza(D, peticion[p], g)
      PROVE  pagina'[i].is_active = pagina[i].is_active /\ pagina'[i].slug = pagina[i].slug
  BY <1>2, SitioCorregido
<1> QED BY <1>1, <1>2

----------------------------------------
(* One request at a time: what was read of the default pages is as they are *)

UnSitioInv(D, I, V, N) ==
    /\ SitioInv(Una, D, I, V, N)
    /\ peticion[q1].pc = "sincronizar" => SitioSabe(D, peticion[q1])

\* Nothing is read at first.
LEMMA UnSitioEmpieza ==
    ASSUME NEW D, NEW I, NEW V, NEW N, Sitio(Una, D, I, V, N)!PagesAssumption,
           Sitio(Una, D, I, V, N)!Init
    PROVE  UnSitioInv(D, I, V, N)
<1>1. SitioInv(Una, D, I, V, N)
  BY SitioEmpieza
<1>2. peticion[q1] = Sitio(Una, D, I, V, N)!Libre
  BY DEF Sitio!Init, Una
<1> QED BY <1>1, <1>2, SitioLibre DEF UnSitioInv

\* What the synchronisation knows stays true while pages and request stay.
LEMMA UnSitioQuieto ==
    ASSUME NEW D, NEW I, NEW V, NEW N, UnSitioInv(D, I, V, N), SitioInv(Una, D, I, V, N)',
           UNCHANGED <<pagina, peticion>>
    PROVE  UnSitioInv(D, I, V, N)'
<1>1. (peticion[q1])' = peticion[q1]
  OBVIOUS
<1> QED BY <1>1 DEF UnSitioInv, SitioSabe, SinPagina, Hallada, TextoDe

\* Every step of the request keeps it.
LEMMA UnSitioSigue ==
    ASSUME NEW D, NEW I, NEW V, NEW N, Sitio(Una, D, I, V, N)!PagesAssumption,
           UnSitioInv(D, I, V, N), [Sitio(Una, D, I, V, N)!Next]_(Sitio(Una, D, I, V, N)!vars)
    PROVE  UnSitioInv(D, I, V, N)'
<1>0. /\ SitioInv(Una, D, I, V, N) /\ SitioInv(Una, D, I, V, N)'
      /\ q1 \in Una /\ (\A p \in Una : p = q1)
  BY SitioSigue DEF UnSitioInv, Una
<1>1. ASSUME NEW f, peticion' = [peticion EXCEPT ![q1] = f] PROVE peticion'[q1] = f
  <2>1. peticion = [p \in Una |-> peticion[p]]
    BY <1>0 DEF SitioInv
  <2> QED BY <1>0, <1>1, <2>1
<1>2. ASSUME NEW p \in Una, SitioDa(Una, D, I, V, N, p) PROVE UnSitioInv(D, I, V, N)'
  <2>1. PICK f : peticion' = [peticion EXCEPT ![q1] = f] /\ f.pc # "sincronizar"
    BY <1>0, <1>2, SitioDan
  <2>2. peticion'[q1].pc # "sincronizar"
    BY <1>1, <2>1
  <2> QED BY <1>0, <2>2 DEF UnSitioInv
<1>3. ASSUME NEW p \in Una, Sitio(Una, D, I, V, N)!sincronizar_paginas_predeterminadas(p)
      PROVE  UnSitioInv(D, I, V, N)'
  <2>1. PICK f : peticion' = [peticion EXCEPT ![q1] = f] /\ SitioSabe(D, f) /\ UNCHANGED pagina
    BY <1>0, <1>3, SitioLee
  <2>2. PICK g : g = peticion'[q1]
    OBVIOUS
  <2>3. g = f
    BY <1>1, <2>1, <2>2
  <2>4. SitioSabe(D, peticion[q1])'
    BY <2>1, <2>2, <2>3 DEF SitioSabe, SinPagina, Hallada, TextoDe
  <2> QED BY <1>0, <2>4 DEF UnSitioInv
<1>4. CASE SitioMira(Una, D, I, V, N)
  BY <1>0, <1>4, SitioMiran, UnSitioQuieto
<1>5. CASE UNCHANGED Sitio(Una, D, I, V, N)!vars
  <2>1. UNCHANGED <<pagina, peticion>>
    BY <1>5 DEF Sitio!vars
  <2> QED BY <1>0, <2>1, UnSitioQuieto
<1> QED BY <1>2, <1>3, <1>4, <1>5, SitioPasos

\* It keeps what administrators wrote, and what it corrects is as it is shipped.
LEMMA UnSitioCorrige ==
    ASSUME NEW D, NEW I, NEW V, NEW N, Sitio(Una, D, I, V, N)!PagesAssumption,
           UnSitioInv(D, I, V, N)
    PROVE  Sitio(Una, D, I, V, N)!EditedPagesAreKept /\ Sitio(Una, D, I, V, N)!SynchronisedAreCurrent
<1>0. SitioInv(Una, D, I, V, N) /\ pagina \in [Paginas -> FilaPagina(D) \cup {Nada}]
      /\ Enviados \cap Propios = {} /\ \A p \in Una : p = q1
  BY SitioConstants DEF UnSitioInv, SitioInv, Una
<1>1. ASSUME NEW p \in Una, Sitio(Una, D, I, V, N)!Sincronizar(p)
      PROVE  SitioSabe(D, peticion[p]) /\ \E g : SitioSincroniza(D, peticion[p], g)
  <2>1. /\ peticion[p].pc = "sincronizar"
        /\ \/ pagina' = pagina /\ ~SitioPuede(D, peticion[p])
           \/ \E g : SitioSincroniza(D, peticion[p], g)
    BY <1>0, <1>1, SitioCorrige
  <2>2. SitioSabe(D, peticion[p])
    BY <1>0, <2>1 DEF UnSitioInv
  <2>3. SitioPuede(D, peticion[p])
    BY <2>2 DEF SitioSabe, SitioPuede, Hallada
  <2> QED BY <2>1, <2>2, <2>3
<1>2. ASSUME NEW p \in Una, Sitio(Una, D, I, V, N)!Sincronizar(p),
             NEW i \in Paginas, pagina[i] # Nada, pagina[i].texto \in Propios
      PROVE  pagina'[i] = pagina[i]
  <2>1. PICK g : SitioSabe(D, peticion[p]) /\ SitioSincroniza(D, peticion[p], g)
    BY <1>1, <1>2
  <2>2. ~\E s \in D : peticion[p].estado[s] = "desactualizada" /\ peticion[p].hallada[s] = i
    BY <1>0, <1>2, <2>1 DEF SitioSabe, Hallada
  <2> QED BY <1>2, <2>1, <2>2 DEF SitioSincroniza
<1>3. Sitio(Una, D, I, V, N)!EditedPagesAreKept
  BY <1>2 DEF Sitio!EditedPagesAreKept, Sitio!Existentes
<1>4. ASSUME NEW p \in Una, Sitio(Una, D, I, V, N)!Sincronizar(p), NEW s \in D
      PROVE  \E i \in Paginas :
                /\ pagina'[i] # Nada /\ pagina'[i].slug = s
                /\ pagina'[i].texto \in Propios \/ pagina'[i].texto = TextoDe(peticion[p].idioma)
  <2>1. PICK q : q = peticion[p]
    OBVIOUS
  <2>2. PICK g : SitioSabe(D, q) /\ SitioSincroniza(D, q, g)
    BY <1>1, <1>4, <2>1
  <2>3. CASE q.estado[s] = "faltante" /\ SinPagina(s)
    <3>1. PICK w : w = [slug |-> s, texto |-> TextoDe(q.idioma), is_active |-> TRUE]
      OBVIOUS
    <3>2. g[s] \in Paginas /\ pagina'[g[s]] = w
      BY <2>2, <2>3, <3>1 DEF SitioSincroniza
    <3>3. pagina'[g[s]] # Nada
      <4>1. w \in FilaPagina(D)
        BY <3>1, SitioConstants DEF FilaPagina, TextoDe
      <4> QED BY <3>2, <4>1, SitioConstants
    <3> QED BY <2>1, <3>1, <3>2, <3>3
  <2>4. CASE Hallada(q, s)
    <3>1. PICK i \in Paginas : i = q.hallada[s] /\ pagina[i] # Nada /\ pagina[i].slug = s
      BY <2>4 DEF Hallada
    <3>2. /\ pagina'[i].slug = s /\ pagina'[i] # Nada
          /\ pagina'[i].texto \in {pagina[i].texto, TextoDe(q.idioma)}
      BY <1>0, <2>2, <3>1, SitioCorregido
    <3>3. CASE pagina[i].texto \in Enviados /\ q.estado[s] = "desactualizada"
      <4>1. PICK v \in FilaPagina(D) : v = pagina[i]
        BY <1>0, <3>1
      <4>2. PICK w : w = [v EXCEPT !.texto = TextoDe(q.idioma)]
        OBVIOUS
      <4>3. pagina'[i] = w
        BY <2>2, <3>1, <3>3, <4>1, <4>2 DEF SitioSincroniza
      <4>4. w.texto = TextoDe(q.idioma)
        BY <4>2 DEF FilaPagina
      <4> QED BY <2>1, <3>2, <4>3, <4>4
    <3>4. CASE pagina[i].texto \in Propios \/ pagina[i].texto = TextoDe(q.idioma)
      BY <2>1, <3>2, <3>4
    <3>5. pagina[i].texto \in Propios \cup Enviados
      BY <1>0, <3>1 DEF FilaPagina
    <3> QED BY <2>4, <3>1, <3>3, <3>4, <3>5 DEF Hallada
  <2> QED BY <2>2, <2>3, <2>4 DEF SitioSabe
<1>5. ASSUME NEW p \in Una, Sitio(Una, D, I, V, N)!Sincronizar(p), NEW s \in D
      PROVE  \E i \in Paginas :
                /\ pagina'[i] # Nada /\ pagina'[i].slug = s
                /\ \/ pagina'[i].texto \in Propios
                   \/ pagina'[i].texto = peticion[p].idioma
                   \/ peticion[p].idioma \notin Enviados /\ pagina'[i].texto = DeFabrica
  BY <1>4, <1>5 DEF TextoDe
<1>6. Sitio(Una, D, I, V, N)!SynchronisedAreCurrent
  BY <1>5 DEF Sitio!SynchronisedAreCurrent
<1> QED BY <1>3, <1>6

----------------------------------------
(* The parts *)

CommunityInv ==
    /\ parte = "foro" => ForoInv
    /\ parte = "hilo" => UnHiloInv
    /\ parte = "hilo_cruzado" => HiloInv(Concurrentes, MaxCruzadas)
    /\ parte = "moderado" => UnHubInv(DeModerar, MaxSeguidas)
    /\ parte = "reportado" => HubInv(Concurrentes, DeReportar, MaxReportadas)
    /\ parte = "destacado" => HubInv(Concurrentes, DeDestacar, MaxDestacadas)
    /\ parte = "escritas" => UnBlogInv(Etiquetas, DeEscribir, MaxSeguidas)
    /\ parte = "comentadas" => UnBlogInv(Etiquetas, DeComentar, MaxComentadas)
    /\ parte = "leidas" => UnBlogInv({}, DeLeer, MaxSeguidas)
    /\ parte = "cruzadas" => BlogInv(Concurrentes, Etiquetas, DeTodo, MaxCruzadas)
    /\ parte = "sincronizadas" => UnSitioInv(Predeterminadas, Idiomas, {}, MaxSincronizadas)
    /\ parte = "visitadas" => SitioInv(Concurrentes, Primeras, Enviados, Visitas, MaxVisitadas)

\* What the parts have been given is what they assume.
LEMMA CommunityConstants ==
    /\ MaxSeguidas \in Nat /\ MaxCruzadas \in Nat
    /\ Hub(Una, DeModerar, MaxSeguidas)!HubAssumption
    /\ Hub(Concurrentes, DeReportar, MaxReportadas)!HubAssumption
    /\ Hub(Concurrentes, DeDestacar, MaxDestacadas)!HubAssumption
    /\ Bitacora(Una, Etiquetas, DeEscribir, MaxSeguidas)!BlogAssumption
    /\ Bitacora(Una, Etiquetas, DeComentar, MaxComentadas)!BlogAssumption
    /\ Bitacora(Una, {}, DeLeer, MaxSeguidas)!BlogAssumption
    /\ Bitacora(Concurrentes, Etiquetas, DeTodo, MaxCruzadas)!BlogAssumption
    /\ Sitio(Una, Predeterminadas, Idiomas, {}, MaxSincronizadas)!PagesAssumption
    /\ Sitio(Concurrentes, Primeras, Enviados, Visitas, MaxVisitadas)!PagesAssumption
<1>1. MaxSeguidas \in Nat /\ MaxCruzadas \in Nat
  BY HiloConstants
<1> QED BY Zenon, <1>1, CommunityAssumption

\* A step is one of the part that the behaviour is about, or nothing happens to it.
LEMMA CommunityPart ==
    ASSUME [Next]_vars
    PROVE  /\ parte' = parte
           /\ parte = "foro" => [Foro!Next]_(Foro!vars)
           /\ parte = "hilo" => [Hilo(Una, MaxSeguidas)!Next]_(Hilo(Una, MaxSeguidas)!vars)
           /\ parte = "hilo_cruzado" => [Hilo(Concurrentes, MaxCruzadas)!Next]_(Hilo(Concurrentes, MaxCruzadas)!vars)
           /\ parte = "moderado" => [Hub(Una, DeModerar, MaxSeguidas)!Next]_(Hub(Una, DeModerar, MaxSeguidas)!vars)
           /\ parte = "reportado" => [Hub(Concurrentes, DeReportar, MaxReportadas)!Next]_(Hub(Concurrentes, DeReportar, MaxReportadas)!vars)
           /\ parte = "destacado" => [Hub(Concurrentes, DeDestacar, MaxDestacadas)!Next]_(Hub(Concurrentes, DeDestacar, MaxDestacadas)!vars)
           /\ parte = "escritas" => [Bitacora(Una, Etiquetas, DeEscribir, MaxSeguidas)!Next]_(Bitacora(Una, Etiquetas, DeEscribir, MaxSeguidas)!vars)
           /\ parte = "comentadas" => [Bitacora(Una, Etiquetas, DeComentar, MaxComentadas)!Next]_(Bitacora(Una, Etiquetas, DeComentar, MaxComentadas)!vars)
           /\ parte = "leidas" => [Bitacora(Una, {}, DeLeer, MaxSeguidas)!Next]_(Bitacora(Una, {}, DeLeer, MaxSeguidas)!vars)
           /\ parte = "cruzadas" => [Bitacora(Concurrentes, Etiquetas, DeTodo, MaxCruzadas)!Next]_(Bitacora(Concurrentes, Etiquetas, DeTodo, MaxCruzadas)!vars)
           /\ parte = "sincronizadas" => [Sitio(Una, Predeterminadas, Idiomas, {}, MaxSincronizadas)!Next]_(Sitio(Una, Predeterminadas, Idiomas, {}, MaxSincronizadas)!vars)
           /\ parte = "visitadas" => [Sitio(Concurrentes, Primeras, Enviados, Visitas, MaxVisitadas)!Next]_(Sitio(Concurrentes, Primeras, Enviados, Visitas, MaxVisitadas)!vars)
<1>1. CASE UNCHANGED vars
  <2>1. /\ UNCHANGED <<parte, peticion, operaciones, caidas>> /\ UNCHANGED <<curso, mensaje, hilo, inscritos>>
        /\ UNCHANGED <<post, respuesta, likes, traza, activos>>
        /\ UNCHANGED <<entradas, comentarios, etiquetas, paginas, indices, vistas, quitados, pedidas>>
        /\ UNCHANGED <<pagina, lang, cache, visita>>
    BY <1>1 DEF vars, varsMensajes, varsComunidad, varsBlog, varsPaginas
  <2>2. /\ UNCHANGED Foro!vars
        /\ UNCHANGED Hilo(Una, MaxSeguidas)!vars
        /\ UNCHANGED Hilo(Concurrentes, MaxCruzadas)!vars
    BY <2>1 DEF Foro!vars, Hilo!vars
  <2>3. /\ UNCHANGED Hub(Una, DeModerar, MaxSeguidas)!vars
        /\ UNCHANGED Hub(Concurrentes, DeReportar, MaxReportadas)!vars
        /\ UNCHANGED Hub(Concurrentes, DeDestacar, MaxDestacadas)!vars
    BY <2>1 DEF Hub!vars
  <2>4. /\ UNCHANGED Bitacora(Una, Etiquetas, DeEscribir, MaxSeguidas)!vars
        /\ UNCHANGED Bitacora(Una, Etiquetas, DeComentar, MaxComentadas)!vars
        /\ UNCHANGED Bitacora(Una, {}, DeLeer, MaxSeguidas)!vars
        /\ UNCHANGED Bitacora(Concurrentes, Etiquetas, DeTodo, MaxCruzadas)!vars
    BY <2>1 DEF Bitacora!vars, Bitacora!filas, Bitacora!cache
  <2>5. /\ UNCHANGED Sitio(Una, Predeterminadas, Idiomas, {}, MaxSincronizadas)!vars
        /\ UNCHANGED Sitio(Concurrentes, Primeras, Enviados, Visitas, MaxVisitadas)!vars
    BY <2>1 DEF Sitio!vars
  <2> QED BY <2>1, <2>2, <2>3, <2>4, <2>5
<1>2. CASE Mensajeria
  BY <1>2 DEF Mensajeria
<1>3. CASE Comunidad
  BY <1>3 DEF Comunidad
<1>4. CASE DelBlog
  BY <1>4 DEF DelBlog
<1>5. CASE DelSitio
  BY <1>5 DEF DelSitio
<1> QED BY <1>1, <1>2, <1>3, <1>4, <1>5 DEF Next

\* The invariants of the parts hold at first ...
LEMMA CommunityInit == Init => CommunityInv
<1> SUFFICES ASSUME Init PROVE CommunityInv
  OBVIOUS
<1>1. ASSUME parte = "foro" PROVE ForoInv
  <2>1. Foro!Init
    BY <1>1 DEF Init
  <2> QED BY <2>1, ForoEmpieza, CommunityConstants
<1>2. ASSUME parte = "hilo" PROVE UnHiloInv
  <2>1. Hilo(Una, MaxSeguidas)!Init
    BY <1>2 DEF Init
  <2> QED BY <2>1, UnHiloEmpieza, CommunityConstants
<1>3. ASSUME parte = "hilo_cruzado" PROVE HiloInv(Concurrentes, MaxCruzadas)
  <2>1. Hilo(Concurrentes, MaxCruzadas)!Init
    BY <1>3 DEF Init
  <2> QED BY <2>1, HiloEmpieza, CommunityConstants
<1>4. ASSUME parte = "moderado" PROVE UnHubInv(DeModerar, MaxSeguidas)
  <2>1. Hub(Una, DeModerar, MaxSeguidas)!Init
    BY <1>4 DEF Init
  <2> QED BY <2>1, UnHubEmpieza, CommunityConstants
<1>5. ASSUME parte = "reportado" PROVE HubInv(Concurrentes, DeReportar, MaxReportadas)
  <2>1. Hub(Concurrentes, DeReportar, MaxReportadas)!Init
    BY <1>5 DEF Init
  <2> QED BY <2>1, HubEmpieza, CommunityConstants
<1>6. ASSUME parte = "destacado" PROVE HubInv(Concurrentes, DeDestacar, MaxDestacadas)
  <2>1. Hub(Concurrentes, DeDestacar, MaxDestacadas)!Init
    BY <1>6 DEF Init
  <2> QED BY <2>1, HubEmpieza, CommunityConstants
<1>7. ASSUME parte = "escritas" PROVE UnBlogInv(Etiquetas, DeEscribir, MaxSeguidas)
  <2>1. Bitacora(Una, Etiquetas, DeEscribir, MaxSeguidas)!Init
    BY <1>7 DEF Init
  <2> QED BY <2>1, UnBlogEmpieza, CommunityConstants
<1>8. ASSUME parte = "comentadas" PROVE UnBlogInv(Etiquetas, DeComentar, MaxComentadas)
  <2>1. Bitacora(Una, Etiquetas, DeComentar, MaxComentadas)!Init
    BY <1>8 DEF Init
  <2> QED BY <2>1, UnBlogEmpieza, CommunityConstants
<1>9. ASSUME parte = "leidas" PROVE UnBlogInv({}, DeLeer, MaxSeguidas)
  <2>1. Bitacora(Una, {}, DeLeer, MaxSeguidas)!Init
    BY <1>9 DEF Init
  <2> QED BY <2>1, UnBlogEmpieza, CommunityConstants
<1>10. ASSUME parte = "cruzadas" PROVE BlogInv(Concurrentes, Etiquetas, DeTodo, MaxCruzadas)
  <2>1. Bitacora(Concurrentes, Etiquetas, DeTodo, MaxCruzadas)!Init
    BY <1>10 DEF Init
  <2> QED BY <2>1, BlogEmpieza, CommunityConstants
<1>11. ASSUME parte = "sincronizadas" PROVE UnSitioInv(Predeterminadas, Idiomas, {}, MaxSincronizadas)
  <2>1. Sitio(Una, Predeterminadas, Idiomas, {}, MaxSincronizadas)!Init
    BY <1>11 DEF Init
  <2> QED BY <2>1, UnSitioEmpieza, CommunityConstants
<1>12. ASSUME parte = "visitadas" PROVE SitioInv(Concurrentes, Primeras, Enviados, Visitas, MaxVisitadas)
  <2>1. Sitio(Concurrentes, Primeras, Enviados, Visitas, MaxVisitadas)!Init
    BY <1>12 DEF Init
  <2> QED BY <2>1, SitioEmpieza, CommunityConstants
<1> QED BY <1>1, <1>2, <1>3, <1>4, <1>5, <1>6, <1>7, <1>8, <1>9, <1>10, <1>11, <1>12 DEF CommunityInv

\* ... and every step keeps them.
LEMMA CommunityStep == CommunityInv /\ [Next]_vars => CommunityInv'
<1> SUFFICES ASSUME CommunityInv, [Next]_vars PROVE CommunityInv'
  OBVIOUS
<1>0. parte' = parte
  BY CommunityPart
<1>1. ASSUME parte = "foro" PROVE ForoInv'
  <2>1. ForoInv /\ [Foro!Next]_(Foro!vars)
    BY <1>1, CommunityPart DEF CommunityInv
  <2> QED BY <2>1, ForoSigue, CommunityConstants
<1>2. ASSUME parte = "hilo" PROVE UnHiloInv'
  <2>1. UnHiloInv /\ [Hilo(Una, MaxSeguidas)!Next]_(Hilo(Una, MaxSeguidas)!vars)
    BY <1>2, CommunityPart DEF CommunityInv
  <2> QED BY <2>1, UnHiloSigue, CommunityConstants
<1>3. ASSUME parte = "hilo_cruzado" PROVE HiloInv(Concurrentes, MaxCruzadas)'
  <2>1. HiloInv(Concurrentes, MaxCruzadas) /\ [Hilo(Concurrentes, MaxCruzadas)!Next]_(Hilo(Concurrentes, MaxCruzadas)!vars)
    BY <1>3, CommunityPart DEF CommunityInv
  <2> QED BY <2>1, HiloSigue, CommunityConstants
<1>4. ASSUME parte = "moderado" PROVE UnHubInv(DeModerar, MaxSeguidas)'
  <2>1. UnHubInv(DeModerar, MaxSeguidas) /\ [Hub(Una, DeModerar, MaxSeguidas)!Next]_(Hub(Una, DeModerar, MaxSeguidas)!vars)
    BY <1>4, CommunityPart DEF CommunityInv
  <2> QED BY <2>1, UnHubSigue, CommunityConstants
<1>5. ASSUME parte = "reportado" PROVE HubInv(Concurrentes, DeReportar, MaxReportadas)'
  <2>1. HubInv(Concurrentes, DeReportar, MaxReportadas) /\ [Hub(Concurrentes, DeReportar, MaxReportadas)!Next]_(Hub(Concurrentes, DeReportar, MaxReportadas)!vars)
    BY <1>5, CommunityPart DEF CommunityInv
  <2> QED BY <2>1, HubSigue, CommunityConstants
<1>6. ASSUME parte = "destacado" PROVE HubInv(Concurrentes, DeDestacar, MaxDestacadas)'
  <2>1. HubInv(Concurrentes, DeDestacar, MaxDestacadas) /\ [Hub(Concurrentes, DeDestacar, MaxDestacadas)!Next]_(Hub(Concurrentes, DeDestacar, MaxDestacadas)!vars)
    BY <1>6, CommunityPart DEF CommunityInv
  <2> QED BY <2>1, HubSigue, CommunityConstants
<1>7. ASSUME parte = "escritas" PROVE UnBlogInv(Etiquetas, DeEscribir, MaxSeguidas)'
  <2>1. UnBlogInv(Etiquetas, DeEscribir, MaxSeguidas) /\ [Bitacora(Una, Etiquetas, DeEscribir, MaxSeguidas)!Next]_(Bitacora(Una, Etiquetas, DeEscribir, MaxSeguidas)!vars)
    BY <1>7, CommunityPart DEF CommunityInv
  <2> QED BY <2>1, UnBlogSigue, CommunityConstants
<1>8. ASSUME parte = "comentadas" PROVE UnBlogInv(Etiquetas, DeComentar, MaxComentadas)'
  <2>1. UnBlogInv(Etiquetas, DeComentar, MaxComentadas) /\ [Bitacora(Una, Etiquetas, DeComentar, MaxComentadas)!Next]_(Bitacora(Una, Etiquetas, DeComentar, MaxComentadas)!vars)
    BY <1>8, CommunityPart DEF CommunityInv
  <2> QED BY <2>1, UnBlogSigue, CommunityConstants
<1>9. ASSUME parte = "leidas" PROVE UnBlogInv({}, DeLeer, MaxSeguidas)'
  <2>1. UnBlogInv({}, DeLeer, MaxSeguidas) /\ [Bitacora(Una, {}, DeLeer, MaxSeguidas)!Next]_(Bitacora(Una, {}, DeLeer, MaxSeguidas)!vars)
    BY <1>9, CommunityPart DEF CommunityInv
  <2> QED BY <2>1, UnBlogSigue, CommunityConstants
<1>10. ASSUME parte = "cruzadas" PROVE BlogInv(Concurrentes, Etiquetas, DeTodo, MaxCruzadas)'
  <2>1. BlogInv(Concurrentes, Etiquetas, DeTodo, MaxCruzadas) /\ [Bitacora(Concurrentes, Etiquetas, DeTodo, MaxCruzadas)!Next]_(Bitacora(Concurrentes, Etiquetas, DeTodo, MaxCruzadas)!vars)
    BY <1>10, CommunityPart DEF CommunityInv
  <2> QED BY <2>1, BlogSigue, CommunityConstants
<1>11. ASSUME parte = "sincronizadas" PROVE UnSitioInv(Predeterminadas, Idiomas, {}, MaxSincronizadas)'
  <2>1. UnSitioInv(Predeterminadas, Idiomas, {}, MaxSincronizadas) /\ [Sitio(Una, Predeterminadas, Idiomas, {}, MaxSincronizadas)!Next]_(Sitio(Una, Predeterminadas, Idiomas, {}, MaxSincronizadas)!vars)
    BY <1>11, CommunityPart DEF CommunityInv
  <2> QED BY <2>1, UnSitioSigue, CommunityConstants
<1>12. ASSUME parte = "visitadas" PROVE SitioInv(Concurrentes, Primeras, Enviados, Visitas, MaxVisitadas)'
  <2>1. SitioInv(Concurrentes, Primeras, Enviados, Visitas, MaxVisitadas) /\ [Sitio(Concurrentes, Primeras, Enviados, Visitas, MaxVisitadas)!Next]_(Sitio(Concurrentes, Primeras, Enviados, Visitas, MaxVisitadas)!vars)
    BY <1>12, CommunityPart DEF CommunityInv
  <2> QED BY <2>1, SitioSigue, CommunityConstants
<1> QED BY <1>0, <1>1, <1>2, <1>3, <1>4, <1>5, <1>6, <1>7, <1>8, <1>9, <1>10, <1>11, <1>12 DEF CommunityInv

\* Rows, requests and caches are of their types in every part: also through
\* overlapping requests of threads, of the community, of the blog and of the pages.
THEOREM TypeCorrect == Spec => []TypeOK
<1>1. ASSUME CommunityInv PROVE TypeOK
  <2>1. ASSUME parte = "foro" PROVE Foro!TypeOK
    <3>1. ForoInv
      BY <1>1, <2>1 DEF CommunityInv
    <3> QED BY <3>1, CommunityConstants, ForoDice
  <2>2. ASSUME parte = "hilo" PROVE Hilo(Una, MaxSeguidas)!TypeOK
    <3>1. UnHiloInv
      BY <1>1, <2>2 DEF CommunityInv
    <3> QED BY <3>1, CommunityConstants, HiloDice DEF UnHiloInv
  <2>3. ASSUME parte = "hilo_cruzado" PROVE Hilo(Concurrentes, MaxCruzadas)!TypeOK
    <3>1. HiloInv(Concurrentes, MaxCruzadas)
      BY <1>1, <2>3 DEF CommunityInv
    <3> QED BY <3>1, CommunityConstants, HiloDice
  <2>4. ASSUME parte = "moderado" PROVE Hub(Una, DeModerar, MaxSeguidas)!TypeOK
    <3>1. UnHubInv(DeModerar, MaxSeguidas)
      BY <1>1, <2>4 DEF CommunityInv
    <3> QED BY <3>1, CommunityConstants, HubDice DEF UnHubInv
  <2>5. ASSUME parte = "reportado" PROVE Hub(Concurrentes, DeReportar, MaxReportadas)!TypeOK
    <3>1. HubInv(Concurrentes, DeReportar, MaxReportadas)
      BY <1>1, <2>5 DEF CommunityInv
    <3> QED BY <3>1, CommunityConstants, HubDice
  <2>6. ASSUME parte = "escritas" PROVE Bitacora(Una, Etiquetas, DeEscribir, MaxSeguidas)!TypeOK
    <3>1. UnBlogInv(Etiquetas, DeEscribir, MaxSeguidas)
      BY <1>1, <2>6 DEF CommunityInv
    <3> QED BY <3>1, CommunityConstants, BlogDice DEF UnBlogInv
  <2>7. ASSUME parte = "leidas" PROVE Bitacora(Una, {}, DeLeer, MaxSeguidas)!TypeOK
    <3>1. UnBlogInv({}, DeLeer, MaxSeguidas)
      BY <1>1, <2>7 DEF CommunityInv
    <3> QED BY <3>1, CommunityConstants, BlogDice DEF UnBlogInv
  <2>8. ASSUME parte = "cruzadas" PROVE Bitacora(Concurrentes, Etiquetas, DeTodo, MaxCruzadas)!TypeOK
    <3>1. BlogInv(Concurrentes, Etiquetas, DeTodo, MaxCruzadas)
      BY <1>1, <2>8 DEF CommunityInv
    <3> QED BY <3>1, CommunityConstants, BlogDice
  <2>9. ASSUME parte = "sincronizadas" PROVE Sitio(Una, Predeterminadas, Idiomas, {}, MaxSincronizadas)!TypeOK
    <3>1. UnSitioInv(Predeterminadas, Idiomas, {}, MaxSincronizadas)
      BY <1>1, <2>9 DEF CommunityInv
    <3> QED BY <3>1, CommunityConstants, SitioDice DEF UnSitioInv
  <2>10. ASSUME parte = "visitadas" PROVE Sitio(Concurrentes, Primeras, Enviados, Visitas, MaxVisitadas)!TypeOK
    <3>1. SitioInv(Concurrentes, Primeras, Enviados, Visitas, MaxVisitadas)
      BY <1>1, <2>10 DEF CommunityInv
    <3> QED BY <3>1, CommunityConstants, SitioDice
  <2> QED BY <2>1, <2>2, <2>3, <2>4, <2>5, <2>6, <2>7, <2>8, <2>9, <2>10 DEF TypeOK
<1> QED BY <1>1, CommunityInit, CommunityStep, PTL DEF Spec

\* What moderation says of a thing is how it is: a self-paced course has no forum, a
\* report has its reason, the trail of a post explains
\* its state, only administrators bring a banned post back and no list shows it, a
\* post counts the comments it shows; and through any number of overlapping requests,
\* a closed thread has its date and a reported post is in the queue.
THEOREM ModerationAgreesTheorem == Spec => []ModerationAgrees
<1>1. ASSUME CommunityInv PROVE ModerationAgrees
  <2>1. ASSUME parte = "foro"
        PROVE  Foro!SelfPacedHasNoForum
    <3>1. ForoInv
      BY <1>1, <2>1 DEF CommunityInv
    <3> QED BY <3>1, CommunityConstants, ForoDice
  <2>2. ASSUME parte = "hilo"
        PROVE  Hilo(Una, MaxSeguidas)!ReportHasReason
    <3>1. UnHiloInv
      BY <1>1, <2>2 DEF CommunityInv
    <3> QED BY <3>1, CommunityConstants, UnHiloDice
  <2>3. ASSUME parte = "hilo_cruzado"
        PROVE  Hilo(Concurrentes, MaxCruzadas)!ClosedHasDate
    <3>1. HiloInv(Concurrentes, MaxCruzadas)
      BY <1>1, <2>3 DEF CommunityInv
    <3> QED BY <3>1, CommunityConstants, HiloDice
  <2>4. ASSUME parte = "moderado"
        PROVE  Hub(Una, DeModerar, MaxSeguidas)!TrailExplains
    <3>1. UnHubInv(DeModerar, MaxSeguidas)
      BY <1>1, <2>4 DEF CommunityInv
    <3> QED BY <3>1, CommunityConstants, UnHubDice
  <2>5. ASSUME parte = "reportado"
        PROVE  Hub(Concurrentes, DeReportar, MaxReportadas)!ReportIsQueued
    <3>1. HubInv(Concurrentes, DeReportar, MaxReportadas)
      BY <1>1, <2>5 DEF CommunityInv
    <3> QED BY <3>1, CommunityConstants, HubDice
  <2>6. ASSUME parte = "escritas"
        PROVE  Bitacora(Una, Etiquetas, DeEscribir, MaxSeguidas)!OnlyAdminsRestore
    <3>1. UnBlogInv(Etiquetas, DeEscribir, MaxSeguidas)
      BY <1>1, <2>6 DEF CommunityInv
    <3> QED BY <3>1, CommunityConstants, UnBlogDice
  <2>7. ASSUME parte = "leidas"
        PROVE  Bitacora(Una, {}, DeLeer, MaxSeguidas)!OnlyAdminsRestore
               /\ Bitacora(Una, {}, DeLeer, MaxSeguidas)!IndexHasNoBanned
    <3>1. UnBlogInv({}, DeLeer, MaxSeguidas)
      BY <1>1, <2>7 DEF CommunityInv
    <3> QED BY <3>1, CommunityConstants, UnBlogDice
  <2>8. ASSUME parte = "comentadas"
        PROVE  Bitacora(Una, Etiquetas, DeComentar, MaxComentadas)!CountIsVisible
    <3>1. UnBlogInv(Etiquetas, DeComentar, MaxComentadas)
      BY <1>1, <2>8 DEF CommunityInv
    <3>2. "marcar" \notin DeComentar
      BY DEF DeComentar
    <3> QED BY <3>1, <3>2, UnBlogDice
  <2> QED BY <2>1, <2>2, <2>3, <2>4, <2>5, <2>6, <2>7, <2>8 DEF ModerationAgrees
<1> QED BY <1>1, CommunityInit, CommunityStep, PTL DEF Spec

\* What is closed stays closed and silent, a request at a time: a course that is not
\* open is public only if its form says so after the change of status, no reply goes to
\* a closed message or thread nor to a post that is closed or hidden, and a report that
\* was answered is listed.
THEOREM ClosedIsClosedTheorem == Spec => ClosedIsClosed
<1>1. ASSUME CommunityInv, [Next]_vars
      PROVE  /\ parte = "foro" => Foro!ClosedThreadStaysAsItIs /\ Foro!OnlyTheFormPublishes
             /\ parte = "hilo" =>
                /\ Hilo(Una, MaxSeguidas)!ClosedIsFinal
                /\ Hilo(Una, MaxSeguidas)!ClosedIsSilent
                /\ Hilo(Una, MaxSeguidas)!ReportIsListed
             /\ parte = "moderado" => Hub(Una, DeModerar, MaxSeguidas)!HiddenGetsNothing
  <2>1. ASSUME parte = "foro"
        PROVE  Foro!ClosedThreadStaysAsItIs /\ Foro!OnlyTheFormPublishes
    <3>1. ForoInv /\ [Foro!Next]_(Foro!vars)
      BY <1>1, <2>1, CommunityPart DEF CommunityInv
    <3> QED BY <3>1, CommunityConstants, ForoCalla, ForoPublica
  <2>2. ASSUME parte = "hilo"
        PROVE  /\ Hilo(Una, MaxSeguidas)!ClosedIsFinal
               /\ Hilo(Una, MaxSeguidas)!ClosedIsSilent
               /\ Hilo(Una, MaxSeguidas)!ReportIsListed
    <3>1. UnHiloInv /\ [Hilo(Una, MaxSeguidas)!Next]_(Hilo(Una, MaxSeguidas)!vars)
      BY <1>1, <2>2, CommunityPart DEF CommunityInv
    <3> QED BY <3>1, CommunityConstants, UnHiloCalla
  <2>3. ASSUME parte = "moderado"
        PROVE  Hub(Una, DeModerar, MaxSeguidas)!HiddenGetsNothing
    <3>1. UnHubInv(DeModerar, MaxSeguidas) /\ [Hub(Una, DeModerar, MaxSeguidas)!Next]_(Hub(Una, DeModerar, MaxSeguidas)!vars)
      BY <1>1, <2>3, CommunityPart DEF CommunityInv
    <3> QED BY <3>1, CommunityConstants, UnHubCalla
  <2> QED BY <2>1, <2>2, <2>3
<1> QED BY <1>1, CommunityInit, CommunityStep, PTL DEF Spec, ClosedIsClosed

\* What is written counts as it was meant: only what a page showed is marked as read and
\* the replies of one member do not make a post trend, through any number of requests;
\* the synchronisation of the default pages keeps the words of administrators and
\* corrects the rest, and through any number of requests it shows and moves no page.
THEOREM WritingCountsTheorem == Spec => WritingCounts
<1>1. ASSUME CommunityInv, [Next]_vars
      PROVE  /\ parte = "hilo_cruzado" => Hilo(Concurrentes, MaxCruzadas)!ReadWasSeen
             /\ parte = "destacado" => Hub(Concurrentes, DeDestacar, MaxDestacadas)!SpamIsWorthless
             /\ parte = "sincronizadas" =>
                /\ Sitio(Una, Predeterminadas, Idiomas, {}, MaxSincronizadas)!EditedPagesAreKept
                /\ Sitio(Una, Predeterminadas, Idiomas, {}, MaxSincronizadas)!SynchronisedAreCurrent
             /\ parte = "visitadas" => Sitio(Concurrentes, Primeras, Enviados, Visitas, MaxVisitadas)!HiddenStayHidden
  <2>1. ASSUME parte = "hilo_cruzado"
        PROVE  Hilo(Concurrentes, MaxCruzadas)!ReadWasSeen
    <3>1. HiloInv(Concurrentes, MaxCruzadas) /\ [Hilo(Concurrentes, MaxCruzadas)!Next]_(Hilo(Concurrentes, MaxCruzadas)!vars)
      BY <1>1, <2>1, CommunityPart DEF CommunityInv
    <3> QED BY <3>1, CommunityConstants, HiloVisto
  <2>2. ASSUME parte = "destacado"
        PROVE  Hub(Concurrentes, DeDestacar, MaxDestacadas)!SpamIsWorthless
    <3>1. HubInv(Concurrentes, DeDestacar, MaxDestacadas) /\ [Hub(Concurrentes, DeDestacar, MaxDestacadas)!Next]_(Hub(Concurrentes, DeDestacar, MaxDestacadas)!vars)
      BY <1>1, <2>2, CommunityPart DEF CommunityInv
    <3> QED BY <3>1, CommunityConstants, HubSpam
  <2>3. ASSUME parte = "sincronizadas"
        PROVE  /\ Sitio(Una, Predeterminadas, Idiomas, {}, MaxSincronizadas)!EditedPagesAreKept
               /\ Sitio(Una, Predeterminadas, Idiomas, {}, MaxSincronizadas)!SynchronisedAreCurrent
    <3>1. UnSitioInv(Predeterminadas, Idiomas, {}, MaxSincronizadas) /\ [Sitio(Una, Predeterminadas, Idiomas, {}, MaxSincronizadas)!Next]_(Sitio(Una, Predeterminadas, Idiomas, {}, MaxSincronizadas)!vars)
      BY <1>1, <2>3, CommunityPart DEF CommunityInv
    <3> QED BY <3>1, CommunityConstants, UnSitioCorrige
  <2>4. ASSUME parte = "visitadas"
        PROVE  Sitio(Concurrentes, Primeras, Enviados, Visitas, MaxVisitadas)!HiddenStayHidden
    <3>1. SitioInv(Concurrentes, Primeras, Enviados, Visitas, MaxVisitadas) /\ [Sitio(Concurrentes, Primeras, Enviados, Visitas, MaxVisitadas)!Next]_(Sitio(Concurrentes, Primeras, Enviados, Visitas, MaxVisitadas)!vars)
      BY <1>1, <2>4, CommunityPart DEF CommunityInv
    <3> QED BY <3>1, CommunityConstants, SitioEscondidas
  <2> QED BY <2>1, <2>2, <2>3, <2>4
<1> QED BY <1>1, CommunityInit, CommunityStep, PTL DEF Spec, WritingCounts
===============================================================================
