----------------------------- MODULE Evaluations -----------------------------
(***************************************************************************)
(* Evaluations of a course (vistas/evaluations.py, evaluation_helpers.py   *)
(* and the evaluation forms of vistas/profiles/instructor.py): attempts    *)
(* against max_attempts, passing, the certificate that a passed evaluation *)
(* may bring, and requests to reopen one.                                  *)
(***************************************************************************)
EXTENDS CourseProgress

\* can_user_access_evaluation asks for an enrollment row, vigente or not.
TieneAcceso(s) == matricula[s] # "ninguna"

\* can_user_attempt_evaluation: max_attempts is not set, or not reached.
PuedeIntentar(s, e) ==
    evaluaciones[e].max_attempts # 0 => intentos[s][e].n < evaluaciones[e].max_attempts

TomarEvaluacion(r, s, e) ==
    /\ peticion[r].pc = "libre"
    /\ evaluaciones[e] # Nada /\ TieneAcceso(s)
    /\ evaluaciones[e].abierta /\ PuedeIntentar(s, e)
    /\ intentos[s][e].n < MaxIntentos /\ HayLugar(s)
    /\ peticion' = [peticion EXCEPT ![r] =
           [Libre EXCEPT !.pc = "intento", !.usuario = s, !.evaluacion = e]]
    /\ UNCHANGED <<curso, recursos, progreso, examenes, certificados, ediciones, caidas>>

\* The attempt, its answers and its score are one commit.
GuardarIntento(r, aprueba) ==
    LET q == peticion[r] IN
    /\ q.pc = "intento"
    /\ intentos' = [intentos EXCEPT ![q.usuario][q.evaluacion] =
           [n |-> @.n + 1, aprobada |-> @.aprobada \/ aprueba]]
    /\ IF aprueba THEN Avanzar(r, "aprobo") ELSE Terminar(r)
    /\ UNCHANGED <<curso, recursos, progreso, evaluaciones, solicitudes, certificados,
                   ediciones, caidas>>

----------------------------------------
(* Certificates outside the roll-up: after a passed evaluation, or by hand *)

\* certificacion_crear
CertificarAMano(r, s) ==
    /\ peticion[r].pc = "libre"
    /\ HayLugar(s)
    /\ peticion' = [peticion EXCEPT ![r] =
           [Libre EXCEPT !.pc = "aprobo", !.usuario = s, !.instructor = TRUE]]
    /\ UNCHANGED <<curso, recursos, progreso, examenes, certificados, ediciones, caidas>>

\* can_user_receive_certificate, first the evaluations ...
RevisarEvaluaciones(r) ==
    LET q == peticion[r] IN
    /\ q.pc = "aprobo"
    /\ IF EvaluacionesAprobadas(q.usuario) THEN Avanzar(r, "avance") ELSE Terminar(r)
    /\ UNCHANGED <<curso, recursos, progreso, examenes, certificados, ediciones, caidas>>

\* Mutation: a summary row is enough, completed or not.
ConAvance(s, f) == TRUE

CursoCompletado(s, f) == resumenes[s][f] = "completo"

\* ... then the summary, whichever row the query returns.
RevisarAvance(r) ==
    LET q == peticion[r] IN
    /\ q.pc = "avance"
    /\ \/ /\ Filas(q.usuario) = {}
          /\ Terminar(r)
       \/ \E f \in Filas(q.usuario) :
             IF CursoCompletado(q.usuario, f) THEN Avanzar(r, "otorgar") ELSE Terminar(r)
    /\ UNCHANGED <<curso, recursos, progreso, examenes, certificados, ediciones, caidas>>

\* _try_issue_certificate looks at the course first, the instructor's form does not.
Otorgar(r) ==
    LET q == peticion[r] IN
    /\ q.pc = "otorgar"
    /\ certificados' = IF q.instructor THEN EmitidoPorInstructor(q.usuario)
                       ELSE IF curso.certificado /\ curso.plantilla
                       THEN Emitido(q.usuario) ELSE certificados
    /\ Terminar(r)
    /\ UNCHANGED <<curso, recursos, progreso, examenes, ediciones, caidas>>

----------------------------------------
(* Reopening *)

\* Mutation: whether an attempt passed is not asked.
AgotadoSinMirar(s, e) ==
    /\ evaluaciones[e].max_attempts # 0
    /\ intentos[s][e].n >= evaluaciones[e].max_attempts

Agotado(s, e) ==
    /\ evaluaciones[e].max_attempts # 0
    /\ intentos[s][e].n >= evaluaciones[e].max_attempts
    /\ ~intentos[s][e].aprobada

SolicitarReapertura(r, s, e) ==
    /\ peticion[r].pc = "libre"
    /\ evaluaciones[e] # Nada /\ TieneAcceso(s)
    /\ Agotado(s, e)
    /\ solicitudes[s][e] = 0
    /\ peticion' = [peticion EXCEPT ![r] =
           [Libre EXCEPT !.pc = "reabrir", !.usuario = s, !.evaluacion = e]]
    /\ UNCHANGED <<curso, recursos, progreso, examenes, certificados, ediciones, caidas>>

\* The request is stored; no view answers it.
GuardarSolicitud(r) ==
    LET q == peticion[r] IN
    /\ q.pc = "reabrir"
    /\ solicitudes' = [solicitudes EXCEPT ![q.usuario][q.evaluacion] = @ + 1]
    /\ Terminar(r)
    /\ UNCHANGED <<curso, recursos, progreso, evaluaciones, intentos, certificados,
                   ediciones, caidas>>

=============================================================================
