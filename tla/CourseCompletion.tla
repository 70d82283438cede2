--------------------------- MODULE CourseCompletion ---------------------------
(***************************************************************************)
(* Progress, evaluations and certificates of one course together, with the *)
(* changes the instructor makes to the course meanwhile and requests that  *)
(* die half way.                                                           *)
(***************************************************************************)
EXTENDS Evaluations

Vacio == [completado |-> FALSE, requerido |-> Nada]

\* A course with its resources and evaluations.  Rows written before the flag
\* existed carry none.
Init ==
    /\ curso \in [certificado: BOOLEAN, plantilla: BOOLEAN]
    /\ matricula = [s \in Estudiantes |-> "ninguna"]
    /\ recursos \in [Recursos -> {"ausente", "required", "optional"}]
    /\ \E antiguas \in SUBSET Recursos :
          /\ \A x \in antiguas : EnCurso(x)
          /\ avances = [s \in Estudiantes |-> [x \in Recursos |->
                           IF x \in antiguas THEN Vacio ELSE Nada]]
    /\ resumenes = [s \in Estudiantes |-> [f \in Peticiones |-> "no"]]
    /\ evaluaciones \in [Evaluaciones -> Evaluacion \cup {Nada}]
    /\ intentos = [s \in Estudiantes |-> [e \in Evaluaciones |-> [n |-> 0, aprobada |-> FALSE]]]
    /\ solicitudes = [s \in Estudiantes |-> [e \in Evaluaciones |-> 0]]
    /\ certificados = [s \in Estudiantes |-> [vencen |-> 0, permanentes |-> 0]]
    /\ peticion = [r \in Peticiones |-> Libre]
    /\ ediciones = 0
    /\ caidas = 0

----------------------------------------
(* The instructor *)

Editar == ediciones < MaxEdiciones /\ ediciones' = ediciones + 1

\* The forms of every kind of resource.
NuevoRecurso(x, requerido) ==
    /\ Editar
    /\ recursos[x] = "ausente"
    /\ recursos' = [recursos EXCEPT ![x] = requerido]
    /\ UNCHANGED <<curso, progreso, examenes, certificados, peticion, caidas>>

\* The progress rows keep the flag they were created with.
EditarRecurso(x, requerido) ==
    /\ Editar
    /\ EnCurso(x) /\ recursos[x] # requerido
    /\ recursos' = [recursos EXCEPT ![x] = requerido]
    /\ UNCHANGED <<curso, progreso, examenes, certificados, peticion, caidas>>

\* The database removes the progress rows, or leaves them where it does not
\* enforce foreign keys.
EliminarRecurso(x) ==
    /\ Editar
    /\ EnCurso(x)
    /\ recursos' = [recursos EXCEPT ![x] = "borrado"]
    /\ avances' = IF Cascada
                  THEN [s \in Estudiantes |-> [avances[s] EXCEPT ![x] = Nada]]
                  ELSE avances
    /\ UNCHANGED <<curso, matricula, resumenes, examenes, certificados, peticion, caidas>>

NuevaEvaluacion(e, tope) ==
    /\ Editar
    /\ evaluaciones[e] = Nada
    /\ evaluaciones' = [evaluaciones EXCEPT ![e] = [max_attempts |-> tope, abierta |-> TRUE]]
    /\ UNCHANGED <<curso, recursos, progreso, intentos, solicitudes, certificados,
                   peticion, caidas>>

EditarEvaluacion(e, tope) ==
    /\ Editar
    /\ evaluaciones[e] # Nada /\ evaluaciones[e].max_attempts # tope
    /\ evaluaciones' = [evaluaciones EXCEPT ![e].max_attempts = tope]
    /\ UNCHANGED <<curso, recursos, progreso, intentos, solicitudes, certificados,
                   peticion, caidas>>

AlternarEvaluacion(e) ==
    /\ Editar
    /\ evaluaciones[e] # Nada
    /\ evaluaciones' = [evaluaciones EXCEPT ![e].abierta = ~@]
    /\ UNCHANGED <<curso, recursos, progreso, intentos, solicitudes, certificados,
                   peticion, caidas>>

----------------------------------------

\* A worker dies; what it had not committed is rolled back.
Caer(r) ==
    /\ caidas < MaxCaidas
    /\ peticion[r].pc # "libre"
    /\ caidas' = caidas + 1
    /\ Terminar(r)
    /\ UNCHANGED <<curso, recursos, progreso, examenes, certificados, ediciones>>

Llega(r) ==
    \E s \in Estudiantes :
       \/ Matricular(r, s)
       \/ CertificarAMano(r, s)
       \/ \E x \in Recursos : MarcarRecurso(r, s, x)
       \/ \E e \in Evaluaciones : TomarEvaluacion(r, s, e) \/ SolicitarReapertura(r, s, e)

Sigue(r) ==
    \/ CrearIndice(r)
    \/ GuardarMarca(r) \/ LeerResumen(r) \/ CrearResumen(r)
    \/ ContarRequeridos(r) \/ ContarCompletados(r)
    \/ GuardarResumen(r) \/ RevisarElegible(r) \/ EmitirCertificado(r)
    \/ \E b \in BOOLEAN : GuardarIntento(r, b)
    \/ RevisarEvaluaciones(r) \/ RevisarAvance(r) \/ Otorgar(r)
    \/ GuardarSolicitud(r)

Instructor ==
    \/ \E x \in Recursos :
          \/ \E q \in {"required", "optional"} : NuevoRecurso(x, q) \/ EditarRecurso(x, q)
          \/ EliminarRecurso(x)
    \/ \E e \in Evaluaciones :
          \/ \E t \in Topes : NuevaEvaluacion(e, t) \/ EditarEvaluacion(e, t)
          \/ AlternarEvaluacion(e)

Next ==
    \/ \E r \in Peticiones : Llega(r) \/ Sigue(r) \/ Caer(r)
    \/ \E s \in Estudiantes : DarDeBaja(s)
    \/ Instructor

Spec == Init /\ [][Next]_vars

----------------------------------------
(* Properties *)

Quieto == \A r \in Peticiones : peticion[r].pc = "libre"

TieneCertificado(s) == certificados[s].vencen + certificados[s].permanentes > 0

Hecho(s) == /\ Requeridos # {}
            /\ \A x \in Requeridos : avances[s][x] # Nada /\ avances[s][x].completado

\* A summary says completed, and a certificate exists, only for a student who
\* completed every required resource; a certificate also needs every evaluation
\* passed.  While the instructor changes nothing, whatever requests interleave
\* or die.  (_actualizar_avance_curso, can_user_receive_certificate)
CertificadoMerecido ==
    MaxEdiciones = 0 =>
    \A s \in Estudiantes :
       /\ (\E f \in Peticiones : resumenes[s][f] = "completo") => Requeridos \subseteq Completados(s)
       /\ TieneCertificado(s) => /\ Requeridos \subseteq Completados(s)
                                 /\ EvaluacionesAprobadas(s)

\* Two requests that complete the last two resources at once do not miss each
\* other: once all requests are answered the course of a student who did
\* everything is recorded as completed.  (_actualizar_avance_curso counts after
\* its own mark is committed; not so when a request died, or where the course
\* has no certificate template.)
CompletionNotLost ==
    /\ Quieto /\ caidas = 0 /\ MaxEdiciones = 0
    /\ curso.certificado => curso.plantilla
    => \A s \in Estudiantes : Hecho(s) => \E f \in Peticiones : resumenes[s][f] = "completo"

\* Every certificate is issued to a student whose course is recorded as
\* completed by then, by the roll-up, by an evaluation or by hand, even if the
\* instructor changes the course meanwhile.  (can_user_receive_certificate)
CertificateHadCompletion ==
    \A s \in Estudiantes : certificados'[s] # certificados[s]
          => \E f \in Peticiones : resumenes'[s][f] = "completo"

\* A student makes no more attempts than the evaluation allows.
\* (can_user_attempt_evaluation)
TopeRespetado ==
    \A s \in Estudiantes, e \in Evaluaciones :
       (evaluaciones[e] # Nada /\ evaluaciones[e].max_attempts # 0)
          => intentos[s][e].n <= evaluaciones[e].max_attempts

\* At most one request to reopen is pending, and only where every attempt is
\* used up and none passed.  (request_reopen)
ReaperturaUnica ==
    \A s \in Estudiantes, e \in Evaluaciones : solicitudes[s][e] > 0 =>
       /\ solicitudes[s][e] = 1
       /\ evaluaciones[e].max_attempts \in 1..intentos[s][e].n
       /\ ~intentos[s][e].aprobada

\* A student who completed the resources and passed the evaluations, in any
\* order, has the certificate once the requests are answered.
\* (_actualizar_avance_curso and _try_issue_certificate cover for each other)
CertificateNotForgotten ==
    Quieto /\ caidas = 0 /\ curso.certificado /\ curso.plantilla
    => \A s \in Estudiantes :
          (Hecho(s) /\ EvaluacionesAprobadas(s)) => TieneCertificado(s)

----------------------------------------
(* What the pages, the comments and the guides say, and the code does not keep:  *)
(* TLC finds a counterexample to each of the following.                          *)

\* "Para que un curso de considere finalizado un alumno debe completar todos los
\* recursos requeridos": when the roll-up records a course as completed, the
\* student has completed what is required at that moment.
CompletionCoversRequired ==
    \A s \in Estudiantes : resumenes'[s] # resumenes[s]
          => \A f \in Peticiones : (resumenes'[s][f] = "completo" /\ resumenes[s][f] # "completo")
                => \A x \in Requeridos : avances[s][x] # Nada /\ avances[s][x].completado

\* Certificates of a course that requires recertification expire.
CertificateExpires == Recertifica => \A s \in Estudiantes : certificados[s].permanentes = 0

\* Students who audit a course get no certificate.
AuditNotCertified == \A s \in Auditores : ~TieneCertificado(s)
=============================================================================
