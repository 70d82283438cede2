---------------------------- MODULE CourseProgress ----------------------------
(***************************************************************************)
(* A student's way through one course: resources marked as completed, the  *)
(* summary row that rolls them up (vistas/courses/helpers.py), and the     *)
(* certificate issued when the summary and the evaluations allow it.  A    *)
(* request is split where another one can commit between two of its SQL    *)
(* statements; the database is READ COMMITTED and a commit is atomic.      *)
(***************************************************************************)
EXTENDS Naturals, FiniteSets

CONSTANTS
    Estudiantes,   \* students
    Auditores,     \* those whose payment is an audit
    Recursos,      \* ids a resource of the course can have
    Evaluaciones,  \* ids an evaluation of the course can have
    Peticiones,    \* requests in flight; a slot also names the row it inserts
    Topes,         \* values of Evaluation.max_attempts; 0 stands for NULL
    Cascada,       \* the database enforces ON DELETE CASCADE (SQLite does not)
    Recertifica,   \* the course's certificates must expire
    MaxIntentos,   \* bound: a student with so many attempts starts no other
    MaxCertificados, \* bound: a student with so many certificates starts nothing
    MaxEdiciones,  \* bound: changes by the instructor
    MaxCaidas,     \* bound: requests that die half way
    Nada           \* NULL

\* What an instance assumes of its constants.
ProgressAssumption ==
    /\ IsFiniteSet(Recursos)
    /\ Auditores \subseteq Estudiantes
    /\ Topes \subseteq Nat
    /\ Cascada \in BOOLEAN /\ Recertifica \in BOOLEAN
    /\ {MaxIntentos, MaxCertificados, MaxEdiciones, MaxCaidas} \subseteq Nat
    /\ Nada \notin Estudiantes \cup Recursos \cup Evaluaciones \cup Peticiones

VARIABLES
    curso,         \* Curso.certificado and plantilla_certificado; never edited here
    matricula,     \* EstudianteCurso: no row, vigente, not vigente
    recursos,      \* CursoRecurso.requerido
    avances,       \* CursoRecursoAvance rows; UNIQUE(usuario, curso, recurso)
    resumenes,     \* CursoUsuarioAvance rows by the request that inserted them
    evaluaciones,  \* Evaluation rows
    intentos,      \* EvaluationAttempt rows, counted
    solicitudes,   \* pending EvaluationReopenRequest rows, counted
    certificados,  \* Certificacion rows, counted by whether they expire
    peticion,      \* local state of the requests
    ediciones,
    caidas

progreso == <<matricula, avances, resumenes>>
examenes == <<evaluaciones, intentos, solicitudes>>
vars == <<curso, recursos, progreso, examenes, certificados, peticion, ediciones, caidas>>

Avance == [completado: BOOLEAN, requerido: {"required", "optional", Nada}]
Evaluacion == [max_attempts: Topes, abierta: BOOLEAN]
Intentos == [n: Nat, aprobada: BOOLEAN]
Certificados == [vencen: Nat, permanentes: Nat]
Peticion ==
    [pc: {"libre", "indice", "marca", "resumen", "crear", "requeridos",
          "completados", "guardar", "elegible", "emitir", "intento", "aprobo",
          "avance", "otorgar", "reabrir"},
     usuario: Estudiantes \cup {Nada},
     recurso: Recursos \cup {Nada},
     evaluacion: Evaluaciones \cup {Nada},
     banderas: [Recursos -> {"required", "optional", Nada}],
                                        \* CursoRecurso.requerido as read; Nada: no row to write
     leida: BOOLEAN,                    \* the progress row was found
     fila: Peticiones \cup {Nada},      \* the summary row held
     requeridos: Nat, completados: Nat, \* counts read
     elegible: BOOLEAN,                 \* the answer about the certificate
     instructor: BOOLEAN]               \* issued by hand

Libre == [pc |-> "libre", usuario |-> Nada, recurso |-> Nada, evaluacion |-> Nada,
          banderas |-> [x \in Recursos |-> Nada], leida |-> FALSE, fila |-> Nada, requeridos |-> 0,
          completados |-> 0, elegible |-> FALSE, instructor |-> FALSE]

\* and of Nada, which is no row and no flag.
ProgressNull == Nada \notin Avance \cup Evaluacion \cup {"required", "optional"}

TypeOK ==
    /\ curso \in [certificado: BOOLEAN, plantilla: BOOLEAN]
    /\ matricula \in [Estudiantes -> {"ninguna", "vigente", "baja"}]
    /\ recursos \in [Recursos -> {"ausente", "borrado", "required", "optional"}]
    /\ avances \in [Estudiantes -> [Recursos -> Avance \cup {Nada}]]
    /\ resumenes \in [Estudiantes -> [Peticiones -> {"no", "parcial", "completo"}]]
    /\ evaluaciones \in [Evaluaciones -> Evaluacion \cup {Nada}]
    /\ intentos \in [Estudiantes -> [Evaluaciones -> Intentos]]
    /\ solicitudes \in [Estudiantes -> [Evaluaciones -> Nat]]
    /\ certificados \in [Estudiantes -> Certificados]
    /\ peticion \in [Peticiones -> Peticion]
    /\ ediciones \in 0..MaxEdiciones
    /\ caidas \in 0..MaxCaidas

----------------------------------------
(* Queries *)

EnCurso(x) == recursos[x] \in {"required", "optional"}
Requeridos == {x \in Recursos : recursos[x] = "required"}

\* Rows that count: completed, and flagged as required when they were created.
Completados(s) == {x \in Recursos : /\ avances[s][x] # Nada
                                    /\ avances[s][x].completado
                                    /\ avances[s][x].requerido = "required"}

\* Mutation: a resource more than required is asked for.
AlcanzaDeMas(completados, requeridos) == completados > requeridos

\* completed / (required or 1) * 100 >= 100
Alcanza(completados, requeridos) == completados >= 1 /\ completados >= requeridos

Filas(s) == {f \in Peticiones : resumenes[s][f] # "no"}

\* check_user_evaluations_completed.  It asks for one evaluation after the
\* other; passing is never undone, so its answer is the one of a single moment.
EvaluacionesAprobadas(s) ==
    \A e \in Evaluaciones : evaluaciones[e] # Nada => intentos[s][e].aprobada

\* An UPDATE waits for the request that flushed the same row and has not committed.
SinBloqueo(r) ==
    \A q \in Peticiones : q # r => ~(/\ peticion[q].pc \in {"elegible", "emitir"}
                                     /\ peticion[q].usuario = peticion[r].usuario
                                     /\ peticion[q].fila = peticion[r].fila
                                     /\ peticion[q].fila # Nada)

Terminar(r) == peticion' = [peticion EXCEPT ![r] = Libre]
Avanzar(r, pc) == peticion' = [peticion EXCEPT ![r].pc = pc]

HayLugar(s) == certificados[s].vencen + certificados[s].permanentes < MaxCertificados

----------------------------------------
(* Enrollment and its progress index *)

\* Mutation: resources that are not in the course are indexed as well.
SinFilaTodos(s) == [x \in Recursos |-> IF avances[s][x] = Nada THEN recursos[x] ELSE Nada]

\* The flags of the resources the student has no progress row for.
SinFila(s) ==
    [x \in Recursos |-> IF EnCurso(x) /\ avances[s][x] = Nada THEN recursos[x] ELSE Nada]

\* The enrollment is committed; the index follows in a second transaction.
Matricular(r, s) ==
    /\ peticion[r].pc = "libre"
    /\ matricula[s] # "vigente"
    /\ matricula' = [matricula EXCEPT ![s] = "vigente"]
    /\ peticion' = [peticion EXCEPT ![r] =
           [Libre EXCEPT !.pc = "indice", !.usuario = s,
                         !.banderas = SinFila(s)]]
    /\ UNCHANGED <<curso, recursos, avances, resumenes, examenes, certificados,
                   ediciones, caidas>>

\* A row that exists by now, or a resource that is gone where foreign keys are
\* enforced, fails the whole index.
CrearIndice(r) ==
    LET q == peticion[r]
        faltan == {x \in Recursos : q.banderas[x] # Nada}
        ok == \A x \in faltan : avances[q.usuario][x] = Nada /\ (Cascada => EnCurso(x))
    IN
    /\ q.pc = "indice"
    /\ avances' = IF ~ok THEN avances
                  ELSE [avances EXCEPT ![q.usuario] =
                           [x \in Recursos |-> IF x \in faltan
                              THEN [completado |-> FALSE, requerido |-> q.banderas[x]]
                              ELSE avances[q.usuario][x]]]
    /\ Terminar(r)
    /\ UNCHANGED <<curso, recursos, matricula, resumenes, examenes, certificados,
                   ediciones, caidas>>

DarDeBaja(s) ==
    /\ matricula[s] = "vigente"
    /\ matricula' = [matricula EXCEPT ![s] = "baja"]
    /\ UNCHANGED <<curso, recursos, avances, resumenes, examenes, certificados,
                   peticion, ediciones, caidas>>

----------------------------------------
(* Marking a resource as completed *)

MarcarRecurso(r, s, x) ==
    /\ peticion[r].pc = "libre"
    /\ matricula[s] = "vigente" /\ EnCurso(x)
    /\ HayLugar(s)
    /\ peticion' = [peticion EXCEPT ![r] =
           [Libre EXCEPT !.pc = "marca", !.usuario = s, !.recurso = x,
                         !.banderas = [Libre.banderas EXCEPT ![x] = recursos[x]],
                         !.leida = (avances[s][x] # Nada)]]
    /\ UNCHANGED <<curso, recursos, progreso, examenes, certificados, ediciones, caidas>>

\* Mutation: the flag is not copied from the resource.
MarcaSinBandera(a, leida, requerido) ==
    [completado |-> TRUE, requerido |-> IF leida THEN a.requerido ELSE Nada]

\* A missing flag is repaired; a new row copies it from the resource.
Marca(a, leida, requerido) ==
    [completado |-> TRUE,
     requerido |-> IF leida /\ a.requerido # Nada THEN a.requerido ELSE requerido]

\* The UPDATE of a row deleted meanwhile, a second insert, and an insert for a
\* deleted resource where foreign keys are enforced end the request.
GuardarMarca(r) ==
    LET q == peticion[r]
        a == avances[q.usuario][q.recurso]
    IN
    /\ q.pc = "marca"
    /\ IF (a # Nada) # q.leida \/ (~q.leida /\ Cascada /\ ~EnCurso(q.recurso))
       THEN Terminar(r) /\ UNCHANGED avances
       ELSE /\ avances' = [avances EXCEPT ![q.usuario][q.recurso] =
                              Marca(a, q.leida, q.banderas[q.recurso])]
            /\ Avanzar(r, "resumen")
    /\ UNCHANGED <<curso, recursos, matricula, resumenes, examenes, certificados,
                   ediciones, caidas>>

\* _actualizar_avance_curso: the summary row is the first the query returns.
LeerResumen(r) ==
    LET q == peticion[r] IN
    /\ q.pc = "resumen"
    /\ \/ /\ Filas(q.usuario) = {}
          /\ Avanzar(r, "crear")
       \/ \E f \in Filas(q.usuario) :
             peticion' = [peticion EXCEPT ![r].pc = "requeridos", ![r].fila = f]
    /\ UNCHANGED <<curso, recursos, progreso, examenes, certificados, ediciones, caidas>>

\* Nothing keeps a second request from inserting one as well.
CrearResumen(r) ==
    LET q == peticion[r] IN
    /\ q.pc = "crear"
    /\ resumenes' = [resumenes EXCEPT ![q.usuario][r] = "parcial"]
    /\ peticion' = [peticion EXCEPT ![r].pc = "requeridos", ![r].fila = r]
    /\ UNCHANGED <<curso, recursos, matricula, avances, examenes, certificados,
                   ediciones, caidas>>

ContarRequeridos(r) ==
    /\ peticion[r].pc = "requeridos"
    /\ peticion' = [peticion EXCEPT ![r].pc = "completados",
                                    ![r].requeridos = Cardinality(Requeridos)]
    /\ UNCHANGED <<curso, recursos, progreso, examenes, certificados, ediciones, caidas>>

ContarCompletados(r) ==
    LET q == peticion[r] IN
    /\ q.pc = "completados"
    /\ peticion' = [peticion EXCEPT ![r].pc = "guardar",
                                    ![r].completados = Cardinality(Completados(q.usuario))]
    /\ UNCHANGED <<curso, recursos, progreso, examenes, certificados, ediciones, caidas>>

\* Below 100 % the row is saved with its numbers and completado is not touched.
\* At 100 % the UPDATE is flushed before the next query and held until commit.
GuardarResumen(r) ==
    LET q == peticion[r] IN
    /\ q.pc = "guardar"
    /\ SinBloqueo(r)
    /\ IF Alcanza(q.completados, q.requeridos)
       THEN Avanzar(r, IF curso.certificado THEN "elegible" ELSE "emitir")
       ELSE Terminar(r)
    /\ UNCHANGED <<curso, recursos, progreso, examenes, certificados, ediciones, caidas>>

\* can_user_receive_certificate inside the transaction: it sees its own UPDATE,
\* but its query may return another row of the student.
RevisarElegible(r) ==
    LET q == peticion[r] IN
    /\ q.pc = "elegible"
    /\ \E f \in Filas(q.usuario) :
          peticion' = [peticion EXCEPT ![r].pc = "emitir",
              ![r].elegible = /\ EvaluacionesAprobadas(q.usuario)
                              /\ f = q.fila \/ resumenes[q.usuario][f] = "completo"]
    /\ UNCHANGED <<curso, recursos, progreso, examenes, certificados, ediciones, caidas>>

\* _emitir_certificado sets no expires_at.
Emitido(s) == [certificados EXCEPT ![s].permanentes = @ + 1]

\* certificacion_crear computes it from the rules of the course.
EmitidoPorInstructor(s) ==
    IF Recertifica THEN [certificados EXCEPT ![s].vencen = @ + 1] ELSE Emitido(s)

\* The summary and the certificate are one commit.  Without a template the
\* insert fails and takes the summary with it.
EmitirCertificado(r) ==
    LET q == peticion[r] IN
    /\ q.pc = "emitir"
    /\ IF q.elegible /\ ~curso.plantilla
       THEN UNCHANGED <<resumenes, certificados>>
       ELSE /\ resumenes' = [resumenes EXCEPT ![q.usuario][q.fila] = "completo"]
            /\ certificados' = IF q.elegible THEN Emitido(q.usuario) ELSE certificados
    /\ Terminar(r)
    /\ UNCHANGED <<curso, recursos, matricula, avances, examenes, ediciones, caidas>>

=============================================================================
