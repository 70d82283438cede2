----------------------------- MODULE Enrollment -----------------------------
(***************************************************************************)
(* Enrolling in a course (vistas/courses/enrollment.py) and enrolling or   *)
(* removing a student by hand (vistas/courses/base.py).  A view is split   *)
(* where another request can commit between two of its statements: pricing *)
(* and guards, the lookup of the enrollment row, the commit, and the       *)
(* second commit that writes the progress index.                           *)
(***************************************************************************)
EXTENDS Coupons

\* _check_unverified_email_restriction
Restringido(s) == curso.pagado /\ s \in NoVerificados

\* _calculate_enrollment_pricing; a code that is refused leaves the full price.
Aplicado(s, usaCupon) ==
    IF usaCupon /\ curso.pagado /\ CouponAccepted(s) THEN cupon.id ELSE 0
FinalPrice(s, usaCupon) ==
    IF ~curso.pagado THEN 0
    ELSE IF Aplicado(s, usaCupon) = 0 THEN curso.precio
    ELSE calculate_final_price(cupon, curso.precio)

EsGratis(s, usaCupon) == FinalPrice(s, usaCupon) = 0
EsAuditoria(modo) == modo = "audit" /\ curso.auditable

\* Mutation: nobody looks for a live enrollment first.
YaInscritoIgnorado(s) == FALSE

\* Enrolling again, free or as an auditor, does nothing.
YaInscrito(s) == Activa(s)

Solicitar(r, s, pc, metodo, monto, usaCupon) ==
    peticion' = [peticion EXCEPT ![r] =
        [Libre EXCEPT !.pc = pc, !.usuario = s, !.metodo = metodo,
                      !.monto = monto, !.audit = (metodo = "audit"),
                      !.cupon = Aplicado(s, usaCupon),
                      !.usos = IF metodo = "free" /\ Aplicado(s, usaCupon) # 0
                               THEN cupon.current_uses ELSE 0]]

EnrollFree(r, s, usaCupon) ==
    /\ peticion[r].pc = "idle"
    /\ ~Restringido(s) /\ ~YaInscrito(s)
    /\ EsGratis(s, usaCupon)
    /\ Solicitar(r, s, "lookup", "free", 0, usaCupon)
    /\ UNCHANGED <<curso, cupon, pagos, inscripcion, indice, ordenes, pagina,
                   ediciones, caidas>>

EnrollAudit(r, s, usaCupon) ==
    /\ peticion[r].pc = "idle"
    /\ ~Restringido(s) /\ ~YaInscrito(s)
    /\ ~EsGratis(s, usaCupon) /\ EsAuditoria("audit")
    /\ Solicitar(r, s, "lookup", "audit", 0, usaCupon)
    /\ UNCHANGED <<curso, cupon, pagos, inscripcion, indice, ordenes, pagina,
                   ediciones, caidas>>

\* _process_paid_enrollment: a pending payment is resumed, and the price just
\* calculated, with a code or without, is dropped; resume_payment leads to the
\* payment page without a payment id, which shows the list price.
EnrollResumes(r, s) ==
    /\ peticion[r].pc = "idle"
    /\ ~Restringido(s) /\ ~EsGratis(s, FALSE)
    /\ Pendientes(s) # {}
    /\ pagina' = [pagina EXCEPT ![s] = curso.precio]
    /\ UNCHANGED <<curso, cupon, pagos, inscripcion, indice, ordenes, peticion,
                   ediciones, caidas>>

EnrollPaid(r, s, modo, usaCupon) ==
    /\ peticion[r].pc = "idle"
    /\ ~Restringido(s)
    /\ ~EsGratis(s, usaCupon) /\ ~EsAuditoria(modo)
    /\ Pendientes(s) = {}
    /\ Solicitar(r, s, "pending", "paypal", FinalPrice(s, usaCupon), usaCupon)
    /\ UNCHANGED <<curso, cupon, pagos, inscripcion, indice, ordenes, pagina,
                   ediciones, caidas>>

\* Mutation: the free payment keeps the state of a pending one.
PagoSinCompletar(q, estado) ==
    [usuario |-> q.usuario, estado |-> "pending", monto |-> q.monto,
     metodo |-> q.metodo, referencia |-> q.orden, cupon |-> q.cupon # 0,
     audit |-> q.audit]

NuevoPago(q, estado) ==
    [usuario |-> q.usuario, estado |-> estado, monto |-> q.monto,
     metodo |-> q.metodo, referencia |-> q.orden, cupon |-> q.cupon # 0,
     audit |-> q.audit]

\* The pending payment is committed and the browser follows the redirect to
\* its payment page.
CommitPending(r) ==
    LET q == peticion[r] IN
    /\ q.pc = "pending"
    /\ IF HayPagoLibre
       THEN /\ pagos' = [pagos EXCEPT ![PagoNuevo] = NuevoPago(q, "pending")]
            /\ pagina' = [pagina EXCEPT ![q.usuario] = q.monto]
       ELSE UNCHANGED <<pagos, pagina>>
    /\ Terminar(r)
    /\ UNCHANGED <<curso, cupon, inscripcion, indice, ordenes, ediciones, caidas>>

\* The query for the row autoflushes the coupon's UPDATE, which waits for the
\* coupon's row and fails when it is gone.
LookupEnrollment(r) ==
    LET q == peticion[r] IN
    /\ q.pc = "lookup"
    /\ Cuenta(q) => CouponUnlocked(r)
    /\ IF Cuenta(q) /\ ~(cupon.existe /\ cupon.id = q.cupon)
       THEN Terminar(r)
       ELSE peticion' = [peticion EXCEPT ![r].pc = "enroll",
                                         ![r].leida = Leer(q.usuario)]
    /\ UNCHANGED <<curso, cupon, pagos, inscripcion, indice, ordenes, pagina,
                   ediciones, caidas>>

\* Mutation: the payment is committed before the enrollment is added.
PayOnly(s, leida, p, pago) ==
    pagos' = [pagos EXCEPT ![p] = pago] /\ UNCHANGED inscripcion

\* Payment and enrollment are one transaction: both are written, or the
\* unique constraint refuses the row and neither is.
PayAndEnroll(s, leida, p, pago) ==
    /\ pagos' = [pagos EXCEPT ![p] = pago]
    /\ inscripcion' = [inscripcion EXCEPT ![s] = FilaGuardada(s, leida, p)]

\* _finalize_completed_enrollment: the coupon's count is what the request read
\* plus one.
CommitEnrollment(r) ==
    LET q == peticion[r] IN
    /\ q.pc = "enroll"
    /\ IF RolledBack(q.usuario, q.leida)
       THEN Terminar(r) /\ UNCHANGED <<pagos, inscripcion, cupon>>
       ELSE /\ PayAndEnroll(q.usuario, q.leida, PagoNuevo, NuevoPago(q, "completed"))
            /\ cupon' = IF Cuenta(q) THEN [cupon EXCEPT !.current_uses = q.usos + 1]
                        ELSE cupon
            /\ Avanzar(r, "index")
    /\ UNCHANGED <<curso, indice, ordenes, pagina, ediciones, caidas>>

----------------------------------------
(* Administrative enrollment *)

\* _enrollment_student: a live enrollment is refused, an inactive row is not seen.
AdminEnroll(r, s, bypass) ==
    /\ peticion[r].pc = "idle"
    /\ ~YaInscrito(s)
    /\ peticion' = [peticion EXCEPT ![r] =
           [Libre EXCEPT !.pc = "admin", !.usuario = s,
                         !.metodo = "admin_enrollment",
                         !.monto = IF bypass THEN 0 ELSE curso.precio,
                         !.audit = ~bypass /\ curso.pagado]]
    /\ UNCHANGED <<curso, cupon, pagos, inscripcion, indice, ordenes, pagina,
                   ediciones, caidas>>

\* _persist_admin_enrollment always inserts; the view catches the error.
CommitAdminEnrollment(r) ==
    LET q == peticion[r] IN
    /\ q.pc = "admin"
    /\ IF RolledBack(q.usuario, "ninguna")
       THEN Terminar(r) /\ UNCHANGED <<pagos, inscripcion>>
       ELSE /\ PayAndEnroll(q.usuario, "ninguna", PagoNuevo, NuevoPago(q, "completed"))
            /\ Avanzar(r, "index_admin")
    /\ UNCHANGED <<curso, cupon, indice, ordenes, pagina, ediciones, caidas>>

\* Mutation: the enrollment and its payment are deleted.
AdminPurges(s) ==
    /\ Activa(s)
    /\ pagos' = [pagos EXCEPT ![inscripcion[s].pago] = Nada]
    /\ inscripcion' = [inscripcion EXCEPT ![s] = Nada]
    /\ UNCHANGED <<curso, cupon, indice, ordenes, pagina, peticion, ediciones,
                   caidas>>

\* The row is kept and marked.
AdminUnenroll(s) ==
    /\ Activa(s)
    /\ inscripcion' = [inscripcion EXCEPT ![s].vigente = FALSE]
    /\ UNCHANGED <<curso, cupon, pagos, indice, ordenes, pagina, peticion,
                   ediciones, caidas>>

\* _crear_indice_avance_curso indexes current_user: the student who enrolls,
\* but the instructor when the enrollment is administrative.
CreateIndex(r) ==
    LET q == peticion[r] IN
    /\ q.pc \in {"index", "index_admin"}
    /\ indice' = indice \cup {IF q.pc = "index" THEN q.usuario ELSE Personal}
    /\ Terminar(r)
    /\ UNCHANGED <<curso, cupon, pagos, inscripcion, ordenes, pagina, ediciones,
                   caidas>>

EditCourse(c) ==
    /\ ediciones < MaxEdiciones
    /\ c # curso
    /\ curso' = c
    /\ ediciones' = ediciones + 1
    /\ UNCHANGED <<cupon, pagos, inscripcion, indice, ordenes, pagina, peticion,
                   caidas>>

EnrollmentNext ==
    \/ \E r \in Peticiones, s \in Estudiantes, b \in BOOLEAN :
          \/ EnrollFree(r, s, b)
          \/ EnrollAudit(r, s, b)
          \/ EnrollResumes(r, s)
          \/ \E modo \in {"", "audit"} : EnrollPaid(r, s, modo, b)
          \/ AdminEnroll(r, s, b)
    \/ \E r \in Peticiones :
          \/ CommitPending(r)
          \/ LookupEnrollment(r)
          \/ CommitEnrollment(r)
          \/ CommitAdminEnrollment(r)
          \/ CreateIndex(r)
    \/ \E s \in Estudiantes : AdminUnenroll(s)
    \/ \E c \in Cursos : EditCourse(c)

=============================================================================
