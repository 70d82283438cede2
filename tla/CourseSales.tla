----------------------------- MODULE CourseSales -----------------------------
(***************************************************************************)
(* Selling seats in one course: enrollment, coupons and the PayPal         *)
(* checkout act on the same rows, from requests that interleave and may    *)
(* die between two statements.                                             *)
(***************************************************************************)
EXTENDS Enrollment, PaypalCheckout

\* A worker is killed, or a statement fails with a database error: what was
\* not committed is rolled back, what was committed stays.
Crash(r) ==
    /\ peticion[r].pc # "idle"
    /\ caidas < MaxCaidas
    /\ caidas' = caidas + 1
    /\ Terminar(r)
    /\ UNCHANGED <<curso, cupon, pagos, inscripcion, indice, ordenes, pagina,
                   ediciones>>

Next ==
    \/ EnrollmentNext
    \/ CheckoutNext
    \/ CouponNext
    \/ \E r \in Peticiones : Crash(r)

Spec == Init /\ [][Next]_vars

----------------------------------------
(* Safety, whatever the interleaving *)

\* A live enrollment rests on a completed payment of the same student:
\* nobody holds a seat without a Pago row that explains it
\* (enrollment.py:101-161, paypal.py:377-414, base.py:640-672).
ActiveSeatIsPaid ==
    \A s \in Estudiantes : Activa(s) =>
        /\ Completado(inscripcion[s].pago)
        /\ pagos[inscripcion[s].pago].usuario = s

\* A completed payment never exists without an enrollment row: they are
\* committed together, so a crash or a refused insert leaves neither
\* (enrollment.py:113-143, paypal.py:382-413).
PaymentBringsSeat ==
    \A p \in PagoIds : Completado(p) => inscripcion[pagos[p].usuario] # Nada

\* What the LMS books as paid through PayPal is money PayPal captured from
\* that student, for that amount, however often and in whatever order the
\* confirmations run (paypal.py:195-298, 301-374).
BookedMoneyWasCaptured ==
    \A p \in PagoIds : Completado(p) /\ pagos[p].metodo = "paypal" =>
        /\ pagos[p].referencia # Nada
        /\ ordenes[pagos[p].referencia] =
              [usuario |-> pagos[p].usuario, monto |-> pagos[p].monto]

\* Nobody gets a progress index for a course he was never enrolled in
\* (helpers.py:192-218 runs after the commit of the enrollment).
IndexFollowsSeat ==
    \A s \in indice \cap Estudiantes : inscripcion[s] # Nada

\* What a request carries is still true of the tables.
HoldsValidRows(q) ==
    /\ q.pc # "idle" => q.usuario \in Estudiantes
    /\ q.pc \in {"lookup", "enroll"} => q.metodo \in {"free", "audit"}
    /\ q.pc = "admin" => q.metodo = "admin_enrollment"
    /\ q.pc \in {"enroll", "pay"} /\ q.leida # "ninguna"
          => inscripcion[q.usuario] # Nada
    /\ q.pc = "index" => inscripcion[q.usuario] # Nada
    /\ q.pc \in {"record", "flush", "pay"} =>
          /\ q.orden \in Ordenes
          /\ ordenes[q.orden] # Nada
          /\ ordenes[q.orden] = [usuario |-> q.usuario, monto |-> q.monto]
          /\ q.pago # Nada => /\ Existe(q.pago)
                              /\ pagos[q.pago].usuario = q.usuario
                              /\ pagos[q.pago].monto = q.monto
    /\ q.pc = "coupon" => /\ q.pago \in PagoIds
                          /\ Completado(q.pago)
                          /\ pagos[q.pago].usuario = q.usuario

\* What a request read before other requests committed still holds when it
\* writes: its student keeps the enrollment row it saw, its order is a capture
\* of that student, and the payment it fills in is his and of that amount.
RequestKeepsItsRows == \A r \in Peticiones : HoldsValidRows(peticion[r])

\* A completed payment is final: no later step, however stale the data it
\* read, makes it pending again or changes who paid and how much.
CompletedPaymentIsFinal ==
    [][\A p \in PagoIds : Completado(p) =>
          /\ Completado(p)'
          /\ pagos'[p].usuario = pagos[p].usuario
          /\ pagos'[p].monto = pagos[p].monto]_vars

----------------------------------------
(* Safety, when the requests are served one at a time *)

CuponesCobrados ==
    {p \in PagoIds : Completado(p) /\ pagos[p].cupon /\ pagos[p].metodo # "audit"}

\* The coupon is never counted more often than it was used: a retried
\* confirmation and a crash between the two commits do not add a use
\* (enrollment.py:115-116, paypal.py:417-438).
CouponNotOvercounted == cupon.current_uses <= Cardinality(CuponesCobrados)

\* An order is booked at most once, whatever is retried (paypal.py:301-374).
OrderBookedOnce ==
    \A o \in Ordenes : Cardinality(Registrados(o)) <= 1

\* A booked order stays booked: no confirmation takes over the payment that
\* records another order.
BookedOrderStaysBooked ==
    [][\A o \in Ordenes : Registrados(o) # {} => Registrados(o)' # {}]_vars

\* A seat that was paid for is not turned into an audit seat while it is
\* live (enrollment.py:230-235 lets only the paid path touch a live seat).
PaidSeatNotDowngraded ==
    [][\A s \in Estudiantes :
          Activa(s) /\ Activa(s)' /\ ~pagos[inscripcion[s].pago].audit
          => ~pagos'[inscripcion'[s].pago].audit]_vars

\* A student gets (back) into the course only in a step that also completes a
\* payment of his: a removed student does not return by a replayed request.
SeatNeedsNewPayment ==
    [][\A s \in Estudiantes : ~Activa(s) /\ Activa(s)' =>
          \E p \in PagoIds : /\ ~Completado(p) /\ Completado(p)'
                             /\ pagos'[p].usuario = s]_vars

\* paypal_integration.md: confirm_payment "Updates coupon usage if applicable".
\* It is a save of its own, so that a request that dies can leave it out; and
\* where Traducido is false the code does not find the payments with a coupon.
\* It is said of the first coupon: one that is created again starts at zero,
\* and the payments made with the code before still carry it.
Quieto == \A r \in Peticiones : peticion[r].pc = "idle"
CouponUseCounted ==
    Quieto /\ caidas = 0 /\ cupon.existe /\ cupon.id = 1
    => cupon.current_uses = Cardinality(CuponesCobrados)

----------------------------------------
(* What a comment says, and the code does not keep: TLC finds a counterexample *)

\* Coupon.is_valid: "not expired and under usage limit".
CouponLimitHeld ==
    cupon.max_uses # 0 => Cardinality(CuponesCobrados) <= cupon.max_uses

----------------------------------------
(* Liveness *)

\* The browser repeats a confirmation that failed; a request that was
\* accepted is served to its end.
Atendida(r) ==
    \/ CommitPending(r) \/ LookupEnrollment(r) \/ CommitEnrollment(r)
    \/ CommitAdminEnrollment(r) \/ CreateIndex(r)
    \/ FindRecord(r) \/ FlushPayment(r) \/ CommitPayment(r) \/ CountCoupon(r)

Fairness ==
    /\ \A r \in Peticiones : WF_vars(Atendida(r))
    /\ \A o \in Ordenes : SF_vars(\E r \in Peticiones : ConfirmPayment(r, o))

FairSpec == Spec /\ Fairness

\* "Students are automatically enrolled after successful payment"
\* (docs/payments.md): what PayPal captured is eventually booked.
CapturedOrderIsBooked ==
    \A o \in Ordenes : (ordenes[o] # Nada) ~> (Registrados(o) # {})

=============================================================================
