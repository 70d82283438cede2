--------------------------- MODULE PaypalCheckout ---------------------------
(***************************************************************************)
(* Paying for a course (vistas/paypal.py).  The payment page shows an      *)
(* amount, PayPal captures it in the browser, and the browser posts the    *)
(* order id to confirm_payment until it is answered.  confirm_payment      *)
(* reads the pending payment, later looks for a payment that already has   *)
(* the order id, later still looks up the enrollment and commits, and      *)
(* counts the coupon in a transaction of its own.                          *)
(***************************************************************************)
EXTENDS Coupons

\* payment_page reached without a payment id, directly or through
\* resume_payment: the template falls back to curso.precio.
OpenPaymentPage(s) ==
    /\ curso.pagado
    /\ pagina' = [pagina EXCEPT ![s] = curso.precio]
    /\ UNCHANGED <<curso, cupon, pagos, inscripcion, indice, ordenes, peticion,
                   ediciones, caidas>>

\* payment_page with the id of one of the student's payments.
OpenPaymentPageFor(s, p) ==
    /\ curso.pagado
    /\ Existe(p) /\ pagos[p].usuario = s
    /\ pagina' = [pagina EXCEPT ![s] = pagos[p].monto]
    /\ UNCHANGED <<curso, cupon, pagos, inscripcion, indice, ordenes, peticion,
                   ediciones, caidas>>

\* External: PayPal captures the amount the page shows (none at zero).
Capture(s, o) ==
    /\ pagina[s] > 0
    /\ ordenes[o] = Nada
    /\ ordenes' = [ordenes EXCEPT ![o] = [usuario |-> s, monto |-> pagina[s]]]
    /\ pagina' = [pagina EXCEPT ![s] = 0]
    /\ UNCHANGED <<curso, cupon, pagos, inscripcion, indice, peticion, ediciones,
                   caidas>>

\* The pending payment `.first()` may return, NULL when there is none.
PagoPendiente(s) == IF Pendientes(s) = {} THEN {Nada} ELSE Pendientes(s)

expected_amount(pend) == IF pend = Nada THEN curso.precio ELSE pagos[pend].monto

\* _validate_payment_confirmation; an order whose amount is not the expected
\* one is answered with an error and changes nothing.
ConfirmPayment(r, o) ==
    /\ peticion[r].pc = "idle"
    /\ ordenes[o] # Nada
    /\ \E pend \in PagoPendiente(ordenes[o].usuario) :
          /\ ordenes[o].monto = expected_amount(pend)
          /\ peticion' = [peticion EXCEPT ![r] =
                 [Libre EXCEPT !.pc = "record", !.usuario = ordenes[o].usuario,
                               !.metodo = "paypal", !.monto = ordenes[o].monto,
                               !.orden = o, !.pago = pend]]
    /\ UNCHANGED <<curso, cupon, pagos, inscripcion, indice, ordenes, pagina,
                   ediciones, caidas>>

\* Pago.filter_by(referencia=order_id)
Registrados(o) == {p \in PagoIds : Existe(p) /\ pagos[p].referencia = o}

\* Mutation: nobody looks for an earlier payment with the order.
RecordAlways(r) ==
    /\ peticion[r].pc = "record"
    /\ Avanzar(r, "flush")
    /\ UNCHANGED <<curso, cupon, pagos, inscripcion, indice, ordenes, pagina,
                   ediciones, caidas>>

\* _payment_record: the order was processed before, or its payment is the
\* pending one or a new one.  The row the session already holds keeps the
\* state it was loaded with, so it never looks completed.
FindRecord(r) ==
    LET q == peticion[r] IN
    /\ q.pc = "record"
    /\ \/ Registrados(q.orden) = {} /\ Avanzar(r, "flush")
       \/ q.pago \in Registrados(q.orden) /\ Avanzar(r, "flush")
       \/ Registrados(q.orden) \ {q.pago} # {} /\ Terminar(r)
    /\ UNCHANGED <<curso, cupon, pagos, inscripcion, indice, ordenes, pagina,
                   ediciones, caidas>>

\* The flushed UPDATE of the payment holds its row until the commit.
PagoUnlocked(r, p) ==
    p # Nada => \A q \in Peticiones \ {r} :
                    ~(peticion[q].pc = "pay" /\ peticion[q].pago = p)

FlushPayment(r) ==
    LET q == peticion[r] IN
    /\ q.pc = "flush"
    /\ PagoUnlocked(r, q.pago)
    /\ peticion' = [peticion EXCEPT ![r].pc = "pay", ![r].leida = Leer(q.usuario)]
    /\ UNCHANGED <<curso, cupon, pagos, inscripcion, indice, ordenes, pagina,
                   ediciones, caidas>>

\* Mutation: a pending payment is completed without its order.
SinReferencia(q, p) ==
    [usuario |-> q.usuario, estado |-> "completed", monto |-> q.monto,
     metodo |-> "paypal", referencia |-> IF p = Nada THEN q.orden ELSE Nada,
     cupon |-> p # Nada /\ pagos[p].cupon,
     audit |-> p # Nada /\ pagos[p].audit]

\* The payment a confirmation writes: a new row, or the pending one completed.
PagoConfirmado(q, p) ==
    [usuario |-> q.usuario, estado |-> "completed", monto |-> q.monto,
     metodo |-> "paypal", referencia |-> q.orden,
     cupon |-> p # Nada /\ pagos[p].cupon,
     audit |-> p # Nada /\ pagos[p].audit]

\* _save_payment_enrollment
CommitPayment(r) ==
    LET q == peticion[r] IN
    /\ q.pc = "pay"
    /\ IF IntegrityError(q.usuario, q.leida) \/ (q.pago = Nada /\ ~HayPagoLibre)
       THEN Terminar(r) /\ UNCHANGED <<pagos, inscripcion>>
       ELSE \E p \in PagoIds :
              /\ p = IF q.pago = Nada THEN PagoNuevo ELSE q.pago
              /\ pagos' = [pagos EXCEPT ![p] = PagoConfirmado(q, q.pago)]
              /\ inscripcion' = [inscripcion EXCEPT
                     ![q.usuario] = FilaGuardada(q.usuario, q.leida, p)]
              /\ peticion' = [peticion EXCEPT ![r].pc = "coupon", ![r].pago = p]
    /\ UNCHANGED <<curso, cupon, indice, ordenes, pagina, ediciones, caidas>>

\* _update_coupon_usage: reads the row FOR UPDATE and recognises the coupon by
\* the translated prefix of the payment's description.
CountCoupon(r) ==
    LET q == peticion[r]
        contado == pagos[q.pago].cupon /\ Traducido /\ cupon.existe
    IN
    /\ q.pc = "coupon"
    /\ contado => CouponUnlocked(r)
    /\ cupon' = IF contado THEN [cupon EXCEPT !.current_uses = @ + 1] ELSE cupon
    /\ Avanzar(r, "index")
    /\ UNCHANGED <<curso, pagos, inscripcion, indice, ordenes, pagina, ediciones,
                   caidas>>

CheckoutNext ==
    \/ \E s \in Estudiantes :
          \/ OpenPaymentPage(s)
          \/ \E p \in PagoIds : OpenPaymentPageFor(s, p)
          \/ \E o \in Ordenes : Capture(s, o)
    \/ \E r \in Peticiones :
          \/ \E o \in Ordenes : ConfirmPayment(r, o)
          \/ FindRecord(r)
          \/ FlushPayment(r)
          \/ CommitPayment(r)
          \/ CountCoupon(r)

=============================================================================
