------------------------------- MODULE Coupons -------------------------------
(***************************************************************************)
(* Discount coupons (vistas/courses/coupons.py and the Coupon model): what *)
(* a code is worth, when it is accepted, and how an instructor changes it. *)
(* A course has one code here; a deleted coupon can be created again with  *)
(* the same code and a new primary key.                                    *)
(***************************************************************************)
EXTENDS LmsTables

Menor(a, b) == IF a <= b THEN a ELSE b

\* Mutation: the percentage is not divided and the result not capped.
DiscountUncapped(c, precio) ==
    IF c.discount_type = "percentage" THEN precio * c.discount_value
    ELSE c.discount_value

calculate_discount(c, precio) ==
    Menor(IF c.discount_type = "percentage"
          THEN (precio * c.discount_value) \div 100
          ELSE Menor(c.discount_value, precio),
          precio)

calculate_final_price(c, precio) == precio - calculate_discount(c, precio)

UnderLimit(c) == c.max_uses = 0 \/ c.current_uses < c.max_uses

is_valid(c) == ~c.vencido /\ UnderLimit(c)

\* _validate_coupon_for_enrollment: the code exists, the student has no live
\* enrollment and the coupon is valid.  (An unverified student is turned away
\* before a paid course looks at the code.)
CouponAccepted(s) == cupon.existe /\ ~Activa(s) /\ is_valid(cupon)

\* Mutation: a code used by an auditor is counted too.
CuentaAuditoria(q) == q.cupon # 0

\* At enrollment time only a coupon that makes the course free is counted.
Cuenta(q) == q.metodo = "free" /\ q.cupon # 0

\* The flushed UPDATE of a request that has not committed holds the row.
CouponHeld(q) == peticion[q].pc = "enroll" /\ Cuenta(peticion[q])

CouponUnlocked(r) == \A q \in Peticiones \ {r} : ~CouponHeld(q)

Editable == /\ curso.pagado
            /\ ediciones < MaxEdiciones
            /\ ediciones' = ediciones + 1

\* _coupon_form_error
FormAccepts(d) == d.discount_type = "fixed" => d.discount_value <= curso.precio

CreateCoupon(d, m) ==
    /\ Editable
    /\ ~cupon.existe
    /\ FormAccepts(d)
    /\ cupon' = [id |-> cupon.id + 1, existe |-> TRUE,
                 discount_type |-> d.discount_type,
                 discount_value |-> d.discount_value,
                 max_uses |-> m, current_uses |-> 0, vencido |-> FALSE]
    /\ UNCHANGED <<curso, pagos, inscripcion, indice, ordenes, pagina, peticion, caidas>>

\* The form rewrites the terms and the expiry date, never current_uses.
EditCoupon(d, m) ==
    /\ Editable
    /\ cupon.existe
    /\ FormAccepts(d)
    /\ \A q \in Peticiones : ~CouponHeld(q)
    /\ cupon' = [cupon EXCEPT !.discount_type = d.discount_type,
                              !.discount_value = d.discount_value,
                              !.max_uses = m, !.vencido = FALSE]
    /\ UNCHANGED <<curso, pagos, inscripcion, indice, ordenes, pagina, peticion, caidas>>

DeleteCoupon ==
    /\ Editable
    /\ cupon.existe
    /\ \A q \in Peticiones : ~CouponHeld(q)
    /\ cupon' = [SinCupon EXCEPT !.id = cupon.id]
    /\ UNCHANGED <<curso, pagos, inscripcion, indice, ordenes, pagina, peticion, caidas>>

\* expires_at passes.
ExpireCoupon ==
    /\ cupon.existe /\ ~cupon.vencido
    /\ cupon' = [cupon EXCEPT !.vencido = TRUE]
    /\ UNCHANGED <<curso, pagos, inscripcion, indice, ordenes, pagina, peticion,
                   ediciones, caidas>>

CouponNext ==
    \/ \E d \in Descuentos, m \in Limites : CreateCoupon(d, m) \/ EditCoupon(d, m)
    \/ DeleteCoupon
    \/ ExpireCoupon

=============================================================================
