-------------------------- MODULE CourseSales_proofs --------------------------
(***************************************************************************)
(* Proofs about CourseSales, for any number of students, payments, orders  *)
(* and concurrent requests; in the second half, of what holds when the     *)
(* requests are served one at a time, and only then.                       *)
(***************************************************************************)
EXTENDS CourseSales, FiniteSetTheorems, TLAPS

\* A price never turns negative: no discount exceeds the price it applies to.
LEMMA DiscountWithinPrice ==
    ASSUME NEW c \in Coupon, NEW precio \in Nat
    PROVE  /\ calculate_discount(c, precio) \in Nat
           /\ calculate_discount(c, precio) <= precio
           /\ calculate_final_price(c, precio) \in Nat
<1>1. precio * c.discount_value \in Nat
  BY SMT DEF Coupon
<1>2. (precio * c.discount_value) \div 100 \in Nat
  <2> DEFINE x == precio * c.discount_value
  <2>1. x \in Nat
    BY <1>1
  <2> HIDE DEF x
  <2>2. x \div 100 \in Nat
    BY <2>1, SMT
  <2> QED BY <2>2 DEF x
<1> DEFINE porcentaje == (precio * c.discount_value) \div 100
<1> HIDE DEF porcentaje
<1>3. /\ calculate_discount(c, precio) \in Nat
      /\ calculate_discount(c, precio) <= precio
  BY <1>2 DEF calculate_discount, Menor, Coupon, porcentaje
<1> HIDE DEF calculate_discount
<1> QED BY <1>3 DEF calculate_final_price

\* The price a request carries is never negative (enrollment.py:53-69).
LEMMA PriceIsNat ==
    ASSUME TypeOK, NEW s, NEW usaCupon \in BOOLEAN
    PROVE  /\ FinalPrice(s, usaCupon) \in Nat
           /\ Aplicado(s, usaCupon) \in Nat
<1>1. curso.precio \in Nat /\ cupon.id \in Nat /\ cupon \in Coupon
  BY TablesAssumption DEF TypeOK, Coupon
<1>2. calculate_final_price(cupon, curso.precio) \in Nat
  BY <1>1, DiscountWithinPrice
<1> QED BY <1>1, <1>2 DEF FinalPrice, Aplicado

\* What a request writes is a Pago row, never NULL.
LEMMA NuevoPagoType ==
    ASSUME NEW q \in Peticion, q.usuario \in Estudiantes,
           NEW estado \in {"pending", "completed"}
    PROVE  /\ NuevoPago(q, estado) \in Pago
           /\ NuevoPago(q, estado) # Nada
<1>1. NuevoPago(q, estado) \in Pago
  BY DEF NuevoPago, Pago, Peticion
<1> QED BY <1>1, NadaAssumption

\* A new payment never lands on the key of an existing one.
LEMMA PagoNuevoIsFree ==
    HayPagoLibre => PagoNuevo \in PagoIds /\ ~Existe(PagoNuevo)
BY DEF HayPagoLibre, PagoNuevo

\* What the commit leaves in the enrollment table is a row with that payment.
LEMMA FilaType ==
    ASSUME TypeOK, NEW s \in Estudiantes, NEW p \in PagoIds,
           NEW leida \in {"ninguna", "inactiva", "activa"},
           leida # "ninguna" => inscripcion[s] # Nada
    PROVE  /\ FilaGuardada(s, leida, p) \in EstudianteCurso
           /\ FilaGuardada(s, leida, p) # Nada
           /\ FilaGuardada(s, leida, p).pago = p
<1>1. FilaGuardada(s, leida, p) \in EstudianteCurso
  BY DEF FilaGuardada, EstudianteCurso, TypeOK
<1> QED BY <1>1, NadaAssumption DEF FilaGuardada

\* A request that is over has the type of a request.
LEMMA LibreType == Libre \in Peticion
BY DEF Libre, Peticion

----------------------------------------
(* Type correctness *)

\* The empty tables are well typed.
LEMMA TypeInit == Init => TypeOK
<1> SUFFICES ASSUME Init PROVE TypeOK
  OBVIOUS
<1>1. cupon \in Coupon
  BY DEF Init, SinCupon, Coupon
<1>2. peticion \in [Peticiones -> Peticion]
  BY LibreType DEF Init
<1> QED BY <1>1, <1>2, TablesAssumption DEF Init, TypeOK

\* Enrolling, by oneself or by the administrator, keeps the types.
LEMMA EnrollmentType ==
    ASSUME TypeOK, RequestKeepsItsRows, EnrollmentNext
    PROVE  TypeOK'
<1> USE DEF TypeOK
<1>1. ASSUME NEW r \in Peticiones, NEW s \in Estudiantes, NEW b \in BOOLEAN,
             EnrollFree(r, s, b)
      PROVE  TypeOK'
  BY <1>1, PriceIsNat DEF EnrollFree, Solicitar, Libre, Peticion, Coupon
<1>2. ASSUME NEW r \in Peticiones, NEW s \in Estudiantes, NEW b \in BOOLEAN,
             EnrollAudit(r, s, b)
      PROVE  TypeOK'
  BY <1>2, PriceIsNat DEF EnrollAudit, Solicitar, Libre, Peticion, Coupon
<1>3. ASSUME NEW r \in Peticiones, NEW s \in Estudiantes, EnrollResumes(r, s)
      PROVE  TypeOK'
  BY <1>3, TablesAssumption DEF EnrollResumes
<1>4. ASSUME NEW r \in Peticiones, NEW s \in Estudiantes, NEW b \in BOOLEAN,
             NEW modo, EnrollPaid(r, s, modo, b)
      PROVE  TypeOK'
  BY <1>4, PriceIsNat DEF EnrollPaid, Solicitar, Libre, Peticion, Coupon
<1>5. ASSUME NEW r \in Peticiones, NEW s \in Estudiantes, NEW b \in BOOLEAN,
             AdminEnroll(r, s, b)
      PROVE  TypeOK'
  BY <1>5, TablesAssumption DEF AdminEnroll, Libre, Peticion
<1>6. ASSUME NEW r \in Peticiones, CommitPending(r)
      PROVE  TypeOK'
  <2> DEFINE q == peticion[r]
  <2>1. q \in Peticion /\ q.usuario \in Estudiantes
    BY <1>6 DEF CommitPending, RequestKeepsItsRows, HoldsValidRows
  <2>2. NuevoPago(q, "pending") \in Pago
    BY <2>1, NuevoPagoType
  <2>3. q.monto \in Nat
    BY <2>1 DEF Peticion
  <2> HIDE DEF q
  <2>4. pagos' \in [PagoIds -> Pago \cup {Nada}]
    BY <1>6, <2>2, PagoNuevoIsFree DEF CommitPending, q
  <2>5. pagina' \in [Estudiantes -> Nat]
    BY <1>6, <2>1, <2>3 DEF CommitPending, q
  <2>6. peticion' \in [Peticiones -> Peticion]
    BY <1>6, LibreType DEF CommitPending, Terminar
  <2> QED BY <1>6, <2>4, <2>5, <2>6 DEF CommitPending
<1>7. ASSUME NEW r \in Peticiones, LookupEnrollment(r)
      PROVE  TypeOK'
  BY <1>7, LibreType DEF LookupEnrollment, Terminar, Leer, Peticion
<1>8. ASSUME NEW r \in Peticiones, CommitEnrollment(r)
      PROVE  TypeOK'
  <2> DEFINE q == peticion[r]
  <2>1. q \in Peticion /\ q.usuario \in Estudiantes
    BY <1>8 DEF CommitEnrollment, RequestKeepsItsRows, HoldsValidRows
  <2>2. CASE RolledBack(q.usuario, q.leida)
    BY <1>8, <2>2, LibreType DEF CommitEnrollment, Terminar
  <2>3. CASE ~RolledBack(q.usuario, q.leida)
    <3>1. /\ PagoNuevo \in PagoIds
          /\ NuevoPago(q, "completed") \in Pago
      BY <2>1, <2>3, NuevoPagoType, PagoNuevoIsFree DEF RolledBack
    <3>2. FilaGuardada(q.usuario, q.leida, PagoNuevo) \in EstudianteCurso
      BY <1>8, <2>1, <3>1, FilaType
      DEF CommitEnrollment, RequestKeepsItsRows, HoldsValidRows, Peticion
    <3>3. pagos' \in [PagoIds -> Pago \cup {Nada}]
      BY <1>8, <2>3, <3>1 DEF CommitEnrollment, PayAndEnroll
    <3>4. inscripcion' \in [Estudiantes -> EstudianteCurso \cup {Nada}]
      BY <1>8, <2>1, <2>3, <3>2 DEF CommitEnrollment, PayAndEnroll
    <3>5. cupon' \in Coupon
      BY <1>8, <2>1, <2>3 DEF CommitEnrollment, Peticion, Coupon
    <3>6. peticion' \in [Peticiones -> Peticion]
      BY <1>8, <2>3 DEF CommitEnrollment, Avanzar, Peticion
    <3> QED BY <1>8, <3>3, <3>4, <3>5, <3>6 DEF CommitEnrollment
  <2> QED BY <2>2, <2>3
<1>9. ASSUME NEW r \in Peticiones, CommitAdminEnrollment(r)
      PROVE  TypeOK'
  <2> DEFINE q == peticion[r]
  <2>1. q \in Peticion /\ q.usuario \in Estudiantes
    BY <1>9 DEF CommitAdminEnrollment, RequestKeepsItsRows, HoldsValidRows
  <2>2. CASE RolledBack(q.usuario, "ninguna")
    BY <1>9, <2>2, LibreType DEF CommitAdminEnrollment, Terminar
  <2>3. CASE ~RolledBack(q.usuario, "ninguna")
    <3>1. /\ PagoNuevo \in PagoIds
          /\ NuevoPago(q, "completed") \in Pago
      BY <2>1, <2>3, NuevoPagoType, PagoNuevoIsFree DEF RolledBack
    <3>2. FilaGuardada(q.usuario, "ninguna", PagoNuevo) \in EstudianteCurso
      BY <1>9, <2>1, <3>1, FilaType
      DEF CommitAdminEnrollment, RequestKeepsItsRows, HoldsValidRows, Peticion
    <3>3. pagos' \in [PagoIds -> Pago \cup {Nada}]
      BY <1>9, <2>3, <3>1 DEF CommitAdminEnrollment, PayAndEnroll
    <3>4. inscripcion' \in [Estudiantes -> EstudianteCurso \cup {Nada}]
      BY <1>9, <2>1, <2>3, <3>2 DEF CommitAdminEnrollment, PayAndEnroll
    <3>5. cupon' \in Coupon
      BY <1>9, <2>1, <2>3 DEF CommitAdminEnrollment, Peticion, Coupon
    <3>6. peticion' \in [Peticiones -> Peticion]
      BY <1>9, <2>3 DEF CommitAdminEnrollment, Avanzar, Peticion
    <3> QED BY <1>9, <3>3, <3>4, <3>5, <3>6 DEF CommitAdminEnrollment
  <2> QED BY <2>2, <2>3
<1>10. ASSUME NEW r \in Peticiones, CreateIndex(r)
       PROVE  TypeOK'
  BY <1>10, LibreType DEF CreateIndex, Terminar, RequestKeepsItsRows, HoldsValidRows
<1>11. ASSUME NEW s \in Estudiantes, AdminUnenroll(s)
       PROVE  TypeOK'
  BY <1>11 DEF AdminUnenroll, Activa, EstudianteCurso
<1>12. ASSUME NEW c \in Cursos, EditCourse(c)
       PROVE  TypeOK'
  BY <1>12, TablesAssumption DEF EditCourse
<1> QED
  BY <1>1, <1>2, <1>3, <1>4, <1>5, <1>6, <1>7, <1>8, <1>9, <1>10, <1>11, <1>12
  DEF EnrollmentNext

\* The PayPal checkout keeps the types.
LEMMA CheckoutType ==
    ASSUME TypeOK, RequestKeepsItsRows, CheckoutNext
    PROVE  TypeOK'
<1> USE DEF TypeOK
<1>1. ASSUME NEW s \in Estudiantes, OpenPaymentPage(s)
      PROVE  TypeOK'
  BY <1>1, TablesAssumption DEF OpenPaymentPage
<1>2. ASSUME NEW s \in Estudiantes, NEW p \in PagoIds, OpenPaymentPageFor(s, p)
      PROVE  TypeOK'
  BY <1>2 DEF OpenPaymentPageFor, Existe, Pago
<1>3. ASSUME NEW s \in Estudiantes, NEW o \in Ordenes, Capture(s, o)
      PROVE  TypeOK'
  BY <1>3 DEF Capture, Captura
<1>4. ASSUME NEW r \in Peticiones, NEW o \in Ordenes, ConfirmPayment(r, o)
      PROVE  TypeOK'
  <2>1. PICK pend \in PagoPendiente(ordenes[o].usuario) :
            peticion' = [peticion EXCEPT ![r] =
                 [Libre EXCEPT !.pc = "record", !.usuario = ordenes[o].usuario,
                               !.metodo = "paypal", !.monto = ordenes[o].monto,
                               !.orden = o, !.pago = pend]]
    BY <1>4 DEF ConfirmPayment
  <2>2. pend \in PagoIds \cup {Nada}
    BY DEF PagoPendiente, Pendientes
  <2>3. ordenes[o] \in Captura
    BY <1>4 DEF ConfirmPayment
  <2>4. peticion' \in [Peticiones -> Peticion]
    BY <2>1, <2>2, <2>3 DEF Libre, Peticion, Captura
  <2> QED BY <1>4, <2>4 DEF ConfirmPayment
<1>5. ASSUME NEW r \in Peticiones, FindRecord(r)
      PROVE  TypeOK'
  BY <1>5, LibreType DEF FindRecord, Avanzar, Terminar, Peticion
<1>6. ASSUME NEW r \in Peticiones, FlushPayment(r)
      PROVE  TypeOK'
  <2>1. [peticion[r] EXCEPT !.pc = "pay", !.leida = Leer(peticion[r].usuario)] \in Peticion
    BY DEF Leer, Peticion
  <2> QED BY <1>6, <2>1 DEF FlushPayment
<1>7. ASSUME NEW r \in Peticiones, CommitPayment(r)
      PROVE  TypeOK'
  <2> DEFINE q == peticion[r]
  <2>1. q \in Peticion /\ q.usuario \in Estudiantes /\ q.orden \in Ordenes
    BY <1>7 DEF CommitPayment, RequestKeepsItsRows, HoldsValidRows
  <2>2. CASE IntegrityError(q.usuario, q.leida) \/ (q.pago = Nada /\ ~HayPagoLibre)
    BY <1>7, <2>2, LibreType DEF CommitPayment, Terminar
  <2>3. CASE ~(IntegrityError(q.usuario, q.leida) \/ (q.pago = Nada /\ ~HayPagoLibre))
    <3>1. PICK p \in PagoIds :
              /\ pagos' = [pagos EXCEPT ![p] = PagoConfirmado(q, q.pago)]
              /\ inscripcion' = [inscripcion EXCEPT
                     ![q.usuario] = FilaGuardada(q.usuario, q.leida, p)]
              /\ peticion' = [peticion EXCEPT ![r].pc = "coupon", ![r].pago = p]
      BY <1>7, <2>3 DEF CommitPayment
    <3>2. PagoConfirmado(q, q.pago) \in Pago
      BY <1>7, <2>1
      DEF CommitPayment, RequestKeepsItsRows, HoldsValidRows, PagoConfirmado, Pago, Peticion, Existe
    <3>3. FilaGuardada(q.usuario, q.leida, p) \in EstudianteCurso
      BY <1>7, <2>1, FilaType DEF CommitPayment, RequestKeepsItsRows, HoldsValidRows, Peticion
    <3>4. pagos' \in [PagoIds -> Pago \cup {Nada}]
      BY <3>1, <3>2
    <3>5. inscripcion' \in [Estudiantes -> EstudianteCurso \cup {Nada}]
      BY <2>1, <3>1, <3>3
    <3>6. peticion' \in [Peticiones -> Peticion]
      <4>1. [peticion[r] EXCEPT !.pc = "coupon", !.pago = p] \in Peticion
        BY DEF Peticion
      <4> QED BY <3>1, <4>1
    <3> QED BY <1>7, <3>4, <3>5, <3>6 DEF CommitPayment
  <2> QED BY <2>2, <2>3
<1>8. ASSUME NEW r \in Peticiones, CountCoupon(r)
      PROVE  TypeOK'
  BY <1>8 DEF CountCoupon, Avanzar, Peticion, Coupon
<1> QED
  BY <1>1, <1>2, <1>3, <1>4, <1>5, <1>6, <1>7, <1>8 DEF CheckoutNext

\* Managing the coupon keeps the types.
LEMMA CouponType ==
    ASSUME TypeOK, CouponNext
    PROVE  TypeOK'
<1> USE DEF TypeOK
<1>1. ASSUME NEW d \in Descuentos, NEW m \in Limites, CreateCoupon(d, m)
      PROVE  TypeOK'
  BY <1>1, TablesAssumption DEF CreateCoupon, Editable, Coupon
<1>2. ASSUME NEW d \in Descuentos, NEW m \in Limites, EditCoupon(d, m)
      PROVE  TypeOK'
  <2>1. cupon' = [cupon EXCEPT !.discount_type = d.discount_type,
                               !.discount_value = d.discount_value,
                               !.max_uses = m, !.vencido = FALSE]
    BY <1>2 DEF EditCoupon
  <2>2. /\ d.discount_type \in {"percentage", "fixed"}
        /\ d.discount_value \in Nat
        /\ m \in Nat
    BY TablesAssumption
  <2>3. cupon' \in Coupon
    BY <2>1, <2>2 DEF Coupon
  <2>4. ediciones' \in 0..MaxEdiciones
    BY <1>2, TablesAssumption DEF EditCoupon, Editable
  <2> QED BY <1>2, <2>3, <2>4 DEF EditCoupon
<1>3. ASSUME DeleteCoupon PROVE TypeOK'
  <2>1. cupon.id \in Nat
    BY DEF Coupon
  <2>2. cupon' \in Coupon
    BY <1>3, <2>1 DEF DeleteCoupon, SinCupon, Coupon
  <2>3. ediciones' \in 0..MaxEdiciones
    BY <1>3, TablesAssumption DEF DeleteCoupon, Editable
  <2> QED BY <1>3, <2>2, <2>3 DEF DeleteCoupon
<1>4. ASSUME ExpireCoupon PROVE TypeOK'
  BY <1>4 DEF ExpireCoupon, Coupon
<1> QED BY <1>1, <1>2, <1>3, <1>4 DEF CouponNext

\* Every step keeps the types, given that requests carry valid rows.
LEMMA TypeStep ==
    TypeOK /\ RequestKeepsItsRows /\ [Next]_vars => TypeOK'
<1> SUFFICES ASSUME TypeOK, RequestKeepsItsRows, [Next]_vars
             PROVE  TypeOK'
  OBVIOUS
<1>1. CASE EnrollmentNext
  BY <1>1, EnrollmentType
<1>2. CASE CheckoutNext
  BY <1>2, CheckoutType
<1>3. CASE CouponNext
  BY <1>3, CouponType
<1>4. ASSUME NEW r \in Peticiones, Crash(r) PROVE TypeOK'
  BY <1>4, LibreType, TablesAssumption DEF Crash, Terminar, TypeOK
<1>5. CASE UNCHANGED vars
  BY <1>5 DEF vars, TypeOK
<1> QED BY <1>1, <1>2, <1>3, <1>4, <1>5 DEF Next

----------------------------------------
(* How a step changes the tables: rows stay, and a payment keeps its student, *)
(* its amount and its completion.                                             *)

TablesGrow ==
    /\ \A p \in PagoIds : Existe(p) =>
          /\ Existe(p)'
          /\ pagos'[p].usuario = pagos[p].usuario
          /\ pagos'[p].monto = pagos[p].monto
          /\ Completado(p) => Completado(p)'
    /\ \A s \in Estudiantes : inscripcion[s] # Nada => inscripcion'[s] # Nada
    /\ \A o \in Ordenes : ordenes[o] # Nada => ordenes'[o] = ordenes[o]

\* Enrollment adds rows and removes none.
LEMMA EnrollmentGrows ==
    ASSUME TypeOK, RequestKeepsItsRows, EnrollmentNext
    PROVE  TablesGrow
<1>1. CASE UNCHANGED <<pagos, inscripcion, ordenes>>
  BY <1>1 DEF TablesGrow, Existe, Completado
<1>2. ASSUME NEW r \in Peticiones, CommitPending(r)
      PROVE  TablesGrow
  BY <1>2, PagoNuevoIsFree
  DEF CommitPending, TablesGrow, TypeOK, Existe, Completado
<1>3. ASSUME NEW r \in Peticiones, NEW leida \in {"ninguna", "inactiva", "activa"},
             NEW pago \in Pago, NEW s \in Estudiantes,
             leida # "ninguna" => inscripcion[s] # Nada,
             HayPagoLibre, PayAndEnroll(s, leida, PagoNuevo, pago),
             UNCHANGED ordenes
      PROVE  TablesGrow
  <2>1. FilaGuardada(s, leida, PagoNuevo) # Nada
    BY <1>3, FilaType, PagoNuevoIsFree
  <2> QED BY <1>3, <2>1, PagoNuevoIsFree
          DEF PayAndEnroll, TablesGrow, TypeOK, Existe, Completado
<1>4. ASSUME NEW r \in Peticiones, CommitEnrollment(r)
      PROVE  TablesGrow
  <2> DEFINE q == peticion[r]
  <2>1. /\ q \in Peticion /\ q.usuario \in Estudiantes
        /\ q.leida # "ninguna" => inscripcion[q.usuario] # Nada
        /\ q.leida \in {"ninguna", "inactiva", "activa"}
    BY <1>4 DEF CommitEnrollment, RequestKeepsItsRows, HoldsValidRows, TypeOK, Peticion
  <2>2. NuevoPago(q, "completed") \in Pago
    BY <2>1, NuevoPagoType
  <2> QED BY <1>1, <1>3, <1>4, <2>1, <2>2 DEF CommitEnrollment, RolledBack
<1>5. ASSUME NEW r \in Peticiones, CommitAdminEnrollment(r)
      PROVE  TablesGrow
  <2> DEFINE q == peticion[r]
  <2>1. /\ q \in Peticion /\ q.usuario \in Estudiantes
    BY <1>5 DEF CommitAdminEnrollment, RequestKeepsItsRows, HoldsValidRows, TypeOK, Peticion
  <2>2. NuevoPago(q, "completed") \in Pago
    BY <2>1, NuevoPagoType
  <2> QED BY <1>1, <1>3, <1>5, <2>1, <2>2 DEF CommitAdminEnrollment, RolledBack
<1>6. ASSUME NEW s \in Estudiantes, AdminUnenroll(s)
      PROVE  TablesGrow
  <2>1. inscripcion'[s] \in EstudianteCurso
    BY <1>6 DEF AdminUnenroll, Activa, TypeOK, EstudianteCurso
  <2> QED BY <1>6, <2>1, NadaAssumption
          DEF AdminUnenroll, TablesGrow, TypeOK, Existe, Completado
<1> QED
  BY <1>1, <1>2, <1>4, <1>5, <1>6
  DEF EnrollmentNext, EnrollFree, EnrollAudit, EnrollResumes, EnrollPaid,
      AdminEnroll, LookupEnrollment, CreateIndex, EditCourse

\* The checkout adds rows and removes none.
LEMMA CheckoutGrows ==
    ASSUME TypeOK, RequestKeepsItsRows, CheckoutNext
    PROVE  TablesGrow
<1>1. CASE UNCHANGED <<pagos, inscripcion, ordenes>>
  BY <1>1 DEF TablesGrow, Existe, Completado
<1>2. ASSUME NEW s \in Estudiantes, NEW o \in Ordenes, Capture(s, o)
      PROVE  TablesGrow
  BY <1>2 DEF Capture, TablesGrow, TypeOK, Existe, Completado
<1>3. ASSUME NEW r \in Peticiones, CommitPayment(r)
      PROVE  TablesGrow
  <2> DEFINE q == peticion[r]
  <2>1. /\ q \in Peticion /\ q.usuario \in Estudiantes
        /\ q.leida \in {"ninguna", "inactiva", "activa"}
        /\ q.leida # "ninguna" => inscripcion[q.usuario] # Nada
        /\ q.pago # Nada => /\ Existe(q.pago)
                            /\ pagos[q.pago].usuario = q.usuario
                            /\ pagos[q.pago].monto = q.monto
    BY <1>3 DEF CommitPayment, RequestKeepsItsRows, HoldsValidRows, TypeOK, Peticion
  <2>2. CASE IntegrityError(q.usuario, q.leida) \/ (q.pago = Nada /\ ~HayPagoLibre)
    BY <1>1, <1>3, <2>2 DEF CommitPayment
  <2>3. CASE ~(IntegrityError(q.usuario, q.leida) \/ (q.pago = Nada /\ ~HayPagoLibre))
    <3>1. PICK p \in PagoIds :
              /\ p = IF q.pago = Nada THEN PagoNuevo ELSE q.pago
              /\ pagos' = [pagos EXCEPT ![p] = PagoConfirmado(q, q.pago)]
              /\ inscripcion' = [inscripcion EXCEPT
                     ![q.usuario] = FilaGuardada(q.usuario, q.leida, p)]
      BY <1>3, <2>3 DEF CommitPayment
    <3>2. FilaGuardada(q.usuario, q.leida, p) # Nada
      BY <2>1, FilaType
    <3>3. UNCHANGED ordenes
      BY <1>3 DEF CommitPayment
    <3>4. /\ pagos'[p] = PagoConfirmado(q, q.pago)
          /\ \A x \in PagoIds \ {p} : pagos'[x] = pagos[x]
      BY <3>1 DEF TypeOK
    <3>5. pagos'[p] # Nada
      <4>1. pagos'[p] \in Pago
        BY <1>3, <2>1, <3>4
        DEF CommitPayment, RequestKeepsItsRows, HoldsValidRows, PagoConfirmado,
            Pago, Peticion, Existe, TypeOK
      <4> QED BY <4>1, NadaAssumption
    <3>6. Existe(p) => /\ pagos'[p].usuario = pagos[p].usuario
                       /\ pagos'[p].monto = pagos[p].monto
      BY <2>1, <2>3, <3>1, <3>4, PagoNuevoIsFree DEF PagoConfirmado
    <3>7. pagos'[p].estado = "completed"
      BY <3>4 DEF PagoConfirmado
    <3>8. \A s \in Estudiantes : inscripcion[s] # Nada => inscripcion'[s] # Nada
      BY <2>1, <3>1, <3>2 DEF TypeOK
    <3> QED BY <3>3, <3>4, <3>5, <3>6, <3>7, <3>8 DEF TablesGrow, Existe, Completado
  <2> QED BY <2>2, <2>3
<1> QED
  BY <1>1, <1>2, <1>3
  DEF CheckoutNext, OpenPaymentPage, OpenPaymentPageFor, ConfirmPayment,
      FindRecord, FlushPayment, CountCoupon

\* Rows are only added, whoever takes the step.
LEMMA NextGrows ==
    TypeOK /\ RequestKeepsItsRows /\ [Next]_vars => TablesGrow
<1> SUFFICES ASSUME TypeOK, RequestKeepsItsRows, [Next]_vars
             PROVE  TablesGrow
  OBVIOUS
<1>1. CASE UNCHANGED <<pagos, inscripcion, ordenes>>
  BY <1>1 DEF TablesGrow, Existe, Completado
<1> QED
  BY <1>1, EnrollmentGrows, CheckoutGrows
  DEF Next, vars, Crash, CouponNext, CreateCoupon, EditCoupon, DeleteCoupon,
      ExpireCoupon

----------------------------------------
(* What requests carry stays valid *)

\* What a request carries survives a step of somebody else.
LEMMA RowsStayValid ==
    ASSUME TypeOK, TablesGrow, NEW q \in Peticion, HoldsValidRows(q)
    PROVE  HoldsValidRows(q)'
<1>1. q.pc \in {"record", "flush", "pay"} => ordenes[q.orden] # Nada
  BY DEF HoldsValidRows
<1>2. q.pago # Nada => q.pago \in PagoIds
  BY DEF Peticion
<1> QED BY <1>1, <1>2 DEF HoldsValidRows, TablesGrow, Existe, Completado

\* A step that moves one request only has to account for that one.
LEMMA OneRequestMoves ==
    ASSUME TypeOK, RequestKeepsItsRows, TablesGrow,
           NEW r \in Peticiones, NEW f,
           peticion' = [peticion EXCEPT ![r] = f], HoldsValidRows(f)'
    PROVE  RequestKeepsItsRows'
<1> SUFFICES ASSUME NEW x \in Peticiones PROVE HoldsValidRows(peticion[x])'
  BY DEF RequestKeepsItsRows
<1>1. CASE x = r
  <2>1. peticion'[x] = f
    BY <1>1 DEF TypeOK
  <2> QED BY <2>1 DEF HoldsValidRows, Existe, Completado
<1>2. CASE x # r
  <2>1. peticion'[x] = peticion[x] /\ peticion[x] \in Peticion
    BY <1>2 DEF TypeOK
  <2>2. HoldsValidRows(peticion[x])
    BY DEF RequestKeepsItsRows
  <2> DEFINE q == peticion[x]
  <2>3. ASSUME NEW g \in Peticion, HoldsValidRows(g) PROVE HoldsValidRows(g)'
    BY <2>3, RowsStayValid
  <2>4. PICK g \in Peticion : g = peticion[x]
    BY <2>1
  <2>5. HoldsValidRows(g)'
    BY <2>2, <2>3, <2>4 DEF HoldsValidRows, Existe, Completado
  <2> QED BY <2>1, <2>4, <2>5 DEF HoldsValidRows, Existe, Completado
<1> QED BY <1>1, <1>2

\* A step that moves no request keeps what all of them carry valid.
LEMMA NoRequestMoves ==
    ASSUME TypeOK, RequestKeepsItsRows, TablesGrow, UNCHANGED peticion
    PROVE  RequestKeepsItsRows'
<1>1. CASE Peticiones = {}
  BY <1>1 DEF RequestKeepsItsRows
<1>2. ASSUME NEW r \in Peticiones PROVE RequestKeepsItsRows'
  <2>1. peticion' = [peticion EXCEPT ![r] = peticion[r]]
    BY DEF TypeOK
  <2>2. PICK g \in Peticion : g = peticion[r]
    BY DEF TypeOK
  <2>3. HoldsValidRows(g)
    BY <2>2 DEF RequestKeepsItsRows, HoldsValidRows, Existe, Completado
  <2>4. HoldsValidRows(g)'
    BY <2>3, RowsStayValid
  <2> QED BY <2>1, <2>2, <2>4, OneRequestMoves
<1> QED BY <1>1, <1>2

\* A request that ends carries nothing.
LEMMA RequestEnds ==
    ASSUME TypeOK, RequestKeepsItsRows, TablesGrow,
           NEW r \in Peticiones, Terminar(r)
    PROVE  RequestKeepsItsRows'
<1>1. HoldsValidRows(Libre)'
  BY DEF HoldsValidRows, Libre
<1> QED BY <1>1, OneRequestMoves DEF Terminar

\* The steps of an enrollment carry valid rows on.
LEMMA EnrollmentRequests ==
    ASSUME TypeOK, RequestKeepsItsRows, TablesGrow, EnrollmentNext
    PROVE  RequestKeepsItsRows'
<1>1. ASSUME NEW r \in Peticiones, NEW s \in Estudiantes, NEW pc, NEW metodo,
             NEW monto, NEW b,
             \/ pc = "lookup" /\ metodo \in {"free", "audit"}
             \/ pc = "pending",
             Solicitar(r, s, pc, metodo, monto, b)
      PROVE  RequestKeepsItsRows'
  <2> DEFINE f == [Libre EXCEPT !.pc = pc, !.usuario = s, !.metodo = metodo,
                      !.monto = monto, !.audit = (metodo = "audit"),
                      !.cupon = Aplicado(s, b),
                      !.usos = IF metodo = "free" /\ Aplicado(s, b) # 0
                               THEN cupon.current_uses ELSE 0]
  <2>1. f.pc = pc /\ f.usuario = s /\ f.metodo = metodo
    BY DEF Libre
  <2>2. peticion' = [peticion EXCEPT ![r] = f]
    BY <1>1 DEF Solicitar
  <2> HIDE DEF f
  <2>3. PICK g : g = f
    OBVIOUS
  <2>4. HoldsValidRows(g)'
    BY <1>1, <2>1, <2>3 DEF HoldsValidRows
  <2> QED BY <2>2, <2>3, <2>4, OneRequestMoves
<1>2. ASSUME NEW r \in Peticiones, NEW s \in Estudiantes, NEW b \in BOOLEAN,
             AdminEnroll(r, s, b)
      PROVE  RequestKeepsItsRows'
  <2> DEFINE f == [Libre EXCEPT !.pc = "admin", !.usuario = s,
                         !.metodo = "admin_enrollment",
                         !.monto = IF b THEN 0 ELSE curso.precio,
                         !.audit = ~b /\ curso.pagado]
  <2>1. f.pc = "admin" /\ f.usuario = s /\ f.metodo = "admin_enrollment"
    BY DEF Libre
  <2>2. peticion' = [peticion EXCEPT ![r] = f]
    BY <1>2 DEF AdminEnroll
  <2> HIDE DEF f
  <2>3. PICK g : g = f
    OBVIOUS
  <2>4. HoldsValidRows(g)'
    BY <2>1, <2>3 DEF HoldsValidRows
  <2> QED BY <2>2, <2>3, <2>4, OneRequestMoves
<1>3. ASSUME NEW r \in Peticiones, LookupEnrollment(r)
      PROVE  RequestKeepsItsRows'
  <2>1. PICK g : g = [peticion[r] EXCEPT !.pc = "enroll",
                                         !.leida = Leer(peticion[r].usuario)]
    OBVIOUS
  <2>2. /\ peticion[r].pc = "lookup"
        /\ peticion[r].metodo \in {"free", "audit"}
        /\ peticion[r].usuario \in Estudiantes
    BY <1>3 DEF LookupEnrollment, RequestKeepsItsRows, HoldsValidRows
  <2>3. /\ g.pc = "enroll" /\ g.usuario = peticion[r].usuario
        /\ g.metodo = peticion[r].metodo /\ g.leida = Leer(peticion[r].usuario)
    BY <2>1 DEF TypeOK, Peticion
  <2>4. HoldsValidRows(g)'
    BY <1>3, <2>2, <2>3 DEF LookupEnrollment, HoldsValidRows, Leer
  <2>5. Terminar(r) \/ peticion' = [peticion EXCEPT ![r] = g]
    BY <1>3, <2>1 DEF LookupEnrollment, TypeOK
  <2>6. CASE Terminar(r)
    BY <2>6, RequestEnds
  <2>7. CASE peticion' = [peticion EXCEPT ![r] = g]
    BY <2>4, <2>7, OneRequestMoves
  <2> QED BY <2>5, <2>6, <2>7
<1>4. ASSUME NEW r \in Peticiones, NEW pc \in {"index", "index_admin"},
             Avanzar(r, pc), peticion[r].usuario \in Estudiantes,
             inscripcion'[peticion[r].usuario] # Nada
      PROVE  RequestKeepsItsRows'
  <2>1. PICK g : g = [peticion[r] EXCEPT !.pc = pc]
    OBVIOUS
  <2>2. g.pc = pc /\ g.usuario = peticion[r].usuario
    BY <2>1 DEF TypeOK, Peticion
  <2>3. HoldsValidRows(g)'
    BY <1>4, <2>2 DEF HoldsValidRows
  <2> QED BY <1>4, <2>1, <2>3, OneRequestMoves DEF Avanzar
<1>5. ASSUME NEW r \in Peticiones, CommitEnrollment(r) \/ CommitAdminEnrollment(r)
      PROVE  RequestKeepsItsRows'
  <2> DEFINE q == peticion[r]
  <2>1. /\ q.usuario \in Estudiantes /\ q \in Peticion
        /\ q.pc = "enroll" /\ q.leida # "ninguna" => inscripcion[q.usuario] # Nada
    BY <1>5 DEF CommitEnrollment, CommitAdminEnrollment, RequestKeepsItsRows,
               HoldsValidRows, TypeOK
  <2>2. CASE Terminar(r)
    BY <2>2, RequestEnds
  <2>3. ASSUME NEW leida \in {"ninguna", "inactiva", "activa"}, NEW pago,
               leida # "ninguna" => inscripcion[q.usuario] # Nada,
               HayPagoLibre, PayAndEnroll(q.usuario, leida, PagoNuevo, pago)
        PROVE  inscripcion'[q.usuario] # Nada
    BY <2>1, <2>3, FilaType, PagoNuevoIsFree DEF PayAndEnroll, TypeOK
  <2>4. q.leida \in {"ninguna", "inactiva", "activa"}
    BY <2>1 DEF Peticion
  <2>5. CASE CommitEnrollment(r)
    BY <2>5, <1>4, <2>1, <2>2, <2>3, <2>4 DEF CommitEnrollment, RolledBack
  <2>6. CASE CommitAdminEnrollment(r)
    BY <2>6, <1>4, <2>1, <2>2, <2>3 DEF CommitAdminEnrollment, RolledBack
  <2> QED BY <1>5, <2>5, <2>6
<1>6. ASSUME NEW r \in Peticiones, CommitPending(r) \/ CreateIndex(r)
      PROVE  RequestKeepsItsRows'
  BY <1>6, RequestEnds DEF CommitPending, CreateIndex
<1>7. CASE UNCHANGED peticion
  BY <1>7, NoRequestMoves
<1> QED
  BY <1>1, <1>2, <1>3, <1>5, <1>6, <1>7
  DEF EnrollmentNext, EnrollFree, EnrollAudit, EnrollResumes, EnrollPaid,
      AdminUnenroll, EditCourse

\* The steps of a confirmation carry valid rows on.
LEMMA CheckoutRequests ==
    ASSUME TypeOK, RequestKeepsItsRows, PaymentBringsSeat, TablesGrow, CheckoutNext
    PROVE  RequestKeepsItsRows'
<1>1. ASSUME NEW r \in Peticiones, NEW o \in Ordenes, ConfirmPayment(r, o)
      PROVE  RequestKeepsItsRows'
  <2>1. PICK pend \in PagoPendiente(ordenes[o].usuario) :
            /\ ordenes[o].monto = expected_amount(pend)
            /\ peticion' = [peticion EXCEPT ![r] =
                 [Libre EXCEPT !.pc = "record", !.usuario = ordenes[o].usuario,
                               !.metodo = "paypal", !.monto = ordenes[o].monto,
                               !.orden = o, !.pago = pend]]
    BY <1>1 DEF ConfirmPayment
  <2>2. PICK g : g = [Libre EXCEPT !.pc = "record", !.usuario = ordenes[o].usuario,
                               !.metodo = "paypal", !.monto = ordenes[o].monto,
                               !.orden = o, !.pago = pend]
    OBVIOUS
  <2>3. /\ g.pc = "record" /\ g.usuario = ordenes[o].usuario
        /\ g.monto = ordenes[o].monto /\ g.orden = o /\ g.pago = pend
    BY <2>2 DEF Libre
  <2>4. /\ ordenes[o] # Nada /\ ordenes' = ordenes /\ pagos' = pagos
        /\ ordenes[o] \in Captura
    BY <1>1 DEF ConfirmPayment, TypeOK
  <2>5. pend # Nada => /\ Existe(pend)
                       /\ pagos[pend].usuario = ordenes[o].usuario
                       /\ pagos[pend].monto = ordenes[o].monto
    BY <2>1 DEF PagoPendiente, Pendientes, expected_amount
  <2>6. ordenes[o] = [usuario |-> ordenes[o].usuario, monto |-> ordenes[o].monto]
    BY <2>4 DEF Captura
  <2>7. HoldsValidRows(g)'
    BY <2>3, <2>4, <2>5, <2>6 DEF HoldsValidRows, Captura, Existe
  <2> QED BY <2>1, <2>2, <2>7, OneRequestMoves
<1>2. ASSUME NEW r \in Peticiones, FindRecord(r)
      PROVE  RequestKeepsItsRows'
  <2>1. PICK g : g = [peticion[r] EXCEPT !.pc = "flush"]
    OBVIOUS
  <2>2. /\ g.pc = "flush" /\ g.usuario = peticion[r].usuario
        /\ g.monto = peticion[r].monto /\ g.orden = peticion[r].orden
        /\ g.pago = peticion[r].pago
    BY <2>1 DEF TypeOK, Peticion
  <2>3. HoldsValidRows(g)'
    BY <1>2, <2>2 DEF FindRecord, RequestKeepsItsRows, HoldsValidRows, Existe
  <2> QED BY <1>2, <2>1, <2>3, OneRequestMoves, RequestEnds DEF FindRecord, Avanzar
<1>3. ASSUME NEW r \in Peticiones, FlushPayment(r)
      PROVE  RequestKeepsItsRows'
  <2>1. PICK g : g = [peticion[r] EXCEPT !.pc = "pay",
                                         !.leida = Leer(peticion[r].usuario)]
    OBVIOUS
  <2>2. /\ g.pc = "pay" /\ g.usuario = peticion[r].usuario
        /\ g.monto = peticion[r].monto /\ g.orden = peticion[r].orden
        /\ g.pago = peticion[r].pago /\ g.leida = Leer(peticion[r].usuario)
    BY <2>1 DEF TypeOK, Peticion
  <2>3. HoldsValidRows(g)'
    BY <1>3, <2>2 DEF FlushPayment, RequestKeepsItsRows, HoldsValidRows, Existe, Leer
  <2> QED BY <1>3, <2>1, <2>3, OneRequestMoves DEF FlushPayment
<1>4. ASSUME NEW r \in Peticiones, CommitPayment(r)
      PROVE  RequestKeepsItsRows'
  <2> DEFINE q == peticion[r]
  <2>1. CASE Terminar(r)
    BY <2>1, RequestEnds
  <2>2. CASE ~Terminar(r)
    <3>1. PICK p \in PagoIds :
              /\ pagos' = [pagos EXCEPT ![p] = PagoConfirmado(q, q.pago)]
              /\ peticion' = [peticion EXCEPT ![r].pc = "coupon", ![r].pago = p]
      BY <1>4, <2>2 DEF CommitPayment
    <3>2. PICK g : g = [peticion[r] EXCEPT !.pc = "coupon", !.pago = p]
      OBVIOUS
    <3>3. g.pc = "coupon" /\ g.usuario = q.usuario /\ g.pago = p
      BY <3>2 DEF TypeOK, Peticion
    <3>4. /\ q.usuario \in Estudiantes /\ q.orden \in Ordenes
          /\ q.pago # Nada => /\ Existe(q.pago)
                              /\ pagos[q.pago].usuario = q.usuario
      BY <1>4 DEF CommitPayment, RequestKeepsItsRows, HoldsValidRows
    <3>5. pagos'[p] = PagoConfirmado(q, q.pago)
      BY <3>1 DEF TypeOK
    <3>6. PagoConfirmado(q, q.pago) \in Pago
      BY <3>4 DEF TypeOK, PagoConfirmado, Pago, Peticion, Existe
    <3>7. /\ pagos'[p] # Nada /\ pagos'[p].usuario = q.usuario
          /\ pagos'[p].estado = "completed"
      BY <3>5, <3>6, NadaAssumption DEF PagoConfirmado
    <3>8. HoldsValidRows(g)'
      BY <3>3, <3>4, <3>7 DEF HoldsValidRows, Existe, Completado
    <3> QED BY <3>1, <3>2, <3>8, OneRequestMoves
  <2> QED BY <2>1, <2>2
<1>5. ASSUME NEW r \in Peticiones, CountCoupon(r)
      PROVE  RequestKeepsItsRows'
  <2>1. PICK g : g = [peticion[r] EXCEPT !.pc = "index"]
    OBVIOUS
  <2>2. /\ g.pc = "index" /\ g.usuario = peticion[r].usuario
    BY <2>1 DEF TypeOK, Peticion
  <2>3. /\ peticion[r].usuario \in Estudiantes
        /\ inscripcion[peticion[r].usuario] # Nada
        /\ inscripcion' = inscripcion
    BY <1>5 DEF CountCoupon, RequestKeepsItsRows, HoldsValidRows, PaymentBringsSeat
  <2>4. HoldsValidRows(g)'
    BY <2>2, <2>3 DEF HoldsValidRows
  <2> QED BY <1>5, <2>1, <2>4, OneRequestMoves DEF CountCoupon, Avanzar
<1>6. CASE UNCHANGED peticion
  BY <1>6, NoRequestMoves
<1> QED
  BY <1>1, <1>2, <1>3, <1>4, <1>5, <1>6
  DEF CheckoutNext, OpenPaymentPage, OpenPaymentPageFor, Capture

\* What every request carries stays true, whoever takes the step.
LEMMA RequestStep ==
    TypeOK /\ RequestKeepsItsRows /\ PaymentBringsSeat /\ [Next]_vars
    => RequestKeepsItsRows'
<1> SUFFICES ASSUME TypeOK, RequestKeepsItsRows, PaymentBringsSeat, [Next]_vars
             PROVE  RequestKeepsItsRows'
  OBVIOUS
<1>1. TablesGrow
  BY NextGrows
<1>2. CASE UNCHANGED peticion
  BY <1>1, <1>2, NoRequestMoves
<1>3. ASSUME NEW r \in Peticiones, Crash(r) PROVE RequestKeepsItsRows'
  BY <1>1, <1>3, RequestEnds DEF Crash
<1>4. CASE CouponNext
  BY <1>2, <1>4
  DEF CouponNext, CreateCoupon, EditCoupon, DeleteCoupon, ExpireCoupon
<1> QED
  BY <1>1, <1>2, <1>3, <1>4, EnrollmentRequests, CheckoutRequests DEF Next, vars

----------------------------------------
(* Seats and payments.  The payments that a step completes are exactly those *)
(* it attaches to a seat, so the two invariants are proved from what the     *)
(* three writing steps have in common.                                       *)

\* One transaction completes payment p of student s and gives s a row for it.
SeatPaid(s, p) ==
    /\ p \in PagoIds
    /\ s \in Estudiantes
    /\ pagos' = [pagos EXCEPT ![p] = pagos'[p]]
    /\ Completado(p)'
    /\ pagos'[p].usuario = s
    /\ inscripcion' = [inscripcion EXCEPT ![s] = inscripcion'[s]]
    /\ inscripcion'[s] # Nada
    /\ inscripcion'[s].pago = p

\* Any other step leaves every seat on its payment and completes none.
SeatsStay ==
    /\ \A s \in Estudiantes : Activa(s)' =>
          Activa(s) /\ inscripcion'[s].pago = inscripcion[s].pago
    /\ \A p \in PagoIds : Completado(p)' => Completado(p)

\* Payment and enrollment written together are a paid seat.
LEMMA PayAndEnrollPaysSeat ==
    ASSUME TypeOK, NEW s \in Estudiantes, NEW p \in PagoIds, NEW pago \in Pago,
           NEW leida \in {"ninguna", "inactiva", "activa"},
           leida # "ninguna" => inscripcion[s] # Nada,
           pago.estado = "completed", pago.usuario = s,
           pagos' = [pagos EXCEPT ![p] = pago],
           inscripcion' = [inscripcion EXCEPT ![s] = FilaGuardada(s, leida, p)]
    PROVE  SeatPaid(s, p)
<1>1. pagos'[p] = pago /\ pago # Nada
  BY NadaAssumption DEF TypeOK
<1>2. /\ inscripcion'[s] = FilaGuardada(s, leida, p)
      /\ FilaGuardada(s, leida, p) # Nada
      /\ FilaGuardada(s, leida, p).pago = p
  BY FilaType DEF TypeOK
<1> QED BY <1>1, <1>2 DEF SeatPaid, Completado, Existe

\* Every step either pays for one seat or leaves seats and payments alone.
LEMMA SeatStep ==
    ASSUME TypeOK, RequestKeepsItsRows, [Next]_vars
    PROVE  SeatsStay \/ \E s \in Estudiantes, p \in PagoIds : SeatPaid(s, p)
<1>1. CASE UNCHANGED <<pagos, inscripcion>>
  BY <1>1 DEF SeatsStay, Activa, Completado, Existe
<1>2. ASSUME NEW r \in Peticiones, CommitPending(r)
      PROVE  SeatsStay
  <2> DEFINE q == peticion[r]
  <2>1. NuevoPago(q, "pending").estado = "pending"
    BY DEF NuevoPago
  <2> QED BY <1>1, <1>2, <2>1, PagoNuevoIsFree
          DEF CommitPending, SeatsStay, TypeOK, Activa, Completado, Existe
<1>3. ASSUME NEW s \in Estudiantes, AdminUnenroll(s)
      PROVE  SeatsStay
  BY <1>3 DEF AdminUnenroll, SeatsStay, TypeOK, Activa, EstudianteCurso, Completado, Existe
<1>4. ASSUME NEW r \in Peticiones, CommitEnrollment(r) \/ CommitAdminEnrollment(r)
      PROVE  SeatsStay \/ \E s \in Estudiantes, p \in PagoIds : SeatPaid(s, p)
  <2> DEFINE q == peticion[r]
             pago == NuevoPago(q, "completed")
  <2>1. /\ q \in Peticion /\ q.usuario \in Estudiantes
        /\ q.leida \in {"ninguna", "inactiva", "activa"}
        /\ CommitEnrollment(r) /\ q.leida # "ninguna" => inscripcion[q.usuario] # Nada
    BY <1>4 DEF CommitEnrollment, CommitAdminEnrollment, RequestKeepsItsRows,
               HoldsValidRows, TypeOK, Peticion
  <2>2. pago \in Pago
    BY <2>1, NuevoPagoType
  <2>3. pago.estado = "completed" /\ pago.usuario = q.usuario
    BY DEF NuevoPago
  <2> HIDE DEF pago
  <2>4. ASSUME NEW leida \in {"ninguna", "inactiva", "activa"},
               leida # "ninguna" => inscripcion[q.usuario] # Nada,
               HayPagoLibre, PayAndEnroll(q.usuario, leida, PagoNuevo, pago)
        PROVE  SeatPaid(q.usuario, PagoNuevo) /\ PagoNuevo \in PagoIds
    BY <2>1, <2>2, <2>3, <2>4, PagoNuevoIsFree, PayAndEnrollPaysSeat DEF PayAndEnroll
  <2>5. CASE CommitEnrollment(r)
    BY <1>1, <2>1, <2>4, <2>5 DEF CommitEnrollment, RolledBack, pago
  <2>6. CASE CommitAdminEnrollment(r)
    BY <1>1, <2>1, <2>4, <2>6 DEF CommitAdminEnrollment, RolledBack, pago
  <2> QED BY <1>4, <2>5, <2>6
<1>5. ASSUME NEW r \in Peticiones, CommitPayment(r)
      PROVE  SeatsStay \/ \E s \in Estudiantes, p \in PagoIds : SeatPaid(s, p)
  <2> DEFINE q == peticion[r]
  <2>1. CASE UNCHANGED <<pagos, inscripcion>>
    BY <1>1, <2>1
  <2>2. CASE ~UNCHANGED <<pagos, inscripcion>>
    <3>1. PICK p \in PagoIds :
              /\ pagos' = [pagos EXCEPT ![p] = PagoConfirmado(q, q.pago)]
              /\ inscripcion' = [inscripcion EXCEPT
                     ![q.usuario] = FilaGuardada(q.usuario, q.leida, p)]
      BY <1>5, <2>2 DEF CommitPayment
    <3>2. /\ q \in Peticion /\ q.usuario \in Estudiantes /\ q.orden \in Ordenes
          /\ q.leida \in {"ninguna", "inactiva", "activa"}
          /\ q.leida # "ninguna" => inscripcion[q.usuario] # Nada
          /\ q.pago # Nada => Existe(q.pago)
      BY <1>5 DEF CommitPayment, RequestKeepsItsRows, HoldsValidRows, TypeOK, Peticion
    <3>3. PagoConfirmado(q, q.pago) \in Pago
      BY <3>2 DEF TypeOK, PagoConfirmado, Pago, Peticion, Existe
    <3>4. /\ PagoConfirmado(q, q.pago).estado = "completed"
          /\ PagoConfirmado(q, q.pago).usuario = q.usuario
      BY DEF PagoConfirmado
    <3>5. SeatPaid(q.usuario, p)
      BY <3>1, <3>2, <3>3, <3>4, PayAndEnrollPaysSeat
    <3> QED BY <3>2, <3>5
  <2> QED BY <2>1, <2>2
<1>6. CASE EnrollmentNext
  <2>1. ASSUME NEW r \in Peticiones, NEW s \in Estudiantes, NEW b \in BOOLEAN,
               \/ EnrollFree(r, s, b) \/ EnrollAudit(r, s, b) \/ EnrollResumes(r, s)
               \/ \E modo \in {"", "audit"} : EnrollPaid(r, s, modo, b)
               \/ AdminEnroll(r, s, b)
        PROVE  UNCHANGED <<pagos, inscripcion>>
    BY <2>1 DEF EnrollFree, EnrollAudit, EnrollResumes, EnrollPaid, AdminEnroll
  <2>2. ASSUME NEW r \in Peticiones, LookupEnrollment(r) \/ CreateIndex(r)
        PROVE  UNCHANGED <<pagos, inscripcion>>
    BY <2>2 DEF LookupEnrollment, CreateIndex
  <2>3. ASSUME NEW c \in Cursos, EditCourse(c)
        PROVE  UNCHANGED <<pagos, inscripcion>>
    BY <2>3 DEF EditCourse
  <2> QED BY <1>1, <1>2, <1>3, <1>4, <1>6, <2>1, <2>2, <2>3 DEF EnrollmentNext
<1>7. CASE CheckoutNext
  BY <1>1, <1>5, <1>7
  DEF CheckoutNext, OpenPaymentPage, OpenPaymentPageFor, Capture, ConfirmPayment,
      FindRecord, FlushPayment, CountCoupon
<1> QED
  BY <1>1, <1>6, <1>7
  DEF Next, vars, Crash, CouponNext, CreateCoupon, EditCoupon, DeleteCoupon,
      ExpireCoupon

\* A live seat keeps resting on a completed payment of its student.
LEMMA SeatIsPaidStep ==
    TypeOK /\ RequestKeepsItsRows /\ ActiveSeatIsPaid /\ [Next]_vars
    => ActiveSeatIsPaid'
<1> SUFFICES ASSUME TypeOK, RequestKeepsItsRows, ActiveSeatIsPaid, [Next]_vars,
                    NEW s \in Estudiantes, Activa(s)'
             PROVE  /\ Completado(inscripcion[s].pago)'
                    /\ pagos'[inscripcion'[s].pago].usuario = s
  BY DEF ActiveSeatIsPaid, Activa, Completado, Existe
<1>1. TablesGrow
  BY NextGrows
<1>2. ASSUME Activa(s), inscripcion'[s].pago = inscripcion[s].pago
      PROVE  /\ Completado(inscripcion[s].pago)'
             /\ pagos'[inscripcion'[s].pago].usuario = s
  <2>1. PICK p \in PagoIds : p = inscripcion[s].pago
    BY <1>2 DEF Activa, TypeOK, EstudianteCurso
  <2>2. Completado(p) /\ pagos[p].usuario = s
    BY <1>2, <2>1 DEF ActiveSeatIsPaid
  <2> QED BY <1>1, <1>2, <2>1, <2>2 DEF TablesGrow, Completado, Existe
<1>3. CASE SeatsStay
  BY <1>2, <1>3 DEF SeatsStay
<1>4. ASSUME NEW t \in Estudiantes, NEW p \in PagoIds, SeatPaid(t, p)
      PROVE  /\ Completado(inscripcion[s].pago)'
             /\ pagos'[inscripcion'[s].pago].usuario = s
  <2>1. CASE s = t
    BY <1>4, <2>1 DEF SeatPaid, Completado, Existe
  <2>2. CASE s # t
    <3>1. inscripcion'[s] = inscripcion[s]
      BY <1>4, <2>2 DEF SeatPaid, TypeOK
    <3> QED BY <1>2, <3>1 DEF Activa
  <2> QED BY <2>1, <2>2
<1> QED BY <1>3, <1>4, SeatStep

\* A completed payment keeps its student enrolled, live or removed.
LEMMA PaymentBringsSeatStep ==
    TypeOK /\ RequestKeepsItsRows /\ PaymentBringsSeat /\ [Next]_vars
    => PaymentBringsSeat'
<1> SUFFICES ASSUME TypeOK, RequestKeepsItsRows, PaymentBringsSeat, [Next]_vars,
                    NEW p \in PagoIds, Completado(p)'
             PROVE  inscripcion'[pagos'[p].usuario] # Nada
  BY DEF PaymentBringsSeat, Completado, Existe
<1>1. TablesGrow
  BY NextGrows
<1>2. ASSUME Completado(p) PROVE inscripcion'[pagos'[p].usuario] # Nada
  <2>1. /\ inscripcion[pagos[p].usuario] # Nada
        /\ pagos[p].usuario \in Estudiantes
    BY <1>2 DEF PaymentBringsSeat, TypeOK, Completado, Existe, Pago
  <2> QED BY <1>1, <1>2, <2>1 DEF TablesGrow, Completado
<1>3. CASE SeatsStay
  BY <1>2, <1>3 DEF SeatsStay
<1>4. ASSUME NEW s \in Estudiantes, NEW x \in PagoIds, SeatPaid(s, x)
      PROVE  inscripcion'[pagos'[p].usuario] # Nada
  <2>1. CASE p = x
    BY <1>4, <2>1 DEF SeatPaid
  <2>2. CASE p # x
    <3>1. pagos'[p] = pagos[p]
      BY <1>4, <2>2 DEF SeatPaid, TypeOK
    <3> QED BY <1>2, <3>1 DEF Completado, Existe
  <2> QED BY <2>1, <2>2
<1> QED BY <1>3, <1>4, SeatStep

\* Only the request that has just enrolled a student adds him to the index.
LEMMA IndexStep ==
    TypeOK /\ RequestKeepsItsRows /\ IndexFollowsSeat /\ [Next]_vars
    => IndexFollowsSeat'
<1> SUFFICES ASSUME TypeOK, RequestKeepsItsRows, IndexFollowsSeat, [Next]_vars,
                    NEW s \in Estudiantes, s \in indice'
             PROVE  inscripcion'[s] # Nada
  BY DEF IndexFollowsSeat
<1>1. TablesGrow
  BY NextGrows
<1>2. CASE indice' = indice
  BY <1>1, <1>2 DEF IndexFollowsSeat, TablesGrow
<1>3. ASSUME NEW r \in Peticiones, CreateIndex(r)
      PROVE  inscripcion'[s] # Nada
  <2>1. peticion[r].pc = "index" => inscripcion[peticion[r].usuario] # Nada
    BY DEF RequestKeepsItsRows, HoldsValidRows
  <2>2. s # Personal
    BY TablesAssumption
  <2> QED BY <1>1, <1>3, <2>1, <2>2 DEF CreateIndex, IndexFollowsSeat, TablesGrow
<1>4. CASE EnrollmentNext
  <2>1. ASSUME NEW r \in Peticiones, NEW t \in Estudiantes, NEW b \in BOOLEAN,
               \/ EnrollFree(r, t, b) \/ EnrollAudit(r, t, b) \/ EnrollResumes(r, t)
               \/ \E modo \in {"", "audit"} : EnrollPaid(r, t, modo, b)
               \/ AdminEnroll(r, t, b)
        PROVE  indice' = indice
    BY <2>1 DEF EnrollFree, EnrollAudit, EnrollResumes, EnrollPaid, AdminEnroll
  <2>2. ASSUME NEW r \in Peticiones,
               \/ CommitPending(r) \/ LookupEnrollment(r)
               \/ CommitEnrollment(r) \/ CommitAdminEnrollment(r)
        PROVE  indice' = indice
    BY <2>2 DEF CommitPending, LookupEnrollment, CommitEnrollment, CommitAdminEnrollment
  <2>3. ASSUME NEW t \in Estudiantes, AdminUnenroll(t) PROVE indice' = indice
    BY <2>3 DEF AdminUnenroll
  <2>4. ASSUME NEW c \in Cursos, EditCourse(c) PROVE indice' = indice
    BY <2>4 DEF EditCourse
  <2> QED BY <1>2, <1>3, <1>4, <2>1, <2>2, <2>3, <2>4 DEF EnrollmentNext
<1>5. CASE CheckoutNext
  BY <1>2, <1>5
  DEF CheckoutNext, OpenPaymentPage, OpenPaymentPageFor, Capture, ConfirmPayment,
      FindRecord, FlushPayment, CommitPayment, CountCoupon
<1> QED
  BY <1>2, <1>4, <1>5
  DEF Next, vars, Crash, CouponNext, CreateCoupon, EditCoupon, DeleteCoupon,
      ExpireCoupon

----------------------------------------
(* Money.  A request that books through the administrator or as free writes  *)
(* another method, so only a confirmation books a PayPal payment.            *)

\* The booking of one payment: it records a capture of its own student.
BookedWell(p) ==
    Completado(p) /\ pagos[p].metodo = "paypal" =>
        /\ pagos[p].referencia \in Ordenes
        /\ ordenes[pagos[p].referencia] # Nada
        /\ ordenes[pagos[p].referencia] =
              [usuario |-> pagos[p].usuario, monto |-> pagos[p].monto]

\* The strengthening of BookedMoneyWasCaptured that a step preserves: the
\* order a payment refers to exists.
AllBookedWell == \A p \in PagoIds : BookedWell(p)

\* A payment that the step leaves alone stays booked as well as it was:
\* captures are never taken back.
LEMMA BookedWellKept ==
    ASSUME TablesGrow, NEW p \in PagoIds, BookedWell(p), pagos'[p] = pagos[p]
    PROVE  BookedWell(p)'
BY DEF BookedWell, TablesGrow, Completado, Existe

\* One payment is written and it is booked well.
LEMMA OneBooking ==
    ASSUME TypeOK, TablesGrow, AllBookedWell, NEW p \in PagoIds, NEW pago,
           pagos' = [pagos EXCEPT ![p] = pago], BookedWell(p)'
    PROVE  AllBookedWell'
<1> SUFFICES ASSUME NEW x \in PagoIds PROVE BookedWell(x)'
  BY DEF AllBookedWell
<1>1. CASE x = p
  BY <1>1
<1>2. CASE x # p
  BY <1>2, BookedWellKept DEF AllBookedWell, TypeOK
<1> QED BY <1>1, <1>2

\* Every step keeps what is booked captured.
LEMMA BookedStep ==
    TypeOK /\ RequestKeepsItsRows /\ AllBookedWell /\ [Next]_vars => AllBookedWell'
<1> SUFFICES ASSUME TypeOK, RequestKeepsItsRows, AllBookedWell, [Next]_vars
             PROVE  AllBookedWell'
  OBVIOUS
<1>1. TablesGrow
  BY NextGrows
<1>2. CASE pagos' = pagos
  BY <1>1, <1>2, BookedWellKept DEF AllBookedWell
<1>3. ASSUME NEW q, NEW estado, NEW p \in PagoIds,
             pagos' = [pagos EXCEPT ![p] = NuevoPago(q, estado)],
             estado # "completed" \/ q.metodo # "paypal"
      PROVE  AllBookedWell'
  <2>1. pagos'[p] = NuevoPago(q, estado)
    BY <1>3 DEF TypeOK
  <2>2. BookedWell(p)'
    BY <1>3, <2>1 DEF BookedWell, Completado, Existe, NuevoPago
  <2> QED BY <1>1, <1>3, <2>2, OneBooking
<1>4. ASSUME NEW r \in Peticiones,
             CommitPending(r) \/ CommitEnrollment(r) \/ CommitAdminEnrollment(r)
      PROVE  AllBookedWell'
  <2>1. peticion[r].pc \in {"enroll", "admin"} => peticion[r].metodo # "paypal"
    BY DEF RequestKeepsItsRows, HoldsValidRows
  <2>2. CASE CommitPending(r)
    BY <1>2, <1>3, <2>2, PagoNuevoIsFree DEF CommitPending
  <2>3. CASE CommitEnrollment(r)
    BY <1>2, <1>3, <2>1, <2>3, PagoNuevoIsFree DEF CommitEnrollment, PayAndEnroll, RolledBack
  <2>4. CASE CommitAdminEnrollment(r)
    BY <1>2, <1>3, <2>1, <2>4, PagoNuevoIsFree DEF CommitAdminEnrollment, PayAndEnroll, RolledBack
  <2> QED BY <1>4, <2>2, <2>3, <2>4
<1>5. ASSUME NEW r \in Peticiones, CommitPayment(r)
      PROVE  AllBookedWell'
  <2> DEFINE q == peticion[r]
  <2>1. CASE pagos' # pagos
    <3>1. PICK p \in PagoIds : pagos' = [pagos EXCEPT ![p] = PagoConfirmado(q, q.pago)]
      BY <1>5, <2>1 DEF CommitPayment
    <3>2. pagos'[p] = PagoConfirmado(q, q.pago)
      BY <3>1 DEF TypeOK
    <3>3. /\ q.orden \in Ordenes
          /\ ordenes[q.orden] # Nada
          /\ ordenes[q.orden] = [usuario |-> q.usuario, monto |-> q.monto]
          /\ ordenes' = ordenes
      BY <1>5 DEF CommitPayment, RequestKeepsItsRows, HoldsValidRows
    <3>4. BookedWell(p)'
      BY <3>2, <3>3 DEF BookedWell, PagoConfirmado
    <3> QED BY <1>1, <3>1, <3>4, OneBooking
  <2> QED BY <1>2, <2>1
<1>6. CASE EnrollmentNext
  <2>1. ASSUME NEW r \in Peticiones, NEW t \in Estudiantes, NEW b \in BOOLEAN,
               \/ EnrollFree(r, t, b) \/ EnrollAudit(r, t, b) \/ EnrollResumes(r, t)
               \/ \E modo \in {"", "audit"} : EnrollPaid(r, t, modo, b)
               \/ AdminEnroll(r, t, b)
        PROVE  pagos' = pagos
    BY <2>1 DEF EnrollFree, EnrollAudit, EnrollResumes, EnrollPaid, AdminEnroll
  <2>2. ASSUME NEW r \in Peticiones, LookupEnrollment(r) \/ CreateIndex(r)
        PROVE  pagos' = pagos
    BY <2>2 DEF LookupEnrollment, CreateIndex
  <2>3. ASSUME NEW t \in Estudiantes, AdminUnenroll(t) PROVE pagos' = pagos
    BY <2>3 DEF AdminUnenroll
  <2>4. ASSUME NEW c \in Cursos, EditCourse(c) PROVE pagos' = pagos
    BY <2>4 DEF EditCourse
  <2> QED BY <1>2, <1>4, <1>6, <2>1, <2>2, <2>3, <2>4 DEF EnrollmentNext
<1>7. CASE CheckoutNext
  BY <1>2, <1>5, <1>7
  DEF CheckoutNext, OpenPaymentPage, OpenPaymentPageFor, Capture, ConfirmPayment,
      FindRecord, FlushPayment, CountCoupon
<1> QED
  BY <1>2, <1>6, <1>7
  DEF Next, vars, Crash, CouponNext, CreateCoupon, EditCoupon, DeleteCoupon,
      ExpireCoupon

----------------------------------------
(* The inductive invariant.  A seat is paid because the request that wrote   *)
(* it carried rows that are still there; those stay because rows are only    *)
(* added; so type, requests, seats and money have to be carried together.    *)

IInv ==
    /\ TypeOK
    /\ RequestKeepsItsRows
    /\ ActiveSeatIsPaid
    /\ PaymentBringsSeat
    /\ AllBookedWell
    /\ IndexFollowsSeat

\* The empty tables satisfy the inductive invariant.
LEMMA InitIInv == Init => IInv
<1> SUFFICES ASSUME Init PROVE IInv
  OBVIOUS
<1>1. TypeOK
  BY TypeInit
<1>2. RequestKeepsItsRows
  <2> SUFFICES ASSUME NEW r \in Peticiones PROVE HoldsValidRows(peticion[r])
    BY DEF RequestKeepsItsRows
  <2>1. peticion[r].pc = "idle"
    BY DEF Init, Libre
  <2> QED BY <2>1 DEF HoldsValidRows
<1>3. ActiveSeatIsPaid /\ PaymentBringsSeat /\ AllBookedWell
  BY DEF Init, ActiveSeatIsPaid, PaymentBringsSeat, AllBookedWell, BookedWell,
         Activa, Completado, Existe
<1>4. IndexFollowsSeat
  BY DEF Init, IndexFollowsSeat
<1> QED BY <1>1, <1>2, <1>3, <1>4 DEF IInv

\* Every step preserves it.
LEMMA NextIInv == IInv /\ [Next]_vars => IInv'
BY TypeStep, RequestStep, SeatIsPaidStep, PaymentBringsSeatStep, BookedStep, IndexStep
DEF IInv

\* The inductive invariant holds in every reachable state.
THEOREM Inductive == Spec => []IInv
BY InitIInv, NextIInv, PTL DEF Spec

\* The tables and the requests have their types (LmsTables).
THEOREM TypeCorrect == Spec => []TypeOK
<1>1. IInv => TypeOK
  BY DEF IInv
<1> QED BY <1>1, Inductive, PTL

\* However requests interleave or die, what each of them read before the
\* others committed is still true when it writes (enrollment.py, paypal.py).
THEOREM RequestsKeepTheirRows == Spec => []RequestKeepsItsRows
<1>1. IInv => RequestKeepsItsRows
  BY DEF IInv
<1> QED BY <1>1, Inductive, PTL

\* Nobody holds a live seat without a completed payment of his own.
THEOREM SeatsArePaid == Spec => []ActiveSeatIsPaid
<1>1. IInv => ActiveSeatIsPaid
  BY DEF IInv
<1> QED BY <1>1, Inductive, PTL

\* No completed payment is left without an enrollment row.
THEOREM PaymentsBringSeats == Spec => []PaymentBringsSeat
<1>1. IInv => PaymentBringsSeat
  BY DEF IInv
<1> QED BY <1>1, Inductive, PTL

\* Every payment booked through PayPal is money captured from that student.
THEOREM MoneyWasCaptured == Spec => []BookedMoneyWasCaptured
<1>1. IInv => BookedMoneyWasCaptured
  BY TablesAssumption DEF IInv, AllBookedWell, BookedWell, BookedMoneyWasCaptured
<1> QED BY <1>1, Inductive, PTL

\* Nobody is indexed in a course he was never enrolled in.
THEOREM IndexesFollowSeats == Spec => []IndexFollowsSeat
<1>1. IInv => IndexFollowsSeat
  BY DEF IInv
<1> QED BY <1>1, Inductive, PTL

\* No step undoes a completed payment or changes its student or its amount.
THEOREM PaymentsAreFinal == Spec => CompletedPaymentIsFinal
<1>1. IInv /\ [Next]_vars =>
        [\A p \in PagoIds : Completado(p) =>
            /\ Completado(p)'
            /\ pagos'[p].usuario = pagos[p].usuario
            /\ pagos'[p].monto = pagos[p].monto]_vars
  BY NextGrows DEF IInv, TablesGrow, Completado
<1> QED BY <1>1, Inductive, PTL DEF Spec, CompletedPaymentIsFinal

----------------------------------------
(* One request at a time. *)

UnaALaVez == \A r, q \in Peticiones : r = q

----------------------------------------
(* What is read stays true until it is used. *)

\* A payment that is pending was made for the payment page and knows no order.
PendingIsPlain ==
    \A p \in PagoIds : Existe(p) /\ pagos[p].estado = "pending" =>
        /\ pagos[p].metodo = "paypal"
        /\ pagos[p].referencia = Nada
        /\ ~pagos[p].audit

\* An order is recorded by one payment.
OrdersDiffer ==
    \A p, x \in PagoIds :
        Existe(p) /\ Existe(x) /\ pagos[p].referencia = pagos[x].referencia
        => pagos[p].referencia = Nada \/ p = x

\* The student is still not enrolled, the payment still pending, the order
\* still not recorded.
ReadIsCurrent(q) ==
    /\ q.pc = "pending" => q.metodo = "paypal" /\ q.orden = Nada /\ ~q.audit
    /\ q.pc \in {"lookup", "enroll", "admin"} => q.orden = Nada /\ ~Activa(q.usuario)
    /\ q.pc = "enroll" => q.leida # "activa"
    /\ q.pc \in {"record", "flush", "pay"} /\ q.pago # Nada
          => pagos[q.pago].estado = "pending"
    /\ q.pc \in {"flush", "pay"} => Registrados(q.orden) = {}

SerialInv ==
    /\ IInv
    /\ PendingIsPlain
    /\ OrdersDiffer
    /\ \A r \in Peticiones : ReadIsCurrent(peticion[r])

\* Payment p is written: a new one, or one that was pending; an order that it
\* records was not recorded.
Escribe(p) ==
    /\ p \in PagoIds
    /\ pagos' = [pagos EXCEPT ![p] = pagos'[p]]
    /\ pagos'[p] \in Pago
    /\ ~Completado(p)
    /\ pagos'[p].estado = "pending" => /\ pagos'[p].metodo = "paypal"
                                       /\ pagos'[p].referencia = Nada
                                       /\ ~pagos'[p].audit
    /\ pagos'[p].referencia # Nada => Registrados(pagos'[p].referencia) = {}

\* What a step does to payments and seats.
NadaEscrito ==
    UNCHANGED pagos /\ (UNCHANGED inscripcion \/ \E s \in Estudiantes : AdminUnenroll(s))
PendienteEscrito(p) == Escribe(p) /\ UNCHANGED inscripcion /\ ~Completado(p)'
AsientoEscrito(s, p) ==
    Escribe(p) /\ SeatPaid(s, p) /\ (Activa(s) => ~pagos'[p].audit)

\* A payment page's payment is written as pending.
LEMMA PendingWritten ==
    ASSUME SerialInv, NEW r \in Peticiones, CommitPending(r)
    PROVE  NadaEscrito \/ \E p \in PagoIds : PendienteEscrito(p)
<1> DEFINE q == peticion[r]
<1>1. /\ q \in Peticion /\ q.usuario \in Estudiantes
      /\ q.metodo = "paypal" /\ q.orden = Nada /\ ~q.audit
  BY DEF SerialInv, IInv, TypeOK, ReadIsCurrent, CommitPending, RequestKeepsItsRows,
         HoldsValidRows
<1>2. CASE HayPagoLibre
  <2>1. PagoNuevo \in PagoIds /\ ~Existe(PagoNuevo)
    BY <1>2, PagoNuevoIsFree
  <2>2. PICK p \in PagoIds : p = PagoNuevo
    BY <2>1
  <2>3. NuevoPago(q, "pending") \in Pago
    BY <1>1, NuevoPagoType
  <2>4. pagos' = [pagos EXCEPT ![p] = NuevoPago(q, "pending")]
    BY <1>2, <2>2 DEF CommitPending
  <2>5. pagos'[p] = NuevoPago(q, "pending")
    BY <2>4 DEF SerialInv, IInv, TypeOK
  <2>6. /\ pagos'[p].estado = "pending" /\ pagos'[p].metodo = "paypal"
        /\ pagos'[p].referencia = Nada /\ ~pagos'[p].audit
    BY <1>1, <2>5 DEF NuevoPago
  <2>7. PendienteEscrito(p)
    BY <2>1, <2>2, <2>3, <2>4, <2>5, <2>6
    DEF PendienteEscrito, Escribe, Completado, Existe, CommitPending
  <2> QED BY <2>7
<1>3. CASE ~HayPagoLibre
  BY <1>3 DEF CommitPending, NadaEscrito
<1> QED BY <1>2, <1>3

\* Enrolling without PayPal writes a new payment, and never over a live seat.
LEMMA SeatWritten ==
    ASSUME SerialInv, NEW r \in Peticiones, CommitEnrollment(r) \/ CommitAdminEnrollment(r)
    PROVE  NadaEscrito \/ \E p \in PagoIds, s \in Estudiantes : AsientoEscrito(s, p)
<1> DEFINE q == peticion[r]
           pago == NuevoPago(q, "completed")
<1>1. /\ q \in Peticion /\ q.usuario \in Estudiantes
      /\ q.leida \in {"ninguna", "inactiva", "activa"}
      /\ CommitEnrollment(r) /\ q.leida # "ninguna" => inscripcion[q.usuario] # Nada
      /\ q.orden = Nada /\ ~Activa(q.usuario)
  BY DEF SerialInv, IInv, TypeOK, Peticion, ReadIsCurrent, CommitEnrollment,
         CommitAdminEnrollment, RequestKeepsItsRows, HoldsValidRows
<1>2. pago \in Pago
  BY <1>1, NuevoPagoType
<1>3. pago.estado = "completed" /\ pago.usuario = q.usuario /\ pago.referencia = Nada
  BY <1>1 DEF NuevoPago
<1> HIDE DEF pago
<1>4. ASSUME NEW leida \in {"ninguna", "inactiva", "activa"},
             leida # "ninguna" => inscripcion[q.usuario] # Nada,
             HayPagoLibre, PayAndEnroll(q.usuario, leida, PagoNuevo, pago)
      PROVE  \E p \in PagoIds, s \in Estudiantes : AsientoEscrito(s, p)
  <2>1. PICK p \in PagoIds : p = PagoNuevo /\ ~Existe(p)
    BY <1>4, PagoNuevoIsFree
  <2>2. SeatPaid(q.usuario, p)
    BY <1>1, <1>2, <1>3, <1>4, <2>1, PayAndEnrollPaysSeat DEF PayAndEnroll, SerialInv, IInv
  <2>3. pagos'[p] = pago /\ pagos' = [pagos EXCEPT ![p] = pago]
    BY <1>4, <2>1 DEF PayAndEnroll, SerialInv, IInv, TypeOK
  <2>4. AsientoEscrito(q.usuario, p)
    BY <1>1, <1>2, <1>3, <2>1, <2>2, <2>3 DEF AsientoEscrito, Escribe, Completado
  <2> QED BY <1>1, <2>4
<1>5. CASE CommitEnrollment(r)
  BY <1>1, <1>4, <1>5 DEF CommitEnrollment, RolledBack, NadaEscrito, pago
<1>6. CASE CommitAdminEnrollment(r)
  BY <1>1, <1>4, <1>6 DEF CommitAdminEnrollment, RolledBack, NadaEscrito, pago
<1> QED BY <1>5, <1>6

\* A confirmation writes a new payment or the pending one.
LEMMA ConfirmationWritten ==
    ASSUME SerialInv, NEW r \in Peticiones, CommitPayment(r)
    PROVE  NadaEscrito \/ \E p \in PagoIds, s \in Estudiantes : AsientoEscrito(s, p)
<1> DEFINE q == peticion[r]
<1>1. CASE UNCHANGED <<pagos, inscripcion>>
  BY <1>1 DEF NadaEscrito
<1>2. CASE ~UNCHANGED <<pagos, inscripcion>>
  <2>1. PICK p \in PagoIds :
            /\ p = IF q.pago = Nada THEN PagoNuevo ELSE q.pago
            /\ pagos' = [pagos EXCEPT ![p] = PagoConfirmado(q, q.pago)]
            /\ inscripcion' = [inscripcion EXCEPT
                   ![q.usuario] = FilaGuardada(q.usuario, q.leida, p)]
    BY <1>2 DEF CommitPayment
  <2>2. /\ q \in Peticion /\ q.usuario \in Estudiantes /\ q.orden \in Ordenes
        /\ q.leida \in {"ninguna", "inactiva", "activa"}
        /\ q.leida # "ninguna" => inscripcion[q.usuario] # Nada
        /\ q.pago # Nada => Existe(q.pago) /\ pagos[q.pago].estado = "pending"
        /\ Registrados(q.orden) = {}
        /\ q.pago = Nada => HayPagoLibre
    BY <1>2 DEF CommitPayment, RequestKeepsItsRows, HoldsValidRows, TypeOK, Peticion,
                SerialInv, IInv, ReadIsCurrent
  <2>3. PagoConfirmado(q, q.pago) \in Pago
    BY <2>2 DEF TypeOK, PagoConfirmado, Pago, Peticion, Existe, SerialInv, IInv
  <2>4. /\ PagoConfirmado(q, q.pago).estado = "completed"
        /\ PagoConfirmado(q, q.pago).usuario = q.usuario
        /\ PagoConfirmado(q, q.pago).referencia = q.orden
    BY DEF PagoConfirmado
  <2>5. ~PagoConfirmado(q, q.pago).audit
    BY <2>2 DEF PagoConfirmado, SerialInv, PendingIsPlain, Peticion
  <2>6. SeatPaid(q.usuario, p)
    BY <2>1, <2>2, <2>3, <2>4, PayAndEnrollPaysSeat DEF SerialInv, IInv
  <2>7. ~Completado(p)
    BY <2>1, <2>2, PagoNuevoIsFree DEF Completado
  <2>8. pagos'[p] = PagoConfirmado(q, q.pago)
    BY <2>1 DEF SerialInv, IInv, TypeOK
  <2>9. Escribe(p)
    BY <2>1, <2>2, <2>3, <2>4, <2>7, <2>8 DEF Escribe
  <2> QED BY <2>2, <2>5, <2>6, <2>8, <2>9 DEF AsientoEscrito
<1> QED BY <1>1, <1>2

\* What any step does to payments and seats.
LEMMA WriteStep ==
    ASSUME SerialInv, [Next]_vars
    PROVE  \/ NadaEscrito
           \/ \E p \in PagoIds : PendienteEscrito(p)
           \/ \E p \in PagoIds, s \in Estudiantes : AsientoEscrito(s, p)
<1>1. CASE UNCHANGED <<pagos, inscripcion>>
  BY <1>1 DEF NadaEscrito
<1>2. ASSUME NEW s \in Estudiantes, AdminUnenroll(s) PROVE NadaEscrito
  BY <1>2 DEF AdminUnenroll, NadaEscrito
<1>3. CASE EnrollmentNext
  <2>1. ASSUME NEW r \in Peticiones, NEW t \in Estudiantes, NEW b \in BOOLEAN,
               \/ EnrollFree(r, t, b) \/ EnrollAudit(r, t, b) \/ EnrollResumes(r, t)
               \/ \E modo \in {"", "audit"} : EnrollPaid(r, t, modo, b)
               \/ AdminEnroll(r, t, b)
        PROVE  UNCHANGED <<pagos, inscripcion>>
    BY <2>1 DEF EnrollFree, EnrollAudit, EnrollResumes, EnrollPaid, AdminEnroll
  <2>2. ASSUME NEW r \in Peticiones, LookupEnrollment(r) \/ CreateIndex(r)
        PROVE  UNCHANGED <<pagos, inscripcion>>
    BY <2>2 DEF LookupEnrollment, CreateIndex
  <2>3. ASSUME NEW c \in Cursos, EditCourse(c) PROVE UNCHANGED <<pagos, inscripcion>>
    BY <2>3 DEF EditCourse
  <2> QED BY <1>1, <1>2, <1>3, <2>1, <2>2, <2>3, PendingWritten, SeatWritten
          DEF EnrollmentNext
<1>4. CASE CheckoutNext
  BY <1>1, <1>4, ConfirmationWritten
  DEF CheckoutNext, OpenPaymentPage, OpenPaymentPageFor, Capture, ConfirmPayment,
      FindRecord, FlushPayment, CountCoupon
<1> QED
  BY <1>1, <1>3, <1>4
  DEF Next, vars, Crash, CouponNext, CreateCoupon, EditCoupon, DeleteCoupon,
      ExpireCoupon

----------------------------------------
(* The tables part of SerialInv follows from what is written. *)

\* Whatever is pending stays plain.
LEMMA PlainStep ==
    ASSUME SerialInv, [Next]_vars
    PROVE  PendingIsPlain'
<1> SUFFICES ASSUME NEW x \in PagoIds, Existe(x)', pagos'[x].estado = "pending"
             PROVE  /\ pagos'[x].metodo = "paypal"
                    /\ pagos'[x].referencia = Nada
                    /\ ~pagos'[x].audit
  BY DEF PendingIsPlain, Existe
<1>1. CASE pagos'[x] = pagos[x]
  BY <1>1 DEF SerialInv, PendingIsPlain, Existe
<1>2. ASSUME NEW p \in PagoIds, Escribe(p), pagos'[x] # pagos[x]
      PROVE  x = p
  BY <1>2 DEF Escribe, SerialInv, IInv, TypeOK
<1> QED BY <1>1, <1>2, WriteStep DEF NadaEscrito, PendienteEscrito, AsientoEscrito, Escribe

\* A written payment records an order that no other payment records.
LEMMA OneOrderWritten ==
    ASSUME SerialInv, NEW p \in PagoIds, Escribe(p)
    PROVE  OrdersDiffer'
<1> SUFFICES ASSUME NEW a \in PagoIds, NEW b \in PagoIds, Existe(a)', Existe(b)',
                    pagos'[a].referencia = pagos'[b].referencia,
                    pagos'[a].referencia # Nada, a # b
             PROVE  FALSE
  BY DEF OrdersDiffer, Existe
<1>1. \A x \in PagoIds : x # p => pagos'[x] = pagos[x]
  BY DEF Escribe, SerialInv, IInv, TypeOK
<1>2. CASE a # p /\ b # p
  BY <1>1, <1>2 DEF SerialInv, OrdersDiffer, Existe
<1>3. CASE a = p
  <2>1. b \in Registrados(pagos'[p].referencia)
    BY <1>1, <1>3 DEF Registrados, Existe
  <2> QED BY <1>3, <2>1 DEF Escribe
<1>4. CASE b = p
  <2>1. a \in Registrados(pagos'[p].referencia)
    BY <1>1, <1>4 DEF Registrados, Existe
  <2> QED BY <1>4, <2>1 DEF Escribe
<1> QED BY <1>2, <1>3, <1>4

\* Orders stay apart.
LEMMA OrdersStep ==
    ASSUME SerialInv, [Next]_vars
    PROVE  OrdersDiffer'
<1>1. CASE UNCHANGED pagos
  BY <1>1 DEF SerialInv, OrdersDiffer, Existe
<1> QED BY <1>1, OneOrderWritten, WriteStep
        DEF NadaEscrito, PendienteEscrito, AsientoEscrito

----------------------------------------
(* What the one request has read. *)

\* The request in flight is the only one that has read anything.
LEMMA OneMoves ==
    ASSUME UnaALaVez, SerialInv, NEW r \in Peticiones, NEW f,
           peticion' = [peticion EXCEPT ![r] = f], ReadIsCurrent(f)'
    PROVE  \A x \in Peticiones : ReadIsCurrent(peticion[x])'
<1> SUFFICES ASSUME NEW x \in Peticiones PROVE ReadIsCurrent(peticion[x])'
  OBVIOUS
<1>1. x = r
  BY DEF UnaALaVez
<1>2. peticion'[x] = f
  BY <1>1 DEF SerialInv, IInv, TypeOK
<1> QED BY <1>2 DEF ReadIsCurrent, Activa, Registrados, Existe

\* Nothing to read is current.
LEMMA OneEnds ==
    ASSUME UnaALaVez, SerialInv, NEW r \in Peticiones, Terminar(r)
    PROVE  \A x \in Peticiones : ReadIsCurrent(peticion[x])'
<1>1. ReadIsCurrent(Libre)'
  BY DEF ReadIsCurrent, Libre
<1> QED BY <1>1, OneMoves DEF Terminar

\* A step that moves no request writes no payment and gives nobody a seat.
LEMMA NobodyMoves ==
    ASSUME SerialInv, UNCHANGED <<peticion, pagos>>,
           \A s \in Estudiantes : Activa(s)' => Activa(s)
    PROVE  \A x \in Peticiones : ReadIsCurrent(peticion[x])'
<1> SUFFICES ASSUME NEW x \in Peticiones PROVE ReadIsCurrent(peticion[x])'
  OBVIOUS
<1>1. peticion'[x] = peticion[x] /\ ReadIsCurrent(peticion[x])
  BY DEF SerialInv
<1>2. peticion[x].pc # "idle" => peticion[x].usuario \in Estudiantes
  BY DEF SerialInv, IInv, RequestKeepsItsRows, HoldsValidRows
<1> QED BY <1>1, <1>2 DEF ReadIsCurrent, Registrados, Existe

\* An enrollment that starts sees that its student is not enrolled.
LEMMA EnrollmentReads ==
    ASSUME UnaALaVez, SerialInv, EnrollmentNext
    PROVE  \A x \in Peticiones : ReadIsCurrent(peticion[x])'
<1>1. ASSUME NEW r \in Peticiones, NEW s \in Estudiantes, NEW pc, NEW metodo,
             NEW monto, NEW b,
             \/ pc = "lookup" /\ metodo \in {"free", "audit"} /\ ~Activa(s)
             \/ pc = "pending" /\ metodo = "paypal",
             Solicitar(r, s, pc, metodo, monto, b), UNCHANGED inscripcion
      PROVE  \A x \in Peticiones : ReadIsCurrent(peticion[x])'
  <2> DEFINE f == [Libre EXCEPT !.pc = pc, !.usuario = s, !.metodo = metodo,
                      !.monto = monto, !.audit = (metodo = "audit"),
                      !.cupon = Aplicado(s, b),
                      !.usos = IF metodo = "free" /\ Aplicado(s, b) # 0
                               THEN cupon.current_uses ELSE 0]
  <2>1. /\ f.pc = pc /\ f.usuario = s /\ f.metodo = metodo /\ f.orden = Nada
        /\ f.audit = (metodo = "audit")
    BY DEF Libre
  <2>2. peticion' = [peticion EXCEPT ![r] = f]
    BY <1>1 DEF Solicitar
  <2> HIDE DEF f
  <2>3. PICK g : g = f
    OBVIOUS
  <2>4. ReadIsCurrent(g)'
    BY <1>1, <2>1, <2>3 DEF ReadIsCurrent, Activa
  <2> QED BY <2>2, <2>3, <2>4, OneMoves
<1>2. ASSUME NEW r \in Peticiones, NEW s \in Estudiantes, NEW b \in BOOLEAN,
             AdminEnroll(r, s, b)
      PROVE  \A x \in Peticiones : ReadIsCurrent(peticion[x])'
  <2> DEFINE f == [Libre EXCEPT !.pc = "admin", !.usuario = s,
                         !.metodo = "admin_enrollment",
                         !.monto = IF b THEN 0 ELSE curso.precio,
                         !.audit = ~b /\ curso.pagado]
  <2>1. f.pc = "admin" /\ f.usuario = s /\ f.orden = Nada
    BY DEF Libre
  <2>2. peticion' = [peticion EXCEPT ![r] = f]
    BY <1>2 DEF AdminEnroll
  <2> HIDE DEF f
  <2>3. PICK g : g = f
    OBVIOUS
  <2>4. ReadIsCurrent(g)'
    BY <1>2, <2>1, <2>3 DEF ReadIsCurrent, AdminEnroll, YaInscrito, Activa
  <2> QED BY <2>2, <2>3, <2>4, OneMoves
<1>3. ASSUME NEW r \in Peticiones, LookupEnrollment(r)
      PROVE  \A x \in Peticiones : ReadIsCurrent(peticion[x])'
  <2>1. PICK g : g = [peticion[r] EXCEPT !.pc = "enroll",
                                         !.leida = Leer(peticion[r].usuario)]
    OBVIOUS
  <2>2. /\ g.pc = "enroll" /\ g.usuario = peticion[r].usuario
        /\ g.orden = peticion[r].orden /\ g.leida = Leer(peticion[r].usuario)
    BY <2>1 DEF SerialInv, IInv, TypeOK, Peticion
  <2>3. peticion[r].orden = Nada /\ ~Activa(peticion[r].usuario)
    BY <1>3 DEF LookupEnrollment, SerialInv, ReadIsCurrent
  <2>4. ReadIsCurrent(g)'
    BY <1>3, <2>2, <2>3 DEF LookupEnrollment, ReadIsCurrent, Leer, Activa
  <2>5. Terminar(r) \/ peticion' = [peticion EXCEPT ![r] = g]
    BY <1>3, <2>1 DEF LookupEnrollment
  <2> QED BY <2>4, <2>5, OneMoves, OneEnds
<1>4. ASSUME NEW r \in Peticiones, NEW pc \in {"index", "index_admin"}, Avanzar(r, pc)
      PROVE  \A x \in Peticiones : ReadIsCurrent(peticion[x])'
  <2>1. PICK g : g = [peticion[r] EXCEPT !.pc = pc]
    OBVIOUS
  <2>2. g.pc = pc
    BY <2>1 DEF SerialInv, IInv, TypeOK, Peticion
  <2>3. ReadIsCurrent(g)'
    BY <1>4, <2>2 DEF ReadIsCurrent
  <2> QED BY <1>4, <2>1, <2>3, OneMoves DEF Avanzar
<1>5. ASSUME NEW r \in Peticiones,
             \/ CommitEnrollment(r) \/ CommitAdminEnrollment(r)
             \/ CommitPending(r) \/ CreateIndex(r)
      PROVE  \A x \in Peticiones : ReadIsCurrent(peticion[x])'
  BY <1>4, <1>5, OneEnds
  DEF CommitEnrollment, CommitAdminEnrollment, CommitPending, CreateIndex
<1>6. ASSUME NEW s \in Estudiantes, AdminUnenroll(s)
      PROVE  \A x \in Peticiones : ReadIsCurrent(peticion[x])'
  <2>1. \A t \in Estudiantes : Activa(t)' => Activa(t)
    BY <1>6 DEF AdminUnenroll, Activa, SerialInv, IInv, TypeOK, EstudianteCurso
  <2> QED BY <1>6, <2>1, NobodyMoves DEF AdminUnenroll
<1>7. CASE UNCHANGED <<peticion, pagos, inscripcion>>
  BY <1>7, NobodyMoves DEF Activa
<1>8. ASSUME NEW r \in Peticiones, NEW s \in Estudiantes, NEW b \in BOOLEAN,
             EnrollFree(r, s, b) \/ EnrollAudit(r, s, b)
      PROVE  \A x \in Peticiones : ReadIsCurrent(peticion[x])'
  BY <1>1, <1>8 DEF EnrollFree, EnrollAudit, YaInscrito
<1>9. ASSUME NEW r \in Peticiones, NEW s \in Estudiantes, NEW b \in BOOLEAN, NEW modo,
             EnrollPaid(r, s, modo, b)
      PROVE  \A x \in Peticiones : ReadIsCurrent(peticion[x])'
  BY <1>1, <1>9 DEF EnrollPaid
<1>10. ASSUME NEW r \in Peticiones, NEW s \in Estudiantes, EnrollResumes(r, s)
       PROVE  \A x \in Peticiones : ReadIsCurrent(peticion[x])'
  BY <1>7, <1>10 DEF EnrollResumes
<1>11. ASSUME NEW c \in Cursos, EditCourse(c)
       PROVE  \A x \in Peticiones : ReadIsCurrent(peticion[x])'
  BY <1>7, <1>11 DEF EditCourse
<1> QED
  BY <1>2, <1>3, <1>5, <1>6, <1>8, <1>9, <1>10, <1>11 DEF EnrollmentNext

\* A confirmation keeps a payment that is pending and an order not recorded.
LEMMA CheckoutReads ==
    ASSUME UnaALaVez, SerialInv, CheckoutNext
    PROVE  \A x \in Peticiones : ReadIsCurrent(peticion[x])'
<1>1. ASSUME NEW r \in Peticiones, NEW o \in Ordenes, ConfirmPayment(r, o)
      PROVE  \A x \in Peticiones : ReadIsCurrent(peticion[x])'
  <2>1. PICK pend \in PagoPendiente(ordenes[o].usuario) :
            peticion' = [peticion EXCEPT ![r] =
                 [Libre EXCEPT !.pc = "record", !.usuario = ordenes[o].usuario,
                               !.metodo = "paypal", !.monto = ordenes[o].monto,
                               !.orden = o, !.pago = pend]]
    BY <1>1 DEF ConfirmPayment
  <2>2. PICK g : g = [Libre EXCEPT !.pc = "record", !.usuario = ordenes[o].usuario,
                               !.metodo = "paypal", !.monto = ordenes[o].monto,
                               !.orden = o, !.pago = pend]
    OBVIOUS
  <2>3. g.pc = "record" /\ g.pago = pend
    BY <2>2 DEF Libre
  <2>4. pend # Nada => pagos[pend].estado = "pending"
    BY DEF PagoPendiente, Pendientes
  <2>5. ReadIsCurrent(g)'
    BY <1>1, <2>3, <2>4 DEF ReadIsCurrent, ConfirmPayment
  <2> QED BY <2>1, <2>2, <2>5, OneMoves
<1>2. ASSUME NEW r \in Peticiones, FindRecord(r)
      PROVE  \A x \in Peticiones : ReadIsCurrent(peticion[x])'
  <2>1. PICK g : g = [peticion[r] EXCEPT !.pc = "flush"]
    OBVIOUS
  <2>2. g.pc = "flush" /\ g.orden = peticion[r].orden /\ g.pago = peticion[r].pago
    BY <2>1 DEF SerialInv, IInv, TypeOK, Peticion
  <2>3. /\ peticion[r].orden \in Ordenes
        /\ peticion[r].pago # Nada => /\ peticion[r].pago \in PagoIds
                                      /\ Existe(peticion[r].pago)
                                      /\ pagos[peticion[r].pago].estado = "pending"
    BY <1>2 DEF FindRecord, SerialInv, IInv, RequestKeepsItsRows, HoldsValidRows,
                ReadIsCurrent, TypeOK, Peticion
  <2>4. peticion[r].pago \notin Registrados(peticion[r].orden)
    BY <2>3, TablesAssumption DEF Registrados, SerialInv, PendingIsPlain
  <2>5. CASE Registrados(peticion[r].orden) = {}
    <3>1. ReadIsCurrent(g)'
      BY <1>2, <2>2, <2>3, <2>5 DEF ReadIsCurrent, FindRecord, Registrados, Existe
    <3> QED BY <1>2, <2>1, <3>1, OneMoves, OneEnds DEF FindRecord, Avanzar
  <2>6. CASE Registrados(peticion[r].orden) # {}
    BY <1>2, <2>4, <2>6, OneEnds DEF FindRecord
  <2> QED BY <2>5, <2>6
<1>3. ASSUME NEW r \in Peticiones, FlushPayment(r)
      PROVE  \A x \in Peticiones : ReadIsCurrent(peticion[x])'
  <2>1. PICK g : g = [peticion[r] EXCEPT !.pc = "pay",
                                         !.leida = Leer(peticion[r].usuario)]
    OBVIOUS
  <2>2. g.pc = "pay" /\ g.orden = peticion[r].orden /\ g.pago = peticion[r].pago
    BY <2>1 DEF SerialInv, IInv, TypeOK, Peticion
  <2>3. ReadIsCurrent(g)'
    BY <1>3, <2>2 DEF FlushPayment, ReadIsCurrent, SerialInv, Registrados, Existe
  <2> QED BY <1>3, <2>1, <2>3, OneMoves DEF FlushPayment
<1>4. ASSUME NEW r \in Peticiones, CommitPayment(r)
      PROVE  \A x \in Peticiones : ReadIsCurrent(peticion[x])'
  <2>1. CASE Terminar(r)
    BY <2>1, OneEnds
  <2>2. CASE ~Terminar(r)
    <3>1. PICK p \in PagoIds :
              peticion' = [peticion EXCEPT ![r].pc = "coupon", ![r].pago = p]
      BY <1>4, <2>2 DEF CommitPayment
    <3>2. PICK g : g = [peticion[r] EXCEPT !.pc = "coupon", !.pago = p]
      OBVIOUS
    <3>3. g.pc = "coupon"
      BY <3>2 DEF SerialInv, IInv, TypeOK, Peticion
    <3>4. ReadIsCurrent(g)'
      BY <3>3 DEF ReadIsCurrent
    <3> QED BY <3>1, <3>2, <3>4, OneMoves
  <2> QED BY <2>1, <2>2
<1>5. ASSUME NEW r \in Peticiones, CountCoupon(r)
      PROVE  \A x \in Peticiones : ReadIsCurrent(peticion[x])'
  <2>1. PICK g : g = [peticion[r] EXCEPT !.pc = "index"]
    OBVIOUS
  <2>2. g.pc = "index"
    BY <2>1 DEF SerialInv, IInv, TypeOK, Peticion
  <2>3. ReadIsCurrent(g)'
    BY <2>2 DEF ReadIsCurrent
  <2> QED BY <1>5, <2>1, <2>3, OneMoves DEF CountCoupon, Avanzar
<1>6. CASE UNCHANGED <<peticion, pagos, inscripcion>>
  BY <1>6, NobodyMoves DEF Activa
<1> QED
  BY <1>1, <1>2, <1>3, <1>4, <1>5, <1>6
  DEF CheckoutNext, OpenPaymentPage, OpenPaymentPageFor, Capture

\* Requests one at a time: what was read stays true.
LEMMA SerialStep ==
    UnaALaVez /\ SerialInv /\ [Next]_vars => SerialInv'
<1> SUFFICES ASSUME UnaALaVez, SerialInv, [Next]_vars PROVE SerialInv'
  OBVIOUS
<1>1. IInv'
  BY NextIInv DEF SerialInv
<1>2. PendingIsPlain' /\ OrdersDiffer'
  BY PlainStep, OrdersStep
<1>3. ASSUME UNCHANGED <<peticion, pagos, inscripcion>>
      PROVE  \A x \in Peticiones : ReadIsCurrent(peticion[x])'
  BY <1>3, NobodyMoves DEF Activa
<1>4. ASSUME NEW r \in Peticiones, Crash(r)
      PROVE  \A x \in Peticiones : ReadIsCurrent(peticion[x])'
  BY <1>4, OneEnds DEF Crash
<1>5. \A x \in Peticiones : ReadIsCurrent(peticion[x])'
  BY <1>3, <1>4, EnrollmentReads, CheckoutReads
  DEF Next, vars, CouponNext, CreateCoupon, EditCoupon, DeleteCoupon, ExpireCoupon
<1> QED BY <1>1, <1>2, <1>5 DEF SerialInv

\* Nothing has been read or written at first.
LEMMA SerialInit == Init => SerialInv
<1> SUFFICES ASSUME Init PROVE SerialInv
  OBVIOUS
<1>1. PendingIsPlain /\ OrdersDiffer
  BY DEF Init, PendingIsPlain, OrdersDiffer, Existe
<1>2. \A r \in Peticiones : ReadIsCurrent(peticion[r])
  BY DEF Init, ReadIsCurrent, Libre
<1> QED BY <1>1, <1>2, InitIInv DEF SerialInv

----------------------------------------
(* Coupons.  A use is counted after it is paid for, except that a free       *)
(* enrollment counts it in the same commit from what it read; so the count   *)
(* is at most the number of payments, and one less while it is owed.         *)

Usos == Cardinality(CuponesCobrados)

\* The request has still to count the use it committed.
Debe(q) == q.pc = "coupon" /\ pagos[q.pago].cupon

\* The first coupon, while no request has died.
Exacto == Traducido /\ caidas = 0 /\ cupon.existe /\ cupon.id = 1

UsesRead(q) ==
    /\ q.cupon <= cupon.id
    /\ q.pc = "admin" => q.cupon = 0
    /\ q.pc \in {"lookup", "enroll"} /\ Cuenta(q) =>
          /\ q.usos <= Usos
          /\ cupon.existe /\ q.cupon = cupon.id => q.usos = cupon.current_uses
    /\ q.pc = "enroll" /\ Cuenta(q) => cupon.existe /\ q.cupon = cupon.id
    /\ Debe(q) => /\ cupon.current_uses + 1 <= Usos
                  /\ Exacto => cupon.current_uses + 1 = Usos

NingunoDebe == \A r \in Peticiones : ~Debe(peticion[r])

CountInv ==
    /\ IsFiniteSet(CuponesCobrados)
    /\ cupon.current_uses <= Usos
    /\ Exacto /\ NingunoDebe => cupon.current_uses = Usos
    /\ cupon.id = 0 => ~cupon.existe /\ \A p \in PagoIds : Existe(p) => ~pagos[p].cupon

CouponInv == SerialInv /\ CountInv /\ \A r \in Peticiones : UsesRead(peticion[r])

\* The payments made with a coupon stay, and a step adds one at most.
Cobra(p) == /\ p \notin CuponesCobrados
            /\ CuponesCobrados' = CuponesCobrados \cup {p}

\* A payment that is written is charged or not; the others stay as they were.
LEMMA WrittenCharge ==
    ASSUME SerialInv, NEW p \in PagoIds, Escribe(p)
    PROVE  IF Completado(p)' /\ pagos'[p].cupon /\ pagos'[p].metodo # "audit"
           THEN Cobra(p) ELSE CuponesCobrados' = CuponesCobrados
<1>1. \A x \in PagoIds : x # p => pagos'[x] = pagos[x]
  BY DEF Escribe, SerialInv, IInv, TypeOK
<1>2. p \notin CuponesCobrados
  BY DEF Escribe, CuponesCobrados
<1>3. \A x \in PagoIds : x # p => (x \in CuponesCobrados' <=> x \in CuponesCobrados)
  BY <1>1 DEF CuponesCobrados, Completado, Existe
<1>4. p \in CuponesCobrados' <=> Completado(p)' /\ pagos'[p].cupon /\ pagos'[p].metodo # "audit"
  BY DEF CuponesCobrados, Completado, Existe
<1>5. CuponesCobrados' \subseteq PagoIds /\ CuponesCobrados \subseteq PagoIds
  BY DEF CuponesCobrados
<1> QED BY <1>2, <1>3, <1>4, <1>5 DEF Cobra

\* The count of payments that no step writes.
LEMMA UsesAreNat ==
    ASSUME IsFiniteSet(CuponesCobrados) PROVE Usos \in Nat
BY FS_CardinalityType DEF Usos

\* The count of payments goes up by one with one that is charged.
LEMMA ChargeCounts ==
    ASSUME IsFiniteSet(CuponesCobrados), NEW p, Cobra(p)
    PROVE  IsFiniteSet(CuponesCobrados)' /\ Usos' = Usos + 1
BY FS_AddElement DEF Cobra, Usos

\* The count does not move when no payment does.
LEMMA SameCharges ==
    ASSUME CuponesCobrados' = CuponesCobrados
    PROVE  Usos' = Usos
BY DEF Usos

\* What CouponInv says besides SerialInv, of the state after a step.
Contado == CountInv /\ \A r \in Peticiones : UsesRead(peticion[r])

\* The request in flight is the only one that can owe a use.
LEMMA OneCounts ==
    ASSUME UnaALaVez, CouponInv, NEW r \in Peticiones, NEW f,
           peticion' = [peticion EXCEPT ![r] = f], UsesRead(f)', CountInv'
    PROVE  Contado'
<1> SUFFICES ASSUME NEW x \in Peticiones PROVE UsesRead(peticion[x])'
  BY DEF Contado
<1>1. x = r
  BY DEF UnaALaVez
<1>2. peticion'[x] = f
  BY <1>1 DEF CouponInv, SerialInv, IInv, TypeOK
<1> QED BY <1>2 DEF UsesRead, Debe, Cuenta, Usos, Exacto, CuponesCobrados, Completado, Existe

\* A step of a request that owes nothing, and neither charges nor counts.
LEMMA CountKept ==
    ASSUME UnaALaVez, CouponInv, NEW r \in Peticiones, NEW f,
           peticion' = [peticion EXCEPT ![r] = f],
           UNCHANGED <<pagos, cupon, caidas>>,
           ~Debe(peticion[r]), UsesRead(f)'
    PROVE  Contado'
<1>1. \A x \in Peticiones : x = r
  BY DEF UnaALaVez
<1>2. NingunoDebe
  BY <1>1 DEF NingunoDebe
<1>3. CuponesCobrados' = CuponesCobrados /\ Usos' = Usos
  BY DEF Usos, CuponesCobrados, Completado, Existe
<1>4. CountInv'
  BY <1>2, <1>3 DEF CouponInv, CountInv, Exacto, Existe
<1> QED BY <1>4, OneCounts

\* The same when the request ends.
LEMMA EndKept ==
    ASSUME UnaALaVez, CouponInv, NEW r \in Peticiones, Terminar(r),
           UNCHANGED <<pagos, cupon, caidas>>, ~Debe(peticion[r])
    PROVE  Contado'
<1>1. UsesRead(Libre)'
  BY DEF UsesRead, Libre, Debe, CouponInv, SerialInv, IInv, TypeOK, Coupon
<1> QED BY <1>1, CountKept DEF Terminar

\* A request that goes on with the coupon it has, and has nothing to count.
LEMMA GoesOnKept ==
    ASSUME UnaALaVez, CouponInv, NEW r \in Peticiones, NEW f,
           peticion' = [peticion EXCEPT ![r] = f],
           UNCHANGED <<pagos, cupon, caidas>>, ~Debe(peticion[r]),
           f.pc \notin {"lookup", "enroll", "admin", "coupon"},
           f.cupon = peticion[r].cupon
    PROVE  Contado'
<1>1. peticion[r].cupon <= cupon.id
  BY DEF CouponInv, UsesRead
<1>2. UsesRead(f)'
  BY <1>1 DEF UsesRead, Debe
<1> QED BY <1>2, CountKept

\* Nobody moves, and the coupon keeps its count and its id.
LEMMA NobodyCounts ==
    ASSUME CouponInv, UNCHANGED <<peticion, pagos, caidas>>,
           cupon'.id = cupon.id, cupon'.existe = cupon.existe,
           cupon'.current_uses = cupon.current_uses
    PROVE  Contado'
<1>1. CuponesCobrados' = CuponesCobrados /\ Usos' = Usos
  BY DEF Usos, CuponesCobrados, Completado, Existe
<1>2. CountInv'
  BY <1>1 DEF CouponInv, CountInv, Exacto, NingunoDebe, Debe, Existe
<1>3. ASSUME NEW x \in Peticiones PROVE UsesRead(peticion[x])'
  BY <1>1 DEF CouponInv, UsesRead, Cuenta, Debe, Exacto
<1> QED BY <1>2, <1>3 DEF Contado

\* A request that starts reads the coupon as it is.
LEMMA StartCounts ==
    ASSUME UnaALaVez, CouponInv, NEW r \in Peticiones, NEW s \in Estudiantes,
           NEW pc \in {"lookup", "pending"}, NEW metodo, NEW monto, NEW b \in BOOLEAN,
           peticion[r].pc = "idle", Solicitar(r, s, pc, metodo, monto, b),
           UNCHANGED <<pagos, cupon, caidas>>
    PROVE  Contado'
<1> DEFINE f == [Libre EXCEPT !.pc = pc, !.usuario = s, !.metodo = metodo,
                    !.monto = monto, !.audit = (metodo = "audit"),
                    !.cupon = Aplicado(s, b),
                    !.usos = IF metodo = "free" /\ Aplicado(s, b) # 0
                             THEN cupon.current_uses ELSE 0]
<1>1. /\ f.pc = pc /\ f.metodo = metodo /\ f.cupon = Aplicado(s, b)
      /\ f.usos = IF metodo = "free" /\ Aplicado(s, b) # 0 THEN cupon.current_uses ELSE 0
  BY DEF Libre
<1>2. peticion' = [peticion EXCEPT ![r] = f]
  BY DEF Solicitar
<1> HIDE DEF f
<1>3. PICK g : g = f
  OBVIOUS
<1>4. Aplicado(s, b) <= cupon.id
  BY DEF Aplicado, CouponInv, SerialInv, IInv, TypeOK, Coupon
<1>5. cupon.current_uses <= Usos /\ Usos' = Usos
  BY DEF CouponInv, CountInv, Usos, CuponesCobrados, Completado, Existe
<1>6. UsesRead(g)'
  BY <1>1, <1>3, <1>4, <1>5 DEF UsesRead, Cuenta, Debe
<1>7. ~Debe(peticion[r])
  BY DEF Debe
<1> QED BY <1>2, <1>3, <1>6, <1>7, CountKept

\* An enrollment by an administrator uses no coupon.
LEMMA AdminStartCounts ==
    ASSUME UnaALaVez, CouponInv, NEW r \in Peticiones, NEW s \in Estudiantes,
           NEW b \in BOOLEAN, AdminEnroll(r, s, b)
    PROVE  Contado'
<1> DEFINE f == [Libre EXCEPT !.pc = "admin", !.usuario = s,
                       !.metodo = "admin_enrollment",
                       !.monto = IF b THEN 0 ELSE curso.precio,
                       !.audit = ~b /\ curso.pagado]
<1>1. f.pc = "admin" /\ f.cupon = 0 /\ f.metodo = "admin_enrollment"
  BY DEF Libre
<1>2. peticion' = [peticion EXCEPT ![r] = f] /\ peticion[r].pc = "idle"
  BY DEF AdminEnroll
<1> HIDE DEF f
<1>3. PICK g : g = f
  OBVIOUS
<1>4. UsesRead(g)'
  BY <1>1, <1>3 DEF AdminEnroll, UsesRead, Cuenta, Debe, CouponInv, SerialInv, IInv, TypeOK, Coupon
<1> QED BY <1>2, <1>3, <1>4, CountKept DEF AdminEnroll, Debe

\* The row that the UPDATE of the coupon finds is the one that was read.
LEMMA LookupCounts ==
    ASSUME UnaALaVez, CouponInv, NEW r \in Peticiones, LookupEnrollment(r)
    PROVE  Contado'
<1> DEFINE q == peticion[r]
<1>1. ~Debe(q) /\ UNCHANGED <<pagos, cupon, caidas>>
  BY DEF LookupEnrollment, Debe
<1>2. PICK g : g = [q EXCEPT !.pc = "enroll", !.leida = Leer(q.usuario)]
  OBVIOUS
<1>3. g.pc = "enroll" /\ g.cupon = q.cupon /\ g.metodo = q.metodo /\ g.usos = q.usos
  BY <1>2 DEF CouponInv, SerialInv, IInv, TypeOK, Peticion
<1>4. \/ Terminar(r)
      \/ /\ peticion' = [peticion EXCEPT ![r] = g]
         /\ Cuenta(q) => cupon.existe /\ cupon.id = q.cupon
  BY <1>2 DEF LookupEnrollment
<1>5. q.cupon <= cupon.id /\ (Cuenta(q) => q.usos <= Usos
         /\ (cupon.existe /\ q.cupon = cupon.id => q.usos = cupon.current_uses))
  BY DEF LookupEnrollment, CouponInv, UsesRead
<1>6. Usos' = Usos
  BY <1>1 DEF Usos, CuponesCobrados, Completado, Existe
<1>7. ASSUME Cuenta(q) => cupon.existe /\ cupon.id = q.cupon PROVE UsesRead(g)'
  BY <1>1, <1>3, <1>5, <1>6, <1>7 DEF UsesRead, Cuenta, Debe
<1> QED BY <1>1, <1>4, <1>7, CountKept, EndKept

\* A new enrollment is charged exactly when it is counted.
LEMMA EnrollmentCounts ==
    ASSUME UnaALaVez, CouponInv, NEW r \in Peticiones, CommitEnrollment(r)
    PROVE  Contado'
<1> DEFINE q == peticion[r]
<1>1. /\ ~Debe(q) /\ q \in Peticion /\ q.usuario \in Estudiantes
      /\ q.metodo \in {"free", "audit"} /\ caidas' = caidas
      /\ q.cupon <= cupon.id
      /\ Cuenta(q) => /\ q.usos <= Usos /\ q.usos = cupon.current_uses
                      /\ cupon.existe /\ q.cupon = cupon.id
  BY DEF CommitEnrollment, Debe, CouponInv, UsesRead, SerialInv, IInv,
         RequestKeepsItsRows, HoldsValidRows, TypeOK
<1>2. CASE RolledBack(q.usuario, q.leida)
  BY <1>1, <1>2, EndKept DEF CommitEnrollment
<1>3. CASE ~RolledBack(q.usuario, q.leida)
  <2>1. PICK p \in PagoIds : p = PagoNuevo /\ ~Existe(p)
    BY <1>3, PagoNuevoIsFree DEF RolledBack
  <2>2. NuevoPago(q, "completed") \in Pago
    BY <1>1, NuevoPagoType
  <2>3. /\ pagos' = [pagos EXCEPT ![p] = NuevoPago(q, "completed")]
        /\ pagos'[p] = NuevoPago(q, "completed")
        /\ cupon' = IF Cuenta(q) THEN [cupon EXCEPT !.current_uses = q.usos + 1] ELSE cupon
        /\ Avanzar(r, "index")
    BY <1>3, <2>1 DEF CommitEnrollment, PayAndEnroll, CouponInv, SerialInv, IInv, TypeOK
  <2>4. /\ pagos'[p].estado = "completed" /\ pagos'[p].metodo = q.metodo
        /\ pagos'[p].cupon = (q.cupon # 0) /\ pagos'[p] # Nada
        /\ pagos'[p].referencia = q.orden
    BY <2>2, <2>3, NadaAssumption DEF NuevoPago
  <2>5. q.orden = Nada
    BY DEF CommitEnrollment, CouponInv, SerialInv, ReadIsCurrent
  <2>6. Escribe(p)
    BY <2>1, <2>2, <2>3, <2>4, <2>5 DEF Escribe, Completado
  <2>7. IF Cuenta(q) THEN Cobra(p) ELSE CuponesCobrados' = CuponesCobrados
    BY <1>1, <2>4, <2>6, WrittenCharge DEF CouponInv, Cuenta, Completado, Existe
  <2>8. NingunoDebe
    BY <1>1 DEF NingunoDebe, UnaALaVez
  <2>9. /\ IsFiniteSet(CuponesCobrados) /\ Usos \in Nat
        /\ cupon.current_uses \in Nat /\ cupon.current_uses <= Usos
        /\ Exacto => cupon.current_uses = Usos
    BY <2>8, UsesAreNat DEF CouponInv, CountInv, SerialInv, IInv, TypeOK, Coupon
  <2>10. cupon'.id = cupon.id /\ cupon'.existe = cupon.existe
    BY <2>3 DEF CouponInv, SerialInv, IInv, TypeOK, Coupon
  <2>11. IsFiniteSet(CuponesCobrados)' /\ cupon'.current_uses <= Usos'
         /\ (Exacto' => cupon'.current_uses = Usos')
    <3>1. CASE Cuenta(q)
      <4>1. cupon'.current_uses = cupon.current_uses + 1
        BY <1>1, <2>3, <3>1 DEF CouponInv, SerialInv, IInv, TypeOK, Coupon
      <4>2. IsFiniteSet(CuponesCobrados)' /\ Usos' = Usos + 1
        BY <2>7, <2>9, <3>1, ChargeCounts
      <4> QED BY <1>1, <2>9, <2>10, <4>1, <4>2 DEF Exacto
    <3>2. CASE ~Cuenta(q)
      BY <1>1, <2>3, <2>7, <2>9, <3>2, SameCharges DEF Exacto
    <3> QED BY <3>1, <3>2
  <2>12. cupon.id = 0 => q.cupon = 0
    BY <1>1 DEF Peticion
  <2>13. CountInv'
    <3>1. cupon'.id = 0 => ~cupon'.existe /\ \A x \in PagoIds : Existe(x)' => ~pagos'[x].cupon
      BY <2>3, <2>4, <2>10, <2>12 DEF CouponInv, CountInv, SerialInv, IInv, TypeOK, Existe
    <3> QED BY <2>11, <3>1 DEF CountInv, Existe
  <2>14. PICK g : g = [q EXCEPT !.pc = "index"]
    OBVIOUS
  <2>15. g.pc = "index" /\ g.cupon = q.cupon
    BY <1>1, <2>14 DEF Peticion
  <2>16. UsesRead(g)'
    BY <1>1, <2>10, <2>15 DEF UsesRead, Debe
  <2> QED BY <2>3, <2>13, <2>14, <2>16, OneCounts DEF Avanzar
<1> QED BY <1>2, <1>3

\* A payment that is written and not charged.
LEMMA UnchargedCounts ==
    ASSUME UnaALaVez, CouponInv, NEW r \in Peticiones, NEW p \in PagoIds, NEW f,
           Escribe(p), ~(Completado(p)' /\ pagos'[p].cupon /\ pagos'[p].metodo # "audit"),
           pagos'[p].cupon => cupon.id # 0,
           UNCHANGED <<cupon, caidas>>, ~Debe(peticion[r]),
           peticion' = [peticion EXCEPT ![r] = f], f.cupon <= cupon.id,
           f.pc \notin {"lookup", "enroll", "admin", "coupon"}
    PROVE  Contado'
<1>1. CuponesCobrados' = CuponesCobrados /\ Usos' = Usos
  BY WrittenCharge, SameCharges DEF CouponInv
<1>2. NingunoDebe
  BY DEF NingunoDebe, UnaALaVez
<1>3. cupon'.id = 0 => ~cupon'.existe /\ \A x \in PagoIds : Existe(x)' => ~pagos'[x].cupon
  BY DEF Escribe, CouponInv, CountInv, SerialInv, IInv, TypeOK, Existe
<1>4. CountInv'
  BY <1>1, <1>2, <1>3 DEF CouponInv, CountInv, Exacto, Existe
<1>5. UsesRead(f)'
  BY DEF UsesRead, Debe
<1> QED BY <1>4, <1>5, OneCounts

\* A pending payment is not charged.
LEMMA PendingCounts ==
    ASSUME UnaALaVez, CouponInv, NEW r \in Peticiones, CommitPending(r)
    PROVE  Contado'
<1> DEFINE q == peticion[r]
<1>1. /\ ~Debe(q) /\ q \in Peticion /\ q.usuario \in Estudiantes
      /\ q.cupon <= cupon.id /\ q.metodo = "paypal" /\ q.orden = Nada /\ ~q.audit
      /\ UNCHANGED <<cupon, caidas>> /\ Terminar(r)
  BY DEF CommitPending, Debe, CouponInv, UsesRead, SerialInv, IInv, ReadIsCurrent,
         RequestKeepsItsRows, HoldsValidRows, TypeOK
<1>2. CASE pagos' = pagos
  BY <1>1, <1>2, EndKept
<1>3. CASE pagos' # pagos
  <2>1. PICK p \in PagoIds : /\ p = PagoNuevo /\ ~Existe(p)
                             /\ pagos' = [pagos EXCEPT ![p] = NuevoPago(q, "pending")]
    BY <1>3, PagoNuevoIsFree DEF CommitPending
  <2>2. NuevoPago(q, "pending") \in Pago
    BY <1>1, NuevoPagoType
  <2>3. pagos'[p] = NuevoPago(q, "pending")
    BY <2>1 DEF CouponInv, SerialInv, IInv, TypeOK
  <2>4. /\ pagos'[p].estado = "pending" /\ pagos'[p].metodo = "paypal"
        /\ pagos'[p].referencia = Nada /\ ~pagos'[p].audit
        /\ pagos'[p].cupon = (q.cupon # 0)
    BY <1>1, <2>3 DEF NuevoPago
  <2>5. Escribe(p) /\ ~Completado(p)'
    BY <2>1, <2>2, <2>3, <2>4 DEF Escribe, Completado
  <2>6. pagos'[p].cupon => cupon.id # 0
    BY <1>1, <2>4 DEF Peticion
  <2>7. Libre.cupon = 0 /\ Libre.pc = "idle" /\ 0 <= cupon.id
    BY DEF Libre, CouponInv, SerialInv, IInv, TypeOK, Coupon
  <2>8. PICK f : f = Libre
    OBVIOUS
  <2> QED BY <1>1, <2>5, <2>6, <2>7, <2>8, UnchargedCounts DEF Terminar
<1> QED BY <1>2, <1>3

\* An enrollment by hand carries no coupon.
LEMMA AdminCounts ==
    ASSUME UnaALaVez, CouponInv, NEW r \in Peticiones, CommitAdminEnrollment(r)
    PROVE  Contado'
<1> DEFINE q == peticion[r]
<1>1. /\ ~Debe(q) /\ q \in Peticion /\ q.usuario \in Estudiantes
      /\ q.cupon = 0 /\ q.orden = Nada /\ UNCHANGED <<cupon, caidas>>
  BY DEF CommitAdminEnrollment, Debe, CouponInv, UsesRead, SerialInv, IInv, ReadIsCurrent,
         RequestKeepsItsRows, HoldsValidRows, TypeOK
<1>2. CASE RolledBack(q.usuario, "ninguna")
  BY <1>1, <1>2, EndKept DEF CommitAdminEnrollment
<1>3. CASE ~RolledBack(q.usuario, "ninguna")
  <2>1. PICK p \in PagoIds : /\ p = PagoNuevo /\ ~Existe(p)
                             /\ pagos' = [pagos EXCEPT ![p] = NuevoPago(q, "completed")]
    BY <1>3, PagoNuevoIsFree DEF CommitAdminEnrollment, RolledBack, PayAndEnroll
  <2>2. NuevoPago(q, "completed") \in Pago
    BY <1>1, NuevoPagoType
  <2>3. pagos'[p] = NuevoPago(q, "completed")
    BY <2>1 DEF CouponInv, SerialInv, IInv, TypeOK
  <2>4. /\ pagos'[p].estado = "completed" /\ pagos'[p].referencia = Nada
        /\ pagos'[p].cupon = (q.cupon # 0)
    BY <1>1, <2>3 DEF NuevoPago
  <2>5. Escribe(p) /\ ~pagos'[p].cupon
    BY <1>1, <2>1, <2>2, <2>3, <2>4 DEF Escribe, Completado
  <2>6. PICK g : g = [q EXCEPT !.pc = "index_admin"]
    OBVIOUS
  <2>7. g.pc = "index_admin" /\ g.cupon = 0 /\ 0 <= cupon.id
    BY <1>1, <2>6 DEF Peticion, CouponInv, SerialInv, IInv, TypeOK, Coupon
  <2>8. peticion' = [peticion EXCEPT ![r] = g]
    BY <1>3, <2>6 DEF CommitAdminEnrollment, Avanzar
  <2> QED BY <1>1, <2>5, <2>7, <2>8, UnchargedCounts
<1> QED BY <1>2, <1>3

\* A payment that a confirmation completes is charged, and its use is owed.
LEMMA ConfirmationCounts ==
    ASSUME UnaALaVez, CouponInv, NEW r \in Peticiones, CommitPayment(r)
    PROVE  Contado'
<1> DEFINE q == peticion[r]
<1>1. /\ ~Debe(q) /\ q \in Peticion /\ q.usuario \in Estudiantes
      /\ q.cupon <= cupon.id /\ q.orden \in Ordenes
      /\ UNCHANGED <<cupon, caidas>>
      /\ Registrados(q.orden) = {}
      /\ q.pago # Nada => Existe(q.pago) /\ pagos[q.pago].estado = "pending"
  BY DEF CommitPayment, Debe, CouponInv, UsesRead, SerialInv, IInv, ReadIsCurrent,
         RequestKeepsItsRows, HoldsValidRows, TypeOK
<1>2. CASE IntegrityError(q.usuario, q.leida) \/ (q.pago = Nada /\ ~HayPagoLibre)
  BY <1>1, <1>2, EndKept DEF CommitPayment
<1>3. CASE ~(IntegrityError(q.usuario, q.leida) \/ (q.pago = Nada /\ ~HayPagoLibre))
  <2>1. PICK p \in PagoIds :
            /\ p = IF q.pago = Nada THEN PagoNuevo ELSE q.pago
            /\ pagos' = [pagos EXCEPT ![p] = PagoConfirmado(q, q.pago)]
            /\ peticion' = [peticion EXCEPT ![r].pc = "coupon", ![r].pago = p]
    BY <1>3 DEF CommitPayment
  <2>2. PagoConfirmado(q, q.pago) \in Pago
    BY <1>1 DEF TypeOK, PagoConfirmado, Pago, Peticion, Existe, CouponInv, SerialInv, IInv
  <2>3. pagos'[p] = PagoConfirmado(q, q.pago)
    BY <2>1 DEF CouponInv, SerialInv, IInv, TypeOK
  <2>4. /\ pagos'[p].estado = "completed" /\ pagos'[p].metodo = "paypal"
        /\ pagos'[p].referencia = q.orden
        /\ pagos'[p].cupon = (q.pago # Nada /\ pagos[q.pago].cupon)
    BY <2>3 DEF PagoConfirmado
  <2>5. ~Completado(p)
    BY <1>1, <1>3, <2>1, PagoNuevoIsFree DEF Completado
  <2>6. Escribe(p) /\ Completado(p)'
    BY <1>1, <2>1, <2>2, <2>3, <2>4, <2>5, NadaAssumption DEF Escribe, Completado, Existe
  <2>7. IF pagos'[p].cupon THEN Cobra(p) ELSE CuponesCobrados' = CuponesCobrados
    BY <2>4, <2>6, WrittenCharge DEF CouponInv
  <2>8. NingunoDebe
    BY <1>1 DEF NingunoDebe, UnaALaVez
  <2>9. /\ IsFiniteSet(CuponesCobrados) /\ Usos \in Nat
        /\ cupon.current_uses \in Nat /\ cupon.current_uses <= Usos
        /\ Exacto => cupon.current_uses = Usos
    BY <2>8, UsesAreNat DEF CouponInv, CountInv, SerialInv, IInv, TypeOK, Coupon
  <2>10. PICK g : g = [q EXCEPT !.pc = "coupon", !.pago = p]
    OBVIOUS
  <2>11. g.pc = "coupon" /\ g.cupon = q.cupon /\ g.pago = p
    BY <1>1, <2>10 DEF Peticion
  <2>12. /\ IsFiniteSet(CuponesCobrados)' /\ cupon'.current_uses <= Usos'
         /\ IF pagos'[p].cupon THEN Usos' = Usos + 1 ELSE Usos' = Usos
    BY <1>1, <2>7, <2>9, ChargeCounts, SameCharges
  <2>13. UsesRead(g)'
    BY <1>1, <2>9, <2>11, <2>12 DEF UsesRead, Debe, Exacto
  <2>14. peticion' = [peticion EXCEPT ![r] = g]
    BY <2>1, <2>10
  <2>15. peticion'[r] = g
    BY <2>14 DEF CouponInv, SerialInv, IInv, TypeOK
  <2>16. NingunoDebe' => ~pagos'[p].cupon
    BY <2>11, <2>15 DEF NingunoDebe, Debe
  <2>17. cupon'.id = 0 => ~cupon'.existe /\ \A x \in PagoIds : Existe(x)' => ~pagos'[x].cupon
    BY <1>1, <2>1, <2>4, <2>6 DEF CouponInv, CountInv, Escribe, SerialInv, IInv, TypeOK, Existe
  <2>18. CountInv'
    BY <1>1, <2>9, <2>12, <2>16, <2>17 DEF CountInv, Exacto, Existe
  <2> QED BY <2>13, <2>14, <2>18, OneCounts
<1> QED BY <1>2, <1>3

\* Counting the use that was owed.
LEMMA UseCounts ==
    ASSUME UnaALaVez, CouponInv, NEW r \in Peticiones, CountCoupon(r)
    PROVE  Contado'
<1> DEFINE q == peticion[r]
           contado == pagos[q.pago].cupon /\ Traducido /\ cupon.existe
<1>1. /\ q \in Peticion /\ q.pc = "coupon" /\ UNCHANGED <<pagos, caidas>>
      /\ q.cupon <= cupon.id
      /\ Debe(q) => /\ cupon.current_uses + 1 <= Usos
                    /\ Exacto => cupon.current_uses + 1 = Usos
      /\ cupon' = IF contado THEN [cupon EXCEPT !.current_uses = @ + 1] ELSE cupon
      /\ Avanzar(r, "index")
  BY DEF CountCoupon, CouponInv, UsesRead, SerialInv, IInv, TypeOK
<1>2. /\ IsFiniteSet(CuponesCobrados) /\ Usos \in Nat
      /\ cupon.current_uses \in Nat /\ cupon.current_uses <= Usos
      /\ NingunoDebe /\ Exacto => cupon.current_uses = Usos
      /\ cupon.id = 0 => ~cupon.existe /\ \A p \in PagoIds : Existe(p) => ~pagos[p].cupon
  BY UsesAreNat DEF CouponInv, CountInv, SerialInv, IInv, TypeOK, Coupon
<1>3. CuponesCobrados' = CuponesCobrados /\ Usos' = Usos
  BY <1>1 DEF Usos, CuponesCobrados, Completado, Existe
<1>4. /\ cupon'.id = cupon.id /\ cupon'.existe = cupon.existe
      /\ cupon'.current_uses = IF contado THEN cupon.current_uses + 1 ELSE cupon.current_uses
  BY <1>1 DEF CouponInv, SerialInv, IInv, TypeOK, Coupon
<1>5. contado => Debe(q)
  BY <1>1 DEF Debe
<1>6. Exacto /\ ~contado => NingunoDebe
  BY <1>1 DEF Exacto, NingunoDebe, Debe, UnaALaVez
<1> HIDE DEF contado
<1>7. cupon'.current_uses <= Usos' /\ (Exacto' => cupon'.current_uses = Usos')
  BY <1>1, <1>2, <1>3, <1>4, <1>5, <1>6 DEF Exacto
<1>8. CountInv'
  BY <1>1, <1>2, <1>3, <1>4, <1>7 DEF CountInv, Existe
<1>9. PICK g : g = [q EXCEPT !.pc = "index"]
  OBVIOUS
<1>10. g.pc = "index" /\ g.cupon = q.cupon
  BY <1>1, <1>9 DEF Peticion
<1>11. UsesRead(g)'
  BY <1>1, <1>4, <1>10 DEF UsesRead, Debe
<1> QED BY <1>1, <1>8, <1>9, <1>11, OneCounts DEF Avanzar

\* A confirmation starts with no coupon in hand.
LEMMA ConfirmStartCounts ==
    ASSUME UnaALaVez, CouponInv, NEW r \in Peticiones, NEW o \in Ordenes, ConfirmPayment(r, o)
    PROVE  Contado'
<1>1. PICK pend \in PagoPendiente(ordenes[o].usuario) :
          peticion' = [peticion EXCEPT ![r] =
               [Libre EXCEPT !.pc = "record", !.usuario = ordenes[o].usuario,
                             !.metodo = "paypal", !.monto = ordenes[o].monto,
                             !.orden = o, !.pago = pend]]
  BY DEF ConfirmPayment
<1>2. PICK g : g = [Libre EXCEPT !.pc = "record", !.usuario = ordenes[o].usuario,
                             !.metodo = "paypal", !.monto = ordenes[o].monto,
                             !.orden = o, !.pago = pend]
  OBVIOUS
<1>3. g.pc = "record" /\ g.cupon = 0
  BY <1>2 DEF Libre
<1>4. UsesRead(g)'
  BY <1>3 DEF ConfirmPayment, UsesRead, Debe, CouponInv, SerialInv, IInv, TypeOK, Coupon
<1> QED BY <1>1, <1>2, <1>4, CountKept DEF ConfirmPayment, Debe

\* A request that moves on without touching payments or coupon.
LEMMA MovesOnCounts ==
    ASSUME UnaALaVez, CouponInv, NEW r \in Peticiones,
           FindRecord(r) \/ FlushPayment(r) \/ CreateIndex(r)
    PROVE  Contado'
<1>1. /\ ~Debe(peticion[r]) /\ UNCHANGED <<pagos, cupon, caidas>>
      /\ peticion[r] \in Peticion
  BY DEF FindRecord, FlushPayment, CreateIndex, Debe, CouponInv, SerialInv, IInv, TypeOK
<1>2. PICK g : g = [peticion[r] EXCEPT !.pc = "flush"]
  OBVIOUS
<1>3. PICK h : h = [peticion[r] EXCEPT !.pc = "pay", !.leida = Leer(peticion[r].usuario)]
  OBVIOUS
<1>4. /\ g.pc = "flush" /\ g.cupon = peticion[r].cupon
      /\ h.pc = "pay" /\ h.cupon = peticion[r].cupon
  BY <1>1, <1>2, <1>3 DEF Peticion
<1>5. \/ Terminar(r) \/ peticion' = [peticion EXCEPT ![r] = g]
      \/ peticion' = [peticion EXCEPT ![r] = h]
  BY <1>2, <1>3 DEF FindRecord, FlushPayment, CreateIndex, Avanzar
<1> QED BY <1>1, <1>4, <1>5, EndKept, GoesOnKept

\* What requests hold does not depend on the coupon's terms: a request that has
\* counted holds the row, so no instructor deletes it meanwhile.
LEMMA DeleteCounts ==
    ASSUME CouponInv, DeleteCoupon
    PROVE  Contado'
<1>1. /\ cupon'.id = cupon.id /\ ~cupon'.existe /\ cupon'.current_uses = 0
      /\ UNCHANGED <<pagos, peticion, caidas>>
  BY DEF DeleteCoupon, SinCupon
<1>2. CuponesCobrados' = CuponesCobrados /\ Usos' = Usos
  BY <1>1 DEF Usos, CuponesCobrados, Completado, Existe
<1>3. Usos \in Nat /\ cupon.current_uses \in Nat
  BY UsesAreNat DEF CouponInv, CountInv, SerialInv, IInv, TypeOK, Coupon
<1>4. CountInv'
  BY <1>1, <1>2, <1>3 DEF CouponInv, CountInv, Exacto, Existe
<1>5. ASSUME NEW x \in Peticiones PROVE UsesRead(peticion[x])'
  <2>1. ~(peticion[x].pc = "enroll" /\ Cuenta(peticion[x]))
    BY DEF DeleteCoupon, CouponHeld
  <2>2. Debe(peticion[x]) => 1 <= Usos
    BY <1>3 DEF CouponInv, UsesRead
  <2> QED BY <1>1, <1>2, <2>1, <2>2 DEF CouponInv, UsesRead, Cuenta, Debe, Exacto
<1> QED BY <1>4, <1>5 DEF Contado

\* A coupon that is created has no uses, and if it is the first, nobody paid
\* with one.
LEMMA CreateCounts ==
    ASSUME CouponInv, NEW d \in Descuentos, NEW m \in Limites, CreateCoupon(d, m)
    PROVE  Contado'
<1>1. /\ cupon'.id = cupon.id + 1 /\ cupon'.existe /\ cupon'.current_uses = 0
      /\ ~cupon.existe /\ UNCHANGED <<pagos, peticion, caidas>>
      /\ cupon.id \in Nat
  BY DEF CreateCoupon, CouponInv, SerialInv, IInv, TypeOK, Coupon
<1>2. CuponesCobrados' = CuponesCobrados /\ Usos' = Usos
  BY <1>1 DEF Usos, CuponesCobrados, Completado, Existe
<1>3. Usos \in Nat /\ cupon.current_uses \in Nat
  BY UsesAreNat DEF CouponInv, CountInv, SerialInv, IInv, TypeOK, Coupon
<1>4. cupon.id = 0 => Usos = 0
  <2>1. cupon.id = 0 => CuponesCobrados = {}
    BY DEF CouponInv, CountInv, CuponesCobrados, Completado
  <2> QED BY <2>1, FS_EmptySet DEF Usos
<1>5. CountInv'
  BY <1>1, <1>2, <1>3, <1>4 DEF CouponInv, CountInv, Exacto, Existe
<1>6. ASSUME NEW x \in Peticiones PROVE UsesRead(peticion[x])'
  <2> DEFINE q == peticion[x]
  <2>1. peticion'[x] = q /\ q.cupon <= cupon.id /\ q.cupon \in Nat
    BY <1>1 DEF CouponInv, UsesRead, SerialInv, IInv, TypeOK, Peticion
  <2>2. q.cupon <= cupon'.id /\ q.cupon # cupon'.id
    BY <1>1, <2>1
  <2>3. /\ ~(q.pc = "enroll" /\ Cuenta(q))
        /\ q.pc = "admin" => q.cupon = 0
        /\ q.pc \in {"lookup", "enroll"} /\ Cuenta(q) => q.usos <= Usos
    BY <1>1 DEF CouponInv, UsesRead
  <2>4. Debe(q) => 1 <= Usos
    BY <1>3 DEF CouponInv, UsesRead
  <2>5. Debe(q) => cupon.id # 0
    BY <1>4, <1>3, <2>4
  <2> QED BY <1>1, <1>2, <2>1, <2>2, <2>3, <2>4, <2>5 DEF UsesRead, Cuenta, Debe, Exacto
<1> QED BY <1>5, <1>6 DEF Contado

\* The instructor's coupon.
LEMMA CouponCounts ==
    ASSUME CouponInv, CouponNext
    PROVE  Contado'
<1>1. ASSUME NEW d \in Descuentos, NEW m \in Limites, EditCoupon(d, m)
      PROVE  Contado'
  <2>1. cupon'.id = cupon.id /\ cupon'.existe = cupon.existe
        /\ cupon'.current_uses = cupon.current_uses
    BY <1>1 DEF EditCoupon, CouponInv, SerialInv, IInv, TypeOK, Coupon
  <2> QED BY <1>1, <2>1, NobodyCounts DEF EditCoupon
<1>2. ASSUME ExpireCoupon PROVE Contado'
  <2>1. cupon'.id = cupon.id /\ cupon'.existe = cupon.existe
        /\ cupon'.current_uses = cupon.current_uses
    BY <1>2 DEF ExpireCoupon, CouponInv, SerialInv, IInv, TypeOK, Coupon
  <2> QED BY <1>2, <2>1, NobodyCounts DEF ExpireCoupon
<1> QED BY <1>1, <1>2, CreateCounts, DeleteCounts DEF CouponNext

\* A request that dies may take the use it owed with it.
LEMMA CrashCounts ==
    ASSUME UnaALaVez, CouponInv, NEW r \in Peticiones, Crash(r)
    PROVE  Contado'
<1>1. /\ Terminar(r) /\ UNCHANGED <<pagos, cupon>> /\ caidas' # 0
  BY DEF Crash, CouponInv, SerialInv, IInv, TypeOK
<1>2. CuponesCobrados' = CuponesCobrados /\ Usos' = Usos
  BY <1>1 DEF Usos, CuponesCobrados, Completado, Existe
<1>3. CountInv'
  BY <1>1, <1>2 DEF CouponInv, CountInv, Exacto, Existe
<1>4. UsesRead(Libre)'
  BY <1>1 DEF UsesRead, Libre, Debe, CouponInv, SerialInv, IInv, TypeOK, Coupon
<1> QED BY <1>1, <1>3, <1>4, OneCounts DEF Terminar

\* Requests one at a time: the count follows the payments.
LEMMA CountStep ==
    UnaALaVez /\ CouponInv /\ [Next]_vars => CouponInv'
<1> SUFFICES ASSUME UnaALaVez, CouponInv, [Next]_vars PROVE CouponInv'
  OBVIOUS
<1>1. SerialInv'
  BY SerialStep DEF CouponInv
<1>2. CASE UNCHANGED <<peticion, pagos, caidas, cupon>>
  <2>1. Contado'
    BY <1>2, NobodyCounts
  <2> QED BY <1>1, <2>1 DEF CouponInv, Contado
<1>3. ASSUME EnrollmentNext PROVE Contado'
  <2>1. ASSUME NEW r \in Peticiones, NEW s \in Estudiantes, NEW b \in BOOLEAN,
               \/ EnrollFree(r, s, b) \/ EnrollAudit(r, s, b)
               \/ \E modo \in {"", "audit"} : EnrollPaid(r, s, modo, b)
        PROVE  Contado'
    BY <2>1, StartCounts DEF EnrollFree, EnrollAudit, EnrollPaid
  <2>2. ASSUME UNCHANGED <<peticion, pagos, caidas, cupon>> PROVE Contado'
    BY <2>2, NobodyCounts
  <2>3. ASSUME NEW r \in Peticiones, NEW s \in Estudiantes, EnrollResumes(r, s)
        PROVE  Contado'
    BY <2>2, <2>3 DEF EnrollResumes
  <2>4. ASSUME NEW s \in Estudiantes, AdminUnenroll(s) PROVE Contado'
    BY <2>2, <2>4 DEF AdminUnenroll
  <2>5. ASSUME NEW c \in Cursos, EditCourse(c) PROVE Contado'
    BY <2>2, <2>5 DEF EditCourse
  <2> QED
    BY <1>3, <2>1, <2>3, <2>4, <2>5, AdminStartCounts, PendingCounts, LookupCounts,
       EnrollmentCounts, AdminCounts, MovesOnCounts DEF EnrollmentNext
<1>4. ASSUME CheckoutNext PROVE Contado'
  <2>1. ASSUME UNCHANGED <<peticion, pagos, caidas, cupon>> PROVE Contado'
    BY <2>1, NobodyCounts
  <2>2. ASSUME NEW s \in Estudiantes,
               \/ OpenPaymentPage(s) \/ \E p \in PagoIds : OpenPaymentPageFor(s, p)
               \/ \E o \in Ordenes : Capture(s, o)
        PROVE  Contado'
    BY <2>1, <2>2 DEF OpenPaymentPage, OpenPaymentPageFor, Capture
  <2> QED
    BY <1>4, <2>2, ConfirmStartCounts, MovesOnCounts, ConfirmationCounts, UseCounts
    DEF CheckoutNext
<1>5. ASSUME Next PROVE CouponInv'
  <2>1. Contado'
    BY <1>3, <1>4, <1>5, CouponCounts, CrashCounts DEF Next
  <2> QED BY <1>1, <2>1 DEF CouponInv, Contado
<1> QED BY <1>2, <1>5 DEF vars

\* Nothing has been paid or counted at first.
LEMMA CountInit == Init => CouponInv
<1> SUFFICES ASSUME Init PROVE CouponInv
  OBVIOUS
<1>1. CuponesCobrados = {}
  BY DEF Init, CuponesCobrados, Completado, Existe
<1>2. IsFiniteSet(CuponesCobrados) /\ Usos = 0
  BY <1>1, FS_EmptySet DEF Usos
<1>3. CountInv
  BY <1>2 DEF CountInv, Init, SinCupon, Exacto, Existe
<1>4. \A r \in Peticiones : UsesRead(peticion[r])
  BY DEF Init, UsesRead, Libre, SinCupon, Debe
<1> QED BY <1>3, <1>4, SerialInit DEF CouponInv

----------------------------------------
(* The theorems: what holds when requests are served one at a time. *)

\* The invariant, from any behaviour of the specification.
LEMMA OneAtATime ==
    ASSUME UnaALaVez PROVE Spec => []CouponInv
<1>1. Init => CouponInv
  BY CountInit
<1>2. CouponInv /\ [Next]_vars => CouponInv'
  BY CountStep
<1> QED BY <1>1, <1>2, PTL DEF Spec

\* The coupon is never counted more often than it was used, also when requests
\* die and confirmations are repeated (enrollment.py:115-116, paypal.py:417-438).
THEOREM CouponNotOvercountedTheorem ==
    ASSUME UnaALaVez PROVE Spec => []CouponNotOvercounted
<1>1. CouponInv => CouponNotOvercounted
  BY DEF CouponInv, CountInv, CouponNotOvercounted, Usos
<1> QED BY <1>1, OneAtATime, PTL

\* Where the catalog translates the prefix consistently and no request died, the
\* first coupon has been counted once for each payment (paypal.py:417-438).
THEOREM CouponUseCountedTheorem ==
    ASSUME UnaALaVez, Traducido PROVE Spec => []CouponUseCounted
<1>1. CouponInv => CouponUseCounted
  BY DEF CouponInv, CountInv, CouponUseCounted, Quieto, NingunoDebe, Debe, Exacto, Usos
<1> QED BY <1>1, OneAtATime, PTL

\* An order is booked at most once (paypal.py:301-374).
THEOREM OrderBookedOnceTheorem ==
    ASSUME UnaALaVez PROVE Spec => []OrderBookedOnce
<1>1. CouponInv => OrderBookedOnce
  <2> SUFFICES ASSUME CouponInv, NEW o \in Ordenes
               PROVE  Cardinality(Registrados(o)) <= 1
    BY DEF OrderBookedOnce
  <2>1. CASE Registrados(o) = {}
    BY <2>1, FS_EmptySet
  <2>2. CASE Registrados(o) # {}
    <3>1. PICK p : p \in Registrados(o)
      BY <2>2
    <3>2. o # Nada
      BY TablesAssumption
    <3>3. Registrados(o) = {p}
      BY <3>1, <3>2 DEF Registrados, CouponInv, SerialInv, OrdersDiffer
    <3>4. Cardinality({p}) = 1
      BY FS_Singleton
    <3> QED BY <3>3, <3>4
  <2> QED BY <2>1, <2>2
<1> QED BY <1>1, OneAtATime, PTL

\* A booked order stays booked, whatever the student pays next.
THEOREM BookedOrderStaysBookedTheorem ==
    ASSUME UnaALaVez PROVE Spec => BookedOrderStaysBooked
<1>1. CouponInv /\ [Next]_vars
        => [\A o \in Ordenes : Registrados(o) # {} => Registrados(o)' # {}]_vars
  <2> SUFFICES ASSUME CouponInv, [Next]_vars, NEW o \in Ordenes, NEW x \in Registrados(o)
               PROVE  x \in Registrados(o)'
    OBVIOUS
  <2>1. x \in PagoIds /\ Existe(x) /\ pagos[x].referencia = o /\ o # Nada
    BY TablesAssumption DEF Registrados
  <2>2. pagos[x].estado # "pending"
    BY <2>1 DEF CouponInv, SerialInv, PendingIsPlain
  <2>3. Completado(x)
    BY <2>1, <2>2 DEF Completado, Existe, CouponInv, SerialInv, IInv, TypeOK, Pago
  <2>4. pagos'[x] = pagos[x]
    BY <2>1, <2>3, WriteStep
    DEF NadaEscrito, PendienteEscrito, AsientoEscrito, Escribe, CouponInv, SerialInv, IInv,
        TypeOK
  <2> QED BY <2>1, <2>4 DEF Registrados, Existe
<1> QED BY <1>1, OneAtATime, PTL DEF Spec, BookedOrderStaysBooked

\* A seat that was paid for is not turned into an audit seat
\* (enrollment.py:230-235).
THEOREM PaidSeatNotDowngradedTheorem ==
    ASSUME UnaALaVez PROVE Spec => PaidSeatNotDowngraded
<1> DEFINE Sigue(s) == Activa(s) /\ Activa(s)' /\ ~pagos[inscripcion[s].pago].audit
                         => ~pagos'[inscripcion'[s].pago].audit
<1>1. CouponInv /\ [Next]_vars => [\A s \in Estudiantes : Sigue(s)]_vars
  <2> SUFFICES ASSUME CouponInv, [Next]_vars, NEW s \in Estudiantes, Activa(s), Activa(s)',
                      ~pagos[inscripcion[s].pago].audit
               PROVE  ~pagos'[inscripcion'[s].pago].audit
    OBVIOUS
  <2>1. inscripcion[s].pago \in PagoIds /\ Completado(inscripcion[s].pago)
    BY DEF CouponInv, SerialInv, IInv, ActiveSeatIsPaid, Activa, TypeOK, EstudianteCurso
  <2>2. CASE NadaEscrito
    BY <2>2 DEF NadaEscrito, AdminUnenroll, Activa, CouponInv, SerialInv, IInv, TypeOK,
                EstudianteCurso
  <2>3. ASSUME NEW p \in PagoIds, Escribe(p), inscripcion'[s] = inscripcion[s]
        PROVE  ~pagos'[inscripcion'[s].pago].audit
    BY <2>1, <2>3 DEF Escribe, CouponInv, SerialInv, IInv, TypeOK
  <2>4. ASSUME NEW p \in PagoIds, NEW t \in Estudiantes, AsientoEscrito(t, p)
        PROVE  ~pagos'[inscripcion'[s].pago].audit
    <3>1. CASE s = t
      BY <2>4, <3>1 DEF AsientoEscrito, SeatPaid, Activa
    <3>2. CASE s # t
      BY <2>3, <2>4, <3>2 DEF AsientoEscrito, SeatPaid, CouponInv, SerialInv, IInv, TypeOK
    <3> QED BY <3>1, <3>2
  <2> QED BY <2>2, <2>3, <2>4, WriteStep DEF CouponInv, PendienteEscrito
<1> QED BY <1>1, OneAtATime, PTL DEF Spec, PaidSeatNotDowngraded

\* A student gets into the course only in a step that completes a payment of his.
THEOREM SeatNeedsNewPaymentTheorem ==
    ASSUME UnaALaVez PROVE Spec => SeatNeedsNewPayment
<1> DEFINE Paga(s) == ~Activa(s) /\ Activa(s)' =>
                          \E p \in PagoIds : /\ ~Completado(p) /\ Completado(p)'
                                             /\ pagos'[p].usuario = s
<1>1. CouponInv /\ [Next]_vars => [\A s \in Estudiantes : Paga(s)]_vars
  <2> SUFFICES ASSUME CouponInv, [Next]_vars, NEW s \in Estudiantes, ~Activa(s), Activa(s)'
               PROVE  \E p \in PagoIds : /\ ~Completado(p) /\ Completado(p)'
                                         /\ pagos'[p].usuario = s
    OBVIOUS
  <2>1. ~NadaEscrito
    BY DEF NadaEscrito, AdminUnenroll, Activa, CouponInv, SerialInv, IInv, TypeOK,
           EstudianteCurso
  <2>2. ASSUME NEW p \in PagoIds, NEW t \in Estudiantes, AsientoEscrito(t, p)
        PROVE  s = t /\ ~Completado(p) /\ Completado(p)' /\ pagos'[p].usuario = s
    BY <2>2 DEF AsientoEscrito, Escribe, SeatPaid, Activa, CouponInv, SerialInv, IInv, TypeOK
  <2> QED BY <2>1, <2>2, WriteStep DEF CouponInv, PendienteEscrito, Activa
<1> QED BY <1>1, OneAtATime, PTL DEF Spec, SeatNeedsNewPayment
===============================================================================
