SPECIFICATION Spec
CONSTANTS
    Estudiantes = {ana}
    Personal = staff
    PagoIds = {1, 2, 3}
    Ordenes = {o1, o2}
    Peticiones = {r1}
    Cursos <- CursoAuditable
    Descuentos <- MitadOGratis
    Limites = {1}
    NoVerificados = {}
    Traducido = TRUE
    MaxEdiciones = 3
    MaxCaidas = 1
    Nada = Nada
INVARIANTS CouponUseCounted CouponNotOvercounted OrderBookedOnce
PROPERTIES BookedOrderStaysBooked PaidSeatNotDowngraded SeatNeedsNewPayment
