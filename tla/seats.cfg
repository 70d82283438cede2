SPECIFICATION Spec
CONSTANTS
    Estudiantes = {ana}
    Personal = staff
    PagoIds = {1, 2}
    Ordenes = {o1}
    Peticiones = {r1, r2}
    Cursos <- CursosVarios
    Descuentos <- MitadOGratis
    Limites = {0, 1}
    NoVerificados = {}
    Traducido = TRUE
    MaxEdiciones = 1
    MaxCaidas = 1
    Nada = Nada
INVARIANTS TypeOK ActiveSeatIsPaid PaymentBringsSeat BookedMoneyWasCaptured IndexFollowsSeat
PROPERTY CompletedPaymentIsFinal
