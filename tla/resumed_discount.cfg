SPECIFICATION FairSpec
CONSTANTS
    Estudiantes = {ana}
    Personal = staff
    PagoIds = {1, 2}
    Ordenes = {o1}
    Peticiones = {r1}
    Cursos <- CursoDePago
    Descuentos <- Mitad
    Limites = {0}
    NoVerificados = {}
    Traducido = TRUE
    MaxEdiciones = 1
    MaxCaidas = 0
    Nada = Nada
PROPERTY CapturedOrderIsBooked
