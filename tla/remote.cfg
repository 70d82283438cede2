SPECIFICATION Spec
CONSTANTS
    Ids = {i1, i2}
    Correos = {ana, eva}
    Cursos = {c1}
    DePago = {c1}
    Peticiones = {r1, r2}
    MaxCaidas = 1
    Nada = Nada
SYMMETRY Iguales
INVARIANTS TypeOK LoggedIsEnrolled AnswerIsTrue
PROPERTIES ImplementsService VerifiedStaysVerified
