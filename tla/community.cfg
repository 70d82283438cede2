SPECIFICATION Spec
CONSTANTS
    Partes = {"foro", "hilo", "hilo_cruzado", "moderado", "reportado", "destacado", "escritas",
              "comentadas", "leidas", "cruzadas", "sincronizadas", "visitadas"}
    Miembros = {ana, eva, iris}
    Personal = {marta}
    Mensajes = {m1, m2, m3}
    Hilos = {h1}
    Posts = {x1}
    Respuestas = {y1, y2, y3}
    Autores = {luz}
    Lectores = {u1}
    Entradas = {b1, b2}
    Comentarios = {c1, c2, c3}
    Titulos = {"t1", "t2"}
    Etiquetas = {g1}
    Paginas = {i1, i2, i3}
    Predeterminadas = {"about", "privacy"}
    Primeras = {"about"}
    OtrosSlugs = {"otro"}
    Idiomas = {"en", "es", "fr"}
    Enviados = {"en", "es"}
    DeFabrica = "en"
    Propios = {"propio"}
    Visitas = {v1}
    q1 = q1
    Concurrentes = {p1, p2}
    MaxSeguidas = 6
    MaxComentadas = 7
    MaxCruzadas = 4
    MaxReportadas = 5
    MaxDestacadas = 6
    MaxSincronizadas = 4
    MaxVisitadas = 3
    MaxCaidas = 1
    Nada = Nada
SYMMETRY Intercambiables
CHECK_DEADLOCK FALSE
INVARIANTS TypeOK ModerationAgrees
PROPERTIES ClosedIsClosed WritingCounts
