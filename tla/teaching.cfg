SPECIFICATION Spec
CONSTANTS
    Partes = {"numerado", "editado", "calificado", "practicado", "ordenado", "bloqueado",
              "archivado", "presentado", "subido", "caido"}
    q1 = q1
    Formularios = {p1, p2}
    Alumnos = {ana}
    Examenes = {e1}
    Copiados = {e1, e2}
    Enunciados = {t1, t2}
    Sembrados = {t1}
    Anotados = {"Otra"}
    MaxPreguntas = 3
    MaxPocas = 2
    MaxOpciones = 5
    MaxPocasOpciones = 4
    MaxIntentos = 1
    MaxPracticas = 2
    MaxNumerado = 6
    MaxEditado = 3
    MaxCalificado = 5
    MaxPracticado = 4
    curso = curso
    Secciones = {s1, s2, s3}
    Lecciones = {r1, r2, r3}
    MaxOrdenadas = 4
    MaxSecciones = 5
    MaxOrdenado = 7
    MaxBloqueado = 3
    MaxInterrumpidos = 1
    Laminas = {d1, d2, d3}
    MaxCambiadas = 5
    MaxGuardadas = 3
    Escritos = {r1}
    Titulos = {t1}
    Ficheros = {n1, n2}
    Contenidos = {t1, t2}
    MaxArchivos = 3
    MaxEscritos = 3
    MaxEscritosMuertos = 1
    MaxSubidas = 5
    MaxDeUnaEnUna = 4
    MaxMuertas = 2
    Nada = Nada
SYMMETRY Intercambiables
CHECK_DEADLOCK FALSE
INVARIANTS TypeOK CourseHolds FilesHold
PROPERTY SavedIsKept
