SPECIFICATION Spec
CONSTANTS
    Partes = {"ventas", "cache", "cursos", "programa_pagado", "programa_cursado", "remoto",
              "blog", "tasa", "indice", "foro_cerrado", "foro_retirado", "base"}
    ana = ana
    marta = marta
    x = x
    y = y
    e1 = e1
    o1 = o1
    p1 = p1
    p2 = p2
    i1 = i1
    c1 = c1
    s1 = s1
    s2 = s2
    s3 = s3
    m1 = m1
    b1 = b1
    u1 = u1
    Nada = Nada
CHECK_DEADLOCK FALSE
PROPERTIES WaitingIsOver SiteSettles
