SPECIFICATION Spec
CONSTANTS
    Partes = {"seguido"}
    ana = ana
    x = x
    y = y
    e1 = e1
    e2 = e2
    r1 = r1
    r2 = r2
    q1 = q1
    c1 = c1
    c2 = c2
    i1 = i1
    Nada = Nada
SYMMETRY Intercambiables
CHECK_DEADLOCK FALSE
INVARIANT CertificateFollows
