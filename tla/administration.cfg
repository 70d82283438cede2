SPECIFICATION Spec
CONSTANTS
    Partes = {"acceso", "memoria", "credenciales", "instalacion", "dos_instalaciones", "agenda",
              "panel", "meses", "tasa"}
    ana = ana
    bot1 = bot1
    bot2 = bot2
    bot3 = bot3
    marta = marta
    dir1 = dir1
    dir2 = dir2
    dir3 = dir3
    i1 = i1
    i2 = i2
    k1 = k1
    m1 = m1
    m2 = m2
    v1 = v1
    p1 = p1
    p2 = p2
    p3 = p3
    q1 = q1
    Borrada = Borrada
    Nada = Nada
SYMMETRY Intercambiables
CHECK_DEADLOCK FALSE
INVARIANTS TypeOK LimitsHold SetupHolds CalendarHolds
PROPERTY NothingLeftOut
