--------------------------- MODULE MCAdministration --------------------------
(***************************************************************************)
(* Instances of what happens around the courses: requests for access,      *)
(* prior credentials, the setup of the database, the calendar and the      *)
(* limit of the external API.  They share no rows and do not call each     *)
(* other: parte is the one that a behaviour is about, whose requests       *)
(* peticion keeps, and the rest has no rows.                               *)
(***************************************************************************)
EXTENDS Integers, TLC

CONSTANTS
    Partes,      \* the parts that a run explores
    ana, bot1, bot2, bot3, marta, dir1, dir2, dir3, i1, i2, k1, m1, m2, v1,
    p1, p2, p3, q1, Borrada, Nada

VARIABLES
    parte, peticion, operaciones, caidas, filas,
    \* AccessRequests, with filas
    ahora, cubos, barrido, olvidadas, admitidos, formulario, pagina, recibos, envios,
    registro, llaves, archivos, lista,                    \* PriorCredentials
    esquema, sello, dobles, disco, datos, temas, proceso, \* DatabaseSetup, with filas
    fecha, inscritos, eventos, zona, hoy, hilos, respuesta, \* Calendar
    vista,                                                \* CalendarMonths
    backend, activa, contador, resta, recientes           \* ApiRateLimit

varsAcceso == <<ahora, cubos, barrido, olvidadas, admitidos, formulario, pagina, recibos, envios>>
varsCredenciales == <<registro, llaves, archivos, lista>>
varsInstalacion == <<esquema, sello, dobles, disco, datos, temas, proceso>>
varsCalendario == <<fecha, inscritos, eventos, zona, hoy, hilos, respuesta, vista>>
varsLimite == <<backend, activa, contador, resta, recientes>>
vars == <<parte, peticion, operaciones, caidas, filas,
          varsAcceso, varsCredenciales, varsInstalacion, varsCalendario, varsLimite>>

----------------------------------------
\* The parts, whose people, requests and bounds k gives.
Solicitud(k) == INSTANCE AccessRequests WITH
    Personas <- k.personas, Bots <- k.bots, Direcciones <- k.direcciones, DireccionDe <- k.de,
    RATE_LIMIT_POSTS <- k.limite, RATE_LIMIT_WINDOW <- k.ventana, RATE_MAX_BUCKETS <- k.cubos,
    RATE_SWEEP_INTERVAL <- k.barrer, MIN_SUBMIT_SECONDS <- k.minimo,
    MAX_TOKEN_AGE_SECONDS <- k.maximo, MaxTiempo <- k.tiempo, MaxEnvios <- k.envios,
    MaxCaidas <- k.caidas
Credencial(k) == INSTANCE PriorCredentials WITH
    Miembros <- k.miembros, Personal <- k.personal, Registros <- k.registros, Claves <- k.claves,
    Peticiones <- k.peticiones, Acciones <- k.acciones, MaxOperaciones <- k.operaciones,
    MaxCaidas <- k.caidas
Puesta(k) == INSTANCE DatabaseSetup WITH
    Procesos <- k.procesos, ConEjemplos <- k.ejemplos, DatosPropios <- k.propios,
    AUTO_MIGRATE <- k.migrar, MaxCaidas <- k.caidas
Calendario(k) == INSTANCE Calendar WITH
    Usuarios <- k.usuarios, Peticiones <- k.peticiones, Reuniones <- k.reuniones,
    Evaluaciones <- k.evaluaciones, Acciones <- k.acciones, Zonas <- k.zonas,
    Limite <- k.limite, MaxDia <- k.dias, MaxOperaciones <- k.operaciones
Mes(k) == INSTANCE CalendarMonths WITH
    AnioActual <- k.anio, MesActual <- k.mes, Anios <- k.anios
Clave(k) == INSTANCE ApiRateLimit WITH
    Peticiones <- k.peticiones, Limite <- k.limite, Ventana <- k.ventana, Backends <- k.backends

\* A person and a bot at one address, whose process may die; three bots at an
\* address each, more than the limiter remembers.
UnaDireccion ==
    [personas |-> {ana}, bots |-> {bot1}, direcciones |-> {dir1},
      de |-> [c \in {ana, bot1} |-> dir1],
     limite |-> 2, ventana |-> 2, cubos |-> 3, barrer |-> 1, minimo |-> 1, maximo |-> 3,
     tiempo |-> 5, envios |-> 4, caidas |-> 1]
TresDirecciones ==
    [personas |-> {}, bots |-> {bot1, bot2, bot3}, direcciones |-> {dir1, dir2, dir3},
     de |-> [c \in {bot1, bot2, bot3} |->
                CASE c = bot1 -> dir1 [] c = bot2 -> dir2 [] c = bot3 -> dir3],
     limite |-> 2, ventana |-> 2, cubos |-> 2, barrer |-> 1, minimo |-> 1, maximo |-> 3,
     tiempo |-> 4, envios |-> 4, caidas |-> 0]

\* Three requests at once on what a member submits of one course.
TresPeticiones ==
    [miembros |-> {ana}, personal |-> {marta}, registros |-> {i1, i2}, claves |-> {k1},
     peticiones |-> {p1, p2, p3}, acciones |-> {"registrar", "borrar", "revisar", "listar"},
     operaciones |-> 5, caidas |-> 1]

\* A setup with the examples that dies twice, and two that start at once.
ConCaidas ==
    [procesos |-> {q1}, ejemplos |-> TRUE, propios |-> TRUE, migrar |-> TRUE, caidas |-> 2]
DosALaVez ==
    [procesos |-> {p1, p2}, ejemplos |-> FALSE, propios |-> FALSE, migrar |-> TRUE, caidas |-> 0]

\* A member, two meetings and an evaluation: one enrollment at a time among changes
\* of the course, and the panel of upcoming events over the days.
ConCambios ==
    [usuarios |-> {ana}, peticiones |-> {q1}, reuniones |-> {m1, m2}, evaluaciones |-> {v1},
     acciones |-> {"inscribir", "pagar", "desinscribir", "mover", "nueva", "alternar", "exportar"},
     zonas |-> {"UTC"}, limite |-> 1, dias |-> 2, operaciones |-> 4]
ConDias ==
    [usuarios |-> {ana}, peticiones |-> {q1}, reuniones |-> {m1, m2}, evaluaciones |-> {v1},
     acciones |-> {"inscribir", "ver", "zona", "desinscribir", "eliminar"},
     zonas |-> {"UTC", "conocida"}, limite |-> 1, dias |-> 3, operaciones |-> 4]

\* Years around this one and around the last that a date can have.
EnLosExtremos ==
    [anio |-> 2026, mes |-> 8,
     anios |-> {-1, 0, 1, 2, 2024, 2025, 2026, 2027, 2028, 9998, 9999, 10000}]

\* Three requests of a key in three ticks, in memory and in Redis.
UnaClave == [peticiones |-> {q1}, limite |-> 3, ventana |-> 3, backends |-> {"memoria", "redis"}]

ASSUME AdministrationAssumption ==
    /\ Solicitud(UnaDireccion)!AccessAssumption /\ Solicitud(TresDirecciones)!AccessAssumption
    /\ Credencial(TresPeticiones)!CredentialsAssumption
    /\ Puesta(ConCaidas)!SetupAssumption /\ Puesta(DosALaVez)!SetupAssumption
    /\ Calendario(ConCambios)!CalendarAssumption /\ Calendario(ConDias)!CalendarAssumption
    /\ Mes(EnLosExtremos)!MonthsAssumption /\ Clave(UnaClave)!RateAssumption

----------------------------------------
SinAcceso ==
    /\ ahora = 0 /\ cubos = Nada /\ barrido = Nada /\ olvidadas = Nada /\ admitidos = Nada
    /\ formulario = Nada /\ pagina = Nada /\ recibos = Nada /\ envios = 0
SinCredenciales == registro = Nada /\ llaves = Nada /\ archivos = Nada /\ lista = Nada
SinInstalacion ==
    /\ esquema = FALSE /\ sello = FALSE /\ dobles = Nada /\ disco = Nada
    /\ datos = Nada /\ temas = Nada /\ proceso = Nada
SinAgenda ==
    /\ fecha = Nada /\ inscritos = Nada /\ eventos = Nada /\ zona = Nada /\ hoy = 0
    /\ hilos = Nada /\ respuesta = Nada
SinTasa ==
    backend = Nada /\ activa = FALSE /\ contador = Nada /\ resta = Nada /\ recientes = Nada

DeAcceso == {"acceso", "memoria"}
DeInstalacion == {"instalacion", "dos_instalaciones"}
DeAgenda == {"agenda", "panel"}

Init ==
    /\ parte \in Partes
    /\ \/ parte = "acceso" /\ Solicitud(UnaDireccion)!Init
       \/ parte = "memoria" /\ Solicitud(TresDirecciones)!Init
       \/ parte = "credenciales" /\ Credencial(TresPeticiones)!Init
       \/ parte = "instalacion" /\ Puesta(ConCaidas)!Init
       \/ parte = "dos_instalaciones" /\ Puesta(DosALaVez)!Init
       \/ parte = "agenda" /\ Calendario(ConCambios)!Init
       \/ parte = "panel" /\ Calendario(ConDias)!Init
       \/ parte = "meses" /\ Mes(EnLosExtremos)!Init
       \/ parte = "tasa" /\ Clave(UnaClave)!Init
    /\ parte \notin DeAcceso => SinAcceso
    /\ parte # "credenciales" => SinCredenciales
    /\ parte \notin DeInstalacion => SinInstalacion
    /\ parte \notin DeAcceso \cup DeInstalacion => filas = Nada
    /\ parte \notin DeAgenda => SinAgenda
    /\ parte # "meses" => vista = Nada
    /\ parte # "tasa" => SinTasa
    /\ parte \in DeInstalacion \cup {"meses"} => peticion = Nada
    /\ parte \notin DeAgenda \cup {"credenciales"} => operaciones = 0
    /\ parte \in DeAgenda \cup {"meses", "tasa"} => caidas = 0

PedirAcceso ==
    /\ \/ parte = "acceso" /\ Solicitud(UnaDireccion)!Next
       \/ parte = "memoria" /\ Solicitud(TresDirecciones)!Next
    /\ UNCHANGED <<parte, operaciones, varsCredenciales, varsInstalacion, varsCalendario,
         varsLimite>>
Acreditar ==
    /\ parte = "credenciales" /\ Credencial(TresPeticiones)!Next
    /\ UNCHANGED <<parte, filas, varsAcceso, varsInstalacion, varsCalendario, varsLimite>>
Instalar ==
    /\ \/ parte = "instalacion" /\ Puesta(ConCaidas)!Next
       \/ parte = "dos_instalaciones" /\ Puesta(DosALaVez)!Next
    /\ UNCHANGED <<parte, peticion, operaciones,
                   varsAcceso, varsCredenciales, varsCalendario, varsLimite>>
Agendar ==
    /\ \/ parte = "agenda" /\ Calendario(ConCambios)!Next
       \/ parte = "panel" /\ Calendario(ConDias)!Next
    /\ UNCHANGED <<parte, caidas, filas, vista,
                   varsAcceso, varsCredenciales, varsInstalacion, varsLimite>>
Hojear ==
    /\ parte = "meses" /\ Mes(EnLosExtremos)!Next
    /\ UNCHANGED <<parte, peticion, operaciones, caidas, filas, fecha, inscritos, eventos, zona,
                   hoy, hilos, respuesta, varsAcceso, varsCredenciales, varsInstalacion,
                     varsLimite>>
Limitar ==
    /\ parte = "tasa" /\ Clave(UnaClave)!Next
    /\ UNCHANGED <<parte, operaciones, caidas, filas,
                   varsAcceso, varsCredenciales, varsInstalacion, varsCalendario>>

Next == PedirAcceso \/ Acreditar \/ Instalar \/ Agendar \/ Hojear \/ Limitar

Spec == Init /\ [][Next]_vars

Intercambiables == Permutations({p1, p2, p3}) \cup Permutations({m1, m2})

----------------------------------------
TypeOK ==
    /\ parte = "acceso" => Solicitud(UnaDireccion)!TypeOK
    /\ parte = "memoria" => Solicitud(TresDirecciones)!TypeOK
    /\ parte = "credenciales" => Credencial(TresPeticiones)!TypeOK
    /\ parte = "instalacion" => Puesta(ConCaidas)!TypeOK
    /\ parte = "dos_instalaciones" => Puesta(DosALaVez)!TypeOK
    /\ parte = "agenda" => Calendario(ConCambios)!TypeOK
    /\ parte = "panel" => Calendario(ConDias)!TypeOK
    /\ parte = "tasa" => Clave(UnaClave)!TypeOK

\* Limits hold and what is answered was stored.  In any window no address has more
\* requests for access admitted than the limit, its memory is bounded, and nobody
\* has a receipt without a row, though processes die (request_access.py); a key of
\* the external API is served as often as its cache allows (check_rate_limit); and
\* through three overlapping requests the images on disk are those of the prior
\* credentials (_store_image, delete_credential).
LimitsHold ==
    /\ parte = "acceso" => Solicitud(UnaDireccion)!WindowHolds /\
         Solicitud(UnaDireccion)!ReceiptMeansStored
    /\ parte = "memoria" => Solicitud(TresDirecciones)!WindowHolds /\
         Solicitud(TresDirecciones)!BucketsBounded
    /\ parte = "tasa" => Clave(UnaClave)!LimiteRespetado
    /\ parte = "credenciales" => Credencial(TresPeticiones)!FilesAreOfRows

\* Wherever a setup dies, a row never names one that is not there and a database
\* that counts as populated is stamped; when two start at once, one of them goes
\* through, and nothing but the configuration is inserted twice (initial_setup).
SetupHolds ==
    /\ parte = "instalacion" => Puesta(ConCaidas)!ReferencesResolve /\
         Puesta(ConCaidas)!PopulatedIsStamped
    /\ parte = "dos_instalaciones" => Puesta(DosALaVez)!RowsOnce /\ Puesta(DosALaVez)!OneSetsUp

\* One request at a time, a member has one event for every date that the course had
\* (create_events_for_student_enrollment); and whatever is asked for, a month is
\* shown, unless it comes to December of 9999, the one request that fails
\* (calendar_view).
CalendarHolds ==
    /\ parte = "agenda" => Calendario(ConCambios)!OneEventPerDate /\
         Calendario(ConCambios)!ServedHaveEvents
    /\ parte = "meses" => Mes(EnLosExtremos)!ShowsAMonth

\* Nothing is left out: no post is refused without a full window (request_access.py),
\* no credential is decided but by a review of it (review_credential), the panel
\* shows the next event (get_upcoming_events_for_user), and no day is lost between
\* the pages of a calendar, but for the link to December of 9999 (calendar_view).
NothingLeftOut ==
    [][/\ parte = "acceso" => Solicitud(UnaDireccion)!RefusedWithCause
       /\ parte = "credenciales" => Credencial(TresPeticiones)!ReviewedAsRead
       /\ parte = "panel" => Calendario(ConDias)!PanelShowsTheNext
       /\ parte = "meses" => Mes(EnLosExtremos)!NextBeginsAtTheEnd /\
            Mes(EnLosExtremos)!PreviousEndsAtTheBeginning]_vars
===============================================================================
