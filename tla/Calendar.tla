------------------------------- MODULE Calendar -------------------------------
(***************************************************************************)
(* The calendars of the members of one course (calendar_utils.py,          *)
(* vistas/calendar.py): who enrolls gets an event for every meeting with a *)
(* date and for every evaluation with a deadline, in a transaction of its  *)
(* own after the enrollment is committed.  A change of a date is brought   *)
(* to the events by a thread.  The course is in its database with foreign  *)
(* keys that cascade.                                                      *)
(***************************************************************************)
EXTENDS Integers, FiniteSets

CONSTANTS
    Usuarios, Peticiones,
    Reuniones, Evaluaciones,   \* resources of type meet, evaluations
    Acciones,                  \* what the requests of an instance do
    Zonas,                     \* time zones the site is configured with
    Limite,                    \* events of the dashboard
    MaxDia, MaxOperaciones,    \* bounds: days, requests
    Nada, Borrada

Fuentes == Reuniones \cup Evaluaciones

\* What an instance assumes of its constants.
CalendarAssumption ==
    /\ Reuniones \cap Evaluaciones = {} /\ Nada \notin Usuarios \cup Fuentes
    /\ Zonas \subseteq {"UTC", "conocida", "desconocida"} /\ "UTC" \in Zonas
    /\ Limite \in Nat \ {0} /\ MaxDia \in Nat \ {0} /\ MaxOperaciones \in Nat
    /\ IsFiniteSet(Reuniones) /\ IsFiniteSet(Evaluaciones)
    /\ {Nada, Borrada} \cap Int = {} /\ Nada # Borrada

Dias == 0 .. MaxDia

VARIABLES
    fecha,        \* CursoRecurso.fecha, Evaluation.available_until
    inscritos,    \* users with an EstudianteCurso row that is vigente
    eventos,      \* UserEvent rows
    zona,         \* Configuracion.time_zone
    hoy,
    hilos,        \* sources whose update thread is still to run
    respuesta,    \* what was last shown or exported
    peticion, operaciones

vars == <<fecha, inscritos, eventos, zona, hoy, hilos, respuesta, peticion, operaciones>>

----------------------------------------
\* An event is known by the request that made it, of which it is the only one
\* for its source.
Evento == [por: 1 .. MaxOperaciones, usuario: Usuarios, fuente: Fuentes, inicio: Dias, zona: Zonas]

Peticion == [pc: {"idle", "registrar", "leer", "comprobar", "hecho", "error"},
             usuario: Usuarios \cup {Nada}, por: 0 .. MaxOperaciones, zona: Zonas,
             via: {"sitio", "pago"},
             leidas: SUBSET (Fuentes \X Dias), nuevas: SUBSET (Fuentes \X Dias),
             pendientes: SUBSET (Fuentes \X Dias)]

Libre == [pc |-> "idle", usuario |-> Nada, por |-> 0, zona |-> "UTC", via |-> "sitio",
          leidas |-> {}, nuevas |-> {}, pendientes |-> {}]

SinRespuesta == [tipo |-> "ninguna", usuario |-> Nada, eventos |-> {}]

DeFuente(u, f) == {e \in eventos : e.usuario = u /\ e.fuente = f}

TypeOK ==
    /\ fecha \in [Fuentes -> Dias \cup {Nada, Borrada}]
    /\ inscritos \subseteq Usuarios
    /\ eventos \subseteq Evento
    /\ zona \in Zonas /\ hoy \in Dias /\ hilos \subseteq Fuentes
    /\ respuesta \in [tipo: {"ninguna", "panel", "ics", "error"}, usuario: Usuarios \cup {Nada}, eventos: SUBSET Evento]
    /\ peticion \in [Peticiones -> Peticion] /\ operaciones <= MaxOperaciones
    \* the foreign keys, and what a request makes is among what it read
    /\ \A e \in eventos : fecha[e.fuente] # Borrada
    /\ \A p \in Peticiones : /\ peticion[p].nuevas \cup peticion[p].pendientes \subseteq peticion[p].leidas
                             /\ peticion[p].nuevas \cap peticion[p].pendientes = {}

Contar(accion) == /\ accion \in Acciones
                  /\ operaciones < MaxOperaciones
                  /\ operaciones' = operaciones + 1

----------------------------------------
\* An enrollment that found none active.  A payment at PayPal and the API are
\* "pago": they enroll without a calendar.
Inscribir(p, u) ==
    /\ peticion[p].pc \in {"idle", "hecho", "error"}
    /\ u \notin inscritos
    /\ \E via \in {"sitio", "pago"} :
          /\ Contar(IF via = "sitio" THEN "inscribir" ELSE "pagar")
          /\ peticion' = [peticion EXCEPT ![p] = [Libre EXCEPT
                !.pc = "registrar", !.usuario = u, !.por = operaciones + 1, !.zona = zona, !.via = via]]
    /\ UNCHANGED <<fecha, inscritos, eventos, zona, hoy, hilos, respuesta>>

\* The row is inserted, or found and made active again, and committed.
Registrar(p) ==
    /\ peticion[p].pc = "registrar"
    /\ inscritos' = inscritos \cup {peticion[p].usuario}
    /\ peticion' = [peticion EXCEPT ![p].pc = IF peticion[p].via = "sitio" THEN "leer" ELSE "hecho"]
    /\ UNCHANGED <<fecha, eventos, zona, hoy, hilos, respuesta, operaciones>>

FuentesConFecha == {x \in Fuentes \X Dias : fecha[x[1]] = x[2]}

Leer(p) ==
    /\ peticion[p].pc = "leer"
    /\ peticion' = [peticion EXCEPT ![p].pc = "comprobar", ![p].leidas = FuentesConFecha,
                                    ![p].pendientes = FuentesConFecha]
    /\ UNCHANGED <<fecha, inscritos, eventos, zona, hoy, hilos, respuesta, operaciones>>

\* Mutation: the event is made without a look at those there are.
SinComprobar(u, f) == "crear"

\* scalar_one_or_none: raises when it finds two.
Existente(u, f) ==
    IF DeFuente(u, f) = {} THEN "crear" ELSE IF Cardinality(DeFuente(u, f)) = 1 THEN "dejar" ELSE "error"

Comprobar(p) ==
    /\ peticion[p].pc = "comprobar"
    /\ \E x \in peticion[p].pendientes :
          LET hay == Existente(peticion[p].usuario, x[1])
          IN  peticion' = [peticion EXCEPT
                 ![p].pc = IF hay = "error" THEN "error" ELSE @,
                 ![p].nuevas = IF hay = "crear" THEN @ \cup {x} ELSE IF hay = "error" THEN {} ELSE @,
                 ![p].pendientes = IF hay = "error" THEN {} ELSE @ \ {x}]
    /\ UNCHANGED <<fecha, inscritos, eventos, zona, hoy, hilos, respuesta, operaciones>>

Nuevos(p) == {[por |-> peticion[p].por, usuario |-> peticion[p].usuario, fuente |-> x[1],
               inicio |-> x[2], zona |-> peticion[p].zona] : x \in peticion[p].nuevas}

\* The commit: all the events, or none when a source is gone.
Confirmar(p) ==
    /\ peticion[p].pc = "comprobar" /\ peticion[p].pendientes = {}
    /\ LET cabe == \A x \in peticion[p].nuevas : fecha[x[1]] # Borrada
       IN  /\ eventos' = IF cabe THEN eventos \cup Nuevos(p) ELSE eventos
           /\ peticion' = [peticion EXCEPT ![p].pc = IF cabe THEN "hecho" ELSE "error"]
    /\ UNCHANGED <<fecha, inscritos, zona, hoy, hilos, respuesta, operaciones>>

\* admin_course_unenrollment
Desinscribir(u) ==
    /\ Contar("desinscribir")
    /\ u \in inscritos
    /\ inscritos' = inscritos \ {u}
    /\ UNCHANGED <<fecha, eventos, zona, hoy, hilos, respuesta, peticion>>

----------------------------------------
\* editar_recurso_meet, and nuevo_recurso_meet for one that was not there.
editar_recurso_meet(f, d) ==
    /\ Contar("mover")
    /\ f \in Reuniones /\ fecha[f] # Borrada /\ fecha[f] # d
    /\ fecha' = [fecha EXCEPT ![f] = d]
    /\ hilos' = hilos \cup {f}
    /\ UNCHANGED <<inscritos, eventos, zona, hoy, respuesta, peticion>>

nuevo_recurso_meet(f, d) ==
    /\ Contar("nueva")
    /\ f \in Reuniones /\ fecha[f] = Borrada /\ \A e \in eventos : e.fuente # f
    /\ \A p \in Peticiones : \A x \in peticion[p].leidas : x[1] # f   \* its id is new
    /\ fecha' = [fecha EXCEPT ![f] = d]
    /\ UNCHANGED <<inscritos, eventos, zona, hoy, hilos, respuesta, peticion>>

eliminar_recurso(f) ==
    /\ Contar("eliminar")
    /\ f \in Reuniones /\ fecha[f] # Borrada
    /\ fecha' = [fecha EXCEPT ![f] = Borrada]
    /\ eventos' = {e \in eventos : e.fuente # f}
    /\ UNCHANGED <<inscritos, zona, hoy, hilos, respuesta, peticion>>

\* An evaluation is disabled by a deadline in the past, and enabled without one.
toggle_evaluation_status(f) ==
    /\ Contar("alternar")
    /\ f \in Evaluaciones /\ hoy > 0
    /\ fecha' = [fecha EXCEPT ![f] = IF @ = Nada THEN hoy - 1 ELSE Nada]
    /\ hilos' = hilos \cup {f}
    /\ UNCHANGED <<inscritos, eventos, zona, hoy, respuesta, peticion>>

\* current_app is bound to the request, and a new thread has none.
ContextoEnElHilo == FALSE

\* update_meet_resource_events, update_evaluation_events: the error of a thread
\* without context is logged, and so is an event that would lose its date.
_update_in_background(f) ==
    /\ f \in hilos
    /\ hilos' = hilos \ {f}
    /\ eventos' = IF ContextoEnElHilo /\ fecha[f] \in Dias
                  THEN {IF e.fuente = f THEN [e EXCEPT !.inicio = fecha[f]] ELSE e : e \in eventos}
                  ELSE eventos
    /\ UNCHANGED <<fecha, inscritos, zona, hoy, respuesta, peticion, operaciones>>

----------------------------------------
Futuros(u) == {e \in eventos : e.usuario = u /\ e.inicio >= hoy}

\* Mutation: the last ones instead of the next.
UltimosPrimero(u, S) == \A e \in S, o \in Futuros(u) \ S : e.inicio >= o.inicio

EnOrden(u, S) == \A e \in S, o \in Futuros(u) \ S : e.inicio <= o.inicio

get_upcoming_events_for_user(u) ==
    {S \in SUBSET Futuros(u) : /\ Cardinality(S) = IF Cardinality(Futuros(u)) < Limite
                                                   THEN Cardinality(Futuros(u)) ELSE Limite
                               /\ EnOrden(u, S)}

\* The dashboards and /user/calendar/upcoming.
VerProximos(u) ==
    /\ "ver" \in Acciones
    /\ \E S \in get_upcoming_events_for_user(u) :
          respuesta' = [tipo |-> "panel", usuario |-> u, eventos |-> S]
    /\ UNCHANGED <<fecha, inscritos, eventos, zona, hoy, hilos, peticion, operaciones>>

\* _generate_ics_content: datetime is the class there, and has no timezone.utc;
\* an unknown zone is passed over before that.
SeConvierte(e) == e.zona \in {"UTC", "desconocida"}

export_ics(u) ==
    /\ "exportar" \in Acciones
    /\ respuesta' = IF \A e \in Futuros(u) : SeConvierte(e)
                    THEN [tipo |-> "ics", usuario |-> u, eventos |-> Futuros(u)]
                    ELSE [tipo |-> "error", usuario |-> u, eventos |-> {}]
    /\ UNCHANGED <<fecha, inscritos, eventos, zona, hoy, hilos, peticion, operaciones>>

Configurar(z) ==
    /\ Contar("zona")
    /\ z \in Zonas \ {zona}
    /\ zona' = z
    /\ UNCHANGED <<fecha, inscritos, eventos, hoy, hilos, respuesta, peticion>>

PasarElDia ==
    /\ hoy < MaxDia
    /\ hoy' = hoy + 1
    /\ UNCHANGED <<fecha, inscritos, eventos, zona, hilos, respuesta, peticion, operaciones>>

----------------------------------------
Init ==
    /\ fecha \in {h \in [Fuentes -> Dias \cup {Nada, Borrada}] : \A f \in Evaluaciones : h[f] = Nada}
    /\ inscritos = {} /\ eventos = {} /\ zona = "UTC" /\ hoy = 1 /\ hilos = {}
    /\ respuesta = SinRespuesta
    /\ peticion = [p \in Peticiones |-> Libre] /\ operaciones = 0

Next ==
    \/ \E p \in Peticiones, u \in Usuarios : Inscribir(p, u)
    \/ \E p \in Peticiones : Registrar(p) \/ Leer(p) \/ Comprobar(p) \/ Confirmar(p)
    \/ \E u \in Usuarios : Desinscribir(u) \/ VerProximos(u) \/ export_ics(u)
    \/ \E f \in Fuentes, d \in Dias \cup {Nada} : editar_recurso_meet(f, d) \/ nuevo_recurso_meet(f, d)
    \/ \E f \in Fuentes : eliminar_recurso(f) \/ toggle_evaluation_status(f) \/ _update_in_background(f)
    \/ \E z \in Zonas : Configurar(z)
    \/ PasarElDia

Spec == Init /\ [][Next]_vars

----------------------------------------
EnReposo == hilos = {} /\ \A p \in Peticiones : peticion[p].pc \in {"idle", "hecho", "error"}

\* A member has at most one event for a meeting or a deadline: a second
\* enrollment finds those of the first (calendar_utils.py 62, 86).
OneEventPerDate == \A u \in Usuarios, f \in Fuentes : Cardinality(DeFuente(u, f)) <= 1

\* An enrollment on the site that is served leaves the member an event for
\* every meeting with a date and every evaluation with a deadline that the
\* course had, also when an earlier enrollment had left some.
ServedHaveEvents ==
    \A p \in Peticiones :
        (peticion[p].pc \in {"hecho", "error"} /\ peticion[p].via = "sitio") =>
            \A f \in Fuentes : (fecha[f] \in Dias /\ \E d \in Dias : <<f, d>> \in peticion[p].leidas) =>
                DeFuente(peticion[p].usuario, f) # {}

\* The panel of upcoming events shows the member's next one: nothing sooner is
\* left out by the limit.
PanelShowsTheNext ==
    (respuesta' # respuesta /\ respuesta'.tipo = "panel") =>
          \A e \in eventos : (e.usuario = respuesta'.usuario /\ e.inicio >= hoy) =>
              \E s \in respuesta'.eventos : s.inicio <= e.inicio

----------------------------------------
(* What the pages, the comments and the guides say, and the code does not keep:  *)
(* TLC finds a counterexample to each of the following.                          *)

\* The same, said of the course: at rest, whoever was enrolled by a request
\* has the events of the dates that no later request changed.
EnrolledHaveEvents ==
    EnReposo => \A u \in inscritos, f \in Reuniones : fecha[f] \in Dias => DeFuente(u, f) # {}

\* When the meeting is moved, the events follow it once the thread has run.
CalendarFollowsTheMeeting ==
    EnReposo => \A e \in eventos : fecha[e.fuente] \in Dias => e.inicio = fecha[e.fuente]

\* Whoever is no longer enrolled has no events of the course.
RemovedLoseEvents == EnReposo => \A e \in eventos : e.usuario \in inscritos

\* A calendar can always be exported.
ExportAnswers == respuesta.tipo # "error"
===============================================================================
