--------------------------- MODULE CoursePageCache ---------------------------
(***************************************************************************)
(* The view cache (cache.py) and the course and catalog pages behind it.   *)
(* Workers share one cache.  A page is stored under its scope, the visitor *)
(* it was rendered for, its view and query, and the generation of the      *)
(* scope.  Editing a course starts a new generation of the course and of   *)
(* the catalog; enrolling deletes the member's keys.  A commit comes       *)
(* before its invalidation, and every call of the cache is a step.         *)
(***************************************************************************)
EXTENDS Naturals, FiniteSets, Functions

CONSTANTS
    Cursos,          \* codes of the courses
    Global,          \* the scope of the catalog and home pages
    Miembros,        \* members
    Anonimo,         \* every visitor who is not signed in
    Variantes,       \* view and query string under a scope
    SinConsulta,     \* the variants without a query string
    SinGeneracion,   \* what a key without the generation suffix has in its place
    SinPagina,       \* the page of a request that has none yet
    Lectores,        \* page requests in flight
    Escritores,      \* edits and enrollments in flight
    MaxVersiones,    \* bound: edits of a course
    MaxMatriculas,   \* bound: enrollment changes of a member in a course
    MaxPaginas,      \* bound: pages in the cache at one time
    MaxFallas,       \* bound: writers that stop and bumps the cache refuses
    MaxPerdidas      \* bound: generations evicted and caches cleared

VARIABLES
    version,      \* commits to a course's own rows
    matricula,    \* commits to a member's enrollment in a course
    invalidada,   \* history: last version of a course whose invalidation ended
    avisada,      \* history: the same for a member's enrollment
    generacion,   \* cache_gen:<scope>; an absent counter reads as zero
    paginas,      \* the cached pages, by key
    lector,       \* page requests
    escritor,     \* requests that commit and invalidate
    fallas,
    perdidas

filas == <<version, matricula>>
historia == <<invalidada, avisada>>
cache == <<generacion, paginas>>
limites == <<fallas, perdidas>>
vars == <<filas, historia, cache, lector, escritor, limites>>

Ambitos == Cursos \cup {Global}
Usuarios == Miembros \cup {Anonimo}

\* What a visitor asks for.
Peticion == [ambito: Ambitos, usuario: Usuarios, variante: Variantes]

Llave == [ambito: Ambitos, usuario: Usuarios, variante: Variantes,
          gen: Nat \cup {SinGeneracion}]

\* A rendered page: the request it answers and the commits it shows.
Pagina == [peticion: Peticion, version: [Cursos -> Nat], matricula: [Cursos -> Nat]]

ASSUME CacheAssumption ==
    /\ Global \notin Cursos
    /\ Anonimo \notin Miembros
    /\ SinConsulta \subseteq Variantes
    /\ SinGeneracion \notin Nat
    /\ SinPagina \notin Pagina
    /\ {MaxVersiones, MaxMatriculas, MaxPaginas, MaxFallas, MaxPerdidas} \subseteq Nat

\* Mutant of Actual: a view that renders without the enrollment.
SinMatricula(p) == [peticion |-> p, version |-> version]

\* A catalog lists every course; a course page shows one.
Muestra(ambito) == IF ambito = Global THEN Cursos ELSE {ambito}

\* The page as the rows of this moment would render it.
Actual(p) == [peticion |-> p, version |-> version, matricula |-> matricula[p.usuario]]

\* Less than this a request that starts now may not be shown.
Exigible(p) ==
    [peticion |-> p, version |-> invalidada, matricula |-> avisada[p.usuario]]

\* Mutant of cache_key_with_auth_state: cache_key_with_query_string in its place.
LlavePublica(p) ==
    [ambito |-> p.ambito, usuario |-> Anonimo, variante |-> p.variante,
     gen |-> generacion[p.ambito]]

cache_key_with_auth_state(p) ==
    [ambito |-> p.ambito, usuario |-> p.usuario, variante |-> p.variante,
     gen |-> generacion[p.ambito]]

\* The key as the invalidators rebuild it: without the generation.
llave_vista_por_usuario(p) ==
    [ambito |-> p.ambito, usuario |-> p.usuario, variante |-> p.variante,
     gen |-> SinGeneracion]

Borra(llaves) == paginas' = Restrict(paginas, DOMAIN paginas \ llaves)

(***************************************************************************)
(* A page request: cache.cached computes the key once, looks it up, and on *)
(* a miss renders the view and stores the result under the same key.       *)
(***************************************************************************)
Ocioso == [pc |-> "idle"]

LectorActivo ==
    [pc: {"get", "render"}, peticion: Peticion, llave: Llave, exigida: Pagina,
     pagina: {SinPagina}]
    \cup [pc: {"set", "servida"}, peticion: Peticion, llave: Llave,
          exigida: Pagina, pagina: Pagina]

Avanza(l, pc, pagina) ==
    /\ lector' = [lector EXCEPT ![l].pc = pc, ![l].pagina = pagina]
    /\ UNCHANGED <<filas, historia, escritor, limites>>

StartRequest(l, p) ==
    /\ lector[l] = Ocioso
    /\ lector' = [lector EXCEPT ![l] =
         [pc |-> "get", peticion |-> p, llave |-> cache_key_with_auth_state(p),
          exigida |-> Exigible(p), pagina |-> SinPagina]]
    /\ UNCHANGED <<filas, historia, cache, escritor, limites>>

Hit(l) ==
    /\ lector[l].pc = "get" /\ lector[l].llave \in DOMAIN paginas
    /\ Avanza(l, "servida", paginas[lector[l].llave])
    /\ UNCHANGED cache

Miss(l) ==
    /\ lector[l].pc = "get" /\ lector[l].llave \notin DOMAIN paginas
    /\ Avanza(l, "render", SinPagina)
    /\ UNCHANGED cache

\* tomar_curso, curso and the catalog: the queries and the template.
Render(l) ==
    /\ lector[l].pc = "render"
    /\ Avanza(l, "set", Actual(lector[l].peticion))
    /\ UNCHANGED cache

\* A full cache evicts: the page is as good as not stored.
StorePage(l) ==
    LET con == [k \in DOMAIN paginas \cup {lector[l].llave} |->
                  IF k = lector[l].llave THEN lector[l].pagina ELSE paginas[k]]
    IN
    /\ lector[l].pc = "set"
    /\ Avanza(l, "servida", lector[l].pagina)
    /\ paginas' = IF Cardinality(DOMAIN con) <= MaxPaginas THEN con ELSE paginas
    /\ UNCHANGED generacion

EndRequest(l) ==
    /\ lector[l].pc = "servida"
    /\ lector' = [lector EXCEPT ![l] = Ocioso]
    /\ UNCHANGED <<filas, historia, cache, escritor, limites>>

(***************************************************************************)
(* A request that writes: commit first, then invalidate.  A course edit    *)
(* ends in invalidar_cache_curso, a change of enrollment in                *)
(* invalidate_user_course_view_cache.                                      *)
(***************************************************************************)
EscritorActivo ==
    [pc: {"delete", "bump", "put", "roster"}, curso: Cursos, commit: Nat,
     ambito: Ambitos, leida: Nat, ok: BOOLEAN]
    \cup [pc: {"forget"}, curso: Cursos, commit: Nat, usuario: Miembros]

EditCourse(w, c) ==
    /\ escritor[w] = Ocioso
    /\ version[c] < MaxVersiones
    /\ version' = [version EXCEPT ![c] = @ + 1]
    /\ escritor' = [escritor EXCEPT ![w] =
         [pc |-> "delete", curso |-> c, commit |-> version[c] + 1,
          ambito |-> c, leida |-> 0, ok |-> TRUE]]
    /\ UNCHANGED <<matricula, historia, cache, lector, limites>>

\* The fixed keys of the course and of the catalog, for anonymous visitors.
DeleteKeys(w) ==
    LET c == escritor[w].curso
        anonimas == [ambito: {c, Global}, usuario: {Anonimo}, variante: SinConsulta]
    IN
    /\ escritor[w].pc = "delete"
    /\ Borra({llave_vista_por_usuario(p) : p \in anonimas})
    /\ escritor' = [escritor EXCEPT ![w].pc = "bump"]
    /\ UNCHANGED <<filas, historia, generacion, lector, limites>>

\* _generacion, the read of bump_generacion.
ReadGeneration(w) ==
    /\ escritor[w].pc = "bump"
    /\ escritor' = [escritor EXCEPT ![w].pc = "put",
                                    ![w].leida = generacion[escritor[w].ambito]]
    /\ UNCHANGED <<filas, historia, cache, lector, limites>>

\* Mutant of SiguienteBump: the catalog is not bumped.
SoloElCurso(e) == [e EXCEPT !.pc = "roster", !.leida = 0]

\* invalidar_cache_curso bumps the course and then the global scope.
SiguienteBump(e) ==
    IF e.ambito = Global THEN [e EXCEPT !.pc = "roster", !.leida = 0]
    ELSE [e EXCEPT !.pc = "bump", !.leida = 0, !.ambito = Global]

bump_generacion(w) ==
    /\ escritor[w].pc = "put"
    /\ generacion' = [generacion EXCEPT ![escritor[w].ambito] = escritor[w].leida + 1]
    /\ escritor' = [escritor EXCEPT ![w] = SiguienteBump(@)]
    /\ UNCHANGED <<filas, historia, paginas, lector, limites>>

\* The cache fails: bump_generacion logs it and the invalidation goes on.
BumpFails(w) ==
    /\ escritor[w].pc \in {"bump", "put"} /\ fallas < MaxFallas
    /\ fallas' = fallas + 1
    /\ escritor' = [escritor EXCEPT ![w] = SiguienteBump([@ EXCEPT !.ok = FALSE])]
    /\ UNCHANGED <<filas, historia, cache, lector, perdidas>>

Mayor(m, n) == IF m > n THEN m ELSE n

\* The keys of the members and teachers of the course; the invalidation ends.
DeleteRoster(w) ==
    LET e == escritor[w]
        suyas == [ambito: {e.curso, Global}, usuario: Miembros, variante: SinConsulta]
    IN
    /\ e.pc = "roster"
    /\ Borra({llave_vista_por_usuario(p) : p \in suyas})
    /\ escritor' = [escritor EXCEPT ![w] = Ocioso]
    /\ invalidada' = [invalidada EXCEPT ![e.curso] =
                        IF e.ok THEN Mayor(@, e.commit) ELSE @]
    /\ UNCHANGED <<filas, avisada, generacion, lector, limites>>

\* Any of the commits after which a member's enrollment is different.
ChangeEnrollment(w, u, c) ==
    /\ escritor[w] = Ocioso
    /\ matricula[u][c] < MaxMatriculas
    /\ matricula' = [matricula EXCEPT ![u][c] = @ + 1]
    /\ escritor' = [escritor EXCEPT ![w] =
         [pc |-> "forget", curso |-> c, commit |-> matricula[u][c] + 1, usuario |-> u]]
    /\ UNCHANGED <<version, historia, cache, lector, limites>>

invalidate_user_course_view_cache(w) ==
    LET e == escritor[w]
        suyas == [ambito: {e.curso}, usuario: {e.usuario}, variante: SinConsulta]
    IN
    /\ e.pc = "forget"
    /\ Borra({llave_vista_por_usuario(p) : p \in suyas})
    /\ escritor' = [escritor EXCEPT ![w] = Ocioso]
    /\ avisada' = [avisada EXCEPT ![e.usuario][e.curso] = Mayor(@, e.commit)]
    /\ UNCHANGED <<filas, invalidada, generacion, lector, limites>>

\* The worker dies, or a delete fails, and the rest is skipped.
WriterStops(w) ==
    /\ escritor[w] # Ocioso /\ fallas < MaxFallas
    /\ fallas' = fallas + 1
    /\ escritor' = [escritor EXCEPT ![w] = Ocioso]
    /\ UNCHANGED <<filas, historia, cache, lector, perdidas>>

(***************************************************************************)
(* The cache itself (external), and the theme change that clears it.       *)
(***************************************************************************)
\* Mutant of Expire: course pages are stored with timeout=0.
SinVencimiento(k) ==
    /\ k.ambito = Global
    /\ Borra({k})
    /\ UNCHANGED <<filas, historia, generacion, lector, escritor, limites>>

\* CACHE_DEFAULT_TIMEOUT passes, or the backend needs the room.
Expire(k) ==
    /\ Borra({k})
    /\ UNCHANGED <<filas, historia, generacion, lector, escritor, limites>>

ExpireAny == \E k \in DOMAIN paginas : Expire(k)

Pierde ==
    /\ perdidas < MaxPerdidas
    /\ perdidas' = perdidas + 1
    /\ UNCHANGED <<filas, historia, lector, escritor, fallas>>

EvictGeneration(a) ==
    /\ Pierde
    /\ generacion' = [generacion EXCEPT ![a] = 0]
    /\ UNCHANGED paginas

invalidate_all_cache ==
    /\ Pierde
    /\ generacion' = [a \in Ambitos |-> 0]
    /\ Borra(DOMAIN paginas)

(***************************************************************************)
(* The specification.                                                      *)
(***************************************************************************)
SinCambios == [c \in Cursos |-> 0]

Init ==
    /\ version = SinCambios /\ invalidada = SinCambios
    /\ matricula = [u \in Usuarios |-> SinCambios]
    /\ avisada = [u \in Usuarios |-> SinCambios]
    /\ generacion = [a \in Ambitos |-> 0]
    /\ paginas = Restrict(<<>>, {})
    /\ lector = [l \in Lectores |-> Ocioso]
    /\ escritor = [w \in Escritores |-> Ocioso]
    /\ fallas = 0 /\ perdidas = 0

Atiende(l) == Hit(l) \/ Miss(l) \/ Render(l) \/ StorePage(l) \/ EndRequest(l)

Escribe(w) ==
    \/ DeleteKeys(w) \/ ReadGeneration(w) \/ bump_generacion(w)
    \/ DeleteRoster(w) \/ invalidate_user_course_view_cache(w)

Next ==
    \/ \E l \in Lectores : Atiende(l) \/ \E p \in Peticion : StartRequest(l, p)
    \/ \E w \in Escritores : Escribe(w) \/ BumpFails(w) \/ WriterStops(w)
    \/ \E w \in Escritores, c \in Cursos :
          EditCourse(w, c) \/ \E u \in Miembros : ChangeEnrollment(w, u, c)
    \/ ExpireAny
    \/ \E a \in Ambitos : EvictGeneration(a)
    \/ invalidate_all_cache

Spec == Init /\ [][Next]_vars

\* A page that differs from what would be rendered now.
Rezagadas == {k \in DOMAIN paginas : paginas[k] # Actual(paginas[k].peticion)}

(***************************************************************************)
(* Properties.                                                             *)
(***************************************************************************)
\* The types of all variables.
TypeOK ==
    /\ version \in [Cursos -> Nat] /\ invalidada \in [Cursos -> Nat]
    /\ matricula \in [Usuarios -> [Cursos -> Nat]]
    /\ avisada \in [Usuarios -> [Cursos -> Nat]]
    /\ generacion \in [Ambitos -> Nat]
    /\ DOMAIN paginas \subseteq Llave
    /\ \A k \in DOMAIN paginas : paginas[k] \in Pagina
    /\ lector \in [Lectores -> {Ocioso} \cup LectorActivo]
    /\ escritor \in [Escritores -> {Ocioso} \cup EscritorActivo]
    /\ fallas \in 0..MaxFallas /\ perdidas \in 0..MaxPerdidas

Servida(l) == lector[l].pc = "servida"

\* No visitor is given a page rendered for another, nor for another view or
\* query (cache_key_with_auth_state), through every reuse of a stored page.
PageAnswersRequest ==
    \A l \in Lectores : Servida(l) => lector[l].pagina.peticion = lector[l].peticion

\* While the cache keeps its generations, a request that starts after an edit
\* was invalidated is not shown the course as it was before, on the course's
\* pages or in the catalog, whoever renders or stores an older page meanwhile
\* and whichever writer stops half way (bump_generacion).
CourseEditIsVisible ==
    perdidas = 0 =>
    \A l \in Lectores : Servida(l) =>
        \A c \in Muestra(lector[l].peticion.ambito) :
            lector[l].pagina.version[c] >= lector[l].exigida.version[c]

\* A member who enrolled, and loads the course after the response, is shown
\* the course as enrolled (invalidate_user_course_view_cache).
EnrollmentIsVisible ==
    \A l \in Lectores : Servida(l) =>
        \A c \in Cursos : lector[l].peticion.ambito = c =>
            lector[l].pagina.matricula[c] >= lector[l].exigida.matricula[c]

=============================================================================
