------------------------------ MODULE CustomPages -----------------------------
(***************************************************************************)
(* The custom pages of the site (vistas/custom_pages.py), the views that   *)
(* are cached for five minutes, and the command that brings the default    *)
(* pages to the language of the site (sincronizar_paginas_predeterminadas  *)
(* in db/initial_data.py).  A request reads its row, and commits the       *)
(* columns that it changes later.                                          *)
(***************************************************************************)
EXTENDS Naturals, FiniteSets

CONSTANTS
    Paginas,               \* ids
    Predeterminadas,       \* slugs of the default pages
    OtrosSlugs,
    Idiomas,               \* languages that Configuracion.lang may have
    IDIOMAS_PAGINAS_PREDETERMINADAS, IDIOMA_PREDETERMINADO,
    Propios,               \* texts written by administrators
    Peticiones, Visitas,
    Acciones,              \* what the requests of an instance do
    Descartes,             \* what comes of delete_memoized: it may fail
    MaxOperaciones,        \* bound: requests
    Nada

Slugs == Predeterminadas \cup OtrosSlugs

VARIABLES
    pagina,       \* CustomPage rows
    lang,         \* Configuracion.lang
    cache,        \* the cached answers of view_page by slug
    visita,       \* visitors that have read and not yet stored the answer
    peticion, operaciones

vars == <<pagina, lang, cache, visita, peticion, operaciones>>

----------------------------------------
\* The text of a default page, known by its language.
paginas_predeterminadas(l) == IF l \in IDIOMAS_PAGINAS_PREDETERMINADAS THEN l ELSE IDIOMA_PREDETERMINADO

Textos == Propios \cup IDIOMAS_PAGINAS_PREDETERMINADAS
Pagina == [slug: Slugs, texto: Textos, is_active: BOOLEAN]
Servidas == Textos \cup {"redirect"}

Existentes == {i \in Paginas : pagina[i] # Nada}
ConSlug(s) == {i \in Existentes : pagina[i].slug = s}

\* What an instance assumes of its constants; the null value is no row.
PagesAssumption ==
    /\ Predeterminadas \cap OtrosSlugs = {} /\ Nada \notin Paginas \cup Slugs \cup Idiomas \cup Propios
    /\ IDIOMA_PREDETERMINADO \in IDIOMAS_PAGINAS_PREDETERMINADAS
    /\ IDIOMAS_PAGINAS_PREDETERMINADAS \cap Propios = {}
    /\ Descartes \subseteq BOOLEAN /\ Descartes # {} /\ MaxOperaciones \in Nat
    /\ Nada \notin Pagina

\* leida: the row as it was read; escrita: as it is to be; hallada: what
\* the synchronisation read of each default page.
Peticion == [pc: {"idle", "escribir", "invalidar", "borrar", "sincronizar", "vaciar", "hecho"},
             hace: Acciones \cup {""}, id: Paginas \cup {Nada}, leida: Pagina \cup {Nada}, escrita: Pagina \cup {Nada},
             slugs: SUBSET Slugs, idioma: Idiomas \cup {Nada},
             hallada: [Predeterminadas -> Paginas \cup {Nada}],
             estado: [Predeterminadas -> {"faltante", "al-dia", "desactualizada", "personalizada"}]]

Libre == [pc |-> "idle", hace |-> "", id |-> Nada, leida |-> Nada, escrita |-> Nada, slugs |-> {}, idioma |-> Nada,
          hallada |-> [s \in Predeterminadas |-> Nada], estado |-> [s \in Predeterminadas |-> "faltante"]]

TypeOK ==
    /\ pagina \in [Paginas -> Pagina \cup {Nada}]
    /\ lang \in Idiomas
    /\ cache \in [Slugs -> Servidas \cup {Nada}]
    /\ visita \in [Visitas -> [slug: Slugs \cup {Nada}, respuesta: Servidas \cup {Nada}]]
    /\ peticion \in [Peticiones -> Peticion] /\ operaciones <= MaxOperaciones
    \* a slug is of one page
    /\ \A i, j \in Existentes : pagina[i].slug = pagina[j].slug => i = j

Empezar(p, accion) ==
    /\ peticion[p].pc \in {"idle", "hecho"}
    /\ accion \in Acciones
    /\ operaciones < MaxOperaciones
    /\ operaciones' = operaciones + 1
    /\ UNCHANGED <<pagina, lang, cache, visita>>

Seguir(p, hace, pc, cambios) == peticion' = [peticion EXCEPT ![p] = [cambios EXCEPT !.pc = pc, !.hace = hace]]

_validate_slug_unique(s, excepto) == ConSlug(s) \subseteq {excepto}

create_page(p) ==
    /\ Empezar(p, "crear")
    /\ \E i \in Paginas \ Existentes, s \in Slugs, t \in Propios, a \in BOOLEAN :
          /\ _validate_slug_unique(s, Nada)
          /\ Seguir(p, "crear", "escribir", [Libre EXCEPT !.id = i, !.slugs = {s},
                !.escrita = [slug |-> s, texto |-> t, is_active |-> a]])

edit_page(p) ==
    /\ Empezar(p, "editar")
    /\ \E i \in Existentes, s \in Slugs, t \in Propios, a \in BOOLEAN :
          /\ s # pagina[i].slug => _validate_slug_unique(s, i)
          /\ Seguir(p, "editar", "escribir", [Libre EXCEPT !.id = i, !.leida = pagina[i], !.slugs = {pagina[i].slug, s},
                !.escrita = [slug |-> s, texto |-> t, is_active |-> a]])

toggle_page(p) ==
    /\ Empezar(p, "alternar")
    /\ \E i \in Existentes :
          Seguir(p, "alternar", "escribir", [Libre EXCEPT !.id = i, !.leida = pagina[i], !.slugs = {pagina[i].slug},
                !.escrita = [pagina[i] EXCEPT !.is_active = ~@]])

\* The row of which only the columns that the request changed are written.
Escrita(p) ==
    LET q == peticion[p]
        n == [c \in {"slug", "texto", "is_active"} |->
                 IF q.leida # Nada /\ q.leida[c] = q.escrita[c] THEN pagina[q.id][c] ELSE q.escrita[c]]
    IN  [slug |-> n["slug"], texto |-> n["texto"], is_active |-> n["is_active"]]

SlugLibre(i, s) == \A j \in Existentes \ {i} : pagina[j].slug # s

\* The commit of a page; it fails when the row is gone or the slug is taken.
Escribir(p) ==
    /\ peticion[p].pc = "escribir"
    /\ LET q == peticion[p]
           i == q.id
           puede == IF q.leida = Nada THEN pagina[i] = Nada /\ SlugLibre(i, q.escrita.slug)
                    ELSE pagina[i] # Nada /\ SlugLibre(i, Escrita(p).slug)
       IN  /\ pagina' = IF puede THEN [pagina EXCEPT ![i] = IF q.leida = Nada THEN q.escrita ELSE Escrita(p)] ELSE pagina
           /\ peticion' = [peticion EXCEPT ![p].pc = IF puede THEN "invalidar" ELSE "hecho"]
    /\ UNCHANGED <<lang, cache, visita, operaciones>>

\* _invalidate_page_cache never raises, and drops the answer or does not.
Invalidar(p) ==
    /\ peticion[p].pc = "invalidar"
    /\ \E ok \in Descartes :
          cache' = IF ok THEN [s \in Slugs |-> IF s \in peticion[p].slugs THEN Nada ELSE cache[s]] ELSE cache
    /\ peticion' = [peticion EXCEPT ![p].pc = IF peticion[p].hace = "borrar" THEN "borrar" ELSE "hecho"]
    /\ UNCHANGED <<pagina, lang, visita, operaciones>>

\* delete_page invalidates first and deletes then.
delete_page(p) ==
    /\ Empezar(p, "borrar")
    /\ \E i \in Existentes :
          Seguir(p, "borrar", "invalidar", [Libre EXCEPT !.id = i, !.leida = pagina[i], !.slugs = {pagina[i].slug}])

Borrar(p) ==
    /\ peticion[p].pc = "borrar"
    /\ pagina' = [pagina EXCEPT ![peticion[p].id] = Nada]
    /\ peticion' = [peticion EXCEPT ![p].pc = "hecho"]
    /\ UNCHANGED <<lang, cache, visita, operaciones>>

----------------------------------------

Estado(t, l) == IF t = paginas_predeterminadas(l) THEN "al-dia"
                ELSE IF t \in IDIOMAS_PAGINAS_PREDETERMINADAS THEN "desactualizada" ELSE "personalizada"

\* lmsctl database sync-default-pages --apply: the report that is confirmed has
\* something to correct, and the pages are read again to correct it.
sincronizar_paginas_predeterminadas(p) ==
    /\ Empezar(p, "sincronizar")
    /\ LET hallada == [s \in Predeterminadas |->
                          IF ConSlug(s) = {} THEN Nada ELSE CHOOSE i \in Existentes : pagina[i].slug = s]
           estado == [s \in Predeterminadas |->
                          IF hallada[s] = Nada THEN "faltante" ELSE Estado(pagina[hallada[s]].texto, lang)]
       IN  /\ \E s \in Predeterminadas : estado[s] \in {"faltante", "desactualizada"}
           /\ Seguir(p, "sincronizar", "sincronizar", [Libre EXCEPT !.idioma = lang, !.hallada = hallada, !.estado = estado])

\* Mutation: the row is left as it was read.
SinCorregir(i, t) == pagina[i]

Corregida(i, t) == [pagina[i] EXCEPT !.texto = t]

\* The rows that the commit inserts and updates.
Sincronizar(p) ==
    /\ peticion[p].pc = "sincronizar"
    /\ LET q == peticion[p]
           viejas == {s \in Predeterminadas : q.estado[s] = "desactualizada"}
           faltan == {s \in Predeterminadas : q.estado[s] = "faltante"}
           texto == paginas_predeterminadas(q.idioma)
           puede == /\ \A s \in viejas : pagina[q.hallada[s]] # Nada
                    /\ \A s \in faltan : ConSlug(s) = {}
       IN  /\ \E nueva \in {g \in [faltan -> Paginas \ Existentes] : \A s, t \in faltan : g[s] = g[t] => s = t} :
                 pagina' = IF ~puede THEN pagina
                           ELSE [i \in Paginas |->
                                   IF \E s \in viejas : q.hallada[s] = i THEN Corregida(i, texto)
                                   ELSE IF \E s \in faltan : nueva[s] = i
                                        THEN [slug |-> CHOOSE s \in faltan : nueva[s] = i, texto |-> texto, is_active |-> TRUE]
                                        ELSE pagina[i]]
           /\ peticion' = [peticion EXCEPT ![p].pc = IF puede THEN "vaciar" ELSE "hecho"]
    /\ UNCHANGED <<lang, cache, visita, operaciones>>

\* invalidate_all_cache
Vaciar(p) ==
    /\ peticion[p].pc = "vaciar"
    /\ cache' = [s \in Slugs |-> Nada]
    /\ peticion' = [peticion EXCEPT ![p].pc = "hecho"]
    /\ UNCHANGED <<pagina, lang, visita, operaciones>>

\* lmsctl settings lang_set, or the settings of the administrator.
CambiarIdioma(l) ==
    /\ "idioma" \in Acciones
    /\ operaciones < MaxOperaciones /\ operaciones' = operaciones + 1
    /\ l \in Idiomas \ {lang}
    /\ lang' = l
    /\ UNCHANGED <<pagina, cache, visita, peticion>>

----------------------------------------
Render(s) == IF \E i \in ConSlug(s) : pagina[i].is_active
             THEN pagina[CHOOSE i \in Existentes : pagina[i].slug = s].texto ELSE "redirect"

\* view_page, for a visitor that finds nothing in the cache.
view_page(v, s) ==
    /\ visita[v].slug = Nada /\ cache[s] = Nada
    /\ visita' = [visita EXCEPT ![v] = [slug |-> s, respuesta |-> Render(s)]]
    /\ UNCHANGED <<pagina, lang, cache, peticion, operaciones>>

Guardar(v) ==
    /\ visita[v].slug # Nada
    /\ cache' = [cache EXCEPT ![visita[v].slug] = visita[v].respuesta]
    /\ visita' = [visita EXCEPT ![v] = [slug |-> Nada, respuesta |-> Nada]]
    /\ UNCHANGED <<pagina, lang, peticion, operaciones>>

\* The timeout of 300 seconds.
Expirar(s) ==
    /\ cache[s] # Nada
    /\ cache' = [cache EXCEPT ![s] = Nada]
    /\ UNCHANGED <<pagina, lang, visita, peticion, operaciones>>

----------------------------------------
\* crear_paginas_estaticas_predeterminadas has made the default pages.
Init ==
    /\ lang \in Idiomas
    /\ \E i \in [Predeterminadas -> Paginas] :
          /\ \A s, t \in Predeterminadas : i[s] = i[t] => s = t
          /\ pagina = [x \in Paginas |->
                IF \E s \in Predeterminadas : i[s] = x
                THEN [slug |-> CHOOSE s \in Predeterminadas : i[s] = x, texto |-> paginas_predeterminadas(lang), is_active |-> TRUE]
                ELSE Nada]
    /\ cache = [s \in Slugs |-> Nada]
    /\ visita = [v \in Visitas |-> [slug |-> Nada, respuesta |-> Nada]]
    /\ peticion = [p \in Peticiones |-> Libre] /\ operaciones = 0

Next ==
    \/ \E p \in Peticiones : \/ create_page(p) \/ edit_page(p) \/ toggle_page(p) \/ delete_page(p)
                             \/ Escribir(p) \/ Invalidar(p) \/ Borrar(p)
                             \/ sincronizar_paginas_predeterminadas(p) \/ Sincronizar(p) \/ Vaciar(p)
    \/ \E l \in Idiomas : CambiarIdioma(l)
    \/ \E v \in Visitas, s \in Slugs : view_page(v, s)
    \/ \E v \in Visitas : Guardar(v)
    \/ \E s \in Slugs : Expirar(s)

Spec == Init /\ [][Next]_vars

----------------------------------------
\* The synchronisation leaves the texts of the administrators as they are
\* (initial_data.py 2301-2306).
EditedPagesAreKept ==
    (\E p \in Peticiones : Sincronizar(p)) =>
          \A i \in Existentes : pagina[i].texto \in Propios => pagina'[i] = pagina[i]

\* It never shows or moves a page that was hidden or moved, also when that
\* happens while it runs (initial_data.py 2364-2369).
HiddenStayHidden ==
    (\E p \in Peticiones : Sincronizar(p)) =>
          \A i \in Existentes : /\ pagina'[i].is_active = pagina[i].is_active
                                /\ pagina'[i].slug = pagina[i].slug

\* When it is done, every default page is there, in a language that is
\* shipped, which is that the site had if it can be, or in the administrators'
\* words.
SynchronisedAreCurrent ==
    \A p \in Peticiones : Sincronizar(p) =>
          \A s \in Predeterminadas : \E i \in Paginas :
              /\ pagina'[i] # Nada /\ pagina'[i].slug = s
              /\ \/ pagina'[i].texto \in Propios
                 \/ pagina'[i].texto = peticion[p].idioma
                 \/ /\ peticion[p].idioma \notin IDIOMAS_PAGINAS_PREDETERMINADAS
                    /\ pagina'[i].texto = IDIOMA_PREDETERMINADO

EnReposo == /\ \A p \in Peticiones : peticion[p].pc \in {"idle", "hecho"}
            /\ \A v \in Visitas : visita[v].slug = Nada

----------------------------------------
(* What the pages, the comments and the guides say, and the code does not keep:  *)
(* TLC finds a counterexample to each of the following.                          *)

\* A page that is not active is shown to nobody once the request is done.
InactiveAreNotShown ==
    EnReposo => \A s \in Slugs : cache[s] \in Textos => \E i \in ConSlug(s) : pagina[i].is_active

\* A page that was corrected is shown corrected.
CorrectedAreShown == EnReposo => \A s \in Predeterminadas : cache[s] \in {Nada, Render(s)}
===============================================================================
