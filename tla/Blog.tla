--------------------------------- MODULE Blog ---------------------------------
(***************************************************************************)
(* The blog (vistas/blog.py): posts with a slug and a status, comments     *)
(* whose number is kept in the post, the counter of views, tags, and the   *)
(* pages that are kept in the cache for a minute. A request reads in one   *)
(* step and commits the columns that it changed in another.                *)
(***************************************************************************)
EXTENDS Naturals, FiniteSets

CONSTANTS
    Administradores, Autores, Lectores,
    Entradas, Comentarios, \* ids of posts and of comments
    Titulos, Etiquetas,
    Peticiones,
    Acciones,              \* what the requests of an instance do
    MaxOperaciones,        \* bound: requests
    Nada

Estados == {"draft", "pending", "published", "banned"}
Slugs == Titulos \X (0 .. Cardinality(Entradas))

VARIABLES
    entradas,      \* BlogPost rows
    comentarios,   \* BlogComment rows
    etiquetas,     \* the tags that exist
    paginas,       \* cached pages of posts, by slug and by who reads
    indices,       \* cached lists of posts, by tag, Nada for the unfiltered one
    vistas,        \* how often a view of a post was counted
    quitados,      \* posts that an administrator banned and no administrator has restored
    pedidas,       \* the tags that the last form of a post asked for
    peticion, operaciones

vars == <<entradas, comentarios, etiquetas, paginas, indices, vistas, quitados, pedidas, peticion, operaciones>>
filas == <<entradas, comentarios, etiquetas, vistas, quitados, pedidas>>
cache == <<paginas, indices>>

----------------------------------------
Entrada == [slug: Slugs, title: Titulos, author_id: Autores \cup Administradores, status: Estados,
            comment_count: 0 .. Cardinality(Comentarios), view_count: 0 .. MaxOperaciones, tags: SUBSET Etiquetas]
Comentario == [post_id: Entradas, status: {"visible", "flagged", "banned"}]

\* What an instance assumes of its constants; the null value is no row.
BlogAssumption ==
    /\ MaxOperaciones \in Nat /\ Administradores \cap Autores = {}
    /\ IsFiniteSet(Entradas) /\ IsFiniteSet(Comentarios)
    /\ Nada \notin Entrada \cup Comentario

Libre == [pc |-> "idle", usuario |-> Nada, entrada |-> Nada, comentario |-> <<Nada, Nada>>, leido |-> Nada, escrito |-> Nada, etiquetas |-> {}]

Existentes == {e \in Entradas : entradas[e] # Nada}
Visibles(e) == {c \in Comentarios : comentarios[c] # Nada /\ comentarios[c].post_id = e /\ comentarios[c].status = "visible"}

TypeOK ==
    /\ entradas \in [Entradas -> Entrada \cup {Nada}] /\ comentarios \in [Comentarios -> Comentario \cup {Nada}]
    /\ operaciones <= MaxOperaciones
    \* slug is unique, and tags are rows
    /\ \A e, f \in Existentes : entradas[e].slug = entradas[f].slug => e = f
    /\ \A e \in Existentes : entradas[e].tags \subseteq etiquetas
    /\ \A c \in Comentarios : comentarios[c] # Nada => comentarios[c].post_id \in Existentes

Empezar(r, accion) ==
    /\ peticion[r].pc = "idle" /\ accion \in Acciones
    /\ operaciones < MaxOperaciones /\ operaciones' = operaciones + 1

Seguir(r, q) == peticion' = [peticion EXCEPT ![r] = q]
Terminar(r) == Seguir(r, Libre) /\ UNCHANGED operaciones

----------------------------------------
(* Posts *)

Tomado(t, e, n) == \E f \in Existentes \ {e} : entradas[f].slug = <<t, n>>

\* ensure_unique_slug: the first number that no other post has.
ensure_unique_slug(t, e) ==
    <<t, CHOOSE n \in 0 .. Cardinality(Entradas) : ~Tomado(t, e, n) /\ \A k \in 0 .. n - 1 : Tomado(t, e, k)>>

\* _process_post_tags: only an administrator's form creates the tags it names.
Asignadas(u, pide) == IF u \in Administradores THEN pide ELSE pide \cap etiquetas

\* admin_create_post; what the form says of the status is overwritten.
admin_create_post(r, u) ==
    /\ Empezar(r, "crear")
    /\ \E e \in Entradas \ Existentes, t \in Titulos, pide \in SUBSET Etiquetas :
          /\ \A k \in Peticiones : peticion[k].entrada # e
          /\ Seguir(r, [Libre EXCEPT !.pc = "crear", !.usuario = u, !.entrada = e, !.etiquetas = pide, !.escrito =
                [slug |-> ensure_unique_slug(t, e), title |-> t, author_id |-> u, comment_count |-> 0, view_count |-> 0,
                 status |-> IF u \in Administradores THEN "published" ELSE "pending", tags |-> {}]])
    /\ UNCHANGED <<filas, cache>>

SlugLibre(e, s) == \A f \in Existentes \ {e} : entradas[f].slug # s

\* A slug that was taken meanwhile fails the commit.
CrearEntrada(r) ==
    LET p == peticion[r] IN
    /\ p.pc = "crear"
    /\ IF SlugLibre(p.entrada, p.escrito.slug)
       THEN /\ entradas' = [entradas EXCEPT ![p.entrada] = [p.escrito EXCEPT !.tags = Asignadas(p.usuario, p.etiquetas)]]
            /\ etiquetas' = etiquetas \cup Asignadas(p.usuario, p.etiquetas)
            /\ pedidas' = [pedidas EXCEPT ![p.entrada] = Asignadas(p.usuario, p.etiquetas)]
            /\ UNCHANGED <<comentarios, vistas, quitados>>
       ELSE UNCHANGED filas
    /\ Terminar(r)
    /\ UNCHANGED cache

\* _handle_status_change
NuevoEstado(u, antes, pide) ==
    IF u \in Administradores \/ (pide = "pending" /\ antes = "draft") THEN pide ELSE antes

\* admin_edit_post puts the tags of the post into the form before it reads the form.
admin_edit_post(r, u, e) ==
    /\ e \in Existentes /\ (u \in Administradores \/ entradas[e].author_id = u)
    /\ Empezar(r, "editar")
    /\ \E t \in Titulos, s \in Estados, pide \in SUBSET etiquetas :
          Seguir(r, [Libre EXCEPT !.pc = "editar", !.usuario = u, !.entrada = e, !.leido = entradas[e], !.etiquetas = pide,
             !.escrito = [entradas[e] EXCEPT !.title = t, !.slug = ensure_unique_slug(t, e), !.status = NuevoEstado(u, @, s)]])
    /\ UNCHANGED <<filas, cache>>

Distintos(leido, escrito, fila) ==
    [c \in DOMAIN fila |-> IF escrito[c] # leido[c] THEN escrito[c] ELSE fila[c]]

\* cache.delete of the key of a post's page: the pages are kept under keys that also say who reads.
SinLaPagina(s) == paginas
SinElIndice == [indices EXCEPT ![Nada] = Nada]

EditarEntrada(r) ==
    LET p == peticion[r] IN
    /\ p.pc = "editar"
    /\ IF SlugLibre(p.entrada, p.escrito.slug)
       THEN /\ entradas' = [entradas EXCEPT ![p.entrada] = Distintos(p.leido, p.escrito, @)]
            /\ pedidas' = [pedidas EXCEPT ![p.entrada] = p.etiquetas]
            /\ quitados' = IF p.usuario \in Administradores /\ p.escrito.status # p.leido.status
                           THEN quitados \ {p.entrada} ELSE quitados
            /\ paginas' = SinLaPagina(p.escrito.slug) /\ indices' = SinElIndice
            /\ UNCHANGED <<comentarios, etiquetas, vistas>>
       ELSE UNCHANGED <<filas, cache>>
    /\ Terminar(r)

approve_post(r, e) ==
    /\ e \in Existentes
    /\ Empezar(r, "aprobar")
    /\ entradas' = [entradas EXCEPT ![e].status = "published"]
    /\ quitados' = quitados \ {e}
    /\ paginas' = SinLaPagina(entradas[e].slug) /\ indices' = SinElIndice
    /\ UNCHANGED <<comentarios, etiquetas, vistas, pedidas, peticion>>

SinIndiceDe(e) == indices' = SinElIndice

ban_post(r, e) ==
    /\ e \in Existentes
    /\ Empezar(r, "banear")
    /\ entradas' = [entradas EXCEPT ![e].status = "banned"]
    /\ quitados' = quitados \cup {e}
    /\ paginas' = SinLaPagina(entradas[e].slug) /\ SinIndiceDe(e)
    /\ UNCHANGED <<comentarios, etiquetas, vistas, pedidas, peticion>>

----------------------------------------
(* Counters *)

count_view(r, e) ==
    /\ e \in Existentes /\ entradas[e].status = "published"
    /\ Empezar(r, "ver")
    /\ Seguir(r, [Libre EXCEPT !.pc = "vista", !.entrada = e, !.leido = entradas[e],
          !.escrito = [entradas[e] EXCEPT !.view_count = @ + 1]])
    /\ UNCHANGED <<filas, cache>>

ContarVista(r) ==
    LET p == peticion[r] IN
    /\ p.pc = "vista"
    /\ entradas' = [entradas EXCEPT ![p.entrada] = Distintos(p.leido, p.escrito, @)]
    /\ vistas' = [vistas EXCEPT ![p.entrada] = @ + 1]
    /\ Terminar(r)
    /\ UNCHANGED <<comentarios, etiquetas, quitados, pedidas, cache>>

\* A comment that was flushed is locked to the end of its transaction.
Tocado(c) == \E k \in Peticiones : peticion[k].comentario[1] = c

\* The three requests that change a comment and count anew. The change is flushed before the count,
\* which sees it and what others have committed.
Recontar(r, e, c, n) ==
    Seguir(r, [Libre EXCEPT !.pc = "contar", !.entrada = e, !.leido = entradas[e], !.comentario = c,
       !.escrito = [entradas[e] EXCEPT !.comment_count = n]])

add_comment(r, e) ==
    /\ e \in Existentes /\ entradas[e].status = "published"
    /\ Empezar(r, "comentar")
    /\ \E c \in Comentarios :
          /\ comentarios[c] = Nada /\ ~Tocado(c)
          /\ Recontar(r, e, <<c, [post_id |-> e, status |-> "visible"]>>, Cardinality(Visibles(e) \cup {c}))
    /\ UNCHANGED <<filas, cache>>

SinEse(c) == Cardinality(Visibles(comentarios[c].post_id) \ {c})

ban_comment(r, u, c) ==
    /\ comentarios[c] # Nada /\ ~Tocado(c)
    /\ Empezar(r, "banear_comentario")
    /\ Recontar(r, comentarios[c].post_id, <<c, [comentarios[c] EXCEPT !.status = "banned"]>>, SinEse(c))
    /\ UNCHANGED <<filas, cache>>

delete_comment(r, u, c) ==
    /\ comentarios[c] # Nada /\ ~Tocado(c)
    /\ Empezar(r, "borrar_comentario")
    /\ Recontar(r, comentarios[c].post_id, <<c, Nada>>, SinEse(c))
    /\ UNCHANGED <<filas, cache>>

\* The commit of the three.
GuardarCuenta(r) ==
    LET p == peticion[r] IN
    /\ p.pc = "contar"
    /\ comentarios' = [comentarios EXCEPT ![p.comentario[1]] = p.comentario[2]]
    /\ entradas' = [entradas EXCEPT ![p.entrada] = Distintos(p.leido, p.escrito, @)]
    /\ paginas' = SinLaPagina(entradas[p.entrada].slug)
    /\ Terminar(r)
    /\ UNCHANGED <<etiquetas, vistas, quitados, pedidas, indices>>

\* flag_comment, by any member: the status, and no count.
flag_comment(r, c) ==
    /\ comentarios[c] # Nada /\ ~Tocado(c)
    /\ Empezar(r, "marcar")
    /\ comentarios' = [comentarios EXCEPT ![c].status = "flagged"]
    /\ paginas' = SinLaPagina(entradas[comentarios[c].post_id].slug)
    /\ UNCHANGED <<entradas, etiquetas, vistas, quitados, pedidas, indices, peticion>>

----------------------------------------
(* Tags *)

create_tag(r, t) ==
    /\ Empezar(r, "etiquetar")
    /\ t \notin etiquetas
    /\ etiquetas' = etiquetas \cup {t}
    /\ UNCHANGED <<entradas, comentarios, vistas, quitados, pedidas, cache, peticion>>

SinEtiqueta(t) ==
    [e \in Entradas |-> IF entradas[e] = Nada THEN Nada ELSE [entradas[e] EXCEPT !.tags = @ \ {t}]]

delete_tag(r, t) ==
    /\ Empezar(r, "desetiquetar")
    /\ t \in etiquetas
    /\ etiquetas' = etiquetas \ {t}
    /\ entradas' = SinEtiqueta(t)
    /\ pedidas' = [e \in Entradas |-> pedidas[e] \ {t}]
    /\ UNCHANGED <<comentarios, vistas, quitados, cache, peticion>>

----------------------------------------
(* Pages. A page is drawn from what is read, and kept when it is drawn. *)

Publicada(e, s) == entradas[e].slug = s /\ entradas[e].status = "published"

blog_post(r, u, s) ==
    /\ Empezar(r, "leer")
    /\ paginas[s][u] = Nada
    /\ \E e \in Existentes : /\ Publicada(e, s)
                             /\ Seguir(r, [Libre EXCEPT !.pc = "pagina", !.usuario = u, !.entrada = e, !.escrito = s])
    /\ UNCHANGED <<filas, cache>>

GuardarPagina(r) ==
    LET p == peticion[r] IN
    /\ p.pc = "pagina"
    /\ paginas' = [paginas EXCEPT ![p.escrito][p.usuario] = p.entrada]
    /\ Terminar(r)
    /\ UNCHANGED <<filas, indices>>

Listadas(t) == {e \in Existentes : entradas[e].status = "published" /\ (t \in etiquetas => t \in entradas[e].tags)}

blog_index(r, t) ==
    /\ Empezar(r, "listar")
    /\ indices[t] = Nada
    /\ Seguir(r, [Libre EXCEPT !.pc = "indice", !.leido = t, !.escrito = Listadas(t)])
    /\ UNCHANGED <<filas, cache>>

GuardarIndice(r) ==
    LET p == peticion[r] IN
    /\ p.pc = "indice"
    /\ indices' = [indices EXCEPT ![p.leido] = p.escrito]
    /\ Terminar(r)
    /\ UNCHANGED <<filas, paginas>>

\* The 60 seconds of a page are over.
CaducarPagina(s, u) ==
    /\ paginas[s][u] # Nada
    /\ paginas' = [paginas EXCEPT ![s][u] = Nada]
    /\ UNCHANGED <<filas, indices, peticion, operaciones>>

CaducarIndice(t) ==
    /\ indices[t] # Nada
    /\ indices' = [indices EXCEPT ![t] = Nada]
    /\ UNCHANGED <<filas, paginas, peticion, operaciones>>

----------------------------------------
Init ==
    /\ entradas = [e \in Entradas |-> Nada] /\ comentarios = [c \in Comentarios |-> Nada] /\ etiquetas = {}
    /\ paginas = [s \in Slugs |-> [u \in Lectores |-> Nada]] /\ indices = [t \in Etiquetas \cup {Nada} |-> Nada]
    /\ vistas = [e \in Entradas |-> 0] /\ quitados = {} /\ pedidas = [e \in Entradas |-> {}]
    /\ operaciones = 0 /\ peticion = [r \in Peticiones |-> Libre]

Terminos(r) ==
    CrearEntrada(r) \/ EditarEntrada(r) \/ ContarVista(r) \/ GuardarCuenta(r) \/ GuardarPagina(r) \/ GuardarIndice(r)

Next ==
    \/ \E r \in Peticiones :
          \/ Terminos(r)
          \/ \E u \in Autores \cup Administradores :
                \/ admin_create_post(r, u)
                \/ \E e \in Entradas : admin_edit_post(r, u, e)
          \/ \E e \in Entradas : approve_post(r, e) \/ ban_post(r, e) \/ count_view(r, e) \/ add_comment(r, e)
          \/ \E u \in Administradores, c \in Comentarios : ban_comment(r, u, c) \/ delete_comment(r, u, c)
          \/ \E c \in Comentarios : flag_comment(r, c)
          \/ \E t \in Etiquetas : create_tag(r, t) \/ delete_tag(r, t)
          \/ \E u \in Lectores, s \in Slugs : blog_post(r, u, s)
          \/ \E t \in Etiquetas \cup {Nada} : blog_index(r, t)
    \/ \E u \in Lectores, s \in Slugs : CaducarPagina(s, u)
    \/ \E t \in Etiquetas \cup {Nada} : CaducarIndice(t)

Spec == Init /\ [][Next]_vars

----------------------------------------
(* Properties *)

EnReposo == \A r \in Peticiones : peticion[r].pc = "idle"

\* The number of comments of a post is that of the comments it shows (add_comment, ban_comment, delete_comment).
CountIsVisible == EnReposo => \A e \in Existentes : entradas[e].comment_count = Cardinality(Visibles(e))

\* A banned post does not come back but through an administrator (ban_post against _handle_status_change).
OnlyAdminsRestore == \A e \in quitados : entradas[e].status = "banned"

\* The unfiltered list in the cache holds no banned post (ban_post deletes it).
IndexHasNoBanned ==
    (EnReposo /\ indices[Nada] # Nada) => \A e \in indices[Nada] : entradas[e].status # "banned"

Retirada(e) == e \in Existentes /\ entradas[e].status = "banned"
EnCache(e) == \/ \E s \in Slugs, u \in Lectores : paginas[s][u] = e
              \/ \E t \in DOMAIN indices : indices[t] # Nada /\ e \in indices[t]

----------------------------------------
(* What the pages, the comments and the guides say, and the code does not keep:  *)
(* TLC finds a counterexample to each of the following.                          *)

\* Every view that was answered is counted (count_view).
ViewsCounted == \A e \in Existentes : entradas[e].view_count = vistas[e]

\* Nor does any page of a post, or any list, in the cache (ban_post deletes "the blog index and the post itself").
BannedIsNotServed ==
    EnReposo => /\ \A s \in Slugs, u \in Lectores : paginas[s][u] # Nada => entradas[paginas[s][u]].status # "banned"
                /\ \A t \in DOMAIN indices : indices[t] # Nada => \A e \in indices[t] : entradas[e].status # "banned"

\* The tags of a post are those of the last form that was saved (_process_post_tags).
TagsFollowTheForm == EnReposo => \A e \in Existentes : entradas[e].tags = pedidas[e]
=============================================================================
