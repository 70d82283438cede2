----------------------------- MODULE CommunityHub -----------------------------
(***************************************************************************)
(* The Community Hub (vistas/comunidad.py): posts of the members, replies, *)
(* likes, reports, and what the staff does about them.  A request reads    *)
(* the post, checks it, and writes later, and only the columns in which it *)
(* differs from what was read.  Every report and every action of the staff *)
(* leaves an event.  The limits on how often a member may act are left     *)
(* out: a request is one that they let through.                            *)
(***************************************************************************)
EXTENDS Naturals, Sequences, FiniteSets

CONSTANTS
    Miembros, Personal,   \* users by their role
    Administradores,      \* of the staff
    Posts, Respuestas,    \* root posts and replies that can be written
    Peticiones,
    Acciones,             \* what the requests of an instance do
    MINIMO_MIEMBROS, PESO_RESPUESTA, PESO_LIKE,
    MaxOperaciones, MaxCaidas,   \* bounds: requests, and requests that die
    Nada

Usuarios == Miembros \cup Personal

VARIABLES
    post,         \* ComunidadPublicacion rows without parent
    respuesta,    \* ComunidadPublicacion rows with one
    likes,        \* ComunidadReaccion rows, <<post, user>>
    traza,        \* ComunidadEventoModeracion rows of each post, by time
    activos,      \* users that are active
    peticion, operaciones, caidas

vars == <<post, respuesta, likes, traza, activos, peticion, operaciones, caidas>>

----------------------------------------
Post == [autor: Usuarios, estado_moderacion: {"visible", "oculto"}, estado: {"abierto", "cerrado"},
         fijado: BOOLEAN, reportes_abiertos: 0 .. MaxOperaciones]

Respuesta == [raiz: Posts, autor: Usuarios]

\* What an instance assumes of its constants; the null value is no row.
HubAssumption ==
    /\ Miembros \cap Personal = {} /\ Administradores \subseteq Personal
    /\ Posts \cap Respuestas = {}
    /\ Nada \notin Usuarios \cup Posts \cup Respuestas
    /\ PESO_RESPUESTA \in Nat /\ PESO_LIKE \in Nat /\ MINIMO_MIEMBROS \in Nat
    /\ MaxOperaciones \in Nat /\ MaxCaidas \in Nat
    /\ Nada \notin Post \cup Respuesta

Eventos == {"report", "hide", "restore", "lock", "unlock", "pin", "unpin"}

\* antes: the post as it was read; despues: as the request leaves it.
Peticion == [pc: {"idle", "responder", "like", "escribir"}, usuario: Usuarios \cup {Nada},
             post: Posts \cup {Nada}, evento: Eventos \cup {Nada},
             antes: Post \cup {Nada}, despues: Post \cup {Nada}]

Libre == [pc |-> "idle", usuario |-> Nada, post |-> Nada, evento |-> Nada,
          antes |-> Nada, despues |-> Nada]

Publicado(p) == post[p] # Nada

TypeOK ==
    /\ post \in [Posts -> Post \cup {Nada}]
    /\ respuesta \in [Respuestas -> Respuesta \cup {Nada}]
    /\ likes \subseteq Posts \X Usuarios
    /\ \A p \in Posts : traza[p] \in Seq(Eventos)
    /\ activos \subseteq Usuarios
    /\ peticion \in [Peticiones -> Peticion]
    /\ operaciones <= MaxOperaciones /\ caidas <= MaxCaidas
    \* replies and likes are of a post; nobody likes their own
    /\ \A r \in Respuestas : respuesta[r] # Nada => Publicado(respuesta[r].raiz)
    /\ \A l \in likes : Publicado(l[1]) /\ post[l[1]].autor # l[2]

Pedir(r, accion) ==
    /\ peticion[r].pc = "idle"
    /\ accion \in Acciones
    /\ operaciones < MaxOperaciones
    /\ operaciones' = operaciones + 1
    /\ UNCHANGED <<post, respuesta, likes, traza, activos, caidas>>

Terminar(r) == /\ peticion' = [peticion EXCEPT ![r] = Libre]
               /\ UNCHANGED <<activos, operaciones, caidas>>

es_miembro(u) == u \in activos
es_staff(u) == u \in Personal

\* _cargar: a hidden post is there for the staff and for its author.
_cargar(u, p) ==
    /\ Publicado(p)
    /\ post[p].estado_moderacion = "visible" \/ es_staff(u) \/ post[p].autor = u

----------------------------------------
(* Members *)

nueva_publicacion(u, p) ==
    /\ "publicar" \in Acciones /\ operaciones < MaxOperaciones
    /\ es_miembro(u) /\ ~Publicado(p)
    /\ operaciones' = operaciones + 1
    /\ post' = [post EXCEPT ![p] =
          [autor |-> u, estado_moderacion |-> "visible", estado |-> "abierto",
           fijado |-> FALSE, reportes_abiertos |-> 0]]
    /\ UNCHANGED <<respuesta, likes, traza, activos, peticion, caidas>>

responder(r) ==
    /\ Pedir(r, "responder")
    /\ \E u \in Usuarios, p \in Posts :
          /\ es_miembro(u) /\ _cargar(u, p)
          /\ post[p].estado # "cerrado"
          /\ peticion' = [peticion EXCEPT ![r] =
                [Libre EXCEPT !.pc = "responder", !.usuario = u, !.post = p]]

GuardarRespuesta(r) ==
    /\ peticion[r].pc = "responder"
    /\ \E n \in Respuestas :
          /\ respuesta[n] = Nada
          /\ respuesta' = [respuesta EXCEPT ![n] =
                [raiz |-> peticion[r].post, autor |-> peticion[r].usuario]]
    /\ Terminar(r)
    /\ UNCHANGED <<post, likes, traza>>

\* Mutation: authors may like their own posts.
LeGusta(u, p) == TRUE

PuedeGustar(u, p) == post[p].autor # u

dar_like(r) ==
    /\ Pedir(r, "like")
    /\ \E u \in Usuarios, p \in Posts :
          /\ es_miembro(u) /\ _cargar(u, p)
          /\ PuedeGustar(u, p)
          /\ peticion' = [peticion EXCEPT ![r] =
                [Libre EXCEPT !.pc = "like", !.usuario = u, !.post = p]]

\* A second row is refused by the database, which is a success.
GuardarLike(r) ==
    /\ peticion[r].pc = "like"
    /\ likes' = likes \cup {<<peticion[r].post, peticion[r].usuario>>}
    /\ Terminar(r)
    /\ UNCHANGED <<post, respuesta, traza>>

quitar_like(u, p) ==
    /\ "like" \in Acciones /\ operaciones < MaxOperaciones
    /\ es_miembro(u)
    /\ <<p, u>> \in likes
    /\ operaciones' = operaciones + 1
    /\ likes' = likes \ {<<p, u>>}
    /\ UNCHANGED <<post, respuesta, traza, activos, peticion, caidas>>

----------------------------------------
(* Reports and moderation: the post and an event in one commit *)

Escribira(r, u, p, evento, despues) ==
    peticion' = [peticion EXCEPT ![r] =
        [pc |-> "escribir", usuario |-> u, post |-> p, evento |-> evento,
         antes |-> post[p], despues |-> despues]]

Reportado(p) == [post[p] EXCEPT !.reportes_abiertos = @ + 1]

reportar(r) ==
    /\ Pedir(r, "reportar")
    /\ \E u \in Usuarios, p \in Posts :
          /\ es_miembro(u) /\ _cargar(u, p)
          /\ Escribira(r, u, p, "report", Reportado(p))

ocultar(r) ==
    /\ Pedir(r, "ocultar")
    /\ \E u \in Personal, p \in Posts :
          /\ Publicado(p)
          /\ Escribira(r, u, p, "hide", [post[p] EXCEPT !.estado_moderacion = "oculto"])

Restaurado(p) == [post[p] EXCEPT !.estado_moderacion = "visible", !.reportes_abiertos = 0]

restaurar(r) ==
    /\ Pedir(r, "ocultar")
    /\ \E u \in Personal, p \in Posts :
          Publicado(p) /\ Escribira(r, u, p, "restore", Restaurado(p))

cerrar(r) ==
    /\ Pedir(r, "cerrar")
    /\ \E u \in Personal, p \in Posts :
          Publicado(p) /\ Escribira(r, u, p, "lock", [post[p] EXCEPT !.estado = "cerrado"])

abrir(r) ==
    /\ Pedir(r, "cerrar")
    /\ \E u \in Personal, p \in Posts :
          Publicado(p) /\ Escribira(r, u, p, "unlock", [post[p] EXCEPT !.estado = "abierto"])

EventoDeFijar(p) == IF post[p].fijado THEN "unpin" ELSE "pin"

fijar(r) ==
    /\ Pedir(r, "fijar")
    /\ \E u \in Administradores, p \in Posts :
          /\ Publicado(p)
          /\ Escribira(r, u, p, EventoDeFijar(p), [post[p] EXCEPT !.fijado = ~@])

Cambia(q, c) == q.despues[c] # q.antes[c]

Guardar(r) ==
    LET q == peticion[r] IN
    /\ q.pc = "escribir"
    /\ post' = [post EXCEPT ![q.post] =
          [c \in DOMAIN @ |-> IF Cambia(q, c) THEN q.despues[c] ELSE @[c]]]
    /\ traza' = [traza EXCEPT ![q.post] = Append(@, q.evento)]
    /\ Terminar(r)
    /\ UNCHANGED <<respuesta, likes>>

----------------------------------------
(* Trending *)

Responden(p) == {u \in activos \ {post[p].autor} :
                    \E r \in Respuestas : respuesta[r] # Nada
                        /\ respuesta[r].raiz = p /\ respuesta[r].autor = u}

Gustan(p) == {u \in activos \ {post[p].autor} : <<p, u>> \in likes}

Comprometidos(p) == Responden(p) \cup Gustan(p)

\* Every member counts once, and a reply for more than a like.
Bruto(p) == PESO_RESPUESTA * Cardinality(Responden(p))
            + PESO_LIKE * Cardinality(Gustan(p) \ Responden(p))

Destacado(p) ==
    /\ Publicado(p) /\ post[p].estado_moderacion = "visible" /\ ~post[p].fijado
    /\ post[p].autor \in activos
    /\ Cardinality(Comprometidos(p)) >= MINIMO_MIEMBROS

----------------------------------------
Desactivar ==
    /\ "desactivar" \in Acciones
    /\ \E u \in activos : activos' = activos \ {u}
    /\ UNCHANGED <<post, respuesta, likes, traza, peticion, operaciones, caidas>>

Caer(r) ==
    /\ peticion[r].pc # "idle"
    /\ caidas < MaxCaidas
    /\ caidas' = caidas + 1
    /\ peticion' = [peticion EXCEPT ![r] = Libre]
    /\ UNCHANGED <<post, respuesta, likes, traza, activos, operaciones>>

Init ==
    /\ post = [p \in Posts |-> Nada]
    /\ respuesta = [r \in Respuestas |-> Nada]
    /\ likes = {}
    /\ traza = [p \in Posts |-> <<>>]
    /\ activos = Usuarios
    /\ peticion = [r \in Peticiones |-> Libre]
    /\ operaciones = 0
    /\ caidas = 0

Next ==
    \/ \E u \in Usuarios, p \in Posts : nueva_publicacion(u, p) \/ quitar_like(u, p)
    \/ \E r \in Peticiones :
          \/ responder(r) \/ dar_like(r) \/ reportar(r)
          \/ ocultar(r) \/ restaurar(r) \/ cerrar(r) \/ abrir(r) \/ fijar(r)
          \/ GuardarRespuesta(r) \/ GuardarLike(r) \/ Guardar(r) \/ Caer(r)
    \/ Desactivar

Spec == Init /\ [][Next]_vars

----------------------------------------
(* Properties *)

\* The last event of these kinds is e.
Ultimo(p, e, tipos) ==
    \E i \in 1 .. Len(traza[p]) :
        /\ traza[p][i] = e
        /\ \A j \in i + 1 .. Len(traza[p]) : traza[p][j] \notin tipos

\* Through overlapping reports and decisions: a post with a report that came after
\* the last restore is in the queue of the staff (reportar, restaurar, staff).
ReportIsQueued ==
    \A p \in Posts :
        Ultimo(p, "report", {"report", "restore"}) => post[p].reportes_abiertos > 0

\* A reply by somebody who counts already, with an account in force, changes the
\* score of no post and makes none trend (calcular_trending).
SpamIsWorthless ==
    \A r \in Respuestas, p \in Posts :
          (/\ respuesta[r] = Nada /\ respuesta'[r] # Nada
           /\ respuesta'[r].raiz = p /\ respuesta'[r].autor \in Responden(p))
          => (Bruto(p)' = Bruto(p) /\ Destacado(p)' = Destacado(p))

\* One request at a time: the last events of a post say how it came to be as it is
\* (ComunidadEventoModeracion).
TrailExplains ==
    \A p \in Posts : Publicado(p) =>
        /\ post[p].estado_moderacion = "oculto" <=> Ultimo(p, "hide", {"hide", "restore"})
        /\ post[p].estado = "cerrado" <=> Ultimo(p, "lock", {"lock", "unlock"})
        /\ post[p].fijado <=> Ultimo(p, "pin", {"pin", "unpin"})

\* One request at a time: a post that is hidden gets nothing from the members but
\* its author, and one that is closed gets no reply (_cargar, responder).
HiddenGetsNothing ==
    \A r \in Respuestas :
          (respuesta[r] = Nada /\ respuesta'[r] # Nada) =>
              LET p == respuesta'[r].raiz
                  u == respuesta'[r].autor IN
              /\ post[p].estado = "abierto"
              /\ post[p].estado_moderacion = "visible" \/ es_staff(u) \/ post[p].autor = u
===============================================================================
