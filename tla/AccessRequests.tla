---------------------------- MODULE AccessRequests ----------------------------
(***************************************************************************)
(* The public form that asks for access (vistas/request_access.py): a      *)
(* limit of posts by address in a sliding window, kept in the process      *)
(* under a lock; a token with the time at which the form was given out; a  *)
(* row for each request that passes, and a receipt that is best effort.    *)
(* People fill the form, and bots fill a field that people do not see.     *)
(***************************************************************************)
EXTENDS Integers, Sequences, FiniteSets

CONSTANTS
    Personas, Bots, Direcciones, DireccionDe,
    RATE_LIMIT_POSTS, RATE_LIMIT_WINDOW, RATE_MAX_BUCKETS, RATE_SWEEP_INTERVAL,
    MIN_SUBMIT_SECONDS, MAX_TOKEN_AGE_SECONDS,
    MaxTiempo, MaxEnvios, MaxCaidas,   \* bounds: time, posts, requests that die
    Nada

Clientes == Personas \cup Bots

\* What an instance assumes of its constants.
AccessAssumption ==
    /\ Personas \cap Bots = {} /\ DireccionDe \in [Clientes -> Direcciones]
    /\ {RATE_LIMIT_POSTS, RATE_MAX_BUCKETS} \subseteq Nat \ {0}
    /\ {RATE_LIMIT_WINDOW, RATE_SWEEP_INTERVAL, MIN_SUBMIT_SECONDS, MAX_TOKEN_AGE_SECONDS,
        MaxTiempo, MaxEnvios, MaxCaidas} \subseteq Nat
    /\ IsFiniteSet(Direcciones) /\ Nada \notin Int \cup Seq(Int)

Tiempo == 0 .. MaxTiempo

VARIABLES
    ahora,
    cubos,        \* _RATE_BUCKETS: the times of an address, the first the oldest
    barrido,      \* _RATE_LAST_SWEEP
    olvidadas,    \* addresses whose bucket was evicted
    admitidos,    \* history: when posts of an address passed the limit, in order
    formulario,   \* the time of the token in the form on the screen of a client
    pagina,       \* what the last answer says
    peticion,     \* where the request of a client is
    filas,        \* ContactMessage rows of a client
    recibos, envios, caidas

limite == <<cubos, barrido, olvidadas, admitidos>>
vars == <<ahora, limite, formulario, pagina, peticion, filas, recibos, envios, caidas>>

----------------------------------------
TypeOK ==
    /\ ahora \in Tiempo
    /\ \A d \in Direcciones : cubos[d] = Nada \/ (Len(cubos[d]) <= RATE_LIMIT_POSTS /\ \A i \in DOMAIN cubos[d] : cubos[d][i] \in 0 .. ahora)
    /\ barrido \in 0 .. ahora /\ olvidadas \subseteq Direcciones
    /\ \A d \in Direcciones : admitidos[d] \in Seq(0 .. ahora) /\ Len(admitidos[d]) <= envios
    /\ formulario \in [Clientes -> Tiempo \cup {Nada}]
    /\ pagina \in [Clientes -> {"ninguna", "formulario", "demasiadas", "invalida", "vencida", "enviada"}]
    /\ peticion \in [Clientes -> {"idle", "guardar", "confirmar"}]
    /\ filas \in [Clientes -> 0 .. MaxEnvios] /\ recibos \in [Clientes -> 0 .. MaxEnvios]
    /\ envios <= MaxEnvios /\ caidas <= MaxCaidas

----------------------------------------
\* Mutation: a post as old as the window no longer counts.
VigentesSinBorde(s) ==
    CHOOSE v \in {SubSeq(s, n, Len(s)) : n \in 1 .. Len(s) + 1} :
        /\ v # <<>> => ahora - v[1] < RATE_LIMIT_WINDOW
        /\ \A i \in 1 .. Len(s) - Len(v) : ahora - s[i] >= RATE_LIMIT_WINDOW

\* What is left when the first is taken away as long as it is expired.
Vigentes(s) ==
    CHOOSE v \in {SubSeq(s, n, Len(s)) : n \in 1 .. Len(s) + 1} :
        /\ v # <<>> => ahora - v[1] <= RATE_LIMIT_WINDOW
        /\ \A i \in 1 .. Len(s) - Len(v) : ahora - s[i] > RATE_LIMIT_WINDOW

Cubo(d) == IF cubos[d] = Nada THEN <<>> ELSE cubos[d]

Limitada(d) == Len(Vigentes(Cubo(d))) >= RATE_LIMIT_POSTS

\* The sweep: what is expired leaves the other buckets, and empty ones go.
Barrer(c, d) ==
    IF ahora - barrido <= RATE_SWEEP_INTERVAL THEN c
    ELSE [e \in Direcciones |-> IF e = d \/ c[e] = Nada THEN c[e]
                                ELSE IF Vigentes(c[e]) = <<>> THEN Nada ELSE Vigentes(c[e])]

Presentes(c) == {e \in Direcciones : c[e] # Nada}
Ultimo(c, e) == IF c[e] = <<>> THEN 0 ELSE c[e][Len(c[e])]

\* The buckets past the cap that were touched the longest ago, never that of d.
Sobrantes(c, d) ==
    LET sobran == Cardinality(Presentes(c)) - RATE_MAX_BUCKETS
    IN  {S \in SUBSET (Presentes(c) \ {d}) :
            /\ Cardinality(S) = IF sobran > 0 THEN sobran ELSE 0
            /\ \A e \in S, f \in Presentes(c) \ (S \cup {d}) : Ultimo(c, e) <= Ultimo(c, f)}

\* A post of address d, all of it under the lock.
_rate_limited(d) ==
    IF Limitada(d)
    THEN /\ cubos' = [cubos EXCEPT ![d] = Vigentes(Cubo(d))]
         /\ UNCHANGED <<barrido, olvidadas, admitidos>>
    ELSE LET c == Barrer([cubos EXCEPT ![d] = Append(Vigentes(Cubo(d)), ahora)], d)
         IN  /\ \E S \in Sobrantes(c, d) :
                   /\ cubos' = [e \in Direcciones |-> IF e \in S THEN Nada ELSE c[e]]
                   /\ olvidadas' = olvidadas \cup S
             /\ barrido' = IF ahora - barrido > RATE_SWEEP_INTERVAL THEN ahora ELSE barrido
             /\ admitidos' = [admitidos EXCEPT ![d] = Append(@, ahora)]

----------------------------------------
\* GET /request-access
Abrir(c) ==
    /\ peticion[c] = "idle" /\ pagina[c] # "formulario"
    /\ formulario' = [formulario EXCEPT ![c] = ahora]
    /\ pagina' = [pagina EXCEPT ![c] = "formulario"]
    /\ UNCHANGED <<ahora, limite, peticion, filas, recibos, envios, caidas>>

\* People take their time to fill a form that was empty.
Rellenado(c) == /\ formulario[c] # Nada
                /\ (c \in Personas /\ pagina[c] = "formulario") => ahora - formulario[c] >= MIN_SUBMIT_SECONDS

Edad(c) == ahora - formulario[c]

\* A page that asks to submit again carries a new token.
Responder(c, p) ==
    /\ pagina' = [pagina EXCEPT ![c] = p]
    /\ formulario' = [formulario EXCEPT ![c] = IF p = "enviada" THEN Nada ELSE ahora]
    /\ peticion' = peticion

Continuar(c) ==
    /\ peticion' = [peticion EXCEPT ![c] = "guardar"]
    /\ UNCHANGED <<pagina, formulario>>

\* What is decided of a post that the limit let through; correcto: its
\* fields pass the validators.
Decidir(c, correcto) ==
    IF ~correcto THEN Responder(c, "invalida")
    ELSE IF c \in Bots THEN Responder(c, "enviada")
    ELSE IF Edad(c) > MAX_TOKEN_AGE_SECONDS THEN Responder(c, "vencida")
    ELSE IF Edad(c) < MIN_SUBMIT_SECONDS THEN Responder(c, "enviada")
    ELSE Continuar(c)

request_access(c) ==
    /\ peticion[c] = "idle" /\ Rellenado(c) /\ envios < MaxEnvios
    /\ envios' = envios + 1
    /\ LET d == DireccionDe[c]
       IN  /\ _rate_limited(d)
           /\ IF Limitada(d) THEN Responder(c, "demasiadas")
              ELSE \E correcto \in BOOLEAN : Decidir(c, correcto)
    /\ UNCHANGED <<ahora, filas, recibos, caidas>>

\* _store_request, whose commit comes before the mail.
_store_request(c) ==
    /\ peticion[c] = "guardar"
    /\ filas' = [filas EXCEPT ![c] = @ + 1]
    /\ peticion' = [peticion EXCEPT ![c] = "confirmar"]
    /\ UNCHANGED <<ahora, limite, formulario, pagina, recibos, envios, caidas>>

\* The receipt goes out or does not, and the answer is the same.
_send_access_confirmation(c) ==
    /\ peticion[c] = "confirmar"
    /\ \E sale \in {0, 1} : recibos' = [recibos EXCEPT ![c] = @ + sale]
    /\ peticion' = [peticion EXCEPT ![c] = "idle"]
    /\ pagina' = [pagina EXCEPT ![c] = "enviada"]
    /\ formulario' = [formulario EXCEPT ![c] = Nada]
    /\ UNCHANGED <<ahora, limite, filas, envios, caidas>>

\* The process dies: the buckets are gone with it, and every request.
Caer ==
    /\ caidas < MaxCaidas /\ caidas' = caidas + 1
    /\ cubos' = [d \in Direcciones |-> Nada] /\ barrido' = 0
    /\ olvidadas' = olvidadas \cup Presentes(cubos)
    /\ peticion' = [c \in Clientes |-> "idle"]
    /\ UNCHANGED <<ahora, admitidos, formulario, pagina, filas, recibos, envios>>

Pasar == /\ ahora < MaxTiempo /\ ahora' = ahora + 1
         /\ UNCHANGED <<limite, formulario, pagina, peticion, filas, recibos, envios, caidas>>

Init ==
    /\ ahora = 0 /\ cubos = [d \in Direcciones |-> Nada] /\ barrido = 0 /\ olvidadas = {}
    /\ admitidos = [d \in Direcciones |-> <<>>]
    /\ formulario = [c \in Clientes |-> Nada] /\ pagina = [c \in Clientes |-> "ninguna"]
    /\ peticion = [c \in Clientes |-> "idle"]
    /\ filas = [c \in Clientes |-> 0] /\ recibos = [c \in Clientes |-> 0]
    /\ envios = 0 /\ caidas = 0

Next == \/ \E c \in Clientes : \/ Abrir(c) \/ request_access(c) \/ _store_request(c)
                               \/ _send_access_confirmation(c)
        \/ Caer \/ Pasar

Spec == Init /\ [][Next]_vars

----------------------------------------
EnVentana(d, t) ==
    Cardinality({i \in DOMAIN admitidos[d] : admitidos[d][i] \in t - RATE_LIMIT_WINDOW .. t})

\* No address has more posts admitted than the limit within any window of the
\* length it names, unless its history was given up to bound the memory or
\* with the process (request_access.py 161-197).
WindowHolds == \A d \in Direcciones \ olvidadas, t \in Tiempo : EnVentana(d, t) <= RATE_LIMIT_POSTS

\* Nobody is refused without having had that many admitted in the window that
\* ends now: what the sweeps leave behind is never counted twice or too long.
RefusedWithCause ==
    \A c \in Clientes : (request_access(c) /\ admitidos' = admitidos) =>
          EnVentana(DireccionDe[c], ahora) >= RATE_LIMIT_POSTS

\* The memory of the limiter is bounded, however many addresses post.
BucketsBounded == Cardinality(Presentes(cubos)) <= RATE_MAX_BUCKETS

\* Whoever has a receipt has a row: the mail is never the record.
ReceiptMeansStored == \A c \in Clientes : recibos[c] <= filas[c]

----------------------------------------
(* What the pages, the comments and the guides say, and the code does not keep:  *)
(* TLC finds a counterexample to each of the following.                          *)

\* A person who is told that the request was received has one stored.
SentIsStored == \A c \in Personas : pagina[c] = "enviada" => filas[c] > 0
===============================================================================
