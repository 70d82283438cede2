----------------------------- MODULE ApiRateLimit -----------------------------
(***************************************************************************)
(* The limit on requests with one API key of the public API                *)
(* (check_rate_limit in vistas/public_api.py, cache_incr in cache.py): a   *)
(* counter in the cache, read by one call and written by another, that     *)
(* goes when its timeout is over.  Time is counted in ticks.               *)
(***************************************************************************)
EXTENDS Naturals, Sequences

CONSTANTS
    Peticiones,  \* requests with the key at a time
    Limite,      \* LIMIT
    Ventana,     \* WINDOW, in ticks
    Backends,    \* subset of {"memoria", "redis"}
    Nada         \* no counter, or one that no timeout removes

\* What an instance assumes of its constants.
RateAssumption ==
    /\ Limite \in Nat \ {0} /\ Ventana \in Nat \ {0}
    /\ Backends \subseteq {"memoria", "redis"}
    /\ Nada \notin Nat

VARIABLES
    backend,    \* the cache the server was started with
    activa,     \* ExternalApiKey.active and not revoked_at
    contador,   \* the value under rate_limit_<key>
    resta,      \* ticks until its timeout
    peticion,   \* pc and the count read
    recientes   \* history: of the requests allowed in the last Ventana ticks, the newest
                \* first, in which of them each was: 1 is the present one

vars == <<backend, activa, contador, resta, peticion, recientes>>

TypeOK ==
    /\ backend \in Backends
    /\ activa \in BOOLEAN
    /\ contador \in Nat \cup {Nada}
    /\ resta \in (1..Ventana) \cup {Nada}
    /\ peticion \in [Peticiones -> [pc: {"libre", "fijar", "sumar", "releer", "escribir"},
                                    leido: Nat \cup {Nada}]]
    /\ recientes \in Seq(1..Ventana)
    /\ \A i, j \in DOMAIN recientes : i < j => recientes[i] <= recientes[j]

Init ==
    /\ backend \in Backends
    /\ activa = TRUE
    /\ contador = Nada /\ resta = Nada
    /\ peticion = [r \in Peticiones |-> [pc |-> "libre", leido |-> Nada]]
    /\ recientes = <<>>

----------------------------------------

Ir(r, pc, leido) == peticion' = [peticion EXCEPT ![r] = [pc |-> pc, leido |-> leido]]

Permitir(r) ==
    /\ Ir(r, "libre", Nada)
    /\ recientes' = <<1>> \o recientes

AlLimite(n) == n >= Limite

\* An unknown or revoked key is refused without a count.
Llega(r) ==
    /\ peticion[r].pc = "libre"
    /\ activa
    /\ IF contador = Nada THEN Ir(r, "fijar", Nada)
       ELSE ~AlLimite(contador) /\ Ir(r, "sumar", contador)
    /\ UNCHANGED <<backend, activa, contador, resta, recientes>>

Rechazar(r) ==
    /\ peticion[r].pc = "libre"
    /\ activa
    /\ contador # Nada /\ AlLimite(contador)
    /\ UNCHANGED vars

\* cache.set(key, 1, timeout=WINDOW)
Fijar(r) ==
    /\ peticion[r].pc = "fijar"
    /\ contador' = 1 /\ resta' = Ventana
    /\ Permitir(r)
    /\ UNCHANGED <<backend, activa>>

\* Redis increments the key, with whatever timeout it has; a key that is gone by
\* now is created without one.
Sumar(r) ==
    /\ peticion[r].pc = "sumar"
    /\ backend = "redis"
    /\ contador' = IF contador = Nada THEN 1 ELSE contador + 1
    /\ Permitir(r)
    /\ UNCHANGED <<backend, activa, resta>>

\* Other caches, and Redis when it raises an error, read the counter again ...
Releer(r) ==
    /\ peticion[r].pc = "sumar"
    /\ Ir(r, "escribir", contador)
    /\ UNCHANGED <<backend, activa, contador, resta, recientes>>

Plazo == Ventana

\* ... and write it plus one, with a new timeout.
Escribir(r) ==
    LET leido == peticion[r].leido IN
    /\ peticion[r].pc = "escribir"
    /\ contador' = IF leido = Nada THEN 1 ELSE leido + 1
    /\ resta' = Plazo
    /\ Permitir(r)
    /\ UNCHANGED <<backend, activa>>

\* revoke_api_key; requests under way are finished.
Revocar ==
    /\ activa
    /\ activa' = FALSE
    /\ UNCHANGED <<backend, contador, resta, peticion, recientes>>

Pasa ==
    /\ \E n \in 0..Len(recientes) :
          /\ \A i \in 1..Len(recientes) : recientes[i] < Ventana <=> i <= n
          /\ recientes' = [i \in 1..n |-> recientes[i] + 1]
    /\ IF resta = Nada THEN UNCHANGED <<contador, resta>>
       ELSE IF resta = 1 THEN contador' = Nada /\ resta' = Nada
       ELSE resta' = resta - 1 /\ UNCHANGED contador
    /\ UNCHANGED <<backend, activa, peticion>>

Atender(r) == Fijar(r) \/ Sumar(r) \/ Releer(r) \/ Escribir(r)

Next ==
    \/ \E r \in Peticiones : Llega(r) \/ Rechazar(r) \/ Atender(r)
    \/ Revocar
    \/ Pasa

Spec == Init /\ [][Next]_vars

----------------------------------------
(* Properties *)

Permitidas == Len(recientes)

\* A key is served at most LIMIT times in any WINDOW where each request renews
\* the timeout, and twice that where the window starts with the first request,
\* whenever the counter expires between the calls.  (check_rate_limit, cache_incr)
LimiteRespetado ==
    Permitidas <= IF backend = "memoria" THEN Limite ELSE 2 * Limite

----------------------------------------
(* What the pages, the comments and the guides say, and the code does not keep:  *)
(* TLC finds a counterexample to each of the following.                          *)

\* A request is refused only after LIMIT requests within the WINDOW.
RefusedOnlyAtLimit ==
    (contador # Nada /\ AlLimite(contador)) => Permitidas >= Limite
=============================================================================
