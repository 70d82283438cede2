------------------------- MODULE IdempotentEnrollment -------------------------
(***************************************************************************)
(* What the remote enrollment API promises: a request id is served once,   *)
(* with the enrollment it asked for, and a student is enrolled once in a   *)
(* course.                                                                 *)
(***************************************************************************)
CONSTANTS Ids, Pares, Nada  \* request ids; pairs of student and course

VARIABLES
    servidas,   \* what each request id was served with
    inscritos   \* the pairs that have an enrollment

Init == /\ servidas = [i \in Ids |-> Nada]
        /\ inscritos \in SUBSET Pares

Servir(i, p) ==
    /\ servidas[i] = Nada
    /\ p \notin inscritos
    /\ servidas' = [servidas EXCEPT ![i] = p]
    /\ inscritos' = inscritos \cup {p}

\* A student who enrolls in the course's own page.
OtraVia(p) ==
    /\ inscritos' = inscritos \cup {p}
    /\ UNCHANGED servidas

Next == \E p \in Pares : OtraVia(p) \/ \E i \in Ids : Servir(i, p)

Spec == Init /\ [][Next]_<<servidas, inscritos>>

=============================================================================
