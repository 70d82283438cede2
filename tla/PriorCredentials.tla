--------------------------- MODULE PriorCredentials ---------------------------
(***************************************************************************)
(* The credentials that members bring from elsewhere                       *)
(* (vistas/prior_credentials.py): a row by member and course, an image     *)
(* beside it in a directory, and the reviews of the staff, who write the   *)
(* columns in which the row differs from what they read.                   *)
(***************************************************************************)
EXTENDS Naturals, FiniteSets

CONSTANTS
    Miembros, Personal,
    Registros,             \* ids of rows
    Claves,                \* CREDENTIAL_CATALOG
    Peticiones,
    Acciones,              \* what the requests of an instance do
    MaxOperaciones, MaxCaidas,   \* bounds: requests, and requests that die
    Nada

VALID_STATUSES == {"submitted", "verified", "rejected"}

\* What an instance assumes of its constants.
CredentialsAssumption ==
    /\ Miembros \cap Personal = {} /\ Nada \notin Miembros \cup Personal \cup Registros \cup Claves
    /\ IsFiniteSet(Claves) /\ MaxOperaciones \in Nat /\ MaxCaidas \in Nat
    /\ Nada \notin [usuario: Miembros, clave: Claves, imagen: BOOLEAN, status: VALID_STATUSES,
                     reviewed_by: Personal \cup {Nada}]

VARIABLES
    registro,     \* PriorCredential rows
    llaves,       \* flushed and not committed: <<id, member, key>>
    archivos,     \* ids that name a file in CREDENTIALS_DIR
    lista,        \* what the last page of the staff says of each member
    peticion, operaciones, caidas

vars == <<registro, llaves, archivos, lista, peticion, operaciones, caidas>>

----------------------------------------
Registro == [usuario: Miembros, clave: Claves, imagen: BOOLEAN, status: VALID_STATUSES, reviewed_by: Personal \cup {Nada}]

Existentes == {i \in Registros : registro[i] # Nada}
De(u) == {i \in Existentes : registro[i].usuario = u}

Peticion == [pc: {"idle", "flush", "imagen", "insertar", "borrar", "revisar"}, usuario: Miembros \cup Personal \cup {Nada},
             id: Registros \cup {Nada}, leido: Registro \cup {Nada}, escrito: Registro \cup {Nada}]

Libre == [pc |-> "idle", usuario |-> Nada, id |-> Nada, leido |-> Nada, escrito |-> Nada]

TypeOK ==
    /\ registro \in [Registros -> Registro \cup {Nada}]
    /\ archivos \subseteq Registros
    /\ lista \in [Miembros -> 0 .. Cardinality(Claves)]
    /\ peticion \in [Peticiones -> Peticion]
    /\ operaciones <= MaxOperaciones /\ caidas <= MaxCaidas
    \* prior_credential_unico_por_usuario
    /\ \A i, j \in Existentes :
          (registro[i].usuario = registro[j].usuario /\ registro[i].clave = registro[j].clave) => i = j
    /\ \A l \in llaves : l \in Registros \X Miembros \X Claves /\ registro[l[1]] = Nada

Empezar(r, accion) ==
    /\ peticion[r].pc = "idle" /\ accion \in Acciones
    /\ operaciones < MaxOperaciones /\ operaciones' = operaciones + 1
    /\ UNCHANGED caidas

Seguir(r, q) == peticion' = [peticion EXCEPT ![r] = q]

Terminar(r) == Seguir(r, Libre) /\ UNCHANGED <<operaciones, caidas>>

Usados == Existentes \cup archivos \cup {l[1] : l \in llaves} \cup {peticion[r].id : r \in Peticiones}

\* my_credentials, for a course that the member has not recorded.
my_credentials(r, u) ==
    /\ Empezar(r, "registrar")
    /\ \E k \in Claves, i \in Registros \ Usados, con \in BOOLEAN :
          /\ \A j \in De(u) : registro[j].clave # k
          /\ Seguir(r, [Libre EXCEPT !.pc = "flush", !.usuario = u, !.id = i,
                !.escrito = [usuario |-> u, clave |-> k, imagen |-> con, status |-> "submitted", reviewed_by |-> Nada]])
    /\ UNCHANGED <<registro, llaves, archivos, lista>>

\* The key is free among the rows that are committed; where another
\* transaction holds it, the insert waits for it.
LlaveLibre(u, k) == \A j \in Existentes : registro[j].usuario # u \/ registro[j].clave # k

EnEspera(u, k) == \E l \in llaves : l[2] = u /\ l[3] = k

Insertar(r) ==
    /\ peticion[r].pc = "flush"
    /\ LET e == peticion[r].escrito IN
          /\ ~EnEspera(e.usuario, e.clave)
          /\ IF LlaveLibre(e.usuario, e.clave)
             THEN /\ llaves' = llaves \cup {<<peticion[r].id, e.usuario, e.clave>>}
                  /\ Seguir(r, [peticion[r] EXCEPT !.pc = IF e.imagen THEN "imagen" ELSE "insertar"])
                  /\ UNCHANGED <<operaciones, caidas>>
             ELSE Terminar(r) /\ UNCHANGED llaves
    /\ UNCHANGED <<registro, archivos, lista>>

\* _store_image, under a name made of the id of the row.
_store_image(r) ==
    /\ peticion[r].pc = "imagen"
    /\ archivos' = archivos \cup {peticion[r].id}
    /\ Seguir(r, [peticion[r] EXCEPT !.pc = "insertar"])
    /\ UNCHANGED <<registro, llaves, lista, operaciones, caidas>>

Confirmar(r) ==
    /\ peticion[r].pc = "insertar"
    /\ registro' = [registro EXCEPT ![peticion[r].id] = peticion[r].escrito]
    /\ llaves' = {l \in llaves : l[1] # peticion[r].id}
    /\ Terminar(r)
    /\ UNCHANGED <<archivos, lista>>

_delete_image(i) == IF registro[i].imagen THEN archivos \ {i} ELSE archivos

\* delete_credential of a member's own row: the image goes first.
delete_credential(r, u) ==
    /\ Empezar(r, "borrar")
    /\ \E i \in De(u) : /\ archivos' = _delete_image(i)
                        /\ Seguir(r, [Libre EXCEPT !.pc = "borrar", !.usuario = u, !.id = i])
    /\ UNCHANGED <<registro, llaves, lista>>

Borrar(r) ==
    /\ peticion[r].pc = "borrar"
    /\ registro' = [registro EXCEPT ![peticion[r].id] = Nada]
    /\ Terminar(r)
    /\ UNCHANGED <<llaves, archivos, lista>>

\* review_credential: the decision on a row as it was read.
review_credential(r, s) ==
    /\ Empezar(r, "revisar")
    /\ \E i \in Existentes, decision \in VALID_STATUSES :
          Seguir(r, [pc |-> "revisar", usuario |-> s, id |-> i, leido |-> registro[i],
                     escrito |-> [registro[i] EXCEPT !.status = decision, !.reviewed_by = s]])
    /\ UNCHANGED <<registro, llaves, archivos, lista>>

Revisado(q) == {q.id} \cap Existentes

Revisar(r) ==
    /\ peticion[r].pc = "revisar"
    /\ LET q == peticion[r] IN
          registro' = [i \in Registros |->
              IF i \notin Revisado(q) THEN registro[i]
              ELSE [registro[i] EXCEPT !.status = IF q.escrito.status = q.leido.status THEN @ ELSE q.escrito.status,
                                       !.reviewed_by = IF q.escrito.reviewed_by = q.leido.reviewed_by THEN @ ELSE q.escrito.reviewed_by]]
    /\ Terminar(r)
    /\ UNCHANGED <<llaves, archivos, lista>>

\* admin_list: of the rows with the status that is asked for, by member, how
\* many are verified.
admin_list(filtro) ==
    /\ "listar" \in Acciones
    /\ lista' = [u \in Miembros |->
          Cardinality({i \in De(u) : registro[i].status = "verified" /\ filtro \in {"", registro[i].status}})]
    /\ UNCHANGED <<registro, llaves, archivos, peticion, operaciones, caidas>>

Caer(r) ==
    /\ peticion[r].pc # "idle" /\ caidas < MaxCaidas /\ caidas' = caidas + 1
    /\ llaves' = {l \in llaves : l[1] # peticion[r].id}
    /\ Seguir(r, Libre)
    /\ UNCHANGED <<registro, archivos, lista, operaciones>>

Init ==
    /\ registro = [i \in Registros |-> Nada] /\ llaves = {} /\ archivos = {}
    /\ lista = [u \in Miembros |-> 0]
    /\ peticion = [r \in Peticiones |-> Libre] /\ operaciones = 0 /\ caidas = 0

Next ==
    \/ \E r \in Peticiones, u \in Miembros : my_credentials(r, u) \/ delete_credential(r, u)
    \/ \E r \in Peticiones, s \in Personal : review_credential(r, s)
    \/ \E r \in Peticiones : Insertar(r) \/ _store_image(r) \/ Confirmar(r) \/ Borrar(r) \/ Revisar(r) \/ Caer(r)
    \/ \E f \in VALID_STATUSES \cup {""} : admin_list(f)

Spec == Init /\ [][Next]_vars

----------------------------------------
EnReposo == \A r \in Peticiones : peticion[r].pc = "idle"

\* Once no request runs, and none has died, the files are the images of the
\* rows: a submission that loses to another leaves none behind, and a deletion
\* that runs twice takes no other's (prior_credentials.py 247-254, 277-280).
FilesAreOfRows ==
    (EnReposo /\ caidas = 0) => archivos = {i \in Existentes : registro[i].imagen}

\* A record is verified by a decision on that record: one that was removed
\* while it was under review, and recorded again, is still to be reviewed.
ReviewedAsRead ==
    \A i \in Registros : (registro[i] # Nada /\ registro'[i] # Nada /\ registro'[i] # registro[i]) =>
          \E r \in Peticiones : peticion[r].pc = "revisar" /\ peticion[r].id = i

----------------------------------------
(* What the pages, the comments and the guides say, and the code does not keep:  *)
(* TLC finds a counterexample to each of the following.                          *)

\* The decision and the reviewer that a row names are of one review: with no
\* review under way, a row is left with what its last reviewer decided.
DecisionIsTheReviewers ==
    \A r \in Peticiones : (Revisar(r) /\ peticion[r].id \in Existentes) =>
          registro'[peticion[r].id].status = peticion[r].escrito.status

\* The page of the staff counts what a member has verified.
CountIsComplete ==
    lista' # lista => \A u \in Miembros : lista'[u] = Cardinality({i \in De(u) : registro[i].status = "verified"})
===============================================================================
