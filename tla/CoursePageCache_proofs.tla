------------------------ MODULE CoursePageCache_proofs ------------------------
(***************************************************************************)
(* Proofs about CoursePageCache, for any number of courses, members, page  *)
(* requests and views, and any number of steps.                            *)
(***************************************************************************)
EXTENDS CoursePageCache, TLAPS

\* The pages that can still be shown, by key: the stored ones, and those a
\* request has rendered or found.
EnCurso == {l \in Lectores : lector[l] # Ocioso}
ConPagina == {l \in EnCurso : lector[l].pc \in {"set", "servida"}}

Copia == [llave: Llave, pagina: Pagina]
Copias ==
    {[llave |-> k, pagina |-> paginas[k]] : k \in DOMAIN paginas}
    \cup {[llave |-> lector[l].llave, pagina |-> lector[l].pagina] : l \in ConPagina}

\* What the requests in flight may not be shown less than, by key.
Exigencia(l) == [llave |-> lector[l].llave, pagina |-> lector[l].exigida]
Exigencias == {Exigencia(l) : l \in EnCurso}

\* A request and the key it is kept under.
Responde(p, k) ==
    p.ambito = k.ambito /\ p.usuario = k.usuario /\ p.variante = k.variante

\* Every page within reach is under a key of the request it answers.
AnswersInv ==
    /\ TypeOK
    /\ \A x \in Copias : Responde(x.pagina.peticion, x.llave)
    /\ \A l \in EnCurso : Responde(lector[l].peticion, lector[l].llave)

(***************************************************************************)
(* The invariant behind CourseEditIsVisible: whatever a request may demand *)
(* of a page, every page it could find or render under its key has.        *)
(***************************************************************************)
Vigente(k) == k.gen = generacion[k.ambito]

PagesInv ==
    /\ \A x \in Copias \cup Exigencias :
         x.llave.gen \in Nat /\ x.llave.gen <= generacion[x.llave.ambito]
    /\ \A c \in Cursos : invalidada[c] <= version[c]
    /\ \A y \in Exigencias : \A c \in Cursos : y.pagina.version[c] <= invalidada[c]
    /\ \A x \in Copias : Vigente(x.llave) =>
         \A c \in Muestra(x.llave.ambito) : invalidada[c] <= x.pagina.version[c]
    /\ \A x \in Copias, y \in Exigencias :
         x.llave.ambito = y.llave.ambito /\ x.llave.gen = y.llave.gen =>
           \A c \in Muestra(x.llave.ambito) : y.pagina.version[c] <= x.pagina.version[c]

\* The scopes whose generation an edit has already ended.
Retirados(e) ==
    IF e.pc = "roster" THEN {e.curso, Global}
    ELSE IF e.pc \in {"bump", "put"} /\ e.ambito = Global THEN {e.curso} ELSE {}

Editando == {w \in Escritores : escritor[w] # Ocioso /\ escritor[w].pc # "forget"}

WriterInv ==
    \A w \in Editando :
        /\ escritor[w].commit <= version[escritor[w].curso]
        /\ escritor[w].ambito \in {escritor[w].curso, Global}
        /\ escritor[w].pc = "delete" => escritor[w].ambito = escritor[w].curso
        /\ escritor[w].pc = "put" => escritor[w].leida = generacion[escritor[w].ambito]
        /\ escritor[w].ok =>
             \A x \in Copias : x.llave.ambito \in Retirados(escritor[w]) /\ Vigente(x.llave)
                 => escritor[w].commit <= x.pagina.version[escritor[w].curso]

VisibleInv == AnswersInv /\ PagesInv /\ WriterInv

\* A page rendered now, and the keys and limits of now, have their types.
LEMMA ActualType ==
    ASSUME TypeOK, NEW p \in Peticion
    PROVE  /\ Actual(p) \in Pagina
           /\ Exigible(p) \in Pagina
           /\ cache_key_with_auth_state(p) \in Llave
BY DEF TypeOK, Actual, Exigible, cache_key_with_auth_state, Pagina, Llave, Peticion

\* A request in flight is a record with a place for each of its fields.
LEMMA LectorType ==
    ASSUME TypeOK, NEW l \in Lectores, lector[l] # Ocioso
    PROVE  /\ lector[l] \in LectorActivo
           /\ lector[l].llave \in Llave
           /\ lector[l].peticion \in Peticion
           /\ lector[l].exigida \in Pagina
           /\ lector[l].pc \in {"get", "render"} => lector[l].pagina = SinPagina
           /\ lector[l].pc \in {"set", "servida"} => lector[l].pagina \in Pagina
BY DEF TypeOK, LectorActivo

\* Dropping pages leaves the others as they were.
LEMMA BorraType ==
    ASSUME TypeOK, NEW S, Borra(S)
    PROVE  /\ DOMAIN paginas' \subseteq DOMAIN paginas
           /\ \A k \in DOMAIN paginas' : paginas'[k] = paginas[k]
BY DEF Borra, Restrict

\* The next bump of an invalidation is again a step of it.
LEMMA SiguienteType ==
    ASSUME NEW e \in EscritorActivo, e.pc # "forget"
    PROVE  /\ SiguienteBump(e) \in EscritorActivo
           /\ e.ambito \in Ambitos /\ e.leida \in Nat /\ e.leida + 1 \in Nat
<1> DEFINE Edicion == [pc: {"delete", "bump", "put", "roster"}, curso: Cursos, commit: Nat,
                       ambito: Ambitos, leida: Nat, ok: BOOLEAN]
<1>1. e \in Edicion
  BY DEF EscritorActivo
<1>2. Global \in Ambitos
  BY DEF Ambitos
<1>3. [e EXCEPT !.pc = "roster", !.leida = 0] \in Edicion
  BY <1>1
<1>4. [e EXCEPT !.pc = "bump", !.leida = 0, !.ambito = Global] \in Edicion
  BY <1>1, <1>2
<1>5. SiguienteBump(e) \in Edicion
  BY <1>3, <1>4 DEF SiguienteBump
<1>6. Edicion \subseteq EscritorActivo
  BY DEF EscritorActivo
<1>7. e.ambito \in Ambitos /\ e.leida \in Nat
  BY <1>1
<1> QED BY <1>5, <1>6, <1>7

\* The types hold initially.
LEMMA TypeInit == Init => TypeOK
<1> SUFFICES ASSUME Init PROVE TypeOK
  OBVIOUS
<1>1. DOMAIN paginas = {}
  BY DEF Init, Restrict
<1> QED BY <1>1, CacheAssumption DEF Init, TypeOK, SinCambios

\* The types are kept by every step.
LEMMA TypeStep == TypeOK /\ [Next]_vars => TypeOK'
<1> SUFFICES ASSUME TypeOK, [Next]_vars PROVE TypeOK'
  OBVIOUS
<1> USE CacheAssumption DEF filas, historia, cache, limites
<1>1. ASSUME NEW l \in Lectores, NEW p \in Peticion, StartRequest(l, p)
      PROVE TypeOK'
  <2>1. lector'[l] \in LectorActivo
    BY <1>1, ActualType DEF StartRequest, LectorActivo, TypeOK
  <2>2. \A m \in Lectores : m # l => lector'[m] = lector[m]
    BY <1>1 DEF StartRequest, TypeOK
  <2> QED BY <1>1, <2>1, <2>2 DEF StartRequest, TypeOK
<1>2. ASSUME NEW l \in Lectores, Atiende(l) PROVE TypeOK'
  <2>1. lector'[l] = Ocioso \/ lector'[l] \in LectorActivo
    <3>1. CASE EndRequest(l)
      BY <3>1 DEF EndRequest, TypeOK
    <3>2. CASE Hit(l) \/ Miss(l) \/ Render(l) \/ StorePage(l)
      <4>1. lector[l] # Ocioso
        BY <3>2 DEF Hit, Miss, Render, StorePage, Ocioso
      <4>2. /\ lector[l] \in LectorActivo
            /\ lector[l].peticion \in Peticion
            /\ lector[l].pc = "set" => lector[l].pagina \in Pagina
        BY <4>1, LectorType
      <4>3. CASE Hit(l)
        <5>1. paginas[lector[l].llave] \in Pagina
          BY <4>3 DEF Hit, TypeOK
        <5>2. lector'[l] = [lector[l] EXCEPT !.pc = "servida", !.pagina = paginas[lector[l].llave]]
          BY <4>3 DEF Hit, Avanza, TypeOK
        <5> QED BY <4>2, <5>1, <5>2 DEF LectorActivo
      <4>4. CASE Miss(l)
        BY <4>2, <4>4 DEF Miss, Avanza, TypeOK, LectorActivo
      <4>5. CASE Render(l)
        <5>1. lector'[l] = [lector[l] EXCEPT !.pc = "set", !.pagina = Actual(lector[l].peticion)]
          BY <4>5 DEF Render, Avanza, TypeOK
        <5> QED BY <4>2, <5>1, ActualType DEF LectorActivo
      <4>6. CASE StorePage(l)
        BY <4>2, <4>6 DEF StorePage, Avanza, TypeOK, LectorActivo
      <4> QED BY <3>2, <4>3, <4>4, <4>5, <4>6
    <3> QED BY <1>2, <3>1, <3>2 DEF Atiende
  <2>2. /\ lector' \in [Lectores -> {lector'[m] : m \in Lectores}]
        /\ \A m \in Lectores : m # l => lector'[m] = lector[m]
    BY <1>2 DEF Atiende, EndRequest, Hit, Miss, Render, StorePage, Avanza, TypeOK
  <2>3. DOMAIN paginas' \subseteq Llave /\ \A k \in DOMAIN paginas' : paginas'[k] \in Pagina
    <3>1. CASE StorePage(l)
      <4>1. lector[l] # Ocioso
        BY <3>1 DEF StorePage, Ocioso
      <4>2. lector[l].llave \in Llave /\ lector[l].pagina \in Pagina
        BY <3>1, <4>1, LectorType DEF StorePage
      <4> QED BY <3>1, <4>2 DEF StorePage, TypeOK
    <3>2. CASE UNCHANGED paginas
      BY <3>2 DEF TypeOK
    <3> QED BY <1>2, <3>1, <3>2 DEF Atiende, EndRequest, Hit, Miss, Render
  <2>4. UNCHANGED <<version, matricula, invalidada, avisada, generacion, escritor, fallas, perdidas>>
    BY <1>2 DEF Atiende, EndRequest, Hit, Miss, Render, StorePage, Avanza
  <2> QED BY <2>1, <2>2, <2>3, <2>4 DEF TypeOK
<1>3. ASSUME NEW w \in Escritores, NEW c \in Cursos, EditCourse(w, c) PROVE TypeOK'
  <2>1. escritor'[w] \in EscritorActivo
    BY <1>3 DEF EditCourse, EscritorActivo, Ambitos, TypeOK
  <2>2. escritor' = [escritor EXCEPT ![w] = escritor'[w]]
    BY <1>3 DEF EditCourse, TypeOK
  <2> QED BY <1>3, <2>1, <2>2 DEF EditCourse, TypeOK
<1>4. ASSUME NEW w \in Escritores, NEW c \in Cursos, NEW u \in Miembros,
             ChangeEnrollment(w, u, c) PROVE TypeOK'
  <2>1. escritor'[w] \in EscritorActivo
    BY <1>4 DEF ChangeEnrollment, EscritorActivo, Usuarios, TypeOK
  <2>2. escritor' = [escritor EXCEPT ![w] = escritor'[w]]
    BY <1>4 DEF ChangeEnrollment, TypeOK
  <2>3. matricula' \in [Usuarios -> [Cursos -> Nat]]
    <3>1. u \in Usuarios
      BY DEF Usuarios
    <3>2. [matricula[u] EXCEPT ![c] = @ + 1] \in [Cursos -> Nat]
      BY <3>1 DEF TypeOK
    <3> QED BY <1>4, <3>1, <3>2 DEF ChangeEnrollment, TypeOK
  <2> QED BY <1>4, <2>1, <2>2, <2>3 DEF ChangeEnrollment, TypeOK
<1>5. ASSUME NEW w \in Escritores, DeleteKeys(w) PROVE TypeOK'
  <2>1. escritor[w] \in EscritorActivo
    BY <1>5 DEF DeleteKeys, TypeOK, Ocioso
  <2>2. [escritor[w] EXCEPT !.pc = "bump"] \in EscritorActivo
    BY <1>5, <2>1 DEF DeleteKeys, EscritorActivo
  <2>3. escritor' \in [Escritores -> {Ocioso} \cup EscritorActivo]
    BY <1>5, <2>2 DEF DeleteKeys, TypeOK
  <2>4. DOMAIN paginas' \subseteq Llave /\ \A k \in DOMAIN paginas' : paginas'[k] \in Pagina
    BY <1>5, BorraType DEF DeleteKeys, TypeOK
  <2> QED BY <1>5, <2>3, <2>4 DEF DeleteKeys, TypeOK
<1>6. ASSUME NEW w \in Escritores, ReadGeneration(w) PROVE TypeOK'
  <2>1. escritor[w] \in EscritorActivo
    BY <1>6 DEF ReadGeneration, TypeOK, Ocioso
  <2>2. [escritor[w] EXCEPT !.pc = "put", !.leida = generacion[escritor[w].ambito]]
          \in EscritorActivo
    BY <1>6, <2>1 DEF ReadGeneration, EscritorActivo, TypeOK
  <2>3. escritor' \in [Escritores -> {Ocioso} \cup EscritorActivo]
    BY <1>6, <2>2 DEF ReadGeneration, TypeOK
  <2> QED BY <1>6, <2>3 DEF ReadGeneration, TypeOK
<1>7. ASSUME NEW w \in Escritores, bump_generacion(w) PROVE TypeOK'
  <2>1. escritor[w] \in EscritorActivo
    BY <1>7 DEF bump_generacion, TypeOK, Ocioso
  <2>2. /\ SiguienteBump(escritor[w]) \in EscritorActivo
        /\ escritor[w].ambito \in Ambitos
        /\ escritor[w].leida + 1 \in Nat
    BY <1>7, <2>1, SiguienteType DEF bump_generacion
  <2>3. escritor' \in [Escritores -> {Ocioso} \cup EscritorActivo]
    BY <1>7, <2>2 DEF bump_generacion, TypeOK
  <2>4. generacion' \in [Ambitos -> Nat]
    BY <1>7, <2>2 DEF bump_generacion, TypeOK
  <2> QED BY <1>7, <2>3, <2>4 DEF bump_generacion, TypeOK
<1>8. ASSUME NEW w \in Escritores, BumpFails(w) PROVE TypeOK'
  <2>1. escritor[w] \in EscritorActivo
    BY <1>8 DEF BumpFails, TypeOK, Ocioso
  <2>2. SiguienteBump([escritor[w] EXCEPT !.ok = FALSE]) \in EscritorActivo
    <3>1. [escritor[w] EXCEPT !.ok = FALSE] \in EscritorActivo
      BY <1>8, <2>1 DEF BumpFails, EscritorActivo
    <3>2. [escritor[w] EXCEPT !.ok = FALSE].pc # "forget"
      BY <1>8, <2>1 DEF BumpFails, EscritorActivo
    <3> QED BY <3>1, <3>2, SiguienteType
  <2>3. escritor' \in [Escritores -> {Ocioso} \cup EscritorActivo]
    BY <1>8, <2>2 DEF BumpFails, TypeOK
  <2> QED BY <1>8, <2>3 DEF BumpFails, TypeOK
<1>9. ASSUME NEW w \in Escritores, DeleteRoster(w) PROVE TypeOK'
  <2>1. escritor[w] \in EscritorActivo
    BY <1>9 DEF DeleteRoster, TypeOK, Ocioso
  <2>2. escritor[w].curso \in Cursos /\ escritor[w].commit \in Nat
    BY <2>1 DEF EscritorActivo
  <2>3. invalidada' \in [Cursos -> Nat]
    BY <1>9, <2>2 DEF DeleteRoster, TypeOK, Mayor
  <2>4. DOMAIN paginas' \subseteq Llave /\ \A k \in DOMAIN paginas' : paginas'[k] \in Pagina
    BY <1>9, BorraType DEF DeleteRoster, TypeOK
  <2> QED BY <1>9, <2>3, <2>4 DEF DeleteRoster, TypeOK
<1>10. ASSUME NEW w \in Escritores, invalidate_user_course_view_cache(w) PROVE TypeOK'
  <2>1. escritor[w] \in EscritorActivo
    BY <1>10 DEF invalidate_user_course_view_cache, TypeOK, Ocioso
  <2>2. /\ escritor[w].curso \in Cursos /\ escritor[w].commit \in Nat
        /\ escritor[w].usuario \in Usuarios
    BY <1>10, <2>1 DEF invalidate_user_course_view_cache, EscritorActivo, Usuarios
  <2>3. [avisada[escritor[w].usuario] EXCEPT ![escritor[w].curso] = Mayor(@, escritor[w].commit)]
          \in [Cursos -> Nat]
    BY <2>2 DEF TypeOK, Mayor
  <2>4. avisada' \in [Usuarios -> [Cursos -> Nat]]
    BY <1>10, <2>2, <2>3 DEF invalidate_user_course_view_cache, TypeOK
  <2>5. DOMAIN paginas' \subseteq Llave /\ \A k \in DOMAIN paginas' : paginas'[k] \in Pagina
    BY <1>10, BorraType DEF invalidate_user_course_view_cache, TypeOK
  <2> QED BY <1>10, <2>4, <2>5 DEF invalidate_user_course_view_cache, TypeOK
<1>11. ASSUME NEW w \in Escritores, WriterStops(w) PROVE TypeOK'
  BY <1>11 DEF WriterStops, TypeOK
<1>12. CASE ExpireAny
  <2>1. PICK k \in DOMAIN paginas : Expire(k)
    BY <1>12 DEF ExpireAny
  <2>2. DOMAIN paginas' \subseteq Llave /\ \A j \in DOMAIN paginas' : paginas'[j] \in Pagina
    BY <2>1, BorraType DEF Expire, TypeOK
  <2> QED BY <2>1, <2>2 DEF Expire, TypeOK
<1>13. ASSUME NEW a \in Ambitos, EvictGeneration(a) PROVE TypeOK'
  BY <1>13 DEF EvictGeneration, Pierde, TypeOK
<1>14. CASE invalidate_all_cache
  <2>1. DOMAIN paginas' \subseteq Llave /\ \A k \in DOMAIN paginas' : paginas'[k] \in Pagina
    BY <1>14, BorraType DEF invalidate_all_cache, TypeOK
  <2> QED BY <1>14, <2>1 DEF invalidate_all_cache, Pierde, TypeOK
<1>15. CASE UNCHANGED vars
  BY <1>15 DEF vars, TypeOK
<1> QED
  BY <1>1, <1>2, <1>3, <1>4, <1>5, <1>6, <1>7, <1>8, <1>9, <1>10, <1>11, <1>12,
     <1>13, <1>14, <1>15 DEF Next, Escribe

(***************************************************************************)
(* What comes within reach in each kind of step.                           *)
(***************************************************************************)
\* What is within reach has the types of keys and pages.
LEMMA ReachType ==
    ASSUME TypeOK
    PROVE  /\ Copias \subseteq Copia
           /\ Exigencias \subseteq Copia
<1>1. ASSUME NEW k \in DOMAIN paginas
      PROVE [llave |-> k, pagina |-> paginas[k]] \in Copia
  BY <1>1 DEF TypeOK, Copia
<1>2. ASSUME NEW l \in ConPagina
      PROVE [llave |-> lector[l].llave, pagina |-> lector[l].pagina] \in Copia
  BY <1>2, LectorType DEF ConPagina, EnCurso, Copia
<1>3. ASSUME NEW l \in EnCurso PROVE Exigencia(l) \in Copia
  BY <1>3, LectorType DEF Exigencia, EnCurso, Copia
<1> QED BY <1>1, <1>2, <1>3 DEF Copias, Exigencias

\* The requests in flight ask for what they asked.
LectoresSiguen ==
    \A l \in EnCurso' : /\ l \in EnCurso
                        /\ lector'[l].llave = lector[l].llave
                        /\ lector'[l].peticion = lector[l].peticion
                        /\ lector'[l].exigida = lector[l].exigida

\* A step that moves no request and adds no page.
LEMMA QuietStep ==
    ASSUME TypeOK, UNCHANGED lector,
           \/ UNCHANGED paginas
           \/ \E S : Borra(S)
    PROVE  Copias' \subseteq Copias /\ LectoresSiguen
<1>1. /\ DOMAIN paginas' \subseteq DOMAIN paginas
      /\ \A k \in DOMAIN paginas' : paginas'[k] = paginas[k]
  BY BorraType
<1>2. EnCurso' = EnCurso /\ ConPagina' = ConPagina
  BY DEF EnCurso, ConPagina
<1> QED BY <1>1, <1>2 DEF Copias, LectoresSiguen, EnCurso, ConPagina

\* A request that runs on asks for what it asked, and brings no page within
\* reach except the one it renders.
LEMMA ReaderStep ==
    ASSUME TypeOK, NEW l \in Lectores, Atiende(l)
    PROVE  /\ LectoresSiguen
           /\ \A x \in Copias' :
                \/ x \in Copias
                \/ /\ Render(l) /\ l \in EnCurso
                   /\ x = [llave |-> lector[l].llave, pagina |-> Actual(lector[l].peticion)]
<1>1. \A m \in Lectores : m # l => lector'[m] = lector[m]
  BY DEF Atiende, EndRequest, Hit, Miss, Render, StorePage, Avanza, TypeOK
<1>2. CASE EndRequest(l)
  <2>1. lector'[l] = Ocioso /\ UNCHANGED paginas
    BY <1>2 DEF EndRequest, TypeOK, cache
  <2>2. EnCurso' \subseteq EnCurso \ {l} /\ ConPagina' \subseteq ConPagina \ {l}
    BY <2>1, <1>1 DEF EnCurso, ConPagina
  <2> QED BY <1>1, <2>1, <2>2 DEF Copias, LectoresSiguen, EnCurso, ConPagina
<1>3. CASE Hit(l) \/ Miss(l) \/ Render(l) \/ StorePage(l)
  <2>1. l \in EnCurso
    BY <1>3 DEF Hit, Miss, Render, StorePage, Ocioso, EnCurso
  <2>2. lector[l] \in LectorActivo
    BY <2>1, LectorType DEF EnCurso
  <2>3. PICK pc, p : Avanza(l, pc, p)
    BY <1>3 DEF Hit, Miss, Render, StorePage
  <2>4. lector'[l] = [lector[l] EXCEPT !.pc = pc, !.pagina = p]
    BY <2>3 DEF Avanza, TypeOK
  <2>5. /\ lector'[l].llave = lector[l].llave
        /\ lector'[l].peticion = lector[l].peticion
        /\ lector'[l].exigida = lector[l].exigida
        /\ lector'[l].pc = pc /\ lector'[l].pagina = p
    BY <2>2, <2>4 DEF LectorActivo
  <2>6. LectoresSiguen
    BY <1>1, <2>1, <2>5 DEF LectoresSiguen, EnCurso
  <2>7. ASSUME NEW x \in Copias', x \notin Copias
        PROVE \/ \E k \in DOMAIN paginas' : x = [llave |-> k, pagina |-> paginas'[k]]
              \/ /\ l \in ConPagina'
                 /\ x = [llave |-> lector[l].llave, pagina |-> lector'[l].pagina]
    <3>1. ASSUME NEW m \in ConPagina', m # l
          PROVE [llave |-> lector'[m].llave, pagina |-> lector'[m].pagina] \in Copias
      BY <3>1, <1>1 DEF Copias, ConPagina, EnCurso
    <3> QED BY <2>5, <2>7, <3>1 DEF Copias
  <2>8. ASSUME UNCHANGED paginas, NEW x \in Copias', x \notin Copias
        PROVE /\ l \in ConPagina'
              /\ x = [llave |-> lector[l].llave, pagina |-> lector'[l].pagina]
    BY <2>7, <2>8 DEF Copias
  <2>9. ASSUME NEW x \in Copias', x \notin Copias
        PROVE /\ Render(l)
              /\ x = [llave |-> lector[l].llave, pagina |-> Actual(lector[l].peticion)]
    <3>1. CASE Render(l)
      <4>1. UNCHANGED paginas /\ lector'[l].pagina = Actual(lector[l].peticion)
        BY <3>1, <2>2 DEF Render, Avanza, TypeOK, cache, LectorActivo
      <4> QED BY <2>8, <2>9, <3>1, <4>1
    <3>2. CASE Hit(l)
      <4>1. /\ UNCHANGED paginas
            /\ lector[l].llave \in DOMAIN paginas
            /\ lector'[l].pagina = paginas[lector[l].llave]
        BY <3>2, <2>2 DEF Hit, Avanza, TypeOK, cache, LectorActivo
      <4>2. x = [llave |-> lector[l].llave, pagina |-> paginas[lector[l].llave]]
        BY <2>8, <2>9, <4>1
      <4> QED BY <2>9, <4>1, <4>2 DEF Copias
    <3>3. CASE Miss(l)
      <4>1. UNCHANGED paginas /\ lector'[l].pc = "render"
        BY <3>3, <2>2 DEF Miss, Avanza, TypeOK, cache, LectorActivo
      <4> QED BY <2>8, <2>9, <4>1 DEF ConPagina
    <3>4. CASE StorePage(l)
      <4>1. /\ l \in ConPagina
            /\ lector'[l].pagina = lector[l].pagina
        BY <3>4, <2>1, <2>2 DEF StorePage, Avanza, TypeOK, LectorActivo, ConPagina
      <4>2. \A k \in DOMAIN paginas' :
              \/ k \in DOMAIN paginas /\ paginas'[k] = paginas[k]
              \/ k = lector[l].llave /\ paginas'[k] = lector[l].pagina
        BY <3>4 DEF StorePage
      <4>3. [llave |-> lector[l].llave, pagina |-> lector[l].pagina] \in Copias
        BY <4>1 DEF Copias
      <4>4. \A k \in DOMAIN paginas' : [llave |-> k, pagina |-> paginas'[k]] \in Copias
        BY <4>2, <4>3 DEF Copias
      <4> QED BY <2>7, <2>9, <4>1, <4>3, <4>4
    <3> QED BY <1>3, <3>1, <3>2, <3>3, <3>4
  <2> QED BY <2>1, <2>6, <2>9
<1> QED BY <1>2, <1>3 DEF Atiende

\* A request that starts brings no page within reach; it asks for what it asks.
LEMMA StartStep ==
    ASSUME TypeOK, NEW l \in Lectores, NEW p \in Peticion, StartRequest(l, p)
    PROVE  /\ Copias' \subseteq Copias
           /\ lector'[l].peticion = p
           /\ lector'[l].llave = cache_key_with_auth_state(p)
           /\ lector'[l].exigida = Exigible(p)
           /\ \A m \in EnCurso' \ {l} : m \in EnCurso /\ lector'[m] = lector[m]
<1>1. lector'[l] = [pc |-> "get", peticion |-> p, llave |-> cache_key_with_auth_state(p),
                    exigida |-> Exigible(p), pagina |-> SinPagina]
  BY DEF StartRequest, TypeOK
<1>2. \A m \in Lectores : m # l => lector'[m] = lector[m]
  BY DEF StartRequest, TypeOK
<1>3. UNCHANGED paginas
  BY DEF StartRequest, cache
<1>4. \A m \in EnCurso' \ {l} : m \in EnCurso /\ lector'[m] = lector[m]
  BY <1>2 DEF EnCurso
<1>5. \A m \in ConPagina' : m # l /\ m \in ConPagina /\ lector'[m] = lector[m]
  BY <1>1, <1>2 DEF EnCurso, ConPagina
<1> QED BY <1>1, <1>3, <1>4, <1>5 DEF Copias

(***************************************************************************)
(* A step is a start, a run-on of a request, or moves no request.          *)
(***************************************************************************)
\* The steps that move no request bring no page within reach.
LEMMA NextCases ==
    ASSUME TypeOK, [Next]_vars
    PROVE  \/ \E l \in Lectores, p \in Peticion : StartRequest(l, p)
           \/ \E l \in Lectores : Atiende(l)
           \/ Copias' \subseteq Copias /\ LectoresSiguen
<1> USE DEF filas, historia, cache, limites
<1>1. \/ \E l \in Lectores, p \in Peticion : StartRequest(l, p)
      \/ \E l \in Lectores : Atiende(l)
      \/ UNCHANGED lector /\ (UNCHANGED paginas \/ \E S : Borra(S))
  <2>1. ASSUME NEW w \in Escritores, Escribe(w) \/ BumpFails(w) \/ WriterStops(w)
        PROVE UNCHANGED lector /\ (UNCHANGED paginas \/ \E S : Borra(S))
    BY <2>1 DEF Escribe, DeleteKeys, ReadGeneration, bump_generacion, DeleteRoster,
       invalidate_user_course_view_cache, BumpFails, WriterStops
  <2>2. ASSUME NEW w \in Escritores, NEW c \in Cursos, NEW u \in Miembros,
               EditCourse(w, c) \/ ChangeEnrollment(w, u, c)
        PROVE UNCHANGED <<lector, paginas>>
    BY <2>2 DEF EditCourse, ChangeEnrollment
  <2>3. ASSUME NEW w \in Escritores, NEW c \in Cursos, EditCourse(w, c)
        PROVE UNCHANGED <<lector, paginas>>
    BY <2>3 DEF EditCourse
  <2>4. CASE ExpireAny
    BY <2>4 DEF ExpireAny, Expire
  <2>5. ASSUME NEW a \in Ambitos, EvictGeneration(a)
        PROVE UNCHANGED <<lector, paginas>>
    BY <2>5 DEF EvictGeneration, Pierde
  <2>6. CASE invalidate_all_cache
    BY <2>6 DEF invalidate_all_cache, Pierde
  <2>7. CASE UNCHANGED vars
    BY <2>7 DEF vars
  <2> QED BY <2>1, <2>2, <2>3, <2>4, <2>5, <2>6, <2>7 DEF Next
<1> QED BY <1>1, QuietStep

\* Nothing is within reach initially.
LEMMA InitReach == Init => Copias = {} /\ EnCurso = {} /\ Exigencias = {}
BY DEF Init, Restrict, Copias, Exigencias, EnCurso, ConPagina

\* AnswersInv holds initially.
LEMMA AnswersInit == Init => AnswersInv
BY InitReach, TypeInit DEF AnswersInv

\* Every step keeps each page under a key of the request it answers.
LEMMA AnswersStep == AnswersInv /\ [Next]_vars => AnswersInv'
<1> SUFFICES ASSUME AnswersInv, [Next]_vars PROVE AnswersInv'
  OBVIOUS
<1>1. TypeOK /\ TypeOK'
  BY TypeStep DEF AnswersInv
<1>2. CASE Copias' \subseteq Copias /\ LectoresSiguen
  BY <1>1, <1>2 DEF AnswersInv, LectoresSiguen, Responde
<1>3. ASSUME NEW l \in Lectores, NEW p \in Peticion, StartRequest(l, p)
      PROVE AnswersInv'
  <2>1. Responde(p, cache_key_with_auth_state(p))
    BY DEF Responde, cache_key_with_auth_state
  <2>2. lector'[l].peticion = p /\ lector'[l].llave = cache_key_with_auth_state(p)
    BY <1>1, <1>3, StartStep
  <2> QED BY <1>1, <1>3, <2>1, <2>2, StartStep DEF AnswersInv, Responde
<1>4. ASSUME NEW l \in Lectores, Atiende(l) PROVE AnswersInv'
  <2>1. ASSUME NEW x \in Copias' PROVE Responde(x.pagina.peticion, x.llave)
    <3>1. CASE x \in Copias
      BY <3>1 DEF AnswersInv
    <3>2. CASE /\ l \in EnCurso
               /\ x = [llave |-> lector[l].llave, pagina |-> Actual(lector[l].peticion)]
      BY <3>2 DEF AnswersInv, Actual
    <3> QED BY <1>1, <1>4, <3>1, <3>2, ReaderStep
  <2> QED BY <1>1, <1>4, <2>1, ReaderStep DEF AnswersInv, LectoresSiguen, Responde
<1> QED BY <1>1, <1>2, <1>3, <1>4, NextCases

\* A request that is answered has its page within reach, under its own key.
LEMMA ServedIsWithinReach ==
    ASSUME NEW l \in Lectores, Servida(l), TypeOK
    PROVE  /\ l \in EnCurso
           /\ [llave |-> lector[l].llave, pagina |-> lector[l].pagina] \in Copias
BY DEF Servida, EnCurso, ConPagina, Copias, Ocioso

\* A page in the hands of a request answers that request.
LEMMA AnswersImplied == AnswersInv => PageAnswersRequest
<1> SUFFICES ASSUME AnswersInv, NEW l \in Lectores, Servida(l)
             PROVE lector[l].pagina.peticion = lector[l].peticion
  BY DEF PageAnswersRequest
<1>1. TypeOK
  BY DEF AnswersInv
<1>2. /\ Responde(lector[l].pagina.peticion, lector[l].llave)
      /\ Responde(lector[l].peticion, lector[l].llave)
  BY <1>1, ServedIsWithinReach DEF AnswersInv
<1>3. lector[l].pagina.peticion \in Peticion /\ lector[l].peticion \in Peticion
  <2>1. lector[l].pagina \in Pagina
    BY <1>1, LectorType DEF Servida, Ocioso
  <2> QED BY <1>1, <2>1, LectorType, ServedIsWithinReach DEF Pagina, EnCurso
<1>4. \A p, q \in Peticion :
        p.ambito = q.ambito /\ p.usuario = q.usuario /\ p.variante = q.variante => p = q
  BY DEF Peticion
<1> QED BY <1>2, <1>3, <1>4 DEF Responde

\* AnswersInv holds in every reachable state.
LEMMA AnswersHold == Spec => []AnswersInv
BY AnswersInit, AnswersStep, PTL DEF Spec

\* The cache, the requests and the rows have their types (cache.py).
THEOREM CacheTypeCorrect == Spec => []TypeOK
<1>1. AnswersInv => TypeOK
  BY DEF AnswersInv
<1> QED BY <1>1, AnswersHold, PTL

\* Nobody is ever given a page rendered for somebody else or for another view
\* or query, however requests, edits, evictions and clears interleave.
THEOREM PagesAnswerRequests == Spec => []PageAnswersRequest
BY AnswersHold, AnswersImplied, PTL

(***************************************************************************)
(* One writer at a time.                                                   *)
(***************************************************************************)
OneWriter == \A v, w \in Escritores : v = w

\* The versions a page shows, and those demanded of it, are numbers.
LEMMA ReachVersions ==
    ASSUME TypeOK
    PROVE  \A x \in Copias \cup Exigencias :
             /\ x.llave.ambito \in Ambitos
             /\ \A c \in Cursos : x.pagina.version[c] \in Nat
<1>1. \A x \in Copia : /\ x.llave.ambito \in Ambitos
                       /\ \A c \in Cursos : x.pagina.version[c] \in Nat
  BY DEF Copia, Llave, Pagina
<1> QED BY <1>1, ReachType

\* A scope shows courses.
LEMMA MuestraCursos == \A a \in Ambitos : Muestra(a) \subseteq Cursos
BY DEF Muestra, Ambitos

\* Requests that ask for what they asked demand what they demanded.
LEMMA ExigenciasSiguen == LectoresSiguen => Exigencias' \subseteq Exigencias
BY DEF LectoresSiguen, Exigencias, Exigencia

\* What is demanded of pages stays met when fewer pages are within reach and
\* rows only change forwards.
LEMMA PagesShrink ==
    ASSUME TypeOK, TypeOK', PagesInv,
           Copias' \subseteq Copias, Exigencias' \subseteq Exigencias,
           UNCHANGED <<generacion, invalidada>>,
           \A c \in Cursos : version[c] <= version'[c]
    PROVE  PagesInv'
<1>1. \A c \in Cursos : version[c] \in Nat /\ version'[c] \in Nat /\ invalidada[c] \in Nat
  BY DEF TypeOK
<1> QED BY <1>1 DEF PagesInv, Vigente

\* So is what an edit in progress promises.
LEMMA WriterShrink ==
    ASSUME TypeOK, TypeOK', WriterInv,
           Copias' \subseteq Copias, UNCHANGED <<generacion, escritor, version>>
    PROVE  WriterInv'
BY DEF WriterInv, Vigente, Editando, Retirados

\* An edit in progress is of a course, and counts with numbers.
LEMMA EditandoType ==
    ASSUME TypeOK, NEW w \in Editando
    PROVE  /\ escritor[w] \in [pc: {"delete", "bump", "put", "roster"}, curso: Cursos,
                               commit: Nat, ambito: Ambitos, leida: Nat, ok: BOOLEAN]
           /\ escritor[w].curso \in Cursos /\ escritor[w].commit \in Nat
           /\ escritor[w].ambito \in Ambitos /\ escritor[w].leida \in Nat
<1>1. escritor[w] \in EscritorActivo /\ escritor[w].pc # "forget"
  BY DEF Editando, TypeOK
<1>2. escritor[w] \in [pc: {"delete", "bump", "put", "roster"}, curso: Cursos,
                       commit: Nat, ambito: Ambitos, leida: Nat, ok: BOOLEAN]
  BY <1>1 DEF EscritorActivo
<1> QED BY <1>2

\* A new request demands no more than the pages of its generation show.
LEMMA StartKeepsVisible ==
    ASSUME VisibleInv, TypeOK', NEW l \in Lectores, NEW p \in Peticion, StartRequest(l, p)
    PROVE  PagesInv' /\ WriterInv'
<1>1. TypeOK
  BY DEF VisibleInv, AnswersInv
<1>2. UNCHANGED <<generacion, invalidada, version, escritor>>
  BY DEF StartRequest, filas, historia, cache
<1> DEFINE nueva == [llave |-> cache_key_with_auth_state(p), pagina |-> Exigible(p)]
<1>3. Copias' \subseteq Copias /\ Exigencias' \subseteq Exigencias \cup {nueva}
  <2>1. \A m \in EnCurso' : Exigencia(m)' = IF m = l THEN nueva ELSE Exigencia(m)
    BY <1>1, StartStep DEF Exigencia
  <2>2. EnCurso' \subseteq EnCurso \cup {l}
    BY <1>1, StartStep
  <2>3. \A m \in EnCurso' : Exigencia(m)' \in Exigencias \cup {nueva}
    BY <2>1, <2>2 DEF Exigencias
  <2>4. Exigencias' = {Exigencia(m)' : m \in EnCurso'}
    BY DEF Exigencias
  <2> QED BY <1>1, <2>3, <2>4, StartStep
<1>4. /\ nueva.llave.ambito = p.ambito
      /\ nueva.llave.gen = generacion[p.ambito]
      /\ nueva.pagina.version = invalidada
      /\ p.ambito \in Ambitos
  BY DEF cache_key_with_auth_state, Exigible, Peticion
<1> HIDE DEF nueva
<1>5. generacion[p.ambito] \in Nat /\ \A c \in Cursos : invalidada[c] \in Nat
  BY <1>1, <1>4 DEF TypeOK
<1>6. PagesInv
  BY DEF VisibleInv
<1>7. \A x \in Copias :
        x.llave.ambito = nueva.llave.ambito /\ x.llave.gen = nueva.llave.gen =>
           \A c \in Muestra(x.llave.ambito) : nueva.pagina.version[c] <= x.pagina.version[c]
  BY <1>4, <1>6 DEF PagesInv, Vigente
<1>8. PagesInv'
  BY <1>2, <1>3, <1>4, <1>5, <1>6, <1>7 DEF PagesInv, Vigente
<1> QED BY <1>1, <1>2, <1>3, <1>8, WriterShrink DEF VisibleInv

\* A page rendered now shows every committed edit.
LEMMA ReaderKeepsVisible ==
    ASSUME VisibleInv, TypeOK', NEW l \in Lectores, Atiende(l)
    PROVE  PagesInv' /\ WriterInv'
<1>1. TypeOK /\ PagesInv /\ WriterInv
  BY DEF VisibleInv, AnswersInv
<1>2. UNCHANGED <<generacion, invalidada, version, escritor>>
  BY DEF Atiende, EndRequest, Hit, Miss, Render, StorePage, Avanza, filas, historia, cache
<1>3. Exigencias' \subseteq Exigencias
  BY <1>1, ReaderStep, ExigenciasSiguen
<1>4. \A c \in Cursos : version[c] \in Nat /\ invalidada[c] \in Nat
  BY <1>1 DEF TypeOK
<1>5. CASE Copias' \subseteq Copias
  BY <1>1, <1>2, <1>3, <1>4, <1>5, PagesShrink, WriterShrink
<1>6. CASE Render(l) /\ l \in EnCurso
  <2> DEFINE nueva == [llave |-> lector[l].llave, pagina |-> Actual(lector[l].peticion)]
  <2>1. Copias' \subseteq Copias \cup {nueva}
    BY <1>1, ReaderStep
  <2>2. /\ nueva.pagina.version = version
        /\ Exigencia(l) \in Exigencias
        /\ Exigencia(l).llave = nueva.llave
    BY <1>6 DEF Actual, Exigencias, Exigencia
  <2> HIDE DEF nueva
  <2>3. /\ nueva.llave.gen \in Nat
        /\ nueva.llave.gen <= generacion[nueva.llave.ambito]
        /\ nueva.llave.ambito \in Ambitos
    BY <1>1, <2>2, ReachVersions DEF PagesInv
  <2>4. \A y \in Exigencias, c \in Cursos : y.pagina.version[c] <= version[c]
    BY <1>1, <1>4, ReachVersions DEF PagesInv
  <2>5. \A c \in Cursos : invalidada[c] <= nueva.pagina.version[c]
    BY <1>1, <2>2 DEF PagesInv
  <2>6. Muestra(nueva.llave.ambito) \subseteq Cursos
    BY <2>3, MuestraCursos
  <2>7. PagesInv'
    BY <1>1, <1>2, <1>3, <2>1, <2>2, <2>3, <2>4, <2>5, <2>6 DEF PagesInv, Vigente
  <2>8. WriterInv'
    <3>1. \A w \in Editando : escritor[w].commit <= nueva.pagina.version[escritor[w].curso]
      BY <1>1, <2>2 DEF WriterInv
    <3> QED BY <1>1, <1>2, <2>1, <3>1 DEF WriterInv, Vigente, Editando, Retirados
  <2> QED BY <2>7, <2>8
<1> QED BY <1>1, <1>5, <1>6, ReaderStep

\* A commit to a course promises its visibility, and changes nothing cached.
LEMMA EditKeepsVisible ==
    ASSUME VisibleInv, TypeOK', OneWriter, NEW w \in Escritores, NEW c \in Cursos,
           EditCourse(w, c)
    PROVE  PagesInv' /\ WriterInv'
<1>1. TypeOK /\ PagesInv
  BY DEF VisibleInv, AnswersInv
<1>2. /\ UNCHANGED <<generacion, invalidada, lector, paginas>>
      /\ version' = [version EXCEPT ![c] = @ + 1]
      /\ escritor'[w] = [pc |-> "delete", curso |-> c, commit |-> version[c] + 1,
                         ambito |-> c, leida |-> 0, ok |-> TRUE]
  BY <1>1 DEF EditCourse, historia, cache, TypeOK
<1>3. \A d \in Cursos : version[d] \in Nat /\ version'[d] \in Nat /\ version[d] <= version'[d]
  BY <1>1, <1>2 DEF TypeOK
<1>4. Copias' \subseteq Copias /\ LectoresSiguen
  BY <1>1, <1>2, QuietStep
<1>5. PagesInv'
  BY <1>1, <1>2, <1>3, <1>4, PagesShrink, ExigenciasSiguen
<1>6. /\ escritor'[w].pc = "delete" /\ escritor'[w].curso = c /\ escritor'[w].ambito = c
      /\ escritor'[w].commit = version'[c]
  BY <1>1, <1>2 DEF TypeOK
<1>7. \A v \in Escritores : v = w
  BY DEF OneWriter
<1>8. WriterInv'
  BY <1>3, <1>6, <1>7 DEF WriterInv, Editando, Retirados
<1> QED BY <1>5, <1>8

\* A step of an edit that leaves pages, generations and versions alone.
LEMMA WriterKeepsPages ==
    ASSUME VisibleInv, TypeOK', Copias' \subseteq Copias, LectoresSiguen,
           UNCHANGED <<generacion, invalidada, version>>
    PROVE  PagesInv'
<1>1. TypeOK /\ PagesInv
  BY DEF VisibleInv, AnswersInv
<1>2. \A c \in Cursos : version[c] <= version'[c]
  BY <1>1 DEF TypeOK
<1> QED BY <1>1, <1>2, PagesShrink, ExigenciasSiguen

\* A new generation of a scope has no page yet.
LEMMA BumpKeepsVisible ==
    ASSUME VisibleInv, TypeOK', OneWriter, NEW w \in Escritores, bump_generacion(w)
    PROVE  PagesInv' /\ WriterInv'
<1> DEFINE e == escritor[w]
           a == escritor[w].ambito
<1>1. TypeOK /\ PagesInv /\ WriterInv
  BY DEF VisibleInv, AnswersInv
<1>2. w \in Editando
  BY DEF bump_generacion, Editando, Ocioso
<1>3. /\ e \in [pc: {"delete", "bump", "put", "roster"}, curso: Cursos,
                commit: Nat, ambito: Ambitos, leida: Nat, ok: BOOLEAN]
      /\ e.curso \in Cursos /\ e.commit \in Nat /\ a \in Ambitos
  BY <1>1, <1>2, EditandoType
<1>4. e.leida = generacion[a] /\ e.pc = "put"
  BY <1>1, <1>2 DEF WriterInv, bump_generacion
<1>5. /\ UNCHANGED <<version, invalidada, lector, paginas>>
      /\ generacion' = [generacion EXCEPT ![a] = generacion[a] + 1]
      /\ escritor'[w] = SiguienteBump(e)
  BY <1>1, <1>4 DEF bump_generacion, filas, historia, TypeOK
<1>6. Copias' \subseteq Copias /\ Exigencias' \subseteq Exigencias
  BY <1>1, <1>5, QuietStep, ExigenciasSiguen
<1>7. /\ \A b \in Ambitos : generacion[b] \in Nat /\ generacion[b] <= generacion'[b]
      /\ generacion'[a] = generacion[a] + 1
      /\ \A b \in Ambitos : b # a => generacion'[b] = generacion[b]
  BY <1>1, <1>3, <1>5 DEF TypeOK
<1>8. \A x \in Copias \cup Exigencias :
        /\ x.llave.ambito \in Ambitos
        /\ x.llave.gen \in Nat /\ x.llave.gen <= generacion[x.llave.ambito]
  BY <1>1, ReachVersions DEF PagesInv
<1>9. \A x \in Copias : Vigente(x.llave)' => Vigente(x.llave) /\ x.llave.ambito # a
  BY <1>7, <1>8 DEF Vigente
<1>10. PagesInv'
  BY <1>1, <1>5, <1>6, <1>7, <1>8, <1>9 DEF PagesInv
<1>11. WriterInv'
  <2>1. /\ escritor'[w].curso = e.curso /\ escritor'[w].commit = e.commit
        /\ escritor'[w].ok = e.ok /\ escritor'[w].ambito = Global
        /\ escritor'[w].pc \in {"bump", "roster"}
        /\ Retirados(escritor'[w]) \subseteq Retirados(e) \cup {a}
    <3>1. a \in {e.curso, Global}
      BY <1>1, <1>2 DEF WriterInv
    <3>2. CASE a = Global
      <4>1. escritor'[w] = [e EXCEPT !.pc = "roster", !.leida = 0]
        BY <1>5, <3>2 DEF SiguienteBump
      <4> QED BY <1>3, <1>4, <3>2, <4>1 DEF Retirados
    <3>3. CASE a # Global
      <4>1. escritor'[w] = [e EXCEPT !.pc = "bump", !.leida = 0, !.ambito = Global]
        BY <1>5, <3>3 DEF SiguienteBump
      <4> QED BY <1>3, <1>4, <3>1, <3>3, <4>1 DEF Retirados
    <3> QED BY <3>2, <3>3
  <2>2. \A v \in Escritores : v = w
    BY DEF OneWriter
  <2>3. /\ e.commit <= version'[e.curso]
        /\ e.ok => \A x \in Copias' :
             x.llave.ambito \in Retirados(escritor'[w]) /\ Vigente(x.llave)'
               => e.commit <= x.pagina.version[e.curso]
    BY <1>1, <1>2, <1>5, <1>6, <1>9, <2>1 DEF WriterInv
  <2> HIDE DEF e
  <2> QED BY <2>1, <2>2, <2>3 DEF WriterInv, Editando
<1> QED BY <1>10, <1>11

\* The other steps of an edit promise nothing new.
LEMMA WriterKeepsVisible ==
    ASSUME VisibleInv, TypeOK', OneWriter, NEW w \in Escritores,
           DeleteKeys(w) \/ ReadGeneration(w) \/ BumpFails(w)
    PROVE  PagesInv' /\ WriterInv'
<1> DEFINE e == escritor[w]
<1>1. TypeOK /\ WriterInv
  BY DEF VisibleInv, AnswersInv
<1>2. w \in Editando
  BY DEF DeleteKeys, ReadGeneration, BumpFails, Editando, Ocioso
<1>3. /\ e \in [pc: {"delete", "bump", "put", "roster"}, curso: Cursos,
                commit: Nat, ambito: Ambitos, leida: Nat, ok: BOOLEAN]
      /\ e.curso \in Cursos /\ e.ambito \in Ambitos
  BY <1>1, <1>2, EditandoType
<1>4. /\ UNCHANGED <<generacion, invalidada, version, lector>>
      /\ UNCHANGED paginas \/ \E S : Borra(S)
  BY DEF DeleteKeys, ReadGeneration, BumpFails, filas, historia, cache
<1>5. Copias' \subseteq Copias /\ LectoresSiguen
  BY <1>1, <1>4, QuietStep
<1>6. \A v \in Escritores : v = w
  BY DEF OneWriter
<1>7. /\ escritor'[w].curso = e.curso /\ escritor'[w].commit = e.commit
      /\ escritor'[w].ambito \in {e.curso, Global}
      /\ escritor'[w].pc \in {"bump", "put", "roster"}
      /\ escritor'[w].pc = "put" => escritor'[w].leida = generacion[escritor'[w].ambito]
      /\ escritor'[w].ok => e.ok /\ Retirados(escritor'[w]) \subseteq Retirados(e)
  <2>1. e.ambito \in {e.curso, Global} /\ (e.pc = "delete" => e.ambito = e.curso)
    BY <1>1, <1>2 DEF WriterInv
  <2>2. CASE DeleteKeys(w)
    <3>1. escritor'[w] = [e EXCEPT !.pc = "bump"] /\ e.pc = "delete"
      BY <1>1, <2>2 DEF DeleteKeys, TypeOK
    <3>2. Global # e.curso
      BY <1>3, CacheAssumption
    <3> QED BY <1>3, <2>1, <3>1, <3>2 DEF Retirados
  <2>3. CASE ReadGeneration(w)
    <3>1. /\ escritor'[w] = [e EXCEPT !.pc = "put", !.leida = generacion[e.ambito]]
          /\ e.pc = "bump"
      BY <1>1, <2>3 DEF ReadGeneration, TypeOK
    <3> QED BY <1>3, <2>1, <3>1 DEF Retirados
  <2>4. CASE BumpFails(w)
    <3>1. escritor'[w] = SiguienteBump([e EXCEPT !.ok = FALSE])
      BY <1>1, <2>4 DEF BumpFails, TypeOK
    <3>2. CASE e.ambito = Global
      <4>1. escritor'[w] = [e EXCEPT !.ok = FALSE, !.pc = "roster", !.leida = 0]
        BY <1>3, <3>1, <3>2 DEF SiguienteBump
      <4> QED BY <1>3, <2>1, <4>1
    <3>3. CASE e.ambito # Global
      <4>1. escritor'[w] =
              [e EXCEPT !.ok = FALSE, !.pc = "bump", !.leida = 0, !.ambito = Global]
        BY <1>3, <3>1, <3>3 DEF SiguienteBump
      <4> QED BY <1>3, <2>1, <4>1
    <3> QED BY <3>2, <3>3
  <2> QED BY <2>2, <2>3, <2>4
<1>8. /\ e.commit <= version[e.curso]
      /\ e.ok => \A x \in Copias : x.llave.ambito \in Retirados(e) /\ Vigente(x.llave)
           => e.commit <= x.pagina.version[e.curso]
  BY <1>1, <1>2 DEF WriterInv
<1> HIDE DEF e
<1>9. \A k : Vigente(k)' = Vigente(k)
  BY <1>4 DEF Vigente
<1>10. /\ e.commit <= version'[e.curso]
       /\ escritor'[w].ok => \A x \in Copias' :
            x.llave.ambito \in Retirados(escritor'[w]) /\ Vigente(x.llave)'
              => e.commit <= x.pagina.version[e.curso]
  BY <1>4, <1>5, <1>7, <1>8, <1>9
<1>11. escritor'[w].pc = "put" => escritor'[w].leida = generacion'[escritor'[w].ambito]
  BY <1>4, <1>7
<1>12. WriterInv'
  BY <1>6, <1>7, <1>10, <1>11 DEF WriterInv, Editando
<1> QED BY <1>4, <1>5, <1>12, WriterKeepsPages

\* An edit ends when no page of either generation lacks it.
LEMMA RosterKeepsVisible ==
    ASSUME VisibleInv, TypeOK', OneWriter, NEW w \in Escritores, DeleteRoster(w)
    PROVE  PagesInv' /\ WriterInv'
<1> DEFINE e == escritor[w]
<1>1. TypeOK /\ PagesInv /\ WriterInv
  BY DEF VisibleInv, AnswersInv
<1>2. w \in Editando /\ e.pc = "roster"
  BY DEF DeleteRoster, Editando, Ocioso
<1>3. e.curso \in Cursos /\ e.commit \in Nat
  BY <1>1, <1>2, EditandoType
<1>4. /\ UNCHANGED <<generacion, version, lector>>
      /\ \E S : Borra(S)
      /\ escritor'[w] = Ocioso
  BY <1>1 DEF DeleteRoster, filas, TypeOK
<1>5. Copias' \subseteq Copias /\ Exigencias' \subseteq Exigencias
  BY <1>1, <1>4, QuietStep, ExigenciasSiguen
<1>6. \A v \in Escritores : v = w
  BY DEF OneWriter
<1>7. WriterInv'
  BY <1>4, <1>6 DEF WriterInv, Editando
<1>8. \A c \in Cursos : /\ invalidada[c] \in Nat /\ invalidada'[c] \in Nat
                        /\ invalidada[c] <= invalidada'[c]
                        /\ \/ invalidada'[c] = invalidada[c]
                           \/ c = e.curso /\ e.ok /\ invalidada'[c] = e.commit
  BY <1>1, <1>3 DEF DeleteRoster, TypeOK, Mayor
<1>9. /\ e.commit <= version[e.curso]
      /\ e.ok => \A x \in Copias : x.llave.ambito \in {e.curso, Global} /\ Vigente(x.llave)
           => e.commit <= x.pagina.version[e.curso]
  BY <1>1, <1>2 DEF WriterInv, Retirados
<1>10. \A x \in Copias \cup Exigencias :
         /\ x.llave.ambito \in Ambitos
         /\ \A c \in Cursos : x.pagina.version[c] \in Nat
  BY <1>1, ReachVersions
<1> HIDE DEF e
<1>11. \A c \in Cursos : invalidada'[c] <= version'[c]
  BY <1>1, <1>4, <1>8, <1>9 DEF PagesInv
<1>12. \A x \in Copias : Vigente(x.llave) =>
         \A c \in Muestra(x.llave.ambito) : invalidada'[c] <= x.pagina.version[c]
  <2> SUFFICES ASSUME NEW x \in Copias, Vigente(x.llave), NEW c \in Muestra(x.llave.ambito)
               PROVE invalidada'[c] <= x.pagina.version[c]
    OBVIOUS
  <2>1. c \in Cursos /\ x.llave.ambito \in {c, Global}
    BY <1>10 DEF Muestra, Ambitos
  <2>2. invalidada[c] <= x.pagina.version[c]
    BY <1>1 DEF PagesInv
  <2> QED BY <1>8, <1>9, <2>1, <2>2
<1>13. \A y \in Exigencias : \A c \in Cursos : y.pagina.version[c] <= invalidada'[c]
  BY <1>1, <1>8, <1>10 DEF PagesInv
<1>14. PagesInv'
  BY <1>1, <1>4, <1>5, <1>11, <1>12, <1>13 DEF PagesInv, Vigente
<1> QED BY <1>7, <1>14

\* Enrollments, and requests that end, leave the edits out.
LEMMA OthersKeepVisible ==
    ASSUME VisibleInv, TypeOK', OneWriter, NEW w \in Escritores,
           \/ \E u \in Miembros, c \in Cursos : ChangeEnrollment(w, u, c)
           \/ invalidate_user_course_view_cache(w)
           \/ WriterStops(w)
    PROVE  PagesInv' /\ WriterInv'
<1>1. TypeOK
  BY DEF VisibleInv, AnswersInv
<1>2. /\ UNCHANGED <<generacion, invalidada, version, lector>>
      /\ UNCHANGED paginas \/ \E S : Borra(S)
  BY DEF ChangeEnrollment, invalidate_user_course_view_cache, WriterStops, filas,
         historia, cache
<1>3. escritor'[w] = Ocioso \/ escritor'[w].pc = "forget"
  BY <1>1 DEF ChangeEnrollment, invalidate_user_course_view_cache, WriterStops, TypeOK
<1>4. \A v \in Escritores : v = w
  BY DEF OneWriter
<1>5. WriterInv'
  BY <1>3, <1>4 DEF WriterInv, Editando
<1>6. Copias' \subseteq Copias /\ LectoresSiguen
  BY <1>1, <1>2, QuietStep
<1> QED BY <1>2, <1>5, <1>6, WriterKeepsPages

\* VisibleInv holds initially.
LEMMA VisibleInit == Init => VisibleInv
<1> SUFFICES ASSUME Init PROVE VisibleInv
  OBVIOUS
<1>1. \A c \in Cursos : invalidada[c] <= version[c]
  BY DEF Init, SinCambios
<1>2. PagesInv
  BY <1>1, InitReach DEF PagesInv
<1>3. WriterInv
  BY DEF Init, WriterInv, Editando
<1> QED BY <1>2, <1>3, AnswersInit DEF VisibleInv

\* A generation that is lost stays lost.
LEMMA LossesStay == TypeOK /\ [Next]_vars /\ perdidas' = 0 => perdidas = 0
<1> SUFFICES ASSUME TypeOK, [Next]_vars, perdidas' = 0 PROVE perdidas = 0
  OBVIOUS
<1>1. ~Pierde
  BY DEF Pierde, TypeOK
<1>2. CASE ExpireAny \/ UNCHANGED vars
  BY <1>2 DEF ExpireAny, Expire, vars, limites
<1>3. ASSUME NEW w \in Escritores, Escribe(w) \/ BumpFails(w) \/ WriterStops(w)
      PROVE  perdidas = 0
  BY <1>3 DEF Escribe, DeleteKeys, ReadGeneration, bump_generacion, DeleteRoster,
              invalidate_user_course_view_cache, BumpFails, WriterStops, limites
<1>4. ASSUME NEW w \in Escritores, NEW c \in Cursos,
             EditCourse(w, c) \/ \E u \in Miembros : ChangeEnrollment(w, u, c)
      PROVE  perdidas = 0
  BY <1>4 DEF EditCourse, ChangeEnrollment, limites
<1>5. ASSUME NEW l \in Lectores, Atiende(l) \/ \E p \in Peticion : StartRequest(l, p)
      PROVE  perdidas = 0
  BY <1>5 DEF Atiende, StartRequest, EndRequest, Hit, Miss, Render, StorePage, Avanza, limites
<1> QED BY <1>1, <1>2, <1>3, <1>4, <1>5 DEF Next, EvictGeneration, invalidate_all_cache

\* Every step that loses no generation keeps it, with one writer.
LEMMA VisibleStep ==
    ASSUME OneWriter
    PROVE  VisibleInv /\ [Next]_vars /\ perdidas' = 0 => VisibleInv'
<1> SUFFICES ASSUME VisibleInv, [Next]_vars, perdidas' = 0 PROVE VisibleInv'
  OBVIOUS
<1>1. TypeOK /\ AnswersInv' /\ TypeOK'
  BY AnswersStep DEF VisibleInv, AnswersInv
<1>2. ~Pierde
  BY <1>1 DEF Pierde, TypeOK
<1>3. CASE ExpireAny
  <2>1. PICK k : Expire(k)
    BY <1>3 DEF ExpireAny
  <2>2. /\ UNCHANGED <<generacion, invalidada, version, lector, escritor>>
        /\ \E S : Borra(S)
    BY <2>1 DEF Expire, filas, historia
  <2>3. Copias' \subseteq Copias /\ LectoresSiguen
    BY <1>1, <2>2, QuietStep
  <2> QED BY <1>1, <2>2, <2>3, WriterKeepsPages, WriterShrink DEF VisibleInv
<1>4. CASE UNCHANGED vars
  <2>1. UNCHANGED <<generacion, invalidada, version, lector, escritor, paginas>>
    BY <1>4 DEF vars, filas, historia, cache
  <2>2. Copias' \subseteq Copias /\ LectoresSiguen
    BY <1>1, <2>1, QuietStep
  <2> QED BY <1>1, <2>1, <2>2, WriterKeepsPages, WriterShrink DEF VisibleInv
<1>5. ASSUME NEW w \in Escritores,
             \/ Escribe(w) \/ BumpFails(w) \/ WriterStops(w)
             \/ \E c \in Cursos : \/ EditCourse(w, c)
                                  \/ \E u \in Miembros : ChangeEnrollment(w, u, c)
      PROVE VisibleInv'
  BY <1>1, <1>5, EditKeepsVisible, BumpKeepsVisible, WriterKeepsVisible, RosterKeepsVisible,
     OthersKeepVisible DEF Escribe, VisibleInv
<1>6. ASSUME NEW l \in Lectores, NEW p \in Peticion, StartRequest(l, p) PROVE VisibleInv'
  BY <1>1, <1>6, StartKeepsVisible DEF VisibleInv
<1>7. ASSUME NEW l \in Lectores, Atiende(l) PROVE VisibleInv'
  BY <1>1, <1>7, ReaderKeepsVisible DEF VisibleInv
<1> QED BY <1>2, <1>3, <1>4, <1>5, <1>6, <1>7 DEF Next, EvictGeneration, invalidate_all_cache

\* A page in the hands of a request shows what the request may demand.
LEMMA VisibleImplied == VisibleInv => CourseEditIsVisible
<1> SUFFICES ASSUME VisibleInv, NEW l \in Lectores, Servida(l),
                    NEW c \in Muestra(lector[l].peticion.ambito)
             PROVE lector[l].pagina.version[c] >= lector[l].exigida.version[c]
  BY DEF CourseEditIsVisible
<1> DEFINE x == [llave |-> lector[l].llave, pagina |-> lector[l].pagina]
<1>1. TypeOK /\ AnswersInv /\ PagesInv
  BY DEF VisibleInv, AnswersInv
<1>2. l \in EnCurso /\ x \in Copias
  BY <1>1, ServedIsWithinReach
<1>3. Exigencia(l) \in Exigencias /\ lector[l].peticion.ambito = lector[l].llave.ambito
  BY <1>1, <1>2 DEF Exigencias, AnswersInv, Responde
<1>4. /\ x.llave = Exigencia(l).llave
      /\ x.pagina = lector[l].pagina /\ Exigencia(l).pagina = lector[l].exigida
      /\ x.llave.ambito = lector[l].peticion.ambito
  BY <1>3 DEF Exigencia
<1> HIDE DEF x
<1>5. Exigencia(l).pagina.version[c] <= x.pagina.version[c]
  BY <1>1, <1>2, <1>3, <1>4 DEF PagesInv
<1>6. c \in Cursos
  BY <1>1, <1>2, <1>4, ReachVersions, MuestraCursos
<1>7. Exigencia(l).pagina.version[c] \in Nat /\ x.pagina.version[c] \in Nat
  BY <1>1, <1>2, <1>3, <1>6, ReachVersions
<1> QED BY <1>4, <1>5, <1>7

\* What is kept until a generation is lost, and after.
KeptInv == AnswersInv /\ (perdidas = 0 => VisibleInv)

\* Where edits do not overlap, and as long as the cache keeps its generations,
\* whoever loads a course or a catalog after an edit was invalidated is shown the
\* edit, however many pages are being rendered, stored or dropped meanwhile.
THEOREM CourseEditsAreVisible ==
    ASSUME OneWriter
    PROVE  Spec => []CourseEditIsVisible
<1>1. Init => KeptInv
  BY VisibleInit DEF KeptInv, VisibleInv
<1>2. KeptInv /\ [Next]_vars => KeptInv'
  BY AnswersStep, LossesStay, VisibleStep DEF KeptInv, AnswersInv
<1>3. KeptInv => CourseEditIsVisible
  BY VisibleImplied DEF KeptInv, CourseEditIsVisible
<1> QED BY <1>1, <1>2, <1>3, PTL DEF Spec
=============================================================================
