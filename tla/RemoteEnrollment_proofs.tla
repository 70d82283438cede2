------------------------ MODULE RemoteEnrollment_proofs ------------------------
(***************************************************************************)
(* Proofs about RemoteEnrollment for any number of request ids, students,  *)
(* courses and concurrent requests.                                        *)
(***************************************************************************)
EXTENDS RemoteEnrollment, TLAPS

\* What a request that is under way knows stays true until it is answered:
\* rows are only added.
EnCurso(q) ==
    /\ q.pc # "libre" => q.id \in Ids /\ q.par \in Pares
    /\ (q.pc \in {"matricula", "guardar"} /\ ~q.nuevo) => usuarios[q.par[1]] # "no"
    /\ q.pc = "correo" => matricula[q.par] # "no" /\ registros[q.id] # Nada
    /\ (q.pc = "responder" /\ q.respuesta = "enrolled")
          => matricula[q.par] # "no" /\ registros[q.id] # Nada
    /\ (q.pc = "responder" /\ q.respuesta = "already_enrolled") => matricula[q.par] # "no"
    /\ (q.pc = "responder" /\ q.respuesta = "already_processed") => registros[q.id] # Nada

ConPar == \A i \in Ids : respuestas[i].respuesta # "" => respuestas[i].par \in Pares

IInv == /\ TypeOK
        /\ LoggedIsEnrolled
        /\ AnswerIsTrue
        /\ ConPar
        /\ \A r \in Peticiones : EnCurso(peticion[r])

\* Users, enrollments and log rows are never deleted.
Crecen ==
    /\ \A c \in Correos : usuarios[c] # "no" => usuarios'[c] # "no"
    /\ \A p \in Pares : matricula[p] # "no" => matricula'[p] # "no"
    /\ \A i \in Ids : registros[i] # Nada => registros'[i] = registros[i]

\* The first part of a pair is the student's address.
LEMMA ParCorreo == \A p \in Pares : p[1] \in Correos
BY DEF Pares

\* A request that has not arrived is one.
LEMMA LibreType == Libre \in Peticion
BY DEF Libre, Peticion

\* What the handler writes into a request leaves it one.
LEMMA CambioType ==
    ASSUME NEW q \in Peticion
    PROVE  /\ \A b \in BOOLEAN : [q EXCEPT !.pc = "matricula", !.nuevo = b] \in Peticion
           /\ \A a \in {"enrolled", "already_enrolled", "error"} :
                 [q EXCEPT !.pc = "responder", !.respuesta = a] \in Peticion
BY DEF Peticion

\* Nothing is stored and no request has arrived at first.
LEMMA InitIInv == Init => IInv
<1> SUFFICES ASSUME Init PROVE IInv
  OBVIOUS
<1>1. TypeOK
  <2>1. peticion \in [Peticiones -> Peticion]
    BY LibreType DEF Init
  <2>2. respuestas \in [Ids -> [par: Pares \cup {Nada},
            respuesta: {"", "enrolled", "already_processed", "already_enrolled"}]]
    BY DEF Init, SinRespuesta
  <2>3. caidas \in 0..MaxCaidas
    BY RemoteAssumption DEF Init
  <2>4. usuarios \in [Correos -> {"no", "pendiente", "activo"}]
    BY DEF Init
  <2> QED BY <2>1, <2>2, <2>3, <2>4 DEF Init, TypeOK
<1>2. LoggedIsEnrolled
  BY DEF Init, LoggedIsEnrolled
<1>3. AnswerIsTrue
  BY DEF Init, AnswerIsTrue, SinRespuesta
<1>4. \A r \in Peticiones : EnCurso(peticion[r])
  BY DEF Init, EnCurso, Libre
<1>5. ConPar
  BY DEF Init, ConPar, SinRespuesta
<1> QED BY <1>1, <1>2, <1>3, <1>4, <1>5 DEF IInv

\* The row a transaction would insert, and what it leaves of the others.
LEMMA InsertaType ==
    ASSUME TypeOK, NEW q \in Peticion, q.id \in Ids, q.par \in Pares, Inserta(q)
    PROVE  /\ usuarios' \in [Correos -> {"no", "pendiente", "activo"}]
           /\ matricula' \in [Pares -> {"no", "vigente", "baja"}]
           /\ registros' \in [Ids -> Pares \cup {Nada}]
<1>1. q.par[1] \in Correos
  BY ParCorreo
<1> QED BY <1>1 DEF TypeOK, Inserta, Mas

\* A request is always a request, whatever step it takes.
LEMMA PeticionStep ==
    ASSUME TypeOK, [Next]_vars
    PROVE  peticion' \in [Peticiones -> Peticion]
<1>0. \A r \in Peticiones : peticion[r] \in Peticion
  BY DEF TypeOK
<1> USE DEF TypeOK
<1>1. ASSUME NEW r \in Peticiones, Llega(r) PROVE peticion' \in [Peticiones -> Peticion]
  <2> PICK i \in Ids, p \in Pares : Recibir(r, i, p)
    BY <1>1 DEF Llega
  <2>1. [Libre EXCEPT !.id = i, !.par = p,
            !.pc = IF registros[i] = Nada THEN "usuario" ELSE "responder",
            !.respuesta = IF registros[i] = Nada THEN "" ELSE "already_processed"] \in Peticion
    BY DEF Libre, Peticion
  <2> QED BY <2>1 DEF Recibir
<1>2. ASSUME NEW r \in Peticiones, NEW b \in BOOLEAN
      PROVE  [peticion[r] EXCEPT !.pc = "matricula", !.nuevo = b] \in Peticion
  BY <1>0, CambioType
<1>3. ASSUME NEW r \in Peticiones, NEW pc \in {"guardar", "correo"}, Ir(r, pc)
      PROVE  peticion' \in [Peticiones -> Peticion]
  BY <1>3 DEF Ir, Peticion
<1>4. ASSUME NEW r \in Peticiones, NEW a \in {"enrolled", "already_enrolled", "error"},
             Contestar(r, a)
      PROVE  peticion' \in [Peticiones -> Peticion]
  <2>1. [peticion[r] EXCEPT !.pc = "responder", !.respuesta = a] \in Peticion
    BY <1>0, CambioType
  <2> QED BY <1>0, <1>4, <2>1 DEF Contestar
<1>5. ASSUME NEW r \in Peticiones, BuscarUsuario(r) PROVE peticion' \in [Peticiones -> Peticion]
  BY <1>2, <1>5 DEF BuscarUsuario, EsNuevo
<1>6. ASSUME NEW r \in Peticiones,
             BuscarMatricula(r) \/ Guardar(r) \/ Invitar(r) \/ SinInvitar(r)
      PROVE  peticion' \in [Peticiones -> Peticion]
  BY <1>3, <1>4, <1>6 DEF BuscarMatricula, Guardar, Invitar, SinInvitar
<1>7. ASSUME NEW r \in Peticiones, Responder(r) \/ PerderRespuesta(r) \/ Caer(r)
      PROVE  peticion' \in [Peticiones -> Peticion]
  BY <1>7, LibreType DEF Responder, PerderRespuesta, Caer
<1>8. ASSUME UNCHANGED peticion PROVE peticion' \in [Peticiones -> Peticion]
  BY <1>8
<1> QED BY <1>1, <1>5, <1>6, <1>7, <1>8 DEF Next, Atender, Inscribirse, DarDeBaja, Registrarse,
                                        Verificar, vars

\* The types, one action after the other.
LEMMA TypeStep == IInv /\ [Next]_vars => TypeOK'
<1> SUFFICES ASSUME IInv, [Next]_vars PROVE TypeOK'
  OBVIOUS
<1>0. TypeOK /\ peticion' \in [Peticiones -> Peticion]
  BY PeticionStep DEF IInv
<1>a. \A r \in Peticiones : peticion[r].pc # "libre" =>
          peticion[r].id \in Ids /\ peticion[r].par \in Pares
  BY DEF IInv, EnCurso
<1> USE DEF TypeOK
<1>1. ASSUME NEW r \in Peticiones, Llega(r) \/ BuscarUsuario(r) \/ BuscarMatricula(r)
                                   \/ SinInvitar(r) \/ PerderRespuesta(r)
      PROVE  TypeOK'
  BY <1>0, <1>1 DEF Llega, Recibir, BuscarUsuario, BuscarMatricula, SinInvitar,
                    PerderRespuesta, tablas
<1>2. ASSUME NEW r \in Peticiones, Guardar(r) PROVE TypeOK'
  <2>1. CASE ViolaUnico(peticion[r])
    BY <1>0, <1>2, <2>1 DEF Guardar
  <2>2. CASE ~ViolaUnico(peticion[r])
    <3>1. Inserta(peticion[r]) /\ UNCHANGED <<pagos, invitados, respuestas, caidas>>
      BY <1>2, <2>2 DEF Guardar
    <3>2. peticion[r] \in Peticion /\ peticion[r].id \in Ids /\ peticion[r].par \in Pares
      BY <1>0, <1>2, <1>a DEF Guardar
    <3> QED BY <1>0, <3>1, <3>2, InsertaType
  <2> QED BY <2>1, <2>2
<1>3. ASSUME NEW r \in Peticiones, Invitar(r) PROVE TypeOK'
  <2>1. peticion[r].par[1] \in Correos
    BY <1>3, <1>a, ParCorreo DEF Invitar
  <2> QED BY <1>0, <1>3, <2>1 DEF Invitar, tablas
<1>4. ASSUME NEW r \in Peticiones, Responder(r) PROVE TypeOK'
  <2>1. peticion[r].id \in Ids /\ peticion[r].par \in Pares
    BY <1>4, <1>a DEF Responder
  <2>2. peticion[r].respuesta \in {"", "enrolled", "already_processed", "already_enrolled", "error"}
    BY <1>0 DEF Peticion
  <2>3. respuestas' \in [Ids -> [par: Pares \cup {Nada},
            respuesta: {"", "enrolled", "already_processed", "already_enrolled"}]]
    BY <1>0, <1>4, <2>1, <2>2 DEF Responder
  <2> QED BY <1>0, <1>4, <2>3 DEF Responder, tablas
<1>5. ASSUME NEW r \in Peticiones, Caer(r) PROVE TypeOK'
  <2>1. caidas' \in 0..MaxCaidas
    <3>1. MaxCaidas \in Nat /\ caidas \in 0..MaxCaidas /\ caidas < MaxCaidas
      BY <1>0, <1>5, RemoteAssumption DEF Caer
    <3> HIDE DEF TypeOK
    <3>2. caidas + 1 \in 0..MaxCaidas
      BY <3>1
    <3> QED BY <1>5, <3>2 DEF Caer
  <2> QED BY <1>0, <1>5, <2>1 DEF Caer, tablas
<1>6. ASSUME NEW p \in Pares, Inscribirse(p) \/ DarDeBaja(p) PROVE TypeOK'
  <2>1. matricula' \in [Pares -> {"no", "vigente", "baja"}] /\ pagos' \subseteq Pares
    BY <1>0, <1>6 DEF Inscribirse, DarDeBaja
  <2> QED BY <1>0, <1>6, <2>1 DEF Inscribirse, DarDeBaja
<1>7. ASSUME NEW c \in Correos, Registrarse(c) \/ Verificar(c) PROVE TypeOK'
  <2>1. usuarios' \in [Correos -> {"no", "pendiente", "activo"}] /\ invitados' \subseteq Correos
    BY <1>0, <1>7 DEF Registrarse, Verificar
  <2> QED BY <1>0, <1>7, <2>1 DEF Registrarse, Verificar
<1>8. ASSUME UNCHANGED vars PROVE TypeOK'
  BY <1>0, <1>8 DEF vars
<1> QED BY <1>1, <1>2, <1>3, <1>4, <1>5, <1>6, <1>7, <1>8 DEF Next, Atender

\* No step undoes a registration, an enrollment or a recorded answer.
LEMMA GrowStep == IInv /\ [Next]_vars => Crecen
<1> SUFFICES ASSUME IInv, [Next]_vars PROVE Crecen
  OBVIOUS
<1> USE DEF TypeOK, Crecen
<1>0. TypeOK
  BY DEF IInv
<1>1. ASSUME NEW r \in Peticiones, Guardar(r) PROVE Crecen
  BY <1>0, <1>1 DEF Guardar, Inserta, Mas, ViolaUnico
<1>2. ASSUME NEW p \in Pares, Inscribirse(p) \/ DarDeBaja(p) PROVE Crecen
  BY <1>0, <1>2 DEF Inscribirse, DarDeBaja
<1>3. ASSUME NEW c \in Correos, Registrarse(c) \/ Verificar(c) PROVE Crecen
  BY <1>0, <1>3 DEF Registrarse, Verificar
<1>4. ASSUME UNCHANGED tablas PROVE Crecen
  BY <1>4 DEF tablas
<1>5. ASSUME NEW r \in Peticiones, ~Guardar(r), Llega(r) \/ Atender(r) \/ Caer(r)
      PROVE  UNCHANGED tablas
  BY <1>5 DEF Llega, Recibir, Atender, BuscarUsuario, BuscarMatricula, Invitar,
              SinInvitar, Responder, PerderRespuesta, Caer
<1>6. ASSUME UNCHANGED vars PROVE UNCHANGED tablas
  BY <1>6 DEF vars, tablas
<1> QED BY <1>1, <1>2, <1>3, <1>4, <1>5, <1>6 DEF Next

\* Only one request changes in a step of it.
Solo(r) == \A s \in Peticiones \ {r} : peticion'[s] = peticion[s]

\* What the next step, an answer and the end of a request change in it.
LEMMA IrCampos ==
    ASSUME peticion \in [Peticiones -> Peticion], NEW r \in Peticiones, NEW pc, Ir(r, pc)
    PROVE  /\ Solo(r) /\ peticion'[r].pc = pc
           /\ peticion'[r].id = peticion[r].id /\ peticion'[r].par = peticion[r].par
           /\ peticion'[r].nuevo = peticion[r].nuevo
<1>1. peticion'[r] = [peticion[r] EXCEPT !.pc = pc] /\ Solo(r)
  BY DEF Ir, Solo
<1>2. peticion[r] \in Peticion
  OBVIOUS
<1> QED BY <1>1, <1>2 DEF Peticion

\* An answer moves the request on and names what it answers.
LEMMA ContestarCampos ==
    ASSUME peticion \in [Peticiones -> Peticion], NEW r \in Peticiones, NEW a, Contestar(r, a)
    PROVE  /\ Solo(r) /\ peticion'[r].pc = "responder" /\ peticion'[r].respuesta = a
           /\ peticion'[r].id = peticion[r].id /\ peticion'[r].par = peticion[r].par
<1>1. peticion'[r] = [peticion[r] EXCEPT !.pc = "responder", !.respuesta = a] /\ Solo(r)
  BY DEF Contestar, Solo
<1>2. peticion[r] \in Peticion
  OBVIOUS
<1> QED BY <1>1, <1>2 DEF Peticion

\* A request that ends knows nothing.
LEMMA LibreCampos ==
    ASSUME peticion \in [Peticiones -> Peticion], NEW r \in Peticiones,
           peticion' = [peticion EXCEPT ![r] = Libre]
    PROVE  Solo(r) /\ EnCurso(peticion[r])'
<1>1. Solo(r) /\ peticion'[r].pc = "libre"
  BY DEF Solo, Libre
<1> QED BY <1>1 DEF EnCurso

\* What a request knew before a step of another, it knows after it.
LEMMA OthersKnow ==
    ASSUME IInv, Crecen, TypeOK', NEW s \in Peticiones, peticion'[s] = peticion[s]
    PROVE  EnCurso(peticion[s])'
<1>1. EnCurso(peticion[s]) /\ peticion[s] \in Peticion /\ TypeOK
  BY DEF IInv, TypeOK
<1>2. peticion[s].pc # "libre" => peticion[s].par[1] \in Correos
  BY <1>1, ParCorreo DEF EnCurso
<1> QED BY <1>1, <1>2 DEF EnCurso, Crecen

\* What every request knows is still so after a step of any of them.
LEMMA KnowStep ==
    ASSUME IInv, [Next]_vars, Crecen, TypeOK'
    PROVE  \A r \in Peticiones : EnCurso(peticion[r])'
<1>0. /\ TypeOK
      /\ \A r \in Peticiones : EnCurso(peticion[r]) /\ peticion[r] \in Peticion
  BY DEF IInv, TypeOK
<1>1. ASSUME NEW r \in Peticiones, Solo(r), EnCurso(peticion[r])'
      PROVE  \A s \in Peticiones : EnCurso(peticion[s])'
  BY <1>1, OthersKnow DEF Solo
<1>t. peticion \in [Peticiones -> Peticion]
  BY <1>0 DEF TypeOK
<1>2. ASSUME NEW r \in Peticiones, Llega(r) PROVE EnCurso(peticion[r])' /\ Solo(r)
  <2> PICK i \in Ids, p \in Pares : Recibir(r, i, p)
    BY <1>2 DEF Llega
  <2> DEFINE q == [Libre EXCEPT !.id = i, !.par = p,
                      !.pc = IF registros[i] = Nada THEN "usuario" ELSE "responder",
                      !.respuesta = IF registros[i] = Nada THEN "" ELSE "already_processed"]
  <2>1. peticion'[r] = q /\ Solo(r) /\ UNCHANGED registros
    BY <1>t DEF Recibir, Solo, tablas
  <2>2. /\ q.id = i /\ q.par = p
        /\ q.pc = IF registros[i] = Nada THEN "usuario" ELSE "responder"
        /\ q.respuesta = IF registros[i] = Nada THEN "" ELSE "already_processed"
    BY DEF Libre
  <2> HIDE DEF q
  <2> QED BY <2>1, <2>2 DEF EnCurso
<1>3. ASSUME NEW r \in Peticiones, BuscarUsuario(r) PROVE EnCurso(peticion[r])' /\ Solo(r)
  BY <1>0, <1>3 DEF BuscarUsuario, EsNuevo, EnCurso, Solo, TypeOK, tablas, Peticion
<1>4. ASSUME NEW r \in Peticiones, BuscarMatricula(r) PROVE EnCurso(peticion[r])' /\ Solo(r)
  <2>1. peticion[r].id \in Ids /\ peticion[r].par \in Pares /\ UNCHANGED <<matricula, usuarios>>
    BY <1>0, <1>4 DEF BuscarMatricula, EnCurso, tablas
  <2>2. CASE matricula[peticion[r].par] # "no"
    BY <1>t, <1>4, <2>1, <2>2, ContestarCampos DEF BuscarMatricula, EnCurso
  <2>3. CASE matricula[peticion[r].par] = "no"
    <3>1. peticion[r].nuevo \/ usuarios[peticion[r].par[1]] # "no"
      BY <1>0, <1>4 DEF BuscarMatricula, EnCurso
    <3>2. Ir(r, "guardar")
      BY <1>4, <2>3 DEF BuscarMatricula
    <3> QED BY <1>t, <2>1, <3>1, <3>2, IrCampos DEF EnCurso
  <2> QED BY <2>2, <2>3
<1>5. ASSUME NEW r \in Peticiones, Guardar(r) PROVE EnCurso(peticion[r])' /\ Solo(r)
  <2>1. peticion[r].id \in Ids /\ peticion[r].par \in Pares
    BY <1>0, <1>5 DEF Guardar, EnCurso
  <2>2. CASE ViolaUnico(peticion[r])
    <3>1. Contestar(r, "error")
      BY <1>5, <2>2 DEF Guardar
    <3> QED BY <1>t, <2>1, <3>1, ContestarCampos DEF EnCurso
  <2>3. CASE ~ViolaUnico(peticion[r])
    <3>1. Ir(r, "correo") /\ Inserta(peticion[r])
      BY <1>5, <2>3 DEF Guardar
    <3>2. matricula'[peticion[r].par] = "vigente" /\ registros'[peticion[r].id] = peticion[r].par
      BY <1>0, <2>1, <3>1 DEF Inserta, TypeOK
    <3>3. peticion[r].par # Nada
      BY <2>1, RemoteAssumption
    <3> QED BY <1>t, <2>1, <3>1, <3>2, <3>3, IrCampos DEF EnCurso
  <2> QED BY <2>2, <2>3
<1>6. ASSUME NEW r \in Peticiones, Invitar(r) \/ SinInvitar(r)
      PROVE  EnCurso(peticion[r])' /\ Solo(r)
  <2>1. /\ peticion[r].id \in Ids /\ peticion[r].par \in Pares
        /\ matricula[peticion[r].par] # "no" /\ registros[peticion[r].id] # Nada
        /\ UNCHANGED <<matricula, registros>>
        /\ Contestar(r, "enrolled")
    BY <1>0, <1>6 DEF Invitar, SinInvitar, EnCurso, tablas
  <2> QED BY <1>t, <2>1, ContestarCampos DEF EnCurso
<1>7. ASSUME NEW r \in Peticiones, Responder(r) \/ PerderRespuesta(r) \/ Caer(r)
      PROVE  EnCurso(peticion[r])' /\ Solo(r)
  BY <1>t, <1>7, LibreCampos DEF Responder, PerderRespuesta, Caer
<1>8. ASSUME UNCHANGED peticion PROVE \A s \in Peticiones : EnCurso(peticion[s])'
  BY <1>8, OthersKnow
<1> QED BY <1>1, <1>2, <1>3, <1>4, <1>5, <1>6, <1>7, <1>8
        DEF Next, Atender, Inscribirse, DarDeBaja, Registrarse, Verificar, vars

\* The log: a row is only written with the rows it speaks of.
LEMMA LoggedStep ==
    ASSUME IInv, [Next]_vars, Crecen, TypeOK'
    PROVE  LoggedIsEnrolled'
<1>0. TypeOK /\ LoggedIsEnrolled
  BY DEF IInv
<1>1. ASSUME UNCHANGED registros PROVE LoggedIsEnrolled'
  BY <1>0, <1>1, ParCorreo DEF LoggedIsEnrolled, Crecen, TypeOK
<1>2. ASSUME NEW r \in Peticiones, Guardar(r), ~ViolaUnico(peticion[r])
      PROVE  LoggedIsEnrolled'
  <2> DEFINE q == peticion[r]
  <2>1. q.id \in Ids /\ q.par \in Pares /\ q.par[1] \in Correos
    BY <1>2, ParCorreo DEF Guardar, IInv, EnCurso
  <2>2. usuarios'[q.par[1]] # "no"
    <3>1. q.nuevo \/ usuarios[q.par[1]] # "no"
      BY <1>2 DEF Guardar, IInv, EnCurso
    <3>2. usuarios' = [usuarios EXCEPT ![q.par[1]] = IF q.nuevo THEN "pendiente" ELSE @]
      BY <1>2 DEF Guardar, Inserta, Mas
    <3> QED BY <1>0, <2>1, <3>1, <3>2 DEF TypeOK
  <2>3. matricula'[q.par] # "no" /\ registros' = [registros EXCEPT ![q.id] = q.par]
    BY <1>0, <1>2, <2>1 DEF Guardar, Inserta, TypeOK
  <2> QED BY <1>0, <2>1, <2>2, <2>3, ParCorreo DEF LoggedIsEnrolled, Crecen, TypeOK
<1>3. ASSUME NEW r \in Peticiones, ~(Guardar(r) /\ ~ViolaUnico(peticion[r])),
             Llega(r) \/ Atender(r) \/ Caer(r)
      PROVE  UNCHANGED registros
  BY <1>3 DEF Llega, Recibir, Atender, BuscarUsuario, BuscarMatricula, Guardar, Invitar,
              SinInvitar, Responder, PerderRespuesta, Caer, tablas
<1> QED BY <1>1, <1>2, <1>3 DEF Next, Inscribirse, DarDeBaja, Registrarse, Verificar, vars

\* The answers: what was said was known, and stays true.
LEMMA AnswerStep ==
    ASSUME IInv, [Next]_vars, Crecen, TypeOK'
    PROVE  AnswerIsTrue'
<1>0. TypeOK /\ AnswerIsTrue
  BY DEF IInv
<1>1. \A i \in Ids : respuestas[i].respuesta # "" => respuestas[i].par \in Pares
  BY DEF IInv, ConPar
<1>2. ASSUME UNCHANGED respuestas PROVE AnswerIsTrue'
  BY <1>0, <1>1, <1>2 DEF AnswerIsTrue, Crecen, TypeOK
<1>3. ASSUME NEW r \in Peticiones, Responder(r) PROVE AnswerIsTrue'
  <2>1. CASE peticion[r].respuesta = "error"
    BY <1>2, <1>3, <2>1 DEF Responder
  <2>2. CASE peticion[r].respuesta # "error"
    <3> DEFINE q == peticion[r]
    <3>1. /\ q.id \in Ids /\ q.par \in Pares /\ q.pc = "responder"
          /\ EnCurso(q)
      BY <1>3 DEF Responder, IInv, EnCurso
    <3>2. respuestas' = [respuestas EXCEPT ![q.id] = [par |-> q.par, respuesta |-> q.respuesta]]
      BY <1>3, <2>2 DEF Responder
    <3>3. UNCHANGED <<matricula, registros>>
      BY <1>3 DEF Responder, tablas
    <3> HIDE DEF q
    <3>4. \A i \in Ids \ {q.id} : respuestas'[i] = respuestas[i]
      BY <1>0, <3>2 DEF TypeOK
    <3>5. respuestas'[q.id] = [par |-> q.par, respuesta |-> q.respuesta]
      BY <1>0, <3>1, <3>2 DEF TypeOK
    <3> QED BY <1>0, <3>1, <3>3, <3>4, <3>5 DEF AnswerIsTrue, EnCurso
  <2> QED BY <2>1, <2>2
<1>4. ASSUME NEW r \in Peticiones, ~Responder(r), Llega(r) \/ Atender(r) \/ Caer(r)
      PROVE  UNCHANGED respuestas
  BY <1>4 DEF Llega, Recibir, Atender, BuscarUsuario, BuscarMatricula, Guardar, Invitar,
              SinInvitar, PerderRespuesta, Caer
<1> QED BY <1>2, <1>3, <1>4 DEF Next, Atender, Inscribirse, DarDeBaja, Registrarse, Verificar, vars

\* An answer names the pair it is about.
LEMMA ParStep ==
    ASSUME IInv, [Next]_vars
    PROVE  ConPar'
<1>0. TypeOK /\ ConPar
  BY DEF IInv
<1>1. ASSUME UNCHANGED respuestas PROVE ConPar'
  BY <1>0, <1>1 DEF ConPar
<1>2. ASSUME NEW r \in Peticiones, Responder(r) PROVE ConPar'
  <2>1. peticion[r].id \in Ids /\ peticion[r].par \in Pares
    BY <1>2 DEF Responder, IInv, EnCurso
  <2> QED BY <1>0, <1>2, <2>1 DEF Responder, ConPar, TypeOK
<1>3. ASSUME NEW r \in Peticiones, ~Responder(r), Llega(r) \/ Atender(r) \/ Caer(r)
      PROVE  UNCHANGED respuestas
  BY <1>3 DEF Llega, Recibir, Atender, BuscarUsuario, BuscarMatricula, Guardar, Invitar,
              SinInvitar, PerderRespuesta, Caer
<1> QED BY <1>1, <1>2, <1>3 DEF Next, Inscribirse, DarDeBaja, Registrarse, Verificar, vars

\* The invariant is inductive.
LEMMA StepIInv == IInv /\ [Next]_vars => IInv'
<1> SUFFICES ASSUME IInv, [Next]_vars PROVE IInv'
  OBVIOUS
<1>1. TypeOK' /\ Crecen
  BY TypeStep, GrowStep
<1> QED BY <1>1, LoggedStep, AnswerStep, KnowStep, ParStep DEF IInv

\* The invariant holds in every behaviour.
LEMMA Invariant == Spec => []IInv
BY InitIInv, StepIInv, PTL DEF Spec

----------------------------------------

\* The tables, the answers and the requests are well typed in every reachable
\* state (remote_enrollment).
THEOREM TypeCorrect == Spec => []TypeOK
<1>1. IInv => TypeOK
  BY DEF IInv
<1> QED BY <1>1, Invariant, PTL

\* What the log says was processed is enrolled, and its user exists: the three
\* inserts of remote_enrollment are one commit.
THEOREM LoggedRequestsAreEnrolled == Spec => []LoggedIsEnrolled
<1>1. IInv => LoggedIsEnrolled
  BY DEF IInv
<1> QED BY <1>1, Invariant, PTL

\* No answer of remote_enrollment is contradicted by the tables, however many
\* requests it overlapped.
THEOREM AnswersAreTrue == Spec => []AnswerIsTrue
<1>1. IInv => AnswerIsTrue
  BY DEF IInv
<1> QED BY <1>1, Invariant, PTL

\* No request sets a verified user back (the UNIQUE key of the e-mail address).
THEOREM VerifiedUsersStayVerified == Spec => VerifiedStaysVerified
<1>1. ASSUME IInv, [Next]_vars
      PROVE  [\A c \in Correos : usuarios[c] = "activo" => usuarios'[c] = "activo"]_vars
  <2>0. TypeOK
    BY <1>1 DEF IInv
  <2>1. ASSUME UNCHANGED usuarios
        PROVE  \A c \in Correos : usuarios[c] = "activo" => usuarios'[c] = "activo"
    BY <2>1
  <2>2. ASSUME NEW r \in Peticiones, Guardar(r)
        PROVE  \A c \in Correos : usuarios[c] = "activo" => usuarios'[c] = "activo"
    BY <2>0, <2>2 DEF Guardar, ViolaUnico, Inserta, Mas, TypeOK
  <2>3. ASSUME NEW c \in Correos, Registrarse(c) \/ Verificar(c)
        PROVE  \A d \in Correos : usuarios[d] = "activo" => usuarios'[d] = "activo"
    BY <2>0, <2>3 DEF Registrarse, Verificar, TypeOK
  <2>4. ASSUME NEW r \in Peticiones, ~Guardar(r), Llega(r) \/ Atender(r) \/ Caer(r)
        PROVE  UNCHANGED usuarios
    BY <2>4 DEF Llega, Recibir, Atender, BuscarUsuario, BuscarMatricula, Invitar,
                SinInvitar, Responder, PerderRespuesta, Caer, tablas
  <2> QED BY <1>1, <2>1, <2>2, <2>3, <2>4 DEF Next, Inscribirse, DarDeBaja, vars
<1> QED BY <1>1, Invariant, PTL DEF Spec, VerifiedStaysVerified

----------------------------------------
(* The refinement *)

Inscritos == {p \in Pares : matricula[p] # "no"}

\* The initial tables are ones the service may start with.
LEMMA ServiceInit == Init => Servicio!Init
BY DEF Init, Servicio!Init

\* A commit serves its request; enrolling in the page of the course is another
\* way in; every other step is not seen by the service.
LEMMA ServiceStep == IInv /\ [Next]_vars => [Servicio!Next]_<<registros, Inscritos>>
<1> SUFFICES ASSUME IInv, [Next]_vars
             PROVE  Servicio!Next \/ UNCHANGED <<registros, Inscritos>>
  OBVIOUS
<1>0. TypeOK
  BY DEF IInv
<1>1. ASSUME NEW r \in Peticiones, Guardar(r), ~ViolaUnico(peticion[r])
      PROVE  Servicio!Next
  <2> DEFINE q == peticion[r]
  <2>1. PICK i \in Ids, p \in Pares : i = q.id /\ p = q.par
    BY <1>1 DEF Guardar, IInv, EnCurso
  <2>2. registros[i] = Nada /\ p \notin Inscritos
    BY <1>1, <2>1 DEF ViolaUnico, Inscritos
  <2>3. registros' = [registros EXCEPT ![i] = p]
    BY <1>1, <2>1 DEF Guardar, Inserta
  <2>4. Inscritos' = Inscritos \cup {p}
    BY <1>0, <1>1, <2>1 DEF Guardar, Inserta, Inscritos, TypeOK
  <2>5. Servicio!Servir(i, p)
    BY <2>2, <2>3, <2>4 DEF Servicio!Servir, Inscritos
  <2> QED BY <2>5 DEF Servicio!Next
<1>2. ASSUME NEW p \in Pares, Inscribirse(p) PROVE Servicio!Next
  <2>1. Inscritos' = Inscritos \cup {p}
    BY <1>0, <1>2 DEF Inscribirse, Inscritos, TypeOK
  <2>2. Servicio!OtraVia(p)
    BY <1>2, <2>1 DEF Inscribirse, Servicio!OtraVia, Inscritos
  <2> QED BY <2>2 DEF Servicio!Next
<1>3. ASSUME NEW p \in Pares, DarDeBaja(p) PROVE UNCHANGED <<registros, Inscritos>>
  BY <1>0, <1>3 DEF DarDeBaja, Inscritos, TypeOK
<1>4. ASSUME UNCHANGED <<registros, matricula>> PROVE UNCHANGED <<registros, Inscritos>>
  BY <1>4 DEF Inscritos
<1>5. ASSUME NEW r \in Peticiones, ~(Guardar(r) /\ ~ViolaUnico(peticion[r])),
             Llega(r) \/ Atender(r) \/ Caer(r)
      PROVE  UNCHANGED <<registros, matricula>>
  BY <1>5 DEF Llega, Recibir, Atender, BuscarUsuario, BuscarMatricula, Guardar, Invitar,
              SinInvitar, Responder, PerderRespuesta, Caer, tablas
<1> QED BY <1>1, <1>2, <1>3, <1>4, <1>5 DEF Next, Registrarse, Verificar, vars

\* The handler implements the service it promises: a request id is served once,
\* with the enrollment it asked for, and nobody is enrolled twice in a course.
THEOREM RequestsAreServedOnce == Spec => ImplementsService
<1>1. ASSUME IInv, [Next]_vars PROVE [Servicio!Next]_<<registros, Inscritos>>
  BY <1>1, ServiceStep
<1> QED BY <1>1, Invariant, ServiceInit, PTL
        DEF Spec, ImplementsService, Servicio!Spec, Inscritos

=============================================================================
