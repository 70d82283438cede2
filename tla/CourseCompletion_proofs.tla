------------------------ MODULE CourseCompletion_proofs ------------------------
(***************************************************************************)
(* Proofs about CourseCompletion: its types, that certificates are earned, *)
(* that no completion is lost, and, for requests served one at a time,     *)
(* that attempts stay within their limit and no certificate is forgotten.  *)
(***************************************************************************)
EXTENDS CourseCompletion, FiniteSetTheorems, TLAPS

Supuesto == ProgressAssumption /\ ProgressNull

----------------------------------------
(* Types, and what a request holds *)

ConFila == {"requeridos", "completados", "guardar", "elegible", "emitir"}

\* A request knows whom, and what, it is about.
SabeDe(q) ==
    /\ q.pc # "libre" => q.usuario \in Estudiantes
    /\ q.pc = "marca" => q.recurso \in Recursos
    /\ q.pc \in {"intento", "reabrir"} =>
          q.evaluacion \in Evaluaciones /\ evaluaciones[q.evaluacion] # Nada
    /\ q.pc \in ConFila => q.fila \in Peticiones

TypeInv == TypeOK /\ \A r \in Peticiones : SabeDe(peticion[r])

\* The request that a step serves, and what becomes of it.
Sirve(r, g) == /\ r \in Peticiones
               /\ peticion' = [peticion EXCEPT ![r] = g]
               /\ g \in Peticion
               /\ SabeDe(g)'

\* A request with nothing to do is well formed.
LEMMA LibreType == Libre \in Peticion /\ Libre.pc = "libre" /\ Libre.banderas = [x \in Recursos |-> Nada]
BY DEF Libre, Peticion

\* Serving one request keeps the others as they were.
LEMMA ServedType ==
    ASSUME TypeInv, NEW r, NEW g, Sirve(r, g),
           \A e \in Evaluaciones : evaluaciones[e] # Nada => evaluaciones'[e] # Nada
    PROVE  peticion' \in [Peticiones -> Peticion] /\ \A q \in Peticiones : SabeDe(peticion[q])'
<1>1. peticion' \in [Peticiones -> Peticion] /\ peticion'[r] = g
  BY DEF Sirve, TypeInv, TypeOK
<1>2. ASSUME NEW q \in Peticiones, q # r PROVE peticion'[q] = peticion[q]
  BY <1>2 DEF Sirve, TypeInv, TypeOK
<1>3. ASSUME NEW q \in Peticiones PROVE SabeDe(peticion[q])'
  <2>1. CASE q = r
    BY <1>1, <2>1 DEF Sirve, SabeDe
  <2>2. CASE q # r
    BY <1>2, <2>2 DEF TypeInv, SabeDe
  <2> QED BY <2>1, <2>2
<1> QED BY <1>1, <1>3

\* The end of a request.
LEMMA EndServes ==
    ASSUME NEW r \in Peticiones, Terminar(r) PROVE Sirve(r, Libre)
BY LibreType DEF Sirve, Terminar, SabeDe, ConFila

\* A request that goes on with what it knows.
LEMMA GoesOnServes ==
    ASSUME TypeInv, NEW r \in Peticiones, NEW pc, Avanzar(r, pc), peticion[r].pc # "libre",
           pc \in {"resumen", "crear", "guardar", "elegible", "emitir", "aprobo", "avance", "otorgar"},
           pc \in ConFila => peticion[r].pc \in ConFila
    PROVE  \E g : Sirve(r, g) /\ g = [peticion[r] EXCEPT !.pc = pc]
<1>1. PICK g : g = [peticion[r] EXCEPT !.pc = pc]
  OBVIOUS
<1>2. /\ g \in Peticion /\ g.pc = pc /\ g.usuario = peticion[r].usuario
      /\ g.fila = peticion[r].fila
  BY <1>1 DEF TypeInv, TypeOK, Peticion
<1>3. SabeDe(g)'
  BY <1>2 DEF SabeDe, TypeInv, ConFila
<1> QED BY <1>1, <1>2, <1>3 DEF Sirve, Avanzar

\* A request that starts.
LEMMA StartServes ==
    ASSUME Supuesto, TypeInv, NEW r \in Peticiones, Llega(r)
    PROVE  \E g : Sirve(r, g)
<1>1. ASSUME NEW s \in Estudiantes, Matricular(r, s) PROVE \E g : Sirve(r, g)
  <2>1. PICK g : g = [Libre EXCEPT !.pc = "indice", !.usuario = s, !.banderas = SinFila(s)]
    OBVIOUS
  <2>2. SinFila(s) \in [Recursos -> {"required", "optional", Nada}]
    BY DEF SinFila, EnCurso
  <2>3. g \in Peticion /\ g.pc = "indice" /\ g.usuario = s
    BY <2>1, <2>2 DEF Libre, Peticion
  <2>4. SabeDe(g)'
    BY <2>3 DEF SabeDe, ConFila
  <2> QED BY <1>1, <2>1, <2>3, <2>4 DEF Sirve, Matricular
<1>2. ASSUME NEW s \in Estudiantes, CertificarAMano(r, s) PROVE \E g : Sirve(r, g)
  <2>1. PICK g : g = [Libre EXCEPT !.pc = "aprobo", !.usuario = s, !.instructor = TRUE]
    OBVIOUS
  <2>2. g \in Peticion /\ g.pc = "aprobo" /\ g.usuario = s
    BY <2>1 DEF Libre, Peticion
  <2>3. SabeDe(g)'
    BY <2>2 DEF SabeDe, ConFila
  <2> QED BY <1>2, <2>1, <2>2, <2>3 DEF Sirve, CertificarAMano
<1>3. ASSUME NEW s \in Estudiantes, NEW x \in Recursos, MarcarRecurso(r, s, x)
      PROVE  \E g : Sirve(r, g)
  <2>1. PICK g : g = [Libre EXCEPT !.pc = "marca", !.usuario = s, !.recurso = x,
                            !.banderas = [Libre.banderas EXCEPT ![x] = recursos[x]],
                            !.leida = (avances[s][x] # Nada)]
    OBVIOUS
  <2>2. [Libre.banderas EXCEPT ![x] = recursos[x]] \in [Recursos -> {"required", "optional", Nada}]
    BY <1>3, LibreType DEF MarcarRecurso, EnCurso
  <2>3. g \in Peticion /\ g.pc = "marca" /\ g.usuario = s /\ g.recurso = x
    BY <2>1, <2>2 DEF Libre, Peticion
  <2>4. SabeDe(g)'
    BY <2>3 DEF SabeDe, ConFila
  <2> QED BY <1>3, <2>1, <2>3, <2>4 DEF Sirve, MarcarRecurso
<1>4. ASSUME NEW s \in Estudiantes, NEW e \in Evaluaciones, NEW pc \in {"intento", "reabrir"},
             evaluaciones[e] # Nada, UNCHANGED evaluaciones,
             peticion' = [peticion EXCEPT ![r] =
                 [Libre EXCEPT !.pc = pc, !.usuario = s, !.evaluacion = e]]
      PROVE  \E g : Sirve(r, g)
  <2>1. PICK g : g = [Libre EXCEPT !.pc = pc, !.usuario = s, !.evaluacion = e]
    OBVIOUS
  <2>2. g \in Peticion /\ g.pc = pc /\ g.usuario = s /\ g.evaluacion = e
    BY <2>1 DEF Libre, Peticion
  <2>3. SabeDe(g)'
    BY <1>4, <2>2 DEF SabeDe, ConFila
  <2> QED BY <1>4, <2>1, <2>2, <2>3 DEF Sirve
<1>5. ASSUME NEW s \in Estudiantes, NEW e \in Evaluaciones,
             TomarEvaluacion(r, s, e) \/ SolicitarReapertura(r, s, e)
      PROVE  \E g : Sirve(r, g)
  BY <1>4, <1>5 DEF TomarEvaluacion, SolicitarReapertura, examenes
<1> QED BY <1>1, <1>2, <1>3, <1>5 DEF Llega

\* How many resources are required, and completed.
LEMMA CountsType ==
    ASSUME Supuesto
    PROVE  /\ IsFiniteSet(Requeridos) /\ Cardinality(Requeridos) \in Nat
           /\ \A s : IsFiniteSet(Completados(s)) /\ Cardinality(Completados(s)) \in Nat
<1>1. IsFiniteSet(Recursos)
  BY DEF Supuesto, ProgressAssumption
<1>2. Requeridos \subseteq Recursos /\ \A s : Completados(s) \subseteq Recursos
  BY DEF Requeridos, Completados
<1> QED BY <1>1, <1>2, FS_Subset, FS_CardinalityType

\* A request that goes on.
LEMMA StepServes ==
    ASSUME Supuesto, TypeInv, NEW r \in Peticiones, Sigue(r) \/ Caer(r)
    PROVE  \E g : Sirve(r, g)
<1> DEFINE q == peticion[r]
<1>1. q \in Peticion /\ SabeDe(q)
  BY DEF TypeInv, TypeOK
<1>2. ASSUME CrearIndice(r) \/ GuardarSolicitud(r) \/ EmitirCertificado(r) \/ Otorgar(r) \/ Caer(r)
      PROVE  \E g : Sirve(r, g)
  BY <1>2, EndServes
  DEF CrearIndice, GuardarSolicitud, EmitirCertificado, Otorgar, Caer
<1>3. ASSUME GuardarMarca(r) PROVE \E g : Sirve(r, g)
  BY <1>3, EndServes, GoesOnServes DEF GuardarMarca, ConFila
<1>4. ASSUME LeerResumen(r) PROVE \E g : Sirve(r, g)
  <2>1. ASSUME NEW f \in Peticiones,
               peticion' = [peticion EXCEPT ![r].pc = "requeridos", ![r].fila = f]
        PROVE  \E g : Sirve(r, g)
    <3>1. PICK g : g = [q EXCEPT !.pc = "requeridos", !.fila = f]
      OBVIOUS
    <3>2. g \in Peticion /\ g.pc = "requeridos" /\ g.usuario = q.usuario /\ g.fila = f
      BY <1>1, <3>1 DEF Peticion
    <3>3. SabeDe(g)'
      BY <1>1, <1>4, <3>2 DEF SabeDe, ConFila, LeerResumen
    <3> QED BY <2>1, <3>1, <3>2, <3>3 DEF Sirve
  <2> QED BY <1>4, <2>1, GoesOnServes DEF LeerResumen, Filas, ConFila
<1>5. ASSUME CrearResumen(r) PROVE \E g : Sirve(r, g)
  <2>1. PICK g : g = [q EXCEPT !.pc = "requeridos", !.fila = r]
    OBVIOUS
  <2>2. g \in Peticion /\ g.pc = "requeridos" /\ g.usuario = q.usuario /\ g.fila = r
    BY <1>1, <2>1 DEF Peticion
  <2>3. SabeDe(g)'
    BY <1>1, <1>5, <2>2 DEF SabeDe, ConFila, CrearResumen
  <2> QED BY <1>5, <2>1, <2>2, <2>3 DEF Sirve, CrearResumen
<1>6. ASSUME ContarRequeridos(r) PROVE \E g : Sirve(r, g)
  <2>1. PICK g : g = [q EXCEPT !.pc = "completados", !.requeridos = Cardinality(Requeridos)]
    OBVIOUS
  <2>2. /\ g \in Peticion /\ g.pc = "completados" /\ g.usuario = q.usuario
        /\ g.fila = q.fila
    BY <1>1, <2>1, CountsType DEF Peticion
  <2>3. SabeDe(g)'
    BY <1>1, <1>6, <2>2 DEF SabeDe, ConFila, ContarRequeridos
  <2> QED BY <1>6, <2>1, <2>2, <2>3 DEF Sirve, ContarRequeridos
<1>7. ASSUME ContarCompletados(r) PROVE \E g : Sirve(r, g)
  <2>1. PICK g : g = [q EXCEPT !.pc = "guardar", !.completados = Cardinality(Completados(q.usuario))]
    OBVIOUS
  <2>2. /\ g \in Peticion /\ g.pc = "guardar" /\ g.usuario = q.usuario
        /\ g.fila = q.fila
    BY <1>1, <2>1, CountsType DEF Peticion
  <2>3. SabeDe(g)'
    BY <1>1, <1>7, <2>2 DEF SabeDe, ConFila, ContarCompletados
  <2> QED BY <1>7, <2>1, <2>2, <2>3 DEF Sirve, ContarCompletados
<1>8. ASSUME GuardarResumen(r) PROVE \E g : Sirve(r, g)
  <2>1. PICK g : g = [q EXCEPT !.pc = IF curso.certificado THEN "elegible" ELSE "emitir"]
    OBVIOUS
  <2>2. /\ g \in Peticion /\ g.pc \in {"elegible", "emitir"} /\ g.usuario = q.usuario
        /\ g.fila = q.fila
    BY <1>1, <2>1 DEF Peticion
  <2>3. SabeDe(g)'
    BY <1>1, <1>8, <2>2 DEF SabeDe, ConFila, GuardarResumen
  <2> QED BY <1>8, <2>1, <2>2, <2>3, EndServes DEF Sirve, GuardarResumen, Avanzar
<1>9. ASSUME RevisarElegible(r) PROVE \E g : Sirve(r, g)
  <2>1. PICK f \in Filas(q.usuario) :
            peticion' = [peticion EXCEPT ![r].pc = "emitir",
               ![r].elegible = /\ EvaluacionesAprobadas(q.usuario)
                               /\ f = q.fila \/ resumenes[q.usuario][f] = "completo"]
    BY <1>9 DEF RevisarElegible
  <2>2. PICK b \in BOOLEAN : b = (/\ EvaluacionesAprobadas(q.usuario)
                                  /\ f = q.fila \/ resumenes[q.usuario][f] = "completo")
    OBVIOUS
  <2>3. PICK g : g = [q EXCEPT !.pc = "emitir", !.elegible = b]
    OBVIOUS
  <2>4. /\ g \in Peticion /\ g.pc = "emitir" /\ g.usuario = q.usuario
        /\ g.fila = q.fila
    BY <1>1, <2>3 DEF Peticion
  <2>5. SabeDe(g)'
    BY <1>1, <1>9, <2>4 DEF SabeDe, ConFila, RevisarElegible
  <2>6. peticion' = [peticion EXCEPT ![r] = g]
    BY <2>1, <2>2, <2>3
  <2> QED BY <2>4, <2>5, <2>6 DEF Sirve
<1>10. ASSUME NEW b \in BOOLEAN, GuardarIntento(r, b) PROVE \E g : Sirve(r, g)
  BY <1>10, EndServes, GoesOnServes DEF GuardarIntento, ConFila
<1>11. ASSUME RevisarEvaluaciones(r) \/ RevisarAvance(r) PROVE \E g : Sirve(r, g)
  BY <1>11, EndServes, GoesOnServes DEF RevisarEvaluaciones, RevisarAvance, ConFila
<1> QED
  BY <1>2, <1>3, <1>4, <1>5, <1>6, <1>7, <1>8, <1>9, <1>10, <1>11 DEF Sigue

\* What the tables become, action by action, has the type of the tables.
TablasOK ==
    /\ curso \in [certificado: BOOLEAN, plantilla: BOOLEAN]
    /\ matricula \in [Estudiantes -> {"ninguna", "vigente", "baja"}]
    /\ recursos \in [Recursos -> {"ausente", "borrado", "required", "optional"}]
    /\ avances \in [Estudiantes -> [Recursos -> Avance \cup {Nada}]]
    /\ resumenes \in [Estudiantes -> [Peticiones -> {"no", "parcial", "completo"}]]
    /\ evaluaciones \in [Evaluaciones -> Evaluacion \cup {Nada}]
    /\ intentos \in [Estudiantes -> [Evaluaciones -> Intentos]]
    /\ solicitudes \in [Estudiantes -> [Evaluaciones -> Nat]]
    /\ certificados \in [Estudiantes -> Certificados]
    /\ ediciones \in 0..MaxEdiciones
    /\ caidas \in 0..MaxCaidas

\* A step of a request leaves the tables of the right types.
LEMMA RequestTables ==
    ASSUME Supuesto, TypeInv, NEW r \in Peticiones, Llega(r) \/ Sigue(r) \/ Caer(r)
    PROVE  TablasOK'
<1> DEFINE q == peticion[r]
<1>1. /\ q \in Peticion /\ SabeDe(q) /\ TablasOK
      /\ q.banderas \in [Recursos -> {"required", "optional", Nada}]
      /\ q.leida \in BOOLEAN /\ q.elegible \in BOOLEAN
  BY DEF TypeInv, TypeOK, TablasOK, Peticion
<1>2. CASE UNCHANGED <<curso, recursos, matricula, avances, resumenes, evaluaciones, intentos,
                       solicitudes, certificados, ediciones, caidas>>
  BY <1>1, <1>2 DEF TablasOK
<1>3. ASSUME NEW s \in Estudiantes, Matricular(r, s) PROVE TablasOK'
  BY <1>1, <1>3 DEF Matricular, TablasOK, examenes
<1>4. ASSUME Llega(r) PROVE TablasOK'
  BY <1>2, <1>3, <1>4
  DEF Llega, CertificarAMano, MarcarRecurso, TomarEvaluacion, SolicitarReapertura, progreso,
      examenes
<1>5. ASSUME CrearIndice(r) PROVE TablasOK'
  <2> DEFINE nueva == [x \in Recursos |->
                 IF x \in {y \in Recursos : q.banderas[y] # Nada}
                 THEN [completado |-> FALSE, requerido |-> q.banderas[x]]
                 ELSE avances[q.usuario][x]]
  <2>1. q.usuario \in Estudiantes
    BY <1>1, <1>5 DEF CrearIndice, SabeDe
  <2>2. nueva \in [Recursos -> Avance \cup {Nada}]
    BY <1>1, <2>1 DEF TablasOK, Avance
  <2>3. avances' = avances \/ avances' = [avances EXCEPT ![q.usuario] = nueva]
    BY <1>5 DEF CrearIndice
  <2> HIDE DEF nueva
  <2>4. avances' \in [Estudiantes -> [Recursos -> Avance \cup {Nada}]]
    BY <1>1, <2>2, <2>3 DEF TablasOK
  <2> QED BY <1>1, <1>5, <2>4 DEF CrearIndice, TablasOK, examenes
<1>6. ASSUME GuardarMarca(r) PROVE TablasOK'
  <2>1. q.usuario \in Estudiantes /\ q.recurso \in Recursos
    BY <1>1, <1>6 DEF GuardarMarca, SabeDe
  <2>2. avances[q.usuario][q.recurso] \in Avance \cup {Nada}
    BY <1>1, <2>1 DEF TablasOK
  <2>3. (avances[q.usuario][q.recurso] # Nada) = q.leida =>
        Marca(avances[q.usuario][q.recurso], q.leida, q.banderas[q.recurso]) \in Avance
    BY <1>1, <2>1, <2>2 DEF Marca, Avance
  <2>4. \/ avances' = avances
        \/ \E m \in Avance : avances' = [avances EXCEPT ![q.usuario][q.recurso] = m]
    BY <1>6, <2>3 DEF GuardarMarca
  <2>5. avances' \in [Estudiantes -> [Recursos -> Avance \cup {Nada}]]
    <3>1. CASE avances' = avances
      BY <1>1, <3>1 DEF TablasOK
    <3>2. ASSUME NEW m \in Avance, avances' = [avances EXCEPT ![q.usuario][q.recurso] = m]
          PROVE  avances' \in [Estudiantes -> [Recursos -> Avance \cup {Nada}]]
      <4>1. PICK w : w = [avances[q.usuario] EXCEPT ![q.recurso] = m]
        OBVIOUS
      <4>2. w \in [Recursos -> Avance \cup {Nada}]
        BY <1>1, <2>1, <4>1 DEF TablasOK
      <4>3. avances' = [avances EXCEPT ![q.usuario] = w]
        BY <3>2, <4>1
      <4> QED BY <1>1, <4>2, <4>3 DEF TablasOK
    <3> QED BY <2>4, <3>1, <3>2
  <2> QED BY <1>1, <1>6, <2>5 DEF GuardarMarca, TablasOK, examenes
<1>7. ASSUME CrearResumen(r) PROVE TablasOK'
  BY <1>1, <1>7 DEF CrearResumen, TablasOK, examenes
<1>8. ASSUME NEW s \in Estudiantes, certificados' \in {Emitido(s), EmitidoPorInstructor(s), certificados}
      PROVE  certificados' \in [Estudiantes -> Certificados]
  BY <1>1, <1>8 DEF Emitido, EmitidoPorInstructor, TablasOK, Certificados
<1>9. ASSUME EmitirCertificado(r) PROVE TablasOK'
  <2>1. q.usuario \in Estudiantes /\ q.fila \in Peticiones
    BY <1>1, <1>9 DEF EmitirCertificado, SabeDe, ConFila
  <2>2. certificados' \in [Estudiantes -> Certificados]
    BY <1>8, <1>9, <2>1 DEF EmitirCertificado
  <2>3. resumenes' \in [Estudiantes -> [Peticiones -> {"no", "parcial", "completo"}]]
    <3>1. PICK w : w = [resumenes[q.usuario] EXCEPT ![q.fila] = "completo"]
      OBVIOUS
    <3>2. w \in [Peticiones -> {"no", "parcial", "completo"}]
      BY <1>1, <2>1, <3>1 DEF TablasOK
    <3>3. resumenes' = resumenes \/ resumenes' = [resumenes EXCEPT ![q.usuario] = w]
      BY <1>9, <3>1 DEF EmitirCertificado
    <3> QED BY <1>1, <3>2, <3>3 DEF TablasOK
  <2> QED BY <1>1, <1>9, <2>2, <2>3 DEF EmitirCertificado, TablasOK, examenes
<1>10. ASSUME Otorgar(r) PROVE TablasOK'
  <2>1. q.usuario \in Estudiantes
    BY <1>1, <1>10 DEF Otorgar, SabeDe
  <2>2. certificados' \in [Estudiantes -> Certificados]
    BY <1>8, <1>10, <2>1 DEF Otorgar
  <2> QED BY <1>1, <1>10, <2>2 DEF Otorgar, TablasOK, examenes, progreso
<1>11. ASSUME NEW b \in BOOLEAN, GuardarIntento(r, b) PROVE TablasOK'
  <2>1. q.usuario \in Estudiantes /\ q.evaluacion \in Evaluaciones
    BY <1>1, <1>11 DEF GuardarIntento, SabeDe
  <2>2. [n |-> intentos[q.usuario][q.evaluacion].n + 1,
         aprobada |-> intentos[q.usuario][q.evaluacion].aprobada \/ b] \in Intentos
    BY <1>1, <2>1 DEF TablasOK, Intentos
  <2>3. intentos' \in [Estudiantes -> [Evaluaciones -> Intentos]]
    BY <1>1, <1>11, <2>1, <2>2 DEF GuardarIntento, TablasOK
  <2> QED BY <1>1, <1>11, <2>3 DEF GuardarIntento, TablasOK, progreso
<1>12. ASSUME GuardarSolicitud(r) PROVE TablasOK'
  BY <1>1, <1>12 DEF GuardarSolicitud, TablasOK, progreso, SabeDe
<1>13. ASSUME Caer(r) PROVE TablasOK'
  BY <1>1, <1>13 DEF Caer, TablasOK, progreso, examenes, Supuesto, ProgressAssumption
<1> QED
  BY <1>2, <1>4, <1>5, <1>6, <1>7, <1>9, <1>10, <1>11, <1>12, <1>13
  DEF Sigue, LeerResumen, ContarRequeridos, ContarCompletados, GuardarResumen, RevisarElegible,
      RevisarEvaluaciones, RevisarAvance, progreso, examenes

\* So does an instructor, or a student who leaves, and no request changes.
LEMMA InstructorTables ==
    ASSUME Supuesto, TypeInv, Instructor \/ \E s \in Estudiantes : DarDeBaja(s)
    PROVE  TablasOK' /\ UNCHANGED peticion
<1>1. TablasOK
  BY DEF TypeInv, TypeOK, TablasOK
<1>2. Supuesto => MaxEdiciones \in Nat /\ Topes \subseteq Nat
  BY DEF Supuesto, ProgressAssumption
<1>3. ASSUME NEW s \in Estudiantes, DarDeBaja(s) PROVE TablasOK' /\ UNCHANGED peticion
  BY <1>1, <1>3 DEF DarDeBaja, TablasOK, examenes
<1>4. ASSUME Editar PROVE ediciones' \in 0..MaxEdiciones
  BY <1>1, <1>2, <1>4 DEF Editar, TablasOK
<1>5. ASSUME NEW x \in Recursos, NEW v \in {"required", "optional"},
             NuevoRecurso(x, v) \/ EditarRecurso(x, v)
      PROVE  TablasOK' /\ UNCHANGED peticion
  BY <1>1, <1>4, <1>5 DEF NuevoRecurso, EditarRecurso, TablasOK, examenes, progreso
<1>6. ASSUME NEW x \in Recursos, EliminarRecurso(x) PROVE TablasOK' /\ UNCHANGED peticion
  <2>1. [s \in Estudiantes |-> [avances[s] EXCEPT ![x] = Nada]]
            \in [Estudiantes -> [Recursos -> Avance \cup {Nada}]]
    BY <1>1 DEF TablasOK
  <2> QED BY <1>1, <1>4, <1>6, <2>1 DEF EliminarRecurso, TablasOK, examenes
<1>7. ASSUME NEW e \in Evaluaciones, NEW t \in Topes,
             NuevaEvaluacion(e, t) \/ EditarEvaluacion(e, t)
      PROVE  TablasOK' /\ UNCHANGED peticion
  <2>1. PICK w \in Evaluacion : evaluaciones' = [evaluaciones EXCEPT ![e] = w]
    <3>1. ASSUME NuevaEvaluacion(e, t)
          PROVE  \E w \in Evaluacion : evaluaciones' = [evaluaciones EXCEPT ![e] = w]
      <4>1. [max_attempts |-> t, abierta |-> TRUE] \in Evaluacion
        BY DEF Evaluacion
      <4> QED BY <3>1, <4>1 DEF NuevaEvaluacion
    <3>2. ASSUME EditarEvaluacion(e, t)
          PROVE  \E w \in Evaluacion : evaluaciones' = [evaluaciones EXCEPT ![e] = w]
      <4>1. [evaluaciones[e] EXCEPT !.max_attempts = t] \in Evaluacion
        BY <1>1, <3>2 DEF EditarEvaluacion, Evaluacion, TablasOK
      <4> QED BY <3>2, <4>1 DEF EditarEvaluacion
    <3> QED BY <1>7, <3>1, <3>2
  <2>2. evaluaciones' \in [Evaluaciones -> Evaluacion \cup {Nada}]
    BY <1>1, <2>1 DEF TablasOK
  <2> QED BY <1>1, <1>4, <1>7, <2>2
          DEF NuevaEvaluacion, EditarEvaluacion, TablasOK, progreso
<1>8. ASSUME NEW e \in Evaluaciones, AlternarEvaluacion(e) PROVE TablasOK' /\ UNCHANGED peticion
  <2>1. evaluaciones' \in [Evaluaciones -> Evaluacion \cup {Nada}]
    BY <1>1, <1>8 DEF AlternarEvaluacion, TablasOK, Evaluacion
  <2> QED BY <1>1, <1>4, <1>8, <2>1 DEF AlternarEvaluacion, TablasOK, progreso
<1> QED BY <1>3, <1>5, <1>6, <1>7, <1>8 DEF Instructor

\* An evaluation is never deleted.
LEMMA EvaluationsStay ==
    ASSUME Supuesto, TypeInv, Next
    PROVE  \A e \in Evaluaciones : evaluaciones[e] # Nada => evaluaciones'[e] # Nada
<1>1. /\ evaluaciones \in [Evaluaciones -> Evaluacion \cup {Nada}]
      /\ Nada \notin Evaluacion
  BY DEF TypeInv, TypeOK, Supuesto, ProgressNull
<1>2. CASE UNCHANGED evaluaciones
  BY <1>2
<1>3. ASSUME NEW e \in Evaluaciones, NEW w \in Evaluacion,
             evaluaciones' = [evaluaciones EXCEPT ![e] = w]
      PROVE  \A d \in Evaluaciones : evaluaciones[d] # Nada => evaluaciones'[d] # Nada
  BY <1>1, <1>3
<1>4. ASSUME NEW e \in Evaluaciones, NEW t \in Topes, NuevaEvaluacion(e, t)
      PROVE  \E w \in Evaluacion : evaluaciones' = [evaluaciones EXCEPT ![e] = w]
  <2>1. [max_attempts |-> t, abierta |-> TRUE] \in Evaluacion
    BY DEF Evaluacion
  <2> QED BY <1>4, <2>1 DEF NuevaEvaluacion
<1>5. ASSUME NEW e \in Evaluaciones, NEW t \in Topes, EditarEvaluacion(e, t)
      PROVE  \E w \in Evaluacion : evaluaciones' = [evaluaciones EXCEPT ![e] = w]
  <2>1. [evaluaciones[e] EXCEPT !.max_attempts = t] \in Evaluacion
    BY <1>1, <1>5 DEF EditarEvaluacion, Evaluacion
  <2> QED BY <1>5, <2>1 DEF EditarEvaluacion
<1>6. ASSUME NEW e \in Evaluaciones, AlternarEvaluacion(e)
      PROVE  \E w \in Evaluacion : evaluaciones' = [evaluaciones EXCEPT ![e] = w]
  <2>1. [evaluaciones[e] EXCEPT !.abierta = ~@] \in Evaluacion
    BY <1>1, <1>6 DEF AlternarEvaluacion, Evaluacion
  <2> QED BY <1>6, <2>1 DEF AlternarEvaluacion
<1>7. ASSUME NEW r \in Peticiones, Llega(r) \/ Caer(r) PROVE UNCHANGED evaluaciones
  BY <1>7 DEF Llega, Caer, Matricular, CertificarAMano, MarcarRecurso, TomarEvaluacion,
              SolicitarReapertura, examenes
<1>8. ASSUME NEW r \in Peticiones, Sigue(r) PROVE UNCHANGED evaluaciones
  BY <1>8 DEF Sigue, CrearIndice, GuardarMarca, LeerResumen, CrearResumen, ContarRequeridos,
              ContarCompletados, GuardarResumen, RevisarElegible, EmitirCertificado,
              GuardarIntento, RevisarEvaluaciones, RevisarAvance, Otorgar, GuardarSolicitud,
              examenes
<1>9. ASSUME NEW x \in Recursos, NEW v, NuevoRecurso(x, v) \/ EditarRecurso(x, v) \/ EliminarRecurso(x)
      PROVE  UNCHANGED evaluaciones
  BY <1>9 DEF NuevoRecurso, EditarRecurso, EliminarRecurso, examenes
<1>10. ASSUME NEW s \in Estudiantes, DarDeBaja(s) PROVE UNCHANGED evaluaciones
  BY <1>10 DEF DarDeBaja, examenes
<1>11. ASSUME Instructor
       PROVE  \A d \in Evaluaciones : evaluaciones[d] # Nada => evaluaciones'[d] # Nada
  BY <1>2, <1>3, <1>4, <1>5, <1>6, <1>9, <1>11 DEF Instructor
<1> QED BY <1>2, <1>7, <1>8, <1>10, <1>11 DEF Next

\* The types are kept.
LEMMA TypeStep ==
    Supuesto /\ TypeInv /\ [Next]_vars => TypeInv'
<1> SUFFICES ASSUME Supuesto, TypeInv, [Next]_vars PROVE TypeInv'
  OBVIOUS
<1>1. ASSUME TablasOK', peticion' \in [Peticiones -> Peticion],
             \A q \in Peticiones : SabeDe(peticion[q])'
      PROVE  TypeInv'
  BY <1>1 DEF TypeInv, TypeOK, TablasOK
<1>2. CASE UNCHANGED vars
  BY <1>2 DEF vars, progreso, examenes, TypeInv, TypeOK, SabeDe
<1>3. ASSUME NEW r \in Peticiones, Llega(r) \/ Sigue(r) \/ Caer(r) PROVE TypeInv'
  <2>1. Next
    BY <1>3 DEF Next
  <2> QED BY <1>1, <1>3, <2>1, EvaluationsStay, StartServes, StepServes, ServedType, RequestTables
<1>4. ASSUME Instructor \/ \E s \in Estudiantes : DarDeBaja(s) PROVE TypeInv'
  <2>1. Next
    BY <1>4 DEF Next
  <2>2. TablasOK' /\ UNCHANGED peticion
    BY <1>4, InstructorTables
  <2>3. \A q \in Peticiones : SabeDe(peticion[q])'
    BY <2>1, <2>2, EvaluationsStay DEF TypeInv, SabeDe
  <2> QED BY <1>1, <2>2, <2>3 DEF TypeInv, TypeOK
<1> QED BY <1>2, <1>3, <1>4 DEF Next

\* The types hold at first.
LEMMA TypeInit ==
    ASSUME Supuesto, Init PROVE TypeInv
<1>1. avances \in [Estudiantes -> [Recursos -> Avance \cup {Nada}]]
  BY DEF Init, Vacio, Avance
<1>2. MaxEdiciones \in Nat /\ MaxCaidas \in Nat
  BY DEF Supuesto, ProgressAssumption
<1>3. resumenes \in [Estudiantes -> [Peticiones -> {"no", "parcial", "completo"}]]
  BY DEF Init
<1>4. intentos \in [Estudiantes -> [Evaluaciones -> Intentos]]
  BY DEF Init, Intentos
<1>5. solicitudes \in [Estudiantes -> [Evaluaciones -> Nat]]
      /\ certificados \in [Estudiantes -> Certificados]
  BY DEF Init, Certificados
<1>6. \A r \in Peticiones : peticion[r] = Libre
  BY DEF Init
<1>7. peticion \in [Peticiones -> Peticion] /\ \A r \in Peticiones : SabeDe(peticion[r])
  BY <1>6, LibreType DEF Init, SabeDe, ConFila
<1> QED BY <1>1, <1>2, <1>3, <1>4, <1>5, <1>7 DEF Init, TypeInv, TypeOK

\* Types, for every value of the constants.
THEOREM TypeCorrect ==
    ASSUME Supuesto PROVE Spec => []TypeOK
<1>1. Init => TypeInv
  BY TypeInit
<1>2. TypeInv /\ [Next]_vars => TypeInv'
  BY TypeStep
<1>3. TypeInv => TypeOK
  BY DEF TypeInv
<1> QED BY <1>1, <1>2, <1>3, PTL DEF Spec

----------------------------------------
(* Summaries.  A row is inserted by the request it is named for, it is       *)
(* never taken back, and once completed it stays so.                         *)

Completo(s) == \E f \in Peticiones : resumenes[s][f] = "completo"

RowInv(r) ==
    /\ peticion[r].pc \in ConFila => resumenes[peticion[r].usuario][peticion[r].fila] # "no"
    /\ peticion[r].pc = "crear" => resumenes[peticion[r].usuario][r] = "no"
    /\ peticion[r].pc = "otorgar" => Completo(peticion[r].usuario)

SummaryInv == TypeInv /\ \A r \in Peticiones : RowInv(r)

SinResumir == UNCHANGED resumenes
Inserta(r) == /\ r \in Peticiones /\ CrearResumen(r)
              /\ peticion[r].usuario \in Estudiantes
              /\ resumenes' = [resumenes EXCEPT ![peticion[r].usuario] =
                                  [resumenes[peticion[r].usuario] EXCEPT ![r] = "parcial"]]
Completa(r) == /\ r \in Peticiones /\ EmitirCertificado(r)
               /\ peticion[r].usuario \in Estudiantes /\ peticion[r].fila \in Peticiones
               /\ resumenes' = [resumenes EXCEPT ![peticion[r].usuario] =
                       [resumenes[peticion[r].usuario] EXCEPT ![peticion[r].fila] = "completo"]]

\* What a step does to the summaries.
LEMMA SummaryStep ==
    ASSUME SummaryInv, [Next]_vars
    PROVE  SinResumir \/ \E r \in Peticiones : Inserta(r) \/ Completa(r)
<1>1. ASSUME NEW r \in Peticiones, CrearResumen(r) PROVE Inserta(r)
  BY <1>1 DEF CrearResumen, Inserta, SummaryInv, TypeInv, SabeDe
<1>2. ASSUME NEW r \in Peticiones, EmitirCertificado(r) PROVE SinResumir \/ Completa(r)
  BY <1>2 DEF EmitirCertificado, Completa, SinResumir, SummaryInv, TypeInv, SabeDe, ConFila
<1>3. ASSUME NEW r \in Peticiones, Llega(r) \/ Caer(r) PROVE SinResumir
  BY <1>3 DEF Llega, Caer, Matricular, CertificarAMano, MarcarRecurso, TomarEvaluacion,
              SolicitarReapertura, progreso, SinResumir
<1>4. ASSUME NEW r \in Peticiones, Sigue(r), ~CrearResumen(r), ~EmitirCertificado(r)
      PROVE  SinResumir
  BY <1>4 DEF Sigue, CrearIndice, GuardarMarca, LeerResumen, ContarRequeridos,
              ContarCompletados, GuardarResumen, RevisarElegible,
              GuardarIntento, RevisarEvaluaciones, RevisarAvance, Otorgar, GuardarSolicitud,
              progreso, SinResumir
<1>5. ASSUME Instructor \/ \E s \in Estudiantes : DarDeBaja(s) PROVE SinResumir
  BY <1>5 DEF Instructor, NuevoRecurso, EditarRecurso, EliminarRecurso, NuevaEvaluacion,
              EditarEvaluacion, AlternarEvaluacion, DarDeBaja, progreso, SinResumir
<1>6. CASE UNCHANGED vars
  BY <1>6 DEF vars, progreso, SinResumir
<1> QED BY <1>1, <1>2, <1>3, <1>4, <1>5, <1>6 DEF Next

\* Rows stay, completed rows stay completed, and a row that appears is inserted
\* by its own request.
LEMMA SummariesGrow ==
    ASSUME SummaryInv, [Next]_vars, NEW s \in Estudiantes, NEW f \in Peticiones
    PROVE  /\ resumenes[s][f] # "no" => resumenes'[s][f] # "no"
           /\ resumenes[s][f] = "completo" => resumenes'[s][f] = "completo"
           /\ resumenes[s][f] = "no" /\ resumenes'[s][f] # "no" => CrearResumen(f)
<1>1. resumenes \in [Estudiantes -> [Peticiones -> {"no", "parcial", "completo"}]]
  BY DEF SummaryInv, TypeInv, TypeOK
<1>2. ASSUME NEW r \in Peticiones, Inserta(r)
      PROVE  /\ resumenes'[s][f] # resumenes[s][f] => f = r /\ s = peticion[r].usuario
             /\ resumenes'[peticion[r].usuario][r] = "parcial"
             /\ resumenes[peticion[r].usuario][r] = "no"
  <2>1. resumenes[peticion[r].usuario][r] = "no"
    BY <1>2 DEF Inserta, CrearResumen, SummaryInv, RowInv
  <2> QED BY <1>1, <1>2, <2>1 DEF Inserta
<1>3. ASSUME NEW r \in Peticiones, Completa(r)
      PROVE  /\ resumenes'[s][f] # resumenes[s][f] =>
                    resumenes'[s][f] = "completo" /\ f = peticion[r].fila /\ s = peticion[r].usuario
             /\ resumenes[peticion[r].usuario][peticion[r].fila] # "no"
  <2>1. resumenes[peticion[r].usuario][peticion[r].fila] # "no"
    BY <1>3 DEF Completa, EmitirCertificado, SummaryInv, RowInv, ConFila
  <2> QED BY <1>1, <1>3, <2>1 DEF Completa
<1>4. CASE SinResumir
  BY <1>4 DEF SinResumir
<1>5. ASSUME NEW r \in Peticiones, Inserta(r) PROVE CrearResumen(r)
  BY <1>5 DEF Inserta
<1> QED BY <1>2, <1>3, <1>4, <1>5, SummaryStep

\* A student whose course is recorded as completed remains one.
LEMMA CompletedStays ==
    ASSUME SummaryInv, [Next]_vars, NEW s \in Estudiantes, Completo(s)
    PROVE  Completo(s)'
BY SummariesGrow DEF Completo

\* A request changes in its own steps only.
LEMMA OwnStep ==
    ASSUME Supuesto, TypeInv, [Next]_vars, NEW r \in Peticiones
    PROVE  peticion'[r] = peticion[r] \/ Llega(r) \/ Sigue(r) \/ Caer(r)
<1>1. ASSUME NEW q \in Peticiones, NEW g, Sirve(q, g), q # r PROVE peticion'[r] = peticion[r]
  BY <1>1 DEF Sirve, TypeInv, TypeOK
<1>2. ASSUME NEW q \in Peticiones, Llega(q) \/ Sigue(q) \/ Caer(q), q # r
      PROVE  peticion'[r] = peticion[r]
  BY <1>1, <1>2, StartServes, StepServes
<1>3. CASE Instructor \/ \E s \in Estudiantes : DarDeBaja(s)
  BY <1>3, InstructorTables
<1> QED BY <1>2, <1>3 DEF Next, vars

\* What a request becomes when it starts, and when it ends.
LEMMA StartsOrEnds ==
    ASSUME Supuesto, TypeInv, NEW r \in Peticiones, Llega(r) \/ Terminar(r)
    PROVE  /\ peticion'[r].pc \in {"libre", "indice", "marca", "aprobo", "intento", "reabrir"}
           /\ ~peticion'[r].elegible
<1>1. ASSUME Terminar(r) PROVE peticion'[r].pc = "libre" /\ ~peticion'[r].elegible
  BY <1>1 DEF Terminar, TypeInv, TypeOK, Libre
<1>2. ASSUME NEW s \in Estudiantes, Matricular(r, s) PROVE peticion'[r].pc = "indice" /\ ~peticion'[r].elegible
  BY <1>2 DEF Matricular, TypeInv, TypeOK, Libre
<1>3. ASSUME NEW s \in Estudiantes, CertificarAMano(r, s) PROVE peticion'[r].pc = "aprobo" /\ ~peticion'[r].elegible
  BY <1>3 DEF CertificarAMano, TypeInv, TypeOK, Libre
<1>4. ASSUME NEW s \in Estudiantes, NEW x \in Recursos, MarcarRecurso(r, s, x)
      PROVE  peticion'[r].pc = "marca" /\ ~peticion'[r].elegible
  BY <1>4 DEF MarcarRecurso, TypeInv, TypeOK, Libre
<1>5. ASSUME NEW s \in Estudiantes, NEW e \in Evaluaciones, TomarEvaluacion(r, s, e)
      PROVE  peticion'[r].pc = "intento" /\ ~peticion'[r].elegible
  BY <1>5 DEF TomarEvaluacion, TypeInv, TypeOK, Libre
<1>6. ASSUME NEW s \in Estudiantes, NEW e \in Evaluaciones, SolicitarReapertura(r, s, e)
      PROVE  peticion'[r].pc = "reabrir" /\ ~peticion'[r].elegible
  BY <1>6 DEF SolicitarReapertura, TypeInv, TypeOK, Libre
<1> QED BY <1>1, <1>2, <1>3, <1>4, <1>5, <1>6 DEF Llega

\* A request that only goes on keeps the rest of what it knows.
LEMMA OnlyGoesOn ==
    ASSUME TypeInv, NEW r \in Peticiones, NEW pc, Avanzar(r, pc)
    PROVE  /\ peticion'[r].pc = pc /\ peticion'[r].usuario = peticion[r].usuario
           /\ peticion'[r].fila = peticion[r].fila
           /\ peticion'[r].requeridos = peticion[r].requeridos
           /\ peticion'[r].completados = peticion[r].completados
           /\ peticion'[r].elegible = peticion[r].elegible
           /\ peticion'[r].evaluacion = peticion[r].evaluacion
           /\ peticion'[r].instructor = peticion[r].instructor
BY DEF Avanzar, TypeInv, TypeOK, Peticion

\* A request that reads: the row it holds, the counts and the answer.
LEMMA ReadsRow ==
    ASSUME TypeInv, NEW r \in Peticiones, NEW f,
           peticion' = [peticion EXCEPT ![r].pc = "requeridos", ![r].fila = f]
    PROVE  /\ peticion'[r].pc = "requeridos" /\ peticion'[r].usuario = peticion[r].usuario
           /\ peticion'[r].fila = f /\ peticion'[r].elegible = peticion[r].elegible
BY DEF TypeInv, TypeOK, Peticion

\* What the two counts of the roll-up note in a request, and what they leave.
LEMMA ReadsCounts ==
    ASSUME TypeInv, NEW r \in Peticiones, ContarRequeridos(r) \/ ContarCompletados(r)
    PROVE  /\ peticion'[r].usuario = peticion[r].usuario
           /\ peticion'[r].fila = peticion[r].fila
           /\ peticion'[r].elegible = peticion[r].elegible
           /\ ContarRequeridos(r) => /\ peticion'[r].pc = "completados"
                                     /\ peticion'[r].requeridos = Cardinality(Requeridos)
           /\ ContarCompletados(r) =>
                 /\ peticion'[r].pc = "guardar"
                 /\ peticion'[r].requeridos = peticion[r].requeridos
                 /\ peticion'[r].completados = Cardinality(Completados(peticion[r].usuario))
<1>1. CASE ContarRequeridos(r)
  BY <1>1 DEF ContarRequeridos, ContarCompletados, TypeInv, TypeOK, Peticion
<1>2. CASE ContarCompletados(r)
  BY <1>2 DEF ContarRequeridos, ContarCompletados, TypeInv, TypeOK, Peticion
<1> QED BY <1>1, <1>2

\* The answer that a request is given came from the results as they were then.
LEMMA ReadsAnswer ==
    ASSUME TypeInv, NEW r \in Peticiones, RevisarElegible(r)
    PROVE  /\ peticion'[r].pc = "emitir" /\ peticion'[r].usuario = peticion[r].usuario
           /\ peticion'[r].fila = peticion[r].fila
           /\ peticion'[r].elegible => EvaluacionesAprobadas(peticion[r].usuario)
           /\ \E f \in Filas(peticion[r].usuario) :
                 peticion'[r].elegible =
                    (/\ EvaluacionesAprobadas(peticion[r].usuario)
                     /\ f = peticion[r].fila \/ resumenes[peticion[r].usuario][f] = "completo")
<1> DEFINE q == peticion[r]
<1>1. PICK f \in Filas(q.usuario) :
          peticion' = [peticion EXCEPT ![r].pc = "emitir",
             ![r].elegible = /\ EvaluacionesAprobadas(q.usuario)
                             /\ f = q.fila \/ resumenes[q.usuario][f] = "completo"]
  BY DEF RevisarElegible
<1>2. PICK b \in BOOLEAN : b = (/\ EvaluacionesAprobadas(q.usuario)
                                /\ f = q.fila \/ resumenes[q.usuario][f] = "completo")
  OBVIOUS
<1>3. peticion' = [peticion EXCEPT ![r].pc = "emitir", ![r].elegible = b]
  BY <1>1, <1>2
<1>4. /\ peticion'[r].pc = "emitir" /\ peticion'[r].usuario = q.usuario
      /\ peticion'[r].fila = q.fila /\ peticion'[r].elegible = b
  BY <1>3 DEF TypeInv, TypeOK, Peticion
<1>5. peticion'[r].elegible =
          (/\ EvaluacionesAprobadas(q.usuario)
           /\ f = q.fila \/ resumenes[q.usuario][f] = "completo")
  BY <1>2, <1>4
<1>6. peticion'[r].elegible => EvaluacionesAprobadas(q.usuario)
  BY <1>5
<1> QED BY <1>1, <1>4, <1>5, <1>6

\* A request under way goes on, or ends: it does not start another thing.
LEMMA ServedGoesOn ==
    ASSUME Supuesto, TypeInv, NEW r \in Peticiones, Sigue(r) \/ Caer(r)
    PROVE  peticion'[r].pc \notin {"indice", "marca", "intento", "reabrir"}
<1>1. CASE Terminar(r)
  BY <1>1, StartsOrEnds, LibreType DEF Terminar, TypeInv, TypeOK
<1>2. ASSUME NEW pc \in {"resumen", "crear", "elegible", "emitir", "aprobo", "avance", "otorgar"},
             Avanzar(r, pc)
      PROVE  peticion'[r].pc \notin {"indice", "marca", "intento", "reabrir"}
  BY <1>2, OnlyGoesOn
<1>3. CASE LeerResumen(r)
  BY <1>2, <1>3, ReadsRow DEF LeerResumen
<1>4. CASE CrearResumen(r)
  BY <1>4, ReadsRow DEF CrearResumen
<1>5. CASE ContarRequeridos(r) \/ ContarCompletados(r)
  BY <1>5, ReadsCounts
<1>6. CASE GuardarResumen(r)
  BY <1>1, <1>2, <1>6 DEF GuardarResumen
<1>7. CASE RevisarElegible(r)
  BY <1>7, ReadsAnswer
<1>8. CASE RevisarEvaluaciones(r) \/ RevisarAvance(r)
  BY <1>1, <1>2, <1>8 DEF RevisarEvaluaciones, RevisarAvance
<1>9. CASE GuardarMarca(r) \/ \E b \in BOOLEAN : GuardarIntento(r, b)
  BY <1>1, <1>2, <1>9 DEF GuardarMarca, GuardarIntento
<1>10. CASE CrearIndice(r) \/ EmitirCertificado(r) \/ Otorgar(r) \/ GuardarSolicitud(r) \/ Caer(r)
  BY <1>1, <1>10 DEF CrearIndice, EmitirCertificado, Otorgar, GuardarSolicitud, Caer
<1> QED BY <1>3, <1>4, <1>5, <1>6, <1>7, <1>8, <1>9, <1>10 DEF Sigue

\* What requests hold of the summaries stays true.
LEMMA RowStep ==
    ASSUME Supuesto, SummaryInv, [Next]_vars, NEW r \in Peticiones
    PROVE  RowInv(r)'
<1> DEFINE q == peticion[r]
           g == peticion'[r]
<1>0. TypeInv /\ RowInv(r) /\ SabeDe(q)
  BY DEF SummaryInv, TypeInv
<1>1. CASE g = q
  <2>1. q.pc = "crear" => ~CrearResumen(r)
    BY <1>1, ReadsRow, <1>0 DEF CrearResumen
  <2>2. q.pc \in ConFila => q.usuario \in Estudiantes /\ q.fila \in Peticiones
    BY <1>0 DEF SabeDe, ConFila
  <2>3. q.pc \in {"crear", "otorgar"} => q.usuario \in Estudiantes
    BY <1>0 DEF SabeDe
  <2> QED BY <1>0, <1>1, <2>1, <2>2, <2>3, SummariesGrow, CompletedStays DEF RowInv, ConFila, Completo
<1>2. CASE Llega(r) \/ Terminar(r)
  BY <1>0, <1>2, StartsOrEnds DEF RowInv, ConFila
<1>3. CASE LeerResumen(r)
  <2>1. CASE Avanzar(r, "crear") /\ Filas(q.usuario) = {}
    BY <1>0, <1>3, <2>1, OnlyGoesOn DEF LeerResumen, Filas, RowInv, ConFila, progreso
  <2>2. ASSUME NEW f \in Filas(q.usuario),
               peticion' = [peticion EXCEPT ![r].pc = "requeridos", ![r].fila = f]
        PROVE  RowInv(r)'
    BY <1>0, <1>3, <2>2, ReadsRow DEF LeerResumen, Filas, RowInv, progreso
  <2> QED BY <1>3, <2>1, <2>2 DEF LeerResumen
<1>4. CASE CrearResumen(r)
  <2>1. q.usuario \in Estudiantes
    BY <1>0, <1>4 DEF CrearResumen, SabeDe
  <2>2. resumenes'[q.usuario][r] = "parcial"
    BY <1>0, <1>4, <2>1 DEF CrearResumen, TypeInv, TypeOK
  <2> QED BY <1>0, <1>4, <2>2, ReadsRow DEF CrearResumen, RowInv
<1>5. CASE ContarRequeridos(r) \/ ContarCompletados(r)
  BY <1>0, <1>5, ReadsCounts DEF ContarRequeridos, ContarCompletados, RowInv, ConFila, progreso
<1>6. CASE GuardarResumen(r)
  BY <1>0, <1>2, <1>6, OnlyGoesOn DEF GuardarResumen, RowInv, ConFila, progreso
<1>7. CASE RevisarElegible(r)
  BY <1>0, <1>7, ReadsAnswer DEF RevisarElegible, RowInv, ConFila, progreso
<1>8. CASE RevisarAvance(r)
  <2>1. Terminar(r) \/ \E f \in Filas(q.usuario) : CursoCompletado(q.usuario, f) /\ Avanzar(r, "otorgar")
    BY <1>8 DEF RevisarAvance
  <2>2. CASE Avanzar(r, "otorgar") /\ Completo(q.usuario)
    BY <1>0, <1>8, <2>2, OnlyGoesOn DEF RevisarAvance, RowInv, ConFila, progreso, Completo
  <2> QED BY <1>2, <2>1, <2>2 DEF CursoCompletado, Filas, Completo
<1>9. ASSUME NEW pc \in {"resumen", "aprobo", "avance"}, Avanzar(r, pc) PROVE RowInv(r)'
  BY <1>0, <1>9, OnlyGoesOn DEF RowInv, ConFila
<1>10. CASE Sigue(r)
  BY <1>2, <1>3, <1>4, <1>5, <1>6, <1>7, <1>8, <1>9, <1>10
  DEF Sigue, CrearIndice, GuardarMarca, EmitirCertificado, GuardarIntento, RevisarEvaluaciones,
      Otorgar, GuardarSolicitud
<1>11. CASE Caer(r)
  BY <1>2, <1>11 DEF Caer
<1> QED BY <1>0, <1>1, <1>2, <1>10, <1>11, OwnStep

\* The summaries are kept.
LEMMA SummaryInvStep ==
    Supuesto /\ SummaryInv /\ [Next]_vars => SummaryInv'
BY TypeStep, RowStep DEF SummaryInv

\* There is no summary, and no request, at first.
LEMMA SummaryInit ==
    Supuesto /\ Init => SummaryInv
<1> SUFFICES ASSUME Supuesto, Init PROVE SummaryInv
  OBVIOUS
<1>1. \A r \in Peticiones : peticion[r].pc = "libre"
  BY LibreType DEF Init
<1> QED BY <1>1, TypeInit DEF SummaryInv, RowInv, ConFila

\* A certificate is issued, by the roll-up, by an evaluation or by hand, only to
\* a student whose course is recorded as completed by then, whatever the
\* instructor changes and however many requests there are.
LEMMA CertifiedStep ==
    Supuesto /\ SummaryInv /\ [Next]_vars => CertificateHadCompletion
<1> SUFFICES ASSUME Supuesto, SummaryInv, [Next]_vars, NEW s \in Estudiantes,
                    certificados'[s] # certificados[s]
             PROVE  Completo(s)'
  BY DEF CertificateHadCompletion, Completo
<1>1. TypeInv /\ certificados \in [Estudiantes -> Certificados]
  BY DEF SummaryInv, TypeInv, TypeOK
<1>2. ASSUME NEW r \in Peticiones, EmitirCertificado(r) PROVE Completo(s)'
  <2>1. peticion[r].usuario \in Estudiantes /\ peticion[r].fila \in Peticiones
    BY <1>1, <1>2 DEF EmitirCertificado, TypeInv, SabeDe, ConFila
  <2>2. s = peticion[r].usuario
    BY <1>1, <1>2, <2>1 DEF EmitirCertificado, Emitido
  <2>3. resumenes' = [resumenes EXCEPT ![s][peticion[r].fila] = "completo"]
    BY <1>2, <2>2 DEF EmitirCertificado
  <2>4. resumenes'[s][peticion[r].fila] = "completo"
    BY <1>1, <2>1, <2>3 DEF TypeInv, TypeOK
  <2> QED BY <2>1, <2>4 DEF Completo
<1>3. ASSUME NEW r \in Peticiones, Otorgar(r) PROVE Completo(s)'
  <2>1. s = peticion[r].usuario
    BY <1>1, <1>3 DEF Otorgar, Emitido, EmitidoPorInstructor
  <2>2. Completo(s)
    BY <1>3, <2>1 DEF Otorgar, SummaryInv, RowInv
  <2> QED BY <2>2, CompletedStays
<1>4. ASSUME NEW r \in Peticiones, Llega(r) \/ Caer(r) PROVE UNCHANGED certificados
  BY <1>4 DEF Llega, Caer, Matricular, CertificarAMano, MarcarRecurso, TomarEvaluacion,
              SolicitarReapertura
<1>5. ASSUME NEW r \in Peticiones, Sigue(r), ~Otorgar(r), ~EmitirCertificado(r)
      PROVE  UNCHANGED certificados
  BY <1>5 DEF Sigue, CrearIndice, GuardarMarca, LeerResumen, CrearResumen, ContarRequeridos,
              ContarCompletados, GuardarResumen, RevisarElegible,
              GuardarIntento, RevisarEvaluaciones, RevisarAvance, GuardarSolicitud
<1>6. ASSUME Instructor \/ \E t \in Estudiantes : DarDeBaja(t) PROVE UNCHANGED certificados
  BY <1>6 DEF Instructor, NuevoRecurso, EditarRecurso, EliminarRecurso, NuevaEvaluacion,
              EditarEvaluacion, AlternarEvaluacion, DarDeBaja
<1> QED BY <1>2, <1>3, <1>4, <1>5, <1>6 DEF Next, vars

\* The same of the specification.
THEOREM CertificateHadCompletionTheorem ==
    ASSUME Supuesto PROVE Spec => [][CertificateHadCompletion]_vars
<1>1. Init => SummaryInv
  BY SummaryInit
<1>2. SummaryInv /\ [Next]_vars => SummaryInv'
  BY SummaryInvStep
<1>3. SummaryInv /\ [Next]_vars => [CertificateHadCompletion]_vars
  BY CertifiedStep
<1> QED BY <1>1, <1>2, <1>3, PTL DEF Spec

----------------------------------------
(* Certificates are earned, while the instructor changes nothing.  A row     *)
(* that counts is a row of a required resource, so that reaching the number  *)
(* of required resources is having completed each of them.                   *)

SinEdiciones == Supuesto /\ MaxEdiciones = 0

\* The flag of a row is that of its resource, and a completed row has one.
FlagsAgree ==
    \A s \in Estudiantes, x \in Recursos : avances[s][x] # Nada =>
        /\ avances[s][x].requerido # Nada => avances[s][x].requerido = recursos[x]
        /\ avances[s][x].completado => avances[s][x].requerido # Nada

EarnedBy(q) ==
    /\ q.pc \in {"indice", "marca"} =>
          \A x \in Recursos : q.banderas[x] # Nada => q.banderas[x] = recursos[x]
    /\ q.pc = "marca" => q.banderas[q.recurso] # Nada
    /\ q.pc \in {"completados", "guardar"} => q.requeridos = Cardinality(Requeridos)
    /\ q.pc = "guardar" => q.completados <= Cardinality(Completados(q.usuario))
    /\ q.pc \in {"elegible", "emitir", "otorgar"} => Requeridos \subseteq Completados(q.usuario)
    /\ q.elegible => q.pc = "emitir" /\ EvaluacionesAprobadas(q.usuario)
    /\ q.pc \in {"avance", "otorgar"} => EvaluacionesAprobadas(q.usuario)

SummaryEarned == \A s \in Estudiantes : Completo(s) => Requeridos \subseteq Completados(s)
CertificateEarned == \A s \in Estudiantes :
    TieneCertificado(s) => Requeridos \subseteq Completados(s) /\ EvaluacionesAprobadas(s)

EarnedInv ==
    /\ SummaryInv
    /\ FlagsAgree
    /\ SummaryEarned
    /\ CertificateEarned
    /\ \A r \in Peticiones : EarnedBy(peticion[r])

\* Without changes by the instructor resources and evaluations stay as they are.
LEMMA NothingEdited ==
    ASSUME SinEdiciones, TypeInv, [Next]_vars
    PROVE  UNCHANGED <<curso, recursos, evaluaciones>> /\ Requeridos' = Requeridos
<1>1. ~Editar
  BY DEF Editar, TypeInv, TypeOK, SinEdiciones
<1>2. ~Instructor
  BY <1>1 DEF Instructor, NuevoRecurso, EditarRecurso, EliminarRecurso, NuevaEvaluacion,
              EditarEvaluacion, AlternarEvaluacion
<1>3. ASSUME NEW r \in Peticiones, Llega(r) \/ Caer(r)
      PROVE  UNCHANGED <<curso, recursos, evaluaciones>>
  BY <1>3 DEF Llega, Caer, Matricular, CertificarAMano, MarcarRecurso, TomarEvaluacion,
              SolicitarReapertura, examenes
<1>4. ASSUME NEW r \in Peticiones, Sigue(r) PROVE UNCHANGED <<curso, recursos, evaluaciones>>
  BY <1>4 DEF Sigue, CrearIndice, GuardarMarca, LeerResumen, CrearResumen, ContarRequeridos,
              ContarCompletados, GuardarResumen, RevisarElegible, EmitirCertificado,
              GuardarIntento, RevisarEvaluaciones, RevisarAvance, Otorgar, GuardarSolicitud,
              examenes
<1>5. ASSUME NEW s \in Estudiantes, DarDeBaja(s) PROVE UNCHANGED <<curso, recursos, evaluaciones>>
  BY <1>5 DEF DarDeBaja, examenes
<1>6. UNCHANGED <<curso, recursos, evaluaciones>>
  BY <1>2, <1>3, <1>4, <1>5 DEF Next, vars, examenes
<1> QED BY <1>6 DEF Requeridos

\* What a step writes of a progress row: nothing, a new row of the index, or a mark.
LEMMA ProgressStep ==
    ASSUME SinEdiciones, EarnedInv, [Next]_vars, NEW s \in Estudiantes, NEW x \in Recursos
    PROVE  \/ avances'[s][x] = avances[s][x]
           \/ /\ avances[s][x] = Nada
              /\ avances'[s][x] = [completado |-> FALSE, requerido |-> recursos[x]]
           \/ /\ recursos[x] # Nada
              /\ avances'[s][x] = [completado |-> TRUE, requerido |-> recursos[x]]
<1>1. /\ TypeInv /\ avances \in [Estudiantes -> [Recursos -> Avance \cup {Nada}]]
      /\ Nada \notin Avance
  BY DEF EarnedInv, SummaryInv, TypeInv, TypeOK, SinEdiciones, Supuesto, ProgressNull
<1>2. CASE UNCHANGED avances
  BY <1>2
<1>3. ASSUME NEW r \in Peticiones, CrearIndice(r)
      PROVE  \/ avances'[s][x] = avances[s][x]
             \/ /\ avances[s][x] = Nada
                /\ avances'[s][x] = [completado |-> FALSE, requerido |-> recursos[x]]
  <2> DEFINE q == peticion[r]
             faltan == {y \in Recursos : q.banderas[y] # Nada}
             nueva == [y \in Recursos |-> IF y \in faltan
                          THEN [completado |-> FALSE, requerido |-> q.banderas[y]]
                          ELSE avances[q.usuario][y]]
  <2>1. /\ q.usuario \in Estudiantes
        /\ \A y \in Recursos : q.banderas[y] # Nada => q.banderas[y] = recursos[y]
    BY <1>1, <1>3 DEF CrearIndice, EarnedInv, EarnedBy, TypeInv, SabeDe
  <2>2. \/ avances' = avances
        \/ /\ avances' = [avances EXCEPT ![q.usuario] = nueva]
           /\ \A y \in faltan : avances[q.usuario][y] = Nada
    BY <1>3 DEF CrearIndice
  <2>3. /\ x \in faltan => nueva[x] = [completado |-> FALSE, requerido |-> recursos[x]]
        /\ x \notin faltan => nueva[x] = avances[q.usuario][x]
    BY <2>1
  <2> HIDE DEF nueva
  <2>5. avances' = [avances EXCEPT ![q.usuario] = nueva]
            => avances'[s][x] = IF s = q.usuario THEN nueva[x] ELSE avances[s][x]
    BY <1>1, <2>1
  <2> HIDE DEF faltan
  <2> QED BY <2>2, <2>3, <2>5
<1>4. ASSUME NEW r \in Peticiones, GuardarMarca(r)
      PROVE  \/ avances'[s][x] = avances[s][x]
             \/ /\ recursos[x] # Nada
                /\ avances'[s][x] = [completado |-> TRUE, requerido |-> recursos[x]]
  <2> DEFINE q == peticion[r]
             a == avances[q.usuario][q.recurso]
  <2>1. /\ q.usuario \in Estudiantes /\ q.recurso \in Recursos
        /\ q.banderas[q.recurso] # Nada /\ q.banderas[q.recurso] = recursos[q.recurso]
        /\ q.leida \in BOOLEAN
    BY <1>1, <1>4 DEF GuardarMarca, EarnedInv, EarnedBy, TypeInv, SabeDe, TypeOK, Peticion
  <2>2. \/ avances' = avances
        \/ /\ (a # Nada) = q.leida
           /\ avances' = [avances EXCEPT ![q.usuario][q.recurso] =
                             Marca(a, q.leida, q.banderas[q.recurso])]
    BY <1>4, <2>1 DEF GuardarMarca
  <2>3. a # Nada /\ a.requerido # Nada => a.requerido = recursos[q.recurso]
    BY <2>1 DEF EarnedInv, FlagsAgree
  <2>4. (a # Nada) = q.leida =>
        Marca(a, q.leida, q.banderas[q.recurso]) = [completado |-> TRUE, requerido |-> recursos[q.recurso]]
    BY <2>1, <2>3 DEF Marca
  <2>5. PICK m : m = Marca(a, q.leida, q.banderas[q.recurso])
    OBVIOUS
  <2>6. avances' = [avances EXCEPT ![q.usuario][q.recurso] = m] =>
        avances'[s][x] = IF s = q.usuario /\ x = q.recurso THEN m ELSE avances[s][x]
    BY <1>1, <2>1
  <2> QED BY <2>1, <2>2, <2>4, <2>5, <2>6
<1>5. ASSUME NEW r \in Peticiones, Llega(r) \/ Caer(r) PROVE UNCHANGED avances
  BY <1>5 DEF Llega, Caer, Matricular, CertificarAMano, MarcarRecurso, TomarEvaluacion,
              SolicitarReapertura, progreso
<1>6. ASSUME NEW r \in Peticiones, Sigue(r), ~CrearIndice(r), ~GuardarMarca(r)
      PROVE  UNCHANGED avances
  BY <1>6 DEF Sigue, LeerResumen, CrearResumen, ContarRequeridos,
              ContarCompletados, GuardarResumen, RevisarElegible, EmitirCertificado,
              GuardarIntento, RevisarEvaluaciones, RevisarAvance, Otorgar, GuardarSolicitud,
              progreso
<1>7. ASSUME NEW t \in Estudiantes, DarDeBaja(t) PROVE UNCHANGED avances
  BY <1>7 DEF DarDeBaja
<1>8. ~Instructor
  BY <1>1 DEF Instructor, NuevoRecurso, EditarRecurso, EliminarRecurso, NuevaEvaluacion,
              EditarEvaluacion, AlternarEvaluacion, Editar, TypeInv, TypeOK, SinEdiciones
<1> QED BY <1>2, <1>3, <1>4, <1>5, <1>6, <1>7, <1>8 DEF Next, vars, progreso

\* The flags go on agreeing, and what was completed stays completed.
LEMMA FlagsStep ==
    ASSUME SinEdiciones, EarnedInv, [Next]_vars
    PROVE  FlagsAgree' /\ \A s \in Estudiantes : Completados(s) \subseteq Completados(s)'
<1>1. TypeInv /\ Nada \notin Avance /\ UNCHANGED recursos
  BY NothingEdited DEF EarnedInv, SummaryInv, SinEdiciones, Supuesto, ProgressNull
<1>3. FlagsAgree'
  <2> SUFFICES ASSUME NEW s \in Estudiantes, NEW x \in Recursos, avances'[s][x] # Nada
               PROVE  /\ avances'[s][x].requerido # Nada => avances'[s][x].requerido = recursos[x]
                      /\ avances'[s][x].completado => avances'[s][x].requerido # Nada
    BY <1>1 DEF FlagsAgree
  <2>1. CASE avances'[s][x] = avances[s][x]
    BY <2>1 DEF FlagsAgree, EarnedInv
  <2>2. ASSUME NEW c \in BOOLEAN, c => recursos[x] # Nada,
               avances'[s][x] = [completado |-> c, requerido |-> recursos[x]]
        PROVE  /\ avances'[s][x].requerido # Nada => avances'[s][x].requerido = recursos[x]
               /\ avances'[s][x].completado => avances'[s][x].requerido # Nada
    BY <2>2
  <2> QED BY <2>1, <2>2, ProgressStep
<1>4. ASSUME NEW s \in Estudiantes, NEW x \in Completados(s) PROVE x \in Completados(s)'
  <2>1. x \in Recursos /\ avances[s][x] # Nada /\ avances[s][x].completado
        /\ avances[s][x].requerido = "required"
    BY DEF Completados
  <2>2. recursos[x] = "required"
    BY <2>1 DEF EarnedInv, FlagsAgree, SinEdiciones, Supuesto, ProgressNull
  <2>3. [completado |-> TRUE, requerido |-> recursos[x]] \in Avance
    BY <2>2 DEF Avance
  <2>4. PICK m : m = [completado |-> TRUE, requerido |-> recursos[x]]
    OBVIOUS
  <2>5. m # Nada /\ m.completado /\ m.requerido = "required"
    BY <1>1, <2>2, <2>3, <2>4
  <2>6. avances'[s][x] = avances[s][x] \/ avances'[s][x] = m
    BY <2>1, <2>4, ProgressStep
  <2> QED BY <2>1, <2>5, <2>6 DEF Completados
<1> QED BY <1>3, <1>4

\* A row that counts is of a required resource.
LEMMA CompletedAreRequired ==
    ASSUME SinEdiciones, FlagsAgree, NEW s \in Estudiantes
    PROVE  Completados(s) \subseteq Requeridos
BY DEF Completados, Requeridos, FlagsAgree, SinEdiciones, Supuesto, ProgressNull

\* Reaching the number of required resources is completing them.
LEMMA ReachedIsCompleted ==
    ASSUME SinEdiciones, FlagsAgree, NEW s \in Estudiantes, NEW n \in Nat,
           n <= Cardinality(Completados(s)), Alcanza(n, Cardinality(Requeridos))
    PROVE  Requeridos \subseteq Completados(s)
<1>1. Completados(s) \subseteq Requeridos
  BY CompletedAreRequired
<1>2. IsFiniteSet(Requeridos) /\ Cardinality(Requeridos) \in Nat /\ Cardinality(Completados(s)) \in Nat
  BY CountsType DEF SinEdiciones
<1>3. Cardinality(Requeridos) <= Cardinality(Completados(s))
  BY <1>2 DEF Alcanza
<1>4. Cardinality(Completados(s)) <= Cardinality(Requeridos)
      /\ (Cardinality(Completados(s)) = Cardinality(Requeridos) => Completados(s) = Requeridos)
  BY <1>1, <1>2, FS_Subset
<1> QED BY <1>2, <1>3, <1>4

\* What was passed stays passed.
LEMMA PassedStays ==
    ASSUME SinEdiciones, TypeInv, [Next]_vars, NEW s \in Estudiantes, EvaluacionesAprobadas(s)
    PROVE  EvaluacionesAprobadas(s)'
<1>1. UNCHANGED evaluaciones
  BY NothingEdited
<1>2. intentos \in [Estudiantes -> [Evaluaciones -> Intentos]]
  BY DEF TypeInv, TypeOK
<1>3. ASSUME NEW r \in Peticiones, NEW b \in BOOLEAN, GuardarIntento(r, b), NEW e \in Evaluaciones,
             intentos[s][e].aprobada
      PROVE  intentos'[s][e].aprobada
  <2> DEFINE q == peticion[r]
  <2>1. q.usuario \in Estudiantes /\ q.evaluacion \in Evaluaciones
    BY <1>3 DEF GuardarIntento, TypeInv, SabeDe
  <2>2. PICK m : m = [n |-> intentos[q.usuario][q.evaluacion].n + 1,
                      aprobada |-> intentos[q.usuario][q.evaluacion].aprobada \/ b]
    OBVIOUS
  <2>3. intentos' = [intentos EXCEPT ![q.usuario][q.evaluacion] = m]
    BY <1>3, <2>2 DEF GuardarIntento
  <2>4. intentos'[s][e] = IF s = q.usuario /\ e = q.evaluacion THEN m ELSE intentos[s][e]
    BY <1>2, <2>1, <2>3
  <2>5. intentos[q.usuario][q.evaluacion].aprobada => m.aprobada
    BY <2>2
  <2> QED BY <1>3, <2>4, <2>5
<1>4. CASE UNCHANGED intentos
  BY <1>1, <1>4 DEF EvaluacionesAprobadas
<1>5. ASSUME NEW r \in Peticiones, Llega(r) \/ Caer(r) PROVE UNCHANGED intentos
  BY <1>5 DEF Llega, Caer, Matricular, CertificarAMano, MarcarRecurso, TomarEvaluacion,
              SolicitarReapertura, examenes
<1>6. ASSUME NEW r \in Peticiones, Sigue(r), ~\E b \in BOOLEAN : GuardarIntento(r, b)
      PROVE  UNCHANGED intentos
  BY <1>6 DEF Sigue, CrearIndice, GuardarMarca, LeerResumen, CrearResumen, ContarRequeridos,
              ContarCompletados, GuardarResumen, RevisarElegible, EmitirCertificado,
              RevisarEvaluaciones, RevisarAvance, Otorgar, GuardarSolicitud, examenes
<1>7. ASSUME Instructor \/ \E t \in Estudiantes : DarDeBaja(t) PROVE UNCHANGED intentos
  BY <1>7 DEF Instructor, NuevoRecurso, EditarRecurso, EliminarRecurso, NuevaEvaluacion,
              EditarEvaluacion, AlternarEvaluacion, DarDeBaja, examenes
<1>8. ASSUME NEW r \in Peticiones, NEW b \in BOOLEAN, GuardarIntento(r, b)
      PROVE  EvaluacionesAprobadas(s)'
  BY <1>1, <1>3, <1>8 DEF EvaluacionesAprobadas
<1> QED BY <1>4, <1>5, <1>6, <1>7, <1>8 DEF Next, vars, examenes

\* What a request holds is still earned when other requests commit.
LEMMA EarnedKept ==
    ASSUME SinEdiciones, EarnedInv, [Next]_vars, NEW q \in Peticion, EarnedBy(q), SabeDe(q)
    PROVE  EarnedBy(q)'
<1>1. UNCHANGED recursos /\ Requeridos' = Requeridos
  BY NothingEdited DEF EarnedInv, SummaryInv
<1>2. q.pc # "libre" => q.usuario \in Estudiantes
  BY DEF SabeDe
<1>3. \A s \in Estudiantes :
          /\ Completados(s) \subseteq Completados(s)'
          /\ EvaluacionesAprobadas(s) => EvaluacionesAprobadas(s)'
  BY FlagsStep, PassedStays DEF EarnedInv, SummaryInv
<1>4. ASSUME NEW s \in Estudiantes
      PROVE  /\ Cardinality(Completados(s)) \in Nat
             /\ Cardinality(Completados(s)') \in Nat
             /\ Cardinality(Completados(s)) <= Cardinality(Completados(s)')
  <2>1. IsFiniteSet(Completados(s)') /\ Cardinality(Completados(s)') \in Nat
    <3>1. IsFiniteSet(Recursos) /\ Completados(s)' \subseteq Recursos
      BY DEF SinEdiciones, Supuesto, ProgressAssumption, Completados
    <3> QED BY <3>1, FS_Subset, FS_CardinalityType
  <2>2. Cardinality(Completados(s)) \in Nat
    BY CountsType DEF SinEdiciones
  <2> QED BY <1>3, <2>1, <2>2, FS_Subset
<1>5. ASSUME q.pc = "guardar", q.completados <= Cardinality(Completados(q.usuario))
      PROVE  q.completados <= Cardinality(Completados(q.usuario)')
  <2>1. PICK s \in Estudiantes : s = q.usuario
    BY <1>2, <1>5
  <2>2. q.completados \in Nat
    BY DEF Peticion
  <2>3. PICK m \in Nat : m = Cardinality(Completados(s)')
    BY <1>4
  <2> QED BY <1>4, <1>5, <2>1, <2>2, <2>3
<1> QED BY <1>1, <1>2, <1>3, <1>5 DEF EarnedBy

\* What a request does next is earned.
LEMMA EarnedNext ==
    ASSUME SinEdiciones, EarnedInv, [Next]_vars, NEW r \in Peticiones
    PROVE  EarnedBy(peticion[r])'
<1> DEFINE q == peticion[r]
           g == peticion'[r]
<1>0. /\ Supuesto /\ TypeInv /\ SummaryInv /\ EarnedBy(q) /\ SabeDe(q) /\ RowInv(r)
      /\ UNCHANGED <<recursos, evaluaciones>> /\ Requeridos' = Requeridos
      /\ q \in Peticion
  BY NothingEdited DEF EarnedInv, SummaryInv, TypeInv, SinEdiciones, TypeOK
<1>1. CASE g = q
  <2>1. PICK c \in Peticion : c = q
    BY <1>0
  <2>2. EarnedBy(c) /\ SabeDe(c)
    BY <1>0, <2>1
  <2>3. EarnedBy(c)'
    BY <2>2, EarnedKept
  <2>4. peticion'[r] = c
    BY <1>1, <2>1
  <2> HIDE DEF q, g
  <2> QED BY <2>3, <2>4 DEF EarnedBy, EvaluacionesAprobadas, Completados, Requeridos
<1>2. ASSUME ~g.elegible, g.pc \notin {"indice", "marca", "completados", "guardar", "elegible",
                                       "emitir", "avance", "otorgar"}
      PROVE  EarnedBy(peticion[r])'
  BY <1>2 DEF EarnedBy
<1>3. CASE Terminar(r)
  BY <1>0, <1>2, <1>3, LibreType DEF Terminar, Libre, TypeInv, TypeOK
<1>4. ASSUME NEW pc \in {"resumen", "crear", "aprobo"}, Avanzar(r, pc), q.pc # "emitir"
      PROVE  EarnedBy(peticion[r])'
  BY <1>0, <1>2, <1>4, OnlyGoesOn DEF EarnedBy
<1>5. ASSUME NEW s \in Estudiantes, Matricular(r, s) PROVE EarnedBy(peticion[r])'
  <2>1. g.pc = "indice" /\ g.banderas = SinFila(s) /\ ~g.elegible
    BY <1>0, <1>5 DEF Matricular, Libre, TypeInv, TypeOK
  <2>2. \A x \in Recursos : SinFila(s)[x] # Nada => SinFila(s)[x] = recursos[x]
    BY DEF SinFila
  <2> QED BY <1>0, <2>1, <2>2 DEF EarnedBy
<1>6. ASSUME NEW s \in Estudiantes, NEW x \in Recursos, MarcarRecurso(r, s, x)
      PROVE  EarnedBy(peticion[r])'
  <2>1. /\ g.pc = "marca" /\ ~g.elegible /\ g.recurso = x
        /\ g.banderas = [Libre.banderas EXCEPT ![x] = recursos[x]]
    BY <1>0, <1>6 DEF MarcarRecurso, Libre, TypeInv, TypeOK
  <2>2. recursos[x] # Nada
    BY <1>6 DEF MarcarRecurso, EnCurso, SinEdiciones, Supuesto, ProgressNull
  <2>3. \A y \in Recursos : g.banderas[y] = IF y = x THEN recursos[x] ELSE Nada
    BY <2>1, LibreType
  <2> QED BY <1>0, <2>1, <2>2, <2>3 DEF EarnedBy
<1>7. CASE Llega(r)
  <2>1. ASSUME NEW s \in Estudiantes, CertificarAMano(r, s) PROVE g.pc = "aprobo"
    BY <1>0, <2>1 DEF CertificarAMano, Libre, TypeInv, TypeOK
  <2>2. ASSUME NEW s \in Estudiantes, NEW e \in Evaluaciones, TomarEvaluacion(r, s, e)
        PROVE  g.pc = "intento"
    BY <1>0, <2>2 DEF TomarEvaluacion, Libre, TypeInv, TypeOK
  <2>3. ASSUME NEW s \in Estudiantes, NEW e \in Evaluaciones, SolicitarReapertura(r, s, e)
        PROVE  g.pc = "reabrir"
    BY <1>0, <2>3 DEF SolicitarReapertura, Libre, TypeInv, TypeOK
  <2>4. ~g.elegible
    BY <1>0, <1>7, StartsOrEnds
  <2> QED BY <1>2, <1>5, <1>6, <1>7, <2>1, <2>2, <2>3, <2>4 DEF Llega
<1>8. CASE LeerResumen(r)
  <2>1. ASSUME NEW f, peticion' = [peticion EXCEPT ![r].pc = "requeridos", ![r].fila = f]
        PROVE  EarnedBy(peticion[r])'
    BY <1>0, <1>2, <1>8, <2>1, ReadsRow DEF LeerResumen, EarnedBy
  <2> QED BY <1>4, <1>8, <2>1 DEF LeerResumen
<1>9. CASE CrearResumen(r)
  BY <1>0, <1>2, <1>9, ReadsRow DEF CrearResumen, EarnedBy
<1>10. CASE ContarRequeridos(r)
  BY <1>0, <1>10, ReadsCounts DEF ContarRequeridos, EarnedBy
<1>11. CASE ContarCompletados(r)
  <2>1. /\ g.pc = "guardar" /\ g.requeridos = Cardinality(Requeridos) /\ ~g.elegible
        /\ g.completados = Cardinality(Completados(q.usuario)) /\ g.usuario = q.usuario
    BY <1>0, <1>11, ReadsCounts DEF ContarCompletados, EarnedBy
  <2>2. UNCHANGED avances
    BY <1>11 DEF ContarCompletados, progreso
  <2>3. PICK u \in Estudiantes : u = q.usuario
    BY <1>0, <1>11 DEF ContarCompletados, SabeDe
  <2>4. Cardinality(Completados(u)) \in Nat /\ Completados(u)' = Completados(u)
    BY <1>0, <2>2, CountsType DEF Completados
  <2> QED BY <1>0, <2>1, <2>3, <2>4 DEF EarnedBy
<1>12. CASE GuardarResumen(r)
  <2>1. q.pc = "guardar" /\ q.usuario \in Estudiantes /\ UNCHANGED avances /\ ~q.elegible
        /\ q.completados \in Nat
    BY <1>0, <1>12 DEF GuardarResumen, progreso, SabeDe, EarnedBy, Peticion
  <2>2. CASE ~Terminar(r)
    <3>1. \E pc \in {"elegible", "emitir"} : Avanzar(r, pc)
      BY <1>12, <2>2 DEF GuardarResumen
    <3>2. g.pc \in {"elegible", "emitir"} /\ ~g.elegible /\ g.usuario = q.usuario
      BY <1>0, <2>1, <3>1, OnlyGoesOn
    <3>3. Alcanza(q.completados, Cardinality(Requeridos))
      BY <1>0, <1>12, <2>1, <2>2 DEF GuardarResumen, EarnedBy
    <3>4. Requeridos \subseteq Completados(q.usuario)
      BY <1>0, <2>1, <3>3, ReachedIsCompleted DEF EarnedBy, EarnedInv
    <3> QED BY <1>0, <2>1, <3>2, <3>4 DEF EarnedBy, Completados
  <2> QED BY <1>3, <2>2
<1>13. CASE RevisarElegible(r)
  <2>1. /\ q.pc = "elegible" /\ q.usuario \in Estudiantes /\ UNCHANGED <<avances, intentos>>
        /\ Requeridos \subseteq Completados(q.usuario)
    BY <1>0, <1>13 DEF RevisarElegible, progreso, examenes, SabeDe, EarnedBy
  <2>2. /\ g.pc = "emitir" /\ g.usuario = q.usuario
        /\ g.elegible => EvaluacionesAprobadas(q.usuario)
    BY <1>0, <1>13, ReadsAnswer
  <2> QED BY <1>0, <2>1, <2>2 DEF EarnedBy, Completados, EvaluacionesAprobadas
<1>14. CASE RevisarEvaluaciones(r)
  <2>1. /\ q.pc = "aprobo" /\ UNCHANGED <<avances, intentos>> /\ ~q.elegible
        /\ Terminar(r) \/ (Avanzar(r, "avance") /\ EvaluacionesAprobadas(q.usuario))
    BY <1>0, <1>14 DEF RevisarEvaluaciones, progreso, examenes, EarnedBy
  <2> QED BY <1>0, <1>3, <2>1, OnlyGoesOn DEF EarnedBy, EvaluacionesAprobadas
<1>15. CASE RevisarAvance(r)
  <2>1. /\ q.pc = "avance" /\ UNCHANGED <<avances, intentos>> /\ ~q.elegible
        /\ q.usuario \in Estudiantes /\ EvaluacionesAprobadas(q.usuario)
        /\ Terminar(r) \/ (Avanzar(r, "otorgar") /\ Completo(q.usuario))
    BY <1>0, <1>15 DEF RevisarAvance, progreso, examenes, EarnedBy, SabeDe, CursoCompletado,
                       Completo, Filas
  <2>2. CASE Avanzar(r, "otorgar") /\ Completo(q.usuario)
    <3>1. Requeridos \subseteq Completados(q.usuario)
      BY <2>1, <2>2 DEF EarnedInv, SummaryEarned
    <3> QED BY <1>0, <2>1, <2>2, <3>1, OnlyGoesOn
            DEF EarnedBy, EvaluacionesAprobadas, Completados
  <2> QED BY <1>3, <2>1, <2>2
<1>16. CASE Sigue(r)
  BY <1>3, <1>4, <1>8, <1>9, <1>10, <1>11, <1>12, <1>13, <1>14, <1>15, <1>16
  DEF Sigue, CrearIndice, GuardarMarca, EmitirCertificado, GuardarIntento, Otorgar,
      GuardarSolicitud
<1>17. CASE Caer(r)
  BY <1>3, <1>17 DEF Caer
<1> QED BY <1>0, <1>1, <1>7, <1>16, <1>17, OwnStep

\* What is recorded as completed is completed.
LEMMA SummaryEarnedStep ==
    ASSUME SinEdiciones, EarnedInv, [Next]_vars
    PROVE  SummaryEarned'
<1> SUFFICES ASSUME NEW s \in Estudiantes, NEW f \in Peticiones, resumenes'[s][f] = "completo"
             PROVE  Requeridos' \subseteq Completados(s)'
  BY DEF SummaryEarned, Completo
<1>1. Requeridos' = Requeridos /\ Completados(s) \subseteq Completados(s)'
  BY NothingEdited, FlagsStep DEF EarnedInv, SummaryInv
<1>2. CASE resumenes[s][f] = "completo"
  BY <1>1, <1>2 DEF EarnedInv, SummaryEarned, Completo
<1>3. ASSUME NEW r \in Peticiones, Completa(r), resumenes[s][f] # "completo"
      PROVE  Requeridos \subseteq Completados(s)
  <2>1. s = peticion[r].usuario
    BY <1>3 DEF Completa, EarnedInv, SummaryInv, TypeInv, TypeOK
  <2>2. peticion[r].pc = "emitir"
    BY <1>3 DEF Completa, EmitirCertificado
  <2> QED BY <2>1, <2>2 DEF EarnedInv, EarnedBy
<1>4. ASSUME NEW r \in Peticiones, Inserta(r), resumenes[s][f] # "completo"
      PROVE  FALSE
  BY <1>4 DEF Inserta, EarnedInv, SummaryInv, TypeInv, TypeOK
<1> QED BY <1>1, <1>2, <1>3, <1>4, SummaryStep DEF EarnedInv, SinResumir

\* A certificate is issued to a student who earned it.
LEMMA CertificateEarnedStep ==
    ASSUME SinEdiciones, EarnedInv, [Next]_vars
    PROVE  CertificateEarned'
<1> SUFFICES ASSUME NEW s \in Estudiantes, TieneCertificado(s)'
             PROVE  Requeridos' \subseteq Completados(s)' /\ EvaluacionesAprobadas(s)'
  BY DEF CertificateEarned
<1>0. TypeInv /\ certificados \in [Estudiantes -> Certificados]
  BY DEF EarnedInv, SummaryInv, TypeInv, TypeOK
<1>1. /\ Requeridos' = Requeridos /\ Completados(s) \subseteq Completados(s)'
      /\ EvaluacionesAprobadas(s) => EvaluacionesAprobadas(s)'
  BY <1>0, NothingEdited, FlagsStep, PassedStays
<1>2. CASE certificados'[s] = certificados[s]
  BY <1>1, <1>2 DEF EarnedInv, CertificateEarned, TieneCertificado
<1>3. ASSUME NEW r \in Peticiones, EmitirCertificado(r), certificados'[s] # certificados[s]
      PROVE  Requeridos \subseteq Completados(s) /\ EvaluacionesAprobadas(s)
  <2>1. s = peticion[r].usuario /\ peticion[r].pc = "emitir" /\ peticion[r].elegible
    BY <1>0, <1>3 DEF EmitirCertificado, Emitido
  <2> QED BY <2>1 DEF EarnedInv, EarnedBy
<1>4. ASSUME NEW r \in Peticiones, Otorgar(r), certificados'[s] # certificados[s]
      PROVE  Requeridos \subseteq Completados(s) /\ EvaluacionesAprobadas(s)
  <2>1. s = peticion[r].usuario /\ peticion[r].pc = "otorgar"
    BY <1>0, <1>4 DEF Otorgar, Emitido, EmitidoPorInstructor
  <2> QED BY <2>1 DEF EarnedInv, EarnedBy
<1>5. ASSUME NEW r \in Peticiones, Llega(r) \/ Caer(r) PROVE UNCHANGED certificados
  BY <1>5 DEF Llega, Caer, Matricular, CertificarAMano, MarcarRecurso, TomarEvaluacion,
              SolicitarReapertura
<1>6. ASSUME NEW r \in Peticiones, Sigue(r), ~Otorgar(r), ~EmitirCertificado(r)
      PROVE  UNCHANGED certificados
  BY <1>6 DEF Sigue, CrearIndice, GuardarMarca, LeerResumen, CrearResumen, ContarRequeridos,
              ContarCompletados, GuardarResumen, RevisarElegible,
              GuardarIntento, RevisarEvaluaciones, RevisarAvance, GuardarSolicitud
<1>7. ASSUME Instructor \/ \E t \in Estudiantes : DarDeBaja(t) PROVE UNCHANGED certificados
  BY <1>7 DEF Instructor, NuevoRecurso, EditarRecurso, EliminarRecurso, NuevaEvaluacion,
              EditarEvaluacion, AlternarEvaluacion, DarDeBaja
<1> QED BY <1>1, <1>2, <1>3, <1>4, <1>5, <1>6, <1>7 DEF Next, vars

\* Everything goes on being earned.
LEMMA EarnedStep ==
    SinEdiciones /\ EarnedInv /\ [Next]_vars => EarnedInv'
<1> SUFFICES ASSUME SinEdiciones, EarnedInv, [Next]_vars PROVE EarnedInv'
  OBVIOUS
<1>1. SummaryInv'
  BY SummaryInvStep DEF EarnedInv, SinEdiciones
<1> QED BY <1>1, FlagsStep, SummaryEarnedStep, CertificateEarnedStep, EarnedNext DEF EarnedInv

\* Nothing is completed at first.
LEMMA EarnedInit ==
    SinEdiciones /\ Init => EarnedInv
<1> SUFFICES ASSUME SinEdiciones, Init PROVE EarnedInv
  OBVIOUS
<1>1. \A r \in Peticiones : peticion[r].pc = "libre" /\ ~peticion[r].elegible
  BY DEF Init, Libre
<1>2. \A r \in Peticiones : EarnedBy(peticion[r])
  BY <1>1 DEF EarnedBy
<1>3. FlagsAgree
  BY DEF Init, FlagsAgree, Vacio
<1>4. SummaryEarned
  BY DEF Init, SummaryEarned, Completo
<1>5. CertificateEarned
  BY DEF Init, CertificateEarned, TieneCertificado
<1> QED BY <1>2, <1>3, <1>4, <1>5, SummaryInit DEF EarnedInv, SinEdiciones

\* What is earned is deserved.
LEMMA EarnedMeans == EarnedInv => CertificadoMerecido
BY DEF EarnedInv, SummaryEarned, CertificateEarned, CertificadoMerecido, Completo

\* Nobody has a certificate, or a course recorded as completed, that he did not
\* earn, however requests interleave and die.
THEOREM CertificadoMerecidoTheorem ==
    ASSUME Supuesto PROVE Spec => []CertificadoMerecido
<1>1. CASE MaxEdiciones = 0
  <2>1. SinEdiciones
    BY <1>1 DEF SinEdiciones
  <2>2. Init => EarnedInv
    BY <2>1, EarnedInit
  <2>3. EarnedInv /\ [Next]_vars => EarnedInv'
    BY <2>1, EarnedStep
  <2> QED BY <2>2, <2>3, EarnedMeans, PTL DEF Spec
<1>2. CASE MaxEdiciones # 0
  <2>1. CertificadoMerecido
    BY <1>2 DEF CertificadoMerecido
  <2> QED BY <2>1, PTL
<1> QED BY <1>1, <1>2

----------------------------------------
(* No completion is lost.  Whoever completed the last resource is still      *)
(* counting, or the summary says so: counts are read after the mark of the   *)
(* request is committed, so that they miss no mark made before.              *)

\* The roll-up of the student is under way, and will record the completion.
EnCamino(r, s) ==
    /\ peticion[r].usuario = s
    /\ \/ peticion[r].pc \in {"resumen", "crear", "requeridos", "completados", "elegible", "emitir"}
       \/ peticion[r].pc = "guardar" /\ Alcanza(peticion[r].completados, peticion[r].requeridos)

SinFallos == (curso.certificado => curso.plantilla) /\ caidas = 0

\* Only a course with a certificate asks who may have one.
AskedOfCourse ==
    \A r \in Peticiones : peticion[r].pc = "elegible" \/ peticion[r].elegible => curso.certificado

RollUpInv ==
    /\ EarnedInv
    /\ AskedOfCourse
    /\ SinFallos => \A s \in Estudiantes :
          Hecho(s) => Completo(s) \/ \E r \in Peticiones : EnCamino(r, s)

\* A student who did everything has it all counted.
LEMMA DoneIsCompleted ==
    ASSUME SinEdiciones, FlagsAgree, NEW s \in Estudiantes, Hecho(s)
    PROVE  /\ Requeridos \subseteq Completados(s)
           /\ Alcanza(Cardinality(Completados(s)), Cardinality(Requeridos))
<1>1. Requeridos \subseteq Completados(s)
  BY DEF Hecho, FlagsAgree, Requeridos, Completados
<1>2. /\ IsFiniteSet(Requeridos) /\ Cardinality(Requeridos) \in Nat
      /\ IsFiniteSet(Completados(s)) /\ Cardinality(Completados(s)) \in Nat
  BY CountsType DEF SinEdiciones
<1>3. Cardinality(Requeridos) <= Cardinality(Completados(s))
  BY <1>1, <1>2, FS_Subset
<1>4. Cardinality(Requeridos) # 0
  BY <1>2, FS_EmptySet DEF Hecho
<1> QED BY <1>1, <1>2, <1>3, <1>4 DEF Alcanza

\* A row that becomes completed is marked by a request that goes on to roll up.
LEMMA MarkedBy ==
    ASSUME SinEdiciones, TypeInv, [Next]_vars, NEW s \in Estudiantes, NEW x \in Recursos,
           avances'[s][x] # avances[s][x], avances'[s][x].completado
    PROVE  \E r \in Peticiones : peticion[r].usuario = s /\ Avanzar(r, "resumen")
<1>1. avances \in [Estudiantes -> [Recursos -> Avance \cup {Nada}]]
  BY DEF TypeInv, TypeOK
<1>2. ASSUME NEW r \in Peticiones, CrearIndice(r) PROVE FALSE
  <2> DEFINE q == peticion[r]
             faltan == {y \in Recursos : q.banderas[y] # Nada}
             nueva == [y \in Recursos |-> IF y \in faltan
                          THEN [completado |-> FALSE, requerido |-> q.banderas[y]]
                          ELSE avances[q.usuario][y]]
  <2>1. q.usuario \in Estudiantes
    BY <1>2 DEF CrearIndice, TypeInv, SabeDe
  <2>2. avances' = [avances EXCEPT ![q.usuario] = nueva]
    BY <1>2 DEF CrearIndice
  <2>3. nueva[x] = avances[q.usuario][x] \/ ~nueva[x].completado
    OBVIOUS
  <2> HIDE DEF nueva
  <2>4. avances'[s][x] = IF s = q.usuario THEN nueva[x] ELSE avances[s][x]
    BY <1>1, <2>1, <2>2
  <2> QED BY <2>3, <2>4
<1>3. ASSUME NEW r \in Peticiones, GuardarMarca(r)
      PROVE  peticion[r].usuario = s /\ Avanzar(r, "resumen")
  <2> DEFINE q == peticion[r]
             m == Marca(avances[q.usuario][q.recurso], q.leida, q.banderas[q.recurso])
  <2>1. q.usuario \in Estudiantes /\ q.recurso \in Recursos
    BY <1>3 DEF GuardarMarca, TypeInv, SabeDe
  <2>2. /\ avances' = [avances EXCEPT ![q.usuario][q.recurso] = m]
        /\ Avanzar(r, "resumen")
    BY <1>3 DEF GuardarMarca
  <2> HIDE DEF m
  <2>3. avances'[s][x] = IF s = q.usuario /\ x = q.recurso THEN m ELSE avances[s][x]
    BY <1>1, <2>1, <2>2
  <2> QED BY <2>2, <2>3
<1>4. ASSUME NEW r \in Peticiones, Llega(r) \/ Caer(r) PROVE UNCHANGED avances
  BY <1>4 DEF Llega, Caer, Matricular, CertificarAMano, MarcarRecurso, TomarEvaluacion,
              SolicitarReapertura, progreso
<1>5. ASSUME NEW r \in Peticiones, Sigue(r), ~CrearIndice(r), ~GuardarMarca(r)
      PROVE  UNCHANGED avances
  BY <1>5 DEF Sigue, LeerResumen, CrearResumen, ContarRequeridos,
              ContarCompletados, GuardarResumen, RevisarElegible, EmitirCertificado,
              GuardarIntento, RevisarEvaluaciones, RevisarAvance, Otorgar, GuardarSolicitud,
              progreso
<1>6. ASSUME NEW t \in Estudiantes, DarDeBaja(t) PROVE UNCHANGED avances
  BY <1>6 DEF DarDeBaja
<1>7. ~Instructor
  BY DEF Instructor, NuevoRecurso, EditarRecurso, EliminarRecurso, NuevaEvaluacion,
         EditarEvaluacion, AlternarEvaluacion, Editar, TypeInv, TypeOK, SinEdiciones
<1> QED BY <1>2, <1>3, <1>4, <1>5, <1>6, <1>7 DEF Next, vars, progreso

\* Whoever becomes done becomes so by a mark of his own.
LEMMA DoneBy ==
    ASSUME SinEdiciones, TypeInv, [Next]_vars, NEW s \in Estudiantes, Hecho(s)'
    PROVE  Hecho(s) \/ \E r \in Peticiones : peticion[r].usuario = s /\ Avanzar(r, "resumen")
<1>1. Requeridos' = Requeridos
  BY NothingEdited
<1>2. CASE \A x \in Requeridos : avances'[s][x] = avances[s][x]
  BY <1>1, <1>2 DEF Hecho
<1>3. ASSUME NEW x \in Requeridos, avances'[s][x] # avances[s][x]
      PROVE  \E r \in Peticiones : peticion[r].usuario = s /\ Avanzar(r, "resumen")
  <2>1. x \in Recursos /\ avances'[s][x].completado
    BY <1>1 DEF Hecho, Requeridos
  <2> QED BY <1>3, <2>1, MarkedBy
<1> QED BY <1>2, <1>3

\* The roll-up goes on, or records the completion.
LEMMA OnItsWay ==
    ASSUME SinEdiciones, EarnedInv, AskedOfCourse, [Next]_vars, SinFallos, caidas' = 0,
           NEW s \in Estudiantes, Hecho(s), NEW r \in Peticiones, EnCamino(r, s)
    PROVE  Completo(s)' \/ EnCamino(r, s)'
<1> DEFINE q == peticion[r]
<1>0. /\ Supuesto /\ TypeInv /\ SummaryInv /\ EarnedBy(q) /\ SabeDe(q) /\ RowInv(r)
      /\ FlagsAgree /\ q.usuario = s /\ q.pc # "libre"
  BY DEF EarnedInv, SummaryInv, TypeInv, SinEdiciones, EnCamino
<1>1. CASE peticion'[r] = q
  BY <1>1 DEF EnCamino
<1>2. CASE Llega(r)
  BY <1>0, <1>2 DEF Llega, Matricular, CertificarAMano, MarcarRecurso, TomarEvaluacion,
                    SolicitarReapertura
<1>3. CASE Caer(r)
  BY <1>3 DEF Caer, SinFallos
<1>4. CASE LeerResumen(r)
  BY <1>0, <1>4, OnlyGoesOn, ReadsRow DEF LeerResumen, EnCamino
<1>5. CASE CrearResumen(r)
  BY <1>0, <1>5, ReadsRow DEF CrearResumen, EnCamino
<1>6. CASE ContarRequeridos(r)
  BY <1>0, <1>6, ReadsCounts DEF EnCamino
<1>7. CASE ContarCompletados(r)
  <2>1. q.requeridos = Cardinality(Requeridos)
    BY <1>0, <1>7 DEF ContarCompletados, EarnedBy
  <2>2. /\ peticion'[r].pc = "guardar" /\ peticion'[r].usuario = s
        /\ Alcanza(peticion'[r].completados, peticion'[r].requeridos)
    BY <1>0, <1>7, <2>1, ReadsCounts, DoneIsCompleted
  <2> QED BY <2>2 DEF EnCamino, Alcanza
<1>8. CASE GuardarResumen(r)
  <2>1. Alcanza(q.completados, q.requeridos)
    BY <1>0, <1>8 DEF GuardarResumen, EnCamino
  <2>2. \E pc \in {"elegible", "emitir"} : Avanzar(r, pc)
    BY <1>8, <2>1 DEF GuardarResumen
  <2> QED BY <1>0, <2>2, OnlyGoesOn DEF EnCamino
<1>9. CASE RevisarElegible(r)
  BY <1>0, <1>9, ReadsAnswer DEF EnCamino
<1>10. CASE EmitirCertificado(r)
  <2>1. resumenes' = [resumenes EXCEPT ![s][q.fila] = "completo"]
    BY <1>0, <1>10 DEF EmitirCertificado, AskedOfCourse, SinFallos
  <2>2. q.fila \in Peticiones
    BY <1>0, <1>10 DEF EmitirCertificado, SabeDe, ConFila
  <2>3. resumenes'[s][q.fila] = "completo"
    BY <1>0, <2>1, <2>2 DEF TypeInv, TypeOK
  <2> QED BY <2>2, <2>3 DEF Completo
<1>11. CASE Sigue(r)
  BY <1>0, <1>4, <1>5, <1>6, <1>7, <1>8, <1>9, <1>10, <1>11
  DEF Sigue, EnCamino, CrearIndice, GuardarMarca, GuardarIntento, RevisarEvaluaciones,
      RevisarAvance, Otorgar, GuardarSolicitud
<1> QED BY <1>0, <1>1, <1>2, <1>3, <1>11, OwnStep

\* Requests that died are not forgotten.
LEMMA FallsGrow ==
    ASSUME TypeInv, [Next]_vars, caidas' = 0
    PROVE  caidas = 0
<1>1. caidas \in Nat
  BY DEF TypeInv, TypeOK
<1>2. ASSUME NEW r \in Peticiones, Llega(r) PROVE caidas' = caidas
  BY <1>2 DEF Llega, Matricular, CertificarAMano, MarcarRecurso, TomarEvaluacion,
              SolicitarReapertura
<1>3. ASSUME NEW r \in Peticiones, Sigue(r) PROVE caidas' = caidas
  BY <1>3 DEF Sigue, CrearIndice, GuardarMarca, LeerResumen, CrearResumen, ContarRequeridos,
              ContarCompletados, GuardarResumen, RevisarElegible, EmitirCertificado,
              GuardarIntento, RevisarEvaluaciones, RevisarAvance, Otorgar, GuardarSolicitud
<1>4. ASSUME NEW r \in Peticiones, Caer(r) PROVE caidas' = caidas + 1
  BY <1>4 DEF Caer
<1>5. ASSUME Instructor \/ \E t \in Estudiantes : DarDeBaja(t) PROVE caidas' = caidas
  BY <1>5 DEF Instructor, NuevoRecurso, EditarRecurso, EliminarRecurso, NuevaEvaluacion,
              EditarEvaluacion, AlternarEvaluacion, DarDeBaja
<1> QED BY <1>1, <1>2, <1>3, <1>4, <1>5 DEF Next, vars

\* The course is asked, and no request answers for it.
LEMMA AskedStep ==
    ASSUME SinEdiciones, EarnedInv, AskedOfCourse, [Next]_vars
    PROVE  AskedOfCourse'
<1> SUFFICES ASSUME NEW r \in Peticiones, peticion'[r].pc = "elegible" \/ peticion'[r].elegible
             PROVE  curso.certificado
  BY NothingEdited DEF AskedOfCourse, EarnedInv, SummaryInv
<1> DEFINE q == peticion[r]
<1>0. /\ Supuesto /\ TypeInv /\ (q.pc = "elegible" \/ q.elegible => curso.certificado)
  BY DEF EarnedInv, SummaryInv, SinEdiciones, AskedOfCourse
<1>1. CASE Llega(r) \/ Terminar(r)
  BY <1>0, <1>1, StartsOrEnds
<1>2. ASSUME NEW pc, Avanzar(r, pc), pc # "elegible" PROVE curso.certificado
  BY <1>0, <1>2, OnlyGoesOn
<1>3. CASE LeerResumen(r)
  BY <1>0, <1>2, <1>3, ReadsRow DEF LeerResumen
<1>4. CASE CrearResumen(r)
  BY <1>0, <1>4, ReadsRow DEF CrearResumen
<1>5. CASE ContarRequeridos(r) \/ ContarCompletados(r)
  BY <1>0, <1>5, ReadsCounts
<1>6. CASE GuardarResumen(r)
  BY <1>0, <1>1, <1>2, <1>6 DEF GuardarResumen
<1>7. CASE RevisarElegible(r)
  BY <1>0, <1>7 DEF RevisarElegible
<1>8. CASE Sigue(r)
  BY <1>1, <1>2, <1>3, <1>4, <1>5, <1>6, <1>7, <1>8
  DEF Sigue, CrearIndice, GuardarMarca, EmitirCertificado, GuardarIntento, RevisarEvaluaciones,
      RevisarAvance, Otorgar, GuardarSolicitud
<1>9. CASE Caer(r)
  BY <1>1, <1>9 DEF Caer
<1> QED BY <1>0, <1>1, <1>8, <1>9, OwnStep

\* No step loses a completion.
LEMMA RollUpStep ==
    SinEdiciones /\ RollUpInv /\ [Next]_vars => RollUpInv'
<1> SUFFICES ASSUME SinEdiciones, RollUpInv, [Next]_vars PROVE RollUpInv'
  OBVIOUS
<1>1. EarnedInv /\ SummaryInv /\ TypeInv /\ AskedOfCourse /\ EarnedInv' /\ AskedOfCourse'
  BY EarnedStep, AskedStep DEF RollUpInv, EarnedInv, SummaryInv
<1>2. ASSUME SinFallos', NEW s \in Estudiantes, Hecho(s)'
      PROVE  Completo(s)' \/ \E r \in Peticiones : EnCamino(r, s)'
  <2>1. SinFallos /\ caidas' = 0
    BY <1>1, <1>2, FallsGrow, NothingEdited DEF SinFallos
  <2>2. CASE Hecho(s)
    <3>1. CASE Completo(s)
      BY <1>1, <3>1, CompletedStays
    <3>2. ASSUME NEW r \in Peticiones, EnCamino(r, s)
          PROVE  Completo(s)' \/ EnCamino(r, s)'
      BY <1>1, <2>1, <2>2, <3>2, OnItsWay
    <3> QED BY <2>1, <2>2, <3>1, <3>2 DEF RollUpInv
  <2>3. ASSUME NEW r \in Peticiones, peticion[r].usuario = s, Avanzar(r, "resumen")
        PROVE  EnCamino(r, s)'
    BY <1>1, <2>3, OnlyGoesOn DEF EnCamino
  <2> QED BY <1>1, <1>2, <2>2, <2>3, DoneBy
<1> QED BY <1>1, <1>2 DEF RollUpInv

\* Nobody is done at first.
LEMMA RollUpInit ==
    SinEdiciones /\ Init => RollUpInv
<1> SUFFICES ASSUME SinEdiciones, Init PROVE RollUpInv
  OBVIOUS
<1>1. \A r \in Peticiones : peticion[r].pc = "libre" /\ ~peticion[r].elegible
  BY DEF Init, Libre
<1>2. \A s \in Estudiantes : ~Hecho(s)
  BY DEF Hecho, Init, Vacio, Requeridos
<1> QED BY <1>1, <1>2, EarnedInit DEF RollUpInv, AskedOfCourse

\* When nobody is on the way, it has been recorded.
LEMMA RollUpMeans == RollUpInv => CompletionNotLost
BY DEF RollUpInv, SinFallos, EnCamino, Quieto, CompletionNotLost, Completo

\* Once every request is answered, the course of a student who did everything is
\* recorded as completed, however the requests interleaved.
THEOREM CompletionNotLostTheorem ==
    ASSUME Supuesto PROVE Spec => []CompletionNotLost
<1>1. CASE MaxEdiciones = 0
  <2>1. SinEdiciones
    BY <1>1 DEF SinEdiciones
  <2>2. Init => RollUpInv
    BY <2>1, RollUpInit
  <2>3. RollUpInv /\ [Next]_vars => RollUpInv'
    BY <2>1, RollUpStep
  <2> QED BY <2>2, <2>3, RollUpMeans, PTL DEF Spec
<1>2. CASE MaxEdiciones # 0
  <2>1. CompletionNotLost
    BY <1>2 DEF CompletionNotLost
  <2> QED BY <2>1, PTL
<1> QED BY <1>1, <1>2

----------------------------------------
(* One request at a time.  Neither the limit of attempts nor the single      *)
(* request to reopen is enforced where the row is written, only by the page  *)
(* that came before: what the page saw must still be so.                     *)

UnaALaVez == \A r, q \in Peticiones : r = q

\* What the page saw.
Visto(r) ==
    LET q == peticion[r] IN
    /\ q.pc = "intento" => PuedeIntentar(q.usuario, q.evaluacion)
    /\ q.pc = "reabrir" => Agotado(q.usuario, q.evaluacion) /\ solicitudes[q.usuario][q.evaluacion] = 0

AttemptInv ==
    /\ TypeInv
    /\ TopeRespetado
    /\ ReaperturaUnica
    /\ \A r \in Peticiones : Visto(r)

\* Attempts, and requests to reopen, change in two steps.
LEMMA ExamStep ==
    ASSUME SinEdiciones, TypeInv, [Next]_vars
    PROVE  \/ UNCHANGED <<intentos, solicitudes>>
           \/ \E r \in Peticiones : \/ \E b \in BOOLEAN : GuardarIntento(r, b)
                                    \/ GuardarSolicitud(r)
<1>1. ASSUME NEW r \in Peticiones, Llega(r) \/ Caer(r) PROVE UNCHANGED <<intentos, solicitudes>>
  BY <1>1 DEF Llega, Caer, Matricular, CertificarAMano, MarcarRecurso, TomarEvaluacion,
              SolicitarReapertura, examenes
<1>2. ASSUME NEW r \in Peticiones, Sigue(r), ~GuardarSolicitud(r),
             ~\E b \in BOOLEAN : GuardarIntento(r, b)
      PROVE  UNCHANGED <<intentos, solicitudes>>
  BY <1>2 DEF Sigue, CrearIndice, GuardarMarca, LeerResumen, CrearResumen, ContarRequeridos,
              ContarCompletados, GuardarResumen, RevisarElegible, EmitirCertificado,
              RevisarEvaluaciones, RevisarAvance, Otorgar, examenes
<1>3. ASSUME Instructor \/ \E t \in Estudiantes : DarDeBaja(t) PROVE UNCHANGED <<intentos, solicitudes>>
  BY <1>3 DEF Instructor, NuevoRecurso, EditarRecurso, EliminarRecurso, NuevaEvaluacion,
              EditarEvaluacion, AlternarEvaluacion, DarDeBaja, examenes
<1> QED BY <1>1, <1>2, <1>3 DEF Next, vars, examenes

\* An attempt counts once, for the student and the evaluation of the page.
LEMMA OneAttempt ==
    ASSUME TypeInv, NEW r \in Peticiones, NEW b \in BOOLEAN, GuardarIntento(r, b),
           NEW s \in Estudiantes, NEW e \in Evaluaciones
    PROVE  /\ s = peticion[r].usuario /\ e = peticion[r].evaluacion =>
                 /\ intentos'[s][e].n = intentos[s][e].n + 1
                 /\ intentos'[s][e].aprobada = (intentos[s][e].aprobada \/ b)
           /\ ~(s = peticion[r].usuario /\ e = peticion[r].evaluacion) =>
                 intentos'[s][e] = intentos[s][e]
<1> DEFINE q == peticion[r]
<1>1. q.usuario \in Estudiantes /\ q.evaluacion \in Evaluaciones
  BY DEF GuardarIntento, TypeInv, SabeDe
<1>2. PICK m : m = [n |-> intentos[q.usuario][q.evaluacion].n + 1,
                    aprobada |-> intentos[q.usuario][q.evaluacion].aprobada \/ b]
  OBVIOUS
<1>3. intentos' = [intentos EXCEPT ![q.usuario][q.evaluacion] = m]
  BY <1>2 DEF GuardarIntento
<1>4. intentos'[s][e] = IF s = q.usuario /\ e = q.evaluacion THEN m ELSE intentos[s][e]
  BY <1>1, <1>3 DEF TypeInv, TypeOK
<1>5. /\ m.n = intentos[q.usuario][q.evaluacion].n + 1
      /\ m.aprobada = (intentos[q.usuario][q.evaluacion].aprobada \/ b)
  BY <1>2
<1> QED BY <1>4, <1>5

\* One request to reopen more.
LEMMA OneReopening ==
    ASSUME TypeInv, NEW r \in Peticiones, GuardarSolicitud(r),
           NEW s \in Estudiantes, NEW e \in Evaluaciones
    PROVE  solicitudes'[s][e] = IF s = peticion[r].usuario /\ e = peticion[r].evaluacion
                                THEN solicitudes[s][e] + 1 ELSE solicitudes[s][e]
<1>1. peticion[r].usuario \in Estudiantes /\ peticion[r].evaluacion \in Evaluaciones
  BY DEF GuardarSolicitud, TypeInv, SabeDe
<1> QED BY <1>1 DEF GuardarSolicitud, TypeInv, TypeOK

\* The types of what is compared.
LEMMA ExamTypes ==
    ASSUME Supuesto, TypeInv, NEW s \in Estudiantes, NEW e \in Evaluaciones
    PROVE  /\ intentos[s][e].n \in Nat /\ solicitudes[s][e] \in Nat
           /\ evaluaciones[e] # Nada => evaluaciones[e].max_attempts \in Nat
<1>1. Topes \subseteq Nat
  BY DEF Supuesto, ProgressAssumption
<1>2. evaluaciones[e] # Nada => evaluaciones[e] \in Evaluacion
  BY DEF TypeInv, TypeOK
<1>3. evaluaciones[e] # Nada => evaluaciones[e].max_attempts \in Nat
  BY <1>1, <1>2 DEF Evaluacion
<1>4. intentos[s][e] \in Intentos /\ solicitudes[s][e] \in Nat
  BY DEF TypeInv, TypeOK
<1> QED BY <1>3, <1>4 DEF Intentos

\* The limit is kept.
LEMMA LimitStep ==
    ASSUME SinEdiciones, AttemptInv, [Next]_vars
    PROVE  TopeRespetado'
<1> SUFFICES ASSUME NEW s \in Estudiantes, NEW e \in Evaluaciones, evaluaciones[e] # Nada,
                    evaluaciones[e].max_attempts # 0
             PROVE  intentos'[s][e].n <= evaluaciones[e].max_attempts
  BY NothingEdited DEF TopeRespetado, AttemptInv
<1>1. intentos[s][e].n <= evaluaciones[e].max_attempts
  BY DEF AttemptInv, TopeRespetado
<1>2. ASSUME NEW r \in Peticiones, NEW b \in BOOLEAN, GuardarIntento(r, b)
      PROVE  intentos'[s][e].n <= evaluaciones[e].max_attempts
  <2>1. s = peticion[r].usuario /\ e = peticion[r].evaluacion
           => intentos[s][e].n < evaluaciones[e].max_attempts
    BY <1>2 DEF AttemptInv, Visto, PuedeIntentar, GuardarIntento
  <2> QED BY <1>1, <1>2, <2>1, OneAttempt, ExamTypes DEF AttemptInv, SinEdiciones
<1>3. ASSUME NEW r \in Peticiones, GuardarSolicitud(r) PROVE UNCHANGED intentos
  BY <1>3 DEF GuardarSolicitud
<1> QED BY <1>1, <1>2, <1>3, ExamStep DEF AttemptInv

\* A request to reopen stays the only one, and needed.
LEMMA ReopeningStep ==
    ASSUME SinEdiciones, AttemptInv, [Next]_vars
    PROVE  ReaperturaUnica'
<1> SUFFICES ASSUME NEW s \in Estudiantes, NEW e \in Evaluaciones, solicitudes'[s][e] > 0
             PROVE  /\ solicitudes'[s][e] = 1
                    /\ evaluaciones[e].max_attempts \in 1..intentos'[s][e].n
                    /\ ~intentos'[s][e].aprobada
  BY NothingEdited DEF ReaperturaUnica, AttemptInv
<1>0. TypeInv /\ Supuesto /\ intentos[s][e].n \in Nat /\ solicitudes[s][e] \in Nat
  BY ExamTypes DEF AttemptInv, SinEdiciones
<1>1. CASE UNCHANGED <<intentos, solicitudes>>
  BY <1>1 DEF AttemptInv, ReaperturaUnica
<1>2. ASSUME NEW r \in Peticiones, NEW b \in BOOLEAN, GuardarIntento(r, b)
      PROVE  /\ solicitudes'[s][e] = 1
             /\ evaluaciones[e].max_attempts \in 1..intentos'[s][e].n
             /\ ~intentos'[s][e].aprobada
  <2>1. UNCHANGED solicitudes
    BY <1>2 DEF GuardarIntento
  <2>2. /\ solicitudes[s][e] = 1 /\ evaluaciones[e].max_attempts \in 1..intentos[s][e].n
        /\ ~intentos[s][e].aprobada
    BY <2>1 DEF AttemptInv, ReaperturaUnica
  <2>3. s = peticion[r].usuario /\ e = peticion[r].evaluacion
           => (evaluaciones[e].max_attempts # 0 => intentos[s][e].n < evaluaciones[e].max_attempts)
    BY <1>2 DEF AttemptInv, Visto, PuedeIntentar, GuardarIntento
  <2>4. ~(s = peticion[r].usuario /\ e = peticion[r].evaluacion)
    BY <1>0, <2>2, <2>3
  <2> QED BY <1>0, <1>2, <2>1, <2>2, <2>4, OneAttempt
<1>3. ASSUME NEW r \in Peticiones, GuardarSolicitud(r)
      PROVE  /\ solicitudes'[s][e] = 1
             /\ evaluaciones[e].max_attempts \in 1..intentos'[s][e].n
             /\ ~intentos'[s][e].aprobada
  <2>1. UNCHANGED intentos
    BY <1>3 DEF GuardarSolicitud
  <2>2. CASE s = peticion[r].usuario /\ e = peticion[r].evaluacion
    <3>1. Agotado(s, e) /\ solicitudes[s][e] = 0
      BY <1>3, <2>2 DEF AttemptInv, Visto, GuardarSolicitud
    <3>2. evaluaciones[e] # Nada
      BY <1>0, <1>3, <2>2 DEF TypeInv, SabeDe, GuardarSolicitud
    <3>3. evaluaciones[e].max_attempts \in 1..intentos[s][e].n /\ ~intentos[s][e].aprobada
      BY <1>0, <3>1, <3>2, ExamTypes DEF Agotado
    <3> QED BY <1>0, <1>3, <2>1, <2>2, <3>1, <3>3, OneReopening
  <2>3. CASE ~(s = peticion[r].usuario /\ e = peticion[r].evaluacion)
    BY <1>0, <1>3, <2>1, <2>3, OneReopening DEF AttemptInv, ReaperturaUnica
  <2> QED BY <2>2, <2>3
<1> QED BY <1>0, <1>1, <1>2, <1>3, ExamStep

\* What the only request saw is so until it writes.
LEMMA SeenStep ==
    ASSUME SinEdiciones, UnaALaVez, AttemptInv, [Next]_vars, NEW r \in Peticiones
    PROVE  Visto(r)'
<1> DEFINE q == peticion[r]
<1>0. TypeInv /\ Supuesto /\ UNCHANGED evaluaciones /\ Visto(r)
  BY NothingEdited DEF AttemptInv, SinEdiciones
<1>1. CASE UNCHANGED <<intentos, solicitudes>>
  <2>1. CASE peticion'[r] = q
    BY <1>0, <1>1, <2>1 DEF Visto, PuedeIntentar, Agotado
  <2>2. ASSUME peticion'[r].pc \notin {"intento", "reabrir"} PROVE Visto(r)'
    BY <2>2 DEF Visto
  <2>3. ASSUME NEW s \in Estudiantes, NEW e \in Evaluaciones, TomarEvaluacion(r, s, e)
        PROVE  Visto(r)'
    <3>1. /\ peticion'[r].pc = "intento" /\ peticion'[r].usuario = s
          /\ peticion'[r].evaluacion = e
      BY <1>0, <2>3 DEF TomarEvaluacion, TypeInv, TypeOK, Libre
    <3> QED BY <1>0, <1>1, <2>3, <3>1 DEF Visto, PuedeIntentar, TomarEvaluacion
  <2>4. ASSUME NEW s \in Estudiantes, NEW e \in Evaluaciones, SolicitarReapertura(r, s, e)
        PROVE  Visto(r)'
    <3>1. /\ peticion'[r].pc = "reabrir" /\ peticion'[r].usuario = s
          /\ peticion'[r].evaluacion = e
      BY <1>0, <2>4 DEF SolicitarReapertura, TypeInv, TypeOK, Libre
    <3> QED BY <1>0, <1>1, <2>4, <3>1 DEF Visto, Agotado, SolicitarReapertura
  <2>5. ASSUME NEW s \in Estudiantes,
               \/ Matricular(r, s) \/ CertificarAMano(r, s)
               \/ \E x \in Recursos : MarcarRecurso(r, s, x)
        PROVE  peticion'[r].pc \in {"indice", "aprobo", "marca"}
    <3>1. CASE Matricular(r, s)
      BY <1>0, <3>1 DEF Matricular, TypeInv, TypeOK, Libre
    <3>2. CASE CertificarAMano(r, s)
      BY <1>0, <3>2 DEF CertificarAMano, TypeInv, TypeOK, Libre
    <3>3. ASSUME NEW x \in Recursos, MarcarRecurso(r, s, x)
          PROVE  peticion'[r].pc = "marca"
      BY <1>0, <3>3 DEF MarcarRecurso, TypeInv, TypeOK, Libre
    <3> QED BY <2>5, <3>1, <3>2, <3>3
  <2>6. CASE Llega(r)
    BY <2>2, <2>3, <2>4, <2>5, <2>6 DEF Llega
  <2>7. CASE Sigue(r) \/ Caer(r)
    BY <1>0, <2>2, <2>7, ServedGoesOn
  <2> QED BY <1>0, <2>1, <2>6, <2>7, OwnStep
<1>2. ASSUME NEW p \in Peticiones, NEW b \in BOOLEAN, GuardarIntento(p, b) PROVE Visto(r)'
  BY <1>0, <1>2, ServedGoesOn DEF Visto, UnaALaVez, Sigue
<1>3. ASSUME NEW p \in Peticiones, GuardarSolicitud(p) PROVE Visto(r)'
  BY <1>0, <1>3, ServedGoesOn DEF Visto, UnaALaVez, Sigue
<1> QED BY <1>0, <1>1, <1>2, <1>3, ExamStep

\* The attempts stay within their limits.
LEMMA AttemptStep ==
    SinEdiciones /\ UnaALaVez /\ AttemptInv /\ [Next]_vars => AttemptInv'
BY TypeStep, LimitStep, ReopeningStep, SeenStep DEF AttemptInv, SinEdiciones

\* Nobody has tried at first.
LEMMA AttemptInit ==
    SinEdiciones /\ Init => AttemptInv
<1> SUFFICES ASSUME SinEdiciones, Init PROVE AttemptInv
  OBVIOUS
<1>1. TypeInv
  BY TypeInit DEF SinEdiciones
<1>2. ASSUME NEW s \in Estudiantes, NEW e \in Evaluaciones
      PROVE  intentos[s][e].n = 0 /\ solicitudes[s][e] = 0
  BY DEF Init
<1>3. TopeRespetado
  <2>1. ASSUME NEW s \in Estudiantes, NEW e \in Evaluaciones, evaluaciones[e] # Nada
        PROVE  0 <= evaluaciones[e].max_attempts
    BY <1>1, <2>1, ExamTypes DEF SinEdiciones
  <2> QED BY <1>2, <2>1 DEF TopeRespetado
<1>4. ReaperturaUnica
  BY <1>2 DEF ReaperturaUnica
<1>5. \A r \in Peticiones : peticion[r].pc = "libre"
  BY DEF Init, Libre
<1> QED BY <1>1, <1>3, <1>4, <1>5 DEF AttemptInv, Visto

\* A request at a time, no student makes more attempts than the evaluation allows.
THEOREM TopeRespetadoTheorem ==
    ASSUME SinEdiciones, UnaALaVez PROVE Spec => []TopeRespetado
<1>1. AttemptInv => TopeRespetado
  BY DEF AttemptInv
<1> QED BY <1>1, AttemptInit, AttemptStep, PTL DEF Spec

\* A request at a time, at most one request to reopen is pending, and only where
\* every attempt is used up and none passed.
THEOREM ReaperturaUnicaTheorem ==
    ASSUME SinEdiciones, UnaALaVez PROVE Spec => []ReaperturaUnica
<1>1. AttemptInv => ReaperturaUnica
  BY DEF AttemptInv
<1> QED BY <1>1, AttemptInit, AttemptStep, PTL DEF Spec

----------------------------------------
(* One request at a time, no certificate is forgotten.  A student who did    *)
(* everything has the certificate, or the request that completed it is still *)
(* to issue it: the roll-up if the last thing was a resource, the request    *)
(* that saved the attempt if it was an evaluation.                           *)

\* The request will issue the certificate, if it is due.
Pendiente(r, s) ==
    /\ peticion[r].usuario = s
    /\ \/ peticion[r].pc \in {"resumen", "crear", "requeridos", "completados", "elegible",
                              "aprobo", "avance", "otorgar"}
       \/ peticion[r].pc = "guardar" /\ Alcanza(peticion[r].completados, peticion[r].requeridos)
       \/ peticion[r].pc = "emitir" /\ peticion[r].elegible

\* The answer about the certificate is right.
RightAnswer ==
    \A r \in Peticiones :
       peticion[r].pc = "emitir" /\ curso.certificado /\ EvaluacionesAprobadas(peticion[r].usuario)
          => peticion[r].elegible

Certificable == caidas = 0 /\ curso.certificado /\ curso.plantilla
Merece(s) == Hecho(s) /\ EvaluacionesAprobadas(s)

ForgottenInv ==
    /\ RollUpInv
    /\ RightAnswer
    /\ Certificable => \A s \in Estudiantes :
          Merece(s) => TieneCertificado(s) \/ \E r \in Peticiones : Pendiente(r, s)

\* The only request reads the only row of the student: its own.
LEMMA OnlyRow ==
    ASSUME UnaALaVez, SummaryInv, NEW r \in Peticiones, NEW s \in Estudiantes,
           NEW f \in Filas(s)
    PROVE  /\ f = r
           /\ Completo(s) => resumenes[s][f] = "completo"
           /\ peticion[r].pc \in ConFila => peticion[r].fila = f
<1>1. f \in Peticiones
  BY DEF Filas
<1>2. peticion[r].pc \in ConFila => peticion[r].fila \in Peticiones
  BY DEF SummaryInv, TypeInv, SabeDe
<1> QED BY <1>1, <1>2 DEF UnaALaVez, Completo

\* The answer is right: whoever passed everything is told so, with no other
\* request to pass an evaluation meanwhile.
LEMMA AnswerStep ==
    ASSUME SinEdiciones, UnaALaVez, RollUpInv, RightAnswer, [Next]_vars
    PROVE  RightAnswer'
<1> SUFFICES ASSUME NEW r \in Peticiones, peticion'[r].pc = "emitir", curso.certificado,
                    NEW u, u = peticion'[r].usuario, EvaluacionesAprobadas(u)'
             PROVE  peticion'[r].elegible
  BY NothingEdited DEF RightAnswer, RollUpInv, EarnedInv, SummaryInv, EvaluacionesAprobadas
<1> DEFINE q == peticion[r]
<1>0. /\ Supuesto /\ TypeInv /\ SummaryInv /\ RowInv(r) /\ SabeDe(q) /\ UNCHANGED evaluaciones
  BY NothingEdited DEF RollUpInv, EarnedInv, SummaryInv, TypeInv, SinEdiciones
<1>1. CASE peticion'[r] = q
  <2>1. q.pc = "emitir" /\ u = q.usuario
    BY <1>1
  <2>2. UNCHANGED intentos
    BY <1>0, <2>1, ExamStep DEF UnaALaVez, GuardarIntento, GuardarSolicitud
  <2>3. EvaluacionesAprobadas(u)
    BY <1>0, <2>2 DEF EvaluacionesAprobadas
  <2> QED BY <1>1, <2>1, <2>3 DEF RightAnswer
<1>2. CASE Llega(r) \/ Terminar(r)
  BY <1>0, <1>2, StartsOrEnds
<1>3. ASSUME NEW pc, Avanzar(r, pc), pc # "emitir" PROVE FALSE
  BY <1>0, <1>3, OnlyGoesOn
<1>4. CASE LeerResumen(r)
  BY <1>0, <1>3, <1>4, ReadsRow DEF LeerResumen
<1>5. CASE CrearResumen(r)
  BY <1>0, <1>5, ReadsRow DEF CrearResumen
<1>6. CASE ContarRequeridos(r) \/ ContarCompletados(r)
  BY <1>0, <1>6, ReadsCounts
<1>7. CASE GuardarResumen(r)
  BY <1>2, <1>3, <1>7 DEF GuardarResumen
<1>8. CASE RevisarElegible(r)
  <2>1. /\ q.pc = "elegible" /\ q.usuario \in Estudiantes /\ UNCHANGED intentos /\ u = q.usuario
    BY <1>0, <1>8, ReadsAnswer DEF RevisarElegible, examenes, SabeDe
  <2>2. EvaluacionesAprobadas(q.usuario)
    BY <1>0, <2>1 DEF EvaluacionesAprobadas
  <2>3. PICK f \in Filas(q.usuario) :
           peticion'[r].elegible = (/\ EvaluacionesAprobadas(q.usuario)
                                    /\ f = q.fila \/ resumenes[q.usuario][f] = "completo")
    BY <1>0, <1>8, ReadsAnswer
  <2>4. q.fila = f
    BY <1>0, <2>1, OnlyRow DEF ConFila
  <2> QED BY <2>2, <2>3, <2>4
<1>9. CASE Sigue(r)
  BY <1>2, <1>3, <1>4, <1>5, <1>6, <1>7, <1>8, <1>9
  DEF Sigue, CrearIndice, GuardarMarca, EmitirCertificado, GuardarIntento, RevisarEvaluaciones,
      RevisarAvance, Otorgar, GuardarSolicitud
<1>10. CASE Caer(r)
  BY <1>2, <1>10 DEF Caer
<1> QED BY <1>0, <1>1, <1>2, <1>9, <1>10, OwnStep

\* A certificate more.
LEMMA IssuedHas ==
    ASSUME TypeInv, NEW s \in Estudiantes,
           certificados' = Emitido(s) \/ certificados' = EmitidoPorInstructor(s)
    PROVE  TieneCertificado(s)'
<1>1. certificados[s] \in Certificados
  BY DEF TypeInv, TypeOK
<1>2. CASE certificados' = [certificados EXCEPT ![s].permanentes = @ + 1]
  BY <1>1, <1>2 DEF TieneCertificado, Certificados, TypeInv, TypeOK
<1>3. CASE certificados' = [certificados EXCEPT ![s].vencen = @ + 1]
  BY <1>1, <1>3 DEF TieneCertificado, Certificados, TypeInv, TypeOK
<1> QED BY <1>2, <1>3 DEF Emitido, EmitidoPorInstructor

\* Certificates are kept.
LEMMA CertificateStays ==
    ASSUME TypeInv, [Next]_vars, NEW s \in Estudiantes, TieneCertificado(s)
    PROVE  TieneCertificado(s)'
<1>1. CASE UNCHANGED certificados
  BY <1>1 DEF TieneCertificado
<1>2. ASSUME NEW u \in Estudiantes,
             certificados' = Emitido(u) \/ certificados' = EmitidoPorInstructor(u), u # s
      PROVE  TieneCertificado(s)'
  BY <1>2 DEF Emitido, EmitidoPorInstructor, TieneCertificado, TypeInv, TypeOK
<1>3. ASSUME NEW r \in Peticiones, EmitirCertificado(r) \/ Otorgar(r)
      PROVE  \/ UNCHANGED certificados
             \/ \E u \in Estudiantes : \/ certificados' = Emitido(u)
                                       \/ certificados' = EmitidoPorInstructor(u)
  <2>1. peticion[r].usuario \in Estudiantes
    BY <1>3 DEF EmitirCertificado, Otorgar, TypeInv, SabeDe
  <2> QED BY <1>3, <2>1 DEF EmitirCertificado, Otorgar
<1>4. ASSUME NEW r \in Peticiones, Llega(r) \/ Caer(r) PROVE UNCHANGED certificados
  BY <1>4 DEF Llega, Caer, Matricular, CertificarAMano, MarcarRecurso, TomarEvaluacion,
              SolicitarReapertura
<1>5. ASSUME NEW r \in Peticiones, Sigue(r), ~Otorgar(r), ~EmitirCertificado(r)
      PROVE  UNCHANGED certificados
  BY <1>5 DEF Sigue, CrearIndice, GuardarMarca, LeerResumen, CrearResumen, ContarRequeridos,
              ContarCompletados, GuardarResumen, RevisarElegible,
              GuardarIntento, RevisarEvaluaciones, RevisarAvance, GuardarSolicitud
<1>6. ASSUME Instructor \/ \E t \in Estudiantes : DarDeBaja(t) PROVE UNCHANGED certificados
  BY <1>6 DEF Instructor, NuevoRecurso, EditarRecurso, EliminarRecurso, NuevaEvaluacion,
              EditarEvaluacion, AlternarEvaluacion, DarDeBaja
<1> QED BY <1>1, <1>2, <1>3, <1>4, <1>5, <1>6, IssuedHas DEF Next, vars

\* Whoever passes the last evaluation does so by an attempt that goes on.
LEMMA PassedBy ==
    ASSUME SinEdiciones, TypeInv, [Next]_vars, NEW s \in Estudiantes, EvaluacionesAprobadas(s)'
    PROVE  \/ EvaluacionesAprobadas(s)
           \/ \E r \in Peticiones : peticion[r].usuario = s /\ Avanzar(r, "aprobo")
<1>1. UNCHANGED evaluaciones
  BY NothingEdited
<1>2. CASE \A e \in Evaluaciones : intentos'[s][e].aprobada => intentos[s][e].aprobada
  BY <1>1, <1>2 DEF EvaluacionesAprobadas
<1>3. ASSUME NEW e \in Evaluaciones, intentos'[s][e].aprobada, ~intentos[s][e].aprobada
      PROVE  \E r \in Peticiones : peticion[r].usuario = s /\ Avanzar(r, "aprobo")
  <2>1. PICK r \in Peticiones : \E b \in BOOLEAN : GuardarIntento(r, b)
    BY <1>3, ExamStep DEF GuardarSolicitud
  <2>2. PICK b \in BOOLEAN : GuardarIntento(r, b)
    BY <2>1
  <2>3. s = peticion[r].usuario /\ e = peticion[r].evaluacion
    BY <1>3, <2>2, OneAttempt
  <2>4. b = TRUE
    BY <1>3, <2>2, <2>3, OneAttempt
  <2> QED BY <2>2, <2>3, <2>4 DEF GuardarIntento
<1> QED BY <1>2, <1>3

\* A request that is to issue the certificate goes on, or issues it.
LEMMA PendingStep ==
    ASSUME SinEdiciones, UnaALaVez, RollUpInv, RightAnswer, [Next]_vars, Certificable, caidas' = 0,
           NEW s \in Estudiantes, Merece(s), NEW r \in Peticiones, Pendiente(r, s)
    PROVE  TieneCertificado(s)' \/ Pendiente(r, s)'
<1> DEFINE q == peticion[r]
<1>0. /\ Supuesto /\ TypeInv /\ SummaryInv /\ EarnedBy(q) /\ SabeDe(q) /\ RowInv(r)
      /\ FlagsAgree /\ q.usuario = s /\ q.pc # "libre" /\ Hecho(s) /\ EvaluacionesAprobadas(s)
      /\ curso.certificado /\ curso.plantilla
  BY DEF RollUpInv, EarnedInv, SummaryInv, TypeInv, SinEdiciones, Pendiente, Merece, Certificable
<1>1. CASE peticion'[r] = q
  BY <1>1 DEF Pendiente
<1>2. CASE Llega(r)
  BY <1>0, <1>2 DEF Llega, Matricular, CertificarAMano, MarcarRecurso, TomarEvaluacion,
                    SolicitarReapertura
<1>3. CASE Caer(r)
  BY <1>3 DEF Caer, Certificable
<1>4. CASE LeerResumen(r)
  BY <1>0, <1>4, OnlyGoesOn, ReadsRow DEF LeerResumen, Pendiente
<1>5. CASE CrearResumen(r)
  BY <1>0, <1>5, ReadsRow DEF CrearResumen, Pendiente
<1>6. CASE ContarRequeridos(r)
  BY <1>0, <1>6, ReadsCounts DEF Pendiente
<1>7. CASE ContarCompletados(r)
  <2>1. q.requeridos = Cardinality(Requeridos)
    BY <1>0, <1>7 DEF ContarCompletados, EarnedBy
  <2>2. /\ peticion'[r].pc = "guardar" /\ peticion'[r].usuario = s
        /\ Alcanza(peticion'[r].completados, peticion'[r].requeridos)
    BY <1>0, <1>7, <2>1, ReadsCounts, DoneIsCompleted
  <2> QED BY <2>2 DEF Pendiente, Alcanza
<1>8. CASE GuardarResumen(r)
  <2>1. Alcanza(q.completados, q.requeridos)
    BY <1>0, <1>8 DEF GuardarResumen, Pendiente
  <2>2. Avanzar(r, "elegible")
    BY <1>0, <1>8, <2>1 DEF GuardarResumen
  <2> QED BY <1>0, <2>2, OnlyGoesOn DEF Pendiente
<1>9. CASE RevisarElegible(r)
  <2>1. peticion'[r].pc = "emitir" /\ peticion'[r].usuario = s
    BY <1>0, <1>9, ReadsAnswer
  <2>2. PICK f \in Filas(s) :
           peticion'[r].elegible = (/\ EvaluacionesAprobadas(s)
                                    /\ f = q.fila \/ resumenes[s][f] = "completo")
    BY <1>0, <1>9, ReadsAnswer
  <2>3. q.fila = f
    BY <1>0, <1>9, OnlyRow DEF RevisarElegible, ConFila
  <2> QED BY <1>0, <2>1, <2>2, <2>3 DEF Pendiente
<1>10. CASE EmitirCertificado(r)
  <2>1. q.elegible
    BY <1>0, <1>10 DEF EmitirCertificado, Pendiente
  <2>2. certificados' = Emitido(s)
    BY <1>0, <1>10, <2>1 DEF EmitirCertificado
  <2> QED BY <1>0, <2>2, IssuedHas
<1>11. CASE RevisarEvaluaciones(r)
  BY <1>0, <1>11, OnlyGoesOn DEF RevisarEvaluaciones, Pendiente
<1>12. CASE RevisarAvance(r)
  <2>1. Completo(s)
    <3>1. SinFallos
      BY <1>0 DEF SinFallos, Certificable
    <3>2. \A p \in Peticiones : ~EnCamino(p, s)
      BY <1>12 DEF UnaALaVez, EnCamino, RevisarAvance
    <3> QED BY <1>0, <3>1, <3>2 DEF RollUpInv
  <2>2. Filas(s) # {} /\ \A f \in Filas(s) : CursoCompletado(s, f)
    BY <1>0, <2>1, OnlyRow DEF CursoCompletado, Filas, Completo
  <2>3. Avanzar(r, "otorgar")
    BY <1>0, <1>12, <2>2 DEF RevisarAvance
  <2> QED BY <1>0, <2>3, OnlyGoesOn DEF Pendiente
<1>13. CASE Otorgar(r)
  BY <1>0, <1>13, IssuedHas DEF Otorgar
<1>14. CASE Sigue(r)
  BY <1>0, <1>4, <1>5, <1>6, <1>7, <1>8, <1>9, <1>10, <1>11, <1>12, <1>13, <1>14
  DEF Sigue, Pendiente, CrearIndice, GuardarMarca, GuardarIntento, GuardarSolicitud
<1> QED BY <1>0, <1>1, <1>2, <1>3, <1>14, OwnStep

\* No step forgets a certificate.
LEMMA ForgottenStep ==
    SinEdiciones /\ UnaALaVez /\ ForgottenInv /\ [Next]_vars => ForgottenInv'
<1> SUFFICES ASSUME SinEdiciones, UnaALaVez, ForgottenInv, [Next]_vars PROVE ForgottenInv'
  OBVIOUS
<1>1. TypeInv /\ RollUpInv /\ RightAnswer /\ RollUpInv' /\ RightAnswer'
  BY RollUpStep, AnswerStep DEF ForgottenInv, RollUpInv, EarnedInv, SummaryInv
<1>2. ASSUME Certificable', NEW s \in Estudiantes, Merece(s)'
      PROVE  TieneCertificado(s)' \/ \E r \in Peticiones : Pendiente(r, s)'
  <2>1. Certificable /\ caidas' = 0
    BY <1>1, <1>2, FallsGrow, NothingEdited DEF Certificable
  <2>2. CASE Merece(s)
    <3>1. CASE TieneCertificado(s)
      BY <1>1, <3>1, CertificateStays
    <3>2. ASSUME NEW r \in Peticiones, Pendiente(r, s)
          PROVE  TieneCertificado(s)' \/ Pendiente(r, s)'
      BY <1>1, <2>1, <2>2, <3>2, PendingStep
    <3> QED BY <2>1, <2>2, <3>1, <3>2 DEF ForgottenInv
  <2>3. ASSUME NEW r \in Peticiones, NEW pc \in {"resumen", "aprobo"},
               peticion[r].usuario = s, Avanzar(r, pc)
        PROVE  Pendiente(r, s)'
    BY <1>1, <2>3, OnlyGoesOn DEF Pendiente
  <2>4. Hecho(s)' /\ EvaluacionesAprobadas(s)'
    BY <1>2 DEF Merece
  <2>5. \/ Hecho(s) /\ EvaluacionesAprobadas(s)
        \/ \E r \in Peticiones : /\ peticion[r].usuario = s
                                 /\ Avanzar(r, "resumen") \/ Avanzar(r, "aprobo")
    BY <1>1, <2>4, DoneBy, PassedBy
  <2> QED BY <2>2, <2>3, <2>5 DEF Merece
<1> QED BY <1>1, <1>2 DEF ForgottenInv

\* Nobody is due a certificate at first.
LEMMA ForgottenInit ==
    SinEdiciones /\ Init => ForgottenInv
<1> SUFFICES ASSUME SinEdiciones, Init PROVE ForgottenInv
  OBVIOUS
<1>1. \A r \in Peticiones : peticion[r].pc = "libre"
  BY DEF Init, Libre
<1>2. \A s \in Estudiantes : ~Hecho(s)
  BY DEF Hecho, Init, Vacio, Requeridos
<1> QED BY <1>1, <1>2, RollUpInit DEF ForgottenInv, RightAnswer, Merece

\* When nothing is pending, the certificate has been issued.
LEMMA ForgottenMeans == ForgottenInv => CertificateNotForgotten
BY DEF ForgottenInv, Certificable, Merece, Pendiente, Quieto, CertificateNotForgotten

\* A request at a time, a student who completed the resources and passed the
\* evaluations, in any order, has the certificate once the requests are answered.
THEOREM CertificateNotForgottenTheorem ==
    ASSUME SinEdiciones, UnaALaVez PROVE Spec => []CertificateNotForgotten
<1> QED BY ForgottenMeans, ForgottenInit, ForgottenStep, PTL DEF Spec

================================================================================
