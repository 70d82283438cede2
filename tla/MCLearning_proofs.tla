--------------------------- MODULE MCLearning_proofs ---------------------------
(***************************************************************************)
(* Proofs about learning.  The theorems about programs are of every        *)
(* instance j, whatever its students, courses, payments and bounds, those  *)
(* about courses are cited, and certificates are proved about here.  What  *)
(* the runs check of all the parts at once follows, part by part.          *)
(***************************************************************************)
EXTENDS MCLearning, Sequences, FiniteSets, FiniteSetTheorems, TLAPS

----------------------------------------
(* Types, and what a request holds *)

\* A request knows whom, or which course, it is about.
SabeDe(j, q) ==
    /\ q.pc \in {"pago", "registro", "alta", "cursos", "filas", "correo", "baja", "emitir"}
          => q.usuario \in j.estudiantes
    /\ q.pc \in {"alumnos", "altas", "quitar"} => q.curso \in j.cursos /\ q.codigo \in j.codigos

Solicitudes(j) == peticionP \in [j.peticiones -> Plan(j)!Peticion] /\
  \A r \in j.peticiones : SabeDe(j, peticionP[r])

PlanType(j) ==
    /\ programa \in Plan(j)!Programa
    /\ enlaces \in [j.codigos -> [j.cursos -> Nat]]
    /\ inscritos \in [j.estudiantes -> Nat]
    /\ pagos \in [j.pagos -> Plan(j)!Pago \cup {Nada}]
    /\ ordenes \in [j.ordenes -> j.estudiantes \cup {Nada}]
    /\ matriculas \in [j.estudiantes -> [j.cursos -> {"ninguna", "inactiva", "activa"}]]
    /\ certificadosP \in [j.estudiantes -> [j.cursos -> 0..j.filas]]
    /\ diplomas \in [j.estudiantes -> Seq(SUBSET j.cursos)]
    /\ edicionesP \in 0..j.ediciones /\ bajas \in 0..j.bajas /\ caidasP \in 0..j.caidas
    /\ Solicitudes(j)

\* What is assumed of a program, in the sets of this module.
LEMMA PlanAssumptions ==
    ASSUME NEW j, Plan(j)!ProgramsAssumption
    PROVE  /\ j.id \notin j.codigos /\ j.programas \subseteq Plan(j)!Programa
           /\ IsFiniteSet(j.peticiones) /\ j.peticiones # {}
           /\ {j.filas, j.ediciones, j.bajas, j.caidas} \subseteq Nat
           /\ \A S : Plan(j)!Cardinality(S) = Cardinality(S)
BY DEF Plan!ProgramsAssumption, Plan!Cardinality, Cardinality, Plan!IsFiniteSet, IsFiniteSet

\* The requests that are to insert a row: of the program's students, of its
\* courses, of its certificates.
DeAlta(j, q, s) == q.usuario = s /\ (q.pc = "correo" \/ (q.pc \in {"cursos", "filas"} /\ q.alta))
DeEnlace(j, q, k, c) == q.pc \in {"alumnos", "altas"} /\ ~q.guardado /\ q.codigo = k /\ q.curso = c
DeDiploma(j, q, s) == q.pc = "emitir" /\ q.usuario = s

\* The request that a step serves, and what becomes of it.
Sirve(j, r, g) == /\ r \in j.peticiones
                  /\ peticionP' = [peticionP EXCEPT ![r] = g]
                  /\ g \in Plan(j)!Peticion
                  /\ SabeDe(j, g)

Empieza(j, r) ==
    \/ \E s \in j.estudiantes :
          \/ Plan(j)!InscribirPrograma(r, s) \/ Plan(j)!PedirPago(r, s) \/
               Plan(j)!TomarPrograma(r, s)
          \/ Plan(j)!InscribirPorCorreo(r, s) \/ Plan(j)!admin_program_enrollment(r, s)
          \/ Plan(j)!admin_program_unenrollment(r, s)
    \/ \E c \in j.cursos : Plan(j)!AgregarCurso(r, c) \/ Plan(j)!QuitarCurso(r, c)
    \/ \E o \in j.ordenes : Plan(j)!ConfirmarPago(r, o)

\* What goes on without a request.
Ajeno(j) ==
    \/ \E s \in j.estudiantes, o \in j.ordenes : Plan(j)!Capturar(s, o)
    \/ \E s \in j.estudiantes, c \in j.cursos :
          Plan(j)!InscribirCurso(s, c) \/ Plan(j)!DarDeBaja(s, c) \/ Plan(j)!CompletarCurso(s, c)
    \/ \E nuevo \in j.programas : Plan(j)!EditarPrograma(nuevo)

\* The steps of the program by who takes them.
LEMMA PlanParts ==
    ASSUME NEW j
    PROVE  Plan(j)!Next => Ajeno(j) \/ \E r \in j.peticiones : Empieza(j, r) \/ Plan(j)!Sigue(r) \/
           Plan(j)!Caer(r)
BY DEF Plan!Next, Ajeno, Empieza

\* A request with nothing to do is well formed, and is to insert nothing.
LEMMA PlanLibre ==
    ASSUME NEW j
    PROVE  /\ Plan(j)!Libre \in Plan(j)!Peticion /\ Plan(j)!Libre.pc = "idle"
           /\ SabeDe(j, Plan(j)!Libre)
           /\ \A s : ~DeAlta(j, Plan(j)!Libre, s) /\ ~DeDiploma(j, Plan(j)!Libre, s)
           /\ \A k, c : ~DeEnlace(j, Plan(j)!Libre, k, c)
BY DEF Plan!Libre, Plan!Peticion, SabeDe, DeAlta, DeDiploma, DeEnlace

\* Serving one request keeps the others as they were.
LEMMA PlanServedType ==
    ASSUME NEW j, Solicitudes(j), NEW r, NEW g, Sirve(j, r, g)
    PROVE  /\ Solicitudes(j)'
           /\ peticionP'[r] = g
           /\ \A q \in j.peticiones : q # r => peticionP'[q] = peticionP[q]
<1>1. /\ peticionP' \in [j.peticiones -> Plan(j)!Peticion] /\ peticionP'[r] = g
      /\ \A q \in j.peticiones : q # r => peticionP'[q] = peticionP[q]
  BY DEF Sirve, Solicitudes
<1>2. \A q \in j.peticiones : SabeDe(j, peticionP'[q])
  BY <1>1 DEF Sirve, Solicitudes
<1> QED BY <1>1, <1>2 DEF Solicitudes, SabeDe

\* The courses of a code.
LEMMA PlanCoursesType ==
    ASSUME NEW j
    PROVE  \A k : Plan(j)!CursosDe(k) \subseteq j.cursos
BY DEF Plan!CursosDe

Tablas(j) == <<programa, enlaces, inscritos, Plan(j)!tienda, Plan(j)!estudio>>

\* A request that starts inserts nothing yet, and what it is to insert was not
\* there when it looked.
LEMMA StartServes ==
    ASSUME NEW j, Plan(j)!ProgramsAssumption, PlanType(j), NEW r \in j.peticiones, Empieza(j, r)
    PROVE  /\ UNCHANGED <<Tablas(j), bajas, caidasP>> /\ edicionesP' \in 0..j.ediciones
           /\ peticionP[r].pc = "idle"
           /\ \E g : /\ Sirve(j, r, g)
                     /\ \A s \in j.estudiantes : DeAlta(j, g, s) => inscritos[s] = 0
                     /\ \A k \in j.codigos, c \in j.cursos : DeEnlace(j, g, k, c)
                          => enlaces[k][c] = 0
                     /\ \A s \in j.estudiantes : DeDiploma(j, g, s) =>
                           /\ Len(diplomas[s]) = 0
                           /\ Plan(j)!verificar_programa_completo(s, g.codigo)
<1> DEFINE Bien(g) == /\ Sirve(j, r, g)
                      /\ \A s \in j.estudiantes : DeAlta(j, g, s) => inscritos[s] = 0
                      /\ \A k \in j.codigos, c \in j.cursos : DeEnlace(j, g, k, c)
                           => enlaces[k][c] = 0
                      /\ \A s \in j.estudiantes : DeDiploma(j, g, s) =>
                            Len(diplomas[s]) = 0 /\ Plan(j)!verificar_programa_completo(s, g.codigo)
           Quieta == UNCHANGED <<Tablas(j), bajas, caidasP>> /\ edicionesP' \in 0..j.ediciones
           Meta == Quieta /\ peticionP[r].pc = "idle" /\ \E g : Bien(g)
<1>0. /\ programa.codigo \in j.codigos /\ \A k : Plan(j)!CursosDe(k) \subseteq j.cursos
      /\ edicionesP \in 0..j.ediciones /\ j.ediciones \in Nat
  BY DEF PlanType, Plan!Programa, Plan!CursosDe, Plan!ProgramsAssumption
<1>1. ASSUME NEW s \in j.estudiantes, Plan(j)!InscribirPrograma(r, s) PROVE Meta
  <2>1. PICK g :
          g = [Plan(j)!Libre EXCEPT !.pc = "cursos", !.usuario = s, !.codigo = programa.codigo]
    OBVIOUS
  <2>2. g \in Plan(j)!Peticion /\ g.pc = "cursos" /\ g.usuario = s
    BY <1>0, <2>1 DEF Plan!Libre, Plan!Peticion
  <2>3. Bien(g)
    BY <1>1, <2>1, <2>2
    DEF Sirve, SabeDe, DeAlta, DeEnlace, DeDiploma, Plan!InscribirPrograma, Plan!NoInscrito,
       Plan!Empezar
  <2> QED BY <1>0, <1>1, <2>3 DEF Plan!InscribirPrograma, Plan!Empezar, Plan!contadores, Tablas
<1>2. ASSUME NEW s \in j.estudiantes, Plan(j)!PedirPago(r, s) PROVE Meta
  <2>1. PICK g : g = [Plan(j)!Libre EXCEPT !.pc = "pago", !.usuario = s]
    OBVIOUS
  <2>2. g \in Plan(j)!Peticion /\ g.pc = "pago" /\ g.usuario = s
    BY <2>1 DEF Plan!Libre, Plan!Peticion
  <2>3. Bien(g)
    BY <1>2, <2>1, <2>2 DEF Sirve, SabeDe, DeAlta, DeEnlace, DeDiploma, Plan!PedirPago, Plan!Empezar
  <2> QED BY <1>0, <1>2, <2>3 DEF Plan!PedirPago, Plan!Empezar, Plan!contadores, Tablas
<1>3. ASSUME NEW s \in j.estudiantes, Plan(j)!TomarPrograma(r, s) PROVE Meta
  <2>1. PICK g :
          g = [Plan(j)!Libre EXCEPT !.pc = "emitir", !.usuario = s, !.codigo = programa.codigo]
    OBVIOUS
  <2>2. g \in Plan(j)!Peticion /\ g.pc = "emitir" /\ g.usuario = s /\ g.codigo = programa.codigo
    BY <1>0, <2>1 DEF Plan!Libre, Plan!Peticion
  <2>3. Bien(g)
    BY <1>3, <2>1, <2>2 DEF Sirve, SabeDe, DeAlta, DeEnlace, DeDiploma, Plan!TomarPrograma,
       Plan!Empezar
  <2> QED BY <1>0, <1>3, <2>3 DEF Plan!TomarPrograma, Plan!Empezar, Plan!contadores, Tablas
<1>4. ASSUME NEW s \in j.estudiantes, Plan(j)!InscribirPorCorreo(r, s) PROVE Meta
  <2>1. PICK g : g = [Plan(j)!Libre EXCEPT !.pc = "correo", !.usuario = s]
    OBVIOUS
  <2>2. g \in Plan(j)!Peticion /\ g.pc = "correo" /\ g.usuario = s
    BY <2>1 DEF Plan!Libre, Plan!Peticion
  <2>3. Bien(g)
    BY <1>4, <2>1, <2>2
    DEF Sirve, SabeDe, DeAlta, DeEnlace, DeDiploma, Plan!InscribirPorCorreo, Plan!NoInscrito,
       Plan!Empezar
  <2> QED BY <1>0, <1>4, <2>3 DEF Plan!InscribirPorCorreo, Plan!Empezar, Plan!AlEmpezarEdicion,
         Plan!Editar, Tablas
<1>5. ASSUME NEW s \in j.estudiantes, Plan(j)!admin_program_enrollment(r, s) PROVE Meta
  <2>1. PICK g : g = [Plan(j)!Libre EXCEPT !.pc = "filas", !.usuario = s,
                                   !.lista = Plan(j)!CursosDelAdministrador(programa.codigo)]
    OBVIOUS
  <2>2. g \in Plan(j)!Peticion /\ g.pc = "filas" /\ g.usuario = s
    BY <1>0, <2>1 DEF Plan!Libre, Plan!Peticion, Plan!CursosDelAdministrador
  <2>3. Bien(g)
    BY <1>5, <2>1, <2>2
    DEF Sirve, SabeDe, DeAlta, DeEnlace, DeDiploma, Plan!admin_program_enrollment, Plan!NoInscrito,
       Plan!Empezar
  <2> QED BY <1>0, <1>5, <2>3 DEF Plan!admin_program_enrollment, Plan!Empezar,
         Plan!AlEmpezarEdicion, Plan!Editar, Tablas
<1>6. ASSUME NEW s \in j.estudiantes, Plan(j)!admin_program_unenrollment(r, s) PROVE Meta
  <2>1. PICK g : g = [Plan(j)!Libre EXCEPT !.pc = "baja", !.usuario = s,
                                   !.lista = Plan(j)!CursosDelAdministrador(programa.codigo)]
    OBVIOUS
  <2>2. g \in Plan(j)!Peticion /\ g.pc = "baja" /\ g.usuario = s
    BY <1>0, <2>1 DEF Plan!Libre, Plan!Peticion, Plan!CursosDelAdministrador
  <2>3. Bien(g)
    BY <1>6, <2>1, <2>2
    DEF Sirve, SabeDe, DeAlta, DeEnlace, DeDiploma, Plan!admin_program_unenrollment, Plan!Empezar
  <2> QED BY <1>0, <1>6, <2>3 DEF Plan!admin_program_unenrollment, Plan!Empezar,
         Plan!AlEmpezarEdicion, Plan!Editar, Tablas
<1>7. ASSUME NEW c \in j.cursos, Plan(j)!AgregarCurso(r, c) PROVE Meta
  <2>1. PICK g :
          g = [Plan(j)!Libre EXCEPT !.pc = "alumnos", !.curso = c, !.codigo = programa.codigo]
    OBVIOUS
  <2>2. g \in Plan(j)!Peticion /\ g.pc = "alumnos" /\ g.curso = c /\ g.codigo = programa.codigo
    BY <1>0, <2>1 DEF Plan!Libre, Plan!Peticion
  <2>3. Bien(g)
    BY <1>0, <1>7, <2>1, <2>2
    DEF Sirve, SabeDe, DeAlta, DeEnlace, DeDiploma, Plan!AgregarCurso, Plan!NoEnPrograma,
       Plan!Empezar
  <2> QED BY <1>0, <1>7, <2>3 DEF Plan!AgregarCurso, Plan!Empezar, Plan!AlEmpezarEdicion,
         Plan!Editar, Tablas
<1>8. ASSUME NEW c \in j.cursos, Plan(j)!QuitarCurso(r, c) PROVE Meta
  <2>1. PICK g : g = [Plan(j)!Libre EXCEPT !.pc = "quitar", !.curso = c, !.codigo = programa.codigo,
                                   !.lista = {s \in j.estudiantes : inscritos[s] > 0}]
    OBVIOUS
  <2>2. g \in Plan(j)!Peticion /\ g.pc = "quitar" /\ g.curso = c /\ g.codigo = programa.codigo
    BY <1>0, <2>1 DEF Plan!Libre, Plan!Peticion
  <2>3. Bien(g)
    BY <1>0, <1>8, <2>1, <2>2 DEF Sirve, SabeDe, DeAlta, DeEnlace, DeDiploma, Plan!QuitarCurso,
       Plan!Empezar
  <2> QED BY <1>0, <1>8, <2>3 DEF Plan!QuitarCurso, Plan!Empezar, Plan!AlEmpezarEdicion,
         Plan!Editar, Tablas
<1>9. ASSUME NEW o \in j.ordenes, Plan(j)!ConfirmarPago(r, o) PROVE Meta
  <2>1. PICK p \in j.pagos \cup {Nada} :
           Plan(j)!Empezar(r, [Plan(j)!Libre EXCEPT !.pc = "registro", !.usuario = ordenes[o],
                                    !.codigo = programa.codigo, !.pago = p, !.orden = o])
    BY <1>9 DEF Plan!ConfirmarPago, Plan!Pendientes
  <2>2. PICK g : g = [Plan(j)!Libre EXCEPT !.pc = "registro", !.usuario = ordenes[o],
                                   !.codigo = programa.codigo, !.pago = p, !.orden = o]
    OBVIOUS
  <2>3. ordenes[o] \in j.estudiantes
    BY <1>9 DEF Plan!ConfirmarPago, PlanType
  <2>4. g \in Plan(j)!Peticion /\ g.pc = "registro" /\ g.usuario = ordenes[o]
    BY <1>0, <2>2, <2>3 DEF Plan!Libre, Plan!Peticion
  <2>5. Bien(g)
    BY <2>1, <2>2, <2>3, <2>4 DEF Sirve, SabeDe, DeAlta, DeEnlace, DeDiploma, Plan!Empezar
  <2> QED BY <1>0, <1>9, <2>1, <2>5 DEF Plan!ConfirmarPago, Plan!Empezar, Plan!contadores, Tablas
<1> QED BY <1>1, <1>2, <1>3, <1>4, <1>5, <1>6, <1>7, <1>8, <1>9 DEF Empieza

\* A request that goes on is to insert no more than it was, but for what it just
\* looked for and did not find.
LEMMA StepServes ==
    ASSUME NEW j, Plan(j)!ProgramsAssumption, PlanType(j), NEW r \in j.peticiones,
           Plan(j)!Sigue(r) \/ Plan(j)!Caer(r)
    PROVE  /\ peticionP[r].pc # "idle"
           /\ \E g : /\ Sirve(j, r, g)
                     /\ \A s \in j.estudiantes :
                           DeAlta(j, g, s) => DeAlta(j, peticionP[r], s) \/ inscritos[s] = 0
                     /\ \A k \in j.codigos, c \in j.cursos :
                           DeEnlace(j, g, k, c) => DeEnlace(j, peticionP[r], k, c)
                     /\ g.pc # "emitir"
<1> DEFINE q == peticionP[r]
           Bien(g) == /\ Sirve(j, r, g)
                      /\ \A s \in j.estudiantes :
                            DeAlta(j, g, s) => DeAlta(j, peticionP[r], s) \/ inscritos[s] = 0
                      /\ \A k \in j.codigos, c \in j.cursos :
                            DeEnlace(j, g, k, c) => DeEnlace(j, peticionP[r], k, c)
                      /\ g.pc # "emitir"
<1>0. q \in Plan(j)!Peticion /\ SabeDe(j, q) /\ \A k : Plan(j)!CursosDe(k) \subseteq j.cursos
  BY PlanCoursesType DEF PlanType, Solicitudes
<1>1. ASSUME Plan(j)!Terminar(r) PROVE \E g : Bien(g)
  BY <1>1, PlanLibre DEF Plan!Terminar, Sirve
<1>2. CASE Plan(j)!RegistrarPago(r)
  <2>1. PICK g : g = [q EXCEPT !.pc = "alta"]
    OBVIOUS
  <2>2. g \in Plan(j)!Peticion /\ g.pc = "alta" /\ g.usuario = q.usuario
    BY <1>0, <2>1 DEF Plan!Peticion
  <2>3. q.pc = "registro" /\ (Plan(j)!Terminar(r) \/ peticionP' = [peticionP EXCEPT ![r] = g])
    BY <1>2, <2>1 DEF Plan!RegistrarPago, Plan!En
  <2>4. SabeDe(j, g)
    BY <1>0, <2>2, <2>3 DEF SabeDe
  <2> QED BY <1>1, <2>2, <2>3, <2>4 DEF Sirve, DeAlta, DeEnlace
<1>3. CASE Plan(j)!BuscarInscripcion(r)
  <2>1. PICK b \in BOOLEAN : b = (inscritos[q.usuario] = 0)
    OBVIOUS
  <2>2. PICK g : g = [q EXCEPT !.pc = "cursos", !.alta = b]
    OBVIOUS
  <2>3. g \in Plan(j)!Peticion /\ g.pc = "cursos" /\ g.usuario = q.usuario /\ g.alta = b
    BY <1>0, <2>2 DEF Plan!Peticion
  <2>4. q.pc = "alta" /\ peticionP' = [peticionP EXCEPT ![r] = g]
    BY <1>3, <2>1, <2>2 DEF Plan!BuscarInscripcion, Plan!En
  <2>5. SabeDe(j, g)
    BY <1>0, <2>3, <2>4 DEF SabeDe
  <2> QED BY <2>1, <2>3, <2>4, <2>5 DEF Sirve, DeAlta, DeEnlace
<1>4. CASE Plan(j)!LeerCursos(r)
  <2>1. PICK g : g = [q EXCEPT !.pc = "filas", !.lista = Plan(j)!CursosDe(q.codigo)]
    OBVIOUS
  <2>2. g \in Plan(j)!Peticion /\ g.pc = "filas" /\ g.usuario = q.usuario /\ g.alta = q.alta
    BY <1>0, <2>1 DEF Plan!Peticion
  <2>3. q.pc = "cursos" /\ peticionP' = [peticionP EXCEPT ![r] = g]
    BY <1>4, <2>1 DEF Plan!LeerCursos, Plan!En
  <2>4. SabeDe(j, g)
    BY <1>0, <2>2, <2>3 DEF SabeDe
  <2> QED BY <2>2, <2>3, <2>4 DEF Sirve, DeAlta, DeEnlace
<1>5. CASE Plan(j)!LeerAlumnos(r)
  <2>1. PICK g : g = [q EXCEPT !.pc = "altas", !.lista = {s \in j.estudiantes : inscritos[s] > 0}]
    OBVIOUS
  <2>2. g \in Plan(j)!Peticion /\ g.pc = "altas" /\ g.codigo = q.codigo /\ g.curso = q.curso
        /\ g.guardado = q.guardado
    BY <1>0, <2>1 DEF Plan!Peticion
  <2>3. q.pc = "alumnos" /\ (Plan(j)!Terminar(r) \/ peticionP' = [peticionP EXCEPT ![r] = g])
    BY <1>5, <2>1 DEF Plan!LeerAlumnos, Plan!En
  <2>4. SabeDe(j, g)
    BY <1>0, <2>2, <2>3 DEF SabeDe
  <2> QED BY <1>1, <2>2, <2>3, <2>4 DEF Sirve, DeAlta, DeEnlace
<1>6. ASSUME NEW s \in j.estudiantes, Plan(j)!InscribirAlumno(r, s)
      PROVE q.pc # "idle" /\ \E g : Bien(g)
  <2>1. PICK g : g = [q EXCEPT !.lista = @ \ {s}]
    OBVIOUS
  <2>2. PICK h : h = [q EXCEPT !.lista = @ \ {s}, !.guardado = TRUE]
    OBVIOUS
  <2>3. /\ g \in Plan(j)!Peticion /\ g.pc = q.pc /\ g.codigo = q.codigo /\ g.curso = q.curso
        /\ g.guardado = q.guardado
        /\ h \in Plan(j)!Peticion /\ h.pc = q.pc /\ h.codigo = q.codigo /\ h.curso = q.curso
        /\ h.guardado
    BY <1>0, <2>1, <2>2 DEF Plan!Peticion
  <2>4. /\ q.pc = "altas"
        /\ \/ Plan(j)!Terminar(r) \/ peticionP' = [peticionP EXCEPT ![r] = g]
           \/ peticionP' = [peticionP EXCEPT ![r] = h]
    BY <1>6, <2>1, <2>2 DEF Plan!InscribirAlumno, Plan!En
  <2>5. SabeDe(j, g) /\ SabeDe(j, h)
    BY <1>0, <2>3, <2>4 DEF SabeDe
  <2> QED BY <1>1, <2>3, <2>4, <2>5 DEF Sirve, DeAlta, DeEnlace
<1>7. ASSUME \/ Plan(j)!CrearPago(r) \/ Plan(j)!Inscribir(r) \/ Plan(j)!GuardarPorCorreo(r) \/
                  Plan(j)!Desinscribir(r)
             \/ Plan(j)!CursoAgregado(r) \/ Plan(j)!CursoQuitado(r) \/ Plan(j)!EmitirDiploma(r) \/
                  Plan(j)!Caer(r)
      PROVE  q.pc # "idle" /\ Plan(j)!Terminar(r)
  BY <1>7 DEF Plan!CrearPago, Plan!Inscribir, Plan!GuardarPorCorreo, Plan!Desinscribir,
     Plan!CursoAgregado, Plan!CursoQuitado,
              Plan!EmitirDiploma, Plan!Caer, Plan!En
<1>8. ASSUME Plan(j)!RegistrarPago(r) \/ Plan(j)!BuscarInscripcion(r) \/ Plan(j)!LeerCursos(r) \/
             Plan(j)!LeerAlumnos(r)
      PROVE  q.pc # "idle"
  BY <1>8 DEF Plan!RegistrarPago, Plan!BuscarInscripcion, Plan!LeerCursos, Plan!LeerAlumnos, Plan!En
<1>9. CASE Plan(j)!CrearPago(r) \/ Plan(j)!Inscribir(r) \/ Plan(j)!GuardarPorCorreo(r) \/
        Plan(j)!Desinscribir(r)
             \/ Plan(j)!CursoAgregado(r) \/ Plan(j)!CursoQuitado(r) \/ Plan(j)!EmitirDiploma(r) \/
                  Plan(j)!Caer(r)
  BY <1>1, <1>7, <1>9
<1> QED BY <1>2, <1>3, <1>4, <1>5, <1>6, <1>8, <1>9 DEF Plan!Sigue

----------------------------------------
(* The tables *)

SinInscribir(j) == UNCHANGED inscritos
Inscribe(j, r) == /\ peticionP[r].usuario \in j.estudiantes
                  /\ DeAlta(j, peticionP[r], peticionP[r].usuario)
                  /\ peticionP' = [peticionP EXCEPT ![r] = Plan(j)!Libre]
                  /\ inscritos' = [inscritos EXCEPT ![peticionP[r].usuario] = @ + 1]
Desinscribe(j, r) == /\ peticionP[r].usuario \in j.estudiantes
                     /\ peticionP' = [peticionP EXCEPT ![r] = Plan(j)!Libre]
                     /\ inscritos' = [inscritos EXCEPT ![peticionP[r].usuario] = Plan(j)!Menos(@)]

\* What a step does to the students of the program.
LEMMA StudentsStep ==
    ASSUME NEW j, Plan(j)!ProgramsAssumption, PlanType(j), [Plan(j)!Next]_(Plan(j)!vars)
    PROVE  SinInscribir(j) \/ \E r \in j.peticiones : Inscribe(j, r) \/ Desinscribe(j, r)
<1>1. ASSUME Ajeno(j) PROVE SinInscribir(j)
  BY <1>1 DEF Ajeno, Plan!Capturar, Plan!InscribirCurso, Plan!DarDeBaja, Plan!CompletarCurso,
     Plan!EditarPrograma, SinInscribir
<1>2. ASSUME NEW r \in j.peticiones, Empieza(j, r) PROVE SinInscribir(j)
  BY <1>2, StartServes DEF Tablas, SinInscribir
<1>3. ASSUME NEW r \in j.peticiones, Plan(j)!Inscribir(r) PROVE SinInscribir(j) \/ Inscribe(j, r)
  <2>1. peticionP[r].usuario \in j.estudiantes /\ peticionP[r].pc = "filas"
    BY <1>3 DEF Plan!Inscribir, Plan!En, PlanType, Solicitudes, SabeDe
  <2>2. \/ UNCHANGED inscritos
        \/ peticionP[r].alta /\ inscritos' = [inscritos EXCEPT ![peticionP[r].usuario] = @ + 1]
    BY <1>3 DEF Plan!Inscribir
  <2> QED BY <1>3, <2>1, <2>2 DEF Plan!Inscribir, Plan!Terminar, Inscribe, SinInscribir, DeAlta
<1>4. ASSUME NEW r \in j.peticiones, Plan(j)!GuardarPorCorreo(r) PROVE Inscribe(j, r)
  BY <1>4 DEF Plan!GuardarPorCorreo, Plan!Terminar, Plan!En, Inscribe, DeAlta, PlanType,
     Solicitudes, SabeDe
<1>5. ASSUME NEW r \in j.peticiones, Plan(j)!Desinscribir(r) PROVE Desinscribe(j, r)
  BY <1>5 DEF Plan!Desinscribir, Plan!Terminar, Plan!En, Desinscribe, PlanType, Solicitudes, SabeDe
<1>6. ASSUME NEW r \in j.peticiones, Plan(j)!Sigue(r) \/ Plan(j)!Caer(r), ~Plan(j)!Inscribir(r),
             ~Plan(j)!GuardarPorCorreo(r),
             ~Plan(j)!Desinscribir(r)
      PROVE  SinInscribir(j)
  BY <1>6 DEF Plan!Sigue, Plan!Caer, Plan!CrearPago, Plan!RegistrarPago, Plan!BuscarInscripcion,
     Plan!LeerCursos, Plan!LeerAlumnos,
              Plan!InscribirAlumno, Plan!CursoAgregado, Plan!CursoQuitado, Plan!EmitirDiploma,
                SinInscribir
<1>7. CASE UNCHANGED Plan(j)!vars
  BY <1>7 DEF Plan!vars, SinInscribir
<1> QED BY <1>1, <1>2, <1>3, <1>4, <1>5, <1>6, <1>7, PlanParts

SinEnlazar(j) == UNCHANGED enlaces
Enlaza(j, r) == LET q == peticionP[r] IN
    /\ q.codigo \in j.codigos /\ q.curso \in j.cursos /\ DeEnlace(j, q, q.codigo, q.curso)
    /\ enlaces' = [enlaces EXCEPT ![q.codigo][q.curso] = @ + 1]
    /\ \E g : Sirve(j, r, g) /\ (g.pc = "idle" \/ g.guardado)
Desenlaza(j, r) == LET q == peticionP[r] IN
    /\ q.codigo \in j.codigos /\ q.curso \in j.cursos
    /\ enlaces' = [enlaces EXCEPT ![q.codigo][q.curso] = Plan(j)!Menos(@)]
    /\ peticionP' = [peticionP EXCEPT ![r] = Plan(j)!Libre]

\* What a step does to the courses of the program.
LEMMA LinksStep ==
    ASSUME NEW j, Plan(j)!ProgramsAssumption, PlanType(j), [Plan(j)!Next]_(Plan(j)!vars)
    PROVE  SinEnlazar(j) \/ \E r \in j.peticiones : Enlaza(j, r) \/ Desenlaza(j, r)
<1>1. ASSUME Ajeno(j) PROVE SinEnlazar(j)
  BY <1>1 DEF Ajeno, Plan!Capturar, Plan!InscribirCurso, Plan!DarDeBaja, Plan!CompletarCurso,
     Plan!EditarPrograma, SinEnlazar
<1>2. ASSUME NEW r \in j.peticiones, Empieza(j, r) PROVE SinEnlazar(j)
  BY <1>2, StartServes DEF Tablas, SinEnlazar
<1>3. ASSUME NEW r \in j.peticiones, Plan(j)!En(r, "altas"), ~peticionP[r].guardado
      PROVE  /\ peticionP[r].codigo \in j.codigos /\ peticionP[r].curso \in j.cursos
             /\ DeEnlace(j, peticionP[r], peticionP[r].codigo, peticionP[r].curso)
  BY <1>3 DEF Plan!En, PlanType, Solicitudes, SabeDe, DeEnlace
<1>4. ASSUME NEW r \in j.peticiones, Plan(j)!CursoAgregado(r) PROVE SinEnlazar(j) \/ Enlaza(j, r)
  <2>1. Sirve(j, r, Plan(j)!Libre)
    BY <1>4, PlanLibre DEF Plan!CursoAgregado, Plan!Terminar, Sirve
  <2>2. Plan(j)!Enlazar(r)
    BY <1>4 DEF Plan!CursoAgregado
  <2>3. Plan(j)!En(r, "altas")
    BY <1>4 DEF Plan!CursoAgregado
  <2> QED BY <1>3, <2>1, <2>2, <2>3, PlanLibre DEF Plan!Enlazar, Enlaza, SinEnlazar
<1>5. ASSUME NEW r \in j.peticiones, NEW s \in j.estudiantes, Plan(j)!InscribirAlumno(r, s)
      PROVE  SinEnlazar(j) \/ Enlaza(j, r)
  <2> DEFINE q == peticionP[r]
  <2>1. SinEnlazar(j) \/
          (Plan(j)!Enlazar(r) /\
          peticionP' = [peticionP EXCEPT ![r].lista = @ \ {s}, ![r].guardado = TRUE])
    BY <1>5 DEF Plan!InscribirAlumno, SinEnlazar
  <2>2. PICK g : g = [q EXCEPT !.lista = @ \ {s}, !.guardado = TRUE]
    OBVIOUS
  <2>3. q \in Plan(j)!Peticion /\ SabeDe(j, q) /\ Plan(j)!En(r, "altas")
    BY <1>5 DEF Plan!InscribirAlumno, PlanType, Solicitudes
  <2>4. g \in Plan(j)!Peticion /\ g.pc = q.pc /\ g.codigo = q.codigo /\ g.curso = q.curso /\
          g.guardado
    BY <2>2, <2>3 DEF Plan!Peticion
  <2>5. SabeDe(j, g)
    BY <2>3, <2>4 DEF SabeDe, Plan!En
  <2>6. peticionP' = [peticionP EXCEPT ![r].lista = @ \ {s}, ![r].guardado = TRUE] => Sirve(j, r, g)
    BY <2>2, <2>4, <2>5 DEF Sirve
  <2> QED BY <1>3, <2>1, <2>3, <2>4, <2>6 DEF Plan!Enlazar, Enlaza, SinEnlazar
<1>6. ASSUME NEW r \in j.peticiones, Plan(j)!CursoQuitado(r) PROVE Desenlaza(j, r)
  BY <1>6 DEF Plan!CursoQuitado, Plan!Terminar, Plan!En, Desenlaza, PlanType, Solicitudes, SabeDe
<1>7. ASSUME NEW r \in j.peticiones, Plan(j)!Sigue(r) \/ Plan(j)!Caer(r), ~Plan(j)!CursoAgregado(r),
             ~Plan(j)!CursoQuitado(r),
             ~\E s \in j.estudiantes : Plan(j)!InscribirAlumno(r, s)
      PROVE  SinEnlazar(j)
  BY <1>7 DEF Plan!Sigue, Plan!Caer, Plan!CrearPago, Plan!RegistrarPago, Plan!BuscarInscripcion,
     Plan!LeerCursos, Plan!LeerAlumnos,
              Plan!Inscribir, Plan!GuardarPorCorreo, Plan!Desinscribir, Plan!EmitirDiploma,
                SinEnlazar
<1>8. CASE UNCHANGED Plan(j)!vars
  BY <1>8 DEF Plan!vars, SinEnlazar
<1> QED BY <1>1, <1>2, <1>4, <1>5, <1>6, <1>7, <1>8, PlanParts

SinDiploma(j) == UNCHANGED diplomas
Otorga(j, r) == /\ peticionP[r].usuario \in j.estudiantes
                /\ DeDiploma(j, peticionP[r], peticionP[r].usuario)
                /\ peticionP[r].codigo = programa.codigo
                /\ peticionP' = [peticionP EXCEPT ![r] = Plan(j)!Libre]
                /\ diplomas' = [diplomas EXCEPT ![peticionP[r].usuario] =
                                   Append(@, Plan(j)!CursosDe(programa.codigo))]

\* What a step does to the certificates of the program.
LEMMA DiplomasStep ==
    ASSUME NEW j, Plan(j)!ProgramsAssumption, PlanType(j), [Plan(j)!Next]_(Plan(j)!vars)
    PROVE  SinDiploma(j) \/ \E r \in j.peticiones : Plan(j)!EmitirDiploma(r) /\ Otorga(j, r)
<1>1. ASSUME Ajeno(j) PROVE SinDiploma(j)
  BY <1>1 DEF Ajeno, Plan!Capturar, Plan!InscribirCurso, Plan!DarDeBaja, Plan!CompletarCurso,
     Plan!EditarPrograma, SinDiploma,
              Plan!estudio
<1>2. ASSUME NEW r \in j.peticiones, Empieza(j, r) PROVE SinDiploma(j)
  BY <1>2, StartServes DEF Tablas, SinDiploma, Plan!estudio
<1>3. ASSUME NEW r \in j.peticiones, Plan(j)!EmitirDiploma(r) PROVE SinDiploma(j) \/ Otorga(j, r)
  BY <1>3 DEF Plan!EmitirDiploma, Plan!Terminar, Plan!En, Otorga, SinDiploma, Plan!Snapshot,
     DeDiploma, PlanType,
              Solicitudes, SabeDe
<1>4. ASSUME NEW r \in j.peticiones, Plan(j)!Sigue(r) \/ Plan(j)!Caer(r), ~Plan(j)!EmitirDiploma(r)
      PROVE SinDiploma(j)
  BY <1>4 DEF Plan!Sigue, Plan!Caer, Plan!CrearPago, Plan!RegistrarPago, Plan!BuscarInscripcion,
     Plan!LeerCursos, Plan!LeerAlumnos,
              Plan!Inscribir, Plan!GuardarPorCorreo, Plan!Desinscribir, Plan!InscribirAlumno,
                Plan!CursoAgregado,
              Plan!CursoQuitado, SinDiploma, Plan!estudio
<1>5. CASE UNCHANGED Plan(j)!vars
  BY <1>5 DEF Plan!vars, SinDiploma, Plan!estudio
<1> QED BY <1>1, <1>2, <1>3, <1>4, <1>5, PlanParts

\* Two tables that requests fill, and what the rest of the system changes.
LEMMA TablesStep ==
    ASSUME NEW j, Plan(j)!ProgramsAssumption, PlanType(j), Plan(j)!Next
    PROVE  /\ programa' \in Plan(j)!Programa
           /\ pagos' \in [j.pagos -> Plan(j)!Pago \cup {Nada}]
           /\ ordenes' \in [j.ordenes -> j.estudiantes \cup {Nada}]
           /\ matriculas' \in [j.estudiantes -> [j.cursos -> {"ninguna", "inactiva", "activa"}]]
           /\ certificadosP' \in [j.estudiantes -> [j.cursos -> 0..j.filas]]
           /\ edicionesP' \in 0..j.ediciones /\ bajas' \in 0..j.bajas /\ caidasP' \in 0..j.caidas
<1> DEFINE Bien == /\ programa' \in Plan(j)!Programa
                   /\ pagos' \in [j.pagos -> Plan(j)!Pago \cup {Nada}]
                   /\ ordenes' \in [j.ordenes -> j.estudiantes \cup {Nada}]
                   /\ matriculas' \in [j.estudiantes -> [j.cursos -> {"ninguna", "inactiva",
                        "activa"}]]
                   /\ certificadosP' \in [j.estudiantes -> [j.cursos -> 0..j.filas]]
                   /\ edicionesP' \in 0..j.ediciones /\ bajas' \in 0..j.bajas
                   /\ caidasP' \in 0..j.caidas
<1>0. /\ programa \in Plan(j)!Programa /\ pagos \in [j.pagos -> Plan(j)!Pago \cup {Nada}]
      /\ ordenes \in [j.ordenes -> j.estudiantes \cup {Nada}]
      /\ matriculas \in [j.estudiantes -> [j.cursos -> {"ninguna", "inactiva", "activa"}]]
      /\ certificadosP \in [j.estudiantes -> [j.cursos -> 0..j.filas]]
      /\ edicionesP \in 0..j.ediciones /\ bajas \in 0..j.bajas /\ caidasP \in 0..j.caidas
      /\ j.filas \in Nat /\ j.ediciones \in Nat /\ j.bajas \in Nat /\ j.caidas \in Nat
  BY DEF PlanType, Plan!ProgramsAssumption
<1>1. ASSUME NEW r \in j.peticiones, Empieza(j, r) PROVE Bien
  BY <1>0, <1>1, StartServes DEF Tablas, Plan!tienda, Plan!estudio
<1>2. ASSUME NEW s \in j.estudiantes, NEW o \in j.ordenes, Plan(j)!Capturar(s, o) PROVE Bien
  BY <1>0, <1>2 DEF Plan!Capturar, Plan!estudio, Plan!contadores
<1>3. ASSUME NEW s \in j.estudiantes, NEW c \in j.cursos,
             Plan(j)!InscribirCurso(s, c) \/ Plan(j)!DarDeBaja(s, c) \/ Plan(j)!CompletarCurso(s, c)
      PROVE  Bien
  <2>1. CASE Plan(j)!InscribirCurso(s, c)
    BY <1>0, <2>1 DEF Plan!InscribirCurso, Plan!tienda, Plan!contadores
  <2>2. CASE Plan(j)!DarDeBaja(s, c)
    BY <1>0, <2>2 DEF Plan!DarDeBaja, Plan!tienda
  <2>3. CASE Plan(j)!CompletarCurso(s, c)
    BY <1>0, <2>3 DEF Plan!CompletarCurso, Plan!tienda, Plan!contadores
  <2> QED BY <1>3, <2>1, <2>2, <2>3
<1>4. ASSUME NEW nuevo \in j.programas, Plan(j)!EditarPrograma(nuevo) PROVE Bien
  <2>1. nuevo \in Plan(j)!Programa
    BY DEF Plan!ProgramsAssumption
  <2>2. PICK b \in BOOLEAN, e \in {"draft", "open", "closed"} :
           programa' = [nuevo EXCEPT !.publico = b, !.estado = e]
    <3>1. PICK v \in BOOLEAN : v = (Plan(j)!CursosDe(nuevo.codigo) = {})
      OBVIOUS
    <3>2. programa' = [nuevo EXCEPT !.publico = @ /\ ~v,
                                    !.estado = IF @ = "open" /\ v THEN "draft" ELSE @]
      BY <1>4, <3>1 DEF Plan!EditarPrograma
    <3>3. PICK b \in BOOLEAN : b = (nuevo.publico /\ ~v)
      OBVIOUS
    <3>4. PICK e \in {"draft", "open", "closed"} :
             e = IF nuevo.estado = "open" /\ v THEN "draft" ELSE nuevo.estado
      BY <2>1 DEF Plan!Programa
    <3>5. programa' = [nuevo EXCEPT !.publico = b, !.estado = e]
      BY <3>2, <3>3, <3>4
    <3> QED BY <3>5
  <2>3. programa' \in Plan(j)!Programa
    BY <2>1, <2>2 DEF Plan!Programa
  <2> QED BY <1>0, <1>4, <2>3 DEF Plan!EditarPrograma, Plan!Editar, Plan!tienda, Plan!estudio
<1>5. ASSUME NEW r \in j.peticiones, Plan(j)!CrearPago(r) PROVE Bien
  <2>1. PICK p \in j.pagos :
           pagos' = [pagos EXCEPT ![p] = [usuario |-> peticionP[r].usuario,
                                          estado |-> "pending", referencia |-> Nada]]
    BY <1>5 DEF Plan!CrearPago
  <2>2. peticionP[r].usuario \in j.estudiantes
    BY <1>5 DEF Plan!CrearPago, Plan!En, PlanType, Solicitudes, SabeDe
  <2>3. pagos' \in [j.pagos -> Plan(j)!Pago \cup {Nada}]
    BY <1>0, <2>1, <2>2 DEF Plan!Pago
  <2> QED BY <1>0, <1>5, <2>3 DEF Plan!CrearPago, Plan!estudio, Plan!contadores
<1>6. ASSUME NEW r \in j.peticiones, Plan(j)!Inscribir(r) PROVE Bien
  <2> DEFINE q == peticionP[r]
             nuevas == Plan(j)!Faltan(q.usuario, q.lista)
  <2>1. q \in Plan(j)!Peticion /\ q.usuario \in j.estudiantes
    BY <1>6 DEF Plan!Inscribir, Plan!En, PlanType, Solicitudes, SabeDe
  <2>2. pagos' \in [j.pagos -> Plan(j)!Pago \cup {Nada}]
    <3>1. ASSUME NEW p \in Plan(j)!PagoCompletado(r), q.orden # Nada,
                 pagos' = [pagos EXCEPT ![p] = [usuario |-> q.usuario, estado |-> "completed",
                                                referencia |-> q.orden]]
          PROVE  pagos' \in [j.pagos -> Plan(j)!Pago \cup {Nada}]
      BY <1>0, <2>1, <3>1 DEF Plan!Pago, Plan!Peticion
    <3>2. UNCHANGED pagos \/ \E p \in Plan(j)!PagoCompletado(r) :
             q.orden # Nada /\ pagos' = [pagos EXCEPT ![p] = [usuario |-> q.usuario,
                                             estado |-> "completed", referencia |-> q.orden]]
      BY <1>6 DEF Plan!Inscribir
    <3> QED BY <1>0, <3>1, <3>2
  <2>3. matriculas' \in [j.estudiantes -> [j.cursos -> {"ninguna", "inactiva", "activa"}]]
    <3>1. PICK m :
            m = [c \in j.cursos |-> IF c \in nuevas THEN "activa" ELSE matriculas[q.usuario][c]]
      OBVIOUS
    <3>2. m \in [j.cursos -> {"ninguna", "inactiva", "activa"}]
      BY <1>0, <2>1, <3>1
    <3>3. UNCHANGED matriculas \/ matriculas' = [matriculas EXCEPT ![q.usuario] = m]
      BY <1>6, <3>1 DEF Plan!Inscribir, Plan!Matricular
    <3> QED BY <1>0, <3>2, <3>3
  <2> QED BY <1>0, <1>6, <2>2, <2>3 DEF Plan!Inscribir, Plan!contadores
<1>7. ASSUME NEW r \in j.peticiones, Plan(j)!Desinscribir(r) \/ Plan(j)!CursoQuitado(r) PROVE Bien
  <2>1. ASSUME NEW alumnos, NEW cursos, Plan(j)!Desactivar(alumnos, cursos)
        PROVE  matriculas' \in [j.estudiantes -> [j.cursos -> {"ninguna", "inactiva", "activa"}]]
    BY <1>0, <2>1 DEF Plan!Desactivar
  <2> QED BY <1>0, <1>7, <2>1 DEF Plan!Desinscribir, Plan!CursoQuitado, Plan!tienda, Plan!contadores
<1>8. ASSUME NEW r \in j.peticiones, NEW s \in j.estudiantes, Plan(j)!InscribirAlumno(r, s)
      PROVE Bien
  <2>2. \/ UNCHANGED matriculas
        \/ matriculas' = [matriculas EXCEPT ![s][peticionP[r].curso] = "activa"]
    BY <1>8 DEF Plan!InscribirAlumno
  <2>3. matriculas' \in [j.estudiantes -> [j.cursos -> {"ninguna", "inactiva", "activa"}]]
    <3>1. PICK m : m = [matriculas[s] EXCEPT ![peticionP[r].curso] = "activa"]
      OBVIOUS
    <3>2. m \in [j.cursos -> {"ninguna", "inactiva", "activa"}]
      BY <1>0, <3>1
    <3>3. UNCHANGED matriculas \/ matriculas' = [matriculas EXCEPT ![s] = m]
      BY <2>2, <3>1
    <3> QED BY <1>0, <3>2, <3>3
  <2>4. UNCHANGED <<programa, pagos, ordenes, certificadosP, edicionesP, bajas, caidasP>>
    BY <1>8 DEF Plan!InscribirAlumno, Plan!tienda, Plan!contadores
  <2> QED BY <1>0, <2>3, <2>4
<1>9. ASSUME NEW r \in j.peticiones,
             \/ Plan(j)!RegistrarPago(r) \/ Plan(j)!BuscarInscripcion(r) \/ Plan(j)!LeerCursos(r) \/
                  Plan(j)!LeerAlumnos(r)
             \/ Plan(j)!GuardarPorCorreo(r) \/ Plan(j)!CursoAgregado(r) \/ Plan(j)!EmitirDiploma(r)
      PROVE  Bien
  BY <1>0, <1>9 DEF Plan!RegistrarPago, Plan!BuscarInscripcion, Plan!LeerCursos, Plan!LeerAlumnos,
     Plan!GuardarPorCorreo,
     Plan!CursoAgregado, Plan!EmitirDiploma, Plan!tienda, Plan!estudio, Plan!contadores
<1>10. ASSUME NEW r \in j.peticiones, Plan(j)!Caer(r) PROVE Bien
  BY <1>0, <1>10 DEF Plan!Caer, Plan!tienda, Plan!estudio
<1> QED BY <1>1, <1>2, <1>3, <1>4, <1>5, <1>6, <1>7, <1>8, <1>9, <1>10, PlanParts DEF Ajeno,
       Plan!Sigue

\* The types are kept.
LEMMA PlanTypeStep ==
    ASSUME NEW j
    PROVE  Plan(j)!ProgramsAssumption /\ PlanType(j) /\ [Plan(j)!Next]_(Plan(j)!vars)
           => PlanType(j)'
<1> SUFFICES ASSUME Plan(j)!ProgramsAssumption, PlanType(j), [Plan(j)!Next]_(Plan(j)!vars)
             PROVE PlanType(j)'
  OBVIOUS
<1>1. CASE UNCHANGED Plan(j)!vars
  BY <1>1 DEF Plan!vars, Plan!tienda, Plan!estudio, Plan!contadores, PlanType, Solicitudes
<1>2. CASE Plan(j)!Next
  <2>1. Solicitudes(j)'
    <3>1. CASE Ajeno(j)
      BY <3>1 DEF Ajeno, Plan!Capturar, Plan!InscribirCurso, Plan!DarDeBaja, Plan!CompletarCurso,
         Plan!EditarPrograma,
                  PlanType, Solicitudes
    <3>2. ASSUME NEW r \in j.peticiones, Empieza(j, r) \/ Plan(j)!Sigue(r) \/ Plan(j)!Caer(r)
          PROVE Solicitudes(j)'
      BY <3>2, StartServes, StepServes, PlanServedType DEF PlanType
    <3> QED BY <1>2, <3>1, <3>2, PlanParts
  <2>2. inscritos' \in [j.estudiantes -> Nat]
    <3>1. ASSUME NEW s \in j.estudiantes, NEW n \in Nat, inscritos' = [inscritos EXCEPT ![s] = n]
          PROVE  inscritos' \in [j.estudiantes -> Nat]
      BY <3>1 DEF PlanType
    <3>2. ASSUME NEW s \in j.estudiantes
          PROVE inscritos[s] + 1 \in Nat /\ Plan(j)!Menos(inscritos[s]) \in Nat
      BY DEF PlanType, Plan!Menos
    <3>3. CASE SinInscribir(j)
      BY <3>3 DEF SinInscribir, PlanType
    <3>4. ASSUME NEW r \in j.peticiones, Inscribe(j, r) \/ Desinscribe(j, r)
          PROVE  inscritos' \in [j.estudiantes -> Nat]
      BY <3>1, <3>2, <3>4 DEF Inscribe, Desinscribe
    <3> QED BY <3>3, <3>4, StudentsStep
  <2>3. enlaces' \in [j.codigos -> [j.cursos -> Nat]]
    <3>1. CASE SinEnlazar(j)
      BY <3>1 DEF SinEnlazar, PlanType
    <3>2. ASSUME NEW k \in j.codigos, NEW c \in j.cursos, NEW n \in Nat,
                 enlaces' = [enlaces EXCEPT ![k][c] = n]
          PROVE  enlaces' \in [j.codigos -> [j.cursos -> Nat]]
      BY <3>2 DEF PlanType
    <3>3. ASSUME NEW k \in j.codigos, NEW c \in j.cursos
          PROVE  enlaces[k][c] + 1 \in Nat /\ Plan(j)!Menos(enlaces[k][c]) \in Nat
      BY DEF PlanType, Plan!Menos
    <3>4. SinEnlazar(j) \/ \E r \in j.peticiones : Enlaza(j, r) \/ Desenlaza(j, r)
      BY LinksStep
    <3> QED BY <3>1, <3>2, <3>3, <3>4 DEF Enlaza, Desenlaza
  <2>4. diplomas' \in [j.estudiantes -> Seq(SUBSET j.cursos)]
    <3>1. CASE SinDiploma(j)
      BY <3>1 DEF SinDiploma, PlanType
    <3>2. Plan(j)!CursosDe(programa.codigo) \in SUBSET j.cursos
      BY PlanCoursesType
    <3>3. \A s \in j.estudiantes :
             Append(diplomas[s], Plan(j)!CursosDe(programa.codigo)) \in Seq(SUBSET j.cursos)
      <4>1. diplomas \in [j.estudiantes -> Seq(SUBSET j.cursos)]
        BY DEF PlanType
      <4>2. ASSUME NEW S, NEW s \in Seq(S), NEW c \in S PROVE Append(s, c) \in Seq(S)
        OBVIOUS
      <4> QED BY <3>2, <4>1, <4>2
    <3>4. SinDiploma(j) \/ \E r \in j.peticiones : Otorga(j, r)
      BY DiplomasStep
    <3> QED BY <3>1, <3>3, <3>4 DEF Otorga, PlanType
  <2> QED BY <1>2, <2>1, <2>2, <2>3, <2>4, TablesStep DEF PlanType
<1> QED BY <1>1, <1>2

\* The types hold at first.
LEMMA PlanTypeInit ==
    ASSUME NEW j
    PROVE  Plan(j)!ProgramsAssumption /\ Plan(j)!Init => PlanType(j)
<1> SUFFICES ASSUME Plan(j)!ProgramsAssumption, Plan(j)!Init PROVE PlanType(j)
  OBVIOUS
<1>1. programa \in Plan(j)!Programa
  BY DEF Plan!Init, Plan!ProgramsAssumption
<1>2. enlaces \in [j.codigos -> [j.cursos -> Nat]]
  BY DEF Plan!Init
<1>3. Solicitudes(j)
  BY PlanLibre DEF Plan!Init, Solicitudes
<1>4. diplomas \in [j.estudiantes -> Seq(SUBSET j.cursos)]
  BY DEF Plan!Init
<1>5. j.filas \in Nat /\ j.ediciones \in Nat /\ j.bajas \in Nat /\ j.caidas \in Nat
  BY DEF Plan!ProgramsAssumption
<1> QED BY <1>1, <1>2, <1>3, <1>4, <1>5 DEF Plan!Init, PlanType

----------------------------------------
(* Rows that only a lookup keeps single.  A request that is to insert one    *)
(* saw none, so that the rows and the requests about to insert are together  *)
(* no more than the requests there are.                                      *)

DeAltaDe(j, s) == {r \in j.peticiones : DeAlta(j, peticionP[r], s)}
DeEnlaceDe(j, k, c) == {r \in j.peticiones : DeEnlace(j, peticionP[r], k, c)}
DeDiplomaDe(j, s) == {r \in j.peticiones : DeDiploma(j, peticionP[r], s)}

Cupo(j, n, pendientes) == n + Cardinality(pendientes) <= Cardinality(j.peticiones)

CuposInv(j) ==
    /\ PlanType(j)
    /\ \A s \in j.estudiantes : Cupo(j, inscritos[s], DeAltaDe(j, s)) /\
         Cupo(j, Len(diplomas[s]), DeDiplomaDe(j, s))
    /\ \A k \in j.codigos, c \in j.cursos : Cupo(j, enlaces[k][c], DeEnlaceDe(j, k, c))

\* There is room: nothing is added, or there was nothing, or one of those about
\* to insert did.
LEMMA Room ==
    ASSUME NEW j, Plan(j)!ProgramsAssumption, NEW S \in SUBSET j.peticiones,
           NEW T \in SUBSET j.peticiones,
           NEW n \in Nat, NEW m \in Nat, Cupo(j, n, S),
           \/ m = 0
           \/ T \subseteq S /\ m <= n
           \/ m = n + 1 /\ \E r \in S : T \subseteq S \ {r}
    PROVE  Cupo(j, m, T)
<1>1. IsFiniteSet(j.peticiones) /\ IsFiniteSet(S) /\ IsFiniteSet(T)
  BY FS_Subset, PlanAssumptions
<1>2. /\ Cardinality(j.peticiones) \in Nat /\ Cardinality(S) \in Nat /\ Cardinality(T) \in Nat
  BY <1>1, FS_CardinalityType
<1>3. CASE m = 0
  BY <1>1, <1>2, <1>3, FS_Subset DEF Cupo
<1>4. CASE T \subseteq S /\ m <= n
  <2>1. Cardinality(T) <= Cardinality(S)
    BY <1>1, <1>4, FS_Subset
  <2> QED BY <1>2, <1>4, <2>1 DEF Cupo
<1>5. ASSUME NEW r \in S, T \subseteq S \ {r}, m = n + 1 PROVE Cupo(j, m, T)
  <2>1. IsFiniteSet(S \ {r}) /\ Cardinality(S \ {r}) = Cardinality(S) - 1
    BY <1>1, FS_RemoveElement
  <2>2. Cardinality(T) <= Cardinality(S \ {r})
    BY <1>5, <2>1, FS_Subset
  <2> QED BY <1>2, <1>5, <2>1, <2>2 DEF Cupo
<1> QED BY <1>3, <1>4, <1>5

\* Which requests become ones that are to insert something.
LEMMA BecomesPending ==
    ASSUME NEW j, Plan(j)!ProgramsAssumption, PlanType(j), [Plan(j)!Next]_(Plan(j)!vars),
           NEW q \in j.peticiones
    PROVE  /\ \A s \in j.estudiantes :
                 DeAlta(j, peticionP'[q], s) => DeAlta(j, peticionP[q], s) \/ inscritos[s] = 0
           /\ \A k \in j.codigos, c \in j.cursos :
                 DeEnlace(j, peticionP'[q], k, c) => DeEnlace(j, peticionP[q], k, c) \/
                   enlaces[k][c] = 0
           /\ \A s \in j.estudiantes :
                 DeDiploma(j, peticionP'[q], s) => DeDiploma(j, peticionP[q], s) \/
                   Len(diplomas[s]) = 0
<1> DEFINE Bien == /\ \A s \in j.estudiantes :
                         DeAlta(j, peticionP'[q], s) => DeAlta(j, peticionP[q], s) \/
                           inscritos[s] = 0
                   /\ \A k \in j.codigos, c \in j.cursos :
                         DeEnlace(j, peticionP'[q], k, c) => DeEnlace(j, peticionP[q], k, c) \/
                           enlaces[k][c] = 0
                   /\ \A s \in j.estudiantes :
                         DeDiploma(j, peticionP'[q], s) => DeDiploma(j, peticionP[q], s) \/
                           Len(diplomas[s]) = 0
<1>1. CASE peticionP'[q] = peticionP[q]
  BY <1>1
<1>2. ASSUME NEW r \in j.peticiones, Empieza(j, r) PROVE Bien
  <2>1. PICK g : /\ Sirve(j, r, g)
                 /\ \A s \in j.estudiantes : DeAlta(j, g, s) => inscritos[s] = 0
                 /\ \A k \in j.codigos, c \in j.cursos : DeEnlace(j, g, k, c) => enlaces[k][c] = 0
                 /\ \A s \in j.estudiantes : DeDiploma(j, g, s) => Len(diplomas[s]) = 0
    BY <1>2, StartServes
  <2>2. peticionP'[r] = g /\ (q # r => peticionP'[q] = peticionP[q])
    BY <2>1, PlanServedType DEF PlanType
  <2> QED BY <1>1, <2>1, <2>2
<1>3. ASSUME NEW r \in j.peticiones, Plan(j)!Sigue(r) \/ Plan(j)!Caer(r) PROVE Bien
  <2>1. PICK g : /\ Sirve(j, r, g)
                 /\ \A s \in j.estudiantes : DeAlta(j, g, s) => DeAlta(j, peticionP[r], s) \/
                      inscritos[s] = 0
                 /\ \A k \in j.codigos, c \in j.cursos : DeEnlace(j, g, k, c)
                      => DeEnlace(j, peticionP[r], k, c)
                 /\ g.pc # "emitir"
    BY <1>3, StepServes
  <2>2. peticionP'[r] = g /\ (q # r => peticionP'[q] = peticionP[q])
    BY <2>1, PlanServedType DEF PlanType
  <2> QED BY <1>1, <2>1, <2>2 DEF DeDiploma
<1>4. ASSUME Ajeno(j) \/ UNCHANGED Plan(j)!vars PROVE peticionP'[q] = peticionP[q]
  BY <1>4 DEF Ajeno, Plan!Capturar, Plan!InscribirCurso, Plan!DarDeBaja, Plan!CompletarCurso,
     Plan!EditarPrograma, Plan!vars
<1> QED BY <1>1, <1>2, <1>3, <1>4, PlanParts

\* There is room for the students of the program.
LEMMA StudentsRoom ==
    ASSUME NEW j, Plan(j)!ProgramsAssumption, CuposInv(j), [Plan(j)!Next]_(Plan(j)!vars),
           NEW s \in j.estudiantes
    PROVE  Cupo(j, inscritos'[s], DeAltaDe(j, s)')
<1>0. PlanType(j) /\ PlanType(j)' /\ Cupo(j, inscritos[s], DeAltaDe(j, s))
  BY PlanTypeStep DEF CuposInv
<1>1. inscritos[s] \in Nat /\ inscritos'[s] \in Nat /\ DeAltaDe(j, s) \in SUBSET j.peticiones
      /\ DeAltaDe(j, s)' \in SUBSET j.peticiones
  BY <1>0 DEF PlanType, DeAltaDe
<1>2. inscritos[s] = 0 \/ DeAltaDe(j, s)' \subseteq DeAltaDe(j, s)
  BY <1>0, BecomesPending DEF DeAltaDe
<1>3. CASE inscritos'[s] <= inscritos[s]
  <2>1. inscritos'[s] = 0 \/
          (DeAltaDe(j, s)' \subseteq DeAltaDe(j, s) /\ inscritos'[s] <= inscritos[s])
    BY <1>1, <1>2, <1>3
  <2> QED BY <1>0, <1>1, <2>1, Room
<1>4. ASSUME NEW r \in j.peticiones, Inscribe(j, r), s = peticionP[r].usuario
      PROVE  Cupo(j, inscritos'[s], DeAltaDe(j, s)')
  <2>1. inscritos'[s] = inscritos[s] + 1 /\ DeAlta(j, peticionP[r], s)
    BY <1>0, <1>4 DEF Inscribe, PlanType
  <2>2. Sirve(j, r, Plan(j)!Libre)
    BY <1>4, PlanLibre DEF Inscribe, Sirve
  <2>3. peticionP'[r] = Plan(j)!Libre /\ \A q \in j.peticiones : q # r
          => peticionP'[q] = peticionP[q]
    BY <1>0, <2>2, PlanServedType DEF PlanType
  <2>4. r \in DeAltaDe(j, s) /\ DeAltaDe(j, s)' \subseteq DeAltaDe(j, s) \ {r}
    BY <2>1, <2>3, PlanLibre DEF DeAltaDe
  <2> QED BY <1>0, <1>1, <2>1, <2>4, Room
<1>5. ASSUME NEW r \in j.peticiones, Inscribe(j, r), s # peticionP[r].usuario
      PROVE  inscritos'[s] = inscritos[s]
  BY <1>0, <1>5 DEF Inscribe, PlanType
<1>6. ASSUME NEW r \in j.peticiones, Desinscribe(j, r)
      PROVE  inscritos'[s] <= inscritos[s]
  BY <1>0, <1>1, <1>6 DEF Desinscribe, Plan!Menos, PlanType
<1> QED BY <1>0, <1>1, <1>3, <1>4, <1>5, <1>6, StudentsStep DEF SinInscribir

\* There is room for the courses of the program.
LEMMA LinksRoom ==
    ASSUME NEW j, Plan(j)!ProgramsAssumption, CuposInv(j), [Plan(j)!Next]_(Plan(j)!vars),
           NEW k \in j.codigos, NEW c \in j.cursos
    PROVE  Cupo(j, enlaces'[k][c], DeEnlaceDe(j, k, c)')
<1>0. PlanType(j) /\ PlanType(j)' /\ Cupo(j, enlaces[k][c], DeEnlaceDe(j, k, c))
  BY PlanTypeStep DEF CuposInv
<1>1. enlaces[k][c] \in Nat /\ enlaces'[k][c] \in Nat /\ DeEnlaceDe(j, k, c) \in SUBSET j.peticiones
      /\ DeEnlaceDe(j, k, c)' \in SUBSET j.peticiones
  BY <1>0 DEF PlanType, DeEnlaceDe
<1>2. enlaces[k][c] = 0 \/ DeEnlaceDe(j, k, c)' \subseteq DeEnlaceDe(j, k, c)
  BY <1>0, BecomesPending DEF DeEnlaceDe
<1>3. CASE enlaces'[k][c] <= enlaces[k][c]
  <2>1. \/ enlaces'[k][c] = 0
        \/ DeEnlaceDe(j, k, c)' \subseteq DeEnlaceDe(j, k, c) /\ enlaces'[k][c] <= enlaces[k][c]
    BY <1>1, <1>2, <1>3
  <2> QED BY <1>0, <1>1, <2>1, Room
<1>4. ASSUME NEW r \in j.peticiones, Enlaza(j, r), k = peticionP[r].codigo, c = peticionP[r].curso
      PROVE  Cupo(j, enlaces'[k][c], DeEnlaceDe(j, k, c)')
  <2>1. enlaces'[k][c] = enlaces[k][c] + 1 /\ DeEnlace(j, peticionP[r], k, c)
    BY <1>0, <1>4 DEF Enlaza, PlanType
  <2>2. PICK g : Sirve(j, r, g) /\ (g.pc = "idle" \/ g.guardado)
    BY <1>4 DEF Enlaza
  <2>3. peticionP'[r] = g /\ \A q \in j.peticiones : q # r => peticionP'[q] = peticionP[q]
    BY <1>0, <2>2, PlanServedType DEF PlanType
  <2>4. ~DeEnlace(j, g, k, c)
    BY <2>2 DEF DeEnlace
  <2>5. r \in DeEnlaceDe(j, k, c) /\ DeEnlaceDe(j, k, c)' \subseteq DeEnlaceDe(j, k, c) \ {r}
    BY <2>1, <2>3, <2>4 DEF DeEnlaceDe
  <2> QED BY <1>0, <1>1, <2>1, <2>5, Room
<1>5. ASSUME NEW r \in j.peticiones, Enlaza(j, r),
             ~(k = peticionP[r].codigo /\ c = peticionP[r].curso)
      PROVE  enlaces'[k][c] = enlaces[k][c]
  BY <1>0, <1>5 DEF Enlaza, PlanType
<1>6. ASSUME NEW r \in j.peticiones, Desenlaza(j, r) PROVE enlaces'[k][c] <= enlaces[k][c]
  BY <1>0, <1>1, <1>6 DEF Desenlaza, Plan!Menos, PlanType
<1> QED BY <1>0, <1>1, <1>3, <1>4, <1>5, <1>6, LinksStep DEF SinEnlazar

\* There is room for the certificates of the program.
LEMMA DiplomasRoom ==
    ASSUME NEW j, Plan(j)!ProgramsAssumption, CuposInv(j), [Plan(j)!Next]_(Plan(j)!vars),
           NEW s \in j.estudiantes
    PROVE  Cupo(j, Len(diplomas'[s]), DeDiplomaDe(j, s)')
<1>0. PlanType(j) /\ PlanType(j)' /\ Cupo(j, Len(diplomas[s]), DeDiplomaDe(j, s))
  BY PlanTypeStep DEF CuposInv
<1>1. Len(diplomas[s]) \in Nat /\ Len(diplomas'[s]) \in Nat /\
        DeDiplomaDe(j, s) \in SUBSET j.peticiones
      /\ DeDiplomaDe(j, s)' \in SUBSET j.peticiones
  BY <1>0 DEF PlanType, DeDiplomaDe
<1>2. Len(diplomas[s]) = 0 \/ DeDiplomaDe(j, s)' \subseteq DeDiplomaDe(j, s)
  BY <1>0, BecomesPending DEF DeDiplomaDe
<1>3. CASE Len(diplomas'[s]) = Len(diplomas[s])
  <2>1. \/ Len(diplomas'[s]) = 0
        \/ DeDiplomaDe(j, s)' \subseteq DeDiplomaDe(j, s) /\ Len(diplomas'[s]) <= Len(diplomas[s])
    BY <1>1, <1>2, <1>3
  <2> QED BY <1>0, <1>1, <2>1, Room
<1>4. ASSUME NEW r \in j.peticiones, Otorga(j, r), s = peticionP[r].usuario
      PROVE  Cupo(j, Len(diplomas'[s]), DeDiplomaDe(j, s)')
  <2>1. Len(diplomas'[s]) = Len(diplomas[s]) + 1 /\ DeDiploma(j, peticionP[r], s)
    <3>1. diplomas'[s] = Append(diplomas[s], Plan(j)!CursosDe(programa.codigo))
      BY <1>0, <1>4 DEF Otorga, PlanType
    <3> QED BY <1>0, <1>4, <3>1, PlanCoursesType DEF Otorga, PlanType
  <2>2. Sirve(j, r, Plan(j)!Libre)
    BY <1>4, PlanLibre DEF Otorga, Sirve
  <2>3. peticionP'[r] = Plan(j)!Libre /\ \A q \in j.peticiones : q # r
          => peticionP'[q] = peticionP[q]
    BY <1>0, <2>2, PlanServedType DEF PlanType
  <2>4. r \in DeDiplomaDe(j, s) /\ DeDiplomaDe(j, s)' \subseteq DeDiplomaDe(j, s) \ {r}
    BY <2>1, <2>3, PlanLibre DEF DeDiplomaDe
  <2> QED BY <1>0, <1>1, <2>1, <2>4, Room
<1>5. ASSUME NEW r \in j.peticiones, Otorga(j, r), s # peticionP[r].usuario
      PROVE  diplomas'[s] = diplomas[s]
  BY <1>0, <1>5 DEF Otorga, PlanType
<1> QED BY <1>0, <1>1, <1>3, <1>4, <1>5, DiplomasStep DEF SinDiploma

\* There is always room.
LEMMA CuposStep ==
    ASSUME NEW j
    PROVE  Plan(j)!ProgramsAssumption /\ CuposInv(j) /\ [Plan(j)!Next]_(Plan(j)!vars)
           => CuposInv(j)'
<1> SUFFICES ASSUME Plan(j)!ProgramsAssumption, CuposInv(j), [Plan(j)!Next]_(Plan(j)!vars)
             PROVE CuposInv(j)'
  OBVIOUS
<1>1. PlanType(j)'
  BY PlanTypeStep DEF CuposInv
<1> QED BY <1>1, StudentsRoom, LinksRoom, DiplomasRoom DEF CuposInv

\* At first nobody is to insert anything, and no course is in the program twice.
LEMMA CuposInit ==
    ASSUME NEW j
    PROVE  Plan(j)!ProgramsAssumption /\ Plan(j)!Init => CuposInv(j)
<1> SUFFICES ASSUME Plan(j)!ProgramsAssumption, Plan(j)!Init PROVE CuposInv(j)
  OBVIOUS
<1>1. \A r \in j.peticiones : peticionP[r] = Plan(j)!Libre
  BY DEF Plan!Init
<1>2. /\ \A s \in j.estudiantes : DeAltaDe(j, s) = {} /\ DeDiplomaDe(j, s) = {}
      /\ \A k \in j.codigos, c \in j.cursos : DeEnlaceDe(j, k, c) = {}
  BY <1>1, PlanLibre DEF DeAltaDe, DeDiplomaDe, DeEnlaceDe
<1>3. Cardinality(j.peticiones) \in Nat /\ Cardinality(j.peticiones) # 0 /\ Cardinality({}) = 0
  BY FS_CardinalityType, FS_EmptySet, PlanAssumptions
<1>4. \A k \in j.codigos, c \in j.cursos : enlaces[k][c] \in 0..1
  BY DEF Plan!Init
<1>5. \A s \in j.estudiantes : inscritos[s] = 0 /\ Len(diplomas[s]) = 0
  BY DEF Plan!Init
<1>6. \A n \in 0..1 : Cupo(j, n, {})
  BY <1>3 DEF Cupo
<1>7. ASSUME NEW s \in j.estudiantes
      PROVE  Cupo(j, inscritos[s], DeAltaDe(j, s)) /\ Cupo(j, Len(diplomas[s]), DeDiplomaDe(j, s))
  <2>1. Cupo(j, 0, {})
    BY <1>6
  <2>2. inscritos[s] = 0 /\ Len(diplomas[s]) = 0 /\ DeAltaDe(j, s) = {} /\ DeDiplomaDe(j, s) = {}
    BY <1>2, <1>5
  <2> HIDE DEF Cupo
  <2> QED BY <2>1, <2>2
<1>8. ASSUME NEW k \in j.codigos, NEW c \in j.cursos
      PROVE Cupo(j, enlaces[k][c], DeEnlaceDe(j, k, c))
  BY <1>2, <1>4, <1>6
<1> QED BY <1>7, <1>8, PlanTypeInit DEF CuposInv

\* With the room that is kept, the types are those of the rows.
LEMMA CuposType ==
    ASSUME NEW j
    PROVE  Plan(j)!ProgramsAssumption /\ CuposInv(j) => Plan(j)!TypeOK
<1> SUFFICES ASSUME Plan(j)!ProgramsAssumption, CuposInv(j) PROVE Plan(j)!TypeOK
  OBVIOUS
<1>1. PlanType(j) /\ IsFiniteSet(j.peticiones) /\ Cardinality(j.peticiones) \in Nat
  BY FS_CardinalityType, PlanAssumptions DEF CuposInv
<1>2. ASSUME NEW n \in Nat, NEW S \in SUBSET j.peticiones, Cupo(j, n, S)
      PROVE  n \in 0..Cardinality(j.peticiones)
  <2>1. Cardinality(S) \in Nat
    BY <1>1, FS_Subset, FS_CardinalityType
  <2> QED BY <1>1, <1>2, <2>1 DEF Cupo
<1>3. ASSUME NEW s \in j.estudiantes
      PROVE  inscritos[s] \in 0..Cardinality(j.peticiones) /\
             Len(diplomas[s]) <= Cardinality(j.peticiones)
             /\ \A i \in 1..Len(diplomas[s]) : diplomas[s][i] \subseteq j.cursos
  <2>1. inscritos[s] \in Nat /\ Len(diplomas[s]) \in Nat /\ diplomas[s] \in Seq(SUBSET j.cursos)
    BY <1>1 DEF PlanType
  <2>2. DeAltaDe(j, s) \in SUBSET j.peticiones /\ DeDiplomaDe(j, s) \in SUBSET j.peticiones
    BY DEF DeAltaDe, DeDiplomaDe
  <2>3. Cupo(j, inscritos[s], DeAltaDe(j, s)) /\ Cupo(j, Len(diplomas[s]), DeDiplomaDe(j, s))
    BY DEF CuposInv
  <2>4. inscritos[s] \in 0..Cardinality(j.peticiones) /\
          Len(diplomas[s]) \in 0..Cardinality(j.peticiones)
    BY <1>2, <2>1, <2>2, <2>3
  <2> QED BY <2>1, <2>4
<1>4. ASSUME NEW k \in j.codigos, NEW c \in j.cursos
      PROVE  enlaces[k][c] \in 0..Cardinality(j.peticiones)
  <2>1. enlaces[k][c] \in Nat /\ DeEnlaceDe(j, k, c) \in SUBSET j.peticiones
    BY <1>1 DEF PlanType, DeEnlaceDe
  <2> QED BY <1>2, <2>1 DEF CuposInv
<1>5. enlaces \in [j.codigos -> [j.cursos -> 0..Cardinality(j.peticiones)]]
      /\ inscritos \in [j.estudiantes -> 0..Cardinality(j.peticiones)]
  BY <1>1, <1>3, <1>4 DEF PlanType
<1>6. edicionesP <= j.ediciones /\ bajas <= j.bajas /\ caidasP <= j.caidas
  BY <1>1 DEF PlanType, Plan!ProgramsAssumption
<1>7. Plan(j)!Cardinality(j.peticiones) = Cardinality(j.peticiones)
  BY PlanAssumptions
<1> QED BY <1>1, <1>3, <1>5, <1>6, <1>7 DEF PlanType, Plan!TypeOK, Solicitudes

\* Types, and that the rows which only a lookup keeps single are never more than
\* the requests that can have looked at once, for any number of requests.
THEOREM PlanTypeCorrect ==
    ASSUME NEW j, Plan(j)!ProgramsAssumption PROVE Plan(j)!Spec => []Plan(j)!TypeOK
<1> QED BY CuposInit, CuposStep, CuposType, PTL DEF Plan!Spec

\* Where one request can have looked, there is one row.
LEMMA RoomForOne ==
    ASSUME NEW j, Plan(j)!ProgramsAssumption, Cardinality(j.peticiones) = 1
    PROVE Plan(j)!TypeOK => Plan(j)!NothingTwice
<1> SUFFICES ASSUME Plan(j)!TypeOK PROVE Plan(j)!NothingTwice
  OBVIOUS
<1>0. Plan(j)!Cardinality(j.peticiones) = Cardinality(j.peticiones)
  BY PlanAssumptions
<1>1. ASSUME NEW s \in j.estudiantes PROVE inscritos[s] <= 1 /\ Len(diplomas[s]) <= 1
  <2>1. inscritos[s] \in 0..Cardinality(j.peticiones) /\
          Len(diplomas[s]) <= Cardinality(j.peticiones)
    BY <1>0 DEF Plan!TypeOK
  <2> QED BY <2>1
<1>2. ASSUME NEW k \in j.codigos, NEW c \in j.cursos PROVE enlaces[k][c] <= 1
  <2>1. enlaces[k][c] \in 0..Cardinality(j.peticiones)
    BY <1>0 DEF Plan!TypeOK
  <2> QED BY <2>1
<1> QED BY <1>1, <1>2 DEF Plan!NothingTwice

\* A request at a time, nobody has two enrollments in the program or two certificates
\* of it, and no course is in a program twice (edit_program, program_enroll, tomar_programa).
THEOREM NothingTwiceTheorem ==
    ASSUME NEW j, Plan(j)!ProgramsAssumption, Cardinality(j.peticiones) = 1
    PROVE Plan(j)!Spec => []Plan(j)!NothingTwice
BY RoomForOne, PlanTypeCorrect, PTL

----------------------------------------
(* Certificates of the program *)

SnapshotInv(j) ==
    /\ PlanType(j)
    /\ Plan(j)!SnapshotCompleted
    /\ \A r \in j.peticiones : peticionP[r].pc = "emitir" =>
          \A c \in Plan(j)!CursosDe(peticionP[r].codigo) :
            certificadosP[peticionP[r].usuario][c] > 0

\* Certificates of the courses are only ever added.
LEMMA CertificatesGrow ==
    ASSUME NEW j, Plan(j)!ProgramsAssumption, PlanType(j), [Plan(j)!Next]_(Plan(j)!vars),
           NEW s \in j.estudiantes, NEW c \in j.cursos
    PROVE  certificadosP[s][c] > 0 => certificadosP'[s][c] > 0
<1>0. certificadosP \in [j.estudiantes -> [j.cursos -> 0..j.filas]] /\ j.filas \in Nat
  BY DEF PlanType, Plan!ProgramsAssumption
<1>1. ASSUME NEW u \in j.estudiantes, NEW k \in j.cursos, Plan(j)!CompletarCurso(u, k)
      PROVE  certificadosP[s][c] > 0 => certificadosP'[s][c] > 0
  <2>1. PICK m : m = [certificadosP[u] EXCEPT ![k] = certificadosP[u][k] + 1]
    OBVIOUS
  <2>2. certificadosP' = [certificadosP EXCEPT ![u] = m]
    BY <1>1, <2>1 DEF Plan!CompletarCurso
  <2>3. \A d \in j.cursos : m[d] = IF d = k THEN certificadosP[u][k] + 1 ELSE certificadosP[u][d]
    BY <1>0, <2>1
  <2>4. certificadosP[u][k] \in 0..j.filas
    BY <1>0
  <2>5. certificadosP'[s] = IF s = u THEN m ELSE certificadosP[s]
    BY <1>0, <2>2
  <2> QED BY <1>0, <2>3, <2>4, <2>5
<1>2. ASSUME UNCHANGED certificadosP PROVE certificadosP[s][c] > 0 => certificadosP'[s][c] > 0
  BY <1>2
<1>3. CASE UNCHANGED Plan(j)!vars
  BY <1>2, <1>3 DEF Plan!vars, Plan!estudio
<1>4. CASE Ajeno(j)
  BY <1>1, <1>2, <1>4 DEF Ajeno, Plan!Capturar, Plan!InscribirCurso, Plan!DarDeBaja,
     Plan!EditarPrograma, Plan!estudio
<1>5. ASSUME NEW r \in j.peticiones, Empieza(j, r)
      PROVE  certificadosP[s][c] > 0 => certificadosP'[s][c] > 0
  BY <1>2, <1>5, StartServes DEF Tablas, Plan!estudio
<1>6. ASSUME NEW r \in j.peticiones, Plan(j)!Sigue(r) \/ Plan(j)!Caer(r)
      PROVE  certificadosP[s][c] > 0 => certificadosP'[s][c] > 0
  BY <1>2, <1>6 DEF Plan!Sigue, Plan!Caer, Plan!CrearPago, Plan!RegistrarPago,
     Plan!BuscarInscripcion, Plan!LeerCursos, Plan!Inscribir,
     Plan!GuardarPorCorreo, Plan!Desinscribir, Plan!LeerAlumnos, Plan!InscribirAlumno,
       Plan!CursoAgregado, Plan!CursoQuitado,
     Plan!EmitirDiploma, Plan!estudio
<1> QED BY <1>3, <1>4, <1>5, <1>6, PlanParts

\* A request at a time, no course enters the program between the check of
\* tomar_programa and the list of _emitir_certificado_programa.
LEMMA SnapshotStep ==
    ASSUME NEW j
    PROVE  Plan(j)!ProgramsAssumption /\ Cardinality(j.peticiones) = 1 /\ SnapshotInv(j) /\
           [Plan(j)!Next]_(Plan(j)!vars) => SnapshotInv(j)'
<1> SUFFICES ASSUME Plan(j)!ProgramsAssumption, Cardinality(j.peticiones) = 1, SnapshotInv(j),
      [Plan(j)!Next]_(Plan(j)!vars)
             PROVE  SnapshotInv(j)'
  OBVIOUS
<1> USE DEF SnapshotInv
<1>0. PlanType(j)' /\ \A k : Plan(j)!CursosDe(k) \subseteq j.cursos
  BY PlanTypeStep, PlanCoursesType
<1>1. \A r, q \in j.peticiones : r = q
  <2>1. PICK r : j.peticiones = {r}
    BY FS_Singleton, PlanAssumptions
  <2> QED BY <2>1
<1>2. \A s \in j.estudiantes, c \in j.cursos : certificadosP[s][c] > 0 => certificadosP'[s][c] > 0
  BY CertificatesGrow
<1>3. ASSUME NEW r \in j.peticiones, peticionP'[r].pc = "emitir",
             NEW c \in Plan(j)!CursosDe(peticionP[r].codigo)', NEW s \in j.estudiantes,
               s = peticionP'[r].usuario
      PROVE  certificadosP'[s][c] > 0
  <2>1. CASE Ajeno(j) \/ UNCHANGED Plan(j)!vars
    <3>1. peticionP' = peticionP /\ enlaces' = enlaces
      BY <2>1 DEF Ajeno, Plan!Capturar, Plan!InscribirCurso, Plan!DarDeBaja, Plan!CompletarCurso,
         Plan!EditarPrograma, Plan!vars
    <3>2. c \in Plan(j)!CursosDe(peticionP[r].codigo)
      BY <1>3, <3>1 DEF Plan!CursosDe
    <3> QED BY <1>0, <1>2, <1>3, <3>1, <3>2
  <2>2. ASSUME NEW q \in j.peticiones, Empieza(j, q) PROVE certificadosP'[s][c] > 0
    <3>1. q = r
      BY <1>1
    <3>2. PICK g : /\ Sirve(j, r, g)
                   /\ \A u \in j.estudiantes : DeDiploma(j, g, u)
                        => Plan(j)!verificar_programa_completo(u, g.codigo)
      BY <2>2, <3>1, StartServes
    <3>3. peticionP'[r] = g /\ UNCHANGED <<enlaces, certificadosP>>
      <4>1. PlanType(j) /\ Solicitudes(j) /\ Sirve(j, r, g)
        BY <3>2 DEF SnapshotInv, PlanType
      <4>2. UNCHANGED Tablas(j)
        BY <2>2, <4>1, StartServes
      <4> QED BY <4>1, <4>2, PlanServedType DEF Tablas, Plan!estudio
    <3>4. c \in Plan(j)!CursosDe(g.codigo) /\ Plan(j)!verificar_programa_completo(s, g.codigo)
      BY <1>3, <3>2, <3>3 DEF DeDiploma, Plan!CursosDe
    <3>5. certificadosP[s][c] = 1
      BY <3>4 DEF Plan!verificar_programa_completo
    <3> QED BY <3>3, <3>5
  <2>3. ASSUME NEW q \in j.peticiones, Plan(j)!Sigue(q) \/ Plan(j)!Caer(q) PROVE FALSE
    <3>1. q = r
      BY <1>1
    <3>2. PICK g : Sirve(j, r, g) /\ g.pc # "emitir"
      BY <2>3, <3>1, StepServes
    <3>3. peticionP'[r] = g
      BY <3>2, PlanServedType DEF PlanType
    <3> QED BY <1>3, <3>2, <3>3
  <2> QED BY <2>1, <2>2, <2>3, PlanParts
<1>4. ASSUME NEW r \in j.peticiones, peticionP'[r].pc = "emitir",
             NEW c \in Plan(j)!CursosDe(peticionP[r].codigo)'
      PROVE  certificadosP'[peticionP'[r].usuario][c] > 0
  BY <1>0, <1>3, <1>4 DEF PlanType, Solicitudes, SabeDe
<1>5. ASSUME NEW s \in j.estudiantes, NEW i \in 1..Len(diplomas'[s]), NEW c \in diplomas'[s][i]
      PROVE  certificadosP'[s][c] > 0
  <2>0. diplomas[s] \in Seq(SUBSET j.cursos)
    BY DEF PlanType
  <2>1. ASSUME i \in 1..Len(diplomas[s]), c \in diplomas[s][i] PROVE certificadosP'[s][c] > 0
    <3>1. c \in j.cursos /\ certificadosP[s][c] > 0
      BY <2>0, <2>1 DEF Plan!SnapshotCompleted
    <3> QED BY <1>2, <3>1
  <2>2. CASE UNCHANGED diplomas
    BY <1>5, <2>1, <2>2
  <2>3. ASSUME NEW r \in j.peticiones, Plan(j)!EmitirDiploma(r), diplomas' # diplomas
        PROVE  certificadosP'[s][c] > 0
    <3>1. PICK u \in j.estudiantes : u = peticionP[r].usuario
      BY <2>3 DEF Plan!EmitirDiploma, Plan!En, PlanType, Solicitudes, SabeDe
    <3>2. /\ diplomas' = [diplomas EXCEPT ![u] = Append(diplomas[u],
               Plan(j)!CursosDe(peticionP[r].codigo))]
          /\ UNCHANGED certificadosP /\ peticionP[r].pc = "emitir"
      BY <2>3, <3>1 DEF Plan!EmitirDiploma, Plan!En, Plan!Snapshot
    <3>3. CASE s # u
      BY <1>5, <2>1, <3>2, <3>3 DEF PlanType
    <3>4. CASE s = u
      <4>1. diplomas'[s] = Append(diplomas[s], Plan(j)!CursosDe(peticionP[r].codigo))
        BY <3>2, <3>4 DEF PlanType
      <4>2. CASE i \in 1..Len(diplomas[s])
        BY <1>5, <2>0, <2>1, <4>1, <4>2
      <4>3. CASE i = Len(diplomas[s]) + 1
        <5>1. c \in Plan(j)!CursosDe(peticionP[r].codigo)
          BY <1>5, <2>0, <4>1, <4>3
        <5> QED BY <3>1, <3>2, <3>4, <5>1
      <4> QED BY <1>5, <2>0, <4>1, <4>2, <4>3
    <3> QED BY <3>3, <3>4
  <2>4. UNCHANGED diplomas \/ \E r \in j.peticiones : Plan(j)!EmitirDiploma(r)
    <3>1. CASE Ajeno(j) \/ UNCHANGED Plan(j)!vars
      BY <3>1 DEF Ajeno, Plan!Capturar, Plan!InscribirCurso, Plan!DarDeBaja, Plan!CompletarCurso,
         Plan!EditarPrograma, Plan!vars,
                  Plan!estudio
    <3>2. ASSUME NEW r \in j.peticiones, Empieza(j, r) PROVE UNCHANGED diplomas
      BY <3>2, StartServes DEF Tablas, Plan!estudio
    <3>3. ASSUME NEW r \in j.peticiones, Plan(j)!Sigue(r) \/ Plan(j)!Caer(r),
                 ~Plan(j)!EmitirDiploma(r)
          PROVE  UNCHANGED diplomas
      BY <3>3 DEF Plan!Sigue, Plan!Caer, Plan!CrearPago, Plan!RegistrarPago, Plan!BuscarInscripcion,
         Plan!LeerCursos, Plan!Inscribir,
         Plan!GuardarPorCorreo, Plan!Desinscribir, Plan!LeerAlumnos, Plan!InscribirAlumno,
           Plan!CursoAgregado, Plan!CursoQuitado,
         Plan!estudio
    <3> QED BY <3>1, <3>2, <3>3, PlanParts
  <2> QED BY <2>2, <2>3, <2>4
<1> QED BY <1>0, <1>4, <1>5 DEF Plan!SnapshotCompleted

\* At first there are no certificates.
LEMMA SnapshotInit ==
    ASSUME NEW j
    PROVE  Plan(j)!ProgramsAssumption /\ Plan(j)!Init => SnapshotInv(j)
<1> SUFFICES ASSUME Plan(j)!ProgramsAssumption, Plan(j)!Init PROVE SnapshotInv(j)
  OBVIOUS
<1>1. \A r \in j.peticiones : peticionP[r].pc = "idle"
  BY PlanLibre DEF Plan!Init
<1>2. \A s \in j.estudiantes : diplomas[s] = <<>>
  BY DEF Plan!Init
<1>3. Plan(j)!SnapshotCompleted
  BY <1>2 DEF Plan!SnapshotCompleted
<1> QED BY <1>1, <1>3, PlanTypeInit DEF SnapshotInv

\* Every course listed in a certificate of the program was completed.
THEOREM SnapshotCompletedTheorem ==
    ASSUME NEW j, Plan(j)!ProgramsAssumption, Cardinality(j.peticiones) = 1
    PROVE Plan(j)!Spec => []Plan(j)!SnapshotCompleted
<1>1. SnapshotInv(j) => Plan(j)!SnapshotCompleted
  BY DEF SnapshotInv
<1> QED BY <1>1, SnapshotInit, SnapshotStep, PTL DEF Plan!Spec

----------------------------------------
(* Payments of the program *)

\* While the administration is quiet: a request that enrolls is about the
\* courses of the program as it is, and one that is not to insert the row of the
\* program found it.
Confirma(j, q) ==
    /\ q.pc \in {"idle", "pago", "registro", "alta", "cursos", "filas", "emitir"}
    /\ q.pc \in {"registro", "alta", "cursos", "filas"} => q.codigo = programa.codigo
    /\ q.pc = "filas" => q.lista = Plan(j)!CursosDe(programa.codigo)
    /\ q.pc \in {"cursos", "filas"} /\ ~q.alta => inscritos[q.usuario] > 0

PaidInv(j) == PlanType(j) /\ Plan(j)!AllOrNothing /\ \A r \in j.peticiones :
  Confirma(j, peticionP[r])

Quieto(j) == Plan(j)!ProgramsAssumption /\ j.ediciones = 0 /\ j.bajas = 0

\* What is left of the next-state relation then.
LEMMA QuietSteps ==
    ASSUME NEW j, Quieto(j), PaidInv(j), Plan(j)!Next
    PROVE  \/ \E s \in j.estudiantes, o \in j.ordenes : Plan(j)!Capturar(s, o)
           \/ \E s \in j.estudiantes, c \in j.cursos : Plan(j)!InscribirCurso(s, c) \/
                Plan(j)!CompletarCurso(s, c)
           \/ \E r \in j.peticiones :
                 \/ \E s \in j.estudiantes :
                       Plan(j)!InscribirPrograma(r, s) \/ Plan(j)!PedirPago(r, s) \/
                         Plan(j)!TomarPrograma(r, s)
                 \/ \E o \in j.ordenes : Plan(j)!ConfirmarPago(r, o)
                 \/ Plan(j)!CrearPago(r) \/ Plan(j)!RegistrarPago(r) \/
                      Plan(j)!BuscarInscripcion(r) \/ Plan(j)!LeerCursos(r)
                 \/ Plan(j)!Inscribir(r) \/ Plan(j)!EmitirDiploma(r) \/ Plan(j)!Caer(r)
<1>1. edicionesP = 0 /\ bajas = 0
  BY DEF Quieto, PaidInv, PlanType
<1>2. ~Plan(j)!Editar
  BY <1>1 DEF Quieto, Plan!Editar
<1>3. \A s \in j.estudiantes, c \in j.cursos : ~Plan(j)!DarDeBaja(s, c)
  BY <1>1 DEF Quieto, Plan!DarDeBaja
<1>4. /\ \A nuevo \in j.programas : ~Plan(j)!EditarPrograma(nuevo)
      /\ \A r \in j.peticiones, s \in j.estudiantes :
            ~Plan(j)!InscribirPorCorreo(r, s) /\ ~Plan(j)!admin_program_enrollment(r, s)
            /\ ~Plan(j)!admin_program_unenrollment(r, s)
      /\ \A r \in j.peticiones, c \in j.cursos : ~Plan(j)!AgregarCurso(r, c) /\
           ~Plan(j)!QuitarCurso(r, c)
  BY <1>2 DEF Plan!EditarPrograma, Plan!InscribirPorCorreo, Plan!admin_program_enrollment,
              Plan!admin_program_unenrollment, Plan!AgregarCurso, Plan!QuitarCurso
<1>5. \A r \in j.peticiones :
         /\ ~Plan(j)!GuardarPorCorreo(r) /\ ~Plan(j)!Desinscribir(r) /\ ~Plan(j)!LeerAlumnos(r)
         /\ ~Plan(j)!CursoAgregado(r)
         /\ ~Plan(j)!CursoQuitado(r) /\ \A s \in j.estudiantes : ~Plan(j)!InscribirAlumno(r, s)
  BY DEF PaidInv, Confirma, Plan!GuardarPorCorreo, Plan!Desinscribir, Plan!LeerAlumnos,
     Plan!CursoAgregado, Plan!CursoQuitado,
         Plan!InscribirAlumno, Plan!En
<1> QED BY <1>3, <1>4, <1>5 DEF Plan!Next, Plan!Sigue

\* Nobody leaves the program, or a course, and the program stays what it is.
LEMMA QuietTables ==
    ASSUME NEW j, Quieto(j), PaidInv(j), [Plan(j)!Next]_(Plan(j)!vars)
    PROVE  /\ UNCHANGED <<programa, enlaces>>
           /\ \A s \in j.estudiantes : inscritos[s] > 0 => inscritos'[s] > 0
           /\ \A s \in j.estudiantes, c \in j.cursos :
                 matriculas[s][c] = "activa" => matriculas'[s][c] = "activa"
<1> DEFINE Meta == /\ UNCHANGED <<programa, enlaces>>
                   /\ \A s \in j.estudiantes : inscritos[s] > 0 => inscritos'[s] > 0
                   /\ \A s \in j.estudiantes, c \in j.cursos :
                         matriculas[s][c] = "activa" => matriculas'[s][c] = "activa"
<1>0. /\ matriculas \in [j.estudiantes -> [j.cursos -> {"ninguna", "inactiva", "activa"}]]
      /\ inscritos \in [j.estudiantes -> Nat]
  BY DEF PaidInv, PlanType
<1>1. CASE UNCHANGED Plan(j)!vars
  BY <1>1 DEF Plan!vars, Plan!estudio
<1>2. ASSUME NEW u \in j.estudiantes, NEW k \in j.cursos, Plan(j)!InscribirCurso(u, k) PROVE Meta
  <2>1. PICK m : m = [matriculas[u] EXCEPT ![k] = "activa"]
    OBVIOUS
  <2>2. \A d \in j.cursos : m[d] = IF d = k THEN "activa" ELSE matriculas[u][d]
    BY <1>0, <2>1
  <2>3. matriculas' = [matriculas EXCEPT ![u] = m]
    BY <1>2, <2>1 DEF Plan!InscribirCurso
  <2>4. \A s \in j.estudiantes : matriculas'[s] = IF s = u THEN m ELSE matriculas[s]
    BY <1>0, <2>3
  <2> QED BY <1>2, <2>2, <2>4 DEF Plan!InscribirCurso
<1>3. ASSUME NEW r \in j.peticiones, Plan(j)!Inscribir(r) PROVE Meta
  <2>1. PICK u \in j.estudiantes : u = peticionP[r].usuario
    BY <1>3 DEF Plan!Inscribir, Plan!En, PaidInv, PlanType, Solicitudes, SabeDe
  <2>2. UNCHANGED inscritos \/ inscritos' = [inscritos EXCEPT ![u] = inscritos[u] + 1]
    BY <1>3, <2>1 DEF Plan!Inscribir
  <2>3. \A s \in j.estudiantes : inscritos[s] > 0 => inscritos'[s] > 0
    BY <1>0, <2>2
  <2>4. PICK m :
          m = [c \in j.cursos |-> IF c \in Plan(j)!Faltan(u, peticionP[r].lista) THEN "activa"
                                       ELSE matriculas[u][c]]
    OBVIOUS
  <2>5. UNCHANGED matriculas \/ matriculas' = [matriculas EXCEPT ![u] = m]
    BY <1>3, <2>1, <2>4 DEF Plan!Inscribir, Plan!Matricular
  <2>6. \A c \in j.cursos : matriculas[u][c] = "activa" => m[c] = "activa"
    BY <2>4
  <2>7. \A s \in j.estudiantes, c \in j.cursos :
           matriculas[s][c] = "activa" => matriculas'[s][c] = "activa"
    BY <1>0, <2>5, <2>6
  <2> QED BY <1>3, <2>3, <2>7 DEF Plan!Inscribir
<1>4. ASSUME NEW s \in j.estudiantes, NEW o \in j.ordenes, Plan(j)!Capturar(s, o) PROVE Meta
  BY <1>4 DEF Plan!Capturar, Plan!estudio
<1>5. ASSUME NEW s \in j.estudiantes, NEW c \in j.cursos, Plan(j)!CompletarCurso(s, c) PROVE Meta
  BY <1>5 DEF Plan!CompletarCurso
<1>6. ASSUME NEW r \in j.peticiones,
             \/ \E s \in j.estudiantes :
                   Plan(j)!InscribirPrograma(r, s) \/ Plan(j)!PedirPago(r, s) \/
                     Plan(j)!TomarPrograma(r, s)
             \/ \E o \in j.ordenes : Plan(j)!ConfirmarPago(r, o)
             \/ Plan(j)!CrearPago(r) \/ Plan(j)!RegistrarPago(r) \/ Plan(j)!BuscarInscripcion(r) \/
                  Plan(j)!LeerCursos(r)
             \/ Plan(j)!EmitirDiploma(r) \/ Plan(j)!Caer(r)
      PROVE  Meta
  BY <1>6 DEF Plan!InscribirPrograma, Plan!PedirPago, Plan!TomarPrograma, Plan!ConfirmarPago,
     Plan!CrearPago, Plan!RegistrarPago,
              Plan!BuscarInscripcion, Plan!LeerCursos, Plan!EmitirDiploma, Plan!Caer, Plan!estudio
<1> QED BY <1>1, <1>2, <1>3, <1>4, <1>5, <1>6, QuietSteps

\* A request goes on to what its pc says it knows.
LEMMA QuietRequests ==
    ASSUME NEW j, Quieto(j), PaidInv(j), [Plan(j)!Next]_(Plan(j)!vars)
    PROVE  \A r \in j.peticiones : Confirma(j, peticionP[r])'
<1> USE DEF Quieto
<1> DEFINE Guardada(q) ==
              /\ q.pc \in {"idle", "pago", "registro", "alta", "cursos", "filas", "emitir"}
              /\ q.pc \in {"registro", "alta", "cursos", "filas"} => q.codigo = programa.codigo
              /\ q.pc = "filas" => q.lista = Plan(j)!CursosDe(programa.codigo)
              /\ q.pc \in {"cursos", "filas"} /\ ~q.alta => inscritos'[q.usuario] > 0
<1>0. /\ PlanType(j) /\ Solicitudes(j)
      /\ UNCHANGED <<programa, enlaces>>
      /\ \A s \in j.estudiantes : inscritos[s] > 0 => inscritos'[s] > 0
  BY QuietTables DEF PaidInv, PlanType
<1>1. ASSUME NEW r \in j.peticiones, Guardada(peticionP'[r]) PROVE Confirma(j, peticionP[r])'
  BY <1>0, <1>1 DEF Confirma, Plan!CursosDe
<1>2. ASSUME NEW r \in j.peticiones, peticionP'[r] = peticionP[r] PROVE Guardada(peticionP'[r])
  <2>1. Confirma(j, peticionP[r]) /\ SabeDe(j, peticionP[r])
    BY <1>0 DEF PaidInv, Solicitudes
  <2>2. ASSUME peticionP[r].pc \in {"cursos", "filas"}, ~peticionP[r].alta
        PROVE  inscritos'[peticionP[r].usuario] > 0
    BY <1>0, <2>1, <2>2 DEF Confirma, SabeDe
  <2> QED BY <1>2, <2>1, <2>2 DEF Confirma
<1>3. ASSUME NEW r \in j.peticiones, NEW g, Guardada(g), peticionP' = [peticionP EXCEPT ![r] = g],
             NEW q \in j.peticiones
      PROVE  Guardada(peticionP'[q])
  <2> HIDE DEF Guardada
  <2>1. CASE q = r
    BY <1>0, <1>3, <2>1 DEF Solicitudes
  <2>2. CASE q # r
    BY <1>0, <1>2, <1>3, <2>2 DEF Solicitudes
  <2> QED BY <2>1, <2>2
<1>4. Guardada(Plan(j)!Libre)
  BY PlanLibre
<1>5. ASSUME NEW r \in j.peticiones, NEW s \in j.estudiantes,
             Plan(j)!InscribirPrograma(r, s) \/ Plan(j)!PedirPago(r, s) \/
               Plan(j)!TomarPrograma(r, s)
      PROVE  \E g : Guardada(g) /\ peticionP' = [peticionP EXCEPT ![r] = g]
  <2>1. CASE Plan(j)!InscribirPrograma(r, s)
    <3>1. PICK g :
            g = [Plan(j)!Libre EXCEPT !.pc = "cursos", !.usuario = s, !.codigo = programa.codigo]
      OBVIOUS
    <3>2. g.pc = "cursos" /\ g.codigo = programa.codigo /\ g.alta = TRUE
      BY <3>1 DEF Plan!Libre
    <3> QED BY <2>1, <3>1, <3>2 DEF Plan!InscribirPrograma, Plan!Empezar
  <2>2. CASE Plan(j)!PedirPago(r, s)
    <3>1. PICK g : g = [Plan(j)!Libre EXCEPT !.pc = "pago", !.usuario = s]
      OBVIOUS
    <3>2. g.pc = "pago"
      BY <3>1 DEF Plan!Libre
    <3> QED BY <2>2, <3>1, <3>2 DEF Plan!PedirPago, Plan!Empezar
  <2>3. CASE Plan(j)!TomarPrograma(r, s)
    <3>1. PICK g :
            g = [Plan(j)!Libre EXCEPT !.pc = "emitir", !.usuario = s, !.codigo = programa.codigo]
      OBVIOUS
    <3>2. g.pc = "emitir"
      BY <3>1 DEF Plan!Libre
    <3> QED BY <2>3, <3>1, <3>2 DEF Plan!TomarPrograma, Plan!Empezar
  <2> QED BY <1>5, <2>1, <2>2, <2>3
<1>6. ASSUME NEW r \in j.peticiones, NEW o \in j.ordenes, Plan(j)!ConfirmarPago(r, o)
      PROVE  \E g : Guardada(g) /\ peticionP' = [peticionP EXCEPT ![r] = g]
  <2>1. PICK p : Plan(j)!Empezar(r, [Plan(j)!Libre EXCEPT !.pc = "registro", !.usuario = ordenes[o],
                                          !.codigo = programa.codigo, !.pago = p, !.orden = o])
    BY <1>6 DEF Plan!ConfirmarPago
  <2>2. PICK g : g = [Plan(j)!Libre EXCEPT !.pc = "registro", !.usuario = ordenes[o],
                                   !.codigo = programa.codigo, !.pago = p, !.orden = o]
    OBVIOUS
  <2>3. g.pc = "registro" /\ g.codigo = programa.codigo
    BY <2>2 DEF Plan!Libre
  <2> QED BY <2>1, <2>2, <2>3 DEF Plan!Empezar
<1>7. ASSUME NEW r \in j.peticiones, Plan(j)!RegistrarPago(r) \/ Plan(j)!BuscarInscripcion(r) \/
             Plan(j)!LeerCursos(r)
      PROVE  \E g : Guardada(g) /\ peticionP' = [peticionP EXCEPT ![r] = g]
  <2> DEFINE q == peticionP[r]
  <2>0. q \in Plan(j)!Peticion /\ SabeDe(j, q) /\ Confirma(j, q)
    BY <1>0 DEF PaidInv, Solicitudes
  <2>1. CASE Plan(j)!RegistrarPago(r)
    <3>1. PICK g : g = [q EXCEPT !.pc = "alta"]
      OBVIOUS
    <3>2. g.pc = "alta" /\ g.codigo = q.codigo
      BY <2>0, <3>1 DEF Plan!Peticion
    <3>3. q.pc = "registro" /\ (Plan(j)!Terminar(r) \/ peticionP' = [peticionP EXCEPT ![r] = g])
      BY <2>1, <3>1 DEF Plan!RegistrarPago, Plan!En
    <3>4. Guardada(g)
      BY <2>0, <3>2, <3>3 DEF Confirma
    <3> QED BY <1>4, <3>3, <3>4 DEF Plan!Terminar
  <2>2. CASE Plan(j)!BuscarInscripcion(r)
    <3>1. PICK b \in BOOLEAN : b = (inscritos[q.usuario] = 0)
      OBVIOUS
    <3>2. PICK g : g = [q EXCEPT !.pc = "cursos", !.alta = b]
      OBVIOUS
    <3>3. g.pc = "cursos" /\ g.codigo = q.codigo /\ g.usuario = q.usuario /\ g.alta = b
      BY <2>0, <3>2 DEF Plan!Peticion
    <3>4. /\ q.pc = "alta" /\ peticionP' = [peticionP EXCEPT ![r] = g]
          /\ inscritos' = inscritos
      BY <2>2, <3>1, <3>2 DEF Plan!BuscarInscripcion, Plan!En
    <3>5. ~b => inscritos'[g.usuario] > 0
      <4>1. q.usuario \in j.estudiantes
        BY <2>0, <3>4 DEF SabeDe
      <4>2. inscritos[q.usuario] \in Nat
        BY <1>0, <4>1 DEF PlanType
      <4>3. ~b => inscritos[q.usuario] # 0
        BY <3>1, Zenon
      <4> QED BY <3>3, <3>4, <4>2, <4>3
    <3>6. Guardada(g)
      BY <2>0, <3>3, <3>4, <3>5 DEF Confirma
    <3> QED BY <3>4, <3>6
  <2>3. CASE Plan(j)!LeerCursos(r)
    <3>1. PICK g : g = [q EXCEPT !.pc = "filas", !.lista = Plan(j)!CursosDe(q.codigo)]
      OBVIOUS
    <3>2. g.pc = "filas" /\ g.codigo = q.codigo /\ g.usuario = q.usuario /\ g.alta = q.alta
          /\ g.lista = Plan(j)!CursosDe(q.codigo)
      BY <2>0, <3>1 DEF Plan!Peticion
    <3>3. /\ q.pc = "cursos" /\ peticionP' = [peticionP EXCEPT ![r] = g]
          /\ inscritos' = inscritos
      BY <2>3, <3>1 DEF Plan!LeerCursos, Plan!En
    <3>4. Guardada(g)
      BY <2>0, <3>2, <3>3 DEF Confirma
    <3> QED BY <3>3, <3>4
  <2> QED BY <1>7, <2>1, <2>2, <2>3
<1>8. ASSUME NEW r \in j.peticiones, Plan(j)!CrearPago(r) \/ Plan(j)!Inscribir(r) \/
             Plan(j)!EmitirDiploma(r) \/ Plan(j)!Caer(r)
      PROVE  \E g : Guardada(g) /\ peticionP' = [peticionP EXCEPT ![r] = g]
  BY <1>4, <1>8 DEF Plan!CrearPago, Plan!Inscribir, Plan!EmitirDiploma, Plan!Caer, Plan!Terminar
<1> HIDE DEF Guardada
<1>9. CASE UNCHANGED peticionP
  BY <1>1, <1>2, <1>9
<1>10. ASSUME NEW r \in j.peticiones, \E g : Guardada(g) /\ peticionP' = [peticionP EXCEPT ![r] = g]
       PROVE  \A q \in j.peticiones : Confirma(j, peticionP[q])'
  BY <1>1, <1>3, <1>10
<1>11. CASE \/ UNCHANGED Plan(j)!vars
            \/ \E s \in j.estudiantes, o \in j.ordenes : Plan(j)!Capturar(s, o)
            \/ \E s \in j.estudiantes, c \in j.cursos : Plan(j)!InscribirCurso(s, c) \/
                 Plan(j)!CompletarCurso(s, c)
  BY <1>9, <1>11 DEF Plan!vars, Plan!Capturar, Plan!InscribirCurso, Plan!CompletarCurso
<1>12. ASSUME NEW r \in j.peticiones,
              \/ \E s \in j.estudiantes :
                    Plan(j)!InscribirPrograma(r, s) \/ Plan(j)!PedirPago(r, s) \/
                      Plan(j)!TomarPrograma(r, s)
              \/ \E o \in j.ordenes : Plan(j)!ConfirmarPago(r, o)
              \/ Plan(j)!CrearPago(r) \/ Plan(j)!RegistrarPago(r) \/ Plan(j)!BuscarInscripcion(r) \/
                   Plan(j)!LeerCursos(r)
              \/ Plan(j)!Inscribir(r) \/ Plan(j)!EmitirDiploma(r) \/ Plan(j)!Caer(r)
       PROVE  \A q \in j.peticiones : Confirma(j, peticionP[q])'
  <2>1. \E g : Guardada(g) /\ peticionP' = [peticionP EXCEPT ![r] = g]
    BY <1>5, <1>6, <1>7, <1>8, <1>12
  <2> QED BY <1>10, <2>1
<1> QED BY <1>11, <1>12, QuietSteps

\* A payment is completed only with the row of the program and those of every
\* course it has: the step of each payment that is completed after it.
LEMMA QuietPayments ==
    ASSUME NEW j, Quieto(j), PaidInv(j), [Plan(j)!Next]_(Plan(j)!vars) PROVE Plan(j)!AllOrNothing'
<1> USE DEF Quieto
<1>0. /\ PlanType(j) /\ Solicitudes(j) /\ Plan(j)!AllOrNothing
      /\ UNCHANGED <<programa, enlaces>>
      /\ \A s \in j.estudiantes : inscritos[s] > 0 => inscritos'[s] > 0
      /\ \A s \in j.estudiantes, c \in j.cursos :
            matriculas[s][c] = "activa" => matriculas'[s][c] = "activa"
      /\ \A k : Plan(j)!CursosDe(k) \subseteq j.cursos
  BY QuietTables, PlanCoursesType DEF PaidInv, PlanType
<1> DEFINE Entera(s) == /\ inscritos'[s] > 0
                        /\ \A c \in Plan(j)!CursosDe(programa.codigo) : matriculas'[s][c] = "activa"
<1>1. ASSUME NEW p \in j.pagos, pagos'[p] = pagos[p], pagos[p] # Nada, pagos[p].estado = "completed"
      PROVE  Entera(pagos'[p].usuario)
  <2>1. pagos[p].usuario \in j.estudiantes
    BY <1>0, <1>1 DEF PlanType, Plan!Pago
  <2>2. /\ inscritos[pagos[p].usuario] > 0
        /\ \A c \in Plan(j)!CursosDe(programa.codigo) : matriculas[pagos[p].usuario][c] = "activa"
    BY <1>0, <1>1 DEF Plan!AllOrNothing, Plan!Activa
  <2> QED BY <1>0, <1>1, <2>1, <2>2
<1>2. ASSUME NEW r \in j.peticiones, Plan(j)!CrearPago(r), NEW p \in j.pagos, pagos'[p] # pagos[p]
      PROVE  pagos'[p].estado = "pending"
  BY <1>0, <1>2 DEF Plan!CrearPago, PlanType
<1>3. ASSUME NEW r \in j.peticiones, Plan(j)!Inscribir(r), NEW p \in j.pagos, pagos'[p] # pagos[p]
      PROVE  Entera(pagos'[p].usuario)
  <2>1. PICK u \in j.estudiantes : u = peticionP[r].usuario
    BY <1>0, <1>3 DEF Plan!Inscribir, Plan!En, Solicitudes, SabeDe
  <2>2. PICK nuevas : nuevas = Plan(j)!Faltan(u, peticionP[r].lista)
    OBVIOUS
  <2>3. Confirma(j, peticionP[r]) /\ peticionP[r].pc = "filas"
    BY <1>3 DEF PaidInv, Plan!Inscribir, Plan!En
  <2>4. peticionP[r].lista = Plan(j)!CursosDe(programa.codigo)
    BY <2>3 DEF Confirma
  <2>5. ~(UNCHANGED <<pagos, inscritos, matriculas>>)
    BY <1>3
  <2>6. /\ Plan(j)!Matricular(r, nuevas)
        /\ inscritos' = IF peticionP[r].alta
                        THEN [inscritos EXCEPT ![peticionP[r].usuario] = @ + 1] ELSE inscritos
        /\ \E v \in Plan(j)!PagoCompletado(r) :
              pagos' = [pagos EXCEPT ![v] = [usuario |-> peticionP[r].usuario,
                estado |-> "completed",
                                             referencia |-> peticionP[r].orden]]
    BY <1>3, <2>1, <2>2, <2>5 DEF Plan!Inscribir
  <2>7. pagos'[p].usuario = u
    BY <1>0, <1>3, <2>1, <2>6 DEF PlanType
  <2>8. inscritos'[u] > 0
    <3>1. inscritos[u] \in Nat
      BY <1>0 DEF PlanType
    <3>2. CASE peticionP[r].alta
      BY <1>0, <2>1, <2>6, <3>1, <3>2 DEF PlanType
    <3>3. CASE ~peticionP[r].alta
      BY <1>0, <2>1, <2>3, <3>3 DEF Confirma
    <3> QED BY <3>2, <3>3
  <2>9. ASSUME NEW c \in Plan(j)!CursosDe(programa.codigo) PROVE matriculas'[u][c] = "activa"
    <3>1. c \in j.cursos /\ (c \in nuevas \/ matriculas[u][c] = "activa")
      BY <1>0, <2>2, <2>4 DEF Plan!Faltan, Plan!Activa
    <3>2. matriculas'[u] = [k \in j.cursos |-> IF k \in nuevas THEN "activa" ELSE matriculas[u][k]]
      BY <1>0, <2>1, <2>6 DEF Plan!Matricular, PlanType
    <3> QED BY <3>1, <3>2
  <2> QED BY <2>7, <2>8, <2>9
<1>4. ASSUME NEW r \in j.peticiones,
             \/ \E s \in j.estudiantes :
                   Plan(j)!InscribirPrograma(r, s) \/ Plan(j)!PedirPago(r, s) \/
                     Plan(j)!TomarPrograma(r, s)
             \/ \E o \in j.ordenes : Plan(j)!ConfirmarPago(r, o)
             \/ Plan(j)!RegistrarPago(r) \/ Plan(j)!BuscarInscripcion(r) \/ Plan(j)!LeerCursos(r)
             \/ Plan(j)!EmitirDiploma(r) \/ Plan(j)!Caer(r)
      PROVE  UNCHANGED pagos
  BY <1>4 DEF Plan!InscribirPrograma, Plan!PedirPago, Plan!TomarPrograma, Plan!ConfirmarPago,
     Plan!RegistrarPago,
              Plan!BuscarInscripcion, Plan!LeerCursos, Plan!EmitirDiploma, Plan!Caer, Plan!tienda
<1>5. CASE \/ UNCHANGED Plan(j)!vars
           \/ \E s \in j.estudiantes, o \in j.ordenes : Plan(j)!Capturar(s, o)
           \/ \E s \in j.estudiantes, c \in j.cursos : Plan(j)!InscribirCurso(s, c) \/
                Plan(j)!CompletarCurso(s, c)
  <2>1. UNCHANGED pagos
    BY <1>5 DEF Plan!vars, Plan!tienda, Plan!Capturar, Plan!InscribirCurso, Plan!CompletarCurso
  <2> QED BY <1>0, <1>1, <2>1 DEF Plan!AllOrNothing, Plan!Activa, Plan!CursosDe
<1>6. ASSUME NEW p \in j.pagos, pagos'[p] # Nada, pagos'[p].estado = "completed"
      PROVE  Entera(pagos'[p].usuario)
  <2> HIDE DEF Entera
  <2>1. CASE pagos'[p] = pagos[p]
    BY <1>1, <1>6, <2>1
  <2>2. CASE pagos'[p] # pagos[p]
    <3>1. CASE UNCHANGED pagos
      BY <2>2, <3>1
    <3>2. ASSUME NEW r \in j.peticiones, Plan(j)!CrearPago(r) PROVE FALSE
      BY <1>2, <1>6, <2>2, <3>2
    <3>3. ASSUME NEW r \in j.peticiones, Plan(j)!Inscribir(r) PROVE Entera(pagos'[p].usuario)
      BY <1>3, <2>2, <3>3
    <3>4. ASSUME \/ UNCHANGED Plan(j)!vars
                 \/ \E s \in j.estudiantes, o \in j.ordenes : Plan(j)!Capturar(s, o)
                 \/ \E s \in j.estudiantes, c \in j.cursos :
                       Plan(j)!InscribirCurso(s, c) \/ Plan(j)!CompletarCurso(s, c)
          PROVE  UNCHANGED pagos
      BY <3>4 DEF Plan!vars, Plan!tienda, Plan!Capturar, Plan!InscribirCurso, Plan!CompletarCurso
    <3> QED BY <1>4, <3>1, <3>2, <3>3, <3>4, QuietSteps
  <2> QED BY <2>1, <2>2
<1> QED BY <1>0, <1>6 DEF Plan!AllOrNothing, Plan!Activa, Plan!CursosDe

\* What is paid stays whole.
LEMMA PaidStep ==
    ASSUME NEW j
    PROVE  Quieto(j) /\ PaidInv(j) /\ [Plan(j)!Next]_(Plan(j)!vars) => PaidInv(j)'
BY PlanTypeStep, QuietRequests, QuietPayments DEF PaidInv, Quieto

\* At first nothing is paid.
LEMMA PaidInit ==
    ASSUME NEW j
    PROVE  Quieto(j) /\ Plan(j)!Init => PaidInv(j)
<1> SUFFICES ASSUME Quieto(j), Plan(j)!Init PROVE PaidInv(j)
  OBVIOUS
<1>1. \A r \in j.peticiones : peticionP[r].pc = "idle"
  BY PlanLibre DEF Plan!Init
<1>2. \A p \in j.pagos : pagos[p] = Nada
  BY DEF Plan!Init
<1> QED BY <1>1, <1>2, PlanTypeInit DEF PaidInv, Confirma, Plan!AllOrNothing, Quieto

\* A completed payment of _save_payment_enrollment has its enrollment in the program and
\* in every course, for any number of requests that interleave or die, while
\* administrators are not at it.
THEOREM AllOrNothingTheorem ==
    ASSUME NEW j, Quieto(j) PROVE Plan(j)!Spec => []Plan(j)!AllOrNothing
<1>1. PaidInv(j) => Plan(j)!AllOrNothing
  BY DEF PaidInv
<1> QED BY <1>1, PaidInit, PaidStep, PTL DEF Plan!Spec

----------------------------------------
(* What an instance has of the assumptions of the theorems *)

\* Courses nobody edits, and one request at a time.
LEMMA CourseAssumptions ==
    /\ Seguido!SinEdiciones /\ Caido!SinEdiciones /\ Evaluado!SinEdiciones
    /\ Editado!Supuesto
    /\ Evaluado!UnaALaVez
BY LearningAssumption
DEF Seguido!SinEdiciones, Caido!SinEdiciones, Evaluado!SinEdiciones, Seguido!Supuesto,
    Caido!Supuesto, Evaluado!Supuesto, Editado!Supuesto, Evaluado!UnaALaVez

\* A program nobody edits, and one request at a time.
LEMMA ProgramAssumptions ==
    /\ Quieto(DePagar)
    /\ Plan(DeCambiar)!ProgramsAssumption
    /\ Cardinality(DeCambiar.peticiones) = 1
<1>1. DePagar.ediciones = 0 /\ DePagar.bajas = 0 /\ DeCambiar.peticiones = {q1}
  BY DEF DePagar, DeCambiar
<1>2. Plan(DePagar)!ProgramsAssumption /\ Plan(DeCambiar)!ProgramsAssumption
  BY LearningAssumption
<1>3. Cardinality({q1}) = 1
  BY FS_Singleton
<1> QED BY <1>1, <1>2, <1>3 DEF Quieto

----------------------------------------
(* Courses *)

CoursesInv ==
    /\ parte = "seguido" => Seguido!RollUpInv
    /\ parte = "caido" => Caido!EarnedInv
    /\ parte = "editado" => Editado!SummaryInv
    /\ parte = "evaluado" => Evaluado!AttemptInv /\ Evaluado!ForgottenInv

\* The invariants of the courses hold at first.
LEMMA CoursesInit ==
    Init => CoursesInv
<1> SUFFICES ASSUME Init PROVE CoursesInv
  OBVIOUS
<1>1. /\ parte = "seguido" => Seguido!Init
      /\ parte = "caido" => Caido!Init
      /\ parte = "editado" => Editado!Init
      /\ parte = "evaluado" => Evaluado!Init
  BY DEF Init
<1>2. parte = "seguido" => Seguido!RollUpInv
  BY <1>1, CourseAssumptions, Seguido!RollUpInit
<1>3. parte = "caido" => Caido!EarnedInv
  BY <1>1, CourseAssumptions, Caido!EarnedInit
<1>4. parte = "editado" => Editado!SummaryInv
  BY <1>1, CourseAssumptions, Editado!SummaryInit
<1>5. parte = "evaluado" => Evaluado!AttemptInv /\ Evaluado!ForgottenInv
  BY <1>1, CourseAssumptions, Evaluado!AttemptInit, Evaluado!ForgottenInit
<1> QED BY <1>2, <1>3, <1>4, <1>5 DEF CoursesInv

\* A step is one of the part that the behaviour is about, or nothing happens to it.
LEMMA CoursesPart ==
    ASSUME [Next]_vars
    PROVE  /\ parte' = parte
           /\ parte = "seguido" => [Seguido!Next]_(Seguido!vars)
           /\ parte = "caido" => [Caido!Next]_(Caido!vars)
           /\ parte = "editado" => [Editado!Next]_(Editado!vars)
           /\ parte = "evaluado" => [Evaluado!Next]_(Evaluado!vars)
<1>1. ASSUME UNCHANGED varsCursos
      PROVE  /\ UNCHANGED Seguido!vars /\ UNCHANGED Caido!vars
             /\ UNCHANGED Editado!vars /\ UNCHANGED Evaluado!vars
  BY <1>1 DEF varsCursos, Seguido!vars, Seguido!progreso, Seguido!examenes,
     Caido!vars, Caido!progreso, Caido!examenes, Editado!vars, Editado!progreso, Editado!examenes,
     Evaluado!vars, Evaluado!progreso, Evaluado!examenes
<1>2. CASE UNCHANGED vars
  BY <1>1, <1>2 DEF vars
<1>3. CASE Cursos
  BY <1>3 DEF Cursos
<1>4. CASE Programas \/ Certificados
  BY <1>1, <1>4 DEF Programas, Certificados
<1> QED BY <1>2, <1>3, <1>4 DEF Next

\* The invariants of the courses are kept.
LEMMA CoursesStep ==
    CoursesInv /\ [Next]_vars => CoursesInv'
<1> SUFFICES ASSUME CoursesInv, [Next]_vars PROVE CoursesInv'
  OBVIOUS
<1>1. (parte = "seguido" => Seguido!RollUpInv)'
  BY CoursesPart, CourseAssumptions, Seguido!RollUpStep DEF CoursesInv
<1>2. (parte = "caido" => Caido!EarnedInv)'
  BY CoursesPart, CourseAssumptions, Caido!EarnedStep DEF CoursesInv
<1>3. (parte = "editado" => Editado!SummaryInv)'
  BY CoursesPart, CourseAssumptions, Editado!SummaryInvStep DEF CoursesInv
<1>4. (parte = "evaluado" => Evaluado!AttemptInv /\ Evaluado!ForgottenInv)'
  BY CoursesPart, CourseAssumptions, Evaluado!AttemptStep, Evaluado!ForgottenStep DEF CoursesInv
<1> QED BY <1>1, <1>2, <1>3, <1>4 DEF CoursesInv

\* What they say of certificates, attempts and types.
LEMMA CoursesMean ==
    ASSUME CoursesInv
    PROVE  /\ parte = "seguido" =>
                 Seguido!TypeOK /\ Seguido!CertificadoMerecido /\ Seguido!CompletionNotLost
           /\ parte = "caido" => Caido!TypeOK /\ Caido!CertificadoMerecido
           /\ parte = "editado" => Editado!TypeOK
           /\ parte = "evaluado" =>
                 /\ Evaluado!TypeOK /\ Evaluado!CertificadoMerecido
                 /\ Evaluado!CertificateNotForgotten
                 /\ Evaluado!TopeRespetado /\ Evaluado!ReaperturaUnica
<1>1. parte = "seguido" => Seguido!TypeOK /\ Seguido!CertificadoMerecido /\
        Seguido!CompletionNotLost
  BY Seguido!EarnedMeans, Seguido!RollUpMeans
  DEF CoursesInv, Seguido!RollUpInv, Seguido!EarnedInv, Seguido!SummaryInv, Seguido!TypeInv
<1>2. parte = "caido" => Caido!TypeOK /\ Caido!CertificadoMerecido
  BY Caido!EarnedMeans DEF CoursesInv, Caido!EarnedInv, Caido!SummaryInv, Caido!TypeInv
<1>3. parte = "editado" => Editado!TypeOK
  BY DEF CoursesInv, Editado!SummaryInv, Editado!TypeInv
<1>4. parte = "evaluado" => Evaluado!TypeOK /\ Evaluado!TopeRespetado /\ Evaluado!ReaperturaUnica
  BY DEF CoursesInv, Evaluado!AttemptInv, Evaluado!TypeInv
<1>5. parte = "evaluado" => Evaluado!CertificadoMerecido /\ Evaluado!CertificateNotForgotten
  BY Evaluado!EarnedMeans, Evaluado!ForgottenMeans
  DEF CoursesInv, Evaluado!ForgottenInv, Evaluado!RollUpInv
<1> QED BY <1>1, <1>2, <1>3, <1>4, <1>5

\* One request at a time: attempts stay within the limit, and at most one request
\* to reopen is pending, when it is needed (take_evaluation, request_reopen).
THEOREM AttemptsHoldTheorem == Spec => []AttemptsHold
<1>1. CoursesInv => AttemptsHold
  BY CoursesMean DEF AttemptsHold
<1> QED BY <1>1, CoursesInit, CoursesStep, PTL DEF Spec

----------------------------------------
(* Programs *)

ProgramsInv ==
    /\ parte = "pagado" => CuposInv(DePagar) /\ PaidInv(DePagar)
    /\ parte = "cambiado" => CuposInv(DeCambiar) /\ SnapshotInv(DeCambiar)

\* The invariants of the programs hold at first.
LEMMA ProgramsInit ==
    Init => ProgramsInv
<1> SUFFICES ASSUME Init PROVE ProgramsInv
  OBVIOUS
<1>1. (parte = "pagado" => Plan(DePagar)!Init) /\ (parte = "cambiado" => Plan(DeCambiar)!Init)
  BY DEF Init
<1>2. parte = "pagado" => CuposInv(DePagar) /\ PaidInv(DePagar)
  BY <1>1, ProgramAssumptions, CuposInit, PaidInit DEF Quieto
<1>3. parte = "cambiado" => CuposInv(DeCambiar) /\ SnapshotInv(DeCambiar)
  BY <1>1, ProgramAssumptions, CuposInit, SnapshotInit
<1> QED BY <1>2, <1>3 DEF ProgramsInv

\* A step is one of the part that the behaviour is about, or nothing happens to it.
LEMMA ProgramsPart ==
    ASSUME [Next]_vars
    PROVE  /\ parte' = parte
           /\ parte = "pagado" => [Plan(DePagar)!Next]_(Plan(DePagar)!vars)
           /\ parte = "cambiado" => [Plan(DeCambiar)!Next]_(Plan(DeCambiar)!vars)
<1>1. ASSUME UNCHANGED varsProgramas
      PROVE UNCHANGED Plan(DePagar)!vars /\ UNCHANGED Plan(DeCambiar)!vars
  BY <1>1 DEF varsProgramas, Plan!vars, Plan!tienda, Plan!estudio, Plan!contadores
<1>2. CASE UNCHANGED vars
  BY <1>1, <1>2 DEF vars
<1>3. CASE Programas
  BY <1>3 DEF Programas
<1>4. CASE Cursos \/ Certificados
  BY <1>1, <1>4 DEF Cursos, Certificados
<1> QED BY <1>2, <1>3, <1>4 DEF Next

\* The invariants of the programs are kept.
LEMMA ProgramsStep ==
    ProgramsInv /\ [Next]_vars => ProgramsInv'
<1> SUFFICES ASSUME ProgramsInv, [Next]_vars PROVE ProgramsInv'
  OBVIOUS
<1>1. (parte = "pagado" => CuposInv(DePagar) /\ PaidInv(DePagar))'
  BY ProgramsPart, ProgramAssumptions, CuposStep, PaidStep
  DEF ProgramsInv, Quieto
<1>2. (parte = "cambiado" => CuposInv(DeCambiar) /\ SnapshotInv(DeCambiar))'
  BY ProgramsPart, ProgramAssumptions, CuposStep, SnapshotStep DEF ProgramsInv
<1> QED BY <1>1, <1>2 DEF ProgramsInv

\* What they say of programs and types.
LEMMA ProgramsMean ==
    ASSUME ProgramsInv
    PROVE  /\ parte = "pagado" => Plan(DePagar)!TypeOK /\ Plan(DePagar)!AllOrNothing
           /\ parte = "cambiado" => Plan(DeCambiar)!SnapshotCompleted /\
                Plan(DeCambiar)!NothingTwice
<1>1. parte = "pagado" => Plan(DePagar)!TypeOK /\ Plan(DePagar)!AllOrNothing
  BY ProgramAssumptions, CuposType DEF ProgramsInv, PaidInv, Quieto
<1>2. parte = "cambiado" => Plan(DeCambiar)!SnapshotCompleted
  BY DEF ProgramsInv, SnapshotInv
<1>3. parte = "cambiado" => Plan(DeCambiar)!NothingTwice
  BY ProgramAssumptions, CuposType, RoomForOne DEF ProgramsInv
<1> QED BY <1>1, <1>2, <1>3

\* A paid program is enrolled in with all of its courses or not at all; a request
\* at a time, its certificate lists what the student completed and nothing exists
\* twice (_save_payment_enrollment, tomar_programa, _emitir_certificado_programa).
THEOREM ProgramsHoldTheorem == Spec => []ProgramsHold
<1>1. ProgramsInv => ProgramsHold
  BY ProgramsMean DEF ProgramsHold
<1> QED BY <1>1, ProgramsInit, ProgramsStep, PTL DEF Spec

----------------------------------------
(* Certificates *)

\* The certificates have no rows but theirs.
EmitidaInv == Instalado!TypeOK /\ emitida = [e \in {i1} |-> emitida[e]]

CertificatesInv == parte = "instalado" => EmitidaInv

\* At first every template is as it is installed, and nothing has been issued.
LEMMA CertificatesInit ==
    Init => CertificatesInv
<1> SUFFICES ASSUME Instalado!Init PROVE EmitidaInv
  BY DEF Init, CertificatesInv
<1>1. \A t \in Instalado!Plantillas : Instalado!Sembrada(t) \in Instalado!Plantilla
  BY DEF Instalado!Plantillas, Instalado!Sembrada, Instalado!Plantilla
<1>2. plantilla \in [Instalado!Plantillas -> Instalado!Plantilla \cup {Nada}]
  BY <1>1 DEF Instalado!Init
<1>3. emitida = [e \in {i1} |-> Nada]
  BY DEF Instalado!Init
<1>4. \A e \in {i1} : ~Instalado!EstaEmitida(e)
  BY <1>3 DEF Instalado!EstaEmitida
<1>5. nombre \in [{c1, c2} -> 1..2] /\ lista \subseteq {c1, c2} /\ cambios \in 0..1
  BY DEF Instalado!Init
<1>6. bisiesto \in BOOLEAN /\ peticionC = Nada
  BY DEF Instalado!Init
<1>7. Instalado!TypeOK
  BY <1>2, <1>4, <1>5, <1>6 DEF Instalado!TypeOK
<1> QED BY <1>3, <1>7 DEF EmitidaInv

\* A template that is changed keeps its code and its body.
LEMMA TemplatesStep ==
    ASSUME EmitidaInv, NEW t \in Instalado!Plantillas,
           \/ Instalado!certificate_new(t) \/ Instalado!certificate_edit(t)
           \/ Instalado!certificate_remove(t) \/ Instalado!certificate_add(t)
           \/ Instalado!certificate_publish(t) \/ Instalado!certificate_unpublish(t)
    PROVE  /\ plantilla' \in [Instalado!Plantillas -> Instalado!Plantilla \cup {Nada}]
           /\ \A u \in Instalado!Plantillas : Instalado!ConCodigo(u) => Instalado!ConCodigo(u)'
           /\ cambios' \in 0..1
           /\ UNCHANGED <<emitida, nombre, lista, bisiesto, peticionC>>
<1>0. /\ plantilla \in [Instalado!Plantillas -> Instalado!Plantilla \cup {Nada}]
      /\ cambios \in 0..1
  BY DEF EmitidaInv, Instalado!TypeOK
<1>1. Instalado!Cambiar /\ ~Instalado!certificate_new(t) /\ ~Instalado!certificate_edit(t)
  BY DEF Instalado!certificate_new, Instalado!certificate_edit, Instalado!certificate_remove,
         Instalado!certificate_add, Instalado!certificate_publish, Instalado!certificate_unpublish
<1>2. cambios' \in 0..1 /\ UNCHANGED <<emitida, nombre, lista, bisiesto, peticionC>>
  BY <1>0, <1>1 DEF Instalado!Cambiar
<1>3. plantilla[t] # Nada
  BY <1>1 DEF Instalado!certificate_remove, Instalado!certificate_add,
              Instalado!certificate_publish, Instalado!certificate_unpublish
<1>4. plantilla[t] \in Instalado!Plantilla
  BY <1>0, <1>3
<1>5. \E m \in Instalado!Plantilla :
         m.code = plantilla[t].code /\ plantilla' = [plantilla EXCEPT ![t] = m]
  <2>1. PICK h : h = [plantilla[t] EXCEPT !.habilitado = TRUE]
    OBVIOUS
  <2>2. PICK d : d = [plantilla[t] EXCEPT !.habilitado = FALSE]
    OBVIOUS
  <2>3. PICK p : p = [plantilla[t] EXCEPT !.publico = TRUE]
    OBVIOUS
  <2>4. PICK n : n = [plantilla[t] EXCEPT !.publico = FALSE]
    OBVIOUS
  <2>5. \A m \in {h, d, p, n} : m \in Instalado!Plantilla /\ m.code = plantilla[t].code
    BY <1>4, <2>1, <2>2, <2>3, <2>4 DEF Instalado!Plantilla
  <2>6. \E m \in {h, d, p, n} : plantilla' = [plantilla EXCEPT ![t] = m]
    BY <1>1, <2>1, <2>2, <2>3, <2>4
    DEF Instalado!certificate_remove, Instalado!SinPlantilla, Instalado!certificate_add,
        Instalado!certificate_publish, Instalado!certificate_unpublish
  <2> QED BY <2>5, <2>6
<1>6. PICK m \in Instalado!Plantilla :
         m.code = plantilla[t].code /\ plantilla' = [plantilla EXCEPT ![t] = m]
  BY <1>5
<1>7. \A u \in Instalado!Plantillas : Instalado!ConCodigo(u) => Instalado!ConCodigo(u)'
  <2>1. Nada \notin Instalado!Plantilla
    BY LearningAssumption DEF Instalado!CertificatesAssumption
  <2> QED BY <1>0, <1>6, <2>1 DEF Instalado!ConCodigo
<1> QED BY <1>0, <1>2, <1>6, <1>7

\* A certificate that is issued points to a template that can be named.
LEMMA IssueStep ==
    ASSUME EmitidaInv, NEW e \in {i1}, NEW t \in Instalado!Plantillas, Instalado!ConCodigo(t),
           NEW tipo \in {"course", "masterclass", "program"}, NEW cursos, Instalado!Lista(cursos),
           emitida' = [emitida EXCEPT ![e] = Instalado!Fila(tipo, t, cursos)]
    PROVE  /\ emitida' = [k \in {i1} |-> emitida'[k]]
           /\ \A k \in {i1} : Instalado!Emitida(emitida'[k])
                              /\ Instalado!ConCodigo(emitida'[k].plantilla)
<1>1. bisiesto \in BOOLEAN
  BY DEF EmitidaInv, Instalado!TypeOK
<1>2. PICK f : f = Instalado!Fila(tipo, t, cursos)
  OBVIOUS
<1>3. DOMAIN f = {"tipo", "plantilla", "bisiesto", "cursos_snapshot"}
      /\ f.tipo = tipo /\ f.plantilla = t /\ f.bisiesto = bisiesto /\ f.cursos_snapshot = cursos
  BY <1>2 DEF Instalado!Fila
<1>4. emitida' = [k \in {i1} |-> f]
  BY <1>2 DEF EmitidaInv
<1>5. Instalado!Emitida(f)
  BY <1>1, <1>3 DEF Instalado!Emitida
<1> QED BY <1>3, <1>4, <1>5

\* What a step does to the certificates and to what they point to.
LEMMA CertificatesStep ==
    ASSUME EmitidaInv, [Instalado!Next]_(Instalado!vars)
    PROVE  /\ EmitidaInv'
           /\ \A e \in {i1} : Instalado!EstaEmitida(e) => emitida'[e] = emitida[e]
<1> USE DEF EmitidaInv
<1> DEFINE Quieta == \A e \in {i1} : Instalado!EstaEmitida(e) => emitida'[e] = emitida[e]
<1>0. /\ plantilla \in [Instalado!Plantillas -> Instalado!Plantilla \cup {Nada}]
      /\ \A e \in {i1} : Instalado!EstaEmitida(e) =>
            Instalado!Emitida(emitida[e]) /\ Instalado!ConCodigo(emitida[e].plantilla)
      /\ nombre \in [{c1, c2} -> 1..2]
      /\ lista \subseteq {c1, c2}
      /\ bisiesto \in BOOLEAN
      /\ peticionC # Nada => DOMAIN peticionC \subseteq {c1, c2}
      /\ cambios \in 0..1
  BY DEF Instalado!TypeOK
<1>1. ASSUME UNCHANGED <<emitida, plantilla>>,
             nombre' \in [{c1, c2} -> 1..2], lista' \subseteq {c1, c2}, bisiesto' \in BOOLEAN,
             peticionC' # Nada => DOMAIN peticionC' \subseteq {c1, c2}, cambios' \in 0..1
      PROVE  EmitidaInv' /\ Quieta
  BY <1>0, <1>1 DEF Instalado!TypeOK, Instalado!EstaEmitida, Instalado!Emitida, Instalado!ConCodigo,
     Instalado!Lista
<1>2. ASSUME NEW e \in {i1}, NEW t \in Instalado!Plantillas, Instalado!ConCodigo(t),
             NEW tipo \in {"course", "masterclass", "program"}, NEW cursos, Instalado!Lista(cursos),
             ~Instalado!EstaEmitida(e), peticionC' \in {peticionC, Nada},
             emitida' = [emitida EXCEPT ![e] = Instalado!Fila(tipo, t, cursos)],
             UNCHANGED <<plantilla, nombre, lista, bisiesto, cambios>>
      PROVE  EmitidaInv' /\ Quieta
  <2>1. /\ emitida' = [k \in {i1} |-> emitida'[k]]
        /\ \A k \in {i1} : Instalado!Emitida(emitida'[k])
                           /\ Instalado!ConCodigo(emitida'[k].plantilla)
    BY <1>2, IssueStep
  <2>2. \A k \in {i1} : Instalado!ConCodigo(emitida[k].plantilla)'
    BY <1>2, <2>1 DEF Instalado!ConCodigo
  <2>3. Instalado!TypeOK'
    BY <1>0, <1>2, <2>1, <2>2
    DEF Instalado!TypeOK, Instalado!EstaEmitida, Instalado!Emitida, Instalado!Lista
  <2> QED BY <1>2, <2>1, <2>3
<1>3. ASSUME NEW t \in Instalado!Plantillas,
             \/ Instalado!certificate_new(t) \/ Instalado!certificate_edit(t)
             \/ Instalado!certificate_remove(t) \/ Instalado!certificate_add(t)
             \/ Instalado!certificate_publish(t) \/ Instalado!certificate_unpublish(t)
      PROVE  EmitidaInv' /\ Quieta
  <2>1. /\ plantilla' \in [Instalado!Plantillas -> Instalado!Plantilla \cup {Nada}]
        /\ \A u \in Instalado!Plantillas : Instalado!ConCodigo(u) => Instalado!ConCodigo(u)'
        /\ cambios' \in 0..1
        /\ UNCHANGED <<emitida, nombre, lista, bisiesto, peticionC>>
    BY <1>3, TemplatesStep
  <2>2. ASSUME NEW e \in {i1}, Instalado!EstaEmitida(e)
        PROVE  Instalado!ConCodigo(emitida[e].plantilla)'
    BY <1>0, <2>1, <2>2 DEF Instalado!Emitida, Instalado!ConCodigo
  <2>3. Instalado!TypeOK'
    BY <1>0, <2>1, <2>2
    DEF Instalado!TypeOK, Instalado!EstaEmitida, Instalado!Emitida, Instalado!Lista,
        Instalado!ConCodigo
  <2> QED BY <2>1, <2>3
<1>4. ASSUME NEW e \in {i1}, Instalado!certificacion_crear(e) PROVE EmitidaInv' /\ Quieta
  BY <1>2, <1>4 DEF Instalado!certificacion_crear, Instalado!Lista
<1>5. ASSUME NEW e \in {i1}, Instalado!certificacion_generar(e) PROVE EmitidaInv' /\ Quieta
  BY <1>2, <1>5 DEF Instalado!certificacion_generar, Instalado!Ofrecidas, Instalado!Lista
<1>6. ASSUME NEW e \in {i1}, Instalado!EmitirPrograma(e) PROVE EmitidaInv' /\ Quieta
  BY <1>0, <1>2, <1>6 DEF Instalado!EmitirPrograma, Instalado!Ofrecidas, Instalado!Lista
<1>7. CASE Instalado!LeerCursos
  BY <1>0, <1>1, <1>7 DEF Instalado!LeerCursos
<1>8. ASSUME NEW c \in {c1, c2}, Instalado!RenombrarCurso(c) \/ Instalado!CambiarPrograma(c)
      PROVE  EmitidaInv' /\ Quieta
  <2>1. nombre' \in [{c1, c2} -> 1..2] /\ lista' \subseteq {c1, c2}
    BY <1>0, <1>8 DEF Instalado!RenombrarCurso, Instalado!CambiarPrograma
  <2> QED BY <1>0, <1>1, <1>8, <2>1 DEF Instalado!RenombrarCurso, Instalado!CambiarPrograma
<1>9. CASE Instalado!PasarDia
  BY <1>0, <1>1, <1>9 DEF Instalado!PasarDia
<1>10. CASE UNCHANGED Instalado!vars
  BY <1>0, <1>1, <1>10 DEF Instalado!vars
<1> QED BY <1>3, <1>4, <1>5, <1>6, <1>7, <1>8, <1>9, <1>10 DEF Instalado!Next

\* A step is one of the part that the behaviour is about, or nothing happens to it.
LEMMA CertificatesPart ==
    ASSUME [Next]_vars
    PROVE  parte' = parte /\ (parte = "instalado" => [Instalado!Next]_(Instalado!vars))
<1>1. ASSUME UNCHANGED varsCertificados PROVE UNCHANGED Instalado!vars
  BY <1>1 DEF varsCertificados, Instalado!vars
<1>2. CASE UNCHANGED vars
  BY <1>1, <1>2 DEF vars
<1>3. CASE Certificados
  BY <1>3 DEF Certificados
<1>4. CASE Cursos \/ Programas
  BY <1>1, <1>4 DEF Cursos, Programas
<1> QED BY <1>2, <1>3, <1>4 DEF Next

\* The rows of the certificates are kept.
LEMMA CertificatesKeep ==
    CertificatesInv /\ [Next]_vars => CertificatesInv'
BY CertificatesPart, CertificatesStep DEF CertificatesInv

\* A body that is installed for courses, but the professional one, asks only for
\* what the page of a course has, of its holder and of the course among it.
LEMMA BodiesShowHolder ==
    ASSUME NEW t \in DOMAIN Instalado!CERTIFICADOS \ (Instalado!DeProgramas \cup {"profesional"}),
           NEW b
    PROVE  LET c == Instalado!CERTIFICADOS[t] IN
           /\ ~Instalado!Falla(c, "course", b)
           /\ Instalado!Titular \cup {"curso.nombre"} \subseteq Instalado!Impreso(c, "course")
<1>1. PICK deCurso : deCurso = Instalado!Cuerpo(Instalado!DeCurso)
  OBVIOUS
<1>2. PICK default : default = Instalado!Default
  OBVIOUS
<1>3. Instalado!CERTIFICADOS[t] \in {deCurso, default}
  BY <1>1, <1>2
  DEF Instalado!CERTIFICADOS, Instalado!DeProgramas, Instalado!Horizontal, Instalado!Vertical,
      Instalado!Elegante, Instalado!Moderno, Instalado!Clasico, Instalado!Corporativo
<1>4. /\ deCurso.pide = Instalado!DeCurso /\ deCurso.llama = {}
      /\ deCurso.anios = 0 /\ deCurso.analiza = TRUE
  BY <1>1 DEF Instalado!Cuerpo
<1>5. /\ default.pide = Instalado!DeCurso \cup {"usuario.id"}
      /\ default.llama = {"certificacion.fecha"} /\ default.anios = 0 /\ default.analiza = TRUE
  BY <1>2 DEF Instalado!Default, Instalado!Cuerpo
<1>6. ~Instalado!SinFecha(0)
  BY DEF Instalado!SinFecha
<1>7. ASSUME NEW c \in {deCurso, default}
      PROVE  /\ ~Instalado!Falla(c, "course", b)
             /\ Instalado!Titular \cup {"curso.nombre"} \subseteq Instalado!Impreso(c, "course")
  <2>1. {"certificacion.fecha"} \subseteq Instalado!Contexto("course")
    BY DEF Instalado!Contexto, Instalado!ConCurso, Instalado!Certificacion
  <2>2. ~Instalado!Falla(c, "course", b)
    BY <1>4, <1>5, <1>6, <2>1 DEF Instalado!Falla
  <2>3. Instalado!Titular \cup {"curso.nombre"} \subseteq Instalado!DeCurso \cap Instalado!Contexto("course")
    BY DEF Instalado!DeCurso, Instalado!Contexto, Instalado!ConCurso, Instalado!Titular,
           Instalado!CertificateHolder
  <2> QED BY <1>4, <1>5, <2>2, <2>3 DEF Instalado!Impreso
<1> QED BY <1>3, <1>7

\* Every state shows the holder of a certificate with a body that is installed.
LEMMA ShowsHolder == Instalado!InstalledShowsHolder
<1> SUFFICES ASSUME NEW e \in {i1},
                    Instalado!Instalada(e, DOMAIN Instalado!CERTIFICADOS
                                             \ (Instalado!DeProgramas \cup {"profesional"})),
                    emitida[e].tipo = "course"
             PROVE  /\ Instalado!SeVe(e)
                    /\ Instalado!Titular \cup {"curso.nombre"} \subseteq Instalado!Impresos(e)
  BY DEF Instalado!InstalledShowsHolder
<1>1. PICK t \in DOMAIN Instalado!CERTIFICADOS \ (Instalado!DeProgramas \cup {"profesional"}) :
         t = plantilla[emitida[e].plantilla].cuerpo
  BY DEF Instalado!Instalada
<1>2. Instalado!CuerpoDeEmitida(e) = Instalado!CERTIFICADOS[t]
  BY <1>1 DEF Instalado!CuerpoDeEmitida
<1> QED BY <1>1, <1>2, BodiesShowHolder DEF Instalado!SeVe, Instalado!Impresos

\* No page has personal data, and every page has the holder of a certificate.
LEMMA PersonalData == Redactado!PersonalIsBlank
<1>1. ASSUME NEW tipo
      PROVE  /\ Redactado!Contexto(tipo) \cap Redactado!Personales = {}
             /\ Redactado!CertificateHolder \subseteq Redactado!Contexto(tipo)
  BY DEF Redactado!Contexto, Redactado!ConPrograma, Redactado!ConCurso, Redactado!Personales,
         Redactado!CertificateHolder, Redactado!Certificacion
<1> QED BY <1>1 DEF Redactado!PersonalIsBlank, Redactado!Impresos, Redactado!Impreso

----------------------------------------
(* All the parts *)

LearningInv == CoursesInv /\ ProgramsInv /\ CertificatesInv

\* The invariants of all the parts hold at first, and every step keeps them.
LEMMA LearningStep ==
    /\ Init => LearningInv
    /\ LearningInv /\ [Next]_vars => LearningInv'
BY CoursesInit, ProgramsInit, CertificatesInit, CoursesStep, ProgramsStep, CertificatesKeep
DEF LearningInv

\* What the tables of courses, programs and certificates hold is well formed.
THEOREM TypeCorrect == Spec => []TypeOK
<1>1. LearningInv => TypeOK
  BY CoursesMean, ProgramsMean DEF LearningInv, CertificatesInv, EmitidaInv, TypeOK
<1> QED BY <1>1, LearningStep, PTL DEF Spec

\* A certificate says what is true: it was earned, none is lost or forgotten, the
\* installed templates show their holder, and no template shows personal data.
THEOREM CertificatesAreTrueTheorem == Spec => []CertificatesAreTrue
<1>1. LearningInv => CertificatesAreTrue
  BY CoursesMean, ShowsHolder, PersonalData DEF LearningInv, CertificatesAreTrue
<1> QED BY <1>1, LearningStep, PTL DEF Spec

\* A certificate is issued to nobody whose course was not recorded as completed,
\* and that of a program keeps the courses it was issued for.
THEOREM CertificatesKeptTheorem == Spec => CertificatesKept
<1>1. ASSUME LearningInv, [Next]_vars
      PROVE  /\ parte = "editado" => Editado!CertificateHadCompletion
             /\ parte = "instalado" => Instalado!ProgramKeepsItsCourses
  <2>1. parte = "editado" => Editado!CertificateHadCompletion
    BY <1>1, CoursesPart, CourseAssumptions, Editado!CertifiedStep DEF LearningInv, CoursesInv
  <2>2. parte = "instalado" => Instalado!ProgramKeepsItsCourses
    BY <1>1, CertificatesPart, CertificatesStep
    DEF LearningInv, CertificatesInv, Instalado!ProgramKeepsItsCourses, Instalado!CursosImpresos
  <2> QED BY <2>1, <2>2
<1> QED BY <1>1, LearningStep, PTL DEF Spec, CertificatesKept
================================================================================
