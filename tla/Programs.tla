------------------------------ MODULE Programs ------------------------------
(***************************************************************************)
(* A program of courses (vistas/programs.py): its courses, its students,   *)
(* the payment of the program, and the certificate of having completed     *)
(* all of its courses.  Every request is split where another one can       *)
(* commit; what it read before is kept in its local state.  The courses    *)
(* have resources, so that indexing an enrolled student commits.           *)
(***************************************************************************)
EXTENDS Naturals, FiniteSets, Sequences

CONSTANTS
    Estudiantes,
    Cursos,
    Codigos,          \* values of Programa.codigo
    IdPrograma,       \* Programa.id, which is not one of the codes
    PagoIds, Ordenes, \* payments of the program, and captures of PayPal
    Peticiones,       \* requests in flight at once
    Programas,        \* what the forms can leave in the Programa row
    Integridad,       \* the database enforces foreign keys
    MaxFilas,         \* bound: certificates of a student in one course
    MaxEdiciones,     \* bound: changes by administrators
    MaxBajas,         \* bound: students unenrolled from a single course
    MaxCaidas,        \* bound: requests that die half way
    Nada

Programa == [codigo: Codigos, pagado: BOOLEAN, publico: BOOLEAN,
             estado: {"draft", "open", "closed"}, certificado: BOOLEAN,
             plantilla: BOOLEAN]

\* What an instance assumes of its constants.
ProgramsAssumption ==
    /\ IdPrograma \notin Codigos
    /\ Nada \notin Estudiantes \cup Cursos \cup PagoIds \cup Ordenes
    /\ Programas \subseteq Programa
    /\ IsFiniteSet(Peticiones) /\ Peticiones # {}
    /\ Integridad \in BOOLEAN
    /\ {MaxFilas, MaxEdiciones, MaxBajas, MaxCaidas} \subseteq Nat

VARIABLES
    programa,      \* the Programa row
    enlaces,       \* ProgramaCurso rows by code and course: there may be several
    inscritos,     \* ProgramaEstudiante rows of each student: there may be several
    pagos,         \* Pago rows of the program
    ordenes,       \* external: the student who paid each order
    matricula,     \* EstudianteCurso row of every student and course
    certificados,  \* Certificacion rows of every student and course
    diplomas,      \* snapshots of the CertificacionPrograma rows of each student
    peticion,      \* local state of every request
    ediciones, bajas, caidas

tienda == <<pagos, ordenes>>
estudio == <<matricula, certificados, diplomas>>
contadores == <<ediciones, bajas, caidas>>
vars == <<programa, enlaces, inscritos, tienda, estudio, peticion, contadores>>

----------------------------------------
Pago == [usuario: Estudiantes, estado: {"pending", "completed"},
         referencia: Ordenes \cup {Nada}]

Peticion == [pc: {"idle", "pago", "registro", "alta", "cursos", "filas", "correo",
                  "alumnos", "altas", "quitar", "baja", "emitir"},
             usuario: Estudiantes \cup {Nada},
             codigo: Codigos \cup {Nada},    \* of the program as it was read
             curso: Cursos \cup {Nada},
             lista: SUBSET (Cursos \cup Estudiantes),
             alta: BOOLEAN,                  \* a ProgramaEstudiante row is to be inserted
             guardado: BOOLEAN,              \* the ProgramaCurso row is committed
             pago: PagoIds \cup {Nada},      \* Pago object held by a confirmation
             orden: Ordenes \cup {Nada}]

Libre == [pc |-> "idle", usuario |-> Nada, codigo |-> Nada, curso |-> Nada,
          lista |-> {}, alta |-> TRUE, guardado |-> FALSE, pago |-> Nada,
          orden |-> Nada]

\* The rows that only a lookup keeps single are never more than the requests
\* that can have looked at once.
TypeOK ==
    /\ programa \in Programa
    /\ enlaces \in [Codigos -> [Cursos -> 0..Cardinality(Peticiones)]]
    /\ inscritos \in [Estudiantes -> 0..Cardinality(Peticiones)]
    /\ pagos \in [PagoIds -> Pago \cup {Nada}]
    /\ ordenes \in [Ordenes -> Estudiantes \cup {Nada}]
    /\ matricula \in [Estudiantes -> [Cursos -> {"ninguna", "inactiva", "activa"}]]
    /\ certificados \in [Estudiantes -> [Cursos -> 0..MaxFilas]]
    /\ \A s \in Estudiantes :
          /\ Len(diplomas[s]) <= Cardinality(Peticiones)
          /\ \A i \in 1..Len(diplomas[s]) : diplomas[s][i] \subseteq Cursos
    /\ peticion \in [Peticiones -> Peticion]
    /\ ediciones <= MaxEdiciones /\ bajas <= MaxBajas /\ caidas <= MaxCaidas

----------------------------------------
(* Queries *)

\* ProgramaCurso.filter_by(programa=clave)
CursosDe(clave) ==
    {c \in Cursos : clave \in Codigos /\ enlaces[clave][c] > 0}

Activa(s, c) == matricula[s][c] = "activa"

\* Every course has a certificate; one with two of them raises.
verificar_programa_completo(s, codigo) ==
    /\ CursosDe(codigo) # {}
    /\ \A c \in CursosDe(codigo) : certificados[s][c] = 1

Pendientes(s) == {p \in PagoIds : pagos[p] # Nada /\ pagos[p].usuario = s
                                                  /\ pagos[p].estado = "pending"}

\* Pago.filter_by(referencia=order_id, programa=...), completed
Registrado(o) == \E p \in PagoIds : pagos[p] # Nada /\ pagos[p].referencia = o

\* Deleting a row that is gone already does nothing.
Menos(n) == IF n > 0 THEN n - 1 ELSE 0

Terminar(r) == peticion' = [peticion EXCEPT ![r] = Libre]
Empezar(r, campos) == peticion[r].pc = "idle" /\ peticion' = [peticion EXCEPT ![r] = campos]
En(r, pc) == peticion[r].pc = pc

----------------------------------------
(* Enrolling in the program *)

\* verificar_usuario_inscrito_programa, which raises when there are two rows
NoInscrito(s) == inscritos[s] = 0

\* A free program; publico and estado are not looked at.
InscribirPrograma(r, s) ==
    /\ NoInscrito(s) /\ ~programa.pagado
    /\ Empezar(r, [Libre EXCEPT !.pc = "cursos", !.usuario = s, !.codigo = programa.codigo])
    /\ UNCHANGED <<programa, enlaces, inscritos, tienda, estudio, contadores>>

\* A program with a price, and no pending payment to go back to.
PedirPago(r, s) ==
    /\ NoInscrito(s) /\ programa.pagado
    /\ Pendientes(s) = {}
    /\ Empezar(r, [Libre EXCEPT !.pc = "pago", !.usuario = s])
    /\ UNCHANGED <<programa, enlaces, inscritos, tienda, estudio, contadores>>

CrearPago(r) ==
    /\ En(r, "pago")
    /\ \E p \in PagoIds :
          /\ pagos[p] = Nada
          /\ pagos' = [pagos EXCEPT ![p] = [usuario |-> peticion[r].usuario,
                                            estado |-> "pending", referencia |-> Nada]]
    /\ Terminar(r)
    /\ UNCHANGED <<programa, enlaces, inscritos, ordenes, estudio, contadores>>

\* External: PayPal captures the amount of the payment page.
Capturar(s, o) ==
    /\ programa.pagado
    /\ ordenes[o] = Nada
    /\ ordenes' = [ordenes EXCEPT ![o] = s]
    /\ UNCHANGED <<programa, enlaces, inscritos, pagos, estudio, peticion, contadores>>

\* _validate_payment_confirmation of an order of a program
ConfirmarPago(r, o) ==
    /\ ordenes[o] # Nada
    /\ Pendientes(ordenes[o]) # {} \/ programa.pagado
    /\ \E p \in IF Pendientes(ordenes[o]) = {} THEN {Nada} ELSE Pendientes(ordenes[o]) :
          Empezar(r, [Libre EXCEPT !.pc = "registro", !.usuario = ordenes[o],
                                   !.codigo = programa.codigo, !.pago = p, !.orden = o])
    /\ UNCHANGED <<programa, enlaces, inscritos, tienda, estudio, contadores>>

\* _payment_record: an order that is already registered is answered at once.
RegistrarPago(r) ==
    /\ En(r, "registro")
    /\ IF Registrado(peticion[r].orden) THEN Terminar(r)
       ELSE peticion' = [peticion EXCEPT ![r].pc = "alta"]
    /\ UNCHANGED <<programa, enlaces, inscritos, tienda, estudio, contadores>>

\* _save_payment_enrollment looks for the enrollment in the program.
BuscarInscripcion(r) ==
    /\ En(r, "alta")
    /\ peticion' = [peticion EXCEPT ![r].pc = "cursos",
                                    ![r].alta = inscritos[peticion[r].usuario] = 0]
    /\ UNCHANGED <<programa, enlaces, inscritos, tienda, estudio, contadores>>

\* inscribir_usuario_en_cursos_de_programa reads the courses,
LeerCursos(r) ==
    /\ En(r, "cursos")
    /\ peticion' = [peticion EXCEPT ![r].pc = "filas", ![r].lista = CursosDe(peticion[r].codigo)]
    /\ UNCHANGED <<programa, enlaces, inscritos, tienda, estudio, contadores>>

\* and inserts a row in each of them that has none in force.
Faltan(s, lista) == {c \in lista : ~Activa(s, c)}

\* The row a confirmation completes: the pending one it holds, or a new one.
PagoCompletado(r) ==
    IF peticion[r].pago # Nada THEN {peticion[r].pago}
    ELSE {p \in PagoIds : pagos[p] = Nada}

\* Mutation: the enrollments in the courses are left to a later commit.
SinCursos(r, nuevas) ==
    UNCHANGED matricula

\* Rows of EstudianteCurso for every course that lacks one.
Matricular(r, nuevas) ==
    matricula' = [matricula EXCEPT ![peticion[r].usuario] =
                     [c \in Cursos |-> IF c \in nuevas THEN "activa" ELSE @[c]]]

\* One commit for payment, program and courses.  A row that is not in force
\* any more makes the insert fail, and everything is rolled back.
Inscribir(r) ==
    LET s == peticion[r].usuario
        nuevas == Faltan(s, peticion[r].lista)
    IN  /\ En(r, "filas")
        /\ IF \E c \in nuevas : matricula[s][c] # "ninguna"
           THEN UNCHANGED <<pagos, inscritos, matricula>>
           ELSE /\ Matricular(r, nuevas)
                /\ inscritos' = IF peticion[r].alta
                                THEN [inscritos EXCEPT ![s] = @ + 1] ELSE inscritos
                /\ IF peticion[r].orden = Nada THEN UNCHANGED pagos
                   ELSE \E p \in PagoCompletado(r) :
                           pagos' = [pagos EXCEPT ![p] =
                               [usuario |-> s, estado |-> "completed",
                                referencia |-> peticion[r].orden]]
        /\ Terminar(r)
        /\ UNCHANGED <<programa, enlaces, ordenes, certificados, diplomas, contadores>>

----------------------------------------
(* Administrators *)

Editar == ediciones < MaxEdiciones /\ ediciones' = ediciones + 1
AlEmpezarEdicion == UNCHANGED <<programa, enlaces, inscritos, tienda, estudio, bajas, caidas>>

\* inscribir_usuario_programa, by e-mail: the program only.
InscribirPorCorreo(r, s) ==
    /\ Editar
    /\ NoInscrito(s)
    /\ Empezar(r, [Libre EXCEPT !.pc = "correo", !.usuario = s])
    /\ AlEmpezarEdicion

GuardarPorCorreo(r) ==
    /\ En(r, "correo")
    /\ inscritos' = [inscritos EXCEPT ![peticion[r].usuario] = @ + 1]
    /\ Terminar(r)
    /\ UNCHANGED <<programa, enlaces, tienda, estudio, contadores>>

\* Both administrative views look for the courses by the id of the program,
\* while the rows hold its code.
CursosDelAdministrador(codigo) == CursosDe(IdPrograma)

admin_program_enrollment(r, s) ==
    /\ Editar
    /\ NoInscrito(s)
    /\ Empezar(r, [Libre EXCEPT !.pc = "filas", !.usuario = s,
                                !.lista = CursosDelAdministrador(programa.codigo)])
    /\ AlEmpezarEdicion

admin_program_unenrollment(r, s) ==
    /\ Editar
    /\ inscritos[s] = 1
    /\ Empezar(r, [Libre EXCEPT !.pc = "baja", !.usuario = s,
                                !.lista = CursosDelAdministrador(programa.codigo)])
    /\ AlEmpezarEdicion

\* Rows in force of these students and courses are put out of force.
Desactivar(alumnos, cursos) ==
    matricula' = [s \in Estudiantes |-> [c \in Cursos |->
        IF s \in alumnos /\ c \in cursos /\ Activa(s, c) THEN "inactiva"
        ELSE matricula[s][c]]]

Desinscribir(r) ==
    /\ En(r, "baja")
    /\ Desactivar({peticion[r].usuario}, peticion[r].lista)
    /\ inscritos' = [inscritos EXCEPT ![peticion[r].usuario] = Menos(@)]
    /\ Terminar(r)
    /\ UNCHANGED <<programa, enlaces, tienda, certificados, diplomas, contadores>>

\* ProgramaCurso lookup of add_course
NoEnPrograma(c) == enlaces[programa.codigo][c] = 0

\* gestionar_cursos_programa, add_course: the row is pending,
AgregarCurso(r, c) ==
    /\ Editar
    /\ NoEnPrograma(c)
    /\ Empezar(r, [Libre EXCEPT !.pc = "alumnos", !.curso = c, !.codigo = programa.codigo])
    /\ AlEmpezarEdicion

\* the students are read (which sends the row to the database, where a code
\* that was changed meanwhile is refused),
LeerAlumnos(r) ==
    /\ En(r, "alumnos")
    /\ IF Integridad /\ peticion[r].codigo # programa.codigo THEN Terminar(r)
       ELSE peticion' = [peticion EXCEPT ![r].pc = "altas",
                             ![r].lista = {s \in Estudiantes : inscritos[s] > 0}]
    /\ UNCHANGED <<programa, enlaces, inscritos, tienda, estudio, contadores>>

\* The ProgramaCurso row, visible with the first commit of the request.
Enlazar(r) ==
    enlaces' = IF peticion[r].guardado THEN enlaces
               ELSE [enlaces EXCEPT ![peticion[r].codigo][peticion[r].curso] = @ + 1]

\* and each is enrolled and indexed, which commits.  A row out of force ends
\* the request there.
InscribirAlumno(r, s) ==
    /\ En(r, "altas")
    /\ s \in peticion[r].lista
    /\ CASE Activa(s, peticion[r].curso) ->
              /\ peticion' = [peticion EXCEPT ![r].lista = @ \ {s}]
              /\ UNCHANGED <<enlaces, matricula>>
         [] matricula[s][peticion[r].curso] = "inactiva" ->
              Terminar(r) /\ UNCHANGED <<enlaces, matricula>>
         [] OTHER ->
              /\ Enlazar(r)
              /\ matricula' = [matricula EXCEPT ![s][peticion[r].curso] = "activa"]
              /\ peticion' = [peticion EXCEPT ![r].lista = @ \ {s}, ![r].guardado = TRUE]
    /\ UNCHANGED <<programa, inscritos, tienda, certificados, diplomas, contadores>>

CursoAgregado(r) ==
    /\ En(r, "altas") /\ peticion[r].lista = {}
    /\ Enlazar(r)
    /\ Terminar(r)
    /\ UNCHANGED <<programa, inscritos, tienda, estudio, contadores>>

\* remove_course; two rows for the course would raise.
QuitarCurso(r, c) ==
    /\ Editar
    /\ enlaces[programa.codigo][c] = 1
    /\ Empezar(r, [Libre EXCEPT !.pc = "quitar", !.curso = c, !.codigo = programa.codigo,
                                !.lista = {s \in Estudiantes : inscritos[s] > 0}])
    /\ AlEmpezarEdicion

CursoQuitado(r) ==
    /\ En(r, "quitar")
    /\ Desactivar(peticion[r].lista, {peticion[r].curso})
    /\ enlaces' = [enlaces EXCEPT ![peticion[r].codigo][peticion[r].curso] = Menos(@)]
    /\ Terminar(r)
    /\ UNCHANGED <<programa, inscritos, tienda, certificados, diplomas, contadores>>

\* edit_program.  The courses are counted by the new code, already sent to the
\* database; with foreign keys a code that has courses cannot change.
EditarPrograma(nuevo) ==
    /\ Editar
    /\ Integridad /\ nuevo.codigo # programa.codigo => CursosDe(programa.codigo) = {}
    /\ LET vacio == CursosDe(nuevo.codigo) = {}
       IN  programa' = [nuevo EXCEPT
               !.publico = @ /\ ~vacio,
               !.estado = IF @ = "open" /\ vacio THEN "draft" ELSE @]
    /\ programa' # programa
    /\ UNCHANGED <<enlaces, inscritos, tienda, estudio, peticion, bajas, caidas>>

----------------------------------------
(* Studying *)

\* Enrolling in one of the courses outside of the program.
InscribirCurso(s, c) ==
    /\ ~Activa(s, c)
    /\ matricula' = [matricula EXCEPT ![s][c] = "activa"]
    /\ UNCHANGED <<programa, enlaces, inscritos, tienda, certificados, diplomas,
                   peticion, contadores>>

\* admin_course_unenrollment
DarDeBaja(s, c) ==
    /\ bajas < MaxBajas /\ bajas' = bajas + 1
    /\ Activa(s, c)
    /\ matricula' = [matricula EXCEPT ![s][c] = "inactiva"]
    /\ UNCHANGED <<programa, enlaces, inscritos, tienda, certificados, diplomas,
                   peticion, ediciones, caidas>>

\* _emitir_certificado of one course; a resource marked again issues another.
CompletarCurso(s, c) ==
    /\ Activa(s, c)
    /\ certificados[s][c] < MaxFilas
    /\ certificados' = [certificados EXCEPT ![s][c] = @ + 1]
    /\ UNCHANGED <<programa, enlaces, inscritos, tienda, matricula, diplomas,
                   peticion, contadores>>

\* tomar_programa: the page of a student who completed the program and has no
\* certificate of it.  Two rows of anything it looks up make it raise.
TomarPrograma(r, s) ==
    /\ inscritos[s] = 1
    /\ verificar_programa_completo(s, programa.codigo)
    /\ programa.certificado /\ programa.plantilla
    /\ Len(diplomas[s]) = 0
    /\ Empezar(r, [Libre EXCEPT !.pc = "emitir", !.usuario = s, !.codigo = programa.codigo])
    /\ UNCHANGED <<programa, enlaces, inscritos, tienda, estudio, contadores>>

\* The courses of the program at the time of the certificate.
Snapshot(codigo) == CursosDe(codigo)

\* _emitir_certificado_programa looks for the program by its code again.
EmitirDiploma(r) ==
    /\ En(r, "emitir")
    /\ diplomas' = IF peticion[r].codigo = programa.codigo
                   THEN [diplomas EXCEPT ![peticion[r].usuario] =
                            Append(@, Snapshot(programa.codigo))]
                   ELSE diplomas
    /\ Terminar(r)
    /\ UNCHANGED <<programa, enlaces, inscritos, tienda, matricula, certificados, contadores>>

\* A worker dies, or its client is gone, between two commits.
Caer(r) ==
    /\ ~En(r, "idle")
    /\ caidas < MaxCaidas /\ caidas' = caidas + 1
    /\ Terminar(r)
    /\ UNCHANGED <<programa, enlaces, inscritos, tienda, estudio, ediciones, bajas>>

----------------------------------------
\* A program as administrators leave it before students come.
Init ==
    /\ programa \in {p \in Programas : p.plantilla => p.certificado}
    /\ enlaces \in [Codigos -> [Cursos -> 0..1]]
    /\ \A k \in Codigos \ {programa.codigo} : CursosDe(k) = {}
    /\ programa.publico \/ programa.estado = "open" => CursosDe(programa.codigo) # {}
    /\ inscritos = [s \in Estudiantes |-> 0]
    /\ pagos = [p \in PagoIds |-> Nada]
    /\ ordenes = [o \in Ordenes |-> Nada]
    /\ matricula = [s \in Estudiantes |-> [c \in Cursos |-> "ninguna"]]
    /\ certificados = [s \in Estudiantes |-> [c \in Cursos |-> 0]]
    /\ diplomas = [s \in Estudiantes |-> <<>>]
    /\ peticion = [r \in Peticiones |-> Libre]
    /\ ediciones = 0 /\ bajas = 0 /\ caidas = 0

\* The steps a request takes by itself.
Sigue(r) ==
    \/ CrearPago(r) \/ RegistrarPago(r) \/ BuscarInscripcion(r) \/ LeerCursos(r)
    \/ Inscribir(r) \/ GuardarPorCorreo(r) \/ Desinscribir(r) \/ LeerAlumnos(r)
    \/ \E s \in Estudiantes : InscribirAlumno(r, s)
    \/ CursoAgregado(r) \/ CursoQuitado(r) \/ EmitirDiploma(r)

Next ==
    \/ \E r \in Peticiones, s \in Estudiantes :
          \/ InscribirPrograma(r, s) \/ PedirPago(r, s) \/ TomarPrograma(r, s)
          \/ InscribirPorCorreo(r, s) \/ admin_program_enrollment(r, s)
          \/ admin_program_unenrollment(r, s)
    \/ \E r \in Peticiones, c \in Cursos : AgregarCurso(r, c) \/ QuitarCurso(r, c)
    \/ \E r \in Peticiones, o \in Ordenes : ConfirmarPago(r, o)
    \/ \E r \in Peticiones : Sigue(r) \/ Caer(r)
    \/ \E s \in Estudiantes, o \in Ordenes : Capturar(s, o)
    \/ \E s \in Estudiantes, c \in Cursos :
          InscribirCurso(s, c) \/ DarDeBaja(s, c) \/ CompletarCurso(s, c)
    \/ \E nuevo \in Programas : EditarPrograma(nuevo)

Spec == Init /\ [][Next]_vars

----------------------------------------
(* Properties *)

\* The student of a completed payment is in the program and in all of its
\* courses, whatever dies in _save_payment_enrollment.
\* (While nobody changes the program or removes students from courses.)
AllOrNothing ==
    \A p \in PagoIds :
       pagos[p] # Nada /\ pagos[p].estado = "completed" =>
          /\ inscritos[pagos[p].usuario] > 0
          /\ \A c \in CursosDe(programa.codigo) : Activa(pagos[p].usuario, c)

\* The courses listed in a certificate of the program are courses that the
\* student completed (tomar_programa checks, _emitir_certificado_programa lists).
SnapshotCompleted ==
    \A s \in Estudiantes : \A i \in 1..Len(diplomas[s]) :
       \A c \in diplomas[s][i] : certificados[s][c] > 0

\* No enrollment in the program, course of the program or certificate of the
\* program exists twice; the lookups of all three raise when they do.
NothingTwice ==
    /\ \A s \in Estudiantes : inscritos[s] <= 1 /\ Len(diplomas[s]) <= 1
    /\ \A k \in Codigos, c \in Cursos : enlaces[k][c] <= 1

----------------------------------------
(* What the pages, the comments and the guides say, and the code does not keep:  *)
(* TLC finds a counterexample to each of the following.                          *)

\* A certificate of the program is issued only if needed: never a second one.
DiplomaOnce == \A s \in Estudiantes : Len(diplomas[s]) <= 1

\* A public program has courses (edit_program and remove_course together).
PublicHasCourses == programa.publico => CursosDe(programa.codigo) # {}

\* Who enrolls, or pays, is enrolled in all the courses of the program at the
\* moment of the commit (inscribir_usuario_en_cursos_de_programa).
EnrollmentCoversCourses ==
    \A r \in Peticiones, s \in Estudiantes :
          (/\ En(r, "filas") /\ peticion'[r] = Libre
           /\ peticion[r].usuario = s /\ inscritos'[s] > inscritos[s]
           /\ peticion[r].codigo # Nada)
             => \A c \in CursosDe(programa.codigo) : matricula'[s][c] = "activa"

\* The administrative enrollment in a program reaches all of its courses.
AdminEnrollsInCourses ==
    \A r \in Peticiones, s \in Estudiantes :
          (/\ En(r, "filas") /\ peticion'[r] = Libre
           /\ peticion[r].usuario = s /\ inscritos'[s] > inscritos[s]
           /\ peticion[r].codigo = Nada)
             => \A c \in CursosDe(programa.codigo) : matricula'[s][c] = "activa"

\* The administrative unenrollment from a program reaches all of its courses.
AdminUnenrollsFromCourses ==
    \A s \in Estudiantes : inscritos'[s] < inscritos[s]
             => \A c \in CursosDe(programa.codigo) : matricula'[s][c] # "activa"
=============================================================================
