----------------------------- MODULE Certificates -----------------------------
(***************************************************************************)
(* Certificates that are issued for courses, master classes and programs,  *)
(* the templates they point to, and what their pages print from then on    *)
(* (vistas/certificates.py, vistas/programs.py).  A page prints a          *)
(* certificate with the template as it is when the page is asked for; the  *)
(* courses of a program are kept with its certificate.                     *)
(***************************************************************************)
EXTENDS CertificateTemplates

CONSTANTS
    Nuevas,           \* templates that administrators add
    Propios,          \* bodies that they write, by their name
    CuerpoDe(_),      \* the body of a name
    Emitidas,         \* certificates
    Cursos,           \* courses of one program
    MaxNombres,       \* bound: names that a course had
    MaxCambios,       \* bound: changes of templates
    Nada

\* code: the template can be named by a course, a form or a certificate.
Plantilla == [code: BOOLEAN, cuerpo: DOMAIN CERTIFICADOS \cup Propios,
              tipo: {"course", "program"}, habilitado: BOOLEAN, publico: BOOLEAN]

\* What an instance assumes of its constants.
CertificatesAssumption ==
    /\ Nada \notin Plantilla
    /\ Nuevas \cap DOMAIN CERTIFICADOS = {}
    /\ Propios \cap DOMAIN CERTIFICADOS = {}
    /\ MaxNombres \in Nat /\ MaxCambios \in Nat

VARIABLES
    plantilla,    \* Certificado rows
    emitida,      \* Certificacion and CertificacionPrograma rows
    nombre,       \* names of the courses, numbered
    programa,     \* courses of the program
    bisiesto,     \* it is the 29th of February
    peticion,     \* a certificate of the program whose courses have been read
    cambios

vars == <<plantilla, emitida, nombre, programa, bisiesto, peticion, cambios>>

----------------------------------------
Plantillas == DOMAIN CERTIFICADOS \cup Nuevas

Lista(l) == l = Nada \/ DOMAIN l \subseteq Cursos

\* cursos_snapshot: the names of the courses of a program.
Emitida(e) ==
    /\ DOMAIN e = {"tipo", "plantilla", "bisiesto", "cursos_snapshot"}
    /\ e.tipo \in {"course", "masterclass", "program"}
    /\ e.plantilla \in Plantillas
    /\ e.bisiesto \in BOOLEAN
    /\ Lista(e.cursos_snapshot)

EstaEmitida(e) == emitida[e] # Nada
ConCodigo(t) == plantilla[t] # Nada /\ plantilla[t].code

\* What points to a template finds it.
TypeOK ==
    /\ plantilla \in [Plantillas -> Plantilla \cup {Nada}]
    /\ \A e \in Emitidas : EstaEmitida(e) => Emitida(emitida[e]) /\ ConCodigo(emitida[e].plantilla)
    /\ nombre \in [Cursos -> 1 .. MaxNombres]
    /\ programa \subseteq Cursos
    /\ bisiesto \in BOOLEAN
    /\ peticion # Nada => DOMAIN peticion \subseteq Cursos
    /\ cambios \in 0 .. MaxCambios

----------------------------------------
(* Templates *)

Cambiar == /\ cambios < MaxCambios
           /\ cambios' = cambios + 1
           /\ UNCHANGED <<emitida, nombre, programa, bisiesto, peticion>>

\* The form has no field for the code.
certificate_new(t) ==
    /\ Cambiar
    /\ t \in Nuevas /\ plantilla[t] = Nada
    /\ \E c \in Propios, tipo \in {"course", "program"} :
          plantilla' = [plantilla EXCEPT ![t] =
             [code |-> FALSE, cuerpo |-> c, tipo |-> tipo, habilitado |-> FALSE, publico |-> FALSE]]

certificate_edit(t) ==
    /\ Cambiar
    /\ plantilla[t] # Nada
    /\ \E c \in Propios, tipo \in {"course", "program"}, h, p \in BOOLEAN :
          plantilla' = [plantilla EXCEPT ![t] =
             [@ EXCEPT !.cuerpo = c, !.tipo = tipo, !.habilitado = h, !.publico = p]]

\* A template is removed by disabling it.
SinPlantilla(t) == [plantilla EXCEPT ![t].habilitado = FALSE]

certificate_remove(t) ==
    /\ Cambiar
    /\ plantilla[t] # Nada /\ plantilla[t].habilitado
    /\ plantilla' = SinPlantilla(t)

certificate_add(t) ==
    /\ Cambiar
    /\ plantilla[t] # Nada /\ ~plantilla[t].habilitado
    /\ plantilla' = [plantilla EXCEPT ![t].habilitado = TRUE]

certificate_publish(t) ==
    /\ Cambiar
    /\ plantilla[t] # Nada /\ ~plantilla[t].publico
    /\ plantilla' = [plantilla EXCEPT ![t].publico = TRUE]

certificate_unpublish(t) ==
    /\ Cambiar
    /\ plantilla[t] # Nada /\ plantilla[t].publico
    /\ plantilla' = [plantilla EXCEPT ![t].publico = FALSE]

----------------------------------------
(* Certificates *)

Fila(tipo, t, lista) ==
    [tipo |-> tipo, plantilla |-> t, bisiesto |-> bisiesto, cursos_snapshot |-> lista]

\* generate_template_choices: the templates for courses, disabled or not.
Ofrecidas(tipo) == {t \in Plantillas : ConCodigo(t) /\ plantilla[t].tipo = tipo}

\* For a student who may have it; the address of the page names the template.
certificacion_crear(e) ==
    /\ ~EstaEmitida(e)
    /\ \E t \in Plantillas :
          /\ ConCodigo(t)
          /\ emitida' = [emitida EXCEPT ![e] = Fila("course", t, Nada)]
    /\ UNCHANGED <<plantilla, nombre, programa, bisiesto, peticion, cambios>>

certificacion_generar(e) ==
    /\ ~EstaEmitida(e)
    /\ \E t \in Ofrecidas("course"), tipo \in {"course", "masterclass"} :
          emitida' = [emitida EXCEPT ![e] = Fila(tipo, t, Nada)]
    /\ UNCHANGED <<plantilla, nombre, programa, bisiesto, peticion, cambios>>

\* _emitir_certificado_programa reads the courses one by one ...
LeerCursos ==
    /\ peticion = Nada
    /\ peticion' = [c \in programa |-> nombre[c]]
    /\ UNCHANGED <<plantilla, emitida, nombre, programa, bisiesto, cambios>>

\* ... and keeps their names with the certificate.
EmitirPrograma(e) ==
    /\ peticion # Nada
    /\ ~EstaEmitida(e)
    /\ \E t \in Ofrecidas("program") :
          emitida' = [emitida EXCEPT ![e] = Fila("program", t, peticion)]
    /\ peticion' = Nada
    /\ UNCHANGED <<plantilla, nombre, programa, bisiesto, cambios>>

\* DatabaseSnapshotWrapper
CursosImpresos(e) == emitida[e].cursos_snapshot

----------------------------------------
(* The rest of the system *)

RenombrarCurso(c) ==
    /\ nombre[c] < MaxNombres
    /\ nombre' = [nombre EXCEPT ![c] = @ + 1]
    /\ UNCHANGED <<plantilla, emitida, programa, bisiesto, peticion, cambios>>

CambiarPrograma(c) ==
    /\ programa' = IF c \in programa THEN programa \ {c} ELSE programa \cup {c}
    /\ UNCHANGED <<plantilla, emitida, nombre, bisiesto, peticion, cambios>>

PasarDia ==
    /\ bisiesto' = ~bisiesto
    /\ UNCHANGED <<plantilla, emitida, nombre, programa, peticion, cambios>>

Sembrada(t) ==
    IF t \in Nuevas THEN Nada
    ELSE [code |-> TRUE, cuerpo |-> t, tipo |-> IF t \in DeProgramas THEN "program" ELSE "course",
          habilitado |-> TRUE, publico |-> TRUE]

\* crear_certificados
Init ==
    /\ plantilla = [t \in Plantillas |-> Sembrada(t)]
    /\ bisiesto = FALSE
    /\ emitida = [e \in Emitidas |-> Nada]
    /\ nombre = [c \in Cursos |-> 1]
    /\ programa = Cursos
    /\ peticion = Nada
    /\ cambios = 0

Next ==
    \/ \E t \in Plantillas :
          \/ certificate_new(t) \/ certificate_edit(t)
          \/ certificate_remove(t) \/ certificate_add(t)
          \/ certificate_publish(t) \/ certificate_unpublish(t)
    \/ \E e \in Emitidas : certificacion_crear(e) \/ certificacion_generar(e) \/ EmitirPrograma(e)
    \/ LeerCursos
    \/ \E c \in Cursos : RenombrarCurso(c) \/ CambiarPrograma(c)
    \/ PasarDia

Spec == Init /\ [][Next]_vars

----------------------------------------
(* Properties *)

\* The page of a certificate (certificacion, certificacion_programa).
CuerpoDeEmitida(e) ==
    LET c == plantilla[emitida[e].plantilla].cuerpo IN
    IF c \in DOMAIN CERTIFICADOS THEN CERTIFICADOS[c] ELSE CuerpoDe(c)

SeVe(e) == ~Falla(CuerpoDeEmitida(e), emitida[e].tipo, emitida[e].bisiesto)
Impresos(e) == Impreso(CuerpoDeEmitida(e), emitida[e].tipo)

Instalada(e, codigos) ==
    /\ EstaEmitida(e) /\ emitida[e].plantilla \in codigos
    /\ plantilla[emitida[e].plantilla].cuerpo = emitida[e].plantilla

\* A certificate of a course with a template that the system installs, issued on
\* any day and for any of them but the professional one, shows who has it and for
\* what, after its template is removed too (certificacion, CERTIFICADOS).
InstalledShowsHolder ==
    \A e \in Emitidas :
        /\ Instalada(e, DOMAIN CERTIFICADOS \ (DeProgramas \cup {"profesional"}))
        /\ emitida[e].tipo = "course"
        => SeVe(e) /\ Titular \cup {"curso.nombre"} \subseteq Impresos(e)

\* A certificate of a program lists for ever the courses that it was issued for,
\* under the names they had, whatever becomes of them (DatabaseSnapshotWrapper).
ProgramKeepsItsCourses ==
    \A e \in Emitidas :
          (EstaEmitida(e) /\ emitida[e].tipo = "program") => CursosImpresos(e)' = CursosImpresos(e)

\* A template that asks for more of the user than a certificate shows prints a
\* blank there, and what it may show elsewhere (CertificateHolder).
PersonalIsBlank ==
    \A e \in Emitidas :
        EstaEmitida(e) =>
            /\ Impresos(e) \cap Personales = {}
            /\ CertificateHolder \cap CuerpoDeEmitida(e).pide \subseteq Impresos(e)

----------------------------------------
(* What the pages, the comments and the guides say, and the code does not keep:  *)
(* TLC finds a counterexample to each of the following.                          *)

\* Every certificate of a course with an installed template can be seen
\* (certificacion, certificate_serve_pdf).
CourseRenders ==
    \A e \in Emitidas :
        (Instalada(e, DOMAIN CERTIFICADOS \ DeProgramas) /\ emitida[e].tipo = "course") => SeVe(e)

\* Every certificate of a program with an installed template can be seen
\* (certificacion_programa).
ProgramRenders ==
    \A e \in Emitidas :
        (Instalada(e, DeProgramas) /\ emitida[e].tipo = "program") => SeVe(e)

\* A certificate of a master class names it (certificacion).
NamesMasterClass ==
    \A e \in Emitidas :
        (Instalada(e, DOMAIN CERTIFICADOS \ DeProgramas) /\ emitida[e].tipo = "masterclass")
        => {"curso.nombre", "curso.title"} \cap Impresos(e) # {}

\* A template that asks for a personal datum prints a blank instead of breaking
\* the page (CertificateHolder).
UnknownIsBlank ==
    \A e \in Emitidas :
        (EstaEmitida(e) /\ emitida[e].tipo = "course" /\ CuerpoDeEmitida(e).anios = 0
         /\ CuerpoDeEmitida(e).analiza) => SeVe(e)

\* A template written with the variables that are documented prints them.
DocumentedIsPrinted ==
    \A e \in Emitidas :
        (EstaEmitida(e) /\ "student_name" \in CuerpoDeEmitida(e).pide)
        => "student_name" \in Impresos(e)

\* A template that an administrator adds can be chosen for a course once it is
\* enabled and published (certificate_new, generate_template_choices).
AddedCanBeChosen ==
    \A t \in Nuevas :
        (plantilla[t] # Nada /\ plantilla[t].habilitado /\ plantilla[t].publico)
        => t \in Ofrecidas(plantilla[t].tipo)
===============================================================================
