---------------------------- MODULE DatabaseSetup ----------------------------
(***************************************************************************)
(* The start of the program (init_app, initial_setup, db/initial_data.py): *)
(* a database without a version row is created and filled by a long list   *)
(* of commits, files are copied between them, and any other database is    *)
(* served as it is.  A process can die after every step, and two processes *)
(* may start at once.                                                      *)
(***************************************************************************)
EXTENDS Naturals, Sequences, FiniteSets

CONSTANTS
    Procesos,
    ConEjemplos,     \* with_examples
    DatosPropios,    \* NOW_LMS_DATA_DIR and NOW_LMS_THEMES_DIR are set
    AUTO_MIGRATE,
    MaxCaidas        \* bound: processes that die

\* What an instance assumes of its constants.
SetupAssumption ==
    /\ {ConEjemplos, DatosPropios, AUTO_MIGRATE} \subseteq BOOLEAN
    /\ MaxCaidas \in Nat

VARIABLES
    esquema, sello,   \* the tables exist; Alembic is stamped to head
    filas,            \* committed rows
    dobles,           \* keys of rows that were inserted again
    disco,            \* directories <<d, "">> and files <<d, f>>
    datos, temas,     \* the copies of the static files and of the templates
    proceso, caidas

vars == <<esquema, sello, filas, dobles, disco, datos, temas, proceso, caidas>>

----------------------------------------
(* Rows: a key, and the keys that its foreign keys name *)

Fila(clave, refiere) == [clave |-> clave, refiere |-> refiere]
Raiz(tabla, nombre) == <<tabla, nombre, 0, 0, 0>>
Suelta(tabla, nombre) == Fila(Raiz(tabla, nombre), {})
Sueltas(tabla, nombres) == {Suelta(tabla, n) : n \in nombres}

Curso(c, certificado) == Fila(Raiz("Curso", c), {Raiz("Certificado", certificado)})

CursoSeccion(c, n) == Fila(<<"CursoSeccion", c, n, 0, 0>>, {Raiz("Curso", c)})

CursoRecurso(c, n, i) == Fila(<<"CursoRecurso", c, n, i, 0>>,
                              {Raiz("Curso", c), <<"CursoSeccion", c, n, 0, 0>>})

\* Section n of a course has the resources with the indices in recursos[n].
Contenido(c, recursos) ==
    {CursoSeccion(c, n) : n \in DOMAIN recursos}
    \cup UNION {{CursoRecurso(c, n, i) : i \in recursos[n]} : n \in DOMAIN recursos}

\* The evaluation of section n; question q has opciones[q] options.
Evaluacion(c, n, opciones) ==
    LET e == <<"Evaluation", c, n, 0, 0>>
        Q(q) == <<"Question", c, n, q, 0>>
    IN  {Fila(e, {<<"CursoSeccion", c, n, 0, 0>>})}
        \cup {Fila(Q(q), {e}) : q \in DOMAIN opciones}
        \cup UNION {{Fila(<<"QuestionOption", c, n, q, k>>, {Q(q)}) : k \in 1 .. opciones[q]} :
                      q \in DOMAIN opciones}

\* A row of a table that joins a row of one table with a row of another.
Union(tabla, c, a, b) == Fila(<<tabla, c, 0, 0, 0>>, {a, b})

\* Unique keys, and primary keys that the code gives.
Unica(f) ==
    \/ f.clave[1] \in {"SystemInfo", "Usuario", "Curso", "Programa", "Recurso", "Certificado",
                       "Certificacion", "BlogPost", "BlogTag", "CustomPage"}
    \/ f.clave[1] \in {"CursoSeccion", "CursoRecurso"} /\ f.clave[2] \in {"now", "free"}

----------------------------------------
(* Steps of a start *)

Paso(op, fs, d, a) == [op |-> op, filas |-> fs, dir |-> d, archivo |-> a]

Hacer(op) == <<Paso(op, {}, "", "")>>
Guardar(fs) == <<Paso("guardar", fs, "", "")>>

\* Rows that are looked for first, and inserted when they are not found.
GuardarSiFaltan(fs) == <<Paso("buscar", fs, "", ""), Paso("guardar", fs, "", "")>>

\* makedirs and copyfile in one try: a directory that exists ends both.
CopiarEnNuevo(d, a) == <<Paso("directorio", {}, d, a), Paso("copiar", {}, d, a)>>

copy_sample_audio == CopiarEnNuevo("public/audio/resources", "En-us-hello.ogg")
copy_sample_pdf == CopiarEnNuevo("public/files/resources", "NOW_Learning_Management_System.pdf")
copy_sample_img == CopiarEnNuevo("public/images/resources", "logo_large.png")
curse_logo(d) == CopiarEnNuevo(d, "logo.jpg")

system_info == GuardarSiFaltan(Sueltas("SystemInfo", {"version", "version_mayor", "version_menor"}))

Configuraciones == Sueltas("Configuracion", {"site", "mail", "adsense", "paypal", "style"})

crear_configuracion_predeterminada == Guardar(Configuraciones)

crear_certificados ==
    Guardar(Sueltas("Certificado", {"demo", "default", "horizontal", "vertical", "elegante", "moderno",
        "clasico", "corporativo", "profesional", "programa_profesional", "programa"}))

CursosPredeterminados ==
    Guardar({Curso("now", "default"), Curso("details", "horizontal"), Curso("free", "horizontal")})
    \o curse_logo("public/images/now") \o curse_logo("public/images/details")
    \o curse_logo("public/images/free")

SeccionesPredeterminadas == Guardar({CursoSeccion("now", 1), CursoSeccion("free", 1)})

RecursosPredeterminados ==
    Guardar({CursoSeccion("now", 2), CursoRecurso("free", 1, 1), CursoRecurso("now", 2, 1)}
            \cup {CursoRecurso("now", 1, i) : i \in 1 .. 3})

crear_curso_predeterminado ==
    CursosPredeterminados \o SeccionesPredeterminadas \o RecursosPredeterminados

crear_evaluaciones_training ==
    Evaluacion("lms-training", 2, <<3, 2>>) \cup Evaluacion("lms-training", 3, <<3>>)

crear_curso_autoaprendizaje ==
    Guardar({Curso("lms-training", "horizontal")} \cup crear_evaluaciones_training
            \cup Contenido("lms-training", <<{1}, {2}, {3}, {}, {}, {}>>))

crear_evaluacion_predeterminada == Guardar(Evaluacion("now", 1, <<4, 2, 4>>))

Administrador == Raiz("Usuario", "lms-admin")

crear_usuarios_predeterminados == Guardar({Suelta("Usuario", "lms-admin")})

crear_certificacion ==
    Guardar({Fila(Raiz("Certificacion", "now"),
                  {Administrador, Raiz("Curso", "now"), Raiz("Certificado", "default")})})

crear_blog_post_predeterminado ==
    GuardarSiFaltan({Fila(Raiz("BlogPost", "post"), {Administrador})}
                    \cup Sueltas("BlogTag", {"online-learning", "education", "lms", "pedagogy", "andragogy"}))

crear_paginas_estaticas_predeterminadas ==
    GuardarSiFaltan(Sueltas("CustomPage", {"about-us", "privacy-policy"}))

populate_custmon_data_dir == Hacer("datos") \o Hacer("datos copiados")
populate_custom_theme_dir == Hacer("temas") \o Hacer("temas copiados")

----------------------------------------
(* Examples *)

Categorias == {"Learning", "Programing", "Python", "Databases"}
Etiquetas == {"Python", "Postgresql", "HTML", "Learning"}

crear_categorias == Guardar(Sueltas("Categoria", Categorias))
crear_etiquetas == Guardar(Sueltas("Etiqueta", Etiquetas))

crear_curso_demo ==
    Guardar({Curso("resources", "default")})
    \o curse_logo("public/images/resources") \o curse_logo("public/images/details")
    \o copy_sample_audio \o copy_sample_pdf \o copy_sample_img
    \o Guardar(Contenido("resources", <<{1, 2, 3, 4, 5, 6, 7, 9}>>))

crear_curso_demo1 == Guardar({Curso("postgresql", "default")}) \o curse_logo("public/images/postgresql")
                     \o Guardar(Contenido("postgresql", <<{1, 2}, {1}, {1}, {1, 2}, {1}>>))

crear_curso_demo2 == Guardar({Curso("python", "default")}) \o curse_logo("public/images/python")
                     \o Guardar(Contenido("python", <<{1, 2}, {1, 2}, {1, 2}, {1}>>))

crear_curso_demo3 == Guardar({Curso("html", "default")}) \o curse_logo("public/images/html")
                     \o Guardar(Contenido("html", <<{1, 2}, {1, 2}, {1, 2}>>))

Asignados(tabla, de, nombre) ==
    {Union(tabla, c, Raiz("Curso", c), Raiz(de, nombre[c])) : c \in DOMAIN nombre}

asignar_cursos_a_etiquetas ==
    Guardar(Asignados("EtiquetaCurso", "Etiqueta",
        [postgresql |-> "Postgresql", python |-> "Python", html |-> "HTML",
         now |-> "Learning", resources |-> "Learning"]))

asignar_cursos_a_categoria ==
    Guardar(Asignados("CategoriaCurso", "Categoria",
        [postgresql |-> "Programing", python |-> "Programing", html |-> "Programing",
         now |-> "Learning", resources |-> "Learning"]))

crear_programa ==
    curse_logo("public/images/programP001")
    \o Guardar({Fila(Raiz("Programa", "P001"), {Raiz("Certificado", "default")})})
    \o Guardar({Union("ProgramaCurso", c, Raiz("Programa", "P001"), Raiz("Curso", c)) :
                  c \in {"postgresql", "python", "html"}})

asignar_programas_a_etiquetas ==
    Guardar({Union("EtiquetaPrograma", "P001", Raiz("Programa", "P001"), Raiz("Etiqueta", "Learning"))})

asignar_programas_a_categoria ==
    Guardar({Union("CategoriaPrograma", "P001", Raiz("Programa", "P001"), Raiz("Categoria", "Learning"))})

crear_recurso_descargable ==
    Guardar(Sueltas("Recurso", {"R001", "R002", "R003", "R004", "R005"}))
    \o <<Paso("directorio", {}, "public/files/resources_files", "the other directory"),
         Paso("directorio", {}, "public/images/resources_files", ""),
         Paso("copiar", {}, "public/files/resources_files", "R001.pdf ... R005.pdf"),
         Paso("copiar", {}, "public/images/resources_files", "R001.jpg ... R005.jpg")>>
    \o Guardar({Union("CursoRecursoDescargable", "now", Raiz("Curso", "now"), Raiz("Recurso", "R005"))})

----------------------------------------
\* Mutation: Alembic is stamped first.
SelloAntes == Hacer("sello") \o Hacer("esquema")

Esquema == Hacer("esquema") \o Hacer("sello")

Ejemplos ==
    crear_categorias \o crear_etiquetas
    \o crear_curso_demo \o crear_curso_demo1 \o crear_curso_demo2 \o crear_curso_demo3
    \o asignar_cursos_a_etiquetas \o asignar_cursos_a_categoria
    \o crear_programa \o asignar_programas_a_etiquetas \o asignar_programas_a_categoria
    \o crear_recurso_descargable

\* Mutation: the version is written when everything else is.
VersionAlFinal ==
    Esquema \o crear_configuracion_predeterminada \o crear_certificados
    \o crear_curso_predeterminado \o crear_usuarios_predeterminados \o system_info

\* Mutation: the version is written before the stamp.
VersionAntes ==
    Hacer("esquema") \o system_info \o Hacer("sello") \o crear_configuracion_predeterminada
    \o crear_certificados

initial_setup ==
    Esquema \o system_info
    \o crear_configuracion_predeterminada \o crear_certificados
    \o crear_curso_predeterminado \o crear_curso_autoaprendizaje
    \o crear_evaluacion_predeterminada \o crear_usuarios_predeterminados
    \o crear_certificacion \o crear_blog_post_predeterminado
    \o crear_paginas_estaticas_predeterminadas
    \o populate_custmon_data_dir \o populate_custom_theme_dir
    \o (IF ConEjemplos THEN Ejemplos ELSE <<>>)

DeExistente == Hacer("migrar") \o populate_custmon_data_dir \o populate_custom_theme_dir

Plan(p) == IF proceso[p].nueva THEN initial_setup ELSE DeExistente

----------------------------------------
Proceso == [pc: {"apagado", "prepara", "sirve"}, nueva: BOOLEAN,
            paso: 1 .. Len(initial_setup), hay: SUBSET filas]

Apagado == [pc |-> "apagado", nueva |-> FALSE, paso |-> 1, hay |-> {}]

TypeOK ==
    /\ {esquema, sello} \subseteq BOOLEAN
    /\ sello \/ filas # {} => esquema
    /\ \A p \in Procesos : proceso[p] \in Proceso
    /\ {datos, temas} \subseteq {"ausente", "parcial", "completo"}
    /\ dobles \subseteq {f.clave : f \in filas}
    /\ \A a \in disco : <<a[1], "">> \in disco
    /\ caidas <= MaxCaidas

database_is_populated == Raiz("SystemInfo", "version") \in {f.clave : f \in filas}

init_app(p) ==
    /\ proceso[p].pc = "apagado"
    /\ proceso' = [proceso EXCEPT ![p] =
          [Apagado EXCEPT !.pc = "prepara", !.nueva = ~database_is_populated]]
    /\ UNCHANGED <<esquema, sello, filas, dobles, disco, datos, temas, caidas>>

En(p, op) == proceso[p].pc = "prepara" /\ Plan(p)[proceso[p].paso].op = op

Actual(p) == Plan(p)[proceso[p].paso]

\* n steps further; the program serves after the last.
Avanza(p, n) ==
    proceso' = IF proceso[p].paso + n <= Len(Plan(p)) THEN [proceso EXCEPT ![p].paso = @ + n]
                                                     ELSE [proceso EXCEPT ![p].pc = "sirve"]

CrearEsquema(p) ==
    /\ En(p, "esquema") \/ En(p, "sello")
    /\ IF En(p, "esquema") THEN esquema' = TRUE /\ UNCHANGED sello
                           ELSE sello' = TRUE /\ UNCHANGED esquema
    /\ Avanza(p, 1)
    /\ UNCHANGED <<filas, dobles, disco, datos, temas, caidas>>

Buscar(p) ==
    /\ En(p, "buscar")
    /\ proceso' = [proceso EXCEPT ![p].paso = @ + 1, ![p].hay = Actual(p).filas \cap filas]
    /\ UNCHANGED <<esquema, sello, filas, dobles, disco, datos, temas, caidas>>

\* A row with a unique key that is there already ends the process.
GuardarFilas(p) ==
    /\ En(p, "guardar")
    /\ LET nuevas == Actual(p).filas \ proceso[p].hay
           chocan == nuevas \cap filas IN
       IF \E f \in chocan : Unica(f)
       THEN proceso' = [proceso EXCEPT ![p] = Apagado] /\ UNCHANGED <<filas, dobles>>
       ELSE /\ filas' = filas \cup nuevas
            /\ dobles' = dobles \cup {f.clave : f \in chocan}
            /\ proceso' = IF proceso[p].paso < Len(Plan(p))
                          THEN [proceso EXCEPT ![p].paso = @ + 1, ![p].hay = {}]
                          ELSE [proceso EXCEPT ![p].pc = "sirve", ![p].hay = {}]
    /\ UNCHANGED <<esquema, sello, disco, datos, temas, caidas>>

\* FileExistsError: what follows in the same try is left out.
Directorio(p) ==
    /\ En(p, "directorio")
    /\ LET d == <<Actual(p).dir, "">> IN
       /\ Avanza(p, IF d \in disco /\ Actual(p).archivo # "" THEN 2 ELSE 1)
       /\ disco' = disco \cup {d}
    /\ UNCHANGED <<esquema, sello, filas, dobles, datos, temas, caidas>>

\* FileNotFoundError, of the origin or of the directory, is passed over.  The origin
\* is among the static files, which a directory of the site's own may not have yet.
Copiar(p) ==
    /\ En(p, "copiar")
    /\ \E copia \in IF <<Actual(p).dir, "">> \notin disco \/ datos = "ausente" THEN {FALSE}
                    ELSE IF datos = "completo" THEN {TRUE} ELSE BOOLEAN :
          disco' = IF copia THEN disco \cup {<<Actual(p).dir, Actual(p).archivo>>} ELSE disco
    /\ Avanza(p, 1)
    /\ UNCHANGED <<esquema, sello, filas, dobles, datos, temas, caidas>>

\* copytree is two steps: what tells that it was done comes with the first.
Poblar(p) ==
    /\ \/ /\ En(p, "datos")
          /\ IF datos = "ausente" THEN datos' = "parcial" /\ Avanza(p, 1)
                                  ELSE Avanza(p, 2) /\ UNCHANGED datos
          /\ UNCHANGED temas
       \/ /\ En(p, "temas")
          /\ IF temas = "ausente" THEN temas' = "parcial" /\ Avanza(p, 1)
                                  ELSE Avanza(p, 2) /\ UNCHANGED temas
          /\ UNCHANGED datos
       \/ En(p, "datos copiados") /\ datos' = "completo" /\ Avanza(p, 1) /\ UNCHANGED temas
       \/ En(p, "temas copiados") /\ temas' = "completo" /\ Avanza(p, 1) /\ UNCHANGED datos
    /\ UNCHANGED <<esquema, sello, filas, dobles, disco, caidas>>

\* From the base, the migrations collide with tables that exist.
Migrar(p) ==
    /\ En(p, "migrar")
    /\ IF AUTO_MIGRATE /\ ~sello THEN proceso' = [proceso EXCEPT ![p] = Apagado]
                                 ELSE Avanza(p, 1)
    /\ UNCHANGED <<esquema, sello, filas, dobles, disco, datos, temas, caidas>>

Caer(p) ==
    /\ proceso[p].pc # "apagado"
    /\ caidas < MaxCaidas
    /\ caidas' = caidas + 1
    /\ proceso' = [proceso EXCEPT ![p] = Apagado]
    /\ UNCHANGED <<esquema, sello, filas, dobles, disco, datos, temas>>

Init ==
    /\ esquema = FALSE /\ sello = FALSE
    /\ filas = {} /\ dobles = {} /\ disco = {}
    /\ datos = IF DatosPropios THEN "ausente" ELSE "completo"
    /\ temas = datos
    /\ proceso = [p \in Procesos |-> Apagado]
    /\ caidas = 0

Trabaja(p) ==
    \/ init_app(p) \/ CrearEsquema(p) \/ Buscar(p) \/ GuardarFilas(p)
    \/ Directorio(p) \/ Copiar(p) \/ Poblar(p) \/ Migrar(p)

Next == \E p \in Procesos : Trabaja(p) \/ Caer(p)

Spec == Init /\ [][Next]_vars

----------------------------------------
(* Properties *)

Sirve(p) == proceso[p].pc = "sirve"

\* Wherever starts die: a row never names one that is not there, so that every commit
\* is accepted by a database that enforces foreign keys (initial_setup).
ReferencesResolve ==
    \A f \in filas : f.refiere \subseteq {g.clave : g \in filas}

\* Wherever starts die: a database that counts as populated was stamped, and no later
\* start migrates it from the base (initial_setup, init_app).
PopulatedIsStamped == database_is_populated => sello

\* Two starts at once: nothing but the configuration is inserted twice
\* (initial_setup).
RowsOnce == dobles \subseteq {f.clave : f \in Configuraciones}

\* Two starts at once: one of them at most goes through the whole setup
\* (initial_setup).
OneSetsUp == Cardinality({p \in Procesos : Sirve(p) /\ proceso[p].nueva}) <= 1

----------------------------------------
(* What the pages, the comments and the guides say, and the code does not keep:  *)
(* TLC finds a counterexample to each of the following.                          *)

\* Two starts at once: the site has one configuration (crear_configuracion_predeterminada).
OneConfiguration == dobles = {}

\* Wherever starts die: a site that is served has its administrator
\* (crear_usuarios_predeterminados).
AdministratorExists ==
    \A p \in Procesos : Sirve(p) => Administrador \in {f.clave : f \in filas}

\* Wherever starts die: a site that is served has all of its static files and
\* templates (populate_custmon_data_dir, populate_custom_theme_dir).
CopiesAreWhole == \A p \in Procesos : Sirve(p) => datos = "completo" /\ temas = "completo"

\* A setup that came to its end has installed the logo of every default course
\* (curse_logo).
LogosInstalled ==
    \A p \in Procesos : (Sirve(p) /\ proceso[p].nueva) =>
        \A d \in {"public/images/now", "public/images/details", "public/images/free"} :
            <<d, "logo.jpg">> \in disco

\* A setup that came to its end has installed the files of the example resources
\* (copy_sample_audio, copy_sample_pdf, copy_sample_img).
SamplesInstalled ==
    \A p \in Procesos : (Sirve(p) /\ proceso[p].nueva) =>
        {<<"public/audio/resources", "En-us-hello.ogg">>,
         <<"public/files/resources", "NOW_Learning_Management_System.pdf">>,
         <<"public/images/resources", "logo_large.png">>} \subseteq disco

\* From every seeded resource but the last of its section the next one is reached:
\* its index is one higher (crear_curso_demo, crear_indice_recurso).
ResourcesLinked ==
    LET indices(c, n) == {f.clave[4] : f \in {g \in filas : g.clave[1] = "CursoRecurso"
                                              /\ g.clave[2] = c /\ g.clave[3] = n}}
    IN  \A f \in filas : f.clave[1] = "CursoRecurso" =>
            LET todos == indices(f.clave[2], f.clave[3]) IN
            (\E i \in todos : i > f.clave[4]) => f.clave[4] + 1 \in todos
===============================================================================
