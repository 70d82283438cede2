------------------------------ MODULE MCInTheEnd -------------------------------
(***************************************************************************)
(* What must happen in the end, in every part where someone waits for it.  *)
(* The parts share no rows and do not call each other: parte is the one    *)
(* that a behaviour is about, whose requests peticion keeps, and the rest  *)
(* has no rows.  The fairness of all parts is the same: a request that is  *)
(* being served goes on, time passes, and people try again.                *)
(***************************************************************************)
EXTENDS Naturals, TLC

CONSTANTS
    Partes,      \* the parts that a run explores
    ana, marta, x, y, e1, o1, p1, p2, i1, c1, s1, s2, s3, m1, b1, u1, Nada

VARIABLES
    parte, peticion, caidas, operaciones,
    curso, cupon, pagos, inscripcion, indice, ordenes, pagina, ediciones,  \* CourseSales
    version, matriculaV, invalidada, avisada, generacion, paginas, lector, escritor,
    fallas, perdidas,                                                      \* CoursePageCache
    cursoC, matricula, recursos, avances, resumenes, evaluaciones, intentos,
    solicitudes, certificados, edicionesC,                                 \* CourseCompletion
    programa, enlaces, inscritos, pagosP, ordenesP, matriculas, certificadosP,
    diplomas, edicionesP, bajas,                                           \* Programs
    usuarios, matriculaR, pagosR, registros, invitados, respuestas,        \* RemoteEnrollment
    entradas, comentarios, etiquetas, paginasB, indices, vistas, quitados, pedidas,  \* Blog
    backend, activa, contador, resta, recientes,                           \* ApiRateLimit
    indiceS, padre, cerradura,                                             \* CourseIndex
    cursoF, mensaje,                                                       \* CourseForum
    esquema, sello, filas, dobles, disco, datos, temas, proceso            \* DatabaseSetup

varsVentas == <<curso, cupon, pagos, inscripcion, indice, ordenes, pagina, ediciones>>
varsCache == <<version, matriculaV, invalidada, avisada, generacion, paginas, lector, escritor,
               fallas, perdidas>>
varsCursos == <<cursoC, matricula, recursos, avances, resumenes, evaluaciones, intentos,
                solicitudes, certificados, edicionesC>>
varsProgramas == <<programa, enlaces, inscritos, pagosP, ordenesP, matriculas, certificadosP,
                   diplomas, edicionesP, bajas>>
varsRemoto == <<usuarios, matriculaR, pagosR, registros, invitados, respuestas>>
varsBlog == <<entradas, comentarios, etiquetas, paginasB, indices, vistas, quitados, pedidas>>
varsTasa == <<backend, activa, contador, resta, recientes>>
varsIndice == <<indiceS, padre, cerradura>>
varsForo == <<cursoF, mensaje>>
varsBase == <<esquema, sello, filas, dobles, disco, datos, temas, proceso>>
\* In two halves, so that a part of one leaves the other alone as a whole.
varsUno == <<varsVentas, varsCursos, varsProgramas, varsRemoto>>
varsOtro == <<varsCache, varsBlog, varsTasa, varsIndice, varsForo, varsBase>>
vars == <<parte, peticion, caidas, operaciones, varsUno, varsOtro>>

----------------------------------------
\* One order, which the browser of the student confirms, twice at a time.
Ventas == INSTANCE CourseSales WITH
    Estudiantes <- {ana}, Personal <- marta, PagoIds <- {1, 2}, Ordenes <- {o1},
    Peticiones <- {p1, p2}, Cursos <- {[pagado |-> TRUE, auditable |-> FALSE, precio |-> 100]},
    Descuentos <- {}, Limites <- {0}, NoVerificados <- {}, Traducido <- TRUE,
    MaxEdiciones <- 0, MaxCaidas <- 1

\* A reader and an editor of one course; a writer stops, or a bump is refused.
Cache == INSTANCE CoursePageCache WITH
    Cursos <- {c1}, Global <- "global", Miembros <- {ana}, Anonimo <- "anon",
    Variantes <- {"view"}, SinConsulta <- {"view"}, SinGeneracion <- Nada,
    SinPagina <- Nada, Lectores <- {p1}, Escritores <- {p2}, MaxVersiones <- 1,
    MaxMatriculas <- 1, MaxPaginas <- 2, MaxFallas <- 1, MaxPerdidas <- 0,
    matricula <- matriculaV

\* Two resources and an evaluation; a request dies.
Avance == INSTANCE CourseCompletion WITH
    Estudiantes <- {ana}, Auditores <- {}, Recursos <- {x, y}, Evaluaciones <- {e1},
    Peticiones <- {p1}, Topes <- {1}, Cascada <- TRUE, Recertifica <- FALSE,
    MaxIntentos <- 1, MaxCertificados <- 1, MaxEdiciones <- 0, MaxCaidas <- 1,
    curso <- cursoC, ediciones <- edicionesC

\* A program with a price and two courses; a request dies.
Cursada == INSTANCE Programs WITH
    Estudiantes <- {ana}, Cursos <- {x, y}, Codigos <- {"k1"}, IdPrograma <- "id",
    PagoIds <- {1, 2}, Ordenes <- {o1}, Peticiones <- {p1}, Integridad <- TRUE,
    Programas <- {[codigo |-> "k1", pagado |-> TRUE, publico |-> TRUE, estado |-> "open",
                   certificado |-> TRUE, plantilla |-> TRUE]},
    MaxFilas <- 1, MaxEdiciones <- 0, MaxBajas <- 0, MaxCaidas <- 1,
    pagos <- pagosP, ordenes <- ordenesP, matricula <- matriculas,
    certificados <- certificadosP, ediciones <- edicionesP

\* A call that is repeated, twice at a time, though two requests die.
Remoto == INSTANCE RemoteEnrollment WITH
    Ids <- {i1}, Correos <- {ana}, Cursos <- {c1}, DePago <- {}, Peticiones <- {p1, p2},
    MaxCaidas <- 2, matricula <- matriculaR, pagos <- pagosR

\* A post that is banned while it is read and listed.
Leidas == INSTANCE Blog WITH
    Administradores <- {marta}, Autores <- {}, Lectores <- {u1}, Entradas <- {b1},
    Comentarios <- {}, Titulos <- {"t1"}, Etiquetas <- {}, Peticiones <- {p1, p2},
    Acciones <- {"crear", "banear", "aprobar", "leer", "listar"}, MaxOperaciones <- 5,
    paginas <- paginasB

Tasa == INSTANCE ApiRateLimit WITH
    Peticiones <- {p1}, Limite <- 3, Ventana <- 4, Backends <- {"memoria"}

\* Three sections that are moved, added and deleted, two at a time, under row locks.
Indice == INSTANCE CourseIndex WITH
    Peticiones <- {p1, p2}, Secciones <- {s1, s2, s3}, Recursos <- {}, Curso <- c1,
    Operaciones <- {"mover_seccion", "nueva_seccion", "eliminar_seccion"},
    Comienzo <- {(s1 :> 1) @@ (s2 :> 2) @@ (s3 :> 3)},
    PadreInicial <- [s \in {s1, s2, s3} |-> Nada],
    ConBloqueo <- TRUE, Integridad <- TRUE, MaxIndice <- 5, MaxOperaciones <- 3, MaxCaidas <- 1,
    indice <- indiceS

\* A course that is published, edited, closed and finalized, and its forum, two
\* requests at a time.
Foro(acciones, max) == INSTANCE CourseForum WITH
    Peticiones <- {p1, p2}, Mensajes <- {m1}, Formularios <- BOOLEAN,
    Estados <- {"draft", "open", "closed", "finalized"},
    Acciones <- acciones, MaxOperaciones <- max, MaxCaidas <- 0, curso <- cursoF
DeMensajes == {"estado", "mensaje", "respuesta", "cerrar", "abrir"}
DePublicar == {"estado", "publicar", "editar"}

\* A first start that dies twice.
Base == INSTANCE DatabaseSetup WITH
    Procesos <- {p1}, ConEjemplos <- TRUE, DatosPropios <- TRUE, AUTO_MIGRATE <- TRUE,
    MaxCaidas <- 2

ASSUME InTheEndAssumption ==
    /\ Avance!ProgressAssumption /\ Avance!ProgressNull /\ Cursada!ProgramsAssumption /\ Leidas!BlogAssumption
    /\ Tasa!RateAssumption /\ Indice!IndexAssumption
    /\ Foro(DeMensajes, 4)!ForumAssumption /\ Foro(DePublicar, 3)!ForumAssumption
    /\ Base!SetupAssumption

----------------------------------------
\* A part that the behaviour is not about has no rows.
SinVentas ==
    /\ curso = Nada /\ cupon = Nada /\ pagos = Nada /\ inscripcion = Nada /\ indice = Nada
    /\ ordenes = Nada /\ pagina = Nada /\ ediciones = 0
SinCache ==
    /\ version = Nada /\ matriculaV = Nada /\ invalidada = Nada /\ avisada = Nada
    /\ generacion = Nada /\ paginas = Nada /\ lector = Nada /\ escritor = Nada
    /\ fallas = 0 /\ perdidas = 0
SinCursos ==
    /\ cursoC = Nada /\ matricula = Nada /\ recursos = Nada /\ avances = Nada
    /\ resumenes = Nada /\ evaluaciones = Nada /\ intentos = Nada /\ solicitudes = Nada
    /\ certificados = Nada /\ edicionesC = 0
SinProgramas ==
    /\ programa = Nada /\ enlaces = Nada /\ inscritos = Nada /\ pagosP = Nada
    /\ ordenesP = Nada /\ matriculas = Nada /\ certificadosP = Nada /\ diplomas = Nada
    /\ edicionesP = 0 /\ bajas = 0
SinRemoto ==
    /\ usuarios = Nada /\ matriculaR = Nada /\ pagosR = Nada /\ registros = Nada
    /\ invitados = Nada /\ respuestas = Nada
SinBlog ==
    /\ entradas = Nada /\ comentarios = Nada /\ etiquetas = Nada /\ paginasB = Nada
    /\ indices = Nada /\ vistas = Nada /\ quitados = Nada /\ pedidas = Nada
SinTasa ==
    /\ backend = Nada /\ activa = Nada /\ contador = Nada /\ resta = Nada /\ recientes = Nada
SinIndice == indiceS = Nada /\ padre = Nada /\ cerradura = Nada
SinForo == cursoF = Nada /\ mensaje = Nada
SinBase ==
    /\ esquema = Nada /\ sello = Nada /\ filas = Nada /\ dobles = Nada /\ disco = Nada
    /\ datos = Nada /\ temas = Nada /\ proceso = Nada

Init ==
    /\ parte \in Partes
    /\ IF parte = "ventas" THEN Ventas!Init ELSE SinVentas
    /\ IF parte = "cache" THEN Cache!Init ELSE SinCache
    /\ IF parte = "cursos" THEN Avance!Init ELSE SinCursos
    /\ IF parte \in {"programa_pagado", "programa_cursado"} THEN Cursada!Init ELSE SinProgramas
    /\ IF parte = "remoto" THEN Remoto!Init ELSE SinRemoto
    /\ IF parte = "blog" THEN Leidas!Init ELSE SinBlog
    /\ IF parte = "tasa" THEN Tasa!Init ELSE SinTasa
    /\ IF parte = "indice" THEN Indice!Init ELSE SinIndice
    /\ IF parte \in {"foro_cerrado", "foro_retirado"} THEN Foro(DeMensajes, 4)!Init ELSE SinForo
    /\ IF parte = "base" THEN Base!Init ELSE SinBase
    /\ parte \in {"cache", "base"} => peticion = Nada
    /\ parte \in {"cache", "tasa", "blog"} => caidas = 0
    /\ parte \notin {"blog", "indice", "foro_cerrado", "foro_retirado"} => operaciones = 0

\* What a step of each part leaves alone.
EnVentas ==
    /\ parte = "ventas"
    /\ UNCHANGED <<parte, operaciones, varsCursos, varsProgramas, varsRemoto, varsOtro>>
EnCursos ==
    /\ parte = "cursos"
    /\ UNCHANGED <<parte, operaciones, varsVentas, varsProgramas, varsRemoto, varsOtro>>
EnProgramas ==
    /\ parte \in {"programa_pagado", "programa_cursado"}
    /\ UNCHANGED <<parte, operaciones, varsVentas, varsCursos, varsRemoto, varsOtro>>
EnRemoto ==
    /\ parte = "remoto"
    /\ UNCHANGED <<parte, operaciones, varsVentas, varsCursos, varsProgramas, varsOtro>>
EnCache ==
    /\ parte = "cache"
    /\ UNCHANGED <<parte, peticion, caidas, operaciones, varsUno, varsBlog, varsTasa,
                   varsIndice, varsForo, varsBase>>
EnBlog ==
    /\ parte = "blog"
    /\ UNCHANGED <<parte, caidas, varsUno, varsCache, varsTasa, varsIndice, varsForo, varsBase>>
EnTasa ==
    /\ parte = "tasa"
    /\ UNCHANGED <<parte, caidas, operaciones, varsUno, varsCache, varsBlog, varsIndice,
                   varsForo, varsBase>>
EnIndice ==
    /\ parte = "indice"
    /\ UNCHANGED <<parte, varsUno, varsCache, varsBlog, varsTasa, varsForo, varsBase>>
EnForo ==
    /\ parte \in {"foro_cerrado", "foro_retirado"}
    /\ UNCHANGED <<parte, varsUno, varsCache, varsBlog, varsTasa, varsIndice, varsBase>>
EnBase ==
    /\ parte = "base"
    /\ UNCHANGED <<parte, peticion, operaciones, varsUno, varsCache, varsBlog, varsTasa,
                   varsIndice, varsForo>>

Next ==
    \/ EnVentas /\ Ventas!Next
    \/ EnCursos /\ Avance!Next
    \/ EnProgramas /\ Cursada!Next
    \/ EnRemoto /\ Remoto!Next
    \/ EnCache /\ Cache!Next
    \/ EnBlog /\ Leidas!Next
    \/ EnTasa /\ Tasa!Next
    \/ EnIndice /\ Indice!Next
    \/ EnForo /\ parte = "foro_cerrado" /\ Foro(DeMensajes, 4)!Next
    \/ EnForo /\ parte = "foro_retirado" /\ Foro(DePublicar, 3)!Next
    \/ EnBase /\ Base!Next

----------------------------------------
(* Fairness.  The parts are alternatives, so that one condition holds the   *)
(* same assumption for all of them.                                         *)

\* A request that was accepted is served to its end.
Atiende(r) ==
    \/ EnVentas /\ Ventas!Atendida(r)
    \/ EnRemoto /\ Remoto!Atender(r)
    \/ EnBlog /\ Leidas!Terminos(r)
    \/ EnIndice /\ Indice!Seguir(r)
    \/ EnForo /\ Foro(DeMensajes, 4)!Sigue(r)
AtiendeUna ==
    \/ EnCursos /\ Avance!Sigue(p1)
    \/ EnProgramas /\ Cursada!Sigue(p1)
    \/ EnCache /\ Cache!Atiende(p1)
    \/ EnBase /\ Base!Trabaja(p1)

\* The time limit of a page, of the list of posts and of a counter is reached.
Caduca ==
    \/ EnCache /\ \E k \in Cache!Rezagadas : Cache!Expire(k)
    \/ EnBlog /\ Leidas!CaducarPagina(<<"t1", 0>>, u1)
    \/ EnTasa /\ Tasa!Pasa

\* The browser posts an order until it is answered, the caller of the API repeats
\* its call, not every mail and not every answer is lost, and a student keeps
\* marking resources and opening the page of the program.
Confirma ==
    \/ EnVentas /\ \E r \in {p1, p2} : Ventas!ConfirmPayment(r, o1)
    \/ EnProgramas /\ Cursada!ConfirmarPago(p1, o1)
    \/ EnRemoto /\ Remoto!Recibir(p1, i1, <<ana, c1>>)
    \/ EnCursos /\ Avance!MarcarRecurso(p1, ana, x)
Insiste ==
    \/ EnProgramas /\ Cursada!TomarPrograma(p1, ana)
    \/ EnRemoto /\ Remoto!Responder(p1)
    \/ EnCursos /\ Avance!MarcarRecurso(p1, ana, y)

Spec ==
    /\ Init /\ [][Next]_vars
    /\ WF_vars(Atiende(p1) \/ AtiendeUna)
    /\ WF_vars(Atiende(p2) \/ (EnCache /\ Cache!Escribe(p2)))
    /\ WF_vars(Caduca)
    /\ WF_vars(EnBlog /\ Leidas!CaducarPagina(<<"t1", 1>>, u1))
    /\ WF_vars(EnBlog /\ Leidas!CaducarIndice(Nada))
    /\ SF_vars(Confirma) /\ SF_vars(Insiste) /\ SF_vars(EnRemoto /\ Remoto!Invitar(p1))

----------------------------------------
Espera ==
    \/ parte = "ventas" /\ ordenes[o1] # Nada
    \/ parte = "cursos" /\ cursoC.certificado /\ cursoC.plantilla /\ matricula[ana] = "vigente"
                        /\ Avance!Requeridos # {} /\ Avance!EvaluacionesAprobadas(ana)
    \/ parte = "programa_pagado" /\ ordenesP[o1] = ana
    \/ parte = "programa_cursado" /\ inscritos[ana] > 0 /\ Cursada!CursosDe("k1") # {}
          /\ \A c \in Cursada!CursosDe("k1") : certificadosP[ana][c] > 0
    \/ parte = "remoto" /\ respuestas[i1].respuesta = ""
    \/ parte = "blog" /\ Leidas!Retirada(b1)
    \/ parte = "tasa" /\ contador # Nada /\ Tasa!AlLimite(contador)
    \/ parte = "indice" /\ peticion[p1].pc # "idle"
    \/ parte = "foro_cerrado" /\ Foro(DeMensajes, 4)!Existe(m1) /\ peticion[p1].pc = "estado"
          /\ peticion[p1].escribe.estado = "finalized"
          /\ peticion[p1].leido.estado # "finalized"
    \/ parte = "foro_retirado" /\ peticion[p1].pc = "despublicar" /\ cursoF.estado # "open"

Servido ==
    \/ parte = "ventas" /\ Ventas!Registrados(o1) # {}
    \/ parte = "cursos" /\ (Avance!TieneCertificado(ana) \/ matricula[ana] # "vigente")
    \/ parte = "programa_pagado" /\ inscritos[ana] > 0
    \/ parte = "programa_cursado" /\ diplomas[ana] # <<>>
    \/ parte = "remoto" /\ respuestas[i1].respuesta # ""
    \/ parte = "blog" /\ ~(Leidas!Retirada(b1) /\ Leidas!EnCache(b1))
    \/ parte = "tasa" /\ contador = Nada
    \/ parte = "indice" /\ peticion[p1].pc = "idle"
    \/ parte = "foro_cerrado" /\ Foro(DeMensajes, 4)!Existe(m1) /\ mensaje[m1].estado = "cerrado"
    \/ parte = "foro_retirado" /\ (~cursoF.publico \/ cursoF.estado = "open")

\* Nobody waits for ever: what PayPal captured is booked (confirm_payment) and
\* enrolls in the program (_save_payment_enrollment); a student who passed the
\* evaluations and keeps marking resources gets the certificate or is removed
\* (_actualizar_avance_curso), and one with those of all courses the program's
\* (tomar_programa); a caller that repeats its call is answered (public_api.py); a
\* banned post leaves the cache or is restored (blog.py); a refused key is served
\* again (check_rate_limit); requests that wait for the rows of each other end
\* (modificar_indice_curso); a finalization closes the messages that it found
\* (close_all_for_course), and a course that is closed leaves the site
\* (cambia_estado_curso_por_id).  Requests and members are alike: one stands for all.
WaitingIsOver == Espera ~> Servido

\* When rows stop changing the cache and everyone's pages agree with them, whatever
\* invalidations missed (cache.py), and a server that died in its first starts
\* serves (init_app).
Asentado ==
    /\ parte = "cache" =>
          /\ Cache!Rezagadas = {}
          /\ Cache!Servida(p1) => lector[p1].pagina = Cache!Actual(lector[p1].peticion)
    /\ parte = "base" => Base!Sirve(p1)
SiteSettles == <>[]Asentado
================================================================================
