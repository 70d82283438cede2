------------------------------ MODULE MCCommunity -----------------------------
(***************************************************************************)
(* Instances of what members write to each other and administrators        *)
(* publish: forums, threads, the community, the blog and the pages.  They  *)
(* share no rows and do not call each other: parte is the one that a       *)
(* behaviour is about, whose requests peticion keeps, and the rest has no  *)
(* rows.  The sizes of all parts are constants, so that what is proved of  *)
(* them in MCCommunity_proofs is proved of any size.                       *)
(***************************************************************************)
EXTENDS Naturals, TLC

CONSTANTS
    Partes,                              \* the parts that a run explores
    Miembros, Personal,                  \* who writes, and the staff
    Mensajes, Hilos, Posts, Respuestas,  \* what they write
    Autores, Lectores, Entradas, Comentarios, Titulos, Etiquetas,    \* the blog
    Paginas, Predeterminadas, Primeras, OtrosSlugs, Idiomas, Enviados, DeFabrica, Propios,
    Visitas,                             \* the pages of the site
    q1, Concurrentes,                    \* the requests: one at a time, or several
    MaxSeguidas, MaxComentadas, MaxCruzadas, MaxReportadas, MaxDestacadas,
    MaxSincronizadas, MaxVisitadas,      \* bounds: requests of a behaviour
    MaxCaidas, Nada

VARIABLES
    parte, peticion, operaciones, caidas,
    curso, mensaje,                                      \* CourseForum
    hilo, inscritos,                                     \* and Messages, with mensaje
    post, respuesta, likes, traza, activos,              \* CommunityHub
    entradas, comentarios, etiquetas, paginas, indices, vistas, quitados, pedidas,  \* Blog
    pagina, lang, cache, visita                          \* CustomPages

varsMensajes == <<curso, mensaje, hilo, inscritos>>
varsComunidad == <<post, respuesta, likes, traza, activos>>
varsBlog == <<entradas, comentarios, etiquetas, paginas, indices, vistas, quitados, pedidas>>
varsPaginas == <<pagina, lang, cache, visita>>
vars == <<parte, peticion, operaciones, caidas, varsMensajes, varsComunidad, varsBlog, varsPaginas>>

----------------------------------------
Una == {q1}      \* one request at a time

\* The forum of a course.
Foro == INSTANCE CourseForum WITH
    Peticiones <- Una, MaxOperaciones <- MaxSeguidas,
    Formularios <- BOOLEAN, Estados <- {"draft", "open", "closed", "finalized"},
    Acciones <- {"estado", "publicar", "mensaje", "respuesta", "cerrar", "abrir", "editar"}

\* The threads of a course, of which some request may die.
Hilo(ps, max) == INSTANCE Messages WITH
    Alumnos <- Miembros, Peticiones <- ps, MaxOperaciones <- max

\* The posts of the community.
Hub(ps, acciones, max) == INSTANCE CommunityHub WITH
    Administradores <- Personal, MINIMO_MIEMBROS <- 3, PESO_RESPUESTA <- 3, PESO_LIKE <- 2,
    Peticiones <- ps, Acciones <- acciones, MaxOperaciones <- max
DeModerar == {"publicar", "responder", "reportar", "ocultar", "cerrar", "fijar"}
DeReportar == {"publicar", "reportar", "ocultar", "like", "responder"}
DeDestacar == {"publicar", "responder", "like", "desactivar"}

\* The blog.
Bitacora(ps, tags, acciones, max) == INSTANCE Blog WITH
    Administradores <- Personal, Peticiones <- ps, Etiquetas <- tags,
    Acciones <- acciones, MaxOperaciones <- max
DeEscribir == {"crear", "editar", "aprobar", "banear", "ver"}
DeComentar == {"crear", "comentar", "banear_comentario", "borrar_comentario"}
DeLeer == {"crear", "editar", "aprobar", "banear", "leer", "listar"}
DeTodo == {"crear", "editar", "banear", "aprobar", "comentar", "marcar", "borrar_comentario",
           "banear_comentario", "etiquetar", "desetiquetar"}

\* The pages of the site, the default ones and others.
Sitio(ps, propias, lenguas, visitantes, max) == INSTANCE CustomPages WITH
    Predeterminadas <- propias, Idiomas <- lenguas, Visitas <- visitantes,
    IDIOMAS_PAGINAS_PREDETERMINADAS <- Enviados, IDIOMA_PREDETERMINADO <- DeFabrica,
    Acciones <- {"crear", "editar", "alternar", "borrar", "sincronizar", "idioma"},
    Descartes <- {TRUE, FALSE}, Peticiones <- ps, MaxOperaciones <- max

ASSUME CommunityAssumption ==
    /\ Foro!ForumAssumption
    /\ Hilo(Una, MaxSeguidas)!MessagesAssumption
    /\ Hilo(Concurrentes, MaxCruzadas)!MessagesAssumption
    /\ Hub(Una, DeModerar, MaxSeguidas)!HubAssumption
    /\ Hub(Concurrentes, DeReportar, MaxReportadas)!HubAssumption
    /\ Hub(Concurrentes, DeDestacar, MaxDestacadas)!HubAssumption
    /\ Bitacora(Una, Etiquetas, DeEscribir, MaxSeguidas)!BlogAssumption
    /\ Bitacora(Una, Etiquetas, DeComentar, MaxComentadas)!BlogAssumption
    /\ Bitacora(Una, {}, DeLeer, MaxSeguidas)!BlogAssumption
    /\ Bitacora(Concurrentes, Etiquetas, DeTodo, MaxCruzadas)!BlogAssumption
    /\ Sitio(Una, Predeterminadas, Idiomas, {}, MaxSincronizadas)!PagesAssumption
    /\ Sitio(Concurrentes, Primeras, Enviados, Visitas, MaxVisitadas)!PagesAssumption

----------------------------------------
SinForo == curso = Nada
SinHilos == hilo = Nada /\ inscritos = Nada
SinComunidad ==
    post = Nada /\ respuesta = Nada /\ likes = Nada /\ traza = Nada /\ activos = Nada
SinBlog ==
    /\ entradas = Nada /\ comentarios = Nada /\ etiquetas = Nada /\ paginas = Nada
    /\ indices = Nada /\ vistas = Nada /\ quitados = Nada /\ pedidas = Nada
SinPaginas == pagina = Nada /\ lang = Nada /\ cache = Nada /\ visita = Nada

DeHilos == {"hilo", "hilo_cruzado"}
DeComunidad == {"moderado", "reportado", "destacado"}
DeBlog == {"escritas", "comentadas", "leidas", "cruzadas"}
DeSitio == {"sincronizadas", "visitadas"}

Init ==
    /\ parte \in Partes
    /\ \/ parte = "foro" /\ Foro!Init
       \/ parte = "hilo" /\ Hilo(Una, MaxSeguidas)!Init
       \/ parte = "hilo_cruzado" /\ Hilo(Concurrentes, MaxCruzadas)!Init
       \/ parte = "moderado" /\ Hub(Una, DeModerar, MaxSeguidas)!Init
       \/ parte = "reportado" /\ Hub(Concurrentes, DeReportar, MaxReportadas)!Init
       \/ parte = "destacado" /\ Hub(Concurrentes, DeDestacar, MaxDestacadas)!Init
       \/ parte = "escritas" /\ Bitacora(Una, Etiquetas, DeEscribir, MaxSeguidas)!Init
       \/ parte = "comentadas" /\ Bitacora(Una, Etiquetas, DeComentar, MaxComentadas)!Init
       \/ parte = "leidas" /\ Bitacora(Una, {}, DeLeer, MaxSeguidas)!Init
       \/ parte = "cruzadas" /\ Bitacora(Concurrentes, Etiquetas, DeTodo, MaxCruzadas)!Init
       \/ parte = "sincronizadas" /\ Sitio(Una, Predeterminadas, Idiomas, {}, MaxSincronizadas)!Init
       \/ parte = "visitadas" /\ Sitio(Concurrentes, Primeras, Enviados, Visitas, MaxVisitadas)!Init
    /\ parte # "foro" => SinForo
    /\ parte \notin DeHilos => SinHilos
    /\ parte \notin DeHilos \cup {"foro"} => mensaje = Nada
    /\ parte \notin DeComunidad => SinComunidad
    /\ parte \notin DeBlog => SinBlog
    /\ parte \notin DeSitio => SinPaginas
    /\ parte \in DeBlog \cup DeSitio => caidas = 0

Mensajeria ==
    /\ \/ parte = "foro" /\ Foro!Next /\ UNCHANGED <<hilo, inscritos>>
       \/ parte = "hilo" /\ Hilo(Una, MaxSeguidas)!Next /\ UNCHANGED curso
       \/ parte = "hilo_cruzado" /\ Hilo(Concurrentes, MaxCruzadas)!Next /\ UNCHANGED curso
    /\ UNCHANGED <<parte, varsComunidad, varsBlog, varsPaginas>>
Comunidad ==
    /\ \/ parte = "moderado" /\ Hub(Una, DeModerar, MaxSeguidas)!Next
       \/ parte = "reportado" /\ Hub(Concurrentes, DeReportar, MaxReportadas)!Next
       \/ parte = "destacado" /\ Hub(Concurrentes, DeDestacar, MaxDestacadas)!Next
    /\ UNCHANGED <<parte, varsMensajes, varsBlog, varsPaginas>>
DelBlog ==
    /\ \/ parte = "escritas" /\ Bitacora(Una, Etiquetas, DeEscribir, MaxSeguidas)!Next
       \/ parte = "comentadas" /\ Bitacora(Una, Etiquetas, DeComentar, MaxComentadas)!Next
       \/ parte = "leidas" /\ Bitacora(Una, {}, DeLeer, MaxSeguidas)!Next
       \/ parte = "cruzadas" /\ Bitacora(Concurrentes, Etiquetas, DeTodo, MaxCruzadas)!Next
    /\ UNCHANGED <<parte, caidas, varsMensajes, varsComunidad, varsPaginas>>
DelSitio ==
    /\ \/ parte = "sincronizadas" /\ Sitio(Una, Predeterminadas, Idiomas, {}, MaxSincronizadas)!Next
       \/ parte = "visitadas" /\ Sitio(Concurrentes, Primeras, Enviados, Visitas, MaxVisitadas)!Next
    /\ UNCHANGED <<parte, caidas, varsMensajes, varsComunidad, varsBlog>>

Next == Mensajeria \/ Comunidad \/ DelBlog \/ DelSitio

Spec == Init /\ [][Next]_vars

Intercambiables ==
    Permutations(Concurrentes) \cup Permutations(Miembros) \cup Permutations(Entradas)

----------------------------------------
TypeOK ==
    /\ parte = "foro" => Foro!TypeOK
    /\ parte = "hilo" => Hilo(Una, MaxSeguidas)!TypeOK
    /\ parte = "hilo_cruzado" => Hilo(Concurrentes, MaxCruzadas)!TypeOK
    /\ parte = "moderado" => Hub(Una, DeModerar, MaxSeguidas)!TypeOK
    /\ parte = "reportado" => Hub(Concurrentes, DeReportar, MaxReportadas)!TypeOK
    /\ parte = "escritas" => Bitacora(Una, Etiquetas, DeEscribir, MaxSeguidas)!TypeOK
    /\ parte = "leidas" => Bitacora(Una, {}, DeLeer, MaxSeguidas)!TypeOK
    /\ parte = "cruzadas" => Bitacora(Concurrentes, Etiquetas, DeTodo, MaxCruzadas)!TypeOK
    /\ parte = "sincronizadas" => Sitio(Una, Predeterminadas, Idiomas, {}, MaxSincronizadas)!TypeOK
    /\ parte = "visitadas" => Sitio(Concurrentes, Primeras, Enviados, Visitas, MaxVisitadas)!TypeOK

\* What moderation says of a thing is how it is.  One request at a time: a
\* self-paced course has no forum (validar_foro_habilitado); a report has its reason
\* (report_message, resolve_report); the trail of a post explains its state
\* (ComunidadEventoModeracion); only an administrator brings a banned post back and
\* no list shows it (ban_post); a post counts the comments it shows (ban_comment).
\* Through overlapping requests: a closed thread has its date
\* (change_thread_status), and a reported post is in the queue (reportar).
ModerationAgrees ==
    /\ parte = "foro" => Foro!SelfPacedHasNoForum
    /\ parte = "hilo" => Hilo(Una, MaxSeguidas)!ReportHasReason
    /\ parte = "hilo_cruzado" => Hilo(Concurrentes, MaxCruzadas)!ClosedHasDate
    /\ parte = "moderado" => Hub(Una, DeModerar, MaxSeguidas)!TrailExplains
    /\ parte = "reportado" => Hub(Concurrentes, DeReportar, MaxReportadas)!ReportIsQueued
    /\ parte = "escritas" => Bitacora(Una, Etiquetas, DeEscribir, MaxSeguidas)!OnlyAdminsRestore
    /\ parte = "leidas" => /\ Bitacora(Una, {}, DeLeer, MaxSeguidas)!OnlyAdminsRestore
                           /\ Bitacora(Una, {}, DeLeer, MaxSeguidas)!IndexHasNoBanned
    /\ parte = "comentadas" => Bitacora(Una, Etiquetas, DeComentar, MaxComentadas)!CountIsVisible

\* What is closed stays closed and silent, one request at a time: a course that is
\* not open is public only if its form says so after the change of status
\* (cambia_curso_publico, cambia_estado_curso_por_id); no reply goes to
\* a closed message of a forum (responder_mensaje) or thread (reply_to_thread,
\* change_thread_status) nor to a post that is closed or hidden (_cargar); and a
\* report that was answered is listed (report_message).
ClosedIsClosed ==
    [][/\ parte = "foro" => Foro!ClosedThreadStaysAsItIs /\ Foro!OnlyTheFormPublishes
       /\ parte = "hilo" => /\ Hilo(Una, MaxSeguidas)!ClosedIsFinal
                            /\ Hilo(Una, MaxSeguidas)!ClosedIsSilent
                            /\ Hilo(Una, MaxSeguidas)!ReportIsListed
       /\ parte = "moderado" => Hub(Una, DeModerar, MaxSeguidas)!HiddenGetsNothing]_vars

\* What is written counts as it was meant: only what a page showed is marked as
\* read (view_thread); more replies of one member do not make a post trend
\* (calcular_trending); the synchronisation of the default pages keeps the words of
\* the administrators, corrects the rest, and, though an administrator hides or
\* moves a page while it runs, never shows or moves it (initial_data.py 2301-2369).
WritingCounts ==
    [][/\ parte = "hilo_cruzado" => Hilo(Concurrentes, MaxCruzadas)!ReadWasSeen
       /\ parte = "destacado" => Hub(Concurrentes, DeDestacar, MaxDestacadas)!SpamIsWorthless
       /\ parte = "sincronizadas" =>
             /\ Sitio(Una, Predeterminadas, Idiomas, {}, MaxSincronizadas)!EditedPagesAreKept
             /\ Sitio(Una, Predeterminadas, Idiomas, {}, MaxSincronizadas)!SynchronisedAreCurrent
       /\ parte = "visitadas" =>
             Sitio(Concurrentes, Primeras, Enviados, Visitas, MaxVisitadas)!HiddenStayHidden]_vars
===============================================================================
