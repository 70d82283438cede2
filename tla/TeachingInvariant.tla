--------------------------- MODULE TeachingInvariant ---------------------------
(***************************************************************************)
(* What MCTeaching_proofs proves that the parts of MCTeaching keep, part   *)
(* by part, and what it says of a step: the inductive invariants from      *)
(* which the properties follow, for constants of any size.                 *)
(***************************************************************************)
EXTENDS MCTeaching, Sequences

----------------------------------------
(* Resources (CourseResources) *)

\* A row is in the set of its type, and its file, which it has if the type keeps
\* one, is on disk.
FilaFirme(r) ==
    recurso[r] # Nada =>
        /\ recurso[r].base = Archivado!Conjunto(recurso[r].tipo)
        /\ Archivado!ConArchivo(recurso[r].tipo) <=> recurso[r].doc > 0
        /\ recurso[r].doc > 0 => <<recurso[r].base, recurso[r].doc>> \in archivos

\* What a form is about to write: the file that it names is on disk in the set of
\* its type, a new resource has the file that its type keeps, and an edited row is
\* still of the type of the form.
FormularioFirme(q) ==
    q.pc # "idle" =>
        /\ q.recurso \in Escritos /\ q.tipo \in Archivado!TodosLosTipos /\ q.texto \in Titulos
        /\ q.pc = "archivo" => Archivado!ConArchivo(q.tipo) /\ q.doc = 0
        /\ q.pc = "guardar" /\ q.doc > 0 =>
              /\ Archivado!ConArchivo(q.tipo)
              /\ <<Archivado!Conjunto(q.tipo), q.doc>> \in archivos
        /\ q.pc = "guardar" /\ q.leida = Nada /\ Archivado!ConArchivo(q.tipo) => q.doc > 0
        /\ q.leida = Nada => recurso[q.recurso] = Nada
        /\ q.leida # Nada /\ recurso[q.recurso] # Nada => recurso[q.recurso].tipo = q.tipo

\* No other request has to do with a resource that is being created.
NadieMas ==
    \A p, o \in Formularios :
        p # o /\ peticion[p].pc # "idle" /\ peticion[p].leida = Nada
        => peticion[o].recurso # peticion[p].recurso
ArchivadoTipos ==
    /\ recurso \in [Escritos -> Archivado!Fila \cup {Nada}]
    /\ archivos \subseteq Archivado!Conjuntos \X (1..MaxArchivos)
    /\ nombres \in 0..MaxArchivos
    /\ peticion \in [Formularios -> Archivado!Peticion]
    /\ operaciones \in 0..MaxEscritos /\ caidas \in 0..MaxEscritosMuertos
ArchivadoInv ==
    /\ ArchivadoTipos
    /\ \A r \in Escritos : FilaFirme(r)
    /\ \A p \in Formularios : FormularioFirme(peticion[p])
    /\ NadieMas

----------------------------------------
(* Library (CourseLibrary), requests that overlap *)

SubidoTipos ==
    /\ filas \in [Ficheros -> 0..MaxSubidas]
    /\ disco \in [Ficheros -> Contenidos \cup {Nada}]
    /\ anunciado \subseteq Ficheros
    /\ peticion \in [Formularios -> Subido!Peticion]
    /\ operaciones \in 0..MaxSubidas /\ caidas = 0
    /\ \A n \in Ficheros : filas[n] <= operaciones
    /\ \A p \in Formularios : peticion[p].fila <= operaciones

\* An upload that has yet to insert its row has one that nobody else has.
FilaPropia ==
    \A p \in Formularios : peticion[p].pc \in {"subir", "fila"} =>
        /\ \A n \in Ficheros : filas[n] # peticion[p].fila
        /\ \A o \in Formularios \ {p} : peticion[o].fila # peticion[p].fila

\* A request is about a file and a row; an upload has a content.
EnMarcha(q) ==
    /\ q.pc = "idle" => q.nombre = Nada
    /\ q.pc # "idle" => q.nombre \in Ficheros /\ q.fila > 0
    /\ q.pc \in {"subir", "fila"} => q.contenido \in Contenidos

\* A request that has written the file n and will insert its row or remove it.
LoEscribe(n) ==
    \E o \in Formularios : peticion[o].nombre = n /\ peticion[o].pc \in {"fila", "limpiar"}

\* When a file is back before the deletion of its row, the one who wrote it has not
\* finished.
QuitarDejaDueno ==
    \A p \in Formularios :
        LET q == peticion[p] IN
        (q.pc = "quitar" /\ filas[q.nombre] = q.fila /\ disco[q.nombre] # Nada)
        => LoEscribe(q.nombre)

\* The one who wrote a file without a row has not finished either.
ArchivoConDueno == \A n \in Ficheros : Subido!SoloArchivo(n) => LoEscribe(n)
SubidoInv ==
    /\ SubidoTipos
    /\ \A p \in Formularios : EnMarcha(peticion[p])
    /\ FilaPropia
    /\ QuitarDejaDueno
    /\ ArchivoConDueno

\* What a request is after a step of it, and the others.
Cambia(p, f) ==
    /\ f \in Subido!Peticion
    /\ peticion' = [peticion EXCEPT ![p] = f]

\* A request other than p that has written the file n and will insert its row or
\* remove it.
OtroLoEscribe(p, n) ==
    \E w \in Formularios \ {p} : peticion[w].nombre = n /\ peticion[w].pc \in {"fila", "limpiar"}

\* A step that ends p is about its file n; whoever leaves the file there without the
\* row, or back before its deletion, is another request that has not finished.
EsElFin(p, n) ==
    /\ filas' \in [Ficheros -> 0..MaxSubidas] /\ disco' \in [Ficheros -> Contenidos \cup {Nada}]
    /\ \A m \in Ficheros \ {n} : filas'[m] = filas[m] /\ disco'[m] = disco[m]
    /\ \/ filas'[n] = filas[n] \/ filas'[n] = 0
       \/ filas'[n] = peticion[p].fila /\ peticion[p].pc = "fila"
    /\ \A o \in Formularios \ {p} :
          (/\ peticion[o].pc = "quitar" /\ peticion[o].nombre = n
           /\ filas'[n] = peticion[o].fila /\ disco'[n] # Nada)
          => OtroLoEscribe(p, n)
    /\ filas'[n] = 0 /\ disco'[n] # Nada => OtroLoEscribe(p, n)
    /\ \A m \in Ficheros \ {n} : LoEscribe(m) => OtroLoEscribe(p, m)

----------------------------------------
(* Library, one request at a time, until one dies *)

CaidoTipos ==
    /\ filas \in [Ficheros -> 0..MaxDeUnaEnUna]
    /\ disco \in [Ficheros -> Contenidos \cup {Nada}]
    /\ anunciado \subseteq Ficheros
    /\ peticion \in [{q1} -> Caido!Peticion]
    /\ operaciones \in 0..MaxDeUnaEnUna /\ caidas \in 0..MaxMuertas
    /\ peticion[q1].fila <= operaciones /\ EnMarcha(peticion[q1])
    /\ \A n \in Ficheros : filas[n] <= operaciones

\* What is there of the file that the request is about.
LoQueHay(q) ==
    /\ q.pc # "limpiar"
    /\ q.pc = "subir" => filas[q.nombre] = 0 /\ disco[q.nombre] = Nada
    /\ q.pc = "fila" => filas[q.nombre] = 0 /\ disco[q.nombre] # Nada
    /\ q.pc \in {"borrar", "quitar"} => filas[q.nombre] = q.fila
    /\ q.pc = "borrar" => disco[q.nombre] # Nada
    /\ q.pc = "quitar" => disco[q.nombre] = Nada

\* ... and of the others.
LosDemas ==
    \A n \in Ficheros : n = peticion[q1].nombre \/ (filas[n] # 0 <=> disco[n] # Nada)
CaidoInv == CaidoTipos /\ (caidas = 0 => LoQueHay(peticion[q1]) /\ LosDemas)

\* What is on disk is what the upload that is to be announced wrote there.
LoMismo == peticion[q1].pc = "fila" => disco[peticion[q1].nombre] = peticion[q1].contenido

----------------------------------------
(* The order of a course (CourseIndex), for any number of requests *)

FilasDe(k) == Secciones \cup k.recursos

\* The place that a request looks for has its bound, the row that it inserts is of its
\* list, and what it has found of a section's list are resources.
OrdenForma(k, q) ==
    /\ q.pc = "insertar" =>
          /\ q.indice \in 1..k.indice
          /\ \/ q.fila \in Secciones /\ q.lista = curso
             \/ q.fila \in k.recursos /\ q.lista \in Secciones
    /\ q.pc \in {"actual", "superior", "inferior", "guardar"} =>
          /\ q.lista \in Secciones \cup {curso}
          /\ q.indice \in 1..k.indice + 1
          /\ q.tarea = "increment" => q.indice <= k.indice
          /\ q.inferior # Nada => q.indice # 1
          /\ {q.actual, q.superior, q.inferior} \subseteq
                {Nada} \cup (IF q.lista = curso THEN Secciones ELSE k.recursos)
    /\ q.lista = curso /\ q.pc \in {"superior", "inferior", "guardar"} => q.actual # Nada
    /\ q.pc = "reorganizar" => q.lista \in Secciones \cup {curso}
    /\ q.espera # Nada =>
          /\ q.pc \in {"actual", "superior", "inferior"}
          /\ q.lista = curso /\ k.bloqueo /\ q.espera \in Secciones
OrdenPide(k) == {q \in Orden(k)!Peticion : OrdenForma(k, q)}

\* A row has a parent of its kind, or neither.
OrdenPadres(k) ==
    \A x \in FilasDe(k) :
        padre[x] \in IF indice[x] = 0 THEN {Nada} ELSE IF x \in Secciones THEN {curso} ELSE Secciones

\* What is to be inserted is not there, and no two requests insert one row.
OrdenNuevas(k) ==
    /\ \A p \in k.peticiones : peticion[p].pc = "insertar" => indice[peticion[p].fila] = 0
    /\ \A p, o \in k.peticiones :
          (p # o /\ peticion[p].pc = "insertar" /\ peticion[o].pc = "insertar")
             => peticion[p].fila # peticion[o].fila
OrdenInv(k) ==
    /\ indice \in [FilasDe(k) -> 0..k.indice + 1]
    /\ padre \in [FilasDe(k) -> Secciones \cup {curso, Nada}]
    /\ OrdenPadres(k)
    /\ cerradura \in [FilasDe(k) -> k.peticiones \cup {Nada}]
    /\ peticion \in [k.peticiones -> OrdenPide(k)] /\ OrdenNuevas(k)
    /\ operaciones \in 0..k.maximo /\ caidas \in 0..k.caidas

\* A request goes on, and inserts no row of another one.
OrdenSirve(k, p, g) ==
    /\ p \in k.peticiones /\ g \in OrdenPide(k)
    /\ peticion' = [peticion EXCEPT ![p] = g]
    /\ g.pc = "insertar" =>
          /\ indice'[g.fila] = 0
          /\ \A o \in k.peticiones : peticion[o].pc = "insertar" => peticion[o].fila # g.fila

\* The rows are as they were, but for those of the request, and none appears.
OrdenFilas(k) ==
    /\ indice' \in [FilasDe(k) -> 0..k.indice + 1]
    /\ padre' \in [FilasDe(k) -> Secciones \cup {curso, Nada}]
    /\ OrdenPadres(k)'
    /\ cerradura' \in [FilasDe(k) -> k.peticiones \cup {Nada}]
    /\ operaciones' \in 0..k.maximo /\ caidas' \in 0..k.caidas

\* A row is to be inserted, with the number that was counted ...
OrdenCreada(k, p, l, x) ==
    /\ Orden(k)!NuevoIndice(l) <= k.indice
    /\ ~Orden(k)!Existe(x) /\ \A o \in k.peticiones : peticion[o].fila # x
    /\ peticion' = [peticion EXCEPT ![p] =
          [Orden(k)!Libre EXCEPT !.pc = "insertar", !.lista = l, !.fila = x,
                                 !.indice = Orden(k)!NuevoIndice(l)]]

\* A row is to be moved ...
OrdenMovida(k, p, l, i, t) ==
    /\ t = "increment" => i < k.indice
    /\ peticion' = [peticion EXCEPT ![p] =
          [Orden(k)!Libre EXCEPT !.pc = "actual", !.lista = l, !.indice = i, !.tarea = t]]

\* The request q has found x, or nothing, where it looked for it.
OrdenHallado(k, q, x, g) ==
    /\ g.lista = q.lista /\ g.indice = q.indice /\ g.tarea = q.tarea /\ g.fila = q.fila
    /\ g.espera = Nada /\ g.pc = Orden(k)!Despues(q)
    /\ g.actual = IF q.pc = "actual" THEN x ELSE q.actual
    /\ g.superior = IF q.pc = "superior" THEN x ELSE q.superior
    /\ g.inferior = IF q.pc = "inferior" THEN x ELSE q.inferior

\* The row found is in the list, at the place that was looked for.
OrdenEnSuLugar(k, q, x) ==
    x # Nada => x \in Orden(k)!Hijos(q.lista) /\ indice[x] = Orden(k)!Buscado(q)

\* A search finds the row x, or none, and locks it if it is a section's.
OrdenEncuentra(k, p, q, x) ==
    /\ Orden(k)!Hallar(p, x) /\ OrdenEnSuLugar(k, q, x)
    /\ \/ /\ x # Nada /\ Orden(k)!Bloquea(q)
          /\ cerradura[x] \in {Nada, p} /\ cerradura' = [cerradura EXCEPT ![x] = p]
       \/ (x = Nada \/ ~Orden(k)!Bloquea(q)) /\ UNCHANGED cerradura
       \/ q.pc = "actual" /\ q.lista = curso /\ x = Nada /\ Orden(k)!Soltar(p)

\* ... or waits for its lock, or fails.
OrdenBusca(k, p, q) ==
    \/ \E x \in FilasDe(k) \cup {Nada} : OrdenEncuentra(k, p, q, x)
    \/ \E x \in Orden(k)!Hijos(q.lista) :
          /\ Orden(k)!Bloquea(q) /\ UNCHANGED cerradura
          /\ peticion' = [peticion EXCEPT ![p].espera = x]
    \/ peticion' = [peticion EXCEPT ![p] = Orden(k)!Libre] /\ Orden(k)!Soltar(p)

\* The rows D are deleted, and the list l is to be numbered again ...
OrdenBorrada(k, p, l, D) ==
    /\ D \subseteq FilasDe(k) /\ l \in Secciones \cup {curso}
    /\ indice' = [x \in FilasDe(k) |-> IF x \in D THEN 0 ELSE indice[x]]
    /\ padre' = [x \in FilasDe(k) |-> IF x \in D THEN Nada ELSE padre[x]]
    /\ peticion' = [peticion EXCEPT ![p] =
          [Orden(k)!Libre EXCEPT !.pc = "reorganizar", !.lista = l]]

\* The request g is to number a list again.
OrdenOtraVez(k, l, g) == g = [Orden(k)!Libre EXCEPT !.pc = "reorganizar", !.lista = l]

----------------------------------------
(* Moves under locks *)

\* The row is found and held at its place.
OrdenAsida(p, x, i) == x # Nada => cerradura[x] = p /\ indice[x] = i

\* The sections that a request has found are its own, at the places looked for.
OrdenSujeta(p, q) ==
    q.lista = curso /\ q.pc \in {"actual", "superior", "inferior", "guardar"} =>
        /\ OrdenAsida(p, q.actual, q.indice)
        /\ OrdenAsida(p, q.superior, q.indice + 1)
        /\ OrdenAsida(p, q.inferior, q.indice - 1)
OrdenSujetas(k) == \A p \in k.peticiones : OrdenSujeta(p, peticion[p])

\* No request takes nor moves the sections that another one holds.
OrdenRespeta(k, o) ==
    \A p \in k.peticiones \ {o} :
        /\ peticion'[p] = peticion[p]
        /\ \A x \in Secciones :
              cerradura[x] = p /\ indice[x] > 0 => cerradura'[x] = p /\ indice'[x] = indice[x]

----------------------------------------
(* One request at a time *)

\* The row is found in its list, at its place.
OrdenVista(k, l, x, i) == x # Nada => x \in Orden(k)!Hijos(l) /\ indice[x] = i

\* The new resource has a section and the next number; the rows found are where they were.
OrdenPuesta(k, q) ==
    /\ q.pc = "insertar" /\ q.lista # curso =>
          indice[q.lista] > 0 /\ q.indice = Orden(k)!NuevoIndice(q.lista)
    /\ q.lista \in Secciones /\ q.pc \in {"actual", "superior", "inferior", "guardar"} =>
          /\ OrdenVista(k, q.lista, q.actual, q.indice)
          /\ OrdenVista(k, q.lista, q.superior, q.indice + 1)
          /\ OrdenVista(k, q.lista, q.inferior, q.indice - 1)

\* Resources are of sections that exist, and numbered from 1 without a gap unless
\* the request is about to.
OrdenLlenas(k) ==
    \A s \in Secciones :
        indice[s] > 0 => \/ Orden(k)!Secuencial(s)
                         \/ \E p \in k.peticiones : peticion[p].pc = "reorganizar" /\ peticion[p].lista = s
OrdenColgadas(k) == \A x \in k.recursos : indice[x] > 0 => indice[padre[x]] > 0
OrdenSola(k) ==
    /\ OrdenColgadas(k) /\ OrdenLlenas(k)
    /\ \A p \in k.peticiones : OrdenPuesta(k, peticion[p])

\* One request, and none that dies.
OrdenSerial(k) == k.caidas = 0 /\ \E o : k.peticiones = {o}

----------------------------------------
(* The pages before and after a resource *)

\* In a list without gaps no index is shared, every smaller one is there, and one row is
\* the last.
OrdenSeguida(k, l) ==
    /\ \A x, y \in Orden(k)!Hijos(l) : indice[x] = indice[y] => x = y
    /\ \A x \in Orden(k)!Hijos(l) : \A i \in 1..indice[x] : \E y \in Orden(k)!Hijos(l) : indice[y] = i
    /\ Orden(k)!Hijos(l) # {} =>
          \E x \in Orden(k)!Hijos(l) : \A y \in Orden(k)!Hijos(l) : indice[y] <= indice[x]

\* The resources of the sections that there are.
OrdenColgada(k, x) ==
    /\ x \in k.recursos /\ indice[x] \in Nat /\ indice[x] > 0
    /\ padre[x] \in Secciones /\ x \in Orden(k)!Hijos(padre[x])
    /\ indice[padre[x]] \in Nat /\ indice[padre[x]] > 0 /\ padre[x] \in Orden(k)!Hijos(curso)
    /\ padre[x] \in Orden(k)!Listas

\* Where no list has gaps and no section is empty.
OrdenCompleta(k) ==
    /\ \A l \in Orden(k)!Listas : OrdenSeguida(k, l)
    /\ \A s \in Orden(k)!Listas : Orden(k)!Hijos(s) # {}
    /\ curso \in Orden(k)!Listas
    /\ \A s \in Orden(k)!Hijos(curso) : s \in Orden(k)!Listas /\ s \in Secciones
          /\ indice[s] \in Nat /\ indice[s] > 0
    /\ \A s \in Secciones : \A x \in Orden(k)!Hijos(s) :
          /\ padre[x] = s /\ x \in k.recursos /\ indice[x] \in Nat /\ indice[x] > 0
          /\ s \in Orden(k)!Listas => OrdenColgada(k, x)

\* What follows a resource is what nothing comes before, after it.
OrdenSigueA(k, x, y) ==
    /\ Orden(k)!Precede(x, y)
    /\ ~\E z \in Orden(k)!Vigentes : Orden(k)!Precede(x, z) /\ Orden(k)!Precede(z, y)

\* One request at a time from an empty course.
OrdenadoInv == OrdenInv(DeOrdenar) /\ OrdenSola(DeOrdenar)

\* Requests that overlap, and moves that hold the sections they found.
BloqueadoInv == OrdenInv(DeBloquear) /\ OrdenSujetas(DeBloquear)

----------------------------------------
(* The slides of a presentation and its page (Slideshow), of any length *)

Lamina == [orden: 1..MaxCambiadas + 1, texto: Contenidos]

\* The editors of a page that have no row.
SinFila(p) == {i \in 1..Len(p) : p[i].id = Nada}

\* The names of the fields say where a row was on the page as it was loaded.
DeDonde(s, p) ==
    \E q \in Presentado!EnOrden(s) : \A i \in 1..Len(p) :
        p[i].id # Nada => p[i].campo + 1 \in DOMAIN q /\ p[i].id = q[p[i].campo + 1]
PaginaDe(s, p) ==
    /\ p \in Seq(Presentado!Editor)
    /\ \A i \in 1..Len(p) :
          p[i].indice = i - 1 /\ (p[i].id # Nada => p[i].id \in Presentado!Vivas(s))
    /\ \A i, j \in 1..Len(p) : (p[i].id = p[j].id /\ p[i].id # Nada) => i = j
    /\ DeDonde(s, p)

\* Every row, and every editor without one, took a change.
SlidesBien(s, p, c) ==
    /\ s \in [Laminas -> Lamina \cup {Nada}] /\ IsFiniteSet(Presentado!Vivas(s))
    /\ PaginaDe(s, p)
    /\ Cardinality(Presentado!Vivas(s)) + Cardinality(SinFila(p)) <= c
SlidesInv ==
    /\ conocidas \in [Una -> SUBSET Laminas]
    /\ pagina \in [Una -> Seq(Presentado!Editor)]
    /\ cambios \in 0..MaxCambiadas /\ guardados \in 0..MaxGuardadas
    /\ SlidesBien(slides, pagina[q1], cambios)

\* The editors of page r are those at h of page p, each with the names of its fields.
Conserva(r, p, h) ==
    /\ r \in Seq(Presentado!Editor) /\ h \in [1..Len(r) -> 1..Len(p)]
    /\ \A i, j \in 1..Len(r) : h[i] = h[j] => i = j
    /\ \A i \in 1..Len(r) : /\ r[i].id = p[h[i]].id /\ r[i].campo = p[h[i]].campo
                            /\ r[i].indice = i - 1

\* What a save inserts.
Altas(p) == {i \in Presentado!Enviados(p) : ~Presentado!Actualiza(p, i)}

----------------------------------------
(* A bank of questions (QuestionBank), of any size *)

\* The rows and the answers that a bank may have.
Reactivo(k) == [evaluacion: k.examenes, type: {"multiple", "boolean"}, text: k.textos,
                order: 1..k.preguntas, certificada: BOOLEAN]
Alternativa(k) == [text: Bateria(k)!TextosDeOpcion, is_correct: BOOLEAN]
Lugares(k) == (1..k.preguntas) \X (1..k.opciones)
Hoja(k) == [radio: SUBSET {"Verdadero", "Falso"}, ids: SUBSET Lugares(k)]
Contestado(k) == UNION {[D -> SUBSET (Lugares(k) \cup {<<0, 0>>})] : D \in SUBSET (1..k.preguntas)}
Intento(k) == [evaluacion: k.examenes, respuestas: Contestado(k), total: SUBSET (1..k.preguntas),
               aciertos: SUBSET (1..k.preguntas), version: Nat, sabidas: SUBSET (1..k.preguntas)]

\* Questions are numbered as they are created, and an option has a question.
FilasInv(k) ==
    /\ preguntas \in [1..k.preguntas -> Reactivo(k) \cup {Nada}]
    /\ opciones \in [Lugares(k) -> Alternativa(k) \cup {Nada}]
    /\ usadas = [preguntas |-> usadas.preguntas, opciones |-> usadas.opciones]
    /\ usadas.preguntas \in 0..k.preguntas
    /\ usadas.opciones \in [1..k.preguntas -> 0..k.opciones]
    /\ \A q \in 1..k.preguntas : q > usadas.preguntas => preguntas[q] = Nada
    /\ \A o \in Lugares(k) : opciones[o] # Nada => preguntas[o[1]] # Nada

\* What a request is about.
PideForma(k, f) ==
    /\ f = [pc |-> f.pc, pregunta |-> f.pregunta, opcion |-> f.opcion, leido |-> f.leido,
            escrito |-> f.escrito, usuario |-> f.usuario, evaluacion |-> f.evaluacion,
            total |-> f.total, elegido |-> f.elegido, respuestas |-> f.respuestas]
    /\ f.pc \in {"idle", "pregunta", "editar", "opcion", "cambiar", "quitar", "responder", "calificar"}
    /\ f.pregunta \in (1..k.preguntas) \cup {Nada} /\ f.opcion \in Lugares(k) \cup {Nada}
    /\ f.leido \in Reactivo(k) \cup Alternativa(k) \cup {Nada}
    /\ f.escrito \in Reactivo(k) \cup Alternativa(k) \cup {Nada}
    /\ f.usuario \in Alumnos \cup {Nada} /\ f.evaluacion \in k.examenes \cup {Nada}
    /\ f.pc = "pregunta" => f.escrito \in Reactivo(k)
    /\ f.pc = "editar" =>
          /\ f.pregunta \in 1..k.preguntas /\ f.leido \in Reactivo(k) /\ f.escrito \in Reactivo(k)
          /\ f.escrito.evaluacion = f.leido.evaluacion /\ f.escrito.order = f.leido.order
          /\ f.escrito.certificada = f.leido.certificada
    /\ f.pc = "opcion" => f.pregunta \in 1..k.preguntas /\ f.escrito \in Alternativa(k)
    /\ f.pc = "cambiar" =>
          /\ f.opcion \in Lugares(k) /\ f.leido \in Alternativa(k) /\ f.escrito \in Alternativa(k)
    /\ f.pc = "quitar" => f.opcion \in Lugares(k)
    /\ f.pc \in {"responder", "calificar"} =>
          /\ f.usuario \in Alumnos /\ f.evaluacion \in k.examenes
          /\ DOMAIN f.total \subseteq 1..k.preguntas
          /\ \A q \in DOMAIN f.total : f.total[q] \in {"multiple", "boolean"}
    /\ f.pc = "calificar" => f.respuestas \in Contestado(k)

\* The page that a student sends shows what the bank was when it was made.
PaginaAhora(k, g) ==
    g # Nada =>
       /\ g.evaluacion \in k.examenes /\ g.version \in Nat /\ g.version <= version
       /\ DOMAIN g.posibles \subseteq 1..k.preguntas
       /\ \A q \in DOMAIN g.posibles : g.posibles[q] \subseteq Hoja(k)
       /\ g.version = version =>
             /\ DOMAIN g.posibles = Bateria(k)!De(g.evaluacion)
             /\ \A q \in DOMAIN g.posibles :
                   /\ g.posibles[q] = Bateria(k)!Posibles(q)
                   /\ g.acertadas[q] = Bateria(k)!Acertada(q)

\* An attempt that is being sent is of its page, about questions of its evaluation.
PideAhora(k, f) ==
    f.pc \in {"responder", "calificar"} =>
       LET g == pagina[f.usuario] IN
       /\ g # Nada /\ g.evaluacion = f.evaluacion
       /\ DOMAIN f.elegido = DOMAIN g.posibles
       /\ \A q \in DOMAIN f.elegido : f.elegido[q] \in g.posibles[q] \cup {Nada}
       /\ \A q \in DOMAIN f.total :
             /\ q <= usadas.preguntas
             /\ preguntas[q] # Nada => preguntas[q].evaluacion = f.evaluacion
       /\ g.version = version =>
             /\ DOMAIN f.total = Bateria(k)!De(f.evaluacion)
             /\ \A q \in DOMAIN f.total : f.total[q] = preguntas[q].type
       /\ f.pc = "calificar" =>
             /\ DOMAIN f.respuestas =
                   {q \in DOMAIN f.total \cap DOMAIN f.elegido : f.elegido[q] # Nada}
             /\ DOMAIN f.respuestas \subseteq Bateria(k)!De(f.evaluacion)
             /\ g.version = version => \A q \in DOMAIN f.respuestas :
                   f.respuestas[q] \in Bateria(k)!_resolve_option_ids(q, f.total[q], f.elegido[q])

\* While the bank is as the page had it, the stored answers grade as they did.
IntentoAhora(k, a) ==
    /\ a \in Intento(k) /\ a.version <= version
    /\ DOMAIN a.respuestas \subseteq Bateria(k)!De(a.evaluacion) /\ a.aciertos \subseteq a.total
    /\ a.version = version => \A q \in DOMAIN a.respuestas :
          /\ a.respuestas[q] \subseteq Bateria(k)!OpcionesDe(q)
          /\ q \in a.aciertos
                <=> Bateria(k)!_answer_is_correct(preguntas[q].type, q, a.respuestas[q])
Atareadas(k) == {r \in k.peticiones : peticion[r].pc # "idle"}
BancoInv(k) ==
    /\ FilasInv(k)
    /\ pagina = [s \in Alumnos |-> pagina[s]] /\ \A s \in Alumnos : PaginaAhora(k, pagina[s])
    /\ peticion = [r \in k.peticiones |-> peticion[r]]
    /\ \A r \in k.peticiones : PideForma(k, peticion[r]) /\ PideAhora(k, peticion[r])
    /\ \A r, l \in k.peticiones :
          (/\ peticion[r].pc \in {"responder", "calificar"} /\ peticion[l].pc \in {"responder", "calificar"}
           /\ peticion[r].usuario = peticion[l].usuario) => r = l
    /\ intentos \in [Alumnos -> Seq(Intento(k))]
    /\ \A s \in Alumnos : \A i \in 1..Len(intentos[s]) : IntentoAhora(k, intentos[s][i])
    /\ version \in Nat /\ operaciones \in 0..k.operaciones
    /\ version + Cardinality(Atareadas(k)) <= operaciones

\* A change of the bank: no question is another one, none of another evaluation.
BancoCambia(k) ==
    /\ version \in Nat /\ version' = version + 1
    /\ usadas.preguntas \in Nat /\ usadas'.preguntas \in Nat
    /\ usadas.preguntas <= usadas'.preguntas
    /\ \A q \in 1..k.preguntas :
          (q <= usadas.preguntas /\ preguntas'[q] # Nada)
             => preguntas[q] # Nada /\ preguntas'[q].evaluacion = preguntas[q].evaluacion

----------------------------------------
(* What the requests of a bank do, one by one *)

\* A request goes on to f.
Pasa(k, r, f) == peticion' = [peticion EXCEPT ![r] = f]
Quedan == UNCHANGED <<preguntas, opciones, usadas, version>>
Comienza(k, r, f) == Quedan /\ Pasa(k, r, f) /\ peticion[r].pc = "idle"
Acaba(k, r) == Pasa(k, r, Bateria(k)!Libre)

\* An edition begins, an attempt goes on, or a request ends without a change.
Sigue(k, r, f) ==
    /\ Quedan /\ Pasa(k, r, f) /\ f.pc \in {"idle", "editar", "responder", "calificar"}
    /\ f.pc = "editar" => "editar" \in k.acciones
VaPregunta(k, r, f) ==
    /\ Comienza(k, r, f) /\ f.pc = "pregunta" /\ "pregunta" \in k.acciones
    /\ \E e \in k.examenes : f.escrito.evaluacion = e /\ f.escrito.order = Bateria(k)!Siguiente(e)
VaOpcion(k, r, f) ==
    /\ Comienza(k, r, f) /\ f.pc = "opcion" /\ "opcion" \in k.acciones /\ f.escrito.text \in k.escritos
VaCambio(k, r, f) ==
    /\ Comienza(k, r, f) /\ f.pc = "cambiar" /\ f.opcion \in Lugares(k) /\ opciones[f.opcion] # Nada
    /\ f.escrito.text \in k.escritos \cup {opciones[f.opcion].text}
VaQuita(k, r, f) ==
    /\ Comienza(k, r, f) /\ f.pc = "quitar" /\ "quitar" \in k.acciones
    /\ f.opcion \in Lugares(k) /\ opciones[f.opcion] # Nada
    /\ Cardinality(Bateria(k)!OpcionesDe(f.opcion[1])) > 2
HacePregunta(k, r) ==
    LET q == usadas.preguntas + 1
        p == peticion[r].escrito
    IN  /\ Acaba(k, r) /\ peticion[r].pc = "pregunta" /\ q \in 1..k.preguntas /\ p \in Reactivo(k)
        /\ preguntas[q] = Nada /\ preguntas' = [preguntas EXCEPT ![q] = p]
        /\ opciones' = [o \in Lugares(k) |-> IF o[1] = q /\ o[2] <= Bateria(k)!Cuantas(p.type)
              THEN [text |-> Bateria(k)!Defecto(p.type, o[2]), is_correct |-> FALSE] ELSE opciones[o]]
HaceEdicion(k, r) ==
    LET p == peticion[r] IN
    /\ Acaba(k, r) /\ p.pc = "editar" /\ p.pregunta \in 1..k.preguntas
    /\ p.leido \in Reactivo(k) /\ p.escrito \in Reactivo(k)
    /\ p.escrito.evaluacion = p.leido.evaluacion /\ p.escrito.order = p.leido.order
    /\ preguntas[p.pregunta] \in Reactivo(k)
    /\ preguntas' = [preguntas EXCEPT
          ![p.pregunta] = Bateria(k)!Distintos(p.leido, p.escrito, preguntas[p.pregunta])]
    /\ opciones' = opciones
HaceOpcion(k, r) ==
    LET p == peticion[r] IN
    /\ Acaba(k, r) /\ p.pc = "opcion" /\ p.escrito \in Alternativa(k) /\ preguntas[p.pregunta] # Nada
    /\ \E o \in Lugares(k) : o[1] = p.pregunta /\ opciones' = [opciones EXCEPT ![o] = p.escrito]
    /\ preguntas' = preguntas
HaceCambio(k, r) ==
    LET p == peticion[r] IN
    /\ Acaba(k, r) /\ p.pc = "cambiar" /\ p.opcion \in Lugares(k)
    /\ p.leido \in Alternativa(k) /\ p.escrito \in Alternativa(k) /\ opciones[p.opcion] \in Alternativa(k)
    /\ opciones' = [opciones EXCEPT
          ![p.opcion] = Bateria(k)!Distintos(p.leido, p.escrito, opciones[p.opcion])]
    /\ preguntas' = preguntas
HaceQuita(k, r) ==
    LET p == peticion[r] IN
    /\ Acaba(k, r) /\ p.pc = "quitar" /\ p.opcion \in Lugares(k)
    /\ opciones' = [opciones EXCEPT ![p.opcion] = Nada] /\ preguntas' = preguntas
Borra(k, q) ==
    /\ peticion' = peticion /\ "borrar" \in k.acciones
    /\ \E r \in k.peticiones : peticion[r].pc = "idle"
    /\ preguntas' = [preguntas EXCEPT ![q] = Nada]
    /\ opciones' = [o \in Lugares(k) |-> IF o[1] = q THEN Nada ELSE opciones[o]]

\* No option says "True" or "False": the catalog of the instance translates neither,
\* and no instructor writes them.
TextosInv(k) ==
    /\ \A o \in Lugares(k) : opciones[o] # Nada => opciones[o].text \notin {"True", "False"}
    /\ \A r \in k.peticiones :
          peticion[r].pc \in {"opcion", "cambiar"} => peticion[r].escrito.text \notin {"True", "False"}

\* Where no option is written but by new_question, and questions only come: a
\* true/false question has the two options it came with, whatever is their key.
DeFabrica(k) == k.escritos = {} /\ k.acciones = {"pregunta", "cambiar", "intento"}
DefectoInv(k) ==
    /\ \A o \in Lugares(k) : (opciones[o] # Nada /\ preguntas[o[1]].type = "boolean") =>
          \/ o[2] = 1 /\ opciones[o].text = "Verdadero"
          \/ o[2] = 2 /\ opciones[o].text = "Falso"
    /\ \A r \in k.peticiones :
          /\ peticion[r].pc \notin {"editar", "opcion", "quitar"}
          /\ peticion[r].pc = "cambiar" =>
                LET o == peticion[r].opcion IN
                /\ preguntas[o[1]] # Nada
                /\ preguntas[o[1]].type = "boolean" =>
                      \/ o[2] = 1 /\ peticion[r].escrito.text = "Verdadero"
                      \/ o[2] = 2 /\ peticion[r].escrito.text = "Falso"

Cuenta(k, q) == Cardinality(Bateria(k)!OpcionesDe(q))

\* One request at a time: a question that is coming follows those that are there,
\* and a question with an option that is going has two more.
NumeradoInv(k) ==
    /\ \A a, b \in 1..k.preguntas :
          (/\ preguntas[a] # Nada /\ preguntas[b] # Nada
           /\ preguntas[a].evaluacion = preguntas[b].evaluacion
           /\ preguntas[a].order = preguntas[b].order) => a = b
    /\ \A q \in 1..k.preguntas : preguntas[q] # Nada => Cuenta(k, q) >= 2
    /\ \A r \in k.peticiones :
          /\ peticion[r].pc = "pregunta" => \A q \in 1..k.preguntas :
                (preguntas[q] # Nada /\ preguntas[q].evaluacion = peticion[r].escrito.evaluacion)
                   => preguntas[q].order < peticion[r].escrito.order
          /\ peticion[r].pc = "quitar" => Cuenta(k, peticion[r].opcion[1]) > 2

\* What holds of the rows of the next state.
FilasLuego(k) ==
    /\ \A a, b \in 1..k.preguntas :
          (/\ preguntas'[a] # Nada /\ preguntas'[b] # Nada
           /\ preguntas'[a].evaluacion = preguntas'[b].evaluacion
           /\ preguntas'[a].order = preguntas'[b].order) => a = b
    /\ \A q \in 1..k.preguntas : preguntas'[q] # Nada => Cuenta(k, q)' >= 2

\* Where no questions come and none go, an evaluation has the one that it was given.
DeCopias(k) == k.acciones = {"editar", "cambiar", "intento"}
PracticadoInv(k) ==
    /\ \A a, b \in 1..k.preguntas :
          (/\ preguntas[a] # Nada /\ preguntas[b] # Nada
           /\ preguntas[a].evaluacion = preguntas[b].evaluacion) => a = b
    /\ \A r \in k.peticiones : peticion[r].pc \notin {"pregunta", "opcion", "quitar"}

----------------------------------------
(* The parts together *)

TeachingInv ==
    /\ parte = "numerado" => BancoInv(DeNumerar) /\ NumeradoInv(DeNumerar)
    /\ parte = "editado" => BancoInv(DeEditar) /\ TextosInv(DeEditar)
    /\ parte = "calificado" =>
          BancoInv(DeCalificar) /\ TextosInv(DeCalificar) /\ DefectoInv(DeCalificar)
    /\ parte = "practicado" => BancoInv(DePracticar) /\ PracticadoInv(DePracticar)
    /\ parte = "ordenado" => OrdenadoInv
    /\ parte = "bloqueado" => BloqueadoInv
    /\ parte = "archivado" => ArchivadoInv
    /\ parte = "presentado" => SlidesInv
    /\ parte = "subido" => SubidoInv
    /\ parte = "caido" => CaidoInv /\ LoMismo
===============================================================================
