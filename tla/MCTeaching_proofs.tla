-------------------------- MODULE MCTeaching_proofs --------------------------
(***************************************************************************)
(* Proofs about the parts of MCTeaching: the resources of a course and its *)
(* library, its order, its slides and its bank of questions, for any       *)
(* number of rows, files and requests.                                     *)
(***************************************************************************)
EXTENDS TeachingInvariant, FiniteSets, TLAPS, FiniteSetTheorems, SequenceTheorems, WellFoundedInduction

----------------------------------------
(* Resources (CourseResources) *)

\* The constants of the two components.
LEMMA FileAssumptions ==
    /\ Nada \notin Escritos \cup Titulos \cup Ficheros \cup Contenidos
    /\ MaxArchivos \in Nat /\ MaxEscritos \in Nat /\ MaxEscritosMuertos \in Nat
    /\ MaxSubidas \in Nat /\ MaxDeUnaEnUna \in Nat /\ MaxMuertas \in Nat
BY TeachingAssumption
DEF Archivado!ResourcesAssumption, Subido!LibraryAssumption, Caido!LibraryAssumption

\* A request that has not begun is one.
LEMMA FormLibre == Archivado!Libre \in Archivado!Peticion /\ Archivado!Libre.pc = "idle"
BY FileAssumptions DEF Archivado!Libre, Archivado!Peticion

\* The set of a type that keeps a file is one.
LEMMA ConjuntoTipo ==
    \A t \in Archivado!TodosLosTipos : Archivado!Conjunto(t) \in Archivado!Conjuntos \cup {Nada}
BY DEF Archivado!Conjunto, Archivado!Conjuntos

\* No row and no request at first.
LEMMA ArchivadoEmpieza == Archivado!Init => ArchivadoInv
<1> SUFFICES ASSUME Archivado!Init PROVE ArchivadoInv
  OBVIOUS
<1>1. ArchivadoTipos
  BY FileAssumptions, FormLibre DEF Archivado!Init, ArchivadoTipos
<1>2. /\ \A r \in Escritos : recurso[r] = Nada
      /\ \A p \in Formularios : peticion[p].pc = "idle"
  BY FormLibre DEF Archivado!Init
<1> QED BY <1>1, <1>2 DEF ArchivadoInv, FilaFirme, FormularioFirme, NadieMas

\* A form that begins: nobody else is at a resource that is new, and the row of an
\* edit has the type of the form.
LEMMA FormBegins ==
    ASSUME ArchivadoInv, NEW p \in Formularios, NEW f \in Archivado!Peticion,
           peticion' = [peticion EXCEPT ![p] = f],
           UNCHANGED <<recurso, archivos, nombres, caidas>>, operaciones' \in 0..MaxEscritos,
           FormularioFirme(f), f.pc # "idle",
           f.leida = Nada => \A o \in Formularios : peticion[o].recurso # f.recurso,
           f.leida # Nada => recurso[f.recurso] # Nada
    PROVE  ArchivadoInv'
<1>1. ArchivadoTipos'
  BY DEF ArchivadoInv, ArchivadoTipos
<1>2. peticion'[p] = f /\ \A o \in Formularios \ {p} : peticion'[o] = peticion[o]
  BY DEF ArchivadoInv, ArchivadoTipos
<1>3. \A r \in Escritos : FilaFirme(r)'
  BY DEF ArchivadoInv, FilaFirme
<1>4. ASSUME NEW o \in Formularios PROVE FormularioFirme(peticion[o])'
  BY <1>2 DEF FormularioFirme, ArchivadoInv
<1>5. NadieMas'
  <2> SUFFICES ASSUME NEW o \in Formularios, NEW x \in Formularios, o # x,
                      peticion'[o].pc # "idle", peticion'[o].leida = Nada,
                      peticion'[x].recurso = peticion'[o].recurso
               PROVE  FALSE
    BY DEF NadieMas
  <2>1. CASE o = p
    BY <1>2, <2>1
  <2>2. CASE x = p
    BY <1>2, <2>2 DEF ArchivadoInv, FormularioFirme
  <2>3. CASE o # p /\ x # p
    BY <1>2, <2>3 DEF ArchivadoInv, NadieMas
  <2> QED BY <2>1, <2>2, <2>3
<1> QED BY <1>1, <1>3, <1>4, <1>5 DEF ArchivadoInv

\* The form of a new resource.
LEMMA NewForm ==
    ASSUME ArchivadoInv, NEW p \in Formularios, NEW t \in Archivado!TodosLosTipos,
           Archivado!Nuevo(p, t)
    PROVE  ArchivadoInv'
<1>1. PICK r \in Escritos, x \in Titulos :
          /\ recurso[r] = Nada /\ \A o \in Formularios : peticion[o].recurso # r
          /\ peticion' = [peticion EXCEPT ![p] =
                [Archivado!Libre EXCEPT
                    !.pc = IF Archivado!ConArchivo(t) THEN "archivo" ELSE "guardar",
                    !.recurso = r, !.tipo = t, !.texto = x]]
  BY DEF Archivado!Nuevo, Archivado!Existe
<1>2. PICK f : f = [Archivado!Libre EXCEPT
                    !.pc = IF Archivado!ConArchivo(t) THEN "archivo" ELSE "guardar",
                    !.recurso = r, !.tipo = t, !.texto = x]
  OBVIOUS
<1>3. f = [pc |-> IF Archivado!ConArchivo(t) THEN "archivo" ELSE "guardar", recurso |-> r,
           tipo |-> t, leida |-> Nada, texto |-> x, doc |-> 0]
  BY <1>2 DEF Archivado!Libre
<1>4. f \in Archivado!Peticion
  BY <1>3, FileAssumptions DEF Archivado!Peticion
<1>5. FormularioFirme(f)
  BY <1>1, <1>3 DEF FormularioFirme
<1>6. UNCHANGED <<recurso, archivos, nombres, caidas>> /\ operaciones' \in 0..MaxEscritos
  BY FileAssumptions DEF Archivado!Nuevo, Archivado!Pedir, ArchivadoInv, ArchivadoTipos
<1>7. peticion' = [peticion EXCEPT ![p] = f]
  BY <1>1, <1>2
<1>8. f.pc # "idle" /\ f.leida = Nada /\ f.recurso = r
  BY <1>3
<1> QED BY <1>1, <1>4, <1>5, <1>6, <1>7, <1>8, FormBegins

\* The form of a resource that is there.
LEMMA EditForm ==
    ASSUME ArchivadoInv, NEW p \in Formularios, NEW t \in Archivado!TodosLosTipos,
           NEW r \in Escritos, recurso[r] # Nada, recurso[r].tipo = t, Archivado!Editar(p, r, t)
    PROVE  ArchivadoInv'
<1>1. PICK x \in Titulos, nuevo \in BOOLEAN :
          /\ nuevo => Archivado!ConArchivo(t)
          /\ peticion' = [peticion EXCEPT ![p] =
                [Archivado!Libre EXCEPT !.pc = IF nuevo THEN "archivo" ELSE "guardar",
                              !.recurso = r, !.tipo = t, !.leida = recurso[r],
                              !.texto = x]]
  BY DEF Archivado!Editar
<1>2. PICK f : f = [Archivado!Libre EXCEPT !.pc = IF nuevo THEN "archivo" ELSE "guardar",
                              !.recurso = r, !.tipo = t, !.leida = recurso[r],
                              !.texto = x]
  OBVIOUS
<1>3. f = [pc |-> IF nuevo THEN "archivo" ELSE "guardar", recurso |-> r,
           tipo |-> t, leida |-> recurso[r], texto |-> x, doc |-> 0]
  BY <1>2 DEF Archivado!Libre
<1>4. f \in Archivado!Peticion
  BY <1>3, FileAssumptions DEF ArchivadoInv, ArchivadoTipos, Archivado!Peticion
<1>5. FormularioFirme(f)
  BY <1>1, <1>3 DEF FormularioFirme
<1>6. UNCHANGED <<recurso, archivos, nombres, caidas>> /\ operaciones' \in 0..MaxEscritos
  BY FileAssumptions DEF Archivado!Editar, Archivado!Pedir, ArchivadoInv, ArchivadoTipos
<1>7. peticion' = [peticion EXCEPT ![p] = f]
  BY <1>1, <1>2
<1>8. f.pc # "idle" /\ f.leida # Nada /\ recurso[f.recurso] # Nada
  BY <1>3
<1> HIDE DEF ArchivadoInv
<1> QED BY <1>4, <1>5, <1>6, <1>7, <1>8, FormBegins

\* The file of a form is on disk before the row.
LEMMA FileSaved ==
    ASSUME ArchivadoInv, NEW p \in Formularios, Archivado!SubirArchivo(p)
    PROVE  ArchivadoInv'
<1> DEFINE q == peticion[p]
           n == nombres + 1
<1>1. /\ q \in Archivado!Peticion /\ q.pc = "archivo" /\ FormularioFirme(q)
      /\ n \in 1..MaxArchivos /\ nombres' = n
      /\ archivos' = archivos \cup {<<Archivado!Conjunto(q.tipo), n>>}
      /\ UNCHANGED <<recurso, operaciones, caidas>>
  BY FileAssumptions DEF Archivado!SubirArchivo, Archivado!Destino, ArchivadoInv, ArchivadoTipos
<1>2. PICK f : f = [q EXCEPT !.pc = "guardar", !.doc = n]
  OBVIOUS
<1>3. peticion' = [peticion EXCEPT ![p] = f]
  BY <1>2 DEF Archivado!SubirArchivo, ArchivadoInv, ArchivadoTipos
<1>4. /\ f.pc = "guardar" /\ f.doc = n /\ f.recurso = q.recurso /\ f.tipo = q.tipo
      /\ f.leida = q.leida /\ f.texto = q.texto /\ f \in Archivado!Peticion
  <2> HIDE DEF q, n
  <2>1. n \in 0..MaxArchivos
    BY <1>1, FileAssumptions
  <2> QED BY <1>1, <1>2, <2>1 DEF Archivado!Peticion
<1>5. Archivado!ConArchivo(q.tipo) /\ q.tipo \in Archivado!TodosLosTipos
  BY <1>1 DEF FormularioFirme
<1> HIDE DEF q, n
<1>6. peticion'[p] = f /\ \A o \in Formularios \ {p} : peticion'[o] = peticion[o]
  BY <1>3 DEF ArchivadoInv, ArchivadoTipos
<1>7. Archivado!Conjunto(q.tipo) \in Archivado!Conjuntos
  BY <1>5, ConjuntoTipo DEF Archivado!ConArchivo
<1>8. ArchivadoTipos'
  BY <1>3, <1>4, <1>1, <1>7 DEF ArchivadoInv, ArchivadoTipos
<1>9. \A r \in Escritos : FilaFirme(r)'
  BY <1>1 DEF ArchivadoInv, FilaFirme
<1>10. ASSUME NEW o \in Formularios PROVE FormularioFirme(peticion[o])'
  <2>1. CASE o = p
    BY <1>1, <1>4, <1>5, <1>6, <2>1 DEF FormularioFirme
  <2>2. CASE o # p
    BY <1>1, <1>6, <2>2 DEF ArchivadoInv, FormularioFirme
  <2> QED BY <2>1, <2>2
<1>11. NadieMas'
  BY <1>1, <1>4, <1>6 DEF q, ArchivadoInv, NadieMas
<1> QED BY <1>8, <1>9, <1>10, <1>11 DEF ArchivadoInv

\* A form that ends leaves the others alone, if what it wrote is firm and none of
\* them is at the row that it wrote, or the row keeps its type.
LEMMA FormEnds ==
    ASSUME ArchivadoInv, NEW p \in Formularios,
           peticion' = [peticion EXCEPT ![p] = Archivado!Libre],
           UNCHANGED <<archivos, nombres, operaciones>>, caidas' \in 0..MaxEscritosMuertos,
           recurso' \in [Escritos -> Archivado!Fila \cup {Nada}],
           \A r \in Escritos : FilaFirme(r)',
           \A o \in Formularios \ {p} : peticion[o].pc # "idle" =>
               LET r == peticion[o].recurso IN
               \/ recurso'[r] = recurso[r]
               \/ recurso[r] # Nada /\ (recurso'[r] # Nada => recurso'[r].tipo = recurso[r].tipo)
    PROVE  ArchivadoInv'
<1>1. peticion'[p] = Archivado!Libre /\ \A o \in Formularios \ {p} : peticion'[o] = peticion[o]
  BY DEF ArchivadoInv, ArchivadoTipos
<1>2. ArchivadoTipos'
  BY FormLibre DEF ArchivadoInv, ArchivadoTipos
<1>3. ASSUME NEW o \in Formularios PROVE FormularioFirme(peticion[o])'
  <2>1. CASE o = p
    BY <1>1, <2>1, FormLibre DEF FormularioFirme
  <2>2. CASE o # p
    BY <1>1, <2>2 DEF ArchivadoInv, FormularioFirme
  <2> QED BY <2>1, <2>2
<1>4. NadieMas'
  <2> SUFFICES ASSUME NEW o \in Formularios, NEW x \in Formularios, o # x,
                      peticion'[o].pc # "idle", peticion'[o].leida = Nada,
                      peticion'[x].recurso = peticion'[o].recurso
               PROVE  FALSE
    BY DEF NadieMas
  <2>1. o # p /\ peticion'[o] = peticion[o]
    BY <1>1, FormLibre
  <2>2. CASE x = p
    <3>1. peticion[o].recurso \in Escritos
      BY <2>1 DEF ArchivadoInv, FormularioFirme
    <3>2. peticion'[x].recurso = Nada
      BY <1>1, <2>2 DEF Archivado!Libre
    <3> QED BY <2>1, <3>1, <3>2, FileAssumptions
  <2>3. CASE x # p
    BY <1>1, <2>1, <2>3 DEF ArchivadoInv, NadieMas
  <2> QED BY <2>2, <2>3
<1> QED BY <1>2, <1>3, <1>4 DEF ArchivadoInv

\* The row of a new resource.
LEMMA RowInserted ==
    ASSUME ArchivadoInv, NEW p \in Formularios, Archivado!GuardarNuevo(p)
    PROVE  ArchivadoInv'
<1> DEFINE q == peticion[p]
<1>1. /\ q \in Archivado!Peticion /\ q.pc = "guardar" /\ q.leida = Nada /\ FormularioFirme(q)
      /\ peticion' = [peticion EXCEPT ![p] = Archivado!Libre]
      /\ UNCHANGED <<archivos, nombres, operaciones, caidas>>
      /\ caidas \in 0..MaxEscritosMuertos /\ recurso \in [Escritos -> Archivado!Fila \cup {Nada}]
  BY DEF Archivado!GuardarNuevo, Archivado!Terminar, ArchivadoInv, ArchivadoTipos
<1>2. PICK w : w = [tipo |-> q.tipo, texto |-> q.texto, base |-> Archivado!Conjunto(q.tipo),
                    doc |-> q.doc]
  OBVIOUS
<1>3. recurso' = [recurso EXCEPT ![q.recurso] = w]
  BY <1>2 DEF Archivado!GuardarNuevo
<1>4. /\ w.tipo = q.tipo /\ w.base = Archivado!Conjunto(q.tipo) /\ w.doc = q.doc
      /\ w \in Archivado!Fila
  BY <1>1, <1>2, ConjuntoTipo DEF Archivado!Peticion, Archivado!Fila, FormularioFirme
<1>5. q.recurso \in Escritos /\ q.doc \in 0..MaxArchivos
  BY <1>1 DEF FormularioFirme, Archivado!Peticion
<1>6. \A o \in Formularios \ {p} : peticion[o].recurso # q.recurso
  BY <1>1 DEF ArchivadoInv, NadieMas
<1>7. (Archivado!ConArchivo(w.tipo) <=> w.doc > 0) /\ (w.doc > 0 => <<w.base, w.doc>> \in archivos)
  BY <1>1, <1>4, <1>5 DEF FormularioFirme
<1> HIDE DEF q
<1>8. recurso' \in [Escritos -> Archivado!Fila \cup {Nada}]
  BY <1>1, <1>3, <1>4
<1>9. recurso'[q.recurso] = w /\ \A r \in Escritos \ {q.recurso} : recurso'[r] = recurso[r]
  BY <1>1, <1>3, <1>5
<1>10. ASSUME NEW r \in Escritos PROVE FilaFirme(r)'
  BY <1>1, <1>4, <1>7, <1>9 DEF FilaFirme, ArchivadoInv
<1>11. ASSUME NEW o \in Formularios \ {p}, peticion[o].pc # "idle"
       PROVE  recurso'[peticion[o].recurso] = recurso[peticion[o].recurso]
  BY <1>6, <1>9, <1>11 DEF ArchivadoInv, FormularioFirme
<1> QED BY <1>1, <1>8, <1>10, <1>11, FormEnds

\* The columns of an edited row.
LEMMA RowUpdated ==
    ASSUME ArchivadoInv, NEW p \in Formularios, Archivado!GuardarEdicion(p)
    PROVE  ArchivadoInv'
<1> DEFINE q == peticion[p]
<1>1. /\ q \in Archivado!Peticion /\ q.pc = "guardar" /\ q.leida # Nada /\ FormularioFirme(q)
      /\ peticion' = [peticion EXCEPT ![p] = Archivado!Libre]
      /\ UNCHANGED <<archivos, nombres, operaciones, caidas>>
      /\ caidas \in 0..MaxEscritosMuertos /\ recurso \in [Escritos -> Archivado!Fila \cup {Nada}]
  BY DEF Archivado!GuardarEdicion, Archivado!Terminar, ArchivadoInv, ArchivadoTipos
<1>2. q.recurso \in Escritos /\ q.doc \in 0..MaxArchivos /\ q.tipo \in Archivado!TodosLosTipos
  BY <1>1 DEF FormularioFirme, Archivado!Peticion
<1>3. CASE recurso[q.recurso] = Nada
  BY <1>3, <1>1, FormEnds DEF Archivado!GuardarEdicion, Archivado!Existe, ArchivadoInv,
     FilaFirme
<1>4. CASE recurso[q.recurso] # Nada
  <2> DEFINE v == recurso[q.recurso]
  <2>1. PICK w : w = Archivado!Escrita(q, v)
    OBVIOUS
  <2>2. recurso' = [recurso EXCEPT ![q.recurso] = w]
    BY <1>1, <1>2, <1>4, <2>1 DEF Archivado!GuardarEdicion, Archivado!Existe
  <2>3. /\ v \in Archivado!Fila /\ v.tipo = q.tipo /\ v.base = Archivado!Conjunto(v.tipo)
        /\ Archivado!ConArchivo(v.tipo) <=> v.doc > 0
        /\ v.doc > 0 => <<v.base, v.doc>> \in archivos
    BY <1>1, <1>2, <1>4 DEF ArchivadoInv, FilaFirme, FormularioFirme
  <2>4. q.doc > 0 =>
           Archivado!ConArchivo(q.tipo) /\ <<Archivado!Conjunto(q.tipo), q.doc>> \in archivos
    BY <1>1 DEF FormularioFirme
  <2>5. q.texto \in Titulos
    BY <1>1 DEF FormularioFirme
  <2> HIDE DEF v, q
  <2>6. /\ w \in Archivado!Fila /\ w.tipo = v.tipo
        /\ w.doc = IF q.doc = 0 THEN v.doc ELSE q.doc
        /\ w.base = IF q.doc = 0 \/ q.tipo = "descargable" THEN v.base
                    ELSE Archivado!Conjunto(q.tipo)
    BY <1>2, <2>1, <2>3, <2>5, ConjuntoTipo DEF Archivado!Escrita, Archivado!Fila
  <2>7. w.base = Archivado!Conjunto(w.tipo)
    BY <2>3, <2>6
  <2>8. (Archivado!ConArchivo(w.tipo) <=> w.doc > 0) /\ (w.doc > 0 => <<w.base, w.doc>> \in archivos)
    <3>1. CASE q.doc = 0
      BY <2>3, <2>6, <2>7, <3>1
    <3>2. CASE q.doc # 0
      BY <1>2, <3>2, <2>3, <2>4, <2>6, <2>7
    <3> QED BY <3>1, <3>2
  <2>9. recurso' \in [Escritos -> Archivado!Fila \cup {Nada}]
    BY <1>1, <2>2, <2>6
  <2>10. recurso'[q.recurso] = w /\ \A r \in Escritos \ {q.recurso} : recurso'[r] = recurso[r]
    BY <1>1, <1>2, <2>2
  <2>11. ASSUME NEW r \in Escritos PROVE FilaFirme(r)'
    BY <1>1, <2>7, <2>8, <2>10 DEF FilaFirme, ArchivadoInv
  <2>12. ASSUME NEW o \in Formularios \ {p}, peticion[o].pc # "idle"
         PROVE  \/ recurso'[peticion[o].recurso] = recurso[peticion[o].recurso]
                \/ /\ recurso[peticion[o].recurso] # Nada
                   /\ recurso'[peticion[o].recurso].tipo = recurso[peticion[o].recurso].tipo
    BY <2>10, <2>12, <1>4, <2>6 DEF ArchivadoInv, FormularioFirme, v
  <2> QED BY <1>1, <2>9, <2>11, <2>12, FormEnds
<1> QED BY <1>3, <1>4

\* A resource is deleted.
LEMMA RowDeleted ==
    ASSUME ArchivadoInv, NEW p \in Formularios, Archivado!eliminar_recurso(p)
    PROVE  ArchivadoInv'
<1>1. PICK r \in Escritos : recurso[r] # Nada /\ recurso' = [recurso EXCEPT ![r] = Nada]
  BY DEF Archivado!eliminar_recurso, Archivado!Existe
<1>2. UNCHANGED <<archivos, nombres, peticion, caidas>> /\ operaciones' \in 0..MaxEscritos
  BY FileAssumptions DEF Archivado!eliminar_recurso, ArchivadoInv, ArchivadoTipos
<1>3. recurso \in [Escritos -> Archivado!Fila \cup {Nada}]
  BY DEF ArchivadoInv, ArchivadoTipos
<1>4. recurso'[r] = Nada /\ \A x \in Escritos \ {r} : recurso'[x] = recurso[x]
  BY <1>1, <1>3
<1>5. ArchivadoTipos'
  BY <1>1, <1>2, <1>3 DEF ArchivadoInv, ArchivadoTipos
<1>6. \A x \in Escritos : FilaFirme(x)'
  BY <1>2, <1>4 DEF ArchivadoInv, FilaFirme
<1>7. \A o \in Formularios : FormularioFirme(peticion[o])'
  BY <1>2, <1>4 DEF ArchivadoInv, FormularioFirme
<1>8. NadieMas'
  BY <1>2 DEF ArchivadoInv, NadieMas
<1> QED BY <1>5, <1>6, <1>7, <1>8 DEF ArchivadoInv

\* A request dies.
LEMMA FormDies ==
    ASSUME ArchivadoInv, NEW p \in Formularios, Archivado!Caer(p)
    PROVE  ArchivadoInv'
<1>1. /\ peticion' = [peticion EXCEPT ![p] = Archivado!Libre]
      /\ UNCHANGED <<recurso, archivos, nombres, operaciones>>
      /\ caidas' \in 0..MaxEscritosMuertos /\ recurso \in [Escritos -> Archivado!Fila \cup {Nada}]
  BY FileAssumptions DEF Archivado!Caer, ArchivadoInv, ArchivadoTipos
<1>2. \A r \in Escritos : FilaFirme(r)'
  BY <1>1 DEF ArchivadoInv, FilaFirme
<1> QED BY <1>1, <1>2, FormEnds

\* Every step of the resources keeps what is said of them.
LEMMA ArchivadoSigue ==
    ASSUME ArchivadoInv, [Archivado!Next]_(Archivado!vars)
    PROVE  ArchivadoInv'
<1>1. CASE UNCHANGED Archivado!vars
  BY <1>1 DEF Archivado!vars, ArchivadoInv, ArchivadoTipos, FilaFirme, FormularioFirme, NadieMas
<1>2. ASSUME NEW p \in Formularios, Archivado!Crear(p) PROVE ArchivadoInv'
  <2>1. PICK t \in Archivado!TodosLosTipos : Archivado!Nuevo(p, t)
    BY <1>2 DEF Archivado!Crear, Archivado!TodosLosTipos,
       Archivado!nuevo_recurso_html, Archivado!nuevo_recurso_youtube_video,
       Archivado!nuevo_recurso_text, Archivado!nuevo_recurso_link, Archivado!nuevo_recurso_pdf,
       Archivado!nuevo_recurso_meet, Archivado!nuevo_recurso_img, Archivado!nuevo_recurso_audio,
       Archivado!nuevo_recurso_descargable, Archivado!nuevo_recurso_slideshow
  <2> QED BY <2>1, NewForm
<1>3. ASSUME NEW p \in Formularios, Archivado!Modificar(p) PROVE ArchivadoInv'
  <2>1. PICK t \in Archivado!TodosLosTipos, r \in Escritos :
          recurso[r] # Nada /\ recurso[r].tipo = t /\ Archivado!Editar(p, r, t)
    BY <1>3 DEF Archivado!Modificar, Archivado!TodosLosTipos, Archivado!EditarTipo,
       Archivado!Existe,
       Archivado!editar_recurso_html, Archivado!editar_recurso_youtube_video,
       Archivado!editar_recurso_text, Archivado!editar_recurso_link, Archivado!editar_recurso_pdf,
       Archivado!editar_recurso_meet, Archivado!editar_recurso_img, Archivado!editar_recurso_audio,
       Archivado!editar_recurso_descargable
  <2> QED BY <2>1, EditForm
<1> QED BY <1>1, <1>2, <1>3, RowDeleted, FileSaved, RowInserted, RowUpdated, FormDies
        DEF Archivado!Next

\* A row that names a file names one that is on disk.
LEMMA ArchivadoDice == ArchivadoInv => Archivado!TypeOK /\ Archivado!DocExists
<1> SUFFICES ASSUME ArchivadoInv PROVE Archivado!TypeOK /\ Archivado!DocExists
  OBVIOUS
<1>1. Archivado!TypeOK
  <2>1. ArchivadoTipos /\ operaciones <= MaxEscritos /\ caidas <= MaxEscritosMuertos
    BY FileAssumptions DEF ArchivadoInv, ArchivadoTipos
  <2>2. \A r \in Escritos : recurso[r] # Nada =>
           (Archivado!ConArchivo(recurso[r].tipo) <=> recurso[r].doc > 0)
    BY Zenon DEF ArchivadoInv, FilaFirme
  <2> QED BY <2>1, <2>2, Zenon DEF ArchivadoTipos, Archivado!TypeOK, Archivado!Existe
<1>2. ASSUME NEW r \in Escritos, recurso[r] # Nada, recurso[r].doc > 0
      PROVE  Archivado!recurso_file(r)
  BY <1>2, ConjuntoTipo DEF ArchivadoInv, ArchivadoTipos, FilaFirme, Archivado!Fila,
     Archivado!ConArchivo, Archivado!recurso_file
<1> QED BY <1>1, <1>2 DEF Archivado!DocExists, Archivado!Existe

----------------------------------------
(* Library (CourseLibrary), requests that overlap *)

\* No file, no row and no request at first.
LEMMA SubidoEmpieza == Subido!Init => SubidoInv
<1> SUFFICES ASSUME Subido!Init PROVE SubidoInv
  OBVIOUS
<1>1. /\ Subido!Libre \in Subido!Peticion /\ Subido!Libre.pc = "idle" /\ Subido!Libre.fila = 0
      /\ Subido!Libre.nombre = Nada
  BY FileAssumptions DEF Subido!Libre, Subido!Peticion
<1>2. \A p \in Formularios :
         peticion[p].pc = "idle" /\ peticion[p].fila = 0 /\ peticion[p].nombre = Nada
  BY <1>1 DEF Subido!Init
<1>3. SubidoTipos
  BY <1>1, FileAssumptions DEF Subido!Init, SubidoTipos
<1>4. ArchivoConDueno
  BY DEF Subido!Init, ArchivoConDueno, Subido!SoloArchivo
<1> QED BY <1>2, <1>3, <1>4 DEF SubidoInv, EnMarcha, FilaPropia, QuitarDejaDueno

\* ... only that one changes.
LEMMA CambiaUna ==
    ASSUME SubidoInv, NEW p \in Formularios, NEW f, Cambia(p, f)
    PROVE  /\ peticion' \in [Formularios -> Subido!Peticion]
           /\ peticion'[p] = f /\ \A o \in Formularios \ {p} : peticion'[o] = peticion[o]
BY DEF Cambia, SubidoInv, SubidoTipos

\* The forms of the steps of a request.
LEMMA SubidoPasos ==
    ASSUME SubidoInv, NEW p \in Formularios, NEW pc \in {"fila", "limpiar", "quitar"}
    PROVE  /\ Subido!A(p, pc) => \E f : /\ Cambia(p, f) /\ f.pc = pc
                                        /\ f.nombre = peticion[p].nombre
                                        /\ f.contenido = peticion[p].contenido
                                        /\ f.fila = peticion[p].fila
<1> SUFFICES ASSUME Subido!A(p, pc)
             PROVE  \E f : /\ Cambia(p, f) /\ f.pc = pc /\ f.nombre = peticion[p].nombre
                           /\ f.contenido = peticion[p].contenido /\ f.fila = peticion[p].fila
  OBVIOUS
<1>1. PICK f : f = [peticion[p] EXCEPT !.pc = pc]
  OBVIOUS
<1>2. peticion[p] \in Subido!Peticion
  BY DEF SubidoInv, SubidoTipos
<1>3. /\ f \in Subido!Peticion /\ f.pc = pc /\ f.nombre = peticion[p].nombre
      /\ f.contenido = peticion[p].contenido /\ f.fila = peticion[p].fila
  BY <1>1, <1>2 DEF Subido!Peticion
<1>4. peticion' = [peticion EXCEPT ![p] = f]
  BY <1>1 DEF Subido!A, SubidoInv, SubidoTipos
<1> QED BY <1>3, <1>4 DEF Cambia

\* A request that ends.
LEMMA SubidoFin ==
    /\ Subido!Libre \in Subido!Peticion /\ Subido!Libre.pc = "idle" /\ Subido!Libre.fila = 0
    /\ Subido!Libre.nombre = Nada
BY FileAssumptions DEF Subido!Libre, Subido!Peticion

\* An upload begins, of a name without a row.
LEMMA UploadBegins ==
    ASSUME SubidoInv, NEW p \in Formularios, Subido!upload_library_file(p)
    PROVE  SubidoInv'
<1>1. PICK n \in Ficheros, x \in Contenidos :
          peticion' = [peticion EXCEPT ![p] =
                [pc |-> "subir", nombre |-> n, contenido |-> x, fila |-> operaciones + 1]]
  BY DEF Subido!upload_library_file
<1>2. PICK f : f = [pc |-> "subir", nombre |-> n, contenido |-> x, fila |-> operaciones + 1]
  OBVIOUS
<1>3. /\ UNCHANGED <<filas, disco, anunciado, caidas>> /\ operaciones' = operaciones + 1
      /\ operaciones' \in 1..MaxSubidas /\ operaciones \in Nat /\ peticion[p].pc = "idle"
  BY FileAssumptions DEF Subido!upload_library_file, Subido!Pedir, SubidoInv, SubidoTipos
<1>4. /\ f.pc = "subir" /\ f.nombre = n /\ f.contenido = x /\ f.fila = operaciones + 1
      /\ f \in Subido!Peticion
  BY <1>2, <1>3 DEF Subido!Peticion
<1>5. Cambia(p, f)
  BY <1>1, <1>2, <1>4 DEF Cambia
<1>6. /\ peticion' \in [Formularios -> Subido!Peticion]
      /\ peticion'[p] = f /\ \A o \in Formularios \ {p} : peticion'[o] = peticion[o]
  BY <1>5, CambiaUna
<1>7. SubidoTipos'
  BY <1>3, <1>4, <1>6 DEF SubidoInv, SubidoTipos, Subido!Peticion
<1>8. \A o \in Formularios : EnMarcha(peticion'[o])
  BY <1>3, <1>4, <1>6 DEF SubidoInv, EnMarcha
<1>9. /\ \A m \in Ficheros : filas'[m] # f.fila
      /\ \A o \in Formularios \ {p} : peticion'[o].fila # f.fila
  BY <1>3, <1>4, <1>6 DEF SubidoInv, SubidoTipos, Subido!Peticion
<1>10. FilaPropia'
  BY <1>3, <1>6, <1>9 DEF SubidoInv, FilaPropia
<1>11. \A m \in Ficheros : LoEscribe(m) => LoEscribe(m)'
  BY <1>3, <1>6 DEF LoEscribe
<1>12. QuitarDejaDueno'
  BY <1>3, <1>4, <1>6, <1>11 DEF SubidoInv, QuitarDejaDueno, EnMarcha
<1>13. ArchivoConDueno'
  BY <1>3, <1>11 DEF SubidoInv, ArchivoConDueno, Subido!SoloArchivo
<1> QED BY <1>7, <1>8, <1>10, <1>12, <1>13 DEF SubidoInv

\* A deletion begins, of the row that is there.
LEMMA DeletionBegins ==
    ASSUME SubidoInv, NEW p \in Formularios, Subido!delete_library_file(p)
    PROVE  SubidoInv'
<1>1. PICK n \in Ficheros :
         /\ filas[n] # 0
         /\ peticion' = [peticion EXCEPT ![p] =
                [Subido!Libre EXCEPT !.pc = "borrar", !.nombre = n, !.fila = filas[n]]]
  BY DEF Subido!delete_library_file
<1>2. PICK f : f = [Subido!Libre EXCEPT !.pc = "borrar", !.nombre = n, !.fila = filas[n]]
  OBVIOUS
<1>3. /\ UNCHANGED <<filas, disco, anunciado, caidas>> /\ operaciones' = operaciones + 1
      /\ operaciones' \in 1..MaxSubidas /\ operaciones \in Nat /\ peticion[p].pc = "idle"
      /\ filas[n] \in 1..MaxSubidas /\ filas[n] <= operaciones
  BY <1>1, FileAssumptions DEF Subido!delete_library_file, Subido!Pedir, SubidoInv, SubidoTipos
<1>4. f = [pc |-> "borrar", nombre |-> n, contenido |-> Nada, fila |-> filas[n]]
  BY <1>2 DEF Subido!Libre
<1>5. f.pc = "borrar" /\ f.nombre = n /\ f.fila = filas[n] /\ f \in Subido!Peticion
  BY <1>3, <1>4 DEF Subido!Peticion
<1>6. Cambia(p, f)
  BY <1>1, <1>2, <1>5 DEF Cambia
<1>7. /\ peticion' \in [Formularios -> Subido!Peticion]
      /\ peticion'[p] = f /\ \A o \in Formularios \ {p} : peticion'[o] = peticion[o]
  BY <1>6, CambiaUna
<1>8. SubidoTipos'
  BY <1>3, <1>5, <1>7 DEF SubidoInv, SubidoTipos, Subido!Peticion
<1>9. \A o \in Formularios : EnMarcha(peticion'[o])
  BY <1>3, <1>5, <1>7 DEF SubidoInv, EnMarcha
<1>10. FilaPropia'
  BY <1>3, <1>5, <1>7 DEF SubidoInv, FilaPropia
<1>11. \A m \in Ficheros : LoEscribe(m) => LoEscribe(m)'
  BY <1>3, <1>7 DEF LoEscribe
<1>12. QuitarDejaDueno'
  BY <1>3, <1>5, <1>7, <1>11 DEF SubidoInv, QuitarDejaDueno, EnMarcha
<1>13. ArchivoConDueno'
  BY <1>3, <1>11 DEF SubidoInv, ArchivoConDueno, Subido!SoloArchivo
<1> QED BY <1>8, <1>9, <1>10, <1>12, <1>13 DEF SubidoInv

\* A request goes on with the same file and the same row: what is left to say is of
\* the disk.
LEMMA UploadGoesOn ==
    ASSUME SubidoInv, NEW p \in Formularios, NEW f, Cambia(p, f),
           f.nombre = peticion[p].nombre, f.contenido = peticion[p].contenido,
           f.fila = peticion[p].fila, peticion[p].pc # "idle",
           f.pc \in {"fila", "limpiar", "quitar"},
           f.pc = "fila" => peticion[p].pc = "subir",
           UNCHANGED <<filas, anunciado, operaciones, caidas>>,
           disco' \in [Ficheros -> Contenidos \cup {Nada}],
           \A n \in Ficheros \ {f.nombre} : disco'[n] = disco[n],
           peticion[p].pc \in {"fila", "limpiar"} => f.pc = "limpiar",
           disco'[f.nombre] # Nada => disco'[f.nombre] = disco[f.nombre] \/ f.pc = "fila",
           f.pc = "quitar" => disco'[f.nombre] = Nada
    PROVE  SubidoInv'
<1>1. /\ peticion' \in [Formularios -> Subido!Peticion]
      /\ peticion'[p] = f /\ \A o \in Formularios \ {p} : peticion'[o] = peticion[o]
  BY CambiaUna
<1>2. SubidoTipos'
  BY <1>1 DEF SubidoInv, SubidoTipos
<1>3. \A o \in Formularios : EnMarcha(peticion'[o])
  BY <1>1 DEF SubidoInv, EnMarcha
<1>4. FilaPropia'
  BY <1>1 DEF SubidoInv, FilaPropia
<1>5. \A m \in Ficheros : LoEscribe(m) => LoEscribe(m)'
  BY <1>1 DEF LoEscribe
<1>6. f.pc = "fila" => LoEscribe(f.nombre)'
  BY <1>1 DEF LoEscribe
<1>7. ASSUME NEW o \in Formularios, NEW m, m = peticion'[o].nombre,
             peticion'[o].pc = "quitar", filas'[m] = peticion'[o].fila, disco'[m] # Nada
      PROVE  LoEscribe(m)'
  <2>1. o # p /\ peticion'[o] = peticion[o] /\ m \in Ficheros
    BY <1>1, <1>7 DEF SubidoInv, EnMarcha
  <2>2. CASE disco'[m] = disco[m]
    BY <1>5, <1>7, <2>1, <2>2 DEF SubidoInv, QuitarDejaDueno
  <2>3. CASE disco'[m] # disco[m]
    BY <1>7, <2>1, <2>3, <1>6
  <2> QED BY <2>2, <2>3
<1>8. QuitarDejaDueno'
  BY <1>7 DEF QuitarDejaDueno
<1>9. ASSUME NEW m \in Ficheros, filas'[m] = 0, disco'[m] # Nada PROVE LoEscribe(m)'
  <2>1. CASE disco'[m] = disco[m]
    BY <1>5, <1>9, <2>1 DEF SubidoInv, ArchivoConDueno, Subido!SoloArchivo
  <2>2. CASE disco'[m] # disco[m]
    BY <1>9, <2>2, <1>6
  <2> QED BY <2>1, <2>2
<1>10. ArchivoConDueno'
  BY <1>9 DEF ArchivoConDueno, Subido!SoloArchivo
<1> QED BY <1>2, <1>3, <1>4, <1>8, <1>10 DEF SubidoInv

\* Such a step keeps what is said of the library.
LEMMA UploadEnds ==
    ASSUME SubidoInv, NEW p \in Formularios, NEW n \in Ficheros, EsElFin(p, n),
           peticion' = [peticion EXCEPT ![p] = Subido!Libre], UNCHANGED <<operaciones, caidas>>,
           anunciado' \subseteq Ficheros
    PROVE  SubidoInv'
<1>1. Cambia(p, Subido!Libre)
  BY SubidoFin DEF Cambia
<1>2. /\ peticion' \in [Formularios -> Subido!Peticion]
      /\ peticion'[p] = Subido!Libre /\ \A o \in Formularios \ {p} : peticion'[o] = peticion[o]
  BY <1>1, CambiaUna
<1>3. \A m \in Ficheros : filas'[m] <= operaciones
  <2>1. ASSUME NEW m \in Ficheros, m # n PROVE filas'[m] <= operaciones
    BY <2>1 DEF SubidoInv, SubidoTipos, EsElFin
  <2>2. filas'[n] <= operaciones
    BY DEF SubidoInv, SubidoTipos, EsElFin
  <2> QED BY <2>1, <2>2
<1>4. SubidoTipos'
  BY <1>2, <1>3, SubidoFin DEF SubidoInv, SubidoTipos, EsElFin
<1>5. \A o \in Formularios : EnMarcha(peticion'[o])
  BY <1>2, SubidoFin DEF SubidoInv, EnMarcha
<1>6. FilaPropia'
  <2> SUFFICES ASSUME NEW o \in Formularios, peticion'[o].pc \in {"subir", "fila"}
               PROVE  /\ \A m \in Ficheros : filas'[m] # peticion'[o].fila
                      /\ \A x \in Formularios \ {o} : peticion'[x].fila # peticion'[o].fila
    BY DEF FilaPropia
  <2>1. o # p /\ peticion'[o] = peticion[o] /\ peticion[o].fila > 0
    BY <1>2, SubidoFin DEF SubidoInv, EnMarcha
  <2>2. /\ \A m \in Ficheros : filas[m] # peticion[o].fila
        /\ \A x \in Formularios \ {o} : peticion[x].fila # peticion[o].fila
    BY <2>1 DEF SubidoInv, FilaPropia
  <2>3. ASSUME NEW m \in Ficheros PROVE filas'[m] # peticion[o].fila
    BY <2>1, <2>2 DEF EsElFin
  <2>4. ASSUME NEW x \in Formularios \ {o} PROVE peticion'[x].fila # peticion[o].fila
    BY <1>2, <2>1, <2>2, SubidoFin
  <2> QED BY <2>1, <2>3, <2>4
<1>7. ASSUME NEW o \in Formularios, NEW m, m = peticion'[o].nombre,
             peticion'[o].pc = "quitar", filas'[m] = peticion'[o].fila, disco'[m] # Nada
      PROVE  LoEscribe(m)'
  <2>1. o # p /\ peticion'[o] = peticion[o] /\ m \in Ficheros
    BY <1>2, <1>7, SubidoFin DEF SubidoInv, EnMarcha
  <2>2. OtroLoEscribe(p, m)
    <3>1. CASE m = n
      BY <1>7, <2>1, <3>1 DEF EsElFin
    <3>2. CASE m # n
      BY <1>7, <2>1, <3>2 DEF SubidoInv, QuitarDejaDueno, EsElFin
    <3> QED BY <3>1, <3>2
  <2> QED BY <1>2, <2>2 DEF LoEscribe, OtroLoEscribe
<1>8. QuitarDejaDueno'
  BY <1>7 DEF QuitarDejaDueno
<1>9. ASSUME NEW m \in Ficheros, filas'[m] = 0, disco'[m] # Nada PROVE LoEscribe(m)'
  <2>1. OtroLoEscribe(p, m)
    <3>1. CASE m = n
      BY <1>9, <3>1 DEF EsElFin
    <3>2. CASE m # n
      BY <1>9, <3>2 DEF SubidoInv, ArchivoConDueno, Subido!SoloArchivo, EsElFin
    <3> QED BY <3>1, <3>2
  <2> QED BY <1>2, <2>1 DEF LoEscribe, OtroLoEscribe
<1>10. ArchivoConDueno'
  BY <1>9 DEF ArchivoConDueno, Subido!SoloArchivo
<1> QED BY <1>4, <1>5, <1>6, <1>8, <1>10 DEF SubidoInv

\* A file is written, and a row that is refused is noted.
LEMMA FileWritten ==
    ASSUME SubidoInv, NEW p \in Formularios, Subido!GuardarArchivo(p)
    PROVE  SubidoInv'
<1> DEFINE q == peticion[p]
<1>1. /\ q.pc = "subir" /\ disco' = [disco EXCEPT ![q.nombre] = q.contenido]
      /\ Subido!A(p, "fila") /\ UNCHANGED <<filas, anunciado, operaciones, caidas>>
  BY DEF Subido!GuardarArchivo, Subido!Sobrescrito
<1>2. q.nombre \in Ficheros /\ q.contenido \in Contenidos
  BY <1>1 DEF SubidoInv, EnMarcha
<1>3. PICK f : /\ Cambia(p, f) /\ f.pc = "fila" /\ f.nombre = q.nombre
               /\ f.contenido = q.contenido /\ f.fila = q.fila
  BY <1>1, SubidoPasos
<1>4. /\ disco' \in [Ficheros -> Contenidos \cup {Nada}]
      /\ \A n \in Ficheros \ {q.nombre} : disco'[n] = disco[n]
  BY <1>1, <1>2 DEF SubidoInv, SubidoTipos
<1> QED BY <1>1, <1>3, <1>4, UploadGoesOn

\* A row is inserted, unless there is one.
LEMMA UploadRowInserted ==
    ASSUME SubidoInv, NEW p \in Formularios, Subido!_store_library_file(p)
    PROVE  SubidoInv'
<1> DEFINE q == peticion[p]
<1>1. q.pc = "fila" /\ UNCHANGED <<disco, operaciones, caidas>>
  BY DEF Subido!_store_library_file
<1>2. /\ q.nombre \in Ficheros /\ q.fila > 0 /\ q.fila \in 0..MaxSubidas
      /\ filas \in [Ficheros -> 0..MaxSubidas] /\ disco \in [Ficheros -> Contenidos \cup {Nada}]
      /\ anunciado \subseteq Ficheros
      /\ \A o \in Formularios \ {p} : peticion[o].fila # q.fila
  BY <1>1 DEF SubidoInv, SubidoTipos, EnMarcha, FilaPropia, Subido!Peticion
<1>3. CASE filas[q.nombre] # 0
  <2>1. Subido!A(p, "limpiar") /\ UNCHANGED <<filas, anunciado>>
    BY <1>3 DEF Subido!_store_library_file
  <2>2. PICK f : /\ Cambia(p, f) /\ f.pc = "limpiar" /\ f.nombre = q.nombre
                 /\ f.contenido = q.contenido /\ f.fila = q.fila
    BY <2>1, SubidoPasos
  <2> QED BY <1>1, <1>2, <2>1, <2>2, UploadGoesOn
<1>4. CASE filas[q.nombre] = 0
  <2>1. /\ filas' = [filas EXCEPT ![q.nombre] = q.fila]
        /\ anunciado' = anunciado \cup {q.nombre}
        /\ peticion' = [peticion EXCEPT ![p] = Subido!Libre]
    BY <1>4 DEF Subido!_store_library_file
  <2>2. PICK n \in Ficheros : n = q.nombre
    BY <1>2
  <2>3. /\ filas' \in [Ficheros -> 0..MaxSubidas] /\ filas'[n] = q.fila
        /\ \A m \in Ficheros \ {n} : filas'[m] = filas[m]
        /\ anunciado' \subseteq Ficheros
    BY <1>2, <2>1, <2>2
  <2>4. filas'[n] # 0 /\ \A o \in Formularios \ {p} : filas'[n] # peticion[o].fila
    BY <1>2, <2>3
  <2>5. \A m \in Ficheros \ {n} : LoEscribe(m) => OtroLoEscribe(p, m)
    BY <2>2 DEF LoEscribe, OtroLoEscribe
  <2>6. EsElFin(p, n)
    BY <1>1, <1>2, <2>3, <2>4, <2>5 DEF EsElFin
  <2> QED BY <1>1, <2>1, <2>3, <2>6, UploadEnds
<1> QED BY <1>3, <1>4

\* The file of a refused row is removed.
LEMMA FileCleaned ==
    ASSUME SubidoInv, NEW p \in Formularios, Subido!LimpiarArchivo(p)
    PROVE  SubidoInv'
<1> DEFINE q == peticion[p]
<1>1. /\ q.pc = "limpiar" /\ UNCHANGED <<filas, anunciado, operaciones, caidas>>
      /\ disco' = [disco EXCEPT ![q.nombre] = Nada]
      /\ peticion' = [peticion EXCEPT ![p] = Subido!Libre]
  BY DEF Subido!LimpiarArchivo, Subido!Limpiado
<1>2. /\ q.nombre \in Ficheros
      /\ filas \in [Ficheros -> 0..MaxSubidas] /\ disco \in [Ficheros -> Contenidos \cup {Nada}]
      /\ anunciado \subseteq Ficheros
  BY <1>1 DEF SubidoInv, SubidoTipos, EnMarcha
<1>3. PICK n \in Ficheros : n = q.nombre
  BY <1>2
<1>4. /\ disco' \in [Ficheros -> Contenidos \cup {Nada}] /\ disco'[n] = Nada
      /\ \A m \in Ficheros \ {n} : disco'[m] = disco[m]
  BY <1>1, <1>2, <1>3
<1>5. \A m \in Ficheros \ {n} : LoEscribe(m) => OtroLoEscribe(p, m)
  BY <1>3 DEF LoEscribe, OtroLoEscribe
<1>6. EsElFin(p, n)
  BY <1>1, <1>2, <1>4, <1>5 DEF EsElFin
<1> QED BY <1>1, <1>2, <1>6, UploadEnds

\* A deletion removes the file ...
LEMMA FileRemoved ==
    ASSUME SubidoInv, NEW p \in Formularios, Subido!QuitarArchivo(p)
    PROVE  SubidoInv'
<1> DEFINE q == peticion[p]
<1>1. /\ q.pc = "borrar" /\ disco' = [disco EXCEPT ![q.nombre] = Nada]
      /\ Subido!A(p, "quitar") /\ UNCHANGED <<filas, anunciado, operaciones, caidas>>
  BY DEF Subido!QuitarArchivo
<1>2. q.nombre \in Ficheros
  BY <1>1 DEF SubidoInv, EnMarcha
<1>3. PICK f : /\ Cambia(p, f) /\ f.pc = "quitar" /\ f.nombre = q.nombre
               /\ f.contenido = q.contenido /\ f.fila = q.fila
  BY <1>1, SubidoPasos
<1>4. /\ disco' \in [Ficheros -> Contenidos \cup {Nada}] /\ disco'[q.nombre] = Nada
      /\ \A n \in Ficheros \ {q.nombre} : disco'[n] = disco[n]
  BY <1>1, <1>2 DEF SubidoInv, SubidoTipos
<1> QED BY <1>1, <1>3, <1>4, UploadGoesOn

\* ... and then the row that it read, if it is still that one.
LEMMA UploadRowRemoved ==
    ASSUME SubidoInv, NEW p \in Formularios, Subido!QuitarFila(p)
    PROVE  SubidoInv'
<1> DEFINE q == peticion[p]
<1>1. /\ q.pc = "quitar" /\ UNCHANGED <<disco, operaciones, caidas>>
      /\ filas' = [filas EXCEPT ![q.nombre] = IF @ = q.fila THEN 0 ELSE @]
      /\ anunciado' = anunciado \ {q.nombre}
      /\ peticion' = [peticion EXCEPT ![p] = Subido!Libre]
  BY DEF Subido!QuitarFila, Subido!SinFila
<1>2. /\ q.nombre \in Ficheros /\ q.fila > 0
      /\ filas \in [Ficheros -> 0..MaxSubidas] /\ disco \in [Ficheros -> Contenidos \cup {Nada}]
      /\ anunciado \subseteq Ficheros
  BY <1>1 DEF SubidoInv, SubidoTipos, EnMarcha
<1>3. PICK n \in Ficheros : n = q.nombre
  BY <1>2
<1>4. /\ filas' \in [Ficheros -> 0..MaxSubidas]
      /\ filas'[n] = IF filas[n] = q.fila THEN 0 ELSE filas[n]
      /\ \A m \in Ficheros \ {n} : filas'[m] = filas[m]
  BY <1>1, <1>2, <1>3, FileAssumptions
<1>5. \A m \in Ficheros : LoEscribe(m) => OtroLoEscribe(p, m)
  BY <1>1 DEF LoEscribe, OtroLoEscribe
<1>6. ASSUME NEW o \in Formularios \ {p}, peticion[o].pc = "quitar", peticion[o].nombre = n,
             filas'[n] = peticion[o].fila, disco'[n] # Nada
      PROVE  LoEscribe(n)
  <2>1. peticion[o].fila > 0
    BY <1>6 DEF SubidoInv, EnMarcha
  <2>2. filas[n] = peticion[o].fila
    BY <1>4, <1>6, <2>1
  <2> QED BY <1>1, <1>6, <2>2 DEF SubidoInv, QuitarDejaDueno
<1>7. ASSUME filas'[n] = 0, disco'[n] # Nada
      PROVE  LoEscribe(n)
  BY <1>1, <1>3, <1>7, <1>4 DEF SubidoInv, QuitarDejaDueno, ArchivoConDueno, Subido!SoloArchivo
<1>8. EsElFin(p, n)
  BY <1>1, <1>2, <1>4, <1>5, <1>6, <1>7 DEF EsElFin
<1>9. anunciado' \subseteq Ficheros
  BY <1>1, <1>2
<1> QED BY <1>1, <1>8, <1>9, UploadEnds

\* Every step of the library keeps what is said of it.
LEMMA SubidoSigue ==
    ASSUME SubidoInv, [Subido!Next]_(Subido!vars)
    PROVE  SubidoInv'
<1>1. CASE UNCHANGED Subido!vars
  BY <1>1 DEF Subido!vars, SubidoInv, SubidoTipos, EnMarcha, FilaPropia, QuitarDejaDueno,
     LoEscribe, ArchivoConDueno, Subido!SoloArchivo
<1>2. \A p \in Formularios : ~Subido!Caer(p)
  BY DEF Subido!Caer, SubidoInv, SubidoTipos
<1> QED BY <1>1, <1>2, UploadBegins, DeletionBegins, FileWritten, UploadRowInserted, FileCleaned,
           FileRemoved, UploadRowRemoved DEF Subido!Next, Subido!Sigue

\* No file is left without its row.
LEMMA SubidoDice == SubidoInv => Subido!TypeOK /\ Subido!NoOrphanFiles
BY FileAssumptions DEF SubidoInv, SubidoTipos, Subido!TypeOK, Subido!Filas,
   ArchivoConDueno, LoEscribe, Subido!NoOrphanFiles, Subido!EnUso

----------------------------------------
(* Library, one request at a time, until one dies *)

\* A request that has not begun is one.
LEMMA CaidoLibre ==
    /\ Caido!Libre \in Caido!Peticion /\ Caido!Libre.pc = "idle" /\ Caido!Libre.fila = 0
    /\ Caido!Libre.nombre = Nada
BY FileAssumptions DEF Caido!Libre, Caido!Peticion

\* No file, no row and no request at first.
LEMMA CaidoEmpieza == Caido!Init => CaidoInv
<1> SUFFICES ASSUME Caido!Init PROVE CaidoInv
  OBVIOUS
<1>1. peticion = [p \in {q1} |-> Caido!Libre] /\ peticion[q1] = Caido!Libre
  BY DEF Caido!Init
<1>2. CaidoTipos
  BY <1>1, CaidoLibre, FileAssumptions DEF Caido!Init, CaidoTipos, EnMarcha
<1>3. LoQueHay(peticion[q1]) /\ LosDemas
  BY <1>1, CaidoLibre DEF Caido!Init, LoQueHay, LosDemas
<1> QED BY <1>2, <1>3 DEF CaidoInv

\* An upload begins, of a name without a row, and so without a file.
LEMMA AloneUploadBegins ==
    ASSUME CaidoInv, Caido!upload_library_file(q1)
    PROVE  CaidoInv'
<1>1. PICK n \in Ficheros, x \in Contenidos :
          /\ filas[n] = 0
          /\ peticion' = [peticion EXCEPT ![q1] =
                [pc |-> "subir", nombre |-> n, contenido |-> x, fila |-> operaciones + 1]]
  BY DEF Caido!upload_library_file, Caido!NoExiste
<1>2. PICK f : f = [pc |-> "subir", nombre |-> n, contenido |-> x, fila |-> operaciones + 1]
  OBVIOUS
<1>3. /\ UNCHANGED <<filas, disco, anunciado, caidas>> /\ operaciones' = operaciones + 1
      /\ operaciones' \in 1..MaxDeUnaEnUna /\ operaciones \in Nat /\ peticion[q1].pc = "idle"
  BY FileAssumptions DEF Caido!upload_library_file, Caido!Pedir, CaidoInv, CaidoTipos
<1>4. /\ f.pc = "subir" /\ f.nombre = n /\ f.contenido = x /\ f.fila = operaciones + 1
      /\ f \in Caido!Peticion
  BY <1>2, <1>3 DEF Caido!Peticion
<1>5. peticion' \in [{q1} -> Caido!Peticion] /\ peticion'[q1] = f
  BY <1>1, <1>2, <1>4 DEF CaidoInv, CaidoTipos
<1>6. CaidoTipos'
  BY <1>3, <1>4, <1>5 DEF CaidoInv, CaidoTipos, EnMarcha
<1>7. ASSUME caidas = 0 PROVE LoQueHay(peticion[q1])' /\ LosDemas'
  <2>1. peticion[q1].nombre = Nada /\ LosDemas
    BY <1>3, <1>7 DEF CaidoInv, CaidoTipos, EnMarcha
  <2>2. disco[n] = Nada
    BY <1>1, <2>1, FileAssumptions DEF LosDemas
  <2>3. LosDemas'
    BY <1>3, <1>4, <1>5, <2>1, FileAssumptions DEF LosDemas
  <2>4. LoQueHay(f)'
    BY <1>1, <1>3, <1>4, <2>2 DEF LoQueHay
  <2> QED BY <1>5, <2>3, <2>4 DEF LoQueHay
<1> QED BY <1>3, <1>6, <1>7 DEF CaidoInv

\* A deletion begins, of a row that is there, and so is its file.
LEMMA AloneDeletionBegins ==
    ASSUME CaidoInv, Caido!delete_library_file(q1)
    PROVE  CaidoInv'
<1>1. PICK n \in Ficheros :
         /\ filas[n] # 0
         /\ peticion' = [peticion EXCEPT ![q1] =
                [Caido!Libre EXCEPT !.pc = "borrar", !.nombre = n, !.fila = filas[n]]]
  BY DEF Caido!delete_library_file
<1>2. PICK f : f = [Caido!Libre EXCEPT !.pc = "borrar", !.nombre = n, !.fila = filas[n]]
  OBVIOUS
<1>3. /\ UNCHANGED <<filas, disco, anunciado, caidas>> /\ operaciones' = operaciones + 1
      /\ operaciones' \in 1..MaxDeUnaEnUna /\ operaciones \in Nat /\ peticion[q1].pc = "idle"
      /\ filas[n] \in 1..MaxDeUnaEnUna /\ filas[n] <= operaciones
  BY <1>1, FileAssumptions DEF Caido!delete_library_file, Caido!Pedir, CaidoInv, CaidoTipos
<1>4. f = [pc |-> "borrar", nombre |-> n, contenido |-> Nada, fila |-> filas[n]]
  BY <1>2 DEF Caido!Libre
<1>5. f.pc = "borrar" /\ f.nombre = n /\ f.fila = filas[n] /\ f \in Caido!Peticion
  BY <1>3, <1>4 DEF Caido!Peticion
<1>6. peticion' \in [{q1} -> Caido!Peticion] /\ peticion'[q1] = f
  BY <1>1, <1>2, <1>5 DEF CaidoInv, CaidoTipos
<1>7. CaidoTipos'
  BY <1>3, <1>5, <1>6 DEF CaidoInv, CaidoTipos, EnMarcha
<1>8. ASSUME caidas = 0 PROVE LoQueHay(peticion[q1])' /\ LosDemas'
  <2>1. peticion[q1].nombre = Nada /\ LosDemas
    BY <1>3, <1>8 DEF CaidoInv, CaidoTipos, EnMarcha
  <2>2. disco[n] # Nada
    BY <1>1, <2>1, FileAssumptions DEF LosDemas
  <2>3. LosDemas'
    BY <1>3, <1>5, <1>6, <2>1, FileAssumptions DEF LosDemas
  <2>4. LoQueHay(f)'
    BY <1>1, <1>3, <1>5, <2>2 DEF LoQueHay
  <2> QED BY <1>6, <2>3, <2>4 DEF LoQueHay
<1> QED BY <1>3, <1>7, <1>8 DEF CaidoInv

\* What a request has read and will write, whether or not another one died before.
LEMMA AloneTypes ==
    ASSUME CaidoInv
    PROVE  /\ peticion \in [{q1} -> Caido!Peticion] /\ peticion[q1] \in Caido!Peticion
           /\ filas \in [Ficheros -> 0..MaxDeUnaEnUna]
           /\ disco \in [Ficheros -> Contenidos \cup {Nada}]
           /\ anunciado \subseteq Ficheros /\ operaciones \in 0..MaxDeUnaEnUna
           /\ caidas \in 0..MaxMuertas /\ peticion[q1].fila <= operaciones
           /\ \A n \in Ficheros : filas[n] <= operaciones
           /\ EnMarcha(peticion[q1])
BY DEF CaidoInv, CaidoTipos

\* A request goes on.
LEMMA AloneGoesOn ==
    ASSUME CaidoInv, NEW pc \in {"fila", "limpiar", "quitar"}, Caido!A(q1, pc)
    PROVE  /\ peticion' \in [{q1} -> Caido!Peticion] /\ peticion'[q1].pc = pc
           /\ peticion'[q1].nombre = peticion[q1].nombre
           /\ peticion'[q1].contenido = peticion[q1].contenido
           /\ peticion'[q1].fila = peticion[q1].fila
<1>1. PICK f : f = [peticion[q1] EXCEPT !.pc = pc]
  OBVIOUS
<1>2. /\ f \in Caido!Peticion /\ f.pc = pc /\ f.nombre = peticion[q1].nombre
      /\ f.contenido = peticion[q1].contenido /\ f.fila = peticion[q1].fila
  BY <1>1, AloneTypes DEF Caido!Peticion
<1>3. peticion' = [peticion EXCEPT ![q1] = f]
  BY <1>1, AloneTypes DEF Caido!A
<1> QED BY <1>2, <1>3, AloneTypes

\* A request ends.
LEMMA AloneEnds ==
    ASSUME CaidoInv, peticion' = [peticion EXCEPT ![q1] = Caido!Libre]
    PROVE  /\ peticion' \in [{q1} -> Caido!Peticion] /\ peticion'[q1].pc = "idle"
           /\ peticion'[q1].nombre = Nada /\ peticion'[q1].fila = 0
BY AloneTypes, CaidoLibre

\* A file is written over nothing.
LEMMA AloneFileWritten ==
    ASSUME CaidoInv, Caido!GuardarArchivo(q1)
    PROVE  CaidoInv'
<1> DEFINE q == peticion[q1]
<1>1. /\ q.pc = "subir" /\ disco' = [disco EXCEPT ![q.nombre] = q.contenido]
      /\ Caido!A(q1, "fila") /\ UNCHANGED <<filas, anunciado, operaciones, caidas>>
  BY DEF Caido!GuardarArchivo, Caido!Sobrescrito
<1>2. /\ peticion' \in [{q1} -> Caido!Peticion] /\ peticion'[q1].pc = "fila"
      /\ peticion'[q1].nombre = q.nombre
      /\ peticion'[q1].contenido = q.contenido /\ peticion'[q1].fila = q.fila
  BY <1>1, AloneGoesOn
<1>3. q.nombre \in Ficheros /\ q.contenido \in Contenidos
  BY <1>1, AloneTypes DEF EnMarcha
<1>4. /\ disco' \in [Ficheros -> Contenidos \cup {Nada}] /\ disco'[q.nombre] = q.contenido
      /\ \A n \in Ficheros \ {q.nombre} : disco'[n] = disco[n]
  BY <1>1, <1>3, AloneTypes
<1>5. CaidoTipos'
  BY <1>1, <1>2, <1>3, <1>4, AloneTypes DEF CaidoTipos, EnMarcha
<1>6. ASSUME caidas = 0 PROVE LoQueHay(peticion[q1])' /\ LosDemas'
  BY <1>6, <1>1, <1>2, <1>4, <1>3, FileAssumptions DEF CaidoInv, LosDemas, LoQueHay
<1> QED BY <1>1, <1>5, <1>6 DEF CaidoInv

\* A row is inserted, for there is none.
LEMMA AloneRowInserted ==
    ASSUME CaidoInv, Caido!_store_library_file(q1)
    PROVE  CaidoInv'
<1> DEFINE q == peticion[q1]
<1>1. q.pc = "fila" /\ UNCHANGED <<disco, operaciones, caidas>>
  BY DEF Caido!_store_library_file
<1>2. q.nombre \in Ficheros /\ q.contenido \in Contenidos /\ q.fila > 0
  BY <1>1, AloneTypes DEF EnMarcha
<1>3. CASE filas[q.nombre] = 0
  <2>1. /\ filas' = [filas EXCEPT ![q.nombre] = q.fila]
        /\ anunciado' = anunciado \cup {q.nombre}
        /\ peticion' = [peticion EXCEPT ![q1] = Caido!Libre]
    BY <1>3 DEF Caido!_store_library_file
  <2>2. /\ peticion' \in [{q1} -> Caido!Peticion] /\ peticion'[q1].pc = "idle"
        /\ peticion'[q1].nombre = Nada /\ peticion'[q1].fila = 0
    BY <2>1, AloneEnds
  <2>3. q.fila \in 0..MaxDeUnaEnUna
    BY AloneTypes DEF Caido!Peticion
  <2>4. /\ filas' \in [Ficheros -> 0..MaxDeUnaEnUna] /\ filas'[q.nombre] = q.fila
        /\ \A n \in Ficheros \ {q.nombre} : filas'[n] = filas[n]
    BY <1>2, <2>1, <2>3, AloneTypes
  <2>5. CaidoTipos'
    BY <1>1, <1>2, <2>1, <2>2, <2>4, AloneTypes DEF CaidoTipos, EnMarcha
  <2>6. ASSUME caidas = 0 PROVE LoQueHay(peticion[q1])' /\ LosDemas'
    <3>1. LoQueHay(q) /\ LosDemas
      BY <2>6 DEF CaidoInv
    <3>2. disco[q.nombre] # Nada /\ filas'[q.nombre] # 0
      BY <1>1, <1>2, <2>3, <2>4, <3>1 DEF LoQueHay
    <3>3. LosDemas'
      BY <1>1, <2>4, <3>1, <3>2 DEF LosDemas
    <3>4. LoQueHay(peticion[q1])'
      BY <2>2 DEF LoQueHay
    <3> QED BY <3>3, <3>4
  <2> QED BY <1>1, <2>5, <2>6 DEF CaidoInv
<1>4. CASE filas[q.nombre] # 0
  <2>1. Caido!A(q1, "limpiar") /\ UNCHANGED <<filas, anunciado>>
    BY <1>4 DEF Caido!_store_library_file
  <2>2. /\ peticion' \in [{q1} -> Caido!Peticion] /\ peticion'[q1].pc = "limpiar"
        /\ peticion'[q1].nombre = q.nombre
        /\ peticion'[q1].contenido = q.contenido /\ peticion'[q1].fila = q.fila
    BY <2>1, AloneGoesOn
  <2>3. CaidoTipos'
    BY <1>1, <1>2, <2>1, <2>2, AloneTypes DEF CaidoTipos, EnMarcha
  <2>4. caidas # 0
    BY <1>1, <1>4 DEF CaidoInv, LoQueHay
  <2> QED BY <1>1, <2>3, <2>4 DEF CaidoInv
<1> QED BY <1>3, <1>4

\* After a death, the file of a refused row is removed.
LEMMA AloneFileCleaned ==
    ASSUME CaidoInv, Caido!LimpiarArchivo(q1)
    PROVE  CaidoInv'
<1> DEFINE q == peticion[q1]
<1>1. /\ q.pc = "limpiar" /\ UNCHANGED <<filas, anunciado, operaciones, caidas>>
      /\ disco' = [disco EXCEPT ![q.nombre] = Nada]
      /\ peticion' = [peticion EXCEPT ![q1] = Caido!Libre]
  BY DEF Caido!LimpiarArchivo, Caido!Limpiado
<1>2. /\ peticion' \in [{q1} -> Caido!Peticion] /\ peticion'[q1].pc = "idle"
      /\ peticion'[q1].nombre = Nada /\ peticion'[q1].fila = 0
  BY <1>1, AloneEnds
<1>3. disco' \in [Ficheros -> Contenidos \cup {Nada}]
  BY <1>1, AloneTypes
<1>4. CaidoTipos'
  BY <1>1, <1>2, <1>3, AloneTypes DEF CaidoTipos, EnMarcha
<1>5. caidas # 0
  BY <1>1 DEF CaidoInv, LoQueHay
<1> QED BY <1>1, <1>4, <1>5 DEF CaidoInv

\* A deletion removes the file ...
LEMMA AloneFileRemoved ==
    ASSUME CaidoInv, Caido!QuitarArchivo(q1)
    PROVE  CaidoInv'
<1> DEFINE q == peticion[q1]
<1>1. /\ q.pc = "borrar" /\ disco' = [disco EXCEPT ![q.nombre] = Nada]
      /\ Caido!A(q1, "quitar") /\ UNCHANGED <<filas, anunciado, operaciones, caidas>>
  BY DEF Caido!QuitarArchivo
<1>2. /\ peticion' \in [{q1} -> Caido!Peticion] /\ peticion'[q1].pc = "quitar"
      /\ peticion'[q1].nombre = q.nombre
      /\ peticion'[q1].contenido = q.contenido /\ peticion'[q1].fila = q.fila
  BY <1>1, AloneGoesOn
<1>3. q.nombre \in Ficheros /\ q.fila > 0
  BY <1>1, AloneTypes DEF EnMarcha
<1>4. /\ disco' \in [Ficheros -> Contenidos \cup {Nada}] /\ disco'[q.nombre] = Nada
      /\ \A n \in Ficheros \ {q.nombre} : disco'[n] = disco[n]
  BY <1>1, <1>3, AloneTypes
<1>5. CaidoTipos'
  BY <1>1, <1>2, <1>3, <1>4, AloneTypes DEF CaidoTipos, EnMarcha
<1>6. ASSUME caidas = 0 PROVE LoQueHay(peticion[q1])' /\ LosDemas'
  BY <1>6, <1>1, <1>2, <1>4, <1>3 DEF CaidoInv, LosDemas, LoQueHay
<1> QED BY <1>1, <1>5, <1>6 DEF CaidoInv

\* ... and then the row.
LEMMA AloneRowRemoved ==
    ASSUME CaidoInv, Caido!QuitarFila(q1)
    PROVE  CaidoInv'
<1> DEFINE q == peticion[q1]
<1>1. /\ q.pc = "quitar" /\ UNCHANGED <<disco, operaciones, caidas>>
      /\ filas' = [filas EXCEPT ![q.nombre] = IF @ = q.fila THEN 0 ELSE @]
      /\ anunciado' = anunciado \ {q.nombre}
      /\ peticion' = [peticion EXCEPT ![q1] = Caido!Libre]
  BY DEF Caido!QuitarFila, Caido!SinFila
<1>2. /\ peticion' \in [{q1} -> Caido!Peticion] /\ peticion'[q1].pc = "idle"
      /\ peticion'[q1].nombre = Nada /\ peticion'[q1].fila = 0
  BY <1>1, AloneEnds
<1>3. q.nombre \in Ficheros
  BY <1>1, AloneTypes DEF EnMarcha
<1>4. /\ filas' \in [Ficheros -> 0..MaxDeUnaEnUna]
      /\ filas'[q.nombre] = IF filas[q.nombre] = q.fila THEN 0 ELSE filas[q.nombre]
      /\ \A n \in Ficheros \ {q.nombre} : filas'[n] = filas[n]
  BY <1>1, <1>3, AloneTypes, FileAssumptions
<1>5. CaidoTipos'
  BY <1>1, <1>2, <1>3, <1>4, AloneTypes DEF CaidoTipos, EnMarcha
<1>6. ASSUME caidas = 0 PROVE LoQueHay(peticion[q1])' /\ LosDemas'
  <2>1. LoQueHay(q) /\ LosDemas
    BY <1>6 DEF CaidoInv
  <2>2. filas'[q.nombre] = 0 /\ disco[q.nombre] = Nada
    BY <1>1, <1>4, <2>1 DEF LoQueHay
  <2>3. LosDemas'
    BY <1>1, <1>4, <2>1, <2>2 DEF LosDemas
  <2>4. LoQueHay(peticion[q1])'
    BY <1>2 DEF LoQueHay
  <2> QED BY <2>3, <2>4
<1> QED BY <1>1, <1>5, <1>6 DEF CaidoInv

\* A request dies, and no more is said but of types.
LEMMA AloneDies ==
    ASSUME CaidoInv, Caido!Caer(q1)
    PROVE  CaidoInv'
<1>1. /\ UNCHANGED <<filas, disco, anunciado, operaciones>> /\ caidas' = caidas + 1
      /\ caidas' \in 1..MaxMuertas /\ peticion' = [peticion EXCEPT ![q1] = Caido!Libre]
  BY AloneTypes, FileAssumptions DEF Caido!Caer
<1>2. /\ peticion' \in [{q1} -> Caido!Peticion] /\ peticion'[q1].pc = "idle"
      /\ peticion'[q1].nombre = Nada /\ peticion'[q1].fila = 0
  BY <1>1, AloneEnds
<1>3. CaidoTipos'
  BY <1>1, <1>2, AloneTypes DEF CaidoTipos, EnMarcha
<1> QED BY <1>1, <1>3 DEF CaidoInv

\* Every step of the library keeps what is said of it.
LEMMA CaidoSigue ==
    ASSUME CaidoInv, [Caido!Next]_(Caido!vars)
    PROVE  CaidoInv'
<1>1. CASE UNCHANGED Caido!vars
  BY <1>1 DEF Caido!vars, CaidoInv, CaidoTipos, EnMarcha, LoQueHay, LosDemas
<1>2. CASE Caido!Next
  BY <1>2, AloneUploadBegins, AloneDeletionBegins, AloneFileWritten, AloneRowInserted,
     AloneFileCleaned, AloneFileRemoved, AloneRowRemoved, AloneDies DEF Caido!Next, Caido!Sigue
<1> QED BY <1>1, <1>2

\* Rows and files go together, until a request dies.
LEMMA CaidoDice == CaidoInv => Caido!TypeOK /\ (caidas = 0 => Caido!RowsMatchFiles)
<1> SUFFICES ASSUME CaidoInv PROVE Caido!TypeOK /\ (caidas = 0 => Caido!RowsMatchFiles)
  OBVIOUS
<1>1. Caido!TypeOK
  BY AloneTypes, FileAssumptions DEF Caido!TypeOK, Caido!Filas
<1>2. caidas = 0 => Caido!RowsMatchFiles
  BY DEF CaidoInv, LosDemas, Caido!RowsMatchFiles, Caido!EnUso
<1> QED BY <1>1, <1>2

\* Nobody has uploaded at first.
LEMMA LoMismoEmpieza == Caido!Init => LoMismo
BY DEF Caido!Init, Caido!Libre, LoMismo

\* Only the upload itself comes there, and nobody else writes meanwhile.
LEMMA LoMismoSigue ==
    ASSUME CaidoInv, LoMismo, [Caido!Next]_(Caido!vars)
    PROVE  LoMismo' /\ Caido!AnnouncedContent
<1>1. Caido!AnnouncedContent
  BY DEF Caido!AnnouncedContent, Caido!_store_library_file, LoMismo
<1>2. CASE UNCHANGED Caido!vars
  BY <1>1, <1>2 DEF Caido!vars, LoMismo
<1>3. CASE Caido!GuardarArchivo(q1)
  <2>1. peticion[q1].nombre \in Ficheros
    BY <1>3, AloneTypes DEF EnMarcha, Caido!GuardarArchivo
  <2>2. /\ disco' = [disco EXCEPT ![peticion[q1].nombre] = peticion[q1].contenido]
        /\ Caido!A(q1, "fila")
    BY <1>3 DEF Caido!GuardarArchivo, Caido!Sobrescrito
  <2>3. /\ peticion'[q1].nombre = peticion[q1].nombre
        /\ peticion'[q1].contenido = peticion[q1].contenido
    BY <2>2, AloneGoesOn
  <2>4. disco'[peticion[q1].nombre] = peticion[q1].contenido
    BY <2>1, <2>2, AloneTypes
  <2> QED BY <1>1, <2>3, <2>4 DEF LoMismo
<1>4. CASE Caido!_store_library_file(q1) \/ Caido!LimpiarArchivo(q1) \/ Caido!QuitarArchivo(q1)
           \/ Caido!QuitarFila(q1) \/ Caido!Caer(q1)
  BY <1>4, AloneEnds, AloneGoesOn, <1>1 DEF Caido!_store_library_file, Caido!LimpiarArchivo,
     Caido!QuitarArchivo, Caido!QuitarFila, Caido!Caer, LoMismo
<1>5. CASE Caido!upload_library_file(q1) \/ Caido!delete_library_file(q1)
  <2>1. \E f : peticion' = [peticion EXCEPT ![q1] = f] /\ f.pc # "fila"
    <3>1. CASE Caido!upload_library_file(q1)
      <4>1. PICK n, x : peticion' = [peticion EXCEPT ![q1] =
                [pc |-> "subir", nombre |-> n, contenido |-> x, fila |-> operaciones + 1]]
        BY <3>1, Zenon DEF Caido!upload_library_file
      <4>2. [pc |-> "subir", nombre |-> n, contenido |-> x, fila |-> operaciones + 1].pc # "fila"
        OBVIOUS
      <4> QED BY <4>1, <4>2
    <3>2. CASE Caido!delete_library_file(q1)
      <4>1. PICK n : peticion' = [peticion EXCEPT ![q1] =
                [Caido!Libre EXCEPT !.pc = "borrar", !.nombre = n, !.fila = filas[n]]]
        BY <3>2 DEF Caido!delete_library_file
      <4>2. [Caido!Libre EXCEPT !.pc = "borrar", !.nombre = n, !.fila = filas[n]].pc # "fila"
        BY DEF Caido!Libre
      <4> QED BY <4>1, <4>2
    <3> QED BY <1>5, <3>1, <3>2
  <2>2. peticion'[q1].pc # "fila"
    BY <2>1, AloneTypes
  <2> QED BY <1>1, <2>2 DEF LoMismo
<1>6. CASE Caido!Next
  BY <1>6, <1>3, <1>4, <1>5 DEF Caido!Next, Caido!Sigue
<1> QED BY <1>2, <1>6

----------------------------------------
(* The order of a course (CourseIndex), for any number of requests *)

\* The constants of the order.
LEMMA OrdenConstants ==
    ASSUME NEW k, Orden(k)!IndexAssumption
    PROVE  /\ Nada \notin FilasDe(k) \cup k.peticiones /\ curso \notin FilasDe(k)
           /\ Secciones \cap k.recursos = {}
           /\ k.indice \in Nat /\ k.maximo \in Nat /\ k.caidas \in Nat /\ k.bloqueo \in BOOLEAN
           /\ IsFiniteSet(Secciones) /\ Cardinality(Secciones) <= k.indice + 1
           /\ IsFiniteSet(k.recursos) /\ Cardinality(k.recursos) <= k.indice + 1
           /\ Orden(k)!Filas = FilasDe(k)
<1>1. /\ \A S : Orden(k)!Cardinality(S) = Cardinality(S)
      /\ \A S : Orden(k)!IsFiniteSet(S) = IsFiniteSet(S)
  BY DEF Orden!Cardinality, Cardinality, Orden!IsFiniteSet, IsFiniteSet
<1>2. Orden(k)!Filas = FilasDe(k)
  BY DEF Orden!Filas, FilasDe
<1>3. \A l \in {Secciones, k.recursos} :
         Orden(k)!IsFiniteSet(l) /\ Orden(k)!Cardinality(l) <= k.indice + 1
  BY Zenon DEF Orden!IndexAssumption
<1>4. /\ IsFiniteSet(Secciones) /\ Cardinality(Secciones) <= k.indice + 1
      /\ IsFiniteSet(k.recursos) /\ Cardinality(k.recursos) <= k.indice + 1
  BY <1>1, <1>3
<1>5. /\ Nada \notin Orden(k)!Filas \cup k.peticiones /\ curso \notin Orden(k)!Filas
      /\ Secciones \cap k.recursos = {} /\ k.bloqueo \in BOOLEAN
  BY Zenon DEF Orden!IndexAssumption
<1>6. {k.indice, k.maximo, k.caidas} \subseteq Nat
  BY Zenon DEF Orden!IndexAssumption
<1>7. Nada \notin FilasDe(k) \cup k.peticiones /\ curso \notin FilasDe(k)
  BY Zenon, <1>2, <1>5
<1>8. k.indice \in Nat /\ k.maximo \in Nat /\ k.caidas \in Nat
  BY Zenon, <1>6
<1> QED BY Zenon, <1>2, <1>4, <1>5, <1>7, <1>8

\* A request that has not begun is one.
LEMMA OrdenLibre ==
    ASSUME NEW k, Orden(k)!IndexAssumption
    PROVE  Orden(k)!Libre \in OrdenPide(k) /\ Orden(k)!Libre.pc = "idle"
BY OrdenConstants DEF Orden!Libre, Orden!Peticion, OrdenPide, OrdenForma

\* No request at first.
LEMMA OrdenEmpieza ==
    ASSUME NEW k, Orden(k)!IndexAssumption, Orden(k)!Init,
           k.comienzo \in [FilasDe(k) -> 0..k.indice + 1],
           \A x \in k.recursos : k.comienzo[x] = 0
    PROVE  OrdenInv(k)
<1>1. /\ indice = k.comienzo
      /\ padre = [x \in FilasDe(k) |-> IF indice[x] = 0 THEN Nada
                      ELSE IF x \in Secciones THEN curso
                           ELSE [y \in Secciones \cup k.recursos |-> Nada][x]]
      /\ cerradura = [x \in FilasDe(k) |-> Nada]
      /\ peticion = [p \in k.peticiones |-> Orden(k)!Libre]
      /\ operaciones = 0 /\ caidas = 0
  BY OrdenConstants DEF Orden!Init
<1>2. indice \in [FilasDe(k) -> 0..k.indice + 1]
  BY <1>1
<1>3. \A x \in FilasDe(k) : indice[x] # 0 => x \in Secciones
  BY <1>1 DEF FilasDe
<1>4. /\ padre \in [FilasDe(k) -> Secciones \cup {curso, Nada}]
      /\ OrdenPadres(k)
  BY <1>1, <1>3 DEF OrdenPadres
<1>5. peticion \in [k.peticiones -> OrdenPide(k)] /\ OrdenNuevas(k)
  BY <1>1, OrdenLibre DEF OrdenNuevas
<1>6. operaciones \in 0..k.maximo /\ caidas \in 0..k.caidas
  BY <1>1, OrdenConstants
<1> QED BY <1>1, <1>2, <1>4, <1>5, <1>6 DEF OrdenInv

\* What a step has to show.
LEMMA OrdenBasta ==
    ASSUME NEW k, Orden(k)!IndexAssumption, OrdenInv(k), NEW p, NEW g, OrdenSirve(k, p, g),
           OrdenFilas(k),
           \A o \in k.peticiones :
               o # p /\ peticion[o].pc = "insertar" => indice'[peticion[o].fila] = 0
    PROVE  OrdenInv(k)'
<1>1. peticion \in [k.peticiones -> OrdenPide(k)] /\ OrdenNuevas(k)
  BY DEF OrdenInv
<1>2. peticion' \in [k.peticiones -> OrdenPide(k)]
  BY <1>1 DEF OrdenSirve
<1>3. peticion'[p] = g /\ \A o \in k.peticiones : o # p => peticion'[o] = peticion[o]
  BY <1>1 DEF OrdenSirve
<1>4. ASSUME NEW o \in k.peticiones, peticion'[o].pc = "insertar"
      PROVE  indice'[peticion'[o].fila] = 0
  BY <1>3, <1>4 DEF OrdenSirve
<1>5. ASSUME NEW o \in k.peticiones, NEW n \in k.peticiones, o # n,
             peticion'[o].pc = "insertar", peticion'[n].pc = "insertar"
      PROVE  peticion'[o].fila # peticion'[n].fila
  BY <1>3, <1>5, <1>1 DEF OrdenSirve, OrdenNuevas
<1>6. OrdenNuevas(k)'
  BY <1>4, <1>5 DEF OrdenNuevas
<1> QED BY <1>2, <1>6 DEF OrdenInv, OrdenFilas

\* Locks are held by requests, and those of one can be let go.
LEMMA OrdenSuelta ==
    ASSUME NEW k, Orden(k)!IndexAssumption, OrdenInv(k), NEW p, Orden(k)!Soltar(p)
    PROVE  /\ cerradura' \in [FilasDe(k) -> k.peticiones \cup {Nada}]
           /\ \A x \in FilasDe(k) : cerradura'[x] = IF cerradura[x] = p THEN Nada ELSE cerradura[x]
<1>1. cerradura' = [x \in FilasDe(k) |-> IF cerradura[x] = p THEN Nada ELSE cerradura[x]]
  BY OrdenConstants DEF Orden!Soltar
<1> QED BY <1>1 DEF OrdenInv

\* A request that ends.
LEMMA OrdenTermina ==
    ASSUME NEW k, Orden(k)!IndexAssumption, OrdenInv(k), NEW p \in k.peticiones,
           peticion' = [peticion EXCEPT ![p] = Orden(k)!Libre]
    PROVE  OrdenSirve(k, p, Orden(k)!Libre)
BY OrdenLibre DEF OrdenSirve

\* The rows of a list are of one kind, and there is room for their numbers.
LEMMA OrdenHijos ==
    ASSUME NEW k, Orden(k)!IndexAssumption, OrdenInv(k)
    PROVE  /\ \A l, x : x \in Orden(k)!Hijos(l) <=> x \in FilasDe(k) /\ indice[x] > 0 /\ padre[x] = l
           /\ Orden(k)!Hijos(curso) \subseteq Secciones
           /\ \A s \in Secciones : Orden(k)!Hijos(s) \subseteq k.recursos
           /\ \A l \in Secciones \cup {curso} :
                 /\ IsFiniteSet(Orden(k)!Hijos(l))
                 /\ Cardinality(Orden(k)!Hijos(l)) \in 0..k.indice + 1
<1>0. /\ indice \in [FilasDe(k) -> 0..k.indice + 1] /\ OrdenPadres(k)
      /\ curso \notin FilasDe(k) /\ Secciones \subseteq FilasDe(k) /\ Secciones \cap k.recursos = {}
      /\ k.indice \in Nat
  BY OrdenConstants DEF OrdenInv, FilasDe
<1>1. ASSUME NEW l, NEW x
      PROVE  x \in Orden(k)!Hijos(l) <=> x \in FilasDe(k) /\ indice[x] > 0 /\ padre[x] = l
  BY OrdenConstants DEF Orden!Hijos, Orden!Existe
<1>2. Orden(k)!Hijos(curso) \subseteq Secciones
  BY <1>0, <1>1 DEF OrdenPadres
<1>3. ASSUME NEW s \in Secciones PROVE Orden(k)!Hijos(s) \subseteq k.recursos
  BY <1>0, <1>1 DEF OrdenPadres, FilasDe
<1>4. ASSUME NEW l \in Secciones \cup {curso}
      PROVE  /\ IsFiniteSet(Orden(k)!Hijos(l))
             /\ Cardinality(Orden(k)!Hijos(l)) \in 0..k.indice + 1
  <2>1. Orden(k)!Hijos(l) \subseteq Secciones \/ Orden(k)!Hijos(l) \subseteq k.recursos
    BY <1>2, <1>3
  <2> DEFINE H == Orden(k)!Hijos(l)
  <2> HIDE DEF H
  <2>2. ASSUME NEW T, IsFiniteSet(T), Cardinality(T) <= k.indice + 1, H \subseteq T
        PROVE  IsFiniteSet(H) /\ Cardinality(H) \in 0..k.indice + 1
    BY <2>2, FS_Subset, FS_CardinalityType, <1>0
  <2>3. IsFiniteSet(H) /\ Cardinality(H) \in 0..k.indice + 1
    BY <2>1, <2>2, OrdenConstants DEF H
  <2> QED BY <2>3 DEF H
<1> QED BY <1>1, <1>2, <1>3, <1>4

\* The number of a new row.
LEMMA OrdenNuevo ==
    ASSUME NEW k, Orden(k)!IndexAssumption, OrdenInv(k), NEW l \in Secciones \cup {curso}
    PROVE  /\ Orden(k)!NuevoIndice(l) = Cardinality(Orden(k)!Hijos(l)) + 1
           /\ Orden(k)!NuevoIndice(l) \in Nat /\ Orden(k)!NuevoIndice(l) >= 1
<1>1. Orden(k)!Cardinality(Orden(k)!Hijos(l)) = Cardinality(Orden(k)!Hijos(l))
  BY DEF Orden!Cardinality, Cardinality
<1>2. Cardinality(Orden(k)!Hijos(l)) \in Nat
  BY OrdenHijos, OrdenConstants
<1> QED BY <1>1, <1>2 DEF Orden!NuevoIndice

\* Nothing is written.
LEMMA OrdenQuieto ==
    ASSUME NEW k, Orden(k)!IndexAssumption, OrdenInv(k), UNCHANGED <<indice, padre>>,
           cerradura' \in [FilasDe(k) -> k.peticiones \cup {Nada}],
           operaciones' \in 0..k.maximo, caidas' \in 0..k.caidas,
           NEW p, NEW g, OrdenSirve(k, p, g)
    PROVE  OrdenInv(k)'
<1>1. OrdenFilas(k)
  BY DEF OrdenInv, OrdenFilas, OrdenPadres
<1>2. \A o \in k.peticiones : o # p /\ peticion[o].pc = "insertar" => indice'[peticion[o].fila] = 0
  BY DEF OrdenInv, OrdenNuevas
<1> QED BY <1>1, <1>2, OrdenBasta

\* ... of a section or a resource.
LEMMA OrdenCrea ==
    ASSUME NEW k, Orden(k)!IndexAssumption, OrdenInv(k), NEW p \in k.peticiones,
           Orden(k)!nuevo_seccion(p) \/ Orden(k)!nuevo_recurso(p)
    PROVE  OrdenInv(k)'
<1>1. PICK l \in Secciones \cup {curso}, x \in FilasDe(k) :
          /\ (x \in Secciones /\ l = curso) \/ (x \in k.recursos /\ l \in Secciones)
          /\ OrdenCreada(k, p, l, x)
  <2>1. CASE Orden(k)!nuevo_seccion(p)
    <3>1. PICK x \in Secciones : OrdenCreada(k, p, curso, x)
      BY Zenon, <2>1 DEF Orden!nuevo_seccion, OrdenCreada
    <3>2. x \in FilasDe(k) /\ curso \in Secciones \cup {curso}
      BY DEF FilasDe
    <3> QED BY Zenon, <3>1, <3>2
  <2>2. CASE Orden(k)!nuevo_recurso(p)
    <3>1. PICK l \in Secciones, x \in k.recursos : OrdenCreada(k, p, l, x)
      BY Zenon, <2>2 DEF Orden!nuevo_recurso, OrdenCreada
    <3>2. x \in FilasDe(k) /\ l \in Secciones \cup {curso}
      BY DEF FilasDe
    <3> QED BY Zenon, <3>1, <3>2
  <2> QED BY <2>1, <2>2
<1>2. /\ UNCHANGED <<indice, padre, cerradura, caidas>>
      /\ operaciones < k.maximo /\ operaciones' = operaciones + 1
  BY Zenon DEF Orden!nuevo_seccion, Orden!nuevo_recurso, Orden!Pedir
<1>3. PICK g : g = [Orden(k)!Libre EXCEPT !.pc = "insertar", !.lista = l, !.fila = x,
                                          !.indice = Orden(k)!NuevoIndice(l)]
  OBVIOUS
<1>4. Orden(k)!NuevoIndice(l) \in 1..k.indice
  BY <1>1, OrdenNuevo, OrdenConstants DEF OrdenCreada
<1>5. g \in OrdenPide(k) /\ g.pc = "insertar" /\ g.fila = x
  <2>1. g = [pc |-> "insertar", lista |-> l, fila |-> x, indice |-> Orden(k)!NuevoIndice(l),
             tarea |-> "increment", actual |-> Nada, superior |-> Nada, inferior |-> Nada,
             espera |-> Nada]
    BY <1>3 DEF Orden!Libre
  <2>2. g \in Orden(k)!Peticion
    BY <1>1, <1>4, <2>1, OrdenConstants DEF Orden!Peticion
  <2>3. OrdenForma(k, g)
    BY <1>1, <1>4, <2>1 DEF OrdenForma
  <2> QED BY <2>1, <2>2, <2>3 DEF OrdenPide
<1>6. indice[x] = 0
  BY <1>1, OrdenConstants DEF OrdenInv, Orden!Existe, OrdenCreada
<1>7. OrdenSirve(k, p, g)
  BY <1>1, <1>3, <1>2, <1>5, <1>6 DEF OrdenCreada, OrdenSirve
<1>8. /\ cerradura' \in [FilasDe(k) -> k.peticiones \cup {Nada}]
      /\ operaciones' \in 0..k.maximo /\ caidas' \in 0..k.caidas
  BY <1>2, OrdenConstants DEF OrdenInv
<1> QED BY <1>2, <1>7, <1>8, OrdenQuieto

\* The row is inserted, unless its section has gone.
LEMMA OrdenInserta ==
    ASSUME NEW k, Orden(k)!IndexAssumption, OrdenInv(k), NEW p \in k.peticiones,
           Orden(k)!Insertar(p)
    PROVE  OrdenInv(k)'
<1>0. PICK q : q = peticion[p]
  OBVIOUS
<1>1. /\ q.pc = "insertar" /\ indice[q.fila] = 0 /\ OrdenForma(k, q)
      /\ q.fila \in FilasDe(k) /\ q.indice \in 1..k.indice
      /\ (q.fila \in Secciones /\ q.lista = curso) \/ (q.fila \in k.recursos /\ q.lista \in Secciones)
  BY <1>0 DEF Orden!Insertar, OrdenInv, OrdenNuevas, OrdenPide, OrdenForma, FilasDe
<1>2. /\ \/ UNCHANGED <<indice, padre>>
         \/ indice' = [indice EXCEPT ![q.fila] = q.indice] /\ padre' = [padre EXCEPT ![q.fila] = q.lista]
      /\ Orden(k)!Terminar(p)
  BY <1>0, Zenon DEF Orden!Insertar
<1>3. /\ OrdenSirve(k, p, Orden(k)!Libre)
      /\ cerradura' \in [FilasDe(k) -> k.peticiones \cup {Nada}]
      /\ operaciones' \in 0..k.maximo /\ caidas' \in 0..k.caidas
  BY <1>2, OrdenTermina, OrdenSuelta DEF Orden!Terminar, OrdenInv
<1>4. CASE UNCHANGED <<indice, padre>>
  BY <1>3, <1>4, OrdenQuieto
<1>5. CASE indice' = [indice EXCEPT ![q.fila] = q.indice] /\ padre' = [padre EXCEPT ![q.fila] = q.lista]
  <2>1. /\ indice' \in [FilasDe(k) -> 0..k.indice + 1]
        /\ padre' \in [FilasDe(k) -> Secciones \cup {curso, Nada}]
        /\ \A x \in FilasDe(k) : x # q.fila => indice'[x] = indice[x] /\ padre'[x] = padre[x]
        /\ indice'[q.fila] = q.indice /\ padre'[q.fila] = q.lista
    BY <1>1, <1>5, OrdenConstants DEF OrdenInv
  <2>2. OrdenPadres(k)'
    BY <1>1, OrdenConstants, <2>1 DEF OrdenInv, OrdenPadres
  <2>3. OrdenFilas(k)
    BY <1>3, <2>1, <2>2 DEF OrdenFilas
  <2>4. ASSUME NEW o \in k.peticiones, o # p, peticion[o].pc = "insertar"
        PROVE  indice'[peticion[o].fila] = 0
    BY <1>0, <1>1, <2>4, <2>1 DEF OrdenInv, OrdenNuevas, OrdenPide, OrdenForma, FilasDe
  <2> QED BY <1>3, <2>3, <2>4, OrdenBasta
<1> QED BY <1>2, <1>4, <1>5

\* ... of the course or of a section.
LEMMA OrdenMueve ==
    ASSUME NEW k, Orden(k)!IndexAssumption, OrdenInv(k), NEW p \in k.peticiones,
           Orden(k)!modificar_indice_curso(p) \/ Orden(k)!modificar_indice_seccion(p)
    PROVE  OrdenInv(k)'
<1>1. PICK l \in Secciones \cup {curso}, i \in 1..k.indice + 1, t \in {"increment", "decrement"} :
          OrdenMovida(k, p, l, i, t)
  <2>0. /\ indice \in [FilasDe(k) -> 0..k.indice + 1] /\ OrdenPadres(k) /\ k.indice \in Nat
        /\ Secciones \cap k.recursos = {}
    BY OrdenConstants DEF OrdenInv
  <2>1. CASE Orden(k)!modificar_indice_curso(p)
    <3>1. PICK x \in Orden(k)!Hijos(curso), t \in {"increment", "decrement"} :
              OrdenMovida(k, p, curso, indice[x], t)
      BY Zenon, <2>1 DEF Orden!modificar_indice_curso, OrdenMovida
    <3>2. indice[x] \in 1..k.indice + 1
      BY <2>0, OrdenHijos
    <3> QED BY <3>1, <3>2
  <2>2. CASE Orden(k)!modificar_indice_seccion(p)
    <3>1. PICK x \in k.recursos, t \in {"increment", "decrement"} :
              Orden(k)!Existe(x) /\ OrdenMovida(k, p, padre[x], indice[x], t)
      BY Zenon, <2>2 DEF Orden!modificar_indice_seccion, OrdenMovida
    <3>2. indice[x] \in 1..k.indice + 1 /\ padre[x] \in Secciones
      BY <2>0, <3>1 DEF Orden!Existe, OrdenPadres, FilasDe
    <3> QED BY <3>1, <3>2
  <2> QED BY <2>1, <2>2
<1>2. /\ UNCHANGED <<indice, padre, cerradura, caidas>>
      /\ operaciones < k.maximo /\ operaciones' = operaciones + 1
  BY Zenon DEF Orden!modificar_indice_curso, Orden!modificar_indice_seccion, Orden!Pedir
<1>3. PICK g : g = [Orden(k)!Libre EXCEPT !.pc = "actual", !.lista = l, !.indice = i, !.tarea = t]
  OBVIOUS
<1>4. g \in OrdenPide(k) /\ g.pc = "actual"
  <2>1. g = [pc |-> "actual", lista |-> l, fila |-> Nada, indice |-> i, tarea |-> t,
             actual |-> Nada, superior |-> Nada, inferior |-> Nada, espera |-> Nada]
    BY <1>3 DEF Orden!Libre
  <2>2. g \in Orden(k)!Peticion
    BY <1>1, <2>1, OrdenConstants DEF Orden!Peticion
  <2>3. OrdenForma(k, g)
    BY <1>1, <2>1, OrdenConstants DEF OrdenForma, OrdenMovida
  <2> QED BY <2>1, <2>2, <2>3 DEF OrdenPide
<1>5. OrdenSirve(k, p, g)
  BY <1>1, <1>3, <1>4 DEF OrdenMovida, OrdenSirve
<1>6. /\ cerradura' \in [FilasDe(k) -> k.peticiones \cup {Nada}]
      /\ operaciones' \in 0..k.maximo /\ caidas' \in 0..k.caidas
  BY <1>2, OrdenConstants DEF OrdenInv
<1> QED BY <1>2, <1>5, <1>6, OrdenQuieto

\* The order in which the rows are looked for.
LEMMA OrdenDespues ==
    ASSUME NEW k, NEW q, Orden(k)!Buscando(q)
    PROVE  /\ Orden(k)!Despues(q) \in {"superior", "inferior", "guardar"}
           /\ q.pc = "actual" => Orden(k)!Buscado(q) = q.indice
           /\ q.pc = "superior" => Orden(k)!Buscado(q) = q.indice + 1
           /\ q.pc = "inferior" => Orden(k)!Buscado(q) = q.indice - 1
BY DEF Orden!Buscando, Orden!Despues, Orden!Buscado

\* A search ends.
LEMMA OrdenHalla ==
    ASSUME NEW k, Orden(k)!IndexAssumption, OrdenInv(k), NEW p \in k.peticiones,
           NEW q, q = peticion[p], Orden(k)!Buscando(q),
           NEW x \in FilasDe(k) \cup {Nada}, Orden(k)!Hallar(p, x)
    PROVE  \/ /\ q.pc = "actual" /\ x = Nada /\ q.lista = curso
              /\ peticion' = [peticion EXCEPT ![p] = Orden(k)!Libre]
           \/ /\ ~(q.pc = "actual" /\ x = Nada /\ q.lista = curso)
              /\ \E g \in Orden(k)!Peticion :
                    peticion' = [peticion EXCEPT ![p] = g] /\ OrdenHallado(k, q, x, g)
<1>1. q \in Orden(k)!Peticion /\ Orden(k)!Filas = FilasDe(k)
  BY OrdenConstants DEF OrdenInv, OrdenPide
<1>2. CASE q.pc = "actual" /\ x = Nada /\ q.lista = curso
  BY <1>2 DEF Orden!Hallar
<1>3. CASE ~(q.pc = "actual" /\ x = Nada /\ q.lista = curso)
  <2>1. peticion' = [peticion EXCEPT ![p] =
            [[q EXCEPT ![q.pc] = x, !.espera = Nada] EXCEPT !.pc = Orden(k)!Despues(q)]]
    BY <1>3 DEF Orden!Hallar
  <2>2. PICK g : g = [[q EXCEPT ![q.pc] = x, !.espera = Nada] EXCEPT !.pc = Orden(k)!Despues(q)]
    OBVIOUS
  <2>3. Orden(k)!Despues(q) \in {"superior", "inferior", "guardar"}
    BY OrdenDespues
  <2>4. g \in Orden(k)!Peticion /\ OrdenHallado(k, q, x, g)
    <3>1. CASE q.pc = "actual"
      BY <1>1, <2>2, <3>1, <2>3 DEF Orden!Peticion, OrdenHallado
    <3>2. CASE q.pc = "superior"
      BY <1>1, <2>2, <3>2, <2>3 DEF Orden!Peticion, OrdenHallado
    <3>3. CASE q.pc = "inferior"
      BY <1>1, <2>2, <3>3, <2>3 DEF Orden!Peticion, OrdenHallado
    <3> QED BY <3>1, <3>2, <3>3 DEF Orden!Buscando
  <2>5. peticion' = [peticion EXCEPT ![p] = g]
    BY <2>1, <2>2
  <2> QED BY <1>3, <2>4, <2>5
<1> QED BY <1>2, <1>3

\* The request is then still of its form.
LEMMA OrdenSigueForma ==
    ASSUME NEW k, Orden(k)!IndexAssumption, OrdenInv(k), NEW q \in OrdenPide(k),
           Orden(k)!Buscando(q), NEW x, OrdenEnSuLugar(k, q, x),
           ~(q.pc = "actual" /\ x = Nada /\ q.lista = curso),
           NEW g \in Orden(k)!Peticion, OrdenHallado(k, q, x, g)
    PROVE  g \in OrdenPide(k)
<1>1. /\ q.lista \in Secciones \cup {curso} /\ q.indice \in 1..k.indice + 1
      /\ q.tarea = "increment" => q.indice <= k.indice
      /\ q.inferior # Nada => q.indice # 1
      /\ {q.actual, q.superior, q.inferior} \subseteq
             {Nada} \cup (IF q.lista = curso THEN Secciones ELSE k.recursos)
      /\ q.lista = curso /\ q.pc \in {"superior", "inferior"} => q.actual # Nada
  BY DEF OrdenPide, OrdenForma, Orden!Buscando
<1>2. x \in {Nada} \cup (IF q.lista = curso THEN Secciones ELSE k.recursos)
  BY <1>1, OrdenHijos DEF OrdenEnSuLugar
<1>3. x # Nada => indice[x] > 0 /\ indice[x] = Orden(k)!Buscado(q)
  BY OrdenHijos DEF OrdenEnSuLugar
<1>4. q.pc = "inferior" /\ x # Nada => q.indice # 1
  BY <1>1, <1>3, OrdenDespues
<1>5. /\ g.pc \in {"superior", "inferior", "guardar"} /\ g.espera = Nada
      /\ g.lista = q.lista /\ g.indice = q.indice /\ g.tarea = q.tarea
  BY OrdenDespues DEF OrdenHallado
<1>6. {g.actual, g.superior, g.inferior} \subseteq
          {Nada} \cup (IF q.lista = curso THEN Secciones ELSE k.recursos)
  BY <1>1, <1>2 DEF OrdenHallado
<1>7. g.inferior # Nada => q.indice # 1
  BY <1>1, <1>4 DEF OrdenHallado
<1>8. q.lista = curso => g.actual # Nada
  BY <1>1 DEF OrdenHallado, Orden!Buscando
<1>9. OrdenForma(k, g)
  BY <1>1, <1>5, <1>6, <1>7, <1>8 DEF OrdenForma
<1> QED BY <1>9 DEF OrdenPide

\* What a search does.
LEMMA OrdenBuscando ==
    ASSUME NEW k, Orden(k)!IndexAssumption, OrdenInv(k), NEW p \in k.peticiones,
           Orden(k)!BuscarFila(p) \/ Orden(k)!Despertar(p), NEW q, q = peticion[p]
    PROVE  /\ Orden(k)!Buscando(q) /\ OrdenBusca(k, p, q)
           /\ UNCHANGED <<indice, padre, operaciones, caidas>>
<1>0. q \in OrdenPide(k) /\ Orden(k)!Filas = FilasDe(k)
  BY OrdenConstants DEF OrdenInv
<1>1. CASE Orden(k)!BuscarFila(p)
  <2> DEFINE filas_ == Orden(k)!En(q.lista, Orden(k)!Buscado(q))
  <2>1. /\ Orden(k)!Buscando(q) /\ UNCHANGED <<indice, padre, operaciones, caidas>>
        /\ \/ /\ filas_ = {} /\ Orden(k)!Hallar(p, Nada)
              /\ \/ q.pc = "actual" /\ q.lista = curso /\ Orden(k)!Soltar(p)
                 \/ UNCHANGED cerradura
           \/ \E x \in FilasDe(k) :
                 /\ filas_ = {x} /\ Orden(k)!Hallar(p, x)
                 /\ Orden(k)!Bloquea(q) => cerradura[x] \in {Nada, p}
                 /\ cerradura' = IF Orden(k)!Bloquea(q) THEN [cerradura EXCEPT ![x] = p] ELSE cerradura
           \/ \E x \in FilasDe(k) :
                 /\ filas_ = {x} /\ Orden(k)!Bloquea(q) /\ UNCHANGED cerradura
                 /\ peticion' = [peticion EXCEPT ![p].espera = x]
           \/ peticion' = [peticion EXCEPT ![p] = Orden(k)!Libre] /\ Orden(k)!Soltar(p)
    BY <1>0, <1>1, Zenon DEF Orden!BuscarFila
  <2>2. \A x \in filas_ : x \in Orden(k)!Hijos(q.lista) /\ indice[x] = Orden(k)!Buscado(q)
    BY DEF Orden!En
  <2> HIDE DEF filas_
  <2>3. CASE filas_ = {} /\ Orden(k)!Hallar(p, Nada)
             /\ ((q.pc = "actual" /\ q.lista = curso /\ Orden(k)!Soltar(p)) \/ UNCHANGED cerradura)
    BY <2>1, <2>3 DEF OrdenBusca, OrdenEncuentra, OrdenEnSuLugar
  <2>4. ASSUME NEW x \in FilasDe(k), filas_ = {x}, Orden(k)!Hallar(p, x),
               Orden(k)!Bloquea(q) => cerradura[x] \in {Nada, p},
               cerradura' = IF Orden(k)!Bloquea(q) THEN [cerradura EXCEPT ![x] = p] ELSE cerradura
        PROVE  OrdenBusca(k, p, q)
    BY <2>2, <2>4, OrdenConstants DEF OrdenEnSuLugar, OrdenEncuentra, OrdenBusca
  <2>5. ASSUME NEW x \in FilasDe(k), filas_ = {x}, Orden(k)!Bloquea(q), UNCHANGED cerradura,
               peticion' = [peticion EXCEPT ![p].espera = x]
        PROVE  OrdenBusca(k, p, q)
    BY <2>2, <2>5, Zenon DEF OrdenBusca
  <2>6. CASE peticion' = [peticion EXCEPT ![p] = Orden(k)!Libre] /\ Orden(k)!Soltar(p)
    BY <2>1, <2>6, Zenon DEF OrdenBusca
  <2>7. OrdenBusca(k, p, q)
    BY <2>1, <2>3, <2>4, <2>5, <2>6
  <2> QED BY <2>1, <2>7
<1>2. CASE Orden(k)!Despertar(p)
  <2>1. /\ UNCHANGED <<indice, padre, operaciones, caidas>> /\ q.espera # Nada
        /\ \/ /\ Orden(k)!Existe(q.espera) /\ indice[q.espera] = Orden(k)!Buscado(q)
              /\ cerradura[q.espera] = Nada /\ Orden(k)!Hallar(p, q.espera)
              /\ cerradura' = [cerradura EXCEPT ![q.espera] = p]
           \/ /\ Orden(k)!Hallar(p, Nada)
              /\ (q.pc = "actual" /\ Orden(k)!Soltar(p)) \/ UNCHANGED cerradura
    BY <1>2, Zenon DEF Orden!Despertar
  <2>2. /\ Orden(k)!Buscando(q) /\ q.lista = curso /\ k.bloqueo
        /\ q.espera \in Secciones /\ q.espera \in FilasDe(k)
    BY <1>0, <2>1 DEF OrdenPide, OrdenForma, Orden!Buscando, FilasDe
  <2>3. Orden(k)!Bloquea(q)
    BY <2>2 DEF Orden!Bloquea
  <2>4. CASE /\ Orden(k)!Existe(q.espera) /\ indice[q.espera] = Orden(k)!Buscado(q)
             /\ cerradura[q.espera] = Nada /\ Orden(k)!Hallar(p, q.espera)
             /\ cerradura' = [cerradura EXCEPT ![q.espera] = p]
    <3>1. q.espera \in Orden(k)!Hijos(q.lista)
      <4>1. indice[q.espera] > 0
        BY <2>4 DEF Orden!Existe
      <4>2. padre[q.espera] = curso
        BY <2>2, <4>1 DEF OrdenInv, OrdenPadres
      <4> QED BY <2>2, <4>1, <4>2, OrdenHijos
    <3>2. OrdenEncuentra(k, p, q, q.espera)
      BY <2>1, <2>3, <2>4, <3>1 DEF OrdenEncuentra, OrdenEnSuLugar
    <3> QED BY <2>1, <2>2, <3>2 DEF OrdenBusca
  <2>5. CASE /\ Orden(k)!Hallar(p, Nada)
             /\ (q.pc = "actual" /\ Orden(k)!Soltar(p)) \/ UNCHANGED cerradura
    BY <2>2, <2>5, <2>1 DEF OrdenEncuentra, OrdenEnSuLugar, OrdenBusca
  <2> QED BY <2>1, <2>4, <2>5
<1> QED BY <1>1, <1>2

\* A search goes on.
LEMMA OrdenRecorre ==
    ASSUME NEW k, Orden(k)!IndexAssumption, OrdenInv(k), NEW p \in k.peticiones,
           Orden(k)!BuscarFila(p) \/ Orden(k)!Despertar(p)
    PROVE  OrdenInv(k)'
<1>0. PICK q : q = peticion[p]
  OBVIOUS
<1>1. /\ Orden(k)!Buscando(q) /\ OrdenBusca(k, p, q)
      /\ UNCHANGED <<indice, padre, operaciones, caidas>>
  BY <1>0, OrdenBuscando
<1>2. /\ q \in OrdenPide(k) /\ q \in Orden(k)!Peticion
      /\ cerradura \in [FilasDe(k) -> k.peticiones \cup {Nada}]
      /\ operaciones' \in 0..k.maximo /\ caidas' \in 0..k.caidas
  BY <1>0, <1>1 DEF OrdenInv, OrdenPide
<1>3. Orden(k)!Soltar(p) => cerradura' \in [FilasDe(k) -> k.peticiones \cup {Nada}]
  BY OrdenSuelta
<1>4. ASSUME NEW x \in FilasDe(k) \cup {Nada}, OrdenEncuentra(k, p, q, x)
      PROVE  OrdenInv(k)'
  <2>1. cerradura' \in [FilasDe(k) -> k.peticiones \cup {Nada}]
    BY <1>2, <1>3, <1>4 DEF OrdenEncuentra
  <2>2. \/ /\ q.pc = "actual" /\ x = Nada /\ q.lista = curso
           /\ peticion' = [peticion EXCEPT ![p] = Orden(k)!Libre]
        \/ /\ ~(q.pc = "actual" /\ x = Nada /\ q.lista = curso)
           /\ \E g \in Orden(k)!Peticion :
                 peticion' = [peticion EXCEPT ![p] = g] /\ OrdenHallado(k, q, x, g)
    BY <1>0, <1>1, <1>4, OrdenHalla DEF OrdenEncuentra
  <2>3. CASE peticion' = [peticion EXCEPT ![p] = Orden(k)!Libre]
    BY <1>1, <1>2, <2>1, <2>3, OrdenTermina, OrdenQuieto
  <2>4. CASE /\ ~(q.pc = "actual" /\ x = Nada /\ q.lista = curso)
             /\ \E g \in Orden(k)!Peticion :
                   peticion' = [peticion EXCEPT ![p] = g] /\ OrdenHallado(k, q, x, g)
    <3>1. PICK g \in Orden(k)!Peticion :
              peticion' = [peticion EXCEPT ![p] = g] /\ OrdenHallado(k, q, x, g)
      BY <2>4
    <3>2. g \in OrdenPide(k) /\ g.pc # "insertar"
      BY <1>1, <1>2, <1>4, <2>4, <3>1, OrdenSigueForma, OrdenDespues DEF OrdenEncuentra, OrdenHallado
    <3>3. OrdenSirve(k, p, g)
      BY <3>1, <3>2 DEF OrdenSirve
    <3> QED BY <1>1, <1>2, <2>1, <3>3, OrdenQuieto
  <2> QED BY <2>2, <2>3, <2>4
<1>5. ASSUME NEW x \in Orden(k)!Hijos(q.lista), Orden(k)!Bloquea(q), UNCHANGED cerradura,
             peticion' = [peticion EXCEPT ![p].espera = x]
      PROVE  OrdenInv(k)'
  <2>1. PICK g : g = [q EXCEPT !.espera = x]
    OBVIOUS
  <2>2. /\ x \in FilasDe(k) /\ x \in Secciones /\ q.lista = curso /\ k.bloqueo
        /\ q.pc \in {"actual", "superior", "inferior"}
    BY <1>1, <1>5, OrdenHijos DEF Orden!Bloquea, Orden!Buscando
  <2>3. g \in Orden(k)!Peticion
    BY <1>2, <2>1, <2>2, OrdenConstants DEF Orden!Peticion
  <2>4. /\ g.pc = q.pc /\ g.lista = q.lista /\ g.indice = q.indice /\ g.tarea = q.tarea
        /\ g.actual = q.actual /\ g.superior = q.superior /\ g.inferior = q.inferior
        /\ g.fila = q.fila /\ g.espera = x
    BY <1>2, <2>1 DEF Orden!Peticion
  <2>5. OrdenForma(k, g)
    BY <1>2, <2>2, <2>4 DEF OrdenPide, OrdenForma
  <2>6. peticion' = [peticion EXCEPT ![p] = g]
    BY <1>0, <1>5, <2>1
  <2>7. OrdenSirve(k, p, g)
    BY <2>2, <2>3, <2>4, <2>5, <2>6 DEF OrdenSirve, OrdenPide
  <2> QED BY <1>1, <1>2, <1>5, <2>7, OrdenQuieto
<1>6. CASE peticion' = [peticion EXCEPT ![p] = Orden(k)!Libre] /\ Orden(k)!Soltar(p)
  BY <1>1, <1>2, <1>3, <1>6, OrdenTermina, OrdenQuieto
<1> QED BY <1>1, <1>4, <1>5, <1>6 DEF OrdenBusca

\* Two requests wait for each other and one is aborted, or one dies.
LEMMA OrdenFalla ==
    ASSUME NEW k, Orden(k)!IndexAssumption, OrdenInv(k), NEW p \in k.peticiones,
           Orden(k)!Interbloqueo(p) \/ Orden(k)!Caer(p)
    PROVE  OrdenInv(k)'
<1>1. /\ peticion' = [peticion EXCEPT ![p] = Orden(k)!Libre] /\ Orden(k)!Soltar(p)
      /\ UNCHANGED <<indice, padre, operaciones>>
      /\ caidas' = caidas \/ (caidas < k.caidas /\ caidas' = caidas + 1)
  BY DEF Orden!Interbloqueo, Orden!Caer, Orden!Terminar
<1>2. operaciones' \in 0..k.maximo /\ caidas' \in 0..k.caidas
  BY <1>1, OrdenConstants DEF OrdenInv
<1>3. cerradura' \in [FilasDe(k) -> k.peticiones \cup {Nada}]
  BY <1>1, OrdenSuelta
<1>4. OrdenSirve(k, p, Orden(k)!Libre)
  BY <1>1, OrdenTermina
<1> QED BY <1>1, <1>2, <1>3, <1>4, OrdenQuieto

\* Rows that exist take other indices, and the request ends.
LEMMA OrdenRenumera ==
    ASSUME NEW k, Orden(k)!IndexAssumption, OrdenInv(k), NEW p \in k.peticiones,
           indice' \in [FilasDe(k) -> 0..k.indice + 1],
           \A x \in FilasDe(k) : indice'[x] = 0 <=> indice[x] = 0,
           UNCHANGED padre, Orden(k)!Terminar(p)
    PROVE  OrdenInv(k)'
<1>1. /\ OrdenSirve(k, p, Orden(k)!Libre)
      /\ cerradura' \in [FilasDe(k) -> k.peticiones \cup {Nada}]
      /\ operaciones' \in 0..k.maximo /\ caidas' \in 0..k.caidas
  BY OrdenTermina, OrdenSuelta DEF Orden!Terminar, OrdenInv
<1>2. OrdenFilas(k)
  BY <1>1 DEF OrdenFilas, OrdenInv, OrdenPadres
<1>3. ASSUME NEW o \in k.peticiones, o # p, peticion[o].pc = "insertar"
      PROVE  indice'[peticion[o].fila] = 0
  BY <1>3 DEF OrdenInv, OrdenNuevas, OrdenPide, OrdenForma, FilasDe
<1> QED BY <1>1, <1>2, <1>3, OrdenBasta

\* A move is committed.
LEMMA OrdenGuarda ==
    ASSUME NEW k, Orden(k)!IndexAssumption, OrdenInv(k), NEW p \in k.peticiones,
           Orden(k)!GuardarOrden(p)
    PROVE  OrdenInv(k)'
<1>0. PICK q : q = peticion[p]
  OBVIOUS
<1>1. /\ q \in OrdenPide(k) /\ q.pc = "guardar" /\ UNCHANGED padre /\ Orden(k)!Terminar(p)
      /\ \/ indice' = indice
         \/ /\ Orden(k)!Mueve(q) /\ indice' = Orden(k)!Movidos(q)
            /\ \A x \in {q.actual, Orden(k)!Vecino(q)} \ {Nada} : Orden(k)!Existe(x)
  BY <1>0 DEF Orden!GuardarOrden, OrdenInv
<1>2. /\ q.indice \in 1..k.indice + 1 /\ q.tarea \in {"increment", "decrement"}
      /\ q.tarea = "increment" => q.indice <= k.indice
      /\ q.inferior # Nada => q.indice # 1
      /\ {q.actual, q.superior, q.inferior} \subseteq {Nada} \cup FilasDe(k)
      /\ q.lista = curso => q.actual # Nada
  BY <1>1 DEF OrdenPide, OrdenForma, Orden!Peticion, FilasDe
<1>3. indice \in [FilasDe(k) -> 0..k.indice + 1] /\ k.indice \in Nat
  BY OrdenConstants DEF OrdenInv
<1>4. CASE indice' = indice
  BY <1>1, <1>3, <1>4, OrdenRenumera
<1>5. CASE /\ Orden(k)!Mueve(q) /\ indice' = Orden(k)!Movidos(q)
           /\ \A x \in {q.actual, Orden(k)!Vecino(q)} \ {Nada} : Orden(k)!Existe(x)
  <2>1. q.actual # Nada /\ q.actual \in FilasDe(k) /\ indice[q.actual] > 0
    BY <1>2, <1>5 DEF Orden!Mueve, Orden!Existe
  <2>2. Orden(k)!Destino(q) \in 1..k.indice + 1
    <3>1. CASE q.tarea = "increment"
      BY <1>2, <1>3, <3>1 DEF Orden!Destino
    <3>2. CASE q.tarea # "increment"
      BY <1>2, <1>5, <3>2, <1>3 DEF Orden!Mueve, Orden!Vecino, Orden!Destino
    <3> QED BY <3>1, <3>2
  <2>3. CASE Orden(k)!Vecino(q) = Nada
    BY <1>5, <2>3, <1>3, <2>1, <2>2, <1>1, OrdenRenumera DEF Orden!Movidos
  <2>4. CASE Orden(k)!Vecino(q) # Nada
    BY <1>5, <2>4, <1>2, <1>3, <2>1, <2>2, <1>1, OrdenRenumera DEF Orden!Movidos, Orden!Vecino,
       Orden!Existe
  <2> QED BY <2>3, <2>4
<1> QED BY <1>1, <1>4, <1>5

\* A list is numbered again.
LEMMA OrdenReorganiza ==
    ASSUME NEW k, Orden(k)!IndexAssumption, OrdenInv(k), NEW p \in k.peticiones,
           Orden(k)!Reorganizar(p)
    PROVE  OrdenInv(k)'
<1>0. PICK q : q = peticion[p]
  OBVIOUS
<1>1. /\ q.pc = "reorganizar" /\ q \in OrdenPide(k) /\ UNCHANGED padre /\ Orden(k)!Terminar(p)
      /\ \E f \in Orden(k)!Ordenes(q.lista) : indice' = Orden(k)!Renumerar(q.lista, f)
  BY <1>0 DEF Orden!Reorganizar, OrdenInv
<1>2. q.lista \in Secciones \cup {curso} /\ Orden(k)!Filas = FilasDe(k)
  BY <1>1, OrdenConstants DEF OrdenPide, OrdenForma
<1>3. PICK f \in Orden(k)!Ordenes(q.lista) : indice' = Orden(k)!Renumerar(q.lista, f)
  BY <1>1
<1>4. Orden(k)!Cardinality(Orden(k)!Hijos(q.lista)) = Cardinality(Orden(k)!Hijos(q.lista))
  BY DEF Orden!Cardinality, Cardinality
<1>5. f \in [Orden(k)!Hijos(q.lista) -> 1..Cardinality(Orden(k)!Hijos(q.lista))]
  BY <1>3, <1>4 DEF Orden!Ordenes
<1>6. Cardinality(Orden(k)!Hijos(q.lista)) \in 0..k.indice + 1 /\ k.indice \in Nat
  BY <1>2, OrdenHijos, OrdenConstants
<1>7. \A x \in Orden(k)!Hijos(q.lista) : f[x] \in 1..k.indice + 1 /\ indice[x] > 0
  BY <1>5, <1>6, OrdenHijos
<1>8. indice' = [x \in FilasDe(k) |-> IF x \in Orden(k)!Hijos(q.lista) THEN f[x] ELSE indice[x]]
  BY <1>2, <1>3 DEF Orden!Renumerar
<1>9. indice \in [FilasDe(k) -> 0..k.indice + 1]
  BY DEF OrdenInv
<1>10. \A x \in FilasDe(k) : indice'[x] = IF x \in Orden(k)!Hijos(q.lista) THEN f[x] ELSE indice[x]
  BY <1>8
<1>11. indice' \in [FilasDe(k) -> 0..k.indice + 1]
  BY <1>6, <1>7, <1>8, <1>9
<1>12. \A x \in FilasDe(k) : indice'[x] = 0 <=> indice[x] = 0
  BY <1>6, <1>7, <1>9, <1>10
<1> QED BY <1>1, <1>11, <1>12, OrdenRenumera

\* ... a resource, or a section with all of its own.
LEMMA OrdenBorra ==
    ASSUME NEW k, Orden(k)!IndexAssumption, OrdenInv(k), NEW p \in k.peticiones,
           Orden(k)!eliminar_recurso(p) \/ Orden(k)!eliminar_seccion(p)
    PROVE  \E l, D : /\ OrdenBorrada(k, p, l, D)
                     /\ \/ l = curso /\ \E s \in Secciones : /\ D = {s} \cup Orden(k)!Hijos(s)
                                                            /\ Orden(k)!Existe(s) /\ cerradura[s] = Nada
                        \/ \E x \in k.recursos : l = padre[x] /\ D = {x} /\ Orden(k)!Existe(x)
<1>0. /\ indice \in [FilasDe(k) -> 0..k.indice + 1] /\ OrdenPadres(k)
      /\ padre \in [FilasDe(k) -> Secciones \cup {curso, Nada}]
      /\ Secciones \cap k.recursos = {} /\ Orden(k)!Filas = FilasDe(k)
  BY OrdenConstants DEF OrdenInv
<1>1. CASE Orden(k)!eliminar_recurso(p)
  <2>1. PICK x \in k.recursos :
            /\ Orden(k)!Existe(x)
            /\ indice' = [indice EXCEPT ![x] = 0] /\ padre' = [padre EXCEPT ![x] = Nada]
            /\ peticion' = [peticion EXCEPT ![p] =
                  [Orden(k)!Libre EXCEPT !.pc = "reorganizar", !.lista = padre[x]]]
    BY Zenon, <1>1 DEF Orden!eliminar_recurso
  <2>2. x \in FilasDe(k) /\ {x} \subseteq FilasDe(k) /\ padre[x] \in Secciones \cup {curso}
    BY <1>0, <2>1 DEF FilasDe, OrdenPadres, Orden!Existe
  <2>3. /\ indice' = [y \in FilasDe(k) |-> IF y \in {x} THEN 0 ELSE indice[y]]
        /\ padre' = [y \in FilasDe(k) |-> IF y \in {x} THEN Nada ELSE padre[y]]
    BY <1>0, <2>1, <2>2
  <2>4. OrdenBorrada(k, p, padre[x], {x})
    BY <2>1, <2>2, <2>3 DEF OrdenBorrada
  <2> QED BY <2>1, <2>4
<1>2. CASE Orden(k)!eliminar_seccion(p)
  <2>1. PICK s \in Secciones :
            /\ Orden(k)!Existe(s) /\ cerradura[s] = Nada
            /\ indice' = [x \in Orden(k)!Filas |-> IF x \in {s} \cup Orden(k)!Hijos(s) THEN 0 ELSE indice[x]]
            /\ padre' = [x \in Orden(k)!Filas |-> IF x \in {s} \cup Orden(k)!Hijos(s) THEN Nada ELSE padre[x]]
    BY <1>2 DEF Orden!eliminar_seccion
  <2>2. peticion' = [peticion EXCEPT ![p] =
            [Orden(k)!Libre EXCEPT !.pc = "reorganizar", !.lista = curso]]
    BY Zenon, <1>2 DEF Orden!eliminar_seccion
  <2>3. {s} \cup Orden(k)!Hijos(s) \subseteq FilasDe(k)
    BY OrdenHijos DEF FilasDe
  <2>4. OrdenBorrada(k, p, curso, {s} \cup Orden(k)!Hijos(s))
    BY <1>0, <2>1, <2>2, <2>3 DEF OrdenBorrada
  <2> QED BY <2>1, <2>4
<1> QED BY <1>1, <1>2

\* It is a request.
LEMMA OrdenNumerara ==
    ASSUME NEW k, Orden(k)!IndexAssumption, NEW l \in Secciones \cup {curso},
           NEW g, OrdenOtraVez(k, l, g)
    PROVE  /\ g \in OrdenPide(k) /\ g.pc = "reorganizar" /\ g.lista = l
           /\ g.espera = Nada /\ g.actual = Nada /\ g.superior = Nada /\ g.inferior = Nada
<1>1. g = [pc |-> "reorganizar", lista |-> l, fila |-> Nada, indice |-> 0, tarea |-> "increment",
           actual |-> Nada, superior |-> Nada, inferior |-> Nada, espera |-> Nada]
  BY DEF Orden!Libre, OrdenOtraVez
<1>2. g \in Orden(k)!Peticion
  BY <1>1, OrdenConstants DEF Orden!Peticion
<1>3. /\ g.pc = "reorganizar" /\ g.lista = l
      /\ g.espera = Nada /\ g.actual = Nada /\ g.superior = Nada /\ g.inferior = Nada
  BY <1>1
<1>4. OrdenForma(k, g)
  BY <1>3 DEF OrdenForma
<1> QED BY <1>2, <1>3, <1>4 DEF OrdenPide

\* Rows are deleted.
LEMMA OrdenElimina ==
    ASSUME NEW k, Orden(k)!IndexAssumption, OrdenInv(k), NEW p \in k.peticiones,
           Orden(k)!eliminar_recurso(p) \/ Orden(k)!eliminar_seccion(p)
    PROVE  OrdenInv(k)'
<1>1. PICK l, D : OrdenBorrada(k, p, l, D)
  BY OrdenBorra
<1>2. /\ UNCHANGED <<cerradura, caidas>>
      /\ operaciones < k.maximo /\ operaciones' = operaciones + 1
  BY Zenon DEF Orden!eliminar_recurso, Orden!eliminar_seccion, Orden!Pedir
<1>3. /\ cerradura' \in [FilasDe(k) -> k.peticiones \cup {Nada}]
      /\ operaciones' \in 0..k.maximo /\ caidas' \in 0..k.caidas
  BY <1>2, OrdenConstants DEF OrdenInv
<1>4. PICK g : OrdenOtraVez(k, l, g)
  BY DEF OrdenOtraVez
<1>5. l \in Secciones \cup {curso} /\ peticion' = [peticion EXCEPT ![p] = g]
  BY <1>1, <1>4 DEF OrdenBorrada, OrdenOtraVez
<1>6. g \in OrdenPide(k) /\ g.pc = "reorganizar"
  BY <1>4, <1>5, OrdenNumerara
<1>7. OrdenSirve(k, p, g)
  BY <1>5, <1>6 DEF OrdenSirve
<1>8. /\ D \subseteq FilasDe(k)
      /\ indice' = [x \in FilasDe(k) |-> IF x \in D THEN 0 ELSE indice[x]]
      /\ padre' = [x \in FilasDe(k) |-> IF x \in D THEN Nada ELSE padre[x]]
  BY <1>1 DEF OrdenBorrada
<1>9. /\ indice \in [FilasDe(k) -> 0..k.indice + 1] /\ OrdenPadres(k) /\ k.indice \in Nat
      /\ padre \in [FilasDe(k) -> Secciones \cup {curso, Nada}]
  BY OrdenConstants DEF OrdenInv
<1>10. \A x \in FilasDe(k) : /\ indice'[x] = IF x \in D THEN 0 ELSE indice[x]
                             /\ padre'[x] = IF x \in D THEN Nada ELSE padre[x]
  BY <1>8
<1>11. /\ indice' \in [FilasDe(k) -> 0..k.indice + 1]
       /\ padre' \in [FilasDe(k) -> Secciones \cup {curso, Nada}]
  BY <1>8, <1>9
<1>12. OrdenPadres(k)'
  BY <1>9, <1>10 DEF OrdenPadres
<1>13. OrdenFilas(k)
  BY <1>3, <1>11, <1>12 DEF OrdenFilas
<1>14. ASSUME NEW o \in k.peticiones, o # p, peticion[o].pc = "insertar"
       PROVE  indice'[peticion[o].fila] = 0
  BY <1>14, <1>10 DEF OrdenInv, OrdenNuevas, OrdenPide, OrdenForma, FilasDe
<1> QED BY <1>7, <1>13, <1>14, OrdenBasta

\* Every step keeps the order well formed ...
LEMMA OrdenSigue ==
    ASSUME NEW k, Orden(k)!IndexAssumption, OrdenInv(k), [Orden(k)!Next]_(Orden(k)!vars)
    PROVE  OrdenInv(k)'
<1>1. CASE UNCHANGED Orden(k)!vars
  BY <1>1 DEF Orden!vars, OrdenInv, OrdenPadres, OrdenNuevas
<1>2. CASE Orden(k)!Next
  <2>1. PICK p \in k.peticiones : Orden(k)!Seguir(p) \/ Orden(k)!Empezar(p) \/ Orden(k)!Caer(p)
    BY <1>2 DEF Orden!Next
  <2>2. CASE Orden(k)!Seguir(p)
    BY <2>2, OrdenInserta, OrdenRecorre, OrdenFalla, OrdenGuarda, OrdenReorganiza DEF Orden!Seguir
  <2>3. CASE Orden(k)!Empezar(p)
    BY <2>3, OrdenCrea, OrdenMueve, OrdenElimina DEF Orden!Empezar
  <2>4. CASE Orden(k)!Caer(p)
    BY <2>4, OrdenFalla
  <2> QED BY <2>1, <2>2, <2>3, <2>4
<1> QED BY <1>1, <1>2

\* ... which is what its type says.
LEMMA OrdenDice ==
    ASSUME NEW k, Orden(k)!IndexAssumption, OrdenInv(k)
    PROVE  Orden(k)!TypeOK
<1>1. peticion \in [k.peticiones -> Orden(k)!Peticion]
  BY DEF OrdenInv, OrdenPide
<1>2. operaciones <= k.maximo /\ caidas <= k.caidas
  BY OrdenConstants DEF OrdenInv
<1> QED BY <1>1, <1>2, OrdenConstants DEF OrdenInv, OrdenPadres, Orden!TypeOK

----------------------------------------
(* Moves under locks *)

\* The requests are as they were but one.
LEMMA OrdenOtras ==
    ASSUME NEW k, Orden(k)!IndexAssumption, OrdenInv(k), NEW o \in k.peticiones,
           Orden(k)!Seguir(o) \/ Orden(k)!Empezar(o) \/ Orden(k)!Caer(o)
    PROVE  /\ \E g : peticion' = [peticion EXCEPT ![o] = g]
           /\ \A p \in k.peticiones \ {o} : peticion'[p] = peticion[p]
<1>1. \E g : peticion' = [peticion EXCEPT ![o] = g]
  <2>1. CASE Orden(k)!BuscarFila(o) \/ Orden(k)!Despertar(o)
    <3>1. PICK q : q = peticion[o]
      OBVIOUS
    <3>2. Orden(k)!Buscando(q) /\ OrdenBusca(k, o, q)
      BY <2>1, <3>1, OrdenBuscando
    <3>3. ASSUME NEW x \in FilasDe(k) \cup {Nada}, OrdenEncuentra(k, o, q, x)
          PROVE  \E g : peticion' = [peticion EXCEPT ![o] = g]
      BY <3>3, Zenon DEF OrdenEncuentra, Orden!Hallar
    <3>4. ASSUME NEW x, peticion' = [peticion EXCEPT ![o].espera = x]
          PROVE  \E g : peticion' = [peticion EXCEPT ![o] = g]
      BY <3>4, Zenon
    <3> QED BY <3>2, <3>3, <3>4, Zenon DEF OrdenBusca
  <2>2. CASE Orden(k)!Insertar(o) \/ Orden(k)!Interbloqueo(o) \/ Orden(k)!GuardarOrden(o)
             \/ Orden(k)!Reorganizar(o) \/ Orden(k)!Caer(o)
    BY <2>2, Zenon DEF Orden!Insertar, Orden!Interbloqueo, Orden!GuardarOrden, Orden!Reorganizar,
       Orden!Caer, Orden!Terminar
  <2>3. CASE Orden(k)!nuevo_seccion(o) \/ Orden(k)!nuevo_recurso(o)
    BY <2>3, Zenon DEF Orden!nuevo_seccion, Orden!nuevo_recurso
  <2>4. CASE Orden(k)!modificar_indice_curso(o) \/ Orden(k)!modificar_indice_seccion(o)
    BY <2>4, Zenon DEF Orden!modificar_indice_curso, Orden!modificar_indice_seccion
  <2>5. CASE Orden(k)!eliminar_recurso(o) \/ Orden(k)!eliminar_seccion(o)
    BY <2>5, Zenon DEF Orden!eliminar_recurso, Orden!eliminar_seccion
  <2> QED BY <2>1, <2>2, <2>3, <2>4, <2>5 DEF Orden!Seguir, Orden!Empezar
<1>2. peticion \in [k.peticiones -> OrdenPide(k)]
  BY DEF OrdenInv
<1> QED BY <1>1, <1>2

\* A search takes locks that are free.
LEMMA OrdenTomaLibres ==
    ASSUME NEW k, Orden(k)!IndexAssumption, OrdenInv(k), NEW o \in k.peticiones,
           Orden(k)!BuscarFila(o) \/ Orden(k)!Despertar(o)
    PROVE  /\ UNCHANGED indice
           /\ \A x \in FilasDe(k) : cerradura[x] \notin {Nada, o} => cerradura'[x] = cerradura[x]
<1>1. PICK q : q = peticion[o]
  OBVIOUS
<1>2. Orden(k)!Buscando(q) /\ OrdenBusca(k, o, q) /\ UNCHANGED indice
  BY <1>1, OrdenBuscando
<1>3. cerradura \in [FilasDe(k) -> k.peticiones \cup {Nada}]
  BY DEF OrdenInv
<1>4. Orden(k)!Soltar(o) =>
          \A x \in FilasDe(k) : cerradura[x] \notin {Nada, o} => cerradura'[x] = cerradura[x]
  BY OrdenSuelta
<1>5. ASSUME NEW y \in FilasDe(k) \cup {Nada}, OrdenEncuentra(k, o, q, y)
      PROVE  \A x \in FilasDe(k) : cerradura[x] \notin {Nada, o} => cerradura'[x] = cerradura[x]
  BY <1>3, <1>4, <1>5 DEF OrdenEncuentra
<1> QED BY <1>2, <1>3, <1>4, <1>5 DEF OrdenBusca

\* Nobody else touches what is held.
LEMMA OrdenNadieToca ==
    ASSUME NEW k, Orden(k)!IndexAssumption, OrdenInv(k), OrdenSujetas(k), k.bloqueo,
           NEW o \in k.peticiones,
           Orden(k)!Seguir(o) \/ Orden(k)!Empezar(o) \/ Orden(k)!Caer(o)
    PROVE  OrdenRespeta(k, o)
<1>1. \A p \in k.peticiones \ {o} : peticion'[p] = peticion[p]
  BY OrdenOtras
<1>2. SUFFICES ASSUME NEW p \in k.peticiones \ {o}, NEW x \in Secciones,
                      cerradura[x] = p, indice[x] > 0
               PROVE  cerradura'[x] = p /\ indice'[x] = indice[x]
  BY <1>1 DEF OrdenRespeta
<1>3. /\ x \in FilasDe(k) /\ x \notin k.recursos /\ p # Nada /\ p # o
      /\ Orden(k)!Filas = FilasDe(k)
  BY OrdenConstants DEF FilasDe
<1>4. /\ indice \in [FilasDe(k) -> 0..k.indice + 1]
      /\ peticion[o] \in OrdenPide(k)
  BY DEF OrdenInv
<1>5. Orden(k)!Soltar(o) => cerradura'[x] = p
  BY <1>2, <1>3, OrdenSuelta
<1>6. CASE Orden(k)!BuscarFila(o) \/ Orden(k)!Despertar(o)
  BY <1>2, <1>3, <1>6, OrdenTomaLibres
<1>7. CASE Orden(k)!Interbloqueo(o) \/ Orden(k)!Caer(o)
  BY <1>5, <1>7 DEF Orden!Interbloqueo, Orden!Caer, Orden!Terminar
<1>8. CASE Orden(k)!Insertar(o)
  <2>1. PICK q : q = peticion[o]
    OBVIOUS
  <2>2. q.pc = "insertar" /\ indice[q.fila] = 0
    BY <1>8, <2>1 DEF Orden!Insertar, OrdenInv, OrdenNuevas
  <2>3. x # q.fila
    BY <1>2, <2>2
  <2>4. UNCHANGED indice \/ indice' = [indice EXCEPT ![q.fila] = q.indice]
    BY <1>8, <2>1, Zenon DEF Orden!Insertar
  <2>5. Orden(k)!Soltar(o)
    BY <1>8, Zenon DEF Orden!Insertar, Orden!Terminar
  <2> QED BY <1>3, <1>4, <1>5, <2>3, <2>4, <2>5
<1>9. CASE Orden(k)!GuardarOrden(o)
  <2>1. PICK q : q = peticion[o]
    OBVIOUS
  <2>2. /\ q.pc = "guardar" /\ Orden(k)!Soltar(o)
        /\ indice' = indice \/ indice' = Orden(k)!Movidos(q)
    BY <1>9, <2>1 DEF Orden!GuardarOrden, Orden!Terminar
  <2>3. OrdenForma(k, q) /\ OrdenSujeta(o, q)
    BY <1>4, <2>1 DEF OrdenPide, OrdenSujetas
  <2>4. x \notin {q.actual, q.superior, q.inferior}
    BY <1>2, <1>3, <2>2, <2>3, OrdenConstants DEF OrdenSujeta, OrdenAsida, FilasDe, OrdenForma
  <2>5. x # q.actual /\ x # Orden(k)!Vecino(q)
    BY <2>4 DEF Orden!Vecino
  <2>6. indice'[x] = indice[x]
    BY <1>3, <1>4, <2>2, <2>5 DEF Orden!Movidos
  <2> QED BY <1>5, <2>2, <2>6
<1>10. CASE Orden(k)!Reorganizar(o)
  <2>1. PICK l : l = peticion[o].lista
    OBVIOUS
  <2>2. Orden(k)!Soltar(o) /\ Orden(k)!Libres(l, o)
    BY <1>10, <2>1 DEF Orden!Reorganizar, Orden!Terminar
  <2>3. PICK f : indice' = [y \in FilasDe(k) |-> IF y \in Orden(k)!Hijos(l) THEN f[y] ELSE indice[y]]
    BY <1>3, <1>10, <2>1 DEF Orden!Reorganizar, Orden!Renumerar
  <2>4. x \notin Orden(k)!Hijos(l)
    BY <1>2, <1>3, <2>2 DEF Orden!Libres
  <2> QED BY <1>3, <1>5, <2>2, <2>3, <2>4
<1>11. CASE Orden(k)!nuevo_seccion(o) \/ Orden(k)!nuevo_recurso(o)
            \/ Orden(k)!modificar_indice_curso(o) \/ Orden(k)!modificar_indice_seccion(o)
  <2>1. UNCHANGED <<indice, cerradura>>
    BY <1>11, Zenon DEF Orden!nuevo_seccion, Orden!nuevo_recurso, Orden!modificar_indice_curso,
       Orden!modificar_indice_seccion
  <2> QED BY <1>2, <2>1
<1>12. CASE Orden(k)!eliminar_recurso(o) \/ Orden(k)!eliminar_seccion(o)
  <2>1. PICK l, D :
          /\ OrdenBorrada(k, o, l, D)
          /\ \/ l = curso /\ \E s \in Secciones : /\ D = {s} \cup Orden(k)!Hijos(s)
                                                 /\ Orden(k)!Existe(s) /\ cerradura[s] = Nada
             \/ \E y \in k.recursos : l = padre[y] /\ D = {y} /\ Orden(k)!Existe(y)
    BY <1>12, OrdenBorra
  <2>2. x \notin D
    BY <1>2, <1>3, <2>1, OrdenHijos
  <2>3. UNCHANGED cerradura
    BY <1>12 DEF Orden!eliminar_recurso, Orden!eliminar_seccion
  <2> QED BY <1>2, <1>3, <2>1, <2>2, <2>3 DEF OrdenBorrada
<1> QED BY <1>6, <1>7, <1>8, <1>9, <1>10, <1>11, <1>12 DEF Orden!Seguir, Orden!Empezar

\* A request holds what it finds.
LEMMA OrdenSeSujeta ==
    ASSUME NEW k, Orden(k)!IndexAssumption, OrdenInv(k), OrdenSujetas(k), k.bloqueo,
           NEW o \in k.peticiones,
           Orden(k)!BuscarFila(o) \/ Orden(k)!Despertar(o)
    PROVE  OrdenSujeta(o, peticion[o])'
<1>1. PICK q : q = peticion[o]
  OBVIOUS
<1>2. /\ Orden(k)!Buscando(q) /\ OrdenBusca(k, o, q) /\ UNCHANGED indice
      /\ OrdenSujeta(o, q) /\ q \in OrdenPide(k) /\ q \in Orden(k)!Peticion
      /\ o \in DOMAIN peticion
  BY <1>1, OrdenBuscando DEF OrdenSujetas, OrdenInv, OrdenPide
<1>4. ASSUME peticion' = [peticion EXCEPT ![o] = Orden(k)!Libre]
      PROVE  OrdenSujeta(o, peticion[o])'
  BY <1>2, <1>4 DEF OrdenSujeta, Orden!Libre
<1>5. ASSUME NEW x \in FilasDe(k) \cup {Nada}, OrdenEncuentra(k, o, q, x)
      PROVE  OrdenSujeta(o, peticion[o])'
  <2>1. CASE q.pc = "actual" /\ x = Nada /\ q.lista = curso
             /\ peticion' = [peticion EXCEPT ![o] = Orden(k)!Libre]
    BY <1>4, <2>1
  <2>2. ASSUME ~(q.pc = "actual" /\ x = Nada /\ q.lista = curso), NEW g \in Orden(k)!Peticion,
               peticion' = [peticion EXCEPT ![o] = g], OrdenHallado(k, q, x, g),
               g.lista = curso
        PROVE  OrdenSujeta(o, g)'
    <3>1. q.lista = curso /\ Orden(k)!Bloquea(q) /\ g.indice = q.indice
      BY <2>2 DEF OrdenHallado, Orden!Bloquea
    <3>2. \/ x # Nada /\ cerradura[x] \in {Nada, o} /\ cerradura' = [cerradura EXCEPT ![x] = o]
          \/ x = Nada /\ UNCHANGED cerradura
      BY <1>5, <2>2, <3>1 DEF OrdenEncuentra
    <3>3. cerradura \in [FilasDe(k) -> k.peticiones \cup {Nada}]
      BY DEF OrdenInv
    <3>4. x # Nada => cerradura'[x] = o /\ indice'[x] = Orden(k)!Buscado(q)
      BY <1>2, <1>5, <3>2, <3>3 DEF OrdenEncuentra, OrdenEnSuLugar
    <3>5. ASSUME NEW y \in FilasDe(k) \cup {Nada}, NEW i, OrdenAsida(o, y, i)
          PROVE  OrdenAsida(o, y, i)'
      BY <1>2, <3>2, <3>3, <3>5 DEF OrdenAsida
    <3>6. /\ OrdenAsida(o, q.actual, q.indice) /\ OrdenAsida(o, q.superior, q.indice + 1)
          /\ OrdenAsida(o, q.inferior, q.indice - 1)
      BY <1>2, <3>1 DEF OrdenSujeta, Orden!Buscando
    <3>7. {q.actual, q.superior, q.inferior} \subseteq FilasDe(k) \cup {Nada}
      BY <1>2, OrdenConstants DEF Orden!Peticion
    <3>8. /\ OrdenAsida(o, q.actual, q.indice)' /\ OrdenAsida(o, q.superior, q.indice + 1)'
          /\ OrdenAsida(o, q.inferior, q.indice - 1)'
      <4>1. q.actual \in FilasDe(k) \cup {Nada} /\ q.superior \in FilasDe(k) \cup {Nada}
            /\ q.inferior \in FilasDe(k) \cup {Nada}
        BY <3>7
      <4>2. OrdenAsida(o, q.actual, q.indice)'
        BY <3>5, <3>6, <4>1
      <4>3. OrdenAsida(o, q.superior, q.indice + 1)'
        BY <3>5, <3>6, <4>1
      <4>4. OrdenAsida(o, q.inferior, q.indice - 1)'
        BY <3>5, <3>6, <4>1
      <4> QED BY <4>2, <4>3, <4>4
    <3>9. /\ q.pc = "actual" => OrdenAsida(o, x, q.indice)'
          /\ q.pc = "superior" => OrdenAsida(o, x, q.indice + 1)'
          /\ q.pc = "inferior" => OrdenAsida(o, x, q.indice - 1)'
      BY <1>2, <3>4, OrdenDespues DEF OrdenAsida
    <3>10. OrdenAsida(o, g.actual, g.indice)'
      BY <2>2, <3>1, <3>8, <3>9 DEF OrdenHallado, OrdenAsida
    <3>11. OrdenAsida(o, g.superior, g.indice + 1)'
      BY <2>2, <3>1, <3>8, <3>9 DEF OrdenHallado, OrdenAsida
    <3>12. OrdenAsida(o, g.inferior, g.indice - 1)'
      BY <2>2, <3>1, <3>8, <3>9 DEF OrdenHallado, OrdenAsida
    <3> QED BY <3>10, <3>11, <3>12 DEF OrdenSujeta, OrdenAsida
  <2>3. CASE /\ ~(q.pc = "actual" /\ x = Nada /\ q.lista = curso)
             /\ \E g \in Orden(k)!Peticion :
                   peticion' = [peticion EXCEPT ![o] = g] /\ OrdenHallado(k, q, x, g)
    <3>1. PICK g \in Orden(k)!Peticion :
              peticion' = [peticion EXCEPT ![o] = g] /\ OrdenHallado(k, q, x, g)
      BY <2>3
    <3>2. g.lista = curso => OrdenSujeta(o, g)'
      BY <2>2, <2>3, <3>1
    <3>3. peticion'[o] = g
      BY <1>2, <3>1
    <3> QED BY <3>2, <3>3 DEF OrdenSujeta
  <2>4. Orden(k)!Hallar(o, x)
    BY <1>5 DEF OrdenEncuentra
  <2> QED BY <1>1, <1>2, <2>1, <2>3, <2>4, OrdenHalla
<1>6. ASSUME NEW x, Orden(k)!Bloquea(q), UNCHANGED cerradura,
             peticion' = [peticion EXCEPT ![o].espera = x]
      PROVE  OrdenSujeta(o, peticion[o])'
  <2>1. PICK g : g = [q EXCEPT !.espera = x]
    OBVIOUS
  <2>2. /\ g.pc = q.pc /\ g.lista = q.lista /\ g.indice = q.indice
        /\ g.actual = q.actual /\ g.superior = q.superior /\ g.inferior = q.inferior
    BY <1>2, <2>1 DEF Orden!Peticion
  <2>3. peticion'[o] = g
    BY <1>1, <1>2, <1>6, <2>1
  <2> QED BY <1>2, <1>6, <2>2, <2>3 DEF OrdenSujeta, OrdenAsida
<1> QED BY <1>2, <1>4, <1>5, <1>6 DEF OrdenBusca

\* Every step keeps what is held.
LEMMA OrdenSujetan ==
    ASSUME NEW k, Orden(k)!IndexAssumption, OrdenInv(k), OrdenSujetas(k), k.bloqueo,
           [Orden(k)!Next]_(Orden(k)!vars)
    PROVE  OrdenSujetas(k)'
<1>1. CASE UNCHANGED Orden(k)!vars
  BY <1>1 DEF Orden!vars, OrdenSujetas, OrdenSujeta, OrdenAsida
<1>2. CASE Orden(k)!Next
  <2>1. PICK o \in k.peticiones : Orden(k)!Seguir(o) \/ Orden(k)!Empezar(o) \/ Orden(k)!Caer(o)
    BY <1>2 DEF Orden!Next
  <2>2. OrdenRespeta(k, o)
    BY <2>1, OrdenNadieToca
  <2>3. ASSUME NEW p \in k.peticiones \ {o}
        PROVE  OrdenSujeta(p, peticion[p])'
    <3>1. PICK q : q = peticion[p]
      OBVIOUS
    <3>2. /\ q \in OrdenPide(k) /\ OrdenSujeta(p, q) /\ peticion'[p] = q
          /\ indice \in [FilasDe(k) -> 0..k.indice + 1] /\ k.indice \in Nat
      BY <2>2, <3>1, OrdenConstants DEF OrdenRespeta, OrdenInv, OrdenSujetas
    <3>3. \A x \in Secciones :
              cerradura[x] = p /\ indice[x] > 0 => cerradura'[x] = p /\ indice'[x] = indice[x]
      BY <2>2 DEF OrdenRespeta
    <3>4. ASSUME q.lista = curso, q.pc \in {"actual", "superior", "inferior", "guardar"}
          PROVE  /\ OrdenAsida(p, q.actual, q.indice)' /\ OrdenAsida(p, q.superior, q.indice + 1)'
                 /\ OrdenAsida(p, q.inferior, q.indice - 1)'
      BY <3>2, <3>4, <3>3 DEF OrdenPide, OrdenForma, OrdenSujeta, OrdenAsida
    <3> QED BY <3>2, <3>4 DEF OrdenSujeta, OrdenAsida
  <2>4. OrdenSujeta(o, peticion[o])'
    <3>1. CASE Orden(k)!BuscarFila(o) \/ Orden(k)!Despertar(o)
      BY <3>1, OrdenSeSujeta
    <3>2. ASSUME peticion'[o].pc \notin {"superior", "inferior", "guardar"},
                 peticion'[o].actual = Nada /\ peticion'[o].superior = Nada
                     /\ peticion'[o].inferior = Nada
          PROVE  OrdenSujeta(o, peticion[o])'
      BY <3>2 DEF OrdenSujeta, OrdenAsida
    <3>3. peticion \in [k.peticiones -> OrdenPide(k)]
      BY DEF OrdenInv
    <3>4. CASE Orden(k)!Insertar(o) \/ Orden(k)!Interbloqueo(o) \/ Orden(k)!GuardarOrden(o)
               \/ Orden(k)!Reorganizar(o) \/ Orden(k)!Caer(o)
      <4>1. peticion' = [peticion EXCEPT ![o] = Orden(k)!Libre]
        BY <3>4, Zenon DEF Orden!Insertar, Orden!Interbloqueo, Orden!GuardarOrden, Orden!Reorganizar,
           Orden!Caer, Orden!Terminar
      <4> QED BY <3>2, <3>3, <4>1 DEF Orden!Libre
    <3>5. CASE Orden(k)!nuevo_seccion(o) \/ Orden(k)!nuevo_recurso(o)
      <4>1. \E l, x, i : peticion' = [peticion EXCEPT ![o] =
                [Orden(k)!Libre EXCEPT !.pc = "insertar", !.lista = l, !.fila = x, !.indice = i]]
        BY <3>5, Zenon DEF Orden!nuevo_seccion, Orden!nuevo_recurso
      <4> QED BY <3>2, <3>3, <4>1 DEF Orden!Libre
    <3>6. CASE Orden(k)!modificar_indice_curso(o) \/ Orden(k)!modificar_indice_seccion(o)
      <4>1. \E l, i, t : peticion' = [peticion EXCEPT ![o] =
                [Orden(k)!Libre EXCEPT !.pc = "actual", !.lista = l, !.indice = i, !.tarea = t]]
        BY <3>6, Zenon DEF Orden!modificar_indice_curso, Orden!modificar_indice_seccion
      <4> QED BY <3>2, <3>3, <4>1 DEF Orden!Libre
    <3>7. CASE Orden(k)!eliminar_recurso(o) \/ Orden(k)!eliminar_seccion(o)
      <4>1. \E l : peticion' = [peticion EXCEPT ![o] =
                [Orden(k)!Libre EXCEPT !.pc = "reorganizar", !.lista = l]]
        BY <3>7, Zenon DEF Orden!eliminar_recurso, Orden!eliminar_seccion
      <4> QED BY <3>2, <3>3, <4>1 DEF Orden!Libre
    <3> QED BY <2>1, <3>1, <3>4, <3>5, <3>6, <3>7 DEF Orden!Seguir, Orden!Empezar
  <2>5. \A p \in k.peticiones : OrdenSujeta(p, peticion[p])'
    BY <2>3, <2>4
  <2> QED BY <2>5 DEF OrdenSujetas
<1> QED BY <1>1, <1>2

\* A move that holds both rows exchanges their indices.
LEMMA OrdenIntercambia ==
    ASSUME NEW k, Orden(k)!IndexAssumption, OrdenInv(k), OrdenSujetas(k), k.bloqueo,
           [Orden(k)!Next]_(Orden(k)!vars)
    PROVE  Orden(k)!LockedMovesExchange
<1>0. SUFFICES ASSUME NEW p \in k.peticiones, NEW q, q = peticion[p],
                      q.pc = "guardar", peticion'[p].pc = "idle", caidas' = caidas,
                      q.lista = curso, Orden(k)!Mueve(q), Orden(k)!Vecino(q) # Nada
               PROVE  /\ indice'[q.actual] = indice[Orden(k)!Vecino(q)]
                      /\ indice'[Orden(k)!Vecino(q)] = indice[q.actual]
  BY DEF Orden!LockedMovesExchange
<1>1. /\ q \in OrdenPide(k) /\ caidas \in 0..k.caidas /\ k.caidas \in Nat
      /\ indice \in [FilasDe(k) -> 0..k.indice + 1] /\ k.indice \in Nat
  BY <1>0, OrdenConstants DEF OrdenInv
<1>2. Orden(k)!GuardarOrden(p)
  <2>1. Orden(k)!Next
    BY <1>0 DEF Orden!vars
  <2>2. PICK o \in k.peticiones : Orden(k)!Seguir(o) \/ Orden(k)!Empezar(o) \/ Orden(k)!Caer(o)
    BY <2>1 DEF Orden!Next
  <2>3. o = p
    BY <1>0, <2>2, OrdenOtras
  <2>4. ~Orden(k)!Caer(p)
    BY <1>0, <1>1 DEF Orden!Caer
  <2>5. ~Orden(k)!Empezar(p)
    BY <1>0 DEF Orden!Empezar, Orden!nuevo_seccion, Orden!nuevo_recurso, Orden!modificar_indice_curso,
       Orden!modificar_indice_seccion, Orden!eliminar_recurso, Orden!eliminar_seccion, Orden!Pedir
  <2>6. ~Orden(k)!Insertar(p) /\ ~Orden(k)!Reorganizar(p) /\ ~Orden(k)!BuscarFila(p)
    BY <1>0 DEF Orden!Insertar, Orden!Reorganizar, Orden!BuscarFila, Orden!Buscando
  <2>7. ~Orden(k)!Despertar(p) /\ ~Orden(k)!Interbloqueo(p)
    BY <1>0, <1>1 DEF OrdenPide, OrdenForma, Orden!Despertar, Orden!Interbloqueo,
       Orden!Interbloqueados
  <2> QED BY <2>2, <2>3, <2>4, <2>5, <2>6, <2>7 DEF Orden!Seguir
<1>3. /\ q.indice \in 1..k.indice + 1 /\ q.tarea \in {"increment", "decrement"}
      /\ q.inferior # Nada => q.indice # 1
      /\ {q.actual, q.superior, q.inferior} \subseteq {Nada} \cup Secciones
      /\ q.actual # Nada
  BY <1>0, <1>1 DEF OrdenPide, OrdenForma, Orden!Peticion
<1>4. /\ indice[q.actual] = q.indice
      /\ q.superior # Nada => indice[q.superior] = q.indice + 1
      /\ q.inferior # Nada => indice[q.inferior] = q.indice - 1
  BY <1>0, <1>3 DEF OrdenSujetas, OrdenSujeta, OrdenAsida
<1>5. /\ indice[Orden(k)!Vecino(q)] = Orden(k)!Destino(q) /\ Orden(k)!Destino(q) > 0
      /\ Orden(k)!Destino(q) # q.indice
      /\ Orden(k)!Vecino(q) \in Secciones
  BY <1>0, <1>1, <1>3, <1>4 DEF Orden!Vecino, Orden!Destino
<1>6. \A x \in {q.actual, Orden(k)!Vecino(q)} \ {Nada} : Orden(k)!Existe(x)
  BY <1>3, <1>4, <1>5 DEF Orden!Existe
<1>7. indice' = Orden(k)!Movidos(q)
  BY <1>0, <1>2, <1>6 DEF Orden!GuardarOrden
<1>8. indice' = [indice EXCEPT ![q.actual] = Orden(k)!Destino(q), ![Orden(k)!Vecino(q)] = q.indice]
  BY <1>0, <1>7 DEF Orden!Movidos
<1>9. q.actual \in FilasDe(k) /\ Orden(k)!Vecino(q) \in FilasDe(k) /\ q.actual # Orden(k)!Vecino(q)
  BY <1>1, <1>3, <1>4, <1>5 DEF FilasDe
<1> QED BY <1>1, <1>4, <1>5, <1>8, <1>9

----------------------------------------
(* One request at a time *)

\* The rows of a list after a step.
LEMMA OrdenHijosLuego ==
    ASSUME NEW k, Orden(k)!IndexAssumption
    PROVE  \A l, x : x \in Orden(k)!Hijos(l)' <=> x \in FilasDe(k) /\ indice'[x] > 0 /\ padre'[x] = l
BY OrdenConstants DEF Orden!Hijos, Orden!Existe

\* What it is to be numbered without a gap.
LEMMA OrdenSecuencial ==
    ASSUME NEW k
    PROVE  /\ \A l : Orden(k)!Secuencial(l) <=>
                  {indice[x] : x \in Orden(k)!Hijos(l)} = 1..Cardinality(Orden(k)!Hijos(l))
           /\ \A l : Orden(k)!Secuencial(l)' <=>
                  {indice'[x] : x \in Orden(k)!Hijos(l)'} = 1..Cardinality(Orden(k)!Hijos(l)')
<1>1. \A S : Orden(k)!Cardinality(S) = Cardinality(S)
  BY DEF Orden!Cardinality, Cardinality
<1> QED BY <1>1 DEF Orden!Secuencial

\* A list whose rows stay is numbered as it was.
LEMMA OrdenListaQuieta ==
    ASSUME NEW k, Orden(k)!IndexAssumption, OrdenInv(k), NEW l,
           \A x \in FilasDe(k) : (padre[x] = l /\ indice[x] > 0) \/ (padre'[x] = l /\ indice'[x] > 0)
               => padre'[x] = padre[x] /\ indice'[x] = indice[x]
    PROVE  /\ Orden(k)!Hijos(l)' = Orden(k)!Hijos(l)
           /\ Orden(k)!Secuencial(l)' <=> Orden(k)!Secuencial(l)
<1>1. /\ \A x : x \in Orden(k)!Hijos(l) <=> x \in FilasDe(k) /\ indice[x] > 0 /\ padre[x] = l
      /\ \A x : x \in Orden(k)!Hijos(l)' <=> x \in FilasDe(k) /\ indice'[x] > 0 /\ padre'[x] = l
  BY OrdenHijos, OrdenHijosLuego
<1>2. \A x : x \in Orden(k)!Hijos(l)' <=> x \in Orden(k)!Hijos(l)
  BY <1>1
<1>3. Orden(k)!Hijos(l)' = Orden(k)!Hijos(l)
  BY <1>2
<1>4. {indice'[x] : x \in Orden(k)!Hijos(l)} = {indice[x] : x \in Orden(k)!Hijos(l)}
  BY <1>1
<1> QED BY <1>3, <1>4, OrdenSecuencial

\* No request at first.
LEMMA OrdenSolaEmpieza ==
    ASSUME NEW k, Orden(k)!IndexAssumption, Orden(k)!Init, OrdenInv(k),
           \A x \in k.recursos : k.comienzo[x] = 0
    PROVE  OrdenSola(k)
<1>1. /\ indice = k.comienzo /\ peticion = [p \in k.peticiones |-> Orden(k)!Libre]
  BY DEF Orden!Init
<1>2. \A s \in Secciones : Orden(k)!Hijos(s) = {}
  BY <1>1, OrdenHijos, OrdenConstants DEF FilasDe
<1>3. 1..0 = {} /\ Cardinality({}) = 0
  BY FS_EmptySet
<1>4. \A s \in Secciones : Orden(k)!Secuencial(s)
  BY <1>2, <1>3, OrdenSecuencial
<1>5. \A p \in k.peticiones : OrdenPuesta(k, peticion[p])
  BY <1>1 DEF OrdenPuesta, Orden!Libre
<1> QED BY <1>1, <1>4, <1>5 DEF OrdenSola, OrdenLlenas, OrdenColgadas

\* Nothing is written, by the only request.
LEMMA OrdenSolaQuieta ==
    ASSUME NEW k, Orden(k)!IndexAssumption, OrdenInv(k), OrdenSola(k), NEW o, k.peticiones = {o},
           UNCHANGED <<indice, padre>>, peticion[o].pc # "reorganizar",
           OrdenPuesta(k, peticion[o])'
    PROVE  OrdenSola(k)'
<1>1. OrdenColgadas(k)'
  BY DEF OrdenSola, OrdenColgadas
<1>2. OrdenLlenas(k)'
  BY OrdenListaQuieta DEF OrdenSola, OrdenLlenas
<1>3. \A p \in k.peticiones : OrdenPuesta(k, peticion[p])'
  OBVIOUS
<1> QED BY <1>1, <1>2, <1>3 DEF OrdenSola

\* A request that has ended, or begins to number, has found nothing.
LEMMA OrdenPuestaLibre ==
    ASSUME NEW k, NEW o, peticion'[o].pc \in {"idle", "reorganizar"}
    PROVE  OrdenPuesta(k, peticion[o])'
BY DEF OrdenPuesta

\* A row is inserted.
LEMMA OrdenSolaInserta ==
    ASSUME NEW k, Orden(k)!IndexAssumption, OrdenInv(k), OrdenSola(k), NEW o, k.peticiones = {o},
           Orden(k)!Insertar(o)
    PROVE  OrdenSola(k)'
<1>1. PICK q : q = peticion[o]
  OBVIOUS
<1>2. /\ q.pc = "insertar" /\ indice[q.fila] = 0 /\ OrdenForma(k, q) /\ OrdenPuesta(k, q)
      /\ peticion \in [k.peticiones -> OrdenPide(k)] /\ o \in k.peticiones
      /\ indice \in [FilasDe(k) -> 0..k.indice + 1]
      /\ padre \in [FilasDe(k) -> Secciones \cup {curso, Nada}] /\ OrdenPadres(k)
      /\ k.indice \in Nat /\ Secciones \cap k.recursos = {} /\ curso \notin FilasDe(k)
  BY <1>1, OrdenConstants DEF Orden!Insertar, OrdenInv, OrdenNuevas, OrdenPide, OrdenSola
<1>3. /\ q.indice \in 1..k.indice /\ q.fila \in FilasDe(k)
      /\ (q.fila \in Secciones /\ q.lista = curso) \/ (q.fila \in k.recursos /\ q.lista \in Secciones)
  BY <1>2 DEF OrdenForma, FilasDe
<1>4. /\ \/ UNCHANGED <<indice, padre>>
         \/ indice' = [indice EXCEPT ![q.fila] = q.indice] /\ padre' = [padre EXCEPT ![q.fila] = q.lista]
      /\ peticion' = [peticion EXCEPT ![o] = Orden(k)!Libre]
  BY <1>1, Zenon DEF Orden!Insertar, Orden!Terminar
<1>5. peticion'[o].pc = "idle"
  BY <1>2, <1>4 DEF Orden!Libre
<1>6. OrdenPuesta(k, peticion[o])'
  BY <1>5, OrdenPuestaLibre
<1>7. CASE UNCHANGED <<indice, padre>>
  BY <1>1, <1>2, <1>6, <1>7, OrdenSolaQuieta
<1>8. CASE indice' = [indice EXCEPT ![q.fila] = q.indice] /\ padre' = [padre EXCEPT ![q.fila] = q.lista]
  <2>1. /\ \A x \in FilasDe(k) \ {q.fila} : indice'[x] = indice[x] /\ padre'[x] = padre[x]
        /\ indice'[q.fila] = q.indice /\ padre'[q.fila] = q.lista
    BY <1>2, <1>3, <1>8
  <2>2. OrdenColgadas(k)'
    <3>1. SUFFICES ASSUME NEW x \in k.recursos, indice'[x] > 0 PROVE indice'[padre'[x]] > 0
      BY DEF OrdenColgadas
    <3>2. CASE x = q.fila
      BY <1>2, <1>3, <3>2, <2>1 DEF OrdenPuesta, FilasDe
    <3>3. CASE x # q.fila
      BY <1>2, <2>1, <3>1, <3>3, <1>3 DEF OrdenPadres, FilasDe, OrdenSola, OrdenColgadas
    <3> QED BY <3>2, <3>3
  <2>3. ASSUME NEW s \in Secciones, indice'[s] > 0
        PROVE  Orden(k)!Secuencial(s)'
    <3>1. CASE q.lista # s
      <4>1. /\ Orden(k)!Hijos(s)' = Orden(k)!Hijos(s)
            /\ Orden(k)!Secuencial(s)' <=> Orden(k)!Secuencial(s)
        BY <1>2, <2>1, <3>1, OrdenListaQuieta
      <4>2. CASE indice[s] > 0
        BY <1>1, <1>2, <4>1, <4>2 DEF OrdenSola, OrdenLlenas
      <4>3. CASE ~(indice[s] > 0)
        BY <1>2, <4>3, OrdenHijos, FS_EmptySet, <4>1, OrdenSecuencial DEF FilasDe, OrdenSola,
           OrdenColgadas
      <4> QED BY <4>2, <4>3
    <3>2. CASE q.lista = s
      <4> DEFINE H == Orden(k)!Hijos(s)
      <4>1. /\ s # curso /\ q.fila \in k.recursos /\ indice[s] > 0
            /\ q.indice = Orden(k)!NuevoIndice(s)
        BY <1>2, <1>3, <3>2 DEF OrdenPuesta, FilasDe
      <4>2. Orden(k)!Secuencial(s)
        BY <1>1, <1>2, <4>1 DEF OrdenSola, OrdenLlenas
      <4>3. \A x : x \in Orden(k)!Hijos(s)' <=> x \in H \cup {q.fila}
        BY OrdenHijos, OrdenHijosLuego, <1>3, <2>1, <3>2
      <4>4. q.fila \notin H /\ \A x \in H : indice'[x] = indice[x]
        BY <1>2, <2>1, OrdenHijos
      <4>5. /\ IsFiniteSet(H) /\ Cardinality(H) \in Nat /\ q.indice = Cardinality(H) + 1
            /\ {indice[x] : x \in H} = 1..Cardinality(H)
        <5>1. s \in Secciones \cup {curso}
          OBVIOUS
        <5>2. IsFiniteSet(H) /\ Cardinality(H) \in 0..k.indice + 1
          BY <5>1, OrdenHijos
        <5>3. q.indice = Cardinality(H) + 1
          BY <4>1, <5>1, OrdenNuevo
        <5>4. {indice[x] : x \in H} = 1..Cardinality(H)
          BY <4>2, OrdenSecuencial
        <5> QED BY <1>2, <5>2, <5>3, <5>4
      <4> HIDE DEF H
      <4>6. Orden(k)!Hijos(s)' = H \cup {q.fila} /\ Cardinality(H \cup {q.fila}) = Cardinality(H) + 1
        BY <4>3, <4>4, <4>5, FS_AddElement
      <4>7. {indice'[x] : x \in H \cup {q.fila}} = {indice[x] : x \in H} \cup {q.indice}
        BY <2>1, <4>4
      <4>8. 1..Cardinality(H) + 1 = (1..Cardinality(H)) \cup {Cardinality(H) + 1}
        BY <4>5
      <4> QED BY <4>5, <4>6, <4>7, <4>8, OrdenSecuencial
    <3> QED BY <3>1, <3>2
  <2>4. OrdenLlenas(k)'
    BY <2>3 DEF OrdenLlenas
  <2>5. \A p \in k.peticiones : OrdenPuesta(k, peticion[p])'
    BY <1>6
  <2> QED BY <2>2, <2>4, <2>5 DEF OrdenSola
<1> QED BY <1>4, <1>7, <1>8

\* A search finds rows where they are.
LEMMA OrdenSolaBusca ==
    ASSUME NEW k, Orden(k)!IndexAssumption, OrdenInv(k), OrdenSola(k), NEW o, k.peticiones = {o},
           Orden(k)!BuscarFila(o) \/ Orden(k)!Despertar(o)
    PROVE  OrdenSola(k)'
<1>1. PICK q : q = peticion[o]
  OBVIOUS
<1>2. /\ Orden(k)!Buscando(q) /\ OrdenBusca(k, o, q) /\ UNCHANGED <<indice, padre>>
      /\ OrdenPuesta(k, q) /\ q \in OrdenPide(k) /\ q \in Orden(k)!Peticion
      /\ o \in DOMAIN peticion /\ o \in k.peticiones
  BY <1>1, OrdenBuscando DEF OrdenSola, OrdenInv, OrdenPide
<1>3. q.pc # "reorganizar" /\ q.pc # "insertar"
  BY <1>2 DEF Orden!Buscando
<1>4. \A l, x, i : OrdenVista(k, l, x, i)' <=> OrdenVista(k, l, x, i)
  BY <1>2 DEF Orden!Hijos, Orden!Existe, OrdenVista
<1>5. OrdenPuesta(k, peticion[o])'
  <2>1. ASSUME peticion' = [peticion EXCEPT ![o] = Orden(k)!Libre]
        PROVE  OrdenPuesta(k, peticion[o])'
    BY <1>2, <2>1, OrdenPuestaLibre DEF Orden!Libre
  <2>2. ASSUME NEW x \in FilasDe(k) \cup {Nada}, OrdenEncuentra(k, o, q, x)
        PROVE  OrdenPuesta(k, peticion[o])'
    <3>1. \/ /\ q.pc = "actual" /\ x = Nada /\ q.lista = curso
             /\ peticion' = [peticion EXCEPT ![o] = Orden(k)!Libre]
          \/ /\ ~(q.pc = "actual" /\ x = Nada /\ q.lista = curso)
             /\ \E g \in Orden(k)!Peticion :
                   peticion' = [peticion EXCEPT ![o] = g] /\ OrdenHallado(k, q, x, g)
      BY <1>1, <1>2, <2>2, OrdenHalla DEF OrdenEncuentra
    <3>2. CASE peticion' = [peticion EXCEPT ![o] = Orden(k)!Libre]
      BY <2>1, <3>2
    <3>3. ASSUME NEW g \in Orden(k)!Peticion,
                 peticion' = [peticion EXCEPT ![o] = g], OrdenHallado(k, q, x, g)
          PROVE  OrdenPuesta(k, peticion[o])'
      <4>1. peticion'[o] = g /\ g.lista = q.lista /\ g.indice = q.indice
        BY <1>2, <3>3 DEF OrdenHallado
      <4>2. g.pc # "insertar"
        BY <1>2, <3>3, OrdenDespues DEF OrdenHallado
      <4>3. ASSUME q.lista \in Secciones
            PROVE  /\ OrdenVista(k, g.lista, g.actual, g.indice)
                   /\ OrdenVista(k, g.lista, g.superior, g.indice + 1)
                   /\ OrdenVista(k, g.lista, g.inferior, g.indice - 1)
        <5>1. /\ OrdenVista(k, q.lista, q.actual, q.indice)
              /\ OrdenVista(k, q.lista, q.superior, q.indice + 1)
              /\ OrdenVista(k, q.lista, q.inferior, q.indice - 1)
          BY <1>2, <4>3 DEF OrdenPuesta, Orden!Buscando
        <5>2. OrdenVista(k, q.lista, x, Orden(k)!Buscado(q))
          BY <2>2 DEF OrdenEncuentra, OrdenEnSuLugar, OrdenVista
        <5>3. /\ q.pc = "actual" => OrdenVista(k, q.lista, x, q.indice)
              /\ q.pc = "superior" => OrdenVista(k, q.lista, x, q.indice + 1)
              /\ q.pc = "inferior" => OrdenVista(k, q.lista, x, q.indice - 1)
          BY <1>2, <5>2, OrdenDespues
        <5>4. OrdenVista(k, g.lista, g.actual, g.indice)
          BY <3>3, <4>1, <5>1, <5>3 DEF OrdenHallado
        <5>5. OrdenVista(k, g.lista, g.superior, g.indice + 1)
          BY <3>3, <4>1, <5>1, <5>3 DEF OrdenHallado
        <5>6. OrdenVista(k, g.lista, g.inferior, g.indice - 1)
          BY <3>3, <4>1, <5>1, <5>3 DEF OrdenHallado
        <5> QED BY <5>4, <5>5, <5>6
      <4>4. g.lista \in Secciones =>
                /\ OrdenVista(k, g.lista, g.actual, g.indice)'
                /\ OrdenVista(k, g.lista, g.superior, g.indice + 1)'
                /\ OrdenVista(k, g.lista, g.inferior, g.indice - 1)'
        BY <1>4, <4>1, <4>3
      <4>5. OrdenPuesta(k, g)'
        BY <4>2, <4>4 DEF OrdenPuesta
      <4> QED BY <4>1, <4>5 DEF OrdenPuesta
    <3> QED BY <3>1, <3>2, <3>3
  <2>3. ASSUME NEW x, peticion' = [peticion EXCEPT ![o].espera = x]
        PROVE  OrdenPuesta(k, peticion[o])'
    <3>1. PICK g : g = [q EXCEPT !.espera = x]
      OBVIOUS
    <3>2. /\ g.pc = q.pc /\ g.lista = q.lista /\ g.indice = q.indice
          /\ g.actual = q.actual /\ g.superior = q.superior /\ g.inferior = q.inferior
      BY <1>2, <3>1 DEF Orden!Peticion
    <3>3. peticion'[o] = g
      BY <1>1, <1>2, <2>3, <3>1
    <3>4. OrdenPuesta(k, g)'
      BY <1>2, <1>3, <1>4, <3>2 DEF OrdenPuesta
    <3> QED BY <3>3, <3>4 DEF OrdenPuesta
  <2> QED BY <1>2, <2>1, <2>2, <2>3 DEF OrdenBusca
<1> QED BY <1>1, <1>2, <1>3, <1>5, OrdenSolaQuieta

\* A request begins, but for a deletion.
LEMMA OrdenSolaEmpezar ==
    ASSUME NEW k, Orden(k)!IndexAssumption, OrdenInv(k), OrdenSola(k), NEW o, k.peticiones = {o},
           Orden(k)!nuevo_seccion(o) \/ Orden(k)!nuevo_recurso(o)
             \/ Orden(k)!modificar_indice_curso(o) \/ Orden(k)!modificar_indice_seccion(o)
    PROVE  OrdenSola(k)'
<1>1. UNCHANGED <<indice, padre>> /\ peticion[o].pc # "reorganizar"
  BY DEF Orden!nuevo_seccion, Orden!nuevo_recurso, Orden!modificar_indice_curso,
     Orden!modificar_indice_seccion, Orden!Pedir
<1>2. peticion \in [k.peticiones -> OrdenPide(k)] /\ o \in k.peticiones
  BY DEF OrdenInv
<1>3. OrdenPuesta(k, peticion[o])'
  <2>1. CASE Orden(k)!nuevo_seccion(o)
    <3>1. PICK x, i : peticion' = [peticion EXCEPT ![o] =
              [Orden(k)!Libre EXCEPT !.pc = "insertar", !.lista = curso, !.fila = x, !.indice = i]]
      BY <2>1, Zenon DEF Orden!nuevo_seccion
    <3>2. peticion'[o].pc = "insertar" /\ peticion'[o].lista = curso /\ curso \notin Secciones
      BY <1>2, <3>1, OrdenConstants DEF Orden!Libre, FilasDe
    <3> QED BY <3>2 DEF OrdenPuesta
  <2>2. CASE Orden(k)!nuevo_recurso(o)
    <3>1. PICK s, x : /\ s \in Secciones /\ Orden(k)!Existe(s)
                      /\ peticion' = [peticion EXCEPT ![o] =
                                [Orden(k)!Libre EXCEPT !.pc = "insertar", !.lista = s, !.fila = x,
                                                       !.indice = Orden(k)!NuevoIndice(s)]]
      BY <2>2, Zenon DEF Orden!nuevo_recurso
    <3>2. /\ peticion'[o].pc = "insertar" /\ peticion'[o].lista = s
          /\ peticion'[o].indice = Orden(k)!NuevoIndice(s)
      BY <1>2, <3>1 DEF Orden!Libre
    <3>3. Orden(k)!NuevoIndice(s)' = Orden(k)!NuevoIndice(s)
      BY <1>1 DEF Orden!NuevoIndice, Orden!Hijos, Orden!Existe
    <3>4. indice'[s] > 0
      BY <1>1, <3>1 DEF Orden!Existe
    <3> QED BY <3>2, <3>3, <3>4 DEF OrdenPuesta
  <2>3. CASE Orden(k)!modificar_indice_curso(o) \/ Orden(k)!modificar_indice_seccion(o)
    <3>1. PICK l, i, t : peticion' = [peticion EXCEPT ![o] =
              [Orden(k)!Libre EXCEPT !.pc = "actual", !.lista = l, !.indice = i, !.tarea = t]]
      BY <2>3, Zenon DEF Orden!modificar_indice_curso, Orden!modificar_indice_seccion
    <3>2. /\ peticion'[o].pc = "actual" /\ peticion'[o].actual = Nada
          /\ peticion'[o].superior = Nada /\ peticion'[o].inferior = Nada
      BY <1>2, <3>1 DEF Orden!Libre
    <3> QED BY <3>2 DEF OrdenPuesta, OrdenVista
  <2> QED BY <2>1, <2>2, <2>3
<1> QED BY <1>1, <1>3, OrdenSolaQuieta

\* The indices of a list change, whose rows stay, and the request ends.
LEMMA OrdenSolaCambia ==
    ASSUME NEW k, Orden(k)!IndexAssumption, OrdenInv(k), OrdenSola(k), NEW o, k.peticiones = {o},
           peticion' = [peticion EXCEPT ![o] = Orden(k)!Libre], UNCHANGED padre,
           \A x \in FilasDe(k) : indice'[x] > 0 <=> indice[x] > 0,
           \A s \in Secciones : indice[s] > 0 =>
               \/ Orden(k)!Secuencial(s)'
               \/ /\ \A x \in k.recursos : padre[x] = s => indice'[x] = indice[x]
                  /\ ~(peticion[o].pc = "reorganizar" /\ peticion[o].lista = s)
    PROVE  OrdenSola(k)'
<1>1. /\ peticion \in [k.peticiones -> OrdenPide(k)] /\ o \in k.peticiones /\ OrdenPadres(k)
      /\ Secciones \subseteq FilasDe(k) /\ curso \notin FilasDe(k) /\ k.recursos \subseteq FilasDe(k)
      /\ indice \in [FilasDe(k) -> 0..k.indice + 1] /\ Secciones \cap k.recursos = {}
  BY OrdenConstants DEF OrdenInv, FilasDe
<1>2. peticion'[o].pc = "idle"
  BY <1>1 DEF Orden!Libre
<1>3. \A p \in k.peticiones : OrdenPuesta(k, peticion[p])'
  BY <1>2, OrdenPuestaLibre
<1>4. OrdenColgadas(k)'
  <2>1. SUFFICES ASSUME NEW x \in k.recursos, indice'[x] > 0 PROVE indice'[padre'[x]] > 0
    BY DEF OrdenColgadas
  <2>2. indice[x] > 0 /\ padre[x] \in Secciones
    BY <1>1, <2>1 DEF OrdenPadres
  <2>3. indice[padre[x]] > 0
    BY <2>2 DEF OrdenSola, OrdenColgadas
  <2> QED BY <1>1, <2>2, <2>3
<1>5. ASSUME NEW s \in Secciones, indice'[s] > 0
      PROVE  Orden(k)!Secuencial(s)'
  <2>1. CASE Orden(k)!Secuencial(s)'
    BY <2>1
  <2>2. CASE /\ \A x \in k.recursos : padre[x] = s => indice'[x] = indice[x]
             /\ ~(peticion[o].pc = "reorganizar" /\ peticion[o].lista = s)
    <3>1. ASSUME NEW x \in FilasDe(k), padre[x] = s,
                 indice[x] > 0 \/ indice'[x] > 0
          PROVE  x \in k.recursos
      BY <3>1, <1>1 DEF OrdenPadres, FilasDe
    <3>2. \A x \in FilasDe(k) : (padre[x] = s /\ indice[x] > 0) \/ (padre'[x] = s /\ indice'[x] > 0)
               => padre'[x] = padre[x] /\ indice'[x] = indice[x]
      BY <2>2, <3>1
    <3>3. Orden(k)!Secuencial(s)' <=> Orden(k)!Secuencial(s)
      BY <3>2, OrdenListaQuieta
    <3>4. indice[s] > 0
      BY <1>1, <1>5
    <3> QED BY <2>2, <3>3, <3>4 DEF OrdenSola, OrdenLlenas
  <2>3. indice[s] > 0
    BY <1>1, <1>5
  <2> QED BY <2>1, <2>2, <2>3
<1>6. OrdenLlenas(k)'
  BY <1>5 DEF OrdenLlenas
<1> QED BY <1>3, <1>4, <1>6 DEF OrdenSola

\* Two rows of a list exchange their indices.
LEMMA OrdenTrueca ==
    ASSUME NEW k, Orden(k)!IndexAssumption, OrdenInv(k), NEW l, UNCHANGED padre,
           NEW a \in Orden(k)!Hijos(l), NEW b \in Orden(k)!Hijos(l), a # b,
           indice' = [indice EXCEPT ![a] = indice[b], ![b] = indice[a]],
           Orden(k)!Secuencial(l)
    PROVE  Orden(k)!Secuencial(l)'
<1> DEFINE H == Orden(k)!Hijos(l)
<1>1. /\ \A x : x \in H <=> x \in FilasDe(k) /\ indice[x] > 0 /\ padre[x] = l
      /\ \A x : x \in Orden(k)!Hijos(l)' <=> x \in FilasDe(k) /\ indice'[x] > 0 /\ padre'[x] = l
  BY OrdenHijos, OrdenHijosLuego
<1>2. indice \in [FilasDe(k) -> 0..k.indice + 1]
  BY DEF OrdenInv
<1>3. /\ indice'[a] = indice[b] /\ indice'[b] = indice[a]
      /\ \A x \in FilasDe(k) \ {a, b} : indice'[x] = indice[x]
  BY <1>1, <1>2
<1>4. \A x : x \in Orden(k)!Hijos(l)' <=> x \in H
  BY <1>1, <1>3
<1>5. a \in H /\ b \in H /\ H \subseteq FilasDe(k)
  BY <1>1
<1> HIDE DEF H
<1>6. {indice'[x] : x \in H} = {indice[x] : x \in H}
  BY <1>3, <1>5
<1>7. Orden(k)!Hijos(l)' = H
  BY <1>4
<1> QED BY <1>6, <1>7, OrdenSecuencial DEF H

\* A move is committed.
LEMMA OrdenSolaGuarda ==
    ASSUME NEW k, Orden(k)!IndexAssumption, OrdenInv(k), OrdenSola(k), NEW o, k.peticiones = {o},
           Orden(k)!GuardarOrden(o)
    PROVE  OrdenSola(k)'
<1>1. PICK q : q = peticion[o]
  OBVIOUS
<1>2. /\ q \in OrdenPide(k) /\ q.pc = "guardar" /\ UNCHANGED padre
      /\ \/ indice' = indice
         \/ /\ Orden(k)!Mueve(q) /\ indice' = Orden(k)!Movidos(q)
            /\ \A x \in {q.actual, Orden(k)!Vecino(q)} \ {Nada} : Orden(k)!Existe(x)
      /\ OrdenPuesta(k, q) /\ OrdenForma(k, q)
  BY <1>1 DEF Orden!GuardarOrden, OrdenInv, OrdenSola, OrdenPide
<1>3. peticion' = [peticion EXCEPT ![o] = Orden(k)!Libre]
  BY Zenon DEF Orden!GuardarOrden, Orden!Terminar
<1>4. /\ q.indice \in 1..k.indice + 1 /\ q.tarea \in {"increment", "decrement"}
      /\ q.lista \in Secciones \cup {curso}
      /\ q.inferior # Nada => q.indice # 1
      /\ {q.actual, q.superior, q.inferior} \subseteq
             {Nada} \cup (IF q.lista = curso THEN Secciones ELSE k.recursos)
      /\ q.lista = curso => q.actual # Nada
  BY <1>2 DEF OrdenPide, OrdenForma, Orden!Peticion
<1>5. /\ indice \in [FilasDe(k) -> 0..k.indice + 1] /\ k.indice \in Nat
      /\ Secciones \cap k.recursos = {} /\ curso \notin Secciones
      /\ Secciones \subseteq FilasDe(k) /\ k.recursos \subseteq FilasDe(k)
  BY OrdenConstants DEF OrdenInv, FilasDe
<1>6. CASE indice' = indice
  BY <1>6, <1>1, <1>2, <1>3, OrdenSolaCambia
<1>7. CASE /\ Orden(k)!Mueve(q) /\ indice' = Orden(k)!Movidos(q)
           /\ \A x \in {q.actual, Orden(k)!Vecino(q)} \ {Nada} : Orden(k)!Existe(x)
  <2> DEFINE v == Orden(k)!Vecino(q)
             d == Orden(k)!Destino(q)
  <2>1. v \in {q.superior, q.inferior}
    BY DEF Orden!Vecino
  <2>2. q.actual # Nada /\ (q.lista # curso => v # Nada)
    BY <1>4, <1>7 DEF Orden!Mueve
  <2>3. indice' = IF v = Nada THEN [indice EXCEPT ![q.actual] = d]
                  ELSE [indice EXCEPT ![q.actual] = d, ![v] = q.indice]
    BY <1>7 DEF Orden!Movidos
  <2>4. d > 0 /\ q.indice > 0 /\ d # q.indice
    BY <1>4, <1>5, <1>7 DEF Orden!Destino, Orden!Mueve, Orden!Vecino
  <2>5. indice[q.actual] > 0 /\ (v # Nada => indice[v] > 0)
    BY <1>7, <2>2 DEF Orden!Existe
  <2>6. v # Nada =>  v \in (IF q.lista = curso THEN Secciones ELSE k.recursos)
    BY <1>4, <2>1
  <2>7. q.actual \in (IF q.lista = curso THEN Secciones ELSE k.recursos)
    BY <1>4, <2>2
  <2>8. q.lista # curso => /\ q.actual \in Orden(k)!Hijos(q.lista) /\ indice[q.actual] = q.indice
                           /\ v \in Orden(k)!Hijos(q.lista) /\ indice[v] = d
    <3>1. ASSUME q.lista # curso
          PROVE  /\ OrdenVista(k, q.lista, q.actual, q.indice)
                 /\ OrdenVista(k, q.lista, q.superior, q.indice + 1)
                 /\ OrdenVista(k, q.lista, q.inferior, q.indice - 1)
      BY <1>2, <1>4, <3>1 DEF OrdenPuesta
    <3>2. ASSUME q.lista # curso
          PROVE  /\ q.actual \in Orden(k)!Hijos(q.lista) /\ indice[q.actual] = q.indice
                 /\ v \in Orden(k)!Hijos(q.lista) /\ indice[v] = d
      BY <2>2, <3>1, <3>2 DEF OrdenVista, Orden!Vecino, Orden!Destino
    <3> QED BY <3>2
  <2> HIDE DEF v, d
  <2>9. \A x \in FilasDe(k) : /\ indice'[x] > 0 <=> indice[x] > 0
                              /\ x # q.actual /\ x # v => indice'[x] = indice[x]
    BY <1>5, <2>2, <2>3, <2>4, <2>5, <2>6, <2>7
  <2>10. ASSUME NEW s \in Secciones, indice[s] > 0
         PROVE  \/ Orden(k)!Secuencial(s)'
                \/ /\ \A x \in k.recursos : padre[x] = s => indice'[x] = indice[x]
                   /\ ~(peticion[o].pc = "reorganizar" /\ peticion[o].lista = s)
    <3>1. CASE q.lista = curso
      BY <1>1, <1>2, <1>5, <2>6, <2>7, <2>9, <3>1, OrdenConstants DEF FilasDe
    <3>2. CASE q.lista # curso /\ q.lista # s
      BY <2>8, <3>2, OrdenHijos, <1>1, <1>2, <1>5, <2>9
    <3>3. CASE q.lista = s
      BY <1>5, <2>2, <2>4, <2>8, <3>3, <2>3, <1>1, <1>2, <2>10, OrdenTrueca DEF OrdenSola,
         OrdenLlenas
    <3> QED BY <3>1, <3>2, <3>3
  <2> QED BY <1>2, <1>3, <2>9, <2>10, OrdenSolaCambia
<1> QED BY <1>2, <1>6, <1>7

\* Numbers given in order leave no gap.
LEMMA OrdenNumerada ==
    ASSUME NEW H, IsFiniteSet(H), NEW f \in [H -> 1..Cardinality(H)],
           \A x, y \in H : x # y => f[x] # f[y]
    PROVE  {f[x] : x \in H} = 1..Cardinality(H)
<1>1. Cardinality(H) \in Nat
  BY FS_CardinalityType
<1>2. IsFiniteSet(1..Cardinality(H)) /\ Cardinality(1..Cardinality(H)) = Cardinality(H)
  BY <1>1, FS_Interval
<1>3. f \in Injection(H, 1..Cardinality(H))
  BY DEF Injection, IsInjective
<1>4. f \in Surjection(H, 1..Cardinality(H))
  BY <1>2, <1>3, FS_Injection
<1> QED BY <1>4 DEF Surjection

\* A list is numbered again.
LEMMA OrdenSolaReorganiza ==
    ASSUME NEW k, Orden(k)!IndexAssumption, OrdenInv(k), OrdenSola(k), NEW o, k.peticiones = {o},
           Orden(k)!Reorganizar(o)
    PROVE  OrdenSola(k)'
<1>1. PICK q : q = peticion[o]
  OBVIOUS
<1>2. /\ q \in OrdenPide(k) /\ q.pc = "reorganizar" /\ UNCHANGED padre
      /\ q.lista \in Secciones \cup {curso} /\ Orden(k)!Filas = FilasDe(k)
      /\ \E f \in Orden(k)!Ordenes(q.lista) : indice' = Orden(k)!Renumerar(q.lista, f)
  BY <1>1, OrdenConstants DEF Orden!Reorganizar, OrdenInv, OrdenPide, OrdenForma
<1>3. peticion' = [peticion EXCEPT ![o] = Orden(k)!Libre]
  BY Zenon DEF Orden!Reorganizar, Orden!Terminar
<1> DEFINE H == Orden(k)!Hijos(q.lista)
<1>4. PICK f \in Orden(k)!Ordenes(q.lista) : indice' = Orden(k)!Renumerar(q.lista, f)
  BY <1>2
<1>5. Orden(k)!Cardinality(H) = Cardinality(H)
  BY DEF Orden!Cardinality, Cardinality
<1>6. f \in [H -> 1..Cardinality(H)] /\ \A x, y \in H : x # y => f[x] # f[y]
  BY <1>4, <1>5 DEF Orden!Ordenes
<1>7. IsFiniteSet(H) /\ Cardinality(H) \in 0..k.indice + 1 /\ k.indice \in Nat
  BY <1>2, OrdenHijos, OrdenConstants
<1>8. indice' = [x \in FilasDe(k) |-> IF x \in H THEN f[x] ELSE indice[x]]
  BY <1>2, <1>4 DEF Orden!Renumerar
<1>9. \A x : x \in H <=> x \in FilasDe(k) /\ indice[x] > 0 /\ padre[x] = q.lista
  BY OrdenHijos
<1>10. \A x : x \in Orden(k)!Hijos(q.lista)' <=> x \in FilasDe(k) /\ indice'[x] > 0 /\ padre'[x] = q.lista
  BY OrdenHijosLuego
<1> HIDE DEF H
<1>11. /\ \A x \in FilasDe(k) \ H : indice'[x] = indice[x]
       /\ \A x \in H : indice'[x] = f[x] /\ f[x] > 0
  BY <1>6, <1>7, <1>8, <1>9
<1>12. \A x \in FilasDe(k) : indice'[x] > 0 <=> indice[x] > 0
  BY <1>9, <1>11
<1>13. Orden(k)!Secuencial(q.lista)'
  <2>1. \A x : x \in Orden(k)!Hijos(q.lista)' <=> x \in H
    BY <1>2, <1>9, <1>10, <1>12
  <2>2. Orden(k)!Hijos(q.lista)' = H
    BY <2>1
  <2>3. {indice'[x] : x \in H} = {f[x] : x \in H}
    BY <1>11
  <2>4. {f[x] : x \in H} = 1..Cardinality(H)
    BY <1>6, <1>7, OrdenNumerada
  <2> QED BY <2>2, <2>3, <2>4, OrdenSecuencial
<1>14. ASSUME NEW s \in Secciones, s # q.lista, NEW x \in k.recursos, padre[x] = s
       PROVE  indice'[x] = indice[x]
  BY <1>9, <1>11, <1>14 DEF FilasDe
<1> QED BY <1>1, <1>2, <1>3, <1>12, <1>13, <1>14, OrdenSolaCambia

\* A resource or a section goes.
LEMMA OrdenSolaElimina ==
    ASSUME NEW k, Orden(k)!IndexAssumption, OrdenInv(k), OrdenSola(k), NEW o, k.peticiones = {o},
           Orden(k)!eliminar_recurso(o) \/ Orden(k)!eliminar_seccion(o)
    PROVE  OrdenSola(k)'
<1>0. o \in k.peticiones
  OBVIOUS
<1>1. PICK l, D :
          /\ OrdenBorrada(k, o, l, D)
          /\ \/ l = curso /\ \E s \in Secciones : /\ D = {s} \cup Orden(k)!Hijos(s)
                                                 /\ Orden(k)!Existe(s) /\ cerradura[s] = Nada
             \/ \E y \in k.recursos : l = padre[y] /\ D = {y} /\ Orden(k)!Existe(y)
  BY <1>0, OrdenBorra
<1>2. PICK g : OrdenOtraVez(k, l, g)
  BY DEF OrdenOtraVez
<1>3. l \in Secciones \cup {curso} /\ peticion' = [peticion EXCEPT ![o] = g]
  BY <1>1, <1>2 DEF OrdenBorrada, OrdenOtraVez
<1>4. g.pc = "reorganizar" /\ g.lista = l
  BY <1>2, <1>3, OrdenNumerara
<1>5. /\ peticion \in [k.peticiones -> OrdenPide(k)] /\ OrdenPadres(k)
      /\ Secciones \subseteq FilasDe(k) /\ curso \notin FilasDe(k) /\ k.recursos \subseteq FilasDe(k)
      /\ indice \in [FilasDe(k) -> 0..k.indice + 1] /\ Secciones \cap k.recursos = {}
      /\ peticion[o].pc # "reorganizar" /\ Nada \notin Secciones
  BY OrdenConstants DEF OrdenInv, FilasDe, Orden!eliminar_recurso, Orden!eliminar_seccion, Orden!Pedir
<1>6. peticion'[o].pc = "reorganizar" /\ peticion'[o].lista = l
  BY <1>0, <1>3, <1>4, <1>5
<1>7. \A p \in k.peticiones : OrdenPuesta(k, peticion[p])'
  BY <1>6, OrdenPuestaLibre
<1>8. \A x \in FilasDe(k) : /\ indice'[x] = IF x \in D THEN 0 ELSE indice[x]
                            /\ padre'[x] = IF x \in D THEN Nada ELSE padre[x]
  BY <1>1 DEF OrdenBorrada
<1>9. \A x \in k.recursos : indice[x] > 0 => padre[x] \in Secciones /\ indice[padre[x]] > 0
  BY <1>5 DEF OrdenSola, OrdenColgadas, OrdenPadres
<1>10. \A x \in k.recursos : x \notin D /\ indice[x] > 0 => padre[x] \notin D
  BY <1>5, <1>9, OrdenHijos, <1>1
<1>11. OrdenColgadas(k)'
  <2>1. SUFFICES ASSUME NEW x \in k.recursos, indice'[x] > 0 PROVE indice'[padre'[x]] > 0
    BY DEF OrdenColgadas
  <2>2. x \in FilasDe(k) /\ x \notin D /\ indice[x] > 0 /\ padre'[x] = padre[x]
    BY <1>5, <1>8, <2>1
  <2>3. padre[x] \in Secciones /\ padre[x] \notin D /\ indice[padre[x]] > 0
    BY <1>9, <1>10, <2>2
  <2> QED BY <1>5, <1>8, <2>2, <2>3
<1>12. ASSUME NEW s \in Secciones, indice'[s] > 0, s # l
       PROVE  Orden(k)!Secuencial(s)'
  <2>1. s \in FilasDe(k) /\ s \notin D /\ indice[s] > 0
    BY <1>5, <1>8, <1>12
  <2>2. Orden(k)!Secuencial(s)
    BY <1>5, <2>1 DEF OrdenSola, OrdenLlenas
  <2>3. \A x \in FilasDe(k) : x \in D => padre[x] # s
    <3>1. ASSUME NEW t \in Secciones, l = curso, D = {t} \cup Orden(k)!Hijos(t), Orden(k)!Existe(t)
          PROVE  \A x \in FilasDe(k) : x \in D => padre[x] # s
      BY <1>5, <3>1, <2>1, OrdenHijos DEF OrdenPadres, Orden!Existe
    <3>2. ASSUME NEW y \in k.recursos, l = padre[y], D = {y}
          PROVE  \A x \in FilasDe(k) : x \in D => padre[x] # s
      BY <1>12, <3>2
    <3> QED BY <1>1, <3>1, <3>2
  <2>4. \A x \in FilasDe(k) : (padre[x] = s /\ indice[x] > 0) \/ (padre'[x] = s /\ indice'[x] > 0)
               => padre'[x] = padre[x] /\ indice'[x] = indice[x]
    BY <1>5, <1>8, <2>3
  <2> QED BY <2>2, <2>4, OrdenListaQuieta
<1>13. OrdenLlenas(k)'
  BY <1>0, <1>6, <1>12 DEF OrdenLlenas
<1> QED BY <1>7, <1>11, <1>13 DEF OrdenSola

\* Every step of one request at a time keeps the resources in sequence.
LEMMA OrdenSolaSigue ==
    ASSUME NEW k, Orden(k)!IndexAssumption, OrdenInv(k), OrdenSola(k), OrdenSerial(k),
           [Orden(k)!Next]_(Orden(k)!vars)
    PROVE  OrdenSola(k)'
<1>1. PICK o : k.peticiones = {o}
  BY DEF OrdenSerial
<1>2. CASE UNCHANGED Orden(k)!vars
  <2>1. UNCHANGED <<indice, padre, peticion>>
    BY <1>2 DEF Orden!vars
  <2>2. \A l : Orden(k)!Hijos(l)' = Orden(k)!Hijos(l)
    BY <2>1 DEF Orden!Hijos, Orden!Existe
  <2>3. \A l : /\ Orden(k)!Secuencial(l)' <=> Orden(k)!Secuencial(l)
               /\ Orden(k)!NuevoIndice(l)' = Orden(k)!NuevoIndice(l)
    BY <2>1, <2>2 DEF Orden!Secuencial, Orden!NuevoIndice
  <2>4. \A p \in k.peticiones : OrdenPuesta(k, peticion[p])'
    BY <2>1, <2>2, <2>3 DEF OrdenSola, OrdenPuesta, OrdenVista
  <2>5. OrdenLlenas(k)' /\ OrdenColgadas(k)'
    BY <2>1, <2>3 DEF OrdenSola, OrdenLlenas, OrdenColgadas
  <2> QED BY <2>4, <2>5 DEF OrdenSola
<1>3. CASE Orden(k)!Next
  <2>1. Orden(k)!Seguir(o) \/ Orden(k)!Empezar(o) \/ Orden(k)!Caer(o)
    BY <1>1, <1>3 DEF Orden!Next
  <2>2. ~Orden(k)!Caer(o)
    BY DEF OrdenInv, OrdenSerial, Orden!Caer
  <2>3. CASE Orden(k)!Interbloqueo(o)
    <3>1. UNCHANGED <<indice, padre>> /\ peticion[o].espera # Nada
          /\ peticion' = [peticion EXCEPT ![o] = Orden(k)!Libre]
      BY <2>3 DEF Orden!Interbloqueo, Orden!Interbloqueados, Orden!Terminar
    <3>2. peticion \in [k.peticiones -> OrdenPide(k)] /\ o \in k.peticiones
      BY <1>1 DEF OrdenInv
    <3>3. peticion[o].pc # "reorganizar" /\ peticion'[o].pc = "idle"
      BY <3>1, <3>2 DEF OrdenPide, OrdenForma, Orden!Libre
    <3>4. OrdenPuesta(k, peticion[o])'
      BY <3>3, OrdenPuestaLibre
    <3> QED BY <1>1, <3>1, <3>3, <3>4, OrdenSolaQuieta
  <2>4. CASE Orden(k)!Seguir(o)
    BY <1>1, <2>3, <2>4, OrdenSolaInserta, OrdenSolaBusca, OrdenSolaGuarda, OrdenSolaReorganiza
       DEF Orden!Seguir
  <2>5. CASE Orden(k)!Empezar(o)
    BY <1>1, <2>5, OrdenSolaEmpezar, OrdenSolaElimina DEF Orden!Empezar
  <2> QED BY <2>1, <2>2, <2>4, <2>5
<1> QED BY <1>2, <1>3

\* The resources of a section are numbered without a gap.
LEMMA OrdenSolaDice ==
    ASSUME NEW k, Orden(k)!IndexAssumption, OrdenInv(k), OrdenSola(k)
    PROVE  Orden(k)!ResourcesSequential
<1>1. ASSUME NEW s \in Secciones, Orden(k)!Existe(s)
      PROVE  \/ \E p \in k.peticiones : peticion[p].pc = "reorganizar" /\ peticion[p].lista = s
             \/ Orden(k)!Secuencial(s)
  BY <1>1 DEF OrdenSola, OrdenLlenas, Orden!Existe
<1> QED BY <1>1 DEF Orden!ResourcesSequential

----------------------------------------
(* The pages before and after a resource *)

\* So are the lists in sequence.
LEMMA OrdenSinHuecos ==
    ASSUME NEW k, Orden(k)!IndexAssumption, OrdenInv(k), NEW l \in Secciones \cup {curso},
           Orden(k)!Secuencial(l)
    PROVE  OrdenSeguida(k, l)
<1> DEFINE H == Orden(k)!Hijos(l)
           n == Cardinality(H)
           f == [x \in H |-> indice[x]]
<1>1. IsFiniteSet(H) /\ n \in 0..k.indice + 1 /\ k.indice \in Nat
  BY OrdenHijos, OrdenConstants
<1>2. {indice[x] : x \in H} = 1..n
  BY OrdenSecuencial
<1>3. \A x \in H : indice[x] \in 1..n
  BY <1>2
<1>4. \A i \in 1..n : \E x \in H : indice[x] = i
  BY <1>2
<1> HIDE DEF H, n
<1>5. f \in [H -> 1..n] /\ \A i \in 1..n : \E x \in H : f[x] = i
  BY <1>3, <1>4
<1>6. f \in Surjection(H, 1..n)
  BY <1>5 DEF Surjection
<1>7. Cardinality(1..n) = n
  BY <1>1, FS_Interval
<1>8. f \in Injection(H, 1..n)
  BY <1>1, <1>6, <1>7, FS_Surjection DEF n
<1>9. \A x, y \in H : indice[x] = indice[y] => x = y
  BY <1>8 DEF Injection, IsInjective
<1>10. \A x \in H : \A i \in 1..indice[x] : \E y \in H : indice[y] = i
  <2>1. ASSUME NEW x \in H, NEW i \in 1..indice[x]
        PROVE  i \in 1..n
    BY <1>1, <1>3
  <2> QED BY <1>4, <2>1
<1>11. H # {} => \E x \in H : \A y \in H : indice[y] <= indice[x]
  <2>1. SUFFICES ASSUME H # {} PROVE \E x \in H : \A y \in H : indice[y] <= indice[x]
    OBVIOUS
  <2>2. n \in 1..n
    <3>1. PICK x \in H : TRUE
      BY <2>1
    <3> QED BY <1>1, <1>3, <3>1
  <2>3. PICK x \in H : indice[x] = n
    BY <1>4, <2>2
  <2> QED BY <1>1, <1>3, <2>3
<1> QED BY <1>9, <1>10, <1>11 DEF OrdenSeguida, H

\* They are the ones that a student goes through.
LEMMA OrdenVigentes ==
    ASSUME NEW k, Orden(k)!IndexAssumption, OrdenInv(k)
    PROVE  \A x : x \in Orden(k)!Vigentes <=> OrdenColgada(k, x)
<1>1. /\ indice \in [FilasDe(k) -> 0..k.indice + 1] /\ OrdenPadres(k)
      /\ curso \notin FilasDe(k) /\ Secciones \subseteq FilasDe(k) /\ Secciones \cap k.recursos = {}
      /\ k.recursos \subseteq FilasDe(k) /\ k.indice \in Nat
  BY OrdenConstants DEF OrdenInv, FilasDe
<1>2. ASSUME NEW x \in Orden(k)!Vigentes PROVE OrdenColgada(k, x)
  <2>1. x \in k.recursos /\ indice[x] > 0 /\ padre[x] \in Orden(k)!Listas
    BY DEF Orden!Vigentes, Orden!Existe
  <2>2. padre[x] \in Secciones
    BY <1>1, <2>1 DEF OrdenPadres
  <2>3. padre[x] # curso /\ indice[padre[x]] > 0
    BY <1>1, <2>1, <2>2 DEF Orden!Listas, Orden!Existe
  <2>4. padre[padre[x]] = curso
    BY <1>1, <2>2, <2>3 DEF OrdenPadres
  <2>5. x \in Orden(k)!Hijos(padre[x]) /\ padre[x] \in Orden(k)!Hijos(curso)
    BY <1>1, <2>1, <2>2, <2>3, <2>4, OrdenHijos
  <2> QED BY <1>1, <2>1, <2>2, <2>3, <2>5 DEF OrdenColgada
<1>3. ASSUME NEW x, OrdenColgada(k, x) PROVE x \in Orden(k)!Vigentes
  BY <1>3 DEF OrdenColgada, Orden!Vigentes, Orden!Existe
<1> QED BY <1>2, <1>3

\* The next page is the next resource ...
LEMMA OrdenSiguiente ==
    ASSUME NEW k, Orden(k)!IndexAssumption, OrdenInv(k), OrdenCompleta(k),
           NEW x \in Orden(k)!Vigentes, NEW y \in Orden(k)!Vigentes
    PROVE  y \in Orden(k)!Navegar(x, 1) <=> OrdenSigueA(k, x, y)
<1> DEFINE s == padre[x]
           t == padre[y]
           J == Orden(k)!En(s, indice[x] + 1)
           T == Orden(k)!En(curso, indice[s] + 1)
<1>1. OrdenColgada(k, x) /\ OrdenColgada(k, y)
  BY OrdenVigentes
<1>2. /\ \A z : z \in J <=> z \in Orden(k)!Hijos(s) /\ indice[z] = indice[x] + 1
      /\ \A z : z \in T <=> z \in Orden(k)!Hijos(curso) /\ indice[z] = indice[s] + 1
  BY DEF Orden!En
<1>3. Orden(k)!Navegar(x, 1) = IF J # {} THEN J ELSE UNION {Orden(k)!Extremos(u, 1) : u \in T}
  BY <1>1 DEF Orden!Navegar, Orden!NavegarDesde, OrdenColgada
<1>4. \A u, z : z \in Orden(k)!Extremos(u, 1) <=>
          z \in Orden(k)!Hijos(u) /\ \A w \in Orden(k)!Hijos(u) : indice[z] <= indice[w]
  BY DEF Orden!Extremos
<1>5. \A a, b : Orden(k)!Precede(a, b) <=>
          \/ padre[a] = padre[b] /\ indice[a] < indice[b]
          \/ padre[a] # padre[b] /\ indice[padre[a]] < indice[padre[b]]
  BY DEF Orden!Precede
<1>6. /\ s \in Secciones /\ t \in Secciones /\ s \in Orden(k)!Listas /\ t \in Orden(k)!Listas
      /\ s \in Orden(k)!Hijos(curso) /\ t \in Orden(k)!Hijos(curso)
      /\ x \in Orden(k)!Hijos(s) /\ y \in Orden(k)!Hijos(t)
      /\ indice[x] \in Nat /\ indice[y] \in Nat /\ indice[s] \in Nat /\ indice[t] \in Nat
      /\ indice[x] > 0 /\ indice[y] > 0 /\ indice[s] > 0 /\ indice[t] > 0
  BY <1>1 DEF OrdenColgada
<1>7. OrdenSeguida(k, s) /\ OrdenSeguida(k, t) /\ OrdenSeguida(k, curso)
  BY <1>6 DEF OrdenCompleta
<1>8. \A z \in Orden(k)!Vigentes :
          /\ padre[z] \in Orden(k)!Hijos(curso) /\ z \in Orden(k)!Hijos(padre[z])
          /\ indice[z] \in Nat /\ indice[padre[z]] \in Nat /\ indice[z] > 0
  BY OrdenVigentes DEF OrdenColgada
<1>9. \A a, b \in Orden(k)!Hijos(curso) : indice[a] = indice[b] => a = b
  BY <1>7 DEF OrdenSeguida
<1>10. CASE J # {}
  <2>1. PICK w : w \in J
    BY <1>10
  <2>2. w \in Orden(k)!Hijos(s) /\ indice[w] = indice[x] + 1 /\ padre[w] = s
    BY <1>2, <1>6, <2>1 DEF OrdenCompleta
  <2>3. w \in Orden(k)!Vigentes
    BY <1>6, <2>2, OrdenVigentes DEF OrdenCompleta
  <2>4. J = {w}
    BY <1>2, <1>7, <2>1, <2>2 DEF OrdenSeguida
  <2>5. Orden(k)!Precede(x, w)
    BY <1>5, <1>6, <2>2
  <2>6. ASSUME NEW z \in Orden(k)!Vigentes, Orden(k)!Precede(x, z), Orden(k)!Precede(z, w)
        PROVE  FALSE
    BY <1>5, <1>6, <1>8, <2>2, <2>6
  <2>7. ASSUME y # w, Orden(k)!Precede(x, y)
        PROVE  Orden(k)!Precede(w, y)
    <3>1. CASE t = s
      BY <1>6, <1>7, <2>2, <2>7, <3>1, <1>5 DEF OrdenSeguida
    <3>2. CASE t # s
      BY <1>5, <1>6, <2>2, <2>7, <3>2
    <3> QED BY <3>1, <3>2
  <2>8. y = w <=> OrdenSigueA(k, x, y)
    BY <2>3, <2>5, <2>6, <2>7 DEF OrdenSigueA
  <2> QED BY <1>3, <1>10, <2>4, <2>8
<1>11. CASE J = {}
  <2>1. \A z \in Orden(k)!Vigentes : Orden(k)!Precede(x, z) => indice[padre[z]] > indice[s] /\ padre[z] # s
    <3>1. ASSUME NEW z \in Orden(k)!Vigentes, padre[z] = s, indice[x] < indice[z]
          PROVE  FALSE
      <4>1. indice[x] + 1 \in 1..indice[z] /\ z \in Orden(k)!Hijos(s)
        BY <1>6, <1>8, <3>1
      <4>2. PICK w \in Orden(k)!Hijos(s) : indice[w] = indice[x] + 1
        BY <1>7, <4>1 DEF OrdenSeguida
      <4> QED BY <1>2, <1>11, <4>2
    <3> QED BY <1>5, <1>6, <1>8, <3>1
  <2>2. CASE T = {}
    <3>1. ~Orden(k)!Precede(x, y)
      <4>1. SUFFICES ASSUME Orden(k)!Precede(x, y) PROVE FALSE
        OBVIOUS
      <4>2. indice[s] + 1 \in 1..indice[t]
        BY <1>6, <2>1, <4>1
      <4>3. PICK w \in Orden(k)!Hijos(curso) : indice[w] = indice[s] + 1
        BY <1>6, <1>7, <4>2 DEF OrdenSeguida
      <4> QED BY <1>2, <2>2, <4>3
    <3> QED BY <1>3, <1>11, <2>2, <3>1 DEF OrdenSigueA
  <2>3. CASE T # {}
    <3>1. PICK u : u \in T
      BY <2>3
    <3>2. u \in Orden(k)!Hijos(curso) /\ indice[u] = indice[s] + 1 /\ u # s
      BY <1>2, <1>6, <3>1
    <3>3. T = {u}
      BY <1>2, <1>9, <3>1, <3>2
    <3>4. /\ u \in Orden(k)!Listas /\ u \in Secciones /\ OrdenSeguida(k, u)
          /\ Orden(k)!Hijos(u) # {}
      BY <3>2 DEF OrdenCompleta
    <3>5. PICK v \in Orden(k)!Hijos(u) : TRUE
      BY <3>4
    <3>6. 1 \in 1..indice[v]
      BY <3>4, <3>5 DEF OrdenCompleta
    <3>7. PICK w \in Orden(k)!Hijos(u) : indice[w] = 1
      BY <3>4, <3>5, <3>6 DEF OrdenSeguida
    <3>8. w \in Orden(k)!Vigentes /\ padre[w] = u
      BY <3>4, <3>7, OrdenVigentes DEF OrdenCompleta
    <3>9. \A z \in Orden(k)!Hijos(u) : indice[z] \in Nat /\ indice[z] > 0
      BY <3>4 DEF OrdenCompleta
    <3>10. \A z : z \in Orden(k)!Extremos(u, 1) <=> z = w
      BY <3>4, <3>7, <3>9, <1>4 DEF OrdenSeguida
    <3>11. y \in Orden(k)!Navegar(x, 1) <=> y = w
      BY <1>3, <1>11, <3>3, <3>10
    <3>12. Orden(k)!Precede(x, w)
      BY <1>5, <1>6, <3>2, <3>8
    <3>13. ASSUME NEW z \in Orden(k)!Vigentes, Orden(k)!Precede(x, z), Orden(k)!Precede(z, w)
           PROVE  FALSE
      BY <2>1, <3>13, <1>5, <1>6, <1>8, <3>2, <3>8, <3>7
    <3>14. ASSUME y # w, Orden(k)!Precede(x, y)
           PROVE  Orden(k)!Precede(w, y)
      <4>1. indice[t] > indice[s]
        BY <2>1, <3>14
      <4>2. CASE t = u
        BY <1>6, <3>4, <3>7, <3>14, <4>2, <1>5, <3>8, <3>9 DEF OrdenSeguida
      <4>3. CASE t # u
        BY <1>6, <1>9, <3>2, <4>3, <1>5, <3>8, <4>1
      <4> QED BY <4>2, <4>3
    <3>15. y = w <=> OrdenSigueA(k, x, y)
      BY <3>8, <3>12, <3>13, <3>14 DEF OrdenSigueA
    <3> QED BY <3>11, <3>15
  <2> QED BY <2>2, <2>3
<1> QED BY <1>10, <1>11

\* ... and the page before is the one before.
LEMMA OrdenAnterior ==
    ASSUME NEW k, Orden(k)!IndexAssumption, OrdenInv(k), OrdenCompleta(k),
           NEW x \in Orden(k)!Vigentes, NEW y \in Orden(k)!Vigentes
    PROVE  x \in Orden(k)!Navegar(y, -1) <=> OrdenSigueA(k, x, y)
<1> DEFINE s == padre[x]
           t == padre[y]
           J == Orden(k)!En(t, indice[y] + (-1))
           T == Orden(k)!En(curso, indice[t] + (-1))
<1>1. OrdenColgada(k, x) /\ OrdenColgada(k, y)
  BY OrdenVigentes
<1>2. /\ \A z : z \in J <=> z \in Orden(k)!Hijos(t) /\ indice[z] = indice[y] + (-1)
      /\ \A z : z \in T <=> z \in Orden(k)!Hijos(curso) /\ indice[z] = indice[t] + (-1)
  BY DEF Orden!En
<1>3. Orden(k)!Navegar(y, -1) = IF J # {} THEN J ELSE UNION {Orden(k)!Extremos(u, -1) : u \in T}
  BY <1>1 DEF Orden!Navegar, Orden!NavegarDesde, OrdenColgada
<1>4. \A u, z : z \in Orden(k)!Extremos(u, -1) <=>
          z \in Orden(k)!Hijos(u) /\ \A w \in Orden(k)!Hijos(u) : indice[z] >= indice[w]
  BY DEF Orden!Extremos
<1>5. \A a, b : Orden(k)!Precede(a, b) <=>
          \/ padre[a] = padre[b] /\ indice[a] < indice[b]
          \/ padre[a] # padre[b] /\ indice[padre[a]] < indice[padre[b]]
  BY DEF Orden!Precede
<1>6. /\ s \in Secciones /\ t \in Secciones /\ s \in Orden(k)!Listas /\ t \in Orden(k)!Listas
      /\ s \in Orden(k)!Hijos(curso) /\ t \in Orden(k)!Hijos(curso)
      /\ x \in Orden(k)!Hijos(s) /\ y \in Orden(k)!Hijos(t)
      /\ indice[x] \in Nat /\ indice[y] \in Nat /\ indice[s] \in Nat /\ indice[t] \in Nat
      /\ indice[x] > 0 /\ indice[y] > 0 /\ indice[s] > 0 /\ indice[t] > 0
  BY <1>1 DEF OrdenColgada
<1>7. OrdenSeguida(k, s) /\ OrdenSeguida(k, t) /\ OrdenSeguida(k, curso)
  BY <1>6 DEF OrdenCompleta
<1>8. \A z \in Orden(k)!Vigentes :
          /\ padre[z] \in Orden(k)!Hijos(curso) /\ z \in Orden(k)!Hijos(padre[z])
          /\ indice[z] \in Nat /\ indice[padre[z]] \in Nat /\ indice[z] > 0
  BY OrdenVigentes DEF OrdenColgada
<1>9. \A a, b \in Orden(k)!Hijos(curso) : indice[a] = indice[b] => a = b
  BY <1>7 DEF OrdenSeguida
<1>10. CASE J # {}
  <2>1. PICK w : w \in J
    BY <1>10
  <2>2. w \in Orden(k)!Hijos(t) /\ indice[w] = indice[y] - 1 /\ padre[w] = t
    BY <1>2, <1>6, <2>1 DEF OrdenCompleta
  <2>3. w \in Orden(k)!Vigentes
    BY <1>6, <2>2, OrdenVigentes DEF OrdenCompleta
  <2>4. J = {w}
    BY <1>2, <1>7, <2>1, <2>2 DEF OrdenSeguida
  <2>5. Orden(k)!Precede(w, y)
    BY <1>5, <1>6, <2>2
  <2>6. ASSUME NEW z \in Orden(k)!Vigentes, Orden(k)!Precede(w, z), Orden(k)!Precede(z, y)
        PROVE  FALSE
    BY <1>5, <1>6, <1>8, <2>2, <2>6
  <2>7. ASSUME x # w, Orden(k)!Precede(x, y)
        PROVE  Orden(k)!Precede(x, w)
    <3>1. CASE t = s
      BY <1>6, <1>7, <2>2, <2>7, <3>1, <1>5 DEF OrdenSeguida
    <3>2. CASE t # s
      BY <1>5, <1>6, <2>2, <2>7, <3>2
    <3> QED BY <3>1, <3>2
  <2>8. x = w <=> OrdenSigueA(k, x, y)
    BY <2>3, <2>5, <2>6, <2>7 DEF OrdenSigueA
  <2> QED BY <1>3, <1>10, <2>4, <2>8
<1>11. CASE J = {}
  <2>1. \A z \in Orden(k)!Vigentes : Orden(k)!Precede(z, y) => indice[padre[z]] < indice[t] /\ padre[z] # t
    <3>1. ASSUME NEW z \in Orden(k)!Vigentes, padre[z] = t, indice[z] < indice[y]
          PROVE  FALSE
      <4>1. indice[y] - 1 \in 1..indice[y]
        BY <1>6, <1>8, <3>1
      <4>2. PICK w \in Orden(k)!Hijos(t) : indice[w] = indice[y] - 1
        BY <1>6, <1>7, <4>1 DEF OrdenSeguida
      <4> QED BY <1>2, <1>6, <1>11, <4>2
    <3> QED BY <1>5, <1>6, <1>8, <3>1
  <2>2. CASE T = {}
    <3>1. ~Orden(k)!Precede(x, y)
      <4>1. SUFFICES ASSUME Orden(k)!Precede(x, y) PROVE FALSE
        OBVIOUS
      <4>2. indice[t] - 1 \in 1..indice[t]
        BY <1>6, <2>1, <4>1
      <4>3. PICK w \in Orden(k)!Hijos(curso) : indice[w] = indice[t] - 1
        BY <1>6, <1>7, <4>2 DEF OrdenSeguida
      <4> QED BY <1>2, <1>6, <2>2, <4>3
    <3> QED BY <1>3, <1>11, <2>2, <3>1 DEF OrdenSigueA
  <2>3. CASE T # {}
    <3>1. PICK u : u \in T
      BY <2>3
    <3>2. u \in Orden(k)!Hijos(curso) /\ indice[u] = indice[t] - 1 /\ u # t
      BY <1>2, <1>6, <3>1
    <3>3. T = {u}
      BY <1>2, <1>9, <3>1, <3>2
    <3>4. /\ u \in Orden(k)!Listas /\ u \in Secciones /\ OrdenSeguida(k, u)
          /\ Orden(k)!Hijos(u) # {}
      BY <3>2 DEF OrdenCompleta
    <3>5. PICK w \in Orden(k)!Hijos(u) : \A z \in Orden(k)!Hijos(u) : indice[z] <= indice[w]
      BY <3>4 DEF OrdenSeguida
    <3>6. w \in Orden(k)!Vigentes /\ padre[w] = u
      BY <3>4, <3>5, OrdenVigentes DEF OrdenCompleta
    <3>7. \A z \in Orden(k)!Hijos(u) : indice[z] \in Nat /\ indice[z] > 0
      BY <3>4 DEF OrdenCompleta
    <3>8. \A z \in Orden(k)!Hijos(u) : indice[z] >= indice[w] => z = w
      BY <3>5, <3>7, <3>4 DEF OrdenSeguida
    <3>10. \A z : z \in Orden(k)!Extremos(u, -1) <=> z = w
      BY <3>5, <3>7, <1>4, <3>8
    <3>11. x \in Orden(k)!Navegar(y, -1) <=> x = w
      BY <1>3, <1>11, <3>3, <3>10
    <3>12. Orden(k)!Precede(w, y)
      BY <1>5, <1>6, <3>2, <3>6
    <3>13. ASSUME NEW z \in Orden(k)!Vigentes, Orden(k)!Precede(w, z), Orden(k)!Precede(z, y)
           PROVE  FALSE
      BY <2>1, <3>13, <1>5, <1>6, <1>8, <3>2, <3>6, <3>5, <3>7
    <3>14. ASSUME x # w, Orden(k)!Precede(x, y)
           PROVE  Orden(k)!Precede(x, w)
      <4>1. indice[s] < indice[t]
        BY <2>1, <3>14
      <4>2. CASE s = u
        BY <1>6, <3>8, <3>14, <4>2, <1>5, <3>5, <3>6, <3>7
      <4>3. CASE s # u
        BY <1>6, <1>9, <3>2, <4>3, <1>5, <3>6, <4>1
      <4> QED BY <4>2, <4>3
    <3>15. x = w <=> OrdenSigueA(k, x, y)
      BY <3>6, <3>12, <3>13, <3>14 DEF OrdenSigueA
    <3> QED BY <3>11, <3>15
  <2> QED BY <2>2, <2>3
<1> QED BY <1>10, <1>11

\* The pages follow the order.
LEMMA OrdenNavega ==
    ASSUME NEW k, Orden(k)!IndexAssumption, OrdenInv(k)
    PROVE  Orden(k)!NavigationFollowsOrder
<1>0. /\ indice \in [FilasDe(k) -> 0..k.indice + 1] /\ OrdenPadres(k) /\ k.indice \in Nat
      /\ curso \notin FilasDe(k) /\ Secciones \subseteq FilasDe(k) /\ Secciones \cap k.recursos = {}
      /\ k.recursos \subseteq FilasDe(k)
  BY OrdenConstants DEF OrdenInv, FilasDe
<1>1. ASSUME \A l \in Orden(k)!Listas : Orden(k)!Secuencial(l),
             \A s \in Orden(k)!Listas : Orden(k)!Hijos(s) # {}
      PROVE  OrdenCompleta(k)
  <2>1. curso \in Orden(k)!Listas /\ Orden(k)!Listas \subseteq Secciones \cup {curso}
    BY DEF Orden!Listas
  <2>2. \A l \in Orden(k)!Listas : OrdenSeguida(k, l)
    BY <1>1, <2>1, OrdenSinHuecos
  <2>3. \A s \in Orden(k)!Hijos(curso) : s \in Orden(k)!Listas /\ s \in Secciones
            /\ indice[s] \in Nat /\ indice[s] > 0
    BY <1>0, OrdenHijos DEF Orden!Listas, Orden!Existe
  <2>4. ASSUME NEW s \in Secciones, NEW x \in Orden(k)!Hijos(s)
        PROVE  /\ padre[x] = s /\ x \in k.recursos /\ indice[x] \in Nat /\ indice[x] > 0
               /\ s \in Orden(k)!Listas => OrdenColgada(k, x)
    <3>1. padre[x] = s /\ x \in k.recursos /\ indice[x] \in Nat /\ indice[x] > 0
      BY <1>0, OrdenHijos
    <3>2. ASSUME s \in Orden(k)!Listas PROVE OrdenColgada(k, x)
      BY <3>1, <3>2, OrdenVigentes DEF Orden!Vigentes, Orden!Existe
    <3> QED BY <3>1, <3>2
  <2> QED BY <1>1, <2>1, <2>2, <2>3, <2>4 DEF OrdenCompleta
<1>2. SUFFICES ASSUME OrdenCompleta(k), NEW x \in Orden(k)!Vigentes, NEW y \in Orden(k)!Vigentes
               PROVE  /\ y \in Orden(k)!Navegar(x, 1) <=> OrdenSigueA(k, x, y)
                      /\ x \in Orden(k)!Navegar(y, -1) <=> OrdenSigueA(k, x, y)
  BY <1>1 DEF Orden!NavigationFollowsOrder, OrdenSigueA
<1> QED BY <1>2, OrdenSiguiente, OrdenAnterior

\* Sections can be put in sequence.
LEMMA EnSecuenciaPuede ==
    EnSecuencia \in [Secciones -> 1..Cardinality(Secciones)] /\ Cardinality(Secciones) \in Nat
<1>0. Orden(DeBloquear)!IndexAssumption
  BY TeachingAssumption
<1>1. IsFiniteSet(Secciones)
  BY <1>0, OrdenConstants
<1>2. Cardinality(Secciones) \in Nat /\ ExistsBijection(1..Cardinality(Secciones), Secciones)
  BY <1>1, FS_CardinalityType
<1>3. IsFiniteSet(1..Cardinality(Secciones)) /\ Cardinality(1..Cardinality(Secciones)) = Cardinality(Secciones)
  BY <1>2, FS_Interval
<1>4. ExistsBijection(Secciones, 1..Cardinality(Secciones))
  BY <1>1, <1>3, FS_SameCardinalityBij
<1>5. PICK f \in Bijection(Secciones, 1..Cardinality(Secciones)) : TRUE
  BY <1>4 DEF ExistsBijection
<1>6. f \in [Secciones -> 1..Cardinality(Secciones)] /\ \A x, y \in Secciones : f[x] = f[y] => x = y
  BY <1>5 DEF Bijection, Injection, IsInjective
<1>7. \E g \in [Secciones -> 1..Cardinality(Secciones)] : \A x, y \in Secciones : g[x] = g[y] => x = y
  BY <1>6
<1> QED BY <1>2, <1>7 DEF EnSecuencia

\* An empty course is in order ...
LEMMA OrdenadoEmpieza == Orden(DeOrdenar)!Init => OrdenadoInv
<1>1. SUFFICES ASSUME Orden(DeOrdenar)!Init PROVE OrdenadoInv
  OBVIOUS
<1>2. Orden(DeOrdenar)!IndexAssumption
  BY TeachingAssumption
<1>3. /\ DeOrdenar.comienzo = [x \in FilasDe(DeOrdenar) |-> 0]
      /\ DeOrdenar.recursos \subseteq FilasDe(DeOrdenar)
  BY DEF DeOrdenar, FilasDe
<1>4. DeOrdenar.indice \in Nat
  BY <1>2, OrdenConstants
<1>5. /\ DeOrdenar.comienzo \in [FilasDe(DeOrdenar) -> 0..DeOrdenar.indice + 1]
      /\ \A x \in DeOrdenar.recursos : DeOrdenar.comienzo[x] = 0
  BY <1>3, <1>4
<1>6. OrdenInv(DeOrdenar)
  BY <1>1, <1>2, <1>5, OrdenEmpieza
<1> QED BY <1>1, <1>2, <1>5, <1>6, OrdenSolaEmpieza DEF OrdenadoInv

\* ... and a request at a time keeps it so.
LEMMA OrdenadoSigue ==
    OrdenadoInv /\ [Orden(DeOrdenar)!Next]_(Orden(DeOrdenar)!vars) => OrdenadoInv'
<1>1. Orden(DeOrdenar)!IndexAssumption
  BY TeachingAssumption
<1>2. OrdenSerial(DeOrdenar)
  BY DEF OrdenSerial, DeOrdenar, Una
<1> QED BY <1>1, <1>2, OrdenSigue, OrdenSolaSigue DEF OrdenadoInv

\* The numbers and the pages that the order promises.
LEMMA OrdenadoDice ==
    OrdenadoInv => /\ Orden(DeOrdenar)!TypeOK
                   /\ Orden(DeOrdenar)!ResourcesSequential /\ Orden(DeOrdenar)!NavigationFollowsOrder
<1>1. Orden(DeOrdenar)!IndexAssumption
  BY TeachingAssumption
<1> QED BY <1>1, OrdenDice, OrdenSolaDice, OrdenNavega DEF OrdenadoInv

\* The sections of the course that overlapping requests move ...
LEMMA BloqueadoEmpieza == Orden(DeBloquear)!Init => BloqueadoInv
<1>1. SUFFICES ASSUME Orden(DeBloquear)!Init PROVE BloqueadoInv
  OBVIOUS
<1>2. Orden(DeBloquear)!IndexAssumption
  BY TeachingAssumption
<1>3. /\ DeBloquear.comienzo = EnSecuencia /\ DeBloquear.recursos = {}
      /\ FilasDe(DeBloquear) = Secciones
  BY DEF DeBloquear, FilasDe
<1>4. DeBloquear.indice \in Nat /\ Cardinality(Secciones) <= DeBloquear.indice + 1
  BY <1>2, OrdenConstants
<1>5. 1..Cardinality(Secciones) \subseteq 0..DeBloquear.indice + 1
  BY <1>4, EnSecuenciaPuede
<1>6. EnSecuencia \in [Secciones -> 0..DeBloquear.indice + 1]
  BY <1>5, EnSecuenciaPuede
<1>7. OrdenInv(DeBloquear)
  BY <1>1, <1>2, <1>3, <1>6, OrdenEmpieza
<1>8. peticion = [p \in DeBloquear.peticiones |-> Orden(DeBloquear)!Libre]
  BY <1>1 DEF Orden!Init
<1>9. OrdenSujetas(DeBloquear)
  BY <1>8 DEF OrdenSujetas, OrdenSujeta, Orden!Libre
<1> QED BY <1>7, <1>9 DEF BloqueadoInv

\* ... keep what a move has locked, and it exchanges two of them.
LEMMA BloqueadoSigue ==
    BloqueadoInv /\ [Orden(DeBloquear)!Next]_(Orden(DeBloquear)!vars)
        => BloqueadoInv' /\ Orden(DeBloquear)!LockedMovesExchange
<1>1. Orden(DeBloquear)!IndexAssumption
  BY TeachingAssumption
<1>2. DeBloquear.bloqueo
  BY DEF DeBloquear
<1> QED BY <1>1, <1>2, OrdenSigue, OrdenSujetan, OrdenIntercambia DEF BloqueadoInv

\* Their types.
LEMMA BloqueadoDice == BloqueadoInv => Orden(DeBloquear)!TypeOK
<1>1. Orden(DeBloquear)!IndexAssumption
  BY TeachingAssumption
<1> QED BY <1>1, OrdenDice DEF BloqueadoInv

----------------------------------------
(* The slides of a presentation and its page (Slideshow), of any length *)

\* The constants of the slides.
LEMMA SlidesConstants ==
    ASSUME Presentado!SlideshowAssumption
    PROVE  /\ Nada \notin Laminas /\ Nada \notin Lamina
           /\ MaxCambiadas \in Nat /\ MaxGuardadas \in Nat
           /\ Presentado!MaxOrden = MaxCambiadas + 1
           /\ Presentado!Editor =
                 [campo: 0..MaxCambiadas, indice: 0..MaxCambiadas, boton: 0..MaxCambiadas,
                  id: Laminas \cup {Nada}, orden: 1..MaxCambiadas + 1, texto: Contenidos]
           /\ \A S : Presentado!Cardinality(S) = Cardinality(S)
<1>1. \A S : Presentado!Cardinality(S) = Cardinality(S)
  BY DEF Presentado!Cardinality, Cardinality, Presentado!IsFiniteSet, IsFiniteSet
<1>2. Presentado!MaxOrden = MaxCambiadas + 1
  BY DEF Presentado!MaxOrden
<1> QED BY <1>1, <1>2 DEF Presentado!SlideshowAssumption, Presentado!Editor, Lamina

\* What an editor holds.
LEMMA CadaEditor ==
    ASSUME Presentado!SlideshowAssumption, NEW p \in Seq(Presentado!Editor), NEW i \in 1..Len(p)
    PROVE  /\ p[i] \in Presentado!Editor
           /\ p[i].campo \in 0..MaxCambiadas /\ p[i].boton \in 0..MaxCambiadas
           /\ p[i].id \in Laminas \cup {Nada}
           /\ p[i].orden \in 1..MaxCambiadas + 1 /\ p[i].texto \in Contenidos
<1>1. p[i] \in Presentado!Editor
  OBVIOUS
<1>2. p[i] \in [campo: 0..MaxCambiadas, indice: 0..MaxCambiadas, boton: 0..MaxCambiadas,
                id: Laminas \cup {Nada}, orden: 1..MaxCambiadas + 1, texto: Contenidos]
  BY <1>1, SlidesConstants, Zenon
<1> QED BY <1>1, <1>2

\* The first numbers.
LEMMA LosPrimeros ==
    ASSUME NEW n \in Nat PROVE IsFiniteSet(1..n) /\ Cardinality(1..n) = n
<1>1. 1 \in Int /\ n \in Int
  OBVIOUS
<1>2. IsFiniteSet(1..n) /\ Cardinality(1..n) = IF 1 > n THEN 0 ELSE n - 1 + 1
  BY <1>1, FS_Interval, Zenon
<1> QED BY <1>2

\* A page shows no more editors than there were changes.
LEMMA LargoDeLaPagina ==
    ASSUME Presentado!SlideshowAssumption, NEW s, NEW p, NEW c \in Nat, SlidesBien(s, p, c)
    PROVE  /\ p \in Seq(Presentado!Editor) /\ Len(p) \in Nat /\ Len(p) <= c
           /\ IsFiniteSet(SinFila(p)) /\ Cardinality(SinFila(p)) \in Nat
           /\ IsFiniteSet(Presentado!Vivas(s)) /\ Cardinality(Presentado!Vivas(s)) \in Nat
<1> DEFINE n == Len(p)
           V == Presentado!Vivas(s)
           D == (1..n) \ SinFila(p)
<1>1. p \in Seq(Presentado!Editor) /\ n \in Nat
  BY DEF SlidesBien, PaginaDe
<1>2. IsFiniteSet(V) /\ Cardinality(V) \in Nat
  BY FS_CardinalityType DEF SlidesBien
<1>3. IsFiniteSet(1..n) /\ Cardinality(1..n) = n
  BY <1>1, LosPrimeros
<1>4. SinFila(p) \subseteq 1..n
  BY DEF SinFila
<1>5. IsFiniteSet(SinFila(p)) /\ Cardinality(SinFila(p)) \in Nat
  BY <1>3, <1>4, FS_Subset, FS_CardinalityType
<1>6. (1..n) \cap SinFila(p) = SinFila(p)
  BY <1>4
<1>7. Cardinality(D) = n - Cardinality(SinFila(p))
  BY <1>3, <1>6, FS_Difference
<1>8. PICK f : f = [i \in D |-> p[i].id]
  OBVIOUS
<1>9. f \in Injection(D, V)
  BY <1>8 DEF SlidesBien, PaginaDe, SinFila, Injection, IsInjective
<1>10. Cardinality(D) <= Cardinality(V)
  BY <1>2, <1>9, FS_Injection
<1>11. Cardinality(V) + Cardinality(SinFila(p)) <= c
  BY DEF SlidesBien
<1>12. n <= c
  <2> HIDE DEF V, D, n
  <2> QED BY <1>1, <1>2, <1>5, <1>7, <1>10, <1>11
<1> QED BY <1>1, <1>2, <1>5, <1>12

\* A function on the first numbers is a sequence.
LEMMA EsSecuencia ==
    ASSUME NEW S, NEW n \in Nat, NEW f \in [1..n -> S]
    PROVE  f \in Seq(S) /\ Len(f) = n
<1>1. f \in Seq(S)
  BY SeqDef, Zenon
<1>2. Len(f) \in Nat /\ DOMAIN f = 1..Len(f)
  BY <1>1, LenProperties
<1>3. 1..n = 1..Len(f)
  BY <1>2
<1>4. n = Len(f)
  BY <1>2, LosPrimeros, <1>3
<1> QED BY <1>1, <1>4

\* A nonempty set of natural numbers has a least one.
LEMMA ElMenor ==
    ASSUME NEW T, T \subseteq Nat, T # {} PROVE \E x \in T : \A y \in T : x <= y
<1>1. PICK R : R = {ss \in Nat \X Nat : ss[1] < ss[2]}
  OBVIOUS
<1>2. IsWellFoundedOn(R, Nat)
  BY <1>1, NatLessThanWellFounded DEF OpToRel
<1>3. PICK x \in T : \A y \in T : ~ (<<y, x>> \in R)
  BY <1>2, WFMin
<1>4. \A y \in T : x <= y
  <2> SUFFICES ASSUME NEW y \in T, y < x PROVE FALSE
    OBVIOUS
  <2>1. PICK z : z = <<y, x>>
    OBVIOUS
  <2>2. z \in Nat \X Nat /\ z[1] = y /\ z[2] = x
    BY <2>1
  <2>3. z \in R
    BY <1>1, <2>2
  <2> QED BY <1>3, <2>1, <2>3
<1> QED BY <1>4

\* The first field of a name is one of that name.
LEMMA ElCampo ==
    ASSUME NEW p \in Seq(Presentado!Editor), NEW i, Presentado!ConCampo(p, i) # {}
    PROVE  Presentado!Campo(p, i) \in 1..Len(p) /\ p[Presentado!Campo(p, i)].campo = i
<1> DEFINE T == Presentado!ConCampo(p, i)
<1>1. DOMAIN p = 1..Len(p) /\ Len(p) \in Nat
  BY LenProperties
<1>2. T \subseteq 1..Len(p) /\ \A k \in T : p[k].campo = i
  BY <1>1 DEF Presentado!ConCampo
<1>3. T \subseteq Nat
  BY <1>1, <1>2
<1>4. \E k \in T : \A m \in T : k <= m
  BY <1>3, ElMenor
<1>5. Presentado!Campo(p, i) \in T
  BY <1>4 DEF Presentado!Campo
<1> QED BY <1>2, <1>5

\* What the rows in their order are.
LEMMA LasQueHay ==
    ASSUME Presentado!SlideshowAssumption, NEW s, NEW q \in Presentado!EnOrden(s),
           IsFiniteSet(Presentado!Vivas(s))
    PROVE  /\ Cardinality(Presentado!Vivas(s)) \in Nat
           /\ q \in [1..Cardinality(Presentado!Vivas(s)) -> Presentado!Vivas(s)]
           /\ DOMAIN q = 1..Cardinality(Presentado!Vivas(s))
           /\ \A i, j \in DOMAIN q : i < j => q[i] # q[j] /\ s[q[i]].orden <= s[q[j]].orden
           /\ \A i, j \in DOMAIN q : q[i] = q[j] => i = j
<1> DEFINE n == Cardinality(Presentado!Vivas(s))
<1>1. n \in Nat
  BY FS_CardinalityType
<1>2. Presentado!Cardinality(Presentado!Vivas(s)) = n
  BY SlidesConstants
<1>3. /\ q \in [1..n -> Presentado!Vivas(s)]
      /\ \A i, j \in DOMAIN q : i < j => q[i] # q[j] /\ s[q[i]].orden <= s[q[j]].orden
  BY <1>2, Zenon DEF Presentado!EnOrden
<1>4. DOMAIN q = 1..n
  BY <1>3
<1>5. \A i, j \in DOMAIN q : q[i] = q[j] => i = j
  <2> SUFFICES ASSUME NEW i \in DOMAIN q, NEW j \in DOMAIN q, q[i] = q[j], i # j PROVE FALSE
    OBVIOUS
  <2>1. i < j \/ j < i
    BY <1>1, <1>4
  <2> QED BY <2>1, <1>3
<1> QED BY <1>1, <1>3, <1>4, <1>5

\* A page that is loaded shows the rows.
LEMMA EditoresBien ==
    ASSUME Presentado!SlideshowAssumption, NEW s \in [Laminas -> Lamina \cup {Nada}],
           IsFiniteSet(Presentado!Vivas(s)),
           NEW c \in 0..MaxCambiadas, Cardinality(Presentado!Vivas(s)) <= c,
           NEW q \in Presentado!EnOrden(s)
    PROVE  SlidesBien(s, Presentado!Editores(s, q), c)
<1> DEFINE n == Cardinality(Presentado!Vivas(s))
           e == Presentado!Editores(s, q)
<1>1. /\ n \in Nat /\ DOMAIN q = 1..n
      /\ \A i \in 1..n : q[i] \in Presentado!Vivas(s)
      /\ \A i, j \in 1..n : q[i] = q[j] => i = j
  BY LasQueHay
<1>2. n <= MaxCambiadas /\ MaxCambiadas \in Nat
  BY <1>1, SlidesConstants
<1>3. \A i \in 1..n : /\ q[i] \in Laminas /\ q[i] # Nada
                      /\ s[q[i]].orden \in 1..MaxCambiadas + 1 /\ s[q[i]].texto \in Contenidos
  <2> TAKE i \in 1..n
  <2>1. q[i] \in Laminas /\ s[q[i]] # Nada
    BY <1>1 DEF Presentado!Vivas
  <2>2. s[q[i]] \in Lamina
    BY <2>1
  <2>3. q[i] # Nada
    BY <2>1, SlidesConstants
  <2> QED BY <2>1, <2>2, <2>3 DEF Lamina
<1>4. e = [i \in 1..n |-> [campo |-> i - 1, indice |-> i - 1, boton |-> i - 1, id |-> q[i],
                           orden |-> s[q[i]].orden, texto |-> s[q[i]].texto]]
  BY <1>1 DEF Presentado!Editores
<1>5. \A i \in 1..n : /\ e[i] \in Presentado!Editor
                      /\ e[i].id = q[i] /\ e[i].campo = i - 1 /\ e[i].indice = i - 1
  <2> TAKE i \in 1..n
  <2>1. e[i] = [campo |-> i - 1, indice |-> i - 1, boton |-> i - 1, id |-> q[i],
                orden |-> s[q[i]].orden, texto |-> s[q[i]].texto]
    BY <1>4
  <2>2. i - 1 \in 0..MaxCambiadas
    BY <1>1, <1>2
  <2> HIDE DEF e
  <2>3. e[i] \in [campo: 0..MaxCambiadas, indice: 0..MaxCambiadas, boton: 0..MaxCambiadas,
                  id: Laminas \cup {Nada}, orden: 1..MaxCambiadas + 1, texto: Contenidos]
    BY <1>3, <2>1, <2>2
  <2>4. e[i] \in Presentado!Editor
    BY <2>3, SlidesConstants, Zenon
  <2> QED BY <2>1, <2>4
<1> HIDE DEF e, n
<1>6. e \in [1..n -> Presentado!Editor]
  BY <1>4, <1>5
<1>7. e \in Seq(Presentado!Editor) /\ Len(e) = n
  BY <1>1, <1>6, EsSecuencia
<1>8. SinFila(e) = {}
  BY <1>3, <1>5, <1>7 DEF SinFila
<1>9. n + Cardinality(SinFila(e)) <= c
  BY <1>1, <1>8, FS_EmptySet DEF n
<1>10. DeDonde(s, e)
  <2>1. \A i \in 1..Len(e) : e[i].campo + 1 \in DOMAIN q /\ e[i].id = q[e[i].campo + 1]
    <3> TAKE i \in 1..Len(e)
    <3>1. i \in 1..n /\ e[i].campo + 1 = i
      BY <1>1, <1>5, <1>7
    <3> QED BY <3>1, <1>1, <1>5
  <2> QED BY <2>1, Zenon DEF DeDonde
<1>11. PaginaDe(s, e)
  BY <1>1, <1>5, <1>7, <1>10 DEF PaginaDe
<1> QED BY <1>9, <1>11 DEF SlidesBien, e, n

\* A page that keeps some of its editors.
LEMMA MenosEditores ==
    ASSUME Presentado!SlideshowAssumption, NEW s, NEW p, NEW c \in Nat, SlidesBien(s, p, c),
           NEW r, NEW h, Conserva(r, p, h)
    PROVE  SlidesBien(s, r, c)
<1>0. /\ r \in Seq(Presentado!Editor) /\ h \in [1..Len(r) -> 1..Len(p)]
      /\ \A i, j \in 1..Len(r) : h[i] = h[j] => i = j
      /\ \A i \in 1..Len(r) : /\ r[i].id = p[h[i]].id /\ r[i].campo = p[h[i]].campo
                              /\ r[i].indice = i - 1
  BY DEF Conserva
<1>1. /\ IsFiniteSet(SinFila(p)) /\ Cardinality(SinFila(p)) \in Nat
      /\ Cardinality(Presentado!Vivas(s)) \in Nat
  BY LargoDeLaPagina
<1>2. PICK g : g = [i \in SinFila(r) |-> h[i]]
  OBVIOUS
<1>3. g \in Injection(SinFila(r), SinFila(p))
  BY <1>0, <1>2 DEF Injection, IsInjective, SinFila
<1>4. Cardinality(SinFila(r)) <= Cardinality(SinFila(p)) /\ Cardinality(SinFila(r)) \in Nat
  BY <1>0, <1>1, <1>3, FS_Injection, FS_CardinalityType
<1>5. Cardinality(Presentado!Vivas(s)) + Cardinality(SinFila(r)) <= c
  BY <1>1, <1>4 DEF SlidesBien
<1>6. DeDonde(s, r)
  <2>1. PICK q \in Presentado!EnOrden(s) : \A i \in 1..Len(p) :
           p[i].id # Nada => p[i].campo + 1 \in DOMAIN q /\ p[i].id = q[p[i].campo + 1]
    BY DEF SlidesBien, PaginaDe, DeDonde
  <2>2. \A i \in 1..Len(r) :
           r[i].id # Nada => r[i].campo + 1 \in DOMAIN q /\ r[i].id = q[r[i].campo + 1]
    BY <1>0, <2>1
  <2> QED BY <2>1, <2>2 DEF DeDonde
<1>7. PaginaDe(s, r)
  <2>1. \A i \in 1..Len(r) :
           r[i].indice = i - 1 /\ (r[i].id # Nada => r[i].id \in Presentado!Vivas(s))
    BY <1>0 DEF SlidesBien, PaginaDe
  <2>2. \A i, j \in 1..Len(r) : (r[i].id = r[j].id /\ r[i].id # Nada) => i = j
    <3>1. \A i, j \in 1..Len(p) : (p[i].id = p[j].id /\ p[i].id # Nada) => i = j
      BY DEF SlidesBien, PaginaDe
    <3> SUFFICES ASSUME NEW i \in 1..Len(r), NEW j \in 1..Len(r),
                        r[i].id = r[j].id, r[i].id # Nada
                 PROVE  i = j
      OBVIOUS
    <3>2. h[i] \in 1..Len(p) /\ h[j] \in 1..Len(p)
      BY <1>0
    <3>3. h[i] = h[j]
      BY <1>0, <3>1, <3>2
    <3>4. \A a, b \in 1..Len(r) : h[a] = h[b] => a = b
      BY <1>0
    <3> QED BY <3>3, <3>4
  <2> QED BY <1>0, <2>1, <2>2, <1>6 DEF PaginaDe
<1> QED BY <1>0, <1>5, <1>7 DEF SlidesBien

\* Text of a slide that is written over.
LEMMA SlideEscrita ==
    ASSUME Presentado!SlideshowAssumption, NEW s, NEW p, NEW c \in Nat, SlidesBien(s, p, c),
           NEW k \in 1..Len(p), NEW x \in Contenidos
    PROVE  SlidesBien(s, [p EXCEPT ![k].texto = x], c)
<1> DEFINE e == [p[k] EXCEPT !.texto = x]
           r == [p EXCEPT ![k] = e]
<1>1. p \in Seq(Presentado!Editor) /\ Len(p) \in Nat
  BY LargoDeLaPagina
<1>2. /\ e \in Presentado!Editor /\ e.id = p[k].id /\ e.campo = p[k].campo
      /\ e.indice = p[k].indice
  <2>1. p[k] \in Presentado!Editor
    BY <1>1
  <2>2. p[k] \in [campo: 0..MaxCambiadas, indice: 0..MaxCambiadas, boton: 0..MaxCambiadas,
                  id: Laminas \cup {Nada}, orden: 1..MaxCambiadas + 1, texto: Contenidos]
    BY <2>1, SlidesConstants, Zenon
  <2>3. /\ e.id = p[k].id /\ e.campo = p[k].campo /\ e.indice = p[k].indice
        /\ e \in [campo: 0..MaxCambiadas, indice: 0..MaxCambiadas, boton: 0..MaxCambiadas,
                  id: Laminas \cup {Nada}, orden: 1..MaxCambiadas + 1, texto: Contenidos]
    BY <2>2
  <2> QED BY <2>3, SlidesConstants, Zenon
<1> HIDE DEF e
<1>3. /\ r \in Seq(Presentado!Editor) /\ Len(r) = Len(p)
      /\ \A j \in 1..Len(p) : r[j] = IF j = k THEN e ELSE p[j]
  BY <1>1, <1>2, ExceptSeq
<1>4. PICK h : h = [i \in 1..Len(p) |-> i]
  OBVIOUS
<1> HIDE DEF r
<1>5. /\ h \in [1..Len(r) -> 1..Len(p)] /\ \A i, j \in 1..Len(r) : h[i] = h[j] => i = j
      /\ \A i \in 1..Len(r) : h[i] = i
  BY <1>3, <1>4
<1>6. \A i \in 1..Len(r) : /\ r[i].id = p[h[i]].id /\ r[i].campo = p[h[i]].campo
                           /\ r[i].indice = i - 1
  <2> TAKE i \in 1..Len(r)
  <2>1. i \in 1..Len(p) /\ h[i] = i /\ p[i].indice = i - 1
    BY <1>3, <1>5 DEF SlidesBien, PaginaDe
  <2> QED BY <2>1, <1>2, <1>3
<1> HIDE DEF e
<1>7. Conserva(r, p, h)
  BY <1>3, <1>5, <1>6 DEF Conserva
<1>9. SlidesBien(s, r, c)
  BY <1>7, MenosEditores
<1> QED BY <1>9 DEF r, e

\* A slide that is added took a change.
LEMMA SlideAdded ==
    ASSUME Presentado!SlideshowAssumption, NEW s, NEW p, NEW c \in Nat, SlidesBien(s, p, c),
           c < MaxCambiadas, NEW x \in Contenidos
    PROVE  SlidesBien(s, Append(p,
              [campo |-> Len(p), indice |-> Len(p), boton |-> Len(p), id |-> Nada,
               orden |-> Len(p) + 1, texto |-> x]), c + 1)
<1> DEFINE n == Len(p)
           e == [campo |-> n, indice |-> n, boton |-> n, id |-> Nada, orden |-> n + 1,
                 texto |-> x]
           r == Append(p, e)
<1>1. /\ p \in Seq(Presentado!Editor) /\ n \in Nat /\ n <= c
      /\ IsFiniteSet(SinFila(p)) /\ Cardinality(SinFila(p)) \in Nat
      /\ Cardinality(Presentado!Vivas(s)) \in Nat
  BY LargoDeLaPagina
<1>2. e \in Presentado!Editor /\ e.id = Nada /\ e.indice = n
  <2>1. n \in 0..MaxCambiadas /\ n + 1 \in 1..MaxCambiadas + 1
    BY <1>1, SlidesConstants
  <2> HIDE DEF n
  <2>2. e \in [campo: 0..MaxCambiadas, indice: 0..MaxCambiadas, boton: 0..MaxCambiadas,
               id: Laminas \cup {Nada}, orden: 1..MaxCambiadas + 1, texto: Contenidos]
    BY <2>1
  <2> QED BY <2>2, SlidesConstants
<1> HIDE DEF e
<1>3. /\ r \in Seq(Presentado!Editor) /\ Len(r) = n + 1
      /\ \A j \in 1..n : r[j] = p[j]
      /\ r[n + 1] = e
  BY <1>1, <1>2, AppendProperties
<1> HIDE DEF r, n
<1>4. \A j \in 1..Len(r) : j \in 1..n \/ j = n + 1
  BY <1>1, <1>3
<1>5. SinFila(r) = SinFila(p) \cup {n + 1} /\ n + 1 \notin SinFila(p)
  BY <1>1, <1>2, <1>3 DEF SinFila, n
<1>6. Cardinality(SinFila(r)) = Cardinality(SinFila(p)) + 1
  BY <1>1, <1>5, FS_AddElement
<1>7. Cardinality(Presentado!Vivas(s)) + Cardinality(SinFila(r)) <= c + 1
  BY <1>1, <1>6 DEF SlidesBien
<1>8. \A i \in 1..n : p[i].indice = i - 1 /\ (p[i].id # Nada => p[i].id \in Presentado!Vivas(s))
  BY DEF SlidesBien, PaginaDe, n
<1>9. \A i \in 1..Len(r) :
         r[i].indice = i - 1 /\ (r[i].id # Nada => r[i].id \in Presentado!Vivas(s))
  <2> TAKE i \in 1..Len(r)
  <2>1. CASE i \in 1..n
    BY <2>1, <1>3, <1>8
  <2>2. CASE i = n + 1
    BY <2>2, <1>1, <1>2, <1>3
  <2> QED BY <2>1, <2>2, <1>4
<1>10. \A i, j \in 1..Len(r) : (r[i].id = r[j].id /\ r[i].id # Nada) => i = j
  BY <1>2, <1>3, <1>4 DEF SlidesBien, PaginaDe, n
<1>11. DeDonde(s, r)
  <2>1. PICK q \in Presentado!EnOrden(s) : \A i \in 1..n :
           p[i].id # Nada => p[i].campo + 1 \in DOMAIN q /\ p[i].id = q[p[i].campo + 1]
    BY DEF SlidesBien, PaginaDe, DeDonde, n
  <2>2. \A i \in 1..Len(r) :
           r[i].id # Nada => r[i].campo + 1 \in DOMAIN q /\ r[i].id = q[r[i].campo + 1]
    BY <2>1, <1>2, <1>3, <1>4
  <2> QED BY <2>1, <2>2 DEF DeDonde
<1>12. SlidesBien(s, r, c + 1)
  BY <1>3, <1>7, <1>9, <1>10, <1>11 DEF SlidesBien, PaginaDe
<1> QED BY <1>12 DEF r, e, n

\* What is left of a page without one of its editors.
LEMMA SinUno ==
    ASSUME NEW p \in Seq(Presentado!Editor), NEW k \in 1..Len(p)
    PROVE  /\ Presentado!RemoveAt(p, k) \in Seq(Presentado!Editor)
           /\ Len(Presentado!RemoveAt(p, k)) = Len(p) - 1
           /\ \A i \in 1..Len(p) - 1 :
                 Presentado!RemoveAt(p, k)[i] = p[IF i < k THEN i ELSE i + 1]
<1> DEFINE n == Len(p)
           a == SubSeq(p, 1, k - 1)
           b == SubSeq(p, k + 1, n)
<1>1. n \in Nat /\ k \in Nat /\ 1 <= k /\ k <= n /\ \A i \in 1..n : p[i] \in Presentado!Editor
  OBVIOUS
<1>2. /\ a \in Seq(Presentado!Editor) /\ Len(a) = k - 1
      /\ \A i \in 1..k - 1 : a[i] = p[i]
  <2>1. 1 \in Int /\ k - 1 \in Int /\ \A i \in 1..k - 1 : p[i] \in Presentado!Editor
    BY <1>1
  <2>2. PICK u : u = k - 1
    OBVIOUS
  <2>3. u \in Int /\ \A i \in 1..u : p[i] \in Presentado!Editor
    BY <2>1, <2>2
  <2>4. /\ SubSeq(p, 1, u) \in Seq(Presentado!Editor)
        /\ Len(SubSeq(p, 1, u)) = IF 1 <= u THEN u - 1 + 1 ELSE 0
        /\ \A i \in 1..u - 1 + 1 : SubSeq(p, 1, u)[i] = p[1 + i - 1]
    BY <2>1, <2>3, SubSeqProperties
  <2>5. /\ a \in Seq(Presentado!Editor)
        /\ Len(a) = IF 1 <= k - 1 THEN (k - 1) - 1 + 1 ELSE 0
        /\ \A i \in 1..(k - 1) - 1 + 1 : a[i] = p[1 + i - 1]
    BY <2>2, <2>4, Zenon
  <2> HIDE DEF a
  <2> QED BY <2>5, <1>1
<1>3. /\ b \in Seq(Presentado!Editor) /\ Len(b) = n - k
      /\ \A i \in 1..n - k : b[i] = p[k + i]
  <2>1. k + 1 \in Int /\ n \in Int /\ \A i \in k + 1..n : p[i] \in Presentado!Editor
    BY <1>1
  <2> PICK u : u = k + 1
    OBVIOUS
  <2> HIDE DEF n
  <2>6. u \in Int /\ \A i \in u..n : p[i] \in Presentado!Editor
    BY <2>1
  <2>7. /\ SubSeq(p, u, n) \in Seq(Presentado!Editor)
        /\ Len(SubSeq(p, u, n)) = IF u <= n THEN n - u + 1 ELSE 0
        /\ \A i \in 1..n - u + 1 : SubSeq(p, u, n)[i] = p[u + i - 1]
    BY <2>1, <2>6, SubSeqProperties
  <2>2. /\ b \in Seq(Presentado!Editor) /\ Len(b) = IF k + 1 <= n THEN n - (k + 1) + 1 ELSE 0
        /\ \A i \in 1..n - (k + 1) + 1 : b[i] = p[(k + 1) + i - 1]
    BY <2>7, Zenon
  <2> HIDE DEF b
  <2>3. Len(b) = n - k
    BY <2>2, <1>1
  <2>4. \A i \in 1..n - k : i \in 1..n - (k + 1) + 1 /\ (k + 1) + i - 1 = k + i
    BY <1>1
  <2> QED BY <2>2, <2>3, <2>4
<1>4. Presentado!RemoveAt(p, k) = a \o b
  BY DEF Presentado!RemoveAt
<1> HIDE DEF a, b, n
<1>5. /\ a \o b \in Seq(Presentado!Editor) /\ Len(a \o b) = Len(a) + Len(b)
      /\ \A i \in 1..Len(a) + Len(b) :
            (a \o b)[i] = IF i <= Len(a) THEN a[i] ELSE b[i - Len(a)]
  BY <1>2, <1>3, ConcatProperties, Zenon
<1>6. Len(a \o b) = n - 1
  BY <1>1, <1>2, <1>3, <1>5
<1>7. \A i \in 1..n - 1 : (a \o b)[i] = p[IF i < k THEN i ELSE i + 1]
  <2> TAKE i \in 1..n - 1
  <2>1. i \in 1..Len(a) + Len(b)
    BY <1>1, <1>2, <1>3
  <2>2. (a \o b)[i] = IF i <= Len(a) THEN a[i] ELSE b[i - Len(a)]
    BY <2>1, <1>5
  <2>3. CASE i < k
    BY <2>3, <1>1, <1>2, <2>2
  <2>4. CASE ~(i < k)
    BY <2>4, <1>1, <1>2, <2>2, <1>3
  <2> QED BY <2>3, <2>4
<1> QED BY <1>4, <1>5, <1>6, <1>7 DEF n

\* A page whose editors are numbered again without one of them.
LEMMA SlideRemoved ==
    ASSUME Presentado!SlideshowAssumption, NEW s, NEW p, NEW c \in Nat, SlidesBien(s, p, c),
           NEW k \in 1..Len(p), c <= MaxCambiadas
    PROVE  SlidesBien(s, Presentado!Renumerados(Presentado!RemoveAt(p, k)), c)
<1> DEFINE n == Len(p)
           m == Presentado!RemoveAt(p, k)
           r == Presentado!Renumerados(m)
<1>1. p \in Seq(Presentado!Editor) /\ n \in Nat /\ n <= c
  BY LargoDeLaPagina
<1>2. /\ m \in Seq(Presentado!Editor) /\ Len(m) = n - 1
      /\ \A i \in 1..n - 1 : m[i] = p[IF i < k THEN i ELSE i + 1]
  BY <1>1, SinUno
<1>3. DOMAIN m = 1..n - 1 /\ n - 1 \in Nat
  BY <1>1, <1>2, LenProperties
<1> HIDE DEF m
<1>4. r = [i \in 1..n - 1 |-> [m[i] EXCEPT !.indice = i - 1, !.orden = i]]
  BY <1>3 DEF Presentado!Renumerados
<1>5. \A i \in 1..n - 1 : /\ r[i] \in Presentado!Editor /\ r[i].id = m[i].id
                          /\ r[i].campo = m[i].campo /\ r[i].indice = i - 1
  <2> HIDE DEF r
  <2> TAKE i \in 1..n - 1
  <2>1. m[i] \in Presentado!Editor
    BY <1>2
  <2>2. m[i] \in [campo: 0..MaxCambiadas, indice: 0..MaxCambiadas, boton: 0..MaxCambiadas,
                  id: Laminas \cup {Nada}, orden: 1..MaxCambiadas + 1, texto: Contenidos]
    BY <2>1, SlidesConstants, Zenon
  <2>3. r[i] = [m[i] EXCEPT !.indice = i - 1, !.orden = i]
    BY <1>4
  <2>4. i - 1 \in 0..MaxCambiadas /\ i \in 1..MaxCambiadas + 1
    <3>1. n \in Nat /\ n <= MaxCambiadas + 1 /\ MaxCambiadas \in Nat
      BY <1>1, SlidesConstants
    <3> HIDE DEF n
    <3> QED BY <3>1
  <2>5. PICK e : e = m[i]
    OBVIOUS
  <2>6. r[i] = [campo |-> e.campo, indice |-> i - 1, boton |-> e.boton, id |-> e.id, orden |-> i,
                texto |-> e.texto]
    BY <2>2, <2>3, <2>5
  <2>7. /\ r[i].id = m[i].id /\ r[i].campo = m[i].campo /\ r[i].indice = i - 1
        /\ r[i] \in [campo: 0..MaxCambiadas, indice: 0..MaxCambiadas, boton: 0..MaxCambiadas,
                  id: Laminas \cup {Nada}, orden: 1..MaxCambiadas + 1, texto: Contenidos]
    BY <2>2, <2>4, <2>5, <2>6
  <2> QED BY <2>7, SlidesConstants, Zenon
<1> HIDE DEF r
<1>6. r \in Seq(Presentado!Editor) /\ Len(r) = n - 1
  <2>1. r \in [1..n - 1 -> Presentado!Editor]
    BY <1>4, <1>5
  <2> QED BY <2>1, <1>3, EsSecuencia
<1>7. PICK h : h = [i \in 1..n - 1 |-> IF i < k THEN i ELSE i + 1]
  OBVIOUS
<1>8. /\ h \in [1..Len(r) -> 1..n] /\ \A i, j \in 1..Len(r) : h[i] = h[j] => i = j
      /\ \A i \in 1..n - 1 : m[i] = p[h[i]]
  BY <1>1, <1>2, <1>6, <1>7
<1>9. \A i \in 1..Len(r) : /\ r[i].id = p[h[i]].id /\ r[i].campo = p[h[i]].campo
                           /\ r[i].indice = i - 1
  BY <1>5, <1>6, <1>8
<1>10. Conserva(r, p, h)
  BY <1>6, <1>8, <1>9 DEF Conserva
<1>12. SlidesBien(s, r, c)
  BY <1>10, MenosEditores
<1> QED BY <1>12 DEF r, m

\* More changes may have been made.
LEMMA SlidesCrece ==
    ASSUME Presentado!SlideshowAssumption, NEW s, NEW p, NEW c \in Nat, SlidesBien(s, p, c)
    PROVE  SlidesBien(s, p, c + 1)
<1>1. /\ Cardinality(SinFila(p)) \in Nat /\ Cardinality(Presentado!Vivas(s)) \in Nat
  BY LargoDeLaPagina
<1>2. Cardinality(Presentado!Vivas(s)) + Cardinality(SinFila(p)) <= c
  BY DEF SlidesBien
<1>3. Cardinality(Presentado!Vivas(s)) + Cardinality(SinFila(p)) <= c + 1
  BY <1>1, <1>2
<1> QED BY <1>3 DEF SlidesBien

\* A save inserts a row for a field whose editor has none.
LEMMA AltasSinFila ==
    ASSUME Presentado!SlideshowAssumption, NEW p, NEW c \in Nat, SlidesBien(slides, p, c)
    PROVE  /\ \A i \in Presentado!Enviados(p) :
                 /\ Presentado!Campo(p, i) \in 1..Len(p) /\ p[Presentado!Campo(p, i)].campo = i
                 /\ Presentado!_slide_orders(p)[i] = p[Presentado!Campo(p, i)].orden
                 /\ ~Presentado!Ausente(p, i)
           /\ \A i \in Altas(p) : Presentado!Campo(p, i) \in SinFila(p)
<1>1. p \in Seq(Presentado!Editor)
  BY DEF SlidesBien, PaginaDe
<1>2. \A i \in Presentado!Enviados(p) :
         /\ Presentado!Campo(p, i) \in 1..Len(p) /\ p[Presentado!Campo(p, i)].campo = i
         /\ Presentado!_slide_orders(p)[i] = p[Presentado!Campo(p, i)].orden
  <2> TAKE i \in Presentado!Enviados(p)
  <2>1. i \in 0..Len(p) - 1 /\ Presentado!ConCampo(p, i) # {}
    BY DEF Presentado!Enviados
  <2>2. Presentado!Campo(p, i) \in 1..Len(p) /\ p[Presentado!Campo(p, i)].campo = i
    BY <1>1, <2>1, ElCampo
  <2>3. Presentado!_slide_orders(p)[i] = p[Presentado!Campo(p, i)].orden
    BY <2>1 DEF Presentado!_slide_orders
  <2> QED BY <2>2, <2>3
<1>3. \A i \in Presentado!Enviados(p) : ~Presentado!Ausente(p, i)
  BY <1>2 DEF SlidesBien, PaginaDe, Presentado!Ausente
<1>4. \A i \in Altas(p) : Presentado!Campo(p, i) \in SinFila(p)
  <2> TAKE i \in Altas(p)
  <2>1. i \in Presentado!Enviados(p) /\ ~Presentado!Actualiza(p, i)
    BY DEF Altas
  <2>2. p[Presentado!Campo(p, i)].id \notin Presentado!Vivas(slides)
    BY <2>1, <1>3 DEF Presentado!Actualiza
  <2>3. p[Presentado!Campo(p, i)].id = Nada
    BY <2>1, <2>2, <1>2 DEF SlidesBien, PaginaDe
  <2> QED BY <2>1, <2>3, <1>2 DEF SinFila
<1> QED BY <1>2, <1>3, <1>4

\* The rows of a save are rows, no more than there were changes.
LEMMA GuardadasBien ==
    ASSUME Presentado!SlideshowAssumption, NEW p, NEW c \in Nat, SlidesBien(slides, p, c),
           NEW nuevo \in [Altas(p) -> Laminas \ Presentado!Vivas(slides)],
           NEW s, s = Presentado!_update_slideshow(p, nuevo)
    PROVE  /\ s \in [Laminas -> Lamina \cup {Nada}]
           /\ IsFiniteSet(Presentado!Vivas(s)) /\ Cardinality(Presentado!Vivas(s)) <= c
<1> DEFINE V == Presentado!Vivas(slides)
           A == Altas(p)
           R == {nuevo[i] : i \in A}
           W(i) == [orden |-> Presentado!_slide_orders(p)[i],
                    texto |-> p[Presentado!Campo(p, i)].texto]
<1>1. A \subseteq Presentado!Enviados(p) /\ DOMAIN nuevo = A
  BY DEF Altas
<1>2. \A i \in Presentado!Enviados(p) : W(i) \in Lamina
  <2> TAKE i \in Presentado!Enviados(p)
  <2>1. /\ Presentado!Campo(p, i) \in 1..Len(p)
        /\ Presentado!_slide_orders(p)[i] = p[Presentado!Campo(p, i)].orden
    BY AltasSinFila
  <2>2. p \in Seq(Presentado!Editor)
    BY DEF SlidesBien, PaginaDe
  <2>3. /\ p[Presentado!Campo(p, i)].orden \in 1..MaxCambiadas + 1
        /\ p[Presentado!Campo(p, i)].texto \in Contenidos
    BY <2>1, <2>2, CadaEditor
  <2> QED BY <2>1, <2>3 DEF Lamina
<1>3. \A d \in Laminas :
         \/ s[d] = Nada
         \/ d \in V /\ s[d] = slides[d]
         \/ d \in V /\ \E i \in Presentado!Enviados(p) : s[d] = W(i)
         \/ d \in R /\ \E i \in Presentado!Enviados(p) : s[d] = W(i)
  <2> TAKE d \in Laminas
  <2>1. CASE d \in V
    <3>1. CASE d \in Presentado!Borradas(p)
      BY <2>1, <3>1 DEF Presentado!_update_slideshow
    <3>2. CASE d \notin Presentado!Borradas(p)
               /\ \E i \in Presentado!Enviados(p) : p[Presentado!Campo(p, i)].id = d
      <4>1. PICK i : i = CHOOSE j \in Presentado!Enviados(p) : p[Presentado!Campo(p, j)].id = d
        OBVIOUS
      <4>2. i \in Presentado!Enviados(p)
        BY <3>2, <4>1
      <4>3. s[d] = W(i)
        BY <2>1, <3>2, <4>1 DEF Presentado!_update_slideshow
      <4> QED BY <2>1, <4>2, <4>3
    <3>3. CASE d \notin Presentado!Borradas(p)
               /\ ~\E i \in Presentado!Enviados(p) : p[Presentado!Campo(p, i)].id = d
      BY <2>1, <3>3 DEF Presentado!_update_slideshow
    <3> QED BY <3>1, <3>2, <3>3
  <2>2. CASE d \notin V
    <3>1. CASE \E i \in DOMAIN nuevo : nuevo[i] = d
      <4>1. PICK i : i = CHOOSE j \in DOMAIN nuevo : nuevo[j] = d
        OBVIOUS
      <4>2. i \in A /\ nuevo[i] = d
        BY <3>1, <4>1, <1>1
      <4>3. s[d] = W(i)
        BY <2>2, <3>1, <4>1 DEF Presentado!_update_slideshow
      <4> QED BY <1>1, <4>2, <4>3
    <3>2. CASE ~\E i \in DOMAIN nuevo : nuevo[i] = d
      BY <2>2, <3>2 DEF Presentado!_update_slideshow
    <3> QED BY <3>1, <3>2
  <2> QED BY <2>1, <2>2
<1>4. s \in [Laminas -> Lamina \cup {Nada}]
  <2>1. \A d \in Laminas : s[d] \in Lamina \cup {Nada}
    <3>1. \A d \in Laminas : slides[d] \in Lamina \cup {Nada}
      BY DEF SlidesBien
    <3> HIDE DEF W, R, V
    <3> QED BY <3>1, <1>2, <1>3
  <2>3. s = [d \in Laminas |-> s[d]]
    BY Zenon DEF Presentado!_update_slideshow
  <2> QED BY <2>1, <2>3
<1>5. Presentado!Vivas(s) \subseteq V \cup R
  BY <1>3 DEF Presentado!Vivas
<1>6. /\ IsFiniteSet(V) /\ IsFiniteSet(SinFila(p))
      /\ Cardinality(V) \in Nat /\ Cardinality(SinFila(p)) \in Nat
  BY LargoDeLaPagina
<1>7. PICK f : f = [i \in A |-> Presentado!Campo(p, i)]
  OBVIOUS
<1>8. f \in Injection(A, SinFila(p))
  BY <1>1, <1>7, AltasSinFila DEF Injection, IsInjective
<1>9. IsFiniteSet(A) /\ Cardinality(A) <= Cardinality(SinFila(p)) /\ Cardinality(A) \in Nat
  BY <1>6, <1>8, FS_Injection, FS_CardinalityType
<1>10. nuevo \in Surjection(A, R)
  BY DEF Surjection
<1>11. IsFiniteSet(R) /\ Cardinality(R) <= Cardinality(A) /\ Cardinality(R) \in Nat
  BY <1>9, <1>10, FS_Surjection, FS_CardinalityType
<1>12. V \cap R = {}
  OBVIOUS
<1> HIDE DEF V, R, A, W
<1>13. IsFiniteSet(V \cup R) /\ Cardinality(V \cup R) = Cardinality(V) + Cardinality(R)
  <2>1. /\ IsFiniteSet(V \cup R)
        /\ Cardinality(V \cup R) = Cardinality(V) + Cardinality(R) - Cardinality(V \cap R)
    BY <1>6, <1>11, FS_Union
  <2>2. Cardinality(V \cap R) = 0
    BY <1>12, FS_EmptySet
  <2> QED BY <2>1, <2>2, <1>6, <1>11
<1>14. IsFiniteSet(Presentado!Vivas(s)) /\ Cardinality(Presentado!Vivas(s)) <= Cardinality(V \cup R)
       /\ Cardinality(Presentado!Vivas(s)) \in Nat
  BY <1>5, <1>13, FS_Subset, FS_CardinalityType
<1>15. Cardinality(V) + Cardinality(SinFila(p)) <= c
  BY DEF SlidesBien, V
<1>16. Cardinality(Presentado!Vivas(s)) <= c
  BY <1>6, <1>9, <1>11, <1>13, <1>14, <1>15
<1> QED BY <1>4, <1>14, <1>16

\* The page and the rows after a step.
LEMMA SlidesLuego ==
    ASSUME SlidesInv, NEW x, pagina' = [pagina EXCEPT ![q1] = x],
           SlidesBien(slides', x, cambios'), cambios' \in 0..MaxCambiadas,
           conocidas' \in [Una -> SUBSET Laminas], guardados' \in 0..MaxGuardadas
    PROVE  SlidesInv'
<1>1. pagina \in [Una -> Seq(Presentado!Editor)] /\ q1 \in Una
  BY DEF SlidesInv, Una
<1>2. x \in Seq(Presentado!Editor)
  BY DEF SlidesBien, PaginaDe
<1>3. pagina'[q1] = x /\ pagina' \in [Una -> Seq(Presentado!Editor)]
  BY <1>1, <1>2
<1> QED BY <1>3, Zenon DEF SlidesInv

\* A course without slides.
LEMMA SlidesEmpieza ==
    ASSUME Presentado!SlideshowAssumption, Presentado!Init PROVE SlidesInv
<1>1. /\ slides = [d \in Laminas |-> Nada] /\ pagina = [t \in Una |-> <<>>]
      /\ conocidas = [t \in Una |-> {}] /\ cambios = 0 /\ guardados = 0
  BY DEF Presentado!Init
<1>2. Presentado!Vivas(slides) = {}
  BY <1>1 DEF Presentado!Vivas
<1>3. pagina[q1] = <<>> /\ Len(pagina[q1]) = 0
  BY <1>1 DEF Una
<1>4. SinFila(pagina[q1]) = {}
  BY <1>3 DEF SinFila
<1>5. IsFiniteSet({}) /\ Cardinality({}) = 0
  BY FS_EmptySet
<1>6. DeDonde(slides, pagina[q1])
  <2>1. PICK q : q = [i \in 1..0 |-> Nada]
    OBVIOUS
  <2>2. Presentado!Cardinality(Presentado!Vivas(slides)) = 0
    BY <1>2, <1>5, SlidesConstants
  <2>3. q \in [1..0 -> {}] /\ DOMAIN q = 1..0 /\ 1..0 = {}
    BY <2>1
  <2>4. q \in Presentado!EnOrden(slides)
    BY <1>2, <2>2, <2>3 DEF Presentado!EnOrden
  <2>5. 1..Len(pagina[q1]) = {}
    BY <1>3
  <2> QED BY <2>4, <2>5 DEF DeDonde
<1>7. PaginaDe(slides, pagina[q1])
  BY <1>3, <1>6 DEF PaginaDe
<1>8. SlidesBien(slides, pagina[q1], cambios)
  <2>1. slides \in [Laminas -> Lamina \cup {Nada}]
    BY <1>1
  <2>2. Cardinality(Presentado!Vivas(slides)) + Cardinality(SinFila(pagina[q1])) <= cambios
    BY <1>2, <1>4, <1>5, <1>1
  <2> QED BY <2>1, <2>2, <1>2, <1>5, <1>7 DEF SlidesBien
<1>9. pagina \in [Una -> Seq(Presentado!Editor)]
  BY <1>1
<1> QED BY <1>1, <1>8, <1>9, SlidesConstants DEF SlidesInv

\* The rows of a page that is shown.
LEMMA CuantasFilas ==
    ASSUME Presentado!SlideshowAssumption, SlidesInv
    PROVE  /\ cambios \in 0..MaxCambiadas /\ SlidesBien(slides, pagina[q1], cambios)
           /\ slides \in [Laminas -> Lamina \cup {Nada}]
           /\ IsFiniteSet(Presentado!Vivas(slides))
           /\ Cardinality(Presentado!Vivas(slides)) <= cambios
           /\ Presentado!Vivas(slides) \subseteq Laminas
<1>1. cambios \in 0..MaxCambiadas /\ SlidesBien(slides, pagina[q1], cambios)
  BY DEF SlidesInv
<1>2. cambios \in Nat
  BY <1>1
<1>3. Cardinality(SinFila(pagina[q1])) \in Nat /\ Cardinality(Presentado!Vivas(slides)) \in Nat
  BY <1>1, <1>2, LargoDeLaPagina
<1>4. Cardinality(Presentado!Vivas(slides)) + Cardinality(SinFila(pagina[q1])) <= cambios
  BY <1>1 DEF SlidesBien
<1> QED BY <1>1, <1>2, <1>3, <1>4 DEF SlidesBien, Presentado!Vivas

\* Every step keeps it.
LEMMA SlidesSigue ==
    ASSUME Presentado!SlideshowAssumption, SlidesInv, [Presentado!Next]_(Presentado!vars)
    PROVE  SlidesInv'
<1>0. CASE UNCHANGED Presentado!vars
  BY <1>0 DEF Presentado!vars, SlidesInv
<1>a. /\ cambios \in 0..MaxCambiadas /\ guardados \in 0..MaxGuardadas
      /\ conocidas \in [Una -> SUBSET Laminas]
      /\ pagina \in [Una -> Seq(Presentado!Editor)]
      /\ MaxCambiadas \in Nat /\ MaxGuardadas \in Nat /\ q1 \in Una
  BY SlidesConstants DEF SlidesInv, Una
<1>b. /\ SlidesBien(slides, pagina[q1], cambios) /\ Presentado!Vivas(slides) \subseteq Laminas
      /\ IsFiniteSet(Presentado!Vivas(slides)) /\ Cardinality(Presentado!Vivas(slides)) <= cambios
      /\ slides \in [Laminas -> Lamina \cup {Nada}]
  BY CuantasFilas
<1>c. PICK p : p = pagina[q1]
  OBVIOUS
<1>d. p \in Seq(Presentado!Editor) /\ DOMAIN p = 1..Len(p) /\ Len(p) \in Nat
  BY <1>a, <1>c, LenProperties
<1>1. CASE Presentado!Abrir(q1)
  <2>1. PICK q \in Presentado!EnOrden(slides) :
           pagina' = [pagina EXCEPT ![q1] = Presentado!Editores(slides, q)]
    BY <1>1 DEF Presentado!Abrir
  <2>2. /\ conocidas' = [conocidas EXCEPT ![q1] = Presentado!Vivas(slides)]
        /\ slides' = slides /\ cambios' = cambios /\ guardados' = guardados
    BY <1>1 DEF Presentado!Abrir
  <2>3. SlidesBien(slides, Presentado!Editores(slides, q), cambios)
    BY <1>a, <1>b, <2>1, EditoresBien
  <2>4. conocidas' \in [Una -> SUBSET Laminas]
    BY <1>a, <1>b, <2>2
  <2> QED BY <1>a, <2>1, <2>2, <2>3, <2>4, SlidesLuego
<1>2. CASE Presentado!addSlide(q1)
  <2>1. /\ cambios < MaxCambiadas /\ cambios' = cambios + 1
        /\ slides' = slides /\ conocidas' = conocidas /\ guardados' = guardados
    BY <1>2 DEF Presentado!addSlide, Presentado!Cambiar
  <2>2. PICK x \in Contenidos : pagina' = [pagina EXCEPT ![q1] = Append(@,
           [campo |-> Len(pagina[q1]), indice |-> Len(pagina[q1]), boton |-> Len(pagina[q1]),
            id |-> Nada, orden |-> Len(pagina[q1]) + 1, texto |-> x])]
    BY <1>2 DEF Presentado!addSlide
  <2>3. PICK r : r = Append(p, [campo |-> Len(p), indice |-> Len(p), boton |-> Len(p),
                                id |-> Nada, orden |-> Len(p) + 1, texto |-> x])
    OBVIOUS
  <2>4. pagina' = [pagina EXCEPT ![q1] = r]
    BY <1>c, <2>2, <2>3
  <2>5. cambios \in Nat /\ cambios + 1 \in 0..MaxCambiadas
    BY <1>a, <2>1
  <2>6. SlidesBien(slides, p, cambios)
    BY <1>b, <1>c
  <2>7. SlidesBien(slides, r, cambios + 1)
    BY <2>1, <2>3, <2>5, <2>6, SlideAdded
  <2> QED BY <1>a, <2>1, <2>4, <2>5, <2>7, SlidesLuego
<1>3. CASE Presentado!Escribir(q1)
  <2>1. /\ cambios < MaxCambiadas /\ cambios' = cambios + 1
        /\ slides' = slides /\ conocidas' = conocidas /\ guardados' = guardados
    BY <1>3 DEF Presentado!Escribir, Presentado!Cambiar
  <2>2. PICK k \in DOMAIN pagina[q1] : \E x \in Contenidos :
           pagina' = [pagina EXCEPT ![q1][k].texto = x]
    BY <1>3 DEF Presentado!Escribir
  <2>3. PICK x \in Contenidos : pagina' = [pagina EXCEPT ![q1][k].texto = x]
    BY <2>2
  <2>4. PICK r : r = [p EXCEPT ![k].texto = x]
    OBVIOUS
  <2>5. pagina' = [pagina EXCEPT ![q1] = r]
    BY <1>c, <2>3, <2>4
  <2>6. cambios \in Nat /\ cambios + 1 \in 0..MaxCambiadas
    BY <1>a, <2>1
  <2>7. SlidesBien(slides, p, cambios)
    BY <1>b, <1>c
  <2>8. SlidesBien(slides, r, cambios)
    BY <1>c, <1>d, <2>2, <2>4, <2>6, <2>7, SlideEscrita
  <2>9. SlidesBien(slides, r, cambios + 1)
    BY <2>6, <2>8, SlidesCrece
  <2> QED BY <1>a, <2>1, <2>5, <2>6, <2>9, SlidesLuego
<1>4. CASE Presentado!removeSlide(q1)
  <2>1. /\ cambios < MaxCambiadas /\ cambios' = cambios + 1
        /\ slides' = slides /\ conocidas' = conocidas /\ guardados' = guardados
    BY <1>4 DEF Presentado!removeSlide, Presentado!Cambiar
  <2>2. PICK k \in DOMAIN pagina[q1] :
           pagina' = [pagina EXCEPT ![q1] = Presentado!Renumerados(Presentado!RemoveAt(@, k))]
    BY <1>4, Zenon DEF Presentado!removeSlide
  <2>4. PICK r : r = Presentado!Renumerados(Presentado!RemoveAt(p, k))
    OBVIOUS
  <2>5. pagina' = [pagina EXCEPT ![q1] = r]
    BY <1>c, <2>2, <2>4
  <2>6. cambios \in Nat /\ cambios + 1 \in 0..MaxCambiadas /\ cambios <= MaxCambiadas
    BY <1>a, <2>1
  <2>7. SlidesBien(slides, p, cambios)
    BY <1>b, <1>c
  <2>8. SlidesBien(slides, r, cambios)
    BY <1>c, <1>d, <2>2, <2>4, <2>6, <2>7, SlideRemoved
  <2>9. SlidesBien(slides, r, cambios + 1)
    BY <2>6, <2>8, SlidesCrece
  <2> QED BY <1>a, <2>1, <2>5, <2>6, <2>9, SlidesLuego
<1>5. CASE Presentado!editar_slideshow(q1)
  <2>1. /\ guardados < MaxGuardadas /\ guardados' = guardados + 1 /\ cambios' = cambios
        /\ conocidas' = [conocidas EXCEPT ![q1] = Presentado!Vivas(slides')]
    BY <1>5 DEF Presentado!editar_slideshow
  <2>2. PICK nuevo \in [Altas(p) -> Laminas \ Presentado!Vivas(slides)] :
           /\ slides' = Presentado!_update_slideshow(p, nuevo)
           /\ \E q \in Presentado!EnOrden(slides') :
                 pagina' = [pagina EXCEPT ![q1] = Presentado!Editores(slides', q)]
    BY <1>5, <1>c, Zenon DEF Presentado!editar_slideshow, Altas
  <2>3. PICK q \in Presentado!EnOrden(slides') :
           pagina' = [pagina EXCEPT ![q1] = Presentado!Editores(slides', q)]
    BY <2>2
  <2>4. cambios \in Nat /\ guardados + 1 \in 0..MaxGuardadas
    BY <1>a, <2>1
  <2>5. SlidesBien(slides, p, cambios)
    BY <1>b, <1>c
  <2>6. PICK s : s = slides'
    OBVIOUS
  <2>7. /\ s \in [Laminas -> Lamina \cup {Nada}]
        /\ IsFiniteSet(Presentado!Vivas(s)) /\ Cardinality(Presentado!Vivas(s)) <= cambios
    BY <2>2, <2>4, <2>5, <2>6, GuardadasBien
  <2>8. SlidesBien(s, Presentado!Editores(s, q), cambios)
    BY <1>a, <2>3, <2>6, <2>7, EditoresBien
  <2>9. Presentado!Vivas(s) \subseteq Laminas
    BY DEF Presentado!Vivas
  <2>10. conocidas' \in [Una -> SUBSET Laminas]
    BY <1>a, <2>1, <2>6, <2>9
  <2> QED BY <1>a, <2>1, <2>3, <2>4, <2>6, <2>8, <2>10, SlidesLuego
<1>6. CASE Presentado!Next
  BY <1>6, <1>1, <1>2, <1>3, <1>4, <1>5 DEF Presentado!Next, Una
<1> QED BY <1>0, <1>6

\* The types that the slides have.
LEMMA SlidesDice ==
    ASSUME Presentado!SlideshowAssumption, SlidesInv PROVE Presentado!TypeOK
<1>1. /\ cambios \in 0..MaxCambiadas /\ guardados \in 0..MaxGuardadas
      /\ conocidas \in [Una -> SUBSET Laminas] /\ SlidesBien(slides, pagina[q1], cambios)
      /\ pagina \in [Una -> Seq(Presentado!Editor)] /\ Una = {q1}
      /\ MaxCambiadas \in Nat /\ MaxGuardadas \in Nat
  BY SlidesConstants DEF SlidesInv, Una
<1>2. PICK p : p = pagina[q1]
  OBVIOUS
<1>3. p \in Seq(Presentado!Editor) /\ Len(p) \in Nat /\ Len(p) <= MaxCambiadas + 1
  BY <1>1, <1>2, LargoDeLaPagina
<1>4. slides \in [Laminas -> [orden: 1..MaxCambiadas + 1, texto: Contenidos] \cup {Nada}]
  BY <1>1 DEF SlidesBien, Lamina
<1>5. /\ \A i \in 1..Len(p) : p[i].indice = i - 1
      /\ \A i, j \in 1..Len(p) : (p[i].id = p[j].id /\ p[i].id # Nada) => i = j
  BY <1>1, <1>2 DEF SlidesBien, PaginaDe
<1>6. \A i, j \in 1..MaxCambiadas + 1 :
         (i < j /\ j <= Len(p)) =>
            /\ p[i].indice < p[j].indice
            /\ p[i].id = Nada \/ p[i].id # p[j].id
  <2> TAKE i, j \in 1..MaxCambiadas + 1
  <2> HAVE i < j /\ j <= Len(p)
  <2>1. i \in 1..Len(p) /\ j \in 1..Len(p) /\ i # j /\ i - 1 < j - 1
    BY <1>1, <1>3
  <2> QED BY <2>1, <1>5
<1>7. cambios <= MaxCambiadas /\ guardados <= MaxGuardadas
  BY <1>1
<1>8. \A t \in Una : pagina[t] = p
  BY <1>1, <1>2
<1> QED BY <1>1, <1>3, <1>4, <1>6, <1>7, <1>8, SlidesConstants, Zenon DEF Presentado!TypeOK

\* Only the identity keeps the order of the first numbers.
LEMMA SoloLaIdentidad ==
    ASSUME NEW m \in Nat, NEW h \in [1..m -> 1..m], \A i, j \in 1..m : i < j => h[i] < h[j]
    PROVE  \A i \in 1..m : h[i] = i
<1> TAKE i \in 1..m
<1>1. h[i] \in 1..m
  OBVIOUS
<1>2. i <= h[i]
  <2>1. PICK f : f = [j \in 1..i |-> h[j]]
    OBVIOUS
  <2>2. f \in Injection(1..i, 1..h[i])
    <3>1. \A j \in 1..i : j \in 1..m /\ (j < i \/ j = i)
      OBVIOUS
    <3>2. \A j \in 1..i : f[j] \in 1..h[i]
      <4> TAKE j \in 1..i
      <4>1. f[j] = h[j] /\ h[j] \in 1..m
        BY <2>1, <3>1
      <4>2. h[j] < h[i] \/ h[j] = h[i]
        BY <3>1
      <4> QED BY <1>1, <4>1, <4>2
    <3>3. \A j, k \in 1..i : f[j] = f[k] => j = k
      <4> TAKE j, k \in 1..i
      <4> HAVE f[j] = f[k]
      <4>1. h[j] = h[k] /\ j \in 1..m /\ k \in 1..m /\ h[j] \in 1..m
        BY <2>1, <3>1
      <4>2. ~(j < k) /\ ~(k < j)
        BY <4>1
      <4> QED BY <4>1, <4>2
    <3> QED BY <2>1, <3>2, <3>3 DEF Injection, IsInjective
  <2>3. i \in Nat /\ h[i] \in Nat
    BY <1>1
  <2>4. /\ IsFiniteSet(1..h[i]) /\ Cardinality(1..h[i]) = h[i] /\ Cardinality(1..i) = i
    BY <2>3, LosPrimeros
  <2>5. Cardinality(1..i) <= Cardinality(1..h[i])
    BY <2>2, <2>4, FS_Injection
  <2> QED BY <2>4, <2>5
<1>3. h[i] <= i
  <2>1. PICK f : f = [j \in i..m |-> h[j]]
    OBVIOUS
  <2>2. f \in Injection(i..m, h[i]..m)
    <3>1. \A j \in i..m : j \in 1..m /\ (i < j \/ j = i)
      OBVIOUS
    <3>2. \A j \in i..m : f[j] \in h[i]..m
      <4> TAKE j \in i..m
      <4>1. f[j] = h[j] /\ h[j] \in 1..m
        BY <2>1, <3>1
      <4>2. h[i] < h[j] \/ h[j] = h[i]
        BY <3>1
      <4> QED BY <1>1, <4>1, <4>2
    <3>3. \A j, k \in i..m : f[j] = f[k] => j = k
      <4> TAKE j, k \in i..m
      <4> HAVE f[j] = f[k]
      <4>1. h[j] = h[k] /\ j \in 1..m /\ k \in 1..m /\ h[j] \in 1..m
        BY <2>1, <3>1
      <4>2. ~(j < k) /\ ~(k < j)
        BY <4>1
      <4> QED BY <4>1, <4>2
    <3> QED BY <2>1, <3>2, <3>3 DEF Injection, IsInjective
  <2>3. i \in Int /\ h[i] \in Int /\ m \in Int
    BY <1>1
  <2>4. /\ IsFiniteSet(h[i]..m)
        /\ Cardinality(h[i]..m) = IF h[i] > m THEN 0 ELSE m - h[i] + 1
        /\ Cardinality(i..m) = IF i > m THEN 0 ELSE m - i + 1
    BY <2>3, FS_Interval
  <2>5. Cardinality(i..m) <= Cardinality(h[i]..m)
    BY <2>2, <2>4, FS_Injection
  <2>6. m - i + 1 <= m - h[i] + 1
    BY <1>1, <2>4, <2>5
  <2> QED BY <2>3, <2>6
<1> QED BY <1>1, <1>2, <1>3

\* Rows that are numbered from one have one order.
LEMMA UnSoloOrden ==
    ASSUME Presentado!SlideshowAssumption, NEW s, IsFiniteSet(Presentado!Vivas(s)),
           NEW m \in Nat, NEW g \in [1..m -> Presentado!Vivas(s)],
           \A d \in Presentado!Vivas(s) : \E i \in 1..m : g[i] = d,
           \A i \in 1..m : s[g[i]].orden = i,
           NEW q \in Presentado!EnOrden(s)
    PROVE  /\ Cardinality(Presentado!Vivas(s)) = m /\ DOMAIN q = 1..m
           /\ \A i \in 1..m : q[i] = g[i]
<1> DEFINE V == Presentado!Vivas(s)
<1>1. \A i, j \in 1..m : g[i] = g[j] => i = j
  OBVIOUS
<1>2. g \in Bijection(1..m, V)
  BY <1>1 DEF Bijection, Injection, Surjection, IsInjective
<1>3. ExistsBijection(1..m, V)
  BY <1>2 DEF ExistsBijection
<1>4. Cardinality(V) = m
  BY <1>3, FS_CountingElements
<1>5. /\ q \in [1..m -> V] /\ DOMAIN q = 1..m
      /\ \A i, j \in DOMAIN q : i < j => q[i] # q[j] /\ s[q[i]].orden <= s[q[j]].orden
  BY LasQueHay, <1>4
<1>6. PICK h : h = [i \in 1..m |-> s[q[i]].orden]
  OBVIOUS
<1> HIDE DEF V
<1>7. \A i \in 1..m : h[i] \in 1..m /\ q[i] = g[h[i]]
  <2> TAKE i \in 1..m
  <2>1. q[i] \in V
    BY <1>5
  <2>2. PICK k \in 1..m : g[k] = q[i]
    BY <2>1 DEF V
  <2>3. h[i] = k
    BY <1>6, <2>2
  <2> QED BY <2>2, <2>3
<1>8. h \in [1..m -> 1..m]
  BY <1>6, <1>7
<1>9. \A i, j \in 1..m : i < j => h[i] < h[j]
  <2> TAKE i, j \in 1..m
  <2> HAVE i < j
  <2>1. q[i] # q[j] /\ s[q[i]].orden <= s[q[j]].orden
    BY <1>5
  <2>2. h[i] <= h[j] /\ h[i] # h[j]
    BY <1>6, <1>7, <2>1
  <2>3. h[i] \in Nat /\ h[j] \in Nat
    BY <1>7
  <2> QED BY <2>2, <2>3
<1>10. \A i \in 1..m : h[i] = i
  BY <1>8, <1>9, SoloLaIdentidad
<1>11. \A i \in 1..m : q[i] = g[i]
  BY <1>7, <1>10
<1> QED BY <1>4, <1>5, <1>11 DEF V

\* In sequence, the i-th row is the one with the order i.
LEMMA FilasEnSecuencia ==
    ASSUME Presentado!SlideshowAssumption, NEW s, IsFiniteSet(Presentado!Vivas(s)),
           {s[d].orden : d \in Presentado!Vivas(s)} = 1..Cardinality(Presentado!Vivas(s)),
           NEW q \in Presentado!EnOrden(s)
    PROVE  /\ \A i \in DOMAIN q : s[q[i]].orden = i
           /\ \A d \in Presentado!Vivas(s) : \E i \in DOMAIN q : q[i] = d
<1> DEFINE V == Presentado!Vivas(s)
           n == Cardinality(V)
<1>1. n \in Nat
  BY FS_CardinalityType
<1>2. PICK o : o = [d \in V |-> s[d].orden]
  OBVIOUS
<1>3. o \in Surjection(V, 1..n)
  BY <1>2 DEF Surjection
<1>4. Cardinality(V) = Cardinality(1..n)
  BY <1>1, LosPrimeros
<1>5. o \in Injection(V, 1..n)
  <2> HIDE DEF n, V
  <2> QED BY <1>3, <1>4, FS_SurjSameCardinalityImpliesInj DEF V
<1>6. \A d, e \in V : s[d].orden = s[e].orden => d = e
  BY <1>2, <1>5 DEF Injection, IsInjective
<1>7. PICK g : g = [i \in 1..n |-> CHOOSE d \in V : s[d].orden = i]
  OBVIOUS
<1>8. \A i \in 1..n : g[i] \in V /\ s[g[i]].orden = i
  <2> TAKE i \in 1..n
  <2>1. \E d \in V : s[d].orden = i
    BY <1>2, <1>3 DEF Surjection
  <2> QED BY <1>7, <2>1
<1>9. \A d \in V : \E i \in 1..n : g[i] = d
  <2> TAKE d \in V
  <2>1. s[d].orden \in 1..n
    BY <1>2, <1>3 DEF Surjection
  <2>2. g[s[d].orden] = d
    BY <2>1, <1>6, <1>8
  <2> QED BY <2>1, <2>2
<1>10. g \in [1..n -> V]
  BY <1>7, <1>8
<1>11. DOMAIN q = 1..n /\ \A i \in 1..n : q[i] = g[i]
  <2> HIDE DEF n
  <2> QED BY <1>1, <1>8, <1>9, <1>10, UnSoloOrden
<1> QED BY <1>8, <1>9, <1>11

\* The fields of a page in sequence.
LEMMA CamposEnSecuencia ==
    ASSUME NEW p \in Seq(Presentado!Editor),
           \A i \in DOMAIN p : p[i].campo = i - 1 /\ p[i].orden = i
    PROVE  /\ Presentado!Enviados(p) = 0..Len(p) - 1
           /\ \A i \in 0..Len(p) - 1 :
                 Presentado!Campo(p, i) = i + 1 /\ Presentado!_slide_orders(p)[i] = i + 1
           /\ DOMAIN Presentado!_slide_orders(p) = 0..Len(p) - 1
<1>1. DOMAIN p = 1..Len(p) /\ Len(p) \in Nat
  BY LenProperties
<1>2. \A i \in 0..Len(p) - 1 : Presentado!ConCampo(p, i) # {}
  <2> TAKE i \in 0..Len(p) - 1
  <2>1. i + 1 \in DOMAIN p /\ p[i + 1].campo = i
    BY <1>1
  <2> QED BY <2>1 DEF Presentado!ConCampo
<1>3. \A i \in 0..Len(p) - 1 : Presentado!Campo(p, i) = i + 1
  <2> TAKE i \in 0..Len(p) - 1
  <2>1. Presentado!Campo(p, i) \in 1..Len(p) /\ p[Presentado!Campo(p, i)].campo = i
    BY <1>2, ElCampo
  <2> QED BY <2>1, <1>1
<1>4. \A i \in 0..Len(p) - 1 : Presentado!_slide_orders(p)[i] = i + 1
  <2> TAKE i \in 0..Len(p) - 1
  <2>1. Presentado!_slide_orders(p)[i] = p[Presentado!Campo(p, i)].orden
    BY <1>2 DEF Presentado!_slide_orders
  <2>2. i + 1 \in DOMAIN p
    BY <1>1
  <2> QED BY <2>1, <2>2, <1>3
<1>5. DOMAIN Presentado!_slide_orders(p) = 0..Len(p) - 1
  BY DEF Presentado!_slide_orders
<1> QED BY <1>2, <1>3, <1>4, <1>5 DEF Presentado!Enviados

\* A page of slides in sequence on which slides were written and added, or the last ones
\* removed: its editors with a row show the first rows, each in its place.
LEMMA PaginaSimple ==
    ASSUME Presentado!SlideshowAssumption, NEW p, NEW c \in Nat, SlidesBien(slides, p, c),
           Presentado!EnSecuencia(p), Presentado!SoloAgrega(p) \/ Presentado!SoloQuita(p)
    PROVE  \E q \in Presentado!EnOrden(slides) :
              /\ \A i \in DOMAIN q : slides[q[i]].orden = i
              /\ \A d \in Presentado!Vivas(slides) : \E i \in DOMAIN q : q[i] = d
              /\ \A i \in 1..Len(p) : i \in DOMAIN q => p[i].id = q[i]
              /\ \A i \in 1..Len(p) : i \notin DOMAIN q => p[i].id = Nada
<1>1. /\ p \in Seq(Presentado!Editor) /\ DOMAIN p = 1..Len(p) /\ Len(p) \in Nat
      /\ IsFiniteSet(Presentado!Vivas(slides))
  BY LenProperties DEF SlidesBien, PaginaDe
<1>2. PICK q \in Presentado!EnOrden(slides) : \A i \in 1..Len(p) :
         p[i].id # Nada => p[i].campo + 1 \in DOMAIN q /\ p[i].id = q[p[i].campo + 1]
  BY DEF SlidesBien, PaginaDe, DeDonde
<1>3. {slides[d].orden : d \in Presentado!Vivas(slides)} = 1..Cardinality(Presentado!Vivas(slides))
  BY SlidesConstants DEF Presentado!EnSecuencia
<1>4. /\ \A i \in DOMAIN q : slides[q[i]].orden = i
      /\ \A d \in Presentado!Vivas(slides) : \E i \in DOMAIN q : q[i] = d
  BY <1>1, <1>2, <1>3, FilasEnSecuencia
<1>5. \A i \in 1..Len(p) : p[i].campo + 1 = i
  <2> TAKE i \in 1..Len(p)
  <2>1. p[i].campo = i - 1
    BY <1>1 DEF Presentado!EnSecuencia
  <2> QED BY <2>1
<1>6. \A i \in 1..Len(p) : p[i].id # Nada => i \in DOMAIN q /\ p[i].id = q[i]
  BY <1>2, <1>5
<1>7. /\ DOMAIN q \subseteq Nat /\ \A i \in DOMAIN q : q[i] \in Presentado!Vivas(slides) /\ q[i] # Nada
      /\ \A i, j \in DOMAIN q : q[i] = q[j] => i = j
  <2>1. /\ q \in [1..Cardinality(Presentado!Vivas(slides)) -> Presentado!Vivas(slides)]
        /\ DOMAIN q = 1..Cardinality(Presentado!Vivas(slides))
        /\ \A i, j \in DOMAIN q : q[i] = q[j] => i = j
    BY <1>1, <1>2, LasQueHay
  <2>2. \A d \in Presentado!Vivas(slides) : d \in Laminas /\ d # Nada
    BY SlidesConstants DEF Presentado!Vivas
  <2> QED BY <2>1, <2>2
<1>8. \A i \in 1..Len(p) : i \in DOMAIN q => p[i].id = q[i]
  <2>1. CASE Presentado!SoloQuita(p)
    BY <2>1, <1>1, <1>6 DEF Presentado!SoloQuita
  <2>2. CASE Presentado!SoloAgrega(p)
    <3> TAKE i \in 1..Len(p)
    <3> HAVE i \in DOMAIN q
    <3>1. PICK j \in DOMAIN p : p[j].id = q[i]
      BY <2>2, <1>7 DEF Presentado!SoloAgrega
    <3>2. j \in DOMAIN q /\ p[j].id = q[j]
      BY <3>1, <1>1, <1>6, <1>7
    <3>3. j = i
      BY <3>1, <3>2, <1>7
    <3> QED BY <3>1, <3>3
  <2> QED BY <2>1, <2>2
<1> QED BY <1>2, <1>4, <1>6, <1>8

\* The rows after such a page is saved are its editors, in their order.
LEMMA SimplesGuardadas ==
    ASSUME Presentado!SlideshowAssumption, NEW p, NEW c \in Nat, SlidesBien(slides, p, c),
           Presentado!EnSecuencia(p), Presentado!SoloAgrega(p) \/ Presentado!SoloQuita(p),
           NEW nuevo \in [Altas(p) -> Laminas \ Presentado!Vivas(slides)],
           \A i, j \in Altas(p) : i # j => nuevo[i] # nuevo[j],
           NEW s, s = Presentado!_update_slideshow(p, nuevo)
    PROVE  \E g \in [1..Len(p) -> Presentado!Vivas(s)] :
              /\ \A d \in Presentado!Vivas(s) : \E i \in 1..Len(p) : g[i] = d
              /\ \A i \in 1..Len(p) : s[g[i]].orden = i /\ s[g[i]].texto = p[i].texto
<1> DEFINE m == Len(p)
           V == Presentado!Vivas(slides)
           W(i) == [orden |-> i, texto |-> p[i].texto]
<1>1. p \in Seq(Presentado!Editor) /\ DOMAIN p = 1..m /\ m \in Nat
  BY LenProperties DEF SlidesBien, PaginaDe
<1>2. PICK q \in Presentado!EnOrden(slides) :
         /\ \A i \in DOMAIN q : slides[q[i]].orden = i
         /\ \A d \in V : \E i \in DOMAIN q : q[i] = d
         /\ \A i \in 1..m : i \in DOMAIN q => p[i].id = q[i]
         /\ \A i \in 1..m : i \notin DOMAIN q => p[i].id = Nada
  BY PaginaSimple
<1>3. /\ DOMAIN q \subseteq Nat \ {0}
      /\ \A i \in DOMAIN q : q[i] \in V
      /\ \A i, j \in DOMAIN q : q[i] = q[j] => i = j
      /\ V \subseteq Laminas /\ Nada \notin V
  <2>1. IsFiniteSet(V)
    BY DEF SlidesBien
  <2>2. /\ q \in [1..Cardinality(V) -> V] /\ DOMAIN q = 1..Cardinality(V)
        /\ \A i, j \in DOMAIN q : q[i] = q[j] => i = j
    BY <1>2, <2>1, LasQueHay
  <2>3. V \subseteq Laminas /\ Nada \notin V
    BY SlidesConstants DEF Presentado!Vivas
  <2> QED BY <2>2, <2>3
<1>4. /\ Presentado!Enviados(p) = 0..m - 1
      /\ \A i \in 0..m - 1 :
            Presentado!Campo(p, i) = i + 1 /\ Presentado!_slide_orders(p)[i] = i + 1
      /\ DOMAIN Presentado!_slide_orders(p) = 0..m - 1
  BY <1>1, CamposEnSecuencia DEF Presentado!EnSecuencia
<1>5. \A i \in DOMAIN q : q[i] \in Presentado!Borradas(p) <=> i \notin 1..m
  <2> TAKE i \in DOMAIN q
  <2>1. q[i] \in V /\ slides[q[i]].orden = i /\ i \in Nat \ {0}
    BY <1>2, <1>3
  <2>2. CASE i \in 1..m
    <3>1. i - 1 \in 0..m - 1 /\ Presentado!_slide_orders(p)[i - 1] = i
      BY <2>1, <2>2, <1>1, <1>4
    <3> QED BY <3>1, <2>1, <2>2, <1>4 DEF Presentado!Borradas
  <2>3. CASE i \notin 1..m
    BY <2>1, <2>3, <1>1, <1>4 DEF Presentado!Borradas
  <2> QED BY <2>2, <2>3
<1>6. \A i \in 0..m - 1 : i \in Altas(p) <=> i + 1 \notin DOMAIN q
  <2> TAKE i \in 0..m - 1
  <2>1. i + 1 \in 1..m /\ Presentado!Campo(p, i) = i + 1 /\ i \in Presentado!Enviados(p)
    BY <1>1, <1>4
  <2>2. CASE i + 1 \in DOMAIN q
    BY <2>1, <2>2, <1>2, <1>3, <1>5 DEF Presentado!Actualiza, Altas
  <2>3. CASE i + 1 \notin DOMAIN q
    BY <2>1, <2>3, <1>2, <1>3 DEF Presentado!Actualiza, Altas
  <2> QED BY <2>2, <2>3
<1>7. Altas(p) \subseteq 0..m - 1 /\ DOMAIN nuevo = Altas(p)
  BY <1>4 DEF Altas
<1>8. \A k \in 1..m : W(k) \in Lamina /\ W(k) # Nada
  <2> TAKE k \in 1..m
  <2>1. p[k].orden = k
    BY <1>1 DEF Presentado!EnSecuencia
  <2>2. p[k].orden \in 1..MaxCambiadas + 1 /\ p[k].texto \in Contenidos
    BY <1>1, CadaEditor
  <2>3. W(k) \in Lamina
    BY <2>1, <2>2 DEF Lamina
  <2> QED BY <2>3, SlidesConstants
<1>9. \A k \in DOMAIN q : k \in 1..m => s[q[k]] = W(k)
  <2> TAKE k \in DOMAIN q
  <2> HAVE k \in 1..m
  <2>1. /\ q[k] \in V /\ q[k] \in Laminas /\ q[k] \notin Presentado!Borradas(p)
        /\ p[k].id = q[k] /\ q[k] # Nada
    BY <1>2, <1>3, <1>5
  <2>2. PICK i : i = CHOOSE j \in Presentado!Enviados(p) : p[Presentado!Campo(p, j)].id = q[k]
    OBVIOUS
  <2>3. k - 1 \in Presentado!Enviados(p) /\ p[Presentado!Campo(p, k - 1)].id = q[k]
    BY <2>1, <1>1, <1>4
  <2>4. i \in Presentado!Enviados(p) /\ p[Presentado!Campo(p, i)].id = q[k]
    BY <2>2, <2>3
  <2>5. i \in 0..m - 1 /\ i + 1 \in 1..m /\ p[i + 1].id = p[k].id /\ p[k].id # Nada
    BY <2>1, <2>4, <1>1, <1>4
  <2>6. i + 1 = k
    BY <2>5 DEF SlidesBien, PaginaDe
  <2>7. s[q[k]] = [orden |-> Presentado!_slide_orders(p)[i],
                   texto |-> p[Presentado!Campo(p, i)].texto]
    BY <2>1, <2>2, <2>3 DEF Presentado!_update_slideshow
  <2> QED BY <2>5, <2>6, <2>7, <1>4
<1>10. \A k \in DOMAIN q : k \notin 1..m => s[q[k]] = Nada
  <2> TAKE k \in DOMAIN q
  <2> HAVE k \notin 1..m
  <2>1. q[k] \in V /\ q[k] \in Laminas /\ q[k] \in Presentado!Borradas(p)
    BY <1>3, <1>5
  <2> QED BY <2>1 DEF Presentado!_update_slideshow
<1>11. \A j \in Altas(p) : s[nuevo[j]] = W(j + 1) /\ nuevo[j] \in Laminas
  <2> TAKE j \in Altas(p)
  <2>1. nuevo[j] \in Laminas /\ nuevo[j] \notin V /\ j \in DOMAIN nuevo
    BY <1>7
  <2>2. PICK i : i = CHOOSE k \in DOMAIN nuevo : nuevo[k] = nuevo[j]
    OBVIOUS
  <2>3. i \in Altas(p) /\ nuevo[i] = nuevo[j]
    BY <2>1, <2>2, <1>7
  <2>4. i = j
    BY <2>3
  <2>5. s[nuevo[j]] = [orden |-> Presentado!_slide_orders(p)[i],
                       texto |-> p[Presentado!Campo(p, i)].texto]
    BY <2>1, <2>2 DEF Presentado!_update_slideshow
  <2> QED BY <2>1, <2>4, <2>5, <1>4, <1>7
<1>12. \A d \in Laminas : s[d] # Nada => d \in V \/ \E j \in Altas(p) : nuevo[j] = d
  <2> TAKE d \in Laminas
  <2>1. (d \notin V /\ ~\E j \in DOMAIN nuevo : nuevo[j] = d) => s[d] = Nada
    BY DEF Presentado!_update_slideshow
  <2> QED BY <2>1, <1>7
<1>13. PICK g : g = [k \in 1..m |-> IF k \in DOMAIN q THEN q[k] ELSE nuevo[k - 1]]
  OBVIOUS
<1>14. \A k \in 1..m : k \notin DOMAIN q => k - 1 \in Altas(p) /\ (k - 1) + 1 = k
  <2> TAKE k \in 1..m
  <2>1. k - 1 \in 0..m - 1 /\ (k - 1) + 1 = k
    BY <1>1
  <2> QED BY <2>1, <1>6
<1>15. \A k \in 1..m : s[g[k]] = W(k) /\ g[k] \in Laminas
  <2> TAKE k \in 1..m
  <2>1. CASE k \in DOMAIN q
    BY <2>1, <1>3, <1>9, <1>13
  <2>2. CASE k \notin DOMAIN q
    BY <2>2, <1>13, <1>14, <1>11
  <2> QED BY <2>1, <2>2
<1>16. g \in [1..m -> Presentado!Vivas(s)]
  <2>1. \A k \in 1..m : g[k] \in Presentado!Vivas(s)
    BY <1>8, <1>15 DEF Presentado!Vivas
  <2> QED BY <2>1, <1>13
<1>17. \A d \in Presentado!Vivas(s) : \E i \in 1..m : g[i] = d
  <2> TAKE d \in Presentado!Vivas(s)
  <2>1. d \in Laminas /\ s[d] # Nada
    BY DEF Presentado!Vivas
  <2>2. CASE d \in V
    <3>1. PICK k \in DOMAIN q : q[k] = d
      BY <2>2, <1>2
    <3>2. k \in 1..m
      BY <2>1, <3>1, <1>10
    <3> QED BY <3>1, <3>2, <1>13
  <2>3. CASE d \notin V
    <3>1. PICK j \in Altas(p) : nuevo[j] = d
      BY <2>1, <2>3, <1>12
    <3>2. j \in 0..m - 1 /\ j + 1 \in 1..m /\ j + 1 \notin DOMAIN q /\ (j + 1) - 1 = j
      BY <3>1, <1>1, <1>6, <1>7
    <3>3. g[j + 1] = d
      BY <3>1, <3>2, <1>13
    <3> QED BY <3>2, <3>3
  <2> QED BY <2>2, <2>3
<1>18. \A i \in 1..m : s[g[i]].orden = i /\ s[g[i]].texto = p[i].texto
  <2> TAKE i \in 1..m
  <2>1. PICK f : f = s[g[i]]
    OBVIOUS
  <2>2. f = [orden |-> i, texto |-> p[i].texto]
    BY <2>1, <1>15
  <2>3. f.orden = i /\ f.texto = p[i].texto
    BY <2>2
  <2> QED BY <2>1, <2>3
<1> QED BY <1>16, <1>17, <1>18

\* What was saved is what the page showed.
LEMMA SlidesGuardan ==
    ASSUME Presentado!SlideshowAssumption, SlidesInv PROVE Presentado!SimpleChangesSaved
<1> SUFFICES ASSUME NEW t \in Una, Presentado!editar_slideshow(t),
                    Presentado!EnSecuencia(pagina[t]),
                    Presentado!SoloAgrega(pagina[t]) \/ Presentado!SoloQuita(pagina[t])
             PROVE  Presentado!Guardado(pagina[t])
  BY Zenon DEF Presentado!SimpleChangesSaved
<1>1. PICK p : p = pagina[t]
  OBVIOUS
<1>2. t = q1 /\ cambios \in Nat /\ SlidesBien(slides, p, cambios)
  BY <1>1, SlidesConstants DEF SlidesInv, Una
<1>3. PICK nuevo \in [Altas(p) -> Laminas \ Presentado!Vivas(slides)] :
         /\ \A i, j \in Altas(p) : i # j => nuevo[i] # nuevo[j]
         /\ slides' = Presentado!_update_slideshow(p, nuevo)
  BY <1>1, Zenon DEF Presentado!editar_slideshow, Altas
<1>4. PICK s : s = slides'
  OBVIOUS
<1>5. s = Presentado!_update_slideshow(p, nuevo)
  BY <1>3, <1>4
<1>6. Presentado!EnSecuencia(p) /\ (Presentado!SoloAgrega(p) \/ Presentado!SoloQuita(p))
  BY <1>1
<1>7. PICK g \in [1..Len(p) -> Presentado!Vivas(s)] :
         /\ \A d \in Presentado!Vivas(s) : \E i \in 1..Len(p) : g[i] = d
         /\ \A i \in 1..Len(p) : s[g[i]].orden = i /\ s[g[i]].texto = p[i].texto
  BY <1>2, <1>3, <1>5, <1>6, SimplesGuardadas
<1>8. IsFiniteSet(Presentado!Vivas(s))
  BY <1>2, <1>3, <1>5, GuardadasBien
<1>9. Len(p) \in Nat /\ DOMAIN p = 1..Len(p)
  BY <1>2, LenProperties DEF SlidesBien, PaginaDe
<1>10. \A q \in Presentado!EnOrden(s) :
          /\ Len(q) = Len(p)
          /\ \A i \in DOMAIN q : s[q[i]].texto = p[i].texto
  <2> TAKE q \in Presentado!EnOrden(s)
  <2>1. /\ Cardinality(Presentado!Vivas(s)) = Len(p) /\ DOMAIN q = 1..Len(p)
        /\ \A i \in 1..Len(p) : q[i] = g[i]
    <3>1. /\ g \in [1..Len(p) -> Presentado!Vivas(s)]
          /\ \A d \in Presentado!Vivas(s) : \E i \in 1..Len(p) : g[i] = d
          /\ \A i \in 1..Len(p) : s[g[i]].orden = i
      BY <1>7
    <3>2. Len(p) \in Nat
      BY <1>9
    <3> QED BY <1>8, <3>1, <3>2, UnSoloOrden
  <2>2. q \in [1..Cardinality(Presentado!Vivas(s)) -> Presentado!Vivas(s)]
    BY <1>8, LasQueHay
  <2>3. Len(q) = Len(p)
    BY <1>9, <2>1, <2>2, EsSecuencia
  <2> QED BY <1>7, <2>1, <2>3
<1> QED BY <1>1, <1>4, <1>10 DEF Presentado!Guardado

----------------------------------------
(* A bank of questions (QuestionBank), of any size *)

\* The constants of a bank.
LEMMA BancoConstants ==
    ASSUME NEW k, Bateria(k)!BankAssumption
    PROVE  /\ k.preguntas \in Nat /\ k.opciones \in Nat /\ k.operaciones \in Nat /\ k.intentos \in Nat
           /\ k.opciones >= 4
           /\ IsFiniteSet(k.examenes) /\ IsFiniteSet(k.sembradas) /\ IsFiniteSet(k.peticiones)
           /\ k.preguntas >= Cardinality(k.examenes) * Cardinality(k.sembradas)
           /\ Nada \notin Reactivo(k) /\ Nada \notin Alternativa(k) /\ Nada \notin Hoja(k)
           /\ k.sembradas \subseteq k.textos /\ k.escritos \subseteq Bateria(k)!TextosDeOpcion
<1>1. /\ \A S : Bateria(k)!Cardinality(S) = Cardinality(S)
      /\ \A S : Bateria(k)!IsFiniteSet(S) = IsFiniteSet(S)
  BY DEF Bateria!Cardinality, Cardinality, Bateria!IsFiniteSet, IsFiniteSet
<1>2. /\ {k.preguntas, k.opciones, k.operaciones, k.intentos} \subseteq Nat /\ k.opciones >= 4
      /\ Bateria(k)!IsFiniteSet(k.examenes) /\ Bateria(k)!IsFiniteSet(k.sembradas)
      /\ Bateria(k)!IsFiniteSet(k.peticiones)
      /\ k.preguntas >= Bateria(k)!Cardinality(k.examenes) * Bateria(k)!Cardinality(k.sembradas)
      /\ k.sembradas \subseteq k.textos /\ k.escritos \subseteq Bateria(k)!TextosDeOpcion
  BY Zenon DEF Bateria!BankAssumption
<1>3. Nada \notin Bateria(k)!Pregunta \cup Bateria(k)!Opcion \cup Bateria(k)!Eleccion
  BY Zenon DEF Bateria!BankAssumption
<1>4. Nada \notin Reactivo(k) /\ Nada \notin Alternativa(k) /\ Nada \notin Hoja(k)
  BY <1>3 DEF Bateria!Pregunta, Bateria!Opcion, Bateria!Eleccion, Bateria!Preguntas,
     Bateria!Opciones, Bateria!Radio, Reactivo, Alternativa, Hoja, Lugares
<1> QED BY <1>1, <1>2, <1>4

\* What the definitions of a bank are.
LEMMA BancoConjuntos ==
    ASSUME NEW k
    PROVE  /\ Bateria(k)!Preguntas = 1..k.preguntas /\ Bateria(k)!Opciones = Lugares(k)
           /\ Bateria(k)!Pregunta = Reactivo(k) /\ Bateria(k)!Opcion = Alternativa(k)
           /\ \A S : Bateria(k)!Cardinality(S) = Cardinality(S)
BY DEF Bateria!Pregunta, Bateria!Opcion, Bateria!Eleccion, Bateria!Preguntas,
   Bateria!Opciones, Bateria!Radio, Reactivo, Alternativa, Lugares,
   Bateria!Cardinality, Cardinality, Bateria!IsFiniteSet, IsFiniteSet

\* A request that has ended is about nothing.
LEMMA PideLibre ==
    ASSUME NEW k
    PROVE  /\ PideForma(k, Bateria(k)!Libre) /\ Bateria(k)!Libre.pc = "idle"
           /\ Bateria(k)!Libre.usuario = Nada
BY DEF PideForma, Bateria!Libre

\* Columns of a question that differ are written over.
LEMMA ReactivoDistinto ==
    ASSUME NEW k, NEW l \in Reactivo(k), NEW e \in Reactivo(k), NEW f \in Reactivo(k),
           e.evaluacion = l.evaluacion, e.order = l.order
    PROVE  /\ Bateria(k)!Distintos(l, e, f) \in Reactivo(k)
           /\ Bateria(k)!Distintos(l, e, f).evaluacion = f.evaluacion
           /\ Bateria(k)!Distintos(l, e, f).order = f.order
<1>1. DOMAIN f = {"evaluacion", "type", "text", "order", "certificada"}
  BY DEF Reactivo
<1>2. PICK d : d = Bateria(k)!Distintos(l, e, f)
  OBVIOUS
<1>3. d = [c \in {"evaluacion", "type", "text", "order", "certificada"} |->
              IF e[c] # l[c] THEN e[c] ELSE f[c]]
  BY <1>1, <1>2 DEF Bateria!Distintos
<1>4. d = [evaluacion |-> IF e.evaluacion # l.evaluacion THEN e.evaluacion ELSE f.evaluacion,
           type |-> IF e.type # l.type THEN e.type ELSE f.type,
           text |-> IF e.text # l.text THEN e.text ELSE f.text,
           order |-> IF e.order # l.order THEN e.order ELSE f.order,
           certificada |-> IF e.certificada # l.certificada THEN e.certificada ELSE f.certificada]
  BY <1>3
<1>5. d \in Reactivo(k) /\ d.evaluacion = f.evaluacion /\ d.order = f.order
  BY <1>4 DEF Reactivo
<1> QED BY <1>2, <1>5

\* ... and of an option.
LEMMA AlternativaDistinta ==
    ASSUME NEW k, NEW l \in Alternativa(k), NEW e \in Alternativa(k), NEW f \in Alternativa(k)
    PROVE  /\ Bateria(k)!Distintos(l, e, f) \in Alternativa(k)
           /\ Bateria(k)!Distintos(l, e, f).text \in {e.text, f.text}
           /\ e.text = l.text => Bateria(k)!Distintos(l, e, f).text = f.text
<1>1. DOMAIN f = {"text", "is_correct"}
  BY DEF Alternativa
<1>2. PICK d : d = Bateria(k)!Distintos(l, e, f)
  OBVIOUS
<1>3. d = [c \in {"text", "is_correct"} |-> IF e[c] # l[c] THEN e[c] ELSE f[c]]
  BY <1>1, <1>2 DEF Bateria!Distintos
<1>4. d = [text |-> IF e.text # l.text THEN e.text ELSE f.text,
           is_correct |-> IF e.is_correct # l.is_correct THEN e.is_correct ELSE f.is_correct]
  BY <1>3
<1>5. /\ d \in Alternativa(k) /\ d.text \in {e.text, f.text}
      /\ e.text = l.text => d.text = f.text
  BY <1>4 DEF Alternativa
<1> QED BY <1>2, <1>5

\* While its rows stay, the bank is what it was.
LEMMA BancoQuieto ==
    ASSUME NEW k, preguntas' = preguntas, opciones' = opciones
    PROVE  /\ \A e : Bateria(k)!De(e)' = Bateria(k)!De(e)
           /\ \A q : Bateria(k)!OpcionesDe(q)' = Bateria(k)!OpcionesDe(q)
           /\ \A q : Bateria(k)!Claves(q)' = Bateria(k)!Claves(q)
           /\ \A q : Bateria(k)!Acertada(q)' = Bateria(k)!Acertada(q)
           /\ \A q : Bateria(k)!Posibles(q)' = Bateria(k)!Posibles(q)
           /\ \A q, t, c : Bateria(k)!_resolve_option_ids(q, t, c)'
                              = Bateria(k)!_resolve_option_ids(q, t, c)
           /\ \A t, q, c : Bateria(k)!_answer_is_correct(t, q, c)'
                              = Bateria(k)!_answer_is_correct(t, q, c)
<1>1. \A e : Bateria(k)!De(e)' = Bateria(k)!De(e)
  BY DEF Bateria!De
<1>2. \A q : Bateria(k)!OpcionesDe(q)' = Bateria(k)!OpcionesDe(q)
  BY DEF Bateria!OpcionesDe
<1>3. \A q : Bateria(k)!Claves(q)' = Bateria(k)!Claves(q)
  BY <1>2 DEF Bateria!Claves
<1>4. \A q : Bateria(k)!Acertada(q)' = Bateria(k)!Acertada(q)
  <2> TAKE q
  <2>1. Bateria(k)!Claves(q)' = Bateria(k)!Claves(q)
    BY <1>3
  <2>2. {Bateria(k)!Significado(opciones'[o].text) : o \in Bateria(k)!Claves(q)'}
           = {Bateria(k)!Significado(opciones[o].text) : o \in Bateria(k)!Claves(q)}
    BY <2>1
  <2>3. UNION {Bateria(k)!Significado(opciones'[o].text) : o \in Bateria(k)!Claves(q)'}
           = UNION {Bateria(k)!Significado(opciones[o].text) : o \in Bateria(k)!Claves(q)}
    BY <2>2
  <2>4. {Bateria(k)!UnRadio(v) :
           v \in UNION {Bateria(k)!Significado(opciones'[o].text) : o \in Bateria(k)!Claves(q)'}}
           = {Bateria(k)!UnRadio(v) :
           v \in UNION {Bateria(k)!Significado(opciones[o].text) : o \in Bateria(k)!Claves(q)}}
    BY <2>3
  <2> QED BY <2>1, <2>4 DEF Bateria!Acertada
<1>5. \A q : Bateria(k)!Posibles(q)' = Bateria(k)!Posibles(q)
  BY <1>2, <1>3 DEF Bateria!Posibles, Bateria!Marcas
<1>6. \A q, t, c : Bateria(k)!_resolve_option_ids(q, t, c)' = Bateria(k)!_resolve_option_ids(q, t, c)
  BY <1>2 DEF Bateria!_resolve_option_ids
<1>7. \A t, q, c : Bateria(k)!_answer_is_correct(t, q, c)' = Bateria(k)!_answer_is_correct(t, q, c)
  BY <1>3 DEF Bateria!_answer_is_correct
<1> QED BY <1>1, <1>2, <1>3, <1>4, <1>5, <1>6, <1>7

\* ... and so are the pages, the requests and the attempts with it.
LEMMA PaginaQuieta ==
    ASSUME NEW k, preguntas' = preguntas, opciones' = opciones, version' = version,
           NEW g, PaginaAhora(k, g)
    PROVE  PaginaAhora(k, g)'
BY BancoQuieto DEF PaginaAhora

\* An attempt.
LEMMA IntentoQuieto ==
    ASSUME NEW k, preguntas' = preguntas, opciones' = opciones, version' = version,
           NEW a, IntentoAhora(k, a)
    PROVE  IntentoAhora(k, a)'
BY BancoQuieto DEF IntentoAhora

\* A request.
LEMMA PideQuieto ==
    ASSUME NEW k, preguntas' = preguntas, opciones' = opciones, version' = version, usadas' = usadas,
           NEW f, PideAhora(k, f),
           f.pc \in {"responder", "calificar"} => pagina'[f.usuario] = pagina[f.usuario]
    PROVE  PideAhora(k, f)'
<1> SUFFICES ASSUME f.pc \in {"responder", "calificar"} PROVE PideAhora(k, f)'
  BY DEF PideAhora
<1>1. PICK g : g = pagina[f.usuario]
  OBVIOUS
<1>2. g = pagina'[f.usuario]
  BY <1>1
<1>3. /\ g # Nada /\ g.evaluacion = f.evaluacion
      /\ DOMAIN f.elegido = DOMAIN g.posibles
      /\ \A q \in DOMAIN f.elegido : f.elegido[q] \in g.posibles[q] \cup {Nada}
      /\ \A q \in DOMAIN f.total :
            /\ q <= usadas.preguntas
            /\ preguntas[q] # Nada => preguntas[q].evaluacion = f.evaluacion
      /\ g.version = version =>
            /\ DOMAIN f.total = Bateria(k)!De(f.evaluacion)
            /\ \A q \in DOMAIN f.total : f.total[q] = preguntas[q].type
      /\ f.pc = "calificar" =>
            /\ DOMAIN f.respuestas = {q \in DOMAIN f.total \cap DOMAIN f.elegido : f.elegido[q] # Nada}
            /\ DOMAIN f.respuestas \subseteq Bateria(k)!De(f.evaluacion)
            /\ g.version = version => \A q \in DOMAIN f.respuestas :
                  f.respuestas[q] \in Bateria(k)!_resolve_option_ids(q, f.total[q], f.elegido[q])
  BY <1>1 DEF PideAhora
<1>4. /\ \A q \in DOMAIN f.total :
            /\ q <= usadas'.preguntas
            /\ preguntas'[q] # Nada => preguntas'[q].evaluacion = f.evaluacion
      /\ g.version = version' =>
            /\ DOMAIN f.total = Bateria(k)!De(f.evaluacion)'
            /\ \A q \in DOMAIN f.total : f.total[q] = preguntas'[q].type
  BY <1>3, BancoQuieto
<1>5. f.pc = "calificar" =>
            /\ DOMAIN f.respuestas \subseteq Bateria(k)!De(f.evaluacion)'
            /\ g.version = version' => \A q \in DOMAIN f.respuestas :
                  f.respuestas[q] \in Bateria(k)!_resolve_option_ids(q, f.total[q], f.elegido[q])'
  BY <1>3, BancoQuieto
<1> QED BY <1>2, <1>3, <1>4, <1>5 DEF PideAhora

\* No page is up to date.
LEMMA PaginaCambia ==
    ASSUME NEW k, BancoCambia(k), NEW g, PaginaAhora(k, g)
    PROVE  PaginaAhora(k, g)'
<1> SUFFICES ASSUME g # Nada PROVE PaginaAhora(k, g)'
  BY DEF PaginaAhora
<1>1. g.version \in Nat /\ g.version <= version
  BY DEF PaginaAhora
<1>2. g.version <= version' /\ g.version # version'
  BY <1>1 DEF BancoCambia
<1> QED BY <1>2 DEF PaginaAhora

\* What was of an evaluation and stays is of it.
LEMMA DeCambia ==
    ASSUME NEW k, BancoCambia(k), FilasInv(k), k.preguntas \in Nat, NEW e, NEW q \in Bateria(k)!De(e),
           preguntas'[q] # Nada
    PROVE  q \in Bateria(k)!De(e)'
<1>1. q \in 1..k.preguntas /\ preguntas[q] # Nada /\ preguntas[q].evaluacion = e
  BY BancoConjuntos DEF Bateria!De
<1>2. q <= usadas.preguntas
  BY <1>1 DEF FilasInv
<1>3. preguntas'[q].evaluacion = e
  BY <1>1, <1>2 DEF BancoCambia
<1> QED BY <1>1, <1>3, BancoConjuntos DEF Bateria!De

\* A request, which holds the questions it has answered.
LEMMA PideCambia ==
    ASSUME NEW k, BancoCambia(k), FilasInv(k), k.preguntas \in Nat,
           NEW f, PideAhora(k, f), PideForma(k, f),
           f.pc \in {"responder", "calificar"} =>
              pagina'[f.usuario] = pagina[f.usuario] /\ PaginaAhora(k, pagina[f.usuario]),
           f.pc = "calificar" => \A q \in DOMAIN f.respuestas : preguntas'[q] # Nada
    PROVE  PideAhora(k, f)'
<1> SUFFICES ASSUME f.pc \in {"responder", "calificar"} PROVE PideAhora(k, f)'
  BY DEF PideAhora
<1>1. PICK g : g = pagina[f.usuario]
  OBVIOUS
<1>2. g = pagina'[f.usuario]
  BY <1>1
<1>3. /\ g # Nada /\ g.evaluacion = f.evaluacion
      /\ DOMAIN f.elegido = DOMAIN g.posibles
      /\ \A q \in DOMAIN f.elegido : f.elegido[q] \in g.posibles[q] \cup {Nada}
      /\ \A q \in DOMAIN f.total :
            /\ q <= usadas.preguntas
            /\ preguntas[q] # Nada => preguntas[q].evaluacion = f.evaluacion
      /\ f.pc = "calificar" =>
            /\ DOMAIN f.respuestas = {q \in DOMAIN f.total \cap DOMAIN f.elegido : f.elegido[q] # Nada}
            /\ DOMAIN f.respuestas \subseteq Bateria(k)!De(f.evaluacion)
  BY <1>1 DEF PideAhora
<1>4. g.version # version'
  BY <1>1, <1>3 DEF PaginaAhora, BancoCambia
<1>5. \A q \in DOMAIN f.total :
         /\ q <= usadas'.preguntas
         /\ preguntas'[q] # Nada => preguntas'[q].evaluacion = f.evaluacion
  <2> TAKE q \in DOMAIN f.total
  <2>1. q \in 1..k.preguntas /\ q <= usadas.preguntas
    BY <1>3 DEF PideForma
  <2>2. q <= usadas'.preguntas
    BY <2>1 DEF BancoCambia
  <2>3. preguntas'[q] # Nada => preguntas'[q].evaluacion = f.evaluacion
    BY <2>1, <1>3 DEF BancoCambia
  <2> QED BY <2>2, <2>3
<1>6. f.pc = "calificar" => DOMAIN f.respuestas \subseteq Bateria(k)!De(f.evaluacion)'
  BY <1>3, DeCambia
<1> QED BY <1>2, <1>3, <1>4, <1>5, <1>6 DEF PideAhora

\* An attempt whose answers are about questions that stay.
LEMMA IntentoCambia ==
    ASSUME NEW k, BancoCambia(k), FilasInv(k), k.preguntas \in Nat,
           NEW a, IntentoAhora(k, a), \A q \in DOMAIN a.respuestas : preguntas'[q] # Nada
    PROVE  IntentoAhora(k, a)'
<1>1. /\ a \in Intento(k) /\ a.version <= version /\ a.aciertos \subseteq a.total
      /\ DOMAIN a.respuestas \subseteq Bateria(k)!De(a.evaluacion)
  BY DEF IntentoAhora
<1>2. a.version \in Nat
  BY <1>1 DEF Intento
<1>3. a.version <= version' /\ a.version # version'
  BY <1>1, <1>2 DEF BancoCambia
<1>4. DOMAIN a.respuestas \subseteq Bateria(k)!De(a.evaluacion)'
  BY <1>1, DeCambia
<1> QED BY <1>1, <1>3, <1>4 DEF IntentoAhora

\* A request goes on alone.
LEMMA UnaPide ==
    ASSUME NEW k, peticion = [r \in k.peticiones |-> peticion[r]], NEW r \in k.peticiones, NEW f,
           peticion' = [peticion EXCEPT ![r] = f]
    PROVE  /\ peticion'[r] = f /\ \A l \in k.peticiones : l # r => peticion'[l] = peticion[l]
           /\ peticion' = [l \in k.peticiones |-> peticion'[l]]
<1>1. DOMAIN peticion = k.peticiones
  OBVIOUS
<1>2. peticion' = [l \in k.peticiones |-> IF l = r THEN f ELSE peticion[l]]
  BY <1>1
<1> QED BY <1>2

\* How many are at work.
LEMMA CuantasAtareadas ==
    ASSUME NEW k, Bateria(k)!BankAssumption
    PROVE  IsFiniteSet(Atareadas(k)) /\ Cardinality(Atareadas(k)) \in Nat
<1>1. IsFiniteSet(k.peticiones) /\ Atareadas(k) \subseteq k.peticiones
  BY BancoConstants DEF Atareadas
<1> QED BY <1>1, FS_Subset, FS_CardinalityType

\* One more, one less, or as many.
LEMMA AtareadasLuego ==
    ASSUME NEW k, Bateria(k)!BankAssumption, peticion = [r \in k.peticiones |-> peticion[r]],
           NEW r \in k.peticiones, NEW f, peticion' = [peticion EXCEPT ![r] = f]
    PROVE  /\ peticion[r].pc = "idle" /\ f.pc # "idle" =>
                 Cardinality(Atareadas(k)') = Cardinality(Atareadas(k)) + 1
           /\ peticion[r].pc # "idle" /\ f.pc = "idle" =>
                 Cardinality(Atareadas(k)') = Cardinality(Atareadas(k)) - 1
           /\ peticion[r].pc # "idle" /\ f.pc # "idle" => Atareadas(k)' = Atareadas(k)
<1>1. peticion'[r] = f /\ \A l \in k.peticiones : l # r => peticion'[l] = peticion[l]
  BY UnaPide
<1>2. IsFiniteSet(Atareadas(k))
  BY CuantasAtareadas
<1>3. ASSUME peticion[r].pc = "idle", f.pc # "idle"
      PROVE  Cardinality(Atareadas(k)') = Cardinality(Atareadas(k)) + 1
  <2>1. Atareadas(k)' = Atareadas(k) \cup {r} /\ r \notin Atareadas(k)
    BY <1>1, <1>3 DEF Atareadas
  <2> QED BY <2>1, <1>2, FS_AddElement
<1>4. ASSUME peticion[r].pc # "idle", f.pc = "idle"
      PROVE  Cardinality(Atareadas(k)') = Cardinality(Atareadas(k)) - 1
  <2>1. Atareadas(k)' = Atareadas(k) \ {r} /\ r \in Atareadas(k)
    BY <1>1, <1>4 DEF Atareadas
  <2> QED BY <2>1, <1>2, FS_RemoveElement
<1>5. ASSUME peticion[r].pc # "idle", f.pc # "idle" PROVE Atareadas(k)' = Atareadas(k)
  BY <1>1, <1>5 DEF Atareadas
<1> QED BY <1>3, <1>4, <1>5

\* A request begins, and has read what it is about.
LEMMA BancoPide ==
    ASSUME NEW k, Bateria(k)!BankAssumption, BancoInv(k), NEW r \in k.peticiones, NEW f,
           peticion[r].pc = "idle", peticion' = [peticion EXCEPT ![r] = f],
           f.pc # "idle", PideForma(k, f), PideAhora(k, f),
           f.pc \in {"responder", "calificar"} =>
              \A l \in k.peticiones : peticion[l].usuario # f.usuario,
           operaciones < k.operaciones, operaciones' = operaciones + 1,
           UNCHANGED <<preguntas, opciones, usadas, version, pagina, intentos>>
    PROVE  BancoInv(k)'
<1>1. /\ peticion'[r] = f /\ \A l \in k.peticiones : l # r => peticion'[l] = peticion[l]
      /\ peticion' = [l \in k.peticiones |-> peticion'[l]]
  BY UnaPide DEF BancoInv
<1>2. FilasInv(k)'
  BY DEF BancoInv, FilasInv
<1>3. pagina' = [s \in Alumnos |-> pagina'[s]] /\ \A s \in Alumnos : PaginaAhora(k, pagina[s])'
  BY PaginaQuieta DEF BancoInv
<1>4. \A l \in k.peticiones : PideForma(k, peticion'[l]) /\ PideAhora(k, peticion[l])'
  <2> TAKE l \in k.peticiones
  <2>1. PICK h : h = peticion'[l]
    OBVIOUS
  <2>2. PideForma(k, h) /\ PideAhora(k, h)
    BY <1>1, <2>1 DEF BancoInv
  <2>3. PideAhora(k, h)'
    BY <2>2, PideQuieto
  <2> QED BY <2>1, <2>2, <2>3
<1>5. \A l, m \in k.peticiones :
         (/\ peticion'[l].pc \in {"responder", "calificar"} /\ peticion'[m].pc \in {"responder", "calificar"}
          /\ peticion'[l].usuario = peticion'[m].usuario) => l = m
  BY <1>1 DEF BancoInv
<1>6. intentos' \in [Alumnos -> Seq(Intento(k))]
  BY DEF BancoInv
<1>7. \A s \in Alumnos : \A i \in 1..Len(intentos'[s]) : IntentoAhora(k, intentos[s][i])'
  BY IntentoQuieto DEF BancoInv
<1>8. /\ version' \in Nat /\ operaciones' \in 0..k.operaciones
      /\ version' + Cardinality(Atareadas(k)') <= operaciones'
  BY AtareadasLuego, CuantasAtareadas, BancoConstants DEF BancoInv
<1> QED BY <1>1, <1>2, <1>3, <1>4, <1>5, <1>6, <1>7, <1>8 DEF BancoInv

\* A request ends, and has changed the bank or not.
LEMMA BancoTermina ==
    ASSUME NEW k, Bateria(k)!BankAssumption, BancoInv(k), NEW r \in k.peticiones,
           peticion[r].pc # "idle", peticion' = [peticion EXCEPT ![r] = Bateria(k)!Libre],
           UNCHANGED <<pagina, intentos, operaciones>>,
           \/ UNCHANGED <<preguntas, opciones, usadas, version>>
           \/ /\ FilasInv(k)' /\ BancoCambia(k)
              /\ \A q \in 1..k.preguntas : preguntas[q] # Nada => preguntas'[q] # Nada
    PROVE  BancoInv(k)'
<1>1. /\ peticion'[r] = Bateria(k)!Libre /\ \A l \in k.peticiones : l # r => peticion'[l] = peticion[l]
      /\ peticion' = [l \in k.peticiones |-> peticion'[l]]
  BY UnaPide DEF BancoInv
<1>2. \A l \in k.peticiones : PideForma(k, peticion'[l]) /\ PideAhora(k, peticion'[l])
  <2> TAKE l \in k.peticiones
  <2>1. CASE l = r
    BY <1>1, <2>1, PideLibre DEF PideAhora
  <2>2. CASE l # r
    BY <1>1, <2>2 DEF BancoInv
  <2> QED BY <2>1, <2>2
<1>3. \A l, m \in k.peticiones :
         (/\ peticion'[l].pc \in {"responder", "calificar"} /\ peticion'[m].pc \in {"responder", "calificar"}
          /\ peticion'[l].usuario = peticion'[m].usuario) => l = m
  BY <1>1, PideLibre DEF BancoInv
<1>4. /\ pagina' = [s \in Alumnos |-> pagina'[s]] /\ intentos' \in [Alumnos -> Seq(Intento(k))]
      /\ operaciones' \in 0..k.operaciones /\ FilasInv(k) /\ k.preguntas \in Nat
  BY BancoConstants DEF BancoInv
<1>5. Cardinality(Atareadas(k)') = Cardinality(Atareadas(k)) - 1 /\ Cardinality(Atareadas(k)) \in Nat
  BY AtareadasLuego, CuantasAtareadas, PideLibre DEF BancoInv
<1>6. /\ version \in Nat /\ operaciones \in Nat /\ version + Cardinality(Atareadas(k)) <= operaciones
  BY BancoConstants DEF BancoInv
<1>7. CASE UNCHANGED <<preguntas, opciones, usadas, version>>
  <2>1. FilasInv(k)'
    BY <1>7, <1>4 DEF FilasInv
  <2>2. \A s \in Alumnos : PaginaAhora(k, pagina[s])'
    BY <1>7, PaginaQuieta DEF BancoInv
  <2>3. \A l \in k.peticiones : PideAhora(k, peticion[l])'
    <3> TAKE l \in k.peticiones
    <3>1. PICK h : h = peticion'[l]
      OBVIOUS
    <3>2. PideAhora(k, h)'
      BY <1>2, <1>7, <3>1, PideQuieto
    <3> QED BY <3>1, <3>2
  <2>4. \A s \in Alumnos : \A i \in 1..Len(intentos'[s]) : IntentoAhora(k, intentos[s][i])'
    BY <1>7, IntentoQuieto DEF BancoInv
  <2>5. version' \in Nat /\ version' + Cardinality(Atareadas(k)') <= operaciones'
    BY <1>5, <1>6, <1>7
  <2> QED BY <1>1, <1>2, <1>3, <1>4, <2>1, <2>2, <2>3, <2>4, <2>5 DEF BancoInv
<1>8. CASE /\ FilasInv(k)' /\ BancoCambia(k)
           /\ \A q \in 1..k.preguntas : preguntas[q] # Nada => preguntas'[q] # Nada
  <2>1. \A s \in Alumnos : PaginaAhora(k, pagina[s])'
    BY <1>8, PaginaCambia DEF BancoInv
  <2>2. \A e : \A q \in Bateria(k)!De(e) : preguntas'[q] # Nada
    BY <1>8, BancoConjuntos DEF Bateria!De
  <2>3. \A l \in k.peticiones : PideAhora(k, peticion[l])'
    <3> TAKE l \in k.peticiones
    <3>1. PICK h : h = peticion'[l]
      OBVIOUS
    <3>2. PideForma(k, h) /\ PideAhora(k, h)
      BY <1>2, <3>1
    <3>3. h.pc \in {"responder", "calificar"} =>
             pagina'[h.usuario] = pagina[h.usuario] /\ PaginaAhora(k, pagina[h.usuario])
      BY <3>2 DEF PideForma, BancoInv
    <3>4. h.pc = "calificar" => \A q \in DOMAIN h.respuestas : preguntas'[q] # Nada
      BY <3>2, <2>2 DEF PideAhora
    <3>5. PideAhora(k, h)'
      BY <1>4, <1>8, <3>2, <3>3, <3>4, PideCambia
    <3> QED BY <3>1, <3>5
  <2>4. \A s \in Alumnos : \A i \in 1..Len(intentos'[s]) : IntentoAhora(k, intentos[s][i])'
    <3> TAKE s \in Alumnos
    <3> TAKE i \in 1..Len(intentos'[s])
    <3>1. PICK a : a = intentos'[s][i]
      OBVIOUS
    <3>2. IntentoAhora(k, a)
      BY <3>1 DEF BancoInv
    <3>3. \A q \in DOMAIN a.respuestas : preguntas'[q] # Nada
      BY <3>2, <2>2 DEF IntentoAhora
    <3>4. IntentoAhora(k, a)'
      BY <1>4, <1>8, <3>2, <3>3, IntentoCambia
    <3> QED BY <3>1, <3>4
  <2>5. version' \in Nat /\ version' + Cardinality(Atareadas(k)') <= operaciones'
    BY <1>5, <1>6, <1>8 DEF BancoCambia
  <2> QED BY <1>1, <1>2, <1>3, <1>4, <1>8, <2>1, <2>3, <2>4, <2>5 DEF BancoInv
<1> QED BY <1>7, <1>8

\* Bounded natural numbers have a greatest one.
LEMMA ElMayorOrden ==
    ASSUME NEW k, NEW n \in Nat, NEW S, S \subseteq 0..n, S # {}
    PROVE  Bateria(k)!Max(S) \in S /\ \A y \in S : y <= Bateria(k)!Max(S)
<1>1. PICK T : T = {n - x : x \in S}
  OBVIOUS
<1>2. T \subseteq Nat /\ T # {}
  <2>1. PICK x \in S : TRUE
    OBVIOUS
  <2>2. n - x \in T
    BY <1>1, <2>1
  <2>3. \A x0 \in S : n - x0 \in Nat
    <3> TAKE x0 \in S
    <3>1. x0 \in 0..n
      OBVIOUS
    <3> QED BY <3>1
  <2> QED BY <1>1, <2>2, <2>3
<1>3. PICK m \in T : \A y \in T : m <= y
  BY <1>2, ElMenor
<1>4. PICK x \in S : m = n - x
  BY <1>1
<1>5. \A y \in S : x >= y
  <2> TAKE y \in S
  <2>1. n - y \in T
    BY <1>1
  <2>2. m <= n - y /\ x \in 0..n /\ y \in 0..n
    BY <2>1, <1>3
  <2> QED BY <1>4, <2>2
<1>6. Bateria(k)!Max(S) \in S /\ \A y \in S : Bateria(k)!Max(S) >= y
  BY <1>5 DEF Bateria!Max
<1> QED BY <1>6

\* The next order of an evaluation follows those of its questions.
LEMMA SiguienteOrden ==
    ASSUME NEW k, Bateria(k)!BankAssumption, FilasInv(k), NEW e
    PROVE  /\ Bateria(k)!Siguiente(e) \in Nat \ {0}
           /\ \A q \in Bateria(k)!De(e) : preguntas[q].order < Bateria(k)!Siguiente(e)
<1> DEFINE S == {preguntas[q].order : q \in Bateria(k)!De(e)} \cup {0}
<1>1. k.preguntas \in Nat
  BY BancoConstants
<1>2. \A q \in Bateria(k)!De(e) : preguntas[q].order \in 1..k.preguntas
  <2> TAKE q \in Bateria(k)!De(e)
  <2>1. q \in 1..k.preguntas /\ preguntas[q] # Nada
    BY BancoConjuntos DEF Bateria!De
  <2>2. preguntas[q] \in Reactivo(k)
    BY <2>1 DEF FilasInv
  <2> QED BY <2>2 DEF Reactivo
<1>3. S \subseteq 0..k.preguntas /\ S # {}
  BY <1>1, <1>2
<1>4. Bateria(k)!Max(S) \in S /\ \A y \in S : y <= Bateria(k)!Max(S)
  <2> HIDE DEF S
  <2> QED BY <1>1, <1>3, ElMayorOrden
<1>5. Bateria(k)!Max(S) \in Nat
  BY <1>1, <1>3, <1>4
<1>6. Bateria(k)!Siguiente(e) = Bateria(k)!Max(S) + 1
  BY DEF Bateria!Siguiente
<1>7. \A q \in Bateria(k)!De(e) : preguntas[q].order \in S
  OBVIOUS
<1> HIDE DEF S
<1>8. \A q \in Bateria(k)!De(e) : preguntas[q].order < Bateria(k)!Siguiente(e)
  <2> TAKE q \in Bateria(k)!De(e)
  <2>1. preguntas[q].order <= Bateria(k)!Max(S) /\ preguntas[q].order \in Nat
    BY <1>2, <1>4, <1>7
  <2> QED BY <2>1, <1>5, <1>6
<1> QED BY <1>5, <1>6, <1>8

----------------------------------------
(* Requests that begin *)

\* How a request begins.
LEMMA BancoEmpieza ==
    ASSUME NEW k, NEW r, NEW a, Bateria(k)!Empezar(r, a)
    PROVE  /\ peticion[r].pc = "idle" /\ a \in k.acciones
           /\ operaciones < k.operaciones /\ operaciones' = operaciones + 1
BY DEF Bateria!Empezar

\* A new question.
LEMMA EmpiezaPregunta ==
    ASSUME NEW k, Bateria(k)!BankAssumption, BancoInv(k), NEW r \in k.peticiones,
           NEW e \in k.examenes, Bateria(k)!new_question(r, e)
    PROVE  BancoInv(k)'
<1>1. /\ peticion[r].pc = "idle" /\ operaciones < k.operaciones /\ operaciones' = operaciones + 1
      /\ Bateria(k)!Siguiente(e) <= k.preguntas
      /\ UNCHANGED <<preguntas, opciones, usadas, version, pagina, intentos>>
  BY BancoEmpieza DEF Bateria!new_question, Bateria!banco
<1>2. PICK y \in {"multiple", "boolean"}, t \in k.textos : Bateria(k)!Seguir(r,
         [Bateria(k)!Libre EXCEPT !.pc = "pregunta", !.escrito =
            [evaluacion |-> e, type |-> y, text |-> t, order |-> Bateria(k)!Siguiente(e),
             certificada |-> FALSE]])
  BY Zenon DEF Bateria!new_question
<1>3. PICK w : w = [evaluacion |-> e, type |-> y, text |-> t, order |-> Bateria(k)!Siguiente(e),
                    certificada |-> FALSE]
  OBVIOUS
<1>4. PICK f : f = [Bateria(k)!Libre EXCEPT !.pc = "pregunta", !.escrito = w]
  OBVIOUS
<1>5. peticion' = [peticion EXCEPT ![r] = f]
  BY <1>2, <1>3, <1>4 DEF Bateria!Seguir
<1>6. w \in Reactivo(k)
  BY <1>1, SiguienteOrden, BancoConstants, <1>3 DEF BancoInv, Reactivo
<1>7. f.pc = "pregunta" /\ PideForma(k, f)
  BY <1>4, <1>6 DEF Bateria!Libre, PideForma
<1>8. PideAhora(k, f)
  BY <1>7 DEF PideAhora
<1> QED BY <1>1, <1>5, <1>7, <1>8, BancoPide

\* A question that is being edited.
LEMMA EmpiezaEditar ==
    ASSUME NEW k, Bateria(k)!BankAssumption, BancoInv(k), NEW r \in k.peticiones,
           NEW q \in 1..k.preguntas, Bateria(k)!edit_question(r, q)
    PROVE  BancoInv(k)'
<1>1. /\ peticion[r].pc = "idle" /\ operaciones < k.operaciones /\ operaciones' = operaciones + 1
      /\ preguntas[q] # Nada
      /\ UNCHANGED <<preguntas, opciones, usadas, version, pagina, intentos>>
  BY BancoEmpieza DEF Bateria!edit_question, Bateria!banco
<1>2. PICK y \in {"multiple", "boolean"}, t \in k.textos : Bateria(k)!Seguir(r,
         [Bateria(k)!Libre EXCEPT !.pc = "editar", !.pregunta = q, !.leido = preguntas[q],
             !.escrito = [preguntas[q] EXCEPT !.type = y, !.text = t]])
  BY Zenon DEF Bateria!edit_question
<1>3. PICK p : p = preguntas[q]
  OBVIOUS
<1>4. PICK w : w = [p EXCEPT !.type = y, !.text = t]
  OBVIOUS
<1>5. PICK f : f = [Bateria(k)!Libre EXCEPT !.pc = "editar", !.pregunta = q, !.leido = p, !.escrito = w]
  OBVIOUS
<1>6. peticion' = [peticion EXCEPT ![r] = f]
  BY <1>2, <1>3, <1>4, <1>5 DEF Bateria!Seguir
<1>7. p \in Reactivo(k)
  BY <1>1, <1>3 DEF BancoInv, FilasInv
<1>8. /\ w \in Reactivo(k) /\ w.evaluacion = p.evaluacion /\ w.order = p.order
      /\ w.certificada = p.certificada
  BY <1>4, <1>7 DEF Reactivo
<1>9. f.pc = "editar" /\ PideForma(k, f)
  BY <1>5, <1>7, <1>8 DEF Bateria!Libre, PideForma
<1>10. PideAhora(k, f)
  BY <1>9 DEF PideAhora
<1> QED BY <1>1, <1>6, <1>9, <1>10, BancoPide

\* A new option.
LEMMA EmpiezaOpcion ==
    ASSUME NEW k, Bateria(k)!BankAssumption, BancoInv(k), NEW r \in k.peticiones,
           NEW q \in 1..k.preguntas, Bateria(k)!new_question_option(r, q)
    PROVE  BancoInv(k)'
<1>1. /\ peticion[r].pc = "idle" /\ operaciones < k.operaciones /\ operaciones' = operaciones + 1
      /\ UNCHANGED <<preguntas, opciones, usadas, version, pagina, intentos>>
  BY BancoEmpieza DEF Bateria!new_question_option, Bateria!banco
<1>2. PICK t \in k.escritos, y \in BOOLEAN : Bateria(k)!Seguir(r,
         [Bateria(k)!Libre EXCEPT !.pc = "opcion", !.pregunta = q,
             !.escrito = [text |-> t, is_correct |-> y]])
  BY Zenon DEF Bateria!new_question_option
<1>4. PICK w : w = [text |-> t, is_correct |-> y]
  OBVIOUS
<1>5. PICK f : f = [Bateria(k)!Libre EXCEPT !.pc = "opcion", !.pregunta = q, !.escrito = w]
  OBVIOUS
<1>6. peticion' = [peticion EXCEPT ![r] = f]
  BY <1>2, <1>4, <1>5 DEF Bateria!Seguir
<1>8. w \in Alternativa(k)
  BY <1>4, BancoConstants DEF Alternativa
<1>9. f.pc = "opcion" /\ PideForma(k, f)
  BY <1>5, <1>8 DEF Bateria!Libre, PideForma
<1>10. PideAhora(k, f)
  BY <1>9 DEF PideAhora
<1> QED BY <1>1, <1>6, <1>9, <1>10, BancoPide

\* An option that is being edited.
LEMMA EmpiezaCambiar ==
    ASSUME NEW k, Bateria(k)!BankAssumption, BancoInv(k), NEW r \in k.peticiones,
           NEW o \in Lugares(k), Bateria(k)!edit_question_option(r, o)
    PROVE  BancoInv(k)'
<1>1. /\ peticion[r].pc = "idle" /\ operaciones < k.operaciones /\ operaciones' = operaciones + 1
      /\ opciones[o] # Nada
      /\ UNCHANGED <<preguntas, opciones, usadas, version, pagina, intentos>>
  BY BancoEmpieza DEF Bateria!edit_question_option, Bateria!banco
<1>2. PICK t \in k.escritos \cup {opciones[o].text}, y \in BOOLEAN : Bateria(k)!Seguir(r,
         [Bateria(k)!Libre EXCEPT !.pc = "cambiar", !.opcion = o, !.leido = opciones[o],
             !.escrito = [text |-> t, is_correct |-> y]])
  BY Zenon DEF Bateria!edit_question_option
<1>3. PICK p : p = opciones[o]
  OBVIOUS
<1>4. PICK w : w = [text |-> t, is_correct |-> y]
  OBVIOUS
<1>5. PICK f : f = [Bateria(k)!Libre EXCEPT !.pc = "cambiar", !.opcion = o, !.leido = p, !.escrito = w]
  OBVIOUS
<1>6. peticion' = [peticion EXCEPT ![r] = f]
  BY <1>2, <1>3, <1>4, <1>5 DEF Bateria!Seguir
<1>7. p \in Alternativa(k)
  BY <1>1, <1>3 DEF BancoInv, FilasInv
<1>8. w \in Alternativa(k)
  BY <1>2, <1>3, <1>4, <1>7, BancoConstants DEF Alternativa
<1>9. f.pc = "cambiar" /\ PideForma(k, f)
  BY <1>5, <1>7, <1>8 DEF Bateria!Libre, PideForma
<1>10. PideAhora(k, f)
  BY <1>9 DEF PideAhora
<1> QED BY <1>1, <1>6, <1>9, <1>10, BancoPide

\* An option that is going.
LEMMA EmpiezaQuitar ==
    ASSUME NEW k, Bateria(k)!BankAssumption, BancoInv(k), NEW r \in k.peticiones,
           NEW o \in Lugares(k), Bateria(k)!delete_question_option(r, o)
    PROVE  BancoInv(k)'
<1>1. /\ peticion[r].pc = "idle" /\ operaciones < k.operaciones /\ operaciones' = operaciones + 1
      /\ UNCHANGED <<preguntas, opciones, usadas, version, pagina, intentos>>
  BY BancoEmpieza DEF Bateria!delete_question_option, Bateria!banco
<1>5. PICK f : f = [Bateria(k)!Libre EXCEPT !.pc = "quitar", !.opcion = o]
  OBVIOUS
<1>6. peticion' = [peticion EXCEPT ![r] = f]
  BY <1>5 DEF Bateria!Seguir, Bateria!delete_question_option
<1>9. f.pc = "quitar" /\ PideForma(k, f)
  BY <1>5 DEF Bateria!Libre, PideForma
<1>10. PideAhora(k, f)
  BY <1>9 DEF PideAhora
<1> QED BY <1>1, <1>6, <1>9, <1>10, BancoPide

\* An attempt is sent, and the questions are loaded.
LEMMA EmpiezaIntento ==
    ASSUME NEW k, Bateria(k)!BankAssumption, BancoInv(k), NEW r \in k.peticiones,
           NEW s \in Alumnos, Bateria(k)!take_evaluation(r, s)
    PROVE  BancoInv(k)'
<1>1. /\ peticion[r].pc = "idle" /\ operaciones < k.operaciones /\ operaciones' = operaciones + 1
      /\ pagina[s] # Nada /\ \A l \in k.peticiones : peticion[l].usuario # s
      /\ UNCHANGED <<preguntas, opciones, usadas, version, pagina, intentos>>
  BY BancoEmpieza DEF Bateria!take_evaluation, Bateria!banco
<1>2. PICK c \in Bateria(k)!Elecciones(pagina[s]) : Bateria(k)!Seguir(r,
         [Bateria(k)!Libre EXCEPT !.pc = "responder", !.usuario = s,
             !.evaluacion = pagina[s].evaluacion, !.elegido = c,
             !.total = [q \in Bateria(k)!De(pagina[s].evaluacion) |-> preguntas[q].type]])
  BY Zenon DEF Bateria!take_evaluation
<1>3. PICK g : g = pagina[s]
  OBVIOUS
<1>4. PICK w : w = [q \in Bateria(k)!De(g.evaluacion) |-> preguntas[q].type]
  OBVIOUS
<1>5. PICK f : f = [Bateria(k)!Libre EXCEPT !.pc = "responder", !.usuario = s,
                       !.evaluacion = g.evaluacion, !.elegido = c, !.total = w]
  OBVIOUS
<1>6. peticion' = [peticion EXCEPT ![r] = f]
  BY <1>2, <1>3, <1>4, <1>5 DEF Bateria!Seguir
<1>7. /\ f.pc = "responder" /\ f.usuario = s /\ f.evaluacion = g.evaluacion /\ f.elegido = c
      /\ f.total = w
      /\ f = [pc |-> f.pc, pregunta |-> f.pregunta, opcion |-> f.opcion, leido |-> f.leido,
            escrito |-> f.escrito, usuario |-> f.usuario, evaluacion |-> f.evaluacion,
            total |-> f.total, elegido |-> f.elegido, respuestas |-> f.respuestas]
      /\ f.pregunta = Nada /\ f.opcion = Nada /\ f.leido = Nada /\ f.escrito = Nada
  BY <1>5 DEF Bateria!Libre
<1>8. \A q \in Bateria(k)!De(g.evaluacion) :
         /\ q \in 1..k.preguntas /\ preguntas[q] \in Reactivo(k)
         /\ preguntas[q].evaluacion = g.evaluacion /\ q <= usadas.preguntas
  BY BancoConjuntos, BancoConstants DEF BancoInv, FilasInv, Bateria!De
<1>9. /\ DOMAIN w = Bateria(k)!De(g.evaluacion)
      /\ \A q \in DOMAIN w : w[q] = preguntas[q].type /\ w[q] \in {"multiple", "boolean"}
  BY <1>4, <1>8 DEF Reactivo
<1>10. PaginaAhora(k, g)
  BY <1>3 DEF BancoInv
<1>11. g # Nada /\ g.evaluacion \in k.examenes
  BY <1>1, <1>3, <1>10 DEF PaginaAhora
<1>12. PideForma(k, f)
  BY <1>7, <1>8, <1>9, <1>11 DEF PideForma
<1>13. DOMAIN c = DOMAIN g.posibles /\ \A q \in DOMAIN c : c[q] \in g.posibles[q] \cup {Nada}
  BY <1>2, <1>3 DEF Bateria!Elecciones
<1>14. PideAhora(k, f)
  BY <1>3, <1>7, <1>8, <1>9, <1>11, <1>13 DEF PideAhora
<1> QED BY <1>1, <1>6, <1>7, <1>12, <1>14, BancoPide

(* Requests that change the bank and end *)

\* A new question with its first options.
LEMMA TerminaPregunta ==
    ASSUME NEW k, Bateria(k)!BankAssumption, BancoInv(k), NEW r \in k.peticiones,
           Bateria(k)!NuevaPregunta(r)
    PROVE  BancoInv(k)'
<1>1. PICK q : q = usadas.preguntas + 1
  OBVIOUS
<1>2. PICK p : p = peticion[r].escrito
  OBVIOUS
<1>3. /\ peticion[r].pc = "pregunta" /\ usadas.preguntas < k.preguntas
      /\ preguntas' = [preguntas EXCEPT ![q] = p]
      /\ opciones' = [o \in Lugares(k) |->
            IF o[1] = q /\ o[2] <= Bateria(k)!Cuantas(p.type)
            THEN [text |-> Bateria(k)!Defecto(p.type, o[2]), is_correct |-> FALSE] ELSE opciones[o]]
      /\ usadas' = [preguntas |-> q,
                    opciones |-> [usadas.opciones EXCEPT ![q] = Bateria(k)!Cuantas(p.type)]]
      /\ version' = version + 1
      /\ peticion' = [peticion EXCEPT ![r] = Bateria(k)!Libre]
      /\ UNCHANGED <<pagina, intentos, operaciones>>
  BY <1>1, <1>2, BancoConjuntos DEF Bateria!NuevaPregunta, Bateria!Terminar, Bateria!Seguir
<1>4. FilasInv(k) /\ version \in Nat /\ p \in Reactivo(k) /\ k.preguntas \in Nat /\ k.opciones \in Nat
      /\ k.opciones >= 4
  BY <1>2, <1>3, BancoConstants DEF BancoInv, PideForma
<1>5. /\ q \in 1..k.preguntas /\ preguntas[q] = Nada /\ p # Nada /\ usadas.preguntas \in Nat
      /\ p.type \in {"multiple", "boolean"}
  <2>1. usadas.preguntas \in 0..k.preguntas
    BY <1>4 DEF FilasInv
  <2>2. usadas.preguntas \in Nat /\ q \in 1..k.preguntas /\ q > usadas.preguntas
    BY <2>1, <1>1, <1>3, <1>4
  <2>3. preguntas[q] = Nada
    BY <2>2, <1>4 DEF FilasInv
  <2>4. p # Nada
    BY <1>4, BancoConstants
  <2>5. p.type \in {"multiple", "boolean"}
    BY <1>4 DEF Reactivo
  <2> QED BY <2>2, <2>3, <2>4, <2>5
<1>6. /\ preguntas' \in [1..k.preguntas -> Reactivo(k) \cup {Nada}]
      /\ preguntas'[q] = p /\ \A m \in 1..k.preguntas : m # q => preguntas'[m] = preguntas[m]
  BY <1>3, <1>4, <1>5 DEF FilasInv
<1>7. opciones' \in [Lugares(k) -> Alternativa(k) \cup {Nada}]
  <2>1. \A o \in Lugares(k) : opciones'[o] \in Alternativa(k) \cup {Nada}
    <3> TAKE o \in Lugares(k)
    <3>1. CASE o[1] = q /\ o[2] <= Bateria(k)!Cuantas(p.type)
      <4>1. o[2] \in Nat /\ 1 <= o[2]
        BY DEF Lugares
      <4>2. Bateria(k)!Defecto(p.type, o[2]) \in Bateria(k)!TextosDeOpcion
        <5>1. CASE p.type = "multiple"
          BY <3>1, <4>1, <5>1 DEF Bateria!Cuantas, Bateria!Defecto, Bateria!TextosDeOpcion
        <5>2. CASE p.type = "boolean"
          BY <3>1, <4>1, <5>2 DEF Bateria!Cuantas, Bateria!Defecto, Bateria!TextosDeOpcion,
             Bateria!Radio
        <5> QED BY <1>5, <5>1, <5>2
      <4>3. opciones'[o] = [text |-> Bateria(k)!Defecto(p.type, o[2]), is_correct |-> FALSE]
        BY <1>3, <3>1
      <4> QED BY <4>2, <4>3 DEF Alternativa
    <3>2. CASE ~(o[1] = q /\ o[2] <= Bateria(k)!Cuantas(p.type))
      BY <1>3, <1>4, <3>2 DEF FilasInv
    <3> QED BY <3>1, <3>2
  <2> QED BY <1>3, <2>1
<1>8. usadas'.preguntas = q /\ usadas'.opciones = [usadas.opciones EXCEPT ![q] = Bateria(k)!Cuantas(p.type)]
  BY <1>3
<1>9. usadas' = [preguntas |-> usadas'.preguntas, opciones |-> usadas'.opciones]
  BY <1>3
<1>10. usadas'.opciones \in [1..k.preguntas -> 0..k.opciones]
  <2>1. Bateria(k)!Cuantas(p.type) \in 0..k.opciones
    BY <1>4 DEF Bateria!Cuantas
  <2> QED BY <1>4, <1>8, <2>1 DEF FilasInv
<1>11. \A m \in 1..k.preguntas : m > q => preguntas'[m] = Nada
  BY <1>1, <1>4, <1>5, <1>6 DEF FilasInv
<1>12. \A o \in Lugares(k) : opciones'[o] # Nada => preguntas'[o[1]] # Nada
  <2> TAKE o \in Lugares(k)
  <2>1. o[1] \in 1..k.preguntas
    BY DEF Lugares
  <2>2. CASE o[1] = q
    BY <2>2, <1>5, <1>6
  <2>3. CASE o[1] # q
    BY <2>1, <2>3, <1>3, <1>4, <1>6 DEF FilasInv
  <2> QED BY <2>2, <2>3
<1>13. FilasInv(k)'
  BY <1>5, <1>6, <1>7, <1>8, <1>9, <1>10, <1>11, <1>12 DEF FilasInv
<1>14. BancoCambia(k)
  BY <1>1, <1>3, <1>4, <1>5, <1>6, <1>8 DEF BancoCambia
<1>15. \A m \in 1..k.preguntas : preguntas[m] # Nada => preguntas'[m] # Nada
  BY <1>5, <1>6
<1> QED BY <1>3, <1>13, <1>14, <1>15, BancoTermina

\* A question that was edited.
LEMMA TerminaEditar ==
    ASSUME NEW k, Bateria(k)!BankAssumption, BancoInv(k), NEW r \in k.peticiones,
           Bateria(k)!EditarPregunta(r)
    PROVE  BancoInv(k)'
<1>1. PICK p : p = peticion[r]
  OBVIOUS
<1>2. /\ p.pc = "editar" /\ peticion' = [peticion EXCEPT ![r] = Bateria(k)!Libre]
      /\ UNCHANGED <<pagina, intentos, operaciones>>
  BY <1>1 DEF Bateria!EditarPregunta, Bateria!Terminar, Bateria!Seguir
<1>3. CASE preguntas[p.pregunta] = Nada \/ p.leido = p.escrito
  BY <1>1, <1>3, <1>2, BancoTermina DEF Bateria!EditarPregunta, Bateria!banco
<1>4. CASE ~(preguntas[p.pregunta] = Nada \/ p.leido = p.escrito)
  <2>1. PICK q : q = p.pregunta
    OBVIOUS
  <2>2. PICK x : x = Bateria(k)!Distintos(p.leido, p.escrito, preguntas[q])
    OBVIOUS
  <2>3. /\ preguntas' = [preguntas EXCEPT ![q] = x]
        /\ version' = version + 1 /\ UNCHANGED <<opciones, usadas>>
    BY <1>1, <1>4, <2>1, <2>2 DEF Bateria!EditarPregunta
  <2>4. /\ FilasInv(k) /\ version \in Nat /\ k.preguntas \in Nat
        /\ q \in 1..k.preguntas /\ p.leido \in Reactivo(k) /\ p.escrito \in Reactivo(k)
        /\ p.escrito.evaluacion = p.leido.evaluacion /\ p.escrito.order = p.leido.order
    BY <1>1, <1>2, <2>1, BancoConstants DEF BancoInv, PideForma
  <2>5. preguntas[q] # Nada /\ preguntas[q] \in Reactivo(k)
    BY <1>4, <2>1, <2>4 DEF FilasInv
  <2>6. x \in Reactivo(k) /\ x.evaluacion = preguntas[q].evaluacion /\ x # Nada
    BY <2>2, <2>4, <2>5, ReactivoDistinto, BancoConstants
  <2>7. /\ preguntas' \in [1..k.preguntas -> Reactivo(k) \cup {Nada}]
        /\ preguntas'[q] = x /\ \A m \in 1..k.preguntas : m # q => preguntas'[m] = preguntas[m]
    BY <2>3, <2>4, <2>6 DEF FilasInv
  <2>8. q <= usadas.preguntas /\ usadas.preguntas \in Nat
    BY <2>4, <2>5 DEF FilasInv
  <2>9. \A m \in 1..k.preguntas : (preguntas[m] = Nada <=> preguntas'[m] = Nada)
    BY <2>5, <2>6, <2>7
  <2>10. FilasInv(k)'
    BY <2>3, <2>4, <2>9, <2>7 DEF FilasInv, Lugares
  <2>11. BancoCambia(k)
    BY <2>3, <2>4, <2>6, <2>7, <2>8, <2>9 DEF BancoCambia
  <2>12. peticion[r].pc # "idle" /\ \A m \in 1..k.preguntas : preguntas[m] # Nada => preguntas'[m] # Nada
    BY <1>1, <1>2, <2>9
  <2> QED BY <1>2, <2>10, <2>11, <2>12, BancoTermina
<1> QED BY <1>3, <1>4

\* What a change of the options alone keeps.
LEMMA CambiaOpciones ==
    ASSUME NEW k, Bateria(k)!BankAssumption, BancoInv(k), preguntas' = preguntas, version' = version + 1,
           NEW o \in Lugares(k), NEW x \in Alternativa(k) \cup {Nada},
           opciones' = [opciones EXCEPT ![o] = x], x # Nada => preguntas[o[1]] # Nada,
           NEW n \in [1..k.preguntas -> 0..k.opciones], usadas' = [usadas EXCEPT !.opciones = n]
    PROVE  FilasInv(k)' /\ BancoCambia(k)
<1>1. FilasInv(k) /\ version \in Nat
  BY DEF BancoInv
<1>2. /\ opciones' \in [Lugares(k) -> Alternativa(k) \cup {Nada}]
      /\ opciones'[o] = x /\ \A m \in Lugares(k) : m # o => opciones'[m] = opciones[m]
  BY <1>1 DEF FilasInv
<1>3. usadas' = [preguntas |-> usadas.preguntas, opciones |-> n]
  BY <1>1 DEF FilasInv
<1>4. /\ usadas'.preguntas = usadas.preguntas /\ usadas'.opciones = n
      /\ usadas' = [preguntas |-> usadas'.preguntas, opciones |-> usadas'.opciones]
  BY <1>3
<1>5. \A m \in Lugares(k) : opciones'[m] # Nada => preguntas'[m[1]] # Nada
  BY <1>1, <1>2 DEF FilasInv
<1>6. FilasInv(k)'
  BY <1>1, <1>2, <1>4, <1>5 DEF FilasInv
<1>7. usadas.preguntas \in Nat
  BY <1>1, BancoConstants DEF FilasInv
<1> QED BY <1>1, <1>4, <1>6, <1>7 DEF BancoCambia

\* ... or an option that goes, comes or is edited.
LEMMA TerminaOpcion ==
    ASSUME NEW k, Bateria(k)!BankAssumption, BancoInv(k), NEW r \in k.peticiones,
           Bateria(k)!NuevaOpcion(r) \/ Bateria(k)!EditarOpcion(r) \/ Bateria(k)!QuitarOpcion(r)
    PROVE  BancoInv(k)'
<1>1. PICK p : p = peticion[r]
  OBVIOUS
<1>2. PideForma(k, p) /\ FilasInv(k)
  BY <1>1 DEF BancoInv
<1>3. /\ usadas.opciones \in [1..k.preguntas -> 0..k.opciones]
      /\ usadas = [preguntas |-> usadas.preguntas, opciones |-> usadas.opciones]
      /\ opciones \in [Lugares(k) -> Alternativa(k) \cup {Nada}]
      /\ k.preguntas \in Nat /\ k.opciones \in Nat
  BY <1>2, BancoConstants DEF FilasInv
<1>4. [usadas EXCEPT !.opciones = usadas.opciones] = usadas
  BY <1>3
<1>5. CASE Bateria(k)!NuevaOpcion(r)
  <2>1. PICK q : q = p.pregunta
    OBVIOUS
  <2>2. PICK o : o = <<q, usadas.opciones[q] + 1>>
    OBVIOUS
  <2>3. /\ p.pc = "opcion" /\ peticion' = [peticion EXCEPT ![r] = Bateria(k)!Libre]
        /\ UNCHANGED <<pagina, intentos, operaciones>>
    BY <1>1, <1>5 DEF Bateria!NuevaOpcion, Bateria!Terminar, Bateria!Seguir
  <2>4. peticion[r].pc # "idle" /\ q \in 1..k.preguntas /\ p.escrito \in Alternativa(k)
    BY <1>1, <1>2, <2>1, <2>3 DEF PideForma
  <2>5. CASE preguntas[q] = Nada
    BY <1>1, <1>5, <2>1, <2>5, <2>3, <2>4, BancoTermina DEF Bateria!NuevaOpcion, Bateria!banco
  <2>6. CASE preguntas[q] # Nada
    <3>1. /\ o \in Lugares(k)
          /\ opciones' = [opciones EXCEPT ![o] = p.escrito]
          /\ usadas' = [usadas EXCEPT !.opciones[q] = @ + 1]
          /\ version' = version + 1 /\ preguntas' = preguntas
      BY <1>1, <1>5, <2>1, <2>2, <2>6, BancoConjuntos DEF Bateria!NuevaOpcion
    <3>2. PICK n : n = [usadas.opciones EXCEPT ![q] = @ + 1]
      OBVIOUS
    <3>3. usadas' = [usadas EXCEPT !.opciones = n]
      BY <3>1, <3>2
    <3>4. usadas.opciones[q] + 1 \in 0..k.opciones
      BY <1>3, <2>2, <2>4, <3>1 DEF Lugares
    <3>5. n \in [1..k.preguntas -> 0..k.opciones]
      BY <1>3, <2>4, <3>2, <3>4
    <3>6. o[1] = q
      BY <2>2
    <3>7. FilasInv(k)' /\ BancoCambia(k)
      BY <2>4, <2>6, <3>1, <3>3, <3>5, <3>6, CambiaOpciones
    <3>8. \A m \in 1..k.preguntas : preguntas[m] # Nada => preguntas'[m] # Nada
      BY <3>1
    <3> QED BY <2>3, <2>4, <3>7, <3>8, BancoTermina
  <2> QED BY <2>5, <2>6
<1>6. CASE Bateria(k)!EditarOpcion(r)
  <2>1. PICK o : o = p.opcion
    OBVIOUS
  <2>2. PICK x : x = Bateria(k)!Distintos(p.leido, p.escrito, opciones[o])
    OBVIOUS
  <2>3. /\ p.pc = "cambiar" /\ peticion' = [peticion EXCEPT ![r] = Bateria(k)!Libre]
        /\ UNCHANGED <<pagina, intentos, operaciones>>
    BY <1>1, <1>6 DEF Bateria!EditarOpcion, Bateria!Terminar, Bateria!Seguir
  <2>4. /\ peticion[r].pc # "idle" /\ o \in Lugares(k)
        /\ p.leido \in Alternativa(k) /\ p.escrito \in Alternativa(k)
    BY <1>1, <1>2, <2>1, <2>3 DEF PideForma
  <2>5. CASE opciones[o] = Nada \/ p.leido = p.escrito
    BY <1>1, <1>6, <2>1, <2>5, <2>3, <2>4, BancoTermina DEF Bateria!EditarOpcion, Bateria!banco
  <2>6. CASE ~(opciones[o] = Nada \/ p.leido = p.escrito)
    <3>1. /\ opciones' = [opciones EXCEPT ![o] = x]
          /\ version' = version + 1 /\ preguntas' = preguntas /\ usadas' = usadas
      BY <1>1, <1>6, <2>1, <2>2, <2>6 DEF Bateria!EditarOpcion
    <3>2. opciones[o] \in Alternativa(k) /\ opciones[o] # Nada
      BY <1>3, <2>4, <2>6
    <3>3. x \in Alternativa(k)
      BY <2>2, <2>4, <3>2, AlternativaDistinta
    <3>4. preguntas[o[1]] # Nada
      BY <1>2, <2>4, <3>2 DEF FilasInv
    <3>5. usadas' = [usadas EXCEPT !.opciones = usadas.opciones]
      BY <1>4, <3>1
    <3>6. x \in Alternativa(k) \cup {Nada}
      BY <3>3
    <3>7. FilasInv(k)' /\ BancoCambia(k)
      BY <1>3, <2>4, <3>1, <3>4, <3>5, <3>6, CambiaOpciones
    <3>8. \A m \in 1..k.preguntas : preguntas[m] # Nada => preguntas'[m] # Nada
      BY <3>1
    <3> QED BY <2>3, <2>4, <3>7, <3>8, BancoTermina
  <2> QED BY <2>5, <2>6
<1>7. CASE Bateria(k)!QuitarOpcion(r)
  <2>1. PICK o : o = p.opcion
    OBVIOUS
  <2>3. /\ p.pc = "quitar" /\ peticion' = [peticion EXCEPT ![r] = Bateria(k)!Libre]
        /\ opciones' = [opciones EXCEPT ![o] = Nada]
        /\ version' = version + 1 /\ preguntas' = preguntas /\ usadas' = usadas
        /\ UNCHANGED <<pagina, intentos, operaciones>>
    BY <1>1, <1>7, <2>1 DEF Bateria!QuitarOpcion, Bateria!Terminar, Bateria!Seguir
  <2>4. peticion[r].pc # "idle" /\ o \in Lugares(k)
    BY <1>1, <1>2, <2>1, <2>3 DEF PideForma
  <2>5. usadas' = [usadas EXCEPT !.opciones = usadas.opciones]
    BY <1>4, <2>3
  <2>6. Nada \in Alternativa(k) \cup {Nada}
    OBVIOUS
  <2>7. FilasInv(k)' /\ BancoCambia(k)
    BY <1>3, <2>3, <2>4, <2>5, <2>6, CambiaOpciones
  <2>8. \A m \in 1..k.preguntas : preguntas[m] # Nada => preguntas'[m] # Nada
    BY <2>3
  <2> QED BY <2>3, <2>4, <2>7, <2>8, BancoTermina
<1> QED BY <1>5, <1>6, <1>7

\* An attempt without the answer to a question that is deleted.
LEMMA IntentoSinPregunta ==
    ASSUME NEW k, k.preguntas \in Nat, BancoCambia(k), FilasInv(k), NEW q \in 1..k.preguntas,
           \A m \in 1..k.preguntas : m # q => preguntas'[m] = preguntas[m],
           NEW a, IntentoAhora(k, a), NEW b, b = Bateria(k)!SinPregunta(a, q)
    PROVE  b \in Intento(k) /\ IntentoAhora(k, b)' /\ b.aciertos = a.aciertos /\ b.total = a.total
<1>1. /\ a \in Intento(k) /\ a.version <= version /\ a.aciertos \subseteq a.total
      /\ DOMAIN a.respuestas \subseteq Bateria(k)!De(a.evaluacion)
  BY DEF IntentoAhora
<1>2. PICK f : f = [m \in DOMAIN a.respuestas \ {q} |-> a.respuestas[m]]
  OBVIOUS
<1>3. PICK D \in SUBSET (1..k.preguntas) : a.respuestas \in [D -> SUBSET (Lugares(k) \cup {<<0, 0>>})]
  BY <1>1 DEF Intento, Contestado
<1>4. f \in [D \ {q} -> SUBSET (Lugares(k) \cup {<<0, 0>>})] /\ D \ {q} \in SUBSET (1..k.preguntas)
  BY <1>2, <1>3
<1>5. f \in Contestado(k)
  <2>1. PICK C : C = D \ {q}
    OBVIOUS
  <2>2. C \in SUBSET (1..k.preguntas) /\ f \in [C -> SUBSET (Lugares(k) \cup {<<0, 0>>})]
    BY <1>4, <2>1
  <2> QED BY <2>2 DEF Contestado
<1>6. b = [a EXCEPT !.respuestas = f]
  BY <1>2 DEF Bateria!SinPregunta
<1>7. /\ b \in Intento(k) /\ b.respuestas = f /\ b.version = a.version /\ b.evaluacion = a.evaluacion
      /\ b.aciertos = a.aciertos /\ b.total = a.total
  BY <1>1, <1>5, <1>6 DEF Intento
<1>8. DOMAIN f \subseteq Bateria(k)!De(a.evaluacion)'
  <2> SUFFICES ASSUME NEW m \in DOMAIN f PROVE m \in Bateria(k)!De(a.evaluacion)'
    OBVIOUS
  <2>1. m \in DOMAIN a.respuestas /\ m # q
    BY <1>2
  <2>2. m \in Bateria(k)!De(a.evaluacion)
    BY <1>1, <2>1
  <2>3. m \in 1..k.preguntas /\ preguntas[m] # Nada
    BY <2>2, BancoConjuntos DEF Bateria!De
  <2>4. preguntas'[m] # Nada
    BY <2>1, <2>3
  <2> QED BY <2>2, <2>4, DeCambia
<1>9. a.version \in Nat
  BY <1>1 DEF Intento
<1>10. a.version <= version' /\ a.version # version'
  BY <1>1, <1>9 DEF BancoCambia
<1>11. IntentoAhora(k, b)'
  BY <1>1, <1>7, <1>8, <1>10 DEF IntentoAhora
<1> QED BY <1>7, <1>11

\* A question is deleted, with its options and what was answered to it.
LEMMA BorraPregunta ==
    ASSUME NEW k, Bateria(k)!BankAssumption, BancoInv(k), NEW r \in k.peticiones,
           NEW q \in 1..k.preguntas, Bateria(k)!delete_question(r, q)
    PROVE  /\ BancoInv(k)'
           /\ \A s \in Alumnos : Len(intentos'[s]) = Len(intentos[s]) /\ \A i \in 1..Len(intentos[s]) :
                 /\ intentos'[s][i].aciertos = intentos[s][i].aciertos
                 /\ intentos'[s][i].total = intentos[s][i].total
<1>1. /\ preguntas[q] # Nada /\ ~Bateria(k)!Retenida(q)
      /\ operaciones < k.operaciones /\ operaciones' = operaciones + 1
      /\ preguntas' = [preguntas EXCEPT ![q] = Nada]
      /\ opciones' = [o \in Lugares(k) |-> IF o[1] = q THEN Nada ELSE opciones[o]]
      /\ intentos' = [s \in Alumnos |->
            [i \in DOMAIN intentos[s] |-> Bateria(k)!SinPregunta(intentos[s][i], q)]]
      /\ version' = version + 1
      /\ UNCHANGED <<usadas, pagina, peticion>>
  BY BancoEmpieza, BancoConjuntos DEF Bateria!delete_question
<1>2. /\ FilasInv(k) /\ k.preguntas \in Nat /\ version \in Nat
      /\ operaciones \in 0..k.operaciones /\ k.operaciones \in Nat
      /\ version + Cardinality(Atareadas(k)) <= operaciones /\ Cardinality(Atareadas(k)) \in Nat
  BY BancoConstants, CuantasAtareadas DEF BancoInv
<1>3. /\ preguntas' \in [1..k.preguntas -> Reactivo(k) \cup {Nada}] /\ preguntas'[q] = Nada
      /\ \A m \in 1..k.preguntas : m # q => preguntas'[m] = preguntas[m]
  BY <1>1, <1>2 DEF FilasInv
<1>4. FilasInv(k)'
  <2>1. opciones' \in [Lugares(k) -> Alternativa(k) \cup {Nada}]
    BY <1>1, <1>2 DEF FilasInv
  <2>2. \A m \in 1..k.preguntas : m > usadas'.preguntas => preguntas'[m] = Nada
    BY <1>1, <1>2, <1>3 DEF FilasInv
  <2>3. \A o \in Lugares(k) : opciones'[o] # Nada => preguntas'[o[1]] # Nada
    <3> TAKE o \in Lugares(k)
    <3>1. o[1] \in 1..k.preguntas
      BY DEF Lugares
    <3>2. opciones'[o] # Nada => o[1] # q /\ opciones[o] # Nada
      BY <1>1
    <3> QED BY <3>1, <3>2, <1>2, <1>3 DEF FilasInv
  <2> QED BY <2>1, <2>2, <2>3, <1>1, <1>2, <1>3 DEF FilasInv
<1>5. BancoCambia(k)
  BY <1>2, <1>3, <1>1 DEF FilasInv, BancoCambia
<1>6. pagina' = [s \in Alumnos |-> pagina'[s]] /\ \A s \in Alumnos : PaginaAhora(k, pagina[s])'
  BY <1>1, <1>5, PaginaCambia DEF BancoInv
<1>7. \A l \in k.peticiones : PideForma(k, peticion'[l]) /\ PideAhora(k, peticion[l])'
  <2> TAKE l \in k.peticiones
  <2>1. PICK h : h = peticion[l]
    OBVIOUS
  <2>2. PideForma(k, h) /\ PideAhora(k, h)
    BY <2>1 DEF BancoInv
  <2>3. h.pc \in {"responder", "calificar"} =>
           pagina'[h.usuario] = pagina[h.usuario] /\ PaginaAhora(k, pagina[h.usuario])
    BY <1>1, <2>2 DEF PideForma, BancoInv
  <2>4. h.pc = "calificar" => \A m \in DOMAIN h.respuestas : preguntas'[m] # Nada
    <3> SUFFICES ASSUME h.pc = "calificar", NEW m \in DOMAIN h.respuestas PROVE preguntas'[m] # Nada
      OBVIOUS
    <3>1. m # q
      BY <1>1, <2>1 DEF Bateria!Retenida
    <3>2. m \in Bateria(k)!De(h.evaluacion)
      BY <2>2 DEF PideAhora
    <3>3. m \in 1..k.preguntas /\ preguntas[m] # Nada
      BY <3>2, BancoConjuntos DEF Bateria!De
    <3> QED BY <3>1, <3>3, <1>3
  <2>5. PideAhora(k, h)'
    BY <1>2, <1>5, <2>2, <2>3, <2>4, PideCambia
  <2> QED BY <1>1, <2>1, <2>2, <2>5
<1>8. peticion' = [l \in k.peticiones |-> peticion'[l]]
  BY <1>1 DEF BancoInv
<1>9. \A l, m \in k.peticiones :
         (/\ peticion'[l].pc \in {"responder", "calificar"} /\ peticion'[m].pc \in {"responder", "calificar"}
          /\ peticion'[l].usuario = peticion'[m].usuario) => l = m
  BY <1>1 DEF BancoInv
<1>10. \A s \in Alumnos :
          /\ intentos'[s] \in Seq(Intento(k)) /\ Len(intentos'[s]) = Len(intentos[s])
          /\ \A i \in 1..Len(intentos[s]) :
                /\ IntentoAhora(k, intentos[s][i])'
                /\ intentos'[s][i].aciertos = intentos[s][i].aciertos
                /\ intentos'[s][i].total = intentos[s][i].total
  <2> TAKE s \in Alumnos
  <2>1. PICK w : w = intentos[s]
    OBVIOUS
  <2>2. PICK z : z = intentos'[s]
    OBVIOUS
  <2>3. w \in Seq(Intento(k)) /\ \A i \in 1..Len(w) : IntentoAhora(k, w[i])
    BY <2>1 DEF BancoInv
  <2>4. DOMAIN w = 1..Len(w) /\ Len(w) \in Nat
    BY <2>3
  <2>5. z = [i \in 1..Len(w) |-> Bateria(k)!SinPregunta(w[i], q)]
    BY <1>1, <2>1, <2>2, <2>4
  <2>6. \A i \in 1..Len(w) : /\ z[i] \in Intento(k) /\ IntentoAhora(k, z[i])'
                             /\ z[i].aciertos = w[i].aciertos /\ z[i].total = w[i].total
    <3> TAKE i \in 1..Len(w)
    <3>1. PICK a : a = w[i]
      OBVIOUS
    <3>2. PICK b : b = Bateria(k)!SinPregunta(a, q)
      OBVIOUS
    <3>3. IntentoAhora(k, a)
      BY <2>3, <3>1
    <3>4. b \in Intento(k) /\ IntentoAhora(k, b)' /\ b.aciertos = a.aciertos /\ b.total = a.total
      BY <1>2, <1>3, <1>5, <3>2, <3>3, IntentoSinPregunta
    <3>5. b = z[i]
      BY <2>5, <3>1, <3>2
    <3> QED BY <3>1, <3>4, <3>5
  <2>7. z \in Seq(Intento(k)) /\ Len(z) = Len(w)
    BY <2>4, <2>5, <2>6
  <2> QED BY <2>1, <2>2, <2>6, <2>7
<1>11. intentos' \in [Alumnos -> Seq(Intento(k))]
  BY <1>1, <1>10
<1>12. Atareadas(k)' = Atareadas(k)
  BY <1>1 DEF Atareadas
<1>13. /\ version' \in Nat /\ operaciones' \in 0..k.operaciones
       /\ version' + Cardinality(Atareadas(k)') <= operaciones'
  BY <1>1, <1>2, <1>12
<1>14. \A s \in Alumnos : \A i \in 1..Len(intentos'[s]) : IntentoAhora(k, intentos[s][i])'
  BY <1>10
<1> QED BY <1>4, <1>6, <1>7, <1>8, <1>9, <1>10, <1>11, <1>13, <1>14 DEF BancoInv

\* What can be chosen of a page is a button or some options of the question.
LEMMA PosiblesDeHoja ==
    ASSUME NEW k, NEW q
    PROVE  /\ Bateria(k)!OpcionesDe(q) \subseteq Lugares(k)
           /\ Bateria(k)!Claves(q) \subseteq Bateria(k)!OpcionesDe(q)
           /\ Bateria(k)!Acertada(q) \subseteq Hoja(k) /\ Bateria(k)!Posibles(q) \subseteq Hoja(k)
<1>1. Bateria(k)!OpcionesDe(q) \subseteq Lugares(k)
  BY BancoConjuntos DEF Bateria!OpcionesDe
<1>2. Bateria(k)!Claves(q) \subseteq Bateria(k)!OpcionesDe(q)
  BY DEF Bateria!Claves
<1>3. \A v \in {"Verdadero", "Falso"} : Bateria(k)!UnRadio(v) \in Hoja(k)
  BY DEF Bateria!UnRadio, Hoja
<1>4. \A S \in SUBSET Lugares(k) : Bateria(k)!UnosIds(S) \in Hoja(k)
  BY DEF Bateria!UnosIds, Hoja
<1>5. \A t : Bateria(k)!Significado(t) \subseteq {"Verdadero", "Falso"}
  BY DEF Bateria!Significado
<1>6. Bateria(k)!Acertada(q) \subseteq Hoja(k)
  BY <1>1, <1>2, <1>3, <1>4, <1>5 DEF Bateria!Acertada
<1>7. Bateria(k)!Posibles(q) \subseteq Hoja(k)
  <2>1. Bateria(k)!Marcas(q) \subseteq SUBSET Lugares(k)
    BY <1>1 DEF Bateria!Marcas
  <2> QED BY <1>3, <1>4, <2>1 DEF Bateria!Posibles, Bateria!Radio
<1> QED BY <1>1, <1>2, <1>6, <1>7

\* What is stored for a choice: options of the question, where the page is up to date.
LEMMA ResueltasDeHoja ==
    ASSUME NEW k, NEW q, NEW t, NEW c \in Hoja(k),
           NEW x \in Bateria(k)!_resolve_option_ids(q, t, c)
    PROVE  x \subseteq Lugares(k) \cup {<<0, 0>>}
<1>1. CASE t = "boolean"
  BY <1>1, PosiblesDeHoja DEF Bateria!_resolve_option_ids
<1>2. CASE t # "boolean"
  BY <1>2 DEF Bateria!_resolve_option_ids, Bateria!Ninguna, Hoja
<1> QED BY <1>1, <1>2

\* ... options of the question, where the page is up to date.
LEMMA ResueltasDeOpciones ==
    ASSUME NEW k, NEW q, NEW c \in Bateria(k)!Posibles(q),
           NEW x \in Bateria(k)!_resolve_option_ids(q, preguntas[q].type, c)
    PROVE  x \subseteq Bateria(k)!OpcionesDe(q)
<1>1. CASE preguntas[q].type = "boolean"
  BY <1>1 DEF Bateria!_resolve_option_ids
<1>2. CASE preguntas[q].type # "boolean"
  <2>1. PICK S : S \subseteq Bateria(k)!OpcionesDe(q) /\ c = Bateria(k)!UnosIds(S)
    BY <1>2 DEF Bateria!Posibles, Bateria!Marcas
  <2>2. c.ids = S /\ c.radio = {}
    BY <2>1 DEF Bateria!UnosIds
  <2>3. x = S
    BY <1>2, <2>2 DEF Bateria!_resolve_option_ids
  <2> QED BY <2>1, <2>3
<1> QED BY <1>1, <1>2

\* A page is shown, as the bank is.
LEMMA MuestraPagina ==
    ASSUME NEW k, Bateria(k)!BankAssumption, BancoInv(k), NEW s \in Alumnos, NEW e \in k.examenes,
           Bateria(k)!Mostrar(s, e)
    PROVE  BancoInv(k)'
<1>1. PICK a : a = [q \in Bateria(k)!De(e) |-> Bateria(k)!Acertada(q)]
  OBVIOUS
<1>2. PICK b : b = [q \in Bateria(k)!De(e) |-> Bateria(k)!Posibles(q)]
  OBVIOUS
<1>3. PICK g : g = [evaluacion |-> e, version |-> version, acertadas |-> a, posibles |-> b]
  OBVIOUS
<1>4. /\ pagina[s] = Nada /\ \A r \in k.peticiones : peticion[r].usuario # s
      /\ pagina' = [pagina EXCEPT ![s] = g]
      /\ UNCHANGED <<preguntas, opciones, usadas, version, intentos, peticion, operaciones>>
  BY <1>1, <1>2, <1>3 DEF Bateria!Mostrar, Bateria!banco
<1>5. /\ g.evaluacion = e /\ g.version = version /\ g.acertadas = a /\ g.posibles = b
      /\ DOMAIN b = Bateria(k)!De(e)
      /\ \A q \in DOMAIN b : b[q] = Bateria(k)!Posibles(q) /\ a[q] = Bateria(k)!Acertada(q)
  BY <1>1, <1>2, <1>3
<1>6. PaginaAhora(k, g)
  <2>1. Bateria(k)!De(e) \subseteq 1..k.preguntas /\ version \in Nat
    BY BancoConjuntos DEF Bateria!De, BancoInv
  <2>2. \A q \in DOMAIN b : b[q] \subseteq Hoja(k)
    BY <1>5, PosiblesDeHoja
  <2> QED BY <1>5, <2>1, <2>2 DEF PaginaAhora
<1>7. DOMAIN pagina = Alumnos
  BY DEF BancoInv
<1>8. pagina'[s] = g /\ \A m \in Alumnos : m # s => pagina'[m] = pagina[m]
  BY <1>4, <1>7
<1>9. pagina' = [m \in Alumnos |-> pagina'[m]]
  BY <1>4, <1>7
<1>10. \A m \in Alumnos : PaginaAhora(k, pagina[m])'
  <2> TAKE m \in Alumnos
  <2>1. PICK h : h = pagina'[m]
    OBVIOUS
  <2>2. PaginaAhora(k, h)
    BY <1>6, <1>8, <2>1 DEF BancoInv
  <2>3. PaginaAhora(k, h)'
    BY <1>4, <2>2, PaginaQuieta
  <2> QED BY <2>1, <2>3
<1>11. FilasInv(k)'
  BY <1>4 DEF BancoInv, FilasInv
<1>12. \A l \in k.peticiones : PideForma(k, peticion'[l]) /\ PideAhora(k, peticion[l])'
  <2> TAKE l \in k.peticiones
  <2>1. PICK h : h = peticion[l]
    OBVIOUS
  <2>2. PideForma(k, h) /\ PideAhora(k, h)
    BY <2>1 DEF BancoInv
  <2>3. h.pc \in {"responder", "calificar"} => pagina'[h.usuario] = pagina[h.usuario]
    BY <1>4, <1>8, <2>1, <2>2 DEF PideForma
  <2>4. PideAhora(k, h)'
    BY <1>4, <2>2, <2>3, PideQuieto
  <2> QED BY <1>4, <2>1, <2>2, <2>4
<1>13. peticion' = [l \in k.peticiones |-> peticion'[l]]
  BY <1>4 DEF BancoInv
<1>14. \A l, m \in k.peticiones :
         (/\ peticion'[l].pc \in {"responder", "calificar"} /\ peticion'[m].pc \in {"responder", "calificar"}
          /\ peticion'[l].usuario = peticion'[m].usuario) => l = m
  BY <1>4 DEF BancoInv
<1>15. intentos' \in [Alumnos -> Seq(Intento(k))]
  BY <1>4 DEF BancoInv
<1>16. \A m \in Alumnos : \A i \in 1..Len(intentos'[m]) : IntentoAhora(k, intentos[m][i])'
  BY <1>4, IntentoQuieto DEF BancoInv
<1>17. Atareadas(k)' = Atareadas(k)
  BY <1>4 DEF Atareadas
<1>18. /\ version' \in Nat /\ operaciones' \in 0..k.operaciones
       /\ version' + Cardinality(Atareadas(k)') <= operaciones'
  BY <1>4, <1>17 DEF BancoInv
<1> QED BY <1>9, <1>10, <1>11, <1>12, <1>13, <1>14, <1>15, <1>16, <1>18 DEF BancoInv

\* The request of an attempt ends, and its page is done with.
LEMMA BancoEntrega ==
    ASSUME NEW k, Bateria(k)!BankAssumption, BancoInv(k), NEW r \in k.peticiones,
           peticion[r].pc \in {"responder", "calificar"}, NEW s, s = peticion[r].usuario,
           peticion' = [peticion EXCEPT ![r] = Bateria(k)!Libre],
           pagina' = [pagina EXCEPT ![s] = Nada],
           UNCHANGED <<preguntas, opciones, usadas, version, operaciones>>,
           intentos' \in [Alumnos -> Seq(Intento(k))],
           \A m \in Alumnos : \A i \in 1..Len(intentos'[m]) : IntentoAhora(k, intentos'[m][i])
    PROVE  BancoInv(k)'
<1>1. /\ peticion'[r] = Bateria(k)!Libre /\ \A l \in k.peticiones : l # r => peticion'[l] = peticion[l]
      /\ peticion' = [l \in k.peticiones |-> peticion'[l]]
  BY UnaPide DEF BancoInv
<1>2. DOMAIN pagina = Alumnos
  BY DEF BancoInv
<1>3. s \in Alumnos
  BY DEF BancoInv, PideForma
<1>4. pagina'[s] = Nada /\ \A m \in Alumnos : m # s => pagina'[m] = pagina[m]
  BY <1>2, <1>3
<1>5. pagina' = [m \in Alumnos |-> pagina'[m]]
  BY <1>2
<1>6. \A m \in Alumnos : PaginaAhora(k, pagina[m])'
  <2> TAKE m \in Alumnos
  <2>1. PICK h : h = pagina'[m]
    OBVIOUS
  <2>2. PaginaAhora(k, h)
    BY <1>4, <2>1 DEF BancoInv, PaginaAhora
  <2>3. PaginaAhora(k, h)'
    BY <2>2, PaginaQuieta
  <2> QED BY <2>1, <2>3
<1>7. FilasInv(k)'
  BY DEF BancoInv, FilasInv
<1>8. \A l \in k.peticiones : PideForma(k, peticion'[l]) /\ PideAhora(k, peticion[l])'
  <2> TAKE l \in k.peticiones
  <2>1. PICK h : h = peticion'[l]
    OBVIOUS
  <2>2. PideForma(k, h) /\ PideAhora(k, h)
    BY <1>1, <2>1, PideLibre DEF BancoInv, PideAhora
  <2>3. h.pc \in {"responder", "calificar"} => pagina'[h.usuario] = pagina[h.usuario]
    <3> SUFFICES ASSUME h.pc \in {"responder", "calificar"} PROVE pagina'[h.usuario] = pagina[h.usuario]
      OBVIOUS
    <3>1. l # r /\ h = peticion[l]
      BY <1>1, <2>1, PideLibre
    <3>2. h.usuario # s
      BY <3>1 DEF BancoInv
    <3>3. h.usuario \in Alumnos
      BY <2>2 DEF PideForma
    <3> QED BY <1>4, <3>2, <3>3
  <2>4. PideAhora(k, h)'
    BY <2>2, <2>3, PideQuieto
  <2> QED BY <2>1, <2>2, <2>4
<1>9. \A l, m \in k.peticiones :
         (/\ peticion'[l].pc \in {"responder", "calificar"} /\ peticion'[m].pc \in {"responder", "calificar"}
          /\ peticion'[l].usuario = peticion'[m].usuario) => l = m
  BY <1>1, PideLibre DEF BancoInv
<1>10. \A m \in Alumnos : \A i \in 1..Len(intentos'[m]) : IntentoAhora(k, intentos[m][i])'
  <2> TAKE m \in Alumnos
  <2> TAKE i \in 1..Len(intentos'[m])
  <2>1. PICK a : a = intentos'[m][i]
    OBVIOUS
  <2>2. IntentoAhora(k, a)
    BY <2>1
  <2>3. IntentoAhora(k, a)'
    BY <2>2, IntentoQuieto
  <2> QED BY <2>1, <2>3
<1>11. Cardinality(Atareadas(k)') = Cardinality(Atareadas(k)) - 1 /\ Cardinality(Atareadas(k)) \in Nat
  BY AtareadasLuego, CuantasAtareadas, PideLibre DEF BancoInv
<1>12. /\ version' \in Nat /\ operaciones' \in 0..k.operaciones
       /\ version' + Cardinality(Atareadas(k)') <= operaciones'
  BY <1>11, BancoConstants DEF BancoInv
<1> QED BY <1>1, <1>5, <1>6, <1>7, <1>8, <1>9, <1>10, <1>12 DEF BancoInv

\* The answers of an attempt are stored, or a question is gone.
LEMMA GuardaRespuestas ==
    ASSUME NEW k, Bateria(k)!BankAssumption, BancoInv(k), NEW r \in k.peticiones,
           Bateria(k)!_save_question_answers(r)
    PROVE  BancoInv(k)' /\ UNCHANGED intentos
<1>1. PICK p : p = peticion[r]
  OBVIOUS
<1>2. PICK H : H = {q \in DOMAIN p.total \cap DOMAIN p.elegido : p.elegido[q] # Nada}
  OBVIOUS
<1>3. /\ p.pc = "responder"
      /\ UNCHANGED <<preguntas, opciones, usadas, version, intentos>>
  BY <1>1 DEF Bateria!_save_question_answers, Bateria!banco
<1>4. PideForma(k, p) /\ PideAhora(k, p)
  BY <1>1 DEF BancoInv
<1>5. PICK g : g = pagina[p.usuario]
  OBVIOUS
<1>6. p.usuario \in Alumnos /\ g # Nada /\ PaginaAhora(k, g)
  BY <1>3, <1>4, <1>5 DEF PideForma, PideAhora, BancoInv
<1>7. CASE \A q \in H : preguntas[q] # Nada
  <2>1. \E f \in [H -> UNION {Bateria(k)!_resolve_option_ids(q, p.total[q], p.elegido[q]) : q \in H}] :
           /\ \A q \in H : f[q] \in Bateria(k)!_resolve_option_ids(q, p.total[q], p.elegido[q])
           /\ Bateria(k)!Seguir(r, [p EXCEPT !.pc = "calificar", !.respuestas = f])
    BY <1>1, <1>2, <1>7, Zenon DEF Bateria!_save_question_answers
  <2>2. UNCHANGED <<operaciones, pagina>>
    BY <1>1, <1>2, <1>7, Zenon DEF Bateria!_save_question_answers
  <2>3. PICK f \in [H -> UNION {Bateria(k)!_resolve_option_ids(q, p.total[q], p.elegido[q]) : q \in H}] :
           /\ \A q \in H : f[q] \in Bateria(k)!_resolve_option_ids(q, p.total[q], p.elegido[q])
           /\ Bateria(k)!Seguir(r, [p EXCEPT !.pc = "calificar", !.respuestas = f])
    BY <2>1, Zenon
  <2>4. PICK h : h = [p EXCEPT !.pc = "calificar", !.respuestas = f]
    OBVIOUS
  <2>5. peticion' = [peticion EXCEPT ![r] = h]
    BY <2>3, <2>4 DEF Bateria!Seguir
  <2>6. /\ h = [pc |-> h.pc, pregunta |-> h.pregunta, opcion |-> h.opcion, leido |-> h.leido,
                escrito |-> h.escrito, usuario |-> h.usuario, evaluacion |-> h.evaluacion,
                total |-> h.total, elegido |-> h.elegido, respuestas |-> h.respuestas]
        /\ h.pc = "calificar" /\ h.respuestas = f
        /\ h.pregunta = p.pregunta /\ h.opcion = p.opcion /\ h.leido = p.leido /\ h.escrito = p.escrito
        /\ h.usuario = p.usuario /\ h.evaluacion = p.evaluacion /\ h.total = p.total
        /\ h.elegido = p.elegido
    BY <1>4, <2>4 DEF PideForma
  <2>7. DOMAIN f = H /\ H \subseteq 1..k.preguntas
    BY <1>2, <1>3, <1>4, <2>3 DEF PideForma
  <2>8. f \in Contestado(k)
    <3>1. \A q \in H : f[q] \in SUBSET (Lugares(k) \cup {<<0, 0>>})
      <4> TAKE q \in H
      <4>1. PICK c : c = p.elegido[q]
        OBVIOUS
      <4>2. q \in DOMAIN p.elegido /\ c # Nada
        BY <1>2, <4>1
      <4>3. DOMAIN p.elegido = DOMAIN g.posibles /\ c \in g.posibles[q]
        BY <1>3, <1>4, <1>5, <4>1, <4>2 DEF PideAhora
      <4>4. c \in Hoja(k)
        BY <1>6, <4>2, <4>3 DEF PaginaAhora
      <4>5. PICK x : x = f[q]
        OBVIOUS
      <4>6. PICK t : t = p.total[q]
        OBVIOUS
      <4>7. x \in Bateria(k)!_resolve_option_ids(q, t, c)
        BY <2>3, <4>1, <4>5, <4>6
      <4>8. x \subseteq Lugares(k) \cup {<<0, 0>>}
        BY <4>4, <4>7, ResueltasDeHoja
      <4> QED BY <4>5, <4>8
    <3>2. f \in [H -> SUBSET (Lugares(k) \cup {<<0, 0>>})]
      BY <2>3, <3>1
    <3>3. H \in SUBSET (1..k.preguntas)
      BY <2>7
    <3> QED BY <3>2, <3>3 DEF Contestado
  <2>9. PideForma(k, h)
    BY <1>3, <1>4, <2>6, <2>8 DEF PideForma
  <2>10. \A q \in H : q \in Bateria(k)!De(p.evaluacion)
    <3> TAKE q \in H
    <3>1. q \in DOMAIN p.total /\ q \in 1..k.preguntas /\ preguntas[q] # Nada
      BY <1>2, <1>7, <2>7
    <3>2. preguntas[q].evaluacion = p.evaluacion
      BY <1>3, <1>4, <3>1 DEF PideAhora
    <3> QED BY <3>1, <3>2, BancoConjuntos DEF Bateria!De
  <2>11. PideAhora(k, h)
    BY <1>2, <1>3, <1>4, <2>3, <2>6, <2>7, <2>10 DEF PideAhora
  <2>12. /\ peticion'[r] = h /\ \A l \in k.peticiones : l # r => peticion'[l] = peticion[l]
         /\ peticion' = [l \in k.peticiones |-> peticion'[l]]
    BY <2>5, UnaPide DEF BancoInv
  <2>13. \A l \in k.peticiones : PideForma(k, peticion'[l]) /\ PideAhora(k, peticion[l])'
    <3> TAKE l \in k.peticiones
    <3>1. PICK j : j = peticion'[l]
      OBVIOUS
    <3>2. PideForma(k, j) /\ PideAhora(k, j)
      BY <2>9, <2>11, <2>12, <3>1 DEF BancoInv
    <3>3. j.pc \in {"responder", "calificar"} => pagina'[j.usuario] = pagina[j.usuario]
      BY <2>2
    <3>4. PideAhora(k, j)'
      BY <1>3, <3>2, <3>3, PideQuieto
    <3> QED BY <3>1, <3>2, <3>4
  <2>14. \A l, m \in k.peticiones :
         (/\ peticion'[l].pc \in {"responder", "calificar"} /\ peticion'[m].pc \in {"responder", "calificar"}
          /\ peticion'[l].usuario = peticion'[m].usuario) => l = m
    <3>1. \A l \in k.peticiones : peticion'[l].pc \in {"responder", "calificar"} =>
             peticion[l].pc \in {"responder", "calificar"} /\ peticion[l].usuario = peticion'[l].usuario
      BY <1>1, <1>3, <2>6, <2>12
    <3> QED BY <3>1 DEF BancoInv
  <2>15. Atareadas(k)' = Atareadas(k)
    BY <1>1, <1>3, <2>6, <2>5, AtareadasLuego DEF BancoInv
  <2>16. FilasInv(k)'
    BY <1>3 DEF BancoInv, FilasInv
  <2>17. pagina' = [s \in Alumnos |-> pagina'[s]] /\ \A s \in Alumnos : PaginaAhora(k, pagina[s])'
    BY <1>3, <2>2, PaginaQuieta DEF BancoInv
  <2>18. intentos' \in [Alumnos -> Seq(Intento(k))]
    BY <1>3 DEF BancoInv
  <2>19. \A m \in Alumnos : \A i \in 1..Len(intentos'[m]) : IntentoAhora(k, intentos[m][i])'
    BY <1>3, IntentoQuieto DEF BancoInv
  <2>20. /\ version' \in Nat /\ operaciones' \in 0..k.operaciones
         /\ version' + Cardinality(Atareadas(k)') <= operaciones'
    BY <1>3, <2>2, <2>15 DEF BancoInv
  <2> QED BY <1>3, <2>12, <2>13, <2>14, <2>16, <2>17, <2>18, <2>19, <2>20 DEF BancoInv
<1>8. CASE ~(\A q \in H : preguntas[q] # Nada)
  <2>1. /\ peticion' = [peticion EXCEPT ![r] = Bateria(k)!Libre] /\ UNCHANGED operaciones
        /\ pagina' = [pagina EXCEPT ![p.usuario] = Nada]
    BY <1>1, <1>2, <1>8, Zenon DEF Bateria!_save_question_answers, Bateria!Terminar, Bateria!Seguir
  <2>2. /\ intentos' \in [Alumnos -> Seq(Intento(k))]
        /\ \A m \in Alumnos : \A i \in 1..Len(intentos'[m]) : IntentoAhora(k, intentos'[m][i])
    BY <1>3 DEF BancoInv
  <2>3. peticion[r].pc \in {"responder", "calificar"} /\ p.usuario = peticion[r].usuario
    BY <1>1, <1>3
  <2> QED BY <1>3, <2>1, <2>2, <2>3, BancoEntrega
<1> QED BY <1>3, <1>7, <1>8

\* An attempt is graded.
LEMMA CalificaIntento ==
    ASSUME NEW k, Bateria(k)!BankAssumption, BancoInv(k), NEW r \in k.peticiones,
           Bateria(k)!calculate_score(r)
    PROVE  BancoInv(k)'
<1>1. PICK p : p = peticion[r]
  OBVIOUS
<1>2. PICK u : u = p.usuario
  OBVIOUS
<1>3. PICK g : g = pagina[u]
  OBVIOUS
<1>4. PICK A : A = {q \in DOMAIN p.respuestas :
                      Bateria(k)!_answer_is_correct(p.total[q], q, p.respuestas[q])}
  OBVIOUS
<1>5. PICK B : B = {q \in DOMAIN p.elegido : p.elegido[q] \in g.acertadas[q]}
  OBVIOUS
<1>6. PICK a : a = [evaluacion |-> p.evaluacion, respuestas |-> p.respuestas, total |-> DOMAIN p.total,
                    aciertos |-> A, version |-> g.version, sabidas |-> B]
  OBVIOUS
<1>7. /\ p.pc = "calificar" /\ intentos' = [intentos EXCEPT ![u] = Append(@, a)]
      /\ pagina' = [pagina EXCEPT ![u] = Nada]
      /\ peticion' = [peticion EXCEPT ![r] = Bateria(k)!Libre]
      /\ UNCHANGED <<preguntas, opciones, usadas, version, operaciones>>
  BY <1>1, <1>2, <1>3, <1>4, <1>5, <1>6 DEF Bateria!calculate_score, Bateria!banco, Bateria!Terminar,
     Bateria!Seguir
<1>8. PideForma(k, p) /\ PideAhora(k, p)
  BY <1>1 DEF BancoInv
<1>9. u \in Alumnos /\ PaginaAhora(k, g) /\ g # Nada
  BY <1>2, <1>3, <1>7, <1>8 DEF PideForma, PideAhora, BancoInv
<1>10. /\ DOMAIN p.elegido = DOMAIN g.posibles /\ g.evaluacion = p.evaluacion
       /\ \A q \in DOMAIN p.elegido : p.elegido[q] \in g.posibles[q] \cup {Nada}
       /\ DOMAIN p.respuestas = {q \in DOMAIN p.total \cap DOMAIN p.elegido : p.elegido[q] # Nada}
       /\ DOMAIN p.respuestas \subseteq Bateria(k)!De(p.evaluacion)
       /\ g.version = version => \A q \in DOMAIN p.respuestas :
             p.respuestas[q] \in Bateria(k)!_resolve_option_ids(q, p.total[q], p.elegido[q])
       /\ g.version = version => \A q \in DOMAIN p.total : p.total[q] = preguntas[q].type
  BY <1>2, <1>3, <1>7, <1>8 DEF PideAhora
<1>11. a \in Intento(k)
  BY <1>7, <1>8, <1>4, <1>5, <1>9, <1>10, <1>6 DEF PideForma, PaginaAhora, Intento
<1>12. IntentoAhora(k, a)
  <2>1. a.version <= version
    BY <1>6, <1>9 DEF PaginaAhora
  <2>2. a.aciertos \subseteq a.total
    BY <1>4, <1>6, <1>10
  <2>3. DOMAIN a.respuestas \subseteq Bateria(k)!De(a.evaluacion)
    BY <1>6, <1>10
  <2>4. ASSUME a.version = version, NEW q \in DOMAIN a.respuestas
        PROVE  /\ a.respuestas[q] \subseteq Bateria(k)!OpcionesDe(q)
               /\ q \in a.aciertos <=> Bateria(k)!_answer_is_correct(preguntas[q].type, q, a.respuestas[q])
    <3>1. g.version = version /\ a.respuestas = p.respuestas /\ a.aciertos = A /\ q \in DOMAIN p.respuestas
      BY <1>6, <2>4
    <3>2. q \in DOMAIN p.total /\ q \in DOMAIN p.elegido /\ p.elegido[q] # Nada
      BY <1>10, <3>1
    <3>3. p.total[q] = preguntas[q].type
      BY <1>10, <3>1, <3>2
    <3>4. PICK c : c = p.elegido[q]
      OBVIOUS
    <3>5. c \in Bateria(k)!Posibles(q)
      BY <1>9, <1>10, <3>1, <3>2, <3>4 DEF PaginaAhora
    <3>6. PICK x : x = p.respuestas[q]
      OBVIOUS
    <3>7. x \in Bateria(k)!_resolve_option_ids(q, preguntas[q].type, c)
      BY <1>10, <3>1, <3>3, <3>4, <3>6
    <3>8. x \subseteq Bateria(k)!OpcionesDe(q)
      BY <3>5, <3>7, ResueltasDeOpciones
    <3>9. q \in A <=> Bateria(k)!_answer_is_correct(preguntas[q].type, q, x)
      BY <1>4, <3>1, <3>3, <3>6
    <3> QED BY <3>1, <3>6, <3>8, <3>9
  <2> QED BY <1>11, <2>1, <2>2, <2>3, <2>4 DEF IntentoAhora
<1>13. \A m \in Alumnos : intentos[m] \in Seq(Intento(k))
  BY DEF BancoInv
<1>14. DOMAIN intentos = Alumnos
  BY DEF BancoInv
<1>15. /\ intentos'[u] = Append(intentos[u], a)
       /\ \A m \in Alumnos : m # u => intentos'[m] = intentos[m]
  BY <1>7, <1>9, <1>14
<1>16. intentos' \in [Alumnos -> Seq(Intento(k))]
  <2>1. Append(intentos[u], a) \in Seq(Intento(k))
    BY <1>9, <1>11, <1>13
  <2>2. \A m \in Alumnos : intentos'[m] \in Seq(Intento(k))
    BY <1>13, <1>15, <2>1
  <2>3. intentos' = [m \in Alumnos |-> intentos'[m]]
    BY <1>7, <1>14
  <2> QED BY <2>2, <2>3
<1>17. \A m \in Alumnos : \A i \in 1..Len(intentos'[m]) : IntentoAhora(k, intentos'[m][i])
  <2> TAKE m \in Alumnos
  <2> TAKE i \in 1..Len(intentos'[m])
  <2>1. CASE m # u
    BY <1>15, <2>1 DEF BancoInv
  <2>2. CASE m = u
    <3>1. PICK w : w = intentos[u]
      OBVIOUS
    <3>2. w \in Seq(Intento(k)) /\ \A n \in 1..Len(w) : IntentoAhora(k, w[n])
      BY <1>9, <3>1 DEF BancoInv
    <3>3. intentos'[m] = Append(w, a)
      BY <1>15, <2>2, <3>1
    <3>4. i \in 1..Len(w) + 1 /\ Len(w) \in Nat
      BY <3>2, <3>3
    <3>5. intentos'[m][i] = a \/ (i \in 1..Len(w) /\ intentos'[m][i] = w[i])
      BY <3>2, <3>3, <3>4
    <3> QED BY <3>2, <3>5, <1>12
  <2> QED BY <2>1, <2>2
<1>18. peticion[r].pc \in {"responder", "calificar"} /\ u = peticion[r].usuario
  BY <1>1, <1>2, <1>7
<1> QED BY <1>7, <1>16, <1>17, <1>18, BancoEntrega

\* The steps of a bank.
LEMMA BancoPasos ==
    ASSUME NEW k, Bateria(k)!Next
    PROVE  \/ \E s \in Alumnos, e \in k.examenes : Bateria(k)!Mostrar(s, e)
           \/ \E r \in k.peticiones :
                 \/ \E e \in k.examenes : Bateria(k)!new_question(r, e)
                 \/ \E q \in 1..k.preguntas :
                       Bateria(k)!edit_question(r, q) \/ Bateria(k)!new_question_option(r, q)
                 \/ \E q \in 1..k.preguntas : Bateria(k)!delete_question(r, q)
                 \/ \E o \in Lugares(k) :
                       Bateria(k)!edit_question_option(r, o) \/ Bateria(k)!delete_question_option(r, o)
                 \/ \E s \in Alumnos : Bateria(k)!take_evaluation(r, s)
                 \/ Bateria(k)!NuevaPregunta(r) \/ Bateria(k)!EditarPregunta(r)
                 \/ Bateria(k)!NuevaOpcion(r) \/ Bateria(k)!EditarOpcion(r) \/ Bateria(k)!QuitarOpcion(r)
                 \/ Bateria(k)!_save_question_answers(r) \/ Bateria(k)!calculate_score(r)
<1>1. Bateria(k)!Preguntas = 1..k.preguntas /\ Bateria(k)!Opciones = Lugares(k)
  BY BancoConjuntos
<1> QED BY <1>1, Zenon DEF Bateria!Next

\* The bank stays as it should be.
LEMMA BancoSigue ==
    ASSUME NEW k, Bateria(k)!BankAssumption, BancoInv(k), [Bateria(k)!Next]_(Bateria(k)!vars)
    PROVE  BancoInv(k)'
<1>1. CASE UNCHANGED Bateria(k)!vars
  <2>1. /\ UNCHANGED <<preguntas, opciones, usadas, version>>
        /\ UNCHANGED <<pagina, intentos, peticion, operaciones>>
    BY <1>1 DEF Bateria!vars
  <2>2. FilasInv(k)'
    BY <2>1 DEF BancoInv, FilasInv
  <2>3. \A s \in Alumnos : PaginaAhora(k, pagina[s])'
    BY <2>1, PaginaQuieta DEF BancoInv
  <2>4. \A l \in k.peticiones : PideForma(k, peticion'[l]) /\ PideAhora(k, peticion[l])'
    <3> TAKE l \in k.peticiones
    <3>1. PICK h : h = peticion[l]
      OBVIOUS
    <3>2. PideForma(k, h) /\ PideAhora(k, h)
      BY <3>1 DEF BancoInv
    <3>3. h.pc \in {"responder", "calificar"} => pagina'[h.usuario] = pagina[h.usuario]
      BY <2>1
    <3>4. PideAhora(k, h)'
      BY <2>1, <3>2, <3>3, PideQuieto
    <3> QED BY <2>1, <3>1, <3>2, <3>4
  <2>5. \A s \in Alumnos : \A i \in 1..Len(intentos'[s]) : IntentoAhora(k, intentos[s][i])'
    BY <2>1, IntentoQuieto DEF BancoInv
  <2>6. Atareadas(k)' = Atareadas(k)
    BY <2>1 DEF Atareadas
  <2> QED BY <2>1, <2>2, <2>3, <2>4, <2>5, <2>6 DEF BancoInv
<1>2. CASE \E s \in Alumnos, e \in k.examenes : Bateria(k)!Mostrar(s, e)
  BY <1>2, MuestraPagina
<1>3. ASSUME NEW r \in k.peticiones, NEW e \in k.examenes, Bateria(k)!new_question(r, e)
      PROVE BancoInv(k)'
  BY <1>3, EmpiezaPregunta
<1>4. ASSUME NEW r \in k.peticiones, NEW q \in 1..k.preguntas,
             Bateria(k)!edit_question(r, q) \/ Bateria(k)!new_question_option(r, q)
      PROVE BancoInv(k)'
  BY <1>4, EmpiezaEditar, EmpiezaOpcion
<1>5. ASSUME NEW r \in k.peticiones, NEW q \in 1..k.preguntas, Bateria(k)!delete_question(r, q)
      PROVE BancoInv(k)'
  BY <1>5, BorraPregunta
<1>6. ASSUME NEW r \in k.peticiones, NEW o \in Lugares(k),
             Bateria(k)!edit_question_option(r, o) \/ Bateria(k)!delete_question_option(r, o)
      PROVE BancoInv(k)'
  BY <1>6, EmpiezaCambiar, EmpiezaQuitar
<1>7. ASSUME NEW r \in k.peticiones, NEW s \in Alumnos, Bateria(k)!take_evaluation(r, s)
      PROVE BancoInv(k)'
  BY <1>7, EmpiezaIntento
<1>8. ASSUME NEW r \in k.peticiones,
             \/ Bateria(k)!NuevaPregunta(r) \/ Bateria(k)!EditarPregunta(r)
             \/ Bateria(k)!NuevaOpcion(r) \/ Bateria(k)!EditarOpcion(r) \/ Bateria(k)!QuitarOpcion(r)
      PROVE BancoInv(k)'
  BY <1>8, TerminaPregunta, TerminaEditar, TerminaOpcion
<1>9. ASSUME NEW r \in k.peticiones, Bateria(k)!_save_question_answers(r) PROVE BancoInv(k)'
  BY <1>9, GuardaRespuestas
<1>10. ASSUME NEW r \in k.peticiones, Bateria(k)!calculate_score(r) PROVE BancoInv(k)'
  BY <1>10, CalificaIntento
<1> QED BY <1>1, <1>2, <1>3, <1>4, <1>5, <1>6, <1>7, <1>8, <1>9, <1>10, BancoPasos, Zenon

\* What an attempt counted stays.
LEMMA BancoGuarda ==
    ASSUME NEW k, Bateria(k)!BankAssumption, BancoInv(k), [Bateria(k)!Next]_(Bateria(k)!vars)
    PROVE  Bateria(k)!ScoresAreFinal
<1> DEFINE Guarda == \A s \in Alumnos : \A i \in 1..Len(intentos[s]) :
                        /\ intentos'[s][i].aciertos = intentos[s][i].aciertos
                        /\ intentos'[s][i].total = intentos[s][i].total
<1>1. ASSUME UNCHANGED intentos PROVE Guarda
  BY <1>1
<1>2. ASSUME NEW r \in k.peticiones, NEW q \in 1..k.preguntas, Bateria(k)!delete_question(r, q)
      PROVE Guarda
  BY <1>2, BorraPregunta
<1>3. ASSUME NEW r \in k.peticiones, Bateria(k)!calculate_score(r) PROVE Guarda
  <2>1. PICK u, a : intentos' = [intentos EXCEPT ![u] = Append(@, a)]
    BY <1>3 DEF Bateria!calculate_score
  <2>2. intentos \in [Alumnos -> Seq(Intento(k))]
    BY DEF BancoInv
  <2> TAKE s \in Alumnos
  <2>3. CASE s # u
    BY <2>1, <2>2, <2>3
  <2>4. CASE s = u
    <3>1. PICK w : w = intentos[s]
      OBVIOUS
    <3>2. w \in Seq(Intento(k)) /\ intentos'[s] = Append(w, a)
      BY <2>1, <2>2, <2>4, <3>1
    <3>3. \A i \in 1..Len(w) : Append(w, a)[i] = w[i]
      BY <3>2
    <3> QED BY <3>1, <3>2, <3>3
  <2> QED BY <2>3, <2>4
<1>4. ASSUME NEW r \in k.peticiones, NEW e \in k.examenes, Bateria(k)!new_question(r, e)
      PROVE UNCHANGED intentos
  BY <1>4 DEF Bateria!new_question
<1>5. ASSUME NEW r \in k.peticiones, NEW q \in 1..k.preguntas,
             Bateria(k)!edit_question(r, q) \/ Bateria(k)!new_question_option(r, q)
      PROVE UNCHANGED intentos
  BY <1>5 DEF Bateria!edit_question, Bateria!new_question_option
<1>6. ASSUME NEW r \in k.peticiones, NEW o \in Lugares(k),
             Bateria(k)!edit_question_option(r, o) \/ Bateria(k)!delete_question_option(r, o)
      PROVE UNCHANGED intentos
  BY <1>6 DEF Bateria!edit_question_option, Bateria!delete_question_option
<1>7. ASSUME NEW r \in k.peticiones, NEW s \in Alumnos, Bateria(k)!take_evaluation(r, s)
      PROVE UNCHANGED intentos
  BY <1>7 DEF Bateria!take_evaluation
<1>8. ASSUME NEW r \in k.peticiones,
             \/ Bateria(k)!NuevaPregunta(r) \/ Bateria(k)!EditarPregunta(r)
             \/ Bateria(k)!NuevaOpcion(r) \/ Bateria(k)!EditarOpcion(r) \/ Bateria(k)!QuitarOpcion(r)
             \/ Bateria(k)!_save_question_answers(r)
      PROVE UNCHANGED intentos
  BY <1>8 DEF Bateria!NuevaPregunta, Bateria!EditarPregunta, Bateria!NuevaOpcion, Bateria!EditarOpcion,
     Bateria!QuitarOpcion, Bateria!_save_question_answers
<1>9. ASSUME NEW s \in Alumnos, NEW e \in k.examenes, Bateria(k)!Mostrar(s, e)
      PROVE UNCHANGED intentos
  BY <1>9 DEF Bateria!Mostrar
<1>10. ASSUME UNCHANGED Bateria(k)!vars PROVE UNCHANGED intentos
  BY <1>10 DEF Bateria!vars
<1> HIDE DEF Guarda
<1>12. Guarda
  BY <1>2, <1>3, <1>4, <1>5, <1>6, <1>7, <1>8, <1>9, <1>10, <1>1, BancoPasos, Zenon
<1> QED BY <1>12 DEF Bateria!ScoresAreFinal, Guarda

\* The evaluations can be counted off.
LEMMA DuenoPuede ==
    ASSUME NEW k, Bateria(k)!BankAssumption
    PROVE  /\ Cardinality(k.examenes) \in Nat
           /\ Bateria(k)!Dueno \in [0..Cardinality(k.examenes) - 1 -> k.examenes]
           /\ \A i, j \in 0..Cardinality(k.examenes) - 1 :
                 Bateria(k)!Dueno[i] = Bateria(k)!Dueno[j] => i = j
<1>1. IsFiniteSet(k.examenes)
  BY BancoConstants
<1>2. PICK n : n = Cardinality(k.examenes)
  OBVIOUS
<1>3. n \in Nat /\ ExistsBijection(1..n, k.examenes)
  BY <1>1, <1>2, FS_CardinalityType
<1>4. PICK b \in Bijection(1..n, k.examenes) : TRUE
  BY <1>3 DEF ExistsBijection
<1>5. b \in [1..n -> k.examenes] /\ \A i, j \in 1..n : b[i] = b[j] => i = j
  BY <1>4 DEF Bijection, Injection, IsInjective
<1>6. PICK f : f = [i \in 0..n - 1 |-> b[i + 1]]
  OBVIOUS
<1>7. f \in [0..n - 1 -> k.examenes]
  BY <1>3, <1>5, <1>6
<1>8. \A i, j \in 0..n - 1 : f[i] = f[j] => i = j
  <2> TAKE i, j \in 0..n - 1
  <2>1. i + 1 \in 1..n /\ j + 1 \in 1..n /\ f[i] = b[i + 1] /\ f[j] = b[j + 1]
    BY <1>3, <1>6
  <2>2. f[i] = f[j] => i + 1 = j + 1
    BY <1>5, <2>1
  <2> QED BY <1>3, <2>2
<1>9. \E g \in [0..n - 1 -> k.examenes] : \A i, j \in DOMAIN g : g[i] = g[j] => i = j
  BY <1>6, <1>7, <1>8
<1>10. Bateria(k)!Cardinality(k.examenes) = n
  BY <1>2, BancoConjuntos
<1>11. Bateria(k)!Dueno = CHOOSE g \in [0..n - 1 -> k.examenes] : \A i, j \in DOMAIN g : g[i] = g[j] => i = j
  BY <1>10 DEF Bateria!Dueno
<1>12. PICK d : d = Bateria(k)!Dueno
  OBVIOUS
<1>13. d \in [0..n - 1 -> k.examenes] /\ \A i, j \in DOMAIN d : d[i] = d[j] => i = j
  BY <1>9, <1>11, <1>12
<1> QED BY <1>2, <1>3, <1>12, <1>13

\* What a seed put in a bank: a question in each evaluation, or none.
LEMMA BancoSembrado ==
    ASSUME NEW k, Bateria(k)!BankAssumption, Cardinality(k.sembradas) \in {0, 1}, Bateria(k)!Init
    PROVE  /\ usadas.preguntas \in 0..k.preguntas
           /\ usadas.preguntas = Cardinality(k.examenes) * Cardinality(k.sembradas)
           /\ usadas = [preguntas |-> usadas.preguntas, opciones |-> usadas.opciones]
           /\ usadas.opciones \in [1..k.preguntas -> 0..k.opciones]
           /\ preguntas \in [1..k.preguntas -> Reactivo(k) \cup {Nada}]
           /\ opciones \in [Lugares(k) -> Alternativa(k) \cup {Nada}]
           /\ \A q \in 1..k.preguntas :
                 /\ q > usadas.preguntas => preguntas[q] = Nada
                 /\ q <= usadas.preguntas =>
                       /\ preguntas[q] # Nada /\ preguntas[q].evaluacion = Bateria(k)!Dueno[q - 1]
                       /\ preguntas[q].type = "multiple"
           /\ \A o \in Lugares(k) :
                 /\ o[1] > usadas.preguntas \/ o[2] > 2 => opciones[o] = Nada
                 /\ o[1] <= usadas.preguntas /\ o[2] <= 2 =>
                       opciones[o] = [text |-> <<"Correcta", "Otra">>[o[2]], is_correct |-> o[2] = 1]
<1>1. PICK n : n = Cardinality(k.examenes) * Cardinality(k.sembradas)
  OBVIOUS
<1>2. /\ Bateria(k)!Cardinality(k.examenes) = Cardinality(k.examenes)
      /\ Bateria(k)!Cardinality(k.sembradas) = Cardinality(k.sembradas)
      /\ Bateria(k)!Preguntas = 1..k.preguntas /\ Bateria(k)!Opciones = Lugares(k)
  BY BancoConjuntos
<1>3. /\ k.preguntas \in Nat /\ k.opciones \in Nat /\ k.opciones >= 4 /\ k.preguntas >= n
      /\ Cardinality(k.examenes) \in Nat /\ k.sembradas \subseteq k.textos
      /\ Nada \notin Reactivo(k) /\ Nada \notin Alternativa(k) /\ IsFiniteSet(k.sembradas)
  BY <1>1, BancoConstants, DuenoPuede
<1>4. /\ preguntas = [q \in 1..k.preguntas |-> IF q > n THEN Nada ELSE
            [evaluacion |-> Bateria(k)!Dueno[(q - 1) \div Cardinality(k.sembradas)], type |-> "multiple",
             text |-> Bateria(k)!Lugar[(q - 1) % Cardinality(k.sembradas)],
             order |-> ((q - 1) % Cardinality(k.sembradas)) + 1, certificada |-> TRUE]]
      /\ opciones = [o \in Lugares(k) |-> IF o[1] > n \/ o[2] > 2 THEN Nada
                        ELSE [text |-> <<"Correcta", "Otra">>[o[2]], is_correct |-> o[2] = 1]]
      /\ usadas = [preguntas |-> n, opciones |-> [q \in 1..k.preguntas |-> IF q > n THEN 0 ELSE 2]]
  BY <1>1, <1>2 DEF Bateria!Init, Bateria!CopiaDe
<1>5. n \in 0..k.preguntas /\ usadas.preguntas = n
  BY <1>1, <1>3, <1>4
<1>6. /\ usadas = [preguntas |-> usadas.preguntas, opciones |-> usadas.opciones]
      /\ usadas.opciones = [q \in 1..k.preguntas |-> IF q > n THEN 0 ELSE 2]
  BY <1>4
<1>7. usadas.opciones \in [1..k.preguntas -> 0..k.opciones]
  BY <1>3, <1>6
<1>8. \A q \in 1..k.preguntas : q <= n =>
         /\ preguntas[q] \in Reactivo(k) /\ preguntas[q].evaluacion = Bateria(k)!Dueno[q - 1]
         /\ preguntas[q].type = "multiple"
  <2> TAKE q \in 1..k.preguntas
  <2> SUFFICES ASSUME q <= n
               PROVE  /\ preguntas[q] \in Reactivo(k) /\ preguntas[q].evaluacion = Bateria(k)!Dueno[q - 1]
                      /\ preguntas[q].type = "multiple"
    OBVIOUS
  <2>1. Cardinality(k.sembradas) = 1 /\ n = Cardinality(k.examenes)
    BY <1>1, <1>3, <1>5
  <2>2. PICK i : i = q - 1
    OBVIOUS
  <2>3. i \in 0..Cardinality(k.examenes) - 1 /\ i \div 1 = i /\ i % 1 = 0
    BY <1>3, <2>1, <2>2
  <2>4. preguntas[q] = [evaluacion |-> Bateria(k)!Dueno[i], type |-> "multiple",
                        text |-> Bateria(k)!Lugar[0], order |-> 1, certificada |-> TRUE]
    <3>1. ~(q > n)
      BY <1>5
    <3>2. preguntas[q] = [evaluacion |-> Bateria(k)!Dueno[i \div 1], type |-> "multiple",
             text |-> Bateria(k)!Lugar[i % 1], order |-> (i % 1) + 1, certificada |-> TRUE]
      BY <1>4, <2>1, <2>2, <3>1
    <3>3. (i % 1) + 1 = 1
      BY <2>3
    <3> QED BY <2>3, <3>2, <3>3
  <2>5. Bateria(k)!Dueno[i] \in k.examenes
    BY <2>3, DuenoPuede
  <2>6. Bateria(k)!Lugar[0] \in k.textos
    <3>1. PICK x : x \in k.sembradas
      BY <2>1, <1>3, FS_EmptySet
    <3>2. PICK f : f = [j \in 0..0 |-> x]
      OBVIOUS
    <3>3. f \in [0..0 -> k.sembradas] /\ \A a, b \in DOMAIN f : f[a] = f[b] => a = b
      BY <3>1, <3>2
    <3>4. Bateria(k)!Lugar = CHOOSE g \in [0..0 -> k.sembradas] : \A a, b \in DOMAIN g : g[a] = g[b] => a = b
      BY <1>2, <2>1 DEF Bateria!Lugar
    <3>5. Bateria(k)!Lugar \in [0..0 -> k.sembradas]
      BY <3>3, <3>4
    <3> QED BY <3>5, <1>3
  <2>7. 1 \in 1..k.preguntas
    BY <1>3
  <2>8. /\ preguntas[q] \in Reactivo(k) /\ preguntas[q].evaluacion = Bateria(k)!Dueno[i]
        /\ preguntas[q].type = "multiple"
    BY <2>4, <2>5, <2>6, <2>7 DEF Reactivo
  <2> QED BY <2>2, <2>8
<1>9. preguntas \in [1..k.preguntas -> Reactivo(k) \cup {Nada}]
  <2>1. \A q \in 1..k.preguntas : preguntas[q] \in Reactivo(k) \cup {Nada}
    <3> TAKE q \in 1..k.preguntas
    <3>1. q > n \/ q <= n
      BY <1>5
    <3>2. q > n => preguntas[q] = Nada
      BY <1>4
    <3> QED BY <1>8, <3>1, <3>2
  <2>2. preguntas = [q \in 1..k.preguntas |-> preguntas[q]]
    BY <1>4
  <2> QED BY <2>1, <2>2
<1>10. \A o \in Lugares(k) : o[2] \in 1..k.opciones /\ o[1] \in 1..k.preguntas
  BY DEF Lugares
<1>11. opciones \in [Lugares(k) -> Alternativa(k) \cup {Nada}]
  <2>1. \A o \in Lugares(k) : opciones[o] \in Alternativa(k) \cup {Nada}
    <3> TAKE o \in Lugares(k)
    <3>1. CASE o[1] > n \/ o[2] > 2
      BY <1>4, <3>1
    <3>2. CASE ~(o[1] > n \/ o[2] > 2)
      BY <1>3, <1>10, <3>2, <1>4 DEF Bateria!TextosDeOpcion, Alternativa
    <3> QED BY <3>1, <3>2
  <2> QED BY <1>4, <2>1
<1>12. \A q \in 1..k.preguntas : q > n => preguntas[q] = Nada
  BY <1>4
<1>13. \A o \in Lugares(k) :
          /\ o[1] > n \/ o[2] > 2 => opciones[o] = Nada
          /\ o[1] <= n /\ o[2] <= 2 =>
                opciones[o] = [text |-> <<"Correcta", "Otra">>[o[2]], is_correct |-> o[2] = 1]
  <2> TAKE o \in Lugares(k)
  <2>1. o[1] <= n /\ o[2] <= 2 => ~(o[1] > n \/ o[2] > 2)
    BY <1>5, <1>10, <1>3
  <2> QED BY <1>4, <2>1
<1> QED BY <1>1, <1>3, <1>5, <1>6, <1>7, <1>8, <1>9, <1>11, <1>12, <1>13

\* The bank is as it should be at first.
LEMMA BancoEmpiezaBien ==
    ASSUME NEW k, Bateria(k)!BankAssumption, Cardinality(k.sembradas) \in {0, 1}, Bateria(k)!Init
    PROVE  BancoInv(k)
<1>1. FilasInv(k)
  <2>1. k.preguntas \in Nat /\ \A o \in Lugares(k) : o[1] \in 1..k.preguntas
    BY BancoConstants DEF Lugares
  <2>2. \A o \in Lugares(k) : opciones[o] # Nada => preguntas[o[1]] # Nada
    <3> TAKE o \in Lugares(k)
    <3>1. o[1] > usadas.preguntas \/ o[1] <= usadas.preguntas
      BY <2>1, BancoSembrado
    <3> QED BY <2>1, <3>1, BancoSembrado
  <2> QED BY <2>2, BancoSembrado DEF FilasInv
<1>2. /\ pagina = [s \in Alumnos |-> Nada] /\ intentos = [s \in Alumnos |-> <<>>]
      /\ version = 0 /\ operaciones = 0 /\ peticion = [r \in k.peticiones |-> Bateria(k)!Libre]
  BY DEF Bateria!Init
<1>3. pagina = [s \in Alumnos |-> pagina[s]] /\ \A s \in Alumnos : PaginaAhora(k, pagina[s])
  BY <1>2 DEF PaginaAhora
<1>4. peticion = [r \in k.peticiones |-> peticion[r]]
  BY <1>2
<1>5. \A r \in k.peticiones : PideForma(k, peticion[r]) /\ PideAhora(k, peticion[r]) /\ peticion[r].pc = "idle"
  BY <1>2, PideLibre DEF PideAhora
<1>6. intentos \in [Alumnos -> Seq(Intento(k))]
  BY <1>2
<1>7. \A s \in Alumnos : \A i \in 1..Len(intentos[s]) : IntentoAhora(k, intentos[s][i])
  <2> TAKE s \in Alumnos
  <2>1. Len(intentos[s]) = 0
    BY <1>2
  <2> QED BY <2>1
<1>8. version + Cardinality(Atareadas(k)) <= operaciones
  <2>1. Atareadas(k) = {}
    BY <1>5 DEF Atareadas
  <2> QED BY <1>2, <2>1, FS_EmptySet
<1>9. version \in Nat /\ operaciones \in 0..k.operaciones
  BY <1>2, BancoConstants
<1> QED BY <1>1, <1>3, <1>4, <1>5, <1>6, <1>7, <1>8, <1>9 DEF BancoInv

\* ... and then has its types.
LEMMA BancoDice ==
    ASSUME NEW k, Bateria(k)!BankAssumption, BancoInv(k)
    PROVE  Bateria(k)!TypeOK
<1>1. /\ Bateria(k)!Preguntas = 1..k.preguntas /\ Bateria(k)!Opciones = Lugares(k)
      /\ Bateria(k)!Pregunta = Reactivo(k) /\ Bateria(k)!Opcion = Alternativa(k)
  BY BancoConjuntos
<1>2. version <= operaciones /\ operaciones <= k.operaciones
  BY CuantasAtareadas, BancoConstants DEF BancoInv
<1>3. \A r \in k.peticiones : Bateria(k)!Datos(peticion[r]) \in Bateria(k)!Peticion
  <2> TAKE r \in k.peticiones
  <2>1. PICK f : f = peticion[r]
    OBVIOUS
  <2>2. PideForma(k, f)
    BY <2>1 DEF BancoInv
  <2>3. Bateria(k)!Datos(f) \in Bateria(k)!Peticion
    BY <1>1, <2>2 DEF PideForma, Bateria!Datos, Bateria!Peticion
  <2> QED BY <2>1, <2>3
<1>4. \A s \in Alumnos, i \in 1..k.intentos : i <= Len(intentos[s]) =>
          LET a == intentos[s][i] IN
          /\ DOMAIN a.respuestas \subseteq Bateria(k)!De(a.evaluacion)
          /\ a.aciertos \subseteq a.total
  <2> TAKE s \in Alumnos, i \in 1..k.intentos
  <2> SUFFICES ASSUME i <= Len(intentos[s])
               PROVE  LET a == intentos[s][i] IN
                      /\ DOMAIN a.respuestas \subseteq Bateria(k)!De(a.evaluacion)
                      /\ a.aciertos \subseteq a.total
    OBVIOUS
  <2>1. k.intentos \in Nat
    BY BancoConstants
  <2>2. intentos[s] \in Seq(Intento(k))
    BY DEF BancoInv
  <2>3. i \in 1..Len(intentos[s])
    BY <2>1, <2>2
  <2>4. IntentoAhora(k, intentos[s][i])
    BY <2>3 DEF BancoInv
  <2> QED BY <2>4 DEF IntentoAhora
<1>5. FilasInv(k)
  BY DEF BancoInv
<1> QED BY <1>1, <1>2, <1>3, <1>4, <1>5 DEF Bateria!TypeOK, FilasInv

(* What the requests of a bank do, one by one *)

\* What begins.
LEMMA BancoVa ==
    ASSUME NEW k, Bateria(k)!BankAssumption, BancoInv(k), NEW r \in k.peticiones
    PROVE  /\ \A e \in k.examenes : Bateria(k)!new_question(r, e) => \E f : VaPregunta(k, r, f)
           /\ \A q \in 1..k.preguntas : Bateria(k)!edit_question(r, q) => \E f : Sigue(k, r, f)
           /\ \A q \in 1..k.preguntas : Bateria(k)!new_question_option(r, q) => \E f : VaOpcion(k, r, f)
           /\ \A o \in Lugares(k) : Bateria(k)!edit_question_option(r, o) => \E f : VaCambio(k, r, f)
           /\ \A o \in Lugares(k) : Bateria(k)!delete_question_option(r, o) => \E f : VaQuita(k, r, f)
           /\ \A s \in Alumnos : Bateria(k)!take_evaluation(r, s) => \E f : Sigue(k, r, f)
<1>1. ASSUME NEW e \in k.examenes, Bateria(k)!new_question(r, e) PROVE \E f : VaPregunta(k, r, f)
  <2>1. PICK y \in {"multiple", "boolean"}, t \in k.textos : Bateria(k)!Seguir(r,
         [Bateria(k)!Libre EXCEPT !.pc = "pregunta", !.escrito =
            [evaluacion |-> e, type |-> y, text |-> t, order |-> Bateria(k)!Siguiente(e),
             certificada |-> FALSE]])
    BY <1>1, Zenon DEF Bateria!new_question
  <2>2. PICK w : w = [evaluacion |-> e, type |-> y, text |-> t, order |-> Bateria(k)!Siguiente(e),
                      certificada |-> FALSE]
    OBVIOUS
  <2>3. PICK f : f = [Bateria(k)!Libre EXCEPT !.pc = "pregunta", !.escrito = w]
    OBVIOUS
  <2>4. Pasa(k, r, f)
    BY <2>1, <2>2, <2>3 DEF Bateria!Seguir, Pasa
  <2>5. Quedan /\ peticion[r].pc = "idle" /\ "pregunta" \in k.acciones
    BY <1>1, BancoEmpieza DEF Bateria!new_question, Bateria!banco, Quedan
  <2>6. f.pc = "pregunta" /\ f.escrito.evaluacion = e /\ f.escrito.order = Bateria(k)!Siguiente(e)
    BY <2>2, <2>3 DEF Bateria!Libre
  <2>7. VaPregunta(k, r, f)
    BY <2>4, <2>5, <2>6 DEF VaPregunta, Comienza
  <2> QED BY <2>7
<1>2. ASSUME NEW q \in 1..k.preguntas, Bateria(k)!edit_question(r, q) PROVE \E f : Sigue(k, r, f)
  <2>1. PICK y \in {"multiple", "boolean"}, t \in k.textos : Bateria(k)!Seguir(r,
         [Bateria(k)!Libre EXCEPT !.pc = "editar", !.pregunta = q, !.leido = preguntas[q],
             !.escrito = [preguntas[q] EXCEPT !.type = y, !.text = t]])
    BY <1>2, Zenon DEF Bateria!edit_question
  <2>2. PICK w : w = [preguntas[q] EXCEPT !.type = y, !.text = t]
    OBVIOUS
  <2>3. PICK f : f = [Bateria(k)!Libre EXCEPT !.pc = "editar", !.pregunta = q, !.leido = preguntas[q],
                         !.escrito = w]
    OBVIOUS
  <2>4. Pasa(k, r, f)
    BY <2>1, <2>2, <2>3 DEF Bateria!Seguir, Pasa
  <2>5. Quedan /\ "editar" \in k.acciones
    BY <1>2, BancoEmpieza DEF Bateria!edit_question, Bateria!banco, Quedan
  <2>6. f.pc = "editar"
    BY <2>3 DEF Bateria!Libre
  <2>7. Sigue(k, r, f)
    BY <2>4, <2>5, <2>6 DEF Sigue
  <2> QED BY <2>7
<1>3. ASSUME NEW q \in 1..k.preguntas, Bateria(k)!new_question_option(r, q) PROVE \E f : VaOpcion(k, r, f)
  <2>1. PICK t \in k.escritos, y \in BOOLEAN : Bateria(k)!Seguir(r,
         [Bateria(k)!Libre EXCEPT !.pc = "opcion", !.pregunta = q,
             !.escrito = [text |-> t, is_correct |-> y]])
    BY <1>3, Zenon DEF Bateria!new_question_option
  <2>2. PICK w : w = [text |-> t, is_correct |-> y]
    OBVIOUS
  <2>3. PICK f : f = [Bateria(k)!Libre EXCEPT !.pc = "opcion", !.pregunta = q, !.escrito = w]
    OBVIOUS
  <2>4. Pasa(k, r, f)
    BY <2>1, <2>2, <2>3 DEF Bateria!Seguir, Pasa
  <2>5. Quedan /\ peticion[r].pc = "idle" /\ "opcion" \in k.acciones
    BY <1>3, BancoEmpieza DEF Bateria!new_question_option, Bateria!banco, Quedan
  <2>6. f.pc = "opcion" /\ f.escrito.text = t
    BY <2>2, <2>3 DEF Bateria!Libre
  <2>7. VaOpcion(k, r, f)
    BY <2>4, <2>5, <2>6 DEF VaOpcion, Comienza
  <2> QED BY <2>7
<1>4. ASSUME NEW o \in Lugares(k), Bateria(k)!edit_question_option(r, o) PROVE \E f : VaCambio(k, r, f)
  <2>1. PICK t \in k.escritos \cup {opciones[o].text}, y \in BOOLEAN : Bateria(k)!Seguir(r,
         [Bateria(k)!Libre EXCEPT !.pc = "cambiar", !.opcion = o, !.leido = opciones[o],
             !.escrito = [text |-> t, is_correct |-> y]])
    BY <1>4, Zenon DEF Bateria!edit_question_option
  <2>2. PICK w : w = [text |-> t, is_correct |-> y]
    OBVIOUS
  <2>3. PICK f : f = [Bateria(k)!Libre EXCEPT !.pc = "cambiar", !.opcion = o, !.leido = opciones[o],
                         !.escrito = w]
    OBVIOUS
  <2>4. Pasa(k, r, f)
    BY <2>1, <2>2, <2>3 DEF Bateria!Seguir, Pasa
  <2>5. Quedan /\ peticion[r].pc = "idle" /\ opciones[o] # Nada
    BY <1>4, BancoEmpieza DEF Bateria!edit_question_option, Bateria!banco, Quedan
  <2>6. f.pc = "cambiar" /\ f.opcion = o /\ f.escrito.text = t
    BY <2>2, <2>3 DEF Bateria!Libre
  <2>7. VaCambio(k, r, f)
    BY <2>1, <2>4, <2>5, <2>6 DEF VaCambio, Comienza
  <2> QED BY <2>7
<1>5. ASSUME NEW o \in Lugares(k), Bateria(k)!delete_question_option(r, o) PROVE \E f : VaQuita(k, r, f)
  <2>1. PICK f : f = [Bateria(k)!Libre EXCEPT !.pc = "quitar", !.opcion = o]
    OBVIOUS
  <2>2. /\ Pasa(k, r, f) /\ Quedan /\ opciones[o] # Nada
        /\ Cardinality(Bateria(k)!OpcionesDe(o[1])) > 2
    BY <1>5, <2>1, BancoConjuntos DEF Bateria!delete_question_option, Bateria!Sobra, Bateria!Seguir, Pasa,
       Bateria!banco, Quedan
  <2>3. peticion[r].pc = "idle" /\ "quitar" \in k.acciones
    BY <1>5, BancoEmpieza DEF Bateria!delete_question_option
  <2>4. f.pc = "quitar" /\ f.opcion = o
    BY <2>1 DEF Bateria!Libre
  <2>5. VaQuita(k, r, f)
    BY <2>2, <2>3, <2>4 DEF VaQuita, Comienza
  <2> QED BY <2>5
<1>6. ASSUME NEW s \in Alumnos, Bateria(k)!take_evaluation(r, s) PROVE \E f : Sigue(k, r, f)
  <2>1. PICK c \in Bateria(k)!Elecciones(pagina[s]) : Bateria(k)!Seguir(r,
         [Bateria(k)!Libre EXCEPT !.pc = "responder", !.usuario = s,
             !.evaluacion = pagina[s].evaluacion, !.elegido = c,
             !.total = [q \in Bateria(k)!De(pagina[s].evaluacion) |-> preguntas[q].type]])
    BY <1>6, Zenon DEF Bateria!take_evaluation
  <2>2. PICK w : w = [q \in Bateria(k)!De(pagina[s].evaluacion) |-> preguntas[q].type]
    OBVIOUS
  <2>3. PICK f : f = [Bateria(k)!Libre EXCEPT !.pc = "responder", !.usuario = s,
                         !.evaluacion = pagina[s].evaluacion, !.elegido = c, !.total = w]
    OBVIOUS
  <2>4. Pasa(k, r, f)
    BY <2>1, <2>2, <2>3 DEF Bateria!Seguir, Pasa
  <2>5. Quedan
    BY <1>6 DEF Bateria!take_evaluation, Bateria!banco, Quedan
  <2>6. f.pc = "responder"
    BY <2>3 DEF Bateria!Libre
  <2>7. Sigue(k, r, f)
    BY <2>4, <2>5, <2>6 DEF Sigue
  <2> QED BY <2>7
<1> QED BY <1>1, <1>2, <1>3, <1>4, <1>5, <1>6

\* What ends.
LEMMA BancoHace ==
    ASSUME NEW k, Bateria(k)!BankAssumption, BancoInv(k), NEW r \in k.peticiones
    PROVE  /\ Bateria(k)!NuevaPregunta(r) => HacePregunta(k, r)
           /\ Bateria(k)!EditarPregunta(r) => HaceEdicion(k, r) \/ \E f : Sigue(k, r, f)
           /\ Bateria(k)!NuevaOpcion(r) => HaceOpcion(k, r) \/ \E f : Sigue(k, r, f)
           /\ Bateria(k)!EditarOpcion(r) => HaceCambio(k, r) \/ \E f : Sigue(k, r, f)
           /\ Bateria(k)!QuitarOpcion(r) => HaceQuita(k, r)
           /\ Bateria(k)!_save_question_answers(r) => \E f : Sigue(k, r, f)
           /\ Bateria(k)!calculate_score(r) => \E f : Sigue(k, r, f)
           /\ \A q \in 1..k.preguntas : Bateria(k)!delete_question(r, q) => Borra(k, q)
<1>1. PICK p : p = peticion[r]
  OBVIOUS
<1>2. PideForma(k, p) /\ FilasInv(k)
  BY <1>1 DEF BancoInv
<1>3. /\ Bateria(k)!Preguntas = 1..k.preguntas /\ Bateria(k)!Opciones = Lugares(k)
      /\ k.preguntas \in Nat /\ Bateria(k)!Libre.pc = "idle"
  BY BancoConjuntos, BancoConstants, PideLibre
<1>4. ASSUME Quedan, Acaba(k, r) PROVE \E f : Sigue(k, r, f)
  BY <1>3, <1>4 DEF Sigue, Acaba
<1>5. ASSUME Bateria(k)!NuevaPregunta(r) PROVE HacePregunta(k, r)
  <2>1. PICK q : q = usadas.preguntas + 1
    OBVIOUS
  <2>2. PICK x : x = p.escrito
    OBVIOUS
  <2>3. /\ p.pc = "pregunta" /\ usadas.preguntas < k.preguntas
        /\ preguntas' = [preguntas EXCEPT ![q] = x]
        /\ opciones' = [o \in Lugares(k) |->
              IF o[1] = q /\ o[2] <= Bateria(k)!Cuantas(x.type)
              THEN [text |-> Bateria(k)!Defecto(x.type, o[2]), is_correct |-> FALSE] ELSE opciones[o]]
        /\ Acaba(k, r)
    BY <1>1, <1>3, <1>5, <2>1, <2>2 DEF Bateria!NuevaPregunta, Bateria!Terminar, Bateria!Seguir, Acaba, Pasa
  <2>4. x \in Reactivo(k) /\ usadas.preguntas \in 0..k.preguntas
    BY <1>2, <2>2, <2>3 DEF PideForma, FilasInv
  <2>5. q \in 1..k.preguntas /\ q > usadas.preguntas
    BY <1>3, <2>1, <2>3, <2>4
  <2>6. preguntas[q] = Nada
    BY <1>2, <2>5 DEF FilasInv
  <2> QED BY <1>1, <2>1, <2>2, <2>3, <2>4, <2>5, <2>6 DEF HacePregunta
<1>6. ASSUME Bateria(k)!EditarPregunta(r) PROVE HaceEdicion(k, r) \/ \E f : Sigue(k, r, f)
  <2>1. p.pc = "editar" /\ Acaba(k, r)
    BY <1>1, <1>6 DEF Bateria!EditarPregunta, Bateria!Terminar, Bateria!Seguir, Acaba, Pasa
  <2>2. CASE preguntas[p.pregunta] = Nada \/ p.leido = p.escrito
    BY <1>1, <1>4, <1>6, <2>1, <2>2 DEF Bateria!EditarPregunta, Bateria!banco, Quedan
  <2>3. CASE ~(preguntas[p.pregunta] = Nada \/ p.leido = p.escrito)
    <3>1. /\ preguntas' = [preguntas EXCEPT
                ![p.pregunta] = Bateria(k)!Distintos(p.leido, p.escrito, preguntas[p.pregunta])]
          /\ opciones' = opciones
      BY <1>1, <1>6, <2>3 DEF Bateria!EditarPregunta
    <3>2. /\ p.pregunta \in 1..k.preguntas /\ p.leido \in Reactivo(k) /\ p.escrito \in Reactivo(k)
          /\ p.escrito.evaluacion = p.leido.evaluacion /\ p.escrito.order = p.leido.order
      BY <1>2, <2>1 DEF PideForma
    <3>3. preguntas[p.pregunta] \in Reactivo(k)
      BY <1>2, <2>3, <3>2 DEF FilasInv
    <3>4. HaceEdicion(k, r)
      BY <1>1, <2>1, <3>1, <3>2, <3>3 DEF HaceEdicion
    <3> QED BY <3>4
  <2> QED BY <2>2, <2>3
<1>7. ASSUME Bateria(k)!NuevaOpcion(r) PROVE HaceOpcion(k, r) \/ \E f : Sigue(k, r, f)
  <2>1. p.pc = "opcion" /\ Acaba(k, r)
    BY <1>1, <1>7 DEF Bateria!NuevaOpcion, Bateria!Terminar, Bateria!Seguir, Acaba, Pasa
  <2>2. CASE preguntas[p.pregunta] = Nada
    BY <1>1, <1>4, <1>7, <2>1, <2>2 DEF Bateria!NuevaOpcion, Bateria!banco, Quedan
  <2>3. CASE preguntas[p.pregunta] # Nada
    <3>1. PICK o : o = <<p.pregunta, usadas.opciones[p.pregunta] + 1>>
      OBVIOUS
    <3>2. o \in Lugares(k) /\ opciones' = [opciones EXCEPT ![o] = p.escrito] /\ preguntas' = preguntas
      BY <1>1, <1>3, <1>7, <2>3, <3>1 DEF Bateria!NuevaOpcion
    <3>3. o[1] = p.pregunta
      BY <3>1
    <3>4. p.escrito \in Alternativa(k)
      BY <1>2, <2>1 DEF PideForma
    <3>5. HaceOpcion(k, r)
      BY <1>1, <2>1, <2>3, <3>2, <3>3, <3>4 DEF HaceOpcion
    <3> QED BY <3>5
  <2> QED BY <2>2, <2>3
<1>8. ASSUME Bateria(k)!EditarOpcion(r) PROVE HaceCambio(k, r) \/ \E f : Sigue(k, r, f)
  <2>1. p.pc = "cambiar" /\ Acaba(k, r)
    BY <1>1, <1>8 DEF Bateria!EditarOpcion, Bateria!Terminar, Bateria!Seguir, Acaba, Pasa
  <2>2. CASE opciones[p.opcion] = Nada \/ p.leido = p.escrito
    BY <1>1, <1>4, <1>8, <2>1, <2>2 DEF Bateria!EditarOpcion, Bateria!banco, Quedan
  <2>3. CASE ~(opciones[p.opcion] = Nada \/ p.leido = p.escrito)
    <3>1. /\ opciones' = [opciones EXCEPT
                ![p.opcion] = Bateria(k)!Distintos(p.leido, p.escrito, opciones[p.opcion])]
          /\ preguntas' = preguntas
      BY <1>1, <1>8, <2>3 DEF Bateria!EditarOpcion
    <3>2. /\ p.opcion \in Lugares(k) /\ p.leido \in Alternativa(k) /\ p.escrito \in Alternativa(k)
      BY <1>2, <2>1 DEF PideForma
    <3>3. opciones[p.opcion] \in Alternativa(k)
      BY <1>2, <2>3, <3>2 DEF FilasInv
    <3>4. HaceCambio(k, r)
      BY <1>1, <2>1, <3>1, <3>2, <3>3 DEF HaceCambio
    <3> QED BY <3>4
  <2> QED BY <2>2, <2>3
<1>9. ASSUME Bateria(k)!QuitarOpcion(r) PROVE HaceQuita(k, r)
  BY <1>1, <1>9, <1>2 DEF Bateria!QuitarOpcion, Bateria!Terminar, Bateria!Seguir, Acaba, Pasa,
     PideForma, HaceQuita
<1>10. ASSUME Bateria(k)!_save_question_answers(r) PROVE \E f : Sigue(k, r, f)
  <2>1. Quedan /\ p.pc = "responder"
    BY <1>1, <1>10 DEF Bateria!_save_question_answers, Bateria!banco, Quedan
  <2>2. \/ \E h : Pasa(k, r, [p EXCEPT !.pc = "calificar", !.respuestas = h])
        \/ Acaba(k, r)
    BY <1>1, <1>10, Zenon DEF Bateria!_save_question_answers, Bateria!Terminar, Bateria!Seguir, Acaba, Pasa
  <2>3. ASSUME NEW h, Pasa(k, r, [p EXCEPT !.pc = "calificar", !.respuestas = h]) PROVE \E f : Sigue(k, r, f)
    <3>1. PICK f : f = [p EXCEPT !.pc = "calificar", !.respuestas = h]
      OBVIOUS
    <3>2. f.pc = "calificar"
      BY <1>2, <3>1 DEF PideForma
    <3>3. Sigue(k, r, f)
      BY <2>1, <2>3, <3>1, <3>2 DEF Sigue
    <3> QED BY <3>3
  <2> QED BY <1>4, <2>1, <2>2, <2>3
<1>11. ASSUME Bateria(k)!calculate_score(r) PROVE \E f : Sigue(k, r, f)
  BY <1>11, <1>4 DEF Bateria!calculate_score, Bateria!Terminar, Bateria!Seguir, Bateria!banco,
     Quedan, Acaba, Pasa
<1>12. ASSUME NEW q \in 1..k.preguntas, Bateria(k)!delete_question(r, q) PROVE Borra(k, q)
  BY <1>12, BancoEmpieza, <1>3 DEF Bateria!delete_question, Borra
<1> QED BY <1>5, <1>6, <1>7, <1>8, <1>9, <1>10, <1>11, <1>12

\* The steps of a bank as what they do to its rows and its requests.
LEMMA BancoTransita ==
    ASSUME NEW k, Bateria(k)!BankAssumption, BancoInv(k), [Bateria(k)!Next]_(Bateria(k)!vars)
    PROVE  \/ Quedan /\ peticion' = peticion
           \/ \E q \in 1..k.preguntas : Borra(k, q)
           \/ \E r \in k.peticiones :
                 \/ \E f : \/ Sigue(k, r, f) \/ VaPregunta(k, r, f) \/ VaOpcion(k, r, f)
                           \/ VaCambio(k, r, f) \/ VaQuita(k, r, f)
                 \/ HacePregunta(k, r) \/ HaceEdicion(k, r) \/ HaceOpcion(k, r)
                 \/ HaceCambio(k, r) \/ HaceQuita(k, r)
<1>1. ASSUME UNCHANGED Bateria(k)!vars PROVE Quedan /\ peticion' = peticion
  BY <1>1 DEF Bateria!vars, Quedan
<1>2. ASSUME NEW s \in Alumnos, NEW e \in k.examenes, Bateria(k)!Mostrar(s, e)
      PROVE Quedan /\ peticion' = peticion
  BY <1>2 DEF Bateria!Mostrar, Bateria!banco, Quedan
<1> QED BY <1>1, <1>2, BancoPasos, BancoVa, BancoHace, Zenon

\* The texts stay so.
LEMMA TextosSigue ==
    ASSUME NEW k, Bateria(k)!BankAssumption, k.escritos \cap {"True", "False"} = {}, BancoInv(k),
           TextosInv(k), [Bateria(k)!Next]_(Bateria(k)!vars)
    PROVE  TextosInv(k)'
<1> DEFINE T == {"True", "False"}
           Filas == \A o \in Lugares(k) : opciones'[o] # Nada => opciones'[o].text \notin T
<1>1. ASSUME NEW r \in k.peticiones, NEW f, Pasa(k, r, f), Filas,
             f.pc \in {"opcion", "cambiar"} => f.escrito.text \notin T
      PROVE  TextosInv(k)'
  BY <1>1, UnaPide DEF BancoInv, Pasa, TextosInv
<1>2. Quedan => Filas
  BY DEF Quedan, TextosInv
<1>3. Bateria(k)!Libre.pc = "idle" /\ opciones \in [Lugares(k) -> Alternativa(k) \cup {Nada}]
  BY PideLibre DEF BancoInv, FilasInv
<1>4. ASSUME NEW r \in k.peticiones, Acaba(k, r), Filas PROVE TextosInv(k)'
  BY <1>1, <1>3, <1>4 DEF Acaba
<1>5. CASE Quedan /\ peticion' = peticion
  BY <1>5 DEF TextosInv, Quedan
<1>6. ASSUME NEW q \in 1..k.preguntas, Borra(k, q) PROVE TextosInv(k)'
  BY <1>6 DEF Borra, TextosInv
<1>7. ASSUME NEW r \in k.peticiones, NEW f, Sigue(k, r, f) \/ VaPregunta(k, r, f) PROVE TextosInv(k)'
  BY <1>7, <1>1, <1>2 DEF Sigue, VaPregunta, Comienza
<1>8. ASSUME NEW r \in k.peticiones, NEW f, VaOpcion(k, r, f) PROVE TextosInv(k)'
  BY <1>8, <1>1, <1>2 DEF VaOpcion, Comienza
<1>9. ASSUME NEW r \in k.peticiones, NEW f, VaCambio(k, r, f) PROVE TextosInv(k)'
  BY <1>9, <1>1, <1>2 DEF VaCambio, Comienza, TextosInv
<1>10. ASSUME NEW r \in k.peticiones, NEW f, VaQuita(k, r, f) PROVE TextosInv(k)'
  BY <1>10, <1>1, <1>2 DEF VaQuita, Comienza
<1>11. ASSUME NEW r \in k.peticiones, HacePregunta(k, r) PROVE TextosInv(k)'
  <2>1. PICK q : q = usadas.preguntas + 1
    OBVIOUS
  <2>2. PICK p : p = peticion[r].escrito
    OBVIOUS
  <2>3. /\ Acaba(k, r) /\ p \in Reactivo(k)
        /\ opciones' = [o \in Lugares(k) |-> IF o[1] = q /\ o[2] <= Bateria(k)!Cuantas(p.type)
              THEN [text |-> Bateria(k)!Defecto(p.type, o[2]), is_correct |-> FALSE] ELSE opciones[o]]
    BY <1>11, <2>1, <2>2 DEF HacePregunta
  <2>4. Filas
    <3> SUFFICES ASSUME NEW o \in Lugares(k), opciones'[o] # Nada PROVE opciones'[o].text \notin T
      OBVIOUS
    <3>1. CASE o[1] = q /\ o[2] <= Bateria(k)!Cuantas(p.type)
      <4>1. o[2] \in Nat /\ 1 <= o[2]
        BY DEF Lugares
      <4>2. Bateria(k)!Defecto(p.type, o[2]) \notin T
        <5>1. CASE p.type = "multiple"
          <6>1. o[2] \in 1..4
            BY <3>1, <4>1, <5>1 DEF Bateria!Cuantas
          <6>2. PICK n : n = o[2]
            OBVIOUS
          <6>3. n \in {1, 2, 3, 4}
            BY <6>1, <6>2
          <6>4. Bateria(k)!Numeradas[n] \in {"Opcion 1", "Opcion 2", "Opcion 3", "Opcion 4"}
            <7>1. /\ Bateria(k)!Numeradas[1] = "Opcion 1" /\ Bateria(k)!Numeradas[2] = "Opcion 2"
                  /\ Bateria(k)!Numeradas[3] = "Opcion 3" /\ Bateria(k)!Numeradas[4] = "Opcion 4"
              BY DEF Bateria!Numeradas
            <7> QED BY <6>3, <7>1
          <6>5. Bateria(k)!Defecto(p.type, n) = Bateria(k)!Numeradas[n]
            BY <5>1 DEF Bateria!Defecto
          <6> QED BY <6>2, <6>4, <6>5
        <5>2. CASE p.type = "boolean"
          BY <3>1, <4>1, <5>2 DEF Bateria!Cuantas, Bateria!Defecto
        <5> QED BY <2>3, <5>1, <5>2 DEF Reactivo
      <4>3. opciones'[o] = [text |-> Bateria(k)!Defecto(p.type, o[2]), is_correct |-> FALSE]
        BY <2>3, <3>1
      <4> QED BY <4>2, <4>3
    <3>2. CASE ~(o[1] = q /\ o[2] <= Bateria(k)!Cuantas(p.type))
      BY <2>3, <3>2 DEF TextosInv
    <3> QED BY <3>1, <3>2
  <2> QED BY <1>4, <2>3, <2>4
<1>12. ASSUME NEW r \in k.peticiones, HaceEdicion(k, r) PROVE TextosInv(k)'
  BY <1>4, <1>12 DEF HaceEdicion, TextosInv
<1>13. ASSUME NEW r \in k.peticiones, HaceOpcion(k, r) PROVE TextosInv(k)'
  <2>1. PICK o \in Lugares(k) : opciones' = [opciones EXCEPT ![o] = peticion[r].escrito]
    BY <1>13 DEF HaceOpcion
  <2>2. peticion[r].escrito.text \notin T
    BY <1>13 DEF HaceOpcion, TextosInv
  <2>3. Filas
    BY <1>3, <2>1, <2>2 DEF TextosInv
  <2> QED BY <1>4, <1>13, <2>3 DEF HaceOpcion
<1>14. ASSUME NEW r \in k.peticiones, HaceCambio(k, r) PROVE TextosInv(k)'
  <2>1. PICK p : p = peticion[r]
    OBVIOUS
  <2>2. PICK x : x = Bateria(k)!Distintos(p.leido, p.escrito, opciones[p.opcion])
    OBVIOUS
  <2>3. /\ Acaba(k, r) /\ p.pc = "cambiar" /\ p.opcion \in Lugares(k)
        /\ p.leido \in Alternativa(k) /\ p.escrito \in Alternativa(k) /\ opciones[p.opcion] \in Alternativa(k)
        /\ opciones' = [opciones EXCEPT ![p.opcion] = x]
    BY <1>14, <2>1, <2>2 DEF HaceCambio
  <2>4. x.text \in {p.escrito.text, opciones[p.opcion].text}
    BY <2>2, <2>3, AlternativaDistinta
  <2>5. opciones[p.opcion] # Nada
    BY <2>3, BancoConstants
  <2>6. x.text \notin T
    BY <2>1, <2>3, <2>4, <2>5 DEF TextosInv
  <2>7. Filas
    BY <1>3, <2>3, <2>6 DEF TextosInv
  <2> QED BY <1>4, <2>3, <2>7
<1>15. ASSUME NEW r \in k.peticiones, HaceQuita(k, r) PROVE TextosInv(k)'
  BY <1>3, <1>15, <1>4 DEF HaceQuita, TextosInv
<1> HIDE DEF Filas
<1> QED BY <1>5, <1>6, <1>7, <1>8, <1>9, <1>10, <1>11, <1>12, <1>13, <1>14, <1>15, BancoTransita, Zenon

\* ... and are so at first.
LEMMA TextosEmpiezan ==
    ASSUME NEW k, Bateria(k)!BankAssumption, Cardinality(k.sembradas) \in {0, 1}, Bateria(k)!Init
    PROVE  TextosInv(k)
<1>1. \A o \in Lugares(k) : opciones[o] # Nada => opciones[o].text \notin {"True", "False"}
  <2> SUFFICES ASSUME NEW o \in Lugares(k), opciones[o] # Nada
               PROVE  opciones[o].text \notin {"True", "False"}
    OBVIOUS
  <2>1. o[1] \in Int /\ o[2] \in Int /\ 1 <= o[2]
    BY BancoConstants DEF Lugares
  <2>5. usadas.preguntas \in 0..k.preguntas /\ k.preguntas \in Nat
    BY BancoSembrado, BancoConstants
  <2>6. usadas.preguntas \in Int
    BY <2>5
  <2>7. o[1] > usadas.preguntas \/ o[2] > 2 => opciones[o] = Nada
    BY BancoSembrado
  <2>2. o[1] <= usadas.preguntas /\ o[2] <= 2
    BY <2>1, <2>6, <2>7
  <2>3. opciones[o] = [text |-> <<"Correcta", "Otra">>[o[2]], is_correct |-> o[2] = 1]
    BY <2>2, BancoSembrado
  <2>4. o[2] = 1 \/ o[2] = 2
    BY <2>1, <2>2
  <2> QED BY <2>3, <2>4
<1>2. \A r \in k.peticiones : peticion[r].pc = "idle"
  BY PideLibre DEF Bateria!Init
<1> QED BY <1>1, <1>2 DEF TextosInv

\* What a choice of a page that is up to date counts.
LEMMA CuentaElegida ==
    ASSUME NEW k, FilasInv(k), TextosInv(k), k.preguntas \in Nat, NEW q \in 1..k.preguntas,
           Bateria(k)!Clara(q), NEW c \in Bateria(k)!Posibles(q),
           NEW x \in Bateria(k)!_resolve_option_ids(q, preguntas[q].type, c)
    PROVE  Bateria(k)!_answer_is_correct(preguntas[q].type, q, x) <=> c \in Bateria(k)!Acertada(q)
<1>1. /\ \A o, p \in Bateria(k)!OpcionesDe(q) : opciones[o].text = opciones[p].text => o = p
      /\ Bateria(k)!Claves(q) # {}
      /\ preguntas[q].type = "boolean" => Cardinality(Bateria(k)!Claves(q)) = 1
  BY BancoConjuntos DEF Bateria!Clara
<1>2. Bateria(k)!Claves(q) \subseteq Bateria(k)!OpcionesDe(q) /\ Bateria(k)!OpcionesDe(q) \subseteq Lugares(k)
  BY PosiblesDeHoja
<1>3. CASE preguntas[q].type = "boolean"
  <2>1. PICK v \in {"Verdadero", "Falso"} : c = Bateria(k)!UnRadio(v)
    BY <1>3 DEF Bateria!Posibles, Bateria!Radio
  <2>2. c.radio = {v}
    BY <2>1 DEF Bateria!UnRadio
  <2>3. \/ x = {} /\ ~ \E o \in Bateria(k)!OpcionesDe(q) : opciones[o].text = v
        \/ \E o \in Bateria(k)!OpcionesDe(q) : opciones[o].text = v /\ x = {o}
    BY <1>3, <2>2 DEF Bateria!_resolve_option_ids
  <2>4. Bateria(k)!_answer_is_correct(preguntas[q].type, q, x)
           <=> \E o \in Bateria(k)!Claves(q) : opciones[o].text = v
    <3>1. Bateria(k)!_answer_is_correct(preguntas[q].type, q, x)
             <=> Cardinality(x) = 1 /\ x \subseteq Bateria(k)!Claves(q)
      BY <1>3, BancoConjuntos DEF Bateria!_answer_is_correct
    <3>2. CASE x = {} /\ ~ \E o \in Bateria(k)!OpcionesDe(q) : opciones[o].text = v
      BY <3>2, FS_EmptySet, <1>2, <3>1
    <3>3. ASSUME NEW o \in Bateria(k)!OpcionesDe(q), opciones[o].text = v, x = {o}
          PROVE  Bateria(k)!_answer_is_correct(preguntas[q].type, q, x)
                    <=> \E m \in Bateria(k)!Claves(q) : opciones[m].text = v
      BY <3>3, FS_Singleton, <1>1, <1>2, <3>1
    <3> QED BY <2>3, <3>2, <3>3
  <2>5. \A o \in Bateria(k)!Claves(q) :
           v \in Bateria(k)!Significado(opciones[o].text) <=> opciones[o].text = v
    <3> TAKE o \in Bateria(k)!Claves(q)
    <3>1. opciones[o].text \notin {"True", "False"}
      BY <1>2, BancoConjuntos DEF Bateria!OpcionesDe, TextosInv
    <3>2. PICK t : t = opciones[o].text
      OBVIOUS
    <3>3. v \in Bateria(k)!Significado(t) <=> t = v
      BY <3>1, <3>2 DEF Bateria!Significado
    <3> QED BY <3>2, <3>3
  <2>6. c \in Bateria(k)!Acertada(q)
           <=> \E o \in Bateria(k)!Claves(q) : v \in Bateria(k)!Significado(opciones[o].text)
    <3>1. PICK W : W = UNION {Bateria(k)!Significado(opciones[o].text) : o \in Bateria(k)!Claves(q)}
      OBVIOUS
    <3>2. Bateria(k)!Acertada(q) = {Bateria(k)!UnRadio(w) : w \in W}
      BY <1>3, <3>1 DEF Bateria!Acertada
    <3>3. \A w : Bateria(k)!UnRadio(w) = Bateria(k)!UnRadio(v) => w = v
      <4> TAKE w
      <4>1. Bateria(k)!UnRadio(w).radio = {w} /\ Bateria(k)!UnRadio(v).radio = {v}
        BY DEF Bateria!UnRadio
      <4> QED BY <4>1
    <3>4. c \in Bateria(k)!Acertada(q) <=> v \in W
      BY <2>1, <3>2, <3>3
    <3> QED BY <3>1, <3>4
  <2> QED BY <2>4, <2>5, <2>6
<1>4. CASE preguntas[q].type # "boolean"
  <2>1. Bateria(k)!Acertada(q) = {Bateria(k)!UnosIds(Bateria(k)!Claves(q))} \ {Bateria(k)!UnosIds({})}
    BY <1>4 DEF Bateria!Acertada
  <2>2. \A S, R : Bateria(k)!UnosIds(S) = Bateria(k)!UnosIds(R) => S = R
    <3> TAKE S, R
    <3>1. Bateria(k)!UnosIds(S).ids = S /\ Bateria(k)!UnosIds(R).ids = R
      BY DEF Bateria!UnosIds
    <3> QED BY <3>1
  <2>3. PICK S : c = Bateria(k)!UnosIds(S)
    BY <1>4 DEF Bateria!Posibles
  <2>4. c.ids = S /\ c.radio = {}
    BY <2>3 DEF Bateria!UnosIds
  <2>5. x = S
    BY <1>4, <2>4 DEF Bateria!_resolve_option_ids
  <2>6. Bateria(k)!_answer_is_correct(preguntas[q].type, q, x) <=> S = Bateria(k)!Claves(q)
    BY <1>4, <2>5 DEF Bateria!_answer_is_correct
  <2>7. c \in Bateria(k)!Acertada(q) <=> S = Bateria(k)!Claves(q)
    BY <1>1, <2>1, <2>2, <2>3
  <2> QED BY <2>6, <2>7
<1> QED BY <1>3, <1>4

\* The attempt that a step records, on a page that is up to date.
LEMMA BancoNuevo ==
    ASSUME NEW k, Bateria(k)!BankAssumption, BancoInv(k), [Bateria(k)!Next]_(Bateria(k)!vars),
           NEW s \in Alumnos, Bateria(k)!Calificado(s), Bateria(k)!Nuevo(s).version = version
    PROVE  \E p : /\ PideForma(k, p) /\ PideAhora(k, p) /\ p.pc = "calificar" /\ p.usuario = s
                  /\ pagina[s].version = version
                  /\ Bateria(k)!Nuevo(s).total = DOMAIN p.total
                  /\ Bateria(k)!Nuevo(s).aciertos = {q \in DOMAIN p.respuestas :
                        Bateria(k)!_answer_is_correct(p.total[q], q, p.respuestas[q])}
                  /\ Bateria(k)!Nuevo(s).sabidas =
                        {q \in DOMAIN p.elegido : p.elegido[q] \in pagina[s].acertadas[q]}
<1>1. intentos \in [Alumnos -> Seq(Intento(k))]
  BY DEF BancoInv
<1>2. Len(intentos'[s]) > Len(intentos[s]) /\ Len(intentos[s]) \in Nat
  BY <1>1 DEF Bateria!Calificado
<1>3. intentos' # intentos
  BY <1>2
<1>4. \E r \in k.peticiones : Bateria(k)!calculate_score(r)
  <2>1. ASSUME NEW r \in k.peticiones, NEW q \in 1..k.preguntas, Bateria(k)!delete_question(r, q)
        PROVE  FALSE
    BY <2>1, BorraPregunta, <1>2
  <2>2. ASSUME NEW r \in k.peticiones, NEW e \in k.examenes, Bateria(k)!new_question(r, e) PROVE FALSE
    BY <1>3, <2>2 DEF Bateria!new_question
  <2>3. ASSUME NEW r \in k.peticiones, NEW q \in 1..k.preguntas,
               Bateria(k)!edit_question(r, q) \/ Bateria(k)!new_question_option(r, q)
        PROVE  FALSE
    BY <1>3, <2>3 DEF Bateria!edit_question, Bateria!new_question_option
  <2>4. ASSUME NEW r \in k.peticiones, NEW o \in Lugares(k),
               Bateria(k)!edit_question_option(r, o) \/ Bateria(k)!delete_question_option(r, o)
        PROVE  FALSE
    BY <1>3, <2>4 DEF Bateria!edit_question_option, Bateria!delete_question_option
  <2>5. ASSUME NEW r \in k.peticiones, NEW u \in Alumnos, Bateria(k)!take_evaluation(r, u) PROVE FALSE
    BY <1>3, <2>5 DEF Bateria!take_evaluation
  <2>6. ASSUME NEW r \in k.peticiones,
               \/ Bateria(k)!NuevaPregunta(r) \/ Bateria(k)!EditarPregunta(r)
               \/ Bateria(k)!NuevaOpcion(r) \/ Bateria(k)!EditarOpcion(r) \/ Bateria(k)!QuitarOpcion(r)
               \/ Bateria(k)!_save_question_answers(r)
        PROVE  FALSE
    BY <1>3, <2>6 DEF Bateria!NuevaPregunta, Bateria!EditarPregunta, Bateria!NuevaOpcion, Bateria!EditarOpcion,
       Bateria!QuitarOpcion, Bateria!_save_question_answers
  <2>7. ASSUME NEW u \in Alumnos, NEW e \in k.examenes, Bateria(k)!Mostrar(u, e) PROVE FALSE
    BY <1>3, <2>7 DEF Bateria!Mostrar
  <2>8. ASSUME UNCHANGED Bateria(k)!vars PROVE FALSE
    BY <1>3, <2>8 DEF Bateria!vars
  <2> QED BY <2>1, <2>2, <2>3, <2>4, <2>5, <2>6, <2>7, <2>8, BancoPasos, Zenon
<1>5. PICK r \in k.peticiones : Bateria(k)!calculate_score(r)
  BY <1>4
<1>6. PICK p : p = peticion[r]
  OBVIOUS
<1>7. PICK a : a = [evaluacion |-> p.evaluacion, respuestas |-> p.respuestas, total |-> DOMAIN p.total,
                    aciertos |-> {q \in DOMAIN p.respuestas :
                        Bateria(k)!_answer_is_correct(p.total[q], q, p.respuestas[q])},
                    version |-> pagina[p.usuario].version,
                    sabidas |-> {q \in DOMAIN p.elegido : p.elegido[q] \in pagina[p.usuario].acertadas[q]}]
  OBVIOUS
<1>8. p.pc = "calificar" /\ intentos' = [intentos EXCEPT ![p.usuario] = Append(@, a)]
  BY <1>5, <1>6, <1>7 DEF Bateria!calculate_score
<1>9. p.usuario = s
  <2> SUFFICES ASSUME p.usuario # s PROVE FALSE
    OBVIOUS
  <2>1. intentos'[s] = intentos[s]
    BY <1>1, <1>8
  <2> QED BY <1>2, <2>1
<1>10. intentos'[s] = Append(intentos[s], a) /\ intentos[s] \in Seq(Intento(k))
  BY <1>1, <1>8, <1>9
<1>11. Bateria(k)!Nuevo(s) = a
  <2>1. PICK w : w = intentos[s]
    OBVIOUS
  <2>2. w \in Seq(Intento(k)) /\ intentos'[s] = Append(w, a)
    BY <1>10, <2>1
  <2>3. Len(intentos'[s]) = Len(w) + 1 /\ intentos'[s][Len(w) + 1] = a
    BY <2>2
  <2> QED BY <2>3 DEF Bateria!Nuevo
<1>12. PideForma(k, p) /\ PideAhora(k, p)
  BY <1>6 DEF BancoInv
<1>13. pagina[s].version = version
  BY <1>7, <1>9, <1>11
<1> QED BY <1>7, <1>8, <1>9, <1>11, <1>12, <1>13

\* What is known of it.
LEMMA BancoAlDia ==
    ASSUME NEW k, Bateria(k)!BankAssumption, BancoInv(k), NEW s \in Alumnos,
           NEW p, PideForma(k, p), PideAhora(k, p), p.pc = "calificar", p.usuario = s,
           pagina[s].version = version
    PROVE  /\ DOMAIN p.total = DOMAIN p.elegido
           /\ DOMAIN p.respuestas = {q \in DOMAIN p.elegido : p.elegido[q] # Nada}
           /\ \A q \in DOMAIN p.total :
                 /\ q \in 1..k.preguntas /\ preguntas[q] # Nada /\ p.total[q] = preguntas[q].type
                 /\ p.elegido[q] \in Bateria(k)!Posibles(q) \cup {Nada}
                 /\ pagina[s].acertadas[q] = Bateria(k)!Acertada(q) /\ Nada \notin Bateria(k)!Acertada(q)
                 /\ q \in DOMAIN p.respuestas =>
                       p.respuestas[q] \in
                          Bateria(k)!_resolve_option_ids(q, preguntas[q].type, p.elegido[q])
<1>1. PICK g : g = pagina[s]
  OBVIOUS
<1>2. PaginaAhora(k, g) /\ g.version = version
  BY <1>1 DEF BancoInv
<1>3. /\ g # Nada /\ g.evaluacion = p.evaluacion
      /\ DOMAIN p.elegido = DOMAIN g.posibles
      /\ \A q \in DOMAIN p.elegido : p.elegido[q] \in g.posibles[q] \cup {Nada}
      /\ DOMAIN p.total = Bateria(k)!De(p.evaluacion)
      /\ \A q \in DOMAIN p.total : p.total[q] = preguntas[q].type
      /\ DOMAIN p.respuestas = {q \in DOMAIN p.total \cap DOMAIN p.elegido : p.elegido[q] # Nada}
      /\ \A q \in DOMAIN p.respuestas :
                p.respuestas[q] \in Bateria(k)!_resolve_option_ids(q, p.total[q], p.elegido[q])
  BY <1>1, <1>2 DEF PideAhora
<1>4. /\ DOMAIN g.posibles = Bateria(k)!De(g.evaluacion)
      /\ \A q \in DOMAIN g.posibles :
            g.posibles[q] = Bateria(k)!Posibles(q) /\ g.acertadas[q] = Bateria(k)!Acertada(q)
  BY <1>2, <1>3 DEF PaginaAhora
<1>5. DOMAIN p.total = DOMAIN p.elegido
  BY <1>3, <1>4
<1>6. \A q : Nada \notin Bateria(k)!Acertada(q)
  BY PosiblesDeHoja, BancoConstants
<1>7. \A q \in DOMAIN p.total : q \in 1..k.preguntas /\ preguntas[q] # Nada
  BY <1>3, BancoConjuntos DEF Bateria!De
<1> QED BY <1>1, <1>3, <1>4, <1>5, <1>6, <1>7

\* A question with a clear key counts exactly when the right answer was chosen.
LEMMA BancoCalifica ==
    ASSUME NEW k, Bateria(k)!BankAssumption, BancoInv(k), TextosInv(k),
           [Bateria(k)!Next]_(Bateria(k)!vars)
    PROVE  Bateria(k)!GradedAsShown
<1> SUFFICES ASSUME NEW s \in Alumnos, Bateria(k)!Calificado(s), Bateria(k)!Nuevo(s).version = version,
                    NEW q \in Bateria(k)!Nuevo(s).total, Bateria(k)!Clara(q)
             PROVE  q \in Bateria(k)!Nuevo(s).aciertos <=> q \in Bateria(k)!Nuevo(s).sabidas
  BY DEF Bateria!GradedAsShown
<1>1. PICK p : /\ PideForma(k, p) /\ PideAhora(k, p) /\ p.pc = "calificar" /\ p.usuario = s
               /\ pagina[s].version = version
               /\ Bateria(k)!Nuevo(s).total = DOMAIN p.total
               /\ Bateria(k)!Nuevo(s).aciertos = {m \in DOMAIN p.respuestas :
                     Bateria(k)!_answer_is_correct(p.total[m], m, p.respuestas[m])}
               /\ Bateria(k)!Nuevo(s).sabidas =
                     {m \in DOMAIN p.elegido : p.elegido[m] \in pagina[s].acertadas[m]}
  BY BancoNuevo
<1>2. /\ q \in DOMAIN p.total /\ q \in DOMAIN p.elegido
      /\ q \in DOMAIN p.respuestas <=> p.elegido[q] # Nada
      /\ q \in 1..k.preguntas /\ p.total[q] = preguntas[q].type
      /\ p.elegido[q] \in Bateria(k)!Posibles(q) \cup {Nada}
      /\ pagina[s].acertadas[q] = Bateria(k)!Acertada(q) /\ Nada \notin Bateria(k)!Acertada(q)
      /\ q \in DOMAIN p.respuestas =>
           p.respuestas[q] \in Bateria(k)!_resolve_option_ids(q, preguntas[q].type, p.elegido[q])
  BY <1>1, BancoAlDia
<1>3. CASE p.elegido[q] = Nada
  BY <1>1, <1>2, <1>3
<1>4. CASE p.elegido[q] # Nada
  <2>1. PICK c : c = p.elegido[q]
    OBVIOUS
  <2>2. PICK x : x = p.respuestas[q]
    OBVIOUS
  <2>3. c \in Bateria(k)!Posibles(q) /\ x \in Bateria(k)!_resolve_option_ids(q, preguntas[q].type, c)
    BY <1>2, <1>4, <2>1, <2>2
  <2>4. FilasInv(k) /\ k.preguntas \in Nat /\ q \in 1..k.preguntas
    BY <1>2, BancoConstants DEF BancoInv
  <2>5. Bateria(k)!_answer_is_correct(preguntas[q].type, q, x) <=> c \in Bateria(k)!Acertada(q)
    BY <2>3, <2>4, CuentaElegida
  <2> QED BY <1>1, <1>2, <1>4, <2>1, <2>2, <2>5
<1> QED BY <1>3, <1>4

\* It keeps them.
LEMMA DefectoSigue ==
    ASSUME NEW k, Bateria(k)!BankAssumption, DeFabrica(k), BancoInv(k), DefectoInv(k),
           [Bateria(k)!Next]_(Bateria(k)!vars)
    PROVE  DefectoInv(k)'
<1> DEFINE Fila(o, t) == \/ o[2] = 1 /\ t = "Verdadero"
                         \/ o[2] = 2 /\ t = "Falso"
           Filas == \A o \in Lugares(k) : (opciones'[o] # Nada /\ preguntas'[o[1]].type = "boolean") =>
                       Fila(o, opciones'[o].text)
           Pide(f) == /\ f.pc \notin {"editar", "opcion", "quitar"}
                      /\ f.pc = "cambiar" =>
                            /\ preguntas'[f.opcion[1]] # Nada
                            /\ preguntas'[f.opcion[1]].type = "boolean" => Fila(f.opcion, f.escrito.text)
<1>0. DefectoInv(k)' <=> Filas /\ \A l \in k.peticiones : Pide(peticion'[l])
  BY DEF DefectoInv
<1>1. ASSUME NEW r \in k.peticiones, NEW f, Pasa(k, r, f), Filas, Pide(f),
             \A l \in k.peticiones : Pide(peticion[l])
      PROVE  DefectoInv(k)'
  <2>1. peticion'[r] = f /\ \A l \in k.peticiones : l # r => peticion'[l] = peticion[l]
    BY <1>1, UnaPide DEF BancoInv, Pasa
  <2>2. \A l \in k.peticiones : Pide(peticion'[l])
    <3> TAKE l \in k.peticiones
    <3> HIDE DEF Pide
    <3> QED BY <1>1, <2>1
  <2> HIDE DEF Pide, Filas
  <2> QED BY <1>0, <1>1, <2>2
<1>2. Quedan => Filas /\ \A l \in k.peticiones : Pide(peticion[l])
  BY DEF Quedan, DefectoInv
<1>3. /\ Bateria(k)!Libre.pc = "idle" /\ opciones \in [Lugares(k) -> Alternativa(k) \cup {Nada}]
      /\ preguntas \in [1..k.preguntas -> Reactivo(k) \cup {Nada}]
      /\ \A o \in Lugares(k) : o[1] \in 1..k.preguntas
      /\ \A o \in Lugares(k) : opciones[o] # Nada => preguntas[o[1]] # Nada
  BY PideLibre DEF BancoInv, FilasInv, Lugares
<1>4. ASSUME NEW r \in k.peticiones, Acaba(k, r), Filas, \A l \in k.peticiones : Pide(peticion[l])
      PROVE  DefectoInv(k)'
  <2>1. Pide(Bateria(k)!Libre) /\ Pasa(k, r, Bateria(k)!Libre)
    BY <1>3, <1>4 DEF Acaba
  <2> HIDE DEF Pide, Filas
  <2> QED BY <1>1, <1>4, <2>1
<1>5. CASE Quedan /\ peticion' = peticion
  BY <1>0, <1>2, <1>5
<1>6. ASSUME NEW r \in k.peticiones, NEW f, Sigue(k, r, f) \/ VaPregunta(k, r, f) PROVE DefectoInv(k)'
  <2>1. Pide(f) /\ Quedan /\ Pasa(k, r, f)
    BY <1>6 DEF Sigue, VaPregunta, Comienza, DeFabrica
  <2> HIDE DEF Pide, Filas
  <2> QED BY <1>1, <1>2, <2>1
<1>7. ASSUME NEW r \in k.peticiones, NEW f, VaCambio(k, r, f) PROVE DefectoInv(k)'
  <2>1. /\ Quedan /\ Pasa(k, r, f) /\ f.pc = "cambiar" /\ f.opcion \in Lugares(k) /\ opciones[f.opcion] # Nada
        /\ f.escrito.text = opciones[f.opcion].text
    BY <1>7 DEF VaCambio, Comienza, DeFabrica
  <2>2. preguntas[f.opcion[1]] # Nada
    BY <1>3, <2>1
  <2>3. preguntas[f.opcion[1]].type = "boolean" => Fila(f.opcion, f.escrito.text)
    BY <2>1 DEF DefectoInv
  <2>4. Pide(f)
    BY <2>1, <2>2, <2>3 DEF Quedan
  <2> HIDE DEF Pide, Filas
  <2> QED BY <1>1, <1>2, <2>1, <2>4
<1>8. ASSUME NEW r \in k.peticiones, HacePregunta(k, r) PROVE DefectoInv(k)'
  <2>1. PICK q : q = usadas.preguntas + 1
    OBVIOUS
  <2>2. PICK p : p = peticion[r].escrito
    OBVIOUS
  <2>3. /\ Acaba(k, r) /\ p \in Reactivo(k) /\ q \in 1..k.preguntas /\ preguntas[q] = Nada
        /\ preguntas' = [preguntas EXCEPT ![q] = p]
        /\ opciones' = [o \in Lugares(k) |-> IF o[1] = q /\ o[2] <= Bateria(k)!Cuantas(p.type)
              THEN [text |-> Bateria(k)!Defecto(p.type, o[2]), is_correct |-> FALSE] ELSE opciones[o]]
    BY <1>8, <2>1, <2>2 DEF HacePregunta
  <2>4. preguntas'[q] = p /\ \A m \in 1..k.preguntas : m # q => preguntas'[m] = preguntas[m]
    BY <1>3, <2>3
  <2>5. Filas
    <3> SUFFICES ASSUME NEW o \in Lugares(k), opciones'[o] # Nada, preguntas'[o[1]].type = "boolean"
                 PROVE  Fila(o, opciones'[o].text)
      OBVIOUS
    <3>1. CASE o[1] = q /\ o[2] <= Bateria(k)!Cuantas(p.type)
      <4>1. o[2] \in Nat /\ 1 <= o[2] /\ p.type = "boolean"
        BY <2>4, <3>1 DEF Lugares
      <4>2. o[2] \in {1, 2}
        BY <3>1, <4>1 DEF Bateria!Cuantas
      <4>3. opciones'[o].text = <<"Verdadero", "Falso">>[o[2]]
        BY <2>3, <3>1, <4>1 DEF Bateria!Defecto
      <4> QED BY <4>2, <4>3
    <3>2. CASE ~(o[1] = q /\ o[2] <= Bateria(k)!Cuantas(p.type))
      BY <2>3, <3>2, <1>3, <2>4 DEF DefectoInv
    <3> QED BY <3>1, <3>2
  <2>6. \A l \in k.peticiones : Pide(peticion[l])
    <3> SUFFICES ASSUME NEW l \in k.peticiones PROVE Pide(peticion[l])
      OBVIOUS
    <3>1. PICK f : f = peticion[l]
      OBVIOUS
    <3>2. PICK o : o = f.opcion
      OBVIOUS
    <3>3. /\ f.pc \notin {"editar", "opcion", "quitar"}
          /\ f.pc = "cambiar" =>
                /\ preguntas[o[1]] # Nada
                /\ preguntas[o[1]].type = "boolean" => Fila(o, f.escrito.text)
      BY <3>1, <3>2 DEF DefectoInv
    <3>4. f.pc = "cambiar" => o \in Lugares(k)
      BY <3>1, <3>2 DEF BancoInv, PideForma
    <3>5. f.pc = "cambiar" => preguntas'[o[1]] = preguntas[o[1]]
      BY <1>3, <2>3, <2>4, <3>3, <3>4
    <3>6. Pide(f)
      BY <3>2, <3>3, <3>5
    <3> QED BY <3>1, <3>6
  <2> HIDE DEF Pide, Filas
  <2> QED BY <1>4, <2>3, <2>5, <2>6
<1>9. ASSUME NEW r \in k.peticiones, HaceCambio(k, r) PROVE DefectoInv(k)'
  <2>1. PICK p : p = peticion[r]
    OBVIOUS
  <2>2. PICK x : x = Bateria(k)!Distintos(p.leido, p.escrito, opciones[p.opcion])
    OBVIOUS
  <2>3. /\ Acaba(k, r) /\ p.pc = "cambiar" /\ p.opcion \in Lugares(k)
        /\ p.leido \in Alternativa(k) /\ p.escrito \in Alternativa(k) /\ opciones[p.opcion] \in Alternativa(k)
        /\ opciones' = [opciones EXCEPT ![p.opcion] = x] /\ preguntas' = preguntas
    BY <1>9, <2>1, <2>2 DEF HaceCambio
  <2>4. x.text \in {p.escrito.text, opciones[p.opcion].text}
    BY <2>2, <2>3, AlternativaDistinta
  <2>5. opciones[p.opcion] # Nada
    BY <2>3, BancoConstants
  <2>6. preguntas[p.opcion[1]].type = "boolean" => Fila(p.opcion, x.text)
    BY <2>1, <2>3, <2>4, <2>5 DEF DefectoInv
  <2>7. Filas
    BY <1>3, <2>3, <2>6 DEF DefectoInv
  <2>8. \A l \in k.peticiones : Pide(peticion[l])
    BY <2>3 DEF DefectoInv
  <2> HIDE DEF Pide, Filas
  <2> QED BY <1>4, <2>3, <2>7, <2>8
<1>10. ASSUME NEW r \in k.peticiones, HaceEdicion(k, r) \/ HaceOpcion(k, r) \/ HaceQuita(k, r) PROVE FALSE
  BY <1>10 DEF HaceEdicion, HaceOpcion, HaceQuita, DefectoInv
<1>11. ASSUME NEW r \in k.peticiones, NEW f, VaOpcion(k, r, f) \/ VaQuita(k, r, f) PROVE FALSE
  BY <1>11 DEF VaOpcion, VaQuita, DeFabrica
<1>12. ASSUME NEW q \in 1..k.preguntas, Borra(k, q) PROVE FALSE
  BY <1>12 DEF Borra, DeFabrica
<1> HIDE DEF Filas, Pide, Fila
<1> QED BY <1>5, <1>6, <1>7, <1>8, <1>9, <1>10, <1>11, <1>12, BancoTransita, Zenon

\* ... and has them at first.
LEMMA DefectoEmpieza ==
    ASSUME NEW k, Bateria(k)!BankAssumption, k.sembradas = {}, Bateria(k)!Init
    PROVE  DefectoInv(k)
<1>1. Cardinality(k.sembradas) = 0 /\ Cardinality(k.examenes) \in Nat
  BY FS_EmptySet, DuenoPuede
<1>2. usadas.preguntas = 0
  <2>1. PICK n : n = Cardinality(k.examenes)
    OBVIOUS
  <2>2. Cardinality(k.sembradas) \in {0, 1}
    BY <1>1
  <2>3. usadas.preguntas = n * 0
    BY <1>1, <2>1, <2>2, BancoSembrado
  <2>4. n \in Nat
    BY <1>1, <2>1
  <2> QED BY <2>3, <2>4
<1>3. \A o \in Lugares(k) : opciones[o] = Nada
  <2> TAKE o \in Lugares(k)
  <2>1. o[1] > usadas.preguntas
    BY <1>2 DEF Lugares
  <2> QED BY <1>1, <2>1, BancoSembrado
<1>4. \A r \in k.peticiones : peticion[r].pc = "idle"
  BY PideLibre DEF Bateria!Init
<1> QED BY <1>3, <1>4 DEF DefectoInv

\* The right button counts.
LEMMA BancoAcierta ==
    ASSUME NEW k, Bateria(k)!BankAssumption, BancoInv(k), DefectoInv(k),
           [Bateria(k)!Next]_(Bateria(k)!vars)
    PROVE  Bateria(k)!RightButtonCounts
<1> SUFFICES ASSUME NEW s \in Alumnos, Bateria(k)!Calificado(s), Bateria(k)!Nuevo(s).version = version,
                    NEW q \in Bateria(k)!Nuevo(s).sabidas, preguntas[q].type = "boolean"
             PROVE  q \in Bateria(k)!Nuevo(s).aciertos
  BY DEF Bateria!RightButtonCounts
<1>1. PICK p : /\ PideForma(k, p) /\ PideAhora(k, p) /\ p.pc = "calificar" /\ p.usuario = s
               /\ pagina[s].version = version
               /\ Bateria(k)!Nuevo(s).total = DOMAIN p.total
               /\ Bateria(k)!Nuevo(s).aciertos = {m \in DOMAIN p.respuestas :
                     Bateria(k)!_answer_is_correct(p.total[m], m, p.respuestas[m])}
               /\ Bateria(k)!Nuevo(s).sabidas =
                     {m \in DOMAIN p.elegido : p.elegido[m] \in pagina[s].acertadas[m]}
  BY BancoNuevo
<1>2. /\ q \in DOMAIN p.elegido /\ p.elegido[q] \in pagina[s].acertadas[q]
      /\ DOMAIN p.total = DOMAIN p.elegido
  BY <1>1, BancoAlDia
<1>3. /\ q \in DOMAIN p.respuestas <=> p.elegido[q] # Nada
      /\ q \in 1..k.preguntas /\ p.total[q] = preguntas[q].type
      /\ pagina[s].acertadas[q] = Bateria(k)!Acertada(q) /\ Nada \notin Bateria(k)!Acertada(q)
      /\ q \in DOMAIN p.respuestas =>
           p.respuestas[q] \in Bateria(k)!_resolve_option_ids(q, preguntas[q].type, p.elegido[q])
  BY <1>1, <1>2, BancoAlDia
<1>4. PICK c : c = p.elegido[q]
  OBVIOUS
<1>5. PICK x : x = p.respuestas[q]
  OBVIOUS
<1>6. /\ q \in DOMAIN p.respuestas /\ c \in Bateria(k)!Acertada(q)
      /\ x \in Bateria(k)!_resolve_option_ids(q, "boolean", c)
  BY <1>2, <1>3, <1>4, <1>5
<1>7. /\ Bateria(k)!Claves(q) \subseteq Bateria(k)!OpcionesDe(q)
      /\ \A o \in Bateria(k)!OpcionesDe(q) : o \in Lugares(k) /\ o[1] = q /\ opciones[o] # Nada
  BY PosiblesDeHoja, BancoConjuntos DEF Bateria!OpcionesDe
<1>8. \A o \in Bateria(k)!OpcionesDe(q) :
         \/ o = <<q, 1>> /\ opciones[o].text = "Verdadero"
         \/ o = <<q, 2>> /\ opciones[o].text = "Falso"
  <2> TAKE o \in Bateria(k)!OpcionesDe(q)
  <2>1. o = <<q, o[2]>>
    BY <1>7 DEF Lugares
  <2>2. \/ o[2] = 1 /\ opciones[o].text = "Verdadero"
        \/ o[2] = 2 /\ opciones[o].text = "Falso"
    BY <1>7 DEF DefectoInv
  <2> QED BY <2>1, <2>2
<1>9. PICK o \in Bateria(k)!Claves(q) : \E v \in Bateria(k)!Significado(opciones[o].text) : c = Bateria(k)!UnRadio(v)
  <2>1. PICK W : W = UNION {Bateria(k)!Significado(opciones[o].text) : o \in Bateria(k)!Claves(q)}
    OBVIOUS
  <2>2. Bateria(k)!Acertada(q) = {Bateria(k)!UnRadio(w) : w \in W}
    BY <2>1 DEF Bateria!Acertada
  <2>3. PICK w \in W : c = Bateria(k)!UnRadio(w)
    BY <1>6, <2>2
  <2>4. \E o \in Bateria(k)!Claves(q) : w \in Bateria(k)!Significado(opciones[o].text)
    BY <2>1
  <2> QED BY <2>3, <2>4
<1>10. PICK t : t = opciones[o].text
  OBVIOUS
<1>11. o \in Bateria(k)!OpcionesDe(q) /\ t \in {"Verdadero", "Falso"}
  BY <1>7, <1>8, <1>10
<1>12. Bateria(k)!Significado(t) = {t}
  BY <1>11 DEF Bateria!Significado
<1>13. c.radio = {t}
  BY <1>9, <1>10, <1>12 DEF Bateria!UnRadio
<1>14. PICK m \in Bateria(k)!OpcionesDe(q) : opciones[m].text = t /\ x = {m}
  BY <1>6, <1>10, <1>11, <1>13 DEF Bateria!_resolve_option_ids
<1>15. m = o
  BY <1>8, <1>10, <1>11, <1>14
<1>16. Cardinality(x) = 1 /\ x \subseteq Bateria(k)!Claves(q)
  BY <1>14, <1>15, FS_Singleton
<1>17. Bateria(k)!_answer_is_correct("boolean", q, x)
  BY <1>16, BancoConjuntos DEF Bateria!_answer_is_correct
<1> QED BY <1>1, <1>3, <1>5, <1>6, <1>17

\* Two are two, at least.
LEMMA DosAlMenos ==
    ASSUME NEW S, IsFiniteSet(S), NEW a \in S, NEW b \in S, a # b
    PROVE  Cardinality(S) >= 2
<1>1. IsFiniteSet({a}) /\ Cardinality({a}) = 1
  BY FS_Singleton
<1>2. Cardinality({a} \cup {b}) = 2 /\ IsFiniteSet({a} \cup {b})
  BY <1>1, FS_AddElement
<1>3. {a} \cup {b} \subseteq S
  OBVIOUS
<1>4. Cardinality({a} \cup {b}) <= Cardinality(S)
  BY <1>3, FS_Subset
<1>5. Cardinality(S) \in Nat
  BY FS_CardinalityType
<1> QED BY <1>2, <1>4, <1>5

\* The options of a question are finitely many.
LEMMA OpcionesContadas ==
    ASSUME NEW k, Bateria(k)!BankAssumption, NEW S, S \subseteq Lugares(k)
    PROVE  IsFiniteSet(S) /\ Cardinality(S) \in Nat
<1>1. IsFiniteSet(1..k.preguntas) /\ IsFiniteSet(1..k.opciones)
  BY BancoConstants, FS_Interval
<1>2. IsFiniteSet(Lugares(k))
  BY <1>1, FS_Product DEF Lugares
<1> QED BY <1>2, FS_Subset, FS_CardinalityType

\* A request ends, alone, with its rows in order.
LEMMA NumeradoAcaba ==
    ASSUME NEW k, BancoInv(k), \A r, l \in k.peticiones : r = l, NEW r \in k.peticiones, NEW f,
           Pasa(k, r, f), f.pc \notin {"pregunta", "quitar"}, FilasLuego(k)
    PROVE  NumeradoInv(k)'
<1>1. peticion'[r] = f
  BY UnaPide DEF BancoInv, Pasa
<1>2. \A l \in k.peticiones : peticion'[l] = f
  BY <1>1
<1> QED BY <1>2 DEF NumeradoInv, FilasLuego

\* The options of a question that keeps them.
LEMMA CuentaQueda ==
    ASSUME NEW k, NEW q, \A o \in Lugares(k) : o[1] = q => (opciones'[o] = Nada <=> opciones[o] = Nada)
    PROVE  Bateria(k)!OpcionesDe(q)' = Bateria(k)!OpcionesDe(q) /\ Cuenta(k, q)' = Cuenta(k, q)
<1>1. Bateria(k)!OpcionesDe(q)' = Bateria(k)!OpcionesDe(q)
  BY BancoConjuntos DEF Bateria!OpcionesDe
<1> QED BY <1>1 DEF Cuenta

\* The order and the number of options stay.
LEMMA NumeradoSigue ==
    ASSUME NEW k, Bateria(k)!BankAssumption, \A r, l \in k.peticiones : r = l, BancoInv(k), NumeradoInv(k),
           [Bateria(k)!Next]_(Bateria(k)!vars)
    PROVE  NumeradoInv(k)'
<1>1. /\ Bateria(k)!Libre.pc = "idle" /\ opciones \in [Lugares(k) -> Alternativa(k) \cup {Nada}]
      /\ preguntas \in [1..k.preguntas -> Reactivo(k) \cup {Nada}]
      /\ \A o \in Lugares(k) : o[1] \in 1..k.preguntas /\ o[2] \in 1..k.opciones /\ o = <<o[1], o[2]>>
      /\ \A o \in Lugares(k) : opciones[o] # Nada => preguntas[o[1]] # Nada
      /\ k.preguntas \in Nat /\ k.opciones \in Nat /\ k.opciones >= 4
      /\ Nada \notin Reactivo(k) /\ Nada \notin Alternativa(k)
  BY PideLibre, BancoConstants DEF BancoInv, FilasInv, Lugares
<1>2. ASSUME NEW r \in k.peticiones, Acaba(k, r), FilasLuego(k) PROVE NumeradoInv(k)'
  BY <1>1, <1>2, NumeradoAcaba DEF Acaba
<1>3. Quedan => FilasLuego(k) /\ \A q : Cuenta(k, q)' = Cuenta(k, q)
  <2> SUFFICES ASSUME Quedan PROVE FilasLuego(k) /\ \A q : Cuenta(k, q)' = Cuenta(k, q)
    OBVIOUS
  <2>1. \A q : Cuenta(k, q)' = Cuenta(k, q)
    BY BancoQuieto DEF Quedan, Cuenta
  <2> QED BY <2>1 DEF FilasLuego, NumeradoInv, Quedan
<1>4. CASE Quedan /\ peticion' = peticion
  BY <1>3, <1>4 DEF NumeradoInv, FilasLuego, Quedan
<1>5. ASSUME NEW r \in k.peticiones, NEW f,
             Sigue(k, r, f) \/ VaOpcion(k, r, f) \/ VaCambio(k, r, f)
      PROVE  NumeradoInv(k)'
  BY <1>5, <1>3, NumeradoAcaba DEF Sigue, VaOpcion, VaCambio, Comienza
<1>6. ASSUME NEW r \in k.peticiones, NEW f, VaPregunta(k, r, f) PROVE NumeradoInv(k)'
  <2>1. PICK e \in k.examenes : f.escrito.evaluacion = e /\ f.escrito.order = Bateria(k)!Siguiente(e)
    BY <1>6 DEF VaPregunta
  <2>2. Quedan /\ f.pc = "pregunta" /\ peticion'[r] = f
    BY <1>6, UnaPide DEF VaPregunta, Comienza, BancoInv, Pasa
  <2>3. \A q \in 1..k.preguntas : (preguntas[q] # Nada /\ preguntas[q].evaluacion = e)
           => preguntas[q].order < f.escrito.order
    <3> TAKE q \in 1..k.preguntas
    <3> HAVE preguntas[q] # Nada /\ preguntas[q].evaluacion = e
    <3>1. q \in Bateria(k)!De(e)
      BY BancoConjuntos DEF Bateria!De
    <3>2. FilasInv(k)
      BY DEF BancoInv
    <3> QED BY <2>1, <3>1, <3>2, SiguienteOrden
  <2>4. \A l \in k.peticiones : peticion'[l] = f
    BY <2>2
  <2> QED BY <1>3, <2>1, <2>2, <2>3, <2>4 DEF NumeradoInv, FilasLuego, Quedan
<1>7. ASSUME NEW r \in k.peticiones, NEW f, VaQuita(k, r, f) PROVE NumeradoInv(k)'
  <2>1. Quedan /\ f.pc = "quitar" /\ peticion'[r] = f /\ Cuenta(k, f.opcion[1]) > 2
    BY <1>7, UnaPide DEF VaQuita, Comienza, BancoInv, Pasa, Cuenta
  <2>2. \A l \in k.peticiones : peticion'[l] = f
    BY <2>1
  <2>3. Cuenta(k, f.opcion[1])' > 2
    BY <1>3, <2>1
  <2>4. \A l \in k.peticiones : Cuenta(k, peticion[l].opcion[1])' > 2 /\ peticion'[l].pc = "quitar"
    BY <2>1, <2>2, <2>3
  <2> QED BY <1>3, <2>1, <2>4 DEF NumeradoInv, FilasLuego
<1>8. ASSUME NEW r \in k.peticiones, HacePregunta(k, r) PROVE NumeradoInv(k)'
  <2>1. PICK q : q = usadas.preguntas + 1
    OBVIOUS
  <2>2. PICK p : p = peticion[r].escrito
    OBVIOUS
  <2>3. /\ Acaba(k, r) /\ p \in Reactivo(k) /\ q \in 1..k.preguntas /\ preguntas[q] = Nada
        /\ peticion[r].pc = "pregunta"
        /\ preguntas' = [preguntas EXCEPT ![q] = p]
        /\ opciones' = [o \in Lugares(k) |-> IF o[1] = q /\ o[2] <= Bateria(k)!Cuantas(p.type)
              THEN [text |-> Bateria(k)!Defecto(p.type, o[2]), is_correct |-> FALSE] ELSE opciones[o]]
    BY <1>8, <2>1, <2>2 DEF HacePregunta
  <2>4. preguntas'[q] = p /\ \A m \in 1..k.preguntas : m # q => preguntas'[m] = preguntas[m]
    BY <1>1, <2>3
  <2>5. \A m \in 1..k.preguntas : (preguntas[m] # Nada /\ preguntas[m].evaluacion = p.evaluacion)
           => preguntas[m].order < p.order
    BY <2>2, <2>3 DEF NumeradoInv
  <2>6. \A m \in 1..k.preguntas : preguntas[m] # Nada => preguntas[m].order \in Nat
    BY <1>1 DEF Reactivo
  <2>7. p.order \in Nat
    BY <1>1, <2>3 DEF Reactivo
  <2>8. \A a, b \in 1..k.preguntas :
          (/\ preguntas'[a] # Nada /\ preguntas'[b] # Nada
           /\ preguntas'[a].evaluacion = preguntas'[b].evaluacion
           /\ preguntas'[a].order = preguntas'[b].order) => a = b
    <3> TAKE a, b \in 1..k.preguntas
    <3> HAVE /\ preguntas'[a] # Nada /\ preguntas'[b] # Nada
             /\ preguntas'[a].evaluacion = preguntas'[b].evaluacion
             /\ preguntas'[a].order = preguntas'[b].order
    <3>1. CASE a # q /\ b # q
      BY <2>4, <3>1 DEF NumeradoInv
    <3>2. CASE a = q /\ b # q
      BY <2>4, <2>5, <2>6, <2>7, <3>2
    <3>3. CASE a # q /\ b = q
      BY <2>4, <2>5, <2>6, <2>7, <3>3
    <3> QED BY <3>1, <3>2, <3>3
  <2>9. Cuenta(k, q)' >= 2
    <3>1. <<q, 1>> \in Lugares(k) /\ <<q, 2>> \in Lugares(k)
      BY <1>1, <2>3 DEF Lugares
    <3>3. \A o \in Lugares(k) : o[1] = q /\ o[2] \in {1, 2} => opciones'[o] # Nada
      <4> SUFFICES ASSUME NEW o \in Lugares(k), o[1] = q, o[2] \in {1, 2} PROVE opciones'[o] # Nada
        OBVIOUS
      <4>1. o[2] <= Bateria(k)!Cuantas(p.type)
        BY DEF Bateria!Cuantas
      <4>2. opciones'[o] = [text |-> Bateria(k)!Defecto(p.type, o[2]), is_correct |-> FALSE]
        BY <2>3, <4>1
      <4>3. PICK t : t = Bateria(k)!Defecto(p.type, o[2])
        OBVIOUS
      <4>4. t \in Bateria(k)!TextosDeOpcion
        BY <4>3 DEF Bateria!Defecto, Bateria!TextosDeOpcion, Bateria!Radio
      <4>5. opciones'[o] \in Alternativa(k)
        BY <4>2, <4>3, <4>4 DEF Alternativa
      <4> QED BY <1>1, <4>5
    <3>6. opciones'[<<q, 1>>] # Nada /\ opciones'[<<q, 2>>] # Nada
      <4>1. PICK o : o = <<q, 1>>
        OBVIOUS
      <4>2. PICK m : m = <<q, 2>>
        OBVIOUS
      <4>3. o \in Lugares(k) /\ m \in Lugares(k) /\ o[1] = q /\ o[2] = 1 /\ m[1] = q /\ m[2] = 2
        BY <3>1, <4>1, <4>2
      <4>4. opciones'[o] # Nada /\ opciones'[m] # Nada
        BY <3>3, <4>3
      <4> QED BY <4>1, <4>2, <4>4
    <3>7. <<q, 1>> \in Bateria(k)!OpcionesDe(q)' /\ <<q, 2>> \in Bateria(k)!OpcionesDe(q)'
      BY <3>1, <3>6, BancoConjuntos DEF Bateria!OpcionesDe
    <3>8. PICK S : S = Bateria(k)!OpcionesDe(q)'
      OBVIOUS
    <3>9. S \subseteq Lugares(k)
      BY <3>8, BancoConjuntos DEF Bateria!OpcionesDe
    <3>10. IsFiniteSet(S) /\ <<q, 1>> # <<q, 2>>
      BY <3>9, OpcionesContadas
    <3>11. Cardinality(S) >= 2
      BY <3>7, <3>8, <3>10, DosAlMenos
    <3> QED BY <3>8, <3>11 DEF Cuenta
  <2>10. \A m \in 1..k.preguntas : preguntas'[m] # Nada => Cuenta(k, m)' >= 2
    <3> TAKE m \in 1..k.preguntas
    <3> HAVE preguntas'[m] # Nada
    <3>1. CASE m = q
      BY <2>9, <3>1
    <3>2. CASE m # q
      BY <2>3, <3>2, CuentaQueda, <2>4 DEF NumeradoInv
    <3> QED BY <3>1, <3>2
  <2> QED BY <1>2, <2>3, <2>8, <2>10 DEF FilasLuego
<1>9. ASSUME NEW r \in k.peticiones, HaceEdicion(k, r) PROVE NumeradoInv(k)'
  <2>1. PICK p : p = peticion[r]
    OBVIOUS
  <2>2. PICK q : q = p.pregunta
    OBVIOUS
  <2>3. PICK x : x = Bateria(k)!Distintos(p.leido, p.escrito, preguntas[q])
    OBVIOUS
  <2>4. /\ Acaba(k, r) /\ q \in 1..k.preguntas /\ p.leido \in Reactivo(k) /\ p.escrito \in Reactivo(k)
        /\ p.escrito.evaluacion = p.leido.evaluacion /\ p.escrito.order = p.leido.order
        /\ preguntas[q] \in Reactivo(k) /\ preguntas' = [preguntas EXCEPT ![q] = x] /\ opciones' = opciones
    BY <1>9, <2>1, <2>2, <2>3 DEF HaceEdicion
  <2>5. x.evaluacion = preguntas[q].evaluacion /\ x.order = preguntas[q].order
    BY <2>3, <2>4, ReactivoDistinto
  <2>6. \A m \in 1..k.preguntas : preguntas'[m] # Nada =>
           /\ preguntas[m] # Nada /\ preguntas'[m].evaluacion = preguntas[m].evaluacion
           /\ preguntas'[m].order = preguntas[m].order
    BY <1>1, <2>4, <2>5
  <2>7. \A m \in 1..k.preguntas : Cuenta(k, m)' = Cuenta(k, m)
    BY <2>4, CuentaQueda
  <2>8. FilasLuego(k)
    BY <2>6, <2>7 DEF FilasLuego, NumeradoInv
  <2> QED BY <1>2, <2>4, <2>8
<1>10. ASSUME NEW r \in k.peticiones, HaceOpcion(k, r) PROVE NumeradoInv(k)'
  <2>1. PICK o \in Lugares(k) : o[1] = peticion[r].pregunta /\ opciones' = [opciones EXCEPT ![o] = peticion[r].escrito]
    BY <1>10 DEF HaceOpcion
  <2>2. Acaba(k, r) /\ peticion[r].escrito \in Alternativa(k) /\ preguntas' = preguntas
    BY <1>10 DEF HaceOpcion
  <2>3. \A l \in Lugares(k) : opciones[l] # Nada => opciones'[l] # Nada
    BY <1>1, <2>1, <2>2
  <2>4. \A m \in 1..k.preguntas : preguntas'[m] # Nada => Cuenta(k, m)' >= 2
    <3> TAKE m \in 1..k.preguntas
    <3> HAVE preguntas'[m] # Nada
    <3>1. PICK S : S = Bateria(k)!OpcionesDe(m)
      OBVIOUS
    <3>2. PICK T : T = Bateria(k)!OpcionesDe(m)'
      OBVIOUS
    <3>3. S \subseteq T /\ T \subseteq Lugares(k)
      BY <2>3, <3>1, <3>2, BancoConjuntos DEF Bateria!OpcionesDe
    <3>4. IsFiniteSet(T) /\ Cardinality(T) \in Nat /\ Cardinality(S) \in Nat
      BY <3>3, OpcionesContadas
    <3>5. Cardinality(S) <= Cardinality(T)
      BY <3>3, <3>4, FS_Subset
    <3>6. Cardinality(S) >= 2
      BY <2>2, <3>1 DEF NumeradoInv, Cuenta
    <3> QED BY <3>2, <3>4, <3>5, <3>6 DEF Cuenta
  <2>5. FilasLuego(k)
    BY <2>2, <2>4 DEF FilasLuego, NumeradoInv
  <2> QED BY <1>2, <2>2, <2>5
<1>11. ASSUME NEW r \in k.peticiones, HaceCambio(k, r) PROVE NumeradoInv(k)'
  <2>1. PICK p : p = peticion[r]
    OBVIOUS
  <2>2. PICK x : x = Bateria(k)!Distintos(p.leido, p.escrito, opciones[p.opcion])
    OBVIOUS
  <2>3. /\ Acaba(k, r) /\ p.opcion \in Lugares(k)
        /\ p.leido \in Alternativa(k) /\ p.escrito \in Alternativa(k) /\ opciones[p.opcion] \in Alternativa(k)
        /\ opciones' = [opciones EXCEPT ![p.opcion] = x] /\ preguntas' = preguntas
    BY <1>11, <2>1, <2>2 DEF HaceCambio
  <2>4. x \in Alternativa(k)
    BY <2>2, <2>3, AlternativaDistinta
  <2>5. \A l \in Lugares(k) : opciones[l] = Nada <=> opciones'[l] = Nada
    BY <1>1, <2>3, <2>4
  <2>6. \A m \in 1..k.preguntas : Cuenta(k, m)' = Cuenta(k, m)
    BY <2>5, CuentaQueda
  <2>7. FilasLuego(k)
    BY <2>3, <2>6 DEF FilasLuego, NumeradoInv
  <2> QED BY <1>2, <2>3, <2>7
<1>12. ASSUME NEW r \in k.peticiones, HaceQuita(k, r) PROVE NumeradoInv(k)'
  <2>1. PICK o : o = peticion[r].opcion
    OBVIOUS
  <2>2. /\ Acaba(k, r) /\ o \in Lugares(k) /\ opciones' = [opciones EXCEPT ![o] = Nada]
        /\ preguntas' = preguntas /\ Cuenta(k, o[1]) > 2
    BY <1>12, <2>1 DEF HaceQuita, NumeradoInv
  <2>3. opciones'[o] = Nada /\ \A l \in Lugares(k) : l # o => opciones'[l] = opciones[l]
    BY <1>1, <2>2
  <2>4. Cuenta(k, o[1])' >= 2
    <3>1. PICK S : S = Bateria(k)!OpcionesDe(o[1])
      OBVIOUS
    <3>2. Bateria(k)!OpcionesDe(o[1])' = S \ {o} /\ S \subseteq Lugares(k)
      BY <2>3, <3>1, BancoConjuntos DEF Bateria!OpcionesDe
    <3>3. IsFiniteSet(S) /\ Cardinality(S) \in Nat /\ Cardinality(S) > 2
      BY <2>2, <3>1, <3>2, OpcionesContadas DEF Cuenta
    <3>4. Cardinality(S \ {o}) >= Cardinality(S) - 1
      <4>1. CASE o \in S
        <5>1. Cardinality(S \ {o}) = Cardinality(S) - 1
          BY <3>3, <4>1, FS_RemoveElement
        <5> QED BY <3>3, <5>1
      <4>2. CASE o \notin S
        BY <4>2, <3>3
      <4> QED BY <4>1, <4>2
    <3>5. Cardinality(S \ {o}) \in Nat
      BY <3>2, OpcionesContadas
    <3>6. Cardinality(S \ {o}) >= 2
      BY <3>3, <3>4, <3>5
    <3> QED BY <3>2, <3>6 DEF Cuenta
  <2>5. \A m \in 1..k.preguntas : preguntas'[m] # Nada => Cuenta(k, m)' >= 2
    <3> TAKE m \in 1..k.preguntas
    <3> HAVE preguntas'[m] # Nada
    <3>1. CASE m = o[1]
      BY <2>4, <3>1
    <3>2. CASE m # o[1]
      BY <2>3, <3>2, CuentaQueda, <2>2 DEF NumeradoInv
    <3> QED BY <3>1, <3>2
  <2>6. FilasLuego(k)
    BY <2>2, <2>5 DEF FilasLuego, NumeradoInv
  <2> QED BY <1>2, <2>2, <2>6
<1>13. ASSUME NEW q \in 1..k.preguntas, Borra(k, q) PROVE NumeradoInv(k)'
  <2>1. PICK r \in k.peticiones : peticion[r].pc = "idle"
    BY <1>13 DEF Borra
  <2>2. \A l \in k.peticiones : peticion'[l].pc = "idle"
    BY <1>13, <2>1 DEF Borra
  <2>3. /\ preguntas' = [preguntas EXCEPT ![q] = Nada]
        /\ opciones' = [o \in Lugares(k) |-> IF o[1] = q THEN Nada ELSE opciones[o]]
    BY <1>13 DEF Borra
  <2>4. preguntas'[q] = Nada /\ \A m \in 1..k.preguntas : m # q => preguntas'[m] = preguntas[m]
    BY <1>1, <2>3
  <2>5. \A m \in 1..k.preguntas : preguntas'[m] # Nada => Cuenta(k, m)' >= 2
    <3> TAKE m \in 1..k.preguntas
    <3> HAVE preguntas'[m] # Nada
    <3>1. m # q
      BY <2>4
    <3>2. \A o \in Lugares(k) : o[1] = m => (opciones'[o] = Nada <=> opciones[o] = Nada)
      BY <2>3, <3>1
    <3>3. Cuenta(k, m)' = Cuenta(k, m)
      BY <3>2, CuentaQueda
    <3> QED BY <2>4, <3>1, <3>3 DEF NumeradoInv
  <2>6. FilasLuego(k)
    BY <2>4, <2>5 DEF FilasLuego, NumeradoInv
  <2> QED BY <2>2, <2>6 DEF NumeradoInv, FilasLuego
<1> QED BY <1>4, <1>5, <1>6, <1>7, <1>8, <1>9, <1>10, <1>11, <1>12, <1>13, BancoTransita, Zenon

\* The seeded questions are of different evaluations.
LEMMA SembradasDistintas ==
    ASSUME NEW k, Bateria(k)!BankAssumption, Cardinality(k.sembradas) \in {0, 1}, Bateria(k)!Init
    PROVE  \A a, b \in 1..k.preguntas :
              (/\ preguntas[a] # Nada /\ preguntas[b] # Nada
               /\ preguntas[a].evaluacion = preguntas[b].evaluacion) => a = b
<1>1. PICK n : n = Cardinality(k.examenes)
  OBVIOUS
<1>2. n \in Nat /\ k.preguntas \in Nat
  BY <1>1, DuenoPuede, BancoConstants
<1>3. \A q \in 1..k.preguntas : preguntas[q] # Nada =>
         q - 1 \in 0..n - 1 /\ preguntas[q].evaluacion = Bateria(k)!Dueno[q - 1]
  <2> TAKE q \in 1..k.preguntas
  <2> HAVE preguntas[q] # Nada
  <2>1. usadas.preguntas \in 0..k.preguntas
    BY BancoSembrado
  <2>2. q > usadas.preguntas => preguntas[q] = Nada
    BY BancoSembrado
  <2>3. q <= usadas.preguntas
    BY <1>2, <2>1, <2>2
  <2>4. preguntas[q].evaluacion = Bateria(k)!Dueno[q - 1]
    BY <2>3, BancoSembrado
  <2>5. usadas.preguntas = n * Cardinality(k.sembradas)
    BY <1>1, BancoSembrado
  <2>6. q <= n
    <3>1. CASE Cardinality(k.sembradas) = 0
      BY <2>5, <3>1, <1>2, <2>3
    <3>2. CASE Cardinality(k.sembradas) = 1
      BY <2>5, <3>2, <1>2, <2>3
    <3> QED BY <3>1, <3>2
  <2> QED BY <1>2, <2>4, <2>6
<1> TAKE a, b \in 1..k.preguntas
<1> HAVE /\ preguntas[a] # Nada /\ preguntas[b] # Nada
         /\ preguntas[a].evaluacion = preguntas[b].evaluacion
<1>4. PICK i : i = a - 1
  OBVIOUS
<1>5. PICK j : j = b - 1
  OBVIOUS
<1>6. i \in 0..n - 1 /\ j \in 0..n - 1 /\ Bateria(k)!Dueno[i] = Bateria(k)!Dueno[j]
  BY <1>3, <1>4, <1>5
<1>7. i = j
  BY <1>1, <1>6, DuenoPuede
<1> QED BY <1>2, <1>4, <1>5, <1>7

\* The questions are in order at first, and have two options.
LEMMA NumeradoEmpieza ==
    ASSUME NEW k, Bateria(k)!BankAssumption, Cardinality(k.sembradas) \in {0, 1}, Bateria(k)!Init
    PROVE  NumeradoInv(k)
<1>1. \A r \in k.peticiones : peticion[r].pc = "idle"
  BY PideLibre DEF Bateria!Init
<1>2. ASSUME NEW q \in 1..k.preguntas, preguntas[q] # Nada PROVE Cuenta(k, q) >= 2
  <2>1. usadas.preguntas \in 0..k.preguntas /\ k.preguntas \in Nat /\ k.opciones \in Nat /\ k.opciones >= 4
    BY BancoSembrado, BancoConstants
  <2>2. q > usadas.preguntas => preguntas[q] = Nada
    BY BancoSembrado
  <2>3. q <= usadas.preguntas
    BY <1>2, <2>1, <2>2
  <2>4. PICK o : o = <<q, 1>>
    OBVIOUS
  <2>5. PICK m : m = <<q, 2>>
    OBVIOUS
  <2>6. o \in Lugares(k) /\ m \in Lugares(k) /\ o[1] = q /\ o[2] = 1 /\ m[1] = q /\ m[2] = 2 /\ o # m
    BY <2>1, <2>4, <2>5 DEF Lugares
  <2>7. \A l \in Lugares(k) : l[1] = q /\ l[2] \in {1, 2} => opciones[l] # Nada
    <3> SUFFICES ASSUME NEW l \in Lugares(k), l[1] = q, l[2] \in {1, 2} PROVE opciones[l] # Nada
      OBVIOUS
    <3>1. opciones[l] = [text |-> <<"Correcta", "Otra">>[l[2]], is_correct |-> l[2] = 1]
      BY <2>3, BancoSembrado
    <3>2. <<"Correcta", "Otra">>[l[2]] \in Bateria(k)!TextosDeOpcion
      BY DEF Bateria!TextosDeOpcion
    <3>3. opciones[l] \in Alternativa(k)
      BY <3>1, <3>2 DEF Alternativa
    <3> QED BY <3>3, BancoConstants
  <2>8. PICK S : S = Bateria(k)!OpcionesDe(q)
    OBVIOUS
  <2>9. o \in S /\ m \in S /\ S \subseteq Lugares(k)
    BY <2>6, <2>7, <2>8, BancoConjuntos DEF Bateria!OpcionesDe
  <2>10. IsFiniteSet(S)
    BY <2>9, OpcionesContadas
  <2>11. Cardinality(S) >= 2
    BY <2>6, <2>9, <2>10, DosAlMenos
  <2> QED BY <2>8, <2>11 DEF Cuenta
<1> QED BY <1>1, <1>2, SembradasDistintas DEF NumeradoInv

\* That is what the properties say.
LEMMA NumeradoDice ==
    ASSUME NEW k, NumeradoInv(k)
    PROVE  Bateria(k)!OrdersDistinct /\ Bateria(k)!TwoOptionsRemain
<1>1. Bateria(k)!OrdersDistinct
  BY BancoConjuntos DEF Bateria!OrdersDistinct, Bateria!De, NumeradoInv
<1>2. Bateria(k)!TwoOptionsRemain
  BY BancoConjuntos DEF Bateria!TwoOptionsRemain, NumeradoInv, Cuenta
<1> QED BY <1>1, <1>2

\* It keeps it.
LEMMA PracticadoSigue ==
    ASSUME NEW k, Bateria(k)!BankAssumption, DeCopias(k), BancoInv(k), PracticadoInv(k),
           [Bateria(k)!Next]_(Bateria(k)!vars)
    PROVE  PracticadoInv(k)'
<1> DEFINE Filas == \A a, b \in 1..k.preguntas :
              (/\ preguntas'[a] # Nada /\ preguntas'[b] # Nada
               /\ preguntas'[a].evaluacion = preguntas'[b].evaluacion) => a = b
<1>1. ASSUME NEW r \in k.peticiones, NEW f, Pasa(k, r, f), Filas,
             f.pc \notin {"pregunta", "opcion", "quitar"}
      PROVE  PracticadoInv(k)'
  BY <1>1, UnaPide DEF BancoInv, Pasa, PracticadoInv
<1>2. preguntas' = preguntas => Filas
  BY DEF PracticadoInv
<1>3. /\ Bateria(k)!Libre.pc = "idle" /\ preguntas \in [1..k.preguntas -> Reactivo(k) \cup {Nada}]
      /\ Nada \notin Reactivo(k)
  BY PideLibre, BancoConstants DEF BancoInv, FilasInv
<1>4. CASE Quedan /\ peticion' = peticion
  BY <1>4 DEF PracticadoInv, Quedan
<1>5. ASSUME NEW r \in k.peticiones, NEW f, Sigue(k, r, f) \/ VaCambio(k, r, f) PROVE PracticadoInv(k)'
  BY <1>5, <1>1, <1>2 DEF Sigue, VaCambio, Comienza, Quedan
<1>6. ASSUME NEW r \in k.peticiones, HaceCambio(k, r) PROVE PracticadoInv(k)'
  BY <1>6, <1>1, <1>2, <1>3 DEF HaceCambio, Acaba
<1>7. ASSUME NEW r \in k.peticiones, HaceEdicion(k, r) PROVE PracticadoInv(k)'
  <2>1. PICK p : p = peticion[r]
    OBVIOUS
  <2>2. PICK q : q = p.pregunta
    OBVIOUS
  <2>3. PICK x : x = Bateria(k)!Distintos(p.leido, p.escrito, preguntas[q])
    OBVIOUS
  <2>4. /\ Pasa(k, r, Bateria(k)!Libre) /\ q \in 1..k.preguntas /\ p.leido \in Reactivo(k) /\ p.escrito \in Reactivo(k)
        /\ p.escrito.evaluacion = p.leido.evaluacion /\ p.escrito.order = p.leido.order
        /\ preguntas[q] \in Reactivo(k) /\ preguntas' = [preguntas EXCEPT ![q] = x]
    BY <1>7, <2>1, <2>2, <2>3 DEF HaceEdicion, Acaba
  <2>5. x.evaluacion = preguntas[q].evaluacion
    BY <2>3, <2>4, ReactivoDistinto
  <2>6. \A m \in 1..k.preguntas : preguntas'[m] # Nada =>
           preguntas[m] # Nada /\ preguntas'[m].evaluacion = preguntas[m].evaluacion
    BY <1>3, <2>4, <2>5
  <2>7. Filas
    BY <2>6 DEF PracticadoInv
  <2> QED BY <1>1, <1>3, <2>4, <2>7
<1>8. ASSUME NEW r \in k.peticiones, HacePregunta(k, r) \/ HaceOpcion(k, r) \/ HaceQuita(k, r) PROVE FALSE
  BY <1>8 DEF HacePregunta, HaceOpcion, HaceQuita, PracticadoInv
<1>9. ASSUME NEW r \in k.peticiones, NEW f, VaPregunta(k, r, f) \/ VaOpcion(k, r, f) \/ VaQuita(k, r, f)
      PROVE  FALSE
  BY <1>9 DEF VaPregunta, VaOpcion, VaQuita, DeCopias
<1>10. ASSUME NEW q \in 1..k.preguntas, Borra(k, q) PROVE FALSE
  BY <1>10 DEF Borra, DeCopias
<1> HIDE DEF Filas
<1> QED BY <1>4, <1>5, <1>6, <1>7, <1>8, <1>9, <1>10, BancoTransita, Zenon

\* ... and has it at first.
LEMMA PracticadoEmpieza ==
    ASSUME NEW k, Bateria(k)!BankAssumption, Cardinality(k.sembradas) \in {0, 1}, Bateria(k)!Init
    PROVE  PracticadoInv(k)
<1>1. \A r \in k.peticiones : peticion[r].pc = "idle"
  BY PideLibre DEF Bateria!Init
<1> QED BY <1>1, SembradasDistintas DEF PracticadoInv

\* Where the texts differ, the options are told apart by how often each text occurs.
LEMMA TextosIguales ==
    ASSUME NEW k, FilasInv(k), NEW q,
           \A o, p \in Bateria(k)!OpcionesDe(q) : opciones[o].text = opciones[p].text => o = p,
           NEW S, S \subseteq Bateria(k)!OpcionesDe(q), NEW R, R \subseteq Bateria(k)!OpcionesDe(q),
           Bateria(k)!TextosDe(S) = Bateria(k)!TextosDe(R)
    PROVE  S \subseteq R
<1> SUFFICES ASSUME NEW o \in S, o \notin R PROVE FALSE
  OBVIOUS
<1>1. o \in Lugares(k) /\ opciones[o] # Nada
  BY BancoConjuntos DEF Bateria!OpcionesDe
<1>2. opciones[o].text \in Bateria(k)!TextosDeOpcion
  BY <1>1 DEF FilasInv, Alternativa
<1>3. PICK t : t = opciones[o].text
  OBVIOUS
<1>4. Bateria(k)!TextosDe(S)[t] = Cardinality({m \in S : opciones[m].text = t})
  BY <1>2, <1>3, BancoConjuntos DEF Bateria!TextosDe
<1>5. Bateria(k)!TextosDe(R)[t] = Cardinality({m \in R : opciones[m].text = t})
  BY <1>2, <1>3, BancoConjuntos DEF Bateria!TextosDe
<1>6. {m \in S : opciones[m].text = t} = {o} /\ {m \in R : opciones[m].text = t} = {}
  BY <1>3
<1>7. Bateria(k)!TextosDe(S)[t] = 1
  BY <1>4, <1>6, FS_Singleton
<1>8. Bateria(k)!TextosDe(R)[t] = 0
  BY <1>5, <1>6, FS_EmptySet
<1>9. Bateria(k)!TextosDe(S)[t] = Bateria(k)!TextosDe(R)[t]
  OBVIOUS
<1> QED BY <1>7, <1>8, <1>9

\* The practice page agrees with the exam.
LEMMA PracticadoDice ==
    ASSUME NEW k, Bateria(k)!BankAssumption, BancoInv(k), PracticadoInv(k)
    PROVE  Bateria(k)!PracticeAgrees
<1> SUFFICES ASSUME NEW s \in Alumnos, intentos[s] # <<>>,
                    NEW a, a = intentos[s][Len(intentos[s])], NEW q \in DOMAIN a.respuestas,
                    a.version = version, Bateria(k)!Clara(q), NEW t, t = preguntas[q].text,
                    q = Bateria(k)!Primera(t)
             PROVE  Bateria(k)!BienEnPractica(s, t) <=> q \in a.aciertos
  BY DEF Bateria!PracticeAgrees
<1>1. PICK n : n = Len(intentos[s])
  OBVIOUS
<1>2. intentos[s] \in Seq(Intento(k)) /\ n \in Nat /\ n \in 1..n
  BY EmptySeq, <1>1 DEF BancoInv
<1>3. IntentoAhora(k, a) /\ FilasInv(k)
  BY <1>1, <1>2 DEF BancoInv
<1>4. /\ DOMAIN a.respuestas \subseteq Bateria(k)!De(a.evaluacion)
      /\ a.respuestas[q] \subseteq Bateria(k)!OpcionesDe(q)
      /\ q \in a.aciertos <=> Bateria(k)!_answer_is_correct(preguntas[q].type, q, a.respuestas[q])
  BY <1>3 DEF IntentoAhora
<1>5. \A m \in DOMAIN a.respuestas : m \in 1..k.preguntas /\ m = q
  BY <1>4, BancoConjuntos DEF Bateria!De, PracticadoInv
<1>6. PICK C : C = Bateria(k)!Contestadas(s, t)
  OBVIOUS
<1>7. PICK z : z = <<n, q>>
  OBVIOUS
<1>8. z \in C /\ z[1] = n /\ \A w \in C : w[1] \in 1..n
  BY <1>1, <1>2, <1>5, <1>6, <1>7, BancoConjuntos DEF Bateria!Contestadas
<1>9. PICK u : u = CHOOSE w \in C : \A v \in C : v[1] <= w[1]
  OBVIOUS
<1>10. u \in C /\ \A v \in C : v[1] <= u[1]
  BY <1>2, <1>8, <1>9
<1>11. u[1] = n
  BY <1>8, <1>10, <1>2
<1>12. u[2] = q
  BY <1>6, <1>10, <1>1, <1>5, <1>11 DEF Bateria!Contestadas
<1>13. PICK R : R = a.respuestas[q]
  OBVIOUS
<1>14. Bateria(k)!_latest_answers(s, t) = Bateria(k)!TextosDe(R)
  BY <1>6, <1>9, <1>1, <1>4, <1>11, <1>12, <1>13 DEF Bateria!_latest_answers
<1>15. Bateria(k)!BienEnPractica(s, t) <=> Bateria(k)!TextosDe(R) = Bateria(k)!TextosDe(Bateria(k)!Claves(q))
  BY <1>6, <1>8, <1>14 DEF Bateria!BienEnPractica
<1>16. /\ \A o, p \in Bateria(k)!OpcionesDe(q) : opciones[o].text = opciones[p].text => o = p
       /\ preguntas[q].type = "boolean" => Cardinality(Bateria(k)!Claves(q)) = 1
       /\ Bateria(k)!Claves(q) \subseteq Bateria(k)!OpcionesDe(q) /\ R \subseteq Bateria(k)!OpcionesDe(q)
       /\ Bateria(k)!OpcionesDe(q) \subseteq Lugares(k)
  BY <1>4, <1>13, PosiblesDeHoja, BancoConjuntos DEF Bateria!Clara
<1>17. Bateria(k)!TextosDe(R) = Bateria(k)!TextosDe(Bateria(k)!Claves(q)) <=> R = Bateria(k)!Claves(q)
  <2>1. PICK K : K = Bateria(k)!Claves(q)
    OBVIOUS
  <2>2. ASSUME Bateria(k)!TextosDe(R) = Bateria(k)!TextosDe(K) PROVE R = K
    <3>1. K \subseteq Bateria(k)!OpcionesDe(q)
      BY <1>16, <2>1
    <3>2. R \subseteq K
      BY <1>3, <1>16, <2>2, <3>1, TextosIguales
    <3>3. Bateria(k)!TextosDe(K) = Bateria(k)!TextosDe(R)
      BY <2>2
    <3>4. K \subseteq R
      BY <1>3, <1>16, <3>1, <3>3, TextosIguales
    <3> QED BY <3>2, <3>4
  <2> QED BY <2>1, <2>2
<1>18. Bateria(k)!_answer_is_correct(preguntas[q].type, q, R) <=> R = Bateria(k)!Claves(q)
  <2>1. CASE preguntas[q].type # "boolean"
    BY <2>1 DEF Bateria!_answer_is_correct
  <2>2. CASE preguntas[q].type = "boolean"
    <3>1. Bateria(k)!_answer_is_correct(preguntas[q].type, q, R)
             <=> Cardinality(R) = 1 /\ R \subseteq Bateria(k)!Claves(q)
      BY <2>2, BancoConjuntos DEF Bateria!_answer_is_correct
    <3>2. PICK K : K = Bateria(k)!Claves(q)
      OBVIOUS
    <3>3. Cardinality(K) = 1 /\ K \subseteq Lugares(k)
      BY <1>16, <2>2, <3>2
    <3>4. IsFiniteSet(K)
      BY <3>3, OpcionesContadas
    <3>5. ASSUME Cardinality(R) = 1, R \subseteq K PROVE R = K
      BY <3>3, <3>4, <3>5, FS_Subset
    <3> QED BY <3>1, <3>2, <3>3, <3>5
  <2> QED BY <2>1, <2>2
<1> QED BY <1>4, <1>13, <1>15, <1>17, <1>18

----------------------------------------
(* The parts together *)

\* The constants of the parts.
LEMMA TeachingSizes ==
    /\ Cardinality(DeNumerar.sembradas) \in {0, 1} /\ Cardinality(DeEditar.sembradas) \in {0, 1}
    /\ Cardinality(DeCalificar.sembradas) \in {0, 1} /\ Cardinality(DePracticar.sembradas) \in {0, 1}
    /\ DeCalificar.sembradas = {} /\ DeFabrica(DeCalificar) /\ DeCopias(DePracticar)
    /\ DeEditar.escritos \cap {"True", "False"} = {} /\ DeCalificar.escritos \cap {"True", "False"} = {}
    /\ \A r, l \in DeNumerar.peticiones : r = l
BY TeachingAssumption, FS_EmptySet DEF TeachingAssumption, DeNumerar, DeEditar, DeCalificar,
   DePracticar, DeFabrica, DeCopias, Una

\* A step is one of the part that the behaviour is about, or nothing happens to it.
LEMMA TeachingPart ==
    ASSUME [Next]_vars
    PROVE  /\ parte' = parte
           /\ parte = "numerado" => [Bateria(DeNumerar)!Next]_(Bateria(DeNumerar)!vars)
           /\ parte = "editado" => [Bateria(DeEditar)!Next]_(Bateria(DeEditar)!vars)
           /\ parte = "calificado" => [Bateria(DeCalificar)!Next]_(Bateria(DeCalificar)!vars)
           /\ parte = "practicado" => [Bateria(DePracticar)!Next]_(Bateria(DePracticar)!vars)
           /\ parte = "ordenado" => [Orden(DeOrdenar)!Next]_(Orden(DeOrdenar)!vars)
           /\ parte = "bloqueado" => [Orden(DeBloquear)!Next]_(Orden(DeBloquear)!vars)
           /\ parte = "archivado" => [Archivado!Next]_(Archivado!vars)
           /\ parte = "presentado" => [Presentado!Next]_(Presentado!vars)
           /\ parte = "subido" => [Subido!Next]_(Subido!vars)
           /\ parte = "caido" => [Caido!Next]_(Caido!vars)
<1>1. CASE UNCHANGED vars
  BY <1>1 DEF vars, varsBanco, varsIndice, varsRecursos, varsSlides, varsBiblioteca,
     Bateria!vars, Orden!vars, Archivado!vars, Presentado!vars, Subido!vars, Caido!vars
<1>2. CASE Banco
  BY <1>2 DEF Banco
<1>3. CASE Indice
  BY <1>3 DEF Indice
<1>4. CASE Recursos
  BY <1>4 DEF Recursos
<1>5. CASE Slides
  BY <1>5 DEF Slides
<1>6. CASE Biblioteca
  BY <1>6 DEF Biblioteca
<1> QED BY <1>1, <1>2, <1>3, <1>4, <1>5, <1>6 DEF Next

\* The invariants of the parts hold at first ...
LEMMA TeachingInit == Init => TeachingInv
<1> SUFFICES ASSUME Init PROVE TeachingInv
  OBVIOUS
<1>1. /\ Bateria(DeNumerar)!BankAssumption /\ Bateria(DeEditar)!BankAssumption
      /\ Bateria(DeCalificar)!BankAssumption /\ Bateria(DePracticar)!BankAssumption
      /\ Presentado!SlideshowAssumption
  BY TeachingAssumption DEF TeachingAssumption
<1>2. parte = "numerado" => BancoInv(DeNumerar) /\ NumeradoInv(DeNumerar)
  BY <1>1, TeachingSizes, BancoEmpiezaBien, NumeradoEmpieza DEF Init
<1>3. parte = "editado" => BancoInv(DeEditar) /\ TextosInv(DeEditar)
  BY <1>1, TeachingSizes, BancoEmpiezaBien, TextosEmpiezan DEF Init
<1>4. parte = "calificado" =>
        BancoInv(DeCalificar) /\ TextosInv(DeCalificar) /\ DefectoInv(DeCalificar)
  BY <1>1, TeachingSizes, BancoEmpiezaBien, TextosEmpiezan, DefectoEmpieza DEF Init
<1>5. parte = "practicado" => BancoInv(DePracticar) /\ PracticadoInv(DePracticar)
  BY <1>1, TeachingSizes, BancoEmpiezaBien, PracticadoEmpieza DEF Init
<1>6. /\ parte = "ordenado" => Orden(DeOrdenar)!Init
      /\ parte = "bloqueado" => Orden(DeBloquear)!Init
      /\ parte = "archivado" => Archivado!Init
      /\ parte = "presentado" => Presentado!Init
      /\ parte = "subido" => Subido!Init
      /\ parte = "caido" => Caido!Init
  BY DEF Init
<1>7. parte = "presentado" => SlidesInv
  BY <1>1, <1>6, SlidesEmpieza
<1> QED BY <1>2, <1>3, <1>4, <1>5, <1>6, <1>7, OrdenadoEmpieza, BloqueadoEmpieza,
          ArchivadoEmpieza, SubidoEmpieza, CaidoEmpieza, LoMismoEmpieza DEF TeachingInv

\* ... and every step keeps them.
LEMMA TeachingStep == TeachingInv /\ [Next]_vars => TeachingInv'
<1> SUFFICES ASSUME TeachingInv, [Next]_vars PROVE TeachingInv'
  OBVIOUS
<1>1. parte' = parte
  BY TeachingPart
<1>2. /\ Bateria(DeNumerar)!BankAssumption /\ Bateria(DeEditar)!BankAssumption
      /\ Bateria(DeCalificar)!BankAssumption /\ Bateria(DePracticar)!BankAssumption
      /\ Presentado!SlideshowAssumption
  BY TeachingAssumption DEF TeachingAssumption
<1>3. CASE parte = "numerado"
  BY <1>2, <1>3, TeachingPart, TeachingSizes, BancoSigue, NumeradoSigue, <1>1 DEF TeachingInv
<1>4. CASE parte = "editado"
  BY <1>2, <1>4, TeachingPart, TeachingSizes, BancoSigue, TextosSigue, <1>1 DEF TeachingInv
<1>5. CASE parte = "calificado"
  BY <1>2, <1>5, TeachingPart, TeachingSizes, BancoSigue, TextosSigue, DefectoSigue, <1>1 DEF
     TeachingInv
<1>6. CASE parte = "practicado"
  BY <1>2, <1>6, TeachingPart, TeachingSizes, BancoSigue, PracticadoSigue, <1>1 DEF TeachingInv
<1>7. CASE parte = "ordenado"
  BY <1>1, <1>7, TeachingPart, OrdenadoSigue DEF TeachingInv
<1>8. CASE parte = "bloqueado"
  BY <1>1, <1>8, TeachingPart, BloqueadoSigue DEF TeachingInv
<1>9. CASE parte = "archivado"
  BY <1>1, <1>9, TeachingPart, ArchivadoSigue DEF TeachingInv
<1>10. CASE parte = "presentado"
  BY <1>1, <1>2, <1>10, TeachingPart, SlidesSigue DEF TeachingInv
<1>11. CASE parte = "subido"
  BY <1>1, <1>11, TeachingPart, SubidoSigue DEF TeachingInv
<1>12. CASE parte = "caido"
  BY <1>1, <1>12, TeachingPart, CaidoSigue, LoMismoSigue DEF TeachingInv
<1> QED BY <1>1, <1>3, <1>4, <1>5, <1>6, <1>7, <1>8, <1>9, <1>10, <1>11, <1>12 DEF TeachingInv

\* What the parts keep is of its type at every step.
THEOREM TypeCorrect == Spec => []TypeOK
<1>1. ASSUME TeachingInv PROVE TypeOK
  <2>1. /\ Bateria(DeEditar)!BankAssumption /\ Bateria(DePracticar)!BankAssumption
        /\ Presentado!SlideshowAssumption
    BY TeachingAssumption DEF TeachingAssumption
  <2>2. /\ parte = "editado" => Bateria(DeEditar)!TypeOK
        /\ parte = "practicado" => Bateria(DePracticar)!TypeOK
    BY <1>1, <2>1, BancoDice DEF TeachingInv
  <2>3. parte = "presentado" => Presentado!TypeOK
    BY <1>1, <2>1, SlidesDice DEF TeachingInv
  <2>4. /\ parte = "ordenado" => Orden(DeOrdenar)!TypeOK
        /\ parte = "bloqueado" => Orden(DeBloquear)!TypeOK
    BY <1>1, OrdenadoDice, BloqueadoDice DEF TeachingInv
  <2>5. /\ parte = "archivado" => Archivado!TypeOK
        /\ parte = "subido" => Subido!TypeOK
        /\ parte = "caido" => Caido!TypeOK
    BY <1>1, ArchivadoDice, SubidoDice, CaidoDice DEF TeachingInv
  <2> QED BY <2>2, <2>3, <2>4, <2>5 DEF TypeOK
<1> QED BY <1>1, TeachingInit, TeachingStep, PTL DEF Spec

\* One request at a time, the resources of a section are numbered without a gap and
\* the pages before and after each follow the numbers (crear_indice_recurso,
\* reorganiza_indice_seccion), the questions of an evaluation have distinct places and
\* two options at least (new_question, delete_question_option), and the practice page
\* agrees with the exam (_certification_practice): for any number of sections,
\* resources, questions, options, members and evaluations.
THEOREM CourseHoldsTheorem == Spec => []CourseHolds
<1>1. ASSUME TeachingInv PROVE CourseHolds
  BY TeachingAssumption, <1>1, PracticadoDice, NumeradoDice, OrdenadoDice DEF
     TeachingAssumption, TeachingInv, CourseHolds
<1> QED BY <1>1, TeachingInit, TeachingStep, PTL DEF Spec

\* A resource never names a file that is not there, though any number of forms overlap and die
\* (courses/resources.py); uploads and deletions of the library overlap, and while none
\* dies no file is left without the row that lets it be deleted; a request at a time,
\* and until one dies, rows and files go together (_store_library_file,
\* delete_library_file).
THEOREM FilesHoldTheorem == Spec => []FilesHold
<1>1. TeachingInv => FilesHold
  BY ArchivadoDice, SubidoDice, CaidoDice DEF TeachingInv, FilesHold
<1> QED BY <1>1, TeachingInit, TeachingStep, PTL DEF Spec

\* A score that was given stays and the right answer of a page that is up to date
\* counts, whatever becomes of the bank meanwhile (take_evaluation, calculate_score); a
\* move exchanges two neighbours under locks (modificar_indice_curso), slides are
\* saved as the page showed them (editar_slideshow), and an announced upload left its
\* content (_store_library_file).
THEOREM SavedIsKeptTheorem == Spec => SavedIsKept
<1>1. ASSUME TeachingInv, [Next]_vars
      PROVE  /\ parte = "editado" =>
                  Bateria(DeEditar)!ScoresAreFinal /\ Bateria(DeEditar)!GradedAsShown
             /\ parte = "calificado" =>
                  Bateria(DeCalificar)!GradedAsShown /\ Bateria(DeCalificar)!RightButtonCounts
             /\ parte = "bloqueado" => Orden(DeBloquear)!LockedMovesExchange
             /\ parte = "presentado" => Presentado!SimpleChangesSaved
             /\ parte = "caido" => Caido!AnnouncedContent
  <2>1. /\ Bateria(DeEditar)!BankAssumption /\ Bateria(DeCalificar)!BankAssumption
        /\ Presentado!SlideshowAssumption
    BY TeachingAssumption DEF TeachingAssumption
  <2>2. parte = "editado" => Bateria(DeEditar)!ScoresAreFinal /\ Bateria(DeEditar)!GradedAsShown
    BY <1>1, <2>1, TeachingPart, BancoGuarda, BancoCalifica DEF TeachingInv
  <2>3. parte = "calificado" =>
          Bateria(DeCalificar)!GradedAsShown /\ Bateria(DeCalificar)!RightButtonCounts
    BY <1>1, <2>1, TeachingPart, BancoCalifica, BancoAcierta DEF TeachingInv
  <2>4. parte = "bloqueado" => Orden(DeBloquear)!LockedMovesExchange
    BY <1>1, TeachingPart, BloqueadoSigue DEF TeachingInv
  <2>5. parte = "presentado" => Presentado!SimpleChangesSaved
    BY <1>1, <2>1, SlidesGuardan DEF TeachingInv
  <2>6. parte = "caido" => Caido!AnnouncedContent
    BY <1>1, TeachingPart, LoMismoSigue DEF TeachingInv
  <2> QED BY <2>2, <2>3, <2>4, <2>5, <2>6
<1> QED BY <1>1, TeachingInit, TeachingStep, PTL DEF Spec, SavedIsKept
===============================================================================
