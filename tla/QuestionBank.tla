----------------------------- MODULE QuestionBank -----------------------------
(***************************************************************************)
(* The questions of evaluations and their options                          *)
(* (vistas/profiles/instructor.py), the grading of an attempt and the      *)
(* practice page (vistas/evaluations.py). A student reads a page, the      *)
(* instructor's requests change the bank, and the answers of that page are *)
(* graded against the bank as it then is. Who may take an evaluation, and  *)
(* how often, is in module Evaluations.                                    *)
(***************************************************************************)
EXTENDS Naturals, Sequences, FiniteSets, FiniteSetsExt

CONSTANTS
    Estudiantes, Evaluaciones,
    Peticiones,            \* concurrent requests of instructors and students
    Textos,                \* texts of questions; seeded copies of an item share one
    Sembradas,             \* the texts that a seed put in every evaluation
    Escritos,              \* the texts of options that instructors write
    Traducido,             \* the instructor's catalog translates "Verdadero", "Falso"
    Acciones,              \* what the requests of an instance do
    MaxPreguntas, MaxOpciones, MaxOperaciones, MaxIntentos,   \* bounds
    Nada

Preguntas == 1 .. MaxPreguntas
Opciones == Preguntas \X (1 .. MaxOpciones)
Radio == {"Verdadero", "Falso"}
Numeradas == <<"Opcion 1", "Opcion 2", "Opcion 3", "Opcion 4">>
TextosDeOpcion == Radio \cup {"True", "False", "Otra", "Correcta"} \cup {Numeradas[n] : n \in 1 .. 4}

VARIABLES
    preguntas,    \* Question rows
    opciones,     \* QuestionOption rows
    usadas,       \* question ids given, and option ids given by question
    pagina,       \* what each student's open page of an evaluation shows
    intentos,     \* each student's EvaluationAttempt rows with their Answer rows
    version,      \* how often the bank has changed
    peticion, operaciones

vars == <<preguntas, opciones, usadas, pagina, intentos, version, peticion, operaciones>>
banco == <<preguntas, opciones, usadas, version>>

----------------------------------------
Pregunta == [evaluacion: Evaluaciones, type: {"multiple", "boolean"}, text: Textos, order: 1 .. MaxPreguntas, certificada: BOOLEAN]
Opcion == [text: TextosDeOpcion, is_correct: BOOLEAN]

\* What a form sends for a question: values of the radio buttons, or option ids.
Eleccion == [radio: SUBSET Radio, ids: SUBSET Opciones]
UnRadio(v) == [radio |-> {v}, ids |-> {}]
UnosIds(s) == [radio |-> {}, ids |-> s]

\* What an instance assumes of its constants.
BankAssumption ==
    /\ Sembradas \subseteq Textos /\ Escritos \subseteq TextosDeOpcion /\ Traducido \in BOOLEAN
    /\ IsFiniteSet(Evaluaciones) /\ IsFiniteSet(Sembradas) /\ IsFiniteSet(Peticiones)
    /\ {MaxPreguntas, MaxOpciones, MaxOperaciones, MaxIntentos} \subseteq Nat
    /\ MaxOpciones >= 4 /\ MaxPreguntas >= Cardinality(Evaluaciones) * Cardinality(Sembradas)
    /\ Nada \notin Pregunta \cup Opcion \cup Eleccion

De(e) == {q \in Preguntas : preguntas[q] # Nada /\ preguntas[q].evaluacion = e}
OpcionesDe(q) == {o \in Opciones : o[1] = q /\ opciones[o] # Nada}
Claves(q) == {o \in OpcionesDe(q) : opciones[o].is_correct}

\* A value that is the id of no option.
Ninguna == <<0, 0>>

Peticion == [pc: {"idle", "pregunta", "editar", "opcion", "cambiar", "quitar", "responder", "calificar"},
             pregunta: Preguntas \cup {Nada}, opcion: Opciones \cup {Nada}, leido: Pregunta \cup Opcion \cup {Nada},
             escrito: Pregunta \cup Opcion \cup {Nada}, usuario: Estudiantes \cup {Nada}, evaluacion: Evaluaciones \cup {Nada}]

Libre == [pc |-> "idle", pregunta |-> Nada, opcion |-> Nada, leido |-> Nada, escrito |-> Nada, usuario |-> Nada,
          evaluacion |-> Nada, total |-> {}, elegido |-> <<>>, respuestas |-> <<>>]

\* ... beside the questions and the answers of an attempt.
Datos(p) == [pc |-> p.pc, pregunta |-> p.pregunta, opcion |-> p.opcion, leido |-> p.leido, escrito |-> p.escrito,
             usuario |-> p.usuario, evaluacion |-> p.evaluacion]

TypeOK ==
    /\ preguntas \in [Preguntas -> Pregunta \cup {Nada}]
    /\ opciones \in [Opciones -> Opcion \cup {Nada}]
    /\ version <= operaciones /\ operaciones <= MaxOperaciones
    /\ \A r \in Peticiones : Datos(peticion[r]) \in Peticion
    \* foreign keys: an option is of a question, an answer of a question of its evaluation
    /\ \A o \in Opciones : opciones[o] # Nada => preguntas[o[1]] # Nada
    /\ \A s \in Estudiantes, i \in 1 .. MaxIntentos : i <= Len(intentos[s]) =>
          LET a == intentos[s][i] IN
          /\ DOMAIN a.respuestas \subseteq De(a.evaluacion)
          /\ a.aciertos \subseteq a.total

Empezar(r, accion) ==
    /\ peticion[r].pc = "idle" /\ accion \in Acciones
    /\ operaciones < MaxOperaciones /\ operaciones' = operaciones + 1

Seguir(r, q) == peticion' = [peticion EXCEPT ![r] = q]
Terminar(r) == Seguir(r, Libre) /\ UNCHANGED operaciones

\* Answers of a transaction hold their questions against a deletion.
Retenida(q) == \E r \in Peticiones : peticion[r].pc = "calificar" /\ q \in DOMAIN peticion[r].respuestas

----------------------------------------
(* Questions *)

Siguiente(e) == Max({preguntas[q].order : q \in De(e)} \cup {0}) + 1

\* new_question reads the next order ...
new_question(r, e) ==
    /\ Empezar(r, "pregunta")
    /\ Siguiente(e) <= MaxPreguntas
    /\ \E tipo \in {"multiple", "boolean"}, t \in Textos :
          Seguir(r, [Libre EXCEPT !.pc = "pregunta", !.escrito =
             [evaluacion |-> e, type |-> tipo, text |-> t, order |-> Siguiente(e), certificada |-> FALSE]])
    /\ UNCHANGED <<banco, pagina, intentos>>

\* The text of the nth option of a new question, in the instructor's language.
Defecto(tipo, n) ==
    IF tipo = "multiple" THEN Numeradas[n]
    ELSE IF Traducido THEN <<"True", "False">>[n] ELSE <<"Verdadero", "Falso">>[n]

Cuantas(tipo) == IF tipo = "boolean" THEN 2 ELSE 4

\* ... and stores the question with its first options, none of them correct.
NuevaPregunta(r) ==
    /\ peticion[r].pc = "pregunta" /\ usadas.preguntas < MaxPreguntas
    /\ LET q == usadas.preguntas + 1
           p == peticion[r].escrito
       IN  /\ preguntas' = [preguntas EXCEPT ![q] = p]
           /\ opciones' = [o \in Opciones |-> IF o[1] = q /\ o[2] <= Cuantas(p.type)
                              THEN [text |-> Defecto(p.type, o[2]), is_correct |-> FALSE] ELSE opciones[o]]
           /\ usadas' = [preguntas |-> q, opciones |-> [usadas.opciones EXCEPT ![q] = Cuantas(p.type)]]
    /\ version' = version + 1
    /\ Terminar(r)
    /\ UNCHANGED <<pagina, intentos>>

\* edit_question: the columns that differ from the row that was read.
edit_question(r, q) ==
    /\ preguntas[q] # Nada
    /\ Empezar(r, "editar")
    /\ \E tipo \in {"multiple", "boolean"}, t \in Textos :
          Seguir(r, [Libre EXCEPT !.pc = "editar", !.pregunta = q, !.leido = preguntas[q],
             !.escrito = [preguntas[q] EXCEPT !.type = tipo, !.text = t]])
    /\ UNCHANGED <<banco, pagina, intentos>>

Distintos(leido, escrito, fila) ==
    [c \in DOMAIN fila |-> IF escrito[c] # leido[c] THEN escrito[c] ELSE fila[c]]

EditarPregunta(r) ==
    LET p == peticion[r] IN
    /\ p.pc = "editar"
    /\ IF preguntas[p.pregunta] = Nada \/ p.leido = p.escrito
       THEN UNCHANGED banco
       ELSE /\ preguntas' = [preguntas EXCEPT ![p.pregunta] = Distintos(p.leido, p.escrito, @)]
            /\ version' = version + 1
            /\ UNCHANGED <<opciones, usadas>>
    /\ Terminar(r)
    /\ UNCHANGED <<pagina, intentos>>

\* The rows of an attempt after a question is deleted; its score stays.
SinPregunta(a, q) == [a EXCEPT !.respuestas = [k \in DOMAIN a.respuestas \ {q} |-> a.respuestas[k]]]

\* delete_question, with the cascade to its options and its answers.
delete_question(r, q) ==
    /\ preguntas[q] # Nada /\ ~Retenida(q)
    /\ Empezar(r, "borrar")
    /\ preguntas' = [preguntas EXCEPT ![q] = Nada]
    /\ opciones' = [o \in Opciones |-> IF o[1] = q THEN Nada ELSE opciones[o]]
    /\ intentos' = [s \in Estudiantes |-> [i \in DOMAIN intentos[s] |-> SinPregunta(intentos[s][i], q)]]
    /\ version' = version + 1
    /\ UNCHANGED <<usadas, pagina, peticion>>

----------------------------------------
(* Options *)

CabeOtra(q) == preguntas[q].type = "boolean" => Cardinality(OpcionesDe(q)) < 2

new_question_option(r, q) ==
    /\ preguntas[q] # Nada /\ CabeOtra(q)
    /\ Empezar(r, "opcion")
    /\ \E t \in Escritos, ok \in BOOLEAN :
          Seguir(r, [Libre EXCEPT !.pc = "opcion", !.pregunta = q, !.escrito = [text |-> t, is_correct |-> ok]])
    /\ UNCHANGED <<banco, pagina, intentos>>

NuevaOpcion(r) ==
    LET q == peticion[r].pregunta
        o == <<q, usadas.opciones[q] + 1>>
    IN
    /\ peticion[r].pc = "opcion"
    /\ IF preguntas[q] = Nada
       THEN UNCHANGED banco
       ELSE /\ o \in Opciones
            /\ opciones' = [opciones EXCEPT ![o] = peticion[r].escrito]
            /\ usadas' = [usadas EXCEPT !.opciones[q] = @ + 1]
            /\ version' = version + 1
            /\ UNCHANGED preguntas
    /\ Terminar(r)
    /\ UNCHANGED <<pagina, intentos>>

edit_question_option(r, o) ==
    /\ opciones[o] # Nada
    /\ Empezar(r, "cambiar")
    /\ \E t \in Escritos \cup {opciones[o].text}, ok \in BOOLEAN :
          Seguir(r, [Libre EXCEPT !.pc = "cambiar", !.opcion = o, !.leido = opciones[o],
             !.escrito = [text |-> t, is_correct |-> ok]])
    /\ UNCHANGED <<banco, pagina, intentos>>

EditarOpcion(r) ==
    LET p == peticion[r] IN
    /\ p.pc = "cambiar"
    /\ IF opciones[p.opcion] = Nada \/ p.leido = p.escrito
       THEN UNCHANGED banco
       ELSE /\ opciones' = [opciones EXCEPT ![p.opcion] = Distintos(p.leido, p.escrito, @)]
            /\ version' = version + 1
            /\ UNCHANGED <<preguntas, usadas>>
    /\ Terminar(r)
    /\ UNCHANGED <<pagina, intentos>>

\* Mutation: the option that goes is counted among those that stay.
QuedaUna(q) == Cardinality(OpcionesDe(q)) > 1

Sobra(q) == Cardinality(OpcionesDe(q)) > 2

\* delete_question_option counts the options ...
delete_question_option(r, o) ==
    /\ opciones[o] # Nada /\ Sobra(o[1])
    /\ Empezar(r, "quitar")
    /\ Seguir(r, [Libre EXCEPT !.pc = "quitar", !.opcion = o])
    /\ UNCHANGED <<banco, pagina, intentos>>

\* ... and then deletes the one.
QuitarOpcion(r) ==
    /\ peticion[r].pc = "quitar"
    /\ opciones' = [opciones EXCEPT ![peticion[r].opcion] = Nada]
    /\ version' = version + 1
    /\ Terminar(r)
    /\ UNCHANGED <<preguntas, usadas, pagina, intentos>>

----------------------------------------
(* Attempts *)

Significado(t) == CASE t \in {"Verdadero", "True"} -> {"Verdadero"} [] t \in {"Falso", "False"} -> {"Falso"} [] OTHER -> {}

\* What a student who knows the answer chooses of what the page shows.
Acertada(q) ==
    IF preguntas[q].type = "boolean"
    THEN {UnRadio(v) : v \in UNION {Significado(opciones[o].text) : o \in Claves(q)}}
    ELSE {UnosIds(Claves(q))} \ {UnosIds({})}

\* take_evaluation.html: boxes where several options are right, one button elsewhere
Marcas(q) ==
    IF Cardinality(Claves(q)) > 1 THEN (SUBSET OpcionesDe(q)) \ {{}} ELSE {{o} : o \in OpcionesDe(q)}

\* ... and what can be chosen at all.
Posibles(q) ==
    IF preguntas[q].type = "boolean" THEN {UnRadio(v) : v \in Radio}
    ELSE {UnosIds(s) : s \in Marcas(q)}

\* take_evaluation, GET
Mostrar(s, e) ==
    /\ "intento" \in Acciones
    /\ pagina[s] = Nada /\ Len(intentos[s]) < MaxIntentos
    /\ \A r \in Peticiones : peticion[r].usuario # s
    /\ pagina' = [pagina EXCEPT ![s] =
          [evaluacion |-> e, version |-> version, acertadas |-> [q \in De(e) |-> Acertada(q)],
           posibles |-> [q \in De(e) |-> Posibles(q)]]]
    /\ UNCHANGED <<banco, intentos, peticion, operaciones>>

\* The choices of a student: one for each question, or a blank.
Elecciones(p) ==
    {f \in [DOMAIN p.posibles -> UNION {p.posibles[q] : q \in DOMAIN p.posibles} \cup {Nada}] :
        \A q \in DOMAIN f : f[q] \in p.posibles[q] \cup {Nada}}

\* take_evaluation, POST: the questions are loaded, and kept to the end of the request.
take_evaluation(r, s) ==
    /\ pagina[s] # Nada /\ \A k \in Peticiones : peticion[k].usuario # s
    /\ Empezar(r, "intento")
    /\ \E f \in Elecciones(pagina[s]) :
          Seguir(r, [Libre EXCEPT !.pc = "responder", !.usuario = s, !.evaluacion = pagina[s].evaluacion, !.elegido = f,
             !.total = [q \in De(pagina[s].evaluacion) |-> preguntas[q].type]])
    /\ UNCHANGED <<banco, pagina, intentos>>

\* _resolve_option_ids: a button is looked up by its text, and any row with it will do;
\* a value that is no option's id is kept where ids are expected.
_resolve_option_ids(q, tipo, c) ==
    IF tipo = "boolean"
    THEN LET filas == {o \in OpcionesDe(q) : opciones[o].text \in c.radio}
         IN  IF filas = {} THEN {{}} ELSE {{o} : o \in filas}
    ELSE {c.ids \cup (IF c.radio = {} THEN {} ELSE {Ninguna})}

\* _save_question_answers; the insert fails where a question has been deleted.
_save_question_answers(r) ==
    LET p == peticion[r]
        hay == {q \in DOMAIN p.total \cap DOMAIN p.elegido : p.elegido[q] # Nada}
    IN
    /\ p.pc = "responder"
    /\ IF \A q \in hay : preguntas[q] # Nada
       THEN /\ \E f \in [hay -> UNION {_resolve_option_ids(q, p.total[q], p.elegido[q]) : q \in hay}] :
                  /\ \A q \in hay : f[q] \in _resolve_option_ids(q, p.total[q], p.elegido[q])
                  /\ Seguir(r, [p EXCEPT !.pc = "calificar", !.respuestas = f])
            /\ UNCHANGED <<operaciones, pagina>>
       ELSE Terminar(r) /\ pagina' = [pagina EXCEPT ![p.usuario] = Nada]
    /\ UNCHANGED <<banco, intentos>>

_answer_is_correct(tipo, q, s) ==
    IF tipo = "boolean" THEN Cardinality(s) = 1 /\ s \subseteq Claves(q)
    ELSE s = Claves(q)

\* calculate_score and the commit. The score is kept as the questions that counted.
calculate_score(r) ==
    LET p == peticion[r]
        acierta == {q \in DOMAIN p.respuestas : _answer_is_correct(p.total[q], q, p.respuestas[q])}
    IN
    /\ p.pc = "calificar"
    /\ intentos' = [intentos EXCEPT ![p.usuario] = Append(@,
          [evaluacion |-> p.evaluacion, respuestas |-> p.respuestas, total |-> DOMAIN p.total, aciertos |-> acierta,
           version |-> pagina[p.usuario].version,
           sabidas |-> {q \in DOMAIN p.elegido : p.elegido[q] \in pagina[p.usuario].acertadas[q]}])]
    /\ pagina' = [pagina EXCEPT ![p.usuario] = Nada]
    /\ Terminar(r)
    /\ UNCHANGED banco

----------------------------------------
(* Practice *)

\* Among the copies of a text, the first by order and by id is shown.
Primera(t) ==
    LET copias == {q \in Preguntas : preguntas[q] # Nada /\ preguntas[q].certificada /\ preguntas[q].text = t}
    IN  CHOOSE q \in copias : \A k \in copias \ {q} :
           preguntas[q].order < preguntas[k].order \/ (preguntas[q].order = preguntas[k].order /\ q < k)

\* sorted([option.text ...]): how often each text occurs.
TextosDe(s) == [t \in TextosDeOpcion |-> Cardinality({o \in s : opciones[o].text = t})]

\* _latest_answers: the questions with a text that an attempt answered, and which is the last.
Contestadas(s, t) ==
    {iq \in (1 .. Len(intentos[s])) \X Preguntas :
        iq[2] \in DOMAIN intentos[s][iq[1]].respuestas /\ preguntas[iq[2]].text = t}

_latest_answers(s, t) ==
    LET ultima == CHOOSE iq \in Contestadas(s, t) : \A k \in Contestadas(s, t) : k[1] <= iq[1]
    IN  TextosDe(OpcionesDe(ultima[2]) \cap intentos[s][ultima[1]].respuestas[ultima[2]])

\* _certification_practice: what counts as seen, and as right.
EnPractica(s, t) == Contestadas(s, t) # {}
BienEnPractica(s, t) == Contestadas(s, t) # {} /\ _latest_answers(s, t) = TextosDe(Claves(Primera(t)))

----------------------------------------
\* Every evaluation starts with its own copy of each seeded item, the same in all of them.
CopiaDe(q) == (q - 1) % Cardinality(Sembradas)
Lugar == CHOOSE f \in [0 .. Cardinality(Sembradas) - 1 -> Sembradas] : \A i, j \in DOMAIN f : f[i] = f[j] => i = j
Dueno == CHOOSE f \in [0 .. Cardinality(Evaluaciones) - 1 -> Evaluaciones] : \A i, j \in DOMAIN f : f[i] = f[j] => i = j

Init ==
    LET n == Cardinality(Evaluaciones) * Cardinality(Sembradas) IN
    /\ preguntas = [q \in Preguntas |-> IF q > n THEN Nada ELSE
          [evaluacion |-> Dueno[(q - 1) \div Cardinality(Sembradas)], type |-> "multiple", text |-> Lugar[CopiaDe(q)],
           order |-> CopiaDe(q) + 1, certificada |-> TRUE]]
    /\ opciones = [o \in Opciones |-> IF o[1] > n \/ o[2] > 2 THEN Nada
                                      ELSE [text |-> <<"Correcta", "Otra">>[o[2]], is_correct |-> o[2] = 1]]
    /\ usadas = [preguntas |-> n, opciones |-> [q \in Preguntas |-> IF q > n THEN 0 ELSE 2]]
    /\ pagina = [s \in Estudiantes |-> Nada] /\ intentos = [s \in Estudiantes |-> <<>>]
    /\ version = 0 /\ operaciones = 0 /\ peticion = [r \in Peticiones |-> Libre]

Next ==
    \/ \E s \in Estudiantes, e \in Evaluaciones : Mostrar(s, e)
    \/ \E r \in Peticiones :
          \/ \E e \in Evaluaciones : new_question(r, e)
          \/ \E q \in Preguntas : edit_question(r, q) \/ delete_question(r, q) \/ new_question_option(r, q)
          \/ \E o \in Opciones : edit_question_option(r, o) \/ delete_question_option(r, o)
          \/ \E s \in Estudiantes : take_evaluation(r, s)
          \/ NuevaPregunta(r) \/ EditarPregunta(r) \/ NuevaOpcion(r) \/ EditarOpcion(r) \/ QuitarOpcion(r)
          \/ _save_question_answers(r) \/ calculate_score(r)

Spec == Init /\ [][Next]_vars

----------------------------------------
(* Properties *)

\* The questions of an evaluation have an order (new_question numbers them).
OrdersDistinct ==
    \A e \in Evaluaciones : \A p, q \in De(e) : preguntas[p].order = preguntas[q].order => p = q

\* A question keeps at least two options (the test in delete_question_option).
TwoOptionsRemain == \A q \in Preguntas : preguntas[q] # Nada => Cardinality(OpcionesDe(q)) >= 2

\* A question whose key can be told from the texts: they differ, and one is right, or several of a multiple choice.
Clara(q) ==
    /\ \A o, p \in OpcionesDe(q) : opciones[o].text = opciones[p].text => o = p
    /\ Claves(q) # {} /\ (preguntas[q].type = "boolean" => Cardinality(Claves(q)) = 1)

\* The steps that record an attempt, and the attempt they record.
Calificado(s) == Len(intentos'[s]) > Len(intentos[s])
Nuevo(s) == intentos'[s][Len(intentos'[s])]

\* Where the bank has not changed since the page was shown, a question with a clear key counts exactly when the
\* student chose what the page had as right (_resolve_option_ids, _answer_is_correct, calculate_score).
GradedAsShown ==
    \A s \in Estudiantes : (Calificado(s) /\ Nuevo(s).version = version) =>
          \A q \in Nuevo(s).total : Clara(q) => (q \in Nuevo(s).aciertos <=> q \in Nuevo(s).sabidas)

\* ... and so in the language the course is written in: the right button of a true/false question counts
\* (the options that new_question creates against the values of take_evaluation.html).
RightButtonCounts ==
    \A s \in Estudiantes : (Calificado(s) /\ Nuevo(s).version = version) =>
          \A q \in Nuevo(s).sabidas : preguntas[q].type = "boolean" => q \in Nuevo(s).aciertos

\* While the bank is as it was on the page, the practice page says of a member's last answer what the exam said of
\* it, where the key is clear and the same in every copy (_certification_practice, calculate_score).
PracticeAgrees ==
    \A s \in Estudiantes : intentos[s] # <<>> =>
       LET a == intentos[s][Len(intentos[s])] IN
       \A q \in DOMAIN a.respuestas :
          (a.version = version /\ preguntas[q].certificada /\ Clara(q) /\ q = Primera(preguntas[q].text))
             => (BienEnPractica(s, preguntas[q].text) <=> q \in a.aciertos)

\* An attempt is final: what counted and out of how many stays, whatever becomes of the bank
\* (the score is stored by take_evaluation, delete_question takes the answers only).
ScoresAreFinal ==
    \A s \in Estudiantes : \A i \in 1 .. Len(intentos[s]) :
          /\ intentos'[s][i].aciertos = intentos[s][i].aciertos /\ intentos'[s][i].total = intentos[s][i].total
----------------------------------------
(* What the pages, the comments and the guides say, and the code does not keep:  *)
(* TLC finds a counterexample to each of the following.                          *)

\* A true/false question has no more than two options (the test in new_question_option).
BooleanHasTwo ==
    \A q \in Preguntas : (preguntas[q] # Nada /\ preguntas[q].type = "boolean") => Cardinality(OpcionesDe(q)) <= 2

\* An item that a member has answered stays seen on the practice page while it is on the page
\* (_latest_answers looks for the text, whichever copy was answered).
AnsweredStaysSeen ==
    \A s \in Estudiantes, q \in Preguntas :
          (/\ preguntas[q] # Nada /\ preguntas'[q] = preguntas[q] /\ preguntas[q].certificada
           /\ EnPractica(s, preguntas[q].text)) => EnPractica(s, preguntas[q].text)'

\* The result page can be shown: every option that an answer names is still one of its question
\* (evaluation_result; the page reads the text of each).
ResultsCanBeShown ==
    \A s \in Estudiantes : \A i \in 1 .. Len(intentos[s]) :
       \A q \in DOMAIN intentos[s][i].respuestas : intentos[s][i].respuestas[q] \subseteq OpcionesDe(q)
=============================================================================
