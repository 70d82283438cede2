------------------------------ MODULE Slideshow ------------------------------
(***************************************************************************)
(* The slides of one presentation and the form that edits them             *)
(* (vistas/courses/resources.py, learning/resources_new/                   *)
(* editar_slideshow.html).  The page numbers its fields when they are      *)
(* added; the server reads as many of them as the page says there are.     *)
(***************************************************************************)
EXTENDS Naturals, FiniteSets, Sequences, SequencesExt

CONSTANTS
    Ids,          \* Slide.id
    Textos,       \* title and content of a slide, never empty
    Pestanas,     \* pages of the editor that are open
    MaxCambios, MaxGuardados,  \* bounds: changes on the pages, and saved forms
    Nada

\* What an instance assumes of its constants.
SlideshowAssumption ==
    /\ MaxCambios \in Nat /\ MaxGuardados \in Nat
    /\ Nada \notin Ids \cup Textos \cup [orden: 1..MaxCambios + 1, texto: Textos]

VARIABLES
    slides,      \* Slide rows of the presentation
    pagina,      \* the editors of every page, from top to bottom
    conocidas,   \* history: the rows every page was made from
    cambios, guardados

vars == <<slides, pagina, conocidas, cambios, guardados>>

MaxOrden == MaxCambios + 1

\* campo: the number in the names of the fields; indice: data-slide-index;
\* boton: what its remove button looks for.
Editor == [campo: 0..MaxCambios, indice: 0..MaxCambios, boton: 0..MaxCambios,
           id: Ids \cup {Nada}, orden: 1..MaxOrden, texto: Textos]

TypeOK ==
    /\ slides \in [Ids -> [orden: 1..MaxOrden, texto: Textos] \cup {Nada}]
    /\ \A t \in Pestanas : pagina[t] \in Seq(Editor) /\ Len(pagina[t]) <= MaxOrden
    /\ conocidas \in [Pestanas -> SUBSET Ids]
    /\ cambios <= MaxCambios /\ guardados <= MaxGuardados
    \* what a page shows without a row was added on it
    /\ \A t \in Pestanas, i, j \in 1..MaxOrden :
          (i < j /\ j <= Len(pagina[t])) =>
             /\ pagina[t][i].indice < pagina[t][j].indice
             /\ pagina[t][i].id = Nada \/ pagina[t][i].id # pagina[t][j].id

----------------------------------------
(* The page *)

Vivas(s) == {d \in Ids : s[d] # Nada}

\* order_by(Slide.order), with ties in any order
EnOrden(s) ==
    {q \in [1..Cardinality(Vivas(s)) -> Vivas(s)] :
        \A i, j \in DOMAIN q : i < j => /\ q[i] # q[j]
                                        /\ s[q[i]].orden <= s[q[j]].orden}

\* GET of editar_slideshow
Editores(s, q) ==
    [i \in DOMAIN q |-> [campo |-> i - 1, indice |-> i - 1, boton |-> i - 1, id |-> q[i],
                         orden |-> s[q[i]].orden, texto |-> s[q[i]].texto]]

Abrir(t) ==
    /\ \E q \in EnOrden(slides) : pagina' = [pagina EXCEPT ![t] = Editores(slides, q)]
    /\ conocidas' = [conocidas EXCEPT ![t] = Vivas(slides)]
    /\ UNCHANGED <<slides, cambios, guardados>>

Cambiar == /\ cambios < MaxCambios
           /\ cambios' = cambios + 1
           /\ UNCHANGED <<slides, conocidas, guardados>>

addSlide(t) ==
    LET n == Len(pagina[t]) IN
    /\ Cambiar
    /\ \E x \in Textos :
          pagina' = [pagina EXCEPT ![t] = Append(@,
             [campo |-> n, indice |-> n, boton |-> n, id |-> Nada, orden |-> n + 1,
              texto |-> x])]

Escribir(t) ==
    /\ Cambiar
    /\ \E i \in DOMAIN pagina[t], x \in Textos :
          x # pagina[t][i].texto /\ pagina' = [pagina EXCEPT ![t][i].texto = x]

\* updateSlideNumbers: the indices and the orders, not the names nor the buttons
Renumerados(s) ==
    [i \in DOMAIN s |-> [s[i] EXCEPT !.indice = i - 1, !.orden = i]]

\* The button of the i-th editor removes the first one with the index that the
\* button was made with, if there is one.
removeSlide(t) ==
    /\ Cambiar
    /\ \E i, k \in DOMAIN pagina[t] :
          /\ pagina[t][k].indice = pagina[t][i].boton
          /\ pagina' = [pagina EXCEPT ![t] = Renumerados(RemoveAt(@, k))]

----------------------------------------
(* The server *)

\* request.form.get: the first field of that name
ConCampo(form, i) == {k \in DOMAIN form : form[k].campo = i}

Campo(form, i) == CHOOSE k \in ConCampo(form, i) : \A m \in ConCampo(form, i) : k <= m

\* _slide_orders
_slide_orders(form) ==
    [i \in 0..Len(form) - 1 |->
        IF ConCampo(form, i) = {} THEN i + 1 ELSE form[Campo(form, i)].orden]

Borradas(form) ==
    {d \in Vivas(slides) : ~\E i \in DOMAIN _slide_orders(form) : _slide_orders(form)[i] = slides[d].orden}

Enviados(form) == {i \in 0..Len(form) - 1 : ConCampo(form, i) # {}}

\* A slide of the form that is a row.  One that is being deleted is still found
\* in the session, until the search of one that is not there flushes it.
Ausente(form, i) ==
    LET d == form[Campo(form, i)].id IN d # Nada /\ d \notin Vivas(slides)

Actualiza(form, i) ==
    LET d == form[Campo(form, i)].id IN
    /\ d \in Vivas(slides)
    /\ d \in Borradas(form) => ~\E j \in Enviados(form) : j < i /\ Ausente(form, j)

\* _update_slideshow: the deletions, the updates and the new rows are committed
\* together; the update of a deleted row is lost.
_update_slideshow(form, nuevo) ==
    [d \in Ids |->
        IF d \in Vivas(slides) THEN
            IF d \in Borradas(form) THEN Nada
            ELSE IF \E i \in Enviados(form) : form[Campo(form, i)].id = d
                 THEN LET i == CHOOSE j \in Enviados(form) : form[Campo(form, j)].id = d IN
                      [orden |-> _slide_orders(form)[i], texto |-> form[Campo(form, i)].texto]
                 ELSE slides[d]
        ELSE IF \E i \in DOMAIN nuevo : nuevo[i] = d
             THEN LET i == CHOOSE j \in DOMAIN nuevo : nuevo[j] = d IN
                  [orden |-> _slide_orders(form)[i], texto |-> form[Campo(form, i)].texto]
             ELSE Nada]

\* POST of editar_slideshow; the page is loaded again.
editar_slideshow(t) ==
    LET form == pagina[t]
        altas == {i \in Enviados(form) : ~Actualiza(form, i)} IN
    /\ guardados < MaxGuardados
    /\ guardados' = guardados + 1
    /\ \E nuevo \in [altas -> Ids \ Vivas(slides)] :
          /\ \A i, j \in altas : i # j => nuevo[i] # nuevo[j]
          /\ slides' = _update_slideshow(form, nuevo)
          /\ \E q \in EnOrden(slides') : pagina' = [pagina EXCEPT ![t] = Editores(slides', q)]
    /\ conocidas' = [conocidas EXCEPT ![t] = Vivas(slides')]
    /\ UNCHANGED cambios

----------------------------------------
Init ==
    /\ slides = [d \in Ids |-> Nada]
    /\ pagina = [t \in Pestanas |-> <<>>]
    /\ conocidas = [t \in Pestanas |-> {}]
    /\ cambios = 0
    /\ guardados = 0

Next == \E t \in Pestanas :
    Abrir(t) \/ addSlide(t) \/ Escribir(t) \/ removeSlide(t) \/ editar_slideshow(t)

Spec == Init /\ [][Next]_vars

----------------------------------------
(* Properties *)

\* The rows after a save are what a page showed: the same texts, in the same order.
Guardado(form) ==
    \A q \in EnOrden(slides') :
        /\ Len(q) = Len(form)
        /\ \A i \in DOMAIN q : slides'[q[i]].texto = form[i].texto

\* A page of slides in sequence on which slides were written and added, or on
\* which only the last ones were removed.
SoloAgrega(form) == Vivas(slides) \subseteq {form[i].id : i \in DOMAIN form}
SoloQuita(form) == \A i \in DOMAIN form : form[i].id # Nada

EnSecuencia(form) ==
    /\ \A i \in DOMAIN form : form[i].campo = i - 1 /\ form[i].orden = i
    /\ {slides[d].orden : d \in Vivas(slides)} = 1..Cardinality(Vivas(slides))

\* What was saved is what the page showed, as long as the page did not remove a
\* slide before another one nor add one where one had been removed.
SimpleChangesSaved ==
    \A t \in Pestanas :
          LET form == pagina[t] IN
          (/\ editar_slideshow(t) /\ EnSecuencia(form)
           /\ SoloAgrega(form) \/ SoloQuita(form))
          => Guardado(form)

----------------------------------------
(* What the pages, the comments and the guides say, and the code does not keep:  *)
(* TLC finds a counterexample to each of the following.                          *)

\* What was saved is what the page showed.
SavedAsShown == \A t \in Pestanas : editar_slideshow(t) => Guardado(pagina[t])

\* A saved form leaves alone the slides that its page was not made from.
UnseenSlidesStay ==
    \A t \in Pestanas, d \in Ids :
          (editar_slideshow(t) /\ slides[d] # Nada /\ d \notin conocidas[t])
          => slides'[d] # Nada
===============================================================================
