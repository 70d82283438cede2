---------------------------- MODULE CalendarMonths ----------------------------
(***************************************************************************)
(* The month that /user/calendar shows (vistas/calendar.py): the numbers   *)
(* of the query are corrected, the events are those of the window from the *)
(* first of the month to the first of the next, and two links lead on.     *)
(***************************************************************************)
EXTENDS Integers

CONSTANTS
    AnioActual, MesActual,   \* datetime.now()
    Anios                    \* the years that are asked for

\* What an instance assumes of its constants.
MonthsAssumption == AnioActual \in 1 .. 9999 /\ MesActual \in 1 .. 12 /\ Anios \subseteq Int

VARIABLES vista   \* what the last request was answered

Meses == 0 .. 13
EsAnio(a) == a \in 1 .. 9999    \* the years of a datetime

\* datetime(year, month, 1) as a number of months
Primero(a, m) == 12 * a + (m - 1)

\* datetime(year + 1, 1, 1) raises ValueError after the last year.
TieneFin(a, m) == m = 12 => EsAnio(a + 1)
Fin(a, m) == IF m = 12 THEN Primero(a + 1, 1) ELSE Primero(a, m + 1)

Anterior(a, m) == [anio |-> IF m > 1 THEN a ELSE a - 1, mes |-> IF m > 1 THEN m - 1 ELSE 12]

Siguiente(a, m) == [anio |-> IF m < 12 THEN a ELSE a + 1, mes |-> IF m < 12 THEN m + 1 ELSE 1]

MesPedido(mes) == IF mes \in 1 .. 12 THEN mes ELSE MesActual
AnioPedido(anio) == IF EsAnio(anio) THEN anio ELSE AnioActual

Pagina(a, m) ==
    [codigo |-> 200, anio |-> a, mes |-> m, inicio |-> Primero(a, m), fin |-> Fin(a, m),
     anterior |-> Anterior(a, m), siguiente |-> Siguiente(a, m)]

\* Nothing catches the error: the answer has no month and no links.
Error(anio, mes) == [codigo |-> 500, anio |-> anio, mes |-> mes]

Ver(anio, mes) ==
    LET a == AnioPedido(anio)
        m == MesPedido(mes)
    IN  IF TieneFin(a, m) THEN Pagina(a, m) ELSE Error(anio, mes)

calendar_view(anio, mes) == vista' = Ver(anio, mes)

Mostrada == vista.codigo = 200

PaginaAnterior == /\ Mostrada /\ vista.anterior.anio \in Anios
                  /\ calendar_view(vista.anterior.anio, vista.anterior.mes)

PaginaSiguiente == /\ Mostrada /\ vista.siguiente.anio \in Anios
                   /\ calendar_view(vista.siguiente.anio, vista.siguiente.mes)

Init == vista = Ver(AnioActual, MesActual)

Next == \/ PaginaAnterior \/ PaginaSiguiente
        \/ \E anio \in Anios, mes \in Meses : calendar_view(anio, mes)

Spec == Init /\ [][Next]_vista

----------------------------------------
\* What comes after December of 9999 is no date.
UltimoMes(a, m) == a = 9999 /\ m = 12

\* A request is answered with a month of the calendar, from its first day to the
\* first of the next, whatever is asked for (calendar.py 42-56), but for one: the
\* request that comes to December of 9999 is answered with an error.
ShowsAMonth ==
    IF Mostrada
    THEN /\ EsAnio(vista.anio) /\ vista.mes \in 1 .. 12
         /\ vista.fin = vista.inicio + 1
    ELSE UltimoMes(AnioPedido(vista.anio), MesPedido(vista.mes))

\* From a page to the next no event is lost or shown twice: the window of the
\* next month begins where that of this one ends, but for the page before
\* December of 9999, whose link leads to the error (calendar.py 52-56, 78-82).
NextBeginsAtTheEnd ==
    (PaginaSiguiente /\ ~UltimoMes(vista.siguiente.anio, vista.siguiente.mes))
    => Mostrada' /\ vista'.inicio = vista.fin

\* Going back leads to the month that ends where this one begins, but for the page
\* of the first of all months.
PreviousEndsAtTheBeginning ==
    (PaginaAnterior /\ vista.inicio > 12) => Mostrada' /\ vista'.fin = vista.inicio

----------------------------------------
(* What the pages, the comments and the guides say, and the code does not keep:  *)
(* TLC finds a counterexample to each of the following.                          *)

\* Every request that passes the checks is answered.
ViewAnswers == Mostrada
===============================================================================
