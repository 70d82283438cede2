------------------------ MODULE MCAdministration_proofs -----------------------
(***************************************************************************)
(* Proofs about what happens around the courses: requests for access,      *)
(* prior credentials, the setup of the database, the calendar and the      *)
(* limit of the external API.  The theorems about a part are of every      *)
(* instance en of it, whatever its people, requests and bounds; what the   *)
(* run checks of all the parts at once follows from them at the end.       *)
(***************************************************************************)
EXTENDS MCAdministration, Sequences, FiniteSets, FiniteSetTheorems, SequenceTheorems,
    WellFoundedInduction, TLAPS

----------------------------------------
(* The month that is shown (CalendarMonths) *)

\* The years of a date.
DeFecha(a) == a \in 1 .. 9999

\* The page is that of a month, and its links are those of that month; an error
\* answers what comes to the last month of all.
MesInv(en) ==
    IF Mes(en)!Mostrada
    THEN /\ DeFecha(vista.anio) /\ vista.mes \in 1 .. 12
         /\ Mes(en)!TieneFin(vista.anio, vista.mes)
         /\ vista.inicio = Mes(en)!Primero(vista.anio, vista.mes)
         /\ vista.fin = Mes(en)!Fin(vista.anio, vista.mes)
         /\ vista.anterior = Mes(en)!Anterior(vista.anio, vista.mes)
         /\ vista.siguiente = Mes(en)!Siguiente(vista.anio, vista.mes)
    ELSE Mes(en)!UltimoMes(Mes(en)!AnioPedido(vista.anio), Mes(en)!MesPedido(vista.mes))

\* The years of a date are positive.
LEMMA LosAnios == ASSUME NEW a, DeFecha(a) PROVE a \in Nat \ {0}
BY DEF DeFecha

\* The last month of all is the only one without an end.
LEMMA ElUltimoMes ==
    ASSUME NEW en, NEW a, DeFecha(a), NEW m
    PROVE  Mes(en)!TieneFin(a, m) \/ Mes(en)!UltimoMes(a, m)
<1> SUFFICES ASSUME m = 12, ~DeFecha(a + 1) PROVE a = 9999
  BY DEF Mes!TieneFin, Mes!UltimoMes, Mes!EsAnio, DeFecha
<1> QED BY DEF DeFecha

\* What is asked for is corrected to a month of the calendar.
LEMMA MesCorregido ==
    ASSUME NEW en, Mes(en)!MonthsAssumption, NEW anio, NEW mes
    PROVE  /\ DeFecha(Mes(en)!AnioPedido(anio)) /\ Mes(en)!MesPedido(mes) \in 1 .. 12
           /\ DeFecha(anio) => Mes(en)!AnioPedido(anio) = anio
           /\ mes \in 1 .. 12 => Mes(en)!MesPedido(mes) = mes
BY DEF Mes!AnioPedido, Mes!MesPedido, Mes!MonthsAssumption, Mes!EsAnio, DeFecha

\* Whatever is asked for, the page is that of the month it is corrected to, or the
\* error of the last month of all.
LEMMA MesDeLaPagina ==
    ASSUME NEW en, Mes(en)!MonthsAssumption, NEW anio, NEW mes, Mes(en)!calendar_view(anio, mes)
    PROVE  /\ MesInv(en)'
           /\ DeFecha(anio) /\ mes \in 1 .. 12 /\ ~Mes(en)!UltimoMes(anio, mes) =>
                 /\ Mes(en)!Mostrada'
                 /\ vista'.inicio = Mes(en)!Primero(anio, mes)
                 /\ vista'.fin = Mes(en)!Fin(anio, mes)
<1>1. PICK a, m : a = Mes(en)!AnioPedido(anio) /\ m = Mes(en)!MesPedido(mes)
  OBVIOUS
<1>2. /\ DeFecha(a) /\ m \in 1 .. 12
      /\ DeFecha(anio) => a = anio
      /\ mes \in 1 .. 12 => m = mes
  BY <1>1, MesCorregido
<1>3. CASE Mes(en)!TieneFin(a, m)
  <2>1. vista' = Mes(en)!Pagina(a, m)
    BY <1>1, <1>3 DEF Mes!calendar_view, Mes!Ver
  <2>2. /\ Mes(en)!Mostrada' /\ vista'.anio = a /\ vista'.mes = m
        /\ vista'.inicio = Mes(en)!Primero(a, m) /\ vista'.fin = Mes(en)!Fin(a, m)
        /\ vista'.anterior = Mes(en)!Anterior(a, m)
        /\ vista'.siguiente = Mes(en)!Siguiente(a, m)
    BY <2>1 DEF Mes!Pagina, Mes!Mostrada
  <2> QED BY <1>2, <1>3, <2>2 DEF MesInv
<1>4. CASE ~Mes(en)!TieneFin(a, m)
  <2>1. vista' = Mes(en)!Error(anio, mes)
    BY <1>1, <1>4 DEF Mes!calendar_view, Mes!Ver
  <2>2. ~Mes(en)!Mostrada' /\ vista'.anio = anio /\ vista'.mes = mes
    BY <2>1 DEF Mes!Error, Mes!Mostrada
  <2>3. Mes(en)!UltimoMes(a, m)
    BY <1>2, <1>4, ElUltimoMes
  <2> QED BY <1>1, <1>2, <2>2, <2>3 DEF MesInv
<1> QED BY <1>3, <1>4

\* So it is at first ...
LEMMA MesInit ==
    ASSUME NEW en
    PROVE  Mes(en)!MonthsAssumption /\ Mes(en)!Init => MesInv(en)
<1> SUFFICES ASSUME Mes(en)!MonthsAssumption, Mes(en)!Init PROVE MesInv(en)
  OBVIOUS
<1>1. PICK a, m : a = Mes(en)!AnioPedido(en.anio) /\ m = Mes(en)!MesPedido(en.mes)
  OBVIOUS
<1>2. DeFecha(a) /\ m \in 1 .. 12
  BY <1>1, MesCorregido
<1>3. CASE Mes(en)!TieneFin(a, m)
  <2>1. vista = Mes(en)!Pagina(a, m)
    BY <1>1, <1>3 DEF Mes!Init, Mes!Ver
  <2> QED BY <1>2, <1>3, <2>1 DEF MesInv, Mes!Pagina, Mes!Mostrada
<1>4. CASE ~Mes(en)!TieneFin(a, m)
  <2>1. vista = Mes(en)!Error(en.anio, en.mes)
    BY <1>1, <1>4 DEF Mes!Init, Mes!Ver
  <2>2. ~Mes(en)!Mostrada /\ vista.anio = en.anio /\ vista.mes = en.mes
    BY <2>1 DEF Mes!Error, Mes!Mostrada
  <2>3. Mes(en)!UltimoMes(a, m)
    BY <1>2, <1>4, ElUltimoMes
  <2> QED BY <1>1, <2>2, <2>3 DEF MesInv
<1> QED BY <1>3, <1>4

\* ... and after every request.
LEMMA MesStep ==
    ASSUME NEW en
    PROVE  Mes(en)!MonthsAssumption /\ MesInv(en) /\ [Mes(en)!Next]_vista => MesInv(en)'
<1> SUFFICES ASSUME Mes(en)!MonthsAssumption, MesInv(en), [Mes(en)!Next]_vista PROVE MesInv(en)'
  OBVIOUS
<1>1. CASE UNCHANGED vista
  BY <1>1 DEF MesInv, Mes!Mostrada
<1>2. CASE \E anio, mes : Mes(en)!calendar_view(anio, mes)
  BY <1>2, MesDeLaPagina
<1> QED BY <1>1, <1>2 DEF Mes!Next, Mes!PaginaAnterior, Mes!PaginaSiguiente

\* What the run checks of it.
LEMMA MesSafe ==
    ASSUME NEW en
    PROVE  MesInv(en) => Mes(en)!ShowsAMonth
<1> SUFFICES ASSUME MesInv(en), Mes(en)!Mostrada PROVE Mes(en)!ShowsAMonth
  BY DEF MesInv, Mes!ShowsAMonth
<1>1. PICK a, m : a = vista.anio /\ m = vista.mes
  OBVIOUS
<1>2. /\ DeFecha(a) /\ a \in Nat \ {0} /\ m \in 1 .. 12
      /\ vista.inicio = Mes(en)!Primero(a, m) /\ vista.fin = Mes(en)!Fin(a, m)
  BY <1>1, LosAnios DEF MesInv
<1>3. Mes(en)!Fin(a, m) = Mes(en)!Primero(a, m) + 1
  BY <1>2 DEF Mes!Fin, Mes!Primero
<1> QED BY <1>1, <1>2, <1>3 DEF Mes!ShowsAMonth, Mes!EsAnio, DeFecha

\* The month after a page, as the one that its link names.
LEMMA MesDespues ==
    ASSUME NEW en, MesInv(en), Mes(en)!Mostrada, NEW s, s = vista.siguiente
    PROVE  /\ DeFecha(s.anio) /\ s.mes \in 1 .. 12
           /\ vista.fin = Mes(en)!Primero(s.anio, s.mes)
<1>1. PICK a, m : a = vista.anio /\ m = vista.mes
  OBVIOUS
<1>2. DeFecha(a) /\ m \in 1 .. 12 /\ Mes(en)!TieneFin(a, m)
  BY <1>1 DEF MesInv
<1>3. vista.fin = Mes(en)!Fin(a, m) /\ s = Mes(en)!Siguiente(a, m)
  BY <1>1 DEF MesInv
<1>4. CASE m = 12
  <2>1. s.anio = a + 1 /\ s.mes = 1
    BY <1>3, <1>4 DEF Mes!Siguiente
  <2>2. vista.fin = Mes(en)!Primero(a + 1, 1)
    BY <1>3, <1>4 DEF Mes!Fin
  <2>3. DeFecha(a + 1)
    BY <1>2, <1>4 DEF Mes!TieneFin, Mes!EsAnio, DeFecha
  <2> QED BY <2>1, <2>2, <2>3
<1>5. CASE m # 12
  <2>1. m < 12 /\ m + 1 \in 1 .. 12
    BY <1>2, <1>5
  <2>2. s.anio = a /\ s.mes = m + 1
    BY <1>3, <2>1 DEF Mes!Siguiente
  <2>3. vista.fin = Mes(en)!Primero(a, m + 1)
    BY <1>3, <1>5 DEF Mes!Fin
  <2> QED BY <1>2, <2>1, <2>2, <2>3
<1> QED BY <1>4, <1>5

\* The month before a page, as the one that its link names.
LEMMA MesAntes ==
    ASSUME NEW en, MesInv(en), Mes(en)!Mostrada, vista.inicio > 12, NEW s, s = vista.anterior
    PROVE  /\ DeFecha(s.anio) /\ s.mes \in 1 .. 12 /\ ~Mes(en)!UltimoMes(s.anio, s.mes)
           /\ vista.inicio = Mes(en)!Fin(s.anio, s.mes)
<1>1. PICK a, m : a = vista.anio /\ m = vista.mes
  OBVIOUS
<1>2. DeFecha(a) /\ a \in Nat \ {0} /\ m \in 1 .. 12
  BY <1>1, LosAnios DEF MesInv
<1>3. vista.inicio = Mes(en)!Primero(a, m) /\ s = Mes(en)!Anterior(a, m)
  BY <1>1 DEF MesInv
<1>4. 12 * a + (m - 1) > 12
  BY <1>3 DEF Mes!Primero
<1>5. CASE m = 1
  <2>1. s.anio = a - 1 /\ s.mes = 12
    BY <1>3, <1>5 DEF Mes!Anterior
  <2>2. a - 1 \in Nat \ {0} /\ (a - 1) + 1 = a
    BY <1>2, <1>4, <1>5
  <2>3. DeFecha(a - 1) /\ ~Mes(en)!UltimoMes(a - 1, 12)
    BY <1>2, <2>2 DEF DeFecha, Mes!UltimoMes
  <2>4. Mes(en)!Fin(s.anio, s.mes) = Mes(en)!Primero((a - 1) + 1, 1)
    BY <2>1 DEF Mes!Fin
  <2>5. vista.inicio = Mes(en)!Fin(s.anio, s.mes)
    BY <1>3, <1>5, <2>2, <2>4
  <2> QED BY <2>1, <2>3, <2>5
<1>6. CASE m # 1
  <2>1. m > 1 /\ m - 1 \in 1 .. 12 /\ m - 1 # 12 /\ (m - 1) + 1 = m
    BY <1>2, <1>6
  <2>2. s.anio = a /\ s.mes = m - 1
    BY <1>3, <2>1 DEF Mes!Anterior
  <2>3. Mes(en)!Fin(a, m - 1) = Mes(en)!Primero(a, (m - 1) + 1)
    BY <2>1 DEF Mes!Fin
  <2>4. vista.inicio = Mes(en)!Fin(a, m - 1)
    BY <1>3, <2>1, <2>3
  <2>5. ~Mes(en)!UltimoMes(a, m - 1)
    BY <2>1 DEF Mes!UltimoMes
  <2> QED BY <1>2, <2>1, <2>2, <2>4, <2>5
<1> QED BY <1>5, <1>6

\* No day is lost between a page and the next ...
LEMMA MesSiguiente ==
    ASSUME NEW en, Mes(en)!MonthsAssumption, MesInv(en), [Mes(en)!Next]_vista
    PROVE  Mes(en)!NextBeginsAtTheEnd
<1>1. PICK s : s = vista.siguiente
  OBVIOUS
<1> SUFFICES ASSUME Mes(en)!PaginaSiguiente, ~Mes(en)!UltimoMes(s.anio, s.mes)
             PROVE  Mes(en)!Mostrada' /\ vista'.inicio = vista.fin
  BY <1>1 DEF Mes!NextBeginsAtTheEnd
<1>2. /\ DeFecha(s.anio) /\ s.mes \in 1 .. 12
      /\ vista.fin = Mes(en)!Primero(s.anio, s.mes)
  BY <1>1, MesDespues DEF Mes!PaginaSiguiente
<1>3. Mes(en)!calendar_view(s.anio, s.mes)
  BY <1>1 DEF Mes!PaginaSiguiente
<1> QED BY <1>2, <1>3, MesDeLaPagina

\* ... nor between it and the one before.
LEMMA MesAnterior ==
    ASSUME NEW en, Mes(en)!MonthsAssumption, MesInv(en), [Mes(en)!Next]_vista
    PROVE  Mes(en)!PreviousEndsAtTheBeginning
<1>1. PICK s : s = vista.anterior
  OBVIOUS
<1> SUFFICES ASSUME Mes(en)!PaginaAnterior, vista.inicio > 12
             PROVE  Mes(en)!Mostrada' /\ vista'.fin = vista.inicio
  BY DEF Mes!PreviousEndsAtTheBeginning
<1>2. /\ DeFecha(s.anio) /\ s.mes \in 1 .. 12 /\ ~Mes(en)!UltimoMes(s.anio, s.mes)
      /\ vista.inicio = Mes(en)!Fin(s.anio, s.mes)
  BY <1>1, MesAntes DEF Mes!PaginaAnterior
<1>3. Mes(en)!calendar_view(s.anio, s.mes)
  BY <1>1 DEF Mes!PaginaAnterior
<1> QED BY <1>2, <1>3, MesDeLaPagina

----------------------------------------
(* The limit of the external API (ApiRateLimit) *)

\* One request with the key at a time.
UnaALaVez(en) == \A r, s \in en.peticiones : r = s

\* The first a of the requests that were allowed are those that the counter stands
\* for, and those before them were allowed before its timeout began.
TasaCorte(en, a) ==
    /\ a \in Nat /\ a <= Len(recientes)
    /\ contador = Nada => a = 0
    /\ contador # Nada => a <= contador
    /\ Len(recientes) - a <= IF backend = "memoria" THEN 0 ELSE en.limite
    /\ resta # Nada => \A i \in 1..Len(recientes) : i > a => recientes[i] + resta > en.ventana

\* A request that is to write the counter has read one that stands for as many.
TasaLeido(a, r) ==
    peticion[r].pc = "escribir" =>
        /\ peticion[r].leido = Nada => a = 0
        /\ peticion[r].leido # Nada => a <= peticion[r].leido

\* What a request knows of the counter.
TasaPaso(en, r) ==
    /\ peticion[r].pc = "fijar" => contador = Nada
    /\ peticion[r].pc = "sumar" =>
          peticion[r].leido \in Nat /\ peticion[r].leido < en.limite /\
            contador \in {peticion[r].leido, Nada}
    /\ (peticion[r].pc = "escribir" /\ peticion[r].leido # Nada) => peticion[r].leido < en.limite

\* What a request keeps of the counter when it only reads it.
TasaLee(en, r, pc, n) ==
    /\ pc \in {"fijar", "sumar", "escribir"} /\ n \in Nat \cup {Nada}
    /\ peticion' = [peticion EXCEPT ![r] = [pc |-> pc, leido |-> n]]
    /\ pc = "fijar" => contador = Nada
    /\ pc = "sumar" => n \in Nat /\ n < en.limite /\ contador = n
    /\ pc = "escribir" => contador = n
    /\ (pc = "escribir" /\ n # Nada) => n < en.limite

\* The counter and its timeout.
TasaCuenta(en) ==
    /\ contador # Nada => contador <= en.limite
    /\ contador = Nada => resta = Nada
    /\ backend = "memoria" =>
          /\ resta = Nada => contador = Nada
          /\ resta # Nada => \A i \in 1..Len(recientes) : recientes[i] + resta > en.ventana

\* All of it.
TasaInv(en) ==
    /\ Clave(en)!TypeOK /\ TasaCuenta(en)
    /\ \A r \in en.peticiones : TasaPaso(en, r)
    /\ \E a : TasaCorte(en, a) /\ \A r \in en.peticiones : TasaLeido(a, r)

----------------------------------------
\* The invariant gives what the run checks.
LEMMA TasaSafe ==
    ASSUME NEW en
    PROVE  Clave(en)!RateAssumption /\ TasaInv(en) => Clave(en)!LimiteRespetado
<1> SUFFICES ASSUME Clave(en)!RateAssumption, TasaInv(en) PROVE Clave(en)!LimiteRespetado
  OBVIOUS
<1>1. PICK a : TasaCorte(en, a)
  BY DEF TasaInv
<1>2. /\ contador \in Nat \cup {Nada} /\ Len(recientes) \in Nat
      /\ contador # Nada => contador <= en.limite
      /\ en.limite \in Nat
  BY DEF TasaInv, TasaCuenta, Clave!TypeOK, Clave!RateAssumption
<1>3. a <= en.limite
  BY <1>1, <1>2 DEF TasaCorte
<1> QED BY <1>1, <1>2, <1>3 DEF TasaCorte, Clave!LimiteRespetado, Clave!Permitidas

\* At first nothing was allowed.
LEMMA TasaInit ==
    ASSUME NEW en
    PROVE  Clave(en)!RateAssumption /\ Clave(en)!Init => TasaInv(en)
<1> SUFFICES ASSUME Clave(en)!RateAssumption, Clave(en)!Init PROVE TasaInv(en)
  OBVIOUS
<1>1. Clave(en)!TypeOK
  BY DEF Clave!RateAssumption, Clave!Init, Clave!TypeOK
<1>2. TasaCuenta(en) /\ TasaCorte(en, 0)
  BY DEF Clave!RateAssumption, Clave!Init, TasaCuenta, TasaCorte
<1>3. \A r \in en.peticiones : TasaPaso(en, r) /\ TasaLeido(0, r)
  BY DEF Clave!Init, TasaPaso, TasaLeido
<1> QED BY <1>1, <1>2, <1>3 DEF TasaInv

\* A request that is allowed is the newest.
LEMMA TasaPermitir ==
    ASSUME NEW en, Clave(en)!RateAssumption, Clave(en)!TypeOK, NEW r \in en.peticiones,
           Clave(en)!Permitir(r)
    PROVE  /\ recientes' \in Seq(1..en.ventana)
           /\ Len(recientes') = Len(recientes) + 1
           /\ recientes'[1] = 1
           /\ \A i \in 1..Len(recientes') : i > 1 => i - 1 \in 1..Len(recientes) /\
                recientes'[i] = recientes[i - 1]
           /\ \A i, j \in DOMAIN recientes' : i < j => recientes'[i] <= recientes'[j]
           /\ peticion' = [peticion EXCEPT ![r] = [pc |-> "libre", leido |-> Nada]]
<1>1. recientes \in Seq(1..en.ventana) /\ en.ventana \in Nat \ {0}
  BY DEF Clave!TypeOK, Clave!RateAssumption
<1>2. recientes' = <<1>> \o recientes
  BY DEF Clave!Permitir
<1>3. /\ recientes' \in Seq(1..en.ventana)
      /\ Len(recientes') = Len(recientes) + 1
      /\ recientes'[1] = 1
      /\ \A i \in 1..Len(recientes') : i > 1 => i - 1 \in 1..Len(recientes) /\
           recientes'[i] = recientes[i - 1]
  BY <1>1, <1>2
<1>4. ASSUME NEW i \in DOMAIN recientes', NEW j \in DOMAIN recientes', i < j
      PROVE  recientes'[i] <= recientes'[j]
  <2>1. i \in 1..Len(recientes') /\ j \in 1..Len(recientes') /\ j > 1 /\
          recientes'[j] = recientes[j - 1]
        /\ j - 1 \in 1..Len(recientes)
    BY <1>3, <1>4
  <2>2. CASE i = 1
    <3>1. recientes[j - 1] \in 1..en.ventana
      BY <1>1, <2>1
    <3> QED BY <1>3, <2>1, <2>2, <3>1
  <2>3. CASE i # 1
    <3>1. i - 1 \in 1..Len(recientes) /\ recientes'[i] = recientes[i - 1] /\ i - 1 < j - 1
      BY <1>3, <1>4, <2>1, <2>3
    <3>2. \A k, l \in DOMAIN recientes : k < l => recientes[k] <= recientes[l]
      BY DEF Clave!TypeOK
    <3>3. i - 1 \in DOMAIN recientes /\ j - 1 \in DOMAIN recientes
      BY <1>1, <2>1, <3>1
    <3> QED BY <2>1, <3>1, <3>2, <3>3
  <2> QED BY <2>2, <2>3
<1> QED BY <1>3, <1>4 DEF Clave!Permitir, Clave!Ir

\* The type after a request is allowed.
LEMMA TasaPermitirTipo ==
    ASSUME NEW en, Clave(en)!RateAssumption, Clave(en)!TypeOK, NEW r \in en.peticiones,
           Clave(en)!Permitir(r),
           backend' = backend, activa' = activa, contador' \in Nat \cup {Nada},
           resta' \in (1..en.ventana) \cup {Nada}
    PROVE  Clave(en)!TypeOK'
<1>1. peticion' \in [en.peticiones -> [pc: {"libre", "fijar", "sumar", "releer", "escribir"},
                                    leido: Nat \cup {Nada}]]
  BY DEF Clave!TypeOK, Clave!Permitir, Clave!Ir
<1> QED BY <1>1, TasaPermitir DEF Clave!TypeOK

----------------------------------------
\* A request that is allowed counts: as a first one, or as one more than was read.
LEMMA TasaFijar ==
    ASSUME NEW en, Clave(en)!RateAssumption, UnaALaVez(en), TasaInv(en), NEW r \in en.peticiones,
           Clave(en)!Fijar(r)
    PROVE  TasaInv(en)'
<1>1. /\ contador = Nada /\ contador' = 1 /\ resta' = en.ventana /\ Clave(en)!Permitir(r)
      /\ backend' = backend /\ activa' = activa
  BY DEF TasaInv, TasaPaso, Clave!Fijar
<1>2. en.limite \in Nat \ {0} /\ en.ventana \in Nat \ {0} /\ Nada \notin Nat
  BY DEF Clave!RateAssumption
<1>3. Clave(en)!TypeOK /\ Clave(en)!TypeOK'
  BY <1>1, <1>2, TasaPermitirTipo DEF TasaInv
<1>4. /\ recientes' \in Seq(1..en.ventana) /\ recientes \in Seq(1..en.ventana)
      /\ Len(recientes') = Len(recientes) + 1
      /\ peticion' = [peticion EXCEPT ![r] = [pc |-> "libre", leido |-> Nada]]
  BY <1>1, <1>3, TasaPermitir DEF Clave!TypeOK
<1>5. \A q \in en.peticiones : q = r /\ peticion'[q].pc = "libre"
  BY <1>3, <1>4 DEF UnaALaVez, Clave!TypeOK
<1>6. \A i \in 1..Len(recientes') : recientes'[i] + resta' > en.ventana
  BY <1>1, <1>2, <1>4
<1>7. Len(recientes) <= IF backend = "memoria" THEN 0 ELSE en.limite
  BY <1>1, <1>4 DEF TasaInv, TasaCorte
<1>8. TasaCorte(en, 1)'
  BY <1>1, <1>2, <1>4, <1>6, <1>7 DEF TasaCorte
<1>9. TasaCuenta(en)'
  BY <1>1, <1>2, <1>6 DEF TasaCuenta
<1>10. \A q \in en.peticiones : TasaPaso(en, q)' /\ TasaLeido(1, q)'
  BY <1>5 DEF TasaPaso, TasaLeido
<1> QED BY <1>3, <1>8, <1>9, <1>10 DEF TasaInv

\* The count of the first request of a window is written.
LEMMA TasaEscribir ==
    ASSUME NEW en, Clave(en)!RateAssumption, UnaALaVez(en), TasaInv(en), NEW r \in en.peticiones,
           Clave(en)!Escribir(r)
    PROVE  TasaInv(en)'
<1>1. PICK n : n = peticion[r].leido
  OBVIOUS
<1>2. /\ contador' = (IF n = Nada THEN 1 ELSE n + 1) /\ resta' = en.ventana /\ Clave(en)!Permitir(r)
      /\ backend' = backend /\ activa' = activa /\ peticion[r].pc = "escribir"
  BY <1>1 DEF Clave!Escribir, Clave!Plazo
<1>3. /\ en.limite \in Nat \ {0} /\ en.ventana \in Nat \ {0} /\ Nada \notin Nat
      /\ n \in Nat \cup {Nada}
      /\ n # Nada => n < en.limite
  BY <1>1, <1>2 DEF Clave!RateAssumption, TasaInv, Clave!TypeOK, TasaPaso
<1>4. contador' \in Nat /\ contador' >= 1 /\ contador' <= en.limite /\ contador' # Nada /\
        resta' # Nada
  BY <1>2, <1>3
<1>5. Clave(en)!TypeOK /\ Clave(en)!TypeOK'
  BY <1>2, <1>3, <1>4, TasaPermitirTipo DEF TasaInv
<1>6. /\ recientes' \in Seq(1..en.ventana) /\ recientes \in Seq(1..en.ventana)
      /\ Len(recientes') = Len(recientes) + 1
      /\ peticion' = [peticion EXCEPT ![r] = [pc |-> "libre", leido |-> Nada]]
  BY <1>2, <1>5, TasaPermitir DEF Clave!TypeOK
<1>7. \A q \in en.peticiones : q = r /\ peticion'[q].pc = "libre"
  BY <1>5, <1>6 DEF UnaALaVez, Clave!TypeOK
<1>8. \A i \in 1..Len(recientes') : recientes'[i] + resta' > en.ventana
  BY <1>2, <1>3, <1>6
<1>9. PICK a : TasaCorte(en, a) /\ TasaLeido(a, r)
  BY DEF TasaInv
<1>10. a \in Nat /\ a + 1 \in Nat /\ a + 1 <= contador' /\ a + 1 <= Len(recientes')
       /\ Len(recientes') - (a + 1) <= IF backend = "memoria" THEN 0 ELSE en.limite
  <2>1. /\ a \in Nat /\ a <= Len(recientes)
        /\ Len(recientes) - a <= IF backend = "memoria" THEN 0 ELSE en.limite
    BY <1>9 DEF TasaCorte
  <2>2. /\ n = Nada => a = 0
        /\ n # Nada => a <= n
    BY <1>1, <1>2, <1>9 DEF TasaLeido
  <2>3. Len(recientes) \in Nat
    BY <1>6
  <2>4. a + 1 <= contador'
    BY <1>2, <1>3, <2>1, <2>2
  <2>5. Len(recientes') - (a + 1) = Len(recientes) - a
    BY <1>6, <2>1, <2>3
  <2> QED BY <1>6, <2>1, <2>3, <2>4, <2>5
<1>11. TasaCorte(en, a + 1)'
  BY <1>2, <1>4, <1>8, <1>10 DEF TasaCorte
<1>12. TasaCuenta(en)'
  BY <1>4, <1>8 DEF TasaCuenta
<1>13. \A q \in en.peticiones : TasaPaso(en, q)' /\ TasaLeido(a + 1, q)'
  BY <1>7 DEF TasaPaso, TasaLeido
<1> QED BY <1>5, <1>11, <1>12, <1>13 DEF TasaInv

\* The count of the key grows by the request.
LEMMA TasaSumar ==
    ASSUME NEW en, Clave(en)!RateAssumption, UnaALaVez(en), TasaInv(en), NEW r \in en.peticiones,
           Clave(en)!Sumar(r)
    PROVE  TasaInv(en)'
<1>1. PICK n : n = peticion[r].leido
  OBVIOUS
<1>2. /\ contador' = (IF contador = Nada THEN 1 ELSE contador + 1) /\ resta' = resta /\
           Clave(en)!Permitir(r)
      /\ backend' = backend /\ activa' = activa /\ peticion[r].pc = "sumar" /\ backend = "redis"
  BY DEF Clave!Sumar
<1>3. /\ en.limite \in Nat \ {0} /\ en.ventana \in Nat \ {0} /\ Nada \notin Nat
      /\ n \in Nat /\ n < en.limite /\ contador \in {n, Nada}
      /\ resta \in (1..en.ventana) \cup {Nada}
  BY <1>1, <1>2 DEF Clave!RateAssumption, TasaInv, Clave!TypeOK, TasaPaso
<1>4. contador' \in Nat /\ contador' >= 1 /\ contador' <= en.limite /\ contador' # Nada
  BY <1>2, <1>3
<1>5. Clave(en)!TypeOK /\ Clave(en)!TypeOK'
  BY <1>2, <1>3, <1>4, TasaPermitirTipo DEF TasaInv
<1>6. /\ recientes' \in Seq(1..en.ventana) /\ recientes \in Seq(1..en.ventana)
      /\ Len(recientes') = Len(recientes) + 1
      /\ \A i \in 1..Len(recientes') : i > 1 => i - 1 \in 1..Len(recientes) /\
           recientes'[i] = recientes[i - 1]
      /\ peticion' = [peticion EXCEPT ![r] = [pc |-> "libre", leido |-> Nada]]
  BY <1>2, <1>5, TasaPermitir DEF Clave!TypeOK
<1>7. \A q \in en.peticiones : q = r /\ peticion'[q].pc = "libre"
  BY <1>5, <1>6 DEF UnaALaVez, Clave!TypeOK
<1>9. PICK a : TasaCorte(en, a)
  BY DEF TasaInv
<1>10. /\ a \in Nat /\ a <= Len(recientes) /\ Len(recientes) \in Nat
       /\ Len(recientes) - a <= IF backend = "memoria" THEN 0 ELSE en.limite
       /\ resta # Nada => \A i \in 1..Len(recientes) : i > a => recientes[i] + resta > en.ventana
       /\ contador = Nada => a = 0
       /\ contador # Nada => a <= contador
  BY <1>6, <1>9 DEF TasaCorte
<1>11. a + 1 \in Nat /\ a + 1 <= contador' /\ a + 1 <= Len(recientes')
       /\ Len(recientes') - (a + 1) <= IF backend = "memoria" THEN 0 ELSE en.limite
  <2>4. a + 1 <= contador'
    BY <1>2, <1>3, <1>10
  <2>5. Len(recientes') - (a + 1) = Len(recientes) - a
    BY <1>6, <1>10
  <2> QED BY <1>6, <1>10, <2>4, <2>5
<1>12. ASSUME resta # Nada, NEW i \in 1..Len(recientes'), i > a + 1
       PROVE  recientes'[i] + resta > en.ventana
  <2>1. i - 1 \in 1..Len(recientes) /\ i - 1 > a /\ recientes'[i] = recientes[i - 1]
    BY <1>6, <1>10, <1>12
  <2> QED BY <1>10, <1>12, <2>1
<1>13. TasaCorte(en, a + 1)'
  BY <1>2, <1>4, <1>11, <1>12 DEF TasaCorte
<1>14. TasaCuenta(en)'
  BY <1>2, <1>4 DEF TasaCuenta
<1>15. \A q \in en.peticiones : TasaPaso(en, q)' /\ TasaLeido(a + 1, q)'
  BY <1>7 DEF TasaPaso, TasaLeido
<1> QED BY <1>5, <1>13, <1>14, <1>15 DEF TasaInv

----------------------------------------
\* A request that only reads the counter knows it.
LEMMA TasaLeer ==
    ASSUME NEW en, Clave(en)!RateAssumption, UnaALaVez(en), TasaInv(en), NEW r \in en.peticiones,
           Clave(en)!Llega(r) \/ Clave(en)!Releer(r)
    PROVE  TasaInv(en)'
<1>1. UNCHANGED <<backend, activa, contador, resta, recientes>>
  BY DEF Clave!Llega, Clave!Releer
<1>2. TasaCuenta(en)'
  BY <1>1 DEF TasaInv, TasaCuenta
<1>3. PICK a : TasaCorte(en, a)
  BY DEF TasaInv
<1>4. TasaCorte(en, a)'
  BY <1>1, <1>3 DEF TasaCorte
<1>5. contador \in Nat \cup {Nada} /\ Nada \notin Nat /\ en.limite \in Nat
  BY DEF TasaInv, Clave!TypeOK, Clave!RateAssumption
<1>6. PICK pc, n : TasaLee(en, r, pc, n)
  <2>1. CASE Clave(en)!Llega(r)
    <3>1. TasaLee(en, r, "fijar", Nada) \/ TasaLee(en, r, "sumar", contador)
      BY <1>5, <2>1 DEF Clave!Llega, Clave!Ir, Clave!AlLimite, TasaLee
    <3> QED BY <3>1
  <2>2. CASE Clave(en)!Releer(r)
    <3>1. peticion[r].leido < en.limite /\ contador \in {peticion[r].leido, Nada}
      BY <2>2 DEF TasaInv, TasaPaso, Clave!Releer
    <3>2. TasaLee(en, r, "escribir", contador)
      BY <1>5, <2>2, <3>1 DEF Clave!Releer, Clave!Ir, TasaLee
    <3> QED BY <3>2
  <2> QED BY <2>1, <2>2
<1>7. Clave(en)!TypeOK'
  BY <1>1, <1>6 DEF TasaInv, Clave!TypeOK, TasaLee
<1>8. \A q \in en.peticiones : peticion'[q].pc = pc /\ peticion'[q].leido = n
  BY <1>6 DEF UnaALaVez, TasaInv, Clave!TypeOK, TasaLee
<1>9. \A q \in en.peticiones : TasaPaso(en, q)'
  BY <1>1, <1>6, <1>8 DEF TasaPaso, TasaLee
<1>10. \A q \in en.peticiones : TasaLeido(a, q)'
  BY <1>3, <1>6, <1>8 DEF TasaLeido, TasaCorte, TasaLee
<1> QED BY <1>2, <1>4, <1>7, <1>9, <1>10 DEF TasaInv

\* A tick: the oldest requests leave the window, and with the timeout the counter.
LEMMA TasaPasa ==
    ASSUME NEW en, Clave(en)!RateAssumption, TasaInv(en), Clave(en)!Pasa
    PROVE  TasaInv(en)'
<1>1. /\ en.ventana \in Nat \ {0} /\ en.limite \in Nat \ {0} /\ Nada \notin Nat
      /\ recientes \in Seq(1..en.ventana) /\ Len(recientes) \in Nat
      /\ contador \in Nat \cup {Nada} /\ resta \in (1..en.ventana) \cup {Nada}
      /\ \A i, j \in DOMAIN recientes : i < j => recientes[i] <= recientes[j]
  BY DEF Clave!RateAssumption, TasaInv, Clave!TypeOK
<1>2. PICK n \in 0..Len(recientes) :
         /\ \A i \in 1..Len(recientes) : recientes[i] < en.ventana <=> i <= n
         /\ recientes' = [i \in 1..n |-> recientes[i] + 1]
  BY DEF Clave!Pasa
<1>3. /\ \A i \in 1..n : i \in 1..Len(recientes) /\ recientes[i] \in 1..en.ventana /\
           recientes[i] < en.ventana
      /\ \A i \in 1..n : recientes[i] + 1 \in 1..en.ventana
  <2>1. PICK v \in Nat \ {0} : v = en.ventana
    BY <1>1
  <2>2. recientes \in Seq(1..v)
    BY <1>1, <2>1
  <2>3. \A i \in 1..Len(recientes) : recientes[i] \in 1..v
    BY <2>2
  <2>4. \A i \in 1..Len(recientes) : recientes[i] < v <=> i <= n
    BY <1>2, <2>1
  <2>5. PICK l \in Nat : l = Len(recientes)
    BY <1>1
  <2>6. \A i \in 1..n : i \in 1..l /\ i <= n
    BY <2>5
  <2>7. \A i \in 1..n : i \in 1..Len(recientes) /\ recientes[i] \in 1..v /\ recientes[i] < v
    BY <2>3, <2>4, <2>5, <2>6
  <2>8. \A i \in 1..n : recientes[i] + 1 \in 1..v
    BY <2>7
  <2> QED BY <2>1, <2>7, <2>8
<1>4. recientes' \in Seq(1..en.ventana) /\ Len(recientes') = n /\ DOMAIN recientes' = 1..n
  BY <1>2, <1>3
<1>5. \A i, j \in DOMAIN recientes' : i < j => recientes'[i] <= recientes'[j]
  <2>1. SUFFICES ASSUME NEW i \in 1..n, NEW j \in 1..n, i < j PROVE recientes'[i] <= recientes'[j]
    BY <1>4
  <2>2. recientes[i] <= recientes[j] /\ recientes[i] \in 1..en.ventana /\
          recientes[j] \in 1..en.ventana
    BY <1>1, <1>3, <2>1
  <2>3. recientes'[i] = recientes[i] + 1 /\ recientes'[j] = recientes[j] + 1
    BY <1>2
  <2> QED BY <2>2, <2>3
<1>6. UNCHANGED <<backend, activa, peticion>>
  BY DEF Clave!Pasa
<1>7. PICK a : TasaCorte(en, a) /\ \A r \in en.peticiones : TasaLeido(a, r)
  BY DEF TasaInv
<1>8. /\ a \in Nat /\ a <= Len(recientes)
      /\ Len(recientes) - a <= IF backend = "memoria" THEN 0 ELSE en.limite
      /\ contador = Nada => a = 0
      /\ contador # Nada => a <= contador
      /\ resta # Nada => \A i \in 1..Len(recientes) : i > a => recientes[i] + resta > en.ventana
  BY <1>7 DEF TasaCorte
<1>9. TasaCuenta(en)
  BY DEF TasaInv
<1>10. CASE resta = 1
  <2>1. contador' = Nada /\ resta' = Nada /\ resta # Nada /\ contador # Nada /\
          contador <= en.limite
    BY <1>1, <1>9, <1>10 DEF Clave!Pasa, TasaCuenta
  <2>2. n <= a
    <3>1. SUFFICES ASSUME n > a PROVE FALSE
      BY <1>2, <1>8
    <3>2. n \in 1..Len(recientes) /\ recientes[n] + 1 > en.ventana
      BY <1>2, <1>8, <1>10, <2>1, <3>1
    <3>3. recientes[n] < en.ventana /\ recientes[n] \in 1..en.ventana
      BY <1>1, <1>2, <3>2
    <3> QED BY <1>1, <3>2, <3>3
  <2>3. backend = "memoria" => n = 0
    <3>1. SUFFICES ASSUME backend = "memoria", n # 0 PROVE FALSE
      OBVIOUS
    <3>2. n \in 1..Len(recientes) /\ recientes[n] + 1 > en.ventana
      BY <1>2, <1>9, <1>10, <2>1, <3>1 DEF TasaCuenta
    <3>3. recientes[n] < en.ventana /\ recientes[n] \in 1..en.ventana
      BY <1>1, <1>2, <3>2
    <3> QED BY <1>1, <3>2, <3>3
  <2>4. n <= en.limite
    BY <1>1, <1>2, <1>8, <2>1, <2>2
  <2>5. TasaCorte(en, 0)'
    BY <1>1, <1>2, <1>4, <1>6, <2>1, <2>3, <2>4 DEF TasaCorte
  <2>6. TasaCuenta(en)'
    BY <2>1 DEF TasaCuenta
  <2>7. Clave(en)!TypeOK'
    BY <1>4, <1>5, <1>6, <2>1 DEF TasaInv, Clave!TypeOK
  <2>8. ASSUME NEW r \in en.peticiones PROVE TasaPaso(en, r)' /\ TasaLeido(0, r)'
    <3>1. peticion[r].leido \in Nat \cup {Nada} /\ peticion' = peticion
      BY <1>6 DEF TasaInv, Clave!TypeOK
    <3>2. TasaPaso(en, r)
      BY DEF TasaInv
    <3>3. TasaPaso(en, r)'
      BY <2>1, <3>1, <3>2 DEF TasaPaso
    <3>4. TasaLeido(0, r)'
      BY <1>1, <3>1 DEF TasaLeido
    <3> QED BY <3>3, <3>4
  <2> QED BY <2>5, <2>6, <2>7, <2>8 DEF TasaInv
<1>11. CASE resta # 1
  <2>1. /\ contador' = contador
        /\ resta = Nada => resta' = Nada
        /\ resta # Nada => resta \in 2..en.ventana /\ resta' = resta - 1 /\ resta' # Nada
    BY <1>1, <1>11 DEF Clave!Pasa
  <2>2. ASSUME resta' # Nada, NEW i \in 1..n
        PROVE  recientes'[i] + resta' = recientes[i] + resta
    <3>1. recientes'[i] = recientes[i] + 1 /\ recientes[i] \in 1..en.ventana
      BY <1>2, <1>3
    <3>2. resta' = resta - 1 /\ resta \in 2..en.ventana
      BY <2>1, <2>2
    <3> QED BY <3>1, <3>2
  <2>3. PICK b \in Nat : b <= a /\ b <= n /\ (b = a \/ b = n)
    <3>1. CASE n <= a
      BY <1>2, <3>1
    <3>2. CASE n > a
      BY <1>2, <1>8, <3>2
    <3> QED BY <1>2, <1>8, <3>1, <3>2
  <2>4. n - b <= IF backend = "memoria" THEN 0 ELSE en.limite
    <3>1. CASE b = n
      BY <1>1, <1>2, <3>1
    <3>2. CASE b = a
      <4>1. n - b <= Len(recientes) - a
        BY <1>1, <1>2, <1>8, <3>2
      <4> QED BY <1>1, <1>2, <1>8, <2>3, <4>1
    <3> QED BY <2>3, <3>1, <3>2
  <2>5. ASSUME resta' # Nada, NEW i \in 1..n, i > b PROVE recientes'[i] + resta' > en.ventana
    <3>1. b = a /\ i > a /\ i \in 1..Len(recientes) /\ resta # Nada
      BY <1>2, <2>1, <2>3, <2>5
    <3>2. recientes[i] + resta > en.ventana
      BY <1>8, <3>1
    <3> QED BY <2>2, <2>5, <3>2
  <2>6. TasaCorte(en, b)'
    <3>1. contador' = Nada => b = 0
      BY <1>8, <2>1, <2>3
    <3>2. contador' # Nada => b <= contador'
      BY <1>1, <1>8, <2>1, <2>3
    <3> QED BY <1>4, <1>6, <2>3, <2>4, <2>5, <3>1, <3>2 DEF TasaCorte
  <2>7. TasaCuenta(en)'
    <3>1. ASSUME backend = "memoria", resta' # Nada, NEW i \in 1..n
          PROVE  recientes'[i] + resta' > en.ventana
      <4>1. recientes[i] + resta > en.ventana
        BY <1>2, <1>9, <2>1, <3>1 DEF TasaCuenta
      <4> QED BY <2>2, <3>1, <4>1
    <3> QED BY <1>4, <1>6, <1>9, <2>1, <3>1 DEF TasaCuenta
  <2>8. Clave(en)!TypeOK'
    <3>1. resta' \in (1..en.ventana) \cup {Nada}
      BY <1>1, <2>1
    <3> QED BY <1>4, <1>5, <1>6, <2>1, <3>1 DEF TasaInv, Clave!TypeOK
  <2>9. ASSUME NEW r \in en.peticiones PROVE TasaPaso(en, r)' /\ TasaLeido(b, r)'
    <3>1. peticion[r].leido \in Nat \cup {Nada} /\ peticion' = peticion
      BY <1>6 DEF TasaInv, Clave!TypeOK
    <3>2. TasaPaso(en, r) /\ TasaLeido(a, r)
      BY <1>7 DEF TasaInv
    <3>3. TasaPaso(en, r)'
      BY <2>1, <3>1, <3>2 DEF TasaPaso
    <3>4. TasaLeido(b, r)'
      BY <1>1, <1>8, <2>3, <3>1, <3>2 DEF TasaLeido
    <3> QED BY <3>3, <3>4
  <2> QED BY <2>6, <2>7, <2>8, <2>9 DEF TasaInv
<1> QED BY <1>10, <1>11

\* Every step keeps the invariant.
LEMMA TasaStep ==
    ASSUME NEW en
    PROVE  Clave(en)!RateAssumption /\ UnaALaVez(en) /\ TasaInv(en) /\
           [Clave(en)!Next]_(Clave(en)!vars) => TasaInv(en)'
<1> SUFFICES ASSUME Clave(en)!RateAssumption, UnaALaVez(en), TasaInv(en),
      [Clave(en)!Next]_(Clave(en)!vars) PROVE TasaInv(en)'
  OBVIOUS
<1>1. CASE UNCHANGED <<backend, contador, resta, peticion, recientes>> /\ activa' \in BOOLEAN
  <2>1. Clave(en)!TypeOK' /\ TasaCuenta(en)'
    BY <1>1 DEF TasaInv, Clave!TypeOK, TasaCuenta
  <2>2. \A r \in en.peticiones : TasaPaso(en, r)'
    BY <1>1 DEF TasaInv, TasaPaso
  <2>3. PICK a : TasaCorte(en, a) /\ \A r \in en.peticiones : TasaLeido(a, r)
    BY DEF TasaInv
  <2>4. TasaCorte(en, a)' /\ \A r \in en.peticiones : TasaLeido(a, r)'
    BY <1>1, <2>3 DEF TasaCorte, TasaLeido
  <2> QED BY <2>1, <2>2, <2>4 DEF TasaInv
<1>2. CASE UNCHANGED Clave(en)!vars
  BY <1>1, <1>2 DEF Clave!vars, TasaInv, Clave!TypeOK
<1>3. CASE Clave(en)!Revocar
  BY <1>1, <1>3 DEF Clave!Revocar
<1>4. ASSUME NEW r \in en.peticiones, Clave(en)!Llega(r) \/ Clave(en)!Rechazar(r) \/
             Clave(en)!Atender(r) PROVE TasaInv(en)'
  <2>1. CASE Clave(en)!Rechazar(r)
    BY <1>2, <2>1 DEF Clave!Rechazar
  <2> QED BY <1>4, <2>1, TasaLeer, TasaFijar, TasaSumar, TasaEscribir DEF Clave!Atender
<1>5. CASE Clave(en)!Pasa
  BY <1>5, TasaPasa
<1> QED BY <1>2, <1>3, <1>4, <1>5 DEF Clave!Next

\* A nonempty set of natural numbers has a least one.
LEMMA ElMenor ==
    ASSUME NEW T, T \subseteq Nat, T # {} PROVE \E x \in T : \A y \in T : x <= y
<1>1. PICK R : R = {ss \in Nat \X Nat : ss[1] < ss[2]}
  OBVIOUS
<1>2. IsWellFoundedOn(R, Nat)
  BY <1>1, NatLessThanWellFounded DEF OpToRel
<1>3. PICK x \in T : \A y \in T : ~ (<<y, x>> \in R)
  BY <1>2, WFMin
<1>4. \A y \in T : x <= y
  <2> SUFFICES ASSUME NEW y \in T, y < x PROVE FALSE
    OBVIOUS
  <2>1. PICK z : z = <<y, x>>
    OBVIOUS
  <2>2. z \in Nat \X Nat /\ z[1] = y /\ z[2] = x
    BY <2>1
  <2>3. z \in R
    BY <1>1, <2>2
  <2> QED BY <1>3, <2>1, <2>3
<1> QED BY <1>4

----------------------------------------
(* The limit of the form for access (AccessRequests) *)

\* A row for every post that was let through and is past its commit, and a receipt
\* for no more than those.
Recibido(c) ==
    /\ filas[c] \in Nat /\ recibos[c] \in Nat
    /\ recibos[c] <= filas[c] /\ filas[c] <= envios
    /\ peticion[c] = "guardar" => filas[c] < envios
    /\ peticion[c] = "confirmar" => recibos[c] < filas[c]

\* s is what is kept of the posts of an address: the last of them, and of an address
\* that was not evicted no other is within the window.
Guardado(en, d, s) ==
    /\ s \in Seq(Int) /\ Len(s) <= Len(admitidos[d])
    /\ \A i \in 1..Len(s) : s[i] = admitidos[d][i + (Len(admitidos[d]) - Len(s))]
    /\ d \notin olvidadas =>
          \A i \in 1..(Len(admitidos[d]) - Len(s)) : ahora - admitidos[d][i] > en.ventana

\* The posts of an address are in order, and of one that was not evicted every post is
\* further from the one that many before it than the window.
Espaciados(en, d) ==
    /\ admitidos[d] \in Seq(Int) /\ Len(admitidos[d]) <= envios
    /\ \A i \in 1..Len(admitidos[d]) : admitidos[d][i] \in 0..ahora
    /\ \A i, j \in 1..Len(admitidos[d]) : i < j => admitidos[d][i] <= admitidos[d][j]
    /\ d \notin olvidadas =>
          \A i, j \in 1..Len(admitidos[d]) :
             j = i + en.limite => admitidos[d][j] - admitidos[d][i] > en.ventana

\* The types that the rest relies on.
AccesoTipos(en) ==
    /\ ahora \in 0..en.tiempo /\ barrido \in 0..ahora /\ olvidadas \subseteq en.direcciones
    /\ cubos \in [en.direcciones -> Seq(Int) \cup {Nada}]
    /\ admitidos \in [en.direcciones -> Seq(Int)]
    /\ formulario \in [Solicitud(en)!Clientes -> Solicitud(en)!Tiempo \cup {Nada}]
    /\ pagina \in [Solicitud(en)!Clientes -> {"ninguna", "formulario", "demasiadas", "invalida",
         "vencida", "enviada"}]
    /\ peticion \in [Solicitud(en)!Clientes -> {"idle", "guardar", "confirmar"}]
    /\ filas \in [Solicitud(en)!Clientes -> Nat] /\ recibos \in [Solicitud(en)!Clientes -> Nat]
    /\ envios \in 0..en.envios /\ caidas \in 0..en.caidas

\* All of it.
AccesoInv(en) ==
    /\ AccesoTipos(en)
    /\ \A d \in en.direcciones : Espaciados(en, d) /\ Guardado(en, d, Solicitud(en)!Cubo(d)) /\
         Len(Solicitud(en)!Cubo(d)) <= en.limite
    /\ \A c \in Solicitud(en)!Clientes : Recibido(c)
    /\ Cardinality(Solicitud(en)!Presentes(cubos)) <= en.cubos

----------------------------------------
(* The first that are expired are taken away *)

\* v is what is left of s without the first that are expired.
EsVigente(en, s, v) ==
    /\ v \in Seq(Int) /\ Len(v) <= Len(s)
    /\ \A i \in 1..Len(v) : v[i] = s[i + (Len(s) - Len(v))]
    /\ \A i \in 1..(Len(s) - Len(v)) : ahora - s[i] > en.ventana
    /\ Len(v) > 0 => ahora - v[1] <= en.ventana

\* The end of a sequence, from one of its places on.
LEMMA Final ==
    ASSUME NEW s \in Seq(Int), NEW n \in 1..Len(s) + 1
    PROVE  /\ SubSeq(s, n, Len(s)) \in Seq(Int)
           /\ Len(SubSeq(s, n, Len(s))) = (Len(s) - n) + 1
           /\ \A i \in 1..((Len(s) - n) + 1) : SubSeq(s, n, Len(s))[i] = s[(i + n) - 1]
<1>1. Len(s) \in Nat
  OBVIOUS
<1>2. CASE n = Len(s) + 1
  BY <1>1, <1>2
<1>3. CASE n # Len(s) + 1
  BY <1>1, <1>3
<1> QED BY <1>2, <1>3

\* There is one such, and it is what is chosen.
LEMMA VigentesEs ==
    ASSUME NEW en, NEW s \in Seq(Int), ahora \in Int, en.ventana \in Nat
    PROVE  EsVigente(en, s, Solicitud(en)!Vigentes(s))
<1>1. Len(s) \in Nat /\ \A i \in 1..Len(s) : s[i] \in Int
  OBVIOUS
<1> DEFINE T == {n \in 1..Len(s) + 1 : n = Len(s) + 1 \/ ahora - s[n] <= en.ventana}
           Q(v) == /\ v # <<>> => ahora - v[1] <= en.ventana
                   /\ \A i \in 1 .. Len(s) - Len(v) : ahora - s[i] > en.ventana
           F == {SubSeq(s, n, Len(s)) : n \in 1 .. Len(s) + 1}
<1>2. PICK n \in T : \A m \in T : n <= m
  <2>1. T \subseteq Nat
    BY <1>1
  <2>2. Len(s) + 1 \in T
    BY <1>1
  <2>3. PICK X : X = T
    OBVIOUS
  <2>4. \E x \in X : \A y \in X : x <= y
    <3> HIDE DEF T
    <3> QED BY <2>1, <2>2, <2>3, ElMenor
  <2> QED BY <2>3, <2>4
<1>3. n \in 1..Len(s) + 1 /\ (n = Len(s) + 1 \/ ahora - s[n] <= en.ventana)
  BY <1>2
<1>4. ASSUME NEW i \in 1..(n - 1) PROVE ahora - s[i] > en.ventana
  <2>1. i \in 1..Len(s) /\ i \in 1..Len(s) + 1 /\ i # Len(s) + 1 /\ i < n
    BY <1>1, <1>3
  <2>2. i \notin T
    BY <1>2, <1>3, <2>1
  <2>3. ~(ahora - s[i] <= en.ventana) /\ s[i] \in Int
    BY <1>1, <2>1, <2>2
  <2> QED BY <2>3
<1>5. PICK w : w = SubSeq(s, n, Len(s))
  OBVIOUS
<1>6. w \in Seq(Int) /\ Len(w) = (Len(s) - n) + 1 /\ \A i \in 1..((Len(s) - n) + 1) :
        w[i] = s[(i + n) - 1]
  BY <1>3, <1>5, Final
<1>7. Q(w)
  <2>1. Len(s) - Len(w) = n - 1
    BY <1>1, <1>3, <1>6
  <2>2. ASSUME w # <<>> PROVE ahora - w[1] <= en.ventana
    <3>1. Len(w) # 0
      BY <1>6, <2>2
    <3>2. 1 \in 1..((Len(s) - n) + 1) /\ n # Len(s) + 1
      BY <1>1, <1>3, <1>6, <3>1
    <3>3. w[1] = s[(1 + n) - 1] /\ (1 + n) - 1 = n
      BY <1>3, <1>6, <3>2
    <3> QED BY <1>3, <3>2, <3>3
  <2>3. ASSUME NEW i \in 1..(Len(s) - Len(w)) PROVE ahora - s[i] > en.ventana
    BY <1>4, <2>1
  <2> QED BY <2>2, <2>3
<1>8. w \in F
  BY <1>3, <1>5
<1>9. PICK v : v = Solicitud(en)!Vigentes(s)
  OBVIOUS
<1>10. v = CHOOSE x \in F : Q(x)
  BY <1>9 DEF Solicitud!Vigentes
<1>11. v \in F /\ Q(v)
  <2> HIDE DEF Q, F
  <2> QED BY <1>7, <1>8, <1>10
<1>12. PICK m \in 1..Len(s) + 1 : v = SubSeq(s, m, Len(s))
  BY <1>11
<1>13. v \in Seq(Int) /\ Len(v) = (Len(s) - m) + 1 /\ \A i \in 1..((Len(s) - m) + 1) :
         v[i] = s[(i + m) - 1]
  BY <1>12, Final
<1>14. Len(v) <= Len(s) /\ Len(s) - Len(v) = m - 1 /\ Len(v) \in Nat
  BY <1>1, <1>13
<1>15. ASSUME NEW i \in 1..Len(v) PROVE v[i] = s[i + (Len(s) - Len(v))]
  <2>1. i + (Len(s) - Len(v)) = (i + m) - 1
    BY <1>14
  <2> QED BY <1>13, <2>1
<1>16. Len(v) > 0 => ahora - v[1] <= en.ventana
  BY <1>11, <1>13
<1>17. \A i \in 1..(Len(s) - Len(v)) : ahora - s[i] > en.ventana
  BY <1>11
<1>18. EsVigente(en, s, v)
  <2> HIDE DEF Q, F, T
  <2> QED BY <1>13, <1>14, <1>15, <1>16, <1>17 DEF EsVigente
<1> QED BY <1>9, <1>18

\* What is left of what was kept is kept.
LEMMA GuardadoVigente ==
    ASSUME NEW en, Solicitud(en)!AccessAssumption, ahora \in Int, NEW d \in en.direcciones, NEW s,
           NEW v,
           admitidos[d] \in Seq(Int), Guardado(en, d, s), EsVigente(en, s, v)
    PROVE  Guardado(en, d, v)
<1>1. PICK a : a = admitidos[d]
  OBVIOUS
<1>2. /\ a \in Seq(Int) /\ s \in Seq(Int) /\ v \in Seq(Int) /\ Len(v) <= Len(s) /\ Len(s) <= Len(a)
      /\ \A i \in 1..Len(s) : s[i] = a[i + (Len(a) - Len(s))]
      /\ \A i \in 1..Len(v) : v[i] = s[i + (Len(s) - Len(v))]
      /\ d \notin olvidadas => \A i \in 1..(Len(a) - Len(s)) : ahora - a[i] > en.ventana
      /\ \A i \in 1..(Len(s) - Len(v)) : ahora - s[i] > en.ventana
  BY <1>1 DEF Guardado, EsVigente
<1>3. PICK la, ls, lv \in Nat : la = Len(a) /\ ls = Len(s) /\ lv = Len(v)
  BY <1>2
<1>4. lv <= ls /\ ls <= la
  BY <1>2, <1>3
<1>5. ASSUME NEW i \in 1..lv PROVE v[i] = a[i + (la - lv)]
  <2>1. i + (ls - lv) \in 1..ls /\ (i + (ls - lv)) + (la - ls) = i + (la - lv)
    BY <1>4
  <2>2. v[i] = s[i + (ls - lv)]
    BY <1>2, <1>3
  <2>3. s[i + (ls - lv)] = a[(i + (ls - lv)) + (la - ls)]
    BY <1>2, <1>3, <2>1
  <2> QED BY <2>1, <2>2, <2>3
<1>6. ASSUME d \notin olvidadas, NEW i \in 1..(la - lv) PROVE ahora - a[i] > en.ventana
  <2>1. CASE i <= la - ls
    BY <1>2, <1>3, <1>4, <1>6, <2>1
  <2>2. CASE i > la - ls
    <3>1. PICK j \in Int : j = i - (la - ls)
      BY <1>4
    <3>2. j \in 1..(ls - lv) /\ j \in 1..ls /\ j + (la - ls) = i
      BY <1>4, <2>2, <3>1
    <3>3. ahora - s[j] > en.ventana /\ s[j] = a[j + (la - ls)]
      BY <1>2, <1>3, <3>2
    <3> QED BY <3>2, <3>3
  <2> QED BY <1>4, <2>1, <2>2
<1>7. Len(v) <= Len(a)
  BY <1>3, <1>4
<1> QED BY <1>1, <1>2, <1>3, <1>5, <1>6, <1>7 DEF Guardado

\* What is kept is of times up to now, and what is left after the expired ones is of
\* the window.
LEMMA GuardadoTiempos ==
    ASSUME NEW en, NEW d \in en.direcciones, NEW s, Espaciados(en, d), Guardado(en, d, s),
           ahora \in Int,
           NEW i \in 1..Len(s)
    PROVE  s[i] \in 0..ahora /\ \A j \in 1..i : s[j] <= s[i]
<1>1. PICK a : a = admitidos[d]
  OBVIOUS
<1>2. /\ a \in Seq(Int) /\ s \in Seq(Int) /\ Len(s) <= Len(a)
      /\ \A k \in 1..Len(s) : s[k] = a[k + (Len(a) - Len(s))]
      /\ \A k \in 1..Len(a) : a[k] \in 0..ahora
      /\ \A k, j \in 1..Len(a) : k < j => a[k] <= a[j]
  BY <1>1 DEF Guardado, Espaciados
<1>3. PICK la, ls \in Nat : la = Len(a) /\ ls = Len(s)
  BY <1>2
<1>4. ls <= la
  BY <1>2, <1>3
<1>5. \A k \in 1..ls : k + (la - ls) \in 1..la /\ s[k] = a[k + (la - ls)]
  BY <1>2, <1>3, <1>4
<1>6. ASSUME NEW j \in 1..i PROVE s[j] <= s[i]
  <2>1. j \in 1..ls /\ i \in 1..ls
    BY <1>3
  <2>2. CASE j = i
    <3>1. s[i] \in 0..ahora
      BY <1>2, <1>3, <1>5, <2>1
    <3> QED BY <2>2, <3>1
  <2>3. CASE j < i
    <3>1. j + (la - ls) < i + (la - ls)
      BY <1>3, <2>1, <2>3
    <3> QED BY <1>2, <1>3, <1>5, <2>1, <3>1
  <2> QED BY <1>3, <2>1, <2>2, <2>3
<1> QED BY <1>2, <1>3, <1>5, <1>6

----------------------------------------
(* A post is let through or refused *)

\* What the limiter keeps of an address is a sequence.
LEMMA CuboTipo ==
    ASSUME NEW en, Solicitud(en)!AccessAssumption, AccesoTipos(en), NEW d \in en.direcciones
    PROVE  /\ Solicitud(en)!Cubo(d) \in Seq(Int)
           /\ cubos[d] # Nada => Solicitud(en)!Cubo(d) = cubos[d]
           /\ cubos[d] = Nada => Solicitud(en)!Cubo(d) = <<>>
BY DEF AccesoTipos, Solicitud!Cubo

\* Sets are counted as in this module.
LEMMA AccesoCuenta ==
    ASSUME NEW en
    PROVE  /\ \A S : Solicitud(en)!Cardinality(S) = Cardinality(S)
           /\ \A S : Solicitud(en)!IsFiniteSet(S) <=> IsFiniteSet(S)
BY DEF Solicitud!Cardinality, Cardinality, Solicitud!IsFiniteSet, IsFiniteSet

\* The types that the limiter needs.
LEMMA AccesoNumeros ==
    ASSUME NEW en, Solicitud(en)!AccessAssumption, AccesoTipos(en)
    PROVE  /\ ahora \in Nat /\ en.ventana \in Nat /\ en.limite \in Nat \ {0}
           /\ en.cubos \in Nat \ {0} /\ en.barrer \in Nat /\ barrido \in Nat
           /\ Nada \notin Int /\ Nada \notin Seq(Int) /\ IsFiniteSet(en.direcciones)
           /\ en.tiempo \in Nat /\ en.envios \in Nat /\ en.caidas \in Nat
           /\ envios \in Nat
<1>1. /\ {en.limite, en.cubos} \subseteq Nat \ {0}
      /\ {en.ventana, en.barrer, en.minimo, en.maximo, en.tiempo, en.envios,
           en.caidas} \subseteq Nat
  BY DEF Solicitud!AccessAssumption
<1>2. Nada \notin Int /\ Nada \notin Seq(Int)
  BY DEF Solicitud!AccessAssumption
<1>3. IsFiniteSet(en.direcciones)
  BY AccesoCuenta DEF Solicitud!AccessAssumption
<1>4. ahora \in Nat /\ barrido \in Nat /\ envios \in Nat
  BY <1>1 DEF AccesoTipos
<1> QED BY <1>1, <1>2, <1>3, <1>4

\* A post that is let through is the newest, and the address is held to its limit.
LEMMA GuardadoNuevo ==
    ASSUME NEW en, Solicitud(en)!AccessAssumption, AccesoTipos(en), NEW d \in en.direcciones, NEW v,
           Espaciados(en, d), Guardado(en, d, v), Len(v) < en.limite,
           admitidos' = [admitidos EXCEPT ![d] = Append(@, ahora)], ahora' = ahora,
           envios' = envios + 1, d \in olvidadas => d \in olvidadas'
    PROVE  Espaciados(en, d)' /\ Guardado(en, d, Append(v, ahora))'
<1>1. PICK a, b : a = admitidos[d] /\ b = Append(a, ahora)
  OBVIOUS
<1>2. admitidos'[d] = b
  BY <1>1 DEF AccesoTipos
<1>3. /\ a \in Seq(Int) /\ v \in Seq(Int) /\ Len(v) <= Len(a) /\ Len(a) <= envios
      /\ \A k \in 1..Len(v) : v[k] = a[k + (Len(a) - Len(v))]
      /\ \A k \in 1..Len(a) : a[k] \in 0..ahora
      /\ \A k, j \in 1..Len(a) : k < j => a[k] <= a[j]
      /\ d \notin olvidadas => \A i \in 1..(Len(a) - Len(v)) : ahora - a[i] > en.ventana
      /\ d \notin olvidadas => \A i, j \in 1..Len(a) :
             j = i + en.limite => a[j] - a[i] > en.ventana
  BY <1>1 DEF Guardado, Espaciados
<1>4. ahora \in Nat /\ en.limite \in Nat \ {0} /\ en.ventana \in Nat /\ envios \in Nat
  BY AccesoNumeros
<1>5. PICK la, lv \in Nat : la = Len(a) /\ lv = Len(v)
  BY <1>3
<1>6. lv <= la /\ lv < en.limite /\ la <= envios
  BY <1>3, <1>5
<1>17. /\ \A k \in 1..la : a[k] \in 0..ahora
       /\ \A k, j \in 1..la : k < j => a[k] <= a[j]
       /\ d \notin olvidadas => \A i, j \in 1..la :
              j = i + en.limite => a[j] - a[i] > en.ventana
  BY <1>3, <1>5
<1>7. /\ b \in Seq(Int) /\ Len(b) = la + 1 /\ b[la + 1] = ahora
      /\ \A i \in 1..la : b[i] = a[i]
  BY <1>1, <1>3, <1>4, <1>5
<1>8. PICK w : w = Append(v, ahora)
  OBVIOUS
<1>9. w \in Seq(Int) /\ Len(w) = lv + 1 /\ w[lv + 1] = ahora /\ \A i \in 1..lv : w[i] = v[i]
  BY <1>3, <1>4, <1>5, <1>8
<1>10. \A k \in 1..(la + 1) : b[k] \in 0..ahora
  <2> SUFFICES ASSUME NEW k \in 1..(la + 1) PROVE b[k] \in 0..ahora
    OBVIOUS
  <2>1. CASE k = la + 1
    BY <1>4, <1>7, <2>1
  <2>2. CASE k # la + 1
    <3>1. k \in 1..la
      BY <1>5, <2>2
    <3> QED BY <1>7, <1>17, <3>1
  <2> QED BY <2>1, <2>2
<1>11. ASSUME NEW k \in 1..(la + 1), NEW j \in 1..(la + 1), k < j PROVE b[k] <= b[j]
  <2>1. k \in 1..la
    BY <1>5, <1>11
  <2>2. CASE j = la + 1
    BY <1>4, <1>7, <1>10, <2>2
  <2>3. CASE j # la + 1
    <3>1. j \in 1..la
      BY <1>5, <2>3
    <3>2. a[k] <= a[j]
      BY <1>11, <1>17, <2>1, <3>1
    <3> QED BY <1>7, <2>1, <3>1, <3>2
  <2> QED BY <2>2, <2>3
<1>12. ASSUME d \notin olvidadas', NEW k \in 1..(la + 1), NEW j \in 1..(la + 1),
              j = k + en.limite
       PROVE  b[j] - b[k] > en.ventana
  <2>1. k \in 1..la /\ d \notin olvidadas
    BY <1>4, <1>5, <1>12
  <2>2. CASE j = la + 1
    <3>1. k \in 1..(la - lv)
      BY <1>4, <1>5, <1>6, <1>12, <2>1, <2>2
    <3>2. ahora - a[k] > en.ventana
      BY <1>3, <1>5, <2>1, <3>1
    <3> QED BY <1>7, <2>1, <2>2, <3>2
  <2>3. CASE j # la + 1
    <3>1. j \in 1..la
      BY <1>5, <2>3
    <3>2. a[j] - a[k] > en.ventana
      BY <1>12, <1>17, <2>1, <3>1
    <3> QED BY <1>7, <2>1, <3>1, <3>2
  <2> QED BY <2>2, <2>3
<1>13. Espaciados(en, d)'
  <2>1. Len(b) <= envios'
    BY <1>4, <1>5, <1>6, <1>7
  <2> QED BY <1>2, <1>7, <1>10, <1>11, <1>12, <2>1 DEF Espaciados
<1>14. ASSUME NEW i \in 1..(lv + 1) PROVE w[i] = b[i + ((la + 1) - (lv + 1))]
  <2>1. i + ((la + 1) - (lv + 1)) = i + (la - lv)
    BY <1>5
  <2>2. CASE i = lv + 1
    <3>1. i + (la - lv) = la + 1
      BY <1>5, <2>2
    <3> QED BY <1>7, <1>9, <2>1, <2>2, <3>1
  <2>3. CASE i # lv + 1
    <3>1. i \in 1..lv /\ i + (la - lv) \in 1..la
      BY <1>5, <1>6, <2>3
    <3> QED BY <1>3, <1>5, <1>7, <1>9, <2>1, <3>1
  <2> QED BY <2>2, <2>3
<1>15. ASSUME d \notin olvidadas', NEW i \in 1..((la + 1) - (lv + 1))
       PROVE  ahora - b[i] > en.ventana
  <2>1. i \in 1..(la - lv) /\ i \in 1..la /\ d \notin olvidadas
    BY <1>5, <1>15
  <2> QED BY <1>3, <1>5, <1>7, <2>1
<1>16. Guardado(en, d, w)'
  <2>1. Len(w) <= Len(b)
    BY <1>5, <1>6, <1>7, <1>9
  <2> QED BY <1>2, <1>7, <1>9, <1>14, <1>15, <2>1 DEF Guardado
<1> QED BY <1>8, <1>13, <1>16

\* An address of which nothing was admitted stays as it is, though it may be evicted.
LEMMA GuardadoIgual ==
    ASSUME NEW en, NEW d \in en.direcciones, NEW s, Espaciados(en, d), Guardado(en, d, s),
           AccesoTipos(en), Solicitud(en)!AccessAssumption,
           admitidos'[d] = admitidos[d], ahora' = ahora, envios' \in Nat, envios <= envios',
           d \in olvidadas => d \in olvidadas'
    PROVE  Espaciados(en, d)' /\ Guardado(en, d, s)'
<1>1. Espaciados(en, d)'
  <2>1. admitidos[d] \in Seq(Int) /\ Len(admitidos[d]) \in Nat /\ Len(admitidos[d]) <= envios /\
          envios \in Nat
    BY AccesoNumeros DEF Espaciados
  <2>2. Len(admitidos[d]) <= envios'
    BY <2>1
  <2> QED BY <2>2 DEF Espaciados
<1>2. Guardado(en, d, s)'
  BY DEF Guardado
<1> QED BY <1>1, <1>2

\* What is kept where nothing may be.
CuboDe(x) == IF x = Nada THEN <<>> ELSE x

\* What a sweep leaves of the other buckets is theirs, or what is left of it.
LEMMA BarrerEs ==
    ASSUME NEW en, Solicitud(en)!AccessAssumption, AccesoTipos(en), NEW d \in en.direcciones,
           NEW b \in [en.direcciones -> Seq(Int) \cup {Nada}], NEW e \in en.direcciones
    PROVE  /\ Solicitud(en)!Barrer(b, d) \in [en.direcciones -> Seq(Int) \cup {Nada}]
           /\ e = d => Solicitud(en)!Barrer(b, d)[e] = b[e]
           /\ CuboDe(Solicitud(en)!Barrer(b, d)[e]) \in {CuboDe(b[e]),
                Solicitud(en)!Vigentes(CuboDe(b[e]))}
<1>1. \A f \in en.direcciones : b[f] # Nada => Solicitud(en)!Vigentes(b[f]) \in Seq(Int)
  <2> SUFFICES ASSUME NEW f \in en.direcciones, b[f] # Nada
               PROVE Solicitud(en)!Vigentes(b[f]) \in Seq(Int)
    OBVIOUS
  <2>1. b[f] \in Seq(Int)
    OBVIOUS
  <2>2. EsVigente(en, b[f], Solicitud(en)!Vigentes(b[f]))
    BY <2>1, AccesoNumeros, VigentesEs
  <2> QED BY <2>2 DEF EsVigente
<1>2. Nada \notin Seq(Int) /\ <<>> \in Seq(Int)
  BY AccesoNumeros
<1>3. CASE ahora - barrido <= en.barrer
  BY <1>3 DEF Solicitud!Barrer
<1>4. CASE ~(ahora - barrido <= en.barrer)
  <2>1. Solicitud(en)!Barrer(b, d) = [f \in en.direcciones |-> IF f = d \/ b[f] = Nada THEN b[f]
                                ELSE IF Solicitud(en)!Vigentes(b[f]) = <<>> THEN Nada
                                  ELSE Solicitud(en)!Vigentes(b[f])]
    BY <1>4 DEF Solicitud!Barrer
  <2>2. Solicitud(en)!Barrer(b, d) \in [en.direcciones -> Seq(Int) \cup {Nada}]
    BY <1>1, <2>1
  <2>3. Solicitud(en)!Barrer(b, d)[e] = IF e = d \/ b[e] = Nada THEN b[e]
                                ELSE IF Solicitud(en)!Vigentes(b[e]) = <<>> THEN Nada
                                  ELSE Solicitud(en)!Vigentes(b[e])
    BY <2>1
  <2>4. CuboDe(Solicitud(en)!Barrer(b, d)[e]) \in {CuboDe(b[e]),
          Solicitud(en)!Vigentes(CuboDe(b[e]))}
    <3>1. CASE e = d \/ b[e] = Nada
      BY <2>3, <3>1
    <3>2. CASE e # d /\ b[e] # Nada /\ Solicitud(en)!Vigentes(b[e]) = <<>>
      BY <2>3, <3>2 DEF CuboDe
    <3>3. CASE e # d /\ b[e] # Nada /\ Solicitud(en)!Vigentes(b[e]) # <<>>
      <4>1. Solicitud(en)!Vigentes(b[e]) # Nada
        BY <1>1, <1>2, <3>3
      <4> QED BY <2>3, <3>3, <4>1 DEF CuboDe
    <3> QED BY <3>1, <3>2, <3>3
  <2> QED BY <2>2, <2>3, <2>4
<1> QED BY <1>3, <1>4

\* What is left of the bucket of an address.
LEMMA CuboVigente ==
    ASSUME NEW en, Solicitud(en)!AccessAssumption, AccesoInv(en), NEW d \in en.direcciones
    PROVE  /\ EsVigente(en, Solicitud(en)!Cubo(d), Solicitud(en)!Vigentes(Solicitud(en)!Cubo(d)))
           /\ Guardado(en, d, Solicitud(en)!Vigentes(Solicitud(en)!Cubo(d)))
           /\ Solicitud(en)!Vigentes(Solicitud(en)!Cubo(d)) \in Seq(Int)
           /\ Len(Solicitud(en)!Vigentes(Solicitud(en)!Cubo(d))) <= en.limite
           /\ Solicitud(en)!Cubo(d) \in Seq(Int)
<1>1. AccesoTipos(en) /\ Espaciados(en, d) /\ Guardado(en, d, Solicitud(en)!Cubo(d)) /\
        Len(Solicitud(en)!Cubo(d)) <= en.limite
  BY DEF AccesoInv
<1>2. Solicitud(en)!Cubo(d) \in Seq(Int) /\ ahora \in Int /\ en.ventana \in Nat /\ en.limite \in Nat
  BY <1>1, CuboTipo, AccesoNumeros
<1>3. EsVigente(en, Solicitud(en)!Cubo(d), Solicitud(en)!Vigentes(Solicitud(en)!Cubo(d)))
  BY <1>2, VigentesEs
<1>4. Guardado(en, d, Solicitud(en)!Vigentes(Solicitud(en)!Cubo(d)))
  BY <1>1, <1>2, <1>3, GuardadoVigente DEF Espaciados
<1>5. Solicitud(en)!Vigentes(Solicitud(en)!Cubo(d)) \in Seq(Int) /\
        Len(Solicitud(en)!Vigentes(Solicitud(en)!Cubo(d))) <= Len(Solicitud(en)!Cubo(d))
  BY <1>3 DEF EsVigente
<1>6. Len(Solicitud(en)!Vigentes(Solicitud(en)!Cubo(d))) <= en.limite
  BY <1>1, <1>2, <1>5
<1> QED BY <1>2, <1>3, <1>4, <1>5, <1>6

\* What holds of the limiter after a post.
LimiteFirme(en) ==
    /\ barrido \in 0..ahora /\ olvidadas \subseteq en.direcciones
    /\ cubos \in [en.direcciones -> Seq(Int) \cup {Nada}]
    /\ admitidos \in [en.direcciones -> Seq(Int)]
    /\ \A d \in en.direcciones : Espaciados(en, d) /\ Guardado(en, d, Solicitud(en)!Cubo(d)) /\
         Len(Solicitud(en)!Cubo(d)) <= en.limite
    /\ Cardinality(Solicitud(en)!Presentes(cubos)) <= en.cubos

\* A post that is refused leaves of its bucket what is not expired.
LEMMA PostRefused ==
    ASSUME NEW en, Solicitud(en)!AccessAssumption, AccesoInv(en), NEW d \in en.direcciones,
           Solicitud(en)!_rate_limited(d), Solicitud(en)!Limitada(d),
           ahora' = ahora, envios' = envios + 1
    PROVE  LimiteFirme(en)'
<1>1. /\ cubos' = [cubos EXCEPT ![d] = Solicitud(en)!Vigentes(Solicitud(en)!Cubo(d))]
      /\ UNCHANGED <<barrido, olvidadas, admitidos>>
  BY DEF Solicitud!_rate_limited
<1>2. AccesoTipos(en) /\ envios \in Nat /\ Nada \notin Seq(Int) /\ en.limite \in Nat \ {0}
  BY AccesoNumeros DEF AccesoInv
<1>3. /\ Solicitud(en)!Vigentes(Solicitud(en)!Cubo(d)) \in Seq(Int)
      /\ Guardado(en, d, Solicitud(en)!Vigentes(Solicitud(en)!Cubo(d)))
      /\ Len(Solicitud(en)!Vigentes(Solicitud(en)!Cubo(d))) <= en.limite
      /\ EsVigente(en, Solicitud(en)!Cubo(d), Solicitud(en)!Vigentes(Solicitud(en)!Cubo(d)))
      /\ Solicitud(en)!Cubo(d) \in Seq(Int)
  BY CuboVigente
<1>4. cubos' \in [en.direcciones -> Seq(Int) \cup {Nada}]
  BY <1>1, <1>2, <1>3 DEF AccesoTipos
<1>5. \A e \in en.direcciones : Solicitud(en)!Cubo(e)' = IF e = d
        THEN Solicitud(en)!Vigentes(Solicitud(en)!Cubo(d)) ELSE Solicitud(en)!Cubo(e)
  BY <1>1, <1>2, <1>3 DEF AccesoTipos, Solicitud!Cubo
<1>6. ASSUME NEW e \in en.direcciones
      PROVE  (Espaciados(en, e) /\ Guardado(en, e, Solicitud(en)!Cubo(e)) /\
             Len(Solicitud(en)!Cubo(e)) <= en.limite)'
  <2>1. PICK s : s = Solicitud(en)!Cubo(e)'
    OBVIOUS
  <2>2. Guardado(en, e, s) /\ Len(s) <= en.limite /\ Espaciados(en, e)
    BY <1>3, <1>5, <2>1 DEF AccesoInv
  <2>3. Espaciados(en, e)' /\ Guardado(en, e, s)'
    BY <1>1, <1>2, <2>2, GuardadoIgual
  <2>4. Guardado(en, e, Solicitud(en)!Cubo(e))'
    BY <2>1, <2>3
  <2> QED BY <2>1, <2>2, <2>3, <2>4
<1>7. Solicitud(en)!Presentes(cubos') = Solicitud(en)!Presentes(cubos)
  <2>1. cubos[d] # Nada
    <3> SUFFICES ASSUME cubos[d] = Nada PROVE FALSE
      OBVIOUS
    <3>1. Len(Solicitud(en)!Vigentes(Solicitud(en)!Cubo(d))) <= Len(Solicitud(en)!Cubo(d)) /\
            Solicitud(en)!Cubo(d) = <<>>
      BY <1>3 DEF EsVigente, Solicitud!Cubo
    <3>2. Len(Solicitud(en)!Vigentes(Solicitud(en)!Cubo(d))) = 0
      BY <1>3, <3>1
    <3> QED BY <1>2, <3>2 DEF Solicitud!Limitada
  <2>2. \A e \in en.direcciones : cubos'[e] = Nada <=> cubos[e] = Nada
    BY <1>1, <1>2, <1>3, <2>1 DEF AccesoTipos
  <2> QED BY <2>2 DEF Solicitud!Presentes
<1>8. /\ (barrido \in 0..ahora)' /\ (olvidadas \subseteq en.direcciones)'
      /\ (admitidos \in [en.direcciones -> Seq(Int)])'
      /\ (Cardinality(Solicitud(en)!Presentes(cubos)) <= en.cubos)'
  BY <1>1, <1>7 DEF AccesoInv, AccesoTipos
<1> QED BY <1>4, <1>6, <1>8 DEF LimiteFirme

\* The buckets that are left after the eviction are no more than the limiter remembers.
LEMMA Expulsados ==
    ASSUME NEW en, Solicitud(en)!AccessAssumption, AccesoTipos(en), NEW d \in en.direcciones, NEW c,
           NEW S \in Solicitud(en)!Sobrantes(c, d),
           NEW T, T \subseteq Solicitud(en)!Presentes(c) \ S
    PROVE  Cardinality(T) <= en.cubos
<1>1. IsFiniteSet(en.direcciones) /\ en.cubos \in Nat
  BY AccesoNumeros
<1>2. Solicitud(en)!Presentes(c) \subseteq en.direcciones /\ S \subseteq Solicitud(en)!Presentes(c)
  BY DEF Solicitud!Presentes, Solicitud!Sobrantes
<1>3. IsFiniteSet(Solicitud(en)!Presentes(c)) /\ Cardinality(Solicitud(en)!Presentes(c)) \in Nat
  BY <1>1, <1>2, FS_Subset, FS_CardinalityType
<1>4. Cardinality(S) = IF Cardinality(Solicitud(en)!Presentes(c)) - en.cubos > 0
                       THEN Cardinality(Solicitud(en)!Presentes(c)) - en.cubos ELSE 0
  BY AccesoCuenta DEF Solicitud!Sobrantes
<1>5. Solicitud(en)!Presentes(c) \cap S = S
  BY <1>2
<1>6. /\ IsFiniteSet(Solicitud(en)!Presentes(c) \ S)
      /\ Cardinality(Solicitud(en)!Presentes(c) \ S)
            = Cardinality(Solicitud(en)!Presentes(c)) - Cardinality(S)
  BY <1>3, <1>5, FS_Difference
<1>7. Cardinality(Solicitud(en)!Presentes(c) \ S) <= en.cubos
  BY <1>1, <1>3, <1>4, <1>6
<1>8. Cardinality(T) <= Cardinality(Solicitud(en)!Presentes(c) \ S) /\ IsFiniteSet(T)
  BY <1>6, FS_Subset
<1>9. Cardinality(T) \in Nat /\ Cardinality(Solicitud(en)!Presentes(c) \ S) \in Nat
  BY <1>6, <1>8, FS_CardinalityType
<1> QED BY <1>1, <1>7, <1>8, <1>9

\* A post that is let through is kept, and what is swept or evicted was expired or is
\* no longer held against its address.
LEMMA PostAdmitted ==
    ASSUME NEW en, Solicitud(en)!AccessAssumption, AccesoInv(en), NEW d \in en.direcciones,
           Solicitud(en)!_rate_limited(d), ~Solicitud(en)!Limitada(d),
           ahora' = ahora, envios' = envios + 1
    PROVE  LimiteFirme(en)'
<1>1. PICK v, b, c : /\ v = Solicitud(en)!Vigentes(Solicitud(en)!Cubo(d))
                     /\ b = [cubos EXCEPT ![d] = Append(v, ahora)]
                     /\ c = Solicitud(en)!Barrer(b, d)
  OBVIOUS
<1>2. PICK S \in Solicitud(en)!Sobrantes(c, d) : /\ cubos' = [e \in en.direcciones |-> IF e \in S
                                                      THEN Nada ELSE c[e]]
                                                 /\ olvidadas' = olvidadas \cup S
  BY <1>1 DEF Solicitud!_rate_limited
<1>3. /\ barrido' = IF ahora - barrido > en.barrer THEN ahora ELSE barrido
      /\ admitidos' = [admitidos EXCEPT ![d] = Append(@, ahora)]
  BY DEF Solicitud!_rate_limited
<1>4. /\ AccesoTipos(en) /\ envios \in Nat /\ Nada \notin Seq(Int) /\ en.limite \in Nat \ {0}
      /\ ahora \in Nat /\ barrido \in Nat
  BY AccesoNumeros DEF AccesoInv
<1>5. v \in Seq(Int) /\ Guardado(en, d, v) /\ Len(v) < en.limite
  <2>1. v \in Seq(Int) /\ Guardado(en, d, v)
    BY <1>1, CuboVigente
  <2>2. ~(Len(v) >= en.limite)
    BY <1>1 DEF Solicitud!Limitada
  <2>3. Len(v) \in Nat
    BY <2>1
  <2>4. Len(v) < en.limite
    BY <1>4, <2>2, <2>3
  <2> QED BY <2>1, <2>4
<1>6. Append(v, ahora) \in Seq(Int) /\ Len(Append(v, ahora)) <= en.limite
  BY <1>4, <1>5
<1>7. /\ b \in [en.direcciones -> Seq(Int) \cup {Nada}] /\ b[d] = Append(v, ahora)
      /\ \A e \in en.direcciones : e # d => b[e] = cubos[e]
  BY <1>1, <1>4, <1>6 DEF AccesoTipos
<1>8. S \subseteq en.direcciones /\ d \notin S
  BY <1>2 DEF Solicitud!Sobrantes, Solicitud!Presentes
<1>9. /\ c \in [en.direcciones -> Seq(Int) \cup {Nada}] /\ c[d] = b[d]
      /\ \A e \in en.direcciones :
           CuboDe(c[e]) \in {CuboDe(b[e]), Solicitud(en)!Vigentes(CuboDe(b[e]))}
  <2>1. AccesoTipos(en) /\ b \in [en.direcciones -> Seq(Int) \cup {Nada}]
    BY <1>4, <1>7
  <2>2. ASSUME NEW e \in en.direcciones
        PROVE  /\ Solicitud(en)!Barrer(b, d) \in [en.direcciones -> Seq(Int) \cup {Nada}]
               /\ e = d => Solicitud(en)!Barrer(b, d)[e] = b[e]
               /\ CuboDe(Solicitud(en)!Barrer(b, d)[e])
                     \in {CuboDe(b[e]), Solicitud(en)!Vigentes(CuboDe(b[e]))}
    BY <2>1, BarrerEs
  <2>3. /\ Solicitud(en)!Barrer(b, d) \in [en.direcciones -> Seq(Int) \cup {Nada}]
        /\ Solicitud(en)!Barrer(b, d)[d] = b[d]
    BY <2>2
  <2> QED BY <1>1, <2>2, <2>3
<1>10. cubos' \in [en.direcciones -> Seq(Int) \cup {Nada}]
  <2>1. \A e \in en.direcciones : c[e] \in Seq(Int) \cup {Nada}
    BY <1>9
  <2>2. PICK B : B = Seq(Int) \cup {Nada}
    OBVIOUS
  <2>3. [e \in en.direcciones |-> IF e \in S THEN Nada ELSE c[e]] \in [en.direcciones -> B]
    BY <2>1, <2>2
  <2> QED BY <1>2, <2>2, <2>3
<1>11. \A e \in en.direcciones : Solicitud(en)!Cubo(e)' = IF e \in S THEN <<>> ELSE CuboDe(c[e])
  BY <1>2 DEF Solicitud!Cubo, CuboDe
<1>12. \A e \in en.direcciones : CuboDe(cubos[e]) = Solicitud(en)!Cubo(e)
  BY DEF Solicitud!Cubo, CuboDe
<1>13. admitidos' \in [en.direcciones -> Seq(Int)]
  <2>1. Append(admitidos[d], ahora) \in Seq(Int)
    BY <1>4 DEF AccesoTipos
  <2> QED BY <1>3, <1>4, <2>1 DEF AccesoTipos
<1>14. ASSUME NEW e \in en.direcciones
       PROVE  (Espaciados(en, e) /\ Guardado(en, e, Solicitud(en)!Cubo(e)) /\
              Len(Solicitud(en)!Cubo(e)) <= en.limite)'
  <2>1. PICK s : s = Solicitud(en)!Cubo(e)'
    OBVIOUS
  <2>2. CASE e = d
    <3>1. s = Append(v, ahora)
      <4>1. CuboDe(c[d]) = Append(v, ahora)
        BY <1>4, <1>6, <1>7, <1>9 DEF CuboDe
      <4> QED BY <1>8, <1>11, <2>1, <2>2, <4>1
    <3>2. Espaciados(en, d) /\ (d \in olvidadas => d \in olvidadas')
      BY <1>2 DEF AccesoInv
    <3>3. Espaciados(en, d)' /\ Guardado(en, d, Append(v, ahora))'
      BY <1>3, <1>4, <1>5, <3>2, GuardadoNuevo
    <3>4. PICK w : w = Append(v, ahora)
      OBVIOUS
    <3>5. Espaciados(en, d)' /\ Guardado(en, d, w)' /\ Len(w) <= en.limite /\ w = s
      BY <1>6, <3>1, <3>3, <3>4
    <3>6. Guardado(en, e, Solicitud(en)!Cubo(e))'
      BY <2>1, <2>2, <3>5
    <3> QED BY <2>1, <2>2, <3>5, <3>6
  <2>3. CASE e # d
    <3>1. admitidos'[e] = admitidos[e]
      BY <1>3, <1>4, <2>3 DEF AccesoTipos
    <3>2. Espaciados(en, e) /\ Guardado(en, e, Solicitud(en)!Cubo(e)) /\
            Len(Solicitud(en)!Cubo(e)) <= en.limite
      BY DEF AccesoInv
    <3>3. Guardado(en, e, Solicitud(en)!Vigentes(Solicitud(en)!Cubo(e))) /\
            Len(Solicitud(en)!Vigentes(Solicitud(en)!Cubo(e))) <= en.limite
      BY CuboVigente
    <3>4. CASE e \in S
      <4>1. s = <<>> /\ e \in olvidadas'
        BY <1>2, <1>11, <2>1, <3>4
      <4>2. admitidos'[e] \in Seq(Int)
        BY <1>13
      <4>3. Guardado(en, e, <<>>)'
        BY <4>1, <4>2 DEF Guardado
      <4>4. Espaciados(en, e)'
        <5>1. e \in olvidadas => e \in olvidadas'
          BY <1>2
        <5>2. ahora' = ahora /\ envios' \in Nat /\ envios <= envios'
          BY <1>4
        <5> QED BY <1>4, <3>1, <3>2, <5>1, <5>2, GuardadoIgual
      <4>5. Guardado(en, e, Solicitud(en)!Cubo(e))'
        BY <2>1, <4>1, <4>3
      <4>6. Len(s) <= en.limite
        BY <1>4, <4>1
      <4> QED BY <2>1, <4>4, <4>5, <4>6
    <3>5. CASE e \notin S
      <4>1. s \in {Solicitud(en)!Cubo(e), Solicitud(en)!Vigentes(Solicitud(en)!Cubo(e))}
        BY <1>7, <1>9, <1>11, <1>12, <2>1, <2>3, <3>5
      <4>2. Guardado(en, e, s) /\ Len(s) <= en.limite
        BY <3>2, <3>3, <4>1
      <4>3. Espaciados(en, e)' /\ Guardado(en, e, s)'
        <5>1. e \in olvidadas => e \in olvidadas'
          BY <1>2
        <5>2. ahora' = ahora /\ envios' \in Nat /\ envios <= envios'
          BY <1>4
        <5> QED BY <1>4, <3>1, <3>2, <4>2, <5>1, <5>2, GuardadoIgual
      <4>4. Guardado(en, e, Solicitud(en)!Cubo(e))'
        BY <2>1, <4>3
      <4> QED BY <2>1, <4>2, <4>3, <4>4
    <3> QED BY <3>4, <3>5
  <2> QED BY <2>2, <2>3
<1>15. Cardinality(Solicitud(en)!Presentes(cubos')) <= en.cubos
  <2>1. Solicitud(en)!Presentes(cubos') \subseteq Solicitud(en)!Presentes(c) \ S
    BY <1>2 DEF Solicitud!Presentes
  <2> QED BY <1>4, <2>1, Expulsados
<1>16. (barrido \in 0..ahora)'
  BY <1>3, <1>4 DEF AccesoTipos
<1>17. (olvidadas \subseteq en.direcciones)'
  BY <1>2, <1>4, <1>8 DEF AccesoTipos
<1>18. (Cardinality(Solicitud(en)!Presentes(cubos)) <= en.cubos)'
  BY <1>15
<1> QED BY <1>10, <1>13, <1>14, <1>16, <1>17, <1>18 DEF LimiteFirme

----------------------------------------
(* Every step *)

\* At the start nothing was admitted.
LEMMA AccesoInit ==
    ASSUME NEW en, Solicitud(en)!AccessAssumption, Solicitud(en)!Init
    PROVE  AccesoInv(en)
<1>1. /\ en.tiempo \in Nat /\ en.envios \in Nat /\ en.caidas \in Nat /\ en.cubos \in Nat
      /\ en.limite \in Nat
  BY DEF Solicitud!AccessAssumption
<1>2. <<>> \in Seq(Int) /\ Len(<<>>) = 0
  OBVIOUS
<1>3. AccesoTipos(en)
  BY <1>1, <1>2 DEF Solicitud!Init, AccesoTipos, Solicitud!Tiempo
<1>4. ASSUME NEW d \in en.direcciones
      PROVE  Espaciados(en, d) /\ Guardado(en, d, Solicitud(en)!Cubo(d)) /\
             Len(Solicitud(en)!Cubo(d)) <= en.limite
  <2>1. Solicitud(en)!Cubo(d) = <<>> /\ admitidos[d] = <<>>
    BY DEF Solicitud!Init, Solicitud!Cubo
  <2>2. envios = 0
    BY DEF Solicitud!Init
  <2> QED BY <1>1, <1>2, <2>1, <2>2 DEF Espaciados, Guardado
<1>5. \A c \in Solicitud(en)!Clientes : Recibido(c)
  BY DEF Solicitud!Init, Recibido
<1>6. Cardinality(Solicitud(en)!Presentes(cubos)) <= en.cubos
  <2>1. Solicitud(en)!Presentes(cubos) = {}
    BY DEF Solicitud!Init, Solicitud!Presentes
  <2> QED BY <1>1, <2>1, FS_EmptySet
<1> QED BY <1>3, <1>4, <1>5, <1>6 DEF AccesoInv

\* What a post leaves of the limiter, refused or let through.
LEMMA PostFirme ==
    ASSUME NEW en, Solicitud(en)!AccessAssumption, AccesoInv(en), NEW c \in Solicitud(en)!Clientes,
           Solicitud(en)!request_access(c) PROVE LimiteFirme(en)'
<1>1. en.de[c] \in en.direcciones
  BY DEF Solicitud!AccessAssumption
<1>2. ahora' = ahora /\ envios' = envios + 1 /\ Solicitud(en)!_rate_limited(en.de[c])
  BY DEF Solicitud!request_access
<1> QED BY <1>1, <1>2, PostRefused, PostAdmitted

\* The answer to a post is of its kind, and its request ends or goes on to the store.
LEMMA PostContesta ==
    ASSUME NEW en, Solicitud(en)!AccessAssumption, AccesoInv(en), NEW c \in Solicitud(en)!Clientes,
           Solicitud(en)!request_access(c)
    PROVE  AccesoTipos(en)' /\ \A e \in Solicitud(en)!Clientes : Recibido(e)'
<1>1. AccesoTipos(en) /\ envios \in Nat /\ en.envios \in Nat
  BY AccesoNumeros DEF AccesoInv
<1>2. /\ peticion[c] = "idle" /\ envios < en.envios /\ envios' = envios + 1
      /\ UNCHANGED <<ahora, filas, recibos, caidas>>
  BY DEF Solicitud!request_access
<1>3. \/ Solicitud(en)!Continuar(c) \/ \E p \in {"demasiadas", "invalida", "vencida", "enviada"} :
           Solicitud(en)!Responder(c, p)
  BY DEF Solicitud!request_access, Solicitud!Decidir
<1>4. /\ formulario' \in [Solicitud(en)!Clientes -> Solicitud(en)!Tiempo \cup {Nada}]
      /\ pagina' \in [Solicitud(en)!Clientes -> {"ninguna", "formulario", "demasiadas", "invalida",
           "vencida", "enviada"}]
      /\ peticion' \in [Solicitud(en)!Clientes -> {"idle", "guardar", "confirmar"}]
  <2>1. ahora \in Solicitud(en)!Tiempo
    BY <1>1 DEF AccesoTipos, Solicitud!Tiempo
  <2>2. CASE Solicitud(en)!Continuar(c)
    BY <1>1, <2>2 DEF Solicitud!Continuar, AccesoTipos
  <2>3. CASE \E p \in {"demasiadas", "invalida", "vencida", "enviada"} :
          Solicitud(en)!Responder(c, p)
    BY <1>1, <2>1, <2>3 DEF Solicitud!Responder, AccesoTipos
  <2> QED BY <1>3, <2>2, <2>3
<1>5. \A e \in Solicitud(en)!Clientes : peticion'[e] = peticion[e] \/
        (e = c /\ peticion'[e] = "guardar")
  BY <1>1, <1>3 DEF Solicitud!Continuar, Solicitud!Responder, AccesoTipos
<1>6. LimiteFirme(en)'
  BY PostFirme
<1>7. (envios \in 0..en.envios)'
  BY <1>1, <1>2
<1>8. AccesoTipos(en)'
  BY <1>1, <1>2, <1>4, <1>6, <1>7 DEF AccesoTipos, LimiteFirme, Solicitud!Tiempo
<1>9. ASSUME NEW e \in Solicitud(en)!Clientes PROVE Recibido(e)'
  BY <1>1, <1>2, <1>5 DEF Recibido, AccesoInv
<1> QED BY <1>8, <1>9

\* A step that leaves the limiter alone.
LEMMA LimiteIgual ==
    ASSUME NEW en, Solicitud(en)!AccessAssumption, AccesoInv(en),
           UNCHANGED <<ahora, Solicitud(en)!limite, envios>>,
           AccesoTipos(en)', \A c \in Solicitud(en)!Clientes : Recibido(c)'
    PROVE  AccesoInv(en)'
<1>1. UNCHANGED <<ahora, cubos, barrido, olvidadas, admitidos, envios>>
  BY DEF Solicitud!limite
<1>2. \A d \in en.direcciones :
        (Espaciados(en, d) /\ Guardado(en, d, Solicitud(en)!Cubo(d)) /\
        Len(Solicitud(en)!Cubo(d)) <= en.limite)'
  BY <1>1 DEF AccesoInv, Espaciados, Guardado, Solicitud!Cubo
<1>3. Solicitud(en)!Presentes(cubos)' = Solicitud(en)!Presentes(cubos)
  BY <1>1 DEF Solicitud!Presentes
<1> QED BY <1>2, <1>3 DEF AccesoInv

\* The form is given out.
LEMMA AccesoAbrir ==
    ASSUME NEW en, Solicitud(en)!AccessAssumption, AccesoInv(en), NEW c \in Solicitud(en)!Clientes,
           Solicitud(en)!Abrir(c) PROVE AccesoInv(en)'
<1>1. AccesoTipos(en) /\
        UNCHANGED <<ahora, Solicitud(en)!limite, peticion, filas, recibos, envios, caidas>>
  BY DEF AccesoInv, Solicitud!Abrir
<1>2. AccesoTipos(en)'
  BY <1>1 DEF AccesoTipos, Solicitud!Abrir, Solicitud!limite, Solicitud!Tiempo
<1>3. \A e \in Solicitud(en)!Clientes : Recibido(e)'
  BY <1>1 DEF AccesoInv, Recibido
<1> QED BY <1>1, <1>2, <1>3, LimiteIgual

\* The request is stored.
LEMMA AccesoGuardar ==
    ASSUME NEW en, Solicitud(en)!AccessAssumption, AccesoInv(en), NEW c \in Solicitud(en)!Clientes,
           Solicitud(en)!_store_request(c) PROVE AccesoInv(en)'
<1>1. /\ AccesoTipos(en)
      /\ UNCHANGED <<ahora, Solicitud(en)!limite, formulario, pagina, recibos, envios, caidas>>
      /\ peticion[c] = "guardar" /\ Recibido(c) /\ envios \in Nat
  BY AccesoNumeros DEF AccesoInv, Solicitud!_store_request
<1>2. /\ filas' \in [Solicitud(en)!Clientes -> Nat]
      /\ peticion' \in [Solicitud(en)!Clientes -> {"idle", "guardar", "confirmar"}]
      /\ filas'[c] = filas[c] + 1 /\ peticion'[c] = "confirmar"
      /\ \A e \in Solicitud(en)!Clientes : e # c => filas'[e] = filas[e] /\
           peticion'[e] = peticion[e]
  BY <1>1 DEF AccesoTipos, Solicitud!_store_request
<1>3. AccesoTipos(en)'
  BY <1>1, <1>2 DEF AccesoTipos, Solicitud!limite, Solicitud!Tiempo
<1>4. ASSUME NEW e \in Solicitud(en)!Clientes PROVE Recibido(e)'
  <2>1. CASE e = c
    BY <1>1, <1>2, <2>1 DEF Recibido
  <2>2. CASE e # c
    BY <1>1, <1>2, <2>2 DEF Recibido, AccesoInv
  <2> QED BY <2>1, <2>2
<1> QED BY <1>1, <1>3, <1>4, LimiteIgual

\* The receipt goes out or does not.
LEMMA AccesoConfirmar ==
    ASSUME NEW en, Solicitud(en)!AccessAssumption, AccesoInv(en), NEW c \in Solicitud(en)!Clientes,
           Solicitud(en)!_send_access_confirmation(c)
    PROVE  AccesoInv(en)'
<1>1. /\ AccesoTipos(en) /\ UNCHANGED <<ahora, Solicitud(en)!limite, filas, envios, caidas>>
      /\ peticion[c] = "confirmar" /\ Recibido(c) /\ envios \in Nat
  BY AccesoNumeros DEF AccesoInv, Solicitud!_send_access_confirmation
<1>2. PICK sale \in {0, 1} : recibos' = [recibos EXCEPT ![c] = @ + sale]
  BY DEF Solicitud!_send_access_confirmation
<1>3. /\ recibos' \in [Solicitud(en)!Clientes -> Nat]
      /\ peticion' \in [Solicitud(en)!Clientes -> {"idle", "guardar", "confirmar"}]
      /\ recibos'[c] = recibos[c] + sale /\ peticion'[c] = "idle"
      /\ \A e \in Solicitud(en)!Clientes : e # c => recibos'[e] = recibos[e] /\
           peticion'[e] = peticion[e]
  BY <1>1, <1>2 DEF AccesoTipos, Solicitud!_send_access_confirmation
<1>4. /\ formulario' \in [Solicitud(en)!Clientes -> Solicitud(en)!Tiempo \cup {Nada}]
      /\ pagina' \in [Solicitud(en)!Clientes -> {"ninguna", "formulario", "demasiadas", "invalida",
           "vencida", "enviada"}]
  BY <1>1 DEF AccesoTipos, Solicitud!_send_access_confirmation
<1>5. AccesoTipos(en)'
  BY <1>1, <1>3, <1>4 DEF AccesoTipos, Solicitud!limite, Solicitud!Tiempo
<1>6. ASSUME NEW e \in Solicitud(en)!Clientes PROVE Recibido(e)'
  <2>1. CASE e = c
    BY <1>1, <1>3, <2>1 DEF Recibido
  <2>2. CASE e # c
    BY <1>1, <1>3, <2>2 DEF Recibido, AccesoInv
  <2> QED BY <2>1, <2>2
<1> QED BY <1>1, <1>5, <1>6, LimiteIgual

\* What the process kept is gone, and no address is held to what it had.
LEMMA AccesoCaer ==
    ASSUME NEW en, Solicitud(en)!AccessAssumption, AccesoInv(en), Solicitud(en)!Caer
    PROVE  AccesoInv(en)'
<1>1. /\ AccesoTipos(en)
      /\ UNCHANGED <<ahora, admitidos, formulario, pagina, filas, recibos, envios>>
      /\ caidas < en.caidas /\ caidas' = caidas + 1
      /\ olvidadas' = olvidadas \cup Solicitud(en)!Presentes(cubos)
      /\ cubos' = [d \in en.direcciones |-> Nada] /\ barrido' = 0
      /\ peticion' = [c \in Solicitud(en)!Clientes |-> "idle"]
  BY DEF AccesoInv, Solicitud!Caer
<1>2. /\ envios \in Nat /\ en.caidas \in Nat /\ ahora \in Nat /\ en.cubos \in Nat
      /\ en.limite \in Nat
  BY <1>1, AccesoNumeros
<1>3. AccesoTipos(en)'
  BY <1>1, <1>2 DEF AccesoTipos, Solicitud!Presentes, Solicitud!Tiempo
<1>4. ASSUME NEW d \in en.direcciones
      PROVE  (Espaciados(en, d) /\ Guardado(en, d, Solicitud(en)!Cubo(d)) /\
             Len(Solicitud(en)!Cubo(d)) <= en.limite)'
  <2>1. Solicitud(en)!Cubo(d)' = <<>>
    BY <1>1 DEF Solicitud!Cubo
  <2>2. Espaciados(en, d) /\ Guardado(en, d, Solicitud(en)!Cubo(d)) /\ Len(<<>>) = 0 /\
          admitidos[d] \in Seq(Int)
    BY <1>1 DEF AccesoInv, AccesoTipos
  <2>3. Guardado(en, d, <<>>)'
    <3>1. CASE cubos[d] = Nada
      <4>1. Guardado(en, d, <<>>)
        BY <2>2, <3>1 DEF Solicitud!Cubo
      <4> QED BY <1>1, <1>2, <2>2, <4>1, GuardadoIgual
    <3>2. CASE cubos[d] # Nada
      <4>1. d \in olvidadas'
        BY <1>1, <3>2 DEF Solicitud!Presentes
      <4> QED BY <1>1, <2>2, <4>1 DEF Guardado
    <3> QED BY <3>1, <3>2
  <2>4. Espaciados(en, d)'
    BY <1>1, <2>2 DEF Espaciados
  <2>5. Guardado(en, d, Solicitud(en)!Cubo(d))'
    BY <2>1, <2>3
  <2> QED BY <1>2, <2>1, <2>2, <2>4, <2>5
<1>5. \A c \in Solicitud(en)!Clientes : Recibido(c)'
  BY <1>1 DEF AccesoInv, Recibido
<1>6. Cardinality(Solicitud(en)!Presentes(cubos))' <= en.cubos
  <2>1. Solicitud(en)!Presentes(cubos)' = {}
    BY <1>1 DEF Solicitud!Presentes
  <2> QED BY <1>2, <2>1, FS_EmptySet
<1> QED BY <1>3, <1>4, <1>5, <1>6 DEF AccesoInv

\* Time passes: what was expired still is.
LEMMA AccesoPasar ==
    ASSUME NEW en, Solicitud(en)!AccessAssumption, AccesoInv(en), Solicitud(en)!Pasar
    PROVE  AccesoInv(en)'
<1>1. /\ AccesoTipos(en) /\ ahora < en.tiempo /\ ahora' = ahora + 1
      /\ UNCHANGED <<cubos, barrido, olvidadas, admitidos, formulario, pagina, peticion, filas,
                     recibos, envios, caidas>>
  BY DEF AccesoInv, Solicitud!Pasar, Solicitud!limite
<1>2. ahora \in Nat /\ en.tiempo \in Nat /\ en.ventana \in Nat
  BY <1>1, AccesoNumeros
<1>3. AccesoTipos(en)'
  BY <1>1, <1>2 DEF AccesoTipos, Solicitud!Tiempo
<1>4. ASSUME NEW d \in en.direcciones
      PROVE  (Espaciados(en, d) /\ Guardado(en, d, Solicitud(en)!Cubo(d)) /\
             Len(Solicitud(en)!Cubo(d)) <= en.limite)'
  <2>1. PICK a, s : a = admitidos[d] /\ s = Solicitud(en)!Cubo(d)
    OBVIOUS
  <2>2. Espaciados(en, d) /\ Guardado(en, d, s) /\ Len(s) <= en.limite
    BY <2>1 DEF AccesoInv
  <2>3. /\ a \in Seq(Int) /\ s \in Seq(Int)
        /\ \A i \in 1..Len(a) : a[i] \in 0..ahora
        /\ d \notin olvidadas => \A i \in 1..(Len(a) - Len(s)) : ahora - a[i] > en.ventana
    BY <2>1, <2>2 DEF Espaciados, Guardado
  <2>4. PICK la, ls \in Nat : la = Len(a) /\ ls = Len(s)
    BY <2>3
  <2>5. \A i \in 1..la : a[i] \in 0..(ahora + 1)
    BY <1>2, <2>3, <2>4
  <2>6. ASSUME d \notin olvidadas, NEW i \in 1..(la - ls) PROVE (ahora + 1) - a[i] > en.ventana
    <3>1. i \in 1..la /\ ahora - a[i] > en.ventana
      BY <2>3, <2>4, <2>6
    <3>2. a[i] \in 0..ahora
      BY <2>3, <2>4, <3>1
    <3> QED BY <1>2, <3>1, <3>2
  <2>7. Espaciados(en, d)'
    BY <1>1, <2>1, <2>2, <2>4, <2>5 DEF Espaciados
  <2>8. Guardado(en, d, s)'
    BY <1>1, <2>1, <2>2, <2>4, <2>6 DEF Guardado
  <2>9. Solicitud(en)!Cubo(d)' = s
    BY <1>1, <2>1 DEF Solicitud!Cubo
  <2>10. Guardado(en, d, Solicitud(en)!Cubo(d))'
    BY <2>8, <2>9
  <2> QED BY <2>2, <2>7, <2>9, <2>10
<1>5. \A c \in Solicitud(en)!Clientes : Recibido(c)'
  BY <1>1 DEF AccesoInv, Recibido
<1>6. Solicitud(en)!Presentes(cubos)' = Solicitud(en)!Presentes(cubos)
  BY <1>1 DEF Solicitud!Presentes
<1> QED BY <1>3, <1>4, <1>5, <1>6 DEF AccesoInv

\* Every step keeps the limits.
LEMMA AccesoStep ==
    ASSUME NEW en, Solicitud(en)!AccessAssumption, AccesoInv(en), Solicitud(en)!Next
    PROVE  AccesoInv(en)'
<1>1. ASSUME NEW c \in Solicitud(en)!Clientes, Solicitud(en)!request_access(c) PROVE AccesoInv(en)'
  <2>1. LimiteFirme(en)' /\ AccesoTipos(en)' /\ \A e \in Solicitud(en)!Clientes : Recibido(e)'
    BY <1>1, PostFirme, PostContesta
  <2> QED BY <2>1 DEF AccesoInv, LimiteFirme
<1> QED BY <1>1, AccesoAbrir, AccesoGuardar, AccesoConfirmar, AccesoCaer, AccesoPasar
       DEF Solicitud!Next

----------------------------------------
(* What follows *)

\* The types of AccessRequests.
LEMMA AccesoTypeOK ==
    ASSUME NEW en, Solicitud(en)!AccessAssumption, AccesoInv(en)
    PROVE  Solicitud(en)!TypeOK
<1>1. AccesoTipos(en) /\ en.tiempo \in Nat /\ en.envios \in Nat /\ envios \in Nat /\ ahora \in Nat
  BY AccesoNumeros DEF AccesoInv
<1>2. ASSUME NEW d \in en.direcciones
      PROVE  /\ cubos[d] = Nada \/
                  (Len(cubos[d]) <= en.limite /\ \A i \in DOMAIN cubos[d] :
                  cubos[d][i] \in 0 .. ahora)
             /\ admitidos[d] \in Seq(0 .. ahora) /\ Len(admitidos[d]) <= envios
  <2>1. Espaciados(en, d) /\ Guardado(en, d, Solicitud(en)!Cubo(d)) /\
          Len(Solicitud(en)!Cubo(d)) <= en.limite
    BY DEF AccesoInv
  <2>2. PICK a, s : a = admitidos[d] /\ s = Solicitud(en)!Cubo(d)
    OBVIOUS
  <2>3. a \in Seq(Int) /\ Len(a) <= envios /\ \A i \in 1..Len(a) : a[i] \in 0..ahora
    BY <2>1, <2>2 DEF Espaciados
  <2>4. a \in Seq(0..ahora)
    <3>1. PICK la \in Nat : la = Len(a) /\ a \in [1..la -> Int]
      BY <2>3
    <3>2. a \in [1..la -> 0..ahora]
      BY <2>3, <3>1
    <3> QED BY <3>1, <3>2, SeqDef
  <2>5. s \in Seq(Int) /\ Len(s) <= en.limite
    BY <2>1, <2>2 DEF Guardado
  <2>6. \A i \in 1..Len(s) : s[i] \in 0..ahora
    BY <1>1, <2>1, <2>2, GuardadoTiempos
  <2>7. DOMAIN s = 1..Len(s)
    BY <2>5
  <2>8. cubos[d] = Nada \/ cubos[d] = s
    BY <2>2 DEF Solicitud!Cubo
  <2> QED BY <2>2, <2>3, <2>4, <2>5, <2>6, <2>7, <2>8
<1>3. \A c \in Solicitud(en)!Clientes : filas[c] \in 0..en.envios /\ recibos[c] \in 0..en.envios
  BY <1>1 DEF AccesoInv, Recibido, AccesoTipos
<1>4. filas \in [Solicitud(en)!Clientes -> 0..en.envios] /\
        recibos \in [Solicitud(en)!Clientes -> 0..en.envios]
  BY <1>1, <1>3 DEF AccesoTipos
<1>5. envios <= en.envios /\ caidas <= en.caidas
  BY <1>1 DEF AccesoTipos, Solicitud!AccessAssumption
<1> QED BY <1>1, <1>2, <1>4, <1>5 DEF Solicitud!TypeOK, AccesoTipos, Solicitud!Tiempo

\* A receipt is of a row.
LEMMA AccesoReceipt ==
    ASSUME NEW en, AccesoInv(en)
    PROVE  Solicitud(en)!ReceiptMeansStored
BY DEF AccesoInv, Recibido, Solicitud!ReceiptMeansStored

\* The memory is bounded.
LEMMA AccesoBounded ==
    ASSUME NEW en, AccesoInv(en)
    PROVE  Solicitud(en)!BucketsBounded
BY AccesoCuenta DEF AccesoInv, Solicitud!BucketsBounded

\* The posts of a window are no more than the limit.
LEMMA AccesoWindow ==
    ASSUME NEW en, Solicitud(en)!AccessAssumption, AccesoInv(en)
    PROVE  Solicitud(en)!WindowHolds
<1> SUFFICES ASSUME NEW d \in en.direcciones, d \notin olvidadas, NEW t \in Solicitud(en)!Tiempo
             PROVE  Solicitud(en)!EnVentana(d, t) <= en.limite
  BY DEF Solicitud!WindowHolds
<1>1. /\ en.limite \in Nat \ {0} /\ en.ventana \in Nat /\ ahora \in Nat
      /\ t \in Int /\ Espaciados(en, d)
  BY AccesoNumeros DEF AccesoInv, Solicitud!Tiempo
<1>2. PICK a : a = admitidos[d]
  OBVIOUS
<1>3. a \in Seq(Int)
  BY <1>1, <1>2 DEF Espaciados
<1>4. PICK la \in Nat : la = Len(a) /\ DOMAIN a = 1..la
  BY <1>3
<1>5. /\ \A i \in 1..la : a[i] \in 0..ahora
      /\ \A i, j \in 1..la : i < j => a[i] <= a[j]
      /\ \A i, j \in 1..la : j = i + en.limite => a[j] - a[i] > en.ventana
  BY <1>1, <1>2, <1>4 DEF Espaciados
<1>6. PICK T : T = {i \in 1..la : a[i] \in (t - en.ventana)..t}
  OBVIOUS
<1>7. Solicitud(en)!EnVentana(d, t) = Cardinality(T)
  BY <1>2, <1>4, <1>6, AccesoCuenta DEF Solicitud!EnVentana
<1>8. CASE T = {}
  BY <1>1, <1>7, <1>8, FS_EmptySet
<1>9. CASE T # {}
  <2>1. T \subseteq Nat
    BY <1>4, <1>6
  <2>2. PICK m \in T : \A y \in T : m <= y
    BY <1>9, <2>1, ElMenor
  <2>3. m \in 1..la /\ a[m] \in (t - en.ventana)..t
    BY <1>6, <2>2
  <2>4. ASSUME NEW y \in T PROVE y \in m..(m + en.limite - 1)
    <3>1. y \in 1..la /\ a[y] \in (t - en.ventana)..t /\ m <= y
      BY <1>6, <2>2
    <3>2. CASE y >= m + en.limite
      <4>1. PICK z \in Int : z = m + en.limite
        BY <1>1, <2>3
      <4>2. z \in 1..la /\ (z < y \/ z = y)
        BY <1>1, <1>4, <2>3, <3>1, <3>2, <4>1
      <4>3. a[z] - a[m] > en.ventana
        BY <1>5, <2>3, <4>1, <4>2
      <4>4. a[z] <= a[y]
        BY <1>5, <3>1, <4>2
      <4>5. a[z] \in Int /\ a[m] \in Int /\ a[y] \in Int
        BY <1>5, <2>3, <3>1, <4>2
      <4>6. a[y] - a[m] > en.ventana
        BY <1>1, <4>3, <4>4, <4>5
      <4>7. a[y] <= t /\ a[m] >= t - en.ventana
        BY <1>1, <2>3, <3>1
      <4> QED BY <1>1, <4>5, <4>6, <4>7
    <3>3. CASE ~(y >= m + en.limite)
      BY <1>1, <1>4, <2>3, <3>1, <3>3
    <3> QED BY <3>2, <3>3
  <2>5. T \subseteq m..(m + en.limite - 1)
    BY <2>4
  <2>6. m \in Int /\ (m + en.limite - 1) \in Int /\ m <= m + en.limite - 1
    BY <1>1, <2>3
  <2>7. /\ IsFiniteSet(m..(m + en.limite - 1))
        /\ Cardinality(m..(m + en.limite - 1)) = en.limite
    <3>1. PICK n \in Int : n = m + en.limite - 1
      BY <2>6
    <3>2. IsFiniteSet(m..n) /\ Cardinality(m..n) = IF m > n THEN 0 ELSE n - m + 1
      BY <2>6, <3>1, FS_Interval
    <3>3. Cardinality(m..n) = en.limite
      BY <1>1, <2>3, <2>6, <3>1, <3>2
    <3> QED BY <3>1, <3>2, <3>3
  <2>8. Cardinality(T) <= en.limite
    BY <2>5, <2>7, FS_Subset
  <2> QED BY <1>7, <2>8
<1> QED BY <1>8, <1>9

\* Whoever is refused had as many posts admitted as the limit within the window.
LEMMA AccesoRefused ==
    ASSUME NEW en, Solicitud(en)!AccessAssumption, AccesoInv(en)
    PROVE  Solicitud(en)!RefusedWithCause
<1> SUFFICES ASSUME NEW c \in Solicitud(en)!Clientes, Solicitud(en)!request_access(c),
      admitidos' = admitidos
             PROVE  Solicitud(en)!EnVentana(en.de[c], ahora) >= en.limite
  BY DEF Solicitud!RefusedWithCause
<1>1. PICK d \in en.direcciones : d = en.de[c]
  BY DEF Solicitud!AccessAssumption
<1>2. /\ en.limite \in Nat \ {0} /\ en.ventana \in Nat /\ ahora \in Nat
      /\ Espaciados(en, d) /\ AccesoTipos(en)
  BY AccesoNumeros DEF AccesoInv
<1>3. Solicitud(en)!_rate_limited(d)
  BY <1>1 DEF Solicitud!request_access
<1>4. PICK a, v, s : a = admitidos[d] /\ v = Solicitud(en)!Vigentes(Solicitud(en)!Cubo(d)) /\
        s = Solicitud(en)!Cubo(d)
  OBVIOUS
<1>5. EsVigente(en, s, v) /\ Guardado(en, d, v) /\ v \in Seq(Int) /\ a \in Seq(Int)
  BY <1>2, <1>4, CuboVigente DEF Espaciados
<1>6. PICK la, lv \in Nat : la = Len(a) /\ lv = Len(v) /\ DOMAIN a = 1..la
  BY <1>5
<1>7. lv >= en.limite
  <2> SUFFICES ASSUME ~(lv >= en.limite) PROVE FALSE
    OBVIOUS
  <2>1. admitidos' = [admitidos EXCEPT ![d] = Append(@, ahora)]
    BY <1>3, <1>4, <1>6 DEF Solicitud!_rate_limited, Solicitud!Limitada
  <2>2. admitidos'[d] = Append(a, ahora)
    BY <1>2, <1>4, <2>1 DEF AccesoTipos
  <2>3. Len(Append(a, ahora)) = la + 1
    BY <1>2, <1>5, <1>6
  <2> QED BY <1>4, <1>6, <2>2, <2>3
<1>8. lv <= la /\ \A i \in 1..lv : v[i] = a[i + (la - lv)]
  BY <1>4, <1>5, <1>6 DEF Guardado
<1>9. ahora - v[1] <= en.ventana
  BY <1>2, <1>5, <1>6, <1>7 DEF EsVigente
<1>10. \A i \in 1..lv : v[i] \in 0..ahora /\ v[1] <= v[i]
  <2> SUFFICES ASSUME NEW i \in 1..lv PROVE v[i] \in 0..ahora /\ v[1] <= v[i]
    OBVIOUS
  <2>1. v[i] \in 0..ahora /\ \A j \in 1..i : v[j] <= v[i]
    <3>1. i \in 1..Len(v) /\ ahora \in Int
      BY <1>2, <1>6
    <3> QED BY <1>2, <1>5, <3>1, GuardadoTiempos
  <2>2. 1 \in 1..i
    BY <1>6
  <2> QED BY <2>1, <2>2
<1>11. PICK T : T = {i \in 1..la : a[i] \in (ahora - en.ventana)..ahora}
  OBVIOUS
<1>12. Solicitud(en)!EnVentana(d, ahora) = Cardinality(T)
  BY <1>4, <1>6, <1>11, AccesoCuenta DEF Solicitud!EnVentana
<1>13. ASSUME NEW k \in (la - lv + 1)..la PROVE k \in T
  <2>1. PICK i \in Int : i = k - (la - lv)
    BY <1>6
  <2>2. i \in 1..lv /\ i + (la - lv) = k /\ k \in 1..la
    BY <1>6, <1>8, <2>1
  <2>3. a[k] = v[i]
    BY <1>8, <2>2
  <2>4. v[i] \in 0..ahora /\ v[1] <= v[i] /\ v[1] \in Int
    <3>1. 1 \in 1..lv
      BY <1>2, <1>6, <1>7
    <3> QED BY <1>10, <2>2, <3>1
  <2>5. v[i] \in (ahora - en.ventana)..ahora
    BY <1>2, <1>9, <2>4
  <2> QED BY <1>11, <2>2, <2>3, <2>5
<1>14. IsFiniteSet(T)
  <2>1. IsFiniteSet(1..la)
    BY <1>6, FS_Interval
  <2>2. T \subseteq 1..la
    BY <1>11
  <2> QED BY <2>1, <2>2, FS_Subset
<1>15. Cardinality((la - lv + 1)..la) = lv
  <2>1. PICK n \in Int : n = la - lv + 1
    BY <1>6
  <2>2. Cardinality(n..la) = IF n > la THEN 0 ELSE la - n + 1
    <3>1. la \in Int
      OBVIOUS
    <3> QED BY <3>1, FS_Interval
  <2>3. Cardinality(n..la) = lv
    BY <1>6, <2>1, <2>2
  <2> QED BY <2>1, <2>3
<1>16. Cardinality((la - lv + 1)..la) <= Cardinality(T)
  <2>1. (la - lv + 1)..la \subseteq T
    BY <1>13
  <2> QED BY <1>14, <2>1, FS_Subset
<1>17. Cardinality(T) \in Nat
  BY <1>14, FS_CardinalityType
<1> QED BY <1>1, <1>2, <1>6, <1>7, <1>12, <1>15, <1>16, <1>17

----------------------------------------
(* Prior credentials (PriorCredentials) *)

\* q is a submission that is on its way to its commit.
Enlaza(q) == q.pc \in {"flush", "imagen", "insertar"}

\* What a request holds is there: a submission has an id of which there is no row, and the
\* key of its own from the flush on.
Sana(en, q) ==
    /\ q \in Credencial(en)!Peticion
    /\ Enlaza(q) => q.id \in en.registros /\ q.escrito \in Credencial(en)!Registro /\
         registro[q.id] = Nada
    /\ q.pc = "imagen" => q.escrito.imagen = TRUE
    /\ q.pc \in {"imagen", "insertar"} => <<q.id, q.escrito.usuario, q.escrito.clave>> \in llaves
    /\ q.pc = "borrar" => q.id \in en.registros
    /\ q.pc = "revisar" => q.id \in en.registros /\ q.leido \in Credencial(en)!Registro /\
         q.escrito \in Credencial(en)!Registro

CredTipos(en) ==
    /\ registro \in [en.registros -> Credencial(en)!Registro \cup {Nada}]
    /\ archivos \subseteq en.registros /\ llaves \subseteq en.registros \X en.miembros \X en.claves
    /\ lista \in [en.miembros -> 0 .. Cardinality(en.claves)]
    /\ operaciones \in 0..en.operaciones /\ caidas \in 0..en.caidas

\* Two requests do not share the id of a submission.
Distintas(en) ==
    \A r, s \in en.peticiones : (r # s /\ Enlaza(peticion[r])) => peticion[s].id # peticion[r].id

\* A key that is flushed is of no row and of no other transaction.
LlavesDeUno(en) ==
    /\ \A l \in llaves : registro[l[1]] = Nada /\ Credencial(en)!LlaveLibre(l[2], l[3])
    /\ \A l, m \in llaves : (l[2] = m[2] /\ l[3] = m[3]) => l = m

FilasUnicas(en) ==
    \A i, j \in Credencial(en)!Existentes :
       (registro[i].usuario = registro[j].usuario /\ registro[i].clave = registro[j].clave) => i = j

ConImagen(i) == registro[i] # Nada /\ registro[i].imagen = TRUE
PorBorrar(en, i) == \E r \in en.peticiones : peticion[r].pc = "borrar" /\ peticion[r].id = i
PorInsertar(en, i) ==
    \E r \in en.peticiones : peticion[r].pc = "insertar" /\ peticion[r].id = i /\
      peticion[r].escrito.imagen = TRUE

\* As long as nothing died, the files are those of the rows that nobody removes and of
\* the submissions that are about to commit.
Ficheros(en) ==
    caidas = 0 => \A i \in en.registros :
       i \in archivos <=> ((ConImagen(i) /\ ~PorBorrar(en, i)) \/ PorInsertar(en, i))

\* All of it.
CredInv(en) ==
    /\ CredTipos(en) /\ peticion \in [en.peticiones -> Credencial(en)!Peticion]
    /\ \A r \in en.peticiones : Sana(en, peticion[r])
    /\ Distintas(en) /\ LlavesDeUno(en) /\ FilasUnicas(en) /\ Ficheros(en)

\* Sets are counted as in this module.
LEMMA CredCuenta ==
    ASSUME NEW en
    PROVE  /\ \A S : Credencial(en)!Cardinality(S) = Cardinality(S)
           /\ \A S : Credencial(en)!IsFiniteSet(S) <=> IsFiniteSet(S)
BY DEF Credencial!Cardinality, Cardinality, Credencial!IsFiniteSet, IsFiniteSet

\* A row is what was written, never the absence of one.
LEMMA CredNada ==
    ASSUME NEW en, Credencial(en)!CredentialsAssumption
    PROVE  /\ Nada \notin Credencial(en)!Registro /\ Nada \notin en.registros
           /\ Nada \notin en.miembros
           /\ Nada \notin en.personal /\ Nada \notin en.claves /\ IsFiniteSet(en.claves)
           /\ en.operaciones \in Nat /\ en.caidas \in Nat
BY CredCuenta DEF Credencial!CredentialsAssumption, Credencial!Registro

\* At the start there is nothing.
LEMMA CredInit ==
    ASSUME NEW en, Credencial(en)!CredentialsAssumption, Credencial(en)!Init
    PROVE  CredInv(en)
<1>1. Cardinality(en.claves) \in Nat
  BY CredNada, FS_CardinalityType
<1>2. CredTipos(en)
  BY <1>1, CredNada DEF Credencial!Init, CredTipos
<1>3. \A r \in en.peticiones : peticion[r] = Credencial(en)!Libre
  BY DEF Credencial!Init
<1>4. Credencial(en)!Libre \in Credencial(en)!Peticion /\ Credencial(en)!Libre.pc = "idle"
  BY DEF Credencial!Libre, Credencial!Peticion
<1>5. peticion \in [en.peticiones -> Credencial(en)!Peticion]
  BY <1>4 DEF Credencial!Init
<1>6. \A r \in en.peticiones : Sana(en, peticion[r])
  BY <1>3, <1>4 DEF Sana, Enlaza
<1>7. Distintas(en)
  BY <1>3, <1>4 DEF Distintas, Enlaza
<1>8. LlavesDeUno(en) /\ FilasUnicas(en)
  BY DEF Credencial!Init, LlavesDeUno, FilasUnicas, Credencial!Existentes
<1>9. Ficheros(en)
  BY <1>3, <1>4 DEF Credencial!Init, Ficheros, ConImagen, PorInsertar
<1> QED BY <1>2, <1>5, <1>6, <1>7, <1>8, <1>9 DEF CredInv

\* A request goes on as q and the others stay.
LEMMA CredSigue ==
    ASSUME NEW en, NEW r \in en.peticiones, NEW q, Credencial(en)!Seguir(r, q),
           q \in Credencial(en)!Peticion,
           peticion \in [en.peticiones -> Credencial(en)!Peticion]
    PROVE  /\ peticion' \in [en.peticiones -> Credencial(en)!Peticion] /\ peticion'[r] = q
           /\ \A s \in en.peticiones : s # r => peticion'[s] = peticion[s]
BY DEF Credencial!Seguir

\* Where nothing is left of a request, it holds nothing.
LEMMA LibreSana ==
    ASSUME NEW en
    PROVE  /\ Credencial(en)!Libre \in Credencial(en)!Peticion /\ ~Enlaza(Credencial(en)!Libre)
           /\ Credencial(en)!Libre.pc = "idle" /\ Credencial(en)!Libre.id = Nada
           /\ Sana(en, Credencial(en)!Libre)'
BY DEF Credencial!Libre, Credencial!Peticion, Enlaza, Sana

\* The requests that stay hold what they held, where no row appears at their ids and no
\* key of theirs is dropped.
LEMMA SanaIgual ==
    ASSUME NEW en, NEW q, Sana(en, q), Enlaza(q) => registro'[q.id] = Nada,
           q.pc \in {"imagen", "insertar"} =>
              <<q.id, q.escrito.usuario, q.escrito.clave>> \in llaves'
    PROVE  Sana(en, q)'
BY DEF Sana, Enlaza

----------------------------------------

\* A member records a course.
LEMMA CredRegistrar ==
    ASSUME NEW en, Credencial(en)!CredentialsAssumption, CredInv(en), NEW r \in en.peticiones,
           NEW u \in en.miembros,
           Credencial(en)!my_credentials(r, u)
    PROVE  CredInv(en)'
<1>1. PICK k \in en.claves, i \in en.registros \ Credencial(en)!Usados, con \in BOOLEAN :
          Credencial(en)!Seguir(r,
            [Credencial(en)!Libre EXCEPT !.pc = "flush", !.usuario = u, !.id = i,
                !.escrito = [usuario |-> u, clave |-> k, imagen |-> con, status |-> "submitted",
                  reviewed_by |-> Nada]])
  BY DEF Credencial!my_credentials
<1>2. PICK e :
        e = [usuario |-> u, clave |-> k, imagen |-> con, status |-> "submitted",
        reviewed_by |-> Nada]
  OBVIOUS
<1>3. PICK q :
        q = [Credencial(en)!Libre EXCEPT !.pc = "flush", !.usuario = u, !.id = i, !.escrito = e]
  OBVIOUS
<1>4. e \in Credencial(en)!Registro
  BY <1>2 DEF Credencial!Registro, Credencial!VALID_STATUSES
<1>5. /\ q \in Credencial(en)!Peticion /\ q.pc = "flush" /\ q.id = i /\ q.escrito = e
  BY <1>3, <1>4 DEF Credencial!Libre, Credencial!Peticion
<1>6. /\ peticion' \in [en.peticiones -> Credencial(en)!Peticion] /\ peticion'[r] = q
      /\ \A s \in en.peticiones : s # r => peticion'[s] = peticion[s]
  BY <1>1, <1>2, <1>3, <1>5, CredSigue DEF CredInv
<1>7. /\ UNCHANGED <<registro, llaves, archivos, lista, caidas>>
      /\ operaciones' = operaciones + 1 /\ operaciones < en.operaciones /\ peticion[r].pc = "idle"
  BY DEF Credencial!my_credentials, Credencial!Empezar
<1>8. CredTipos(en)'
  BY <1>7, CredNada DEF CredInv, CredTipos
<1>9. /\ registro[i] = Nada /\ \A s \in en.peticiones : peticion[s].id # i
  BY DEF Credencial!Usados, Credencial!Existentes
<1>10. Sana(en, q)'
  BY <1>4, <1>5, <1>7, <1>9 DEF Sana, Enlaza
<1>11. ASSUME NEW s \in en.peticiones PROVE Sana(en, peticion[s])'
  <2>1. CASE s = r
    BY <1>6, <1>10, <2>1
  <2>2. CASE s # r
    <3>1. Sana(en, peticion[s])
      BY DEF CredInv
    <3> QED BY <1>6, <1>7, <2>2, <3>1 DEF Sana
  <2> QED BY <2>1, <2>2
<1>12. Distintas(en)'
  BY <1>5, <1>6, <1>9 DEF CredInv, Distintas
<1>13. LlavesDeUno(en)' /\ FilasUnicas(en)'
  BY <1>7 DEF CredInv, LlavesDeUno, FilasUnicas, Credencial!Existentes, Credencial!LlaveLibre
<1>14. \A j \in en.registros : ConImagen(j)' = ConImagen(j) /\
         PorBorrar(en, j)' = PorBorrar(en, j) /\ PorInsertar(en, j)' = PorInsertar(en, j)
  BY <1>5, <1>6, <1>7 DEF ConImagen, PorBorrar, PorInsertar
<1>15. Ficheros(en)'
  BY <1>7, <1>14 DEF CredInv, Ficheros
<1> QED BY <1>6, <1>8, <1>11, <1>12, <1>13, <1>15 DEF CredInv

\* The flush: the key is taken, or the course was recorded already.
LEMMA CredInsertar ==
    ASSUME NEW en, Credencial(en)!CredentialsAssumption, CredInv(en), NEW r \in en.peticiones,
           Credencial(en)!Insertar(r) PROVE CredInv(en)'
<1>1. PICK p, e : p = peticion[r] /\ e = p.escrito
  OBVIOUS
<1>2. Sana(en, p) /\ p.pc = "flush" /\ p \in Credencial(en)!Peticion
  BY <1>1 DEF CredInv, Credencial!Insertar, Sana
<1>3. /\ p.id \in en.registros /\ e \in Credencial(en)!Registro /\ registro[p.id] = Nada
      /\ e.usuario \in en.miembros /\ e.clave \in en.claves /\ e.imagen \in BOOLEAN
  BY <1>1, <1>2 DEF Sana, Enlaza, Credencial!Registro
<1>4. UNCHANGED <<registro, archivos, lista, operaciones, caidas>>
  BY <1>1 DEF Credencial!Insertar, Credencial!Terminar
<1>5. CASE Credencial(en)!LlaveLibre(e.usuario, e.clave)
  <2>1. PICK l : l = <<p.id, e.usuario, e.clave>>
    OBVIOUS
  <2>2. PICK q : q = [p EXCEPT !.pc = IF e.imagen THEN "imagen" ELSE "insertar"]
    OBVIOUS
  <2>3. /\ llaves' = llaves \cup {l} /\ Credencial(en)!Seguir(r, q)
        /\ ~Credencial(en)!EnEspera(e.usuario, e.clave)
    BY <1>1, <1>5, <2>1, <2>2 DEF Credencial!Insertar
  <2>4. /\ q \in Credencial(en)!Peticion /\ q.id = p.id /\ q.escrito = e
        /\ q.pc = IF e.imagen THEN "imagen" ELSE "insertar"
    BY <1>1, <1>2, <1>3, <2>2 DEF Credencial!Peticion
  <2>5. /\ peticion' \in [en.peticiones -> Credencial(en)!Peticion] /\ peticion'[r] = q
        /\ \A s \in en.peticiones : s # r => peticion'[s] = peticion[s]
    BY <2>3, <2>4, CredSigue DEF CredInv
  <2>6. l \in en.registros \X en.miembros \X en.claves /\ l[1] = p.id /\ l[2] = e.usuario /\
          l[3] = e.clave
    BY <1>3, <2>1
  <2>7. CredTipos(en)'
    BY <1>4, <2>3, <2>6 DEF CredInv, CredTipos
  <2>8. Sana(en, q)'
    <3>1. Enlaza(q) /\ registro'[q.id] = Nada
      BY <1>3, <1>4, <2>4 DEF Enlaza
    <3>2. <<q.id, q.escrito.usuario, q.escrito.clave>> \in llaves'
      BY <2>1, <2>3, <2>4
    <3> QED BY <1>3, <2>4, <3>1, <3>2 DEF Sana
  <2>9. ASSUME NEW s \in en.peticiones PROVE Sana(en, peticion[s])'
    <3>1. CASE s = r
      BY <2>5, <2>8, <3>1
    <3>2. CASE s # r
      <4>1. Sana(en, peticion[s]) /\ llaves \subseteq llaves'
        BY <2>3 DEF CredInv
      <4> QED BY <1>4, <2>5, <3>2, <4>1 DEF Sana
    <3> QED BY <3>1, <3>2
  <2>10. Distintas(en)'
    <3>1. Enlaza(p)
      BY <1>2 DEF Enlaza
    <3> QED BY <1>1, <2>4, <2>5, <3>1 DEF CredInv, Distintas
  <2>11. LlavesDeUno(en)'
    <3>1. \A m \in llaves : ~(m[2] = l[2] /\ m[3] = l[3])
      BY <2>3, <2>6 DEF Credencial!EnEspera
    <3>2. \A m \in llaves' : registro'[m[1]] = Nada
      BY <1>3, <1>4, <2>3, <2>6 DEF CredInv, LlavesDeUno
    <3>3. \A m \in llaves' : Credencial(en)!LlaveLibre(m[2], m[3])'
      BY <1>4, <1>5, <2>3, <2>6 DEF CredInv, LlavesDeUno, Credencial!LlaveLibre,
         Credencial!Existentes
    <3>4. \A m, n \in llaves' : (m[2] = n[2] /\ m[3] = n[3]) => m = n
      BY <2>3, <3>1 DEF CredInv, LlavesDeUno
    <3> QED BY <3>2, <3>3, <3>4 DEF LlavesDeUno
  <2>12. FilasUnicas(en)'
    BY <1>4 DEF CredInv, FilasUnicas, Credencial!Existentes
  <2>13. Ficheros(en)'
    <3> SUFFICES ASSUME caidas = 0, NEW j \in en.registros
                 PROVE  j \in archivos
                        <=> ((ConImagen(j) /\ ~PorBorrar(en, j)) \/ PorInsertar(en, j))'
      BY <1>4 DEF Ficheros
    <3>1. ConImagen(j)' = ConImagen(j)
      BY <1>4 DEF ConImagen
    <3>2. PorBorrar(en, j)' = PorBorrar(en, j)
      BY <1>1, <1>2, <2>4, <2>5 DEF PorBorrar
    <3>3. PorInsertar(en, j)' = PorInsertar(en, j)
      BY <1>1, <1>2, <2>4, <2>5 DEF PorInsertar
    <3> QED BY <3>1, <3>2, <3>3 DEF CredInv, Ficheros
  <2> QED BY <2>5, <2>7, <2>9, <2>10, <2>11, <2>12, <2>13 DEF CredInv
<1>6. CASE ~Credencial(en)!LlaveLibre(e.usuario, e.clave)
  <2>1. Credencial(en)!Seguir(r, Credencial(en)!Libre) /\ UNCHANGED llaves
    BY <1>1, <1>6 DEF Credencial!Insertar, Credencial!Terminar
  <2>2. /\ peticion' \in [en.peticiones -> Credencial(en)!Peticion]
        /\ peticion'[r] = Credencial(en)!Libre
        /\ \A s \in en.peticiones : s # r => peticion'[s] = peticion[s]
    BY <2>1, LibreSana, CredSigue DEF CredInv
  <2>3. CredTipos(en)'
    BY <1>4, <2>1 DEF CredInv, CredTipos
  <2>4. ASSUME NEW s \in en.peticiones PROVE Sana(en, peticion[s])'
    <3>1. CASE s = r
      BY <2>2, <3>1, LibreSana
    <3>2. CASE s # r
      <4>1. Sana(en, peticion[s])
        BY DEF CredInv
      <4> QED BY <1>4, <2>1, <2>2, <3>2, <4>1 DEF Sana
    <3> QED BY <3>1, <3>2
  <2>5. Distintas(en)'
    <3>1. \A s \in en.peticiones : Enlaza(peticion[s]) => peticion[s].id # Nada
      BY CredNada DEF CredInv, Sana
    <3> QED BY <2>2, <3>1, LibreSana DEF CredInv, Distintas
  <2>6. LlavesDeUno(en)' /\ FilasUnicas(en)'
    BY <1>4, <2>1 DEF CredInv, LlavesDeUno, FilasUnicas, Credencial!Existentes,
       Credencial!LlaveLibre
  <2>7. Ficheros(en)'
    <3>1. \A j \in en.registros : ConImagen(j)' = ConImagen(j) /\
            PorBorrar(en, j)' = PorBorrar(en, j) /\ PorInsertar(en, j)' = PorInsertar(en, j)
      BY <1>1, <1>2, <1>4, <2>2, LibreSana DEF ConImagen, PorBorrar, PorInsertar
    <3> QED BY <1>4, <3>1 DEF CredInv, Ficheros
  <2> QED BY <2>2, <2>3, <2>4, <2>5, <2>6, <2>7 DEF CredInv
<1> QED BY <1>5, <1>6

\* The image is stored.
LEMMA CredImagen ==
    ASSUME NEW en, Credencial(en)!CredentialsAssumption, CredInv(en), NEW r \in en.peticiones,
           Credencial(en)!_store_image(r) PROVE CredInv(en)'
<1>1. PICK p : p = peticion[r]
  OBVIOUS
<1>13. PICK q : q = [p EXCEPT !.pc = "insertar"]
  OBVIOUS
<1>2. Sana(en, p) /\ p.pc = "imagen" /\ p \in Credencial(en)!Peticion
  BY <1>1 DEF CredInv, Credencial!_store_image, Sana
<1>3. /\ archivos' = archivos \cup {p.id} /\ Credencial(en)!Seguir(r, q)
      /\ UNCHANGED <<registro, llaves, lista, operaciones, caidas>>
  BY <1>1, <1>13 DEF Credencial!_store_image
<1>4. q \in Credencial(en)!Peticion /\ q.id = p.id /\ q.escrito = p.escrito /\ q.pc = "insertar"
  BY <1>2, <1>13 DEF Credencial!Peticion
<1>5. /\ peticion' \in [en.peticiones -> Credencial(en)!Peticion] /\ peticion'[r] = q
      /\ \A s \in en.peticiones : s # r => peticion'[s] = peticion[s]
  BY <1>3, <1>4, CredSigue DEF CredInv
<1>6. p.id \in en.registros /\ registro[p.id] = Nada /\ p.escrito \in Credencial(en)!Registro /\
        p.escrito.imagen = TRUE
      /\ <<p.id, p.escrito.usuario, p.escrito.clave>> \in llaves
  BY <1>2 DEF Sana, Enlaza
<1>7. CredTipos(en)'
  BY <1>3, <1>6 DEF CredInv, CredTipos
<1>8. Sana(en, q)'
  BY <1>3, <1>4, <1>6 DEF Sana, Enlaza
<1>9. ASSUME NEW s \in en.peticiones PROVE Sana(en, peticion[s])'
  <2>1. CASE s = r
    BY <1>5, <1>8, <2>1
  <2>2. CASE s # r
    <3>1. Sana(en, peticion[s])
      BY DEF CredInv
    <3> QED BY <1>3, <1>5, <2>2, <3>1 DEF Sana
  <2> QED BY <2>1, <2>2
<1>10. Distintas(en)'
  <2>1. Enlaza(p)
    BY <1>2 DEF Enlaza
  <2> QED BY <1>1, <1>4, <1>5, <2>1 DEF CredInv, Distintas
<1>11. LlavesDeUno(en)' /\ FilasUnicas(en)'
  BY <1>3 DEF CredInv, LlavesDeUno, FilasUnicas, Credencial!Existentes, Credencial!LlaveLibre
<1>12. Ficheros(en)'
  <2> SUFFICES ASSUME caidas = 0, NEW j \in en.registros
               PROVE  j \in archivos'
                      <=> ((ConImagen(j) /\ ~PorBorrar(en, j)) \/ PorInsertar(en, j))'
    BY <1>3 DEF Ficheros
  <2>1. ConImagen(j)' = ConImagen(j)
    BY <1>3 DEF ConImagen
  <2>2. PorBorrar(en, j)' = PorBorrar(en, j)
    BY <1>1, <1>2, <1>4, <1>5 DEF PorBorrar
  <2>3. PorInsertar(en, j)' = (PorInsertar(en, j) \/ j = p.id)
    BY <1>1, <1>2, <1>4, <1>5, <1>6 DEF PorInsertar
  <2> QED BY <1>3, <2>1, <2>2, <2>3 DEF CredInv, Ficheros
<1> QED BY <1>5, <1>7, <1>9, <1>10, <1>11, <1>12 DEF CredInv

\* The commit of a submission: the row that its key was kept for.
LEMMA CredConfirmar ==
    ASSUME NEW en, Credencial(en)!CredentialsAssumption, CredInv(en), NEW r \in en.peticiones,
           Credencial(en)!Confirmar(r) PROVE CredInv(en)'
<1>1. PICK p, i, e : p = peticion[r] /\ i = p.id /\ e = p.escrito
  OBVIOUS
<1>2. Sana(en, p) /\ p.pc = "insertar" /\ Enlaza(p)
  BY <1>1 DEF CredInv, Credencial!Confirmar, Enlaza
<1>3. /\ registro' = [registro EXCEPT ![i] = e] /\ llaves' = {l \in llaves : l[1] # i}
      /\ Credencial(en)!Seguir(r, Credencial(en)!Libre)
      /\ UNCHANGED <<archivos, lista, operaciones, caidas>>
  BY <1>1 DEF Credencial!Confirmar, Credencial!Terminar
<1>4. i \in en.registros /\ e \in Credencial(en)!Registro /\ registro[i] = Nada /\
        <<i, e.usuario, e.clave>> \in llaves
  BY <1>1, <1>2 DEF Sana
<1>5. /\ peticion' \in [en.peticiones -> Credencial(en)!Peticion]
      /\ peticion'[r] = Credencial(en)!Libre
      /\ \A s \in en.peticiones : s # r => peticion'[s] = peticion[s]
  BY <1>3, LibreSana, CredSigue DEF CredInv
<1>6. /\ registro' \in [en.registros -> Credencial(en)!Registro \cup {Nada}] /\ registro'[i] = e
      /\ \A j \in en.registros : j # i => registro'[j] = registro[j]
  BY <1>3, <1>4 DEF CredInv, CredTipos
<1>7. CredTipos(en)'
  BY <1>3, <1>6 DEF CredInv, CredTipos
<1>8. \A s \in en.peticiones : s # r => peticion[s].id # i
  BY <1>1, <1>2 DEF CredInv, Distintas
<1>9. ASSUME NEW s \in en.peticiones PROVE Sana(en, peticion[s])'
  <2>1. CASE s = r
    BY <1>5, <2>1, LibreSana
  <2>2. CASE s # r
    <3>1. PICK q : q = peticion[s]
      OBVIOUS
    <3>2. Sana(en, q) /\ q.id # i
      BY <1>8, <2>2, <3>1 DEF CredInv
    <3>3. Enlaza(q) => registro'[q.id] = Nada
      BY <1>6, <3>2 DEF Sana
    <3>4. q.pc \in {"imagen", "insertar"}
            => <<q.id, q.escrito.usuario, q.escrito.clave>> \in llaves'
      BY <1>3, <3>2 DEF Sana
    <3>5. Sana(en, q)'
      BY <3>2, <3>3, <3>4, SanaIgual
    <3> QED BY <1>5, <2>2, <3>1, <3>5
  <2> QED BY <2>1, <2>2
<1>10. Distintas(en)'
  <2>1. \A s \in en.peticiones : Enlaza(peticion[s]) => peticion[s].id # Nada
    BY CredNada DEF CredInv, Sana
  <2> QED BY <1>5, <2>1, LibreSana DEF CredInv, Distintas
<1>11. PICK k : k = <<i, e.usuario, e.clave>>
  OBVIOUS
<1>12. k \in llaves /\ k[1] = i /\ k[2] = e.usuario /\ k[3] = e.clave
  BY <1>4, <1>11
<1>13. \A j \in Credencial(en)!Existentes : registro[j].usuario # e.usuario \/
         registro[j].clave # e.clave
  BY <1>12 DEF CredInv, LlavesDeUno, Credencial!LlaveLibre
<1>14. Credencial(en)!Existentes' = Credencial(en)!Existentes \cup {i} /\
         i \notin Credencial(en)!Existentes
  BY <1>4, <1>6, CredNada DEF Credencial!Existentes
<1>15. FilasUnicas(en)'
  <2> SUFFICES ASSUME NEW a \in Credencial(en)!Existentes', NEW b \in Credencial(en)!Existentes',
                      registro'[a].usuario = registro'[b].usuario,
                        registro'[a].clave = registro'[b].clave
               PROVE  a = b
    BY DEF FilasUnicas
  <2>1. CASE a = i /\ b = i
    BY <2>1
  <2>2. CASE a = i /\ b # i
    BY <1>6, <1>13, <1>14, <2>2 DEF Credencial!Existentes
  <2>3. CASE a # i /\ b = i
    BY <1>6, <1>13, <1>14, <2>3 DEF Credencial!Existentes
  <2>4. CASE a # i /\ b # i
    <3>1. a \in Credencial(en)!Existentes /\ b \in Credencial(en)!Existentes /\
            registro'[a] = registro[a] /\ registro'[b] = registro[b]
      BY <1>6, <1>14, <2>4 DEF Credencial!Existentes
    <3> QED BY <3>1 DEF CredInv, FilasUnicas
  <2> QED BY <2>1, <2>2, <2>3, <2>4
<1>16. LlavesDeUno(en)'
  <2>1. \A l \in llaves' : l \in llaves /\ l[1] \in en.registros /\ l[1] # i
    BY <1>3 DEF CredInv, CredTipos
  <2>2. \A l \in llaves' : registro'[l[1]] = Nada
    BY <1>6, <2>1 DEF CredInv, LlavesDeUno
  <2>3. \A l \in llaves' : Credencial(en)!LlaveLibre(l[2], l[3])'
    <3> SUFFICES ASSUME NEW l \in llaves', NEW j \in Credencial(en)!Existentes'
                 PROVE  registro'[j].usuario # l[2] \/ registro'[j].clave # l[3]
      BY DEF Credencial!LlaveLibre
    <3>1. CASE j = i
      <4>1. l # k
        BY <1>12, <2>1
      <4>2. ~(l[2] = k[2] /\ l[3] = k[3])
        BY <1>12, <2>1, <4>1 DEF CredInv, LlavesDeUno
      <4> QED BY <1>6, <1>12, <3>1, <4>2
    <3>2. CASE j # i
      <4>1. j \in Credencial(en)!Existentes /\ registro'[j] = registro[j]
        BY <1>6, <1>14, <3>2 DEF Credencial!Existentes
      <4> QED BY <2>1, <4>1 DEF CredInv, LlavesDeUno, Credencial!LlaveLibre
    <3> QED BY <3>1, <3>2
  <2>4. \A l, m \in llaves' : (l[2] = m[2] /\ l[3] = m[3]) => l = m
    BY <2>1 DEF CredInv, LlavesDeUno
  <2> QED BY <2>2, <2>3, <2>4 DEF LlavesDeUno
<1>17. Ficheros(en)'
  <2> SUFFICES ASSUME caidas = 0, NEW j \in en.registros
               PROVE  j \in archivos
                      <=> ((ConImagen(j) /\ ~PorBorrar(en, j)) \/ PorInsertar(en, j))'
    BY <1>3 DEF Ficheros
  <2>0. j \in archivos <=> ((ConImagen(j) /\ ~PorBorrar(en, j)) \/ PorInsertar(en, j))
    BY DEF CredInv, Ficheros
  <2>1. PorBorrar(en, j)' = PorBorrar(en, j)
    BY <1>1, <1>2, <1>5, LibreSana DEF PorBorrar
  <2>2. CASE j = i
    <3>1. ~PorBorrar(en, j) /\ ~ConImagen(j) /\ (PorInsertar(en, j) <=> e.imagen = TRUE)
      BY <1>1, <1>2, <1>4, <1>8, <2>2 DEF PorBorrar, ConImagen, PorInsertar
    <3>2. ConImagen(j)' <=> e.imagen = TRUE
      BY <1>4, <1>6, <2>2, CredNada DEF ConImagen
    <3>3. ~PorInsertar(en, j)'
      BY <1>5, <1>8, <2>2, LibreSana DEF PorInsertar
    <3> QED BY <2>0, <2>1, <3>1, <3>2, <3>3
  <2>3. CASE j # i
    <3>1. ConImagen(j)' = ConImagen(j)
      BY <1>6, <2>3 DEF ConImagen
    <3>2. PorInsertar(en, j)' = PorInsertar(en, j)
      BY <1>1, <1>5, <2>3, LibreSana DEF PorInsertar
    <3> QED BY <2>0, <2>1, <3>1, <3>2
  <2> QED BY <2>2, <2>3
<1> QED BY <1>5, <1>7, <1>9, <1>10, <1>15, <1>16, <1>17 DEF CredInv

\* A member removes a row of theirs: its image goes first.
LEMMA CredEmpezarABorrar ==
    ASSUME NEW en, Credencial(en)!CredentialsAssumption, CredInv(en), NEW r \in en.peticiones,
           NEW u \in en.miembros,
           Credencial(en)!delete_credential(r, u)
    PROVE  CredInv(en)'
<1>1. PICK i \in Credencial(en)!De(u) : /\ archivos' = Credencial(en)!_delete_image(i)
                                        /\ Credencial(en)!Seguir(r,
                                             [Credencial(en)!Libre EXCEPT !.pc = "borrar",
                                             !.usuario = u, !.id = i])
  BY DEF Credencial!delete_credential
<1>2. PICK q : q = [Credencial(en)!Libre EXCEPT !.pc = "borrar", !.usuario = u, !.id = i]
  OBVIOUS
<1>3. /\ UNCHANGED <<registro, llaves, lista, caidas>> /\ operaciones' = operaciones + 1
      /\ operaciones < en.operaciones /\ peticion[r].pc = "idle"
  BY DEF Credencial!delete_credential, Credencial!Empezar
<1>4. i \in en.registros /\ registro[i] # Nada /\ registro[i] \in Credencial(en)!Registro
  BY DEF Credencial!De, Credencial!Existentes, CredInv, CredTipos
<1>5. q \in Credencial(en)!Peticion /\ q.id = i /\ q.pc = "borrar"
  BY <1>2, <1>4 DEF Credencial!Libre, Credencial!Peticion
<1>6. /\ peticion' \in [en.peticiones -> Credencial(en)!Peticion] /\ peticion'[r] = q
      /\ \A s \in en.peticiones : s # r => peticion'[s] = peticion[s]
  BY <1>1, <1>2, <1>5, CredSigue DEF CredInv
<1>7. archivos' = IF registro[i].imagen = TRUE THEN archivos \ {i} ELSE archivos
  BY <1>1, <1>4 DEF Credencial!_delete_image, Credencial!Registro
<1>8. CredTipos(en)'
  BY <1>3, <1>7, CredNada DEF CredInv, CredTipos
<1>9. Sana(en, q)'
  BY <1>4, <1>5 DEF Sana, Enlaza
<1>10. ASSUME NEW s \in en.peticiones PROVE Sana(en, peticion[s])'
  <2>1. CASE s = r
    BY <1>6, <1>9, <2>1
  <2>2. CASE s # r
    <3>1. Sana(en, peticion[s])
      BY DEF CredInv
    <3> QED BY <1>3, <1>6, <2>2, <3>1 DEF Sana
  <2> QED BY <2>1, <2>2
<1>11. \A s \in en.peticiones : Enlaza(peticion[s]) => peticion[s].id # i
  BY <1>4 DEF CredInv, Sana
<1>12. Distintas(en)'
  BY <1>5, <1>6, <1>11 DEF CredInv, Distintas, Enlaza
<1>13. LlavesDeUno(en)' /\ FilasUnicas(en)'
  BY <1>3 DEF CredInv, LlavesDeUno, FilasUnicas, Credencial!Existentes, Credencial!LlaveLibre
<1>14. Ficheros(en)'
  <2> SUFFICES ASSUME caidas = 0, NEW j \in en.registros
               PROVE  j \in archivos'
                      <=> ((ConImagen(j) /\ ~PorBorrar(en, j)) \/ PorInsertar(en, j))'
    BY <1>3 DEF Ficheros
  <2>1. j \in archivos <=> ((ConImagen(j) /\ ~PorBorrar(en, j)) \/ PorInsertar(en, j))
    BY DEF CredInv, Ficheros
  <2>2. ConImagen(j)' = ConImagen(j) /\ PorInsertar(en, j)' = PorInsertar(en, j)
    BY <1>3, <1>5, <1>6 DEF ConImagen, PorInsertar
  <2>3. PorBorrar(en, j)' = (PorBorrar(en, j) \/ j = i)
    BY <1>3, <1>5, <1>6 DEF PorBorrar
  <2>4. CASE j = i
    <3>1. ~PorInsertar(en, j)
      BY <1>11, <2>4 DEF PorInsertar, Enlaza
    <3>2. j \notin archivos'
      BY <1>4, <1>7, <2>1, <2>4, <3>1 DEF ConImagen
    <3> QED BY <2>2, <2>3, <2>4, <3>1, <3>2
  <2>5. CASE j # i
    BY <1>7, <2>1, <2>2, <2>3, <2>5
  <2> QED BY <2>4, <2>5
<1> QED BY <1>6, <1>8, <1>10, <1>12, <1>13, <1>14 DEF CredInv

\* The row goes.
LEMMA CredBorrar ==
    ASSUME NEW en, Credencial(en)!CredentialsAssumption, CredInv(en), NEW r \in en.peticiones,
           Credencial(en)!Borrar(r) PROVE CredInv(en)'
<1>1. PICK p, i : p = peticion[r] /\ i = p.id
  OBVIOUS
<1>2. Sana(en, p) /\ p.pc = "borrar" /\ i \in en.registros
  BY <1>1 DEF CredInv, Credencial!Borrar, Sana
<1>3. /\ registro' = [registro EXCEPT ![i] = Nada] /\ Credencial(en)!Seguir(r, Credencial(en)!Libre)
      /\ UNCHANGED <<llaves, archivos, lista, operaciones, caidas>>
  BY <1>1 DEF Credencial!Borrar, Credencial!Terminar
<1>4. /\ peticion' \in [en.peticiones -> Credencial(en)!Peticion]
      /\ peticion'[r] = Credencial(en)!Libre
      /\ \A s \in en.peticiones : s # r => peticion'[s] = peticion[s]
  BY <1>3, LibreSana, CredSigue DEF CredInv
<1>5. /\ registro' \in [en.registros -> Credencial(en)!Registro \cup {Nada}] /\ registro'[i] = Nada
      /\ \A j \in en.registros : j # i => registro'[j] = registro[j]
  BY <1>2, <1>3 DEF CredInv, CredTipos
<1>6. CredTipos(en)'
  BY <1>3, <1>5 DEF CredInv, CredTipos
<1>7. ASSUME NEW s \in en.peticiones PROVE Sana(en, peticion[s])'
  <2>1. CASE s = r
    BY <1>4, <2>1, LibreSana
  <2>2. CASE s # r
    <3>1. PICK q : q = peticion[s]
      OBVIOUS
    <3>2. Sana(en, q)
      BY <3>1 DEF CredInv
    <3>3. Enlaza(q) => registro'[q.id] = Nada
      BY <1>5, <3>2 DEF Sana
    <3>4. q.pc \in {"imagen", "insertar"}
            => <<q.id, q.escrito.usuario, q.escrito.clave>> \in llaves'
      BY <1>3, <3>2 DEF Sana
    <3>5. Sana(en, q)'
      BY <3>2, <3>3, <3>4, SanaIgual
    <3> QED BY <1>4, <2>2, <3>1, <3>5
  <2> QED BY <2>1, <2>2
<1>8. \A s \in en.peticiones : Enlaza(peticion[s]) => peticion[s].id # Nada
  BY CredNada DEF CredInv, Sana
<1>9. Distintas(en)'
  BY <1>4, <1>8, LibreSana DEF CredInv, Distintas
<1>10. Credencial(en)!Existentes' = Credencial(en)!Existentes \ {i}
  BY <1>5 DEF Credencial!Existentes
<1>11. \A j \in Credencial(en)!Existentes' : j \in Credencial(en)!Existentes /\
         registro'[j] = registro[j]
  BY <1>5, <1>10 DEF Credencial!Existentes
<1>12. FilasUnicas(en)'
  BY <1>11 DEF CredInv, FilasUnicas
<1>13. LlavesDeUno(en)'
  <2>1. \A l \in llaves : l[1] \in en.registros
    BY DEF CredInv, CredTipos
  <2>2. \A l \in llaves' : registro'[l[1]] = Nada
    BY <1>3, <1>5, <2>1 DEF CredInv, LlavesDeUno
  <2>3. \A l \in llaves' : Credencial(en)!LlaveLibre(l[2], l[3])'
    BY <1>3, <1>11 DEF CredInv, LlavesDeUno, Credencial!LlaveLibre
  <2> QED BY <1>3, <2>2, <2>3 DEF CredInv, LlavesDeUno
<1>14. \A s \in en.peticiones : Enlaza(peticion[s]) => peticion[s].id # i
  <2> SUFFICES ASSUME NEW s \in en.peticiones, Enlaza(peticion[s]) PROVE peticion[s].id # i
    OBVIOUS
  <2>1. s # r
    BY <1>1, <1>2 DEF Enlaza
  <2> QED BY <1>1, <2>1 DEF CredInv, Distintas
<1>15. Ficheros(en)'
  <2> SUFFICES ASSUME caidas = 0, NEW j \in en.registros
               PROVE  j \in archivos
                      <=> ((ConImagen(j) /\ ~PorBorrar(en, j)) \/ PorInsertar(en, j))'
    BY <1>3 DEF Ficheros
  <2>1. j \in archivos <=> ((ConImagen(j) /\ ~PorBorrar(en, j)) \/ PorInsertar(en, j))
    BY DEF CredInv, Ficheros
  <2>2. PorInsertar(en, j)' = PorInsertar(en, j)
    BY <1>1, <1>2, <1>4, LibreSana DEF PorInsertar
  <2>3. CASE j = i
    <3>1. PorBorrar(en, j) /\ ~PorInsertar(en, j)
      BY <1>1, <1>2, <1>14, <2>3 DEF PorBorrar, PorInsertar, Enlaza
    <3>2. ~ConImagen(j)'
      BY <1>5, <2>3 DEF ConImagen
    <3> QED BY <2>1, <2>2, <3>1, <3>2
  <2>4. CASE j # i
    <3>1. ConImagen(j)' = ConImagen(j)
      BY <1>5, <2>4 DEF ConImagen
    <3>2. PorBorrar(en, j)' = PorBorrar(en, j)
      BY <1>1, <1>4, <2>4, LibreSana DEF PorBorrar
    <3> QED BY <2>1, <2>2, <3>1, <3>2
  <2> QED BY <2>3, <2>4
<1> QED BY <1>4, <1>6, <1>7, <1>9, <1>12, <1>13, <1>15 DEF CredInv

\* The staff reads a row for its review.
LEMMA CredEmpezarARevisar ==
    ASSUME NEW en, Credencial(en)!CredentialsAssumption, CredInv(en), NEW r \in en.peticiones,
           NEW u \in en.personal,
           Credencial(en)!review_credential(r, u)
    PROVE  CredInv(en)'
<1>1. PICK i \in Credencial(en)!Existentes, decision \in Credencial(en)!VALID_STATUSES :
          Credencial(en)!Seguir(r,
            [pc |-> "revisar", usuario |-> u, id |-> i, leido |-> registro[i],
                     escrito |-> [registro[i] EXCEPT !.status = decision, !.reviewed_by = u]])
  BY DEF Credencial!review_credential
<1>2. PICK e : e = [registro[i] EXCEPT !.status = decision, !.reviewed_by = u]
  OBVIOUS
<1>3. PICK q : q = [pc |-> "revisar", usuario |-> u, id |-> i, leido |-> registro[i], escrito |-> e]
  OBVIOUS
<1>4. /\ UNCHANGED <<registro, llaves, archivos, lista, caidas>> /\ operaciones' = operaciones + 1
      /\ operaciones < en.operaciones /\ peticion[r].pc = "idle"
  BY DEF Credencial!review_credential, Credencial!Empezar
<1>5. i \in en.registros /\ registro[i] # Nada /\ registro[i] \in Credencial(en)!Registro
  BY DEF Credencial!Existentes, CredInv, CredTipos
<1>6. e \in Credencial(en)!Registro
  BY <1>2, <1>5 DEF Credencial!Registro
<1>7. q \in Credencial(en)!Peticion /\ q.id = i /\ q.pc = "revisar" /\
        q.leido \in Credencial(en)!Registro /\ q.escrito \in Credencial(en)!Registro
  BY <1>3, <1>5, <1>6 DEF Credencial!Peticion
<1>8. /\ peticion' \in [en.peticiones -> Credencial(en)!Peticion] /\ peticion'[r] = q
      /\ \A s \in en.peticiones : s # r => peticion'[s] = peticion[s]
  BY <1>1, <1>2, <1>3, <1>7, CredSigue DEF CredInv
<1>9. CredTipos(en)'
  BY <1>4, CredNada DEF CredInv, CredTipos
<1>10. Sana(en, q)'
  BY <1>5, <1>7 DEF Sana, Enlaza
<1>11. ASSUME NEW s \in en.peticiones PROVE Sana(en, peticion[s])'
  <2>1. CASE s = r
    BY <1>8, <1>10, <2>1
  <2>2. CASE s # r
    <3>1. Sana(en, peticion[s])
      BY DEF CredInv
    <3> QED BY <1>4, <1>8, <2>2, <3>1 DEF Sana
  <2> QED BY <2>1, <2>2
<1>12. \A s \in en.peticiones : Enlaza(peticion[s]) => peticion[s].id # i
  BY <1>5 DEF CredInv, Sana
<1>13. Distintas(en)'
  BY <1>7, <1>8, <1>12 DEF CredInv, Distintas, Enlaza
<1>14. LlavesDeUno(en)' /\ FilasUnicas(en)'
  BY <1>4 DEF CredInv, LlavesDeUno, FilasUnicas, Credencial!Existentes, Credencial!LlaveLibre
<1>15. Ficheros(en)'
  <2>1. \A j \in en.registros : ConImagen(j)' = ConImagen(j) /\
          PorBorrar(en, j)' = PorBorrar(en, j) /\ PorInsertar(en, j)' = PorInsertar(en, j)
    BY <1>4, <1>7, <1>8 DEF ConImagen, PorBorrar, PorInsertar
  <2> QED BY <1>4, <2>1 DEF CredInv, Ficheros
<1> QED BY <1>8, <1>9, <1>11, <1>13, <1>14, <1>15 DEF CredInv

\* The review is written.
LEMMA CredRevisar ==
    ASSUME NEW en, Credencial(en)!CredentialsAssumption, CredInv(en), NEW r \in en.peticiones,
           Credencial(en)!Revisar(r) PROVE CredInv(en)'
<1>1. PICK p : p = peticion[r]
  OBVIOUS
<1>2. /\ Sana(en, p) /\ p.pc = "revisar" /\ p.id \in en.registros /\ p \in Credencial(en)!Peticion
      /\ p.leido \in Credencial(en)!Registro /\ p.escrito \in Credencial(en)!Registro
  BY <1>1 DEF CredInv, Credencial!Revisar, Sana
<1>3. /\ registro' = [i \in en.registros |->
              IF i \notin Credencial(en)!Revisado(p) THEN registro[i]
              ELSE [registro[i] EXCEPT !.status = IF p.escrito.status = p.leido.status THEN @
                ELSE p.escrito.status,
                                       !.reviewed_by =
                                         IF p.escrito.reviewed_by = p.leido.reviewed_by THEN @
                                         ELSE p.escrito.reviewed_by]]
      /\ Credencial(en)!Seguir(r, Credencial(en)!Libre)
      /\ UNCHANGED <<llaves, archivos, lista, operaciones, caidas>>
  BY <1>1 DEF Credencial!Revisar, Credencial!Terminar
<1>4. /\ peticion' \in [en.peticiones -> Credencial(en)!Peticion]
      /\ peticion'[r] = Credencial(en)!Libre
      /\ \A s \in en.peticiones : s # r => peticion'[s] = peticion[s]
  BY <1>3, LibreSana, CredSigue DEF CredInv
<1>5. ASSUME NEW i \in en.registros
      PROVE  /\ registro'[i] \in Credencial(en)!Registro \cup {Nada}
             /\ (registro'[i] = Nada <=> registro[i] = Nada)
             /\ registro[i] # Nada => /\ registro'[i].usuario = registro[i].usuario
                                      /\ registro'[i].clave = registro[i].clave
                                      /\ registro'[i].imagen = registro[i].imagen
  <2>1. CASE i \notin Credencial(en)!Revisado(p)
    BY <1>3, <2>1 DEF CredInv, CredTipos
  <2>2. CASE i \in Credencial(en)!Revisado(p)
    <3>1. PICK f, g : f = registro[i] /\ g = registro'[i]
      OBVIOUS
    <3>2. f \in Credencial(en)!Registro
      BY <2>2, <3>1 DEF Credencial!Revisado, Credencial!Existentes, CredInv, CredTipos
    <3>3. g = [f EXCEPT !.status = IF p.escrito.status = p.leido.status THEN @
            ELSE p.escrito.status,
                                !.reviewed_by = IF p.escrito.reviewed_by = p.leido.reviewed_by
                                  THEN @ ELSE p.escrito.reviewed_by]
      BY <1>3, <2>2, <3>1
    <3>4. g \in Credencial(en)!Registro /\ g.usuario = f.usuario /\ g.clave = f.clave /\
            g.imagen = f.imagen
      <4>1. PICK a, b : /\ a = (IF p.escrito.status = p.leido.status THEN f.status
                             ELSE p.escrito.status)
                        /\ b = (IF p.escrito.reviewed_by = p.leido.reviewed_by THEN f.reviewed_by
                             ELSE p.escrito.reviewed_by)
        OBVIOUS
      <4>2. g = [f EXCEPT !.status = a, !.reviewed_by = b]
        BY <3>3, <4>1
      <4>3. a \in Credencial(en)!VALID_STATUSES /\ b \in en.personal \cup {Nada}
        BY <1>2, <3>2, <4>1 DEF Credencial!Registro
      <4> QED BY <3>2, <4>2, <4>3 DEF Credencial!Registro
    <3> QED BY <3>1, <3>2, <3>4, CredNada
  <2> QED BY <2>1, <2>2
<1>6. registro' \in [en.registros -> Credencial(en)!Registro \cup {Nada}]
  BY <1>3, <1>5
<1>7. CredTipos(en)'
  BY <1>3, <1>6 DEF CredInv, CredTipos
<1>8. ASSUME NEW s \in en.peticiones PROVE Sana(en, peticion[s])'
  <2>1. CASE s = r
    BY <1>4, <2>1, LibreSana
  <2>2. CASE s # r
    <3>1. PICK q : q = peticion[s]
      OBVIOUS
    <3>2. Sana(en, q)
      BY <3>1 DEF CredInv
    <3>3. Enlaza(q) => registro'[q.id] = Nada
      BY <1>5, <3>2 DEF Sana
    <3>4. q.pc \in {"imagen", "insertar"}
            => <<q.id, q.escrito.usuario, q.escrito.clave>> \in llaves'
      BY <1>3, <3>2 DEF Sana
    <3>5. Sana(en, q)'
      BY <3>2, <3>3, <3>4, SanaIgual
    <3> QED BY <1>4, <2>2, <3>1, <3>5
  <2> QED BY <2>1, <2>2
<1>9. \A s \in en.peticiones : Enlaza(peticion[s]) => peticion[s].id # Nada
  BY CredNada DEF CredInv, Sana
<1>10. Distintas(en)'
  BY <1>4, <1>9, LibreSana DEF CredInv, Distintas
<1>11. Credencial(en)!Existentes' = Credencial(en)!Existentes
  BY <1>5 DEF Credencial!Existentes
<1>12. \A i \in Credencial(en)!Existentes : /\ registro'[i].usuario = registro[i].usuario
                                            /\ registro'[i].clave = registro[i].clave
  BY <1>5 DEF Credencial!Existentes
<1>13. FilasUnicas(en)'
  BY <1>11, <1>12 DEF CredInv, FilasUnicas
<1>14. LlavesDeUno(en)'
  <2>1. \A l \in llaves : l[1] \in en.registros
    BY DEF CredInv, CredTipos
  <2>2. \A l \in llaves' : registro'[l[1]] = Nada
    BY <1>3, <1>5, <2>1 DEF CredInv, LlavesDeUno
  <2>3. ASSUME NEW l \in llaves' PROVE Credencial(en)!LlaveLibre(l[2], l[3])'
    <3>1. Credencial(en)!LlaveLibre(l[2], l[3])
      BY <1>3 DEF CredInv, LlavesDeUno
    <3> QED BY <1>11, <1>12, <3>1 DEF Credencial!LlaveLibre
  <2> QED BY <1>3, <2>2, <2>3 DEF CredInv, LlavesDeUno
<1>15. Ficheros(en)'
  <2>1. \A j \in en.registros : ConImagen(j)' = ConImagen(j)
    BY <1>5 DEF ConImagen
  <2>2. \A j \in en.registros : PorBorrar(en, j)' = PorBorrar(en, j) /\
          PorInsertar(en, j)' = PorInsertar(en, j)
    BY <1>1, <1>2, <1>4, LibreSana DEF PorBorrar, PorInsertar
  <2> QED BY <1>3, <2>1, <2>2 DEF CredInv, Ficheros
<1> QED BY <1>4, <1>7, <1>8, <1>10, <1>13, <1>14, <1>15 DEF CredInv

\* No member has more rows than there are courses to record.
LEMMA PocasFilas ==
    ASSUME NEW en, Credencial(en)!CredentialsAssumption, CredInv(en), NEW u \in en.miembros, NEW T,
           T \subseteq Credencial(en)!De(u)
    PROVE  Cardinality(T) \in 0..Cardinality(en.claves)
<1>1. \A i \in Credencial(en)!De(u) : registro[i] \in Credencial(en)!Registro /\
        registro[i].usuario = u /\ i \in Credencial(en)!Existentes
  BY DEF Credencial!De, Credencial!Existentes, CredInv, CredTipos
<1>2. PICK f : f = [i \in T |-> registro[i].clave]
  OBVIOUS
<1>3. f \in [T -> en.claves]
  BY <1>1, <1>2 DEF Credencial!Registro
<1>4. \A i, j \in T : f[i] = f[j] => i = j
  BY <1>1, <1>2 DEF CredInv, FilasUnicas
<1>5. f \in Injection(T, en.claves)
  BY <1>3, <1>4 DEF Injection, IsInjective
<1>6. IsFiniteSet(en.claves)
  BY CredNada
<1>7. IsFiniteSet(T) /\ Cardinality(T) <= Cardinality(en.claves)
  BY <1>5, <1>6, FS_Injection DEF ExistsInjection
<1> QED BY <1>6, <1>7, FS_CardinalityType

\* The page of the staff.
LEMMA CredListar ==
    ASSUME NEW en, Credencial(en)!CredentialsAssumption, CredInv(en), NEW filtro,
           Credencial(en)!admin_list(filtro) PROVE CredInv(en)'
<1>1. /\ lista' = [u \in en.miembros |->
          Cardinality({i \in Credencial(en)!De(u) : registro[i].status = "verified" /\
            filtro \in {"", registro[i].status}})]
      /\ UNCHANGED <<registro, llaves, archivos, peticion, operaciones, caidas>>
  BY CredCuenta DEF Credencial!admin_list
<1>2. ASSUME NEW u \in en.miembros
      PROVE  Cardinality({i \in Credencial(en)!De(u) : registro[i].status = "verified" /\
             filtro \in {"", registro[i].status}})
                \in 0..Cardinality(en.claves)
  BY PocasFilas
<1>3. lista' \in [en.miembros -> 0..Cardinality(en.claves)]
  BY <1>1, <1>2
<1>4. CredTipos(en)'
  BY <1>1, <1>3 DEF CredInv, CredTipos
<1>5. \A s \in en.peticiones : Sana(en, peticion[s])'
  BY <1>1 DEF CredInv, Sana
<1>6. Distintas(en)' /\ LlavesDeUno(en)' /\ FilasUnicas(en)'
  BY <1>1 DEF CredInv, Distintas, LlavesDeUno, FilasUnicas, Credencial!Existentes,
     Credencial!LlaveLibre
<1>7. Ficheros(en)'
  BY <1>1 DEF CredInv, Ficheros, ConImagen, PorBorrar, PorInsertar
<1> QED BY <1>1, <1>4, <1>5, <1>6, <1>7 DEF CredInv

\* A request dies, with the key that it held.
LEMMA CredCaer ==
    ASSUME NEW en, Credencial(en)!CredentialsAssumption, CredInv(en), NEW r \in en.peticiones,
           Credencial(en)!Caer(r) PROVE CredInv(en)'
<1>1. PICK p, i : p = peticion[r] /\ i = p.id
  OBVIOUS
<1>2. /\ caidas < en.caidas /\ caidas' = caidas + 1 /\ llaves' = {l \in llaves : l[1] # i}
      /\ Credencial(en)!Seguir(r, Credencial(en)!Libre)
      /\ UNCHANGED <<registro, archivos, lista, operaciones>>
  BY <1>1 DEF Credencial!Caer
<1>3. /\ peticion' \in [en.peticiones -> Credencial(en)!Peticion]
      /\ peticion'[r] = Credencial(en)!Libre
      /\ \A s \in en.peticiones : s # r => peticion'[s] = peticion[s]
  BY <1>2, LibreSana, CredSigue DEF CredInv
<1>4. CredTipos(en)'
  BY <1>2, CredNada DEF CredInv, CredTipos
<1>5. ASSUME NEW s \in en.peticiones PROVE Sana(en, peticion[s])'
  <2>1. CASE s = r
    BY <1>3, <2>1, LibreSana
  <2>2. CASE s # r
    <3>1. PICK q : q = peticion[s]
      OBVIOUS
    <3>2. Sana(en, q)
      BY <3>1 DEF CredInv
    <3>3. Enlaza(q) => registro'[q.id] = Nada /\ q.id # i
      BY <1>1, <1>2, <2>2, <3>1, <3>2 DEF Sana, CredInv, Distintas
    <3>4. q.pc \in {"imagen", "insertar"}
            => <<q.id, q.escrito.usuario, q.escrito.clave>> \in llaves'
      BY <1>2, <3>2, <3>3 DEF Sana, Enlaza
    <3>5. Sana(en, q)'
      BY <3>2, <3>3, <3>4, SanaIgual
    <3> QED BY <1>3, <2>2, <3>1, <3>5
  <2> QED BY <2>1, <2>2
<1>6. \A s \in en.peticiones : Enlaza(peticion[s]) => peticion[s].id # Nada
  BY CredNada DEF CredInv, Sana
<1>7. Distintas(en)'
  BY <1>3, <1>6, LibreSana DEF CredInv, Distintas
<1>8. FilasUnicas(en)'
  BY <1>2 DEF CredInv, FilasUnicas, Credencial!Existentes
<1>9. LlavesDeUno(en)'
  BY <1>2 DEF CredInv, LlavesDeUno, Credencial!LlaveLibre, Credencial!Existentes
<1>10. Ficheros(en)'
  BY <1>2 DEF CredInv, CredTipos, Ficheros
<1> QED BY <1>3, <1>4, <1>5, <1>7, <1>8, <1>9, <1>10 DEF CredInv

\* Every step keeps what holds of the credentials.
LEMMA CredStep ==
    ASSUME NEW en, Credencial(en)!CredentialsAssumption, CredInv(en), Credencial(en)!Next
    PROVE  CredInv(en)'
BY CredRegistrar, CredInsertar, CredImagen, CredConfirmar, CredEmpezarABorrar, CredBorrar,
   CredEmpezarARevisar, CredRevisar, CredListar, CredCaer DEF Credencial!Next

\* The types of PriorCredentials.
LEMMA CredTypeOK ==
    ASSUME NEW en, Credencial(en)!CredentialsAssumption, CredInv(en)
    PROVE  Credencial(en)!TypeOK
<1>1. operaciones <= en.operaciones /\ caidas <= en.caidas
  BY CredNada DEF CredInv, CredTipos
<1>2. \A l \in llaves : l \in en.registros \X en.miembros \X en.claves /\ registro[l[1]] = Nada
  BY DEF CredInv, CredTipos, LlavesDeUno
<1> QED BY <1>1, <1>2, CredCuenta DEF CredInv, CredTipos, FilasUnicas, Credencial!TypeOK

\* The files are the images of the rows.
LEMMA CredFiles ==
    ASSUME NEW en, Credencial(en)!CredentialsAssumption, CredInv(en)
    PROVE  Credencial(en)!FilesAreOfRows
<1> SUFFICES ASSUME Credencial(en)!EnReposo, caidas = 0
             PROVE  archivos = {i \in Credencial(en)!Existentes : registro[i].imagen}
  BY DEF Credencial!FilesAreOfRows
<1>1. \A i \in en.registros : i \in archivos <=> ConImagen(i)
  BY DEF CredInv, Ficheros, Credencial!EnReposo, PorBorrar, PorInsertar
<1>2. \A i \in Credencial(en)!Existentes : i \in en.registros /\ registro[i] # Nada /\
        registro[i].imagen \in BOOLEAN
  BY DEF CredInv, CredTipos, Credencial!Existentes, Credencial!Registro
<1>3. ASSUME NEW i \in archivos PROVE i \in Credencial(en)!Existentes /\ registro[i].imagen
  BY <1>1, <1>2 DEF CredInv, CredTipos, ConImagen, Credencial!Existentes
<1>4. ASSUME NEW i \in Credencial(en)!Existentes, registro[i].imagen PROVE i \in archivos
  BY <1>1, <1>2, <1>4 DEF ConImagen
<1> QED BY <1>3, <1>4

\* A step writes a row that is there only by a review of it.
LEMMA CredReviewed ==
    ASSUME NEW en, Credencial(en)!CredentialsAssumption, CredInv(en),
           [Credencial(en)!Next]_(Credencial(en)!vars)
    PROVE  Credencial(en)!ReviewedAsRead
<1> SUFFICES ASSUME NEW i \in en.registros, registro[i] # Nada, registro'[i] # Nada,
      registro'[i] # registro[i]
             PROVE  \E r \in en.peticiones : peticion[r].pc = "revisar" /\ peticion[r].id = i
  BY DEF Credencial!ReviewedAsRead
<1>1. registro' # registro
  OBVIOUS
<1>2. ASSUME NEW r \in en.peticiones, Credencial(en)!Confirmar(r) PROVE FALSE
  <2>1. PICK p : p = peticion[r]
    OBVIOUS
  <2>2. Sana(en, p) /\ p.pc = "insertar" /\ registro' = [registro EXCEPT ![p.id] = p.escrito]
    BY <1>2, <2>1 DEF CredInv, Credencial!Confirmar
  <2>3. registro[p.id] = Nada /\ p.id \in en.registros
    BY <2>2 DEF Sana, Enlaza
  <2> QED BY <2>2, <2>3 DEF CredInv, CredTipos
<1>3. ASSUME NEW r \in en.peticiones, Credencial(en)!Borrar(r) PROVE FALSE
  <2>1. PICK p : p = peticion[r]
    OBVIOUS
  <2>2. registro' = [registro EXCEPT ![p.id] = Nada]
    BY <1>3, <2>1 DEF Credencial!Borrar
  <2> QED BY <2>2 DEF CredInv, CredTipos
<1>4. ASSUME NEW r \in en.peticiones, Credencial(en)!Revisar(r)
      PROVE peticion[r].pc = "revisar" /\ peticion[r].id = i
  BY <1>4 DEF Credencial!Revisar, Credencial!Revisado, CredInv, CredTipos
<1>5. \E r \in en.peticiones : Credencial(en)!Confirmar(r) \/ Credencial(en)!Borrar(r) \/
        Credencial(en)!Revisar(r)
  <2>1. Credencial(en)!Next
    BY <1>1 DEF Credencial!vars
  <2> QED BY <1>1, <2>1 DEF Credencial!Next, Credencial!my_credentials,
         Credencial!delete_credential, Credencial!review_credential, Credencial!Insertar,
                  Credencial!_store_image, Credencial!Caer, Credencial!admin_list
<1> QED BY <1>2, <1>3, <1>4, <1>5

----------------------------------------
(* The events of the calendar (Calendar) *)

\* What is known of a request: of whom it is from its start on, and that what it makes is
\* among what it read.
EnOrdenPeticion(en, q) ==
    /\ q.pc # "idle" => q.usuario \in en.usuarios /\ q.por \in 1..en.operaciones
    /\ q.pc \in {"registrar", "leer"} => q.leidas = {}
    /\ q.nuevas \subseteq q.leidas /\ q.pendientes \subseteq q.leidas
    /\ q.nuevas \cap q.pendientes = {}
    /\ IsFiniteSet(q.leidas)

AgendaTipos(en) ==
    /\ fecha \in [Calendario(en)!Fuentes -> Calendario(en)!Dias \cup {Nada, Borrada}]
    /\ inscritos \subseteq en.usuarios
    /\ eventos \subseteq Calendario(en)!Evento /\ IsFiniteSet(eventos)
    /\ zona \in en.zonas /\ hoy \in Calendario(en)!Dias /\ hilos \subseteq Calendario(en)!Fuentes
    /\ respuesta \in [tipo: {"ninguna", "panel", "ics", "error"}, usuario: en.usuarios \cup {Nada},
         eventos: SUBSET Calendario(en)!Evento]
    /\ peticion \in [en.peticiones -> Calendario(en)!Peticion] /\ operaciones \in 0..en.operaciones

\* All of it; an event is of a source that was not removed.
AgendaInv(en) ==
    /\ AgendaTipos(en)
    /\ \A e \in eventos : fecha[e.fuente] # Borrada
    /\ \A p \in en.peticiones : EnOrdenPeticion(en, peticion[p])

\* Sets are counted as in this module.
LEMMA AgendaCuenta ==
    ASSUME NEW en
    PROVE  /\ \A S : Calendario(en)!Cardinality(S) = Cardinality(S)
           /\ \A S : Calendario(en)!IsFiniteSet(S) <=> IsFiniteSet(S)
BY DEF Calendario!Cardinality, Cardinality, Calendario!IsFiniteSet, IsFiniteSet

\* The types of the constants.
LEMMA AgendaNumeros ==
    ASSUME NEW en, Calendario(en)!CalendarAssumption
    PROVE  /\ en.dias \in Nat \ {0} /\ en.operaciones \in Nat /\ en.limite \in Nat \ {0}
           /\ "UTC" \in en.zonas /\ Nada # Borrada /\ Nada \notin Int /\ Borrada \notin Int
           /\ Nada \notin en.usuarios /\ Nada \notin Calendario(en)!Fuentes
           /\ IsFiniteSet(Calendario(en)!Fuentes)
           /\ 1 \in Calendario(en)!Dias /\ 0 \in Calendario(en)!Dias
<1>1. IsFiniteSet(Calendario(en)!Fuentes)
  BY FS_Union, AgendaCuenta DEF Calendario!CalendarAssumption, Calendario!Fuentes
<1> QED BY <1>1 DEF Calendario!CalendarAssumption, Calendario!Dias

\* A request that has not begun.
LEMMA LibreEs ==
    ASSUME NEW en, Calendario(en)!CalendarAssumption
    PROVE  Calendario(en)!Libre \in Calendario(en)!Peticion /\
           EnOrdenPeticion(en, Calendario(en)!Libre) /\ Calendario(en)!Libre.leidas = {} /\
           Calendario(en)!Libre.nuevas = {}
           /\ Calendario(en)!Libre.pendientes = {} /\ Calendario(en)!Libre.pc = "idle"
BY AgendaNumeros, FS_EmptySet DEF Calendario!Libre, Calendario!Peticion, EnOrdenPeticion

\* At the start no member has a calendar.
LEMMA AgendaInit ==
    ASSUME NEW en, Calendario(en)!CalendarAssumption, Calendario(en)!Init
    PROVE  AgendaInv(en)
<1>1. respuesta \in [tipo: {"ninguna", "panel", "ics", "error"}, usuario: en.usuarios \cup {Nada},
        eventos: SUBSET Calendario(en)!Evento]
  BY DEF Calendario!Init, Calendario!SinRespuesta
<1>2. AgendaTipos(en)
  BY <1>1, AgendaNumeros, LibreEs, FS_EmptySet DEF Calendario!Init, AgendaTipos
<1>3. \A p \in en.peticiones : EnOrdenPeticion(en, peticion[p])
  BY LibreEs DEF Calendario!Init
<1> QED BY <1>2, <1>3 DEF AgendaInv, Calendario!Init

\* A request becomes q and the others stay.
LEMMA AgendaSigue ==
    ASSUME NEW en, Calendario(en)!CalendarAssumption, AgendaInv(en), NEW p \in en.peticiones,
           NEW q \in Calendario(en)!Peticion,
           EnOrdenPeticion(en, q), peticion' = [peticion EXCEPT ![p] = q]
    PROVE  /\ peticion' \in [en.peticiones -> Calendario(en)!Peticion] /\ peticion'[p] = q
           /\ \A s \in en.peticiones : s # p => peticion'[s] = peticion[s]
           /\ \A s \in en.peticiones : EnOrdenPeticion(en, peticion'[s])
BY DEF AgendaInv, AgendaTipos

----------------------------------------

\* A request that has just been asked for: it has read nothing.
Pedida(en, p, u) ==
    \E via \in {"sitio", "pago"}, q \in Calendario(en)!Peticion :
       /\ q = [Calendario(en)!Libre EXCEPT !.pc = "registrar", !.usuario = u,
                                           !.por = operaciones + 1, !.zona = zona, !.via = via]
       /\ q.pc = "registrar" /\ q.leidas = {} /\ q.via = via /\ q.nuevas = {} /\ q.pendientes = {}
       /\ EnOrdenPeticion(en, q) /\ peticion' = [peticion EXCEPT ![p] = q]

\* The request that enrolls a member.
LEMMA InscribirEs ==
    ASSUME NEW en, Calendario(en)!CalendarAssumption, AgendaInv(en), NEW p \in en.peticiones,
           NEW u \in en.usuarios, Calendario(en)!Inscribir(p, u)
    PROVE  /\ UNCHANGED <<fecha, inscritos, eventos, zona, hoy, hilos, respuesta>>
           /\ operaciones' \in 0..en.operaciones
           /\ Pedida(en, p, u)
<1>1. UNCHANGED <<fecha, inscritos, eventos, zona, hoy, hilos, respuesta>>
  BY DEF Calendario!Inscribir
<1>2. PICK via \in {"sitio", "pago"} :
          /\ Calendario(en)!Contar(IF via = "sitio" THEN "inscribir" ELSE "pagar")
          /\ peticion' = [peticion EXCEPT ![p] = [Calendario(en)!Libre EXCEPT
                !.pc = "registrar", !.usuario = u, !.por = operaciones + 1, !.zona = zona,
                  !.via = via]]
  BY DEF Calendario!Inscribir
<1>3. PICK q :
        q = [Calendario(en)!Libre EXCEPT !.pc = "registrar", !.usuario = u, !.por = operaciones + 1,
        !.zona = zona, !.via = via]
  OBVIOUS
<1>4. /\ operaciones < en.operaciones /\ operaciones' = operaciones + 1 /\ operaciones \in Nat
      /\ operaciones + 1 \in 1..en.operaciones /\ zona \in en.zonas /\ en.operaciones \in Nat
  BY <1>2, AgendaNumeros DEF Calendario!Contar, AgendaInv, AgendaTipos
<1>5. /\ q.pc = "registrar" /\ q.leidas = {} /\ q.via = via /\ q.nuevas = {} /\ q.pendientes = {}
      /\ q.usuario = u /\ q.por = operaciones + 1
  BY <1>3 DEF Calendario!Libre
<1>6. q \in Calendario(en)!Peticion
  <2>1. operaciones + 1 \in 0..en.operaciones
    BY <1>4
  <2> QED BY <1>3, <1>4, <2>1 DEF Calendario!Libre, Calendario!Peticion
<1>7. EnOrdenPeticion(en, q)
  BY <1>4, <1>5, FS_EmptySet DEF EnOrdenPeticion
<1>8. operaciones' \in 0..en.operaciones
  BY <1>4
<1>9. peticion' = [peticion EXCEPT ![p] = q]
  BY <1>2, <1>3
<1> QED BY <1>1, <1>3, <1>5, <1>6, <1>7, <1>8, <1>9 DEF Pedida

\* A member asks to be enrolled.
LEMMA AgendaInscribir ==
    ASSUME NEW en, Calendario(en)!CalendarAssumption, AgendaInv(en), NEW p \in en.peticiones,
           NEW u \in en.usuarios, Calendario(en)!Inscribir(p, u)
    PROVE  AgendaInv(en)'
<1>0. Pedida(en, p, u)
  BY InscribirEs
<1>1. PICK via \in {"sitio", "pago"}, q \in Calendario(en)!Peticion :
          EnOrdenPeticion(en, q) /\ peticion' = [peticion EXCEPT ![p] = q]
  BY <1>0 DEF Pedida
<1>2. /\ UNCHANGED <<fecha, inscritos, eventos, zona, hoy, hilos, respuesta>>
      /\ operaciones' \in 0..en.operaciones
  BY InscribirEs
<1>3. peticion' \in [en.peticiones -> Calendario(en)!Peticion] /\
        \A s \in en.peticiones : EnOrdenPeticion(en, peticion'[s])
  BY <1>1, AgendaSigue
<1> QED BY <1>2, <1>3 DEF AgendaInv, AgendaTipos, EnOrdenPeticion

\* The enrollment is committed.
LEMMA AgendaRegistrar ==
    ASSUME NEW en, Calendario(en)!CalendarAssumption, AgendaInv(en), NEW p \in en.peticiones,
           Calendario(en)!Registrar(p) PROVE AgendaInv(en)'
<1>1. PICK r : r = peticion[p]
  OBVIOUS
<1>2. r \in Calendario(en)!Peticion /\ EnOrdenPeticion(en, r) /\ r.pc = "registrar"
  BY <1>1 DEF AgendaInv, AgendaTipos, Calendario!Registrar
<1>3. PICK q : q = [r EXCEPT !.pc = IF r.via = "sitio" THEN "leer" ELSE "hecho"]
  OBVIOUS
<1>4. q \in Calendario(en)!Peticion /\ EnOrdenPeticion(en, q)
  BY <1>2, <1>3 DEF Calendario!Peticion, EnOrdenPeticion
<1>5. peticion' = [peticion EXCEPT ![p] = q]
  BY <1>1, <1>3 DEF Calendario!Registrar, AgendaInv, AgendaTipos
<1>6. peticion' \in [en.peticiones -> Calendario(en)!Peticion] /\
        \A s \in en.peticiones : EnOrdenPeticion(en, peticion'[s])
  BY <1>4, <1>5, AgendaSigue
<1>7. inscritos' \subseteq en.usuarios
  BY <1>1, <1>2 DEF Calendario!Registrar, AgendaInv, AgendaTipos, EnOrdenPeticion
<1>8. UNCHANGED <<fecha, eventos, zona, hoy, hilos, respuesta, operaciones>>
  BY DEF Calendario!Registrar
<1> QED BY <1>6, <1>7, <1>8 DEF AgendaInv, AgendaTipos, EnOrdenPeticion

\* A source has one date, and there are finitely many.
LEMMA ConFechaEs ==
    ASSUME NEW en, Calendario(en)!CalendarAssumption, AgendaInv(en)
    PROVE  /\ Calendario(en)!FuentesConFecha \subseteq Calendario(en)!Fuentes \X Calendario(en)!Dias
           /\ IsFiniteSet(Calendario(en)!FuentesConFecha)
           /\ \A x, y \in Calendario(en)!FuentesConFecha : x[1] = y[1] => x = y
           /\ \A x \in Calendario(en)!FuentesConFecha : fecha[x[1]] # Borrada
<1>1. Calendario(en)!FuentesConFecha \subseteq Calendario(en)!Fuentes \X Calendario(en)!Dias
  BY DEF Calendario!FuentesConFecha
<1>2. IsFiniteSet(Calendario(en)!FuentesConFecha)
  <2>1. en.dias \in Int /\ 0 \in Int /\ IsFiniteSet(Calendario(en)!Fuentes)
    BY AgendaNumeros
  <2>2. IsFiniteSet(Calendario(en)!Dias)
    BY <2>1, FS_Interval DEF Calendario!Dias
  <2>3. IsFiniteSet(Calendario(en)!Fuentes \X Calendario(en)!Dias)
    BY <2>1, <2>2, FS_Product
  <2> QED BY <1>1, <2>3, FS_Subset
<1>3. \A x, y \in Calendario(en)!FuentesConFecha : x[1] = y[1] => x = y
  BY DEF Calendario!FuentesConFecha
<1>4. \A x \in Calendario(en)!FuentesConFecha : fecha[x[1]] # Borrada
  <2>1. Borrada \notin Calendario(en)!Dias
    BY AgendaNumeros DEF Calendario!Dias
  <2> QED BY <2>1 DEF Calendario!FuentesConFecha
<1> QED BY <1>1, <1>2, <1>3, <1>4

\* What a request becomes when it reads the dates.
LEMMA LeerEs ==
    ASSUME NEW en, Calendario(en)!CalendarAssumption, AgendaInv(en), NEW p \in en.peticiones,
           Calendario(en)!Leer(p)
    PROVE  /\ UNCHANGED <<fecha, inscritos, eventos, zona, hoy, hilos, respuesta, operaciones>>
           /\ \E q \in Calendario(en)!Peticion :
                 /\ q.pc = "comprobar" /\ q.leidas = Calendario(en)!FuentesConFecha
                 /\ q.pendientes = Calendario(en)!FuentesConFecha
                 /\ q.via = peticion[p].via /\ q.usuario = peticion[p].usuario
                 /\ q.nuevas = peticion[p].nuevas /\ q.por = peticion[p].por
                 /\ q.zona = peticion[p].zona
                 /\ peticion' = [peticion EXCEPT ![p] = q]
<1>1. PICK r : r = peticion[p]
  OBVIOUS
<1>2. r \in Calendario(en)!Peticion
  BY <1>1 DEF AgendaInv, AgendaTipos
<1>3. PICK q :
        q = [r EXCEPT !.pc = "comprobar", !.leidas = Calendario(en)!FuentesConFecha,
        !.pendientes = Calendario(en)!FuentesConFecha]
  OBVIOUS
<1>4. /\ q \in Calendario(en)!Peticion /\ q.pc = "comprobar"
      /\ q.leidas = Calendario(en)!FuentesConFecha
      /\ q.pendientes = Calendario(en)!FuentesConFecha /\ q.via = r.via /\ q.usuario = r.usuario
      /\ q.nuevas = r.nuevas /\ q.por = r.por /\ q.zona = r.zona
  BY <1>2, <1>3, ConFechaEs DEF Calendario!Peticion
<1>5. peticion' = [peticion EXCEPT ![p] = q]
  BY <1>1, <1>3 DEF Calendario!Leer, AgendaInv, AgendaTipos
<1>6. UNCHANGED <<fecha, inscritos, eventos, zona, hoy, hilos, respuesta, operaciones>>
  BY DEF Calendario!Leer
<1> QED BY <1>1, <1>4, <1>5, <1>6

\* The dates are read.
LEMMA AgendaLeer ==
    ASSUME NEW en, Calendario(en)!CalendarAssumption, AgendaInv(en), NEW p \in en.peticiones,
           Calendario(en)!Leer(p) PROVE AgendaInv(en)'
<1>1. PICK q \in Calendario(en)!Peticion :
                 /\ q.pc = "comprobar" /\ q.leidas = Calendario(en)!FuentesConFecha
                 /\ q.pendientes = Calendario(en)!FuentesConFecha
                 /\ q.usuario = peticion[p].usuario /\ q.nuevas = peticion[p].nuevas
                 /\ q.por = peticion[p].por
                 /\ peticion' = [peticion EXCEPT ![p] = q]
  BY LeerEs
<1>2. EnOrdenPeticion(en, peticion[p]) /\ peticion[p].pc = "leer"
  BY DEF AgendaInv, Calendario!Leer
<1>3. EnOrdenPeticion(en, q)
  BY <1>1, <1>2, ConFechaEs DEF EnOrdenPeticion
<1>4. peticion' \in [en.peticiones -> Calendario(en)!Peticion] /\
        \A s \in en.peticiones : EnOrdenPeticion(en, peticion'[s])
  BY <1>1, <1>3, AgendaSigue
<1>5. UNCHANGED <<fecha, inscritos, eventos, zona, hoy, hilos, respuesta, operaciones>>
  BY LeerEs
<1> QED BY <1>4, <1>5 DEF AgendaInv, AgendaTipos, EnOrdenPeticion

\* r becomes q with what was found of x.
Comprobada(r, q, x, hay) ==
    /\ q.pc = (IF hay = "error" THEN "error" ELSE r.pc)
    /\ q.nuevas = (IF hay = "crear" THEN r.nuevas \cup {x} ELSE IF hay = "error" THEN {}
         ELSE r.nuevas)
    /\ q.pendientes = (IF hay = "error" THEN {} ELSE r.pendientes \ {x})
    /\ q.leidas = r.leidas /\ q.usuario = r.usuario /\ q.por = r.por /\ q.via = r.via
    /\ q.zona = r.zona

\* What a request becomes when it looks for the event of one of the dates.
LEMMA ComprobarEs ==
    ASSUME NEW en, Calendario(en)!CalendarAssumption, AgendaInv(en), NEW p \in en.peticiones,
           Calendario(en)!Comprobar(p)
    PROVE  /\ UNCHANGED <<fecha, inscritos, eventos, zona, hoy, hilos, respuesta, operaciones>>
           /\ \E x \in peticion[p].pendientes, q \in Calendario(en)!Peticion :
                 /\ Comprobada(peticion[p], q, x,
                      Calendario(en)!Existente(peticion[p].usuario, x[1]))
                 /\ EnOrdenPeticion(en, q) /\ peticion' = [peticion EXCEPT ![p] = q]
<1>1. PICK r : r = peticion[p]
  OBVIOUS
<1>2. r \in Calendario(en)!Peticion /\ EnOrdenPeticion(en, r) /\ r.pc = "comprobar"
  BY <1>1 DEF AgendaInv, AgendaTipos, Calendario!Comprobar
<1>3. PICK x \in r.pendientes :
          LET hay == Calendario(en)!Existente(r.usuario, x[1])
          IN  peticion' = [peticion EXCEPT
                 ![p].pc = IF hay = "error" THEN "error" ELSE @,
                 ![p].nuevas = IF hay = "crear" THEN @ \cup {x} ELSE IF hay = "error" THEN {}
                   ELSE @,
                 ![p].pendientes = IF hay = "error" THEN {} ELSE @ \ {x}]
  BY <1>1 DEF Calendario!Comprobar
<1>4. PICK hay : hay = Calendario(en)!Existente(r.usuario, x[1])
  OBVIOUS
<1>5. PICK a, b, c : /\ a = (IF hay = "error" THEN "error" ELSE r.pc)
                     /\ b = (IF hay = "crear" THEN r.nuevas \cup {x} ELSE IF hay = "error" THEN {}
                          ELSE r.nuevas)
                     /\ c = (IF hay = "error" THEN {} ELSE r.pendientes \ {x})
  OBVIOUS
<1>6. PICK q : q = [r EXCEPT !.pc = a, !.nuevas = b, !.pendientes = c]
  OBVIOUS
<1>7. /\ r.nuevas \in SUBSET (Calendario(en)!Fuentes \X Calendario(en)!Dias)
      /\ r.pendientes \in SUBSET (Calendario(en)!Fuentes \X Calendario(en)!Dias)
      /\ x \in Calendario(en)!Fuentes \X Calendario(en)!Dias /\ x \in r.leidas
  BY <1>2 DEF Calendario!Peticion, EnOrdenPeticion
<1>8. b \in SUBSET (Calendario(en)!Fuentes \X Calendario(en)!Dias) /\
        c \in SUBSET (Calendario(en)!Fuentes \X Calendario(en)!Dias) /\ a \in {"comprobar", "error"}
  BY <1>2, <1>5, <1>7
<1>9. q \in Calendario(en)!Peticion /\ q.pc = a /\ q.nuevas = b /\ q.pendientes = c /\
        q.leidas = r.leidas
      /\ q.usuario = r.usuario /\ q.por = r.por /\ q.via = r.via /\ q.zona = r.zona
  BY <1>2, <1>6, <1>8 DEF Calendario!Peticion
<1>10. peticion' = [peticion EXCEPT ![p] = q]
  <2>1. peticion' = [peticion EXCEPT ![p] =
                      [[[peticion[p] EXCEPT !.pc = a] EXCEPT !.nuevas = b] EXCEPT !.pendientes = c]]
    BY <1>1, <1>2, <1>3, <1>4, <1>5 DEF AgendaInv, AgendaTipos, Calendario!Peticion
  <2> QED BY <1>1, <1>6, <2>1
<1>11. Comprobada(r, q, x, hay)
  BY <1>5, <1>9 DEF Comprobada
<1>12. EnOrdenPeticion(en, q)
  BY <1>2, <1>5, <1>7, <1>8, <1>9 DEF EnOrdenPeticion
<1>13. UNCHANGED <<fecha, inscritos, eventos, zona, hoy, hilos, respuesta, operaciones>>
  BY DEF Calendario!Comprobar
<1> QED BY <1>1, <1>4, <1>9, <1>10, <1>11, <1>12, <1>13

\* An event is looked for.
LEMMA AgendaComprobar ==
    ASSUME NEW en, Calendario(en)!CalendarAssumption, AgendaInv(en), NEW p \in en.peticiones,
           Calendario(en)!Comprobar(p) PROVE AgendaInv(en)'
<1>1. PICK q \in Calendario(en)!Peticion : EnOrdenPeticion(en, q) /\
        peticion' = [peticion EXCEPT ![p] = q]
  BY ComprobarEs
<1>2. UNCHANGED <<fecha, inscritos, eventos, zona, hoy, hilos, respuesta, operaciones>>
  BY ComprobarEs
<1>3. peticion' \in [en.peticiones -> Calendario(en)!Peticion] /\
        \A s \in en.peticiones : EnOrdenPeticion(en, peticion'[s])
  BY <1>1, AgendaSigue
<1> QED BY <1>2, <1>3 DEF AgendaInv, AgendaTipos, EnOrdenPeticion

Cabe(p) == \A x \in peticion[p].nuevas : fecha[x[1]] # Borrada

\* What the commit leaves of a request.
LEMMA ConfirmarEs ==
    ASSUME NEW en, Calendario(en)!CalendarAssumption, AgendaInv(en), NEW p \in en.peticiones,
           Calendario(en)!Confirmar(p)
    PROVE  /\ UNCHANGED <<fecha, inscritos, zona, hoy, hilos, respuesta, operaciones>>
           /\ peticion[p].pc = "comprobar" /\ peticion[p].pendientes = {}
           /\ eventos' = IF Cabe(p) THEN eventos \cup Calendario(en)!Nuevos(p) ELSE eventos
           /\ \E q \in Calendario(en)!Peticion :
                 /\ q.pc = (IF Cabe(p) THEN "hecho" ELSE "error")
                 /\ q.leidas = peticion[p].leidas /\ q.usuario = peticion[p].usuario
                 /\ EnOrdenPeticion(en, q) /\ peticion' = [peticion EXCEPT ![p] = q]
<1>1. PICK r : r = peticion[p]
  OBVIOUS
<1>2. r \in Calendario(en)!Peticion /\ EnOrdenPeticion(en, r) /\ r.pc = "comprobar"
  BY <1>1 DEF AgendaInv, AgendaTipos, Calendario!Confirmar
<1>3. /\ UNCHANGED <<fecha, inscritos, zona, hoy, hilos, respuesta, operaciones>>
      /\ peticion[p].pc = "comprobar" /\ peticion[p].pendientes = {}
      /\ eventos' = IF Cabe(p) THEN eventos \cup Calendario(en)!Nuevos(p) ELSE eventos
      /\ peticion' = [peticion EXCEPT ![p].pc = IF Cabe(p) THEN "hecho" ELSE "error"]
  BY DEF Calendario!Confirmar, Cabe
<1>4. PICK q : q = [r EXCEPT !.pc = IF Cabe(p) THEN "hecho" ELSE "error"]
  OBVIOUS
<1>5. /\ q \in Calendario(en)!Peticion /\ q.pc = (IF Cabe(p) THEN "hecho" ELSE "error") /\
           q.leidas = r.leidas
      /\ q.usuario = r.usuario /\ q.por = r.por /\ q.nuevas = r.nuevas
      /\ q.pendientes = r.pendientes
  BY <1>2, <1>4 DEF Calendario!Peticion
<1>6. EnOrdenPeticion(en, q)
  BY <1>2, <1>5 DEF EnOrdenPeticion
<1>7. peticion' = [peticion EXCEPT ![p] = q]
  BY <1>1, <1>3, <1>4 DEF AgendaInv, AgendaTipos
<1> QED BY <1>1, <1>3, <1>5, <1>6, <1>7

\* The events of a request are of its member and of what it read.
LEMMA NuevosEs ==
    ASSUME NEW en, Calendario(en)!CalendarAssumption, AgendaInv(en), NEW p \in en.peticiones,
           peticion[p].pc = "comprobar"
    PROVE  /\ Calendario(en)!Nuevos(p) \subseteq Calendario(en)!Evento
           /\ IsFiniteSet(Calendario(en)!Nuevos(p))
           /\ \A e \in Calendario(en)!Nuevos(p) : /\ e.usuario = peticion[p].usuario
                                                  /\ \E x \in peticion[p].nuevas : e.fuente = x[1]
           /\ \A x \in peticion[p].nuevas : \E e \in Calendario(en)!Nuevos(p) : e.fuente = x[1]
           /\ (\A x, y \in peticion[p].leidas : x[1] = y[1] => x = y) =>
                 \A e, f \in Calendario(en)!Nuevos(p) : e.fuente = f.fuente => e = f
<1>1. PICK r : r = peticion[p]
  OBVIOUS
<1>2. r \in Calendario(en)!Peticion /\ EnOrdenPeticion(en, r) /\ r.usuario \in en.usuarios /\
        r.por \in 1..en.operaciones
  BY <1>1 DEF AgendaInv, AgendaTipos, EnOrdenPeticion
<1>3. PICK u, k, z, X : u = r.usuario /\ k = r.por /\ z = r.zona /\ X = r.nuevas
  OBVIOUS
<1>4. /\ u \in en.usuarios /\ k \in 1..en.operaciones /\ z \in en.zonas
      /\ X \subseteq Calendario(en)!Fuentes \X Calendario(en)!Dias
      /\ X \subseteq r.leidas /\ IsFiniteSet(r.leidas)
  BY <1>2, <1>3 DEF Calendario!Peticion, EnOrdenPeticion
<1>5. PICK f :
        f = [x \in X |-> [por |-> k, usuario |-> u, fuente |-> x[1], inicio |-> x[2], zona |-> z]]
  OBVIOUS
<1>6. Calendario(en)!Nuevos(p) = {f[x] : x \in X}
  BY <1>1, <1>3, <1>5 DEF Calendario!Nuevos
<1>7. ASSUME NEW x \in X
      PROVE  f[x] \in Calendario(en)!Evento /\ f[x].usuario = u /\ f[x].fuente = x[1]
  <2>1. x[1] \in Calendario(en)!Fuentes /\ x[2] \in Calendario(en)!Dias
    BY <1>4
  <2> QED BY <1>4, <1>5, <2>1 DEF Calendario!Evento
<1>8. Calendario(en)!Nuevos(p) \subseteq Calendario(en)!Evento
  BY <1>6, <1>7
<1>9. IsFiniteSet(Calendario(en)!Nuevos(p))
  <2>1. IsFiniteSet(X)
    BY <1>4, FS_Subset
  <2>2. f \in Surjection(X, {f[x] : x \in X})
    BY <1>5 DEF Surjection
  <2>3. IsFiniteSet({f[x] : x \in X})
    BY <2>1, <2>2, FS_Surjection
  <2> QED BY <1>6, <2>3
<1>10. \A e \in Calendario(en)!Nuevos(p) : e.usuario = u /\ \E x \in X : e.fuente = x[1]
  BY <1>6, <1>7
<1>11. \A x \in X : \E e \in Calendario(en)!Nuevos(p) : e.fuente = x[1]
  BY <1>6, <1>7
<1>12. ASSUME \A x, y \in r.leidas : x[1] = y[1] => x = y, NEW e \in Calendario(en)!Nuevos(p),
              NEW g \in Calendario(en)!Nuevos(p),
              e.fuente = g.fuente
       PROVE  e = g
  <2>1. PICK x \in X, y \in X : e = f[x] /\ g = f[y]
    BY <1>6
  <2>2. x[1] = y[1]
    BY <1>7, <1>12, <2>1
  <2>3. x = y
    BY <1>4, <1>12, <2>2
  <2> QED BY <2>1, <2>3
<1> QED BY <1>1, <1>3, <1>8, <1>9, <1>10, <1>11, <1>12

\* The events are committed, or the request fails.
LEMMA AgendaConfirmar ==
    ASSUME NEW en, Calendario(en)!CalendarAssumption, AgendaInv(en), NEW p \in en.peticiones,
           Calendario(en)!Confirmar(p) PROVE AgendaInv(en)'
<1>1. PICK q \in Calendario(en)!Peticion : EnOrdenPeticion(en, q) /\
        peticion' = [peticion EXCEPT ![p] = q]
  BY ConfirmarEs
<1>2. /\ UNCHANGED <<fecha, inscritos, zona, hoy, hilos, respuesta, operaciones>>
      /\ peticion[p].pc = "comprobar" /\ eventos' = IF Cabe(p)
           THEN eventos \cup Calendario(en)!Nuevos(p) ELSE eventos
  BY ConfirmarEs
<1>3. peticion' \in [en.peticiones -> Calendario(en)!Peticion] /\
        \A s \in en.peticiones : EnOrdenPeticion(en, peticion'[s])
  BY <1>1, AgendaSigue
<1>4. eventos' \subseteq Calendario(en)!Evento /\ IsFiniteSet(eventos')
  BY <1>2, NuevosEs, FS_Union DEF AgendaInv, AgendaTipos
<1>5. \A e \in eventos' : fecha'[e.fuente] # Borrada
  BY <1>2, NuevosEs DEF AgendaInv, Cabe
<1> QED BY <1>2, <1>3, <1>4, <1>5 DEF AgendaInv, AgendaTipos, EnOrdenPeticion

\* A step that leaves the requests alone.
LEMMA AgendaIgual ==
    ASSUME NEW en, AgendaInv(en), AgendaTipos(en)', \A e \in eventos' : fecha'[e.fuente] # Borrada,
           peticion' = peticion
    PROVE  AgendaInv(en)'
BY DEF AgendaInv, EnOrdenPeticion

\* A count of what is asked for.
LEMMA ContarEs ==
    ASSUME NEW en, Calendario(en)!CalendarAssumption, AgendaInv(en), NEW a, Calendario(en)!Contar(a)
    PROVE  operaciones' \in 0..en.operaciones
BY AgendaNumeros DEF Calendario!Contar, AgendaInv, AgendaTipos

\* A member leaves the course, or asks for what is next.
LEMMA AgendaMiembro ==
    ASSUME NEW en, Calendario(en)!CalendarAssumption, AgendaInv(en), NEW u \in en.usuarios,
           Calendario(en)!Desinscribir(u) \/ Calendario(en)!VerProximos(u) \/
             Calendario(en)!export_ics(u)
    PROVE  AgendaInv(en)'
<1>1. UNCHANGED <<fecha, eventos, zona, hoy, hilos, peticion>>
  BY DEF Calendario!Desinscribir, Calendario!VerProximos, Calendario!export_ics
<1>2. operaciones' \in 0..en.operaciones /\ inscritos' \subseteq en.usuarios
  BY ContarEs DEF Calendario!Desinscribir, Calendario!VerProximos, Calendario!export_ics, AgendaInv,
     AgendaTipos
<1>3. Calendario(en)!Futuros(u) \subseteq Calendario(en)!Evento
  BY DEF Calendario!Futuros, AgendaInv, AgendaTipos
<1>4. respuesta' \in [tipo: {"ninguna", "panel", "ics", "error"}, usuario: en.usuarios \cup {Nada},
        eventos: SUBSET Calendario(en)!Evento]
  <2>1. CASE Calendario(en)!Desinscribir(u)
    BY <2>1 DEF Calendario!Desinscribir, AgendaInv, AgendaTipos
  <2>2. CASE Calendario(en)!VerProximos(u)
    <3>1. PICK S \in Calendario(en)!get_upcoming_events_for_user(u) :
              respuesta' = [tipo |-> "panel", usuario |-> u, eventos |-> S]
      BY <2>2 DEF Calendario!VerProximos
    <3>2. S \subseteq Calendario(en)!Evento
      BY <1>3 DEF Calendario!get_upcoming_events_for_user
    <3> QED BY <3>1, <3>2
  <2>3. CASE Calendario(en)!export_ics(u)
    BY <1>3, <2>3 DEF Calendario!export_ics
  <2> QED BY <2>1, <2>2, <2>3
<1>5. AgendaTipos(en)'
  BY <1>1, <1>2, <1>4 DEF AgendaInv, AgendaTipos
<1> QED BY <1>1, <1>5, AgendaIgual DEF AgendaInv

\* A meeting is moved, is new or is removed, a deadline is set or dropped, a thread runs,
\* the zone changes or a day passes.
LEMMA AgendaCurso ==
    ASSUME NEW en, Calendario(en)!CalendarAssumption, AgendaInv(en),
           \/ \E f \in Calendario(en)!Fuentes, d \in Calendario(en)!Dias \cup {Nada} :
                Calendario(en)!editar_recurso_meet(f, d) \/ Calendario(en)!nuevo_recurso_meet(f, d)
           \/ \E f \in Calendario(en)!Fuentes : Calendario(en)!eliminar_recurso(f) \/
                Calendario(en)!toggle_evaluation_status(f) \/
                Calendario(en)!_update_in_background(f)
           \/ \E z \in en.zonas : Calendario(en)!Configurar(z)
           \/ Calendario(en)!PasarElDia
    PROVE  AgendaInv(en)'
<1>1. AgendaTipos(en) /\ peticion' = peticion /\ UNCHANGED <<inscritos, respuesta>>
  BY DEF AgendaInv, Calendario!editar_recurso_meet, Calendario!nuevo_recurso_meet,
     Calendario!eliminar_recurso,
         Calendario!toggle_evaluation_status, Calendario!_update_in_background,
           Calendario!Configurar, Calendario!PasarElDia
<1>2. Nada # Borrada /\ Borrada \notin Calendario(en)!Dias /\ en.dias \in Nat
  BY AgendaNumeros DEF Calendario!Dias
<1>3. ASSUME NEW f \in Calendario(en)!Fuentes, NEW d \in Calendario(en)!Dias \cup {Nada},
             Calendario(en)!editar_recurso_meet(f, d) \/ Calendario(en)!nuevo_recurso_meet(f, d)
      PROVE  AgendaTipos(en)' /\ \A e \in eventos' : fecha'[e.fuente] # Borrada
  <2>1. /\ fecha' = [fecha EXCEPT ![f] = d] /\ hilos' \subseteq Calendario(en)!Fuentes
        /\ operaciones' \in 0..en.operaciones /\ UNCHANGED <<eventos, zona, hoy>>
    BY <1>1, <1>3, ContarEs DEF Calendario!editar_recurso_meet, Calendario!nuevo_recurso_meet,
       AgendaTipos
  <2>2. d # Borrada
    BY <1>2
  <2>3. fecha' \in [Calendario(en)!Fuentes -> Calendario(en)!Dias \cup {Nada, Borrada}]
    BY <1>1, <2>1 DEF AgendaTipos
  <2>4. AgendaTipos(en)'
    BY <1>1, <2>1, <2>3 DEF AgendaTipos
  <2> QED BY <1>1, <2>1, <2>2, <2>4 DEF AgendaInv, AgendaTipos
<1>4. ASSUME NEW f \in Calendario(en)!Fuentes, Calendario(en)!eliminar_recurso(f)
      PROVE  AgendaTipos(en)' /\ \A e \in eventos' : fecha'[e.fuente] # Borrada
  <2>1. /\ fecha' = [fecha EXCEPT ![f] = Borrada] /\ eventos' = {e \in eventos : e.fuente # f}
        /\ operaciones' \in 0..en.operaciones /\ UNCHANGED <<hilos, zona, hoy>>
    BY <1>4, ContarEs DEF Calendario!eliminar_recurso
  <2>2. eventos' \subseteq eventos /\ IsFiniteSet(eventos')
    BY <1>1, <2>1, FS_Subset DEF AgendaTipos
  <2>3. fecha' \in [Calendario(en)!Fuentes -> Calendario(en)!Dias \cup {Nada, Borrada}]
    BY <1>1, <2>1 DEF AgendaTipos
  <2>4. AgendaTipos(en)'
    BY <1>1, <2>1, <2>2, <2>3 DEF AgendaTipos
  <2>5. \A e \in eventos' : fecha'[e.fuente] # Borrada
    BY <1>1, <2>1 DEF AgendaInv, AgendaTipos, Calendario!Evento
  <2> QED BY <2>4, <2>5
<1>5. ASSUME NEW f \in Calendario(en)!Fuentes, Calendario(en)!toggle_evaluation_status(f)
      PROVE  AgendaTipos(en)' /\ \A e \in eventos' : fecha'[e.fuente] # Borrada
  <2>1. /\ fecha' = [fecha EXCEPT ![f] = IF @ = Nada THEN hoy - 1 ELSE Nada] /\
             hilos' \subseteq Calendario(en)!Fuentes
        /\ operaciones' \in 0..en.operaciones /\ UNCHANGED <<eventos, zona, hoy>> /\ hoy > 0
    BY <1>1, <1>5, ContarEs DEF Calendario!toggle_evaluation_status, AgendaTipos
  <2>2. hoy - 1 \in Calendario(en)!Dias
    BY <1>1, <1>2, <2>1 DEF AgendaTipos, Calendario!Dias
  <2>3. PICK d \in Calendario(en)!Dias \cup {Nada} : fecha' = [fecha EXCEPT ![f] = d]
    BY <2>1, <2>2
  <2>4. fecha' \in [Calendario(en)!Fuentes -> Calendario(en)!Dias \cup {Nada, Borrada}]
    BY <1>1, <2>3 DEF AgendaTipos
  <2>5. AgendaTipos(en)'
    BY <1>1, <2>1, <2>4 DEF AgendaTipos
  <2> QED BY <1>1, <1>2, <2>1, <2>3, <2>5 DEF AgendaInv, AgendaTipos
<1>6. ASSUME NEW f \in Calendario(en)!Fuentes, Calendario(en)!_update_in_background(f)
      PROVE  AgendaTipos(en)' /\ \A e \in eventos' : fecha'[e.fuente] # Borrada
  <2>1. UNCHANGED <<fecha, eventos, zona, hoy, operaciones>> /\
          hilos' \subseteq Calendario(en)!Fuentes
    BY <1>1, <1>6 DEF Calendario!_update_in_background, Calendario!ContextoEnElHilo, AgendaTipos
  <2> QED BY <1>1, <2>1 DEF AgendaInv, AgendaTipos
<1>7. ASSUME NEW z \in en.zonas, Calendario(en)!Configurar(z)
      PROVE  AgendaTipos(en)' /\ \A e \in eventos' : fecha'[e.fuente] # Borrada
  BY <1>1, <1>7, ContarEs DEF Calendario!Configurar, AgendaInv, AgendaTipos
<1>8. ASSUME Calendario(en)!PasarElDia
      PROVE  AgendaTipos(en)' /\ \A e \in eventos' : fecha'[e.fuente] # Borrada
  <2>1. hoy' \in Calendario(en)!Dias
    BY <1>1, <1>2, <1>8 DEF Calendario!PasarElDia, AgendaTipos, Calendario!Dias
  <2> QED BY <1>1, <1>8, <2>1 DEF Calendario!PasarElDia, AgendaInv, AgendaTipos
<1>9. AgendaTipos(en)' /\ \A e \in eventos' : fecha'[e.fuente] # Borrada
  BY <1>3, <1>4, <1>5, <1>6, <1>7, <1>8
<1> QED BY <1>1, <1>9, AgendaIgual

\* Every step keeps the types.
LEMMA AgendaStep ==
    ASSUME NEW en, Calendario(en)!CalendarAssumption, AgendaInv(en), Calendario(en)!Next
    PROVE  AgendaInv(en)'
BY AgendaInscribir, AgendaRegistrar, AgendaLeer, AgendaComprobar, AgendaConfirmar, AgendaMiembro,
   AgendaCurso DEF Calendario!Next

\* The types of Calendar.
LEMMA AgendaTypeOK ==
    ASSUME NEW en, Calendario(en)!CalendarAssumption, AgendaInv(en)
    PROVE  Calendario(en)!TypeOK
BY AgendaNumeros DEF AgendaInv, AgendaTipos, Calendario!TypeOK, EnOrdenPeticion

\* The panel has the next event of whoever has one.
LEMMA AgendaPanel ==
    ASSUME NEW en, Calendario(en)!CalendarAssumption, AgendaInv(en),
           [Calendario(en)!Next]_(Calendario(en)!vars)
    PROVE  Calendario(en)!PanelShowsTheNext
<1> SUFFICES ASSUME respuesta' # respuesta, respuesta'.tipo = "panel", NEW e \in eventos,
                    e.usuario = respuesta'.usuario, e.inicio >= hoy
             PROVE  \E s \in respuesta'.eventos : s.inicio <= e.inicio
  BY DEF Calendario!PanelShowsTheNext
<1>1. PICK u \in en.usuarios : Calendario(en)!VerProximos(u)
  <2>1. Calendario(en)!Next
    BY DEF Calendario!vars
  <2>2. \A v \in en.usuarios : ~Calendario(en)!export_ics(v)
    BY DEF Calendario!export_ics
  <2> QED BY <2>1, <2>2 DEF Calendario!Next, Calendario!Inscribir, Calendario!Registrar,
         Calendario!Leer, Calendario!Comprobar, Calendario!Confirmar, Calendario!Desinscribir,
            Calendario!editar_recurso_meet, Calendario!nuevo_recurso_meet,
              Calendario!eliminar_recurso, Calendario!toggle_evaluation_status,
            Calendario!_update_in_background, Calendario!Configurar, Calendario!PasarElDia
<1>2. PICK S \in Calendario(en)!get_upcoming_events_for_user(u) :
              respuesta' = [tipo |-> "panel", usuario |-> u, eventos |-> S]
  BY <1>1 DEF Calendario!VerProximos
<1>3. e \in Calendario(en)!Futuros(u) /\ respuesta'.eventos = S
  BY <1>2 DEF Calendario!Futuros
<1>4. e.inicio \in Int
  BY DEF AgendaInv, AgendaTipos, Calendario!Evento, Calendario!Dias
<1>5. CASE e \in S
  BY <1>3, <1>4, <1>5
<1>6. CASE e \notin S
  <2>1. IsFiniteSet(Calendario(en)!Futuros(u))
    BY FS_Subset DEF Calendario!Futuros, AgendaInv, AgendaTipos
  <2>2. Cardinality(Calendario(en)!Futuros(u)) \in Nat /\ Cardinality(Calendario(en)!Futuros(u)) # 0
    BY <1>3, <2>1, FS_CardinalityType, FS_EmptySet
  <2>3. Cardinality(S) = IF Cardinality(Calendario(en)!Futuros(u)) < en.limite
          THEN Cardinality(Calendario(en)!Futuros(u)) ELSE en.limite
    BY AgendaCuenta DEF Calendario!get_upcoming_events_for_user
  <2>4. Cardinality(S) # 0
    BY <2>2, <2>3, AgendaNumeros
  <2>5. S # {}
    BY <2>4, FS_EmptySet
  <2>6. PICK s \in S : TRUE
    BY <2>5
  <2>7. s.inicio <= e.inicio
    BY <1>3, <1>6, <2>6 DEF Calendario!get_upcoming_events_for_user, Calendario!EnOrden
  <2> QED BY <1>3, <2>6, <2>7
<1> QED BY <1>5, <1>6

----------------------------------------
(* One request at a time *)

UnaPeticion(en) == \A p, q \in en.peticiones : p = q

SinEliminar(en) == "eliminar" \notin en.acciones

\* What a request read names a source once, what it makes is of sources without an event
\* of its member, and there is one event by member and source.
AgendaUna(en) ==
    /\ \A p \in en.peticiones : \A x, y \in peticion[p].leidas : x[1] = y[1] => x = y
    /\ \A p \in en.peticiones : peticion[p].pc = "comprobar" =>
          \A x \in peticion[p].nuevas : Calendario(en)!DeFuente(peticion[p].usuario, x[1]) = {}
    /\ \A e, f \in eventos : (e.usuario = f.usuario /\ e.fuente = f.fuente) => e = f

\* The dates that a request has read are waiting, are to be made or have their event, and
\* in the end all of them have it.
Servida(en, q) ==
    /\ q.pc # "error"
    /\ \A x \in q.leidas : fecha[x[1]] # Borrada
    /\ q.pc = "comprobar" => \A x \in q.leidas :
          x \in q.pendientes \/ x \in q.nuevas \/ Calendario(en)!DeFuente(q.usuario, x[1]) # {}
    /\ q.pc = "hecho" => \A x \in q.leidas : Calendario(en)!DeFuente(q.usuario, x[1]) # {}

AgendaServida(en) == \A s \in en.peticiones : Servida(en, peticion[s])

\* A step that leaves the requests alone makes no event.
LEMMA OtrosPasos ==
    ASSUME NEW en, Calendario(en)!CalendarAssumption, AgendaInv(en), Calendario(en)!Next,
           \A p \in en.peticiones : /\ \A u \in en.usuarios : ~Calendario(en)!Inscribir(p, u)
                                    /\ ~Calendario(en)!Registrar(p) /\ ~Calendario(en)!Leer(p)
                                    /\ ~Calendario(en)!Comprobar(p) /\ ~Calendario(en)!Confirmar(p)
    PROVE  /\ peticion' = peticion /\ eventos' \subseteq eventos
           /\ SinEliminar(en) => /\ eventos' = eventos
                                 /\ \A f \in Calendario(en)!Fuentes : fecha[f] # Borrada
                                      => fecha'[f] # Borrada
<1>1. \/ \E u \in en.usuarios : Calendario(en)!Desinscribir(u) \/ Calendario(en)!VerProximos(u) \/
           Calendario(en)!export_ics(u)
      \/ \E f \in Calendario(en)!Fuentes, d \in Calendario(en)!Dias \cup {Nada} :
           Calendario(en)!editar_recurso_meet(f, d) \/ Calendario(en)!nuevo_recurso_meet(f, d)
      \/ \E f \in Calendario(en)!Fuentes : Calendario(en)!eliminar_recurso(f) \/
           Calendario(en)!toggle_evaluation_status(f) \/ Calendario(en)!_update_in_background(f)
      \/ \E z \in en.zonas : Calendario(en)!Configurar(z)
      \/ Calendario(en)!PasarElDia
  BY DEF Calendario!Next
<1>2. Nada # Borrada /\ Borrada \notin Calendario(en)!Dias
  BY AgendaNumeros DEF Calendario!Dias
<1>3. fecha \in [Calendario(en)!Fuentes -> Calendario(en)!Dias \cup {Nada, Borrada}] /\
        hoy \in Calendario(en)!Dias /\ en.dias \in Nat
  BY AgendaNumeros DEF AgendaInv, AgendaTipos
<1>4. ASSUME NEW u \in en.usuarios, Calendario(en)!Desinscribir(u) \/
             Calendario(en)!VerProximos(u) \/ Calendario(en)!export_ics(u)
      PROVE  peticion' = peticion /\ eventos' = eventos /\ fecha' = fecha
  BY <1>4 DEF Calendario!Desinscribir, Calendario!VerProximos, Calendario!export_ics
<1>5. ASSUME NEW f \in Calendario(en)!Fuentes, NEW d \in Calendario(en)!Dias \cup {Nada},
             Calendario(en)!editar_recurso_meet(f, d) \/ Calendario(en)!nuevo_recurso_meet(f, d)
      PROVE  /\ peticion' = peticion /\ eventos' = eventos
             /\ \A g \in Calendario(en)!Fuentes : fecha[g] # Borrada => fecha'[g] # Borrada
  BY <1>2, <1>3, <1>5 DEF Calendario!editar_recurso_meet, Calendario!nuevo_recurso_meet
<1>6. ASSUME NEW f \in Calendario(en)!Fuentes, Calendario(en)!eliminar_recurso(f)
      PROVE  peticion' = peticion /\ eventos' \subseteq eventos /\ ~SinEliminar(en)
  BY <1>6 DEF Calendario!eliminar_recurso, SinEliminar, Calendario!Contar
<1>7. ASSUME NEW f \in Calendario(en)!Fuentes, Calendario(en)!toggle_evaluation_status(f)
      PROVE  /\ peticion' = peticion /\ eventos' = eventos
             /\ \A g \in Calendario(en)!Fuentes : fecha[g] # Borrada => fecha'[g] # Borrada
  <2>1. hoy - 1 \in Calendario(en)!Dias
    BY <1>3, <1>7 DEF Calendario!toggle_evaluation_status, Calendario!Dias
  <2>2. PICK d \in Calendario(en)!Dias \cup {Nada} : fecha' = [fecha EXCEPT ![f] = d]
    BY <1>7, <2>1 DEF Calendario!toggle_evaluation_status
  <2> QED BY <1>2, <1>3, <1>7, <2>2 DEF Calendario!toggle_evaluation_status
<1>8. ASSUME NEW f \in Calendario(en)!Fuentes, Calendario(en)!_update_in_background(f)
      PROVE  peticion' = peticion /\ eventos' = eventos /\ fecha' = fecha
  BY <1>8 DEF Calendario!_update_in_background, Calendario!ContextoEnElHilo
<1>9. ASSUME (\E z \in en.zonas : Calendario(en)!Configurar(z)) \/ Calendario(en)!PasarElDia
      PROVE  peticion' = peticion /\ eventos' = eventos /\ fecha' = fecha
  BY <1>9 DEF Calendario!Configurar, Calendario!PasarElDia
<1> QED BY <1>1, <1>4, <1>5, <1>6, <1>7, <1>8, <1>9

\* Where one is enough, one is what there is.
LEMMA DejarEs ==
    ASSUME NEW en, AgendaInv(en), AgendaUna(en), NEW u, NEW f
    PROVE  /\ Calendario(en)!Existente(u, f) = IF Calendario(en)!DeFuente(u, f) = {} THEN "crear"
                ELSE "dejar"
           /\ Cardinality(Calendario(en)!DeFuente(u, f)) <= 1
<1>1. CASE Calendario(en)!DeFuente(u, f) = {}
  BY <1>1, FS_EmptySet, AgendaCuenta DEF Calendario!Existente
<1>2. CASE Calendario(en)!DeFuente(u, f) # {}
  <2>1. PICK e : e \in Calendario(en)!DeFuente(u, f)
    BY <1>2
  <2>2. Calendario(en)!DeFuente(u, f) = {e}
    BY <2>1 DEF AgendaUna, Calendario!DeFuente
  <2>3. Cardinality(Calendario(en)!DeFuente(u, f)) = 1
    BY <2>2, FS_Singleton
  <2> QED BY <1>2, <2>3, AgendaCuenta DEF Calendario!Existente
<1> QED BY <1>1, <1>2

\* The request becomes q, and there is no other.
LEMMA LaUnica ==
    ASSUME NEW en, Calendario(en)!CalendarAssumption, AgendaInv(en), UnaPeticion(en),
           NEW p \in en.peticiones, NEW q \in Calendario(en)!Peticion,
           peticion' = [peticion EXCEPT ![p] = q]
    PROVE  \A s \in en.peticiones : peticion'[s] = q
BY DEF AgendaInv, AgendaTipos, UnaPeticion

\* Of the one request at a time, every step keeps one event by source.
LEMMA UnaStep ==
    ASSUME NEW en, Calendario(en)!CalendarAssumption, AgendaInv(en), UnaPeticion(en), AgendaUna(en),
           Calendario(en)!Next PROVE AgendaUna(en)'
<1>1. ASSUME NEW p \in en.peticiones, NEW u \in en.usuarios, Calendario(en)!Inscribir(p, u)
      PROVE AgendaUna(en)'
  <2>0. Pedida(en, p, u)
    BY <1>1, InscribirEs
  <2>1. PICK q \in Calendario(en)!Peticion : q.pc = "registrar" /\ q.leidas = {} /\
          peticion' = [peticion EXCEPT ![p] = q]
    BY <2>0 DEF Pedida
  <2>2. eventos' = eventos
    BY <1>1, InscribirEs
  <2>3. \A s \in en.peticiones : peticion'[s] = q
    BY <2>1, LaUnica
  <2> QED BY <2>1, <2>2, <2>3 DEF AgendaUna
<1>2. ASSUME NEW p \in en.peticiones, Calendario(en)!Registrar(p) PROVE AgendaUna(en)'
  <2>1. PICK r, q : r = peticion[p] /\
          q = [r EXCEPT !.pc = IF r.via = "sitio" THEN "leer" ELSE "hecho"]
    OBVIOUS
  <2>2. r \in Calendario(en)!Peticion
    BY <2>1 DEF AgendaInv, AgendaTipos
  <2>3. q \in Calendario(en)!Peticion /\ q.pc # "comprobar" /\ q.leidas = r.leidas
    BY <2>1, <2>2 DEF Calendario!Peticion
  <2>4. peticion' = [peticion EXCEPT ![p] = q] /\ eventos' = eventos
    BY <1>2, <2>1 DEF Calendario!Registrar, AgendaInv, AgendaTipos
  <2>5. \A s \in en.peticiones : peticion'[s] = q
    BY <2>3, <2>4, LaUnica
  <2> QED BY <2>1, <2>3, <2>4, <2>5 DEF AgendaUna
<1>3. ASSUME NEW p \in en.peticiones, Calendario(en)!Leer(p) PROVE AgendaUna(en)'
  <2>1. PICK q \in Calendario(en)!Peticion :
                 /\ q.leidas = Calendario(en)!FuentesConFecha /\ q.nuevas = peticion[p].nuevas
                 /\ peticion' = [peticion EXCEPT ![p] = q]
    BY <1>3, LeerEs
  <2>2. eventos' = eventos
    BY <1>3, LeerEs
  <2>3. \A s \in en.peticiones : peticion'[s] = q
    BY <2>1, LaUnica
  <2>4. q.nuevas = {}
    BY <1>3, <2>1 DEF Calendario!Leer, AgendaInv, EnOrdenPeticion
  <2> QED BY <2>1, <2>2, <2>3, <2>4, ConFechaEs DEF AgendaUna
<1>4. ASSUME NEW p \in en.peticiones, Calendario(en)!Comprobar(p) PROVE AgendaUna(en)'
  <2>1. PICK x \in peticion[p].pendientes, q \in Calendario(en)!Peticion :
                 /\ Comprobada(peticion[p], q, x,
                      Calendario(en)!Existente(peticion[p].usuario, x[1]))
                 /\ peticion' = [peticion EXCEPT ![p] = q]
    BY <1>4, ComprobarEs
  <2>2. eventos' = eventos
    BY <1>4, ComprobarEs
  <2>3. \A s \in en.peticiones : peticion'[s] = q
    BY <2>1, LaUnica
  <2>4. peticion[p].pc = "comprobar"
    BY <1>4 DEF Calendario!Comprobar
  <2>5. q.leidas = peticion[p].leidas /\ q.usuario = peticion[p].usuario
    BY <2>1 DEF Comprobada
  <2>6. \A y \in q.nuevas : Calendario(en)!DeFuente(q.usuario, y[1]) = {}
    <3>1. \A y \in q.nuevas : y \in peticion[p].nuevas \/
            (y = x /\ Calendario(en)!Existente(peticion[p].usuario, x[1]) = "crear")
      BY <2>1 DEF Comprobada
    <3>2. Calendario(en)!Existente(peticion[p].usuario, x[1]) = "crear"
            => Calendario(en)!DeFuente(peticion[p].usuario, x[1]) = {}
      BY DejarEs
    <3> QED BY <2>4, <2>5, <3>1, <3>2 DEF AgendaUna
  <2> QED BY <2>2, <2>3, <2>5, <2>6 DEF AgendaUna, Calendario!DeFuente
<1>5. ASSUME NEW p \in en.peticiones, Calendario(en)!Confirmar(p) PROVE AgendaUna(en)'
  <2>1. PICK q \in Calendario(en)!Peticion :
                 /\ q.pc = (IF Cabe(p) THEN "hecho" ELSE "error")
                 /\ q.leidas = peticion[p].leidas /\ peticion' = [peticion EXCEPT ![p] = q]
    BY <1>5, ConfirmarEs
  <2>2. \A s \in en.peticiones : peticion'[s] = q
    BY <2>1, LaUnica
  <2>3. q.pc # "comprobar" /\ \A x, y \in q.leidas : x[1] = y[1] => x = y
    BY <2>1 DEF AgendaUna
  <2>4. peticion[p].pc = "comprobar" /\ eventos' = IF Cabe(p)
          THEN eventos \cup Calendario(en)!Nuevos(p) ELSE eventos
    BY <1>5, ConfirmarEs
  <2>5. \A e \in eventos, n \in Calendario(en)!Nuevos(p) :
          ~(e.usuario = n.usuario /\ e.fuente = n.fuente)
    <3>1. \A n \in Calendario(en)!Nuevos(p) : n.usuario = peticion[p].usuario /\
            \E x \in peticion[p].nuevas : n.fuente = x[1]
      BY <2>4, NuevosEs
    <3> QED BY <2>4, <3>1 DEF AgendaUna, Calendario!DeFuente
  <2>6. \A e, f \in Calendario(en)!Nuevos(p) : e.fuente = f.fuente => e = f
    BY <2>4, NuevosEs DEF AgendaUna
  <2>7. \A e, f \in eventos' : (e.usuario = f.usuario /\ e.fuente = f.fuente) => e = f
    BY <2>4, <2>5, <2>6 DEF AgendaUna
  <2> QED BY <2>2, <2>3, <2>7 DEF AgendaUna
<1>6. ASSUME peticion' = peticion, eventos' \subseteq eventos PROVE AgendaUna(en)'
  BY <1>6 DEF AgendaUna, Calendario!DeFuente
<1> QED BY <1>1, <1>2, <1>3, <1>4, <1>5, <1>6, OtrosPasos

\* Of the one request at a time, where no meeting is removed, what was read gets its event.
LEMMA ServidaStep ==
    ASSUME NEW en, Calendario(en)!CalendarAssumption, AgendaInv(en), UnaPeticion(en), AgendaUna(en),
           SinEliminar(en), Calendario(en)!Next,
           \A s \in en.peticiones : Servida(en, peticion[s])
    PROVE  \A s \in en.peticiones : Servida(en, peticion[s])'
<1>1. ASSUME NEW p \in en.peticiones, NEW u \in en.usuarios, Calendario(en)!Inscribir(p, u)
      PROVE \A s \in en.peticiones : Servida(en, peticion[s])'
  <2>0. Pedida(en, p, u)
    BY <1>1, InscribirEs
  <2>1. PICK q \in Calendario(en)!Peticion : q.pc = "registrar" /\ q.leidas = {} /\
          peticion' = [peticion EXCEPT ![p] = q]
    BY <2>0 DEF Pedida
  <2>2. \A s \in en.peticiones : peticion'[s] = q
    BY <2>1, LaUnica
  <2> QED BY <2>1, <2>2 DEF Servida
<1>2. ASSUME NEW p \in en.peticiones, Calendario(en)!Registrar(p)
      PROVE \A s \in en.peticiones : Servida(en, peticion[s])'
  <2>1. PICK r, q : r = peticion[p] /\
          q = [r EXCEPT !.pc = IF r.via = "sitio" THEN "leer" ELSE "hecho"]
    OBVIOUS
  <2>2. r \in Calendario(en)!Peticion /\ r.leidas = {}
    BY <1>2, <2>1 DEF AgendaInv, AgendaTipos, EnOrdenPeticion, Calendario!Registrar
  <2>3. q \in Calendario(en)!Peticion /\ q.pc \in {"leer", "hecho"} /\ q.leidas = {}
    BY <2>1, <2>2 DEF Calendario!Peticion
  <2>4. peticion' = [peticion EXCEPT ![p] = q]
    BY <1>2, <2>1 DEF Calendario!Registrar, AgendaInv, AgendaTipos
  <2>5. \A s \in en.peticiones : peticion'[s] = q
    BY <2>3, <2>4, LaUnica
  <2> QED BY <2>3, <2>5 DEF Servida
<1>3. ASSUME NEW p \in en.peticiones, Calendario(en)!Leer(p)
      PROVE \A s \in en.peticiones : Servida(en, peticion[s])'
  <2>1. PICK q \in Calendario(en)!Peticion :
                 /\ q.pc = "comprobar" /\ q.leidas = Calendario(en)!FuentesConFecha
                 /\ q.pendientes = Calendario(en)!FuentesConFecha
                 /\ peticion' = [peticion EXCEPT ![p] = q]
    BY <1>3, LeerEs
  <2>2. fecha' = fecha
    BY <1>3, LeerEs
  <2>3. \A s \in en.peticiones : peticion'[s] = q
    BY <2>1, LaUnica
  <2> QED BY <2>1, <2>2, <2>3, ConFechaEs DEF Servida
<1>4. ASSUME NEW p \in en.peticiones, Calendario(en)!Comprobar(p)
      PROVE \A s \in en.peticiones : Servida(en, peticion[s])'
  <2>1. PICK r : r = peticion[p]
    OBVIOUS
  <2>2. PICK x \in r.pendientes, q \in Calendario(en)!Peticion :
                 Comprobada(r, q, x, Calendario(en)!Existente(r.usuario, x[1])) /\
                   peticion' = [peticion EXCEPT ![p] = q]
    BY <1>4, <2>1, ComprobarEs
  <2>3. fecha' = fecha /\ eventos' = eventos /\ r.pc = "comprobar"
    BY <1>4, <2>1, ComprobarEs DEF Calendario!Comprobar
  <2>4. \A s \in en.peticiones : peticion'[s] = q
    BY <2>2, LaUnica
  <2>5. /\ q.pc = "comprobar" /\ q.leidas = r.leidas /\ q.usuario = r.usuario
        /\ q.pendientes = r.pendientes \ {x} /\ r.nuevas \subseteq q.nuevas
        /\ x \in q.nuevas \/ Calendario(en)!DeFuente(r.usuario, x[1]) # {}
    BY <2>2, <2>3, DejarEs DEF Comprobada
  <2>6. Servida(en, r)
    BY <2>1
  <2>7. Servida(en, q)
    BY <2>3, <2>5, <2>6 DEF Servida
  <2>8. Servida(en, q)'
    BY <2>3, <2>7 DEF Servida, Calendario!DeFuente
  <2> QED BY <2>4, <2>8
<1>5. ASSUME NEW p \in en.peticiones, Calendario(en)!Confirmar(p)
      PROVE \A s \in en.peticiones : Servida(en, peticion[s])'
  <2>1. PICK r : r = peticion[p]
    OBVIOUS
  <2>2. PICK q \in Calendario(en)!Peticion :
                 /\ q.pc = (IF Cabe(p) THEN "hecho" ELSE "error") /\ q.usuario = r.usuario
                 /\ q.leidas = r.leidas /\ peticion' = [peticion EXCEPT ![p] = q]
    BY <1>5, <2>1, ConfirmarEs
  <2>3. /\ r.pc = "comprobar" /\ r.pendientes = {} /\ fecha' = fecha
        /\ eventos' = IF Cabe(p) THEN eventos \cup Calendario(en)!Nuevos(p) ELSE eventos
    BY <1>5, <2>1, ConfirmarEs
  <2>4. \A s \in en.peticiones : peticion'[s] = q
    BY <2>2, LaUnica
  <2>5. Servida(en, r) /\ r.nuevas \subseteq r.leidas
    BY <2>1 DEF AgendaInv, EnOrdenPeticion
  <2>6. Cabe(p)
    BY <2>1, <2>5 DEF Cabe, Servida
  <2>7. eventos' = eventos \cup Calendario(en)!Nuevos(p) /\ q.pc = "hecho"
    BY <2>2, <2>3, <2>6
  <2>8. ASSUME NEW x \in q.leidas PROVE Calendario(en)!DeFuente(q.usuario, x[1])' # {}
    <3>1. x \in r.nuevas \/ Calendario(en)!DeFuente(r.usuario, x[1]) # {}
      BY <2>2, <2>3, <2>5 DEF Servida
    <3>2. CASE x \in r.nuevas
      <4>1. PICK e \in Calendario(en)!Nuevos(p) : e.fuente = x[1]
        BY <2>1, <2>3, <3>2, NuevosEs
      <4>2. e.usuario = r.usuario
        BY <2>1, <2>3, NuevosEs
      <4> QED BY <2>2, <2>7, <4>1, <4>2 DEF Calendario!DeFuente
    <3>3. CASE Calendario(en)!DeFuente(r.usuario, x[1]) # {}
      BY <2>2, <2>7, <3>3 DEF Calendario!DeFuente
    <3> QED BY <3>1, <3>2, <3>3
  <2>9. \A x \in q.leidas : fecha'[x[1]] # Borrada
    BY <2>2, <2>3, <2>5 DEF Servida
  <2>10. Servida(en, q)'
    BY <2>7, <2>8, <2>9 DEF Servida
  <2> QED BY <2>4, <2>10
<1>6. ASSUME peticion' = peticion, eventos' = eventos,
             \A f \in Calendario(en)!Fuentes : fecha[f] # Borrada => fecha'[f] # Borrada
      PROVE  \A s \in en.peticiones : Servida(en, peticion[s])'
  <2> SUFFICES ASSUME NEW s \in en.peticiones PROVE Servida(en, peticion[s])'
    OBVIOUS
  <2>1. PICK q : q = peticion[s]
    OBVIOUS
  <2>2. Servida(en, q) /\ q \in Calendario(en)!Peticion
    BY <2>1 DEF AgendaInv, AgendaTipos
  <2>3. \A x \in q.leidas : x[1] \in Calendario(en)!Fuentes
    BY <2>2 DEF Calendario!Peticion
  <2>4. Servida(en, q)'
    BY <1>6, <2>2, <2>3 DEF Servida, Calendario!DeFuente
  <2> QED BY <1>6, <2>1, <2>4
<1> QED BY <1>1, <1>2, <1>3, <1>4, <1>5, <1>6, OtrosPasos

\* At the start no event is there and no request has read any.
LEMMA UnaInit ==
    ASSUME NEW en, Calendario(en)!CalendarAssumption, Calendario(en)!Init
    PROVE  AgendaUna(en) /\ \A s \in en.peticiones : Servida(en, peticion[s])
<1>1. eventos = {} /\ \A p \in en.peticiones : peticion[p] = Calendario(en)!Libre
  BY DEF Calendario!Init
<1> QED BY <1>1, LibreEs DEF AgendaUna, Servida

\* A member has one event for a meeting.
LEMMA AgendaOneEvent ==
    ASSUME NEW en, AgendaInv(en), AgendaUna(en)
    PROVE  Calendario(en)!OneEventPerDate
BY DejarEs, AgendaCuenta DEF Calendario!OneEventPerDate

\* Whoever was served has the events.
LEMMA AgendaServed ==
    ASSUME NEW en, \A s \in en.peticiones : Servida(en, peticion[s])
    PROVE Calendario(en)!ServedHaveEvents
<1> SUFFICES ASSUME NEW p \in en.peticiones, peticion[p].pc \in {"hecho", "error"},
                    NEW f \in Calendario(en)!Fuentes, NEW d \in Calendario(en)!Dias,
                      <<f, d>> \in peticion[p].leidas
             PROVE  Calendario(en)!DeFuente(peticion[p].usuario, f) # {}
  BY DEF Calendario!ServedHaveEvents
<1>1. peticion[p].pc = "hecho"
  BY DEF Servida
<1>2. PICK x : x = <<f, d>>
  OBVIOUS
<1>3. x \in peticion[p].leidas /\ x[1] = f
  BY <1>2
<1> QED BY <1>1, <1>3 DEF Servida

----------------------------------------
(* The setup of the database (DatabaseSetup) *)

\* A row is of one place of the script: the number of the commit that makes it.
Lugar(t, c, n) ==
    IF t = "SystemInfo" THEN 10
    ELSE IF t = "Configuracion" THEN 20
    ELSE IF t = "Certificado" THEN 30
    ELSE IF c = "lms-training" THEN 70
    ELSE IF t = "Curso" /\ c \in {"now", "details", "free"} THEN 40
    ELSE IF t = "CursoSeccion" /\ c \in {"now", "free"} /\ n = 1 THEN 50
    ELSE IF t \in {"CursoSeccion", "CursoRecurso"} /\ c \in {"now", "free"} THEN 60
    ELSE IF t \in {"Evaluation", "Question", "QuestionOption"} THEN 80
    ELSE IF t = "Usuario" THEN 90
    ELSE IF t = "Certificacion" THEN 100
    ELSE IF t \in {"BlogPost", "BlogTag"} THEN 110
    ELSE IF t = "CustomPage" THEN 120
    ELSE IF t = "Categoria" THEN 150
    ELSE IF t = "Etiqueta" THEN 160
    ELSE IF t = "Curso" /\ c = "resources" THEN 170
    ELSE IF t \in {"CursoSeccion", "CursoRecurso"} /\ c = "resources" THEN 230
    ELSE IF t = "Curso" /\ c = "postgresql" THEN 240
    ELSE IF t \in {"CursoSeccion", "CursoRecurso"} /\ c = "postgresql" THEN 260
    ELSE IF t = "Curso" /\ c = "python" THEN 270
    ELSE IF t \in {"CursoSeccion", "CursoRecurso"} /\ c = "python" THEN 290
    ELSE IF t = "Curso" /\ c = "html" THEN 300
    ELSE IF t \in {"CursoSeccion", "CursoRecurso"} /\ c = "html" THEN 320
    ELSE IF t = "EtiquetaCurso" THEN 330
    ELSE IF t = "CategoriaCurso" THEN 340
    ELSE IF t = "Programa" THEN 360
    ELSE IF t = "ProgramaCurso" THEN 370
    ELSE IF t = "EtiquetaPrograma" THEN 380
    ELSE IF t = "CategoriaPrograma" THEN 390
    ELSE IF t = "Recurso" THEN 400
    ELSE 420

Nivel(k) == Lugar(k[1], k[2], k[3])

Guarda(x) == x.op = "guardar"

\* A step that may leave out the one that follows.
Salta(x) == (x.op = "directorio" /\ x.archivo # "") \/ x.op \in {"datos", "temas"}

\* From its step z on, s neither makes the tables nor stamps them; what it looks for it
\* inserts in the next step, and no step that it may leave out inserts rows.
Ordenado(z, s) ==
    \A k \in 1..Len(s) :
       /\ k > z => s[k].op \notin {"esquema", "sello"}
       /\ k <= z => ~Guarda(s[k])
       /\ s[k].op = "buscar" => k + 1 \in 1..Len(s) /\ Guarda(s[k + 1]) /\
            s[k + 1].filas = s[k].filas
       /\ Salta(s[k]) => k + 1 \in 1..Len(s) /\ ~Guarda(s[k + 1])

\* The rows are of the places from a to b, in their order.
Nivelado(s, a, b) ==
    /\ \A k \in 1..Len(s) : Guarda(s[k]) => \A f \in s[k].filas : Nivel(f.clave) \in a..b
    /\ \A k, m \in 1..Len(s) : (k < m /\ Guarda(s[k]) /\ Guarda(s[m])) =>
          \A f \in s[k].filas, g \in s[m].filas : Nivel(f.clave) < Nivel(g.clave)

Da(s, n, r) == \E m \in 1..n : Guarda(s[m]) /\ \E g \in s[m].filas : g.clave = r

\* What a row refers to is among K, or was inserted by then.
Referido(s, K) ==
    \A k \in 1..Len(s) : Guarda(s[k]) =>
       \A f \in s[k].filas : \A r \in f.refiere : r \in K \/ Da(s, k, r)

Serie(s) == \E S : s \in Seq(S)

\* A part of the script, which needs the keys of K and gives those of J.
Tramo(z, s, K, J, a, b) ==
    /\ Serie(s) /\ Ordenado(z, s) /\ Nivelado(s, a, b) /\ Referido(s, K)
    /\ \A r \in J : Da(s, Len(s), r)

\* Where the steps of two parts in a row are.
LEMMA Juntos ==
    ASSUME NEW s, NEW t, Serie(s), Serie(t)
    PROVE  /\ Serie(s \o t) /\ Len(s) \in Nat /\ Len(t) \in Nat /\ Len(s \o t) = Len(s) + Len(t)
           /\ \A k \in 1..Len(s) : (s \o t)[k] = s[k]
           /\ \A k \in 1..Len(t) : (s \o t)[k + Len(s)] = t[k]
<1>a. PICK A : s \in Seq(A)
  BY DEF Serie
<1>b. PICK B : t \in Seq(B)
  BY DEF Serie
<1>c. PICK S : S = A \cup B
  OBVIOUS
<1>d. s \in Seq(S) /\ t \in Seq(S)
  <2>1. A \subseteq S /\ B \subseteq S
    BY <1>c
  <2> QED BY <1>a, <1>b, <2>1
<1>1. s \o t \in Seq(S) /\ Len(s \o t) = Len(s) + Len(t)
  BY <1>d, ConcatProperties
<1>2. \A i \in 1..Len(s) + Len(t) : (s \o t)[i] = IF i <= Len(s) THEN s[i] ELSE t[i - Len(s)]
  BY <1>d, ConcatProperties
<1>3. PICK ls, lt \in Nat : ls = Len(s) /\ lt = Len(t)
  BY <1>d
<1>4. \A k \in 1..ls : (s \o t)[k] = s[k]
  BY <1>2, <1>3
<1>5. ASSUME NEW k \in 1..lt PROVE (s \o t)[k + ls] = t[k]
  <2>1. k + ls \in 1..(ls + lt) /\ ~(k + ls <= ls) /\ (k + ls) - ls = k
    BY <1>3
  <2> QED BY <1>2, <1>3, <2>1
<1> QED BY <1>1, <1>3, <1>4, <1>5 DEF Serie

\* Two parts in a row are a part, where the second needs what the first gives.
LEMMA Une ==
    ASSUME NEW z \in Nat, NEW s, NEW t, NEW K, NEW J, NEW L, NEW M,
           NEW a \in Int, NEW b \in Int, NEW c \in Int, NEW d \in Int,
           Tramo(z, s, K, J, a, b), Tramo(0, t, L, M, c, d), z <= Len(s),
           L \subseteq K \cup J, a <= b, b < c, c <= d
    PROVE  Tramo(z, s \o t, K, J \cup M, a, d) /\ z <= Len(s \o t)
<1>1. Serie(s) /\ Serie(t)
  BY DEF Tramo
<1>2. PICK u : u = s \o t
  OBVIOUS
<1>3. PICK ls, lt \in Nat : ls = Len(s) /\ lt = Len(t)
  BY <1>1, Juntos
<1>4. /\ Serie(u) /\ Len(u) = ls + lt
      /\ \A k \in 1..ls : u[k] = s[k]
      /\ \A k \in 1..lt : u[k + ls] = t[k]
  BY <1>1, <1>2, <1>3, Juntos
<1>5. ASSUME NEW k \in 1..(ls + lt)
      PROVE  k \in 1..ls \/ \E m \in 1..lt : k = m + ls
  <2>1. CASE k > ls
    <3>1. k - ls \in 1..lt /\ k = (k - ls) + ls
      BY <1>3, <2>1
    <3> QED BY <3>1
  <2> QED BY <1>3, <2>1
<1>6. Ordenado(z, u)
  <2> SUFFICES ASSUME NEW k \in 1..(ls + lt)
               PROVE  /\ k > z => u[k].op \notin {"esquema", "sello"}
                      /\ k <= z => ~Guarda(u[k])
                      /\ u[k].op = "buscar" => /\ k + 1 \in 1..(ls + lt) /\ Guarda(u[k + 1])
                                               /\ u[k + 1].filas = u[k].filas
                      /\ Salta(u[k]) => k + 1 \in 1..(ls + lt) /\ ~Guarda(u[k + 1])
    BY <1>4 DEF Ordenado
  <2>1. CASE k \in 1..ls
    <3>1. /\ k > z => s[k].op \notin {"esquema", "sello"}
          /\ k <= z => ~Guarda(s[k])
          /\ s[k].op = "buscar" => k + 1 \in 1..ls /\ Guarda(s[k + 1]) /\
               s[k + 1].filas = s[k].filas
          /\ Salta(s[k]) => k + 1 \in 1..ls /\ ~Guarda(s[k + 1])
      BY <1>3, <2>1 DEF Tramo, Ordenado
    <3>2. u[k] = s[k] /\ (k + 1 \in 1..ls => u[k + 1] = s[k + 1] /\ k + 1 \in 1..(ls + lt))
      BY <1>3, <1>4, <2>1
    <3> QED BY <3>1, <3>2
  <2>2. CASE \E m \in 1..lt : k = m + ls
    <3>1. PICK m \in 1..lt : k = m + ls
      BY <2>2
    <3>2. /\ t[m].op \notin {"esquema", "sello"}
          /\ t[m].op = "buscar" => m + 1 \in 1..lt /\ Guarda(t[m + 1]) /\
               t[m + 1].filas = t[m].filas
          /\ Salta(t[m]) => m + 1 \in 1..lt /\ ~Guarda(t[m + 1])
      <4>1. Ordenado(0, t) /\ lt = Len(t)
        BY <1>3 DEF Tramo
      <4>2. m \in 1..Len(t) /\ m > 0
        BY <3>1, <4>1
      <4> HIDE <1>3, <3>1
      <4>3. /\ t[m].op \notin {"esquema", "sello"}
            /\ t[m].op = "buscar" =>
                  m + 1 \in 1..Len(t) /\ Guarda(t[m + 1]) /\ t[m + 1].filas = t[m].filas
            /\ Salta(t[m]) => m + 1 \in 1..Len(t) /\ ~Guarda(t[m + 1])
        BY <4>1, <4>2 DEF Ordenado
      <4> QED BY <4>1, <4>3
    <3>3. u[k] = t[m] /\ (m + 1 \in 1..lt => u[k + 1] = t[m + 1] /\ k + 1 \in 1..(ls + lt))
      <4>1. u[k] = t[m]
        BY <1>4, <3>1
      <4>2. ASSUME m + 1 \in 1..lt PROVE u[k + 1] = t[m + 1] /\ k + 1 \in 1..(ls + lt)
        <5>1. u[(m + 1) + ls] = t[m + 1]
          BY <1>4, <4>2
        <5>2. k + 1 = (m + 1) + ls /\ k + 1 \in 1..(ls + lt)
          BY <1>3, <3>1, <4>2
        <5> QED BY <5>1, <5>2
      <4> QED BY <4>1, <4>2
    <3>4. k > z
      BY <1>3, <3>1
    <3> QED BY <3>2, <3>3, <3>4
  <2> QED BY <1>5, <2>1, <2>2
<1>7. /\ \A k \in 1..ls : Guarda(s[k]) => \A f \in s[k].filas : Nivel(f.clave) \in a..b
      /\ \A k \in 1..lt : Guarda(t[k]) => \A f \in t[k].filas : Nivel(f.clave) \in c..d
      /\ \A k, m \in 1..ls : (k < m /\ Guarda(s[k]) /\ Guarda(s[m])) =>
            \A f \in s[k].filas, g \in s[m].filas : Nivel(f.clave) < Nivel(g.clave)
      /\ \A k, m \in 1..lt : (k < m /\ Guarda(t[k]) /\ Guarda(t[m])) =>
            \A f \in t[k].filas, g \in t[m].filas : Nivel(f.clave) < Nivel(g.clave)
  BY <1>3 DEF Tramo, Nivelado
<1>8. ASSUME NEW k \in 1..(ls + lt), Guarda(u[k]), NEW f \in u[k].filas
      PROVE  Nivel(f.clave) \in a..d
  <2>1. CASE k \in 1..ls
    <3>1. Nivel(f.clave) \in a..b
      BY <1>4, <1>7, <1>8, <2>1
    <3> QED BY <3>1
  <2>2. CASE \E m \in 1..lt : k = m + ls
    <3>1. Nivel(f.clave) \in c..d
      BY <1>4, <1>7, <1>8, <2>2
    <3> QED BY <3>1
  <2> QED BY <1>5, <2>1, <2>2
<1>9. ASSUME NEW k \in 1..(ls + lt), NEW m \in 1..(ls + lt), k < m, Guarda(u[k]), Guarda(u[m]),
             NEW f \in u[k].filas, NEW g \in u[m].filas
      PROVE  Nivel(f.clave) < Nivel(g.clave)
  <2>1. CASE k \in 1..ls /\ m \in 1..ls
    BY <1>4, <1>7, <1>9, <2>1
  <2>2. CASE k \in 1..ls /\ \E j \in 1..lt : m = j + ls
    <3>1. Nivel(f.clave) \in a..b /\ Nivel(g.clave) \in c..d
      BY <1>4, <1>7, <1>9, <2>2
    <3> QED BY <3>1
  <2>3. CASE (\E i \in 1..lt : k = i + ls) /\ \E j \in 1..lt : m = j + ls
    <3>1. PICK i \in 1..lt : k = i + ls
      BY <2>3
    <3>2. PICK j \in 1..lt : m = j + ls
      BY <2>3
    <3>3. i < j
      BY <1>3, <1>9, <3>1, <3>2
    <3>4. u[k] = t[i] /\ u[m] = t[j]
      BY <1>4, <3>1, <3>2
    <3> QED BY <1>7, <1>9, <3>3, <3>4
  <2>4. k \in 1..ls \/ ~(m \in 1..ls)
    BY <1>3, <1>9
  <2> QED BY <1>5, <2>1, <2>2, <2>3, <2>4
<1>10. Nivelado(u, a, d)
  BY <1>4, <1>8, <1>9 DEF Nivelado
<1>11. ASSUME NEW n \in 1..ls, NEW r, Da(s, n, r) PROVE Da(u, n, r)
  <2>1. PICK m \in 1..n : Guarda(s[m]) /\ \E g \in s[m].filas : g.clave = r
    BY <1>11 DEF Da
  <2>2. m \in 1..ls
    BY <1>3
  <2>3. u[m] = s[m]
    BY <1>4, <2>2
  <2> QED BY <2>1, <2>3 DEF Da
<1>12. ASSUME NEW n \in 1..lt, NEW r, Da(t, n, r) PROVE Da(u, n + ls, r)
  <2>1. PICK m \in 1..n : Guarda(t[m]) /\ \E g \in t[m].filas : g.clave = r
    BY <1>12 DEF Da
  <2>2. m \in 1..lt /\ m + ls \in 1..(n + ls)
    BY <1>3
  <2>3. u[m + ls] = t[m]
    BY <1>4, <2>2
  <2> QED BY <2>1, <2>2, <2>3 DEF Da
<1>13. ASSUME NEW n \in Nat, NEW k \in Nat, n <= k, NEW r, Da(u, n, r) PROVE Da(u, k, r)
  <2>1. PICK m \in 1..n : Guarda(u[m]) /\ \E g \in u[m].filas : g.clave = r
    BY <1>13 DEF Da
  <2>2. m \in 1..k
    BY <1>13
  <2> QED BY <2>1, <2>2 DEF Da
<1>14. \A r \in J : Da(s, ls, r)
  BY <1>3 DEF Tramo
<1>15. ASSUME NEW r, Da(s, ls, r) PROVE ls \in 1..ls /\ Da(u, ls, r)
  <2>1. PICK m \in 1..ls : TRUE
    BY <1>15 DEF Da
  <2>2. ls \in 1..ls
    BY <1>3, <2>1
  <2> QED BY <1>11, <1>15, <2>2
<1>16. Referido(u, K)
  <2> SUFFICES ASSUME NEW k \in 1..(ls + lt), Guarda(u[k]), NEW f \in u[k].filas,
        NEW r \in f.refiere, r \notin K
               PROVE  Da(u, k, r)
    BY <1>4 DEF Referido
  <2>1. CASE k \in 1..ls
    <3>1. Da(s, k, r)
      BY <1>3, <1>4, <2>1 DEF Tramo, Referido
    <3> QED BY <1>11, <2>1, <3>1
  <2>2. CASE \E m \in 1..lt : k = m + ls
    <3>1. PICK m \in 1..lt : k = m + ls
      BY <2>2
    <3>2. r \in L \/ Da(t, m, r)
      BY <1>3, <1>4, <3>1 DEF Tramo, Referido
    <3>3. CASE r \in L
      <4>1. Da(u, ls, r)
        BY <1>14, <1>15, <3>3
      <4>2. ls <= k /\ k \in Nat
        BY <1>3, <3>1
      <4> QED BY <1>13, <4>1, <4>2
    <3>4. CASE Da(t, m, r)
      BY <1>12, <3>1, <3>4
    <3> QED BY <3>2, <3>3, <3>4
  <2> QED BY <1>5, <2>1, <2>2
<1>17. ASSUME NEW r \in J \cup M PROVE Da(u, Len(u), r)
  <2>1. CASE r \in J
    <3>1. Da(u, ls, r) /\ ls <= ls + lt /\ ls + lt \in Nat
      BY <1>3, <1>14, <1>15, <2>1
    <3> QED BY <1>4, <1>13, <3>1
  <2>2. CASE r \in M
    <3>1. Da(t, lt, r)
      BY <1>3, <2>2 DEF Tramo
    <3>2. PICK m \in 1..lt : TRUE
      BY <3>1 DEF Da
    <3>3. lt \in 1..lt /\ lt + ls = ls + lt
      BY <1>3, <3>2
    <3>4. Da(u, lt + ls, r)
      BY <1>12, <3>1, <3>3
    <3> QED BY <1>4, <3>3, <3>4
  <2> QED BY <2>1, <2>2
<1>18. z <= Len(u)
  BY <1>3, <1>4
<1> QED BY <1>2, <1>4, <1>6, <1>10, <1>16, <1>17, <1>18 DEF Tramo

----------------------------------------
(* The parts of the script *)

\* The rows of a commit, at place n, refer to K or to each other.
Conjunto(fs, K, n) ==
    \A f \in fs : Nivel(f.clave) = n /\ \A r \in f.refiere : r \in K \/ \E g \in fs : g.clave = r

DaEn(fs, J) == \A r \in J : \E g \in fs : g.clave = r

\* Of one step.
LEMMA UnPaso ==
    ASSUME NEW x
    PROVE  Serie(<<x>>) /\ Len(<<x>>) = 1 /\ <<x>>[1] = x
<1>1. <<x>> \in Seq({x})
  OBVIOUS
<1> QED BY <1>1 DEF Serie

\* Of two.
LEMMA DosPasos ==
    ASSUME NEW x, NEW y
    PROVE  Serie(<<x, y>>) /\ Len(<<x, y>>) = 2 /\ <<x, y>>[1] = x /\ <<x, y>>[2] = y
<1>1. <<x, y>> \in Seq({x, y})
  OBVIOUS
<1> QED BY <1>1 DEF Serie

\* A commit is a part.
LEMMA GuardarEs ==
    ASSUME NEW en, NEW fs, NEW K, NEW J, NEW n \in Int, Conjunto(fs, K, n), DaEn(fs, J)
    PROVE  Tramo(0, Puesta(en)!Guardar(fs), K, J, n, n)
<1>1. PICK x : x = Puesta(en)!Paso("guardar", fs, "", "")
  OBVIOUS
<1>2. Guarda(x) /\ x.op \notin {"esquema", "sello", "buscar"} /\ ~Salta(x) /\ x.filas = fs
  BY <1>1 DEF Puesta!Paso, Guarda, Salta
<1>3. PICK s : s = Puesta(en)!Guardar(fs)
  OBVIOUS
<1>4. Serie(s) /\ Len(s) = 1 /\ s[1] = x
  BY <1>1, <1>3, UnPaso DEF Puesta!Guardar
<1>5. \A k \in 1..1 : k = 1
  OBVIOUS
<1>6. Ordenado(0, s)
  BY <1>2, <1>4, <1>5 DEF Ordenado
<1>7. Nivelado(s, n, n)
  BY <1>2, <1>4, <1>5 DEF Nivelado, Conjunto
<1>8. \A r : (\E g \in fs : g.clave = r) => Da(s, 1, r)
  BY <1>2, <1>4 DEF Da
<1>9. Referido(s, K)
  BY <1>2, <1>4, <1>5, <1>8 DEF Referido, Conjunto
<1>10. \A r \in J : Da(s, Len(s), r)
  BY <1>4, <1>8 DEF DaEn
<1> QED BY <1>3, <1>4, <1>6, <1>7, <1>9, <1>10 DEF Tramo

\* What is looked for and then inserted is a part.
LEMMA GuardarSiFaltanEs ==
    ASSUME NEW en, NEW fs, NEW K, NEW J, NEW n \in Int, Conjunto(fs, K, n), DaEn(fs, J)
    PROVE  Tramo(0, Puesta(en)!GuardarSiFaltan(fs), K, J, n, n)
<1>1. PICK x, y : x = Puesta(en)!Paso("buscar", fs, "", "") /\
        y = Puesta(en)!Paso("guardar", fs, "", "")
  OBVIOUS
<1>2. /\ ~Guarda(x) /\ x.op \notin {"esquema", "sello"} /\ ~Salta(x) /\ x.filas = fs
      /\ Guarda(y) /\ y.op \notin {"esquema", "sello", "buscar"} /\ ~Salta(y) /\ y.filas = fs
  BY <1>1 DEF Puesta!Paso, Guarda, Salta
<1>3. PICK s : s = Puesta(en)!GuardarSiFaltan(fs)
  OBVIOUS
<1>4. Serie(s) /\ Len(s) = 2 /\ s[1] = x /\ s[2] = y
  BY <1>1, <1>3, DosPasos DEF Puesta!GuardarSiFaltan
<1>5. \A k \in 1..2 : k = 1 \/ k = 2
  OBVIOUS
<1>6. Ordenado(0, s)
  BY <1>2, <1>4, <1>5 DEF Ordenado
<1>7. Nivelado(s, n, n)
  BY <1>2, <1>4, <1>5 DEF Nivelado, Conjunto
<1>8. \A r : (\E g \in fs : g.clave = r) => Da(s, 2, r)
  BY <1>2, <1>4 DEF Da
<1>9. Referido(s, K)
  BY <1>2, <1>4, <1>5, <1>8 DEF Referido, Conjunto
<1>10. \A r \in J : Da(s, Len(s), r)
  BY <1>4, <1>8 DEF DaEn
<1> QED BY <1>3, <1>4, <1>6, <1>7, <1>9, <1>10 DEF Tramo

\* A step without rows.
SinFilas(x) == ~Guarda(x) /\ x.op \notin {"buscar", "esquema", "sello"}

\* Steps without rows, of which the last leaves nothing out, are a part of any place.
LEMMA SinFilasEs ==
    ASSUME NEW s, NEW n \in Int, Serie(s), Len(s) \in Nat,
           \A k \in 1..Len(s) : SinFilas(s[k]), ~Salta(s[Len(s)])
    PROVE  Tramo(0, s, {}, {}, n, n)
<1>1. Ordenado(0, s)
  <2>1. PICK l \in Nat : l = Len(s)
    OBVIOUS
  <2>2. ASSUME NEW k \in 1..l, Salta(s[k]) PROVE k + 1 \in 1..l /\ ~Guarda(s[k + 1])
    <3>1. k # l
      BY <2>1, <2>2
    <3>2. k + 1 \in 1..l
      BY <3>1
    <3> QED BY <2>1, <3>2 DEF SinFilas
  <2>3. \A k \in 1..l : SinFilas(s[k]) /\ ~(k <= 0)
    BY <2>1
  <2> QED BY <2>1, <2>2, <2>3 DEF Ordenado, SinFilas
<1>2. Nivelado(s, n, n) /\ Referido(s, {})
  BY DEF Nivelado, Referido, SinFilas
<1> QED BY <1>1, <1>2 DEF Tramo

\* A directory and the file that goes there.
LEMMA CopiarEnNuevoEs ==
    ASSUME NEW en, NEW d, NEW a, NEW n \in Int
    PROVE  Tramo(0, Puesta(en)!CopiarEnNuevo(d, a), {}, {}, n, n)
<1>1. PICK x, y : x = Puesta(en)!Paso("directorio", {}, d, a) /\
        y = Puesta(en)!Paso("copiar", {}, d, a)
  OBVIOUS
<1>2. SinFilas(x) /\ SinFilas(y) /\ ~Salta(y)
  BY <1>1 DEF Puesta!Paso, SinFilas, Salta, Guarda
<1>3. PICK s : s = Puesta(en)!CopiarEnNuevo(d, a)
  OBVIOUS
<1>4. Serie(s) /\ Len(s) = 2 /\ s[1] = x /\ s[2] = y
  BY <1>1, <1>3, DosPasos DEF Puesta!CopiarEnNuevo
<1>5. \A k \in 1..2 : k = 1 \/ k = 2
  OBVIOUS
<1>6. \A k \in 1..Len(s) : SinFilas(s[k])
  BY <1>2, <1>4, <1>5
<1> QED BY <1>2, <1>3, <1>4, <1>6, SinFilasEs

\* Of a step that is known by what it does.
Callado(en, d) == SinFilas(Puesta(en)!Paso(d, {}, "", ""))
Entero(en, d) == ~Salta(Puesta(en)!Paso(d, {}, "", ""))

\* Two steps of the copies.
LEMMA HacerDos ==
    ASSUME NEW en, NEW n \in Int, NEW d, NEW e,
           Callado(en, d), Callado(en, e), Entero(en, e)
    PROVE  Tramo(0, Puesta(en)!Hacer(d) \o Puesta(en)!Hacer(e), {}, {}, n, n)
<1>1. PICK x, y : x = Puesta(en)!Paso(d, {}, "", "") /\ y = Puesta(en)!Paso(e, {}, "", "")
  OBVIOUS
<1>2. SinFilas(x) /\ SinFilas(y) /\ ~Salta(y)
  BY <1>1 DEF Callado, Entero
<1>3. PICK s, t : s = Puesta(en)!Hacer(d) /\ t = Puesta(en)!Hacer(e)
  OBVIOUS
<1>4. /\ Serie(s) /\ Len(s) = 1 /\ s[1] = x
      /\ Serie(t) /\ Len(t) = 1 /\ t[1] = y
  BY <1>1, <1>3, UnPaso DEF Puesta!Hacer
<1>5. PICK u : u = s \o t
  OBVIOUS
<1>6. /\ Serie(u) /\ Len(u) = Len(s) + Len(t)
      /\ \A k \in 1..Len(s) : u[k] = s[k]
      /\ \A k \in 1..Len(t) : u[k + Len(s)] = t[k]
  <2>1. Serie(s) /\ Serie(t)
    BY <1>4
  <2> QED BY <1>5, <2>1, Juntos
<1>7. Len(u) = 2 /\ u[1] = x /\ u[2] = y
  <2>1. 1 \in 1..1 /\ 1 + 1 = 2
    OBVIOUS
  <2>2. u[1] = x /\ u[1 + 1] = y
    BY <1>4, <1>6, <2>1
  <2> QED BY <1>4, <1>6, <2>1, <2>2
<1>8. \A k \in 1..2 : k = 1 \/ k = 2
  OBVIOUS
<1>9. \A k \in 1..Len(u) : SinFilas(u[k])
  BY <1>2, <1>7, <1>8
<1>10. Tramo(0, u, {}, {}, n, n)
  <2>1. Serie(u)
    BY <1>6
  <2>2. ~Salta(u[2])
    BY <1>2, <1>7
  <2>3. Len(u) \in Nat /\ ~Salta(u[Len(u)])
    BY <1>7, <2>2
  <2> QED BY <1>9, <2>1, <2>3, SinFilasEs
<1> QED BY <1>3, <1>5, <1>10

\* The copies of the static files and of the templates.
LEMMA PopulateEs ==
    ASSUME NEW en, NEW n \in Int
    PROVE  /\ Tramo(0, Puesta(en)!populate_custmon_data_dir, {}, {}, n, n)
           /\ Tramo(0, Puesta(en)!populate_custom_theme_dir, {}, {}, n, n)
<1>1. /\ Callado(en, "datos") /\ Callado(en, "datos copiados") /\ Entero(en, "datos copiados")
      /\ Callado(en, "temas") /\ Callado(en, "temas copiados") /\ Entero(en, "temas copiados")
  BY DEF Callado, Entero, Puesta!Paso, SinFilas, Salta, Guarda
<1>2. /\ Tramo(0, Puesta(en)!Hacer("datos") \o Puesta(en)!Hacer("datos copiados"), {}, {}, n, n)
      /\ Tramo(0, Puesta(en)!Hacer("temas") \o Puesta(en)!Hacer("temas copiados"), {}, {}, n, n)
  BY <1>1, HacerDos
<1> QED BY <1>2 DEF Puesta!populate_custmon_data_dir, Puesta!populate_custom_theme_dir

----------------------------------------
(* The rows of the script *)

\* A row and what it refers to.
LEMMA FilaEs ==
    ASSUME NEW en, NEW k, NEW R
    PROVE  Puesta(en)!Fila(k, R).clave = k /\ Puesta(en)!Fila(k, R).refiere = R
BY DEF Puesta!Fila

\* The place of a key.
LEMMA LugarEs ==
    ASSUME NEW t, NEW c, NEW i, NEW j, NEW m
    PROVE  Nivel(<<t, c, i, j, m>>) = Lugar(t, c, i)
BY DEF Nivel

\* The keys of rows that belong to no other.
LEMMA RaizEs ==
    ASSUME NEW en, NEW t, NEW c
    PROVE  Nivel(Puesta(en)!Raiz(t, c)) = Lugar(t, c, 0)
BY LugarEs DEF Puesta!Raiz

\* Rows that refer to none.
LEMMA SueltasEs ==
    ASSUME NEW en, NEW t, NEW ns, NEW n, \A c \in ns : Lugar(t, c, 0) = n
    PROVE  /\ Conjunto(Puesta(en)!Sueltas(t, ns), {}, n)
           /\ \A c \in ns : \E g \in Puesta(en)!Sueltas(t, ns) : g.clave = Puesta(en)!Raiz(t, c)
<1>1. ASSUME NEW f \in Puesta(en)!Sueltas(t, ns)
      PROVE  Nivel(f.clave) = n /\ f.refiere = {}
  <2>1. PICK c \in ns : f = Puesta(en)!Fila(Puesta(en)!Raiz(t, c), {})
    BY DEF Puesta!Sueltas, Puesta!Suelta
  <2> QED BY <2>1, FilaEs, RaizEs
<1>2. ASSUME NEW c \in ns PROVE \E g \in Puesta(en)!Sueltas(t, ns) : g.clave = Puesta(en)!Raiz(t, c)
  <2>1. Puesta(en)!Fila(Puesta(en)!Raiz(t, c), {}) \in Puesta(en)!Sueltas(t, ns)
    BY DEF Puesta!Sueltas, Puesta!Suelta
  <2>2. Puesta(en)!Fila(Puesta(en)!Raiz(t, c), {}).clave = Puesta(en)!Raiz(t, c)
    BY FilaEs
  <2> QED BY <2>1, <2>2
<1> QED BY <1>1, <1>2 DEF Conjunto

\* The first of what is known of a course.
LEMMA CursoEs ==
    ASSUME NEW en, NEW c, NEW m
    PROVE  /\ Puesta(en)!Curso(c, m).clave = Puesta(en)!Raiz("Curso", c)
           /\ Puesta(en)!Curso(c, m).refiere = {Puesta(en)!Raiz("Certificado", m)}
BY FilaEs DEF Puesta!Curso

\* A section, and a resource of it.
LEMMA SeccionEs ==
    ASSUME NEW en, NEW c, NEW n
    PROVE  /\ Puesta(en)!CursoSeccion(c, n).clave = <<"CursoSeccion", c, n, 0, 0>>
           /\ Puesta(en)!CursoSeccion(c, n).refiere = {Puesta(en)!Raiz("Curso", c)}
BY FilaEs DEF Puesta!CursoSeccion

\* A resource is of a course and of a section.
LEMMA RecursoEs ==
    ASSUME NEW en, NEW c, NEW n, NEW i
    PROVE  /\ Puesta(en)!CursoRecurso(c, n, i).clave = <<"CursoRecurso", c, n, i, 0>>
           /\ Puesta(en)!CursoRecurso(c, n, i).refiere = {Puesta(en)!Raiz("Curso", c),
                <<"CursoSeccion", c, n, 0, 0>>}
BY FilaEs DEF Puesta!CursoRecurso

\* The content of a course is of it, and its resources are in its sections.
LEMMA ContenidoEs ==
    ASSUME NEW en, NEW c, NEW rs, NEW n,
           \A k : Lugar("CursoSeccion", c, k) = n /\ Lugar("CursoRecurso", c, k) = n
    PROVE  Conjunto(Puesta(en)!Contenido(c, rs), {Puesta(en)!Raiz("Curso", c)}, n)
<1>2. \A f \in Puesta(en)!Contenido(c, rs) :
        (\E k \in DOMAIN rs : f = Puesta(en)!CursoSeccion(c, k))
                                  \/ \E k \in DOMAIN rs : \E i \in rs[k] :
                                       f = Puesta(en)!CursoRecurso(c, k, i)
  BY DEF Puesta!Contenido
<1>3. \A k \in DOMAIN rs : Puesta(en)!CursoSeccion(c, k) \in Puesta(en)!Contenido(c, rs)
  BY DEF Puesta!Contenido
<1>4. ASSUME NEW f \in Puesta(en)!Contenido(c, rs)
      PROVE  /\ Nivel(f.clave) = n
             /\ \A r \in f.refiere : r \in {Puesta(en)!Raiz("Curso", c)} \/
                  \E g \in Puesta(en)!Contenido(c, rs) : g.clave = r
  <2>1. CASE \E k \in DOMAIN rs : f = Puesta(en)!CursoSeccion(c, k)
    <3>1. PICK k \in DOMAIN rs : f = Puesta(en)!CursoSeccion(c, k)
      BY <2>1
    <3>2. f.clave = <<"CursoSeccion", c, k, 0, 0>> /\ f.refiere = {Puesta(en)!Raiz("Curso", c)}
      BY <3>1, SeccionEs, RecursoEs
    <3>3. Nivel(f.clave) = n
      BY <3>2, LugarEs
    <3> QED BY <3>2, <3>3
  <2>2. CASE \E k \in DOMAIN rs : \E i \in rs[k] : f = Puesta(en)!CursoRecurso(c, k, i)
    <3>1. PICK k \in DOMAIN rs : \E i \in rs[k] : f = Puesta(en)!CursoRecurso(c, k, i)
      BY <2>2
    <3>2. PICK i \in rs[k] : f = Puesta(en)!CursoRecurso(c, k, i)
      BY <3>1
    <3>4. /\ f.clave = <<"CursoRecurso", c, k, i, 0>>
          /\ f.refiere = {Puesta(en)!Raiz("Curso", c), <<"CursoSeccion", c, k, 0, 0>>}
      BY <3>2, SeccionEs, RecursoEs
    <3>5. Puesta(en)!CursoSeccion(c, k) \in Puesta(en)!Contenido(c, rs) /\
            Puesta(en)!CursoSeccion(c, k).clave = <<"CursoSeccion", c, k, 0, 0>>
      BY <1>3, SeccionEs, RecursoEs
    <3>6. Nivel(f.clave) = n
      BY <3>4, LugarEs
    <3> QED BY <3>4, <3>5, <3>6
  <2> QED BY <1>2, <2>1, <2>2
<1> QED BY <1>4 DEF Conjunto

\* An evaluation is of its section, its questions are of it and its options are of them.
LEMMA EvaluacionEs ==
    ASSUME NEW en, NEW c, NEW n, NEW os, NEW v,
           /\ Lugar("Evaluation", c, n) = v
           /\ Lugar("Question", c, n) = v
           /\ Lugar("QuestionOption", c, n) = v
    PROVE  Conjunto(Puesta(en)!Evaluacion(c, n, os), {<<"CursoSeccion", c, n, 0, 0>>}, v)
<1>0. PICK s : s = <<"CursoSeccion", c, n, 0, 0>>
  OBVIOUS
<1> DEFINE e == <<"Evaluation", c, n, 0, 0>>
           Q(q) == <<"Question", c, n, q, 0>>
           O(q, k) == <<"QuestionOption", c, n, q, k>>
           E == Puesta(en)!Evaluacion(c, n, os)
<1>2. \A f \in E : \/ f = Puesta(en)!Fila(e, {s})
                   \/ \E q \in DOMAIN os : f = Puesta(en)!Fila(Q(q), {e})
                   \/ \E q \in DOMAIN os : \E k \in 1..os[q] : f = Puesta(en)!Fila(O(q, k), {Q(q)})
  BY <1>0 DEF Puesta!Evaluacion
<1>3. Puesta(en)!Fila(e, {s}) \in E /\ \A q \in DOMAIN os : Puesta(en)!Fila(Q(q), {e}) \in E
  BY <1>0 DEF Puesta!Evaluacion
<1>4. Nivel(e) = v /\ \A q, k : Nivel(Q(q)) = v /\ Nivel(O(q, k)) = v
  BY LugarEs
<1> HIDE DEF e, Q, O, E
<1>6. ASSUME NEW f \in E
      PROVE  /\ Nivel(f.clave) = v
             /\ \A r \in f.refiere : r \in {s} \/ \E g \in E : g.clave = r
  <2>1. CASE f = Puesta(en)!Fila(e, {s})
    <3>1. f.clave = e /\ f.refiere = {s}
      BY <2>1, FilaEs
    <3> QED BY <1>4, <3>1
  <2>2. CASE \E q \in DOMAIN os : f = Puesta(en)!Fila(Q(q), {e})
    <3>1. PICK q \in DOMAIN os : f = Puesta(en)!Fila(Q(q), {e})
      BY <2>2
    <3>2. f.clave = Q(q) /\ f.refiere = {e}
      BY <3>1, FilaEs
    <3>3. Puesta(en)!Fila(e, {s}).clave = e
      BY FilaEs
    <3> QED BY <1>3, <1>4, <3>2, <3>3
  <2>3. CASE \E q \in DOMAIN os : \E k \in 1..os[q] : f = Puesta(en)!Fila(O(q, k), {Q(q)})
    <3>1. PICK q \in DOMAIN os : \E k \in 1..os[q] : f = Puesta(en)!Fila(O(q, k), {Q(q)})
      BY <2>3
    <3>2. PICK k \in 1..os[q] : f = Puesta(en)!Fila(O(q, k), {Q(q)})
      BY <3>1
    <3>3. f.clave = O(q, k) /\ f.refiere = {Q(q)}
      BY <3>2, FilaEs
    <3>5. Puesta(en)!Fila(Q(q), {e}).clave = Q(q)
      BY FilaEs
    <3>4. Puesta(en)!Fila(Q(q), {e}).clave = Q(q) /\ Puesta(en)!Fila(Q(q), {e}) \in E
      BY <1>3, <3>1, <3>5
    <3> QED BY <1>4, <3>3, <3>4
  <2> QED BY <1>2, <2>1, <2>2, <2>3
<1>7. Conjunto(E, {s}, v)
  BY <1>6 DEF Conjunto
<1> QED BY <1>0, <1>7 DEF E

\* More rows of the same commit, which may refer to the first.
LEMMA UneConjuntos ==
    ASSUME NEW fs, NEW gs, NEW K, NEW L, NEW n, Conjunto(fs, K, n), Conjunto(gs, L, n),
           \A r \in L : r \in K \/ \E g \in fs : g.clave = r
    PROVE  Conjunto(fs \cup gs, K, n)
<1>1. \A f \in fs : Nivel(f.clave) = n /\ \A r \in f.refiere : r \in K \/ \E g \in fs : g.clave = r
  BY DEF Conjunto
<1>2. \A f \in gs : Nivel(f.clave) = n /\ \A r \in f.refiere : r \in L \/ \E g \in gs : g.clave = r
  BY DEF Conjunto
<1> QED BY <1>1, <1>2 DEF Conjunto

\* Two parts in a row, with what of their keys is needed later.
LEMMA Tras ==
    ASSUME NEW z \in Nat, NEW s, NEW t, NEW K, NEW J, NEW L, NEW M, NEW N,
           NEW a \in Int, NEW b \in Int, NEW c \in Int, NEW d \in Int,
           Tramo(z, s, K, J, a, b), Tramo(0, t, L, M, c, d), z <= Len(s),
           L \subseteq K \cup J, N \subseteq J \cup M, a <= b, b < c, c <= d
    PROVE  Tramo(z, s \o t, K, N, a, d) /\ z <= Len(s \o t)
<1>1. Tramo(z, s \o t, K, J \cup M, a, d) /\ z <= Len(s \o t)
  BY Une
<1> QED BY <1>1 DEF Tramo

\* A first part starts at the beginning.
LEMMA Desde ==
    ASSUME NEW s, NEW K, NEW J, NEW a, NEW b, Tramo(0, s, K, J, a, b)
    PROVE  0 <= Len(s)
<1>1. Serie(s)
  BY DEF Tramo
<1>2. Len(s) \in Nat
  BY <1>1, Juntos
<1> QED BY <1>2

\* Two parts of a part in a row.
LEMMA TrasDe ==
    ASSUME NEW s, NEW t, NEW K, NEW J, NEW L, NEW M, NEW N,
           NEW a \in Int, NEW b \in Int, NEW c \in Int, NEW d \in Int,
           Tramo(0, s, K, J, a, b), Tramo(0, t, L, M, c, d),
           L \subseteq K \cup J, N \subseteq J \cup M, a <= b, b < c, c <= d
    PROVE  Tramo(0, s \o t, K, N, a, d)
<1>1. 0 <= Len(s)
  BY Desde
<1> QED BY <1>1, Tras

\* What is needed may be more, and what is given less.
LEMMA Menos ==
    ASSUME NEW z, NEW s, NEW K, NEW J, NEW L, NEW M, NEW a, NEW b,
           Tramo(z, s, K, J, a, b), K \subseteq L, M \subseteq J
    PROVE  Tramo(z, s, L, M, a, b)
BY DEF Tramo, Referido

----------------------------------------
(* The keys that rows refer to *)

DeCertificado(en) == {Puesta(en)!Raiz("Certificado", "default"),
  Puesta(en)!Raiz("Certificado", "horizontal")}
DeCurso(en) == {Puesta(en)!Raiz("Curso", "now"), Puesta(en)!Raiz("Curso", "free")}
DeSeccion == {<<"CursoSeccion", "now", 1, 0, 0>>, <<"CursoSeccion", "free", 1, 0, 0>>}

\* The version of the system.
LEMMA SistemaEs ==
    ASSUME NEW en
    PROVE  Tramo(0, Puesta(en)!system_info, {}, {}, 10, 10)
<1>1. \A c : Lugar("SystemInfo", c, 0) = 10
  BY DEF Lugar
<1>2. Conjunto(Puesta(en)!Sueltas("SystemInfo", {"version", "version_mayor", "version_menor"}), {},
        10)
  BY <1>1, SueltasEs
<1>3. \A fs : DaEn(fs, {})
  BY DEF DaEn
<1> QED BY <1>2, <1>3, GuardarSiFaltanEs DEF Puesta!system_info

\* The configuration.
LEMMA ConfiguracionEs ==
    ASSUME NEW en
    PROVE  Tramo(0, Puesta(en)!crear_configuracion_predeterminada, {}, {}, 20, 20)
<1>1. \A c : Lugar("Configuracion", c, 0) = 20
  BY DEF Lugar
<1>2. Conjunto(Puesta(en)!Configuraciones, {}, 20)
  BY <1>1, SueltasEs DEF Puesta!Configuraciones
<1>3. \A fs : DaEn(fs, {})
  BY DEF DaEn
<1> QED BY <1>2, <1>3, GuardarEs DEF Puesta!crear_configuracion_predeterminada

\* The templates of the certificates.
LEMMA CertificadosEs ==
    ASSUME NEW en
    PROVE  Tramo(0, Puesta(en)!crear_certificados, {}, DeCertificado(en), 30, 30)
<1>1. \A c : Lugar("Certificado", c, 0) = 30
  BY DEF Lugar
<1> DEFINE ns == {"demo", "default", "horizontal", "vertical", "elegante", "moderno",
        "clasico", "corporativo", "profesional", "programa_profesional", "programa"}
<1>2. "default" \in ns /\ "horizontal" \in ns
  OBVIOUS
<1>3. Puesta(en)!crear_certificados = Puesta(en)!Guardar(Puesta(en)!Sueltas("Certificado", ns))
  BY DEF Puesta!crear_certificados
<1> HIDE DEF ns
<1>4. /\ Conjunto(Puesta(en)!Sueltas("Certificado", ns), {}, 30)
      /\ \A c \in ns : \E g \in Puesta(en)!Sueltas("Certificado", ns) :
           g.clave = Puesta(en)!Raiz("Certificado", c)
  BY <1>1, SueltasEs
<1>5. DaEn(Puesta(en)!Sueltas("Certificado", ns), DeCertificado(en))
  BY <1>2, <1>4 DEF DaEn, DeCertificado
<1> QED BY <1>3, <1>4, <1>5, GuardarEs

\* The courses that every site has.
LEMMA CursosEs ==
    ASSUME NEW en
    PROVE  Tramo(0, Puesta(en)!CursosPredeterminados, DeCertificado(en), DeCurso(en), 40, 43)
<1> DEFINE fs == {Puesta(en)!Curso("now", "default"), Puesta(en)!Curso("details", "horizontal"),
      Puesta(en)!Curso("free", "horizontal")}
<1>1. Lugar("Curso", "now", 0) = 40 /\ Lugar("Curso", "details", 0) = 40 /\
        Lugar("Curso", "free", 0) = 40
  BY DEF Lugar
<1>2. \A f \in fs : Nivel(f.clave) = 40 /\ f.refiere \subseteq DeCertificado(en)
  BY <1>1, CursoEs, RaizEs DEF DeCertificado
<1>3. DaEn(fs, DeCurso(en))
  BY CursoEs DEF DaEn, DeCurso
<1>4. Puesta(en)!CursosPredeterminados =
        Puesta(en)!Guardar(fs) \o Puesta(en)!curse_logo("public/images/now")
           \o Puesta(en)!curse_logo("public/images/details") \o Puesta(en)!curse_logo("public/images/free")
  BY DEF Puesta!CursosPredeterminados
<1>5. Conjunto(fs, DeCertificado(en), 40)
  BY <1>2 DEF Conjunto
<1>6. PICK s : s = Puesta(en)!Guardar(fs)
  OBVIOUS
<1>7. Tramo(0, s, DeCertificado(en), DeCurso(en), 40, 40)
  BY <1>3, <1>5, <1>6, GuardarEs
<1>8. PICK u, v, w : /\ u = Puesta(en)!curse_logo("public/images/now")
                     /\ v = Puesta(en)!curse_logo("public/images/details")
                     /\ w = Puesta(en)!curse_logo("public/images/free")
  OBVIOUS
<1>9. Tramo(0, u, {}, {}, 41, 41) /\ Tramo(0, v, {}, {}, 42, 42) /\ Tramo(0, w, {}, {}, 43, 43)
  BY <1>8, CopiarEnNuevoEs DEF Puesta!curse_logo
<1>10. Tramo(0, s \o u, DeCertificado(en), DeCurso(en), 40, 41)
  BY <1>7, <1>9, TrasDe
<1>11. Tramo(0, s \o u \o v, DeCertificado(en), DeCurso(en), 40, 42)
  BY <1>9, <1>10, TrasDe
<1>12. Tramo(0, s \o u \o v \o w, DeCertificado(en), DeCurso(en), 40, 43)
  BY <1>9, <1>11, TrasDe
<1> QED BY <1>4, <1>6, <1>8, <1>12

\* Their first sections.
LEMMA SeccionesEs ==
    ASSUME NEW en
    PROVE  Tramo(0, Puesta(en)!SeccionesPredeterminadas, DeCurso(en), DeSeccion, 50, 50)
<1> DEFINE fs == {Puesta(en)!CursoSeccion("now", 1), Puesta(en)!CursoSeccion("free", 1)}
<1>1. Lugar("CursoSeccion", "now", 1) = 50 /\ Lugar("CursoSeccion", "free", 1) = 50
  BY DEF Lugar
<1>2. \A f \in fs : Nivel(f.clave) = 50 /\ f.refiere \subseteq DeCurso(en)
  <2>1. /\ Puesta(en)!CursoSeccion("now", 1).clave = <<"CursoSeccion", "now", 1, 0, 0>>
        /\ Puesta(en)!CursoSeccion("now", 1).refiere = {Puesta(en)!Raiz("Curso", "now")}
        /\ Puesta(en)!CursoSeccion("free", 1).clave = <<"CursoSeccion", "free", 1, 0, 0>>
        /\ Puesta(en)!CursoSeccion("free", 1).refiere = {Puesta(en)!Raiz("Curso", "free")}
    BY SeccionEs
  <2>2. /\ Nivel(<<"CursoSeccion", "now", 1, 0, 0>>) = 50
        /\ Nivel(<<"CursoSeccion", "free", 1, 0, 0>>) = 50
    BY <1>1, LugarEs
  <2> QED BY <2>1, <2>2 DEF DeCurso
<1>3. DaEn(fs, DeSeccion)
  BY SeccionEs DEF DaEn, DeSeccion
<1>4. Conjunto(fs, DeCurso(en), 50)
  BY <1>2 DEF Conjunto
<1> QED BY <1>3, <1>4, GuardarEs DEF Puesta!SeccionesPredeterminadas

\* Their resources, and one more section.
LEMMA RecursosEs ==
    ASSUME NEW en
    PROVE  Tramo(0, Puesta(en)!RecursosPredeterminados, DeCurso(en) \cup DeSeccion, {}, 60, 60)
<1> DEFINE fs == {Puesta(en)!CursoSeccion("now", 2), Puesta(en)!CursoRecurso("free", 1, 1),
      Puesta(en)!CursoRecurso("now", 2, 1)}
           gs == {Puesta(en)!CursoRecurso("now", 1, i) : i \in 1 .. 3}
<1>1. /\ Lugar("CursoSeccion", "now", 2) = 60 /\ Lugar("CursoRecurso", "free", 1) = 60
      /\ Lugar("CursoRecurso", "now", 2) = 60 /\ Lugar("CursoRecurso", "now", 1) = 60
  BY DEF Lugar
<1>2. /\ Puesta(en)!CursoSeccion("now", 2).clave = <<"CursoSeccion", "now", 2, 0, 0>>
      /\ Puesta(en)!CursoSeccion("now", 2).refiere = {Puesta(en)!Raiz("Curso", "now")}
      /\ Puesta(en)!CursoRecurso("free", 1, 1).clave = <<"CursoRecurso", "free", 1, 1, 0>>
      /\ Puesta(en)!CursoRecurso("free", 1, 1).refiere = {Puesta(en)!Raiz("Curso", "free"),
           <<"CursoSeccion", "free", 1, 0, 0>>}
      /\ Puesta(en)!CursoRecurso("now", 2, 1).clave = <<"CursoRecurso", "now", 2, 1, 0>>
      /\ Puesta(en)!CursoRecurso("now", 2, 1).refiere = {Puesta(en)!Raiz("Curso", "now"),
           <<"CursoSeccion", "now", 2, 0, 0>>}
  BY SeccionEs, RecursoEs
<1>3. /\ Nivel(<<"CursoSeccion", "now", 2, 0, 0>>) = 60
      /\ Nivel(<<"CursoRecurso", "free", 1, 1, 0>>) = 60
      /\ Nivel(<<"CursoRecurso", "now", 2, 1, 0>>) = 60
  BY <1>1, LugarEs
<1>4. Conjunto(fs, DeCurso(en) \cup DeSeccion, 60)
  BY <1>2, <1>3 DEF Conjunto, DeCurso, DeSeccion
<1>5. ASSUME NEW f \in gs
      PROVE Nivel(f.clave) = 60 /\ f.refiere \subseteq DeCurso(en) \cup DeSeccion
  <2>1. PICK i \in 1..3 : f = Puesta(en)!CursoRecurso("now", 1, i)
    OBVIOUS
  <2>2. /\ f.clave = <<"CursoRecurso", "now", 1, i, 0>>
        /\ f.refiere = {Puesta(en)!Raiz("Curso", "now"), <<"CursoSeccion", "now", 1, 0, 0>>}
    BY <2>1, SeccionEs, RecursoEs
  <2>3. Nivel(f.clave) = 60
    BY <1>1, <2>2, LugarEs
  <2> QED BY <2>2, <2>3 DEF DeCurso, DeSeccion
<1>6. Conjunto(gs, DeCurso(en) \cup DeSeccion, 60)
  BY <1>5 DEF Conjunto
<1>7. Conjunto(fs \cup gs, DeCurso(en) \cup DeSeccion, 60)
  BY <1>4, <1>6, UneConjuntos
<1>8. DaEn(fs \cup gs, {})
  BY DEF DaEn
<1> QED BY <1>7, <1>8, GuardarEs DEF Puesta!RecursosPredeterminados

\* The courses with what they have.
LEMMA CursoPredeterminadoEs ==
    ASSUME NEW en
    PROVE  Tramo(0, Puesta(en)!crear_curso_predeterminado, DeCertificado(en),
           DeCurso(en) \cup DeSeccion, 40, 60)
<1>1. PICK s, t, u : s = Puesta(en)!CursosPredeterminados /\
        t = Puesta(en)!SeccionesPredeterminadas /\ u = Puesta(en)!RecursosPredeterminados
  OBVIOUS
<1>2. /\ Tramo(0, s, DeCertificado(en), DeCurso(en), 40, 43)
      /\ Tramo(0, t, DeCurso(en), DeSeccion, 50, 50)
      /\ Tramo(0, u, DeCurso(en) \cup DeSeccion, {}, 60, 60)
  BY <1>1, CursosEs, SeccionesEs, RecursosEs
<1>3. Tramo(0, s \o t, DeCertificado(en), DeCurso(en) \cup DeSeccion, 40, 50)
  BY <1>2, TrasDe
<1>4. Tramo(0, s \o t \o u, DeCertificado(en), DeCurso(en) \cup DeSeccion, 40, 60)
  BY <1>2, <1>3, TrasDe
<1> QED BY <1>1, <1>4 DEF Puesta!crear_curso_predeterminado

\* The course about the program, with its evaluations.
LEMMA AutoaprendizajeEs ==
    ASSUME NEW en
    PROVE  Tramo(0, Puesta(en)!crear_curso_autoaprendizaje, DeCertificado(en), {}, 70, 70)
<1> DEFINE c == "lms-training"
           rs == <<{1}, {2}, {3}, {}, {}, {}>>
           F == {Puesta(en)!Curso(c, "horizontal")}
           G == Puesta(en)!Evaluacion(c, 2, <<3, 2>>)
           H == Puesta(en)!Evaluacion(c, 3, <<3>>)
           E == G \cup H
           R == Puesta(en)!Contenido(c, rs)
<1>1. \A k : /\ Lugar("CursoSeccion", c, k) = 70 /\ Lugar("CursoRecurso", c, k) = 70
             /\ Lugar("Evaluation", c, k) = 70 /\ Lugar("Question", c, k) = 70
             /\ Lugar("QuestionOption", c, k) = 70 /\ Lugar("Curso", c, k) = 70
  BY DEF Lugar
<1>2. DOMAIN rs = 1..6
  OBVIOUS
<1>3. \A n \in 1..6 : \E g \in R : g.clave = <<"CursoSeccion", c, n, 0, 0>>
  <2>1. \A n \in 1..6 : Puesta(en)!CursoSeccion(c, n) \in R
    BY <1>2 DEF Puesta!Contenido
  <2> QED BY <2>1, SeccionEs, RecursoEs
<1>4. Puesta(en)!crear_curso_autoaprendizaje = Puesta(en)!Guardar(F \cup E \cup R)
  BY DEF Puesta!crear_curso_autoaprendizaje, Puesta!crear_evaluaciones_training
<1>5. Conjunto(R, {Puesta(en)!Raiz("Curso", c)}, 70)
  BY <1>1, ContenidoEs
<1>6. /\ Conjunto(G, {<<"CursoSeccion", c, 2, 0, 0>>}, 70)
      /\ Conjunto(H, {<<"CursoSeccion", c, 3, 0, 0>>}, 70)
  BY <1>1, EvaluacionEs
<1>7. /\ \A f \in F : Nivel(f.clave) = 70 /\ f.refiere \subseteq DeCertificado(en)
      /\ \E f \in F : f.clave = Puesta(en)!Raiz("Curso", c)
  BY <1>1, CursoEs, RaizEs DEF DeCertificado
<1>8. Conjunto(F, DeCertificado(en), 70)
  BY <1>7 DEF Conjunto
<1>9. PICK a, b : a = <<"CursoSeccion", c, 2, 0, 0>> /\ b = <<"CursoSeccion", c, 3, 0, 0>>
  OBVIOUS
<1>10. (\E g \in R : g.clave = a) /\ (\E g \in R : g.clave = b)
  <2>1. 2 \in 1..6 /\ 3 \in 1..6
    OBVIOUS
  <2> QED BY <1>3, <1>9, <2>1
<1>11. PICK S : S = F \cup R
  OBVIOUS
<1> HIDE DEF F, G, H, E, R
<1>12. Conjunto(S, DeCertificado(en), 70)
  BY <1>5, <1>7, <1>8, <1>11, UneConjuntos
<1>13. Conjunto(G, {a}, 70) /\ Conjunto(H, {b}, 70) /\ (\E g \in S : g.clave = a) /\
         \E g \in S : g.clave = b
  BY <1>6, <1>9, <1>10, <1>11
<1>14. Conjunto(S \cup G, DeCertificado(en), 70)
  BY <1>12, <1>13, UneConjuntos
<1>15. Conjunto((S \cup G) \cup H, DeCertificado(en), 70)
  <2>1. \E g \in S \cup G : g.clave = b
    BY <1>13
  <2> QED BY <1>13, <1>14, <2>1, UneConjuntos
<1>16. (S \cup G) \cup H = F \cup E \cup R
  BY <1>11 DEF E
<1>17. Conjunto(F \cup E \cup R, DeCertificado(en), 70) /\ DaEn(F \cup E \cup R, {})
  BY <1>15, <1>16 DEF DaEn
<1> QED BY <1>4, <1>17, GuardarEs

\* The evaluation of a course that every site has.
LEMMA EvaluacionPredeterminadaEs ==
    ASSUME NEW en
    PROVE  Tramo(0, Puesta(en)!crear_evaluacion_predeterminada, DeSeccion, {}, 80, 80)
<1>1. /\ Lugar("Evaluation", "now", 1) = 80 /\ Lugar("Question", "now", 1) = 80
      /\ Lugar("QuestionOption", "now", 1) = 80
  BY DEF Lugar
<1>2. PICK fs : fs = Puesta(en)!Evaluacion("now", 1, <<4, 2, 4>>)
  OBVIOUS
<1>3. Conjunto(fs, {<<"CursoSeccion", "now", 1, 0, 0>>}, 80)
  BY <1>1, <1>2, EvaluacionEs
<1>4. Conjunto(fs, DeSeccion, 80) /\ DaEn(fs, {})
  BY <1>3 DEF Conjunto, DeSeccion, DaEn
<1> QED BY <1>2, <1>4, GuardarEs DEF Puesta!crear_evaluacion_predeterminada

\* The administrator.
LEMMA UsuariosEs ==
    ASSUME NEW en
    PROVE  Tramo(0, Puesta(en)!crear_usuarios_predeterminados, {}, {Puesta(en)!Administrador}, 90,
           90)
<1>1. Lugar("Usuario", "lms-admin", 0) = 90
  BY DEF Lugar
<1>2. PICK fs : fs = {Puesta(en)!Suelta("Usuario", "lms-admin")}
  OBVIOUS
<1>3. \A f \in fs : f.clave = Puesta(en)!Administrador /\ f.refiere = {}
  BY <1>2, FilaEs DEF Puesta!Suelta, Puesta!Administrador
<1>4. Nivel(Puesta(en)!Administrador) = 90
  BY <1>1, RaizEs DEF Puesta!Administrador
<1>5. Conjunto(fs, {}, 90) /\ DaEn(fs, {Puesta(en)!Administrador})
  BY <1>2, <1>3, <1>4 DEF Conjunto, DaEn
<1> QED BY <1>2, <1>5, GuardarEs DEF Puesta!crear_usuarios_predeterminados

\* A certification.
LEMMA CertificacionEs ==
    ASSUME NEW en
    PROVE  Tramo(0, Puesta(en)!crear_certificacion,
           {Puesta(en)!Administrador} \cup DeCurso(en) \cup DeCertificado(en), {}, 100, 100)
<1>1. Lugar("Certificacion", "now", 0) = 100
  BY DEF Lugar
<1>2. PICK f : f = Puesta(en)!Fila(Puesta(en)!Raiz("Certificacion", "now"),
                        {Puesta(en)!Administrador, Puesta(en)!Raiz("Curso", "now"),
                          Puesta(en)!Raiz("Certificado", "default")})
  OBVIOUS
<1>3. /\ f.refiere \subseteq {Puesta(en)!Administrador} \cup DeCurso(en) \cup DeCertificado(en)
      /\ Nivel(f.clave) = 100
  BY <1>1, <1>2, FilaEs, RaizEs DEF DeCurso, DeCertificado
<1>4. Conjunto({f}, {Puesta(en)!Administrador} \cup DeCurso(en) \cup DeCertificado(en), 100) /\
        DaEn({f}, {})
  BY <1>3 DEF Conjunto, DaEn
<1> QED BY <1>2, <1>4, GuardarEs DEF Puesta!crear_certificacion

\* The first post of the blog and its tags.
LEMMA BlogEs ==
    ASSUME NEW en
    PROVE  Tramo(0, Puesta(en)!crear_blog_post_predeterminado, {Puesta(en)!Administrador}, {}, 110,
           110)
<1> DEFINE ns == {"online-learning", "education", "lms", "pedagogy", "andragogy"}
<1>1. Lugar("BlogPost", "post", 0) = 110 /\ \A c \in ns : Lugar("BlogTag", c, 0) = 110
  BY DEF Lugar
<1>2. PICK f : f = Puesta(en)!Fila(Puesta(en)!Raiz("BlogPost", "post"), {Puesta(en)!Administrador})
  OBVIOUS
<1>3. f.refiere = {Puesta(en)!Administrador} /\ Nivel(f.clave) = 110
  BY <1>1, <1>2, FilaEs, RaizEs
<1>4. Conjunto({f}, {Puesta(en)!Administrador}, 110)
  BY <1>3 DEF Conjunto
<1>5. Conjunto(Puesta(en)!Sueltas("BlogTag", ns), {}, 110)
  BY <1>1, SueltasEs
<1>6. PICK gs : gs = Puesta(en)!Sueltas("BlogTag", ns)
  OBVIOUS
<1>7. Conjunto({f} \cup gs, {Puesta(en)!Administrador}, 110) /\ DaEn({f} \cup gs, {})
  BY <1>4, <1>5, <1>6, UneConjuntos DEF DaEn
<1>8. Puesta(en)!crear_blog_post_predeterminado = Puesta(en)!GuardarSiFaltan({f} \cup gs)
  BY <1>2, <1>6 DEF Puesta!crear_blog_post_predeterminado
<1> QED BY <1>7, <1>8, GuardarSiFaltanEs

\* The pages.
LEMMA PaginasEs ==
    ASSUME NEW en
    PROVE  Tramo(0, Puesta(en)!crear_paginas_estaticas_predeterminadas, {}, {}, 120, 120)
<1>1. \A c \in {"about-us", "privacy-policy"} : Lugar("CustomPage", c, 0) = 120
  BY DEF Lugar
<1>2. Conjunto(Puesta(en)!Sueltas("CustomPage", {"about-us", "privacy-policy"}), {}, 120)
  BY <1>1, SueltasEs
<1>3. \A fs : DaEn(fs, {})
  BY DEF DaEn
<1> QED BY <1>2, <1>3, GuardarSiFaltanEs DEF Puesta!crear_paginas_estaticas_predeterminadas

----------------------------------------
(* The examples *)

DeCategoria(en) == {Puesta(en)!Raiz("Categoria", c) : c \in Puesta(en)!Categorias}
DeEtiqueta(en) == {Puesta(en)!Raiz("Etiqueta", c) : c \in Puesta(en)!Etiquetas}
DeDemo(en) == {Puesta(en)!Raiz("Curso", "resources"), Puesta(en)!Raiz("Curso", "postgresql"),
  Puesta(en)!Raiz("Curso", "python"), Puesta(en)!Raiz("Curso", "html")}
DePrograma(en) == {Puesta(en)!Raiz("Programa", "P001")}

\* Rows that refer to none give their keys.
LEMMA SueltasDan ==
    ASSUME NEW en, NEW t, NEW ns
    PROVE  DaEn(Puesta(en)!Sueltas(t, ns), {Puesta(en)!Raiz(t, c) : c \in ns})
<1>1. ASSUME NEW c \in ns PROVE \E g \in Puesta(en)!Sueltas(t, ns) : g.clave = Puesta(en)!Raiz(t, c)
  <2>1. Puesta(en)!Fila(Puesta(en)!Raiz(t, c), {}) \in Puesta(en)!Sueltas(t, ns)
    BY DEF Puesta!Sueltas, Puesta!Suelta
  <2>2. Puesta(en)!Fila(Puesta(en)!Raiz(t, c), {}).clave = Puesta(en)!Raiz(t, c)
    BY FilaEs
  <2> QED BY <2>1, <2>2
<1> QED BY <1>1 DEF DaEn

\* The categories and the tags.
LEMMA CategoriasEs ==
    ASSUME NEW en
    PROVE  /\ Tramo(0, Puesta(en)!crear_categorias, {}, DeCategoria(en), 150, 150)
           /\ Tramo(0, Puesta(en)!crear_etiquetas, {}, DeEtiqueta(en), 160, 160)
<1>1. \A c \in Puesta(en)!Categorias : Lugar("Categoria", c, 0) = 150
  BY DEF Lugar, Puesta!Categorias
<1>2. \A c \in Puesta(en)!Etiquetas : Lugar("Etiqueta", c, 0) = 160
  BY DEF Lugar, Puesta!Etiquetas
<1>3. Conjunto(Puesta(en)!Sueltas("Categoria", Puesta(en)!Categorias), {}, 150)
  BY <1>1, SueltasEs
<1>4. Conjunto(Puesta(en)!Sueltas("Etiqueta", Puesta(en)!Etiquetas), {}, 160)
  BY <1>2, SueltasEs
<1>5. DaEn(Puesta(en)!Sueltas("Categoria", Puesta(en)!Categorias), DeCategoria(en)) /\
        DaEn(Puesta(en)!Sueltas("Etiqueta", Puesta(en)!Etiquetas), DeEtiqueta(en))
  BY SueltasDan DEF DeCategoria, DeEtiqueta
<1> QED BY <1>3, <1>4, <1>5, GuardarEs DEF Puesta!crear_categorias, Puesta!crear_etiquetas

\* A course is one commit.
LEMMA UnCursoEs ==
    ASSUME NEW en, NEW c, NEW n \in Int, Lugar("Curso", c, 0) = n
    PROVE  Tramo(0, Puesta(en)!Guardar({Puesta(en)!Curso(c, "default")}), DeCertificado(en),
           {Puesta(en)!Raiz("Curso", c)}, n, n)
<1>1. PICK f : f = Puesta(en)!Curso(c, "default")
  OBVIOUS
<1>2. f.clave = Puesta(en)!Raiz("Curso", c) /\ f.refiere \subseteq DeCertificado(en)
  BY <1>1, CursoEs DEF DeCertificado
<1>3. Nivel(f.clave) = n
  BY <1>2, RaizEs
<1>4. Conjunto({f}, DeCertificado(en), n) /\ DaEn({f}, {Puesta(en)!Raiz("Curso", c)})
  BY <1>2, <1>3 DEF Conjunto, DaEn
<1> QED BY <1>1, <1>4, GuardarEs

\* A course, its logo and what it has.
LEMMA UnaDemoEs ==
    ASSUME NEW en, NEW c, NEW d, NEW rs, NEW n \in Int, Lugar("Curso", c, 0) = n,
           \A k : Lugar("CursoSeccion", c, k) = n + 20 /\ Lugar("CursoRecurso", c, k) = n + 20
    PROVE  Tramo(0,
           Puesta(en)!Guardar({Puesta(en)!Curso(c,
           "default")}) \o Puesta(en)!curse_logo(d) \o Puesta(en)!Guardar(Puesta(en)!Contenido(c,
           rs)),
                 DeCertificado(en), {Puesta(en)!Raiz("Curso", c)}, n, n + 20)
<1>1. PICK s, t, u : /\ s = Puesta(en)!Guardar({Puesta(en)!Curso(c, "default")})
                     /\ t = Puesta(en)!curse_logo(d)
                     /\ u = Puesta(en)!Guardar(Puesta(en)!Contenido(c, rs))
  OBVIOUS
<1>2. PICK K : K = {Puesta(en)!Raiz("Curso", c)}
  OBVIOUS
<1>3. PICK a, b : a = n + 10 /\ b = n + 20
  OBVIOUS
<1>4. a \in Int /\ b \in Int /\ n < a /\ a < b
  BY <1>3
<1>5. Tramo(0, s, DeCertificado(en), K, n, n)
  BY <1>1, <1>2, UnCursoEs
<1>6. Tramo(0, t, {}, {}, a, a)
  BY <1>1, <1>4, CopiarEnNuevoEs DEF Puesta!curse_logo
<1>7. Conjunto(Puesta(en)!Contenido(c, rs), K, b)
  BY <1>2, <1>3, ContenidoEs
<1>8. Tramo(0, u, K, {}, b, b)
  <2>1. DaEn(Puesta(en)!Contenido(c, rs), {})
    BY DEF DaEn
  <2> QED BY <1>1, <1>4, <1>7, <2>1, GuardarEs
<1>9. Tramo(0, s \o t, DeCertificado(en), K, n, a)
  BY <1>4, <1>5, <1>6, TrasDe
<1>10. Tramo(0, s \o t \o u, DeCertificado(en), K, n, b)
  BY <1>4, <1>8, <1>9, TrasDe
<1> QED BY <1>1, <1>2, <1>3, <1>10

\* The course of the resources, with its files.
LEMMA DemoEs ==
    ASSUME NEW en
    PROVE  Tramo(0, Puesta(en)!crear_curso_demo, DeCertificado(en),
           {Puesta(en)!Raiz("Curso", "resources")}, 170, 230)
<1> DEFINE rs == <<{1, 2, 3, 4, 5, 6, 7, 9}>>
<1>1. /\ Lugar("Curso", "resources", 0) = 170
      /\ \A k : Lugar("CursoSeccion", "resources", k) = 230 /\
           Lugar("CursoRecurso", "resources", k) = 230
  BY DEF Lugar
<1>2. PICK K : K = {Puesta(en)!Raiz("Curso", "resources")}
  OBVIOUS
<1>3. PICK s, u : s = Puesta(en)!Guardar({Puesta(en)!Curso("resources", "default")}) /\
        u = Puesta(en)!Guardar(Puesta(en)!Contenido("resources", rs))
  OBVIOUS
<1>4. PICK a, b : a = Puesta(en)!curse_logo("public/images/resources") /\
        b = Puesta(en)!curse_logo("public/images/details")
  OBVIOUS
<1>5. PICK c, d, e : c = Puesta(en)!copy_sample_audio /\ d = Puesta(en)!copy_sample_pdf /\
        e = Puesta(en)!copy_sample_img
  OBVIOUS
<1>6. Tramo(0, a, {}, {}, 171, 171) /\ Tramo(0, b, {}, {}, 172, 172)
  BY <1>4, CopiarEnNuevoEs DEF Puesta!curse_logo
<1>7. Tramo(0, c, {}, {}, 173, 173) /\ Tramo(0, d, {}, {}, 174, 174) /\
        Tramo(0, e, {}, {}, 175, 175)
  BY <1>5, CopiarEnNuevoEs DEF Puesta!copy_sample_audio, Puesta!copy_sample_pdf,
     Puesta!copy_sample_img
<1>8. Tramo(0, s, DeCertificado(en), K, 170, 170)
  BY <1>1, <1>2, <1>3, UnCursoEs
<1>9. Tramo(0, u, K, {}, 230, 230)
  <2>1. Conjunto(Puesta(en)!Contenido("resources", rs), K, 230)
    BY <1>1, <1>2, ContenidoEs
  <2>2. DaEn(Puesta(en)!Contenido("resources", rs), {})
    BY DEF DaEn
  <2> QED BY <1>3, <2>1, <2>2, GuardarEs
<1>10. Tramo(0, s \o a, DeCertificado(en), K, 170, 171)
  BY <1>6, <1>8, TrasDe
<1>11. Tramo(0, s \o a \o b, DeCertificado(en), K, 170, 172)
  BY <1>6, <1>10, TrasDe
<1>12. Tramo(0, s \o a \o b \o c, DeCertificado(en), K, 170, 173)
  BY <1>7, <1>11, TrasDe
<1>13. Tramo(0, s \o a \o b \o c \o d, DeCertificado(en), K, 170, 174)
  BY <1>7, <1>12, TrasDe
<1>14. Tramo(0, s \o a \o b \o c \o d \o e, DeCertificado(en), K, 170, 175)
  BY <1>7, <1>13, TrasDe
<1>15. Tramo(0, s \o a \o b \o c \o d \o e \o u, DeCertificado(en), K, 170, 230)
  BY <1>9, <1>14, TrasDe
<1> QED BY <1>2, <1>3, <1>4, <1>5, <1>15 DEF Puesta!crear_curso_demo

\* The other courses.
LEMMA DemosEs ==
    ASSUME NEW en
    PROVE  /\ Tramo(0, Puesta(en)!crear_curso_demo1, DeCertificado(en),
                {Puesta(en)!Raiz("Curso", "postgresql")}, 240, 260)
           /\ Tramo(0, Puesta(en)!crear_curso_demo2, DeCertificado(en),
                {Puesta(en)!Raiz("Curso", "python")}, 270, 290)
           /\ Tramo(0, Puesta(en)!crear_curso_demo3, DeCertificado(en),
                {Puesta(en)!Raiz("Curso", "html")}, 300, 320)
<1>1. /\ Lugar("Curso", "postgresql", 0) = 240
      /\ \A k : Lugar("CursoSeccion", "postgresql", k) = 240 + 20 /\
           Lugar("CursoRecurso", "postgresql", k) = 240 + 20
  BY DEF Lugar
<1>2. /\ Lugar("Curso", "python", 0) = 270
      /\ \A k : Lugar("CursoSeccion", "python", k) = 270 + 20 /\
           Lugar("CursoRecurso", "python", k) = 270 + 20
  BY DEF Lugar
<1>3. /\ Lugar("Curso", "html", 0) = 300
      /\ \A k : Lugar("CursoSeccion", "html", k) = 300 + 20 /\
           Lugar("CursoRecurso", "html", k) = 300 + 20
  BY DEF Lugar
<1>4. 240 \in Int /\ 270 \in Int /\ 300 \in Int /\ 240 + 20 = 260 /\ 270 + 20 = 290 /\
        300 + 20 = 320
  OBVIOUS
<1>5. Tramo(0, Puesta(en)!crear_curso_demo1, DeCertificado(en),
        {Puesta(en)!Raiz("Curso", "postgresql")}, 240, 260)
  BY <1>1, <1>4, UnaDemoEs DEF Puesta!crear_curso_demo1
<1>6. Tramo(0, Puesta(en)!crear_curso_demo2, DeCertificado(en),
        {Puesta(en)!Raiz("Curso", "python")}, 270, 290)
  BY <1>2, <1>4, UnaDemoEs DEF Puesta!crear_curso_demo2
<1>7. Tramo(0, Puesta(en)!crear_curso_demo3, DeCertificado(en), {Puesta(en)!Raiz("Curso", "html")},
        300, 320)
  BY <1>3, <1>4, UnaDemoEs DEF Puesta!crear_curso_demo3
<1> QED BY <1>5, <1>6, <1>7

\* A row that joins two.
LEMMA UnionEs ==
    ASSUME NEW en, NEW t, NEW c, NEW a, NEW b
    PROVE  /\ Puesta(en)!Union(t, c, a, b).refiere = {a, b}
           /\ Nivel(Puesta(en)!Union(t, c, a, b).clave) = Lugar(t, c, 0)
BY FilaEs, LugarEs DEF Puesta!Union

\* Rows that join courses with what they are given.
LEMMA AsignadosEs ==
    ASSUME NEW en, NEW t, NEW de, NEW nombre, NEW K, NEW n,
           \A c \in DOMAIN nombre : /\ Lugar(t, c, 0) = n
                                    /\ Puesta(en)!Raiz("Curso", c) \in K
                                    /\ Puesta(en)!Raiz(de, nombre[c]) \in K
    PROVE  Conjunto(Puesta(en)!Asignados(t, de, nombre), K, n)
<1>1. ASSUME NEW f \in Puesta(en)!Asignados(t, de, nombre)
      PROVE  Nivel(f.clave) = n /\ f.refiere \subseteq K
  <2>1. PICK c \in DOMAIN nombre :
          f = Puesta(en)!Union(t, c, Puesta(en)!Raiz("Curso", c), Puesta(en)!Raiz(de, nombre[c]))
    BY DEF Puesta!Asignados
  <2>2. f.refiere = {Puesta(en)!Raiz("Curso", c), Puesta(en)!Raiz(de, nombre[c])} /\
          Nivel(f.clave) = Lugar(t, c, 0)
    BY <2>1, UnionEs
  <2> QED BY <2>2
<1> QED BY <1>1 DEF Conjunto

\* The tags and the categories of the courses.
LEMMA AsignacionesEs ==
    ASSUME NEW en
    PROVE  /\ Tramo(0, Puesta(en)!asignar_cursos_a_etiquetas,
                DeCurso(en) \cup DeDemo(en) \cup DeEtiqueta(en), {}, 330, 330)
           /\ Tramo(0, Puesta(en)!asignar_cursos_a_categoria,
                DeCurso(en) \cup DeDemo(en) \cup DeCategoria(en), {}, 340, 340)
<1>1. PICK ne : ne = [postgresql |-> "Postgresql", python |-> "Python", html |-> "HTML",
                      now |-> "Learning", resources |-> "Learning"]
  OBVIOUS
<1>2. PICK nc : nc = [postgresql |-> "Programing", python |-> "Programing", html |-> "Programing",
                      now |-> "Learning", resources |-> "Learning"]
  OBVIOUS
<1>3. \A c \in DOMAIN ne : /\ c \in {"postgresql", "python", "html", "now", "resources"}
                           /\ ne[c] \in Puesta(en)!Etiquetas
  BY <1>1 DEF Puesta!Etiquetas
<1>4. \A c \in DOMAIN nc : /\ c \in {"postgresql", "python", "html", "now", "resources"}
                           /\ nc[c] \in Puesta(en)!Categorias
  BY <1>2 DEF Puesta!Categorias
<1>5. \A c \in {"postgresql", "python", "html", "now", "resources"} :
         Puesta(en)!Raiz("Curso", c) \in DeCurso(en) \cup DeDemo(en) /\
           Lugar("EtiquetaCurso", c, 0) = 330
         /\ Lugar("CategoriaCurso", c, 0) = 340
  BY DEF DeCurso, DeDemo, Lugar
<1>6. (\A e \in Puesta(en)!Etiquetas : Puesta(en)!Raiz("Etiqueta", e) \in DeEtiqueta(en)) /\
        \A e \in Puesta(en)!Categorias : Puesta(en)!Raiz("Categoria", e) \in DeCategoria(en)
  BY DEF DeEtiqueta, DeCategoria
<1>7. Conjunto(Puesta(en)!Asignados("EtiquetaCurso", "Etiqueta", ne),
        DeCurso(en) \cup DeDemo(en) \cup DeEtiqueta(en), 330)
  BY <1>3, <1>5, <1>6, AsignadosEs
<1>8. Conjunto(Puesta(en)!Asignados("CategoriaCurso", "Categoria", nc),
        DeCurso(en) \cup DeDemo(en) \cup DeCategoria(en), 340)
  BY <1>4, <1>5, <1>6, AsignadosEs
<1>9. \A fs : DaEn(fs, {})
  BY DEF DaEn
<1>10. Tramo(0, Puesta(en)!Guardar(Puesta(en)!Asignados("EtiquetaCurso", "Etiqueta", ne)),
         DeCurso(en) \cup DeDemo(en) \cup DeEtiqueta(en), {}, 330, 330)
  BY <1>7, <1>9, GuardarEs
<1>11. Tramo(0, Puesta(en)!Guardar(Puesta(en)!Asignados("CategoriaCurso", "Categoria", nc)),
         DeCurso(en) \cup DeDemo(en) \cup DeCategoria(en), {}, 340, 340)
  BY <1>8, <1>9, GuardarEs
<1> QED BY <1>1, <1>2, <1>10, <1>11 DEF Puesta!asignar_cursos_a_etiquetas,
       Puesta!asignar_cursos_a_categoria

\* One row that joins two.
LEMMA UnaUnionEs ==
    ASSUME NEW en, NEW t, NEW c, NEW a, NEW b, NEW K, NEW n \in Int, Lugar(t, c, 0) = n, a \in K,
           b \in K
    PROVE  Tramo(0, Puesta(en)!Guardar({Puesta(en)!Union(t, c, a, b)}), K, {}, n, n)
<1>1. PICK f : f = Puesta(en)!Union(t, c, a, b)
  OBVIOUS
<1>2. Nivel(f.clave) = n /\ f.refiere \subseteq K
  BY <1>1, UnionEs
<1>3. Conjunto({f}, K, n) /\ DaEn({f}, {})
  BY <1>2 DEF Conjunto, DaEn
<1> QED BY <1>1, <1>3, GuardarEs

\* The program.
LEMMA ProgramaEs ==
    ASSUME NEW en
    PROVE  Tramo(0, Puesta(en)!crear_programa, DeCertificado(en) \cup DeDemo(en), DePrograma(en),
           350, 370)
<1>1. Lugar("Programa", "P001", 0) = 360 /\ \A c : c # "lms-training"
        => Lugar("ProgramaCurso", c, 0) = 370
  BY DEF Lugar
<1>2. PICK s : s = Puesta(en)!curse_logo("public/images/programP001")
  OBVIOUS
<1>3. Tramo(0, s, {}, {}, 350, 350)
  BY <1>2, CopiarEnNuevoEs DEF Puesta!curse_logo
<1>4. PICK f :
        f = Puesta(en)!Fila(Puesta(en)!Raiz("Programa", "P001"),
        {Puesta(en)!Raiz("Certificado", "default")})
  OBVIOUS
<1>5. f.clave = Puesta(en)!Raiz("Programa", "P001") /\ Nivel(f.clave) = 360 /\
        f.refiere \subseteq DeCertificado(en)
  BY <1>1, <1>4, FilaEs, RaizEs DEF DeCertificado
<1>6. Conjunto({f}, DeCertificado(en), 360) /\ DaEn({f}, DePrograma(en))
  BY <1>5 DEF Conjunto, DaEn, DePrograma
<1>7. PICK t : t = Puesta(en)!Guardar({f})
  OBVIOUS
<1>8. Tramo(0, t, DeCertificado(en), DePrograma(en), 360, 360)
  BY <1>6, <1>7, GuardarEs
<1>9. PICK fs :
        fs = {Puesta(en)!Union("ProgramaCurso", c, Puesta(en)!Raiz("Programa", "P001"),
        Puesta(en)!Raiz("Curso", c)) :
                        c \in {"postgresql", "python", "html"}}
  OBVIOUS
<1>10. ASSUME NEW g \in fs
       PROVE Nivel(g.clave) = 370 /\ g.refiere \subseteq DePrograma(en) \cup DeDemo(en)
  <2>1. PICK c \in {"postgresql", "python", "html"} :
               g = Puesta(en)!Union("ProgramaCurso", c, Puesta(en)!Raiz("Programa", "P001"),
                 Puesta(en)!Raiz("Curso", c))
    BY <1>9
  <2>2. Nivel(g.clave) = Lugar("ProgramaCurso", c, 0) /\
          g.refiere = {Puesta(en)!Raiz("Programa", "P001"), Puesta(en)!Raiz("Curso", c)}
    BY <2>1, UnionEs
  <2>3. c # "lms-training"
    BY <2>1
  <2> QED BY <1>1, <2>2, <2>3 DEF DePrograma, DeDemo
<1>11. Conjunto(fs, DePrograma(en) \cup DeDemo(en), 370) /\ DaEn(fs, {})
  BY <1>10 DEF Conjunto, DaEn
<1>12. PICK u : u = Puesta(en)!Guardar(fs)
  OBVIOUS
<1>13. Tramo(0, u, DePrograma(en) \cup DeDemo(en), {}, 370, 370)
  BY <1>11, <1>12, GuardarEs
<1>14. Tramo(0, s, DeCertificado(en) \cup DeDemo(en), {}, 350, 350)
  BY <1>3, Menos
<1>15. Tramo(0, s \o t, DeCertificado(en) \cup DeDemo(en), DePrograma(en), 350, 360)
  BY <1>8, <1>14, TrasDe
<1>16. Tramo(0, s \o t \o u, DeCertificado(en) \cup DeDemo(en), DePrograma(en), 350, 370)
  BY <1>13, <1>15, TrasDe
<1> QED BY <1>2, <1>4, <1>7, <1>9, <1>12, <1>16 DEF Puesta!crear_programa

\* The tags and the categories of the program.
LEMMA DelProgramaEs ==
    ASSUME NEW en
    PROVE  /\ Tramo(0, Puesta(en)!asignar_programas_a_etiquetas, DePrograma(en) \cup DeEtiqueta(en),
                {}, 380, 380)
           /\ Tramo(0, Puesta(en)!asignar_programas_a_categoria,
                DePrograma(en) \cup DeCategoria(en), {}, 390, 390)
<1>1. Lugar("EtiquetaPrograma", "P001", 0) = 380 /\ Lugar("CategoriaPrograma", "P001", 0) = 390
  BY DEF Lugar
<1>2. "Learning" \in Puesta(en)!Etiquetas /\ "Learning" \in Puesta(en)!Categorias
  BY DEF Puesta!Etiquetas, Puesta!Categorias
<1>3. /\ Puesta(en)!Raiz("Programa", "P001") \in DePrograma(en)
      /\ Puesta(en)!Raiz("Etiqueta", "Learning") \in DeEtiqueta(en)
      /\ Puesta(en)!Raiz("Categoria", "Learning") \in DeCategoria(en)
  BY <1>2 DEF DePrograma, DeEtiqueta, DeCategoria
<1> QED BY <1>1, <1>3, UnaUnionEs DEF Puesta!asignar_programas_a_etiquetas,
       Puesta!asignar_programas_a_categoria

\* The resources to download, with their files.
LEMMA DescargableEs ==
    ASSUME NEW en
    PROVE  Tramo(0, Puesta(en)!crear_recurso_descargable, DeCurso(en), {}, 400, 420)
<1> DEFINE ns == {"R001", "R002", "R003", "R004", "R005"}
<1>1. \A c \in ns : Lugar("Recurso", c, 0) = 400
  BY DEF Lugar
<1>2. Lugar("CursoRecursoDescargable", "now", 0) = 420
  BY DEF Lugar
<1>3. PICK fs : fs = Puesta(en)!Sueltas("Recurso", ns)
  OBVIOUS
<1>4. Conjunto(fs, {}, 400) /\ \E g \in fs : g.clave = Puesta(en)!Raiz("Recurso", "R005")
  BY <1>1, <1>3, SueltasEs
<1>5. PICK J : J = {Puesta(en)!Raiz("Recurso", "R005")}
  OBVIOUS
<1>6. PICK s : s = Puesta(en)!Guardar(fs)
  OBVIOUS
<1>7. Tramo(0, s, {}, J, 400, 400)
  BY <1>4, <1>5, <1>6, GuardarEs DEF DaEn
<1>8. PICK x, y, v, w :
         /\ x = Puesta(en)!Paso("directorio", {}, "public/files/resources_files",
              "the other directory")
         /\ y = Puesta(en)!Paso("directorio", {}, "public/images/resources_files", "")
         /\ v = Puesta(en)!Paso("copiar", {}, "public/files/resources_files",
              "R001.pdf ... R005.pdf")
         /\ w = Puesta(en)!Paso("copiar", {}, "public/images/resources_files",
              "R001.jpg ... R005.jpg")
  OBVIOUS
<1>9. SinFilas(x) /\ SinFilas(y) /\ SinFilas(v) /\ SinFilas(w) /\ ~Salta(w)
  BY <1>8 DEF Puesta!Paso, SinFilas, Salta, Guarda
<1>10. PICK t : t = <<x, y, v, w>>
  OBVIOUS
<1>11. t \in Seq({x, y, v, w}) /\ Len(t) = 4 /\ t[1] = x /\ t[2] = y /\ t[3] = v /\ t[4] = w
  BY <1>10
<1>12. \A k \in 1..4 : k = 1 \/ k = 2 \/ k = 3 \/ k = 4
  OBVIOUS
<1>13. \A k \in 1..Len(t) : SinFilas(t[k])
  BY <1>9, <1>11, <1>12
<1>14. Serie(t) /\ Len(t) \in Nat /\ ~Salta(t[Len(t)])
  BY <1>9, <1>11 DEF Serie
<1>15. Tramo(0, t, {}, {}, 410, 410)
  BY <1>13, <1>14, SinFilasEs
<1>16. PICK u :
         u = Puesta(en)!Guardar({Puesta(en)!Union("CursoRecursoDescargable", "now",
         Puesta(en)!Raiz("Curso", "now"), Puesta(en)!Raiz("Recurso", "R005"))})
  OBVIOUS
<1>17. Tramo(0, u, DeCurso(en) \cup J, {}, 420, 420)
  BY <1>2, <1>5, <1>16, UnaUnionEs DEF DeCurso
<1>18. Tramo(0, s, DeCurso(en), J, 400, 400)
  BY <1>7, Menos
<1>19. Tramo(0, s \o t, DeCurso(en), J, 400, 410)
  BY <1>15, <1>18, TrasDe
<1>20. Tramo(0, s \o t \o u, DeCurso(en), {}, 400, 420)
  BY <1>17, <1>19, TrasDe
<1> QED BY <1>3, <1>6, <1>8, <1>10, <1>16, <1>20 DEF Puesta!crear_recurso_descargable

\* The examples, one after the other.
LEMMA EjemplosEs ==
    ASSUME NEW en
    PROVE  Tramo(0, Puesta(en)!Ejemplos, DeCertificado(en) \cup DeCurso(en), {}, 150, 420)
<1>1. PICK a, b, c, d, e, f : /\ a = Puesta(en)!crear_categorias
                              /\ b = Puesta(en)!crear_etiquetas /\ c = Puesta(en)!crear_curso_demo
                              /\ d = Puesta(en)!crear_curso_demo1
                              /\ e = Puesta(en)!crear_curso_demo2
                              /\ f = Puesta(en)!crear_curso_demo3
  OBVIOUS
<1>2. PICK g, h, i, j, k, l : /\ g = Puesta(en)!asignar_cursos_a_etiquetas
                              /\ h = Puesta(en)!asignar_cursos_a_categoria
                              /\ i = Puesta(en)!crear_programa
                              /\ j = Puesta(en)!asignar_programas_a_etiquetas
                              /\ k = Puesta(en)!asignar_programas_a_categoria
                              /\ l = Puesta(en)!crear_recurso_descargable
  OBVIOUS
<1>3. PICK K, J : K = DeCertificado(en) \cup DeCurso(en) /\ J = DeCategoria(en) \cup DeEtiqueta(en)
  OBVIOUS
<1>4. Tramo(0, a, K, DeCategoria(en), 150, 150)
  BY <1>1, CategoriasEs, Menos
<1>5. Tramo(0, a \o b, K, J, 150, 160)
  BY <1>1, <1>3, <1>4, CategoriasEs, TrasDe
<1>6. PICK R : R = {Puesta(en)!Raiz("Curso", "resources")}
  OBVIOUS
<1>7. Tramo(0, a \o b \o c, K, J \cup R, 150, 230)
  BY <1>1, <1>3, <1>5, <1>6, DemoEs, TrasDe
<1>8. PICK P : P = {Puesta(en)!Raiz("Curso", "postgresql")}
  OBVIOUS
<1>9. Tramo(0, a \o b \o c \o d, K, J \cup R \cup P, 150, 260)
  <2>1. Tramo(0, d, DeCertificado(en), P, 240, 260)
    BY <1>1, <1>8, DemosEs
  <2> QED BY <1>3, <1>7, <2>1, TrasDe
<1>10. PICK Y : Y = {Puesta(en)!Raiz("Curso", "python")}
  OBVIOUS
<1>11. Tramo(0, a \o b \o c \o d \o e, K, J \cup R \cup P \cup Y, 150, 290)
  <2>1. Tramo(0, e, DeCertificado(en), Y, 270, 290)
    BY <1>1, <1>10, DemosEs
  <2> QED BY <1>3, <1>9, <2>1, TrasDe
<1>12. PICK H : H = {Puesta(en)!Raiz("Curso", "html")}
  OBVIOUS
<1>13. PICK D : D = DeDemo(en)
  OBVIOUS
<1>14. J \cup D \subseteq J \cup R \cup P \cup Y \cup H
  BY <1>6, <1>8, <1>10, <1>12, <1>13 DEF DeDemo
<1>15. Tramo(0, a \o b \o c \o d \o e \o f, K, J \cup D, 150, 320)
  <2>1. Tramo(0, f, DeCertificado(en), H, 300, 320)
    BY <1>1, <1>12, DemosEs
  <2> QED BY <1>3, <1>11, <1>14, <2>1, TrasDe
<1>16. PICK s : s = a \o b \o c \o d \o e \o f
  OBVIOUS
<1>17. Tramo(0, s, K, J \cup D, 150, 320)
  BY <1>15, <1>16
<1>18. Tramo(0, s \o g, K, J \cup D, 150, 330)
  <2>1. Tramo(0, g, DeCurso(en) \cup D \cup DeEtiqueta(en), {}, 330, 330)
    BY <1>2, <1>13, AsignacionesEs
  <2> QED BY <1>3, <1>17, <2>1, TrasDe
<1>19. Tramo(0, s \o g \o h, K, J \cup D, 150, 340)
  <2>1. Tramo(0, h, DeCurso(en) \cup D \cup DeCategoria(en), {}, 340, 340)
    BY <1>2, <1>13, AsignacionesEs
  <2> QED BY <1>3, <1>18, <2>1, TrasDe
<1>20. PICK Q : Q = DePrograma(en)
  OBVIOUS
<1>21. Tramo(0, s \o g \o h \o i, K, J \cup D \cup Q, 150, 370)
  <2>1. Tramo(0, i, DeCertificado(en) \cup D, Q, 350, 370)
    BY <1>2, <1>13, <1>20, ProgramaEs
  <2> QED BY <1>3, <1>19, <2>1, TrasDe
<1>22. Tramo(0, s \o g \o h \o i \o j, K, J \cup D \cup Q, 150, 380)
  <2>1. Tramo(0, j, Q \cup DeEtiqueta(en), {}, 380, 380)
    BY <1>2, <1>20, DelProgramaEs
  <2> QED BY <1>3, <1>21, <2>1, TrasDe
<1>23. Tramo(0, s \o g \o h \o i \o j \o k, K, J \cup D \cup Q, 150, 390)
  <2>1. Tramo(0, k, Q \cup DeCategoria(en), {}, 390, 390)
    BY <1>2, <1>20, DelProgramaEs
  <2> QED BY <1>3, <1>22, <2>1, TrasDe
<1>24. Tramo(0, s \o g \o h \o i \o j \o k \o l, K, {}, 150, 420)
  BY <1>2, <1>3, <1>23, DescargableEs, TrasDe
<1> QED BY <1>1, <1>2, <1>3, <1>16, <1>24 DEF Puesta!Ejemplos

----------------------------------------
(* The whole script *)

\* The first steps: the tables, the stamp, the version, the configuration and
\* the templates of the certificates.
Cabeza(en) ==
    Puesta(en)!Esquema \o Puesta(en)!system_info \o Puesta(en)!crear_configuracion_predeterminada \o
    Puesta(en)!crear_certificados

\* The head of the script: the schema and the stamp.
LEMMA EsquemaEs ==
    ASSUME NEW en
    PROVE  /\ Tramo(2, Puesta(en)!Esquema, {}, {}, 0, 0) /\ Len(Puesta(en)!Esquema) = 2
           /\ Puesta(en)!Esquema[1].op = "esquema" /\ Puesta(en)!Esquema[2].op = "sello"
<1>1. PICK x, y : x = Puesta(en)!Paso("esquema", {}, "", "") /\
        y = Puesta(en)!Paso("sello", {}, "", "")
  OBVIOUS
<1>2. /\ ~Guarda(x) /\ x.op = "esquema" /\ x.op # "buscar" /\ ~Salta(x)
      /\ ~Guarda(y) /\ y.op = "sello" /\ y.op # "buscar" /\ ~Salta(y)
  BY <1>1 DEF Puesta!Paso, Guarda, Salta
<1>3. PICK s, t : s = Puesta(en)!Hacer("esquema") /\ t = Puesta(en)!Hacer("sello")
  OBVIOUS
<1>4. /\ Serie(s) /\ Len(s) = 1 /\ s[1] = x
      /\ Serie(t) /\ Len(t) = 1 /\ t[1] = y
  BY <1>1, <1>3, UnPaso DEF Puesta!Hacer
<1>5. PICK u : u = s \o t
  OBVIOUS
<1>6. /\ Serie(u) /\ Len(u) = Len(s) + Len(t)
      /\ \A k \in 1..Len(s) : u[k] = s[k]
      /\ \A k \in 1..Len(t) : u[k + Len(s)] = t[k]
  <2>1. Serie(s) /\ Serie(t)
    BY <1>4
  <2> QED BY <1>5, <2>1, Juntos
<1>7. Len(u) = 2 /\ u[1] = x /\ u[2] = y
  <2>1. 1 \in 1..1 /\ 1 + 1 = 2
    OBVIOUS
  <2>2. u[1] = x /\ u[1 + 1] = y
    BY <1>4, <1>6, <2>1
  <2> QED BY <1>4, <1>6, <2>1, <2>2
<1>8. \A k \in 1..2 : k = 1 \/ k = 2
  OBVIOUS
<1>9. \A k \in 1..2 : ~Guarda(u[k]) /\ u[k].op # "buscar" /\ ~Salta(u[k])
  BY <1>2, <1>7, <1>8
<1>10. Ordenado(2, u)
  BY <1>7, <1>9 DEF Ordenado
<1>11. Nivelado(u, 0, 0) /\ Referido(u, {})
  BY <1>7, <1>9 DEF Nivelado, Referido
<1>12. Tramo(2, u, {}, {}, 0, 0)
  <2>1. Serie(u)
    BY <1>6
  <2> QED BY <1>10, <1>11, <2>1 DEF Tramo
<1> QED BY <1>2, <1>3, <1>5, <1>7, <1>12 DEF Puesta!Esquema

\* What the rows of the version, of the configuration and of the certificates are.
DelSistema(en) == Puesta(en)!Sueltas("SystemInfo", {"version", "version_mayor", "version_menor"})
DelCertificado(en) == Puesta(en)!Sueltas("Certificado",
  {"demo", "default", "horizontal", "vertical", "elegante", "moderno",
        "clasico", "corporativo", "profesional", "programa_profesional", "programa"})

\* A script that begins that way.
Empieza(en, s) ==
    /\ Len(s) >= 6
    /\ s[1].op = "esquema" /\ s[2].op = "sello" /\ s[3].op = "buscar"
    /\ Guarda(s[4]) /\ s[4].filas = DelSistema(en)
    /\ Guarda(s[5]) /\ s[5].filas = Puesta(en)!Configuraciones
    /\ Guarda(s[6]) /\ s[6].filas = DelCertificado(en)

\* A script that goes on begins as it did.
LEMMA EmpiezaJunto ==
    ASSUME NEW en, NEW s, NEW t, Serie(s), Serie(t), Empieza(en, s)
    PROVE  Empieza(en, s \o t)
<1>1. PICK u : u = s \o t
  OBVIOUS
<1>2. /\ Len(s) \in Nat /\ Len(t) \in Nat /\ Len(u) = Len(s) + Len(t)
      /\ \A k \in 1..Len(s) : u[k] = s[k]
  BY <1>1, Juntos
<1>3. PICK ls, lt \in Nat : ls = Len(s) /\ lt = Len(t)
  BY <1>2
<1>4. ls >= 6
  BY <1>3 DEF Empieza
<1>5. \A k \in 1..6 : u[k] = s[k]
  BY <1>2, <1>3, <1>4
<1>6. u[1] = s[1] /\ u[2] = s[2] /\ u[3] = s[3] /\ u[4] = s[4] /\ u[5] = s[5] /\ u[6] = s[6]
  BY <1>5
<1>7. Len(u) >= 6
  BY <1>2, <1>3, <1>4
<1>8. Empieza(en, u)
  BY <1>6, <1>7 DEF Empieza
<1> QED BY <1>1, <1>8

\* Of a script so far: what it gives, and how far it came.
Va(s, J, b) == Tramo(2, s, {}, J, 0, b) /\ 2 <= Len(s)

\* Two parts of the script, one after the other.
LEMMA Sigue ==
    ASSUME NEW s, NEW t, NEW J, NEW L, NEW M, NEW N,
           NEW b \in Int, NEW c \in Int, NEW d \in Int, Va(s, J, b), Tramo(0, t, L, M, c, d),
           L \subseteq J, N \subseteq J \cup M, 0 <= b, b < c, c <= d
    PROVE  Va(s \o t, N, d)
<1>1. L \subseteq {} \cup J /\ 2 \in Nat /\ 0 \in Int
  OBVIOUS
<1>2. Tramo(2, s, {}, J, 0, b) /\ 2 <= Len(s)
  BY DEF Va
<1>3. Tramo(2, s \o t, {}, N, 0, d) /\ 2 <= Len(s \o t)
  BY <1>1, <1>2, Tras
<1> QED BY <1>3 DEF Va

\* The script begins with the schema, the stamp and the rows of the system.
LEMMA CabezaEs ==
    ASSUME NEW en
    PROVE  Va(Cabeza(en), DeCertificado(en), 30) /\ Empieza(en, Cabeza(en))
<1>1. PICK s, t, u, v : /\ s = Puesta(en)!Esquema /\ t = Puesta(en)!system_info
                        /\ u = Puesta(en)!crear_configuracion_predeterminada
                        /\ v = Puesta(en)!crear_certificados
  OBVIOUS
<1>2. /\ Tramo(2, s, {}, {}, 0, 0) /\ Tramo(0, t, {}, {}, 10, 10)
      /\ Tramo(0, u, {}, {}, 20, 20) /\ Tramo(0, v, {}, DeCertificado(en), 30, 30)
  BY <1>1, EsquemaEs, SistemaEs, ConfiguracionEs, CertificadosEs
<1>3. Len(s) = 2 /\ s[1].op = "esquema" /\ s[2].op = "sello"
  BY <1>1, EsquemaEs
<1>4. Va(s \o t, {}, 10)
  <2>1. Va(s, {}, 0)
    BY <1>2, <1>3 DEF Va
  <2> QED BY <1>2, <2>1, Sigue
<1>5. Va(s \o t \o u, {}, 20)
  BY <1>2, <1>4, Sigue
<1>6. Va(s \o t \o u \o v, DeCertificado(en), 30)
  BY <1>2, <1>5, Sigue
<1>7. PICK x, y : x = Puesta(en)!Paso("buscar", DelSistema(en), "", "") /\
        y = Puesta(en)!Paso("guardar", DelSistema(en), "", "")
  OBVIOUS
<1>8. PICK g, h : g = Puesta(en)!Paso("guardar", Puesta(en)!Configuraciones, "", "") /\
        h = Puesta(en)!Paso("guardar", DelCertificado(en), "", "")
  OBVIOUS
<1>9. x.op = "buscar" /\ Guarda(y) /\ y.filas = DelSistema(en)
  BY <1>7 DEF Puesta!Paso, Guarda
<1>10. Guarda(g) /\ g.filas = Puesta(en)!Configuraciones /\ Guarda(h) /\
         h.filas = DelCertificado(en)
  BY <1>8 DEF Puesta!Paso, Guarda
<1>11. Len(t) = 2 /\ t[1] = x /\ t[2] = y
  BY <1>1, <1>7, DosPasos DEF Puesta!system_info, Puesta!GuardarSiFaltan, DelSistema
<1>12. Len(u) = 1 /\ u[1] = g /\ Len(v) = 1 /\ v[1] = h
  BY <1>1, <1>8, UnPaso DEF Puesta!crear_configuracion_predeterminada, Puesta!crear_certificados,
     Puesta!Guardar, DelCertificado
<1>13. PICK a : a = s \o t
  OBVIOUS
<1>14. PICK b : b = a \o u
  OBVIOUS
<1>15. PICK c : c = b \o v
  OBVIOUS
<1>16. Serie(s) /\ Serie(t) /\ Serie(u) /\ Serie(v)
  BY <1>2 DEF Tramo
<1>17. /\ Serie(a) /\ Len(a) = Len(s) + Len(t)
       /\ \A k \in 1..Len(s) : a[k] = s[k]
       /\ \A k \in 1..Len(t) : a[k + Len(s)] = t[k]
  BY <1>13, <1>16, Juntos
<1>18. Len(a) = 4 /\ a[1] = s[1] /\ a[2] = s[2] /\ a[3] = x /\ a[4] = y
  <2>1. 1 \in 1..2 /\ 2 \in 1..2 /\ 1 + 2 = 3 /\ 2 + 2 = 4
    OBVIOUS
  <2>2. a[1] = s[1] /\ a[2] = s[2] /\ a[1 + 2] = x /\ a[2 + 2] = y
    BY <1>3, <1>11, <1>17, <2>1
  <2> QED BY <1>3, <1>11, <1>17, <2>1, <2>2
<1>19. /\ Serie(b) /\ Len(b) = Len(a) + Len(u)
       /\ \A k \in 1..Len(a) : b[k] = a[k]
       /\ \A k \in 1..Len(u) : b[k + Len(a)] = u[k]
  <2>1. Serie(a)
    BY <1>17
  <2> QED BY <1>14, <1>16, <2>1, Juntos
<1>20. Len(b) = 5 /\ b[1] = s[1] /\ b[2] = s[2] /\ b[3] = x /\ b[4] = y /\ b[5] = g
  <2>1. 1 \in 1..4 /\ 2 \in 1..4 /\ 3 \in 1..4 /\ 4 \in 1..4 /\ 1 \in 1..1 /\ 1 + 4 = 5
    OBVIOUS
  <2>2. b[1] = a[1] /\ b[2] = a[2] /\ b[3] = a[3] /\ b[4] = a[4] /\ b[1 + 4] = g
    BY <1>12, <1>18, <1>19, <2>1
  <2>3. Len(b) = 4 + 1
    BY <1>12, <1>18, <1>19
  <2> QED BY <1>18, <2>1, <2>2, <2>3
<1>21. /\ Serie(c) /\ Len(c) = Len(b) + Len(v)
       /\ \A k \in 1..Len(b) : c[k] = b[k]
       /\ \A k \in 1..Len(v) : c[k + Len(b)] = v[k]
  <2>1. Serie(b)
    BY <1>19
  <2> QED BY <1>15, <1>16, <2>1, Juntos
<1>22. Len(c) = 6 /\ c[1] = s[1] /\ c[2] = s[2] /\ c[3] = x /\ c[4] = y /\ c[5] = g /\ c[6] = h
  <2>1. 1 \in 1..5 /\ 2 \in 1..5 /\ 3 \in 1..5 /\ 4 \in 1..5 /\ 5 \in 1..5 /\ 1 \in 1..1 /\
          1 + 5 = 6
    OBVIOUS
  <2>2. c[1] = b[1] /\ c[2] = b[2] /\ c[3] = b[3] /\ c[4] = b[4] /\ c[5] = b[5] /\ c[1 + 5] = h
    BY <1>12, <1>20, <1>21, <2>1
  <2>3. Len(c) = 5 + 1
    BY <1>12, <1>20, <1>21
  <2> QED BY <1>20, <2>1, <2>2, <2>3
<1>23. Empieza(en, c)
  <2>1. Len(c) >= 6
    BY <1>22
  <2> QED BY <1>3, <1>9, <1>10, <1>22, <2>1 DEF Empieza
<1>24. Cabeza(en) = c
  BY <1>1, <1>13, <1>14, <1>15 DEF Cabeza
<1> QED BY <1>6, <1>13, <1>14, <1>15, <1>23, <1>24

\* Nothing is a part.
LEMMA NadaEs ==
    ASSUME NEW n \in Int
    PROVE  Tramo(0, <<>>, {}, {}, n, n)
<1>1. PICK s : s = <<>>
  OBVIOUS
<1>2. s \in Seq({}) /\ Len(s) = 0
  BY <1>1
<1>3. \A k \in 1..0 : FALSE
  OBVIOUS
<1>4. Ordenado(0, s) /\ Nivelado(s, n, n) /\ Referido(s, {})
  BY <1>2, <1>3 DEF Ordenado, Nivelado, Referido
<1>5. Serie(s)
  BY <1>2 DEF Serie
<1>6. Tramo(0, s, {}, {}, n, n)
  BY <1>4, <1>5 DEF Tramo
<1> QED BY <1>1, <1>6

\* Two parts in a row, of which the first begins that way.
LEMMA Luego ==
    ASSUME NEW en, NEW s, NEW t, NEW J, NEW L, NEW M, NEW N,
           NEW b \in Int, NEW c \in Int, NEW d \in Int,
           Va(s, J, b), Empieza(en, s), Tramo(0, t, L, M, c, d),
           L \subseteq J, N \subseteq J \cup M, 0 <= b, b < c, c <= d
    PROVE  Va(s \o t, N, d) /\ Empieza(en, s \o t)
<1>1. Serie(s) /\ Serie(t)
  BY DEF Tramo, Va
<1>2. Empieza(en, s \o t)
  BY <1>1, EmpiezaJunto
<1>3. Va(s \o t, N, d)
  BY Sigue
<1> QED BY <1>2, <1>3

\* The whole script is in order.
LEMMA SetupEs ==
    ASSUME NEW en
    PROVE  Va(Puesta(en)!initial_setup, {}, 420) /\ Empieza(en, Puesta(en)!initial_setup)
<1>1. PICK s : s = Cabeza(en)
  OBVIOUS
<1>2. PICK a, b, c, d : /\ a = Puesta(en)!crear_curso_predeterminado
                        /\ b = Puesta(en)!crear_curso_autoaprendizaje
                        /\ c = Puesta(en)!crear_evaluacion_predeterminada
                        /\ d = Puesta(en)!crear_usuarios_predeterminados
  OBVIOUS
<1>3. PICK e, f, g : /\ e = Puesta(en)!crear_certificacion
                     /\ f = Puesta(en)!crear_blog_post_predeterminado
                     /\ g = Puesta(en)!crear_paginas_estaticas_predeterminadas
  OBVIOUS
<1>4. PICK h, i, j : /\ h = Puesta(en)!populate_custmon_data_dir
                     /\ i = Puesta(en)!populate_custom_theme_dir
                     /\ j = (IF en.ejemplos THEN Puesta(en)!Ejemplos ELSE <<>>)
  OBVIOUS
<1>5. PICK C, K, S, A : /\ C = DeCertificado(en) /\ K = DeCurso(en) /\ S = DeSeccion
                        /\ A = {Puesta(en)!Administrador}
  OBVIOUS
<1>6. Va(s, C, 30) /\ Empieza(en, s)
  BY <1>1, <1>5, CabezaEs
<1>7. Va(s \o a, C \cup K \cup S, 60) /\ Empieza(en, s \o a)
  <2>1. Tramo(0, a, C, K \cup S, 40, 60)
    BY <1>2, <1>5, CursoPredeterminadoEs
  <2>3. C \subseteq C /\ (C \cup K \cup S) \subseteq (C) \cup (K \cup S)
    OBVIOUS
  <2> QED BY <1>6, <2>1, <2>3, Luego
<1>8. PICK s1 : s1 = s \o a
  OBVIOUS
<1>9. Va(s1 \o b, C \cup K \cup S, 70) /\ Empieza(en, s1 \o b)
  <2>1. Tramo(0, b, C, {}, 70, 70)
    BY <1>2, <1>5, AutoaprendizajeEs
  <2>2. Va(s1, C \cup K \cup S, 60) /\ Empieza(en, s1)
    BY <1>7, <1>8
  <2>3. C \subseteq (C \cup K \cup S) /\ (C \cup K \cup S) \subseteq (C \cup K \cup S) \cup ({})
    OBVIOUS
  <2> QED BY <2>1, <2>2, <2>3, Luego
<1>10. PICK s2 : s2 = s1 \o b
  OBVIOUS
<1>11. Va(s2 \o c, C \cup K, 80) /\ Empieza(en, s2 \o c)
  <2>1. Tramo(0, c, S, {}, 80, 80)
    BY <1>2, <1>5, EvaluacionPredeterminadaEs
  <2>2. Va(s2, C \cup K \cup S, 70) /\ Empieza(en, s2)
    BY <1>9, <1>10
  <2>3. S \subseteq (C \cup K \cup S) /\ (C \cup K) \subseteq (C \cup K \cup S) \cup ({})
    OBVIOUS
  <2> QED BY <2>1, <2>2, <2>3, Luego
<1>12. PICK s3 : s3 = s2 \o c
  OBVIOUS
<1>13. Va(s3 \o d, C \cup K \cup A, 90) /\ Empieza(en, s3 \o d)
  <2>1. Tramo(0, d, {}, A, 90, 90)
    BY <1>2, <1>5, UsuariosEs
  <2>2. Va(s3, C \cup K, 80) /\ Empieza(en, s3)
    BY <1>11, <1>12
  <2>3. {} \subseteq (C \cup K) /\ (C \cup K \cup A) \subseteq (C \cup K) \cup (A)
    OBVIOUS
  <2> QED BY <2>1, <2>2, <2>3, Luego
<1>14. PICK s4 : s4 = s3 \o d
  OBVIOUS
<1>15. Va(s4 \o e, C \cup K \cup A, 100) /\ Empieza(en, s4 \o e)
  <2>1. Tramo(0, e, A \cup K \cup C, {}, 100, 100)
    BY <1>3, <1>5, CertificacionEs
  <2>2. Va(s4, C \cup K \cup A, 90) /\ Empieza(en, s4)
    BY <1>13, <1>14
  <2>3. (A \cup K \cup C) \subseteq (C \cup K \cup A) /\
          (C \cup K \cup A) \subseteq (C \cup K \cup A) \cup ({})
    OBVIOUS
  <2> QED BY <2>1, <2>2, <2>3, Luego
<1>16. PICK s5 : s5 = s4 \o e
  OBVIOUS
<1>17. Va(s5 \o f, C \cup K, 110) /\ Empieza(en, s5 \o f)
  <2>0. PICK M, N, P : M = {} /\ N = C \cup K /\ P = C \cup K \cup A
    OBVIOUS
  <2>1. Tramo(0, f, A, M, 110, 110)
    BY <1>3, <1>5, <2>0, BlogEs
  <2>2. Va(s5, P, 100) /\ Empieza(en, s5)
    BY <1>15, <1>16, <2>0
  <2>3. A \subseteq P /\ N \subseteq P \cup M
    BY <2>0
  <2>4. Va(s5 \o f, N, 110) /\ Empieza(en, s5 \o f)
    BY <2>1, <2>2, <2>3, Luego
  <2> QED BY <2>0, <2>4
<1>18. PICK s6 : s6 = s5 \o f
  OBVIOUS
<1>19. Va(s6 \o g, C \cup K, 120) /\ Empieza(en, s6 \o g)
  <2>1. Tramo(0, g, {}, {}, 120, 120)
    BY <1>3, PaginasEs
  <2>2. Va(s6, C \cup K, 110) /\ Empieza(en, s6)
    BY <1>17, <1>18
  <2>3. {} \subseteq (C \cup K) /\ (C \cup K) \subseteq (C \cup K) \cup ({})
    OBVIOUS
  <2> QED BY <2>1, <2>2, <2>3, Luego
<1>20. PICK s7 : s7 = s6 \o g
  OBVIOUS
<1>21. Va(s7 \o h, C \cup K, 130) /\ Empieza(en, s7 \o h)
  <2>1. Tramo(0, h, {}, {}, 130, 130)
    BY <1>4, PopulateEs
  <2>2. Va(s7, C \cup K, 120) /\ Empieza(en, s7)
    BY <1>19, <1>20
  <2>3. {} \subseteq (C \cup K) /\ (C \cup K) \subseteq (C \cup K) \cup ({})
    OBVIOUS
  <2> QED BY <2>1, <2>2, <2>3, Luego
<1>22. PICK s8 : s8 = s7 \o h
  OBVIOUS
<1>23. Va(s8 \o i, C \cup K, 140) /\ Empieza(en, s8 \o i)
  <2>0. PICK M, N : M = {} /\ N = C \cup K
    OBVIOUS
  <2>1. Tramo(0, i, M, M, 140, 140)
    BY <1>4, <2>0, PopulateEs
  <2>2. Va(s8, N, 130) /\ Empieza(en, s8)
    BY <1>21, <1>22, <2>0
  <2>3. M \subseteq N /\ N \subseteq N \cup M
    BY <2>0
  <2>4. Va(s8 \o i, N, 140) /\ Empieza(en, s8 \o i)
    BY <2>1, <2>2, <2>3, Luego
  <2> QED BY <2>0, <2>4
<1>24. PICK s9 : s9 = s8 \o i
  OBVIOUS
<1>25. Va(s9 \o j, {}, 420) /\ Empieza(en, s9 \o j)
  <2>1. CASE en.ejemplos
    <3>1. Tramo(0, j, C \cup K, {}, 150, 420)
      BY <1>4, <1>5, <2>1, EjemplosEs
    <3>2. Va(s9, C \cup K, 140) /\ Empieza(en, s9)
      BY <1>23, <1>24
    <3> QED BY <3>1, <3>2, Luego
  <2>2. CASE ~en.ejemplos
    <3>1. Tramo(0, j, {}, {}, 420, 420)
      BY <1>4, <2>2, NadaEs
    <3>2. Va(s9, C \cup K, 140) /\ Empieza(en, s9)
      BY <1>23, <1>24
    <3> QED BY <3>1, <3>2, Luego
  <2> QED BY <2>1, <2>2
<1>26. Puesta(en)!initial_setup = s9 \o j
  BY <1>1, <1>2, <1>3, <1>4, <1>8, <1>10, <1>12, <1>14, <1>16, <1>18, <1>20, <1>22, <1>24
     DEF Puesta!initial_setup, Cabeza
<1> QED BY <1>25, <1>26

----------------------------------------
(* What holds in every state, whatever processes start and wherever they die *)

\* What the script is, of what is needed of it.
LEMMA GuionEs ==
    ASSUME NEW en
    PROVE  /\ Len(Puesta(en)!initial_setup) \in Nat /\ Len(Puesta(en)!initial_setup) >= 6
           /\ Ordenado(2, Puesta(en)!initial_setup) /\ Referido(Puesta(en)!initial_setup, {})
           /\ Empieza(en, Puesta(en)!initial_setup)
           /\ \A k, m \in 1..Len(Puesta(en)!initial_setup) :
                 (k < m /\ Guarda(Puesta(en)!initial_setup[k]) /\
                   Guarda(Puesta(en)!initial_setup[m])) =>
                    Puesta(en)!initial_setup[k].filas \cap Puesta(en)!initial_setup[m].filas = {}
<1>1. PICK s : s = Puesta(en)!initial_setup
  OBVIOUS
<1>2. Va(s, {}, 420) /\ Empieza(en, s)
  BY <1>1, SetupEs
<1>3. Serie(s) /\ Ordenado(2, s) /\ Referido(s, {}) /\ Nivelado(s, 0, 420)
  BY <1>2 DEF Va, Tramo
<1>4. Len(s) \in Nat /\ Len(s) >= 6
  BY <1>2, <1>3, Juntos DEF Empieza
<1>5. ASSUME NEW k \in 1..Len(s), NEW m \in 1..Len(s), k < m, Guarda(s[k]), Guarda(s[m]),
             NEW f \in s[k].filas, f \in s[m].filas
      PROVE  FALSE
  <2>1. PICK a : a = Nivel(f.clave)
    OBVIOUS
  <2>2. a \in 0..420
    BY <1>3, <1>5, <2>1 DEF Nivelado
  <2>3. a < a
    BY <1>3, <1>5, <2>1 DEF Nivelado
  <2> QED BY <2>2, <2>3
<1> QED BY <1>1, <1>2, <1>3, <1>4, <1>5

\* What a start of a database that exists does.
LEMMA ExistenteEs ==
    ASSUME NEW en
    PROVE  /\ Len(Puesta(en)!DeExistente) = 5
           /\ \A k \in 1..5 :
                Puesta(en)!DeExistente[k].op \notin {"guardar", "buscar", "esquema", "sello",
                "directorio", "copiar"}
<1>1. PICK a, b, c, d, e : /\ a = Puesta(en)!Paso("migrar", {}, "", "")
                           /\ b = Puesta(en)!Paso("datos", {}, "", "")
                           /\ c = Puesta(en)!Paso("datos copiados", {}, "", "")
                           /\ d = Puesta(en)!Paso("temas", {}, "", "")
                           /\ e = Puesta(en)!Paso("temas copiados", {}, "", "")
  OBVIOUS
<1>2. /\ a.op = "migrar" /\ b.op = "datos" /\ c.op = "datos copiados"
      /\ d.op = "temas" /\ e.op = "temas copiados"
  BY <1>1 DEF Puesta!Paso
<1>3. PICK s : s = <<a>>
  OBVIOUS
<1>4. PICK t : t = <<b>> \o <<c>>
  OBVIOUS
<1>5. PICK u : u = <<d>> \o <<e>>
  OBVIOUS
<1>6. Serie(s) /\ Len(s) = 1 /\ s[1] = a
  BY <1>3, UnPaso
<1>7. \A x, y : LET v == <<x>> \o <<y>> IN Serie(v) /\ Len(v) = 2 /\ v[1] = x /\ v[2] = y
  <2> TAKE x, y
  <2>1. PICK v : v = <<x>> \o <<y>>
    OBVIOUS
  <2>2. PICK g, h : g = <<x>> /\ h = <<y>>
    OBVIOUS
  <2>3. Serie(g) /\ Len(g) = 1 /\ g[1] = x /\ Serie(h) /\ Len(h) = 1 /\ h[1] = y
    BY <2>2, UnPaso
  <2>4. Serie(g) /\ Serie(h) /\ v = g \o h
    BY <2>1, <2>2, <2>3
  <2>5. /\ Serie(v) /\ Len(v) = Len(g) + Len(h)
        /\ \A k \in 1..Len(g) : v[k] = g[k]
        /\ \A k \in 1..Len(h) : v[k + Len(g)] = h[k]
    BY <2>4, Juntos
  <2>6. 1 \in 1..1 /\ 1 + 1 = 2
    OBVIOUS
  <2>7. v[1] = x /\ v[1 + 1] = y /\ Len(v) = 1 + 1
    BY <2>3, <2>5, <2>6
  <2> QED BY <2>1, <2>5, <2>6, <2>7
<1>8. /\ Serie(t) /\ Len(t) = 2 /\ t[1] = b /\ t[2] = c
      /\ Serie(u) /\ Len(u) = 2 /\ u[1] = d /\ u[2] = e
  BY <1>4, <1>5, <1>7
<1>9. PICK v : v = s \o t
  OBVIOUS
<1>10. PICK w : w = v \o u
  OBVIOUS
<1>11. /\ Serie(v) /\ Len(v) = Len(s) + Len(t)
       /\ \A k \in 1..Len(s) : v[k] = s[k]
       /\ \A k \in 1..Len(t) : v[k + Len(s)] = t[k]
  <2>1. Serie(s) /\ Serie(t)
    BY <1>6, <1>8
  <2> QED BY <1>9, <2>1, Juntos
<1>12. Len(v) = 3 /\ v[1] = a /\ v[2] = b /\ v[3] = c
  <2>1. 1 \in 1..1 /\ 1 \in 1..2 /\ 2 \in 1..2 /\ 1 + 1 = 2 /\ 2 + 1 = 3 /\ 1 + 2 = 3
    OBVIOUS
  <2>2. v[1] = a /\ v[1 + 1] = b /\ v[2 + 1] = c /\ Len(v) = 1 + 2
    BY <1>6, <1>8, <1>11, <2>1
  <2> QED BY <2>1, <2>2
<1>13. /\ Serie(w) /\ Len(w) = Len(v) + Len(u)
       /\ \A k \in 1..Len(v) : w[k] = v[k]
       /\ \A k \in 1..Len(u) : w[k + Len(v)] = u[k]
  <2>1. Serie(v) /\ Serie(u)
    BY <1>8, <1>11
  <2> QED BY <1>10, <2>1, Juntos
<1>14. Len(w) = 5 /\ w[1] = a /\ w[2] = b /\ w[3] = c /\ w[4] = d /\ w[5] = e
  <2>1. 1 \in 1..3 /\ 2 \in 1..3 /\ 3 \in 1..3 /\ 1 \in 1..2 /\ 2 \in 1..2 /\ 1 + 3 = 4 /\
          2 + 3 = 5 /\ 3 + 2 = 5
    OBVIOUS
  <2>2. w[1] = v[1] /\ w[2] = v[2] /\ w[3] = v[3] /\ w[1 + 3] = d /\ w[2 + 3] = e /\ Len(w) = 3 + 2
    BY <1>8, <1>12, <1>13, <2>1
  <2> QED BY <1>12, <2>1, <2>2
<1>15. w = Puesta(en)!DeExistente
  BY <1>1, <1>3, <1>4, <1>5, <1>9, <1>10
     DEF Puesta!DeExistente, Puesta!populate_custmon_data_dir, Puesta!populate_custom_theme_dir,
        Puesta!Hacer
<1>16. \A k \in 1..5 : k = 1 \/ k = 2 \/ k = 3 \/ k = 4 \/ k = 5
  OBVIOUS
<1>17. \A k \in 1..5 :
         w[k].op \notin {"guardar", "buscar", "esquema", "sello", "directorio", "copiar"}
  BY <1>2, <1>14, <1>16
<1> QED BY <1>14, <1>15, <1>17

\* Of the rows F: those of the commits before step k are there, those of every commit
\* are, none from step k on is.
Hechas(en, k, F) ==
    \A m \in 1..Len(Puesta(en)!initial_setup) :
       (m < k /\ Guarda(Puesta(en)!initial_setup[m])) => Puesta(en)!initial_setup[m].filas \subseteq F
Todas(en, F) ==
    \A m \in 1..Len(Puesta(en)!initial_setup) :
       Guarda(Puesta(en)!initial_setup[m]) => Puesta(en)!initial_setup[m].filas \subseteq F
Nuevas(en, k, F) ==
    \A m \in 1..Len(Puesta(en)!initial_setup) :
       (m >= k /\ Guarda(Puesta(en)!initial_setup[m])) => Puesta(en)!initial_setup[m].filas \cap F = {}

\* A process that set the templates of the certificates up: at most one does.
Pasado(x) == x.nueva /\ (x.pc = "sirve" \/ x.paso > 6)

\* The record x of a process, where the rows are F, e tells whether the tables exist and
\* s whether they are stamped.
DeProceso(en, x, F, e, s) ==
    /\ ~x.nueva => x.paso <= 5 /\ x.hay = {}
    /\ x.nueva =>
          /\ Hechas(en, x.paso, F)
          /\ x.paso > 1 => e
          /\ x.paso > 2 => s
          /\ x.hay # {} => x.paso - 1 \in 1..Len(Puesta(en)!initial_setup) /\
               Puesta(en)!initial_setup[x.paso - 1].op = "buscar"
          /\ x.pc = "sirve" => Todas(en, F)
    /\ (Pasado(x) /\ x.pc = "prepara") => Nuevas(en, x.paso, F)

Registro(en, F) == [pc: {"apagado", "prepara", "sirve"}, nueva: BOOLEAN,
                    paso: 1 .. Len(Puesta(en)!initial_setup), hay: SUBSET F]

Procesados(en) ==
    /\ proceso \in [en.procesos -> Registro(en, filas)]
    /\ \A p \in en.procesos : DeProceso(en, proceso[p], filas, esquema, sello)
    /\ \A p, q \in en.procesos : Pasado(proceso[p]) /\ Pasado(proceso[q]) => p = q

DeFilas(en) ==
    /\ esquema \in BOOLEAN /\ sello \in BOOLEAN /\ (sello => esquema)
    /\ filas # {} => esquema /\ sello
    /\ Puesta(en)!ReferencesResolve
    /\ dobles \subseteq {f.clave : f \in filas}
    /\ Puesta(en)!RowsOnce
    /\ \A m \in 1..Len(Puesta(en)!initial_setup) :
          (m > 6 /\ Guarda(Puesta(en)!initial_setup[m]) /\
            Puesta(en)!initial_setup[m].filas \cap filas # {})
             => DelCertificado(en) \subseteq filas

DeCopias(en) ==
    /\ {datos, temas} \subseteq {"ausente", "parcial", "completo"}
    /\ \A a \in disco : <<a[1], "">> \in disco
    /\ caidas \in Nat /\ caidas <= en.caidas

\* All of it.
SetupInv(en) == Procesados(en) /\ DeFilas(en) /\ DeCopias(en)

\* It implies what the runs check.
LEMMA SetupSafe ==
    ASSUME NEW en, SetupInv(en)
    PROVE  Puesta(en)!TypeOK /\ Puesta(en)!ReferencesResolve /\ Puesta(en)!PopulatedIsStamped /\
           Puesta(en)!RowsOnce /\ Puesta(en)!OneSetsUp
<1>1. Puesta(en)!TypeOK
  BY DEF SetupInv, Procesados, DeFilas, DeCopias, Puesta!TypeOK, Puesta!Proceso, Registro
<1>2. Puesta(en)!ReferencesResolve /\ Puesta(en)!RowsOnce
  BY DEF SetupInv, DeFilas
<1>3. Puesta(en)!PopulatedIsStamped
  BY DEF SetupInv, DeFilas, Puesta!PopulatedIsStamped, Puesta!database_is_populated
<1>4. Puesta(en)!OneSetsUp
  <2>1. PICK D : D = {p \in en.procesos : Puesta(en)!Sirve(p) /\ proceso[p].nueva}
    OBVIOUS
  <2>2. \A p, q \in D : p = q
    BY <2>1 DEF SetupInv, Procesados, Pasado, Puesta!Sirve
  <2>3. Cardinality(D) <= 1
    <3>1. CASE D = {}
      <4>1. Cardinality(D) = 0
        BY <3>1, FS_EmptySet
      <4> QED BY <4>1
    <3>2. CASE D # {}
      <4>1. PICK p : p \in D
        BY <3>2
      <4>2. D = {p}
        BY <2>2, <4>1
      <4>3. Cardinality(D) = 1
        BY <4>2, FS_Singleton
      <4> QED BY <4>3
    <3> QED BY <3>1, <3>2
  <2>4. Puesta(en)!Cardinality(D) = Cardinality(D)
    BY DEF Puesta!Cardinality, Cardinality
  <2> QED BY <2>1, <2>3, <2>4 DEF Puesta!OneSetsUp
<1> QED BY <1>1, <1>2, <1>3, <1>4

\* It holds at first.
LEMMA SetupInit ==
    ASSUME NEW en, Puesta(en)!SetupAssumption, Puesta(en)!Init
    PROVE  SetupInv(en)
<1>1. Puesta(en)!Apagado \in Registro(en, {}) /\ ~Pasado(Puesta(en)!Apagado) /\
        DeProceso(en, Puesta(en)!Apagado, {}, FALSE, FALSE)
  <2>1. 1 \in 1..Len(Puesta(en)!initial_setup)
    BY GuionEs
  <2> QED BY <2>1 DEF Puesta!Apagado, Registro, Pasado, DeProceso
<1>2. Procesados(en)
  BY <1>1 DEF Puesta!Init, Procesados
<1>3. DeFilas(en)
  BY DEF Puesta!Init, DeFilas, Puesta!ReferencesResolve, Puesta!RowsOnce
<1>4. DeCopias(en)
  BY DEF Puesta!Init, DeCopias, Puesta!SetupAssumption
<1> QED BY <1>2, <1>3, <1>4 DEF SetupInv

----------------------------------------
(* Every step keeps it *)

\* What is known of a process stays true when rows are added that it has not yet to add.
LEMMA OtroProceso ==
    ASSUME NEW en, NEW x, NEW F, NEW G, NEW e, NEW f, NEW s, NEW t,
           DeProceso(en, x, F, e, s), F \subseteq G, e => f, s => t,
           (Pasado(x) /\ x.pc = "prepara") => Nuevas(en, x.paso, G \ F)
    PROVE  DeProceso(en, x, G, f, t)
<1>1. \A k : Hechas(en, k, F) => Hechas(en, k, G)
  BY DEF Hechas
<1>2. Todas(en, F) => Todas(en, G)
  BY DEF Todas
<1>3. \A k : Nuevas(en, k, F) /\ Nuevas(en, k, G \ F) => Nuevas(en, k, G)
  BY DEF Nuevas
<1> QED BY <1>1, <1>2, <1>3 DEF DeProceso

\* One process becomes x, and no row is added.
LEMMA Cambia ==
    ASSUME NEW en, Procesados(en), NEW p \in en.procesos, NEW x \in Registro(en, filas),
           proceso' = [proceso EXCEPT ![p] = x], UNCHANGED filas,
           esquema => esquema', sello => sello',
           DeProceso(en, x, filas, esquema', sello'), Pasado(x) => Pasado(proceso[p])
    PROVE  Procesados(en)'
<1>1. PICK P : P = proceso'
  OBVIOUS
<1>2. /\ P \in [en.procesos -> Registro(en, filas)] /\ P[p] = x
      /\ \A q \in en.procesos : q # p => P[q] = proceso[q]
  BY <1>1 DEF Procesados
<1>3. \A k : Nuevas(en, k, filas \ filas)
  BY DEF Nuevas
<1>4. ASSUME NEW q \in en.procesos PROVE DeProceso(en, P[q], filas, esquema', sello')
  <2>1. CASE q = p
    BY <1>2, <2>1
  <2>2. CASE q # p
    <3>1. DeProceso(en, proceso[q], filas, esquema, sello)
      BY DEF Procesados
    <3>2. DeProceso(en, proceso[q], filas, esquema', sello')
      <4>1. PICK z, e, s : z = proceso[q] /\ e = esquema' /\ s = sello'
        OBVIOUS
      <4>2. DeProceso(en, z, filas, esquema, sello) /\ (esquema => e) /\ (sello => s)
        BY <3>1, <4>1
      <4>3. Nuevas(en, z.paso, filas \ filas) /\ filas \subseteq filas
        BY <1>3
      <4>4. DeProceso(en, z, filas, e, s)
        BY <4>2, <4>3, OtroProceso
      <4> QED BY <4>1, <4>4
    <3> QED BY <1>2, <2>2, <3>2
  <2> QED BY <2>1, <2>2
<1>5. \A q, r \in en.procesos : Pasado(P[q]) /\ Pasado(P[r]) => q = r
  <2>1. \A q \in en.procesos : Pasado(P[q]) => Pasado(proceso[q])
    BY <1>2
  <2> QED BY <2>1 DEF Procesados
<1> QED BY <1>1, <1>2, <1>4, <1>5 DEF Procesados

\* A process ends.
LEMMA Termina ==
    ASSUME NEW en, NEW F, NEW e, NEW s
    PROVE  Puesta(en)!Apagado \in Registro(en, F) /\ ~Pasado(Puesta(en)!Apagado) /\
           DeProceso(en, Puesta(en)!Apagado, F, e, s)
<1>1. 1 \in 1..Len(Puesta(en)!initial_setup)
  BY GuionEs
<1> QED BY <1>1 DEF Puesta!Apagado, Registro, Pasado, DeProceso

\* A process starts.
LEMMA SetupArranca ==
    ASSUME NEW en, SetupInv(en), NEW p \in en.procesos, Puesta(en)!init_app(p)
    PROVE  SetupInv(en)'
<1>0. PICK b \in BOOLEAN : b = ~Puesta(en)!database_is_populated
  BY DEF Puesta!database_is_populated
<1>1. PICK x :
        x = [Puesta(en)!Apagado EXCEPT !.pc = "prepara",
        !.nueva = ~Puesta(en)!database_is_populated]
  OBVIOUS
<1>2. 1 \in 1..Len(Puesta(en)!initial_setup)
  BY GuionEs
<1>a. x = [pc |-> "prepara", nueva |-> b, paso |-> 1, hay |-> {}]
  BY <1>0, <1>1 DEF Puesta!Apagado
<1>3. x \in Registro(en, filas) /\ x.paso = 1 /\ x.hay = {} /\ x.pc = "prepara" /\ ~Pasado(x)
  BY <1>2, <1>a DEF Registro, Pasado
<1>4. Hechas(en, 1, filas)
  BY DEF Hechas
<1>5. DeProceso(en, x, filas, esquema', sello')
  BY <1>3, <1>4 DEF DeProceso
<1>6. Procesados(en)'
  BY <1>1, <1>3, <1>5, Cambia DEF SetupInv, Puesta!init_app
<1> QED BY <1>6 DEF SetupInv, Puesta!init_app, DeFilas, DeCopias, Puesta!ReferencesResolve,
       Puesta!RowsOnce

\* Where a process is in what it does.
LEMMA DondeEsta ==
    ASSUME NEW en, SetupInv(en), NEW p \in en.procesos, proceso[p].pc = "prepara"
    PROVE  /\ proceso[p].paso \in 1..Len(Puesta(en)!Plan(p))
           /\ ~proceso[p].nueva => /\ Len(Puesta(en)!Plan(p)) = 5
                                   /\ Puesta(en)!Actual(p).op \notin {"guardar", "buscar",
                                        "esquema", "sello",
                                                           "directorio", "copiar"}
           /\ proceso[p].nueva => /\ Puesta(en)!Plan(p) = Puesta(en)!initial_setup
                                  /\ Puesta(en)!Actual(p) = Puesta(en)!initial_setup[proceso[p].paso]
<1>1. PICK x : x = proceso[p]
  OBVIOUS
<1>2. x \in Registro(en, filas) /\ DeProceso(en, x, filas, esquema, sello)
  BY <1>1 DEF SetupInv, Procesados
<1>3. x.paso \in 1..Len(Puesta(en)!initial_setup) /\ x.nueva \in BOOLEAN
  BY <1>2 DEF Registro
<1>4. CASE x.nueva
  BY <1>1, <1>3, <1>4 DEF Puesta!Plan, Puesta!Actual
<1>5. CASE ~x.nueva
  <2>1. x.paso <= 5
    BY <1>2, <1>5 DEF DeProceso
  <2>2. x.paso \in 1..5
    BY <1>3, <2>1, GuionEs
  <2>3. Puesta(en)!Plan(p) = Puesta(en)!DeExistente
    BY <1>1, <1>5 DEF Puesta!Plan
  <2> QED BY <1>1, <1>5, <2>2, <2>3, ExistenteEs DEF Puesta!Actual
<1> QED BY <1>3, <1>4, <1>5

\* What a step of the script that adds no row is followed by.
LEMMA SinFilasSigue ==
    ASSUME NEW en, NEW k \in 1..Len(Puesta(en)!initial_setup), ~Guarda(Puesta(en)!initial_setup[k]),
           NEW n \in {1, 2},
           n = 2 => Salta(Puesta(en)!initial_setup[k]), NEW F, Hechas(en, k, F)
    PROVE  /\ Hechas(en, k + n, F)
           /\ k + n > Len(Puesta(en)!initial_setup) => k > 6 /\ Todas(en, F)
           /\ k + n > 6 => k > 6
           /\ k <= 3 => k + n <= 5
           /\ k = 1 => n = 1
           /\ k = 2 => n = 1
<1>1. PICK s : s = Puesta(en)!initial_setup
  OBVIOUS
<1>2. PICK l \in Nat : l = Len(s)
  BY <1>1, GuionEs
<1>3. l >= 6 /\ Ordenado(2, s) /\ Empieza(en, s)
  BY <1>1, <1>2, GuionEs
<1>4. ~Guarda(s[k]) /\ Guarda(s[4]) /\ Guarda(s[5]) /\ Guarda(s[6]) /\ k \in 1..l
  BY <1>1, <1>2, <1>3 DEF Empieza
<1>5. k # 4 /\ k # 5 /\ k # 6
  BY <1>4
<1>6. ~Salta(s[1]) /\ ~Salta(s[2])
  BY <1>3 DEF Empieza, Salta
<1>7. (n = 2 => ~Guarda(s[k + 1])) /\ ((k = 1 \/ k = 2) => n = 1)
  <2>1. n = 2 => Salta(s[k])
    BY <1>1
  <2>2. Salta(s[k]) => ~Guarda(s[k + 1])
    BY <1>2, <1>3, <1>4 DEF Ordenado
  <2> QED BY <1>6, <2>1, <2>2
<1>8. \A m \in 1..l : (m < k /\ Guarda(s[m])) => s[m].filas \subseteq F
  BY <1>1, <1>2 DEF Hechas
<1>9. ASSUME NEW m \in 1..l, m < k + n, Guarda(s[m]) PROVE s[m].filas \subseteq F
  <2>1. m < k \/ m = k \/ (n = 2 /\ m = k + 1)
    BY <1>4, <1>9
  <2> QED BY <1>4, <1>7, <1>8, <1>9, <2>1
<1>10. Hechas(en, k + n, F)
  BY <1>1, <1>2, <1>9 DEF Hechas
<1>11. k + n > l => Todas(en, F)
  <2>1. ASSUME k + n > l, NEW m \in 1..l PROVE m < k + n
    BY <1>2, <1>4, <2>1
  <2> QED BY <1>1, <1>2, <1>9, <2>1 DEF Todas
<1>12. (k + n > 6 => k > 6) /\ (k + n > l => k > 6) /\ (k <= 3 => k + n <= 5)
  BY <1>2, <1>3, <1>4, <1>5
<1> QED BY <1>1, <1>2, <1>7, <1>10, <1>11, <1>12

\* A process that adds no row goes on.
LEMMA Adelante ==
    ASSUME NEW en, SetupInv(en), NEW p \in en.procesos, proceso[p].pc = "prepara", NEW n \in {1, 2},
           Puesta(en)!Avanza(p, n),
           Puesta(en)!Actual(p).op \notin {"guardar", "buscar"},
           n = 2 => Salta(Puesta(en)!Actual(p)) \/ (~proceso[p].nueva), UNCHANGED filas,
           esquema => esquema', sello => sello',
           proceso[p].nueva /\ proceso[p].paso = 1 => esquema',
           proceso[p].nueva /\ proceso[p].paso = 2 => sello'
    PROVE  Procesados(en)'
<1>1. PICK x : x = proceso[p]
  OBVIOUS
<1>2. x \in Registro(en, filas) /\ DeProceso(en, x, filas, esquema, sello)
  BY <1>1 DEF SetupInv, Procesados
<1>3. PICK k : k = x.paso
  OBVIOUS
<1>4. PICK l \in Nat : l = Len(Puesta(en)!initial_setup)
  BY GuionEs
<1>5. k \in 1..l /\ l >= 6
  BY <1>2, <1>3, <1>4, GuionEs DEF Registro
<1>6. PICK d : d = Len(Puesta(en)!Plan(p))
  OBVIOUS
<1>7. d \in Nat /\ (x.nueva => d = l) /\ (~x.nueva => d = 5)
  <2>1. /\ ~x.nueva => Len(Puesta(en)!Plan(p)) = 5
        /\ x.nueva => Puesta(en)!Plan(p) = Puesta(en)!initial_setup
    BY <1>1, DondeEsta
  <2>2. (~x.nueva => d = 5) /\ (x.nueva => d = l)
    BY <1>4, <1>6, <2>1
  <2> QED BY <2>2
<1>8. PICK y : y = IF k + n <= d THEN [x EXCEPT !.paso = k + n] ELSE [x EXCEPT !.pc = "sirve"]
  OBVIOUS
<1>9. proceso' = [proceso EXCEPT ![p] = y]
  <2>1. x.paso = k /\ x = proceso[p]
    BY <1>1, <1>3
  <2> QED BY <1>6, <1>8, <2>1 DEF Puesta!Avanza
<1>10. /\ y.nueva = x.nueva /\ y.hay = x.hay
       /\ k + n <= d => y.paso = k + n /\ y.pc = x.pc
       /\ ~(k + n <= d) => y.paso = k /\ y.pc = "sirve"
  BY <1>2, <1>3, <1>8 DEF Registro
<1>11. y \in Registro(en, filas)
  <2>1. k + n <= d => k + n \in 1..l
    BY <1>5, <1>7
  <2>2. CASE k + n <= d
    <3>1. y = [x EXCEPT !.paso = k + n]
      BY <1>8, <2>2
    <3>2. k + n \in 1..Len(Puesta(en)!initial_setup)
      BY <1>4, <2>1, <2>2
    <3> QED BY <1>2, <3>1, <3>2 DEF Registro
  <2>3. CASE ~(k + n <= d)
    <3>1. y = [x EXCEPT !.pc = "sirve"]
      BY <1>8, <2>3
    <3> QED BY <1>2, <3>1 DEF Registro
  <2> QED BY <2>2, <2>3
<1>12. CASE ~x.nueva
  <2>1. k <= 5 /\ x.hay = {}
    BY <1>2, <1>3, <1>12 DEF DeProceso
  <2>2. y.paso <= 5
    BY <1>5, <1>7, <1>10, <1>12, <2>1
  <2>3. DeProceso(en, y, filas, esquema', sello') /\ ~Pasado(y)
    BY <1>10, <1>12, <2>1, <2>2 DEF DeProceso, Pasado
  <2> QED BY <1>9, <1>11, <2>3, Cambia DEF SetupInv
<1>13. CASE x.nueva
  <2>1. /\ Hechas(en, k, filas) /\ (k > 1 => esquema) /\ (k > 2 => sello)
        /\ x.hay # {} => k - 1 \in 1..l /\ Puesta(en)!initial_setup[k - 1].op = "buscar"
        /\ (Pasado(x) /\ x.pc = "prepara") => Nuevas(en, k, filas)
    BY <1>2, <1>3, <1>4, <1>13 DEF DeProceso
  <2>2. /\ Puesta(en)!Actual(p) = Puesta(en)!initial_setup[k]
        /\ ~Guarda(Puesta(en)!initial_setup[k])
        /\ n = 2 => Salta(Puesta(en)!initial_setup[k])
    <3>1. Puesta(en)!Actual(p) = Puesta(en)!initial_setup[k]
      BY <1>1, <1>3, <1>13, DondeEsta
    <3> QED BY <1>1, <1>13, <3>1 DEF Guarda
  <2>3. x.hay = {}
    <3>1. ASSUME x.hay # {} PROVE FALSE
      <4>1. k - 1 \in 1..l /\ Puesta(en)!initial_setup[k - 1].op = "buscar"
        BY <2>1, <3>1
      <4>2. Guarda(Puesta(en)!initial_setup[(k - 1) + 1])
        BY <1>4, <4>1, GuionEs DEF Ordenado
      <4>3. (k - 1) + 1 = k
        BY <1>5
      <4> QED BY <2>2, <4>2, <4>3
    <3> QED BY <3>1
  <2>4. /\ Hechas(en, k + n, filas)
        /\ k + n > l => k > 6 /\ Todas(en, filas)
        /\ k + n > 6 => k > 6
        /\ k = 1 => n = 1
        /\ k = 2 => n = 1
    <3>1. k \in 1..Len(Puesta(en)!initial_setup) /\ Hechas(en, k, filas)
      BY <1>4, <1>5, <2>1
    <3>2. /\ Hechas(en, k + n, filas)
          /\ k + n > Len(Puesta(en)!initial_setup) => k > 6 /\ Todas(en, filas)
          /\ k + n > 6 => k > 6
          /\ k = 1 => n = 1
          /\ k = 2 => n = 1
      BY <2>2, <3>1, SinFilasSigue
    <3> QED BY <1>4, <3>2
  <2>5. (k = 1 => esquema') /\ (k = 2 => sello')
    BY <1>1, <1>3, <1>13
  <2>6. CASE k + n <= d
    <3>1. y.paso = k + n /\ y.pc = "prepara" /\ y.nueva /\ y.hay = {}
      BY <1>1, <1>10, <1>13, <2>3, <2>6
    <3>2. (k + n > 1 => esquema') /\ (k + n > 2 => sello')
      <4>1. k = 1 \/ k = 2 \/ k > 2
        BY <1>5
      <4>2. CASE k = 1
        BY <2>4, <2>5, <4>2
      <4>3. CASE k = 2
        BY <2>1, <2>4, <2>5, <4>3
      <4>4. CASE k > 2
        <5>1. k > 1
          BY <1>5, <4>4
        <5> QED BY <2>1, <4>4, <5>1
      <4> QED BY <4>1, <4>2, <4>3, <4>4
    <3>3. Pasado(y) => k > 6 /\ Pasado(x)
      BY <1>3, <1>13, <2>4, <3>1 DEF Pasado
    <3>4. \A i \in Int : i >= k + n => i >= k
      BY <1>5
    <3>5. Nuevas(en, k, filas) => Nuevas(en, k + n, filas)
      <4>1. \A m \in 1..Len(Puesta(en)!initial_setup) : m >= k + n => m >= k
        BY <3>4
      <4> QED BY <4>1 DEF Nuevas
    <3>6. Pasado(y) => Nuevas(en, k + n, filas)
      BY <1>1, <2>1, <3>3, <3>5
    <3>7. DeProceso(en, y, filas, esquema', sello')
      BY <2>4, <3>1, <3>2, <3>6 DEF DeProceso
    <3> QED BY <1>1, <1>9, <1>11, <3>3, <3>7, Cambia DEF SetupInv
  <2>7. CASE ~(k + n <= d)
    <3>1. y.paso = k /\ y.pc = "sirve" /\ y.nueva /\ y.hay = {}
      BY <1>10, <1>13, <2>3, <2>7
    <3>2. k > 6 /\ Todas(en, filas)
      <4>1. k + n > l
        BY <1>5, <1>7, <1>13, <2>7
      <4> QED BY <2>4, <4>1
    <3>3. esquema' /\ sello'
      <4>1. k > 1 /\ k > 2
        BY <3>2, <1>5
      <4> QED BY <2>1, <4>1
    <3>4. Pasado(x)
      BY <1>3, <1>13, <3>2 DEF Pasado
    <3>5. DeProceso(en, y, filas, esquema', sello')
      BY <2>1, <3>1, <3>2, <3>3 DEF DeProceso
    <3> QED BY <1>1, <1>9, <1>11, <3>4, <3>5, Cambia DEF SetupInv
  <2> QED BY <2>6, <2>7
<1>14. x.nueva \in BOOLEAN
  BY <1>2 DEF Registro
<1> QED BY <1>12, <1>13, <1>14

\* A process makes the tables, or stamps them.
LEMMA SetupEsquema ==
    ASSUME NEW en, SetupInv(en), NEW p \in en.procesos, Puesta(en)!CrearEsquema(p)
    PROVE  SetupInv(en)'
<1>1. proceso[p].pc = "prepara" /\
        (Puesta(en)!Actual(p).op = "esquema" \/ Puesta(en)!Actual(p).op = "sello")
  BY DEF Puesta!CrearEsquema, Puesta!En, Puesta!Actual
<1>2. /\ proceso[p].nueva \in BOOLEAN /\ proceso[p].paso \in 1..Len(Puesta(en)!initial_setup)
      /\ DeProceso(en, proceso[p], filas, esquema, sello)
  BY DEF SetupInv, Procesados, Registro
<1>3. proceso[p].nueva /\ Puesta(en)!Actual(p) = Puesta(en)!initial_setup[proceso[p].paso]
  BY <1>1, <1>2, DondeEsta
<1>4. PICK k : k = proceso[p].paso
  OBVIOUS
<1>5. k \in 1..Len(Puesta(en)!initial_setup) /\ Len(Puesta(en)!initial_setup) \in Nat
  BY <1>2, <1>4, GuionEs
<1>6. ~(k > 2)
  BY <1>1, <1>3, <1>4, <1>5, GuionEs DEF Ordenado
<1>7. k = 1 \/ k = 2
  BY <1>5, <1>6
<1>8. Puesta(en)!initial_setup[1].op = "esquema" /\ Puesta(en)!initial_setup[2].op = "sello"
  BY GuionEs DEF Empieza
<1>9. CASE k = 1
  <2>1. Puesta(en)!En(p, "esquema")
    BY <1>1, <1>3, <1>4, <1>8, <1>9 DEF Puesta!En, Puesta!Actual
  <2>2. esquema' = TRUE /\ UNCHANGED sello /\ Puesta(en)!Avanza(p, 1) /\ UNCHANGED filas
    BY <2>1 DEF Puesta!CrearEsquema
  <2>3. Puesta(en)!Actual(p).op = "esquema"
    BY <1>3, <1>4, <1>8, <1>9
  <2>4. Procesados(en)'
    <3>1. Puesta(en)!Actual(p).op \notin {"guardar", "buscar"}
      BY <2>3
    <3>5. proceso[p].paso # 2
      BY <1>4, <1>9
    <3>2. proceso[p].nueva /\ proceso[p].paso = 2 => sello'
      BY <3>5
    <3>3. PICK n : n = 1
      OBVIOUS
    <3>4. n \in {1, 2} /\ n # 2 /\ Puesta(en)!Avanza(p, n)
      BY <2>2, <3>3
    <3> QED BY <1>1, <2>2, <3>1, <3>2, <3>4, Adelante
  <2>5. DeFilas(en)' /\ DeCopias(en)'
    BY <2>2 DEF SetupInv, DeFilas, DeCopias, Puesta!CrearEsquema, Puesta!ReferencesResolve,
       Puesta!RowsOnce
  <2> QED BY <2>4, <2>5 DEF SetupInv
<1>10. CASE k = 2
  <2>1. ~Puesta(en)!En(p, "esquema")
    BY <1>3, <1>4, <1>8, <1>10 DEF Puesta!En, Puesta!Actual
  <2>2. sello' = TRUE /\ UNCHANGED esquema /\ Puesta(en)!Avanza(p, 1) /\ UNCHANGED filas
    BY <2>1 DEF Puesta!CrearEsquema
  <2>3. Puesta(en)!Actual(p).op = "sello"
    BY <1>3, <1>4, <1>8, <1>10
  <2>4. Procesados(en)'
    <3>1. Puesta(en)!Actual(p).op \notin {"guardar", "buscar"}
      BY <2>3
    <3>5. proceso[p].paso # 1
      BY <1>4, <1>10
    <3>2. proceso[p].nueva /\ proceso[p].paso = 1 => esquema'
      BY <3>5
    <3>3. PICK n : n = 1
      OBVIOUS
    <3>4. n \in {1, 2} /\ n # 2 /\ Puesta(en)!Avanza(p, n)
      BY <2>2, <3>3
    <3> QED BY <1>1, <2>2, <3>1, <3>2, <3>4, Adelante
  <2>5. esquema
    BY <1>2, <1>3, <1>4, <1>10 DEF DeProceso
  <2>6. DeFilas(en)' /\ DeCopias(en)'
    BY <2>2, <2>5 DEF SetupInv, DeFilas, DeCopias, Puesta!CrearEsquema, Puesta!ReferencesResolve,
       Puesta!RowsOnce
  <2> QED BY <2>4, <2>6 DEF SetupInv
<1> QED BY <1>7, <1>9, <1>10

\* A process that adds no row, and neither makes the tables nor stamps them.
LEMMA Callada ==
    ASSUME NEW en, SetupInv(en), NEW p \in en.procesos, proceso[p].pc = "prepara", NEW n \in {1, 2},
           Puesta(en)!Avanza(p, n),
           Puesta(en)!Actual(p).op \notin {"guardar", "buscar", "esquema", "sello"},
           n = 2 => Salta(Puesta(en)!Actual(p)), UNCHANGED <<filas, dobles, esquema, sello>>
    PROVE  Procesados(en)' /\ DeFilas(en)'
<1>1. PICK k : k = proceso[p].paso
  OBVIOUS
<1>2. proceso[p].nueva => Puesta(en)!Actual(p) = Puesta(en)!initial_setup[k]
  BY <1>1, DondeEsta
<1>3. Puesta(en)!initial_setup[1].op = "esquema" /\ Puesta(en)!initial_setup[2].op = "sello"
  BY GuionEs DEF Empieza
<1>4. proceso[p].nueva => k # 1 /\ k # 2
  BY <1>2, <1>3
<1>5. Procesados(en)'
  BY <1>1, <1>4, Adelante
<1>6. DeFilas(en)'
  BY DEF SetupInv, DeFilas, Puesta!ReferencesResolve, Puesta!RowsOnce
<1> QED BY <1>5, <1>6

\* A step that adds no row moves the process on by one.
LEMMA CalladaUno ==
    ASSUME NEW en, SetupInv(en), NEW p \in en.procesos, proceso[p].pc = "prepara",
           Puesta(en)!Avanza(p, 1),
           Puesta(en)!Actual(p).op \notin {"guardar", "buscar", "esquema", "sello"},
           UNCHANGED <<filas, dobles, esquema, sello>>
    PROVE  Procesados(en)' /\ DeFilas(en)'
<1>1. PICK n : n = 1
  OBVIOUS
<1>2. n \in {1, 2} /\ n # 2 /\ Puesta(en)!Avanza(p, n)
  BY <1>1
<1> QED BY <1>2, Callada

\* A process makes a directory.
LEMMA SetupDirectorio ==
    ASSUME NEW en, SetupInv(en), NEW p \in en.procesos, Puesta(en)!Directorio(p)
    PROVE  SetupInv(en)'
<1>1. proceso[p].pc = "prepara" /\ Puesta(en)!Actual(p).op = "directorio"
  BY DEF Puesta!Directorio, Puesta!En, Puesta!Actual
<1>2. PICK d : d = <<Puesta(en)!Actual(p).dir, "">>
  OBVIOUS
<1>3. PICK n : n = IF d \in disco /\ Puesta(en)!Actual(p).archivo # "" THEN 2 ELSE 1
  OBVIOUS
<1>4. /\ n \in {1, 2} /\ Puesta(en)!Avanza(p, n) /\ disco' = disco \cup {d}
      /\ UNCHANGED <<esquema, sello, filas, dobles, datos, temas, caidas>>
  BY <1>2, <1>3 DEF Puesta!Directorio
<1>5. n = 2 => Salta(Puesta(en)!Actual(p))
  <2>1. PICK a : a = Puesta(en)!Actual(p)
    OBVIOUS
  <2>2. n = 2 => a.archivo # ""
    <3>1. CASE a.archivo = ""
      <4>1. n = 1
        BY <1>3, <2>1, <3>1
      <4>2. n # 2
        BY <4>1
      <4> QED BY <4>2
    <3> QED BY <3>1
  <2>3. a.op = "directorio"
    BY <1>1, <2>1
  <2>4. a.archivo # "" => Salta(a)
    BY <2>3 DEF Salta
  <2> QED BY <2>1, <2>2, <2>4
<1>6. Procesados(en)' /\ DeFilas(en)'
  BY <1>1, <1>4, <1>5, Callada
<1>7. d[1] = Puesta(en)!Actual(p).dir
  BY <1>2
<1>8. DeCopias(en)'
  BY <1>2, <1>4, <1>7 DEF SetupInv, DeCopias
<1> QED BY <1>6, <1>8 DEF SetupInv

\* A process copies a file, or finds that it cannot.
LEMMA SetupCopiar ==
    ASSUME NEW en, SetupInv(en), NEW p \in en.procesos, Puesta(en)!Copiar(p)
    PROVE  SetupInv(en)'
<1>1. proceso[p].pc = "prepara" /\ Puesta(en)!Actual(p).op = "copiar"
  BY DEF Puesta!Copiar, Puesta!En, Puesta!Actual
<1>2. PICK d, a : d = Puesta(en)!Actual(p).dir /\ a = Puesta(en)!Actual(p).archivo
  OBVIOUS
<1>3. /\ Puesta(en)!Avanza(p, 1)
      /\ UNCHANGED <<esquema, sello, filas, dobles, datos, temas, caidas>>
      /\ disco' = disco \/ (disco' = disco \cup {<<d, a>>} /\ <<d, "">> \in disco)
  BY <1>2 DEF Puesta!Copiar
<1>4. Procesados(en)' /\ DeFilas(en)'
  <2>1. Puesta(en)!Actual(p).op \notin {"guardar", "buscar", "esquema", "sello"}
    BY <1>1
  <2> QED BY <1>1, <1>3, <2>1, CalladaUno
<1>5. <<d, a>>[1] = d
  OBVIOUS
<1>6. DeCopias(en)'
  BY <1>3, <1>5 DEF SetupInv, DeCopias
<1> QED BY <1>4, <1>6 DEF SetupInv

\* A process copies the static files or the templates, or leaves them.
LEMMA SetupPoblar ==
    ASSUME NEW en, SetupInv(en), NEW p \in en.procesos, Puesta(en)!Poblar(p)
    PROVE  SetupInv(en)'
<1>1. UNCHANGED <<esquema, sello, filas, dobles, disco, caidas>>
  BY DEF Puesta!Poblar
<1>2. PICK n : /\ n \in {1, 2} /\ Puesta(en)!Avanza(p, n)
               /\ proceso[p].pc = "prepara"
               /\ Puesta(en)!Actual(p).op \in {"datos", "temas", "datos copiados", "temas copiados"}
               /\ n = 2 => Puesta(en)!Actual(p).op \in {"datos", "temas"}
               /\ datos' \in {datos, "parcial", "completo"}
               /\ temas' \in {temas, "parcial", "completo"}
  <2>1. CASE Puesta(en)!En(p, "datos") /\ UNCHANGED temas /\ datos = "ausente" /\
          datos' = "parcial" /\ Puesta(en)!Avanza(p, 1)
    BY <2>1 DEF Puesta!En, Puesta!Actual
  <2>2. CASE Puesta(en)!En(p, "datos") /\ UNCHANGED temas /\ datos # "ausente" /\
          Puesta(en)!Avanza(p, 2) /\ UNCHANGED datos
    BY <2>2 DEF Puesta!En, Puesta!Actual
  <2>3. CASE Puesta(en)!En(p, "temas") /\ UNCHANGED datos /\ temas = "ausente" /\
          temas' = "parcial" /\ Puesta(en)!Avanza(p, 1)
    BY <2>3 DEF Puesta!En, Puesta!Actual
  <2>4. CASE Puesta(en)!En(p, "temas") /\ UNCHANGED datos /\ temas # "ausente" /\
          Puesta(en)!Avanza(p, 2) /\ UNCHANGED temas
    BY <2>4 DEF Puesta!En, Puesta!Actual
  <2>5. CASE Puesta(en)!En(p, "datos copiados") /\ datos' = "completo" /\ Puesta(en)!Avanza(p, 1) /\
          UNCHANGED temas
    <3>1. proceso[p].pc = "prepara" /\ Puesta(en)!Actual(p).op = "datos copiados"
      BY <2>5 DEF Puesta!En, Puesta!Actual
    <3>2. datos' = "completo" /\ temas' = temas /\ Puesta(en)!Avanza(p, 1)
      BY <2>5
    <3>3. datos' \in {datos, "parcial", "completo"} /\ temas' \in {temas, "parcial", "completo"}
      BY <3>2
    <3>4. Puesta(en)!Actual(p).op \in {"datos", "temas", "datos copiados", "temas copiados"}
      BY <3>1
    <3>5. 1 \in {1, 2} /\ 1 # 2
      OBVIOUS
    <3> QED BY <3>1, <3>2, <3>3, <3>4, <3>5
  <2>6. CASE Puesta(en)!En(p, "temas copiados") /\ temas' = "completo" /\ Puesta(en)!Avanza(p, 1) /\
          UNCHANGED datos
    <3>1. proceso[p].pc = "prepara" /\ Puesta(en)!Actual(p).op = "temas copiados"
      BY <2>6 DEF Puesta!En, Puesta!Actual
    <3>2. temas' = "completo" /\ datos' = datos /\ Puesta(en)!Avanza(p, 1)
      BY <2>6
    <3>3. datos' \in {datos, "parcial", "completo"} /\ temas' \in {temas, "parcial", "completo"}
      BY <3>2
    <3>4. Puesta(en)!Actual(p).op \in {"datos", "temas", "datos copiados", "temas copiados"}
      BY <3>1
    <3>5. 1 \in {1, 2} /\ 1 # 2
      OBVIOUS
    <3> QED BY <3>1, <3>2, <3>3, <3>4, <3>5
  <2> QED BY <2>1, <2>2, <2>3, <2>4, <2>5, <2>6 DEF Puesta!Poblar
<1>3. Puesta(en)!Actual(p).op \notin {"guardar", "buscar", "esquema", "sello"} /\
        (n = 2 => Salta(Puesta(en)!Actual(p)))
  BY <1>2 DEF Salta
<1>4. Procesados(en)' /\ DeFilas(en)'
  BY <1>1, <1>2, <1>3, Callada
<1>5. DeCopias(en)'
  BY <1>1, <1>2 DEF SetupInv, DeCopias
<1> QED BY <1>4, <1>5 DEF SetupInv

\* A process ends, as it crashes or as an error ends it.
LEMMA Acaba ==
    ASSUME NEW en, SetupInv(en), NEW p \in en.procesos,
           proceso' = [proceso EXCEPT ![p] = Puesta(en)!Apagado],
           UNCHANGED <<filas, dobles, esquema, sello>>
    PROVE  Procesados(en)' /\ DeFilas(en)'
<1>1. Puesta(en)!Apagado \in Registro(en, filas) /\ ~Pasado(Puesta(en)!Apagado) /\
        DeProceso(en, Puesta(en)!Apagado, filas, esquema', sello')
  BY Termina
<1>2. Procesados(en)'
  BY <1>1, Cambia DEF SetupInv
<1>3. DeFilas(en)'
  BY DEF SetupInv, DeFilas, Puesta!ReferencesResolve, Puesta!RowsOnce
<1> QED BY <1>2, <1>3

\* A process migrates.
LEMMA SetupMigrar ==
    ASSUME NEW en, SetupInv(en), NEW p \in en.procesos, Puesta(en)!Migrar(p)
    PROVE  SetupInv(en)'
<1>1. UNCHANGED <<esquema, sello, filas, dobles, disco, datos, temas, caidas>>
  BY DEF Puesta!Migrar
<1>2. proceso[p].pc = "prepara" /\ Puesta(en)!Actual(p).op = "migrar"
  BY DEF Puesta!Migrar, Puesta!En, Puesta!Actual
<1>3. Procesados(en)' /\ DeFilas(en)'
  <2>1. CASE en.migrar /\ ~sello
    BY <1>1, <2>1, Acaba DEF Puesta!Migrar
  <2>2. CASE ~(en.migrar /\ ~sello)
    <3>1. Puesta(en)!Avanza(p, 1)
      BY <2>2 DEF Puesta!Migrar
    <3>2. Puesta(en)!Actual(p).op \notin {"guardar", "buscar", "esquema", "sello"}
      BY <1>2
    <3> QED BY <1>1, <1>2, <3>1, <3>2, CalladaUno
  <2> QED BY <2>1, <2>2
<1>4. DeCopias(en)'
  BY <1>1 DEF SetupInv, DeCopias
<1> QED BY <1>3, <1>4 DEF SetupInv

\* A process dies.
LEMMA SetupCaer ==
    ASSUME NEW en, Puesta(en)!SetupAssumption, SetupInv(en), NEW p \in en.procesos,
           Puesta(en)!Caer(p)
    PROVE  SetupInv(en)'
<1>1. UNCHANGED <<esquema, sello, filas, dobles, disco, datos, temas>>
  BY DEF Puesta!Caer
<1>2. Procesados(en)' /\ DeFilas(en)'
  BY <1>1, Acaba DEF Puesta!Caer
<1>b. caidas \in Nat /\ caidas <= en.caidas
  BY DEF SetupInv, DeCopias
<1>c. en.caidas \in Nat
  BY DEF Puesta!SetupAssumption
<1>d. caidas < en.caidas /\ caidas' = caidas + 1
  BY DEF Puesta!Caer
<1>3. caidas' <= en.caidas
  BY <1>b, <1>c, <1>d
<1>a. caidas' \in Nat
  BY <1>b, <1>d
<1>4. DeCopias(en)'
  BY <1>1, <1>3, <1>a DEF SetupInv, DeCopias
<1> QED BY <1>2, <1>4 DEF SetupInv

\* A process looks for rows.
LEMMA SetupBuscar ==
    ASSUME NEW en, SetupInv(en), NEW p \in en.procesos, Puesta(en)!Buscar(p)
    PROVE  SetupInv(en)'
<1>1. UNCHANGED <<esquema, sello, filas, dobles, disco, datos, temas, caidas>>
  BY DEF Puesta!Buscar
<1>2. proceso[p].pc = "prepara" /\ Puesta(en)!Actual(p).op = "buscar"
  BY DEF Puesta!Buscar, Puesta!En, Puesta!Actual
<1>3. PICK x : x = proceso[p]
  OBVIOUS
<1>4. x \in Registro(en, filas) /\ DeProceso(en, x, filas, esquema, sello)
  BY <1>3 DEF SetupInv, Procesados
<1>5. x.nueva /\ Puesta(en)!Actual(p) = Puesta(en)!initial_setup[x.paso]
  <2>1. x.nueva \in BOOLEAN
    BY <1>4 DEF Registro
  <2> QED BY <1>2, <1>3, <2>1, DondeEsta
<1>6. PICK k, l : k = x.paso /\ l = Len(Puesta(en)!initial_setup)
  OBVIOUS
<1>7. k \in 1..l /\ l \in Nat /\ l >= 6
  BY <1>4, <1>6, GuionEs DEF Registro
<1>8. k + 1 \in 1..l /\ ~Guarda(Puesta(en)!initial_setup[k])
  <2>1. Puesta(en)!initial_setup[k].op = "buscar"
    BY <1>2, <1>5, <1>6
  <2> QED BY <1>6, <1>7, <2>1, GuionEs DEF Ordenado, Guarda
<1>9. PICK h : h = Puesta(en)!Actual(p).filas \cap filas
  OBVIOUS
<1>10. PICK y : y = [x EXCEPT !.paso = k + 1, !.hay = h]
  OBVIOUS
<1>11. proceso' = [proceso EXCEPT ![p] = y]
  <2>1. x.paso = k /\ x = proceso[p]
    BY <1>3, <1>6
  <2> QED BY <1>9, <1>10, <2>1 DEF Puesta!Buscar
<1>12. /\ y \in Registro(en, filas) /\ y.paso = k + 1 /\ y.nueva /\ y.pc = "prepara"
  BY <1>2, <1>3, <1>4, <1>5, <1>6, <1>8, <1>9, <1>10 DEF Registro
<1>13. /\ Hechas(en, k, filas) /\ (k > 1 => esquema) /\ (k > 2 => sello)
       /\ (Pasado(x) /\ x.pc = "prepara") => Nuevas(en, k, filas)
  BY <1>4, <1>5, <1>6 DEF DeProceso
<1>14. k > 2
  <2>1. Puesta(en)!initial_setup[k].op = "buscar" /\ Puesta(en)!initial_setup[1].op = "esquema" /\
          Puesta(en)!initial_setup[2].op = "sello"
    BY <1>2, <1>5, <1>6, GuionEs DEF Empieza
  <2>2. k # 1 /\ k # 2
    BY <2>1
  <2> QED BY <1>7, <2>2
<1>15. Hechas(en, k + 1, filas) /\ (k + 1 > 6 => k > 6)
  <2>1. k \in 1..Len(Puesta(en)!initial_setup)
    BY <1>6, <1>7
  <2>2. 1 \in {1, 2} /\ 1 # 2
    OBVIOUS
  <2> QED BY <1>8, <1>13, <2>1, <2>2, SinFilasSigue
<1>16. Pasado(y) => Pasado(x)
  BY <1>5, <1>6, <1>12, <1>15 DEF Pasado
<1>17. Nuevas(en, k, filas) => Nuevas(en, k + 1, filas)
  <2>1. \A m \in 1..Len(Puesta(en)!initial_setup) : m >= k + 1 => m >= k
    BY <1>6, <1>7
  <2> QED BY <2>1 DEF Nuevas
<1>18. DeProceso(en, y, filas, esquema', sello')
  <2>1. esquema' /\ sello'
    <3>1. k > 1
      BY <1>7, <1>14
    <3> QED BY <1>1, <1>13, <1>14, <3>1
  <2>2. y.paso - 1 = k /\ k \in 1..Len(Puesta(en)!initial_setup) /\
          Puesta(en)!initial_setup[k].op = "buscar"
    BY <1>2, <1>5, <1>6, <1>7, <1>12
  <2>3. Pasado(y) => Nuevas(en, y.paso, filas)
    BY <1>2, <1>3, <1>12, <1>13, <1>16, <1>17
  <2> QED BY <1>12, <1>15, <2>1, <2>2, <2>3 DEF DeProceso
<1>19. Procesados(en)'
  BY <1>1, <1>3, <1>11, <1>12, <1>16, <1>18, Cambia DEF SetupInv
<1>20. DeFilas(en)' /\ DeCopias(en)'
  BY <1>1 DEF SetupInv, DeFilas, DeCopias, Puesta!ReferencesResolve, Puesta!RowsOnce
<1> QED BY <1>19, <1>20 DEF SetupInv

\* The rows of the version and of the certificates have unique keys.
LEMMA UnicasEs ==
    ASSUME NEW en
    PROVE  /\ \A f \in DelSistema(en) : Puesta(en)!Unica(f)
           /\ \A f \in DelCertificado(en) : Puesta(en)!Unica(f)
           /\ DelCertificado(en) # {}
<1>1. ASSUME NEW t, t \in {"SystemInfo", "Certificado"}, NEW ns, NEW f \in Puesta(en)!Sueltas(t, ns)
      PROVE  Puesta(en)!Unica(f)
  <2>1. PICK c \in ns : f = Puesta(en)!Fila(Puesta(en)!Raiz(t, c), {})
    BY DEF Puesta!Sueltas, Puesta!Suelta
  <2>2. f.clave = Puesta(en)!Raiz(t, c)
    BY <2>1, FilaEs
  <2>3. f.clave[1] = t
    BY <2>2 DEF Puesta!Raiz
  <2> QED BY <1>1, <2>3 DEF Puesta!Unica
<1>2. Puesta(en)!Suelta("Certificado", "demo") \in DelCertificado(en)
  BY DEF DelCertificado, Puesta!Sueltas
<1>3. \A f \in DelSistema(en) : Puesta(en)!Unica(f)
  BY <1>1 DEF DelSistema
<1>4. \A f \in DelCertificado(en) : Puesta(en)!Unica(f)
  BY <1>1 DEF DelCertificado
<1> QED BY <1>2, <1>3, <1>4

\* What a process that inserts the rows of its step has to know.
Inserta(en, p, k, A, N, C) ==
    /\ proceso[p].pc = "prepara" /\ proceso[p].nueva /\ k = proceso[p].paso
    /\ k \in 1..Len(Puesta(en)!initial_setup) /\ Guarda(Puesta(en)!initial_setup[k])
    /\ A = Puesta(en)!initial_setup[k].filas
    /\ N = A \ proceso[p].hay /\ C = N \cap filas /\ A \subseteq filas \cup N
    /\ ~\E f \in C : Puesta(en)!Unica(f)
    /\ Hechas(en, k, filas) /\ k > 3 /\ esquema /\ sello
    /\ k = 6 => proceso[p].hay = {}

\* What a commit inserts is of its step, and of no other.
LEMMA InsertaEs ==
    ASSUME NEW en, SetupInv(en), NEW p \in en.procesos, Puesta(en)!En(p, "guardar"),
           ~\E f \in (Puesta(en)!Actual(p).filas \ proceso[p].hay) \cap filas : Puesta(en)!Unica(f)
    PROVE  Inserta(en, p, proceso[p].paso, Puesta(en)!Actual(p).filas,
           Puesta(en)!Actual(p).filas \ proceso[p].hay,
                   (Puesta(en)!Actual(p).filas \ proceso[p].hay) \cap filas)
<1>1. proceso[p].pc = "prepara" /\ Puesta(en)!Actual(p).op = "guardar"
  BY DEF Puesta!En, Puesta!Actual
<1>2. PICK x : x = proceso[p]
  OBVIOUS
<1>3. x \in Registro(en, filas) /\ DeProceso(en, x, filas, esquema, sello)
  BY <1>2 DEF SetupInv, Procesados
<1>4. x.nueva /\ Puesta(en)!Actual(p) = Puesta(en)!initial_setup[x.paso]
  <2>1. x.nueva \in BOOLEAN
    BY <1>3 DEF Registro
  <2>2. Puesta(en)!Actual(p).op \in {"guardar", "buscar", "esquema", "sello", "directorio",
          "copiar"}
    BY <1>1
  <2> QED BY <1>1, <1>2, <2>1, <2>2, DondeEsta
<1>5. PICK k, l : k = x.paso /\ l = Len(Puesta(en)!initial_setup)
  OBVIOUS
<1>6. k \in 1..l /\ l \in Nat /\ x.hay \subseteq filas
  BY <1>3, <1>5, GuionEs DEF Registro
<1>7. Guarda(Puesta(en)!initial_setup[k]) /\ Puesta(en)!initial_setup[k].op = "guardar"
  BY <1>1, <1>4, <1>5 DEF Guarda
<1>8. k > 3
  <2>1. ~(k <= 2)
    BY <1>5, <1>6, <1>7, GuionEs DEF Ordenado
  <2>2. Puesta(en)!initial_setup[3].op = "buscar"
    BY GuionEs DEF Empieza
  <2>3. k # 3
    BY <1>7, <2>2
  <2> QED BY <1>6, <2>1, <2>3
<1>9. /\ Hechas(en, k, filas) /\ (k > 1 => esquema) /\ (k > 2 => sello)
      /\ x.hay # {} => Puesta(en)!initial_setup[k - 1].op = "buscar"
  BY <1>3, <1>4, <1>5 DEF DeProceso
<1>10. k > 1 /\ k > 2
  BY <1>6, <1>8
<1>11. k = 6 => x.hay = {}
  <2>1. Puesta(en)!initial_setup[5].op = "guardar" /\ 6 - 1 = 5
    BY GuionEs DEF Empieza, Guarda
  <2>2. k = 6 => Puesta(en)!initial_setup[k - 1].op # "buscar"
    <3>1. ASSUME k = 6 PROVE Puesta(en)!initial_setup[k - 1].op # "buscar"
      <4>1. k - 1 = 5
        BY <3>1
      <4>2. Puesta(en)!initial_setup[5].op # "buscar"
        BY <2>1
      <4> QED BY <4>1, <4>2
    <3> QED BY <3>1
  <2> QED BY <1>9, <2>2
<1> QED BY <1>1, <1>2, <1>4, <1>5, <1>6, <1>7, <1>8, <1>9, <1>10, <1>11 DEF Inserta

\* Rows of one step are of no other.
LEMMA DeOtroPaso ==
    ASSUME NEW en, NEW k \in 1..Len(Puesta(en)!initial_setup),
           NEW m \in 1..Len(Puesta(en)!initial_setup), k # m,
           Guarda(Puesta(en)!initial_setup[k]), Guarda(Puesta(en)!initial_setup[m])
    PROVE  Puesta(en)!initial_setup[k].filas \cap Puesta(en)!initial_setup[m].filas = {}
<1>1. PICK l \in Nat : l = Len(Puesta(en)!initial_setup)
  BY GuionEs
<1>2. k < m \/ m < k
  BY <1>1
<1>3. CASE k < m
  BY <1>3, GuionEs
<1>4. CASE m < k
  BY <1>4, GuionEs
<1> QED BY <1>2, <1>3, <1>4

\* What is inserted was not there, but the configuration; and when the certificates are
\* inserted, or were, no other process has come so far.
LEMMA InsertaDe ==
    ASSUME NEW en, SetupInv(en), NEW p \in en.procesos, NEW k, NEW A, NEW N, NEW C,
           Inserta(en, p, k, A, N, C)
    PROVE  /\ k # 5 => C = {}
           /\ k = 5 => C \subseteq Puesta(en)!Configuraciones
           /\ k >= 6 => /\ \A q \in en.procesos : Pasado(proceso[q]) => q = p
                        /\ Nuevas(en, k + 1, filas)
           /\ k > 6 => DelCertificado(en) \subseteq filas
<1>1. PICK x : x = proceso[p]
  OBVIOUS
<1>2. x \in Registro(en, filas) /\ DeProceso(en, x, filas, esquema, sello)
  BY <1>1 DEF SetupInv, Procesados
<1>3. PICK l \in Nat : l = Len(Puesta(en)!initial_setup)
  BY GuionEs
<1>4. /\ k \in 1..l /\ k = x.paso /\ x.nueva /\ x.pc = "prepara" /\ l >= 6
      /\ Guarda(Puesta(en)!initial_setup[k]) /\ A = Puesta(en)!initial_setup[k].filas
      /\ N = A \ x.hay /\ C = N \cap filas /\ ~\E f \in C : Puesta(en)!Unica(f)
      /\ Hechas(en, k, filas) /\ k > 3 /\ (k = 6 => x.hay = {})
  BY <1>1, <1>3, GuionEs DEF Inserta
<1>5. /\ Guarda(Puesta(en)!initial_setup[4]) /\ Puesta(en)!initial_setup[4].filas = DelSistema(en)
      /\ Guarda(Puesta(en)!initial_setup[5])
      /\ Puesta(en)!initial_setup[5].filas = Puesta(en)!Configuraciones
      /\ Guarda(Puesta(en)!initial_setup[6])
      /\ Puesta(en)!initial_setup[6].filas = DelCertificado(en)
  BY GuionEs DEF Empieza
<1>6. k = 4 \/ k = 5 \/ k = 6 \/ k > 6
  BY <1>4
<1>7. 6 \in 1..Len(Puesta(en)!initial_setup)
  BY <1>3, <1>4
<1>8. CASE k = 4
  <2>1. C = {}
    BY <1>4, <1>5, <1>8, UnicasEs
  <2>2. ~(k >= 6) /\ ~(k > 6) /\ k # 5
    BY <1>8
  <2> QED BY <2>1, <2>2
<1>9. CASE k = 5
  <2>1. C \subseteq Puesta(en)!Configuraciones
    BY <1>4, <1>5, <1>9
  <2>2. ~(k >= 6) /\ ~(k > 6)
    BY <1>9
  <2> QED BY <1>9, <2>1, <2>2
<1>10. CASE k = 6
  <2>1. A = DelCertificado(en) /\ C = A \cap filas
    BY <1>4, <1>5, <1>10
  <2>2. C = {} /\ ~(DelCertificado(en) \subseteq filas)
    BY <1>4, <2>1, UnicasEs
  <2>3. ASSUME NEW q \in en.procesos, Pasado(proceso[q]) PROVE FALSE
    <3>1. PICK z : z = proceso[q]
      OBVIOUS
    <3>2. z.nueva /\ DeProceso(en, z, filas, esquema, sello) /\ (z.pc = "sirve" \/ z.paso > 6)
      BY <2>3, <3>1 DEF SetupInv, Procesados, Pasado
    <3>3. Hechas(en, z.paso, filas) /\ (z.pc = "sirve" => Todas(en, filas))
      BY <3>2 DEF DeProceso
    <3>4. CASE z.pc = "sirve"
      <4>1. DelCertificado(en) \subseteq filas
        BY <1>5, <1>7, <3>3, <3>4 DEF Todas
      <4> QED BY <2>2, <4>1
    <3>5. CASE z.paso > 6
      <4>1. 6 < z.paso
        <5>1. z.paso \in 1..l
          BY <1>3, <3>1 DEF SetupInv, Procesados, Registro
        <5> QED BY <3>5, <5>1
      <4>2. DelCertificado(en) \subseteq filas
        BY <1>5, <1>7, <3>3, <4>1 DEF Hechas
      <4> QED BY <2>2, <4>2
    <3> QED BY <3>2, <3>4, <3>5
  <2>4. Nuevas(en, k + 1, filas)
    <3>1. ASSUME NEW m \in 1..Len(Puesta(en)!initial_setup), m >= k + 1,
                 Guarda(Puesta(en)!initial_setup[m])
          PROVE  Puesta(en)!initial_setup[m].filas \cap filas = {}
      <4>1. m > 6
        BY <1>3, <1>10, <3>1
      <4> QED BY <2>2, <3>1, <4>1 DEF SetupInv, DeFilas
    <3> QED BY <3>1 DEF Nuevas
  <2>5. k # 5 /\ ~(k > 6)
    BY <1>10
  <2> QED BY <2>2, <2>3, <2>4, <2>5
<1>11. CASE k > 6
  <2>1. Pasado(x)
    BY <1>4, <1>11 DEF Pasado
  <2>2. Nuevas(en, k, filas)
    BY <1>2, <1>4, <2>1 DEF DeProceso
  <2>3. k >= k /\ 6 < k /\ k # 5 /\ k \in 1..Len(Puesta(en)!initial_setup)
    BY <1>3, <1>4, <1>11
  <2>4. C = {}
    BY <1>4, <2>2, <2>3 DEF Nuevas
  <2>5. \A q \in en.procesos : Pasado(proceso[q]) => q = p
    BY <1>1, <2>1 DEF SetupInv, Procesados
  <2>6. Nuevas(en, k + 1, filas)
    <3>1. \A m \in 1..Len(Puesta(en)!initial_setup) : m >= k + 1 => m >= k
      BY <1>3, <1>4
    <3> QED BY <2>2, <3>1 DEF Nuevas
  <2>7. DelCertificado(en) \subseteq filas
    BY <1>4, <1>5, <1>7, <2>3 DEF Hechas
  <2> QED BY <2>3, <2>4, <2>5, <2>6, <2>7
<1> QED BY <1>6, <1>8, <1>9, <1>10, <1>11

\* The rows, when those of step k were inserted.
LEMMA InsertaFilas ==
    ASSUME NEW en, SetupInv(en), NEW p \in en.procesos, NEW k, NEW A, NEW N, NEW C,
           Inserta(en, p, k, A, N, C),
           filas' = filas \cup N, dobles' = dobles \cup {f.clave : f \in C},
             UNCHANGED <<esquema, sello>>
    PROVE  DeFilas(en)'
<1>1. PICK G : G = filas \cup N
  OBVIOUS
<1>2. /\ k \in 1..Len(Puesta(en)!initial_setup) /\ Guarda(Puesta(en)!initial_setup[k])
      /\ A = Puesta(en)!initial_setup[k].filas
      /\ N \subseteq A /\ C \subseteq filas /\ A \subseteq G /\ G \subseteq filas \cup A
      /\ Hechas(en, k, filas) /\ esquema /\ sello
  BY <1>1 DEF Inserta
<1>3. \A f \in G : f.refiere \subseteq {g.clave : g \in G}
  <2> SUFFICES ASSUME NEW f \in G, NEW r \in f.refiere PROVE \E g \in G : g.clave = r
    OBVIOUS
  <2>1. CASE f \in filas
    <3>1. \E g \in filas : g.clave = r
      BY <2>1 DEF SetupInv, DeFilas, Puesta!ReferencesResolve
    <3> QED BY <1>1, <3>1
  <2>2. CASE f \in A
    <3>1. Da(Puesta(en)!initial_setup, k, r)
      BY <1>2, <2>2, GuionEs DEF Referido
    <3>2. PICK m \in 1..k : Guarda(Puesta(en)!initial_setup[m]) /\
            \E g \in Puesta(en)!initial_setup[m].filas : g.clave = r
      BY <3>1 DEF Da
    <3>3. PICK l \in Nat : l = Len(Puesta(en)!initial_setup)
      BY GuionEs
    <3>4. m \in 1..l /\ (m = k \/ m < k)
      BY <1>2, <3>3
    <3>5. Puesta(en)!initial_setup[m].filas \subseteq G
      <4>1. CASE m = k
        BY <1>2, <4>1
      <4>2. CASE m < k
        BY <1>1, <1>2, <3>2, <3>3, <3>4, <4>2 DEF Hechas
      <4> QED BY <3>4, <4>1, <4>2
    <3> QED BY <3>2, <3>5
  <2> QED BY <1>2, <2>1, <2>2
<1>4. dobles' \subseteq {f.clave : f \in G}
  BY <1>1, <1>2 DEF SetupInv, DeFilas
<1>5. Puesta(en)!RowsOnce'
  <2>1. C = {} \/ C \subseteq Puesta(en)!Configuraciones
    BY InsertaDe
  <2> QED BY <2>1 DEF SetupInv, DeFilas, Puesta!RowsOnce
<1>6. ASSUME NEW m \in 1..Len(Puesta(en)!initial_setup), m > 6, Guarda(Puesta(en)!initial_setup[m]),
             Puesta(en)!initial_setup[m].filas \cap G # {}
      PROVE  DelCertificado(en) \subseteq G
  <2>1. CASE Puesta(en)!initial_setup[m].filas \cap filas # {}
    BY <1>1, <1>6, <2>1 DEF SetupInv, DeFilas
  <2>2. CASE Puesta(en)!initial_setup[m].filas \cap A # {}
    <3>1. m = k
      BY <1>2, <1>6, <2>2, DeOtroPaso
    <3>2. k > 6
      BY <1>6, <3>1
    <3> QED BY <1>1, <3>2, InsertaDe
  <2> QED BY <1>2, <1>6, <2>1, <2>2
<1> QED BY <1>1, <1>2, <1>3, <1>4, <1>5, <1>6 DEF SetupInv, DeFilas, Puesta!ReferencesResolve

\* The processes, when one has inserted the rows of its step.
LEMMA InsertaProceso ==
    ASSUME NEW en, SetupInv(en), NEW p \in en.procesos, NEW k, NEW A, NEW N, NEW C,
           Inserta(en, p, k, A, N, C),
           filas' = filas \cup N, UNCHANGED <<esquema, sello>>,
           proceso' = IF proceso[p].paso < Len(Puesta(en)!Plan(p))
                      THEN [proceso EXCEPT ![p].paso = @ + 1, ![p].hay = {}]
                      ELSE [proceso EXCEPT ![p].pc = "sirve", ![p].hay = {}]
    PROVE  Procesados(en)'
<1>1. PICK G : G = filas \cup N
  OBVIOUS
<1>2. PICK x : x = proceso[p]
  OBVIOUS
<1>3. x \in Registro(en, filas) /\ DeProceso(en, x, filas, esquema, sello)
  BY <1>2 DEF SetupInv, Procesados
<1>4. PICK l \in Nat : l = Len(Puesta(en)!initial_setup)
  BY GuionEs
<1>5. /\ k \in 1..l /\ k = x.paso /\ x.nueva /\ x.pc = "prepara" /\ l >= 6
      /\ Guarda(Puesta(en)!initial_setup[k]) /\ A = Puesta(en)!initial_setup[k].filas
      /\ N \subseteq A /\ A \subseteq G /\ Hechas(en, k, filas) /\ k > 3 /\ esquema /\ sello
  BY <1>1, <1>2, <1>4, GuionEs DEF Inserta
<1>6. Len(Puesta(en)!Plan(p)) = l
  BY <1>2, <1>4, <1>5, DondeEsta
<1>7. PICK y : y = IF k < l THEN [x EXCEPT !.paso = k + 1, !.hay = {}]
        ELSE [x EXCEPT !.pc = "sirve", !.hay = {}]
  OBVIOUS
<1>8. proceso' = [proceso EXCEPT ![p] = y]
  <2>1. x.paso = k /\ x = proceso[p]
    BY <1>2, <1>5
  <2> QED BY <1>6, <1>7, <2>1
<1>9. /\ y \in Registro(en, G) /\ y.nueva /\ y.hay = {}
      /\ k < l => y.paso = k + 1 /\ y.pc = "prepara"
      /\ ~(k < l) => y.paso = k /\ y.pc = "sirve"
  <2>1. CASE k < l
    <3>1. y = [x EXCEPT !.paso = k + 1, !.hay = {}]
      BY <1>7, <2>1
    <3>2. k + 1 \in 1..Len(Puesta(en)!initial_setup)
      BY <1>4, <1>5, <2>1
    <3> QED BY <1>3, <1>5, <2>1, <3>1, <3>2 DEF Registro
  <2>2. CASE ~(k < l)
    <3>1. y = [x EXCEPT !.pc = "sirve", !.hay = {}]
      BY <1>7, <2>2
    <3> QED BY <1>3, <1>5, <2>2, <3>1 DEF Registro
  <2> QED BY <2>1, <2>2
<1>10. \A m \in 1..Len(Puesta(en)!initial_setup) :
         (m >= k + 1 /\ Guarda(Puesta(en)!initial_setup[m])) =>
          Puesta(en)!initial_setup[m].filas \cap A = {}
  <2>1. \A m \in 1..l : m >= k + 1 => m # k
    BY <1>5
  <2>2. k \in 1..Len(Puesta(en)!initial_setup)
    BY <1>4, <1>5
  <2> QED BY <1>4, <1>5, <2>1, <2>2, DeOtroPaso
<1>11. Hechas(en, k + 1, G)
  <2>1. \A m \in 1..l : m < k + 1 => m < k \/ m = k
    BY <1>5
  <2> QED BY <1>1, <1>4, <1>5, <2>1 DEF Hechas
<1>12. ~(k < l) => Todas(en, G)
  <2>1. ~(k < l) => \A m \in 1..l : m < k + 1
    BY <1>5
  <2> QED BY <1>4, <1>11, <2>1 DEF Todas, Hechas
<1>13. Pasado(y) => k >= 6
  BY <1>4, <1>5, <1>9 DEF Pasado
<1>14. /\ k >= 6 => \A q \in en.procesos : Pasado(proceso[q]) => q = p
       /\ k >= 6 => Nuevas(en, k + 1, filas)
  BY InsertaDe
<1>15. Nuevas(en, k + 1, filas) => Nuevas(en, k + 1, G)
  BY <1>1, <1>5, <1>10 DEF Nuevas
<1>16. DeProceso(en, y, G, esquema', sello')
  <2>1. CASE k < l
    BY <1>5, <1>9, <1>11, <1>13, <1>14, <1>15, <2>1 DEF DeProceso
  <2>2. CASE ~(k < l)
    <3>1. Hechas(en, k, G)
      BY <1>1, <1>5 DEF Hechas
    <3> QED BY <1>5, <1>9, <1>12, <2>2, <3>1 DEF DeProceso
  <2> QED BY <2>1, <2>2
<1>17. ASSUME NEW q \in en.procesos, q # p PROVE DeProceso(en, proceso[q], G, esquema', sello')
  <2>1. PICK z : z = proceso[q]
    OBVIOUS
  <2>2. DeProceso(en, z, filas, esquema, sello) /\ z.paso \in 1..l
    BY <1>4, <2>1 DEF SetupInv, Procesados, Registro
  <2>3. (Pasado(z) /\ z.pc = "prepara") => Nuevas(en, z.paso, G \ filas)
    <3>1. ASSUME Pasado(z), z.pc = "prepara" PROVE Nuevas(en, z.paso, G \ filas)
      <4>1. ~(k >= 6)
        BY <1>14, <1>17, <2>1, <3>1
      <4>2. z.paso > 6
        BY <3>1 DEF Pasado
      <4>3. \A m \in 1..Len(Puesta(en)!initial_setup) : m >= z.paso => m >= k + 1
        BY <1>4, <1>5, <2>2, <4>1, <4>2
      <4>4. G \ filas \subseteq A
        BY <1>1, <1>5
      <4> QED BY <1>10, <4>3, <4>4 DEF Nuevas
    <3> QED BY <3>1
  <2>4. filas \subseteq G
    BY <1>1
  <2>5. PICK e, s : e = esquema' /\ s = sello'
    OBVIOUS
  <2>6. (esquema => e) /\ (sello => s)
    BY <2>5
  <2>7. DeProceso(en, z, filas, esquema, sello)
    BY <2>2
  <2>8. DeProceso(en, z, G, e, s)
    BY <2>3, <2>4, <2>6, <2>7, OtroProceso
  <2> QED BY <2>1, <2>5, <2>8
<1>18. PICK P : P = proceso'
  OBVIOUS
<1>19. /\ P[p] = y /\ \A q \in en.procesos : q # p => P[q] = proceso[q]
       /\ P \in [en.procesos -> Registro(en, G)]
  <2>1. proceso \in [en.procesos -> Registro(en, filas)]
    BY DEF SetupInv, Procesados
  <2>2. Registro(en, filas) \subseteq Registro(en, G)
    BY <1>1 DEF Registro
  <2> QED BY <1>8, <1>9, <1>18, <2>1, <2>2
<1>20. \A q \in en.procesos : DeProceso(en, P[q], G, esquema', sello')
  BY <1>16, <1>17, <1>19
<1>21. \A q, r \in en.procesos : Pasado(P[q]) /\ Pasado(P[r]) => q = r
  <2>1. ASSUME NEW q \in en.procesos, NEW r \in en.procesos, Pasado(P[q]), Pasado(P[r]), q # r
        PROVE FALSE
    <3>1. CASE q # p /\ r # p
      BY <1>19, <2>1, <3>1 DEF SetupInv, Procesados
    <3>2. CASE q = p
      <4>1. Pasado(proceso[r]) /\ k >= 6 /\ r # p
        BY <1>13, <1>19, <2>1, <3>2
      <4> QED BY <1>14, <4>1
    <3>3. CASE r = p
      <4>1. Pasado(proceso[q]) /\ k >= 6 /\ q # p
        BY <1>13, <1>19, <2>1, <3>3
      <4> QED BY <1>14, <4>1
    <3> QED BY <3>1, <3>2, <3>3
  <2> QED BY <2>1
<1>22. G = filas'
  BY <1>1
<1> QED BY <1>18, <1>19, <1>20, <1>21, <1>22 DEF Procesados

\* A process inserts the rows of its step, or ends as one of them is there already.
LEMMA SetupGuardar ==
    ASSUME NEW en, SetupInv(en), NEW p \in en.procesos, Puesta(en)!GuardarFilas(p)
    PROVE  SetupInv(en)'
<1>1. UNCHANGED <<esquema, sello, disco, datos, temas, caidas>> /\ Puesta(en)!En(p, "guardar")
  BY DEF Puesta!GuardarFilas
<1>2. DeCopias(en)'
  BY <1>1 DEF SetupInv, DeCopias
<1>3. PICK N, C : N = Puesta(en)!Actual(p).filas \ proceso[p].hay /\ C = N \cap filas
  OBVIOUS
<1>4. Procesados(en)' /\ DeFilas(en)'
  <2>1. CASE \E f \in C : Puesta(en)!Unica(f)
    <3>1. proceso' = [proceso EXCEPT ![p] = Puesta(en)!Apagado] /\ UNCHANGED <<filas, dobles>>
      BY <1>3, <2>1 DEF Puesta!GuardarFilas
    <3> QED BY <1>1, <3>1, Acaba
  <2>2. CASE ~\E f \in C : Puesta(en)!Unica(f)
    <3>1. Inserta(en, p, proceso[p].paso, Puesta(en)!Actual(p).filas, N, C)
      BY <1>1, <1>3, <2>2, InsertaEs
    <3>2. /\ filas' = filas \cup N
          /\ dobles' = dobles \cup {f.clave : f \in C}
          /\ proceso' = IF proceso[p].paso < Len(Puesta(en)!Plan(p))
                        THEN [proceso EXCEPT ![p].paso = @ + 1, ![p].hay = {}]
                        ELSE [proceso EXCEPT ![p].pc = "sirve", ![p].hay = {}]
      BY <1>3, <2>2 DEF Puesta!GuardarFilas
    <3>3. DeFilas(en)'
      BY <1>1, <3>1, <3>2, InsertaFilas
    <3>4. Procesados(en)'
      BY <1>1, <3>1, <3>2, InsertaProceso
    <3> QED BY <3>3, <3>4
  <2> QED BY <2>1, <2>2
<1> QED BY <1>2, <1>4 DEF SetupInv

\* Every step keeps it, for any number of processes.
LEMMA SetupStep ==
    ASSUME NEW en, Puesta(en)!SetupAssumption, SetupInv(en), [Puesta(en)!Next]_(Puesta(en)!vars)
    PROVE  SetupInv(en)'
<1>1. CASE UNCHANGED Puesta(en)!vars
  BY <1>1 DEF Puesta!vars, SetupInv, Procesados, DeFilas, DeCopias, Puesta!ReferencesResolve,
     Puesta!RowsOnce
<1>2. CASE Puesta(en)!Next
  <2>1. PICK p \in en.procesos : Puesta(en)!Trabaja(p) \/ Puesta(en)!Caer(p)
    BY <1>2 DEF Puesta!Next
  <2> QED BY <2>1, SetupArranca, SetupEsquema, SetupBuscar, SetupGuardar, SetupDirectorio,
         SetupCopiar,
             SetupPoblar, SetupMigrar, SetupCaer DEF Puesta!Trabaja
<1> QED BY <1>1, <1>2

----------------------------------------
(* What nothing happens to is kept *)

\* Requests for access: nothing happens to them.
LEMMA AccesoQuieto ==
    ASSUME NEW en, AccesoInv(en), UNCHANGED Solicitud(en)!vars
    PROVE  AccesoInv(en)'
BY DEF AccesoInv, AccesoTipos, Espaciados, Guardado, Recibido, Solicitud!vars, Solicitud!limite,
   Solicitud!Cubo, Solicitud!Presentes

\* Prior credentials: nothing happens to them.
LEMMA CredQuieto ==
    ASSUME NEW en, CredInv(en), UNCHANGED Credencial(en)!vars
    PROVE  CredInv(en)'
BY DEF CredInv, CredTipos, Distintas, LlavesDeUno, FilasUnicas, Ficheros, Sana, PorBorrar,
   PorInsertar, ConImagen, Credencial!vars, Credencial!LlaveLibre, Credencial!Existentes

\* The calendar: nothing happens to it.
LEMMA AgendaQuieto ==
    ASSUME NEW en, UNCHANGED Calendario(en)!vars
    PROVE  /\ AgendaInv(en) => AgendaInv(en)'
           /\ AgendaUna(en) => AgendaUna(en)'
           /\ AgendaServida(en) => AgendaServida(en)'
BY DEF AgendaInv, AgendaTipos, AgendaUna, AgendaServida, Servida, EnOrdenPeticion,
   Calendario!vars, Calendario!DeFuente

----------------------------------------
(* Each part, for every instance of it *)

\* Whatever year it is, the calendar shows a whole month to every request but those
\* that come to December of 9999, which fail, and to no other; and no day is lost
\* between a page and the next or the one before, but for the link to that month
\* (calendar_view).
THEOREM MonthsTheorem ==
    ASSUME NEW en, Mes(en)!MonthsAssumption
    PROVE  /\ Mes(en)!Spec => []Mes(en)!ShowsAMonth
           /\ Mes(en)!Spec
                => [][Mes(en)!NextBeginsAtTheEnd /\ Mes(en)!PreviousEndsAtTheBeginning]_vista
<1>1. Mes(en)!Init => MesInv(en)
  BY MesInit
<1>2. MesInv(en) /\ [Mes(en)!Next]_vista => MesInv(en)'
  BY MesStep
<1>3. MesInv(en) => Mes(en)!ShowsAMonth
  BY MesSafe
<1>4. MesInv(en) /\ [Mes(en)!Next]_vista =>
         Mes(en)!NextBeginsAtTheEnd /\ Mes(en)!PreviousEndsAtTheBeginning
  BY MesSiguiente, MesAnterior
<1> QED BY <1>1, <1>2, <1>3, <1>4, PTL DEF Mes!Spec

\* One request at a time, a key is never served more often in a window than its
\* cache allows, whatever the limit and the window (check_rate_limit).
THEOREM RateTheorem ==
    ASSUME NEW en, Clave(en)!RateAssumption, UnaALaVez(en)
    PROVE  Clave(en)!Spec => [](Clave(en)!TypeOK /\ Clave(en)!LimiteRespetado)
<1>1. Clave(en)!Init => TasaInv(en)
  BY TasaInit
<1>2. TasaInv(en) /\ [Clave(en)!Next]_(Clave(en)!vars) => TasaInv(en)'
  BY TasaStep
<1>3. TasaInv(en) => Clave(en)!TypeOK /\ Clave(en)!LimiteRespetado
  BY TasaSafe DEF TasaInv
<1> QED BY <1>1, <1>2, <1>3, PTL DEF Clave!Spec

\* In any window no address that is remembered has more posts admitted than the
\* limit, the memory is bounded, and nobody has a receipt without a row, wherever
\* a process dies; no post is refused without a full window (request_access.py).
THEOREM AccessTheorem ==
    ASSUME NEW en, Solicitud(en)!AccessAssumption
    PROVE  /\ Solicitud(en)!Spec => [](/\ Solicitud(en)!TypeOK /\ Solicitud(en)!WindowHolds
                                       /\ Solicitud(en)!ReceiptMeansStored
                                       /\ Solicitud(en)!BucketsBounded)
           /\ Solicitud(en)!Spec => [][Solicitud(en)!RefusedWithCause]_(Solicitud(en)!vars)
<1>1. Solicitud(en)!Init => AccesoInv(en)
  BY AccesoInit
<1>2. AccesoInv(en) /\ [Solicitud(en)!Next]_(Solicitud(en)!vars) => AccesoInv(en)'
  BY AccesoStep, AccesoQuieto
<1>3. AccesoInv(en) => /\ Solicitud(en)!TypeOK /\ Solicitud(en)!WindowHolds
                       /\ Solicitud(en)!ReceiptMeansStored /\ Solicitud(en)!BucketsBounded
  BY AccesoTypeOK, AccesoWindow, AccesoReceipt, AccesoBounded
<1>4. AccesoInv(en) => Solicitud(en)!RefusedWithCause
  BY AccesoRefused
<1> QED BY <1>1, <1>2, <1>3, <1>4, PTL DEF Solicitud!Spec

\* Through requests that overlap, however many, the images on disk are those of the
\* rows once they are done and none died, and no credential is decided but by a
\* review of it (_store_image, delete_credential, review_credential).
THEOREM CredentialsTheorem ==
    ASSUME NEW en, Credencial(en)!CredentialsAssumption
    PROVE  /\ Credencial(en)!Spec => [](Credencial(en)!TypeOK /\ Credencial(en)!FilesAreOfRows)
           /\ Credencial(en)!Spec => [][Credencial(en)!ReviewedAsRead]_(Credencial(en)!vars)
<1>1. Credencial(en)!Init => CredInv(en)
  BY CredInit
<1>2. CredInv(en) /\ [Credencial(en)!Next]_(Credencial(en)!vars) => CredInv(en)'
  BY CredStep, CredQuieto
<1>3. CredInv(en) => Credencial(en)!TypeOK /\ Credencial(en)!FilesAreOfRows
  BY CredTypeOK, CredFiles
<1>4. CredInv(en) /\ [Credencial(en)!Next]_(Credencial(en)!vars) => Credencial(en)!ReviewedAsRead
  BY CredReviewed
<1> QED BY <1>1, <1>2, <1>3, <1>4, PTL DEF Credencial!Spec

\* Wherever a setup dies, and however many start at once, a row never names one
\* that is not there, a database that counts as populated is stamped, nothing but
\* the configuration is inserted twice and at most one process goes through the whole
\* of it, with the examples or without (initial_setup).
THEOREM SetupTheorem ==
    ASSUME NEW en, Puesta(en)!SetupAssumption
    PROVE  Puesta(en)!Spec => [](/\ Puesta(en)!TypeOK /\ Puesta(en)!ReferencesResolve
                                 /\ Puesta(en)!PopulatedIsStamped /\ Puesta(en)!RowsOnce
                                 /\ Puesta(en)!OneSetsUp)
<1>1. Puesta(en)!Init => SetupInv(en)
  BY SetupInit
<1>2. SetupInv(en) /\ [Puesta(en)!Next]_(Puesta(en)!vars) => SetupInv(en)'
  BY SetupStep
<1>3. SetupInv(en) => /\ Puesta(en)!TypeOK /\ Puesta(en)!ReferencesResolve
                      /\ Puesta(en)!PopulatedIsStamped /\ Puesta(en)!RowsOnce
                      /\ Puesta(en)!OneSetsUp
  BY SetupSafe
<1> QED BY <1>1, <1>2, <1>3, PTL DEF Puesta!Spec

\* The events are well formed, and the panel shows the next event of whoever has
\* one, for any number of requests (get_upcoming_events_for_user).
THEOREM PanelTheorem ==
    ASSUME NEW en, Calendario(en)!CalendarAssumption
    PROVE  /\ Calendario(en)!Spec => []Calendario(en)!TypeOK
           /\ Calendario(en)!Spec => [][Calendario(en)!PanelShowsTheNext]_(Calendario(en)!vars)
<1>1. Calendario(en)!Init => AgendaInv(en)
  BY AgendaInit
<1>2. AgendaInv(en) /\ [Calendario(en)!Next]_(Calendario(en)!vars) => AgendaInv(en)'
  BY AgendaStep, AgendaQuieto
<1>3. AgendaInv(en) => Calendario(en)!TypeOK
  BY AgendaTypeOK
<1>4. AgendaInv(en) /\ [Calendario(en)!Next]_(Calendario(en)!vars)
        => Calendario(en)!PanelShowsTheNext
  BY AgendaPanel
<1> QED BY <1>1, <1>2, <1>3, <1>4, PTL DEF Calendario!Spec

\* What a step of the calendar keeps, a request at a time: one event for a date, and
\* the events of whoever was served.
LEMMA AgendaUnaStep ==
    ASSUME NEW en, Calendario(en)!CalendarAssumption, UnaPeticion(en), AgendaInv(en), AgendaUna(en),
           [Calendario(en)!Next]_(Calendario(en)!vars)
    PROVE  /\ AgendaInv(en)' /\ AgendaUna(en)'
           /\ SinEliminar(en) /\ AgendaServida(en) => AgendaServida(en)'
<1>1. CASE UNCHANGED Calendario(en)!vars
  BY <1>1, AgendaQuieto
<1>2. CASE Calendario(en)!Next
  <2>1. ASSUME SinEliminar(en), AgendaServida(en) PROVE AgendaServida(en)'
    <3>1. \A s \in en.peticiones : Servida(en, peticion[s])
      BY <2>1 DEF AgendaServida
    <3>2. (\A s \in en.peticiones : Servida(en, peticion[s]))'
      BY <1>2, <2>1, <3>1, ServidaStep
    <3> QED BY <3>2 DEF AgendaServida
  <2> QED BY <1>2, <2>1, AgendaStep, UnaStep
<1> QED BY <1>1, <1>2

\* One request at a time, a member has one event for every date of the course
\* (create_events_for_student_enrollment).
THEOREM OneEventTheorem ==
    ASSUME NEW en, Calendario(en)!CalendarAssumption, UnaPeticion(en)
    PROVE  Calendario(en)!Spec => []Calendario(en)!OneEventPerDate
<1>1. Calendario(en)!Init => AgendaInv(en) /\ AgendaUna(en)
  BY AgendaInit, UnaInit
<1>2. AgendaInv(en) /\ AgendaUna(en) /\ [Calendario(en)!Next]_(Calendario(en)!vars)
         => AgendaInv(en)' /\ AgendaUna(en)'
  BY AgendaUnaStep
<1>3. AgendaInv(en) /\ AgendaUna(en) => Calendario(en)!OneEventPerDate
  BY AgendaOneEvent
<1> QED BY <1>1, <1>2, <1>3, PTL DEF Calendario!Spec

\* One request at a time, and while no source of events is removed, who was enrolled
\* has the event of every date that was read (create_events_for_student_enrollment).
THEOREM ServedTheorem ==
    ASSUME NEW en, Calendario(en)!CalendarAssumption, UnaPeticion(en), SinEliminar(en)
    PROVE  Calendario(en)!Spec => []Calendario(en)!ServedHaveEvents
<1>1. Calendario(en)!Init => AgendaInv(en) /\ AgendaUna(en) /\ AgendaServida(en)
  BY AgendaInit, UnaInit DEF AgendaServida
<1>2. AgendaInv(en) /\ AgendaUna(en) /\ AgendaServida(en) /\
        [Calendario(en)!Next]_(Calendario(en)!vars)
         => AgendaInv(en)' /\ AgendaUna(en)' /\ AgendaServida(en)'
  BY AgendaUnaStep
<1>3. AgendaServida(en) => Calendario(en)!ServedHaveEvents
  BY AgendaServed DEF AgendaServida
<1> QED BY <1>1, <1>2, <1>3, PTL DEF Calendario!Spec

----------------------------------------
(* All the parts *)

\* What the parts assume of the instances of the run, in which one request at a time
\* is made with a key and of the calendar, that removes nothing.
LEMMA Instancias ==
    /\ Solicitud(UnaDireccion)!AccessAssumption /\ Solicitud(TresDirecciones)!AccessAssumption
    /\ Credencial(TresPeticiones)!CredentialsAssumption
    /\ Puesta(ConCaidas)!SetupAssumption /\ Puesta(DosALaVez)!SetupAssumption
    /\ Calendario(ConCambios)!CalendarAssumption /\ Calendario(ConDias)!CalendarAssumption
    /\ Mes(EnLosExtremos)!MonthsAssumption /\ Clave(UnaClave)!RateAssumption
    /\ UnaALaVez(UnaClave) /\ UnaPeticion(ConCambios) /\ SinEliminar(ConCambios)
<1>1. UnaALaVez(UnaClave)
  BY DEF UnaALaVez, UnaClave
<1>2. UnaPeticion(ConCambios)
  BY DEF UnaPeticion, ConCambios
<1>3. SinEliminar(ConCambios)
  BY DEF SinEliminar, ConCambios
<1> QED BY <1>1, <1>2, <1>3, AdministrationAssumption

\* What always holds of the part that a behaviour is about.
AdministrationInv ==
    /\ parte = "acceso" => AccesoInv(UnaDireccion)
    /\ parte = "memoria" => AccesoInv(TresDirecciones)
    /\ parte = "credenciales" => CredInv(TresPeticiones)
    /\ parte = "instalacion" => SetupInv(ConCaidas)
    /\ parte = "dos_instalaciones" => SetupInv(DosALaVez)
    /\ parte = "agenda" =>
          AgendaInv(ConCambios) /\ AgendaUna(ConCambios) /\ AgendaServida(ConCambios)
    /\ parte = "panel" => AgendaInv(ConDias)
    /\ parte = "meses" => MesInv(EnLosExtremos)
    /\ parte = "tasa" => TasaInv(UnaClave)

\* Every step is one of the part that the behaviour is about.
LEMMA PasoDeSuParte ==
    ASSUME [Next]_vars
    PROVE  /\ parte' = parte
           /\ parte = "acceso" => [Solicitud(UnaDireccion)!Next]_(Solicitud(UnaDireccion)!vars)
           /\ parte = "memoria"
                => [Solicitud(TresDirecciones)!Next]_(Solicitud(TresDirecciones)!vars)
           /\ parte = "credenciales"
                => [Credencial(TresPeticiones)!Next]_(Credencial(TresPeticiones)!vars)
           /\ parte = "instalacion" => [Puesta(ConCaidas)!Next]_(Puesta(ConCaidas)!vars)
           /\ parte = "dos_instalaciones" => [Puesta(DosALaVez)!Next]_(Puesta(DosALaVez)!vars)
           /\ parte = "agenda" => [Calendario(ConCambios)!Next]_(Calendario(ConCambios)!vars)
           /\ parte = "panel" => [Calendario(ConDias)!Next]_(Calendario(ConDias)!vars)
           /\ parte = "meses" => [Mes(EnLosExtremos)!Next]_vista
           /\ parte = "tasa" => [Clave(UnaClave)!Next]_(Clave(UnaClave)!vars)
<1>1. CASE UNCHANGED vars
  <2>1. UNCHANGED <<parte, peticion, operaciones, caidas, filas, vista>>
    BY <1>1 DEF vars, varsCalendario
  <2>2. UNCHANGED <<ahora, cubos, barrido, olvidadas, admitidos, formulario, pagina, recibos,
          envios>>
    BY <1>1 DEF vars, varsAcceso
  <2>3. UNCHANGED <<registro, llaves, archivos, lista>>
    BY <1>1 DEF vars, varsCredenciales
  <2>4. UNCHANGED <<esquema, sello, dobles, disco, datos, temas, proceso>>
    BY <1>1 DEF vars, varsInstalacion
  <2>5. UNCHANGED <<fecha, inscritos, eventos, zona, hoy, hilos, respuesta>>
    BY <1>1 DEF vars, varsCalendario
  <2>6. UNCHANGED <<backend, activa, contador, resta, recientes>>
    BY <1>1 DEF vars, varsLimite
  <2>7. UNCHANGED Solicitud(UnaDireccion)!vars /\ UNCHANGED Solicitud(TresDirecciones)!vars
    BY <2>1, <2>2 DEF Solicitud!vars, Solicitud!limite
  <2>8. UNCHANGED Credencial(TresPeticiones)!vars
    BY <2>1, <2>3 DEF Credencial!vars
  <2>9. UNCHANGED Puesta(ConCaidas)!vars /\ UNCHANGED Puesta(DosALaVez)!vars
    BY <2>1, <2>4 DEF Puesta!vars
  <2>10. UNCHANGED Calendario(ConCambios)!vars /\ UNCHANGED Calendario(ConDias)!vars
    BY <2>1, <2>5 DEF Calendario!vars
  <2>11. UNCHANGED Clave(UnaClave)!vars
    BY <2>1, <2>6 DEF Clave!vars
  <2> QED BY <2>1, <2>7, <2>8, <2>9, <2>10, <2>11
<1>2. CASE PedirAcceso
  BY <1>2 DEF PedirAcceso
<1>3. CASE Acreditar
  BY <1>3 DEF Acreditar
<1>4. CASE Instalar
  BY <1>4 DEF Instalar
<1>5. CASE Agendar
  BY <1>5 DEF Agendar
<1>6. CASE Hojear
  BY <1>6 DEF Hojear
<1>7. CASE Limitar
  BY <1>7 DEF Limitar
<1> QED BY <1>1, <1>2, <1>3, <1>4, <1>5, <1>6, <1>7 DEF Next

\* Each part begins as it says.
LEMMA AdministrationInit == Init => AdministrationInv
<1> SUFFICES ASSUME Init PROVE AdministrationInv
  OBVIOUS
<1> USE Instancias
<1>1. parte = "acceso" => AccesoInv(UnaDireccion)
  BY AccesoInit DEF Init
<1>2. parte = "memoria" => AccesoInv(TresDirecciones)
  BY AccesoInit DEF Init
<1>3. parte = "credenciales" => CredInv(TresPeticiones)
  BY CredInit DEF Init
<1>4. parte = "instalacion" => SetupInv(ConCaidas)
  BY SetupInit DEF Init
<1>5. parte = "dos_instalaciones" => SetupInv(DosALaVez)
  BY SetupInit DEF Init
<1>6. parte = "agenda" =>
        AgendaInv(ConCambios) /\ AgendaUna(ConCambios) /\ AgendaServida(ConCambios)
  BY AgendaInit, UnaInit DEF Init, AgendaServida
<1>7. parte = "panel" => AgendaInv(ConDias)
  BY AgendaInit DEF Init
<1>8. parte = "meses" => MesInv(EnLosExtremos)
  BY MesInit DEF Init
<1>9. parte = "tasa" => TasaInv(UnaClave)
  BY TasaInit DEF Init
<1> QED BY <1>1, <1>2, <1>3, <1>4, <1>5, <1>6, <1>7, <1>8, <1>9 DEF AdministrationInv

\* Every step of a part keeps what holds of it.
LEMMA AdministrationStep == AdministrationInv /\ [Next]_vars => AdministrationInv'
<1> SUFFICES ASSUME AdministrationInv, [Next]_vars PROVE AdministrationInv'
  OBVIOUS
<1> USE Instancias, PasoDeSuParte
<1>1. (parte = "acceso" => AccesoInv(UnaDireccion))'
  BY AccesoStep, AccesoQuieto DEF AdministrationInv
<1>2. (parte = "memoria" => AccesoInv(TresDirecciones))'
  BY AccesoStep, AccesoQuieto DEF AdministrationInv
<1>3. (parte = "credenciales" => CredInv(TresPeticiones))'
  BY CredStep, CredQuieto DEF AdministrationInv
<1>4. (parte = "instalacion" => SetupInv(ConCaidas))'
  BY SetupStep DEF AdministrationInv
<1>5. (parte = "dos_instalaciones" => SetupInv(DosALaVez))'
  BY SetupStep DEF AdministrationInv
<1>6. (parte = "agenda" =>
         AgendaInv(ConCambios) /\ AgendaUna(ConCambios) /\ AgendaServida(ConCambios))'
  BY AgendaUnaStep DEF AdministrationInv
<1>7. (parte = "panel" => AgendaInv(ConDias))'
  BY AgendaStep, AgendaQuieto DEF AdministrationInv
<1>8. (parte = "meses" => MesInv(EnLosExtremos))'
  BY MesStep DEF AdministrationInv
<1>9. (parte = "tasa" => TasaInv(UnaClave))'
  BY TasaStep DEF AdministrationInv
<1> QED BY <1>1, <1>2, <1>3, <1>4, <1>5, <1>6, <1>7, <1>8, <1>9 DEF AdministrationInv

\* AdministrationInv always holds.
LEMMA AdministrationAlways == Spec => []AdministrationInv
BY AdministrationInit, AdministrationStep, PTL DEF Spec

\* The variables of every part have their types.
THEOREM TypeCorrect == Spec => []TypeOK
<1>1. AdministrationInv => TypeOK
  <2> SUFFICES ASSUME AdministrationInv PROVE TypeOK
    OBVIOUS
  <2> USE Instancias DEF AdministrationInv
  <2>1. /\ parte = "acceso" => Solicitud(UnaDireccion)!TypeOK
        /\ parte = "memoria" => Solicitud(TresDirecciones)!TypeOK
    BY AccesoTypeOK
  <2>2. parte = "credenciales" => Credencial(TresPeticiones)!TypeOK
    BY CredTypeOK
  <2>3. /\ parte = "instalacion" => Puesta(ConCaidas)!TypeOK
        /\ parte = "dos_instalaciones" => Puesta(DosALaVez)!TypeOK
    BY SetupSafe
  <2>4. /\ parte = "agenda" => Calendario(ConCambios)!TypeOK
        /\ parte = "panel" => Calendario(ConDias)!TypeOK
    BY AgendaTypeOK
  <2>5. parte = "tasa" => Clave(UnaClave)!TypeOK
    BY DEF TasaInv
  <2> QED BY <2>1, <2>2, <2>3, <2>4, <2>5 DEF TypeOK
<1> QED BY <1>1, AdministrationAlways, PTL

\* The limiters admit no more than their limit in any window and remember no more
\* than theirs, a receipt means a row, a key is served as often as its cache allows,
\* and the images on disk are those of the rows (request_access.py,
\* check_rate_limit, _store_image and delete_credential).
THEOREM LimitsHoldTheorem == Spec => []LimitsHold
<1>1. AdministrationInv => LimitsHold
  <2> SUFFICES ASSUME AdministrationInv PROVE LimitsHold
    OBVIOUS
  <2> USE Instancias DEF AdministrationInv
  <2>1. /\ parte = "acceso" => Solicitud(UnaDireccion)!WindowHolds
        /\ parte = "memoria" => Solicitud(TresDirecciones)!WindowHolds
    BY AccesoWindow
  <2>2. /\ parte = "acceso" => Solicitud(UnaDireccion)!ReceiptMeansStored
        /\ parte = "memoria" => Solicitud(TresDirecciones)!BucketsBounded
    BY AccesoReceipt, AccesoBounded
  <2>3. parte = "tasa" => Clave(UnaClave)!LimiteRespetado
    BY TasaSafe
  <2>4. parte = "credenciales" => Credencial(TresPeticiones)!FilesAreOfRows
    BY CredFiles
  <2> QED BY <2>1, <2>2, <2>3, <2>4 DEF LimitsHold
<1> QED BY <1>1, AdministrationAlways, PTL

\* Wherever a setup dies, every reference resolves and what counts as populated is
\* stamped; of two that start at once one goes through, and no row but the
\* configuration is inserted twice (initial_setup).
THEOREM SetupHoldsTheorem == Spec => []SetupHolds
<1>1. AdministrationInv => SetupHolds
  BY SetupSafe DEF AdministrationInv, SetupHolds
<1> QED BY <1>1, AdministrationAlways, PTL

\* A member has one event for every date of the course, whoever was enrolled has
\* them all, and a month is shown whatever is asked for but December of 9999
\* (create_events_for_student_enrollment, calendar_view).
THEOREM CalendarHoldsTheorem == Spec => []CalendarHolds
<1>1. AdministrationInv => CalendarHolds
  <2> SUFFICES ASSUME AdministrationInv PROVE CalendarHolds
    OBVIOUS
  <2>1. parte = "agenda" => Calendario(ConCambios)!OneEventPerDate
    BY AgendaOneEvent DEF AdministrationInv
  <2>2. parte = "agenda" => Calendario(ConCambios)!ServedHaveEvents
    BY AgendaServed DEF AdministrationInv, AgendaServida
  <2>3. parte = "meses" => Mes(EnLosExtremos)!ShowsAMonth
    BY MesSafe DEF AdministrationInv
  <2> QED BY <2>1, <2>2, <2>3 DEF CalendarHolds
<1> QED BY <1>1, AdministrationAlways, PTL

\* No post is refused without a full window, no credential is decided but by a
\* review of it, the panel shows the next event, and no day is lost between the
\* pages of a calendar but for December of 9999 (request_access.py, review_credential,
\* get_upcoming_events_for_user, calendar_view).
THEOREM NothingLeftOutTheorem == Spec => NothingLeftOut
<1> DEFINE NadaFalta ==
      /\ parte = "acceso" => Solicitud(UnaDireccion)!RefusedWithCause
      /\ parte = "credenciales" => Credencial(TresPeticiones)!ReviewedAsRead
      /\ parte = "panel" => Calendario(ConDias)!PanelShowsTheNext
      /\ parte = "meses" => Mes(EnLosExtremos)!NextBeginsAtTheEnd /\
           Mes(EnLosExtremos)!PreviousEndsAtTheBeginning
<1>1. AdministrationInv /\ [Next]_vars => NadaFalta
  <2> SUFFICES ASSUME AdministrationInv, [Next]_vars PROVE NadaFalta
    OBVIOUS
  <2> USE Instancias, PasoDeSuParte DEF AdministrationInv
  <2>1. parte = "acceso" => Solicitud(UnaDireccion)!RefusedWithCause
    BY AccesoRefused
  <2>2. parte = "credenciales" => Credencial(TresPeticiones)!ReviewedAsRead
    BY CredReviewed
  <2>3. parte = "panel" => Calendario(ConDias)!PanelShowsTheNext
    BY AgendaPanel
  <2>4. parte = "meses" =>
          Mes(EnLosExtremos)!NextBeginsAtTheEnd /\ Mes(EnLosExtremos)!PreviousEndsAtTheBeginning
    BY MesSiguiente, MesAnterior
  <2> QED BY <2>1, <2>2, <2>3, <2>4
<1>2. Spec => [][NadaFalta]_vars
  <2> HIDE DEF NadaFalta
  <2> QED BY <1>1, AdministrationAlways, PTL DEF Spec
<1> QED BY <1>2 DEF NothingLeftOut
===============================================================================
