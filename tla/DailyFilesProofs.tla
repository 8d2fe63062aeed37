-------------------------- MODULE DailyFilesProofs --------------------------
(***************************************************************************)
(* What the parser makes of a file, for metering points and days of any    *)
(* number, a year's two clock changes wherever they are, each notation of  *)
(* times and each flaw of DailyFiles (mscons.py).  The argument has four   *)
(* parts: what Picked keeps of a sequence; the clock, on which an instant  *)
(* written down is read as the same instant; the files, which whatever is  *)
(* wrong with them begin every series with the day's first quarter; and    *)
(* what Parsed says of three series of one role.  The state adds only that *)
(* what has been parsed came of the file at hand (ParsedInv).              *)
(***************************************************************************)
EXTENDS DailyFiles, FiniteSums, SequenceTheorems

(* The elements at the places of a set. *)

(* The recursive function of Picked, on the places up to N.  Such a function *)
(* exists, so the one that Picked chooses is one.                            *)
PickedUpTo(s, P, N, f) ==
  f = [n \in 0..N |->
         IF n = 0 THEN <<>>
         ELSE IF n \in P THEN Append(f[n - 1], s[n]) ELSE f[n - 1]]

LEMMA PickedUpToAt ==
  ASSUME NEW s, NEW P, NEW N \in Nat, NEW f, PickedUpTo(s, P, N, f), NEW n \in 0..N
  PROVE  f[n] = IF n = 0 THEN <<>>
                ELSE IF n \in P THEN Append(f[n - 1], s[n]) ELSE f[n - 1]
BY DEF PickedUpTo

LEMMA PickedUpToExists ==
  ASSUME NEW s, NEW P, NEW N \in Nat
  PROVE  \E f : PickedUpTo(s, P, N, f)
<1> DEFINE X == {m \in Nat : \E f : PickedUpTo(s, P, m, f)}
<1>1. 0 \in X
  <2>1. PickedUpTo(s, P, 0, [n \in 0..0 |-> <<>>])
    BY DEF PickedUpTo
  <2>2. QED
    BY <2>1
<1>2. ASSUME NEW m \in 0..N, m \in X PROVE m + 1 \in X
  <2>1. PICK f : PickedUpTo(s, P, m, f)
    BY <1>2
  <2> DEFINE g == [n \in 0..(m + 1) |->
                     IF n = m + 1 THEN IF n \in P THEN Append(f[m], s[n]) ELSE f[m]
                     ELSE f[n]]
  <2>2. \A n \in 0..(m + 1) :
          g[n] = IF n = 0 THEN <<>>
                 ELSE IF n \in P THEN Append(g[n - 1], s[n]) ELSE g[n - 1]
    <3> SUFFICES ASSUME NEW n \in 0..(m + 1)
                 PROVE  g[n] = IF n = 0 THEN <<>>
                               ELSE IF n \in P THEN Append(g[n - 1], s[n]) ELSE g[n - 1]
      OBVIOUS
    <3>1. CASE n = m + 1
      BY <3>1
    <3>2. CASE n # m + 1
      <4>1. n \in 0..m /\ g[n] = f[n] /\ (n # 0 => n - 1 \in 0..m /\ g[n - 1] = f[n - 1])
        BY <3>2
      <4> HIDE DEF g
      <4>2. f[n] = IF n = 0 THEN <<>>
                   ELSE IF n \in P THEN Append(f[n - 1], s[n]) ELSE f[n - 1]
        <5>1. m \in Nat /\ n \in 0..m /\ PickedUpTo(s, P, m, f)
          BY <2>1, <4>1
        <5>2. QED
          BY <5>1 DEF PickedUpTo
      <4>3. QED
        BY <4>1, <4>2
    <3>3. QED
      BY <3>1, <3>2
  <2>3. PickedUpTo(s, P, m + 1, g)
    <3>1. g = [n \in 0..(m + 1) |-> g[n]]
      OBVIOUS
    <3> HIDE DEF g
    <3>2. QED
      BY <2>2, <3>1 DEF PickedUpTo
  <2>4. QED
    BY <2>3
<1>3. 0..N \subseteq X
  <2> HIDE DEF X
  <2>1. QED
    BY <1>1, <1>2, Upward
<1>4. QED
  BY <1>3

LEMMA PickedIsChosen ==
  ASSUME NEW s, NEW P
  PROVE  Picked(s, P) = (CHOOSE f : PickedUpTo(s, P, Len(s), f))[Len(s)]
BY DEF Picked, PickedUpTo

LEMMA PickedIs ==
  ASSUME NEW S, NEW s \in Seq(S), NEW P
  PROVE  \E f : PickedUpTo(s, P, Len(s), f) /\ Picked(s, P) = f[Len(s)]
<1>1. Len(s) \in Nat
  OBVIOUS
<1>2. QED
  BY <1>1, PickedUpToExists, PickedIsChosen

(* Something is picked where something is to be picked; the first is the first. *)
LEMMA PickedFirst ==
  ASSUME NEW S, NEW s \in Seq(S), NEW P
  PROVE  /\ Picked(s, P) \in Seq(S)
         /\ s # <<>> /\ 1 \in P => Picked(s, P) # <<>> /\ Picked(s, P)[1] = s[1]
<1>1. PICK f : PickedUpTo(s, P, Len(s), f) /\ Picked(s, P) = f[Len(s)]
  BY PickedIs
<1>2. Len(s) \in Nat
  OBVIOUS
<1> DEFINE X == {n \in 0..Len(s) : /\ f[n] \in Seq(S)
                                   /\ 1 \in P /\ n # 0 => Len(f[n]) >= 1 /\ f[n][1] = s[1]}
<1>3. 0 \in X
  <2>1. f[0] = <<>>
    <3>1. 0 \in 0..Len(s)
      BY <1>2
    <3>2. QED
      BY <1>1, <3>1 DEF PickedUpTo
  <2>2. f[0] \in Seq(S) /\ Len(f[0]) = 0
    BY <2>1
  <2>3. 0 \in 0..Len(s)
    BY <1>2
  <2>4. QED
    BY <2>2, <2>3
<1>4. ASSUME NEW n \in 0..Len(s), n < Len(s), n \in X PROVE n + 1 \in X
  <2>1. f[n] \in Seq(S) /\ (1 \in P /\ n # 0 => Len(f[n]) >= 1 /\ f[n][1] = s[1])
    BY <1>4
  <2>2. f[n + 1] = IF n + 1 \in P THEN Append(f[n], s[n + 1]) ELSE f[n]
    <3>1. n + 1 \in 0..Len(s) /\ n + 1 # 0 /\ (n + 1) - 1 = n
      BY <1>2, <1>4
    <3>2. QED
      BY <1>1, <1>2, <3>1, PickedUpToAt
  <2>3. s[n + 1] \in S
    BY <1>2, <1>4
  <2>4. n = 0 => f[n] = <<>>
    <3>1. 0 \in 0..Len(s)
      BY <1>2
    <3>2. QED
      BY <1>1, <3>1 DEF PickedUpTo
  <2>5. CASE n + 1 \in P
    <3>1. f[n + 1] = Append(f[n], s[n + 1])
      BY <2>2, <2>5
    <3>2. f[n + 1] \in Seq(S) /\ Len(f[n + 1]) = Len(f[n]) + 1
      BY <2>1, <2>3, <3>1
    <3>3. 1 \in P => f[n + 1][1] = s[1]
      <4>1. CASE n = 0
        BY <2>3, <2>4, <3>1, <4>1
      <4>2. CASE n # 0
        BY <2>1, <2>3, <3>1, <4>2
      <4>3. QED
        BY <4>1, <4>2
    <3>4. QED
      BY <1>2, <1>4, <2>1, <3>2, <3>3
  <2>6. CASE n + 1 \notin P
    <3>1. f[n + 1] = f[n]
      BY <2>2, <2>6
    <3>2. n = 0 => 1 \notin P
      BY <2>6
    <3>3. QED
      BY <1>2, <1>4, <2>1, <3>1, <3>2
  <2>7. QED
    BY <2>5, <2>6
<1>5. Len(s) \in X
  <2>1. 0..Len(s) \subseteq X
    <3> HIDE DEF X
    <3>1. QED
      BY <1>2, <1>3, <1>4, Upward
  <2>2. QED
    BY <1>2, <2>1
<1>6. QED
  BY <1>1, <1>2, <1>5

(* All of a sequence is picked, or all but the element at one place.        *)
LEMMA PickedLength ==
  ASSUME NEW S, NEW s \in Seq(S), NEW P, NEW k \in 1..(Len(s) + 1),
         \A n \in DOMAIN s : n \in P <=> n # k
  PROVE  /\ k <= Len(s) => Len(Picked(s, P)) = Len(s) - 1
         /\ k = Len(s) + 1 => Picked(s, P) = s
<1>1. PICK f : PickedUpTo(s, P, Len(s), f) /\ Picked(s, P) = f[Len(s)]
  BY PickedIs
<1>2. Len(s) \in Nat /\ k \in Nat /\ DOMAIN s = 1..Len(s)
  OBVIOUS
<1> DEFINE X == {n \in 0..Len(s) : /\ f[n] \in Seq(S)
                                   /\ Len(f[n]) = IF n < k THEN n ELSE n - 1
                                   /\ n < k => \A i \in 1..n : f[n][i] = s[i]}
<1>3. 0 \in X
  <2>1. f[0] = <<>>
    <3>1. 0 \in 0..Len(s)
      BY <1>2
    <3>2. QED
      BY <1>1, <3>1 DEF PickedUpTo
  <2>2. f[0] \in Seq(S) /\ Len(f[0]) = 0
    BY <2>1
  <2>3. 0 \in 0..Len(s) /\ 0 < k
    BY <1>2
  <2>4. QED
    BY <2>2, <2>3
<1>4. ASSUME NEW n \in 0..Len(s), n < Len(s), n \in X PROVE n + 1 \in X
  <2>1. /\ f[n] \in Seq(S)
        /\ Len(f[n]) = IF n < k THEN n ELSE n - 1
        /\ n < k => \A i \in 1..n : f[n][i] = s[i]
    BY <1>4
  <2>2. f[n + 1] = IF n + 1 \in P THEN Append(f[n], s[n + 1]) ELSE f[n]
    <3>1. n + 1 \in 0..Len(s) /\ n + 1 # 0 /\ (n + 1) - 1 = n
      BY <1>2, <1>4
    <3>2. QED
      BY <1>1, <1>2, <3>1, PickedUpToAt
  <2>3. n + 1 \in DOMAIN s /\ s[n + 1] \in S
    BY <1>2, <1>4
  <2>5. CASE n + 1 # k
    <3>1. f[n + 1] = Append(f[n], s[n + 1])
      BY <2>2, <2>3, <2>5
    <3>2. f[n + 1] \in Seq(S) /\ Len(f[n + 1]) = Len(f[n]) + 1
      BY <2>1, <2>3, <3>1
    <3>3. n + 1 < k => \A i \in 1..(n + 1) : f[n + 1][i] = s[i]
      BY <1>2, <2>1, <2>3, <3>1
    <3>4. QED
      BY <1>2, <1>4, <2>1, <2>5, <3>2, <3>3
  <2>6. CASE n + 1 = k
    <3>1. f[n + 1] = f[n]
      BY <2>2, <2>3, <2>6
    <3>2. QED
      BY <1>2, <1>4, <2>1, <2>6, <3>1
  <2>7. QED
    BY <2>5, <2>6
<1>5. Len(s) \in X
  <2>1. 0..Len(s) \subseteq X
    <3> HIDE DEF X
    <3>1. QED
      BY <1>2, <1>3, <1>4, Upward
  <2>2. QED
    BY <1>2, <2>1
<1>6. k <= Len(s) => Len(Picked(s, P)) = Len(s) - 1
  <2>1. Len(f[Len(s)]) = IF Len(s) < k THEN Len(s) ELSE Len(s) - 1
    BY <1>5
  <2>2. ASSUME k <= Len(s) PROVE ~(Len(s) < k)
    BY <1>2, <2>2
  <2>3. QED
    BY <1>1, <2>1, <2>2
<1>7. ASSUME k = Len(s) + 1 PROVE Picked(s, P) = s
  <2>1. /\ f[Len(s)] \in Seq(S) /\ Len(f[Len(s)]) = Len(s)
        /\ \A i \in 1..Len(s) : f[Len(s)][i] = s[i]
    BY <1>2, <1>5, <1>7
  <2> DEFINE g == f[Len(s)]
  <2>2. g \in Seq(S) /\ Len(g) = Len(s) /\ \A i \in 1..Len(s) : g[i] = s[i]
    BY <2>1
  <2> HIDE DEF g
  <2>3. g = s
    BY <2>2
  <2>4. QED
    BY <1>1, <2>3 DEF g
<1>8. QED
  BY <1>6, <1>7

-----------------------------------------------------------------------------
(* Every document, of the files of DailyFiles or not. *)

(* A document is read to the end or not at all.                             *)
LEMMA ParseIs ==
  ASSUME NEW doc
  PROVE  \/ Parse(doc) = Failed
         \/ \E eic, lins : Kept(lins) # {} /\ Parse(doc) = Parsed(eic, lins)
BY DEF Parse

(* The role that _classify_by_lins settles on has a sensor among the series *)
(* found, if any has been found.                                            *)
LEMMA ItemsFeed ==
  ASSUME NEW eic, NEW items \in SUBSET Known, items # {}
  PROVE  SensorLins(RoleOf(eic, items)) \cap items # {}
<1>1. CASE items \cap Offtake # {} /\ items \cap Producer = {}
  BY <1>1 DEF RoleOf, SensorLins, Total, Residual, Offtake, Producer
<1>2. CASE items \cap Producer # {} /\ items \cap Offtake = {}
  BY <1>2 DEF RoleOf, SensorLins, Total, Residual, Offtake, Producer
<1>3. CASE items \cap Offtake # {} /\ items \cap Producer # {}
  <2>1. RoleOf(eic, items) \in {"offtake", "producer"}
    BY <1>3 DEF RoleOf, DetectRole
  <2>2. QED
    BY <1>3, <2>1 DEF SensorLins, Total, Residual, Offtake, Producer
<1>4. CASE items \cap Offtake = {} /\ items \cap Producer = {}
  <2>1. "SHA15" \in items
    BY <1>4 DEF Known
  <2>2. QED
    BY <2>1 DEF SensorLins
<1>5. QED
  BY <1>1, <1>2, <1>3, <1>4

(* No document whatever is understood and feeds no sensor: the coordinator  *)
(* never marks a file as processed of which there was nothing to import     *)
(* (parse_mscons, _classify_by_lins, SENSOR_TO_LIN).                        *)
THEOREM EveryResultFeeds ==
  ASSUME NEW doc, Parse(doc) # Failed
  PROVE  SensorLins(Parse(doc).role) \cap DOMAIN Parse(doc).series # {}
<1>1. PICK eic, lins : Kept(lins) # {} /\ Parse(doc) = Parsed(eic, lins)
  BY ParseIs
<1>2. Parse(doc).series = SeriesOf(lins) /\ Parse(doc).role = RoleOf(eic, DOMAIN SeriesOf(lins))
  BY <1>1 DEF Parsed
<1>3. DOMAIN SeriesOf(lins) = Items(lins)
  BY DEF SeriesOf
<1>4. Items(lins) \in SUBSET Known /\ Items(lins) # {}
  BY <1>1 DEF Items, Kept
<1>5. QED
  BY <1>2, <1>3, <1>4, ItemsFeed

-----------------------------------------------------------------------------
(* The clock of Bratislava. *)

DayStart(d) == Midnight(d) - WallOffset(Midnight(d))

(* The instant at which a day begins: two hours before midnight in UTC on   *)
(* the days after the clocks go forward up to the one on which they go      *)
(* back, one hour before it on the others.                                  *)
LEMMA DayStartIs ==
  ASSUME NEW day \in Nat \ {0}
  PROVE  DayStart(day) = 96 * day - (IF Spring < day /\ day <= Autumn THEN 104 ELSE 100)
<1>1. Spring \in Nat /\ Autumn \in Nat
  BY ClockAssumption
<1>2. QED
  BY <1>1 DEF DayStart, Midnight, WallOffset, Hour

(* A day has 96 quarters, or 92 or 100 if the clocks change on it.          *)
LEMMA DayLength ==
  ASSUME NEW day \in Nat \ {0}
  PROVE  \E n \in {92, 96, 100} :
           /\ QuartersOf(day) = [i \in 1..n |-> DayStart(day) + i - 1]
           /\ n = DayStart(day + 1) - DayStart(day)
<1>1. DayStart(day + 1) - DayStart(day) \in {92, 96, 100}
  <2>1. Spring \in Nat /\ Autumn \in Nat /\ Spring < Autumn
    BY ClockAssumption
  <2>2. day + 1 \in Nat \ {0}
    OBVIOUS
  <2>3. QED
    BY <2>1, <2>2, DayStartIs
<1>2. QED
  BY <1>1 DEF QuartersOf, DayStart

(* The first quarter of a day lies on that day by the clock of Bratislava,  *)
(* although in UTC it is the evening before.                                *)
LEMMA DayOfItsStart ==
  ASSUME NEW day \in Nat \ {0}
  PROVE  LocalDay(DayStart(day)) = day
<1>1. Spring \in Nat /\ Autumn \in Nat /\ Spring < Autumn
  BY ClockAssumption
<1> DEFINE t == DayStart(day)
<1>2. t = 96 * day - (IF Spring < day /\ day <= Autumn THEN 104 ELSE 100)
  BY DayStartIs
<1> HIDE DEF t
<1>3. t + Offset(t) = 96 * (day - 1)
  BY <1>1, <1>2 DEF Offset, Midnight, Hour
<1>4. QED
  BY <1>3 DEF LocalDay, Hour, t

(* An instant that is written down in any of the notations is read as the   *)
(* same instant (_parse_datum), but for those of the second pass through    *)
(* the hour that autumn repeats, if written without an offset.              *)
THEOREM ReadBack ==
  ASSUME NEW t \in Int, NEW notation \in {"basic", "utc", "extended", "naive"},
         notation = "naive" => t < Midnight(Autumn) + Hour \/ t >= Midnight(Autumn) + 2 * Hour
  PROVE  ParseDatum(Datum(t, notation)) = {t}
<1>1. Spring \in Nat /\ Autumn \in Nat /\ Spring < Autumn
  BY ClockAssumption
<1>2. Offset(t) \in {Hour, 2 * Hour}
  BY DEF Offset
<1>3. CASE notation = "basic"
  <2>1. CASE Offset(t) = Hour
    BY <1>3, <2>1 DEF Datum, ParseDatum, ZoneOffset, Hour
  <2>2. CASE Offset(t) # Hour
    BY <1>2, <1>3, <2>2 DEF Datum, ParseDatum, ZoneOffset, Hour
  <2>3. QED
    BY <2>1, <2>2
<1>4. CASE notation = "utc"
  BY <1>4 DEF Datum, ParseDatum, ZoneOffset, Hour
<1>5. CASE notation = "extended"
  BY <1>2, <1>5 DEF Datum, ParseDatum, Hour
<1>6. CASE notation = "naive"
  <2>1. WallOffset(t + Offset(t)) = Offset(t)
    BY <1>1, <1>6 DEF WallOffset, Offset, Midnight, Hour
  <2>2. QED
    BY <1>2, <1>6, <2>1 DEF Datum, ParseDatum, Hour
<1>7. QED
  BY <1>3, <1>4, <1>5, <1>6

-----------------------------------------------------------------------------
(* The files of DailyFiles. *)

\* The quarters of a file's day.
Count(f) == DayStart(f.day + 1) - DayStart(f.day)

LEMMA LinIs ==
  ASSUME NEW f \in FileKinds, NEW item, NEW kw
  PROVE  /\ Count(f) \in {92, 96, 100}
         /\ Lin(f, item, kw) =
               [item |-> item,
                qtys |-> [i \in 1..Count(f) |-> Qty(DayStart(f.day) + i - 1, f.notation, kw)]]
<1>1. f.day \in Nat \ {0}
  BY DailyFilesAssumption DEF FileKinds
<1>2. /\ Count(f) \in {92, 96, 100}
      /\ QuartersOf(f.day) = [i \in 1..Count(f) |-> DayStart(f.day) + i - 1]
  <2>1. PICK n \in {92, 96, 100} :
          /\ QuartersOf(f.day) = [i \in 1..n |-> DayStart(f.day) + i - 1]
          /\ n = DayStart(f.day + 1) - DayStart(f.day)
    BY <1>1, DayLength
  <2>2. QED
    BY <2>1 DEF Count
<1>3. QED
  BY <1>2 DEF Lin

(* A series that begins with the day's first quarter, whatever follows it.  *)
Begins(lin, f) ==
  /\ lin = [item |-> lin.item, qtys |-> lin.qtys]
  /\ \E n \in Nat \ {0} : lin.qtys = [i \in 1..n |-> lin.qtys[i]]
  /\ lin.qtys[1].text = "number"
  /\ StartTimes(lin.qtys[1]) = {1}
  /\ lin.qtys[1].dtms[1].datum = Datum(DayStart(f.day), f.notation)

LEMMA LinBegins ==
  ASSUME NEW f \in FileKinds, NEW item, NEW kw
  PROVE  Begins(Lin(f, item, kw), f) /\ Lin(f, item, kw).item = item
<1> DEFINE n == Count(f)
<1>1. /\ n \in {92, 96, 100}
      /\ Lin(f, item, kw) =
            [item |-> item,
             qtys |-> [i \in 1..n |-> Qty(DayStart(f.day) + i - 1, f.notation, kw)]]
  BY LinIs
<1> HIDE DEF n
<1> DEFINE lin == Lin(f, item, kw)
           start == DayStart(f.day)
<1>2. start \in Int
  <2>1. f.day \in Nat \ {0}
    BY DailyFilesAssumption DEF FileKinds
  <2>2. QED
    BY <2>1, DayStartIs
<1>3. lin.qtys[1] = Qty(start, f.notation, kw)
  <2>1. start + 1 - 1 = start
    BY <1>2
  <2>2. 1 \in 1..n
    BY <1>1
  <2>3. QED
    BY <1>1, <2>1, <2>2
<1>4. lin.qtys = [i \in 1..n |-> lin.qtys[i]] /\ n \in Nat \ {0}
  BY <1>1
<1>5. lin = [item |-> lin.item, qtys |-> lin.qtys] /\ lin.item = item
  BY <1>1
<1> HIDE DEF lin, start
<1>6. lin.qtys[1].text = "number" /\ StartTimes(lin.qtys[1]) = {1}
      /\ lin.qtys[1].dtms[1].datum = Datum(start, f.notation)
  BY <1>3 DEF Qty, Dtm, StartTimes
<1>7. QED
  BY <1>4, <1>5, <1>6 DEF Begins, lin, start

(* Changes that leave the first quarter's value and start alone.            *)
LEMMA Tampered ==
  ASSUME NEW f, NEW lin, Begins(lin, f), NEW n \in Nat \ {0}, NEW q,
         q = [i \in 1..n |-> q[i]], q[1] = lin.qtys[1], NEW item
  PROVE  Begins([item |-> item, qtys |-> q], f)
BY DEF Begins

(* A series of n quarters that all have values.                             *)
HasQuarters(lin, item, n) ==
  /\ lin = [item |-> item, qtys |-> lin.qtys]
  /\ lin.qtys = [i \in 1..n |-> lin.qtys[i]]
  /\ \A i \in 1..n : lin.qtys[i].text = "number"

LEMMA LinHas ==
  ASSUME NEW f \in FileKinds, NEW item, NEW kw
  PROVE  HasQuarters(Lin(f, item, kw), item, Count(f))
<1> DEFINE n == Count(f)
<1>1. Lin(f, item, kw) =
        [item |-> item,
         qtys |-> [i \in 1..n |-> Qty(DayStart(f.day) + i - 1, f.notation, kw)]]
  BY LinIs
<1> HIDE DEF n
<1>2. QED
  BY <1>1 DEF HasQuarters, Qty, n

(* The same without m of its quarters after the fortieth.                   *)
LEMMA Shortened ==
  ASSUME NEW f \in FileKinds, NEW item, NEW kw, NEW m \in 1..12
  PROVE  /\ HasQuarters(WithoutQuarters(Lin(f, item, kw), m), item, Count(f) - m)
         /\ WithoutQuarters(Lin(f, item, kw), m).qtys[1] = Lin(f, item, kw).qtys[1]
<1> DEFINE lin == Lin(f, item, kw)
           head == SubSeq(lin.qtys, 1, 40)
           tail == SubSeq(lin.qtys, 41 + m, Len(lin.qtys))
           q == head \o tail
           n == Count(f)
<1>1. /\ n \in {92, 96, 100}
      /\ lin = [item |-> item,
                qtys |-> [i \in 1..n |-> Qty(DayStart(f.day) + i - 1, f.notation, kw)]]
  BY LinIs
<1> HIDE DEF n
<1>2. /\ lin.qtys = [i \in 1..n |-> lin.qtys[i]] /\ n \in Nat /\ n >= 92
      /\ \A i \in 1..n : lin.qtys[i].text = "number"
  BY <1>1 DEF Qty
<1>3. lin = [item |-> item, qtys |-> lin.qtys]
  BY <1>1
<1> DEFINE S == {lin.qtys[i] : i \in 1..n}
<1> HIDE DEF lin
<1>4. \A x \in S : x.text = "number"
  BY <1>2
<1>5. Len(lin.qtys) = n /\ \A i \in 1..n : lin.qtys[i] \in S
  BY <1>2
<1> HIDE DEF S
<1>6. head \in Seq(S) /\ Len(head) = 40 /\ head[1] = lin.qtys[1]
  <2>1. \A i \in 1..40 : lin.qtys[i] \in S
    BY <1>2, <1>5
  <2>2. 1 \in 1..(40 - 1 + 1) /\ 1 + 1 - 1 = 1
    OBVIOUS
  <2>3. QED
    BY <2>1, <2>2, SubSeqProperties
<1>7. tail \in Seq(S) /\ Len(tail) = n - (40 + m)
  <2>1. 41 + m \in Int /\ \A i \in (41 + m)..n : lin.qtys[i] \in S
    BY <1>2, <1>5
  <2>2. 41 + m <= n /\ n - (41 + m) + 1 = n - (40 + m)
    BY <1>2
  <2>3. tail \in Seq(S) /\ Len(tail) = IF 41 + m <= n THEN n - (41 + m) + 1 ELSE 0
    BY <1>2, <1>5, <2>1, SubSeqProperties
  <2>4. QED
    BY <2>2, <2>3
<1>8. WithoutQuarters(lin, m) = [lin EXCEPT !.qtys = q]
  BY DEF WithoutQuarters
<1> HIDE DEF head, tail
<1>9. q \in Seq(S) /\ Len(q) = n - m /\ q[1] = lin.qtys[1]
  <2>1. /\ q \in Seq(S) /\ Len(q) = Len(head) + Len(tail)
        /\ \A i \in 1..(Len(head) + Len(tail)) :
              q[i] = IF i <= Len(head) THEN head[i] ELSE tail[i - Len(head)]
    BY <1>6, <1>7, ConcatProperties
  <2> HIDE DEF q
  <2>2. 40 + (n - (40 + m)) = n - m /\ n - m \in Nat /\ 1 \in 1..(n - m)
    BY <1>2
  <2>3. QED
    BY <1>6, <1>7, <2>1, <2>2
<1> HIDE DEF q
<1>10. [lin EXCEPT !.qtys = q] = [item |-> item, qtys |-> q]
  BY <1>3
<1> DEFINE short == WithoutQuarters(lin, m)
<1>11. short = [item |-> item, qtys |-> q]
  BY <1>8, <1>10
<1> HIDE DEF short
<1>12. q = [i \in 1..(n - m) |-> q[i]] /\ \A i \in 1..(n - m) : q[i].text = "number"
  BY <1>2, <1>4, <1>9
<1>13. short.qtys = q
  BY <1>11
<1>14. /\ n \in {92, 96, 100}
       /\ short = [item |-> item, qtys |-> short.qtys]
       /\ short.qtys = [i \in 1..(n - m) |-> short.qtys[i]]
       /\ \A i \in 1..(n - m) : short.qtys[i].text = "number"
       /\ short.qtys[1] = lin.qtys[1]
  BY <1>1, <1>9, <1>11, <1>12, <1>13
<1>15. QED
  BY <1>14 DEF short, lin, n, HasQuarters

(* The first quarter survives the loss of others and a change to another.   *)
LEMMA ShorterBegins ==
  ASSUME NEW f \in FileKinds, NEW item, NEW kw, NEW m \in 1..12
  PROVE  Begins(WithoutQuarters(Lin(f, item, kw), m), f)
<1> DEFINE short == WithoutQuarters(Lin(f, item, kw), m)
           left  == Count(f) - m
<1>1. HasQuarters(short, item, left) /\ short.qtys[1] = Lin(f, item, kw).qtys[1]
  BY Shortened
<1>2. left \in Nat \ {0}
  <2>1. Count(f) \in {92, 96, 100}
    BY LinIs
  <2>2. QED
    BY <2>1
<1>3. Begins(Lin(f, item, kw), f)
  BY LinBegins
<1> HIDE DEF short, left
<1>4. Begins([item |-> item, qtys |-> short.qtys], f)
  BY <1>1, <1>2, <1>3, Tampered DEF HasQuarters
<1>5. QED
  BY <1>1, <1>4 DEF short, HasQuarters

LEMMA ChangedBegins ==
  ASSUME NEW f, NEW lin, Begins(lin, f), NEW k \in Nat \ {0, 1}, NEW x
  PROVE  Begins([lin EXCEPT !.qtys = [lin.qtys EXCEPT ![k] = x]], f)
<1> DEFINE q == [lin.qtys EXCEPT ![k] = x]
<1>1. PICK n \in Nat \ {0} : lin.qtys = [i \in 1..n |-> lin.qtys[i]]
  BY DEF Begins
<1>2. q = [i \in 1..n |-> q[i]] /\ q[1] = lin.qtys[1]
  BY <1>1
<1>3. [lin EXCEPT !.qtys = q] = [item |-> lin.item, qtys |-> q]
  <2> HIDE DEF q
  <2>1. QED
    BY DEF Begins
<1> HIDE DEF q
<1>4. QED
  <2>1. Begins([item |-> lin.item, qtys |-> q], f)
    BY <1>1, <1>2, Tampered
  <2>2. QED
    BY <1>3, <2>1 DEF q

(* It survives even a change to its own end, which nothing reads.           *)
LEMMA OddZoneBegins ==
  ASSUME NEW f \in FileKinds, NEW item, NEW kw, NEW e
  PROVE  LET lin == Lin(f, item, kw)
         IN  Begins([lin EXCEPT !.qtys =
                       [lin.qtys EXCEPT ![1] =
                          [lin.qtys[1] EXCEPT !.dtms =
                             [lin.qtys[1].dtms EXCEPT ![2] =
                                [lin.qtys[1].dtms[2] EXCEPT !.datum = e]]]]], f)
<1> DEFINE lin == Lin(f, item, kw)
           n == Count(f)
           p == lin.qtys[1].dtms
           x == [lin.qtys[1] EXCEPT !.dtms = [p EXCEPT ![2] = [p[2] EXCEPT !.datum = e]]]
           q == [lin.qtys EXCEPT ![1] = x]
<1>1. /\ n \in {92, 96, 100}
      /\ lin = [item |-> item,
                qtys |-> [i \in 1..n |-> Qty(DayStart(f.day) + i - 1, f.notation, kw)]]
  BY LinIs
<1> HIDE DEF n, lin
<1>2. PICK t : lin.qtys[1] = Qty(t, f.notation, kw)
  BY <1>1
<1> DEFINE d1 == Dtm(158, Datum(t, f.notation))
           d2 == Dtm(159, Datum(t + 1, f.notation))
<1>3. /\ x.text = "number"
      /\ x.dtms = <<lin.qtys[1].dtms[1], [lin.qtys[1].dtms[2] EXCEPT !.datum = e]>>
      /\ lin.qtys[1].dtms[1].qualifier = 158 /\ x.dtms[2].qualifier = 159
  <2>1. lin.qtys[1] = [text |-> "number", kw |-> kw, dtms |-> <<d1, d2>>]
    BY <1>2 DEF Qty
  <2>2. d1.qualifier = 158 /\ d2 = [qualifier |-> 159, datum |-> d2.datum]
    BY DEF Dtm
  <2> HIDE DEF d1, d2
  <2> DEFINE d3 == [d2 EXCEPT !.datum = e]
  <2>3. d3.qualifier = 159
    BY <2>2
  <2> HIDE DEF d3
  <2>4. x = [lin.qtys[1] EXCEPT !.dtms = [<<d1, d2>> EXCEPT ![2] = d3]]
    <3>1. p = <<d1, d2>> /\ p[2] = d2
      BY <2>1
    <3> HIDE DEF p
    <3>2. QED
      BY <3>1 DEF d3
  <2>5. [<<d1, d2>> EXCEPT ![2] = d3] = <<d1, d3>>
    OBVIOUS
  <2> HIDE DEF x
  <2>6. x = [text |-> "number", kw |-> kw, dtms |-> <<d1, d3>>]
    BY <2>1, <2>4, <2>5
  <2>7. QED
    BY <2>1, <2>2, <2>3, <2>6 DEF d3
<1>4. lin.qtys = [i \in 1..n |-> lin.qtys[i]] /\ lin = [item |-> item, qtys |-> lin.qtys]
  BY <1>1
<1> HIDE DEF x
<1>5. q = [i \in 1..n |-> q[i]] /\ q[1] = x /\ n \in Nat \ {0}
  <2>1. 1 \in 1..n /\ n \in Nat \ {0}
    BY <1>1
  <2>2. QED
    BY <1>4, <2>1
<1>6. [lin EXCEPT !.qtys = q] = [item |-> item, qtys |-> q]
  <2> HIDE DEF q
  <2>1. QED
    BY <1>4
<1> HIDE DEF q
<1>7. lin.qtys[1].dtms[1].datum = Datum(DayStart(f.day), f.notation)
  BY LinBegins DEF Begins, lin
<1>8. StartTimes(x) = {1} /\ x.dtms[1].datum = Datum(DayStart(f.day), f.notation)
  BY <1>3, <1>7 DEF StartTimes
<1> DEFINE changed == [item |-> item, qtys |-> q]
<1>9. /\ changed = [item |-> changed.item, qtys |-> changed.qtys]
      /\ changed.qtys = q
  OBVIOUS
<1> HIDE DEF changed
<1>10. Begins(changed, f)
  BY <1>3, <1>5, <1>8, <1>9 DEF Begins
<1>11. Begins([lin EXCEPT !.qtys = q], f)
  BY <1>6, <1>10 DEF changed
<1>12. QED
  BY <1>11 DEF q, x, p, lin

(* Whatever is wrong with a file, its series begin with the first quarter.  *)
LEMMA FlawedBegins ==
  ASSUME NEW f \in FileKinds
  PROVE  LET lins == Flawed(f, Lins(f, DetectRole(f.eic)))
         IN  \E n \in 1..4 : DOMAIN lins = 1..n /\ \A i \in 1..n : Begins(lins[i], f)
<1> DEFINE role == DetectRole(f.eic)
           other == Other(role)
           a == Lin(f, Total(role), 3)
           b == Lin(f, "SHA15", 1)
           c == Lin(f, Residual(role), 2)
           o == Lin(f, Total(other), 3)
           lins == <<a, b, c>>
           Good(l) == \E n \in 1..4 : DOMAIN l = 1..n /\ \A i \in 1..n : Begins(l[i], f)
<1>1. Begins(a, f) /\ Begins(b, f) /\ Begins(c, f) /\ Begins(o, f)
  BY LinBegins
<1>2. \A m \in 1..12 : /\ Begins(WithoutQuarters(a, m), f)
                       /\ Begins(WithoutQuarters(b, m), f)
                       /\ Begins(WithoutQuarters(c, m), f)
  BY ShorterBegins
<1>3. Lins(f, role) = lins
  BY DEF Lins
<1>4. Good(Lins(f, other))
  <2>1. Begins(Lin(f, Residual(other), 2), f)
    BY LinBegins
  <2> DEFINE r == Lin(f, Residual(other), 2)
  <2>2. Lins(f, other) = <<o, b, r>>
    BY DEF Lins
  <2> HIDE DEF r, o, b
  <2>3. Good(<<o, b, r>>)
    BY <1>1, <2>1 DEF r
  <2>4. QED
    BY <2>2, <2>3
<1>5. Lin(f, Total(other), 3) = o
  OBVIOUS
<1> HIDE DEF a, b, c, o, Good
<1>6. Good(lins)
  BY <1>1 DEF Good
<1>7. \A m \in 1..12 : Good(AllWithout(lins, m))
  BY <1>2 DEF Good, AllWithout
<1>8. Good([lins EXCEPT ![2] = WithoutQuarters(@, 4)])
  BY <1>1, <1>2 DEF Good
<1>9. Good([lins EXCEPT ![1].qtys[7].text = "missing"])
  BY <1>1, ChangedBegins DEF Good
<1>10. Good([lins EXCEPT ![3].qtys[96 - 8].text = "words"])
  BY <1>1, ChangedBegins DEF Good
<1>11. Good([lins EXCEPT ![2].qtys[5].dtms = Tail(@)])
  <2> DEFINE x == [b.qtys[5] EXCEPT !.dtms = Tail(@)]
  <2>1. Begins([b EXCEPT !.qtys = [b.qtys EXCEPT ![5] = x]], f)
    <3> HIDE DEF x
    <3>1. QED
      BY <1>1, ChangedBegins
  <2> DEFINE y == [b EXCEPT !.qtys = [b.qtys EXCEPT ![5] = x]]
  <2>2. [lins EXCEPT ![2].qtys[5].dtms = Tail(@)] = [lins EXCEPT ![2] = y]
    OBVIOUS
  <2> HIDE DEF y
  <2>3. [lins EXCEPT ![2] = y] = <<a, y, c>>
    OBVIOUS
  <2>4. Good(<<a, y, c>>)
    BY <1>1, <2>1 DEF Good, y
  <2>5. QED
    BY <2>2, <2>3, <2>4
<1>12. Good([lins EXCEPT ![1].qtys[1].dtms[2].datum = [form |-> "basic", wall |-> 0, zone |-> "EET"]])
  <2> DEFINE e == [form |-> "basic", wall |-> 0, zone |-> "EET"]
             q == [a.qtys EXCEPT ![1] =
                     [a.qtys[1] EXCEPT !.dtms =
                        [a.qtys[1].dtms EXCEPT ![2] =
                           [a.qtys[1].dtms[2] EXCEPT !.datum = e]]]]
  <2> DEFINE y == [a EXCEPT !.qtys = q]
  <2>1. [lins EXCEPT ![1].qtys[1].dtms[2].datum = e] = [lins EXCEPT ![1] = y]
    OBVIOUS
  <2>2. Begins(y, f)
    BY OddZoneBegins DEF a
  <2> HIDE DEF y
  <2>3. [lins EXCEPT ![1] = y] = <<y, b, c>>
    OBVIOUS
  <2>4. Good(<<y, b, c>>)
    BY <1>1, <2>2 DEF Good
  <2>5. QED
    BY <2>1, <2>3, <2>4
<1>13. Good([lins EXCEPT ![3].qtys[50].kw = @ - 2])
  BY <1>1, ChangedBegins DEF Good
<1>14. Good([lins EXCEPT ![1].qtys[50].kw = 5000, ![3].qtys[50].kw = 4999])
  BY <1>1, ChangedBegins DEF Good
<1>15. Good(<<o>>) /\ Good(<<b>>) /\ Good(lins \o <<o>>)
  BY <1>1 DEF Good
<1>16. Begins([a EXCEPT !.item = "XXX99"], f)
  <2>1. PICK n \in Nat \ {0} : a.qtys = [i \in 1..n |-> a.qtys[i]]
    BY <1>1 DEF Begins
  <2>2. Begins([item |-> "XXX99", qtys |-> a.qtys], f)
    BY <1>1, <2>1, Tampered
  <2>3. [a EXCEPT !.item = "XXX99"] = [item |-> "XXX99", qtys |-> a.qtys]
    <3>1. a = [item |-> a.item, qtys |-> a.qtys]
      BY <1>1 DEF Begins
    <3>2. QED
      BY <3>1
  <2>4. QED
    BY <2>2, <2>3
<1>17. Good(<<[a EXCEPT !.item = "XXX99"]>>) /\ Good(<<[a EXCEPT !.item = "XXX99"]>> \o lins)
  BY <1>1, <1>16 DEF Good
<1>18. Good(Flawed(f, lins))
  <2>1. CASE f.flaw = "quarter_lost"
    BY <1>7, <2>1 DEF Flawed
  <2>2. CASE f.flaw = "three_lost"
    BY <1>7, <2>2 DEF Flawed
  <2>3. CASE f.flaw = "hours_lost"
    BY <1>7, <2>3 DEF Flawed, Hour
  <2>4. CASE f.flaw = "short_series"
    BY <1>8, <2>4 DEF Flawed
  <2>5. CASE f.flaw = "value_missing"
    BY <1>9, <2>5 DEF Flawed
  <2>6. CASE f.flaw = "value_text"
    BY <1>10, <2>6 DEF Flawed
  <2>7. CASE f.flaw = "no_start"
    BY <1>11, <2>7 DEF Flawed
  <2>8. CASE f.flaw = "odd_zone"
    BY <1>12, <2>8 DEF Flawed
  <2>9. CASE f.flaw = "drift"
    BY <1>13, <2>9 DEF Flawed
  <2>10. CASE f.flaw = "spike"
    BY <1>14, <2>10 DEF Flawed
  <2>11. CASE f.flaw = "other_role"
    BY <1>4, <2>11 DEF Flawed
  <2>12. CASE f.flaw = "other_total"
    BY <1>5, <1>15, <2>12 DEF Flawed
  <2>13. CASE f.flaw = "shared_only"
    BY <1>15, <2>13 DEF Flawed
  <2>14. CASE f.flaw = "both_roles"
    BY <1>5, <1>15, <2>14 DEF Flawed
  <2>15. CASE f.flaw = "extra_series"
    BY <1>17, <2>15 DEF Flawed
  <2>16. CASE f.flaw = "unknown_only"
    BY <1>17, <2>16 DEF Flawed
  <2>17. CASE f.flaw \notin {"quarter_lost", "three_lost", "hours_lost", "short_series",
                            "value_missing", "value_text", "no_start", "odd_zone", "drift",
                            "spike", "other_role", "other_total", "shared_only", "both_roles",
                            "extra_series", "unknown_only"}
    BY <1>6, <2>17 DEF Flawed
  <2>18. QED
    BY <2>1, <2>2, <2>3, <2>4, <2>5, <2>6, <2>7, <2>8, <2>9, <2>10, <2>11, <2>12, <2>13,
       <2>14, <2>15, <2>16, <2>17
<1>19. QED
  BY <1>3, <1>18 DEF Good

\* The series of a file, with its flaw.
LinsOf(f) == Flawed(f, Lins(f, DetectRole(f.eic)))

(* The parser finds the location of a file unless it is not there, and      *)
(* reads exactly the file's series.                                         *)
LEMMA DocumentRead ==
  ASSUME NEW f \in FileKinds
  PROVE  /\ \/ Parse(Document(f)) = Failed
            \/ Kept(LinsOf(f)) # {} /\ Parse(Document(f)) = Parsed(f.eic, LinsOf(f))
         /\ /\ f.flaw \notin {"no_eic", "no_location", "no_subject", "other_root"}
            /\ Kept(LinsOf(f)) # {} /\ Readable(LinsOf(f))
            => Parse(Document(f)) = Parsed(f.eic, LinsOf(f))
<1> DEFINE doc == Document(f)
           lins == LinsOf(f)
           loc == [place |-> IF f.flaw = "no_eic" THEN <<>> ELSE <<f.eic>>, lins |-> lins]
           nad == [action |-> "GN", loc |-> IF f.flaw = "no_location" THEN <<>> ELSE <<loc>>]
           from == [action |-> "MS", loc |-> <<>>]
<1>1. doc = [root |-> IF f.flaw = "other_root" THEN "Other" ELSE "MSCONS",
             nads |-> IF f.flaw = "no_subject" THEN <<from>> ELSE <<from, nad>>]
  BY DEF Document, LinsOf
<1> HIDE DEF doc, lins
<1>2. loc.lins = lins /\ nad.action = "GN" /\ from.action = "MS"
  OBVIOUS
<1>3. f.flaw # "no_eic" => loc.place = <<f.eic>>
  OBVIOUS
<1>4. f.flaw = "no_eic" => loc.place = <<>>
  OBVIOUS
<1>5. f.flaw # "no_location" => nad.loc = <<loc>>
  OBVIOUS
<1>6. f.flaw = "no_location" => nad.loc = <<>>
  OBVIOUS
<1> HIDE DEF loc, nad, from
<1>7. f.flaw = "no_subject" => Subjects(doc) = {}
  BY <1>1, <1>2 DEF Subjects
<1>8. ASSUME f.flaw # "no_subject" PROVE Subjects(doc) # {} /\ Subject(doc) = nad
  <2>1. doc.nads = <<from, nad>>
    BY <1>1, <1>8
  <2>2. Subjects(doc) = {2}
    BY <1>2, <2>1 DEF Subjects
  <2>3. Min({2}) = 2
    <3>1. IsFiniteSet({2})
      BY FS_Singleton
    <3>2. {2} \in SUBSET Int /\ {2} # {}
      OBVIOUS
    <3>3. QED
      BY <3>1, <3>2, MinIs
  <2>4. QED
    BY <2>1, <2>2, <2>3 DEF Subject
<1>9. f.flaw = "other_root" <=> doc.root \notin {"MSCONS", "MSCONSDOCUMENT"}
  BY <1>1
<1>10. Head(<<loc>>) = loc /\ Head(<<f.eic>>) = f.eic /\ <<loc>> # <<>> /\ <<f.eic>> # <<>>
  OBVIOUS
<1>11. CASE f.flaw \in {"no_eic", "no_location", "no_subject", "other_root"}
  <2>1. Parse(doc) = Failed
    BY <1>3, <1>4, <1>5, <1>6, <1>7, <1>8, <1>9, <1>10, <1>11 DEF Parse
  <2>2. QED
    BY <1>11, <2>1 DEF doc
<1>12. CASE f.flaw \notin {"no_eic", "no_location", "no_subject", "other_root"}
  <2>1. Parse(doc) = IF Kept(lins) = {} \/ ~Readable(lins) THEN Failed ELSE Parsed(f.eic, lins)
    BY <1>2, <1>3, <1>5, <1>8, <1>9, <1>10, <1>12 DEF Parse
  <2>2. QED
    BY <2>1 DEF doc, lins
<1>13. QED
  BY <1>11, <1>12

(* A series that begins with the day's first quarter is read so.            *)
LEMMA QuartersBegin ==
  ASSUME NEW f \in FileKinds, NEW lin, Begins(lin, f)
  PROVE  Quarters(lin)[1].start = DayStart(f.day)
<1> DEFINE S == {lin.qtys[i] : i \in DOMAIN lin.qtys}
           valued == Picked(lin.qtys, Valued(lin))
<1>1. lin.qtys \in Seq(S) /\ lin.qtys # <<>>
  <2>1. PICK n \in Nat \ {0} : lin.qtys = [i \in 1..n |-> lin.qtys[i]]
    BY DEF Begins
  <2>2. QED
    BY <2>1
<1>2. 1 \in Valued(lin)
  BY <1>1 DEF Begins, Valued, HasValue
<1> HIDE DEF S
<1>3. valued \in Seq(S) /\ valued # <<>> /\ valued[1] = lin.qtys[1]
  BY <1>1, <1>2, PickedFirst
<1> HIDE DEF valued
<1>4. 1 \in DOMAIN valued
  BY <1>3
<1>5. Max({1}) = 1
  <2>1. {1} \in SUBSET Int /\ IsFiniteSet({1}) /\ {1} # {}
    BY FS_Singleton
  <2>2. QED
    BY <2>1, MaxIs
<1>6. StartDatum(valued[1]) = Datum(DayStart(f.day), f.notation)
  BY <1>3, <1>5 DEF Begins, StartDatum
<1>7. ParseDatum(Datum(DayStart(f.day), f.notation)) = {DayStart(f.day)}
  <2>1. f.day \in Nat \ {0} /\ f.notation \in {"basic", "utc", "extended", "naive"}
    BY DailyFilesAssumption DEF FileKinds
  <2>2. Autumn \in Nat /\ Spring \in Nat
    BY ClockAssumption
  <2> DEFINE t == DayStart(f.day)
  <2>3. t = 96 * f.day - (IF Spring < f.day /\ f.day <= Autumn THEN 104 ELSE 100)
    BY <2>1, DayStartIs
  <2> HIDE DEF t
  <2>4. t \in Int /\ (t < Midnight(Autumn) + Hour \/ t >= Midnight(Autumn) + 2 * Hour)
    BY <2>1, <2>2, <2>3 DEF Midnight, Hour
  <2>5. QED
    BY <2>1, <2>4, ReadBack DEF t
<1>8. Quarters(lin)[1].start = CHOOSE t \in ParseDatum(StartDatum(valued[1])) : TRUE
  BY <1>4 DEF Quarters, Quarter, valued
<1>9. QED
  BY <1>6, <1>7, <1>8

(* _infer_measurement_date: the day is the file's whichever series came     *)
(* first and whichever of its code came last.                               *)
LEMMA DayOfSeries ==
  ASSUME NEW f \in FileKinds, NEW n \in Nat, NEW lins, DOMAIN lins = 1..n,
         \A i \in 1..n : Begins(lins[i], f), Kept(lins) # {}
  PROVE  MeasurementDay(lins, SeriesOf(lins)) = f.day
<1> DEFINE first == Min(Kept(lins))
           item == lins[first].item
           same == {i \in Kept(lins) : lins[i].item = item}
<1>1. Kept(lins) \in SUBSET Int /\ IsFiniteSet(Kept(lins)) /\ Kept(lins) \subseteq 1..n
  BY FS_Interval, FiniteParts DEF Kept
<1>2. first \in Kept(lins)
  BY <1>1, MinIs
<1> HIDE DEF first
<1>3. same \in SUBSET Int /\ IsFiniteSet(same) /\ same # {}
  <2>1. same \subseteq Kept(lins) /\ first \in same
    BY <1>2
  <2> HIDE DEF same
  <2>2. QED
    BY <1>1, <2>1, FiniteParts
<1> HIDE DEF same
<1>4. Max(same) \in same
  BY <1>3, MaxIs
<1>5. Max(same) \in 1..n
  BY <1>1, <1>4 DEF same
<1>6. item \in Items(lins)
  BY <1>2 DEF Items
<1>7. SeriesOf(lins)[item] = Quarters(lins[Max(same)])
  BY <1>6 DEF SeriesOf, same
<1>8. SeriesOf(lins)[item][1].start = DayStart(f.day)
  BY <1>5, <1>7, QuartersBegin
<1>9. f.day \in Nat \ {0}
  BY DailyFilesAssumption DEF FileKinds
<1>10. MeasurementDay(lins, SeriesOf(lins)) = LocalDay(DayStart(f.day))
  BY <1>8 DEF MeasurementDay, first
<1>11. QED
  BY <1>9, <1>10, DayOfItsStart

-----------------------------------------------------------------------------
(* Three series, of which the sensors of a role are fed, behind k others of *)
(* codes that are not known.                                                *)

Three(lins, k, role, a, b, c) ==
  /\ DOMAIN lins = 1..(3 + k)
  /\ \A i \in 1..k : lins[i].item \notin Known
  /\ lins[k + 1] = a /\ lins[k + 2] = b /\ lins[k + 3] = c
  /\ a.item = Total(role) /\ b.item = "SHA15" /\ c.item = Residual(role)
  /\ Valued(a) # {} /\ Valued(b) # {} /\ Valued(c) # {}

Places(k) == {k + 1, k + 2, k + 3}

LEMMA RoleItems ==
  ASSUME NEW role \in {"offtake", "producer"}
  PROVE  /\ Total(role) \in Known /\ Residual(role) \in Known /\ "SHA15" \in Known
         /\ Total(role) # Residual(role) /\ Total(role) # "SHA15" /\ Residual(role) # "SHA15"
BY DEF Total, Residual, Known, Offtake, Producer

(* A code that comes once has the quarters of its series.                   *)
LEMMA SeriesOfOne ==
  ASSUME NEW n \in Nat, NEW lins, DOMAIN lins = 1..n, NEW i \in Kept(lins),
         \A j \in Kept(lins) : lins[j].item = lins[i].item => j = i
  PROVE  SeriesOf(lins)[lins[i].item] = Quarters(lins[i])
<1> DEFINE same == {j \in Kept(lins) : lins[j].item = lins[i].item}
<1>1. same = {i} /\ i \in Int
  BY DEF Kept
<1>2. Max({i}) = i
  <2>1. IsFiniteSet({i})
    BY FS_Singleton
  <2>2. {i} \in SUBSET Int /\ {i} # {}
    BY <1>1
  <2>3. QED
    BY <2>1, <2>2, MaxIs
<1>3. lins[i].item \in Items(lins)
  BY DEF Items
<1>4. QED
  BY <1>1, <1>2, <1>3 DEF SeriesOf

LEMMA ThreeSeries ==
  ASSUME NEW lins, NEW k \in Nat, NEW role \in {"offtake", "producer"}, NEW a, NEW b, NEW c,
         Three(lins, k, role, a, b, c)
  PROVE  /\ Kept(lins) = Places(k)
         /\ DOMAIN SeriesOf(lins) = SensorLins(role)
         /\ SeriesOf(lins)[Total(role)] = Quarters(a)
         /\ SeriesOf(lins)["SHA15"] = Quarters(b)
         /\ SeriesOf(lins)[Residual(role)] = Quarters(c)
<1>1. Kept(lins) = Places(k)
  <2>1. {k + 1, k + 2, k + 3} \subseteq Kept(lins)
    BY RoleItems DEF Three, Kept
  <2>2. \A i \in 1..(3 + k) : i \in 1..k \/ i \in {k + 1, k + 2, k + 3}
    OBVIOUS
  <2>3. QED
    BY <2>1, <2>2 DEF Three, Kept, Places
<1>2. DOMAIN SeriesOf(lins) = SensorLins(role)
  <2>1. Items(lins) = {Total(role), "SHA15", Residual(role)}
    BY <1>1 DEF Items, Three, Places
  <2>2. QED
    BY <2>1 DEF SeriesOf, SensorLins
<1>3. \A i \in Kept(lins) : \A j \in Kept(lins) : lins[j].item = lins[i].item => j = i
  BY <1>1, RoleItems DEF Three, Places
<1>4. \A i \in Kept(lins) : SeriesOf(lins)[lins[i].item] = Quarters(lins[i])
  <2>1. 3 + k \in Nat /\ DOMAIN lins = 1..(3 + k)
    BY DEF Three
  <2>2. QED
    BY <1>3, <2>1, SeriesOfOne
<1>5. QED
  BY <1>1, <1>2, <1>4 DEF Three, Places

(* A series whose quarters all have values has as many quarters.            *)
LEMMA AllQuarters ==
  ASSUME NEW lin, NEW item, NEW n \in Nat \ {0}, HasQuarters(lin, item, n)
  PROVE  /\ Valued(lin) # {} /\ lin.item = item
         /\ Quarters(lin) = [i \in 1..n |-> Quarter(lin.qtys[i])]
         /\ Len(Quarters(lin)) = n
<1> DEFINE q == lin.qtys
           S == {q[i] : i \in 1..n}
<1>1. lin.item = item /\ q = [i \in 1..n |-> q[i]] /\ \A i \in 1..n : q[i].text = "number"
  BY DEF HasQuarters
<1>2. q \in Seq(S) /\ DOMAIN q = 1..n /\ Len(q) = n
  BY <1>1
<1>3. \A i \in 1..n : i \in Valued(lin)
  BY <1>1, <1>2 DEF Valued, HasValue
<1> HIDE DEF S
<1>4. Picked(q, Valued(lin)) = q
  <2>1. n + 1 \in 1..(Len(q) + 1) /\ n + 1 = Len(q) + 1
    BY <1>2
  <2>2. \A i \in DOMAIN q : i \in Valued(lin) <=> i # n + 1
    BY <1>2, <1>3
  <2> HIDE DEF q
  <2>3. QED
    BY <1>2, <2>1, <2>2, PickedLength
<1>5. Quarters(lin) = [i \in 1..n |-> Quarter(q[i])]
  BY <1>2, <1>4 DEF Quarters
<1>6. Len(Quarters(lin)) = n
  BY <1>5
<1>7. Valued(lin) # {}
  BY <1>3
<1>8. QED
  BY <1>1, <1>5, <1>6, <1>7

(* Without the value of one of them it has one less.                        *)
LEMMA AllButOne ==
  ASSUME NEW lin, NEW item, NEW n \in Nat, n > 1, HasQuarters(lin, item, n),
         NEW k \in 1..n, NEW x, ~HasValue(x)
  PROVE  LET less == [lin EXCEPT !.qtys = [lin.qtys EXCEPT ![k] = x]]
         IN  Valued(less) # {} /\ less.item = item /\ Len(Quarters(less)) = n - 1
<1> DEFINE q == [lin.qtys EXCEPT ![k] = x]
           less == [lin EXCEPT !.qtys = q]
           S == {q[i] : i \in 1..n}
<1>1. /\ lin = [item |-> item, qtys |-> lin.qtys]
      /\ lin.qtys = [i \in 1..n |-> lin.qtys[i]] /\ \A i \in 1..n : lin.qtys[i].text = "number"
  BY DEF HasQuarters
<1>2. q = [i \in 1..n |-> q[i]] /\ \A i \in 1..n : q[i] = IF i = k THEN x ELSE lin.qtys[i]
  BY <1>1
<1> HIDE DEF q
<1>3. less.item = item /\ less.qtys = q
  BY <1>1
<1> HIDE DEF less
<1>4. q \in Seq(S) /\ DOMAIN q = 1..n /\ Len(q) = n
  BY <1>2
<1> HIDE DEF S
<1>5. \A i \in DOMAIN q : i \in Valued(less) <=> i # k
  BY <1>1, <1>2, <1>3, <1>4 DEF Valued, HasValue
<1>6. Len(Picked(q, Valued(less))) = n - 1
  <2>1. k \in 1..(Len(q) + 1) /\ k <= Len(q)
    BY <1>4
  <2>2. QED
    BY <1>4, <1>5, <2>1, PickedLength
<1>7. Picked(q, Valued(less)) \in Seq(S)
  BY <1>4, PickedFirst
<1>8. Len(Quarters(less)) = n - 1
  <2> DEFINE v == Picked(q, Valued(less))
  <2>1. DOMAIN v = 1..(n - 1) /\ n - 1 \in Nat
    BY <1>6, <1>7
  <2> HIDE DEF v
  <2>2. Quarters(less) = [i \in 1..(n - 1) |-> Quarter(v[i])]
    BY <1>3, <2>1 DEF Quarters, v
  <2>3. QED
    BY <2>1, <2>2
<1>9. Valued(less) # {}
  <2>1. 1 \in DOMAIN q /\ 2 \in DOMAIN q
    BY <1>4
  <2>2. 1 \in Valued(less) \/ 2 \in Valued(less)
    <3>1. CASE k = 1
      BY <1>5, <2>1, <3>1
    <3>2. CASE k # 1
      BY <1>5, <2>1, <3>2
    <3>3. QED
      BY <3>1, <3>2
  <2>3. QED
    BY <2>2
<1>10. QED
  BY <1>3, <1>8, <1>9 DEF less, q

-----------------------------------------------------------------------------
(* The specification. *)

(* What has been parsed came of the file at hand.                           *)
ParsedInv ==
  /\ file \in FileKinds
  /\ parsed.done => parsed.result = Parse(Document(file))

LEMMA ParsedInductive == FilesSpec => []ParsedInv
<1>1. FilesInit => ParsedInv
  BY DEF FilesInit, ParsedInv, Unparsed
<1>2. ParsedInv /\ [FilesNext]_fileVars => ParsedInv'
  <2> SUFFICES ASSUME ParsedInv, [FilesNext]_fileVars PROVE ParsedInv'
    OBVIOUS
  <2>1. CASE ParseFile
    BY <2>1 DEF ParseFile, ParsedInv
  <2>2. CASE NextFile
    BY <2>2 DEF NextFile, ParsedInv, Unparsed
  <2>3. CASE UNCHANGED fileVars
    BY <2>3 DEF fileVars, ParsedInv
  <2>4. QED
    BY <2>1, <2>2, <2>3 DEF FilesNext
<1>3. QED
  BY <1>1, <1>2, PTL DEF FilesSpec

(* A file that is understood feeds a sensor of the role that the parser     *)
(* settles on, whatever is wrong with it (_collect_pending).                *)
THEOREM ResultsFeed == FilesSpec => []FeedsSensors
<1>1. ParsedInv => FeedsSensors
  <2> SUFFICES ASSUME ParsedInv, Understood
               PROVE  SensorLins(parsed.result.role) \cap DOMAIN parsed.result.series # {}
    BY DEF FeedsSensors
  <2>1. parsed.result = Parse(Document(file)) /\ parsed.result.ok
    BY DEF ParsedInv, Understood
  <2>2. Parse(Document(file)) # Failed
    BY <2>1 DEF Failed
  <2>3. QED
    BY <2>1, <2>2, EveryResultFeeds
<1>2. QED
  BY <1>1, ParsedInductive, PTL

(* What is understood of a file was read from the file's series.            *)
LEMMA UnderstoodIs ==
  ASSUME ParsedInv, Understood
  PROVE  /\ file \in FileKinds /\ Kept(LinsOf(file)) # {}
         /\ parsed.result = Parsed(file.eic, LinsOf(file))
<1>1. parsed.result = Parse(Document(file)) /\ parsed.result.ok /\ file \in FileKinds
  BY DEF ParsedInv, Understood
<1>2. Parse(Document(file)) # Failed
  BY <1>1 DEF Failed
<1>3. QED
  BY <1>1, <1>2, DocumentRead

(* The rest of what is checked of a file that is understood: its day.       *)
LEMMA DayOfFile ==
  ASSUME NEW f \in FileKinds, Kept(LinsOf(f)) # {}
  PROVE  Parsed(f.eic, LinsOf(f)).day = f.day
<1> DEFINE lins == LinsOf(f)
<1>1. PICK n \in 1..4 : DOMAIN lins = 1..n /\ \A i \in 1..n : Begins(lins[i], f)
  BY FlawedBegins DEF LinsOf
<1> HIDE DEF lins
<1>2. MeasurementDay(lins, SeriesOf(lins)) = f.day
  BY <1>1, DayOfSeries DEF lins
<1>3. QED
  BY <1>2 DEF Parsed, lins

(* What is understood of a file is imported under the file's own day,       *)
(* whatever is wrong with it: every series of a code that the parser keeps  *)
(* begins with the day's first quarter (_infer_measurement_date).           *)
THEOREM DayUnderstood == FilesSpec => []DayIsTheFilesDay
<1>1. ParsedInv => DayIsTheFilesDay
  <2> SUFFICES ASSUME ParsedInv, Understood PROVE parsed.result.day = file.day
    BY DEF DayIsTheFilesDay
  <2>1. QED
    BY UnderstoodIs, DayOfFile
<1>2. QED
  BY <1>1, ParsedInductive, PTL

(* ThreeSeries, with nothing before the three.                              *)
LEMMA OnlyThreeSeries ==
  ASSUME NEW lins, NEW role \in {"offtake", "producer"}, NEW a, NEW b, NEW c,
         Three(lins, 0, role, a, b, c)
  PROVE  /\ DOMAIN SeriesOf(lins) = SensorLins(role)
         /\ SeriesOf(lins)[Total(role)] = Quarters(a)
         /\ SeriesOf(lins)["SHA15"] = Quarters(b)
<1>1. PICK k \in Nat : k = 0
  OBVIOUS
<1>2. Three(lins, k, role, a, b, c)
  BY <1>1
<1>3. DOMAIN SeriesOf(lins) = SensorLins(role)
  BY <1>2, ThreeSeries
<1>4. SeriesOf(lins)[Total(role)] = Quarters(a)
  BY <1>2, ThreeSeries
<1>5. SeriesOf(lins)["SHA15"] = Quarters(b)
  BY <1>2, ThreeSeries
<1>6. QED
  BY <1>3, <1>4, <1>5

(* What a warning about the number of quarters takes.                       *)
LEMMA CountWarned ==
  ASSUME NEW series, NEW x \in DOMAIN series, NEW y \in DOMAIN series,
         Len(series[x]) \notin {92, 96, 100} \/ Len(series[x]) # Len(series[y])
  PROVE  CountWarnings(series) # {}
<1>1. Len(series[x]) \in Counts(series) /\ Len(series[y]) \in Counts(series)
  BY DEF Counts
<1>2. CASE Len(series[x]) \notin {92, 96, 100}
  <2>1. "count" \in CountWarnings(series)
    BY <1>1, <1>2 DEF CountWarnings
  <2>2. QED
    BY <2>1
<1>3. CASE Len(series[x]) # Len(series[y])
  <2>1. "inconsistent" \in CountWarnings(series)
    BY <1>1, <1>3 DEF CountWarnings
  <2>2. QED
    BY <2>1
<1>4. QED
  BY <1>2, <1>3

(* Without any of the quarters that the flaws take away the series are of   *)
(* no day's length, or not all of the same.                                 *)
LEMMA LossNoticed ==
  ASSUME NEW f \in FileKinds,
         f.flaw \in {"quarter_lost", "three_lost", "hours_lost", "short_series", "value_missing"}
  PROVE  CountWarnings(SeriesOf(LinsOf(f))) # {}
<1> DEFINE role == DetectRole(f.eic)
           a == Lin(f, Total(role), 3)
           b == Lin(f, "SHA15", 1)
           c == Lin(f, Residual(role), 2)
           lins == <<a, b, c>>
           n == Count(f)
           Noticed(l) == CountWarnings(SeriesOf(l)) # {}
           T == Total(role)
<1>0. role \in {"offtake", "producer"}
  BY DEF DetectRole
<1>1. n \in {92, 96, 100}
  BY LinIs
<1>2. /\ HasQuarters(a, Total(role), n) /\ HasQuarters(b, "SHA15", n)
      /\ HasQuarters(c, Residual(role), n)
  BY LinHas
<1>3. LinsOf(f) = Flawed(f, lins)
  BY DEF LinsOf, Lins
<1>4. \A m \in 1..12 :
        /\ HasQuarters(WithoutQuarters(a, m), Total(role), n - m)
        /\ HasQuarters(WithoutQuarters(b, m), "SHA15", n - m)
        /\ HasQuarters(WithoutQuarters(c, m), Residual(role), n - m)
  BY Shortened
<1> HIDE DEF role, a, b, c, n, Noticed
<1>5. T \in SensorLins(role) /\ "SHA15" \in SensorLins(role)
  BY DEF SensorLins
<1>6. ASSUME NEW m \in {1, 3, 12} PROVE Noticed(AllWithout(lins, m))
  <2> DEFINE x == WithoutQuarters(a, m)
             y == WithoutQuarters(b, m)
             z == WithoutQuarters(c, m)
             l == <<x, y, z>>
  <2>1. AllWithout(lins, m) = l
    BY DEF AllWithout
  <2>2. n - m \in Nat \ {0} /\ n - m \notin {92, 96, 100} /\ m \in 1..12
    BY <1>1
  <2>3. /\ HasQuarters(x, Total(role), n - m) /\ HasQuarters(y, "SHA15", n - m)
        /\ HasQuarters(z, Residual(role), n - m)
    BY <1>4, <2>2
  <2> HIDE DEF x, y, z
  <2>4. Three(l, 0, role, x, y, z) /\ Len(Quarters(x)) = n - m
    BY <2>2, <2>3, AllQuarters DEF Three
  <2> HIDE DEF l
  <2>5. DOMAIN SeriesOf(l) = SensorLins(role) /\ SeriesOf(l)[T] = Quarters(x)
    BY <1>0, <2>4, OnlyThreeSeries
  <2>6. Noticed(l)
    <3>1. T \in DOMAIN SeriesOf(l) /\ Len(SeriesOf(l)[T]) \notin {92, 96, 100}
      BY <1>5, <2>2, <2>4, <2>5
    <3>2. QED
      BY <3>1, CountWarned DEF Noticed
  <2>7. QED
    BY <2>1, <2>6
<1>7. ASSUME NEW x, NEW y,
             Valued(x) # {} /\ x.item = T /\ Valued(y) # {} /\ y.item = "SHA15",
             Len(Quarters(x)) # Len(Quarters(y))
      PROVE  Noticed(<<x, y, c>>)
  <2> DEFINE l == <<x, y, c>>
  <2>1. n \in Nat \ {0}
    BY <1>1
  <2>2. Valued(c) # {} /\ c.item = Residual(role)
    BY <1>2, <2>1, AllQuarters
  <2>3. Three(l, 0, role, x, y, c)
    BY <1>7, <2>2 DEF Three
  <2> HIDE DEF l
  <2>4. /\ DOMAIN SeriesOf(l) = SensorLins(role)
        /\ SeriesOf(l)[T] = Quarters(x) /\ SeriesOf(l)["SHA15"] = Quarters(y)
    BY <1>0, <2>3, OnlyThreeSeries
  <2>5. QED
    BY <1>5, <1>7, <2>4, CountWarned DEF Noticed, l
<1>8. Noticed([lins EXCEPT ![2] = WithoutQuarters(@, 4)])
  <2> DEFINE y == WithoutQuarters(b, 4)
  <2>1. n \in Nat \ {0} /\ n - 4 \in Nat \ {0} /\ n # n - 4
    BY <1>1
  <2>2. HasQuarters(y, "SHA15", n - 4)
    BY <1>4
  <2>3. [lins EXCEPT ![2] = WithoutQuarters(@, 4)] = <<a, y, c>>
    OBVIOUS
  <2> HIDE DEF y
  <2>4. Valued(a) # {} /\ a.item = T /\ Len(Quarters(a)) = n
    BY <1>2, <2>1, AllQuarters
  <2>5. Valued(y) # {} /\ y.item = "SHA15" /\ Len(Quarters(y)) = n - 4
    BY <2>1, <2>2, AllQuarters
  <2>6. QED
    BY <1>7, <2>1, <2>3, <2>4, <2>5
<1>9. Noticed([lins EXCEPT ![1].qtys[7].text = "missing"])
  <2> DEFINE v == [a.qtys[7] EXCEPT !.text = "missing"]
             x == [a EXCEPT !.qtys = [a.qtys EXCEPT ![7] = v]]
  <2>1. n \in Nat \ {0} /\ n > 1 /\ n # n - 1 /\ 7 \in 1..n
    BY <1>1
  <2>2. ~HasValue(v)
    <3>1. a = [item |-> Total(role),
               qtys |-> [i \in 1..n |-> Qty(DayStart(f.day) + i - 1, f.notation, 3)]]
      BY LinIs DEF a, n
    <3>2. PICK t : a.qtys[7] = Qty(t, f.notation, 3)
      BY <2>1, <3>1
    <3>3. QED
      BY <3>2 DEF Qty, HasValue
  <2>3. [lins EXCEPT ![1].qtys[7].text = "missing"] = [lins EXCEPT ![1] = x]
    OBVIOUS
  <2> HIDE DEF v
  <2>4. Valued(x) # {} /\ x.item = T /\ Len(Quarters(x)) = n - 1
    BY <1>2, <2>1, <2>2, AllButOne
  <2> HIDE DEF x
  <2>5. [lins EXCEPT ![1] = x] = <<x, b, c>>
    OBVIOUS
  <2>6. Valued(b) # {} /\ b.item = "SHA15" /\ Len(Quarters(b)) = n
    BY <1>2, <2>1, AllQuarters
  <2>7. QED
    BY <1>7, <2>1, <2>3, <2>4, <2>5, <2>6
<1>10. Noticed(Flawed(f, lins))
  <2>1. CASE f.flaw = "quarter_lost"
    BY <1>6, <2>1 DEF Flawed
  <2>2. CASE f.flaw = "three_lost"
    BY <1>6, <2>2 DEF Flawed
  <2>3. CASE f.flaw = "hours_lost"
    BY <1>6, <2>3 DEF Flawed, Hour
  <2>4. CASE f.flaw = "short_series"
    BY <1>8, <2>4 DEF Flawed
  <2>5. CASE f.flaw = "value_missing"
    BY <1>9, <2>5 DEF Flawed
  <2>6. QED
    BY <2>1, <2>2, <2>3, <2>4, <2>5
<1>11. QED
  BY <1>3, <1>10 DEF Noticed

(* Times that can be read, whether as the instant they are meant or not.    *)
LEMMA AlwaysRead ==
  ASSUME NEW t \in Int, NEW notation \in {"basic", "utc", "extended", "naive"}
  PROVE  ParseDatum(Datum(t, notation)) # {}
<1>1. CASE notation = "basic"
  <2>1. CASE Offset(t) = Hour
    BY <1>1, <2>1 DEF Datum, ParseDatum, ZoneOffset
  <2>2. CASE Offset(t) # Hour
    BY <1>1, <2>2 DEF Datum, ParseDatum, ZoneOffset
  <2>3. QED
    BY <2>1, <2>2
<1>2. CASE notation = "utc"
  BY <1>2 DEF Datum, ParseDatum, ZoneOffset
<1>3. CASE notation = "extended"
  BY <1>3 DEF Datum, ParseDatum
<1>4. CASE notation = "naive"
  BY <1>4 DEF Datum, ParseDatum
<1>5. QED
  BY <1>1, <1>2, <1>3, <1>4

(* The start of a quarter as the files write it, which can be read.         *)
LEMMA QtyStart ==
  ASSUME NEW t, NEW notation, NEW kw
  PROVE  /\ StartTimes(Qty(t, notation, kw)) = {1}
         /\ StartDatum(Qty(t, notation, kw)) = Datum(t, notation)
<1> DEFINE q == Qty(t, notation, kw)
<1>1. q.dtms = <<Dtm(158, Datum(t, notation)), Dtm(159, Datum(t + 1, notation))>>
  BY DEF Qty
<1> HIDE DEF q
<1>2. q.dtms[1].qualifier = 158 /\ q.dtms[1].datum = Datum(t, notation)
      /\ q.dtms[2].qualifier = 159 /\ DOMAIN q.dtms = {1, 2}
  BY <1>1 DEF Dtm
<1>3. StartTimes(q) = {1}
  BY <1>2 DEF StartTimes
<1>4. Max({1}) = 1
  <2>1. {1} \in SUBSET Int /\ IsFiniteSet({1}) /\ {1} # {}
    BY FS_Singleton
  <2>2. QED
    BY <2>1, MaxIs
<1>5. QED
  BY <1>2, <1>3, <1>4 DEF StartDatum, q

LEMMA QtyReadable ==
  ASSUME NEW t \in Int, NEW notation \in {"basic", "utc", "extended", "naive"}, NEW kw
  PROVE  ~Unreadable(Qty(t, notation, kw))
<1> DEFINE q == Qty(t, notation, kw)
<1>1. q.dtms = <<Dtm(158, Datum(t, notation)), Dtm(159, Datum(t + 1, notation))>>
      /\ q.text = "number"
  BY DEF Qty
<1>2. StartTimes(q) # {}
  BY QtyStart
<1> HIDE DEF q
<1>3. \A i \in DOMAIN q.dtms : q.dtms[i].datum \in {Datum(t, notation), Datum(t + 1, notation)}
  BY <1>1 DEF Dtm
<1>4. ParseDatum(Datum(t, notation)) # {} /\ ParseDatum(Datum(t + 1, notation)) # {}
  BY AlwaysRead
<1>5. QED
  BY <1>1, <1>2, <1>3, <1>4 DEF Unreadable, q

(* A day's series as it should be, in a notation that tells its times apart.*)
Told(f) == ~(f.notation = "naive" /\ f.day = Autumn)
DayQuarters(f, kw) ==
  [i \in 1..Count(f) |-> [start |-> DayStart(f.day) + i - 1, kw |-> kw]]
AllReadable(lin) == \A j \in DOMAIN lin.qtys : ~Unreadable(lin.qtys[j])

(* Such a series is read as the day's quarters, each at its instant.        *)
LEMMA GoodSeries ==
  ASSUME NEW f \in FileKinds, Told(f), NEW item, NEW kw
  PROVE  Quarters(Lin(f, item, kw)) = DayQuarters(f, kw) /\ AllReadable(Lin(f, item, kw))
<1> DEFINE n == Count(f)
           lin == Lin(f, item, kw)
           first == DayStart(f.day)
<1>1. /\ n \in {92, 96, 100}
      /\ lin = [item |-> item, qtys |-> [i \in 1..n |-> Qty(first + i - 1, f.notation, kw)]]
  BY LinIs
<1>2. HasQuarters(lin, item, n)
  BY LinHas
<1>3. f.day \in Nat \ {0} /\ f.notation \in {"basic", "utc", "extended", "naive"}
  BY DailyFilesAssumption DEF FileKinds
<1>4. first \in Int
  BY <1>3, DayStartIs
<1>5. \A i \in 1..n : ParseDatum(Datum(first + i - 1, f.notation)) = {first + i - 1}
  <2> SUFFICES ASSUME NEW i \in 1..n
               PROVE  ParseDatum(Datum(first + i - 1, f.notation)) = {first + i - 1}
    OBVIOUS
  <2>1. Autumn \in Nat /\ Spring \in Nat /\ Spring < Autumn
    BY ClockAssumption
  <2>2. first = 96 * f.day - (IF Spring < f.day /\ f.day <= Autumn THEN 104 ELSE 100)
    BY <1>3, DayStartIs
  <2>3. n = DayStart(f.day + 1) - first
    BY DEF Count
  <2>4. DayStart(f.day + 1) =
          96 * (f.day + 1) - (IF Spring < f.day + 1 /\ f.day + 1 <= Autumn THEN 104 ELSE 100)
    <3>1. f.day + 1 \in Nat \ {0}
      BY <1>3
    <3>2. QED
      BY <3>1, DayStartIs
  <2> DEFINE t == first + i - 1
  <2> HIDE DEF n, first
  <2>5. t \in Int /\ t >= first /\ t < first + n
    BY <1>1, <1>4
  <2>6. f.day # Autumn => t < Midnight(Autumn) + Hour \/ t >= Midnight(Autumn) + 2 * Hour
    <3> HIDE DEF t
    <3>1. CASE f.day < Autumn
      <4>1. t < 96 * (f.day + 1) - 100
        <5>1. DayStart(f.day + 1) \in Int /\ DayStart(f.day + 1) <= 96 * (f.day + 1) - 100
          BY <1>3, <2>4
        <5>2. first + n = DayStart(f.day + 1)
          BY <1>1, <1>4, <2>3, <5>1
        <5>3. QED
          BY <1>3, <2>5, <5>1, <5>2
      <4>2. QED
        BY <1>3, <2>1, <2>5, <3>1, <4>1 DEF Midnight, Hour
    <3>2. CASE f.day > Autumn
      BY <1>3, <2>1, <2>2, <2>5, <3>2 DEF Midnight, Hour
    <3>3. QED
      BY <1>3, <2>1, <3>1, <3>2
  <2> HIDE DEF t
  <2>7. f.notation = "naive" => t < Midnight(Autumn) + Hour \/ t >= Midnight(Autumn) + 2 * Hour
    BY <2>6 DEF Told
  <2>8. ParseDatum(Datum(t, f.notation)) = {t}
    BY <1>3, <2>5, <2>7, ReadBack
  <2>9. QED
    BY <2>8 DEF t
<1> HIDE DEF n, first
<1>6. \A i \in 1..n :
        /\ lin.qtys[i] = Qty(first + i - 1, f.notation, kw)
        /\ lin.qtys[i].kw = kw
        /\ StartDatum(lin.qtys[i]) = Datum(first + i - 1, f.notation)
  <2> SUFFICES ASSUME NEW i \in 1..n
               PROVE  /\ lin.qtys[i] = Qty(first + i - 1, f.notation, kw)
                      /\ lin.qtys[i].kw = kw
                      /\ StartDatum(lin.qtys[i]) = Datum(first + i - 1, f.notation)
    OBVIOUS
  <2>1. lin.qtys[i] = Qty(first + i - 1, f.notation, kw)
    BY <1>1
  <2>2. Qty(first + i - 1, f.notation, kw).kw = kw
    BY DEF Qty
  <2> HIDE DEF lin
  <2>3. QED
    BY <2>1, <2>2, QtyStart
<1>7. DOMAIN lin.qtys = 1..n
  BY <1>1
<1> HIDE DEF lin
<1>8. Quarters(lin) = [i \in 1..n |-> Quarter(lin.qtys[i])]
  <2>1. n \in Nat \ {0}
    BY <1>1
  <2>2. QED
    BY <1>2, <2>1, AllQuarters
<1>9. \A i \in 1..n : Quarter(lin.qtys[i]) = [start |-> first + i - 1, kw |-> kw]
  BY <1>5, <1>6 DEF Quarter
<1>10. Quarters(lin) = [i \in 1..n |-> [start |-> first + i - 1, kw |-> kw]]
  BY <1>8, <1>9
<1>11. AllReadable(lin)
  <2>1. \A i \in 1..n : first + i - 1 \in Int
    BY <1>1, <1>4
  <2>2. QED
    BY <1>3, <1>6, <1>7, <2>1, QtyReadable DEF AllReadable
<1>12. QED
  BY <1>10, <1>11 DEF lin, n, first, DayQuarters

(* A file is understood as it is meant.                                     *)
AsMeant(f, result) ==
  /\ result.ok /\ result.eic = f.eic /\ result.role = DetectRole(f.eic)
  /\ \A item \in SensorLins(result.role) : Starts(result.series[item]) = QuartersOf(f.day)
  /\ result.warnings = {} /\ result.delta = 0

(* Three good series of a role balance and are as long as the day.          *)
LEMMA GoodResult ==
  ASSUME NEW f \in FileKinds, NEW lins, NEW role, role = DetectRole(f.eic),
         DOMAIN SeriesOf(lins) = SensorLins(role),
         SeriesOf(lins)[Total(role)] = DayQuarters(f, 3),
         SeriesOf(lins)["SHA15"] = DayQuarters(f, 1),
         SeriesOf(lins)[Residual(role)] = DayQuarters(f, 2)
  PROVE  AsMeant(f, Parsed(f.eic, lins))
<1> DEFINE series == SeriesOf(lins)
           total == series[Total(role)]
           shared == series["SHA15"]
           residual == series[Residual(role)]
           n == Count(f)
<1>0. n \in {92, 96, 100} /\ QuartersOf(f.day) = [i \in 1..n |-> DayStart(f.day) + i - 1]
  <2>1. f.day \in Nat \ {0}
    BY DailyFilesAssumption DEF FileKinds
  <2>2. PICK m \in {92, 96, 100} :
          /\ QuartersOf(f.day) = [i \in 1..m |-> DayStart(f.day) + i - 1]
          /\ m = DayStart(f.day + 1) - DayStart(f.day)
    BY <2>1, DayLength
  <2>3. QED
    BY <2>2 DEF Count
<1>1. SensorLins(role) = {Total(role), "SHA15", Residual(role)}
  BY DEF SensorLins
<1>2. RoleOf(f.eic, SensorLins(role)) = role
  BY DEF RoleOf, SensorLins, Total, Residual, Offtake, Producer, DetectRole
<1>3. \A kw : /\ DOMAIN DayQuarters(f, kw) = 1..n /\ Len(DayQuarters(f, kw)) = n
              /\ \A i \in 1..n : DayQuarters(f, kw)[i].kw = kw
              /\ Starts(DayQuarters(f, kw)) = QuartersOf(f.day)
  <2> SUFFICES ASSUME NEW kw
               PROVE  /\ DOMAIN DayQuarters(f, kw) = 1..n /\ Len(DayQuarters(f, kw)) = n
                      /\ \A i \in 1..n : DayQuarters(f, kw)[i].kw = kw
                      /\ Starts(DayQuarters(f, kw)) = QuartersOf(f.day)
    OBVIOUS
  <2> DEFINE q == DayQuarters(f, kw)
  <2>1. q = [i \in 1..n |-> [start |-> DayStart(f.day) + i - 1, kw |-> kw]]
    BY DEF DayQuarters
  <2> HIDE DEF q, n
  <2>2. DOMAIN q = 1..n /\ Len(q) = n /\ \A i \in 1..n : q[i].kw = kw
    BY <1>0, <2>1
  <2>3. Starts(q) = QuartersOf(f.day)
    BY <1>0, <2>1 DEF Starts
  <2>4. QED
    BY <2>2, <2>3 DEF q
<1>4. /\ Len(total) = n /\ Len(shared) = n /\ Len(residual) = n
      /\ DOMAIN total = 1..n /\ DOMAIN shared = 1..n /\ DOMAIN residual = 1..n
      /\ \A i \in 1..n : total[i].kw = 3 /\ shared[i].kw = 1 /\ residual[i].kw = 2
      /\ \A item \in SensorLins(role) : Starts(series[item]) = QuartersOf(f.day)
      /\ DOMAIN series = SensorLins(role)
  BY <1>1, <1>3
<1> HIDE DEF series
<1> HIDE DEF n
<1>6. ~Mismatched(series, role)
  BY <1>1, <1>4 DEF Mismatched
<1>7. CountWarnings(series) = {}
  <2>1. Counts(series) = {n}
    BY <1>1, <1>4 DEF Counts
  <2>2. \A item \in DOMAIN series : \A i \in DOMAIN series[item] :
           Abs(series[item][i].kw) <= Ceiling
    BY <1>1, <1>4 DEF Abs, Ceiling
  <2>3. QED
    BY <1>0, <2>1, <2>2 DEF CountWarnings
<1>8. Delta(series, role) = 0
  <2> DEFINE deltas == {Abs(total[i].kw - series["SHA15"][i].kw
                              - series[Residual(role)][i].kw) : i \in DOMAIN total}
  <2>1. \A i \in DOMAIN total :
           Abs(total[i].kw - series["SHA15"][i].kw - series[Residual(role)][i].kw) = 0
    BY <1>4 DEF Abs
  <2>2. deltas = {0}
    <3>1. 1 \in DOMAIN total
      BY <1>0, <1>4
    <3>2. QED
      BY <2>1, <3>1
  <2>3. Delta(series, role) = CHOOSE max \in deltas : \A d \in deltas : d <= max
    BY <1>4 DEF Delta
  <2> HIDE DEF deltas
  <2>4. QED
    BY <2>2, <2>3
<1>9. /\ Parsed(f.eic, lins).eic = f.eic /\ Parsed(f.eic, lins).series = series
      /\ Parsed(f.eic, lins).role = RoleOf(f.eic, DOMAIN series) /\ Parsed(f.eic, lins).ok
  BY DEF Parsed, series
<1>10. Parsed(f.eic, lins).role = role
  BY <1>2, <1>4, <1>9
<1>11. Parsed(f.eic, lins).warnings = {} /\ Parsed(f.eic, lins).delta = 0
  BY <1>2, <1>4, <1>6, <1>7, <1>8 DEF Parsed, series
<1>12. QED
  BY <1>4, <1>9, <1>10, <1>11 DEF AsMeant

(* A file without a flaw, or with a series of an unknown code in front, has *)
(* such series and is understood.                                           *)
LEMMA GoodFile ==
  ASSUME NEW f \in FileKinds, f.flaw \in {"none", "extra_series"}, Told(f)
  PROVE  /\ Parse(Document(f)) = Parsed(f.eic, LinsOf(f))
         /\ AsMeant(f, Parsed(f.eic, LinsOf(f)))
<1> DEFINE role == DetectRole(f.eic)
           a == Lin(f, Total(role), 3)
           b == Lin(f, "SHA15", 1)
           c == Lin(f, Residual(role), 2)
           good == <<a, b, c>>
           odd == <<[a EXCEPT !.item = "XXX99"]>> \o good
           lins == LinsOf(f)
<1>0. role \in {"offtake", "producer"}
  BY DEF DetectRole
<1>1. Quarters(a) = DayQuarters(f, 3) /\ AllReadable(a)
  BY GoodSeries
<1>2. Quarters(b) = DayQuarters(f, 1) /\ AllReadable(b)
  BY GoodSeries
<1>3. Quarters(c) = DayQuarters(f, 2) /\ AllReadable(c)
  BY GoodSeries
<1>4. /\ HasQuarters(a, Total(role), Count(f)) /\ HasQuarters(b, "SHA15", Count(f))
      /\ HasQuarters(c, Residual(role), Count(f)) /\ Count(f) \in Nat \ {0}
  <2>1. Count(f) \in {92, 96, 100}
    BY LinIs
  <2>2. QED
    BY <2>1, LinHas
<1>5. lins = IF f.flaw = "extra_series" THEN odd ELSE good
  BY DEF LinsOf, Flawed, Lins
<1> HIDE DEF a, b, c, lins, role
<1>6. /\ Valued(a) # {} /\ a.item = Total(role)
      /\ Valued(b) # {} /\ b.item = "SHA15"
      /\ Valued(c) # {} /\ c.item = Residual(role)
  BY <1>4, AllQuarters
<1>7. PICK k \in Nat : Three(lins, k, role, a, b, c)
  <2>1. CASE f.flaw = "extra_series"
    <3> DEFINE x == [a EXCEPT !.item = "XXX99"]
    <3>1. a = [item |-> Total(role), qtys |-> a.qtys]
      BY <1>4, <1>6 DEF HasQuarters
    <3>2. x.item \notin Known
      <4>1. x.item = "XXX99"
        BY <3>1
      <4>2. QED
        BY <4>1 DEF Known, Offtake, Producer
    <3> HIDE DEF x
    <3>3. lins = <<x>> \o <<a, b, c>>
      BY <1>5, <2>1 DEF x
    <3>4. /\ DOMAIN lins = 1..4
          /\ lins[1] = x /\ lins[2] = a /\ lins[3] = b /\ lins[4] = c
      BY <3>3
    <3>5. Three(lins, 1, role, a, b, c)
      BY <1>6, <3>2, <3>4 DEF Three
    <3>6. QED
      BY <3>5
  <2>2. CASE f.flaw # "extra_series"
    <3>1. Three(lins, 0, role, a, b, c)
      BY <1>5, <1>6, <2>2 DEF Three
    <3>2. QED
      BY <3>1
  <2>3. QED
    BY <2>1, <2>2
<1>8. Kept(lins) = Places(k)
  BY <1>0, <1>7, ThreeSeries
<1>9. DOMAIN SeriesOf(lins) = SensorLins(role)
  BY <1>0, <1>7, ThreeSeries
<1>10. SeriesOf(lins)[Total(role)] = DayQuarters(f, 3)
  BY <1>0, <1>1, <1>7, ThreeSeries
<1>11. SeriesOf(lins)["SHA15"] = DayQuarters(f, 1)
  BY <1>0, <1>2, <1>7, ThreeSeries
<1>12. SeriesOf(lins)[Residual(role)] = DayQuarters(f, 2)
  BY <1>0, <1>3, <1>7, ThreeSeries
<1>13. Readable(lins)
  BY <1>1, <1>2, <1>3, <1>7, <1>8 DEF Readable, Three, AllReadable, Places
<1>14. Kept(lins) # {}
  BY <1>8 DEF Places
<1>15. Parse(Document(f)) = Parsed(f.eic, lins)
  BY <1>13, <1>14, DocumentRead DEF lins
<1>16. AsMeant(f, Parsed(f.eic, lins))
  BY <1>9, <1>10, <1>11, <1>12, GoodResult DEF role
<1>17. QED
  BY <1>15, <1>16 DEF lins

(* A file as it should be is understood as it is meant, on the days on      *)
(* which the clocks change too and in every notation of times, but for the  *)
(* one case in which the file itself does not say (parse_mscons).           *)
THEOREM GoodFilesUnderstood == FilesSpec => []GoodFileUnderstood
<1>1. ParsedInv => GoodFileUnderstood
  <2> SUFFICES ASSUME ParsedInv, parsed.done, file.flaw \in {"none", "extra_series"}, ~Ambiguous
               PROVE  /\ Understood
                      /\ parsed.result.eic = file.eic
                      /\ parsed.result.day = file.day
                      /\ parsed.result.role = DetectRole(file.eic)
                      /\ \A item \in SensorLins(parsed.result.role) :
                            Starts(parsed.result.series[item]) = QuartersOf(file.day)
                      /\ parsed.result.warnings = {}
                      /\ parsed.result.delta = 0
    BY DEF GoodFileUnderstood
  <2>1. file \in FileKinds /\ parsed.result = Parse(Document(file))
    BY DEF ParsedInv
  <2>2. Told(file)
    BY DEF Ambiguous, Told
  <2>3. /\ parsed.result = Parsed(file.eic, LinsOf(file))
        /\ AsMeant(file, parsed.result)
    BY <2>1, <2>2, GoodFile
  <2>4. Understood
    BY <2>3 DEF AsMeant, Understood
  <2>5. parsed.result.day = file.day
    BY <2>4, DayOfFile, UnderstoodIs
  <2>6. QED
    BY <2>3, <2>4, <2>5 DEF AsMeant
<1>2. QED
  BY <1>1, ParsedInductive, PTL

(* Lost quarters are warned of whenever the file is understood, on a day of *)
(* any length (_validate_quarter_counts).                                   *)
THEOREM LossesWarned == FilesSpec => []LossWarned
<1>1. ParsedInv => LossWarned
  <2> SUFFICES ASSUME ParsedInv, Understood,
                      file.flaw \in {"quarter_lost", "three_lost", "hours_lost", "short_series",
                                     "value_missing"}
               PROVE  parsed.result.warnings # {}
    BY DEF LossWarned
  <2>1. file \in FileKinds /\ parsed.result = Parsed(file.eic, LinsOf(file))
    BY UnderstoodIs
  <2>2. CountWarnings(SeriesOf(LinsOf(file))) \subseteq Parsed(file.eic, LinsOf(file)).warnings
    BY DEF Parsed
  <2>3. QED
    BY <2>1, <2>2, LossNoticed
<1>2. QED
  BY <1>1, ParsedInductive, PTL
=============================================================================
