-------------------------------- MODULE Mscons --------------------------------
(***************************************************************************)
(* The parser of one day's metering file (mscons.py).  Time is counted in  *)
(* quarters of an hour: instants in UTC, walls as the clock in Bratislava  *)
(* shows them, both from the midnight that begins day 1.  The XML is what  *)
(* the parser looks up in it: the blocks (NAD) with their action and       *)
(* location, the location's series (LIN), their quantities (QTY) and each  *)
(* quantity's times (DTM).                                                 *)
(***************************************************************************)
EXTENDS Integers, Sequences, FiniteSetsExt

CONSTANTS Spring, Autumn, \* days on which the clocks change
          Producers       \* EICs that look like a producer's (PRODUCER_EIC_RE)

ASSUME ClockAssumption == Spring \in Nat \ {0} /\ Autumn \in Nat /\ Spring < Autumn

Hour == 4
Midnight(day) == (day - 1) * 24 * Hour

\* ZoneInfo("Europe/Bratislava"): summer time from 01:00 UTC on one day to 01:00 UTC
\* on the other.  A wall time without an offset is read as the first of two (fold 0),
\* and one that the clocks skip with the winter offset.
Offset(instant) ==
  IF Midnight(Spring) + Hour <= instant /\ instant < Midnight(Autumn) + Hour
  THEN 2 * Hour ELSE Hour
WallOffset(wall) ==
  IF Midnight(Spring) + 3 * Hour <= wall /\ wall < Midnight(Autumn) + 3 * Hour
  THEN 2 * Hour ELSE Hour
LocalDay(instant) == (instant + Offset(instant)) \div (24 * Hour) + 1

\* The instants at which the quarters of a local day begin.
QuartersOf(day) ==
  LET first(d) == Midnight(d) - WallOffset(Midnight(d))
  IN  [i \in 1..(first(day + 1) - first(day)) |-> first(day) + i - 1]

-----------------------------------------------------------------------------
(* Times and quantities.                                                   *)

ZoneOffset == [CET |-> Hour, CEST |-> 2 * Hour, UTC |-> 0, GMT |-> 0]

\* Mutant: an abbreviation says which zone, not which offset.
ParseDatumAsZone(d) ==
  CASE d.form = "basic" /\ d.zone \in {"CET", "CEST"} -> {d.wall - WallOffset(d.wall)}
    [] d.form = "basic" /\ d.zone \in {"UTC", "GMT"}  -> {d.wall}
    [] d.form = "extended" -> {d.wall - d.offset}
    [] d.form = "naive"    -> {d.wall - WallOffset(d.wall)}
    [] OTHER               -> {}

\* _parse_datum: the instant, or none.
ParseDatum(d) ==
  CASE d.form = "basic" /\ d.zone \in DOMAIN ZoneOffset -> {d.wall - ZoneOffset[d.zone]}
    [] d.form = "extended" -> {d.wall - d.offset}
    [] d.form = "naive"    -> {d.wall - WallOffset(d.wall)}
    [] OTHER               -> {}

\* The places of the times that say when the period starts; a later one takes the
\* earlier one's place.
StartTimes(qty) == {i \in DOMAIN qty.dtms : qty.dtms[i].qualifier = 158}
StartDatum(qty) == qty.dtms[Max(StartTimes(qty))].datum

\* A quantity without a value is passed over; a value that is no number, a time that
\* cannot be read and a period without a start fail the file.
HasValue(qty) == qty.text # "missing"
Unreadable(qty) ==
  /\ HasValue(qty)
  /\ \/ qty.text # "number"
     \/ \E i \in DOMAIN qty.dtms : ParseDatum(qty.dtms[i].datum) = {}
     \/ StartTimes(qty) = {}

Valued(lin) == {i \in DOMAIN lin.qtys : HasValue(lin.qtys[i])}

\* The elements of s at the places in P, in their order.
Picked(s, P) ==
  LET picked[n \in 0..Len(s)] ==
        IF n = 0 THEN <<>>
        ELSE IF n \in P THEN Append(picked[n - 1], s[n]) ELSE picked[n - 1]
  IN  picked[Len(s)]

Quarter(qty) == [start |-> CHOOSE t \in ParseDatum(StartDatum(qty)) : TRUE, kw |-> qty.kw]

\* _parse_quarters.  (The period's end, which nothing reads, is left out.)
Quarters(lin) ==
  LET valued == Picked(lin.qtys, Valued(lin))
  IN  [i \in DOMAIN valued |-> Quarter(valued[i])]

-----------------------------------------------------------------------------
(* The series of a file.                                                   *)

Offtake  == {"PS15", "CPS15"}
Producer == {"PM15", "CPM15"}
Known    == Offtake \cup Producer \cup {"SHA15"}

\* The places of the series that the file's loop keeps: of known codes, with quantities.
Kept(lins) == {i \in DOMAIN lins : lins[i].item \in Known /\ Valued(lins[i]) # {}}
Items(lins) == {lins[i].item : i \in Kept(lins)}

\* A later series of the same code takes the earlier one's place.
SeriesOf(lins) ==
  [item \in Items(lins) |-> Quarters(lins[Max({i \in Kept(lins) : lins[i].item = item})])]

\* detect_role and _classify_by_lins: what the EIC looks like, unless the series say
\* otherwise.
DetectRole(eic) == IF eic \in Producers THEN "producer" ELSE "offtake"

\* Mutant: the EIC's pattern decides.
RoleOfEic(eic, items) == DetectRole(eic)

RoleOf(eic, items) ==
  CASE items \cap Offtake # {} /\ items \cap Producer = {} -> "offtake"
    [] items \cap Producer # {} /\ items \cap Offtake = {} -> "producer"
    [] OTHER -> DetectRole(eic)

Total(role) == IF role = "offtake" THEN "PS15" ELSE "PM15"
Residual(role) == IF role = "offtake" THEN "CPS15" ELSE "CPM15"

\* SENSOR_TO_LIN: the series that feed the sensors of a role.
SensorLins(role) == {Total(role), "SHA15", Residual(role)}

Abs(n) == IF n < 0 THEN -n ELSE n

\* _reconcile_in_place: the largest |total - shared - residual| of a quarter.  The
\* quarters are compared by their place in the series.
Delta(series, role) ==
  IF SensorLins(role) \subseteq DOMAIN series
  THEN LET total == series[Total(role)]
           deltas == {Abs(total[i].kw - series["SHA15"][i].kw
                            - series[Residual(role)][i].kw) : i \in DOMAIN total}
       IN  CHOOSE max \in deltas : \A d \in deltas : d <= max
  ELSE 0

Mismatched(series, role) ==
  /\ SensorLins(role) \subseteq DOMAIN series
  /\ \E lin \in SensorLins(role) : Len(series[lin]) # Len(series[Total(role)])

Ceiling == 4000  \* kW, QUARTER_KWH_SANITY_CEILING

Counts(series) == {Len(series[item]) : item \in DOMAIN series}

\* Mutant: any number of quarters that makes whole hours is taken for a day.
CountWarningsByHour(series) ==
  IF \A n \in Counts(series) : n % Hour = 0 THEN {} ELSE {"count"}

\* _validate_quarter_counts: the lengths of a normal day and of the days on which the
\* clocks change, on whatever day.
CountWarnings(series) ==
  (IF Counts(series) \subseteq {92, 96, 100} THEN {} ELSE {"count"})
    \cup (IF \A m, n \in Counts(series) : m = n THEN {} ELSE {"inconsistent"})
    \cup (IF \A item \in DOMAIN series : \A i \in DOMAIN series[item] :
                Abs(series[item][i].kw) <= Ceiling THEN {} ELSE {"range"})

-----------------------------------------------------------------------------
(* parse_mscons.                                                           *)

Failed == [ok |-> FALSE]

\* Mutant: the day is the UTC day of the first quarter.
MeasurementDayUtc(lins, series) ==
  series[lins[Min(Kept(lins))].item][1].start \div (24 * Hour) + 1

\* _infer_measurement_date: of the first quarter of the series whose code came first.
MeasurementDay(lins, series) == LocalDay(series[lins[Min(Kept(lins))].item][1].start)

Parsed(eic, lins) ==
  LET series == SeriesOf(lins)
      role   == RoleOf(eic, DOMAIN series)
      mismatch == Mismatched(series, role)
  IN  [ok       |-> TRUE,
       eic      |-> eic,
       role     |-> role,
       day      |-> MeasurementDay(lins, series),
       series   |-> series,
       delta    |-> IF mismatch THEN 0 ELSE Delta(series, role),
       warnings |-> CountWarnings(series)
                      \cup (IF role = DetectRole(eic) THEN {} ELSE {"role"})
                      \cup (IF mismatch THEN {"mismatch"} ELSE {})]

\* _find_nad_gn: the first block about the metering point, if there is one.
Subjects(doc) == {i \in DOMAIN doc.nads : doc.nads[i].action = "GN"}
Subject(doc) == doc.nads[Min(Subjects(doc))]

Readable(lins) ==
  \A i \in Kept(lins) : \A j \in DOMAIN lins[i].qtys : ~Unreadable(lins[i].qtys[j])

\* The file is read to its end or not at all.  (The version, which the attachment's
\* name says too, and the document's own time are read and not used.)
Parse(doc) ==
  IF \/ doc.root \notin {"MSCONS", "MSCONSDOCUMENT"}
     \/ Subjects(doc) = {}
     \/ Subject(doc).loc = <<>>
  THEN Failed
  ELSE LET loc == Head(Subject(doc).loc)
       IN  IF loc.place = <<>> \/ Kept(loc.lins) = {} \/ ~Readable(loc.lins)
           THEN Failed
           ELSE Parsed(Head(loc.place), loc.lins)
=============================================================================
