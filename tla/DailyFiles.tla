------------------------------ MODULE DailyFiles ------------------------------
(***************************************************************************)
(* Files that OKTE sends, or might, for the parser of Mscons: the day of   *)
(* each metering point in each notation of times, as it should be and with *)
(* one thing wrong with it.                                                *)
(***************************************************************************)
EXTENDS Mscons

CONSTANTS Points,    \* EICs
          FileDays,  \* bound: the days whose files are parsed
          Notations, \* how times are written
          Flaws      \* what is wrong with a file; "none" among them

ASSUME DailyFilesAssumption ==
  /\ FileDays \subseteq Nat \ {0}
  /\ Notations \subseteq {"basic", "utc", "extended", "naive"}

VARIABLES file,   \* the file: EIC, day, notation, flaw
          parsed  \* whether it has been parsed, and what came of it

fileVars == <<file, parsed>>

FileKinds == [eic : Points, day : FileDays, notation : Notations, flaw : Flaws]
Unparsed == [done |-> FALSE]

Datum(instant, notation) ==
  LET wall == instant + Offset(instant)
  IN  CASE notation = "basic"    -> [form |-> "basic", wall |-> wall,
                                     zone |-> IF Offset(instant) = Hour THEN "CET" ELSE "CEST"]
        [] notation = "utc"      -> [form |-> "basic", wall |-> instant, zone |-> "UTC"]
        [] notation = "extended" -> [form |-> "extended", wall |-> wall,
                                     offset |-> Offset(instant)]
        [] notation = "naive"    -> [form |-> "naive", wall |-> wall]

Dtm(qualifier, datum) == [qualifier |-> qualifier, datum |-> datum]

Qty(instant, notation, kw) ==
  [text |-> "number", kw |-> kw,
   dtms |-> <<Dtm(158, Datum(instant, notation)), Dtm(159, Datum(instant + 1, notation))>>]

Lin(f, item, kw) ==
  LET quarters == QuartersOf(f.day)
  IN  [item |-> item, qtys |-> [i \in DOMAIN quarters |-> Qty(quarters[i], f.notation, kw)]]

\* A day's three series: energy total, shared, and the rest.
Lins(f, role) ==
  <<Lin(f, Total(role), 3), Lin(f, "SHA15", 1), Lin(f, Residual(role), 2)>>

WithoutQuarters(lin, n) == [lin EXCEPT !.qtys = SubSeq(@, 1, 40) \o SubSeq(@, 41 + n, Len(@))]
AllWithout(lins, n) == [i \in DOMAIN lins |-> WithoutQuarters(lins[i], n)]
Other(role) == IF role = "offtake" THEN "producer" ELSE "offtake"

Flawed(f, lins) ==
  CASE f.flaw = "quarter_lost"  -> AllWithout(lins, 1)
    [] f.flaw = "three_lost"    -> AllWithout(lins, 3)
    [] f.flaw = "hours_lost"    -> AllWithout(lins, 3 * Hour)
    [] f.flaw = "short_series"  -> [lins EXCEPT ![2] = WithoutQuarters(@, 4)]
    [] f.flaw = "value_missing" -> [lins EXCEPT ![1].qtys[7].text = "missing"]
    [] f.flaw = "value_text"    -> [lins EXCEPT ![3].qtys[96 - 8].text = "words"]
    [] f.flaw = "no_start"      -> [lins EXCEPT ![2].qtys[5].dtms = Tail(@)]
    [] f.flaw = "odd_zone"      -> [lins EXCEPT ![1].qtys[1].dtms[2].datum =
                                       [form |-> "basic", wall |-> 0, zone |-> "EET"]]
    [] f.flaw = "drift"         -> [lins EXCEPT ![3].qtys[50].kw = @ - 2]
    [] f.flaw = "spike"         -> [lins EXCEPT ![1].qtys[50].kw = 5000, ![3].qtys[50].kw = 4999]
    [] f.flaw = "other_role"    -> Lins(f, Other(DetectRole(f.eic)))
    [] f.flaw = "other_total"   -> <<Lin(f, Total(Other(DetectRole(f.eic))), 3)>>
    [] f.flaw = "shared_only"   -> <<lins[2]>>
    [] f.flaw = "both_roles"    -> lins \o <<Lin(f, Total(Other(DetectRole(f.eic))), 3)>>
    [] f.flaw = "extra_series"  -> <<[lins[1] EXCEPT !.item = "XXX99"]>> \o lins
    [] f.flaw = "unknown_only"  -> <<[lins[1] EXCEPT !.item = "XXX99"]>>
    [] OTHER                    -> lins

Document(f) ==
  LET lins == Flawed(f, Lins(f, DetectRole(f.eic)))
      loc  == [place |-> IF f.flaw = "no_eic" THEN <<>> ELSE <<f.eic>>, lins |-> lins]
      nad  == [action |-> "GN", loc |-> IF f.flaw = "no_location" THEN <<>> ELSE <<loc>>]
      from == [action |-> "MS", loc |-> <<>>]
  IN  [root |-> IF f.flaw = "other_root" THEN "Other" ELSE "MSCONS",
       nads |-> IF f.flaw = "no_subject" THEN <<from>> ELSE <<from, nad>>]

FilesInit == file \in FileKinds /\ parsed = Unparsed

\* parse_mscons on the next file.
ParseFile ==
  /\ ~parsed.done
  /\ parsed' = [done |-> TRUE, result |-> Parse(Document(file))]
  /\ UNCHANGED file

\* There is always another file.
NextFile ==
  /\ parsed.done
  /\ parsed' = Unparsed
  /\ file' \in FileKinds

FilesNext == ParseFile \/ NextFile

FilesSpec == FilesInit /\ [][FilesNext]_fileVars
-----------------------------------------------------------------------------
Understood == parsed.done /\ parsed.result.ok
Starts(quarters) == [i \in DOMAIN quarters |-> quarters[i].start]

(* On the autumn day times without an offset name the repeated hour only    *)
(* once (_parse_datum).                                                     *)
Ambiguous == file.notation = "naive" /\ file.day = Autumn

(* A file as it should be is understood as it is meant, on the two days on  *)
(* which the clocks change too and in every notation of times: its metering *)
(* point, its day, each quarter at its instant, nothing to warn of ("plus   *)
(* the basic-ISO and extended-ISO date formats and DST days").              *)
GoodFileUnderstood ==
  parsed.done /\ file.flaw \in {"none", "extra_series"} /\ ~Ambiguous
    => /\ Understood
       /\ parsed.result.eic = file.eic
       /\ parsed.result.day = file.day
       /\ parsed.result.role = DetectRole(file.eic)
       /\ \A item \in SensorLins(parsed.result.role) :
             Starts(parsed.result.series[item]) = QuartersOf(file.day)
       /\ parsed.result.warnings = {}
       /\ parsed.result.delta = 0

(* Quarters that a file has lost, or one of its series has, do not go       *)
(* unnoticed (_validate_quarter_counts, _reconcile_in_place).  A loss of    *)
(* exactly one hour, of all series, would: it makes a normal day look like  *)
(* the spring day.                                                          *)
LossWarned ==
  Understood /\ file.flaw \in {"quarter_lost", "three_lost", "hours_lost", "short_series",
                               "value_missing"}
    => parsed.result.warnings # {}

(* What is understood of a file is imported under its own day whatever is   *)
(* wrong with it: the coordinator compares that day with the file's name    *)
(* and rejects the file otherwise (_infer_measurement_date).                *)
DayIsTheFilesDay ==
  Understood => parsed.result.day = file.day

(* A file that is understood feeds a sensor: the role that the parser       *)
(* settles on has one among the series found.  Otherwise the coordinator    *)
(* would mark the file as processed and import nothing of it                *)
(* (_classify_by_lins, SENSOR_TO_LIN, _collect_pending).                    *)
FeedsSensors ==
  Understood => SensorLins(parsed.result.role) \cap DOMAIN parsed.result.series # {}
=============================================================================
