----------------------------- MODULE OkteFiles -----------------------------
(***************************************************************************)
(* What the integration moves about: OKTE's daily MSCONS files.  A file is *)
(* about one metering point (EIC) and one day, carries a version number    *)
(* (a correction is a higher version of the same EIC and day), and feeds   *)
(* the statistics of that EIC's sensors.                                   *)
(***************************************************************************)
EXTENDS Integers

CONSTANTS
    Eics,         \* metering points
    Suffixes,     \* sensors of a metering point that keep a statistic
    Series,       \* suffixes for which a file has quarters, by EIC
    LastDay,      \* bound on the calendar
    LastVersion   \* bound on file versions (_V2, _V3, ...)

Days      == 1..LastDay
Versions  == 1..LastVersion
Versions0 == 0..LastVersion        \* 0: no file

Keys  == Eics \X Days              \* (eic, measurement_date)
Stats == Eics \X Suffixes          \* (eic, suffix), one statistic_id each

ASSUME FilesAssumption ==
    /\ LastDay \in Nat \ {0}
    /\ LastVersion \in Nat
    /\ Series \in [Eics -> SUBSET Suffixes]

(* An attachment whose name matches the OKTE pattern.  "body" is what       *)
(* reading it would show: a file that agrees with its name, a name whose    *)
(* date is no date, a payload that does not parse, or a payload that        *)
(* declares another EIC or another day than the name.                       *)
Bodies == {"good", "badDate", "garbled", "otherEic", "otherDay"}
Files  == [eic : Eics, day : Days, version : Versions, body : Bodies]
=============================================================================
