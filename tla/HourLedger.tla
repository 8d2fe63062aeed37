---------------------------- MODULE HourLedger -----------------------------
(***************************************************************************)
(* What the Energy dashboard may rely on for one statistic: the energy of  *)
(* an hour is what the last imported file with that hour says, and an      *)
(* import changes no hour its files do not have.                           *)
(***************************************************************************)
EXTENDS Integers

CONSTANTS
    Hours,    \* hours since some midnight, in UTC
    Batches   \* what may be imported at once: energy by hour, for some hours

VARIABLE energy   \* by hour; NoHour when the statistic has no such hour

NoHour == -1

LedgerInit == energy = [h \in Hours |-> NoHour]

Import(batch) ==
    energy' = [h \in Hours |-> IF h \in DOMAIN batch THEN batch[h] ELSE energy[h]]

LedgerSpec == LedgerInit /\ [][\E batch \in Batches : Import(batch)]_energy
=============================================================================
