---------------------------- MODULE StatsLedger ----------------------------
(***************************************************************************)
(* What the integration promises about Home Assistant's statistics: a      *)
(* day's hours come from a file OKTE has sent, and they only ever give way *)
(* to a higher version of that day's file ("detects the higher version and *)
(* overwrites the prior values for the same intervals").                   *)
(***************************************************************************)
EXTENDS OkteFiles

VARIABLES
    published,  \* <<statistic, day, version>> sent so far
    ledger      \* version each statistic holds for each day; 0: none

ledgerVars == <<published, ledger>>

LedgerInit ==
    /\ published = {}
    /\ ledger = [s \in Stats |-> [d \in Days |-> 0]]

Publish ==
    /\ published \subseteq published'
    /\ published' \subseteq Stats \X Days \X Versions
    /\ UNCHANGED ledger

(* Any number of days of any number of statistics move up. *)
Write ==
    /\ ledger' \in [Stats -> [Days -> Versions0]]
    /\ \A s \in Stats, d \in Days :
          ledger'[s][d] # ledger[s][d] =>
             /\ ledger'[s][d] > ledger[s][d]
             /\ <<s, d, ledger'[s][d]>> \in published
    /\ UNCHANGED published

LedgerSpec == LedgerInit /\ [][Publish \/ Write]_ledgerVars
=============================================================================
