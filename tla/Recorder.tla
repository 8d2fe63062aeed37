----------------------------- MODULE Recorder ------------------------------
(***************************************************************************)
(* Home Assistant's recorder, as this integration uses it.  External code, *)
(* modelled from src/'s calls: import_hourly_statistics hands a batch to   *)
(* async_add_external_statistics, which only queues it; a recorder thread  *)
(* writes it later; statistics_during_period reads what has been written.  *)
(*                                                                         *)
(* A row here is a day of a statistic, and its value is the version of the *)
(* file whose hours it holds (0: no hours).  Running sums are the business *)
(* of module Recompute.  The recorder has one queue; batches of different  *)
(* statistics touch different rows, so it is modelled as one queue per     *)
(* statistic, which allows more commit orders than the real one.           *)
(***************************************************************************)
EXTENDS OkteFiles, Sequences

CONSTANT Backlog   \* most batches of one statistic waiting to be written

ASSUME RecorderAssumption == Backlog \in Nat \ {0}

VARIABLES
    rows,   \* what has been written
    queue   \* what waits to be written, per statistic

recVars == <<rows, queue>>

Batch == [Days -> Versions0]

RecorderTypeOK ==
    /\ rows \in [Stats -> Batch]
    /\ queue \in [Stats -> Seq(Batch)]
    /\ \A s \in Stats : Len(queue[s]) <= Backlog

RecorderInit ==
    /\ rows = [s \in Stats |-> [d \in Days |-> 0]]
    /\ queue = [s \in Stats |-> <<>>]

(* The upsert on (statistic_id, start): days the batch does not carry stay. *)
Upsert(old, batch) == [d \in Days |-> IF batch[d] # 0 THEN batch[d] ELSE old[d]]

(* async_add_external_statistics: the batch is queued and the call returns. *)
Enqueue(s, batch) ==
    /\ Len(queue[s]) < Backlog
    /\ queue' = [queue EXCEPT ![s] = Append(@, batch)]
    /\ UNCHANGED rows

(* The recorder thread writes the oldest batch of s. *)
Commit(s) ==
    /\ queue[s] # <<>>
    /\ rows' = [rows EXCEPT ![s] = Upsert(@, Head(queue[s]))]
    /\ queue' = [queue EXCEPT ![s] = Tail(@)]

(* What day d of s will hold once the queue is written. *)
Landed(s, d) ==
    LET writes == {i \in DOMAIN queue[s] : queue[s][i][d] # 0}
    IN  IF writes = {} THEN rows[s][d]
        ELSE queue[s][CHOOSE i \in writes : \A j \in writes : j <= i][d]

(* A clean shutdown of Home Assistant waits until the queue is written. *)
Drained == \A s \in Stats : queue[s] = <<>>

(* A power cut does not wait. *)
LoseQueue ==
    /\ queue' = [s \in Stats |-> <<>>]
    /\ UNCHANGED rows
=============================================================================
