----------------------------- MODULE Recompute -----------------------------
(***************************************************************************)
(* _recompute_and_import_stat (coordinator.py) and the helpers of          *)
(* statistics.py, for one statistic and hour by hour: what Coordinator     *)
(* abstracts to days.  The recorder keeps a running sum per hour, and the  *)
(* energy of an hour is the difference to the row before it, so that a     *)
(* correction of a past day moves every later sum.                         *)
(*                                                                         *)
(* Hours are numbered in UTC.  Energy is counted in quarter-hours of a kW. *)
(* Reading the sum before the first changed day, reading the rows from it  *)
(* on, pushing the result, and ending the poll are four steps: the         *)
(* recorder's thread may write between them, each read may fail, and so may*)
(* what the poll does after the push.  The marks of processed versions are *)
(* kept only to say which files a poll can stage.                          *)
(***************************************************************************)
EXTENDS Integers, Sequences, FiniteSetsExt, Functions

CONSTANTS
    LastDay,       \* bound on measurement days
    FirstHour,     \* first hour of each day, and of the day after the last
    LastVersion,   \* bound on file versions
    Power,         \* Power[<<d, v>>]: a file's quarters, those it has, in kW;
                   \* a file without any is not staged
    Lookback,      \* hours _get_sum_before looks back (30 days)
    Shift,         \* midnight in the polling zone less midnight in the data's
    Backlog,       \* batches that may wait when a recompute is done
    Faults         \* of "recorder", "store", "restart", "crash"

Days     == 1..LastDay
Versions == 1..LastVersion
Hours    == FirstHour[1]..(FirstHour[LastDay + 1] - 1)
NoRow    == -1
NoSum    == -1

ASSUME RecomputeAssumption ==
    /\ LastDay \in Nat \ {0}
    /\ LastVersion \in Nat
    /\ FirstHour \in [1..(LastDay + 1) -> Nat]
    /\ \A d \in Days : FirstHour[d] < FirstHour[d + 1]
    /\ \A d \in Days, v \in Versions :
          /\ DOMAIN Power[<<d, v>>] # {}
          /\ \A q \in DOMAIN Power[<<d, v>>] :
                /\ q \in (4 * FirstHour[d])..(4 * FirstHour[d + 1] - 1)
                /\ Power[<<d, v>>][q] \in Nat
    /\ Lookback \in Nat /\ Shift \in Int /\ Backlog \in Nat \ {0}
    /\ Faults \subseteq {"recorder", "store", "restart", "crash"}

VARIABLES
    rows,      \* the recorder: running sum by hour, NoRow where it has none
    queue,     \* batches waiting to be written
    total,     \* _last_cumulative, which only the diagnostics show
    seeded,    \* the statistic is in _cumulative_seeded
    shown,     \* coordinator.data, which the sensor shows; NoSum: no entry
    merged,    \* history: what this coordinator pushed last is in its data
    marks,     \* versions marked in memory, by day; 0: none
    store,     \* the same in the Store
    pc,        \* "idle", or the next step of a recompute
    items,     \* new_items: the version staged for each staged day
    baseline,  \* baseline_sum
    existing   \* the rows read, from the first changed day on

showVars == <<total, seeded, shown, merged>>
readVars == <<items, baseline, existing>>
vars     == <<rows, queue, showVars, marks, store, pc, readVars>>

Partial(S, T) == UNION {[D -> T] : D \in SUBSET S}
Stagings      == {c \in Partial(Days, Versions) : DOMAIN c # {}}

(* Every variable keeps its type; sums never turn negative. *)
TypeOK ==
    /\ rows \in [Hours -> Nat \union {NoRow}]
    /\ Len(queue) <= Backlog
    /\ \A i \in DOMAIN queue :
          DOMAIN queue[i] \subseteq Hours /\ \A h \in DOMAIN queue[i] : queue[i][h] \in Nat
    /\ total \in Nat
    /\ seeded \in BOOLEAN
    /\ shown \in Nat \union {NoSum}
    /\ merged \in BOOLEAN
    /\ marks \in [Days -> 0..LastVersion]
    /\ store \in [Days -> 0..LastVersion]
    /\ pc \in {"idle", "baseline", "existing", "push", "save"}
    /\ items = <<>> \/ items \in Stagings
    /\ baseline \in Nat
    /\ DOMAIN existing \subseteq Hours

Init ==
    /\ rows = [h \in Hours |-> NoRow]
    /\ queue = <<>>
    /\ total = 0
    /\ seeded = FALSE
    /\ shown = NoSum
    /\ merged = FALSE
    /\ marks = [d \in Days |-> 0]
    /\ store = [d \in Days |-> 0]
    /\ pc = "idle"
    /\ items = <<>>
    /\ baseline = 0
    /\ existing = <<>>

----------------------------------------------------------------------------
(* quarters_to_hourly: an hour for each hour that has a quarter. *)
Hourly(file) ==
    [h \in {q \div 4 : q \in DOMAIN file} |->
        SumFunctionOnSet(file, {q \in DOMAIN file : q \div 4 = h})]

(* The hours of the staged files; the files of different days share none. *)
NewHours(staged) ==
    LET of(d) == Hourly(Power[<<d, staged[d]>>])
    IN  [h \in UNION {DOMAIN of(d) : d \in DOMAIN staged} |->
            of(CHOOSE d \in DOMAIN staged : h \in DOMAIN of(d))[h]]

(* _local_date_start_utc of the earliest staged day. *)
From(staged) == FirstHour[Min(DOMAIN staged)] + Shift

RowsOf(sums) == {h \in Hours : sums[h] # NoRow}
HasRow       == RowsOf(rows)

(* Mutants: the row at the boundary counts as before it; the hour before is *)
(* taken to have a row.                                                     *)
SumUpTo(hour) ==
    LET before == {h \in HasRow : h >= hour - Lookback /\ h <= hour}
    IN  IF before = {} THEN 0 ELSE rows[Max(before)]

SumOfHourBefore(hour) == IF hour - 1 \in Hours THEN rows[hour - 1] ELSE 0

(* _get_sum_before *)
SumBefore(hour) ==
    LET before == {h \in HasRow : h >= hour - Lookback /\ h < hour}
    IN  IF before = {} THEN 0 ELSE rows[Max(before)]

(* The energy of each row read, recovered from the sums. *)
OldDeltas ==
    [h \in DOMAIN existing |->
        LET earlier == {k \in DOMAIN existing : k < h}
        IN  existing[h] - (IF earlier = {} THEN baseline ELSE existing[Max(earlier)])]

(* Mutant: the rows after the new hours are not rewritten. *)
OverlaidNewOnly == NewHours(items)

(* The new hours replace the old ones. *)
Overlaid ==
    LET new == NewHours(items)
    IN  [h \in DOMAIN new \union DOMAIN OldDeltas |->
            IF h \in DOMAIN new THEN new[h] ELSE OldDeltas[h]]

(* Sums from the baseline on, in the order of the hours. *)
RunningSums ==
    [h \in DOMAIN Overlaid |->
        baseline + SumFunctionOnSet(Overlaid, {k \in DOMAIN Overlaid : k <= h})]

(* get_last_cumulative *)
LastSum == IF HasRow = {} THEN 0 ELSE rows[Max(HasRow)]

(* The rows once a batch is written: hours it has are replaced, others stay.*)
Written(batch) == [h \in Hours |-> IF h \in DOMAIN batch THEN batch[h] ELSE rows[h]]

----------------------------------------------------------------------------
Forget ==
    /\ items' = <<>>
    /\ baseline' = 0
    /\ existing' = <<>>

(* The first poll of a coordinator loads the Store and seeds the total; the *)
(* rows it reads may be older than a batch its predecessor has queued.      *)
Seed ==
    /\ pc = "idle"
    /\ ~seeded
    /\ total' = LastSum
    /\ seeded' = TRUE
    /\ marks' = store
    /\ UNCHANGED <<rows, queue, shown, merged, store, pc, readVars>>

(* A poll has staged and marked, for some days, a file ahead of their marks.*)
Begin(staged) ==
    /\ pc = "idle"
    /\ seeded
    /\ Len(queue) < Backlog
    /\ \A d \in DOMAIN staged : staged[d] > marks[d]
    /\ marks' = [d \in Days |-> IF d \in DOMAIN staged THEN staged[d] ELSE marks[d]]
    /\ items' = staged
    /\ pc' = "baseline"
    /\ UNCHANGED <<rows, queue, showVars, store, baseline, existing>>

ReadBaseline ==
    /\ pc = "baseline"
    /\ baseline' = SumBefore(From(items))
    /\ pc' = "existing"
    /\ UNCHANGED <<rows, queue, showVars, marks, store, items, existing>>

(* _get_existing_hourly_stats_from *)
ReadExisting ==
    /\ pc = "existing"
    /\ existing' = [h \in {k \in HasRow : k >= From(items)} |-> rows[h]]
    /\ pc' = "push"
    /\ UNCHANGED <<rows, queue, showVars, marks, store, items, baseline>>

(* A file without quarters is never staged, so there is something to push.  *)
Push ==
    /\ pc = "push"
    /\ queue' = Append(queue, RunningSums)
    /\ total' = RunningSums[Max(DOMAIN RunningSums)]
    /\ merged' = FALSE
    /\ Forget
    /\ pc' = "save"
    /\ UNCHANGED <<rows, seeded, shown, marks, store>>

(* The poll ends well: the marks are saved, and the final sum in `updates`, *)
(* which is the total, is merged into the data.                             *)
Save ==
    /\ pc = "save"
    /\ store' = marks
    /\ shown' = total
    /\ merged' = TRUE
    /\ pc' = "idle"
    /\ UNCHANGED <<rows, queue, total, seeded, marks, readVars>>

(* A read raises, of this statistic or of one before it: the poll ends,     *)
(* nothing of this one was pushed; the marks stay.                          *)
ReadFails ==
    /\ "recorder" \in Faults
    /\ pc \in {"baseline", "existing"}
    /\ Forget
    /\ pc' = "idle"
    /\ UNCHANGED <<rows, queue, showVars, marks, store>>

(* The import of another statistic raises after this one was pushed:        *)
(* `updates` is gone with the poll, and the data stay.                      *)
PollFails ==
    /\ "recorder" \in Faults
    /\ pc = "save"
    /\ pc' = "idle"
    /\ UNCHANGED <<rows, queue, showVars, marks, store, readVars>>

(* The save raises, after the merge: the new sum is shown if the data had   *)
(* an entry for the EIC, which is updated in place.                         *)
SaveFails ==
    /\ "store" \in Faults
    /\ pc = "save"
    /\ \/ shown' = total /\ merged' = TRUE
       \/ shown = NoSum /\ UNCHANGED <<shown, merged>>
    /\ pc' = "idle"
    /\ UNCHANGED <<rows, queue, total, seeded, marks, store, readVars>>

(* The recorder's thread writes the oldest batch. *)
Commit ==
    /\ queue # <<>>
    /\ rows' = Written(Head(queue))
    /\ queue' = Tail(queue)
    /\ UNCHANGED <<showVars, marks, store, pc, readVars>>

(* __init__ of a coordinator. *)
NewCoordinator ==
    /\ total' = 0
    /\ seeded' = FALSE
    /\ shown' = NoSum
    /\ merged' = FALSE
    /\ marks' = [d \in Days |-> 0]
    /\ Forget
    /\ pc' = "idle"

(* The entry is reloaded, by the update listener or the password dialog, or *)
(* set up again after a first poll that failed.  The recorder goes on with  *)
(* what it has queued.  A reload while a poll is under way is not modelled. *)
Reload ==
    /\ pc = "idle"
    /\ NewCoordinator
    /\ UNCHANGED <<rows, queue, store>>

(* Home Assistant stops, after the recorder has written its queue, or loses *)
(* power and with it the queue.                                             *)
Restart ==
    /\ \/ "restart" \in Faults /\ queue = <<>>
       \/ "crash" \in Faults
    /\ queue' = <<>>
    /\ NewCoordinator
    /\ UNCHANGED <<rows, store>>

Next ==
    \/ Seed
    \/ \E staged \in Stagings : Begin(staged)
    \/ ReadBaseline \/ ReadExisting \/ Push \/ Save \/ ReadFails \/ PollFails
    \/ SaveFails
    \/ Commit \/ Reload \/ Restart

Spec == Init /\ [][Next]_vars

----------------------------------------------------------------------------
(* The energy that running sums amount to, as the Energy dashboard shows    *)
(* it: each row less the row before it.                                     *)
LastBefore(sums, hour) ==
    LET before == {h \in RowsOf(sums) : h < hour}
    IN  IF before = {} THEN 0 ELSE sums[Max(before)]

EnergyOf(sums) ==
    [h \in Hours |-> IF sums[h] = NoRow THEN NoRow ELSE sums[h] - LastBefore(sums, h)]

Energy == EnergyOf(rows)

(* What one poll can stage. *)
StagedHours == {NewHours(staged) : staged \in Stagings}

HourBooks == INSTANCE HourLedger WITH energy <- Energy, Batches <- StagedHours

(* "V2 corrections and out-of-order backfills land at the correct cumulative*)
(* offset": written batches change the energy of exactly the hours their    *)
(* files have, to what the files say, whatever days come in whatever order. *)
RefinesHours == HourBooks!LedgerSpec

(* The sensor shows "the latest total": once the recorder has written what  *)
(* waits, it and the Energy dashboard agree, whatever was imported, in which*)
(* order, across failing polls, reloads and restarts.  Excepted is what the *)
(* code leaves behind: a coordinator that has not imported yet shows nothing*)
(* (sensor.native_value), and one whose last import was followed by an      *)
(* exception in the same poll may go on showing the sum before it, because  *)
(* _async_update_data merges only at its end.                               *)
SensorAgrees == merged /\ queue = <<>> => shown = LastSum

----------------------------------------------------------------------------
(* Parts of the inductive invariant. *)

(* A coordinator that has not been seeded is not polling; a poll that reads *)
(* has the recorder to itself; one batch waits at a time.                   *)
QueueInv ==
    /\ ~seeded => pc = "idle"
    /\ queue = <<>> \/ queue = <<Head(queue)>>
    /\ pc \in {"baseline", "existing", "push"} => queue = <<>> /\ items \in Stagings

(* What a poll has read is what the recorder has. *)
ReadInv ==
    /\ pc \in {"existing", "push"} => baseline = LastBefore(rows, From(items))
    /\ pc = "push" => existing = [h \in {k \in HasRow : k >= From(items)} |-> rows[h]]

(* Sums grow from hour to hour. *)
Rising(sums) ==
    \A h, k \in RowsOf(sums) : h <= k => sums[h] <= sums[k]

(* The last sum of the statistic once its queue is written. *)
ComingSum ==
    IF queue = <<>> THEN LastSum ELSE Head(queue)[Max(DOMAIN Head(queue))]

(* Between the push and the end of its poll the total is what the recorder  *)
(* will have last; afterwards so is what the sensor shows.                  *)
ShownInv ==
    /\ merged => seeded /\ shown = total
    /\ merged \/ pc = "save" => total = ComingSum

(* A batch that waits replaces all rows from its first hour on and changes  *)
(* the energy of the hours of what was staged.                              *)
BatchInv ==
    LET batch == Head(queue)
    IN  queue # <<>> =>
           /\ DOMAIN batch # {}
           /\ \A h \in HasRow \ DOMAIN batch, k \in DOMAIN batch : h < k
           /\ Rising(Written(batch))
           /\ \E hours \in StagedHours : \A h \in Hours :
                 EnergyOf(Written(batch))[h] =
                    IF h \in DOMAIN hours THEN hours[h] ELSE Energy[h]

(* What holds when the recorder keeps up, the polling zone is not west of   *)
(* the data's, and no gap is longer than the lookback; inductive.           *)
RecomputeInv == TypeOK /\ QueueInv /\ ReadInv /\ ShownInv /\ Rising(rows) /\ BatchInv
=============================================================================
