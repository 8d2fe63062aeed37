---------------------------- MODULE Coordinator ----------------------------
(***************************************************************************)
(* OkteCoordinator (custom_components/okte_edc/coordinator.py): one config *)
(* entry's poll cycle, from the mailbox to the recorder.                   *)
(*                                                                         *)
(* A poll is cut into steps where something else can happen in between:    *)
(* the body of _poll_sync runs in an executor thread while the event loop  *)
(* serves button presses, mail arrives, the recorder thread writes, Home   *)
(* Assistant stops; and at every IMAP, recorder or Store call the poll may *)
(* end with an exception.  Polls of one coordinator never overlap: the     *)
(* DataUpdateCoordinator holds a lock around each refresh, and a refresh   *)
(* requested meanwhile is dropped.                                         *)
(***************************************************************************)
EXTENDS Mailbox, Recorder, FiniteSetsExt

CONSTANTS
    Enablements,   \* the sets of EICs the user may have enabled
    Allowlist,     \* sender_allowlist; empty: every sender
    ScanWindow,    \* scan_window_days
    BufferDays,    \* _CORRECTION_BUFFER_DAYS
    MaxBackfill,   \* max_backfill; 0: no limit
    CleanupMode,   \* email_cleanup
    DeleteAfter,   \* delete_after_days
    Buttons,       \* the buttons the user may press
    WindowStates   \* {TRUE}: the polling window spans the day

ASSUME CoordinatorAssumption ==
    /\ Enablements \subseteq SUBSET Eics
    /\ ScanWindow \in Nat
    /\ BufferDays \in Nat
    /\ MaxBackfill \in Nat
    /\ CleanupMode \in {"leave", "archive", "delete"}
    /\ DeleteAfter \in Nat
    /\ Buttons \subseteq {"poll_now", "full_rescan"}
    /\ WindowStates \subseteq BOOLEAN

VARIABLES
    store,             \* last_processed_versions in the HA Store, on disk
    versions,          \* _last_processed_versions
    storeLoaded,       \* _store_loaded
    firstRefreshDone,  \* _first_refresh_done
    enabled,           \* _enabled_eics, as the config entry has them
    inWindow,          \* the local time is inside the polling window
    forceFullScan,     \* _force_full_scan
    requested,         \* a button asked for a refresh that has not begun
    data,              \* sensor values by EIC: day and version last shown
    pc                 \* where the current poll is; "idle" between polls

(* The local variables of a poll. *)
VARIABLES
    forced,     \* force_full_scan, as _poll_sync read it
    deduped,    \* candidates not yet processed
    pending,    \* pending_by_stat: version staged for each day
    updates,    \* updates: freshness values for the sensors
    toImport    \* statistics of pending_by_stat not yet recomputed

memVars  == <<versions, storeLoaded, firstRefreshDone, data>>
askVars  == <<forceFullScan, requested>>
pollVars == <<forced, deduped, pending, updates, toImport>>
vars     == <<mailVars, recVars, store, memVars, askVars, enabled, inWindow, pc, pollVars>>

Reading    == [day : 0..LastDay, version : Versions0]
NoReading  == [e \in Eics |-> [day |-> 0, version |-> 0]]
NoMarks    == [k \in Keys |-> 0]
NoPending  == [s \in Stats |-> [d \in Days |-> 0]]
Candidates == [uid : Messages, eic : Eics, day : Days, version : Versions]

Steps == {"idle", "seed", "flag", "open", "cleanup", "expungeOld", "search",
          "process", "close", "import"}

(* Every variable keeps its type. *)
TypeOK ==
    /\ MailTypeOK
    /\ RecorderTypeOK
    /\ store \in [Keys -> Versions0]
    /\ versions \in [Keys -> Versions0]
    /\ storeLoaded \in BOOLEAN
    /\ firstRefreshDone \in BOOLEAN
    /\ enabled \in Enablements
    /\ inWindow \in WindowStates
    /\ forceFullScan \in BOOLEAN
    /\ requested \in BOOLEAN
    /\ data \in [Eics -> Reading]
    /\ pc \in Steps
    /\ forced \in BOOLEAN
    /\ deduped \subseteq Candidates
    /\ pending \in [Stats -> Batch]
    /\ updates \in [Eics -> Reading]
    /\ toImport \subseteq Stats

Init ==
    /\ MailInit
    /\ RecorderInit
    /\ store = NoMarks
    /\ versions = NoMarks
    /\ storeLoaded = FALSE
    /\ firstRefreshDone = FALSE
    /\ enabled \in Enablements
    /\ inWindow \in WindowStates
    /\ forceFullScan = FALSE
    /\ requested = FALSE
    /\ data = NoReading
    /\ pc = "idle"
    /\ forced = FALSE
    /\ deduped = {}
    /\ pending = NoPending
    /\ updates = NoReading
    /\ toImport = {}

----------------------------------------------------------------------------
(* How a poll ends. *)

(* The poll's local variables are gone. *)
DropPoll ==
    /\ pc' = "idle"
    /\ forced' = FALSE
    /\ deduped' = {}
    /\ pending' = NoPending
    /\ updates' = NoReading
    /\ toImport' = {}

(* The coordinator object is gone; its successor starts as __init__ says.   *)
Forget ==
    /\ DropPoll
    /\ versions' = NoMarks
    /\ storeLoaded' = FALSE
    /\ firstRefreshDone' = FALSE
    /\ forceFullScan' = FALSE
    /\ requested' = FALSE
    /\ data' = NoReading

(* An exception leaves _async_update_data.  A regular refresh keeps what    *)
(* the coordinator remembers; a first refresh fails the entry's setup, which*)
(* is retried with a new coordinator.                                       *)
Abort ==
    IF firstRefreshDone
    THEN DropPoll /\ UNCHANGED <<memVars, askVars>>
    ELSE Forget

----------------------------------------------------------------------------
(* Buttons and the clock. *)

(* Full mailbox scan: sets the flag, then asks for a refresh. *)
PressFullScan ==
    /\ "full_rescan" \in Buttons
    /\ firstRefreshDone
    /\ forceFullScan' = TRUE
    /\ requested' = (requested \/ pc = "idle")
    /\ UNCHANGED <<mailVars, recVars, store, memVars, enabled, inWindow, pc, pollVars>>

(* Check mailbox now. *)
PressPollNow ==
    /\ "poll_now" \in Buttons
    /\ firstRefreshDone
    /\ pc = "idle"
    /\ requested' = TRUE
    /\ UNCHANGED <<mailVars, recVars, store, memVars, forceFullScan, enabled, inWindow, pc, pollVars>>

WindowOpens ==
    /\ ~inWindow
    /\ TRUE \in WindowStates
    /\ inWindow' = TRUE
    /\ UNCHANGED <<mailVars, recVars, store, memVars, askVars, enabled, pc, pollVars>>

WindowCloses ==
    /\ inWindow
    /\ FALSE \in WindowStates
    /\ inWindow' = FALSE
    /\ UNCHANGED <<mailVars, recVars, store, memVars, askVars, enabled, pc, pollVars>>

----------------------------------------------------------------------------
(* _async_update_data, up to the executor job. *)

(* A refresh outside the window returns the cached data.  (One the timer    *)
(* started changes nothing at all.)                                         *)
SkipPoll ==
    /\ pc = "idle"
    /\ requested
    /\ ~inWindow
    /\ firstRefreshDone
    /\ ~forceFullScan
    /\ requested' = FALSE
    /\ UNCHANGED <<mailVars, recVars, store, memVars, forceFullScan, enabled, inWindow, pc, pollVars>>

(* Mutant: the Store is never read. *)
BeginPollUnloaded ==
    /\ pc = "idle"
    /\ enabled # {}
    /\ inWindow \/ ~firstRefreshDone \/ forceFullScan
    /\ storeLoaded' = TRUE
    /\ requested' = FALSE
    /\ pc' = "seed"
    /\ UNCHANGED <<mailVars, recVars, store, versions, firstRefreshDone, data,
                   forceFullScan, enabled, inWindow, pollVars>>

(* The timer, a button or the entry's setup starts a refresh that polls.    *)
(* With no enabled EIC no refresh gets this far.                            *)
BeginPoll ==
    /\ pc = "idle"
    /\ enabled # {}
    /\ inWindow \/ ~firstRefreshDone \/ forceFullScan
    /\ versions' = IF storeLoaded THEN versions ELSE store
    /\ storeLoaded' = TRUE
    /\ requested' = FALSE
    /\ pc' = "seed"
    /\ UNCHANGED <<mailVars, recVars, store, firstRefreshDone, data, forceFullScan, enabled, inWindow, pollVars>>

(* _seed_cumulative_if_needed reads the recorder in a coordinator's first   *)
(* refresh; afterwards every sensor is seeded.                              *)
SeedFails ==
    /\ "recorder" \in Faults
    /\ pc = "seed"
    /\ ~firstRefreshDone
    /\ Abort
    /\ UNCHANGED <<mailVars, recVars, store, enabled, inWindow>>

----------------------------------------------------------------------------
(* _poll_sync, in the executor. *)

(* Reading the flag and clearing it are two statements; a press on the      *)
(* event loop may come between them.                                        *)
ReadFlag ==
    /\ pc = "seed"
    /\ forced' = forceFullScan
    /\ pc' = "flag"
    /\ UNCHANGED <<mailVars, recVars, store, memVars, askVars, enabled, inWindow,
                   deduped, pending, updates, toImport>>

ClearFlag ==
    /\ pc = "flag"
    /\ forceFullScan' = FALSE
    /\ pc' = "open"
    /\ UNCHANGED <<mailVars, recVars, store, memVars, requested, enabled, inWindow, pollVars>>

OpenSession ==
    /\ pc = "open"
    /\ pc' = IF CleanupMode = "delete" THEN "cleanup" ELSE "search"
    /\ UNCHANGED <<mailVars, recVars, store, memVars, askVars, enabled, inWindow, pollVars>>

(* Connecting, logging in or selecting the folder fails. *)
OpenFails ==
    /\ "imap" \in Faults
    /\ pc = "open"
    /\ Abort
    /\ UNCHANGED <<mailVars, recVars, store, enabled, inWindow>>

(* Delete-after-N-days: flag the old messages, then expunge. *)
MarkOld ==
    /\ pc = "cleanup"
    /\ \E variants \in Answered :
          LET old == SearchBefore(variants, today - DeleteAfter)
          IN  /\ MarkForDelete(old)
              /\ pc' = IF old = {} THEN "search" ELSE "expungeOld"
    /\ UNCHANGED <<recVars, store, memVars, askVars, enabled, inWindow, pollVars>>

ExpungeOld ==
    /\ pc = "expungeOld"
    /\ Expunge
    /\ pc' = "search"
    /\ UNCHANGED <<recVars, store, memVars, askVars, enabled, inWindow, pollVars>>

(* _compute_search_cutoff: the more recent of the scan window's start and   *)
(* the latest marked day less the buffer.  The marks of every EIC count.    *)
MarkedDays == {k[2] : k \in {k \in Keys : versions[k] # 0}}

(* Mutants: no correction buffer; no scan window. *)
CutoffUnbuffered == Max({today - ScanWindow} \union MarkedDays)
CutoffToday      == Max({today} \union {d - BufferDays : d \in MarkedDays})

Cutoff     == Max({today - ScanWindow} \union {d - BufferDays : d \in MarkedDays})

(* The UIDs the poll will look at. *)
PollUids(variants) ==
    LET uids == SearchSince(variants, IF forced THEN 0 ELSE Cutoff)
    IN  IF MaxBackfill # 0 THEN Newest(uids, MaxBackfill) ELSE uids

(* Mutant: any version but the marked one is news. *)
AcceptedOther(m, f) ==
    /\ Allowlist = {} \/ Mail[m].sender \in Allowlist
    /\ f.body = "good"
    /\ forced \/ f.day >= today - ScanWindow
    /\ f.eic \in enabled
    /\ versions[<<f.eic, f.day>>] # f.version

(* The checks a message and one of its attachments must pass. *)
Accepted(m, f) ==
    /\ Allowlist = {} \/ Mail[m].sender \in Allowlist
    /\ f.body = "good"
    /\ forced \/ f.day >= today - ScanWindow
    /\ f.eic \in enabled
    /\ versions[<<f.eic, f.day>>] < f.version

CandidatesIn(uids) ==
    UNION {{[uid |-> m, eic |-> f.eic, day |-> f.day, version |-> f.version] :
               f \in {g \in Mail[m].files : Accepted(m, g)}} : m \in uids}

(* The stable sort by (date ascending, version descending). *)
SortsBefore(c, d) ==
    \/ c.day < d.day
    \/ c.day = d.day /\ c.version > d.version
    \/ c.day = d.day /\ c.version = d.version /\ ByteRank[c.uid] < ByteRank[d.uid]

SameKey(c, d) == c.eic = d.eic /\ c.day = d.day

(* Mutant: no de-duplication. *)
EveryCandidate(candidates) == candidates

(* De-duplication keeps the first candidate of each (eic, date). *)
FirstOfEachKey(candidates) ==
    {c \in candidates : \A d \in candidates : SameKey(c, d) => ~SortsBefore(d, c)}

(* Search, fetch, parse, filter, sort, de-duplicate.  One step: the thread  *)
(* shares nothing it uses here with anything that runs meanwhile.           *)
CollectFrom(variants) ==
    /\ pc = "search"
    /\ deduped' = FirstOfEachKey(CandidatesIn(PollUids(variants)))
    /\ pc' = "process"
    /\ UNCHANGED <<mailVars, recVars, store, memVars, askVars, enabled, inWindow,
                   forced, pending, updates, toImport>>

Collect == \E variants \in Answered : CollectFrom(variants)

(* Mutants: the staged hours of a statistic replace the earlier ones of the *)
(* same poll; the known_max guard is missing.                               *)
CollectPendingReset(c) ==
    LET fed == {<<c.eic, x>> : x \in Series[c.eic]} IN
    /\ pending' = [s \in Stats |->
           IF s \in fed THEN [NoPending[s] EXCEPT ![c.day] = c.version] ELSE pending[s]]
    /\ toImport' = toImport \union fed
    /\ updates' =
           IF \E d \in Days : d > c.day /\ versions[<<c.eic, d>>] # 0
           THEN updates
           ELSE [updates EXCEPT ![c.eic] = [day |-> c.day, version |-> c.version]]

CollectPendingUnguarded(c) ==
    LET fed == {<<c.eic, x>> : x \in Series[c.eic]} IN
    /\ pending' = [s \in Stats |->
           IF s \in fed THEN [pending[s] EXCEPT ![c.day] = c.version] ELSE pending[s]]
    /\ toImport' = toImport \union fed
    /\ updates' = [updates EXCEPT ![c.eic] = [day |-> c.day, version |-> c.version]]

(* _collect_pending: the file's hours are staged for each of its series;    *)
(* the freshness values only if no later day of the EIC has been marked.    *)
CollectPending(c) ==
    LET fed == {<<c.eic, x>> : x \in Series[c.eic]} IN
    /\ pending' = [s \in Stats |->
           IF s \in fed THEN [pending[s] EXCEPT ![c.day] = c.version] ELSE pending[s]]
    /\ toImport' = toImport \union fed
    /\ updates' =
           IF \E d \in Days : d > c.day /\ versions[<<c.eic, d>>] # 0
           THEN updates
           ELSE [updates EXCEPT ![c.eic] = [day |-> c.day, version |-> c.version]]

(* One turn of the processing loop, in date order: stage, mark, archive. *)
ProcessFile(c) ==
    /\ pc = "process"
    /\ \A d \in deduped : ~SortsBefore(d, c)
    /\ CollectPending(c)
    /\ versions' = [versions EXCEPT ![<<c.eic, c.day>>] = c.version]
    /\ deduped' = deduped \ {c}
    /\ IF CleanupMode = "archive" THEN Archive(c.uid) ELSE UNCHANGED mailVars
    /\ UNCHANGED <<recVars, store, storeLoaded, firstRefreshDone, data, askVars,
                   enabled, inWindow, pc, forced>>

ExpungeArchived ==
    /\ CleanupMode = "archive"
    /\ pc = "process"
    /\ deduped = {}
    /\ Expunge
    /\ pc' = "close"
    /\ UNCHANGED <<recVars, store, memVars, askVars, enabled, inWindow, pollVars>>

(* The finally clause, after a poll that went well. *)
Close ==
    /\ \/ pc = "close"
       \/ pc = "process" /\ deduped = {} /\ CleanupMode # "archive"
    /\ CloseSession
    /\ pc' = "import"
    /\ UNCHANGED <<recVars, store, memVars, askVars, enabled, inWindow, pollVars>>

(* An IMAP command raises; the finally clause closes the session and the    *)
(* exception ends the refresh.  Once the candidates are collected only      *)
(* archiving and its EXPUNGE talk to the server.                            *)
PollFails ==
    /\ "imap" \in Faults
    /\ \/ pc \in {"cleanup", "expungeOld", "search"}
       \/ pc = "process" /\ CleanupMode = "archive"
    /\ CloseSession
    /\ Abort
    /\ UNCHANGED <<recVars, store, enabled, inWindow>>

----------------------------------------------------------------------------
(* _async_update_data, after the executor job. *)

(* Mutants: rewriting from the latest staged day; adding the new hours to   *)
(* the old ones.                                                            *)
RecomputedFromLast(s) ==
    [d \in Days |->
        IF \E e \in Days : e > d /\ pending[s][e] # 0 THEN 0
        ELSE IF pending[s][d] # 0 THEN pending[s][d]
        ELSE rows[s][d]]

RecomputedAdding(s) ==
    [d \in Days |-> IF pending[s][d] # 0 THEN pending[s][d] + rows[s][d] ELSE 0]

(* The rows _recompute_and_import_stat pushes: from the earliest staged day *)
(* on, the hours the recorder has, overlaid with the staged ones.           *)
Recomputed(s) ==
    [d \in Days |->
        IF pending[s][d] # 0 THEN pending[s][d]
        ELSE IF \E e \in Days : e < d /\ pending[s][e] # 0 THEN rows[s][d]
        ELSE 0]

ImportStat(s) ==
    /\ pc = "import"
    /\ s \in toImport
    /\ Enqueue(s, Recomputed(s))
    /\ toImport' = toImport \ {s}
    /\ UNCHANGED <<mailVars, store, memVars, askVars, enabled, inWindow, pc,
                   forced, deduped, pending, updates>>

(* Reading the recorder or handing it the batch raises. *)
ImportFails ==
    /\ "recorder" \in Faults
    /\ pc = "import"
    /\ toImport # {}
    /\ Abort
    /\ UNCHANGED <<mailVars, recVars, store, enabled, inWindow>>

Staged == pending # NoPending

(* The refresh returns: the marks are saved if anything was staged, and the *)
(* sensors show the merged values.                                          *)
FinishPoll ==
    /\ pc = "import"
    /\ toImport = {}
    /\ store' = IF Staged THEN versions ELSE store
    /\ data' = [e \in Eics |-> IF updates[e].day # 0 THEN updates[e] ELSE data[e]]
    /\ firstRefreshDone' = TRUE
    /\ DropPoll
    /\ UNCHANGED <<mailVars, recVars, versions, storeLoaded, askVars, enabled, inWindow>>

(* The save raises.  The merge comes first and copies the outer dictionary  *)
(* only: what the coordinator shows of an EIC it already has an entry for   *)
(* (a late file makes one without a date) has been updated in place.        *)
SaveFails ==
    /\ "store" \in Faults
    /\ pc = "import"
    /\ toImport = {}
    /\ Staged
    /\ \/ /\ firstRefreshDone
          /\ \E has \in SUBSET Eics :
                /\ {e \in Eics : data[e].day # 0} \subseteq has
                /\ data' = [e \in Eics |->
                       IF e \in has /\ updates[e].day # 0 THEN updates[e] ELSE data[e]]
          /\ DropPoll
          /\ UNCHANGED <<versions, storeLoaded, firstRefreshDone, askVars>>
       \/ ~firstRefreshDone /\ Forget
    /\ UNCHANGED <<mailVars, recVars, store, enabled, inWindow>>

----------------------------------------------------------------------------
(* Around the coordinator. *)

(* The user enables or disables EICs; the update listener reloads the entry.*)
(* Reloading while a poll runs is not modelled here.                        *)
Reconfigure ==
    /\ pc = "idle"
    /\ enabled' \in Enablements \ {enabled}
    /\ Forget
    /\ UNCHANGED <<mailVars, recVars, store, inWindow>>

(* Home Assistant stops and starts again. *)
Restart ==
    /\ "restart" \in Faults
    /\ Drained
    /\ Forget
    /\ UNCHANGED <<mailVars, recVars, store, enabled, inWindow>>

(* The machine loses power. *)
Crash ==
    /\ "crash" \in Faults
    /\ LoseQueue
    /\ Forget
    /\ UNCHANGED <<mailVars, store, enabled, inWindow>>

World ==
    /\ \/ \E m \in Messages : Deliver(m) \/ UserFlags(m)
       \/ NextDay
    /\ UNCHANGED <<recVars, store, memVars, askVars, enabled, inWindow, pc, pollVars>>

RecorderThread ==
    /\ \E s \in Stats : Commit(s)
    /\ UNCHANGED <<mailVars, store, memVars, askVars, enabled, inWindow, pc, pollVars>>

PollStep ==
    \/ BeginPoll \/ ReadFlag \/ ClearFlag \/ OpenSession
    \/ MarkOld \/ ExpungeOld \/ Collect
    \/ \E c \in deduped : ProcessFile(c)
    \/ ExpungeArchived \/ Close
    \/ \E s \in Stats : ImportStat(s)
    \/ FinishPoll

PollFault == SeedFails \/ OpenFails \/ PollFails \/ ImportFails \/ SaveFails

Next ==
    \/ PollStep \/ PollFault \/ SkipPoll
    \/ PressFullScan \/ PressPollNow \/ WindowOpens \/ WindowCloses
    \/ World \/ RecorderThread
    \/ Reconfigure \/ Restart \/ Crash

Spec == Init /\ [][Next]_vars
=============================================================================
