---------------------------- MODULE LedgerProofs ----------------------------
(***************************************************************************)
(* When a mark in the Store really stands for hours in the recorder, and   *)
(* what holds besides when nothing interrupts a poll after its first mark: *)
(* rows only move to newer published versions, in every cleanup mode, and  *)
(* what is archived has been imported.                                     *)
(***************************************************************************)
EXTENDS CoordinatorProofs

LEMMA FedStats ==
    ASSUME NEW e \in Eics, NEW x \in Series[e]
    PROVE  x \in Suffixes /\ <<e, x>> \in Stats
BY FilesAssumption DEF Stats

(* What the theorem needs.  Between marking a file and queueing its hours   *)
(* nothing raises: not the recorder, and not the server while messages are  *)
(* archived.  What is queued is written: no power cut.  And a statistic is  *)
(* rewritten only when its previous batch is in (Backlog).                  *)
Reliable ==
    /\ Backlog = 1
    /\ Faults \cap {"recorder", "crash"} = {}
    /\ CleanupMode = "archive" => "imap" \notin Faults

(* With at most one batch waiting, Landed is that batch over the rows. *)
LEMMA LandedQueue ==
    ASSUME RecorderTypeOK, Reliable, NEW s \in Stats
    PROVE  \/ queue[s] = <<>>
           \/ \E b \in Batch : queue[s] = <<b>>
<1>1. queue[s] \in Seq(Batch) /\ Len(queue[s]) <= 1
  BY DEF RecorderTypeOK, Reliable
<1>2. Len(queue[s]) \in Nat
  BY <1>1
<1>3. CASE Len(queue[s]) = 0
  BY <1>1, <1>3
<1>4. CASE Len(queue[s]) = 1
  <2>1. queue[s][1] \in Batch
    BY <1>1, <1>4
  <2>2. queue[s] = <<queue[s][1]>>
    BY <1>1, <1>4
  <2>3. QED
    BY <2>1, <2>2
<1>5. QED
  BY <1>1, <1>2, <1>3, <1>4

LEMMA LandedEmpty ==
    ASSUME NEW s \in Stats, NEW d \in Days, queue[s] = <<>>
    PROVE  Landed(s, d) = rows[s][d]
<1>1. {i \in DOMAIN queue[s] : queue[s][i][d] # 0} = {}
  OBVIOUS
<1>2. QED
  BY <1>1 DEF Landed

LEMMA LandedOne ==
    ASSUME NEW s \in Stats, NEW d \in Days, NEW b \in Batch, queue[s] = <<b>>
    PROVE  Landed(s, d) = IF b[d] # 0 THEN b[d] ELSE rows[s][d]
<1> DEFINE writes == {i \in DOMAIN queue[s] : queue[s][i][d] # 0}
<1>1. DOMAIN queue[s] = {1} /\ queue[s][1] = b
  OBVIOUS
<1>2. CASE b[d] = 0
  <2>1. writes = {}
    BY <1>1, <1>2
  <2>2. QED
    BY <1>2, <2>1 DEF Landed
<1>3. CASE b[d] # 0
  <2>1. writes = {1}
    BY <1>1, <1>3
  <2>2. (CHOOSE i \in writes : \A j \in writes : j <= i) = 1
    BY <2>1
  <2>3. Landed(s, d) = queue[s][CHOOSE i \in writes : \A j \in writes : j <= i][d]
    BY <2>1 DEF Landed
  <2>4. QED
    BY <1>1, <1>3, <2>2, <2>3
<1>4. QED
  BY <1>2, <1>3

LEMMA LandedTyped ==
    ASSUME RecorderTypeOK, Reliable, NEW s \in Stats, NEW d \in Days
    PROVE  Landed(s, d) \in Versions0
<1>1. rows[s][d] \in Versions0
  BY DEF RecorderTypeOK, Batch
<1>2. CASE queue[s] = <<>>
  BY <1>1, <1>2, LandedEmpty
<1>3. CASE \E b \in Batch : queue[s] = <<b>>
  <2>1. PICK b \in Batch : queue[s] = <<b>>
    BY <1>3
  <2>2. b[d] \in Versions0
    BY DEF Batch
  <2>3. QED
    BY <1>1, <2>1, <2>2, LandedOne
<1>4. QED
  BY <1>2, <1>3, LandedQueue

(* Writing a batch changes nothing of what will have landed. *)
LEMMA CommitLands ==
    ASSUME RecorderTypeOK, Reliable, NEW t \in Stats, Commit(t),
           NEW s \in Stats, NEW d \in Days
    PROVE  Landed(s, d)' = Landed(s, d)
<1>0. rows \in [Stats -> Batch] /\ queue \in [Stats -> Seq(Batch)]
  BY DEF RecorderTypeOK
<1>1. CASE s # t
  <2>1. queue'[s] = queue[s] /\ rows'[s] = rows[s]
    BY <1>0, <1>1 DEF Commit
  <2>2. QED
    BY <2>1 DEF Landed
<1>2. CASE s = t
  <2>1. PICK b \in Batch : queue[s] = <<b>>
    BY <1>2, LandedQueue DEF Commit
  <2>2. queue'[s] = <<>> /\ rows'[s] = Upsert(rows[s], b)
    BY <1>0, <1>2, <2>1 DEF Commit
  <2>3. Landed(s, d)' = rows'[s][d]
    <3>1. {i \in DOMAIN queue'[s] : queue'[s][i][d] # 0} = {}
      BY <2>2
    <3>2. QED
      BY <3>1 DEF Landed
  <2>4. rows'[s][d] = IF b[d] # 0 THEN b[d] ELSE rows[s][d]
    BY <2>2 DEF Upsert
  <2>5. QED
    BY <2>1, <2>3, <2>4, LandedOne
<1>3. QED
  BY <1>1, <1>2

(* Importing a statistic lands its staged days, and leaves the other days   *)
(* as they were.                                                            *)
LEMMA ImportLands ==
    ASSUME TypeOK, Reliable, NEW t \in Stats, ImportStat(t), NEW s \in Stats, NEW d \in Days
    PROVE  Landed(s, d)' = IF s = t /\ pending[s][d] # 0 THEN pending[s][d] ELSE Landed(s, d)
<1>0. /\ rows \in [Stats -> Batch] /\ queue \in [Stats -> Seq(Batch)]
      /\ pending \in [Stats -> Batch]
  BY DEF TypeOK, RecorderTypeOK
<1>1. rows' = rows /\ queue' = [queue EXCEPT ![t] = Append(@, Recomputed(t))]
  BY DEF ImportStat, Enqueue
<1>2. CASE s # t
  <2>1. queue'[s] = queue[s]
    BY <1>0, <1>1, <1>2
  <2>2. QED
    BY <1>1, <1>2, <2>1 DEF Landed
<1>3. CASE s = t
  <2>1. queue[s] = <<>>
    <3>1. Len(queue[s]) < 1
      BY <1>3 DEF ImportStat, Enqueue, Reliable
    <3>2. QED
      BY <1>0, <3>1
  <2>2. queue'[s] = <<Recomputed(s)>>
    BY <1>0, <1>1, <1>3, <2>1
  <2>3. Recomputed(s) \in Batch
    BY <1>0 DEF Recomputed, Batch, Versions0
  <2>4. Landed(s, d)' = IF Recomputed(s)[d] # 0 THEN Recomputed(s)[d] ELSE rows[s][d]
    <3> DEFINE b == Recomputed(s)
               writes == {i \in DOMAIN queue'[s] : queue'[s][i][d] # 0}
    <3>1. DOMAIN queue'[s] = {1} /\ queue'[s][1] = b
      BY <2>2
    <3>2. CASE b[d] = 0
      <4>1. writes = {}
        BY <3>1, <3>2
      <4>2. QED
        BY <1>1, <3>2, <4>1 DEF Landed
    <3>3. CASE b[d] # 0
      <4>1. writes = {1}
        BY <3>1, <3>3
      <4>2. (CHOOSE i \in writes : \A j \in writes : j <= i) = 1
        BY <4>1
      <4>3. Landed(s, d)' = queue'[s][CHOOSE i \in writes : \A j \in writes : j <= i][d]
        BY <4>1 DEF Landed
      <4>4. QED
        BY <3>1, <3>3, <4>2, <4>3
    <3>4. QED
      BY <3>2, <3>3
  <2>5. Recomputed(s)[d] # 0 =>
           Recomputed(s)[d] = IF pending[s][d] # 0 THEN pending[s][d] ELSE rows[s][d]
    BY DEF Recomputed
  <2>6. pending[s][d] # 0 => Recomputed(s)[d] = pending[s][d]
    BY DEF Recomputed
  <2>7. Landed(s, d) = rows[s][d]
    BY <2>1, LandedEmpty
  <2>8. QED
    BY <1>3, <2>4, <2>5, <2>6, <2>7
<1>4. QED
  BY <1>2, <1>3

----------------------------------------------------------------------------
(* The steps. *)

MarkInv == StoreMarksLanded /\ MarksInv

markVars == <<rows, queue, store, versions, pending, toImport>>

LEMMA SameLanded ==
    ASSUME UNCHANGED <<rows, queue>>, NEW s, NEW d
    PROVE  Landed(s, d)' = Landed(s, d)
BY DEF Landed

LEMMA QuietMarks == MarkInv /\ UNCHANGED markVars => MarkInv'
BY SameLanded DEF MarkInv, markVars, StoreMarksLanded, MarksInv

(* Nothing is staged and nothing marked: the marks are trivially right.     *)
LEMMA ForgetMarks ==
    ASSUME TypeOK, Reliable, MarkInv, Forget, UNCHANGED <<rows, queue, store>>
    PROVE  MarkInv'
<1>1. StoreMarksLanded'
  BY SameLanded DEF MarkInv, StoreMarksLanded
<1>2. ASSUME NEW e \in Eics, NEW d \in Days, NEW x \in Series[e]
      PROVE  versions'[<<e, d>>] <= Landed(<<e, x>>, d)'
  <2>1. versions'[<<e, d>>] = 0
    BY EmptyPoll DEF Forget
  <2>2. <<e, x>> \in Stats
    BY FedStats
  <2>3. Landed(<<e, x>>, d) \in Nat
    BY <2>2, LandedTyped DEF TypeOK, Versions0
  <2>4. Landed(<<e, x>>, d)' = Landed(<<e, x>>, d)
    BY DEF Landed
  <2>5. QED
    BY <2>1, <2>3, <2>4
<1>3. QED
  BY <1>1, <1>2 DEF MarkInv, MarksInv

(* A poll with nothing left to import may end. *)
LEMMA DropMarks ==
    ASSUME MarkInv, DropPoll, toImport = {}, UNCHANGED <<rows, queue, versions>>,
           store' = store \/ store' = versions
    PROVE  MarkInv'
<1>1. \A e \in Eics, d \in Days : \A x \in Series[e] :
         versions[<<e, d>>] <= Landed(<<e, x>>, d)
  BY DEF MarkInv, MarksInv
<1>2. \A s, d : Landed(s, d)' = Landed(s, d)
  BY SameLanded
<1>3. MarksInv'
  BY <1>1, <1>2 DEF MarksInv
<1>4. CASE store' = store
  BY <1>2, <1>3, <1>4 DEF MarkInv, StoreMarksLanded
<1>5. CASE store' = versions
  <2> SUFFICES ASSUME NEW e \in Eics, NEW d \in Days, NEW x \in Series[e]
               PROVE  Landed(<<e, x>>, d)' >= store'[<<e, d>>]
    BY <1>3 DEF MarkInv, StoreMarksLanded
  <2>1. versions[<<e, d>>] <= Landed(<<e, x>>, d)
    BY <1>1
  <2>2. QED
    BY <1>2, <1>5, <2>1
<1>6. QED
  BY <1>4, <1>5

LEMMA BeginMarks ==
    ASSUME MarkInv, BeginPoll
    PROVE  MarkInv'
<1>1. UNCHANGED <<rows, queue, store, pending, toImport>>
  BY DEF BeginPoll, recVars, pollVars
<1>2. CASE storeLoaded
  <2>1. versions' = versions
    BY <1>2 DEF BeginPoll
  <2>2. QED
    BY <1>1, <2>1, QuietMarks DEF markVars
<1>3. CASE ~storeLoaded
  <2>1. versions' = store
    BY <1>3 DEF BeginPoll
  <2>2. \A s, d : Landed(s, d)' = Landed(s, d)
    BY <1>1 DEF Landed
  <2>3. QED
    BY <1>1, <2>1, <2>2 DEF MarkInv, StoreMarksLanded, MarksInv
<1>4. QED
  BY <1>2, <1>3

(* Staging comes with marking, for every series of the file. *)
LEMMA ProcessMarks ==
    ASSUME TypeOK, MarkInv, NEW c \in deduped, ProcessFile(c)
    PROVE  MarkInv'
<1>1. UNCHANGED <<rows, queue, store>>
  BY DEF ProcessFile, recVars
<1>2. \A s, d : Landed(s, d)' = Landed(s, d)
  BY <1>1 DEF Landed
<1>3. c.eic \in Eics /\ c.day \in Days /\ c.version \in Versions
  BY DEF TypeOK, Candidates
<1>4. versions' = [versions EXCEPT ![<<c.eic, c.day>>] = c.version]
  BY DEF ProcessFile
<1>5. StoreMarksLanded'
  BY <1>1, <1>2 DEF MarkInv, StoreMarksLanded
<1>6. ASSUME NEW e \in Eics, NEW d \in Days, NEW x \in Series[e]
      PROVE  \/ versions'[<<e, d>>] <= Landed(<<e, x>>, d)'
             \/ <<e, x>> \in toImport' /\ pending'[<<e, x>>][d] = versions'[<<e, d>>]
  <2>1. <<e, d>> \in Keys /\ <<e, x>> \in Stats
    BY FedStats DEF Keys
  <2>2. CASE e = c.eic /\ d = c.day
    <3>1. versions'[<<e, d>>] = c.version
      BY <1>3, <1>4, <2>1, <2>2 DEF TypeOK
    <3>2. <<e, x>> \in toImport'
      BY <2>2 DEF ProcessFile, CollectPending
    <3>3. pending'[<<e, x>>][d] = c.version
      BY <1>3, <2>1, <2>2 DEF ProcessFile, CollectPending, TypeOK, Batch
    <3>4. QED
      BY <3>1, <3>2, <3>3
  <2>3. CASE ~(e = c.eic /\ d = c.day)
    <3>1. versions'[<<e, d>>] = versions[<<e, d>>]
      BY <1>3, <1>4, <2>1, <2>3 DEF TypeOK, Keys
    <3>2. pending'[<<e, x>>][d] = pending[<<e, x>>][d]
      BY <1>3, <2>1, <2>3 DEF ProcessFile, CollectPending, TypeOK, Batch
    <3>3. toImport \subseteq toImport'
      BY DEF ProcessFile, CollectPending
    <3>4. QED
      BY <1>2, <3>1, <3>2, <3>3 DEF MarkInv, MarksInv
  <2>4. QED
    BY <2>2, <2>3
<1>7. QED
  BY <1>5, <1>6 DEF MarkInv, MarksInv

LEMMA ImportMarks ==
    ASSUME TypeOK, Reliable, CoreInv, MarkInv, NEW t \in Stats, ImportStat(t)
    PROVE  MarkInv'
<1>1. UNCHANGED <<store, versions, pending>> /\ toImport' = toImport \ {t}
  BY DEF ImportStat, memVars
<1>2. ASSUME NEW e \in Eics, NEW d \in Days, NEW x \in Series[e]
      PROVE  /\ Landed(<<e, x>>, d)' >= store'[<<e, d>>]
             /\ \/ versions'[<<e, d>>] <= Landed(<<e, x>>, d)'
                \/ <<e, x>> \in toImport' /\ pending'[<<e, x>>][d] = versions'[<<e, d>>]
  <2>1. <<e, d>> \in Keys /\ <<e, x>> \in Stats /\ x \in Suffixes
    BY FedStats DEF Keys
  <2>2. /\ versions[<<e, d>>] \in Nat /\ store[<<e, d>>] \in Nat
        /\ Landed(<<e, x>>, d) \in Nat
    BY <2>1, LandedTyped DEF TypeOK, Versions0
  <2>3. /\ Landed(<<e, x>>, d) >= store[<<e, d>>]
        /\ \/ versions[<<e, d>>] <= Landed(<<e, x>>, d)
           \/ <<e, x>> \in toImport /\ pending[<<e, x>>][d] = versions[<<e, d>>]
    BY DEF MarkInv, StoreMarksLanded, MarksInv
  <2>4. CASE <<e, x>> = t /\ pending[<<e, x>>][d] # 0
    <3>1. Landed(<<e, x>>, d)' = pending[<<e, x>>][d]
      BY <2>1, <2>4, ImportLands
    <3>2. /\ pending[<<e, x>>][d] = versions[<<e, d>>]
          /\ pending[<<e, x>>][d] > store[<<e, d>>]
      BY <2>1, <2>4 DEF CoreInv, StagedInv
    <3>3. QED
      BY <1>1, <2>2, <3>1, <3>2
  <2>5. CASE <<e, x>> = t /\ pending[<<e, x>>][d] = 0
    <3>1. Landed(<<e, x>>, d)' = Landed(<<e, x>>, d)
      BY <2>1, <2>5, ImportLands
    <3>2. QED
      BY <1>1, <2>2, <2>3, <2>5, <3>1
  <2>6. CASE <<e, x>> # t
    <3>1. Landed(<<e, x>>, d)' = Landed(<<e, x>>, d)
      BY <2>1, <2>6, ImportLands
    <3>2. QED
      BY <1>1, <2>3, <2>6, <3>1
  <2>7. QED
    BY <2>4, <2>5, <2>6
<1>3. QED
  BY <1>2 DEF MarkInv, StoreMarksLanded, MarksInv

(* No failure strikes between the first mark and the last import. *)
LEMMA FaultMarks ==
    ASSUME TypeOK, Reliable, PollInv, MarkInv, PollFault
    PROVE  MarkInv'
<1>1. UNCHANGED <<rows, queue, store>>
  BY FaultEnds DEF recVars
<1>2. toImport = {}
  BY DEF Reliable, PollInv, PollFault, SeedFails, OpenFails, PollFails, ImportFails, SaveFails
<1>3. CASE firstRefreshDone
  BY <1>1, <1>2, <1>3, FaultEnds, DropMarks
<1>4. CASE ~firstRefreshDone
  BY <1>1, <1>4, FaultEnds, ForgetMarks
<1>5. QED
  BY <1>3, <1>4

LEMMA RecorderMarks ==
    ASSUME TypeOK, Reliable, MarkInv, RecorderThread
    PROVE  MarkInv'
<1>1. PICK t \in Stats : Commit(t)
  BY DEF RecorderThread
<1>2. UNCHANGED <<store, versions, pending, toImport>>
  BY DEF RecorderThread, memVars, pollVars
<1>3. ASSUME NEW e \in Eics, NEW d \in Days, NEW x \in Series[e]
      PROVE  Landed(<<e, x>>, d)' = Landed(<<e, x>>, d)
  <2>1. <<e, x>> \in Stats
    BY FedStats
  <2>2. QED
    BY <1>1, <2>1, CommitLands DEF TypeOK
<1>4. QED
  BY <1>2, <1>3 DEF MarkInv, StoreMarksLanded, MarksInv

LEMMA MarkInvStep ==
    ASSUME Reliable, SafeInv, MarkInv, [Next]_vars
    PROVE  MarkInv'
<1>t. TypeOK /\ PollInv /\ CoreInv
  BY DEF SafeInv, CoreInv
<1> USE DEF memVars, askVars, pollVars, recVars, markVars
<1>1. CASE BeginPoll
  BY <1>1, BeginMarks
<1>2. CASE ReadFlag \/ ClearFlag \/ OpenSession
  BY <1>2, QuietMarks DEF ReadFlag, ClearFlag, OpenSession
<1>3. CASE MarkOld \/ ExpungeOld \/ Collect
  BY <1>3, QuietMarks DEF MarkOld, ExpungeOld, Collect, CollectFrom
<1>4. CASE \E c \in deduped : ProcessFile(c)
  BY <1>4, <1>t, ProcessMarks
<1>5. CASE ExpungeArchived \/ Close
  BY <1>5, QuietMarks DEF ExpungeArchived, Close
<1>6. CASE \E s \in Stats : ImportStat(s)
  BY <1>6, <1>t, ImportMarks
<1>7. CASE FinishPoll
  BY <1>7, DropMarks DEF FinishPoll
<1>8. CASE PollFault
  BY <1>8, <1>t, FaultMarks
<1>9. CASE Reconfigure \/ Restart
  BY <1>9, <1>t, ForgetMarks DEF Reconfigure, Restart
<1>10. CASE Crash
  BY <1>10 DEF Crash, Reliable
<1>11. CASE SkipPoll \/ PressFullScan \/ PressPollNow \/ WindowOpens \/ WindowCloses
  BY <1>11, QuietMarks DEF SkipPoll, PressFullScan, PressPollNow, WindowOpens, WindowCloses
<1>12. CASE World
  BY <1>12, QuietMarks DEF World
<1>13. CASE RecorderThread
  BY <1>13, <1>t, RecorderMarks
<1>14. CASE UNCHANGED vars
  BY <1>14, QuietMarks DEF vars
<1>15. QED
  BY <1>1, <1>2, <1>3, <1>4, <1>5, <1>6, <1>7, <1>8, <1>9, <1>10, <1>11, <1>12, <1>13, <1>14
  DEF Next, PollStep

LEMMA InitMarks == Init /\ Reliable => MarkInv
<1> SUFFICES ASSUME Init, Reliable PROVE MarkInv
  OBVIOUS
<1>1. ASSUME NEW e \in Eics, NEW d \in Days, NEW x \in Series[e]
      PROVE  /\ Landed(<<e, x>>, d) >= store[<<e, d>>]
             /\ versions[<<e, d>>] <= Landed(<<e, x>>, d)
  <2>1. <<e, x>> \in Stats
    BY FedStats
  <2>2. Landed(<<e, x>>, d) = 0
    BY <2>1, LandedEmpty DEF Init, RecorderInit
  <2>3. store[<<e, d>>] = 0 /\ versions[<<e, d>>] = 0
    BY EmptyPoll DEF Init
  <2>4. QED
    BY <2>2, <2>3
<1>2. QED
  BY <1>1 DEF MarkInv, StoreMarksLanded, MarksInv

(* The inductive invariant of the theorem below, which run poll_safety      *)
(* checks: a file marked in memory by _poll_sync has landed, or its hours   *)
(* are staged and import_hourly_statistics is still to queue them.          *)
THEOREM LandedInvariant == Reliable => (Spec => []LandedInv)
<1> SUFFICES ASSUME Reliable PROVE Spec => []LandedInv
  OBVIOUS
<1>1. SafeInv /\ MarkInv /\ [Next]_vars => MarkInv'
  BY MarkInvStep
<1>2. Init => MarkInv
  BY InitMarks
<1>3. SafeInv /\ MarkInv => LandedInv
  BY DEF MarkInv, LandedInv
<1>4. QED
  BY <1>1, <1>2, <1>3, SafeInvariant, PTL DEF Spec

(* A mark in the Store stands for hours the recorder has or is about to     *)
(* write, whatever the mailbox, however often Home Assistant restarts and   *)
(* however often searching, deleting or saving fails, as long as no failure *)
(* strikes between marking a file and queueing its hours.                   *)
THEOREM MarksLanded == Reliable => (Spec => []StoreMarksLanded)
<1>1. LandedInv => StoreMarksLanded
  BY DEF LandedInv
<1>2. QED
  BY <1>1, LandedInvariant, PTL

-----------------------------------------------------------------------------
(* Polls that nothing interrupts. *)

(* Besides what MarksLanded needs: the marks of a poll that imports are     *)
(* saved, and Home Assistant is not stopped in the middle of it.            *)
Uninterrupted == Reliable /\ Faults \cap {"store", "restart"} = {}

(* A poll that fails does so before it imports anything and, in archive     *)
(* mode, before it looks at the mailbox.                                    *)
LEMMA FaultsEarly ==
    ASSUME Uninterrupted, PollInv, PollFault
    PROVE  /\ Abort
           /\ UNCHANGED <<recVars, store, today, arrived, archived>>
           /\ inbox' \subseteq inbox
           /\ toImport = {}
           /\ pc # "import"
<1> USE DEF PollFault, OpenFails, PollFails, CloseSession, RemoveFlagged, mailVars
<1>1. OpenFails \/ PollFails
  BY DEF Uninterrupted, Reliable, SeedFails, ImportFails, SaveFails
<1>2. toImport = {}
  BY <1>1 DEF Uninterrupted, Reliable, PollInv
<1>3. QED
  BY <1>1, <1>2

(* Only an import changes what will have landed. *)
LEMMA LandedSteps ==
    ASSUME TypeOK, Reliable, [Next]_vars, ~\E t \in Stats : ImportStat(t),
           NEW s \in Stats, NEW d \in Days
    PROVE  Landed(s, d)' = Landed(s, d)
<1> USE DEF recVars
<1>1. CASE UNCHANGED recVars
  BY <1>1, SameLanded
<1>2. CASE RecorderThread
  BY <1>2, CommitLands DEF RecorderThread, TypeOK
<1>3. CASE BeginPoll \/ ReadFlag \/ ClearFlag \/ OpenSession \/ MarkOld \/ ExpungeOld
  BY <1>1, <1>3 DEF BeginPoll, ReadFlag, ClearFlag, OpenSession, MarkOld, ExpungeOld
<1>4. CASE Collect \/ (\E c \in deduped : ProcessFile(c)) \/ ExpungeArchived \/ Close \/ FinishPoll
  BY <1>1, <1>4 DEF Collect, CollectFrom, ProcessFile, ExpungeArchived, Close, FinishPoll
<1>5. CASE PollFault
  BY <1>1, <1>5 DEF PollFault, SeedFails, OpenFails, PollFails, ImportFails, SaveFails
<1>6. CASE SkipPoll \/ PressFullScan \/ PressPollNow \/ WindowOpens \/ WindowCloses \/ World
  BY <1>1, <1>6 DEF SkipPoll, PressFullScan, PressPollNow, WindowOpens, WindowCloses, World
<1>7. CASE Reconfigure \/ Restart \/ UNCHANGED vars
  BY <1>1, <1>7 DEF Reconfigure, Restart, vars
<1>8. CASE Crash
  BY <1>8 DEF Crash, Reliable
<1>9. QED
  BY <1>2, <1>3, <1>4, <1>5, <1>6, <1>7, <1>8 DEF Next, PollStep

(* Only the recorder thread writes rows. *)
LEMMA RowsWritten ==
    ASSUME [Next]_vars, rows' # rows
    PROVE  RecorderThread
<1> USE DEF recVars
<1>1. CASE BeginPoll \/ ReadFlag \/ ClearFlag \/ OpenSession \/ MarkOld \/ ExpungeOld
  BY <1>1 DEF BeginPoll, ReadFlag, ClearFlag, OpenSession, MarkOld, ExpungeOld
<1>2. CASE Collect \/ (\E c \in deduped : ProcessFile(c)) \/ ExpungeArchived \/ Close
  BY <1>2 DEF Collect, CollectFrom, ProcessFile, ExpungeArchived, Close
<1>3. CASE FinishPoll \/ \E t \in Stats : ImportStat(t)
  BY <1>3 DEF FinishPoll, ImportStat, Enqueue
<1>4. CASE PollFault
  BY <1>4 DEF PollFault, SeedFails, OpenFails, PollFails, ImportFails, SaveFails
<1>5. CASE SkipPoll \/ PressFullScan \/ PressPollNow \/ WindowOpens \/ WindowCloses \/ World
  BY <1>5 DEF SkipPoll, PressFullScan, PressPollNow, WindowOpens, WindowCloses, World
<1>6. CASE Reconfigure \/ Restart \/ Crash \/ UNCHANGED vars
  BY <1>6 DEF Reconfigure, Restart, Crash, LoseQueue, vars
<1>7. QED
  BY <1>1, <1>2, <1>3, <1>4, <1>5, <1>6 DEF Next, PollStep

(* Writing a batch makes a row what was to land.  Nothing else writes. *)
LEMMA RowSteps ==
    ASSUME TypeOK, Reliable, [Next]_vars, NEW s \in Stats, NEW d \in Days
    PROVE  \/ rows'[s][d] = rows[s][d]
           \/ RecorderThread /\ rows'[s][d] = Landed(s, d)
<1>0. rows \in [Stats -> Batch] /\ queue \in [Stats -> Seq(Batch)] /\ RecorderTypeOK
  BY DEF TypeOK, RecorderTypeOK
<1>1. ASSUME NEW t \in Stats, Commit(t)
      PROVE  rows'[s][d] = rows[s][d] \/ rows'[s][d] = Landed(s, d)
  <2>1. CASE s # t
    BY <1>0, <1>1, <2>1 DEF Commit
  <2>2. CASE s = t
    <3>1. PICK b \in Batch : queue[s] = <<b>>
      BY <1>0, <1>1, <2>2, LandedQueue DEF Commit
    <3>2. rows'[s] = Upsert(rows[s], b)
      BY <1>0, <1>1, <2>2, <3>1 DEF Commit
    <3>3. rows'[s][d] = IF b[d] # 0 THEN b[d] ELSE rows[s][d]
      BY <3>2 DEF Upsert
    <3>4. QED
      BY <3>1, <3>3, LandedOne
  <2>3. QED
    BY <2>1, <2>2
<1>2. CASE RecorderThread
  BY <1>1, <1>2 DEF RecorderThread
<1>3. CASE ~RecorderThread
  BY <1>3, RowsWritten
<1>4. QED
  BY <1>2, <1>3

----------------------------------------------------------------------------
(* Where candidates come from. *)

LEMMA OriginKept ==
    OriginInv /\ inbox' \subseteq inbox /\ arrived' = arrived /\ deduped' \subseteq deduped
      => OriginInv'
BY DEF OriginInv

LEMMA DeliverOrigin ==
    ASSUME TypeOK, OriginInv, NEW m \in Messages, Deliver(m), UNCHANGED deduped
    PROVE  OriginInv'
<1>1. today # 0 /\ arrived \in [Messages -> 0..LastDay] /\ inbox \subseteq Messages
  BY DEF TypeOK, MailTypeOK, Days
<1>2. arrived'[m] # 0 /\ \A n \in Messages : n # m => arrived'[n] = arrived[n]
  BY <1>1 DEF Deliver
<1>3. \A c \in deduped : c.uid \in Messages
  BY DEF TypeOK, Candidates
<1>4. \A n \in inbox' : arrived'[n] # 0
  BY <1>1, <1>2 DEF Deliver, OriginInv
<1>5. \A c \in deduped : arrived'[c.uid] # 0
  BY <1>2, <1>3 DEF OriginInv
<1>6. QED
  BY <1>4, <1>5 DEF OriginInv

LEMMA CollectOrigin ==
    ASSUME OriginInv, Collect
    PROVE  OriginInv'
<1>0. PICK variants \in Answered : CollectFrom(variants)
  BY DEF Collect
<1>1. UNCHANGED <<inbox, arrived>>
  BY <1>0 DEF CollectFrom, mailVars
<1>2. ASSUME NEW c \in deduped'
      PROVE  /\ arrived[c.uid] # 0
             /\ Allowlist = {} \/ Mail[c.uid].sender \in Allowlist
             /\ \E f \in Mail[c.uid].files :
                   f.body = "good" /\ f.eic = c.eic /\ f.day = c.day /\ f.version = c.version
  <2>1. c \in CandidatesIn(PollUids(variants))
    BY <1>0 DEF CollectFrom, FirstOfEachKey
  <2>2. PICK m \in PollUids(variants) : \E f \in Mail[m].files :
           /\ Accepted(m, f)
           /\ c = [uid |-> m, eic |-> f.eic, day |-> f.day, version |-> f.version]
    BY <2>1 DEF CandidatesIn
  <2>3. PICK f \in Mail[m].files :
           /\ Accepted(m, f)
           /\ c = [uid |-> m, eic |-> f.eic, day |-> f.day, version |-> f.version]
    BY <2>2
  <2>4. m \in inbox
    BY <2>2 DEF PollUids, Newest, SearchSince, Matching
  <2>5. QED
    BY <2>3, <2>4 DEF Accepted, OriginInv
<1>3. QED
  BY <1>1, <1>2 DEF OriginInv

LEMMA OriginStep ==
    ASSUME TypeOK, OriginInv, [Next]_vars
    PROVE  OriginInv' /\ (arrived' = arrived \/ World)
<1> USE DEF mailVars, pollVars
<1>1. CASE BeginPoll \/ ReadFlag \/ ClearFlag \/ OpenSession
  BY <1>1, OriginKept DEF BeginPoll, ReadFlag, ClearFlag, OpenSession
<1>2. CASE MarkOld \/ ExpungeOld
  BY <1>2, OriginKept DEF MarkOld, ExpungeOld, MarkForDelete, Expunge, RemoveFlagged
<1>3. CASE Collect
  BY <1>3, CollectOrigin DEF Collect, CollectFrom
<1>4. CASE \E c \in deduped : ProcessFile(c)
  BY <1>4, OriginKept DEF ProcessFile, Archive
<1>5. CASE ExpungeArchived \/ Close
  BY <1>5, OriginKept DEF ExpungeArchived, Close, Expunge, CloseSession, RemoveFlagged
<1>6. CASE \E s \in Stats : ImportStat(s)
  BY <1>6, OriginKept DEF ImportStat
<1>7. CASE FinishPoll
  BY <1>7, OriginKept DEF FinishPoll, DropPoll
<1>8. CASE PollFault
  <2>1. deduped' = {} /\ arrived' = arrived /\ inbox' \subseteq inbox
    BY <1>8 DEF PollFault, SeedFails, OpenFails, PollFails, ImportFails, SaveFails,
                CloseSession, RemoveFlagged, Abort, Forget, DropPoll
  <2>2. QED
    BY <2>1, OriginKept
<1>9. CASE Reconfigure \/ Restart \/ Crash
  BY <1>9, OriginKept DEF Reconfigure, Restart, Crash, Forget, DropPoll
<1>10. CASE SkipPoll \/ PressFullScan \/ PressPollNow \/ WindowOpens \/ WindowCloses
  BY <1>10, OriginKept DEF SkipPoll, PressFullScan, PressPollNow, WindowOpens, WindowCloses
<1>11. CASE World
  <2>1. CASE NextDay \/ \E m \in Messages : UserFlags(m)
    BY <1>11, <2>1, OriginKept DEF World, NextDay, UserFlags
  <2>2. QED
    BY <1>11, <2>1, DeliverOrigin DEF World
<1>12. CASE RecorderThread \/ UNCHANGED vars
  BY <1>12, OriginKept DEF RecorderThread, vars
<1>13. QED
  BY <1>1, <1>2, <1>3, <1>4, <1>5, <1>6, <1>7, <1>8, <1>9, <1>10, <1>11, <1>12
  DEF Next, PollStep

----------------------------------------------------------------------------
(* What has been published. *)

LEMMA PublishedIs ==
    ASSUME NEW p
    PROVE  p \in Published <=>
             \E m \in Messages :
                /\ arrived[m] # 0
                /\ Allowlist = {} \/ Mail[m].sender \in Allowlist
                /\ \E f \in Mail[m].files :
                      /\ f.body = "good"
                      /\ \E x \in Series[f.eic] : p = <<<<f.eic, x>>, f.day, f.version>>
<1> DEFINE senders == {m \in Messages :
                          /\ arrived[m] # 0
                          /\ Allowlist = {} \/ Mail[m].sender \in Allowlist}
           good(m) == {g \in Mail[m].files : g.body = "good"}
           hours(f) == {<<<<f.eic, x>>, f.day, f.version>> : x \in Series[f.eic]}
<1>1. p \in Published <=> \E f \in UNION {good(m) : m \in senders} : p \in hours(f)
  BY DEF Published
<1>2. \A f : f \in UNION {good(m) : m \in senders} <=> \E m \in senders : f \in good(m)
  OBVIOUS
<1>3. \A f : p \in hours(f) <=> \E x \in Series[f.eic] : p = <<<<f.eic, x>>, f.day, f.version>>
  OBVIOUS
<1>4. QED
  BY <1>1, <1>2, <1>3

LEMMA PublishedTyped == Published \subseteq Stats \X Days \X Versions
<1> SUFFICES ASSUME NEW p \in Published PROVE p \in Stats \X Days \X Versions
  OBVIOUS
<1>1. PICK m \in Messages : \E f \in Mail[m].files : \E x \in Series[f.eic] :
         p = <<<<f.eic, x>>, f.day, f.version>>
  BY PublishedIs
<1>2. PICK f \in Mail[m].files : \E x \in Series[f.eic] : p = <<<<f.eic, x>>, f.day, f.version>>
  BY <1>1
<1>3. f \in Files
  BY MailAssumption
<1>4. QED
  BY <1>2, <1>3, FedStats DEF Files

LEMMA PublishedGrows ==
    ASSUME \A m \in Messages : arrived[m] # 0 => arrived'[m] # 0
    PROVE  Published \subseteq Published'
<1> SUFFICES ASSUME NEW p \in Published PROVE p \in Published'
  OBVIOUS
<1>1. PICK m \in Messages :
         /\ arrived[m] # 0
         /\ Allowlist = {} \/ Mail[m].sender \in Allowlist
         /\ \E f \in Mail[m].files :
               /\ f.body = "good"
               /\ \E x \in Series[f.eic] : p = <<<<f.eic, x>>, f.day, f.version>>
  BY PublishedIs
<1>2. arrived'[m] # 0
  BY <1>1
<1> DEFINE senders == {n \in Messages :
                          /\ arrived'[n] # 0
                          /\ Allowlist = {} \/ Mail[n].sender \in Allowlist}
           good(n) == {g \in Mail[n].files : g.body = "good"}
           hours(f) == {<<<<f.eic, x>>, f.day, f.version>> : x \in Series[f.eic]}
<1>3. PICK f \in good(m) : p \in hours(f)
  BY <1>1
<1>4. m \in senders
  BY <1>1, <1>2
<1>5. f \in UNION {good(n) : n \in senders}
  BY <1>3, <1>4
<1>6. p \in UNION {hours(g) : g \in UNION {good(n) : n \in senders}}
  BY <1>3, <1>5
<1>7. QED
  BY <1>6 DEF Published

LEMMA ArrivedGrows ==
    ASSUME TypeOK, OriginInv, [Next]_vars
    PROVE  Published \subseteq Published'
<1>1. CASE arrived' = arrived
  BY <1>1, PublishedGrows
<1>2. CASE World
  <2>1. CASE NextDay \/ \E m \in Messages : UserFlags(m)
    BY <1>1, <2>1 DEF NextDay, UserFlags
  <2>2. CASE \E m \in Messages : Deliver(m)
    <3>1. PICK m \in Messages : Deliver(m)
      BY <2>2
    <3>2. today # 0 /\ arrived \in [Messages -> 0..LastDay]
      BY DEF TypeOK, MailTypeOK, Days
    <3>3. \A n \in Messages : arrived[n] # 0 => arrived'[n] # 0
      BY <3>1, <3>2 DEF Deliver
    <3>4. QED
      BY <3>3, PublishedGrows
  <2>3. QED
    BY <1>2, <2>1, <2>2 DEF World
<1>3. QED
  BY <1>1, <1>2, OriginStep

(* Hours are staged only of files that were published. *)
LEMMA StagedPublished ==
    ASSUME TypeOK, OriginInv, PublishedInv, NEW c \in deduped, ProcessFile(c),
           NEW s \in Stats, NEW d \in Days, pending'[s][d] # 0
    PROVE  <<s, d, pending'[s][d]>> \in Published
<1>1. c.uid \in Messages /\ c.eic \in Eics /\ c.day \in Days
  BY DEF TypeOK, Candidates
<1>2. pending \in [Stats -> Batch]
  BY DEF TypeOK
<1>3. PICK f \in Mail[c.uid].files :
         f.body = "good" /\ f.eic = c.eic /\ f.day = c.day /\ f.version = c.version
  BY DEF OriginInv
<1>4. CASE (\E x \in Series[c.eic] : s = <<c.eic, x>>) /\ d = c.day
  <2>1. PICK x \in Series[c.eic] : s = <<c.eic, x>>
    BY <1>4
  <2>2. pending'[s][d] = c.version
    BY <1>1, <1>2, <1>4, <2>1 DEF ProcessFile, CollectPending, Batch
  <2>3. <<s, d, pending'[s][d]>> = <<<<f.eic, x>>, f.day, f.version>>
    BY <1>3, <1>4, <2>1, <2>2
  <2>4. QED
    BY <1>1, <1>3, <2>1, <2>3, PublishedIs DEF OriginInv
<1>5. CASE ~((\E x \in Series[c.eic] : s = <<c.eic, x>>) /\ d = c.day)
  <2>1. pending'[s][d] = pending[s][d]
    BY <1>1, <1>2, <1>5 DEF ProcessFile, CollectPending, Batch
  <2>2. QED
    BY <2>1 DEF PublishedInv
<1>6. QED
  BY <1>4, <1>5

(* Only processing a file stages anything. *)
LEMMA PendingSteps ==
    ASSUME [Next]_vars
    PROVE  \/ pending' = pending \/ pending' = NoPending
           \/ \E c \in deduped : ProcessFile(c)
<1> USE DEF pollVars
<1>1. CASE BeginPoll \/ ReadFlag \/ ClearFlag \/ OpenSession \/ MarkOld \/ ExpungeOld
  BY <1>1 DEF BeginPoll, ReadFlag, ClearFlag, OpenSession, MarkOld, ExpungeOld
<1>2. CASE Collect \/ ExpungeArchived \/ Close \/ FinishPoll
  BY <1>2 DEF Collect, CollectFrom, ExpungeArchived, Close, FinishPoll, DropPoll
<1>3. CASE \E s \in Stats : ImportStat(s)
  BY <1>3 DEF ImportStat
<1>4. CASE PollFault
  BY <1>4 DEF PollFault, SeedFails, OpenFails, PollFails, ImportFails, SaveFails,
              Abort, Forget, DropPoll
<1>5. CASE SkipPoll \/ PressFullScan \/ PressPollNow \/ WindowOpens \/ WindowCloses
  BY <1>5 DEF SkipPoll, PressFullScan, PressPollNow, WindowOpens, WindowCloses
<1>6. CASE World \/ RecorderThread \/ UNCHANGED vars
  BY <1>6 DEF World, RecorderThread, vars
<1>7. CASE Reconfigure \/ Restart \/ Crash
  BY <1>7 DEF Reconfigure, Restart, Crash, Forget, DropPoll
<1>8. QED
  BY <1>1, <1>2, <1>3, <1>4, <1>5, <1>6, <1>7 DEF Next, PollStep

LEMMA PublishedStep ==
    ASSUME TypeOK, Reliable, OriginInv, PublishedInv, [Next]_vars
    PROVE  PublishedInv'
<1> SUFFICES ASSUME NEW s \in Stats, NEW d \in Days
             PROVE  /\ pending'[s][d] # 0 => <<s, d, pending'[s][d]>> \in Published'
                    /\ Landed(s, d)' # 0 => <<s, d, Landed(s, d)'>> \in Published'
  BY DEF PublishedInv
<1>1. Published \subseteq Published'
  BY ArrivedGrows
<1>2. pending'[s][d] # 0 => <<s, d, pending'[s][d]>> \in Published'
  <2>1. NoPending[s][d] = 0
    BY DEF NoPending
  <2>2. CASE pending' = pending \/ pending' = NoPending
    BY <1>1, <2>1, <2>2 DEF PublishedInv
  <2>3. CASE \E c \in deduped : ProcessFile(c)
    BY <1>1, <2>3, StagedPublished
  <2>4. QED
    BY <2>2, <2>3, PendingSteps
<1>3. Landed(s, d)' # 0 => <<s, d, Landed(s, d)'>> \in Published'
  <2>1. CASE \E t \in Stats : ImportStat(t)
    BY <1>1, <2>1, ImportLands DEF PublishedInv
  <2>2. CASE ~\E t \in Stats : ImportStat(t)
    BY <1>1, <2>2, LandedSteps DEF PublishedInv
  <2>3. QED
    BY <2>1, <2>2
<1>4. QED
  BY <1>2, <1>3

----------------------------------------------------------------------------
(* Marks are ahead of hours. *)

LEMMA AheadTyped ==
    ASSUME TypeOK, Reliable, NEW e \in Eics, NEW x \in Suffixes, NEW d \in Days
    PROVE  /\ <<e, x>> \in Stats /\ <<e, d>> \in Keys
           /\ Landed(<<e, x>>, d) \in Nat /\ rows[<<e, x>>][d] \in Nat
           /\ versions[<<e, d>>] \in Nat /\ store[<<e, d>>] \in Nat
           /\ pending[<<e, x>>][d] \in Nat
<1>1. <<e, x>> \in Stats /\ <<e, d>> \in Keys
  BY DEF Stats, Keys
<1>2. Landed(<<e, x>>, d) \in Nat
  BY <1>1, LandedTyped DEF TypeOK, Versions0
<1>3. QED
  BY <1>1, <1>2 DEF TypeOK, RecorderTypeOK, Batch, Versions0

(* An import lands what is marked, which is no step back. *)
LEMMA ImportAhead ==
    ASSUME Reliable, SafeInv, AheadInv, NEW t \in Stats, ImportStat(t),
           NEW e \in Eics, NEW x \in Suffixes, NEW d \in Days
    PROVE  /\ Landed(<<e, x>>, d) <= Landed(<<e, x>>, d)'
           /\ Landed(<<e, x>>, d)' <= versions[<<e, d>>]
           /\ pending[<<e, x>>][d] = 0 => Landed(<<e, x>>, d)' = Landed(<<e, x>>, d)
<1>1. TypeOK /\ PollInv /\ StagedInv
  BY DEF SafeInv
<1>2. storeLoaded
  BY <1>1 DEF PollInv, ImportStat
<1>3. Landed(<<e, x>>, d) <= versions[<<e, d>>]
  BY <1>2 DEF AheadInv
<1>4. pending[<<e, x>>][d] # 0 => pending[<<e, x>>][d] = versions[<<e, d>>]
  BY <1>1 DEF StagedInv
<1>5. \/ Landed(<<e, x>>, d)' = Landed(<<e, x>>, d)
      \/ pending[<<e, x>>][d] # 0 /\ Landed(<<e, x>>, d)' = pending[<<e, x>>][d]
  BY <1>1, AheadTyped, ImportLands
<1>6. QED
  BY <1>1, <1>3, <1>4, <1>5, AheadTyped

LEMMA RowsAhead ==
    ASSUME Reliable, SafeInv, AheadInv, [Next]_vars,
           NEW e \in Eics, NEW x \in Suffixes, NEW d \in Days
    PROVE  rows'[<<e, x>>][d] <= Landed(<<e, x>>, d)'
<1>1. TypeOK
  BY DEF SafeInv
<1>2. <<e, x>> \in Stats /\ rows[<<e, x>>][d] \in Nat /\ Landed(<<e, x>>, d) \in Nat
  BY <1>1, AheadTyped
<1>3. rows[<<e, x>>][d] <= Landed(<<e, x>>, d)
  BY DEF AheadInv
<1>4. CASE \E t \in Stats : ImportStat(t)
  <2>1. PICK t \in Stats : ImportStat(t)
    BY <1>4
  <2>2. Landed(<<e, x>>, d) <= Landed(<<e, x>>, d)'
    BY <2>1, ImportAhead
  <2>3. rows' = rows
    BY <2>1 DEF ImportStat, Enqueue
  <2>4. Landed(<<e, x>>, d)' \in Nat
    BY <1>1, <1>2, <2>1, AheadTyped, ImportLands
  <2>5. QED
    BY <1>2, <1>3, <2>2, <2>3, <2>4
<1>5. CASE ~\E t \in Stats : ImportStat(t)
  <2>1. Landed(<<e, x>>, d)' = Landed(<<e, x>>, d)
    BY <1>1, <1>2, <1>5, LandedSteps
  <2>2. rows'[<<e, x>>][d] \in {rows[<<e, x>>][d], Landed(<<e, x>>, d)}
    BY <1>1, <1>2, RowSteps
  <2>3. QED
    BY <1>2, <1>3, <2>1, <2>2
<1>6. QED
  BY <1>4, <1>5

(* What a step of an uninterrupted system does to marks and poll. *)
LEMMA MarkSteps ==
    ASSUME Uninterrupted, SafeInv, [Next]_vars
    PROVE  \/ UNCHANGED <<store, versions, storeLoaded, pc, pending>>
           \/ pc # "import" /\ UNCHANGED <<store, versions, storeLoaded>>
           \/ BeginPoll
           \/ \E c \in deduped : ProcessFile(c)
           \/ \E s \in Stats : ImportStat(s)
           \/ FinishPoll
           \/ pc # "import" /\ Forget /\ UNCHANGED store
<1> USE DEF memVars, pollVars
<1>1. CASE ReadFlag \/ ClearFlag \/ OpenSession \/ MarkOld \/ ExpungeOld
  BY <1>1 DEF ReadFlag, ClearFlag, OpenSession, MarkOld, ExpungeOld
<1>2. CASE Collect \/ ExpungeArchived \/ Close
  BY <1>2 DEF Collect, CollectFrom, ExpungeArchived, Close
<1>3. CASE PollFault
  BY <1>3, FaultsEarly DEF Abort, SafeInv
<1>4. CASE SkipPoll \/ PressFullScan \/ PressPollNow \/ WindowOpens \/ WindowCloses
  BY <1>4 DEF SkipPoll, PressFullScan, PressPollNow, WindowOpens, WindowCloses
<1>5. CASE World \/ RecorderThread \/ UNCHANGED vars
  BY <1>5 DEF World, RecorderThread, vars
<1>6. CASE Reconfigure
  BY <1>6 DEF Reconfigure
<1>7. CASE Restart \/ Crash
  BY <1>7 DEF Restart, Crash, Uninterrupted, Reliable
<1>8. QED
  BY <1>1, <1>2, <1>3, <1>4, <1>5, <1>6, <1>7 DEF Next, PollStep

LEMMA AheadStep ==
    ASSUME Uninterrupted, SafeInv, AheadInv, [Next]_vars
    PROVE  AheadInv'
<1> SUFFICES ASSUME NEW e \in Eics, NEW x \in Suffixes, NEW d \in Days
             PROVE  /\ storeLoaded' => Landed(<<e, x>>, d)' <= versions'[<<e, d>>]
                    /\ pc' # "import" \/ pending'[<<e, x>>][d] = 0 =>
                          Landed(<<e, x>>, d)' <= store'[<<e, d>>]
  BY RowsAhead DEF AheadInv, Uninterrupted
<1>t. TypeOK /\ PollInv /\ CandidateInv /\ StagedInv /\ Reliable
  BY DEF SafeInv, Uninterrupted
<1>n. /\ <<e, x>> \in Stats /\ <<e, d>> \in Keys
      /\ Landed(<<e, x>>, d) \in Nat
      /\ versions[<<e, d>>] \in Nat /\ store[<<e, d>>] \in Nat
  BY <1>t, AheadTyped
<1>a. /\ storeLoaded => Landed(<<e, x>>, d) <= versions[<<e, d>>]
      /\ pc # "import" \/ pending[<<e, x>>][d] = 0 =>
            Landed(<<e, x>>, d) <= store[<<e, d>>]
  BY DEF AheadInv
<1>s. (~\E t \in Stats : ImportStat(t)) => Landed(<<e, x>>, d)' = Landed(<<e, x>>, d)
  BY <1>t, <1>n, LandedSteps
<1>1. CASE \E t \in Stats : ImportStat(t)
  <2>1. PICK t \in Stats : ImportStat(t)
    BY <1>1
  <2>2. /\ Landed(<<e, x>>, d)' <= versions[<<e, d>>]
        /\ pending[<<e, x>>][d] = 0 => Landed(<<e, x>>, d)' = Landed(<<e, x>>, d)
    BY <1>t, <2>1, ImportAhead
  <2>3. UNCHANGED <<store, versions, storeLoaded, pc, pending>> /\ pc = "import"
    BY <2>1 DEF ImportStat, memVars
  <2>4. QED
    BY <1>a, <2>2, <2>3
<1>2. CASE UNCHANGED <<store, versions, storeLoaded, pc, pending>>
  BY <1>1, <1>2, <1>a, <1>s
<1>3. CASE pc # "import" /\ UNCHANGED <<store, versions, storeLoaded>>
  BY <1>1, <1>3, <1>a, <1>s
<1>4. CASE BeginPoll
  <2>1. pc # "import" /\ store' = store /\ versions' = IF storeLoaded THEN versions ELSE store
    BY <1>4 DEF BeginPoll
  <2>2. QED
    BY <1>1, <2>1, <1>a, <1>s
<1>5. CASE \E c \in deduped : ProcessFile(c)
  <2>1. PICK c \in deduped : ProcessFile(c)
    BY <1>5
  <2>2. /\ pc # "import" /\ UNCHANGED <<store, storeLoaded>>
        /\ versions' = [versions EXCEPT ![<<c.eic, c.day>>] = c.version]
    BY <2>1 DEF ProcessFile
  <2>3. versions[<<c.eic, c.day>>] < c.version /\ c.version \in Nat
    BY <1>t DEF CandidateInv, TypeOK, Candidates, Versions
  <2>4. versions[<<e, d>>] <= versions'[<<e, d>>] /\ versions'[<<e, d>>] \in Nat
    BY <1>t, <1>n, <2>2, <2>3 DEF TypeOK
  <2>5. QED
    BY <1>1, <1>n, <2>2, <2>4, <1>a, <1>s
<1>6. CASE FinishPoll
  <2>1. /\ pc = "import" /\ UNCHANGED <<versions, storeLoaded>>
        /\ store' = IF Staged THEN versions ELSE store
    BY <1>6 DEF FinishPoll
  <2>2. storeLoaded
    BY <1>t, <2>1 DEF PollInv
  <2>3. ~Staged => pending[<<e, x>>][d] = 0
    BY EmptyPoll DEF Staged
  <2>4. QED
    BY <1>1, <2>1, <2>2, <2>3, <1>a, <1>s
<1>7. CASE pc # "import" /\ Forget /\ UNCHANGED store
  BY <1>1, <1>7, <1>a, <1>s DEF Forget
<1>8. QED
  BY <1>1, <1>2, <1>3, <1>4, <1>5, <1>6, <1>7, MarkSteps

----------------------------------------------------------------------------
(* Archived messages. *)

(* The file has landed in every series it feeds, or is about to.            *)
InHand(f) ==
    \A x \in Series[f.eic] :
        \/ Landed(<<f.eic, x>>, f.day) >= f.version
        \/ <<f.eic, x>> \in toImport /\ pending[<<f.eic, x>>][f.day] >= f.version

LEMMA ArchiveSteps ==
    ASSUME Uninterrupted, SafeInv, [Next]_vars
    PROVE  \/ UNCHANGED <<pending, toImport, archived>>
           \/ toImport = {} /\ archived' = archived
           \/ \E c \in deduped : ProcessFile(c)
           \/ archived' = archived /\ \E s \in Stats : ImportStat(s)
<1> USE DEF pollVars, mailVars
<1>1. CASE BeginPoll \/ ReadFlag \/ ClearFlag \/ OpenSession
  BY <1>1 DEF BeginPoll, ReadFlag, ClearFlag, OpenSession
<1>2. CASE MarkOld \/ ExpungeOld
  BY <1>2 DEF MarkOld, ExpungeOld, MarkForDelete, Expunge, RemoveFlagged
<1>3. CASE Collect \/ ExpungeArchived \/ Close
  BY <1>3 DEF Collect, CollectFrom, ExpungeArchived, Close, Expunge, CloseSession, RemoveFlagged
<1>4. CASE FinishPoll \/ \E s \in Stats : ImportStat(s)
  BY <1>4 DEF FinishPoll, ImportStat
<1>5. CASE PollFault
  BY <1>5, FaultsEarly DEF SafeInv
<1>6. CASE SkipPoll \/ PressFullScan \/ PressPollNow \/ WindowOpens \/ WindowCloses
  BY <1>6 DEF SkipPoll, PressFullScan, PressPollNow, WindowOpens, WindowCloses
<1>7. CASE World
  BY <1>7 DEF World, Deliver, UserFlags, NextDay
<1>8. CASE RecorderThread \/ UNCHANGED vars
  BY <1>8 DEF RecorderThread, vars
<1>9. CASE Reconfigure
  BY <1>9 DEF Reconfigure, SafeInv, PollInv
<1>10. CASE Restart \/ Crash
  BY <1>10 DEF Restart, Crash, Uninterrupted, Reliable
<1>11. QED
  BY <1>1, <1>2, <1>3, <1>4, <1>5, <1>6, <1>7, <1>8, <1>9, <1>10 DEF Next, PollStep

(* A file in hand stays in hand. *)
LEMMA InHandStep ==
    ASSUME Uninterrupted, SafeInv, AheadInv, [Next]_vars, NEW f \in Files, InHand(f)
    PROVE  InHand(f)'
<1> SUFFICES ASSUME NEW x \in Series[f.eic]
             PROVE  \/ Landed(<<f.eic, x>>, f.day)' >= f.version
                    \/ <<f.eic, x>> \in toImport' /\ pending'[<<f.eic, x>>][f.day] >= f.version
  BY DEF InHand
<1>t. TypeOK /\ CandidateInv /\ StagedInv /\ Reliable
  BY DEF SafeInv, Uninterrupted
<1>f. /\ f.eic \in Eics /\ f.day \in Days /\ f.version \in Nat /\ f.version # 0
      /\ x \in Suffixes /\ <<f.eic, x>> \in Stats
  BY FedStats DEF Files, Versions
<1>n. /\ Landed(<<f.eic, x>>, f.day) \in Nat
      /\ versions[<<f.eic, f.day>>] \in Nat /\ pending[<<f.eic, x>>][f.day] \in Nat
  BY <1>t, <1>f, AheadTyped
<1>h. \/ Landed(<<f.eic, x>>, f.day) >= f.version
      \/ <<f.eic, x>> \in toImport /\ pending[<<f.eic, x>>][f.day] >= f.version
  BY DEF InHand
<1>s. (~\E t \in Stats : ImportStat(t)) =>
         Landed(<<f.eic, x>>, f.day)' = Landed(<<f.eic, x>>, f.day)
  BY <1>t, <1>f, LandedSteps
<1>1. CASE \E t \in Stats : ImportStat(t)
  <2>1. PICK t \in Stats : ImportStat(t)
    BY <1>1
  <2>2. toImport' = toImport \ {t} /\ pending' = pending
    BY <2>1 DEF ImportStat
  <2>3. Landed(<<f.eic, x>>, f.day)' =
           IF <<f.eic, x>> = t /\ pending[<<f.eic, x>>][f.day] # 0
           THEN pending[<<f.eic, x>>][f.day] ELSE Landed(<<f.eic, x>>, f.day)
    BY <1>t, <1>f, <2>1, ImportLands
  <2>4. Landed(<<f.eic, x>>, f.day) <= Landed(<<f.eic, x>>, f.day)'
    BY <1>t, <1>f, <2>1, ImportAhead
  <2>5. CASE Landed(<<f.eic, x>>, f.day) >= f.version
    <3>1. Landed(<<f.eic, x>>, f.day)' \in Nat
      BY <1>n, <2>3
    <3>2. QED
      BY <1>f, <1>n, <2>4, <2>5, <3>1
  <2>6. CASE <<f.eic, x>> \in toImport /\ pending[<<f.eic, x>>][f.day] >= f.version
    <3>1. CASE <<f.eic, x>> = t
      BY <1>f, <1>n, <2>3, <2>6, <3>1
    <3>2. CASE <<f.eic, x>> # t
      BY <2>2, <2>6, <3>2
    <3>3. QED
      BY <3>1, <3>2
  <2>7. QED
    BY <1>h, <2>5, <2>6
<1>2. CASE UNCHANGED <<pending, toImport>>
  BY <1>1, <1>2, <1>h, <1>s
<1>3. CASE toImport = {}
  BY <1>1, <1>3, <1>h, <1>s
<1>4. CASE \E c \in deduped : ProcessFile(c)
  <2>1. PICK c \in deduped : ProcessFile(c)
    BY <1>4
  <2>2. CASE Landed(<<f.eic, x>>, f.day) >= f.version
    BY <1>1, <1>s, <2>2
  <2>3. CASE <<f.eic, x>> \in toImport /\ pending[<<f.eic, x>>][f.day] >= f.version
    <3>1. <<f.eic, x>> \in toImport'
      BY <2>1, <2>3 DEF ProcessFile, CollectPending
    <3>2. c.version \in Nat /\ versions[<<c.eic, c.day>>] < c.version
      BY <1>t DEF CandidateInv, TypeOK, Candidates, Versions
    <3>3. pending[<<f.eic, x>>][f.day] = versions[<<f.eic, f.day>>]
      BY <1>t, <1>f, <1>n, <2>3 DEF StagedInv
    <3>4. \/ pending'[<<f.eic, x>>][f.day] = pending[<<f.eic, x>>][f.day]
          \/ /\ c.eic = f.eic /\ c.day = f.day
             /\ pending'[<<f.eic, x>>][f.day] = c.version
      BY <1>t, <1>f, <2>1 DEF ProcessFile, CollectPending, TypeOK, Batch
    <3>5. pending'[<<f.eic, x>>][f.day] >= f.version
      BY <1>f, <1>n, <2>3, <3>2, <3>3, <3>4
    <3>6. QED
      BY <3>1, <3>5
  <2>4. QED
    BY <1>h, <2>2, <2>3
<1>5. QED
  BY <1>1, <1>2, <1>3, <1>4, ArchiveSteps

LEMMA ArchivedStep ==
    ASSUME Uninterrupted, SafeInv, OriginInv, AheadInv, ArchivedInv, [Next]_vars
    PROVE  ArchivedInv'
<1>t. TypeOK
  BY DEF SafeInv
<1>1. ASSUME NEW m \in archived
      PROVE  \E f \in Mail[m].files : f.body = "good" /\ InHand(f)'
  <2>1. PICK f \in Mail[m].files : f.body = "good" /\ InHand(f)
    BY DEF ArchivedInv, InHand
  <2>2. f \in Files
    BY <1>t, MailAssumption DEF TypeOK, MailTypeOK
  <2>3. QED
    BY <2>1, <2>2, InHandStep
<1>2. CASE archived' = archived
  <2>1. \A m \in archived' : \E f \in Mail[m].files : f.body = "good" /\ InHand(f)'
    BY <1>1, <1>2
  <2>2. CleanupMode # "archive" => archived' = {}
    BY <1>2 DEF ArchivedInv
  <2>3. QED
    BY <2>1, <2>2 DEF ArchivedInv, InHand
<1>3. CASE \E c \in deduped : ProcessFile(c)
  <2>1. PICK c \in deduped : ProcessFile(c)
    BY <1>3
  <2>2. CASE CleanupMode # "archive"
    BY <1>2, <2>1, <2>2 DEF ProcessFile, mailVars
  <2>3. CASE CleanupMode = "archive"
    <3>1. archived' \subseteq archived \union {c.uid}
      BY <2>1, <2>3 DEF ProcessFile, Archive
    <3>2. PICK f \in Mail[c.uid].files :
             f.body = "good" /\ f.eic = c.eic /\ f.day = c.day /\ f.version = c.version
      BY DEF OriginInv
    <3>3. c.eic \in Eics /\ c.day \in Days /\ c.version \in Nat
      BY <1>t DEF TypeOK, Candidates, Versions
    <3>4. ASSUME NEW x \in Series[f.eic]
          PROVE  <<f.eic, x>> \in toImport' /\ pending'[<<f.eic, x>>][f.day] >= f.version
      <4>1. <<c.eic, x>> \in Stats /\ pending \in [Stats -> Batch]
        BY <1>t, <3>2, <3>3, FedStats DEF TypeOK
      <4>2. <<c.eic, x>> \in toImport'
        BY <2>1, <3>2 DEF ProcessFile, CollectPending
      <4>3. pending'[<<c.eic, x>>][c.day] = c.version
        BY <2>1, <3>2, <3>3, <4>1 DEF ProcessFile, CollectPending, Batch
      <4>4. QED
        BY <3>2, <3>3, <4>2, <4>3
    <3>5. InHand(f)'
      BY <3>4 DEF InHand
    <3>6. \A m \in archived' : \E g \in Mail[m].files : g.body = "good" /\ InHand(g)'
      BY <1>1, <3>1, <3>2, <3>5
    <3>7. QED
      BY <2>3, <3>6 DEF ArchivedInv, InHand
  <2>4. QED
    BY <2>2, <2>3
<1>4. QED
  BY <1>2, <1>3, ArchiveSteps

----------------------------------------------------------------------------
LEMMA InitUninterrupted == Init /\ Reliable => UninterruptedInv
<1> SUFFICES ASSUME Init, Reliable PROVE UninterruptedInv
  OBVIOUS
<1>1. SafeInv /\ MarkInv /\ TypeOK
  BY InitSafe, InitMarks, InitTyped
<1>2. OriginInv /\ ArchivedInv
  BY DEF Init, MailInit, OriginInv, ArchivedInv
<1>3. ASSUME NEW s \in Stats, NEW d \in Days
      PROVE  Landed(s, d) = 0 /\ rows[s][d] = 0 /\ pending[s][d] = 0
  <2>1. Landed(s, d) = rows[s][d]
    BY LandedEmpty DEF Init, RecorderInit
  <2>2. QED
    BY <2>1 DEF Init, RecorderInit, NoPending
<1>4. PublishedInv
  BY <1>3 DEF PublishedInv
<1>5. AheadInv
  <2> SUFFICES ASSUME NEW e \in Eics, NEW x \in Suffixes, NEW d \in Days
               PROVE  /\ rows[<<e, x>>][d] <= Landed(<<e, x>>, d)
                      /\ ~storeLoaded
                      /\ Landed(<<e, x>>, d) <= store[<<e, d>>]
    BY DEF AheadInv
  <2>1. store[<<e, d>>] = 0 /\ ~storeLoaded
    BY EmptyPoll DEF Init
  <2>2. <<e, x>> \in Stats
    BY DEF Stats
  <2>3. QED
    BY <1>3, <2>1, <2>2
<1>6. QED
  BY <1>1, <1>2, <1>4, <1>5 DEF UninterruptedInv, LandedInv, MarkInv

(* The inductive invariant of the next two theorems, which run archive      *)
(* checks: candidates and staged hours come from published files, marks in  *)
(* memory and in the Store (_last_processed_versions, _save_state) are      *)
(* never behind the recorder, archived messages have a file in hand.        *)
THEOREM UninterruptedInvariant == Uninterrupted => (Spec => []UninterruptedInv)
<1> SUFFICES ASSUME Uninterrupted PROVE Spec => []UninterruptedInv
  OBVIOUS
<1>0. Reliable
  BY DEF Uninterrupted
<1> DEFINE Rest == OriginInv /\ PublishedInv /\ AheadInv /\ ArchivedInv
<1>1. Init => Rest
  BY <1>0, InitUninterrupted DEF UninterruptedInv
<1>2. SafeInv /\ Rest /\ [Next]_vars => Rest'
  <2> SUFFICES ASSUME SafeInv, Rest, [Next]_vars PROVE Rest'
    OBVIOUS
  <2>1. TypeOK
    BY DEF SafeInv
  <2>2. OriginInv'
    BY <2>1, OriginStep
  <2>3. PublishedInv'
    BY <1>0, <2>1, PublishedStep
  <2>4. AheadInv' /\ ArchivedInv'
    BY AheadStep, ArchivedStep
  <2>5. QED
    BY <2>2, <2>3, <2>4
<1>3. SafeInv /\ LandedInv /\ Rest => UninterruptedInv
  BY DEF UninterruptedInv
<1>4. Spec => []LandedInv
  BY <1>0, LandedInvariant
<1> HIDE DEF Rest
<1>5. QED
  BY <1>1, <1>2, <1>3, <1>4, SafeInvariant, PTL DEF Spec

(* A message that a poll has moved to the archive has a file in            *)
(* the recorder when the poll is over: "moved immediately after the message *)
(* is successfully processed" (_poll_sync).                                 *)
THEOREM ArchivedHasLanded == Uninterrupted => (Spec => []ArchivedLanded)
<1>1. UninterruptedInv => ArchivedLanded
  BY DEF UninterruptedInv, LandedInv, SafeInv, PollInv, ArchivedInv, ArchivedLanded
<1>2. QED
  BY <1>1, UninterruptedInvariant, PTL

(* Days, versions and statistics are the same in both specifications. *)
LEMMA Vocabulary ==
    /\ Ledger!Stats = Stats /\ Ledger!Days = Days
    /\ Ledger!Versions = Versions /\ Ledger!Versions0 = Versions0
BY DEF Ledger!Stats, Ledger!Days, Ledger!Versions, Ledger!Versions0,
       Stats, Days, Versions, Versions0

(* The recorder's rows implement StatsLedger in every cleanup mode, for any *)
(* mailbox: each write moves days to higher versions of published files     *)
(* (_poll_sync's version check, _recompute_and_import_stat).                *)
THEOREM LedgerImplemented == Uninterrupted => (Spec => RefinesLedger)
<1> SUFFICES ASSUME Uninterrupted PROVE Spec => RefinesLedger
  OBVIOUS
<1>0. Reliable
  BY DEF Uninterrupted
<1>1. Init => Ledger!LedgerInit
  <2> SUFFICES ASSUME Init PROVE Ledger!LedgerInit
    OBVIOUS
  <2>1. Published = {}
    BY PublishedIs DEF Init, MailInit
  <2>2. QED
    BY <2>1, Vocabulary DEF Init, RecorderInit, Ledger!LedgerInit
<1> DEFINE Typed == Published \subseteq Stats \X Days \X Versions
<1>t. Typed
  BY PublishedTyped
<1>2. UninterruptedInv /\ Typed' /\ [Next]_vars =>
         [Ledger!Publish \/ Ledger!Write]_(Ledger!ledgerVars)
  <2> SUFFICES ASSUME UninterruptedInv, Typed', [Next]_vars
               PROVE  Ledger!Publish \/ Ledger!Write \/ UNCHANGED <<Published, rows>>
    BY DEF Ledger!ledgerVars
  <2>1. TypeOK /\ TypeOK' /\ OriginInv /\ PublishedInv /\ AheadInv
    BY NextTyped DEF UninterruptedInv, LandedInv, SafeInv
  <2>2. CASE RecorderThread
    <3>1. Published' = Published
      BY <2>2 DEF RecorderThread, mailVars, Published
    <3>2. rows' \in [Stats -> [Days -> Versions0]]
      BY <2>1 DEF TypeOK, RecorderTypeOK, Batch
    <3>3. ASSUME NEW s \in Stats, NEW d \in Days, rows'[s][d] # rows[s][d]
          PROVE  rows'[s][d] > rows[s][d] /\ <<s, d, rows'[s][d]>> \in Published
      <4>1. rows'[s][d] = Landed(s, d)
        BY <1>0, <2>1, <3>3, RowSteps
      <4>2. PICK e \in Eics, x \in Suffixes : s = <<e, x>>
        BY DEF Stats
      <4>3. /\ rows[s][d] <= Landed(s, d)
            /\ rows[s][d] \in Nat /\ Landed(s, d) \in Nat
        BY <1>0, <2>1, <4>2, AheadTyped DEF AheadInv
      <4>4. rows'[s][d] > rows[s][d] /\ Landed(s, d) # 0
        BY <3>3, <4>1, <4>3
      <4>5. <<s, d, Landed(s, d)>> \in Published
        BY <2>1, <4>4 DEF PublishedInv
      <4>6. QED
        BY <4>1, <4>4, <4>5
    <3>4. QED
      BY <3>1, <3>2, <3>3, Vocabulary DEF Ledger!Write
  <2>3. CASE ~RecorderThread
    <3>1. rows' = rows
      <4>1. \A s \in Stats, d \in Days : rows'[s][d] = rows[s][d]
        BY <1>0, <2>1, <2>3, RowSteps
      <4>2. rows \in [Stats -> Batch] /\ rows' \in [Stats -> Batch]
        BY <2>1 DEF TypeOK, RecorderTypeOK
      <4>3. \A s \in Stats : rows'[s] = rows[s]
        BY <4>1, <4>2 DEF Batch
      <4>4. QED
        BY <4>2, <4>3
    <3>2. Published \subseteq Published'
      BY <2>1, ArrivedGrows
    <3>3. Published' \subseteq Stats \X Days \X Versions
      OBVIOUS
    <3>4. QED
      BY <3>1, <3>2, <3>3, Vocabulary DEF Ledger!Publish
  <2>4. QED
    BY <2>2, <2>3
<1> HIDE DEF Typed
<1>3. QED
  BY <1>1, <1>t, <1>2, UninterruptedInvariant, PTL DEF Spec, RefinesLedger, Ledger!LedgerSpec

----------------------------------------------------------------------------
(* What the Store has saved stays, even across power cuts. *)

(* What the theorem needs: as Reliable, but what is queued may be lost. *)
Orderly ==
    /\ Backlog = 1
    /\ "recorder" \notin Faults
    /\ CleanupMode = "archive" => "imap" \notin Faults

(* The batch of one statistic gives way rightly. *)
Waits(e, x, d) ==
    queue[<<e, x>>] # <<>> /\ Head(queue[<<e, x>>])[d] # 0
                           /\ Head(queue[<<e, x>>])[d] < rows[<<e, x>>][d] =>
        /\ rows[<<e, x>>][d] > store[<<e, d>>]
        /\ rows[<<e, x>>][d] > versions[<<e, d>>] \/ <<e, x>> \in toImport

LEMMA WaitingIs == WaitingInv <=> \A e \in Eics, d \in Days : \A x \in Series[e] : Waits(e, x, d)
BY DEF WaitingInv, Waits

LEMMA SameWaits ==
    ASSUME NEW e, NEW x, NEW d, Waits(e, x, d), UNCHANGED <<rows, queue, store>>,
           versions'[<<e, d>>] = versions[<<e, d>>] \/ <<e, x>> \in toImport',
           <<e, x>> \in toImport => <<e, x>> \in toImport'
    PROVE  Waits(e, x, d)'
BY DEF Waits

LEMMA QuietWaits == WaitingInv /\ UNCHANGED markVars => WaitingInv'
BY DEF WaitingInv, markVars

(* A new coordinator has no marks, and a row that may give way holds hours. *)
LEMMA ForgetWaits ==
    ASSUME TypeOK, WaitingInv, Forget, UNCHANGED <<rows, queue, store>>
    PROVE  WaitingInv'
<1> SUFFICES ASSUME NEW e \in Eics, NEW d \in Days, NEW x \in Series[e] PROVE Waits(e, x, d)'
  BY DEF WaitingInv, Waits
<1>1. <<e, x>> \in Stats
  BY FedStats
<1>2. queue[<<e, x>>] \in Seq(Batch) /\ rows[<<e, x>>] \in Batch
  BY <1>1 DEF TypeOK, RecorderTypeOK
<1>3. CASE queue[<<e, x>>] = <<>>
  BY <1>3 DEF Waits
<1>4. CASE queue[<<e, x>>] # <<>>
  <2>1. Head(queue[<<e, x>>]) \in Batch
    BY <1>2, <1>4
  <2>r. rows[<<e, x>>][d] \in Versions0
    BY <1>2 DEF Batch
  <2>2. rows[<<e, x>>][d] \in Nat
    BY <2>r DEF Versions0
  <2>h. Head(queue[<<e, x>>])[d] \in Nat
    BY <2>1 DEF Batch, Versions0
  <2>3. versions'[<<e, d>>] = 0
    BY EmptyPoll DEF Forget
  <2>4. Waits(e, x, d)
    BY WaitingIs
  <2>5. QED
    BY <2>2, <2>h, <2>3, <2>4 DEF Waits
<1>5. QED
  BY <1>3, <1>4

(* A poll with nothing left to import may end, and save its marks. *)
LEMMA DropWaits ==
    ASSUME WaitingInv, toImport = {}, UNCHANGED <<rows, queue, versions>>,
           store' = store \/ store' = versions
    PROVE  WaitingInv'
<1> SUFFICES ASSUME NEW e \in Eics, NEW d \in Days, NEW x \in Series[e] PROVE Waits(e, x, d)'
  BY DEF WaitingInv, Waits
<1>1. Waits(e, x, d)
  BY WaitingIs
<1>2. QED
  BY <1>1 DEF Waits

LEMMA BeginWaits ==
    ASSUME WaitingInv, PollInv, BeginPoll
    PROVE  WaitingInv'
<1> SUFFICES ASSUME NEW e \in Eics, NEW d \in Days, NEW x \in Series[e] PROVE Waits(e, x, d)'
  BY DEF WaitingInv, Waits
<1>1. Waits(e, x, d)
  BY WaitingIs
<1>2. UNCHANGED <<rows, queue, store, toImport>> /\ toImport = {}
  BY DEF BeginPoll, PollInv, recVars, pollVars
<1>3. versions' = versions \/ versions' = store
  BY DEF BeginPoll
<1>4. QED
  BY <1>1, <1>2, <1>3 DEF Waits

(* What is marked is about to be rewritten. *)
LEMMA ProcessWaits ==
    ASSUME TypeOK, WaitingInv, NEW c \in deduped, ProcessFile(c)
    PROVE  WaitingInv'
<1> SUFFICES ASSUME NEW e \in Eics, NEW d \in Days, NEW x \in Series[e] PROVE Waits(e, x, d)'
  BY DEF WaitingInv, Waits
<1>1. Waits(e, x, d)
  BY WaitingIs
<1>2. UNCHANGED <<rows, queue, store>>
  BY DEF ProcessFile, recVars
<1>3. toImport' = toImport \union {<<c.eic, y>> : y \in Series[c.eic]}
  BY DEF ProcessFile, CollectPending
<1>4. c.eic \in Eics /\ c.day \in Days /\ <<e, d>> \in Keys
  BY DEF TypeOK, Candidates, Keys
<1>5. CASE e = c.eic
  <2>1. <<e, x>> \in toImport'
    BY <1>3, <1>5
  <2>2. QED
    BY <1>1, <1>2, <2>1, SameWaits
<1>6. CASE e # c.eic
  <2>1. versions' = [versions EXCEPT ![<<c.eic, c.day>>] = c.version]
    BY DEF ProcessFile
  <2>2. versions'[<<e, d>>] = versions[<<e, d>>]
    BY <1>4, <1>6, <2>1 DEF TypeOK, Keys
  <2>3. QED
    BY <1>1, <1>2, <1>3, <2>2, SameWaits
<1>7. QED
  BY <1>5, <1>6

(* The batch is read from the rows it replaces: only a staged day differs,  *)
(* and that is marked in memory and ahead of the Store.                     *)
LEMMA ImportWaits ==
    ASSUME TypeOK, Orderly, CoreInv, WaitingInv, NEW t \in Stats, ImportStat(t)
    PROVE  WaitingInv'
<1> SUFFICES ASSUME NEW e \in Eics, NEW d \in Days, NEW x \in Series[e] PROVE Waits(e, x, d)'
  BY DEF WaitingInv, Waits
<1> DEFINE s == <<e, x>>
<1>0. s \in Stats /\ x \in Suffixes /\ <<e, d>> \in Keys
  BY FedStats DEF Keys
<1>1. /\ UNCHANGED <<rows, store, versions>> /\ toImport' = toImport \ {t}
      /\ queue' = [queue EXCEPT ![t] = Append(@, Recomputed(t))]
  BY DEF ImportStat, Enqueue, memVars
<1>2. rows \in [Stats -> Batch] /\ queue \in [Stats -> Seq(Batch)] /\ pending \in [Stats -> Batch]
  BY DEF TypeOK, RecorderTypeOK
<1>3. CASE s # t
  <2>1. queue'[s] = queue[s] /\ (s \in toImport => s \in toImport')
    BY <1>0, <1>1, <1>2, <1>3
  <2>2. Waits(e, x, d)
    BY WaitingIs
  <2>3. QED
    BY <1>1, <2>1, <2>2 DEF Waits
<1>4. CASE s = t
  <2>1. queue[s] = <<>>
    <3>1. Len(queue[s]) < 1
      BY <1>4 DEF ImportStat, Enqueue, Orderly
    <3>2. QED
      BY <1>0, <1>2, <3>1
  <2>b. Recomputed(s) \in Batch
    BY <1>0, <1>2 DEF Recomputed, Batch, Versions0
  <2>2. queue'[s] = Append(<<>>, Recomputed(s)) /\ Head(queue'[s]) = Recomputed(s)
    <3>1. queue'[s] = Append(queue[s], Recomputed(s))
      BY <1>0, <1>1, <1>2, <1>4
    <3>2. QED
      BY <2>1, <2>b, <3>1
  <2>3. \/ Recomputed(s)[d] = 0
        \/ Recomputed(s)[d] = rows[s][d]
        \/ pending[s][d] # 0 /\ Recomputed(s)[d] = pending[s][d]
    BY DEF Recomputed
  <2>4. pending[s][d] # 0 => pending[s][d] = versions[<<e, d>>] /\ pending[s][d] > store[<<e, d>>]
    BY <1>0 DEF CoreInv, StagedInv
  <2>5. rows[s][d] \in Nat /\ versions[<<e, d>>] \in Nat /\ store[<<e, d>>] \in Nat
    BY <1>0, <1>2 DEF TypeOK, Batch, Versions0
  <2>6. ASSUME Head(queue'[s])[d] # 0, Head(queue'[s])[d] < rows[s][d]
        PROVE  rows[s][d] > versions[<<e, d>>] /\ rows[s][d] > store[<<e, d>>]
    <3>1. pending[s][d] # 0 /\ Recomputed(s)[d] = pending[s][d]
      BY <2>2, <2>3, <2>5, <2>6
    <3>2. QED
      BY <2>2, <2>4, <2>5, <2>6, <3>1
  <2>7. QED
    BY <1>1, <2>6 DEF Waits
<1>5. QED
  BY <1>3, <1>4

(* A poll that fails has marked nothing or has queued all it marked. *)
LEMMA FaultWaits ==
    ASSUME TypeOK, Orderly, PollInv, WaitingInv, PollFault
    PROVE  WaitingInv'
<1>1. UNCHANGED <<rows, queue, store>>
  BY FaultEnds DEF recVars
<1>2. toImport = {}
  BY DEF Orderly, PollInv, PollFault, SeedFails, OpenFails, PollFails, ImportFails, SaveFails
<1>3. CASE firstRefreshDone
  BY <1>1, <1>2, <1>3, FaultEnds, DropWaits
<1>4. CASE ~firstRefreshDone
  BY <1>1, <1>4, FaultEnds, ForgetWaits
<1>5. QED
  BY <1>3, <1>4

(* Once the batch is written nothing of the statistic waits. *)
LEMMA CommitWaits ==
    ASSUME TypeOK, Orderly, WaitingInv, RecorderThread
    PROVE  WaitingInv'
<1> SUFFICES ASSUME NEW e \in Eics, NEW d \in Days, NEW x \in Series[e] PROVE Waits(e, x, d)'
  BY DEF WaitingInv, Waits
<1>0. Waits(e, x, d) /\ <<e, x>> \in Stats
  BY WaitingIs, FedStats
<1>1. PICK t \in Stats : Commit(t)
  BY DEF RecorderThread
<1>2. UNCHANGED <<store, versions, toImport>>
  BY DEF RecorderThread, memVars, pollVars
<1>3. rows \in [Stats -> Batch] /\ queue \in [Stats -> Seq(Batch)] /\ Len(queue[t]) <= 1
  BY DEF TypeOK, RecorderTypeOK, Orderly
<1>4. CASE <<e, x>> = t
  <2>1. Tail(queue[t]) = <<>>
    BY <1>1, <1>3 DEF Commit
  <2>2. queue'[<<e, x>>] = <<>>
    BY <1>1, <1>3, <1>4, <2>1 DEF Commit
  <2>3. QED
    BY <2>2 DEF Waits
<1>5. CASE <<e, x>> # t
  <2>1. queue'[<<e, x>>] = queue[<<e, x>>] /\ rows'[<<e, x>>] = rows[<<e, x>>]
    BY <1>0, <1>1, <1>3, <1>5 DEF Commit
  <2>2. QED
    BY <1>0, <1>2, <2>1 DEF Waits
<1>6. QED
  BY <1>4, <1>5

LEMMA WaitingStep ==
    ASSUME Orderly, SafeInv, WaitingInv, [Next]_vars
    PROVE  WaitingInv'
<1>t. TypeOK /\ PollInv /\ CoreInv
  BY DEF SafeInv, CoreInv
<1> USE DEF memVars, askVars, pollVars, recVars, markVars
<1>1. CASE BeginPoll
  BY <1>1, <1>t, BeginWaits
<1>2. CASE ReadFlag \/ ClearFlag \/ OpenSession
  BY <1>2, QuietWaits DEF ReadFlag, ClearFlag, OpenSession
<1>3. CASE MarkOld \/ ExpungeOld \/ Collect
  BY <1>3, QuietWaits DEF MarkOld, ExpungeOld, Collect, CollectFrom
<1>4. CASE \E c \in deduped : ProcessFile(c)
  BY <1>4, <1>t, ProcessWaits
<1>5. CASE ExpungeArchived \/ Close
  BY <1>5, QuietWaits DEF ExpungeArchived, Close
<1>6. CASE \E s \in Stats : ImportStat(s)
  BY <1>6, <1>t, ImportWaits
<1>7. CASE FinishPoll
  BY <1>7, DropWaits DEF FinishPoll
<1>8. CASE PollFault
  BY <1>8, <1>t, FaultWaits
<1>9. CASE Reconfigure \/ Restart
  BY <1>9, <1>t, ForgetWaits DEF Reconfigure, Restart
<1>10. CASE Crash
  <2>1. \A e \in Eics : \A x \in Series[e] : queue'[<<e, x>>] = <<>>
    BY <1>10, FedStats DEF Crash, LoseQueue
  <2>2. QED
    BY <2>1 DEF WaitingInv
<1>11. CASE SkipPoll \/ PressFullScan \/ PressPollNow \/ WindowOpens \/ WindowCloses
  BY <1>11, QuietWaits DEF SkipPoll, PressFullScan, PressPollNow, WindowOpens, WindowCloses
<1>12. CASE World
  BY <1>12, QuietWaits DEF World
<1>13. CASE RecorderThread
  BY <1>13, <1>t, CommitWaits
<1>14. CASE UNCHANGED vars
  BY <1>14, QuietWaits DEF vars
<1>15. QED
  BY <1>1, <1>2, <1>3, <1>4, <1>5, <1>6, <1>7, <1>8, <1>9, <1>10, <1>11, <1>12, <1>13, <1>14
  DEF Next, PollStep

(* The inductive invariant of the next theorem, which run poll_faults       *)
(* checks: a batch of _recompute_and_import_stat puts an older version over *)
(* a newer one only where neither the Store nor the marks loaded from it    *)
(* have the newer one.                                                      *)
THEOREM SavedInvariant == Orderly => (Spec => []SavedInv)
<1> SUFFICES ASSUME Orderly PROVE Spec => []SavedInv
  OBVIOUS
<1>1. Init => WaitingInv
  <2> SUFFICES ASSUME Init PROVE WaitingInv
    OBVIOUS
  <2>1. \A e \in Eics : \A x \in Series[e] : queue[<<e, x>>] = <<>>
    BY FedStats DEF Init, RecorderInit
  <2>2. QED
    BY <2>1 DEF WaitingInv
<1>2. SafeInv /\ WaitingInv /\ [Next]_vars => WaitingInv'
  BY WaitingStep
<1>3. SafeInv /\ WaitingInv => SavedInv
  BY DEF SavedInv
<1>4. QED
  BY <1>1, <1>2, <1>3, SafeInvariant, PTL DEF Spec

(* "authoritative source of truth": a version the Store marks never gives   *)
(* way to an older one in the statistics, for any mailbox and however often *)
(* polls fail, Home Assistant restarts or power is lost, as long as no      *)
(* failure strikes between marking a file and queueing its hours.           *)
THEOREM SavedVersionsStay == Orderly => (Spec => SavedStays)
<1> SUFFICES ASSUME Orderly PROVE Spec => SavedStays
  OBVIOUS
<1> DEFINE Kept == \A e \in Eics, d \in Days : \A x \in Series[e] :
                      rows'[<<e, x>>][d] < rows[<<e, x>>][d] =>
                         rows[<<e, x>>][d] > store[<<e, d>>]
<1>1. SavedInv /\ [Next]_vars => [Kept]_vars
  <2> SUFFICES ASSUME SavedInv, Next PROVE Kept
    OBVIOUS
  <2>0. TypeOK /\ rows \in [Stats -> Batch]
    BY DEF SavedInv, SafeInv, TypeOK, RecorderTypeOK
  <2> SUFFICES ASSUME NEW e \in Eics, NEW d \in Days, NEW x \in Series[e],
                      rows'[<<e, x>>][d] < rows[<<e, x>>][d]
               PROVE  rows[<<e, x>>][d] > store[<<e, d>>]
    OBVIOUS
  <2>1. <<e, x>> \in Stats
    BY FedStats
  <2>2. rows[<<e, x>>][d] \in Nat
    BY <2>0, <2>1 DEF Batch, Versions0
  <2>3. RecorderThread
    BY <2>2, RowsWritten
  <2>4. PICK t \in Stats : Commit(t)
    BY <2>3 DEF RecorderThread
  <2>5. <<e, x>> = t
    BY <2>0, <2>1, <2>2, <2>4 DEF Commit
  <2>6. rows'[<<e, x>>] = Upsert(rows[<<e, x>>], Head(queue[<<e, x>>]))
    BY <2>0, <2>1, <2>4, <2>5 DEF Commit
  <2>7. Head(queue[<<e, x>>])[d] # 0 /\ rows'[<<e, x>>][d] = Head(queue[<<e, x>>])[d]
    BY <2>2, <2>6 DEF Upsert
  <2>8. Waits(e, x, d)
    BY WaitingIs DEF SavedInv
  <2>9. QED
    BY <2>4, <2>5, <2>7, <2>8 DEF Waits, Commit
<1> HIDE DEF Kept
<1>2. [][Kept]_vars => SavedStays
  BY DEF Kept, SavedStays
<1>3. QED
  BY SavedInvariant, <1>1, <1>2, PTL DEF Spec
=============================================================================
