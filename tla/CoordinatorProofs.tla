------------------------- MODULE CoordinatorProofs -------------------------
(***************************************************************************)
(* Theorems about the poll cycle, for every value of the constants.        *)
(***************************************************************************)
EXTENDS CoordinatorProperties, TLAPS

USE FilesAssumption, MailAssumption, RecorderAssumption, CoordinatorAssumption

(* The state every poll starts from and ends in is well typed. *)
LEMMA EmptyTyped ==
    /\ NoMarks \in [Keys -> Versions0]
    /\ NoReading \in [Eics -> Reading]
    /\ NoPending \in [Stats -> Batch]
BY DEF NoMarks, NoReading, NoPending, Versions0, Reading, Batch, Keys, Stats

LEMMA InitTyped == Init => TypeOK
<1> SUFFICES ASSUME Init PROVE TypeOK  OBVIOUS
<1>1. MailTypeOK
  BY DEF Init, MailInit, MailTypeOK, Days
<1>2. RecorderTypeOK
  BY DEF Init, RecorderInit, RecorderTypeOK, Batch, Versions0
<1>3. QED
  BY <1>1, <1>2, EmptyTyped DEF Init, TypeOK, Steps

(* What ends a poll or replaces the coordinator. *)
LEMMA DropPollTyped ==
    ASSUME DropPoll
    PROVE  /\ pc' \in Steps
           /\ forced' \in BOOLEAN
           /\ deduped' \subseteq Candidates
           /\ pending' \in [Stats -> Batch]
           /\ updates' \in [Eics -> Reading]
           /\ toImport' \subseteq Stats
BY EmptyTyped DEF DropPoll, Steps

LEMMA ForgetTyped ==
    ASSUME Forget, MailTypeOK', RecorderTypeOK', store' \in [Keys -> Versions0],
           enabled' \in Enablements, inWindow' \in WindowStates
    PROVE  TypeOK'
BY EmptyTyped, DropPollTyped DEF Forget, TypeOK

LEMMA AbortTyped ==
    ASSUME TypeOK, Abort, MailTypeOK', UNCHANGED <<recVars, store, enabled, inWindow>>
    PROVE  TypeOK'
<1>1. RecorderTypeOK' /\ store' \in [Keys -> Versions0] /\ enabled' \in Enablements /\ inWindow' \in WindowStates
  BY DEF TypeOK, RecorderTypeOK, recVars
<1>2. CASE firstRefreshDone
  BY <1>1, <1>2, DropPollTyped DEF Abort, TypeOK, memVars, askVars
<1>3. CASE ~firstRefreshDone
  BY <1>1, <1>3, ForgetTyped DEF Abort
<1>4. QED BY <1>2, <1>3

LEMMA SaveFailsTyped ==
    ASSUME TypeOK, SaveFails, MailTypeOK'
    PROVE  TypeOK'
<1>1. RecorderTypeOK' /\ store' \in [Keys -> Versions0] /\ enabled' \in Enablements /\ inWindow' \in WindowStates
  BY DEF TypeOK, RecorderTypeOK, recVars, SaveFails
<1>2. CASE firstRefreshDone
  <2>1. data' \in [Eics -> Reading] /\ DropPoll /\ UNCHANGED <<versions, storeLoaded, firstRefreshDone, askVars>>
    BY <1>2 DEF SaveFails, TypeOK
  <2>2. QED
    BY <1>1, <2>1, DropPollTyped DEF TypeOK, askVars
<1>3. CASE ~firstRefreshDone
  BY <1>1, <1>3, ForgetTyped DEF SaveFails
<1>4. QED BY <1>2, <1>3

(* How a poll that fails ends: the coordinator's memory stays, or it goes.  *)
LEMMA FaultEnds ==
    ASSUME PollFault
    PROVE  /\ UNCHANGED <<recVars, store, enabled, inWindow>>
           /\ \/ firstRefreshDone /\ DropPoll
                 /\ UNCHANGED <<versions, storeLoaded, firstRefreshDone, askVars>>
              \/ ~firstRefreshDone /\ Forget
BY DEF PollFault, SeedFails, OpenFails, PollFails, ImportFails, SaveFails, Abort, memVars

(* The mailbox operations keep the mailbox's types. *)
LEMMA MailboxTyped ==
    ASSUME MailTypeOK
    PROVE  /\ \A m \in Messages : Deliver(m) \/ UserFlags(m) \/ Archive(m) => MailTypeOK'
           /\ \A uids \in SUBSET Messages : MarkForDelete(uids) => MailTypeOK'
           /\ NextDay \/ Expunge \/ CloseSession \/ UNCHANGED mailVars => MailTypeOK'
<1> USE DEF MailTypeOK, Days, mailVars
<1>1. ASSUME NEW m \in Messages, Deliver(m) PROVE MailTypeOK'
  BY <1>1 DEF Deliver
<1>2. ASSUME NEW m \in Messages, UserFlags(m) PROVE MailTypeOK'
  BY <1>2 DEF UserFlags
<1>3. NextDay => MailTypeOK'
  BY DEF NextDay
<1>4. Expunge => MailTypeOK'
  BY DEF Expunge, RemoveFlagged
<1>5. CloseSession => MailTypeOK'
  BY DEF CloseSession, RemoveFlagged
<1>6. ASSUME NEW m \in Messages, Archive(m) PROVE MailTypeOK'
  BY <1>6 DEF Archive
<1>7. ASSUME NEW uids \in SUBSET Messages, MarkForDelete(uids) PROVE MailTypeOK'
  BY <1>7 DEF MarkForDelete
<1>8. UNCHANGED mailVars => MailTypeOK'
  OBVIOUS
<1>9. QED BY <1>1, <1>2, <1>3, <1>4, <1>5, <1>6, <1>7, <1>8

(* So do the recorder's operations. *)
LEMMA CommitTyped ==
    ASSUME RecorderTypeOK, NEW s \in Stats, Commit(s)
    PROVE  RecorderTypeOK'
<1> USE DEF RecorderTypeOK, Commit
<1>1. Head(queue[s]) \in Batch /\ Tail(queue[s]) \in Seq(Batch) /\ Len(Tail(queue[s])) <= Backlog
  OBVIOUS
<1>2. Upsert(rows[s], Head(queue[s])) \in Batch
  BY <1>1 DEF Upsert, Batch
<1>3. QED BY <1>1, <1>2

LEMMA EnqueueTyped ==
    ASSUME RecorderTypeOK, NEW s \in Stats, NEW b \in Batch, Enqueue(s, b)
    PROVE  RecorderTypeOK'
<1> USE DEF RecorderTypeOK, Enqueue
<1>1. Append(queue[s], b) \in Seq(Batch) /\ Len(Append(queue[s], b)) = Len(queue[s]) + 1
  OBVIOUS
<1>2. Len(Append(queue[s], b)) <= Backlog
  BY <1>1
<1>3. QED BY <1>1, <1>2

(* A search returns messages; what is collected from them are candidates.   *)
LEMMA CollectedTyped ==
    ASSUME inbox \subseteq Messages
    PROVE  \A variants :
              /\ \A day : SearchBefore(variants, day) \subseteq Messages
              /\ CandidatesIn(PollUids(variants)) \subseteq Candidates
              /\ FirstOfEachKey(CandidatesIn(PollUids(variants))) \subseteq Candidates
<1> TAKE variants
<1>1. /\ \A day : SearchBefore(variants, day) \subseteq Messages
      /\ \A day : SearchSince(variants, day) \subseteq Messages
  BY DEF SearchBefore, SearchSince, Matching
<1>2. PollUids(variants) \subseteq Messages
  BY <1>1 DEF PollUids, Newest
<1>3. ASSUME NEW m \in PollUids(variants), NEW f \in Mail[m].files
      PROVE  [uid |-> m, eic |-> f.eic, day |-> f.day, version |-> f.version] \in Candidates
  <2>1. f \in Files
    BY <1>2 DEF Files
  <2>2. QED
    BY <1>2, <2>1 DEF Files, Candidates
<1>4. CandidatesIn(PollUids(variants)) \subseteq Candidates
  BY <1>3 DEF CandidatesIn
<1>5. QED
  BY <1>1, <1>4 DEF FirstOfEachKey

LEMMA NextTyped == TypeOK /\ [Next]_vars => TypeOK'
<1> SUFFICES ASSUME TypeOK, [Next]_vars PROVE TypeOK'
  OBVIOUS
<1>r. UNCHANGED recVars => RecorderTypeOK'
  BY DEF TypeOK, RecorderTypeOK, recVars
<1>m. UNCHANGED mailVars => MailTypeOK'
  BY MailboxTyped DEF TypeOK
<1> USE DEF memVars, askVars, pollVars
<1>1. CASE BeginPoll
  BY <1>1, <1>r, <1>m DEF TypeOK, BeginPoll, Steps
<1>2. CASE ReadFlag
  BY <1>2, <1>r, <1>m DEF TypeOK, ReadFlag, Steps
<1>3. CASE ClearFlag
  BY <1>3, <1>r, <1>m DEF TypeOK, ClearFlag, Steps
<1>4. CASE OpenSession
  BY <1>4, <1>r, <1>m DEF TypeOK, OpenSession, Steps
<1>5. CASE MarkOld
  <2>1. MailTypeOK'
    <3>1. PICK variants \in Answered : MarkForDelete(SearchBefore(variants, today - DeleteAfter))
      BY <1>5 DEF MarkOld
    <3>2. SearchBefore(variants, today - DeleteAfter) \subseteq Messages
      BY CollectedTyped DEF TypeOK, MailTypeOK
    <3>3. QED
      BY <3>1, <3>2, MailboxTyped DEF TypeOK
  <2>2. QED
    BY <1>5, <1>r, <2>1 DEF TypeOK, MarkOld, Steps
<1>6. CASE ExpungeOld
  <2>1. MailTypeOK'
    BY <1>6, MailboxTyped DEF TypeOK, ExpungeOld
  <2>2. QED
    BY <1>6, <1>r, <2>1 DEF TypeOK, ExpungeOld, Steps
<1>7. CASE Collect
  <2>1. deduped' \subseteq Candidates
    BY <1>7, CollectedTyped DEF TypeOK, MailTypeOK, Collect, CollectFrom
  <2>2. QED
    BY <1>7, <1>r, <1>m, <2>1 DEF TypeOK, Collect, CollectFrom, Steps
<1>8. CASE \E c \in deduped : ProcessFile(c)
  <2>1. PICK c \in deduped : ProcessFile(c)
    BY <1>8
  <2>2. c \in Candidates /\ c.uid \in Messages /\ c.eic \in Eics /\ c.day \in Days /\ c.version \in Versions
    BY <2>1 DEF TypeOK, Candidates
  <2>3. MailTypeOK'
    BY <2>1, <2>2, <1>m, MailboxTyped DEF TypeOK, ProcessFile
  <2>4. versions' \in [Keys -> Versions0]
    BY <2>1, <2>2 DEF TypeOK, ProcessFile, Keys, Versions, Versions0
  <2>5. pending' \in [Stats -> Batch]
    BY <2>1, <2>2 DEF TypeOK, ProcessFile, CollectPending, Batch, Versions, Versions0
  <2>6. updates' \in [Eics -> Reading]
    <3>1. [day |-> c.day, version |-> c.version] \in Reading
      BY <2>2 DEF Reading, Days, Versions, Versions0
    <3>2. QED
      BY <2>1, <2>2, <3>1 DEF TypeOK, ProcessFile, CollectPending
  <2>7. toImport' \subseteq Stats
    BY <2>1, <2>2 DEF TypeOK, ProcessFile, CollectPending, Stats
  <2>8. QED
    BY <2>1, <2>3, <2>4, <2>5, <2>6, <2>7, <1>r DEF TypeOK, ProcessFile, Steps
<1>9. CASE ExpungeArchived
  <2>1. MailTypeOK'
    BY <1>9, MailboxTyped DEF TypeOK, ExpungeArchived
  <2>2. QED
    BY <1>9, <1>r, <2>1 DEF TypeOK, ExpungeArchived, Steps
<1>10. CASE Close
  <2>1. MailTypeOK'
    BY <1>10, MailboxTyped DEF TypeOK, Close
  <2>2. QED
    BY <1>10, <1>r, <2>1 DEF TypeOK, Close, Steps
<1>11. CASE \E s \in Stats : ImportStat(s)
  <2>1. PICK s \in Stats : ImportStat(s)
    BY <1>11
  <2>2. Recomputed(s) \in Batch
    BY <2>1 DEF TypeOK, RecorderTypeOK, Recomputed, Batch, Versions0
  <2>3. RecorderTypeOK'
    BY <2>1, <2>2, EnqueueTyped DEF TypeOK, ImportStat
  <2>4. QED
    BY <2>1, <2>3, <1>m DEF TypeOK, ImportStat
<1>12. CASE FinishPoll
  BY <1>12, <1>r, <1>m, DropPollTyped DEF TypeOK, FinishPoll
<1>13. CASE PollFault
  <2>1. MailTypeOK'
    BY <1>13, <1>m, MailboxTyped
    DEF TypeOK, PollFault, SeedFails, OpenFails, PollFails, ImportFails, SaveFails
  <2>2. CASE SaveFails
    BY <2>1, <2>2, SaveFailsTyped
  <2>3. CASE ~SaveFails
    <3>1. Abort /\ UNCHANGED <<recVars, store, enabled, inWindow>>
      BY <1>13, <2>3 DEF PollFault, SeedFails, OpenFails, PollFails, ImportFails
    <3>2. QED
      BY <2>1, <3>1, AbortTyped
  <2>4. QED
    BY <2>2, <2>3
<1>14. CASE SkipPoll \/ PressFullScan \/ PressPollNow
  BY <1>14, <1>r, <1>m DEF TypeOK, SkipPoll, PressFullScan, PressPollNow
<1>15. CASE WindowOpens \/ WindowCloses
  BY <1>15, <1>r, <1>m DEF TypeOK, WindowOpens, WindowCloses
<1>16. CASE World
  <2>1. MailTypeOK'
    BY <1>16, MailboxTyped DEF TypeOK, World
  <2>2. QED
    BY <1>16, <1>r, <2>1 DEF TypeOK, World
<1>17. CASE RecorderThread
  <2>1. RecorderTypeOK'
    BY <1>17, CommitTyped DEF TypeOK, RecorderThread
  <2>2. QED
    BY <1>17, <1>m, <2>1 DEF TypeOK, RecorderThread
<1>18. CASE Reconfigure
  <2>1. enabled' \in Enablements /\ inWindow' \in WindowStates /\ store' \in [Keys -> Versions0]
    BY <1>18 DEF TypeOK, Reconfigure
  <2>2. QED
    BY <1>18, <2>1, <1>r, <1>m, ForgetTyped DEF Reconfigure
<1>19. CASE Restart
  <2>1. enabled' \in Enablements /\ inWindow' \in WindowStates /\ store' \in [Keys -> Versions0]
    BY <1>19 DEF TypeOK, Restart
  <2>2. QED
    BY <1>19, <2>1, <1>r, <1>m, ForgetTyped DEF Restart
<1>20. CASE Crash
  <2>1. enabled' \in Enablements /\ inWindow' \in WindowStates /\ store' \in [Keys -> Versions0]
    BY <1>20 DEF TypeOK, Crash
  <2>2. RecorderTypeOK'
    BY <1>20 DEF TypeOK, Crash, LoseQueue, RecorderTypeOK
  <2>3. QED
    BY <1>20, <2>1, <2>2, <1>m, ForgetTyped DEF Crash
<1>21. CASE UNCHANGED vars
  BY <1>21, <1>r, <1>m DEF TypeOK, vars
<1>22. QED
  BY <1>1, <1>2, <1>3, <1>4, <1>5, <1>6, <1>7, <1>8, <1>9, <1>10, <1>11, <1>12, <1>13,
     <1>14, <1>15, <1>16, <1>17, <1>18, <1>19, <1>20, <1>21 DEF Next, PollStep

(* Every variable of the poll cycle keeps its type, whatever fails. *)
THEOREM TypeCorrect == Spec => []TypeOK
<1>1. QED
  BY InitTyped, NextTyped, PTL DEF Spec

----------------------------------------------------------------------------
(* The invariants that hold whatever fails. *)

CoreInv == CandidateInv /\ StagedInv /\ ShownInv

bookVars == <<store, versions, storeLoaded, data, deduped, pending, updates>>

(* A step that leaves the marks, the staged files and the sensors alone.    *)
LEMMA QuietStep == CoreInv /\ UNCHANGED bookVars => CoreInv'
BY DEF CoreInv, bookVars, CandidateInv, StagedInv, ShownInv, SameKey, NotOlder

LEMMA EmptyPoll ==
    /\ \A e \in Eics, x \in Suffixes, d \in Days : NoPending[<<e, x>>][d] = 0
    /\ \A e \in Eics : NoReading[e].day = 0
    /\ \A e \in Eics, d \in Days : NoMarks[<<e, d>>] = 0
BY DEF NoPending, NoReading, NoMarks, Stats, Keys

LEMMA ForgetStep == Forget /\ UNCHANGED store => CoreInv'
BY EmptyPoll DEF Forget, DropPoll, CoreInv, CandidateInv, StagedInv, ShownInv

LEMMA DropStep ==
    CoreInv /\ DropPoll /\ UNCHANGED <<store, versions, storeLoaded, data>> => CoreInv'
<1> SUFFICES ASSUME CoreInv, DropPoll, UNCHANGED <<store, versions, storeLoaded, data>>
             PROVE  CoreInv'
  OBVIOUS
<1>1. CandidateInv'
  BY DEF DropPoll, CandidateInv
<1>2. StagedInv'
  BY EmptyPoll DEF DropPoll, CoreInv, StagedInv
<1>3. ShownInv'
  BY EmptyPoll DEF DropPoll, CoreInv, ShownInv
<1>4. QED
  BY <1>1, <1>2, <1>3 DEF CoreInv

LEMMA AbortStep == CoreInv /\ Abort /\ UNCHANGED store => CoreInv'
BY ForgetStep, DropStep DEF Abort, memVars

(* Deduplication leaves one candidate of a key: two of the same key are     *)
(* ordered by version or, copies of the same file, by UID.                  *)
LEMMA FirstIsUnique ==
    ASSUME NEW C \in SUBSET Candidates,
           NEW c \in FirstOfEachKey(C), NEW d \in FirstOfEachKey(C), SameKey(c, d)
    PROVE  c = d
<1>1. c \in Candidates /\ d \in Candidates /\ SameKey(d, c)
  BY DEF FirstOfEachKey, SameKey
<1>2. ~SortsBefore(c, d) /\ ~SortsBefore(d, c)
  BY <1>1 DEF FirstOfEachKey
<1>3. c.version \in Nat /\ d.version \in Nat /\ ByteRank[c.uid] \in Nat /\ ByteRank[d.uid] \in Nat
  <2>1. c.version \in Nat /\ d.version \in Nat
    BY <1>1 DEF Candidates, Versions
  <2>2. c.uid \in Messages /\ d.uid \in Messages
    BY <1>1 DEF Candidates
  <2>3. QED
    BY <2>1, <2>2
<1>4. c.eic = d.eic /\ c.day = d.day
  BY DEF SameKey
<1>5. c.version = d.version /\ ByteRank[c.uid] = ByteRank[d.uid]
  BY <1>2, <1>3, <1>4 DEF SortsBefore
<1>6. c.uid = d.uid
  BY <1>1, <1>5 DEF Candidates
<1>7. QED
  BY <1>1, <1>4, <1>5, <1>6 DEF Candidates

LEMMA CollectStep ==
    ASSUME TypeOK, PollInv, CoreInv, Collect
    PROVE  CoreInv'
<1>0. PICK variants \in Answered : CollectFrom(variants)
  BY DEF Collect
<1>1. CandidatesIn(PollUids(variants)) \subseteq Candidates
  BY CollectedTyped DEF TypeOK, MailTypeOK
<1>2. ASSUME NEW c \in CandidatesIn(PollUids(variants)) PROVE versions[<<c.eic, c.day>>] < c.version
  <2>0. PICK m \in PollUids(variants) : \E f \in Mail[m].files :
           /\ Accepted(m, f)
           /\ c = [uid |-> m, eic |-> f.eic, day |-> f.day, version |-> f.version]
    BY DEF CandidatesIn
  <2>1. PICK f \in Mail[m].files :
           /\ Accepted(m, f)
           /\ c = [uid |-> m, eic |-> f.eic, day |-> f.day, version |-> f.version]
    BY <2>0
  <2>2. QED
    BY <2>1 DEF Accepted
<1>3. CandidateInv'
  <2>1. ASSUME NEW c \in deduped' PROVE versions'[<<c.eic, c.day>>] < c.version
    BY <1>0, <1>2 DEF CollectFrom, FirstOfEachKey, memVars
  <2>2. ASSUME NEW c \in deduped', NEW d \in deduped', SameKey(c, d) PROVE c = d
    BY <1>0, <1>1, <2>2, FirstIsUnique DEF CollectFrom
  <2>3. QED
    BY <2>1, <2>2 DEF CandidateInv, SameKey
<1>4. StagedInv' /\ ShownInv'
  BY <1>0 DEF CollectFrom, memVars, CoreInv, StagedInv, ShownInv, NotOlder
<1>5. QED
  BY <1>3, <1>4 DEF CoreInv

LEMMA ProcessStep ==
    ASSUME TypeOK, PollInv, CoreInv, NEW c \in deduped, ProcessFile(c)
    PROVE  CoreInv'
<1>1. /\ c.eic \in Eics /\ c.day \in Days /\ c.version \in Versions
      /\ versions[<<c.eic, c.day>>] < c.version
      /\ versions \in [Keys -> Versions0] /\ store \in [Keys -> Versions0]
      /\ storeLoaded
  BY DEF TypeOK, Candidates, CoreInv, CandidateInv, PollInv, ProcessFile
<1>2. /\ versions' = [versions EXCEPT ![<<c.eic, c.day>>] = c.version]
      /\ deduped' = deduped \ {c}
      /\ UNCHANGED <<store, storeLoaded, data>>
  BY DEF ProcessFile
<1>3. \A k \in Keys : versions'[k] \in Nat /\ versions[k] \in Nat /\ versions'[k] >= versions[k]
  BY <1>1, <1>2 DEF Keys, Versions, Versions0
<1>4. CandidateInv'
  <2>1. ASSUME NEW d \in deduped' PROVE versions'[<<d.eic, d.day>>] < d.version
    <3>1. d \in deduped /\ d # c /\ ~SameKey(d, c)
      BY <1>2, <2>1 DEF CoreInv, CandidateInv
    <3>2. <<d.eic, d.day>> # <<c.eic, c.day>>
      BY <3>1 DEF SameKey
    <3>3. versions'[<<d.eic, d.day>>] = versions[<<d.eic, d.day>>]
      BY <1>1, <1>2, <3>2 DEF Keys
    <3>4. QED
      BY <3>1, <3>3 DEF CoreInv, CandidateInv
  <2>2. QED
    BY <1>2, <2>1 DEF CoreInv, CandidateInv, SameKey
<1>5. StagedInv'
  <2>1. storeLoaded' => \A k \in Keys : store'[k] <= versions'[k]
    BY <1>1, <1>2, <1>3 DEF CoreInv, StagedInv, Versions0
  <2> SUFFICES ASSUME NEW e \in Eics, NEW d \in Days, NEW x \in Suffixes
               PROVE  pending'[<<e, x>>][d] # 0 =>
                         /\ x \in Series[e]
                         /\ pending'[<<e, x>>][d] = versions'[<<e, d>>]
                         /\ pending'[<<e, x>>][d] > store'[<<e, d>>]
    BY <2>1 DEF StagedInv
  <2>2. <<e, d>> \in Keys /\ <<e, x>> \in Stats
    BY DEF Keys, Stats
  <2>3. store[<<e, d>>] <= versions[<<e, d>>]
    BY <1>1, <2>2 DEF CoreInv, StagedInv
  <2>4. CASE e = c.eic /\ d = c.day
    <3>1. versions'[<<e, d>>] = c.version /\ c.version > store[<<e, d>>] /\ versions[<<e, d>>] # c.version
      BY <1>1, <1>2, <2>2, <2>3, <2>4 DEF Versions, Versions0
    <3>2. pending'[<<e, x>>][d] = IF x \in Series[e] THEN c.version ELSE pending[<<e, x>>][d]
      BY <1>1, <2>2, <2>4 DEF ProcessFile, CollectPending, TypeOK, Batch
    <3>3. ASSUME x \notin Series[e] PROVE pending[<<e, x>>][d] = 0
      BY <2>2, <3>3 DEF CoreInv, StagedInv
    <3>4. QED
      BY <1>2, <3>1, <3>2, <3>3
  <2>5. CASE ~(e = c.eic /\ d = c.day)
    <3>1. versions'[<<e, d>>] = versions[<<e, d>>]
      BY <1>1, <1>2, <2>2, <2>5 DEF Keys
    <3>2. pending'[<<e, x>>][d] = pending[<<e, x>>][d]
      BY <1>1, <2>2, <2>5 DEF ProcessFile, CollectPending, TypeOK, Batch
    <3>3. QED
      BY <1>2, <3>1, <3>2 DEF CoreInv, StagedInv
  <2>6. QED
    BY <2>4, <2>5
<1>6. ShownInv'
  <2> SUFFICES ASSUME NEW e \in Eics
               PROVE  /\ data'[e].day # 0 =>
                            /\ data'[e].version # 0
                            /\ data'[e].version <= versions'[<<e, data'[e].day>>]
                      /\ updates'[e].day # 0 =>
                            /\ updates'[e].version # 0
                            /\ updates'[e].version <= versions'[<<e, updates'[e].day>>]
                            /\ NotOlder(updates'[e], data'[e])
    BY DEF ShownInv, NotOlder
  <2>1. /\ data[e].day \in 0..LastDay /\ data[e].version \in Versions0
        /\ updates[e].day \in 0..LastDay /\ updates[e].version \in Versions0
    BY DEF TypeOK, Reading
  <2>2. data'[e] = data[e]
    BY <1>2
  <2>3. ASSUME data[e].day # 0
        PROVE  /\ data[e].version # 0
               /\ data[e].version <= versions[<<e, data[e].day>>]
               /\ data[e].version <= versions'[<<e, data[e].day>>]
               /\ data[e].day \in Days
    <3>1. data[e].day \in Days /\ <<e, data[e].day>> \in Keys
      BY <2>1, <2>3 DEF Days, Keys
    <3>2. data[e].version # 0 /\ data[e].version <= versions[<<e, data[e].day>>]
      BY <2>3 DEF CoreInv, ShownInv
    <3>3. QED
      BY <1>3, <2>1, <3>1, <3>2 DEF Versions0
  <2>4. CASE updates'[e] = updates[e]
    <3>1. ASSUME updates[e].day # 0
          PROVE  /\ updates[e].version # 0
                 /\ updates[e].version <= versions'[<<e, updates[e].day>>]
                 /\ NotOlder(updates[e], data[e])
      <4>1. updates[e].day \in Days /\ <<e, updates[e].day>> \in Keys
        BY <2>1, <3>1 DEF Days, Keys
      <4>2. /\ updates[e].version # 0 /\ NotOlder(updates[e], data[e])
            /\ updates[e].version <= versions[<<e, updates[e].day>>]
        BY <3>1 DEF CoreInv, ShownInv
      <4>3. QED
        BY <1>3, <2>1, <4>1, <4>2 DEF Versions0
    <3>2. QED
      BY <2>2, <2>3, <2>4, <3>1
  <2>5. CASE updates'[e] # updates[e]
    <3>1. /\ e = c.eic /\ updates'[e] = [day |-> c.day, version |-> c.version]
          /\ ~ \E d \in Days : d > c.day /\ versions[<<c.eic, d>>] # 0
      BY <1>1, <2>5 DEF ProcessFile, CollectPending, TypeOK
    <3>2. versions'[<<e, c.day>>] = c.version /\ c.version # 0 /\ c.version \in Nat /\ c.day \in Nat /\ c.day # 0
      BY <1>1, <1>2, <3>1 DEF Keys, Versions, Days
    <3>3. NotOlder([day |-> c.day, version |-> c.version], data[e])
      <4>1. CASE data[e].day = 0
        BY <3>2, <4>1 DEF NotOlder
      <4>2. CASE data[e].day # 0
        <5>1. versions[<<e, data[e].day>>] # 0
          BY <1>3, <2>1, <2>3, <4>2 DEF Keys, Versions0
        <5>2. ~(data[e].day > c.day)
          BY <2>3, <3>1, <4>2, <5>1
        <5>3. data[e].day = c.day => data[e].version <= c.version
          BY <1>1, <2>1, <2>3, <3>1, <3>2, <4>2 DEF Keys, Versions0
        <5>4. QED
          BY <2>1, <3>2, <5>2, <5>3 DEF NotOlder
      <4>3. QED BY <4>1, <4>2
    <3>4. c.version <= c.version
      BY <3>2
    <3>5. QED
      BY <2>2, <2>3, <3>1, <3>2, <3>3, <3>4
  <2>6. QED
    BY <2>4, <2>5
<1>7. QED
  BY <1>4, <1>5, <1>6 DEF CoreInv

LEMMA PollInvStep == TypeOK /\ PollInv /\ [Next]_vars => PollInv'
<1> SUFFICES ASSUME TypeOK, PollInv, [Next]_vars PROVE PollInv'
  OBVIOUS
<1> USE DEF PollInv, memVars, askVars, pollVars
<1>f. Forget => PollInv'
  BY DEF Forget, DropPoll
<1>1. CASE BeginPoll
  BY <1>1 DEF BeginPoll
<1>2. CASE ReadFlag \/ ClearFlag
  BY <1>2 DEF ReadFlag, ClearFlag
<1>3. CASE OpenSession \/ MarkOld \/ ExpungeOld
  BY <1>3 DEF OpenSession, MarkOld, ExpungeOld
<1>4. CASE Collect
  BY <1>4 DEF Collect, CollectFrom
<1>5. CASE \E c \in deduped : ProcessFile(c)
  BY <1>5 DEF ProcessFile
<1>6. CASE ExpungeArchived \/ Close
  BY <1>6 DEF ExpungeArchived, Close
<1>7. CASE \E s \in Stats : ImportStat(s)
  BY <1>7 DEF ImportStat
<1>8. CASE FinishPoll
  BY <1>8 DEF FinishPoll, DropPoll
<1>9. CASE PollFault
  <2>1. CASE firstRefreshDone
    <3>1. DropPoll /\ UNCHANGED <<versions, storeLoaded, firstRefreshDone>>
      BY <1>9, <2>1, FaultEnds
    <3>2. storeLoaded
      BY <2>1
    <3>3. QED
      BY <2>1, <3>1, <3>2 DEF DropPoll
  <2>2. CASE ~firstRefreshDone
    BY <1>9, <1>f, <2>2, FaultEnds
  <2>3. QED
    BY <2>1, <2>2
<1>10. CASE Reconfigure \/ Restart \/ Crash
  BY <1>f, <1>10 DEF Reconfigure, Restart, Crash
<1>11. CASE SkipPoll \/ PressFullScan \/ PressPollNow \/ WindowOpens \/ WindowCloses
  <2>1. UNCHANGED <<pc, deduped, pending, updates, toImport>>
    BY <1>11 DEF SkipPoll, PressFullScan, PressPollNow, WindowOpens, WindowCloses
  <2>2. UNCHANGED <<firstRefreshDone, storeLoaded, versions, data>>
    BY <1>11 DEF SkipPoll, PressFullScan, PressPollNow, WindowOpens, WindowCloses
  <2>3. QED
    BY <2>1, <2>2
<1>12. CASE World \/ RecorderThread
  BY <1>12 DEF World, RecorderThread
<1>13. CASE UNCHANGED vars
  BY <1>13 DEF vars
<1>14. QED
  BY <1>1, <1>2, <1>3, <1>4, <1>5, <1>6, <1>7, <1>8, <1>9, <1>10, <1>11, <1>12, <1>13
  DEF Next, PollStep

LEMMA BeginStep ==
    ASSUME TypeOK, PollInv, CoreInv, BeginPoll
    PROVE  CoreInv'
<1>1. /\ UNCHANGED <<store, data, deduped, pending, updates>>
      /\ storeLoaded' /\ versions' = IF storeLoaded THEN versions ELSE store
      /\ pending = NoPending /\ updates = NoReading /\ deduped = {}
      /\ ~storeLoaded => data = NoReading
  BY DEF BeginPoll, PollInv, pollVars
<1>2. CandidateInv'
  BY <1>1 DEF CandidateInv
<1>3. StagedInv'
  <2>1. \A k \in Keys : store'[k] <= versions'[k]
    BY <1>1 DEF CoreInv, StagedInv, TypeOK, Versions0
  <2>2. QED
    BY <1>1, <2>1, EmptyPoll DEF StagedInv
<1>4. ShownInv'
  <2>1. CASE storeLoaded
    BY <1>1, <2>1 DEF CoreInv, ShownInv, NotOlder
  <2>2. CASE ~storeLoaded
    BY <1>1, <2>2, EmptyPoll DEF ShownInv
  <2>3. QED BY <2>1, <2>2
<1>5. QED
  BY <1>2, <1>3, <1>4 DEF CoreInv

(* The end of a poll may show, of each EIC, its new values. *)
LEMMA MergeStep ==
    ASSUME TypeOK, CoreInv, DropPoll, UNCHANGED <<versions, storeLoaded>>,
           store' = versions \/ store' = store,
           NEW has \in SUBSET Eics,
           data' = [e \in Eics |-> IF e \in has /\ updates[e].day # 0 THEN updates[e] ELSE data[e]]
    PROVE  /\ CoreInv'
           /\ \A e \in Eics : NotOlder(data'[e], data[e])
<1>2. CandidateInv'
  BY DEF DropPoll, CandidateInv
<1>3. StagedInv'
  <2>1. storeLoaded' => \A k \in Keys : store'[k] <= versions'[k]
    BY DEF CoreInv, StagedInv, TypeOK, Versions0
  <2>2. QED
    BY <2>1, EmptyPoll DEF DropPoll, StagedInv
<1>4. ShownInv'
  <2>1. ASSUME NEW e \in Eics, data'[e].day # 0
        PROVE  data'[e].version # 0 /\ data'[e].version <= versions'[<<e, data'[e].day>>]
    BY <2>1 DEF CoreInv, ShownInv
  <2>2. \A e \in Eics : updates'[e].day = 0
    BY EmptyPoll DEF DropPoll
  <2>3. QED
    BY <2>1, <2>2 DEF ShownInv
<1>5. ASSUME NEW e \in Eics PROVE NotOlder(data'[e], data[e])
  <2>1. data[e].day \in Int /\ data[e].version \in Int
    BY DEF TypeOK, Reading, Versions0
  <2>2. CASE e \in has /\ updates[e].day # 0
    <3>1. NotOlder(updates[e], data[e])
      BY <2>2 DEF CoreInv, ShownInv
    <3>2. data'[e] = updates[e]
      BY <2>2
    <3>3. QED
      BY <3>1, <3>2
  <2>3. CASE ~(e \in has /\ updates[e].day # 0)
    <3>1. data'[e] = data[e]
      BY <2>3
    <3>2. QED
      BY <2>1, <3>1 DEF NotOlder
  <2>4. QED
    BY <2>2, <2>3
<1>6. QED
  BY <1>2, <1>3, <1>4, <1>5 DEF CoreInv

LEMMA FinishStep ==
    ASSUME TypeOK, CoreInv, FinishPoll
    PROVE  /\ CoreInv'
           /\ \A e \in Eics : NotOlder(data'[e], data[e])
<1> DEFINE has == Eics
<1>1. data' = [e \in Eics |-> IF e \in has /\ updates[e].day # 0 THEN updates[e] ELSE data[e]]
  BY DEF FinishPoll
<1>2. has \in SUBSET Eics
  OBVIOUS
<1> HIDE DEF has
<1>3. QED
  BY <1>1, <1>2, MergeStep DEF FinishPoll

LEMMA SaveFailsStep ==
    ASSUME TypeOK, CoreInv, SaveFails
    PROVE  /\ CoreInv'
           /\ firstRefreshDone => \A e \in Eics : NotOlder(data'[e], data[e])
<1>1. CASE firstRefreshDone
  <2>1. PICK has \in SUBSET Eics :
           data' = [e \in Eics |-> IF e \in has /\ updates[e].day # 0 THEN updates[e] ELSE data[e]]
    BY <1>1 DEF SaveFails
  <2>2. QED
    BY <1>1, <2>1, MergeStep DEF SaveFails
<1>2. CASE ~firstRefreshDone
  BY <1>2, ForgetStep DEF SaveFails
<1>3. QED
  BY <1>1, <1>2

LEMMA CoreInvStep == SafeInv /\ [Next]_vars => CoreInv'
<1> SUFFICES ASSUME TypeOK, PollInv, CoreInv, [Next]_vars PROVE CoreInv'
  BY DEF SafeInv, CoreInv
<1> USE DEF memVars, askVars, pollVars, bookVars
<1>1. CASE BeginPoll
  BY <1>1, BeginStep
<1>2. CASE ReadFlag \/ ClearFlag
  BY <1>2, QuietStep DEF ReadFlag, ClearFlag
<1>3. CASE OpenSession \/ MarkOld \/ ExpungeOld
  BY <1>3, QuietStep DEF OpenSession, MarkOld, ExpungeOld
<1>4. CASE Collect
  BY <1>4, CollectStep
<1>5. CASE \E c \in deduped : ProcessFile(c)
  BY <1>5, ProcessStep
<1>6. CASE ExpungeArchived \/ Close
  BY <1>6, QuietStep DEF ExpungeArchived, Close
<1>7. CASE \E s \in Stats : ImportStat(s)
  BY <1>7, QuietStep DEF ImportStat
<1>8. CASE FinishPoll
  BY <1>8, FinishStep
<1>9. CASE PollFault
  <2>1. CASE SaveFails
    BY <2>1, SaveFailsStep
  <2>2. CASE ~SaveFails
    BY <1>9, <2>2, AbortStep DEF PollFault, SeedFails, OpenFails, PollFails, ImportFails
  <2>3. QED
    BY <2>1, <2>2
<1>10. CASE Reconfigure \/ Restart \/ Crash
  BY <1>10, ForgetStep DEF Reconfigure, Restart, Crash
<1>11. CASE SkipPoll \/ PressFullScan \/ PressPollNow \/ WindowOpens \/ WindowCloses
  BY <1>11, QuietStep DEF SkipPoll, PressFullScan, PressPollNow, WindowOpens, WindowCloses
<1>12. CASE World \/ RecorderThread
  BY <1>12, QuietStep DEF World, RecorderThread
<1>13. CASE UNCHANGED vars
  BY <1>13, QuietStep DEF vars
<1>14. QED
  BY <1>1, <1>2, <1>3, <1>4, <1>5, <1>6, <1>7, <1>8, <1>9, <1>10, <1>11, <1>12, <1>13
  DEF Next, PollStep

LEMMA InitSafe == Init => SafeInv
<1> SUFFICES ASSUME Init PROVE SafeInv
  OBVIOUS
<1>1. PollInv /\ CandidateInv
  BY DEF Init, PollInv, CandidateInv
<1>2. StagedInv /\ ShownInv
  BY EmptyPoll DEF Init, StagedInv, ShownInv
<1>3. QED
  BY <1>1, <1>2, InitTyped DEF SafeInv

THEOREM SafeInvariant == Spec => []SafeInv
<1>1. SafeInv /\ [Next]_vars => SafeInv'
  BY NextTyped, PollInvStep, CoreInvStep DEF SafeInv, CoreInv
<1>2. QED
  BY InitSafe, <1>1, PTL DEF Spec

(* Nothing is staged that the Store already has, whatever fails: a poll     *)
(* only takes a file that is ahead of the marks it has loaded.              *)
THEOREM NoReprocessing == Spec => []NeverReprocessed
<1>1. SafeInv => NeverReprocessed
  BY DEF SafeInv, StagedInv, NeverReprocessed
<1>2. QED
  BY SafeInvariant, <1>1, PTL

(* No step shows an older day, or an older version of the day shown, while  *)
(* the coordinator lives, whatever fails and in whatever order files come.  *)
THEOREM FreshnessMonotone == Spec => FreshnessNeverRollsBack
<1> DEFINE Fresh == storeLoaded' => \A e \in Eics : NotOlder(data'[e], data[e])
<1>1. SafeInv /\ [Next]_vars => [Fresh]_vars
  <2> SUFFICES ASSUME SafeInv, Next PROVE Fresh
    OBVIOUS
  <2> USE DEF memVars, askVars, pollVars
  <2>t. \A e \in Eics : data[e].day \in Int /\ data[e].version \in Int
    BY DEF SafeInv, TypeOK, Reading, Versions0
  <2>q. data' = data => Fresh
    BY <2>t DEF NotOlder
  <2>f. Forget => Fresh
    BY DEF Forget
  <2>1. CASE FinishPoll
    BY <2>1, FinishStep DEF SafeInv, CoreInv
  <2>2. CASE PollFault
    <3>1. CASE SaveFails
      BY <2>f, <3>1, SaveFailsStep DEF SafeInv, CoreInv, SaveFails
    <3>2. CASE ~SaveFails
      BY <2>2, <2>q, <2>f, <3>2
      DEF PollFault, SeedFails, OpenFails, PollFails, ImportFails, Abort
    <3>3. QED
      BY <3>1, <3>2
  <2>3. CASE Reconfigure \/ Restart \/ Crash
    BY <2>3, <2>f DEF Reconfigure, Restart, Crash
  <2>4. CASE BeginPoll \/ ReadFlag \/ ClearFlag \/ OpenSession \/ MarkOld \/ ExpungeOld \/ Collect
    BY <2>4, <2>q DEF BeginPoll, ReadFlag, ClearFlag, OpenSession, MarkOld, ExpungeOld, Collect, CollectFrom
  <2>5. CASE \/ \E c \in deduped : ProcessFile(c)
             \/ ExpungeArchived \/ Close
             \/ \E s \in Stats : ImportStat(s)
    BY <2>5, <2>q DEF ProcessFile, ExpungeArchived, Close, ImportStat
  <2>6. CASE SkipPoll \/ PressFullScan \/ PressPollNow \/ WindowOpens \/ WindowCloses
    BY <2>6, <2>q DEF SkipPoll, PressFullScan, PressPollNow, WindowOpens, WindowCloses
  <2>7. CASE World \/ RecorderThread
    BY <2>7, <2>q DEF World, RecorderThread
  <2>8. QED
    BY <2>1, <2>2, <2>3, <2>4, <2>5, <2>6, <2>7 DEF Next, PollStep
<1>2. QED
  BY SafeInvariant, <1>1, PTL DEF Spec, FreshnessNeverRollsBack
=============================================================================
