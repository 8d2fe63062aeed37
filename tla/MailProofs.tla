---------------------------- MODULE MailProofs -----------------------------
(***************************************************************************)
(* What the integration does to the user's mail.                           *)
(***************************************************************************)
EXTENDS LedgerProofs, FiniteSums

(* No other mail program flags messages in the folder. *)
AloneInFolder == "otherClient" \notin Faults

(* What a step can do to the mailbox. *)
MailSteps ==
    \/ \E m \in Messages : Deliver(m)
    \/ NextDay
    \/ /\ CleanupMode = "delete"
       /\ \E variants \in Answered : MarkForDelete(SearchBefore(variants, today - DeleteAfter))
    \/ \E c \in deduped : CleanupMode = "archive" /\ Archive(c.uid)
    \/ RemoveFlagged
    \/ UNCHANGED mailVars

(* A cleanup is only reached in delete mode. *)
CleanupInv == pc = "cleanup" => CleanupMode = "delete"

LEMMA CleanupStep ==
    ASSUME CleanupInv, [Next]_vars
    PROVE  CleanupInv'
<1> USE DEF CleanupInv, memVars, askVars, pollVars
<1>f. DropPoll => CleanupInv'
  BY DEF DropPoll
<1>1. CASE BeginPoll \/ ReadFlag \/ ClearFlag \/ OpenSession
  BY <1>1 DEF BeginPoll, ReadFlag, ClearFlag, OpenSession
<1>2. CASE MarkOld \/ ExpungeOld \/ Collect
  BY <1>2 DEF MarkOld, ExpungeOld, Collect, CollectFrom
<1>3. CASE \E c \in deduped : ProcessFile(c)
  BY <1>3 DEF ProcessFile
<1>4. CASE ExpungeArchived \/ Close
  BY <1>4 DEF ExpungeArchived, Close
<1>5. CASE \E s \in Stats : ImportStat(s)
  BY <1>5 DEF ImportStat
<1>6. CASE FinishPoll
  BY <1>6, <1>f DEF FinishPoll
<1>7. CASE PollFault
  BY <1>7, <1>f
  DEF PollFault, SeedFails, OpenFails, PollFails, ImportFails, SaveFails, Abort, Forget
<1>8. CASE Reconfigure \/ Restart \/ Crash
  BY <1>8, <1>f DEF Reconfigure, Restart, Crash, Forget
<1>9. CASE SkipPoll \/ PressFullScan \/ PressPollNow \/ WindowOpens \/ WindowCloses
  BY <1>9 DEF SkipPoll, PressFullScan, PressPollNow, WindowOpens, WindowCloses
<1>10. CASE World \/ RecorderThread
  BY <1>10 DEF World, RecorderThread
<1>11. CASE UNCHANGED vars
  BY <1>11 DEF vars
<1>12. QED
  BY <1>1, <1>2, <1>3, <1>4, <1>5, <1>6, <1>7, <1>8, <1>9, <1>10, <1>11 DEF Next, PollStep

(* Every step does one of these things to the mailbox. *)
LEMMA StepsOnMail ==
    ASSUME AloneInFolder, CleanupInv, [Next]_vars
    PROVE  MailSteps
<1>1. CASE World
  BY <1>1 DEF World, MailSteps, AloneInFolder, UserFlags
<1>2. CASE MarkOld
  BY <1>2 DEF MarkOld, MailSteps, CleanupInv
<1>3. CASE ExpungeOld \/ ExpungeArchived
  BY <1>3 DEF ExpungeOld, ExpungeArchived, Expunge, MailSteps
<1>4. CASE Close \/ PollFails
  BY <1>4 DEF Close, PollFails, CloseSession, MailSteps
<1>5. CASE \E c \in deduped : ProcessFile(c)
  BY <1>5 DEF ProcessFile, MailSteps
<1>6. CASE BeginPoll \/ ReadFlag \/ ClearFlag \/ OpenSession \/ Collect \/ FinishPoll
  BY <1>6 DEF BeginPoll, ReadFlag, ClearFlag, OpenSession, Collect, CollectFrom, FinishPoll, MailSteps
<1>7. CASE \/ \E s \in Stats : ImportStat(s)
           \/ SeedFails \/ OpenFails \/ ImportFails \/ SaveFails
  BY <1>7 DEF ImportStat, SeedFails, OpenFails, ImportFails, SaveFails, MailSteps
<1>8. CASE SkipPoll \/ PressFullScan \/ PressPollNow \/ WindowOpens \/ WindowCloses
  BY <1>8 DEF SkipPoll, PressFullScan, PressPollNow, WindowOpens, WindowCloses, MailSteps
<1>9. CASE RecorderThread \/ Reconfigure \/ Restart \/ Crash \/ UNCHANGED vars
  BY <1>9 DEF RecorderThread, Reconfigure, Restart, Crash, vars, MailSteps
<1>10. QED
  BY <1>1, <1>2, <1>3, <1>4, <1>5, <1>6, <1>7, <1>8, <1>9 DEF Next, PollStep, PollFault

----------------------------------------------------------------------------
(* Flagged messages have a copy, and no message is missing. *)
CopiedInv == flagged \subseteq archived /\ NoMailLost

LEMMA CopiedStep ==
    ASSUME CleanupMode # "delete", MailTypeOK, CopiedInv, MailSteps
    PROVE  CopiedInv'
<1> USE DEF CopiedInv, NoMailLost, MailTypeOK
<1>1. ASSUME NEW m \in Messages, Deliver(m) PROVE CopiedInv'
  BY <1>1 DEF Deliver
<1>2. CASE NextDay \/ UNCHANGED mailVars
  BY <1>2 DEF NextDay, mailVars
<1>3. CASE \E c \in deduped : CleanupMode = "archive" /\ Archive(c.uid)
  BY <1>3 DEF Archive
<1>4. CASE RemoveFlagged
  BY <1>4 DEF RemoveFlagged
<1>5. QED
  BY <1>1, <1>2, <1>3, <1>4 DEF MailSteps

(* Outside delete mode a message is in the folder or in the archive from    *)
(* its delivery on, whatever fails: it is flagged only once it is copied,   *)
(* and only flagged messages are expunged.                                  *)
THEOREM MailKept ==
    CleanupMode # "delete" /\ AloneInFolder => (Spec => []NoMailLost)
<1> SUFFICES ASSUME CleanupMode # "delete", AloneInFolder PROVE Spec => []NoMailLost
  OBVIOUS
<1>1. Init => CopiedInv /\ CleanupInv
  BY DEF Init, MailInit, CopiedInv, NoMailLost, CleanupInv
<1>2. TypeOK /\ CopiedInv /\ CleanupInv /\ [Next]_vars => CopiedInv' /\ CleanupInv'
  BY StepsOnMail, CopiedStep, CleanupStep DEF TypeOK
<1>3. CopiedInv => NoMailLost
  BY DEF CopiedInv
<1>4. QED
  BY <1>1, <1>2, <1>3, TypeCorrect, PTL DEF Spec

----------------------------------------------------------------------------
(* Flagged messages are old, and every message in the folder was delivered. *)
OldInv ==
    /\ flagged \subseteq inbox
    /\ \A m \in inbox : arrived[m] # 0
    /\ \A m \in flagged : arrived[m] < today - DeleteAfter

DeletedOld == \A m \in inbox \ inbox' : arrived[m] < today - DeleteAfter

LEMMA OldStep ==
    ASSUME CleanupMode = "delete", MailTypeOK, OldInv, MailSteps
    PROVE  OldInv' /\ DeletedOld
<1> USE DEF OldInv, DeletedOld, MailTypeOK
<1>t. /\ today \in Int /\ today # 0 /\ DeleteAfter \in Int
      /\ \A m \in Messages : arrived[m] \in Int
  BY FilesAssumption, CoordinatorAssumption DEF Days
<1>1. ASSUME NEW m \in Messages, Deliver(m) PROVE OldInv' /\ DeletedOld
  <2>1. arrived[m] = 0 /\ m \notin flagged
    <3>1. ~(m < m)
      BY MailAssumption
    <3>2. arrived[m] = 0
      BY <1>1, <3>1 DEF Deliver
    <3>3. QED
      BY <3>2
  <2>2. /\ arrived' = [arrived EXCEPT ![m] = today] /\ inbox' = inbox \union {m}
        /\ flagged' = flagged /\ today' = today
    BY <1>1 DEF Deliver
  <2>3. QED
    BY <1>t, <2>1, <2>2
<1>2. CASE NextDay
  BY <1>t, <1>2 DEF NextDay
<1>3. CASE \E variants \in Answered : MarkForDelete(SearchBefore(variants, today - DeleteAfter))
  BY <1>t, <1>3 DEF MarkForDelete, SearchBefore, Matching
<1>4. CASE RemoveFlagged
  BY <1>4 DEF RemoveFlagged
<1>5. CASE UNCHANGED mailVars
  BY <1>5 DEF mailVars
<1>6. QED
  BY <1>1, <1>2, <1>3, <1>4, <1>5 DEF MailSteps

(* In delete mode a message leaves the folder only when it is more than     *)
(* DeleteAfter days old, however its cleanup is interrupted and whichever   *)
(* of the EXPUNGE and CLOSE commands removes it.                            *)
THEOREM OnlyOldMailDeleted ==
    CleanupMode = "delete" /\ AloneInFolder => (Spec => OnlyOldDeleted)
<1> SUFFICES ASSUME CleanupMode = "delete", AloneInFolder PROVE Spec => OnlyOldDeleted
  OBVIOUS
<1>1. Init => OldInv /\ CleanupInv
  BY DEF Init, MailInit, OldInv, CleanupInv
<1>2. TypeOK /\ OldInv /\ CleanupInv /\ [Next]_vars => OldInv' /\ CleanupInv' /\ DeletedOld
  BY StepsOnMail, OldStep, CleanupStep DEF TypeOK
<1>3. QED
  BY <1>1, <1>2, TypeCorrect, PTL DEF Spec, OnlyOldDeleted, DeletedOld

----------------------------------------------------------------------------
(* Nothing the integration knows of is about a day that has not come:       *)
(* neither the files delivered nor, therefore, what is marked.  The search  *)
(* cutoff is computed from the marks.                                       *)
PastInv ==
    /\ \A m \in Messages : arrived[m] # 0 =>
          \A f \in Mail[m].files : f.body = "good" => f.day <= today
    /\ \A k \in Keys : store[k] # 0 => k[2] <= today
    /\ \A k \in Keys : versions[k] # 0 => k[2] <= today

(* What a step can do to marks, mail and calendar. *)
PastSteps ==
    \/ UNCHANGED <<today, arrived>>
       /\ \/ UNCHANGED <<store, versions>>
          \/ store' = store /\ versions' \in {store, NoMarks}
          \/ versions' = versions /\ store' = versions
          \/ \E c \in deduped :
                store' = store /\ versions' = [versions EXCEPT ![<<c.eic, c.day>>] = c.version]
    \/ UNCHANGED <<store, versions>> /\ (NextDay \/ \E m \in Messages : Deliver(m))

LEMMA StepsOnPast ==
    ASSUME [Next]_vars
    PROVE  PastSteps
<1> USE DEF PastSteps, mailVars, memVars
<1>f. Forget => versions' = NoMarks
  BY DEF Forget
<1>c. CloseSession => UNCHANGED <<today, arrived>>
  BY DEF CloseSession, RemoveFlagged
<1>1. CASE BeginPoll
  BY <1>1 DEF BeginPoll
<1>2. CASE ReadFlag \/ ClearFlag \/ OpenSession \/ MarkOld \/ ExpungeOld
  BY <1>2 DEF ReadFlag, ClearFlag, OpenSession, MarkOld, ExpungeOld, MarkForDelete, Expunge,
              RemoveFlagged
<1>3. CASE Collect \/ ExpungeArchived
  BY <1>3 DEF Collect, CollectFrom, ExpungeArchived, Expunge, RemoveFlagged
<1>4. CASE Close
  BY <1>4, <1>c DEF Close
<1>5. ASSUME NEW c \in deduped, ProcessFile(c) PROVE PastSteps
  BY <1>5 DEF ProcessFile, Archive
<1>6. CASE \E s \in Stats : ImportStat(s)
  BY <1>6 DEF ImportStat
<1>7. CASE FinishPoll
  BY <1>7 DEF FinishPoll
<1>8. CASE PollFault
  <2>1. UNCHANGED <<today, arrived>>
    BY <1>8, <1>c DEF PollFault, SeedFails, OpenFails, PollFails, ImportFails, SaveFails
  <2>2. \/ DropPoll /\ UNCHANGED <<versions, store>>
        \/ Forget /\ UNCHANGED store
    BY <1>8, FaultEnds
  <2>3. QED
    BY <2>1, <2>2, <1>f DEF DropPoll
<1>9. CASE Reconfigure \/ Restart \/ Crash
  BY <1>9, <1>f DEF Reconfigure, Restart, Crash
<1>10. CASE SkipPoll \/ PressFullScan \/ PressPollNow \/ WindowOpens \/ WindowCloses
  BY <1>10 DEF SkipPoll, PressFullScan, PressPollNow, WindowOpens, WindowCloses
<1>11. CASE World
  BY <1>11 DEF World, UserFlags
<1>12. CASE RecorderThread \/ UNCHANGED vars
  BY <1>12 DEF RecorderThread, vars
<1>13. QED
  BY <1>1, <1>2, <1>3, <1>4, <1>5, <1>6, <1>7, <1>8, <1>9, <1>10, <1>11, <1>12
  DEF Next, PollStep

LEMMA PastStep ==
    ASSUME TypeOK, OriginInv, PastInv, [Next]_vars
    PROVE  PastInv'
<1>t. /\ today \in Int /\ (today' \in Int => today <= today' \/ today' < today)
      /\ \A m \in Messages : arrived[m] \in Int
      /\ \A m \in Messages : \A f \in Mail[m].files : f.day \in Int
      /\ \A k \in Keys : k[2] \in Int
      /\ versions \in [Keys -> Versions0] /\ store \in [Keys -> Versions0]
      /\ today # 0 /\ arrived \in [Messages -> 0..LastDay]
  BY FilesAssumption, MailAssumption DEF TypeOK, MailTypeOK, Days, Files, Keys
<1>1. CASE UNCHANGED <<today, arrived, store, versions>>
  BY <1>1 DEF PastInv
<1>2. CASE UNCHANGED <<today, arrived, store>> /\ versions' \in {store, NoMarks}
  BY <1>2 DEF PastInv, NoMarks
<1>3. CASE UNCHANGED <<today, arrived, versions>> /\ store' = versions
  BY <1>3 DEF PastInv
<1>4. ASSUME UNCHANGED <<today, arrived, store>>, NEW c \in deduped,
             versions' = [versions EXCEPT ![<<c.eic, c.day>>] = c.version]
      PROVE  PastInv'
  <2>1. c.uid \in Messages /\ c.eic \in Eics /\ c.day \in Days
    BY DEF TypeOK, Candidates
  <2>2. c.day <= today
    <3>1. PICK f \in Mail[c.uid].files : f.body = "good" /\ f.day = c.day
      BY DEF OriginInv
    <3>2. arrived[c.uid] # 0
      BY DEF OriginInv
    <3>3. QED
      BY <2>1, <3>1, <3>2 DEF PastInv
  <2>3. \A k \in Keys : versions'[k] # 0 => k[2] <= today
    <3> SUFFICES ASSUME NEW k \in Keys, versions'[k] # 0 PROVE k[2] <= today
      OBVIOUS
    <3>1. CASE k = <<c.eic, c.day>>
      BY <2>2, <3>1
    <3>2. CASE k # <<c.eic, c.day>>
      BY <1>4, <1>t, <3>2 DEF PastInv
    <3>3. QED
      BY <3>1, <3>2
  <2>4. QED
    BY <1>4, <2>3 DEF PastInv
<1>5. CASE UNCHANGED <<store, versions>> /\ NextDay
  <2>1. today' = today + 1 /\ arrived' = arrived
    BY <1>5 DEF NextDay
  <2>2. \A d \in Int : d <= today => d <= today'
    BY <1>t, <2>1
  <2>3. QED
    BY <1>5, <1>t, <2>1, <2>2 DEF PastInv
<1>6. ASSUME UNCHANGED <<store, versions>>, NEW m \in Messages, Deliver(m) PROVE PastInv'
  <2>1. \A n \in Messages : n # m => arrived'[n] = arrived[n]
    BY <1>6, <1>t DEF Deliver
  <2>2. today' = today /\ \A f \in Mail[m].files : f.body = "good" => f.day <= today
    BY <1>6 DEF Deliver
  <2>3. QED
    BY <1>6, <2>1, <2>2 DEF PastInv
<1>7. QED
  BY <1>1, <1>2, <1>3, <1>4, <1>5, <1>6, StepsOnPast DEF PastSteps

----------------------------------------------------------------------------
(* The search. *)

(* A message that has arrived in the last days is after the cutoff.         *)
LEMMA CutoffIsEarly ==
    ASSUME TypeOK, PastInv, NEW day \in Nat, day >= today - BufferDays, day >= today - ScanWindow
    PROVE  day >= Cutoff
<1> DEFINE starts == {today - ScanWindow} \union {d - BufferDays : d \in MarkedDays}
<1>1. today \in Int /\ ScanWindow \in Int /\ BufferDays \in Int /\ Days \in SUBSET Int
  BY FilesAssumption, CoordinatorAssumption DEF TypeOK, MailTypeOK, Days
<1>2. MarkedDays \in SUBSET Days /\ \A d \in MarkedDays : d <= today
  BY DEF MarkedDays, Keys, PastInv
<1>3. starts \in SUBSET Int /\ IsFiniteSet(starts) /\ starts # {}
  <2>1. IsFiniteSet(Days)
    BY FilesAssumption, FS_Interval DEF Days
  <2>2. IsFiniteSet(MarkedDays)
    BY <1>2, <2>1, FiniteParts
  <2>3. IsFiniteSet({d - BufferDays : d \in MarkedDays})
    <3>1. IsFiniteSet((1 - BufferDays)..(LastDay - BufferDays))
      BY <1>1, FilesAssumption, FS_Interval
    <3>2. {d - BufferDays : d \in MarkedDays} \subseteq (1 - BufferDays)..(LastDay - BufferDays)
      BY <1>1, <1>2, FilesAssumption DEF Days
    <3>3. QED
      BY <3>1, <3>2, FiniteParts
  <2>4. IsFiniteSet(starts)
    BY <2>3, FS_Singleton, FS_Union
  <2>5. QED
    BY <1>1, <1>2, <2>4
<1>4. \A s \in starts : day >= s
  BY <1>1, <1>2
<1>5. Max(starts) \in starts
  <2> HIDE DEF starts
  <2>1. QED
    BY <1>3, MaxIs
<1>6. QED
  BY <1>4, <1>5 DEF Cutoff

(* Of the candidates of a key one is kept, of the highest version there is. *)
LEMMA HighestIsKept ==
    ASSUME NEW C \in SUBSET Candidates, NEW c \in C
    PROVE  \E k \in FirstOfEachKey(C) :
              k.eic = c.eic /\ k.day = c.day /\ k.version >= c.version
<1> DEFINE same == {d \in C : SameKey(c, d)}
           versionsOf == {d.version : d \in same}
<1>1. \A d \in C : /\ d.version \in Versions /\ d.version \in Int /\ d.uid \in Messages
                   /\ ByteRank[d.uid] \in Int /\ d.day \in Int
  <2> SUFFICES ASSUME NEW d \in C
               PROVE  /\ d.version \in Versions /\ d.version \in Int /\ d.uid \in Messages
                      /\ ByteRank[d.uid] \in Int /\ d.day \in Int
    OBVIOUS
  <2>1. d.version \in Versions /\ d.uid \in Messages /\ d.day \in Days
    BY DEF Candidates
  <2>2. d.version \in Int /\ d.day \in Int
    BY <2>1, FilesAssumption DEF Versions, Days
  <2>3. ByteRank[d.uid] \in Int
    <3>1. ByteRank \in [Messages -> Nat]
      BY MailAssumption
    <3>2. QED
      BY <2>1, <3>1
  <2>4. QED
    BY <2>1, <2>2, <2>3
<1>2. c \in same
  BY DEF SameKey
<1>3. versionsOf \in SUBSET Int /\ IsFiniteSet(versionsOf) /\ versionsOf # {}
  <2>1. IsFiniteSet(Versions)
    BY FilesAssumption, FS_Interval DEF Versions
  <2>2. versionsOf \in SUBSET Versions
    BY <1>1
  <2>3. QED
    BY <1>1, <1>2, <2>1, <2>2, FiniteParts
<1> DEFINE v == Max(versionsOf)
<1>4. v \in versionsOf /\ \A w \in versionsOf : w <= v
  <2> HIDE DEF versionsOf
  <2>1. QED
    BY <1>3, MaxIs
<1> DEFINE ranks == {ByteRank[d.uid] : d \in {d \in same : d.version = v}}
<1>5. ranks \in SUBSET Int /\ IsFiniteSet(ranks) /\ ranks # {}
  <2>1. IsFiniteSet({ByteRank[m] : m \in Messages})
    BY MailAssumption, FiniteImage
  <2>2. ranks \in SUBSET {ByteRank[m] : m \in Messages}
    BY <1>1
  <2>3. ranks # {}
    BY <1>4
  <2>4. QED
    BY <1>1, <2>1, <2>2, <2>3, FiniteParts
<1> DEFINE r == Min(ranks)
<1>6. r \in ranks /\ \A x \in ranks : r <= x
  <2> HIDE DEF ranks
  <2>1. QED
    BY <1>5, MinIs
<1>7. PICK k \in same : k.version = v /\ ByteRank[k.uid] = r
  BY <1>6
<1>8. \A d \in same : d.version <= k.version
                      /\ (d.version = k.version => ByteRank[k.uid] <= ByteRank[d.uid])
  BY <1>4, <1>6, <1>7
<1> HIDE DEF versionsOf, v, ranks, r
<1>9. k \in FirstOfEachKey(C)
  <2> SUFFICES ASSUME NEW d \in C, SameKey(k, d) PROVE ~SortsBefore(d, k)
    BY DEF FirstOfEachKey
  <2>1. d \in same /\ d.day = k.day
    BY DEF SameKey
  <2>2. QED
    BY <1>1, <1>8, <2>1 DEF SortsBefore
<1>10. QED
  BY <1>2, <1>8, <1>9 DEF SameKey

(* A search without limit collects what the buffer promises.                *)
LEMMA RecentCollected ==
    ASSUME MaxBackfill = 0, TypeOK, PastInv, OriginInv, CollectFrom(AcceptedSearches),
           NEW m \in Matching(AcceptedSearches),
           arrived[m] >= today - BufferDays, arrived[m] >= today - ScanWindow,
           NEW f \in Mail[m].files, Accepted(m, f)
    PROVE  \E c \in deduped' : c.eic = f.eic /\ c.day = f.day /\ c.version >= f.version
<1> DEFINE uids == PollUids(AcceptedSearches)
           C == CandidatesIn(uids)
           c == [uid |-> m, eic |-> f.eic, day |-> f.day, version |-> f.version]
<1>1. m \in Messages /\ arrived[m] \in Nat
  BY DEF Matching, TypeOK, MailTypeOK
<1>2. arrived[m] >= Cutoff
  BY <1>1, CutoffIsEarly
<1>3. uids = SearchSince(AcceptedSearches, IF forced THEN 0 ELSE Cutoff)
  BY DEF PollUids
<1>4. m \in uids
  BY <1>1, <1>2, <1>3 DEF SearchSince
<1>5. c \in C
  BY <1>4 DEF CandidatesIn
<1>6. C \in SUBSET Candidates
  <2>1. uids \in SUBSET Messages
    BY <1>3 DEF SearchSince, Matching, TypeOK, MailTypeOK
  <2>2. \A n \in uids : \A g \in Mail[n].files :
           g.eic \in Eics /\ g.day \in Days /\ g.version \in Versions
    BY <2>1, MailAssumption DEF Files
  <2>3. QED
    BY <2>1, <2>2 DEF CandidatesIn, Candidates
<1>7. deduped' = FirstOfEachKey(C)
  BY DEF CollectFrom
<1> HIDE DEF C, uids
<1>8. \E k \in FirstOfEachKey(C) : k.eic = c.eic /\ k.day = c.day /\ k.version >= c.version
  BY <1>5, <1>6, HighestIsKept
<1>9. QED
  BY <1>7, <1>8

(* Mail of the last BufferDays days is collected, whatever was imported     *)
(* before and whatever fails: no mark is ahead of the calendar, so the      *)
(* cutoff is no later than the buffer's first day, and sorting keeps the    *)
(* highest version of a day.  Without a limit on the number of messages.    *)
THEOREM RecentCollectedAlways ==
    ASSUME MaxBackfill = 0
    PROVE  Spec => RecentMailCollected
<1>1. Init => OriginInv /\ PastInv
  BY DEF Init, MailInit, OriginInv, PastInv, NoMarks
<1>2. TypeOK /\ OriginInv /\ PastInv /\ [Next]_vars => OriginInv' /\ PastInv'
  BY OriginStep, PastStep
<1>3. TypeOK /\ OriginInv /\ PastInv =>
        [CollectFrom(AcceptedSearches) =>
            \A m \in Matching(AcceptedSearches) :
               arrived[m] >= today - BufferDays /\ arrived[m] >= today - ScanWindow =>
                  \A f \in Mail[m].files :
                     Accepted(m, f) =>
                        \E c \in deduped' :
                           c.eic = f.eic /\ c.day = f.day /\ c.version >= f.version]_vars
  BY RecentCollected
<1>4. QED
  BY <1>1, <1>2, <1>3, TypeCorrect, PTL DEF Spec, RecentMailCollected
=============================================================================
