----------------------- MODULE CoordinatorProperties -----------------------
(***************************************************************************)
(* What should be true of the poll cycle.  Each property is meant for the  *)
(* faults its comment names; README.md says which run checks it under      *)
(* which.                                                                  *)
(***************************************************************************)
EXTENDS Coordinator

(* Statistic, day and version of every good file an accepted sender sent.   *)
Published ==
    UNION {{<<<<f.eic, x>>, f.day, f.version>> : x \in Series[f.eic]} :
              f \in UNION {{g \in Mail[m].files : g.body = "good"} :
                              m \in {m \in Messages :
                                        /\ arrived[m] # 0
                                        /\ Allowlist = {} \/ Mail[m].sender \in Allowlist}}}

Ledger == INSTANCE StatsLedger WITH published <- Published, ledger <- rows

(* The recorder's rows keep the promise of StatsLedger: no replay of mail   *)
(* puts an older version of a day over a newer one, and rewriting a         *)
(* statistic from its earliest changed day on never invents or drops a day  *)
(* (_recompute_and_import_stat and the version check of _poll_sync).  Meant *)
(* for polls that nothing interrupts between their first mark and their     *)
(* save.  A poll that is repeated need not find the newest version again:   *)
(* it may be archived, its search variant may be refused this time, or its  *)
(* message may have left the range; then an older one is written over it.   *)
RefinesLedger == Ledger!LedgerSpec

(* "authoritative source of truth" (the Store's comment in __init__): a     *)
(* version the Store marks never gives way to an older one in the           *)
(* statistics, whatever interrupts polls and whichever messages they find.  *)
(* Meant for every fault that cannot leave a mark without its hours (a      *)
(* failing recorder can, and so can a failing server while messages are     *)
(* archived), and for a recorder that writes a statistic's batch before the *)
(* statistic is rewritten again (Backlog).                                  *)
SavedStays ==
    [][\A e \in Eics, d \in Days : \A x \in Series[e] :
          rows'[<<e, x>>][d] < rows[<<e, x>>][d] => rows[<<e, x>>][d] > store[<<e, d>>]]_vars

(* last_processed_versions is "used to skip files we've already imported":  *)
(* a mark in the Store stands for hours the recorder has or is about to     *)
(* write, for every series of the file.                                     *)
StoreMarksLanded ==
    \A e \in Eics, d \in Days : \A x \in Series[e] :
        Landed(<<e, x>>, d) >= store[<<e, d>>]

(* "never reprocesses a file even across restarts": nothing is staged that  *)
(* the Store already has at the same or a higher version.                   *)
NeverReprocessed ==
    \A e \in Eics, d \in Days, x \in Suffixes :
        pending[<<e, x>>][d] # 0 => pending[<<e, x>>][d] > store[<<e, d>>]

NotOlder(r, q) == r.day > q.day \/ (r.day = q.day /\ r.version >= q.version)

(* A backfill or a late correction of an old day "doesn't roll those        *)
(* sensors backward in time" (_collect_pending).                            *)
FreshnessNeverRollsBack ==
    [][storeLoaded' => \A e \in Eics : NotOlder(data'[e], data[e])]_vars

(* The 7-day buffer "makes sure the search still picks them up": a search   *)
(* the server answers covers every file it would accept from a message that *)
(* arrived in the last BufferDays days, or takes a higher version of it.    *)
RecentMailCollected ==
    [][CollectFrom(AcceptedSearches) =>
          \A m \in Matching(AcceptedSearches) :
             arrived[m] >= today - BufferDays /\ arrived[m] >= today - ScanWindow =>
                \A f \in Mail[m].files :
                   Accepted(m, f) =>
                      \E c \in deduped' :
                         c.eic = f.eic /\ c.day = f.day /\ c.version >= f.version]_vars

(* In delete mode only messages older than DeleteAfter days ever leave the  *)
(* folder, however the cleanup is interrupted.                              *)
OnlyOldDeleted ==
    [][\A m \in inbox \ inbox' : arrived[m] < today - DeleteAfter]_vars

(* Outside delete mode no message is ever lost: it stays in the folder until*)
(* it has a copy in the archive, whatever interrupts the archiving (archive *)
(* and close of the IMAP session; the mailbox is "read-only by default").   *)
NoMailLost ==
    \A m \in Messages : arrived[m] # 0 => m \in inbox \union archived

(* An archived message is "moved immediately after the message is           *)
(* successfully processed": between polls, one of its files is in the       *)
(* recorder or waits to be written there.                                   *)
ArchivedLanded ==
    pc = "idle" =>
       \A m \in archived : \E f \in Mail[m].files :
          /\ f.body = "good"
          /\ \A x \in Series[f.eic] : Landed(<<f.eic, x>>, f.day) >= f.version

----------------------------------------------------------------------------
(* Fairness.  The timer fires again and again and a poll that has begun goes*)
(* on; connecting does not fail for ever (a rejected password is corrected),*)
(* nor does searching and fetching; the recorder thread writes; the window  *)
(* opens every day; and Home Assistant is not restarted for ever.  Nothing  *)
(* is assumed of buttons, of OKTE, or of the calendar.                      *)
Fairness ==
    /\ WF_vars(WindowOpens)
    /\ WF_vars(RecorderThread)
    /\ SF_vars(PollStep)
    /\ SF_vars(OpenSession)
    /\ SF_vars(CollectFrom(AcceptedSearches))
    /\ <>[][~Restart]_vars

FairSpec == Spec /\ Fairness

(* Every good file from an accepted sender, of an enabled EIC, is in the    *)
(* recorder in the end, in its own or a higher version.                     *)
EventuallyImported ==
    \A m \in Messages : \A f \in Mail[m].files :
       LET due == /\ arrived[m] # 0
                  /\ m \in Matching(AcceptedSearches)
                  /\ Allowlist = {} \/ Mail[m].sender \in Allowlist
                  /\ f.body = "good"
                  /\ f.eic \in enabled
       IN  due ~> \A x \in Series[f.eic] : rows[<<f.eic, x>>][f.day] >= f.version
----------------------------------------------------------------------------
(* Why these hold: what every step of a poll keeps true. *)

(* The poll's locals are empty before they are filled and after the poll,   *)
(* and nothing is remembered before the Store has been read.                *)
PollInv ==
    /\ pc # "process" => deduped = {}
    /\ pc \notin {"process", "close", "import"} =>
          pending = NoPending /\ updates = NoReading /\ toImport = {}
    /\ pc # "idle" \/ firstRefreshDone => storeLoaded
    /\ ~storeLoaded => versions = NoMarks /\ data = NoReading

(* A candidate is newer than the mark of its key, and alone with that key.  *)
CandidateInv ==
    \A c \in deduped :
        /\ versions[<<c.eic, c.day>>] < c.version
        /\ \A d \in deduped : SameKey(c, d) => c = d

(* Memory is never behind the Store; what is staged is marked in memory,    *)
(* and ahead of the Store.                                                  *)
StagedInv ==
    /\ storeLoaded => \A k \in Keys : store[k] <= versions[k]
    /\ \A e \in Eics, d \in Days, x \in Suffixes :
          pending[<<e, x>>][d] # 0 =>
             /\ x \in Series[e]
             /\ pending[<<e, x>>][d] = versions[<<e, d>>]
             /\ pending[<<e, x>>][d] > store[<<e, d>>]

(* A mark in memory has landed, or its hours are staged and still to come.  *)
MarksInv ==
    \A e \in Eics, d \in Days : \A x \in Series[e] :
        \/ versions[<<e, d>>] <= Landed(<<e, x>>, d)
        \/ <<e, x>> \in toImport /\ pending[<<e, x>>][d] = versions[<<e, d>>]

(* What the sensors show, or are about to show, is marked.                  *)
ShownInv ==
    \A e \in Eics :
        /\ data[e].day # 0 =>
              data[e].version # 0 /\ data[e].version <= versions[<<e, data[e].day>>]
        /\ updates[e].day # 0 =>
              /\ updates[e].version # 0
              /\ updates[e].version <= versions[<<e, updates[e].day>>]
              /\ NotOlder(updates[e], data[e])

(* What holds whatever fails; inductive. *)
SafeInv == TypeOK /\ PollInv /\ CandidateInv /\ StagedInv /\ ShownInv

(* What holds as long as no poll can fail between marking a file and        *)
(* queueing its hours, and nothing queued is lost; inductive.               *)
LandedInv == SafeInv /\ StoreMarksLanded /\ MarksInv

(* A batch that will put an older version of a day over a newer one: the    *)
(* Store does not have the newer one yet and, unless the statistic is about *)
(* to be rewritten, memory does not have it either.                         *)
WaitingInv ==
    \A e \in Eics, d \in Days : \A x \in Series[e] :
        LET s == <<e, x>>
        IN  queue[s] # <<>> /\ Head(queue[s])[d] # 0 /\ Head(queue[s])[d] < rows[s][d] =>
               /\ rows[s][d] > store[<<e, d>>]
               /\ rows[s][d] > versions[<<e, d>>] \/ s \in toImport

(* What holds as long as no poll fails between marking a file and queueing  *)
(* its hours, even if what is queued is lost; inductive.                    *)
SavedInv == SafeInv /\ WaitingInv

(* A message in the folder has been delivered; a candidate is a good file   *)
(* of a delivered message from an accepted sender.                          *)
OriginInv ==
    /\ \A m \in inbox : arrived[m] # 0
    /\ \A c \in deduped :
          /\ arrived[c.uid] # 0
          /\ Allowlist = {} \/ Mail[c.uid].sender \in Allowlist
          /\ \E f \in Mail[c.uid].files :
                f.body = "good" /\ f.eic = c.eic /\ f.day = c.day /\ f.version = c.version

(* What is staged, and what has landed, was published.                      *)
PublishedInv ==
    \A s \in Stats, d \in Days :
        /\ pending[s][d] # 0 => <<s, d, pending[s][d]>> \in Published
        /\ Landed(s, d) # 0 => <<s, d, Landed(s, d)>> \in Published

(* What waits to be written is no step back; what has landed is marked in   *)
(* memory, and in the Store too unless the current poll landed it.          *)
AheadInv ==
    \A e \in Eics, x \in Suffixes, d \in Days :
        /\ rows[<<e, x>>][d] <= Landed(<<e, x>>, d)
        /\ storeLoaded => Landed(<<e, x>>, d) <= versions[<<e, d>>]
        /\ pc # "import" \/ pending[<<e, x>>][d] = 0 =>
              Landed(<<e, x>>, d) <= store[<<e, d>>]

(* A file of an archived message has landed or is staged.                   *)
ArchivedInv ==
    /\ CleanupMode # "archive" => archived = {}
    /\ \A m \in archived : \E f \in Mail[m].files :
          /\ f.body = "good"
          /\ \A x \in Series[f.eic] :
                \/ Landed(<<f.eic, x>>, f.day) >= f.version
                \/ /\ <<f.eic, x>> \in toImport
                   /\ pending[<<f.eic, x>>][f.day] >= f.version

(* What holds as long as no poll is interrupted after its first mark, and   *)
(* none fails to save; inductive.                                           *)
UninterruptedInv == LandedInv /\ OriginInv /\ PublishedInv /\ AheadInv /\ ArchivedInv
=============================================================================
