------------------------------ MODULE Mailbox ------------------------------
(***************************************************************************)
(* The configured IMAP folder and what the integration's client does to it *)
(* (custom_components/okte_edc/imap_client.py).  The server is external;   *)
(* its reactions are modelled from the commands the client issues: SEARCH, *)
(* FETCH BODY.PEEK, COPY, STORE +FLAGS \Deleted, EXPUNGE and CLOSE.        *)
(*                                                                         *)
(* A message is its UID.  Mail[m] says what the message is, for the whole  *)
(* behaviour; the variables say where it is.  Measurement days and calendar*)
(* days share the numbers 1..LastDay.                                      *)
(***************************************************************************)
EXTENDS OkteFiles, FiniteSets

CONSTANTS
    Messages,          \* UIDs; the server hands them out in increasing order
    Mail,              \* what each message contains
    ByteRank,          \* position of a UID when UIDs are sorted as byte strings
    AcceptedSearches,  \* subject-filter variants this server accepts
    Faults             \* what may go wrong in a behaviour

(* IMAP, recorder and Store failures, a clean restart of Home Assistant, a  *)
(* power cut, another mail program working in the same folder.              *)
FaultKinds == {"imap", "recorder", "store", "restart", "crash", "otherClient"}

(* The three criteria of _subject_filter_variants, tried in turn. *)
SearchVariants == {"SUBJECT", "TEXT", "TOKEN"}

ASSUME MailAssumption ==
    /\ Messages \subseteq Nat
    /\ IsFiniteSet(Messages)
    /\ \A m \in Messages :
          /\ Mail[m].foundBy \subseteq SearchVariants
          /\ Mail[m].files \subseteq Files
    /\ ByteRank \in [Messages -> Nat]
    /\ \A m, n \in Messages : ByteRank[m] = ByteRank[n] => m = n
    /\ AcceptedSearches \subseteq SearchVariants
    /\ Faults \subseteq FaultKinds

VARIABLES
    today,     \* the calendar
    arrived,   \* day each message was delivered, 0 when it was not
    inbox,     \* messages in the configured folder
    flagged,   \* of those, the ones carrying \Deleted
    archived   \* messages with a copy in the archive folder

mailVars == <<today, arrived, inbox, flagged, archived>>

MailTypeOK ==
    /\ today \in Days
    /\ arrived \in [Messages -> 0..LastDay]
    /\ inbox \subseteq Messages
    /\ flagged \subseteq Messages
    /\ archived \subseteq Messages

MailInit ==
    /\ today = 1
    /\ arrived = [m \in Messages |-> 0]
    /\ inbox = {}
    /\ flagged = {}
    /\ archived = {}

----------------------------------------------------------------------------
(* The world around the client. *)

(* OKTE or a forwarder delivers m.  UIDs grow, and a file never describes a *)
(* day that has not come.                                                   *)
Deliver(m) ==
    /\ \A n \in Messages : arrived[n] # 0 => n < m
    /\ \A f \in Mail[m].files : f.body = "good" => f.day <= today
    /\ arrived' = [arrived EXCEPT ![m] = today]
    /\ inbox' = inbox \union {m}
    /\ UNCHANGED <<today, flagged, archived>>

NextDay ==
    /\ today < LastDay
    /\ today' = today + 1
    /\ UNCHANGED <<arrived, inbox, flagged, archived>>

(* Another mail program marks a message for deletion without expunging. *)
UserFlags(m) ==
    /\ "otherClient" \in Faults
    /\ m \in inbox \ flagged
    /\ flagged' = flagged \union {m}
    /\ UNCHANGED <<today, arrived, inbox, archived>>

----------------------------------------------------------------------------
(* The client. *)

(* _search_with_subject_filter: a variant that is refused, or whose SEARCH  *)
(* raises, is passed over, and the answers to the others are united.  When  *)
(* none is answered the result is that of an empty folder.                  *)
Answered ==
    IF "imap" \in Faults THEN SUBSET AcceptedSearches ELSE {AcceptedSearches}

Matching(variants) == {m \in inbox : Mail[m].foundBy \cap variants # {}}

(* search_unprocessed_uids; day 0 stands for "no SINCE criterion". *)
SearchSince(variants, day) == {m \in Matching(variants) : arrived[m] >= day}

(* Mutant: BEFORE read as "on or before". *)
SearchOnOrBefore(variants, day) == {m \in Matching(variants) : arrived[m] <= day}

(* search_subject_before, the scope of the delete-after-N-days cleanup. *)
SearchBefore(variants, day) == {m \in Matching(variants) : arrived[m] < day}

(* The last n UIDs of the list `sorted` returns, which orders byte strings. *)
Newest(uids, n) ==
    {m \in uids : Cardinality({k \in uids : ByteRank[k] > ByteRank[m]}) < n}

(* mark_for_delete: a failed STORE is logged and the loop goes on. *)
MarkForDelete(uids) ==
    \E marked \in SUBSET uids :
        /\ "imap" \in Faults \/ marked = uids
        /\ flagged' = flagged \union marked
        /\ UNCHANGED <<today, arrived, inbox, archived>>

(* The server removes every flagged message, whoever flagged it. *)
RemoveFlagged ==
    /\ inbox' = inbox \ flagged
    /\ flagged' = {}
    /\ UNCHANGED <<today, arrived, archived>>

(* expunge: the server's answer is not looked at. *)
Expunge == RemoveFlagged \/ ("imap" \in Faults /\ UNCHANGED mailVars)

(* Mutant: the copy's answer is not looked at. *)
ArchiveUnchecked(m) ==
    /\ archived' = archived \union {m} \/ ("imap" \in Faults /\ archived' = archived)
    /\ flagged' = flagged \union {m}
    /\ UNCHANGED <<today, arrived, inbox>>

(* archive: COPY, then STORE.  Either may be refused; the caller goes on.   *)
(* A message is in the folder when its session begins, and nothing expunges *)
(* it before the session's own EXPUNGE.                                     *)
Archive(m) ==
    \/ /\ archived' = archived \union {m}
       /\ flagged' = flagged \union {m}
       /\ UNCHANGED <<today, arrived, inbox>>
    \/ /\ "imap" \in Faults
       /\ archived' \in {archived, archived \union {m}}
       /\ UNCHANGED <<today, arrived, inbox, flagged>>

(* close: the IMAP CLOSE command removes them too; its failure is silent.   *)
CloseSession == RemoveFlagged \/ ("imap" \in Faults /\ UNCHANGED mailVars)
=============================================================================
