------------------------------ MODULE ConfigFlow ------------------------------
(***************************************************************************)
(* The dialogs of config_flow.py and the config entry they write: the      *)
(* wizard that sets an entry up, the options screen, the rescan, and the   *)
(* dialog that asks for a new password.  What a dialog remembers between   *)
(* two of its forms is a variable, because the entry, the mailbox and the  *)
(* password may change in between.  A request to the mail server that      *)
(* fails shows the form again or ends the dialog and changes nothing, so   *)
(* only the requests that are answered are steps.                          *)
(***************************************************************************)
EXTENDS Naturals, FiniteSets

CONSTANTS Eics,          \* metering points
          Folders,       \* IMAP folders
          Holds,         \* Holds[f]: EIC and sender of the mail in folder f
          Senders,       \* From addresses, in lower case
          DefaultSender, \* DEFAULT_SENDER_ALLOWLIST
          None,          \* what is in a field that has not been filled in
          MaxRotations   \* bound: how often the mailbox's password changes

ASSUME FlowAssumption ==
  /\ Holds \in [Folders -> SUBSET (Eics \X Senders)]
  /\ DefaultSender \in Senders
  /\ MaxRotations \in Nat
  /\ None \notin Folders \cup (0..MaxRotations)
  /\ None \notin {"user", "folder", "discover_eics", "post_setup",
                  "open", "waiting", "reloading"}

VARIABLES entry,    \* the config entry: folder, password, EIC records, allowlist
          wizard,   \* the config flow's form and what it remembers
          rescan,   \* the rescan's form and what discovery found for it
          reauth,   \* the password dialog, and where its reload stands
          accepted  \* the password the mail server accepts

flowVars == <<entry, wizard, rescan, reauth, accepted>>

Passwords == 0..MaxRotations

\* What an entry's data says of an EIC: no record of it, or one that is switched
\* off or on.
Records == {"unknown", "off", "on"}

\* The dialogs when they are not open, and the entry before the wizard makes it.
Closed == [form |-> None, folder |-> None, password |-> None,
           found |-> {}, senders |-> {}, picked |-> {}]

NoEntry == [folder |-> None, password |-> None,
            eics |-> [e \in Eics |-> "unknown"], allow |-> {}]

Known(ent) == {e \in Eics : ent.eics[e] # "unknown"}
Enabled(ent) == {e \in Eics : ent.eics[e] = "on"}

\* parse_sender_allowlist: an empty list lets every sender pass.
Allowed(ent) == IF ent.allow = {} THEN Senders ELSE ent.allow

FlowTypeOK ==
  /\ entry \in [folder : Folders \cup {None}, password : Passwords \cup {None},
                eics : [Eics -> Records], allow : SUBSET Senders]
  /\ wizard \in [form : {None, "user", "folder", "discover_eics", "post_setup"},
                 folder : Folders \cup {None}, password : Passwords \cup {None},
                 found : SUBSET Eics, senders : SUBSET Senders, picked : SUBSET Eics]
  /\ rescan \in [open : BOOLEAN, found : SUBSET Eics, senders : SUBSET Senders]
  /\ reauth \in {None, "open", "waiting", "reloading"}
  /\ accepted \in Passwords

NoRescan == [open |-> FALSE, found |-> {}, senders |-> {}]

FlowInit ==
  /\ entry = NoEntry
  /\ wizard = Closed
  /\ rescan = NoRescan
  /\ reauth = None
  /\ accepted = 0

\* The mailbox's owner changes its password.
Rotate ==
  /\ accepted < MaxRotations
  /\ accepted' = accepted + 1
  /\ UNCHANGED <<entry, wizard, rescan, reauth>>

\* discover_eics: the EICs and the senders of the folder's recent mail, which may be
\* some of its mail or none.
Discoveries(folder) ==
  {[found |-> {m[1] : m \in recent}, senders |-> {m[2] : m \in recent}] :
     recent \in SUBSET Holds[folder]}

-----------------------------------------------------------------------------
(* The wizard.  Its user form logs in to list the folders, its folder form *)
(* logs in again to look for EICs, with the password typed before.         *)

OpenWizard ==
  /\ wizard.form = None
  /\ wizard' = [Closed EXCEPT !.form = "user"]
  /\ UNCHANGED <<entry, rescan, reauth, accepted>>

SubmitUser ==
  /\ wizard.form = "user"
  /\ wizard' = [wizard EXCEPT !.form = "folder", !.password = accepted]
  /\ UNCHANGED <<entry, rescan, reauth, accepted>>

\* Mutant: the folder of the first submission is kept when nothing was found in it.
SubmitFolderOnce ==
  /\ wizard.form = "folder"
  /\ wizard.password = accepted
  /\ \E f \in Folders : \E d \in Discoveries(f) :
       wizard' = [wizard EXCEPT
         !.folder = IF wizard.folder = None THEN f ELSE wizard.folder,
         !.found = d.found, !.senders = d.senders,
         !.form = IF d.found = {} THEN "folder" ELSE "discover_eics"]
  /\ UNCHANGED <<entry, rescan, reauth, accepted>>

\* What was discovered is remembered even when the form is shown again because
\* no EIC was found.
SubmitFolder ==
  /\ wizard.form = "folder"
  /\ wizard.password = accepted
  /\ \E f \in Folders : \E d \in Discoveries(f) :
       wizard' = [wizard EXCEPT
         !.folder = f, !.found = d.found, !.senders = d.senders,
         !.form = IF d.found = {} THEN "folder" ELSE "discover_eics"]
  /\ UNCHANGED <<entry, rescan, reauth, accepted>>

SubmitEics ==
  /\ wizard.form = "discover_eics"
  /\ \E picked \in SUBSET wizard.found :
       wizard' = [wizard EXCEPT !.form = "post_setup", !.picked = picked]
  /\ UNCHANGED <<entry, rescan, reauth, accepted>>

CloseWizard ==
  /\ wizard.form # None
  /\ wizard' = Closed
  /\ UNCHANGED <<entry, rescan, reauth, accepted>>

Record(picked, e) == IF e \in picked THEN "on" ELSE "off"

\* _compose_initial_allowlist: the documented sender is always on the list.
InitialAllowlist(observed) == observed \cup {DefaultSender}

SubmitPostSetup ==
  /\ wizard.form = "post_setup"
  /\ entry' = [folder |-> wizard.folder, password |-> wizard.password,
               eics |-> [e \in Eics |-> IF e \in wizard.found
                                        THEN Record(wizard.picked, e) ELSE "unknown"],
               allow |-> InitialAllowlist(wizard.senders)]
  /\ wizard' = Closed
  /\ UNCHANGED <<rescan, reauth, accepted>>

-----------------------------------------------------------------------------
(* The options screen and the rescan.  The screen's form is built from the  *)
(* entry, but when it is submitted the records are read again.             *)

\* The screen's other options (interval, window, cleanup mode and so on) are not
\* part of the model: submitting it without a change here may be a change there.
SubmitOptions ==
  /\ \E on \in SUBSET Known(entry), allow \in SUBSET Senders :
       entry' = [entry EXCEPT
         !.eics = [e \in Eics |-> IF e \in Known(entry) THEN Record(on, e) ELSE @[e]],
         !.allow = allow]
  /\ UNCHANGED <<wizard, rescan, reauth, accepted>>

\* The rescan logs in with the entry's credentials; when it finds nothing the
\* dialog ends.
BeginRescan ==
  /\ ~rescan.open
  /\ entry.password = accepted
  /\ \E d \in Discoveries(entry.folder) :
       /\ d.found # {}
       /\ rescan' = [open |-> TRUE, found |-> d.found, senders |-> d.senders]
  /\ UNCHANGED <<entry, wizard, reauth, accepted>>

CloseRescan ==
  /\ rescan.open
  /\ rescan' = NoRescan
  /\ UNCHANGED <<entry, wizard, reauth, accepted>>

\* Mutant: the merged list is what was found, so a metering point without recent
\* mail is forgotten.
MergedFound(picked) ==
  [e \in Eics |-> IF e \in rescan.found THEN Record(picked, e) ELSE "unknown"]

\* The EICs found and those the entry knew already; only the ones that were found
\* can be picked, so the others are switched off.
Merged(picked) ==
  [e \in Eics |-> IF e \in rescan.found \cup Known(entry)
                  THEN Record(picked, e) ELSE "unknown"]

\* Mutant: the senders found take the place of the list.
MergedAllowlistFound == IF rescan.senders = {} THEN entry.allow ELSE rescan.senders

MergedAllowlist == entry.allow \cup rescan.senders

SubmitRescan ==
  /\ rescan.open
  /\ \E picked \in SUBSET rescan.found :
       entry' = [entry EXCEPT !.eics = Merged(picked), !.allow = MergedAllowlist]
  /\ rescan' = NoRescan
  /\ UNCHANGED <<wizard, reauth, accepted>>

-----------------------------------------------------------------------------
(* The password dialog: the new password is tried, stored, and the entry is *)
(* reloaded; the dialog is in progress until its reload is done.           *)

\* A login was refused: Home Assistant opens the dialog unless it is in progress.
Asked == IF reauth = None THEN "open" ELSE reauth

\* Mutant: the password is stored and the dialog ends without a reload.
SubmitReauthOnly ==
  /\ reauth = "open"
  /\ entry' = [entry EXCEPT !.password = accepted]
  /\ reauth' = None
  /\ UNCHANGED <<wizard, rescan, accepted>>

SubmitReauth ==
  /\ reauth = "open"
  /\ entry' = [entry EXCEPT !.password = accepted]
  /\ reauth' = "waiting"
  /\ UNCHANGED <<wizard, rescan, accepted>>
=============================================================================
