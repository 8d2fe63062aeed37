---------------------------- MODULE EntryLifecycle ----------------------------
(***************************************************************************)
(* The life of the config entry (__init__.py): setup, unload, reload,      *)
(* removal and the update listener, beside the dialogs of ConfigFlow.  The *)
(* running coordinator holds copies of what it needs from the entry, made  *)
(* when it was constructed; the entry's platforms made entities for the    *)
(* EICs they found in it.  A setup waits for the mail server and for the   *)
(* platforms, and meanwhile the dialogs go on.                             *)
(*                                                                         *)
(* Home Assistant's part: one setup, unload or removal of an entry at a    *)
(* time; tasks that want to reload it wait their turn; listeners start at  *)
(* once, inside the update that calls them; a setup that failed to connect *)
(* is tried again; a refused password opens the password dialog.           *)
(***************************************************************************)
EXTENDS ConfigFlow

CONSTANT MaxReloads  \* bound: reloads that wait for their turn

ASSUME LifecycleAssumption == MaxReloads \in Nat

VARIABLES phase,    \* the entry's state
          coord,    \* the coordinator's copies: _enabled_eics, the client's password
          entities, \* EICs with sensors
          reloads,  \* reloads that wait, the password dialog's not counted
          unheard,  \* history: an update found a coordinator and no listener
          stale     \* passwords of polls whose coordinator has been unloaded

vars == <<flowVars, phase, coord, entities, reloads, unheard, stale>>

\* not_loaded: to be set up now; setup: first refresh; forwarding: the platforms are
\* being set up; retry, refused, error: the first refresh could not connect, was
\* refused its password, did not find the folder.
Phases == {"absent", "not_loaded", "setup", "forwarding", "loaded", "unloading",
           "retry", "refused", "error"}

\* Nothing is being done to the entry, so that the next task may take its turn.
Resting == phase \in {"loaded", "retry", "refused", "error"}

\* The listener is added at the end of the setup and removed after the unload.
Listening == phase \in {"loaded", "unloading"}

\* There is a coordinator.
Running == {"setup", "forwarding", "loaded", "unloading"}

NoCoordinator == [eics |-> {}, password |-> None]

TypeOK ==
  /\ FlowTypeOK
  /\ phase \in Phases
  /\ coord \in [eics : SUBSET Eics, password : Passwords \cup {None}]
  /\ entities \in SUBSET Eics
  /\ reloads \in 0..MaxReloads
  /\ unheard \in BOOLEAN
  /\ stale \in SUBSET Passwords
  /\ phase # "absent" => entry.folder \in Folders /\ entry.password \in Passwords
  /\ coord.password \in Passwords <=> phase \in Running

Init ==
  /\ FlowInit
  /\ phase = "absent"
  /\ coord = NoCoordinator
  /\ entities = {}
  /\ reloads = 0
  /\ unheard = FALSE
  /\ stale = {}

-----------------------------------------------------------------------------
(* Setup.                                                                  *)

\* async_setup_entry up to the first refresh.
Construct ==
  /\ phase = "not_loaded"
  /\ phase' = "setup"
  /\ coord' = [eics |-> Enabled(entry), password |-> entry.password]
  /\ unheard' = FALSE
  /\ UNCHANGED <<flowVars, entities, reloads, stale>>

\* The reload that the password dialog waits for is over, and with it the dialog.
DialogDone == IF reauth = "reloading" THEN None ELSE reauth

SetupFails(why, dialog) ==
  /\ phase = "setup"
  /\ coord.eics # {}
  /\ phase' = why
  /\ coord' = NoCoordinator
  /\ reauth' = dialog
  /\ UNCHANGED <<entry, wizard, rescan, accepted, entities, reloads, unheard, stale>>

CannotConnect == SetupFails("retry", DialogDone)
FolderMissing == coord.password = accepted /\ SetupFails("error", DialogDone)

\* Mutant: a refused password is an error like any other.
PasswordRefusedAsError ==
  /\ coord.password # accepted
  /\ SetupFails("error", DialogDone)

\* Home Assistant opens no second dialog: after a refusal in the dialog's own reload
\* there is none.
PasswordRefused ==
  /\ coord.password # accepted
  /\ SetupFails("refused", IF reauth = None THEN "open" ELSE DialogDone)

\* A coordinator without enabled EICs does not connect.
FirstRefresh ==
  /\ phase = "setup"
  /\ coord.eics = {} \/ coord.password = accepted
  /\ phase' = "forwarding"
  /\ UNCHANGED <<flowVars, coord, entities, reloads, unheard, stale>>

\* The platforms make their entities; the listener is added last.
Forwarded ==
  /\ phase = "forwarding"
  /\ phase' = "loaded"
  /\ entities' = coord.eics
  /\ reauth' = DialogDone
  /\ UNCHANGED <<entry, wizard, rescan, accepted, coord, reloads, unheard, stale>>

RetrySetup ==
  /\ phase = "retry"
  /\ phase' = "not_loaded"
  /\ UNCHANGED <<flowVars, coord, entities, reloads, unheard, stale>>

-----------------------------------------------------------------------------
(* Reload and unload.                                                      *)

\* A task that waits takes its turn: an entry that is loaded is unloaded first.  (The
\* order in which they asked is not kept.)
BeginReload ==
  /\ Resting
  /\ phase' = IF phase = "loaded" THEN "unloading" ELSE "not_loaded"
  /\ UNCHANGED <<entry, wizard, rescan, accepted, coord, entities, unheard, stale>>

Reload ==
  /\ reloads > 0
  /\ reloads' = reloads - 1
  /\ UNCHANGED reauth
  /\ BeginReload

ReloadForDialog ==
  /\ reauth = "waiting"
  /\ reauth' = "reloading"
  /\ UNCHANGED reloads
  /\ BeginReload

\* Mutant: the unloaded coordinator is not forgotten.
UnloadKept ==
  /\ phase = "unloading"
  /\ phase' = "not_loaded"
  /\ entities' = {}
  /\ UNCHANGED <<flowVars, coord, reloads, unheard, stale>>

\* async_unload_entry.  A poll that a button or the listener began is nobody's to
\* cancel, and goes on with the client it has (bound: one such poll).
Unload ==
  /\ phase = "unloading"
  /\ phase' = "not_loaded"
  /\ stale' \in {stale, IF coord.eics = {} \/ stale # {} THEN stale ELSE {coord.password}}
  /\ coord' = NoCoordinator
  /\ entities' = {}
  /\ UNCHANGED <<flowVars, reloads, unheard>>

\* Another poll of the loaded coordinator is refused.  (Other outcomes change
\* nothing here.)
PollRefused ==
  /\ Listening
  /\ coord.eics # {} /\ coord.password # accepted
  /\ reauth' = Asked
  /\ UNCHANGED <<entry, wizard, rescan, accepted, phase, coord, entities, reloads,
                 unheard, stale>>

StalePollEnds ==
  /\ \E p \in stale :
       /\ stale' = stale \ {p}
       /\ reauth' \in {reauth, IF p = accepted THEN reauth ELSE Asked}
  /\ UNCHANGED <<entry, wizard, rescan, accepted, phase, coord, entities, reloads,
                 unheard>>

UserReloads ==
  /\ Resting
  /\ reloads < MaxReloads
  /\ reloads' = reloads + 1
  /\ UNCHANGED <<flowVars, phase, coord, entities, unheard, stale>>

\* async_remove_entry, after an unload: the dialogs end with the entry.  (What a poll
\* that outlives it does is not followed.)
Remove ==
  /\ Resting
  /\ phase' = "absent"
  /\ entry' = NoEntry
  /\ rescan' = NoRescan
  /\ reauth' = None
  /\ coord' = NoCoordinator
  /\ entities' = {}
  /\ reloads' = 0
  /\ stale' = {}
  /\ UNCHANGED <<wizard, accepted, unheard>>

\* Home Assistant is restarted: the entry remains.
Restart ==
  /\ phase # "absent"
  /\ phase' = "not_loaded"
  /\ rescan' = NoRescan
  /\ reauth' = None
  /\ coord' = NoCoordinator
  /\ entities' = {}
  /\ reloads' = 0
  /\ stale' = {}
  /\ UNCHANGED <<entry, wizard, accepted, unheard>>

-----------------------------------------------------------------------------
(* The update listener.  Updating the entry calls it for every update that  *)
(* changes something; it starts at once.                                   *)

\* Mutant: every update is applied in place.
ListenerInPlace(calls) ==
  /\ Listening
  /\ calls > 0
  /\ coord' = [coord EXCEPT !.eics = Enabled(entry')]
  /\ UNCHANGED <<reloads, unheard>>

\* _async_update_listener: a changed set of EICs takes a reload, anything else is
\* applied in place.
Listener(calls) ==
  /\ Listening
  /\ IF coord.eics # Enabled(entry')
     THEN /\ reloads + calls <= MaxReloads
          /\ reloads' = reloads + calls
          /\ UNCHANGED coord
     ELSE /\ coord' = [coord EXCEPT !.eics = Enabled(entry')]
          /\ UNCHANGED reloads
  /\ UNCHANGED unheard

\* The entry is updated and no listener is there; a coordinator may be.
NoListener ==
  /\ ~Listening
  /\ unheard' = (unheard \/ (phase \in {"setup", "forwarding"} /\ entry' # entry))
  /\ UNCHANGED <<coord, reloads>>

\* A dialog makes up to two updates, of the data and of the options; one that changes
\* nothing calls no listener.
Updated(most) ==
  /\ \/ \E calls \in (IF entry' = entry THEN 0 ELSE 1)..most : Listener(calls)
     \/ NoListener
  /\ UNCHANGED <<phase, entities, stale>>

SetUpWizard ==
  /\ phase = "absent"
  /\ OpenWizard \/ SubmitUser \/ SubmitFolder \/ SubmitEics \/ CloseWizard
  /\ UNCHANGED <<phase, coord, entities, reloads, unheard, stale>>

\* The wizard's last form creates the entry, and Home Assistant sets it up.
CreateEntry ==
  /\ phase = "absent"
  /\ SubmitPostSetup
  /\ phase' = "not_loaded"
  /\ UNCHANGED <<coord, entities, reloads, unheard, stale>>

ChangeOptions ==
  /\ phase # "absent"
  /\ SubmitOptions
  /\ Updated(2)

RescanMailbox ==
  /\ phase # "absent"
  /\ \/ SubmitRescan /\ Updated(2)
     \/ /\ BeginRescan \/ CloseRescan
        /\ UNCHANGED <<phase, coord, entities, reloads, unheard, stale>>

\* A new password is an update, and its reload waits for its turn.
NewPassword ==
  /\ phase # "absent"
  /\ SubmitReauth
  /\ Updated(1)

RotatePassword ==
  /\ Rotate
  /\ UNCHANGED <<phase, coord, entities, reloads, unheard, stale>>

Setup == Construct \/ CannotConnect \/ FolderMissing \/ PasswordRefused
            \/ FirstRefresh \/ Forwarded \/ RetrySetup
Dialogs == SetUpWizard \/ CreateEntry \/ ChangeOptions \/ RescanMailbox \/ NewPassword

Next ==
  \/ Setup
  \/ Reload \/ ReloadForDialog \/ Unload \/ PollRefused \/ StalePollEnds
  \/ UserReloads \/ Remove \/ Restart
  \/ Dialogs \/ RotatePassword
-----------------------------------------------------------------------------
Spec == Init /\ [][Next]_vars
=============================================================================
