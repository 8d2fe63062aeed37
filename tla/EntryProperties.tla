--------------------------- MODULE EntryProperties ---------------------------
(***************************************************************************)
(* What should be true of an entry's life, whatever the dialogs do and     *)
(* whenever they do it.                                                    *)
(***************************************************************************)
EXTENDS EntryLifecycle

(* A coordinator that has come to rest works for the metering points that   *)
(* are switched on, and each of them has its sensors: "Discovery / EIC-list *)
(* changes need a full reload so platforms re-create their entities"        *)
(* (_async_update_listener).  It is not so after an update that came while  *)
(* the entry was being set up: the listener is added last                   *)
(* (async_setup_entry).                                                     *)
InSyncIfHeard ==
  phase = "loaded" /\ reloads = 0 /\ ~unheard
    => coord.eics = Enabled(entry) /\ entities = Enabled(entry)

(* A loaded coordinator, which never reads the password again, logs in with *)
(* the entry's, except between a new password and the reload that           *)
(* async_step_reauth_confirm asks for.                                      *)
CredentialsCurrent ==
  phase = "loaded" /\ reauth # "waiting" => coord.password = entry.password

(* Whoever has just typed a new password that the server accepts is not     *)
(* asked for one again: a dialog opens only if the server refuses the       *)
(* entry's own password, or for a poll that an unloaded coordinator left    *)
(* behind (async_step_reauth_confirm, ConfigEntryAuthFailed).               *)
PromptsJustified ==
  [][reauth = None /\ reauth' = "open"
        => entry.password # accepted \/ stale # {}]_vars

EicsIn(folder) == {m[1] : m \in Holds[folder]}

(* Every metering point of an entry was found in the folder that the entry  *)
(* polls, in whatever order folders were tried (async_step_folder).         *)
EicsFromFolder ==
  phase # "absent" => Known(entry) \subseteq EicsIn(entry.folder)

(* A metering point the entry knows is never forgotten, only switched off:  *)
(* a rescan may find fewer than before, and an options form may be older    *)
(* than a rescan (async_step_options, async_step_rescan).                   *)
KnownKept ==
  [][phase # "absent" /\ phase' # "absent" => Known(entry) \subseteq Known(entry')]_vars

(* A rescan makes the polls accept the senders it saw and, unless the list  *)
(* was empty, all they accepted before, although the options form may have  *)
(* changed the list since the mailbox was read (async_step_rescan: "so an   *)
(* additional forwarder picked up by the rescan doesn't get silently        *)
(* rejected at the next poll").                                             *)
RescanKeepsSenders ==
  [][\A s \in Senders :
        rescan.open /\ entry' # entry /\ ~rescan'.open /\ phase' # "absent"
          /\ (s \in rescan.senders \/ s \in entry.allow)
          => s \in Allowed(entry')]_vars
-----------------------------------------------------------------------------
(* Why the invariants above hold.  What a dialog remembers belongs together *)
(* when it is used.                                                        *)
DialogsInv ==
  /\ wizard.form \in {"folder", "discover_eics", "post_setup"} =>
       wizard.password \in Passwords
  /\ wizard.form \in {"discover_eics", "post_setup"} =>
       wizard.folder \in Folders /\ wizard.found \subseteq EicsIn(wizard.folder)
  /\ rescan.open => phase # "absent" /\ rescan.found \subseteq EicsIn(entry.folder)

\* A coordinator under construction copied the EICs as they are, unless an update was
\* not heard; one that is loaded differs from the entry only while a reload waits.
EicsInv ==
  /\ phase \in {"setup", "forwarding"} => unheard \/ coord.eics = Enabled(entry)
  /\ phase = "loaded" => /\ entities = coord.eics
                         /\ reloads > 0 \/ unheard \/ coord.eics = Enabled(entry)

\* A coordinator has the entry's password unless the password dialog's reload is to
\* replace it; that reload ends before the entry comes to rest.
PasswordInv ==
  /\ reauth = "reloading" => phase \in {"unloading", "not_loaded", "setup", "forwarding"}
  /\ phase \in Running => \/ coord.password = entry.password
                          \/ reauth = "waiting"
                          \/ reauth = "reloading" /\ phase = "unloading"

(* The inductive invariant of EntryProofs: what the dialogs remember, what  *)
(* the coordinator copied and where the password dialog's reload stands     *)
(* agree, at every point of a setup or an unload (async_setup_entry,        *)
(* async_unload_entry, async_step_reauth_confirm).                          *)
EntryInv == TypeOK /\ DialogsInv /\ EicsFromFolder /\ EicsInv /\ PasswordInv
-----------------------------------------------------------------------------
(* Fairness: what Home Assistant has begun goes on, and tasks that wait get *)
(* their turn; a user types the password asked for, and reloads an entry    *)
(* that shows an error and asks for nothing; the mail server is reachable,  *)
(* with the folder, from some time on, and Home Assistant is not restarted  *)
(* for ever.  Nothing is assumed of the other things users do.             *)
LifecycleStep ==
  Construct \/ PasswordRefused \/ FirstRefresh \/ Forwarded \/ RetrySetup
     \/ Reload \/ ReloadForDialog \/ Unload

ReloadAfterError ==
  /\ phase = "error" \/ (phase = "refused" /\ reauth = None)
  /\ UserReloads

Fairness ==
  /\ WF_vars(LifecycleStep) /\ SF_vars(ReloadForDialog)
  /\ WF_vars(NewPassword)
  /\ WF_vars(ReloadAfterError)
  /\ <>[][~(CannotConnect \/ FolderMissing \/ Restart)]_vars

FairSpec == Spec /\ Fairness

(* The choice of metering points that a setup or a reload is to pick up is  *)
(* picked up: no reload is lost, however reloads, failed setups, refused    *)
(* passwords and restarts follow one another, except that an update may     *)
(* come while the coordinator is being set up (async_setup_entry,           *)
(* _async_update_listener).                                                *)
ChoiceTakesEffect ==
  reloads > 0 \/ phase \notin {"absent", "loaded"}
    ~> \/ phase = "loaded" /\ coord.eics = Enabled(entry)
       \/ unheard \/ phase = "absent"
=============================================================================
