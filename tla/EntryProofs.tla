----------------------------- MODULE EntryProofs -----------------------------
(***************************************************************************)
(* The entry's invariants, for any metering points, folders, senders,      *)
(* number of password changes and of waiting reloads.                      *)
(***************************************************************************)
EXTENDS EntryProperties, TLAPS

(* The steps of the entry without its dialogs leave what the dialogs have   *)
(* written alone, except that a removal empties it.                        *)
LEMMA StepsOnFlow ==
    ASSUME [Next]_vars
    PROVE  \/ Dialogs \/ RotatePassword
           \/ UNCHANGED <<entry, wizard, rescan, accepted>>
           \/ phase # "absent" /\ rescan' = NoRescan /\ UNCHANGED <<entry, wizard, accepted>>
           \/ /\ phase' = "absent" /\ entry' = NoEntry /\ rescan' = NoRescan
              /\ UNCHANGED <<wizard, accepted>>
<1> USE DEF flowVars
<1>1. CASE Setup
  BY <1>1 DEF Setup, Construct, CannotConnect, FolderMissing, PasswordRefused, SetupFails,
              FirstRefresh, Forwarded, RetrySetup
<1>2. CASE Reload \/ ReloadForDialog \/ Unload
  BY <1>2 DEF Reload, ReloadForDialog, BeginReload, Unload
<1>3. CASE PollRefused \/ StalePollEnds \/ UserReloads
  BY <1>3 DEF PollRefused, StalePollEnds, UserReloads
<1>4. CASE Remove \/ Restart
  BY <1>4 DEF Remove, Restart, Resting
<1>5. CASE UNCHANGED vars
  BY <1>5 DEF vars
<1>6. QED
  BY <1>1, <1>2, <1>3, <1>4, <1>5 DEF Next

-----------------------------------------------------------------------------
(* Types.                                                                  *)

\* A folder's discoveries are metering points and senders of its mail.
LEMMA DiscoveriesType ==
    ASSUME NEW f \in Folders, NEW d \in Discoveries(f)
    PROVE  /\ d.found \in SUBSET Eics /\ d.senders \in SUBSET Senders
           /\ d.found \subseteq EicsIn(f)
<1>1. PICK recent \in SUBSET Holds[f] :
         d = [found |-> {m[1] : m \in recent}, senders |-> {m[2] : m \in recent}]
  BY DEF Discoveries
<1>2. Holds[f] \subseteq Eics \X Senders
  BY FlowAssumption
<1>3. \A m \in recent : m \in Holds[f] /\ m[1] \in Eics /\ m[2] \in Senders
  BY <1>2
<1>4. QED
  BY <1>1, <1>3 DEF EicsIn

\* What the wizard's forms leave behind.
LEMMA WizardType ==
    ASSUME TypeOK, DialogsInv,
           OpenWizard \/ SubmitUser \/ SubmitFolder \/ SubmitEics \/ CloseWizard,
           UNCHANGED phase
    PROVE  FlowTypeOK' /\ DialogsInv' /\ UNCHANGED <<entry, rescan, reauth, accepted>>
<1>0. FlowTypeOK
  BY DEF TypeOK
<1>1. CASE OpenWizard \/ CloseWizard
  BY <1>0, <1>1, FlowAssumption
  DEF OpenWizard, CloseWizard, Closed, FlowTypeOK, DialogsInv, Known, Passwords
<1>2. CASE SubmitUser \/ SubmitEics
  BY <1>0, <1>2, FlowAssumption DEF SubmitUser, SubmitEics, FlowTypeOK, DialogsInv
<1>3. CASE SubmitFolder
  <2>1. PICK f \in Folders : \E d \in Discoveries(f) :
          wizard' = [wizard EXCEPT !.folder = f, !.found = d.found, !.senders = d.senders,
                       !.form = IF d.found = {} THEN "folder" ELSE "discover_eics"]
    BY <1>3 DEF SubmitFolder
  <2>2. PICK d \in Discoveries(f) :
          wizard' = [wizard EXCEPT !.folder = f, !.found = d.found, !.senders = d.senders,
                       !.form = IF d.found = {} THEN "folder" ELSE "discover_eics"]
    BY <2>1
  <2>3. QED
    BY <1>0, <1>3, <2>2, DiscoveriesType DEF SubmitFolder, FlowTypeOK, DialogsInv
<1>4. QED
  BY <1>1, <1>2, <1>3

\* What the other dialogs leave behind in an entry: its folder, and of its metering
\* points at least those it knew.
DialogKeeps ==
  /\ FlowTypeOK' /\ DialogsInv' /\ EicsFromFolder'
  /\ entry'.folder = entry.folder /\ entry'.password \in Passwords
  /\ Known(entry) \subseteq Known(entry')

LEMMA OptionsKeep ==
    ASSUME TypeOK, DialogsInv, EicsFromFolder, phase # "absent", UNCHANGED phase, SubmitOptions
    PROVE  DialogKeeps
<1>1. PICK on \in SUBSET Known(entry), allow \in SUBSET Senders :
        entry' = [entry EXCEPT
          !.eics = [e \in Eics |-> IF e \in Known(entry) THEN Record(on, e) ELSE @[e]],
          !.allow = allow]
  BY DEF SubmitOptions
<1>2. /\ entry'.folder = entry.folder /\ entry'.password = entry.password
      /\ entry'.allow = allow
      /\ entry'.eics = [e \in Eics |-> IF e \in Known(entry) THEN Record(on, e)
                                                             ELSE entry.eics[e]]
      /\ entry' \in [folder : Folders \cup {None}, password : Passwords \cup {None},
                     eics : [Eics -> Records], allow : SUBSET Senders]
  BY <1>1 DEF TypeOK, FlowTypeOK, Record, Records
<1>3. Known(entry') = Known(entry)
  BY <1>2 DEF Known, Record
<1>4. QED
  BY <1>2, <1>3 DEF SubmitOptions, DialogKeeps, TypeOK, FlowTypeOK, DialogsInv, EicsFromFolder

LEMMA RescanKeeps ==
    ASSUME TypeOK, DialogsInv, EicsFromFolder, phase # "absent", UNCHANGED phase, SubmitRescan
    PROVE  DialogKeeps
<1>1. PICK picked \in SUBSET rescan.found :
        entry' = [entry EXCEPT !.eics = Merged(picked), !.allow = MergedAllowlist]
  BY DEF SubmitRescan
<1>2. /\ entry'.folder = entry.folder /\ entry'.password = entry.password
      /\ entry'.eics = Merged(picked)
      /\ entry' \in [folder : Folders \cup {None}, password : Passwords \cup {None},
                     eics : [Eics -> Records], allow : SUBSET Senders]
  BY <1>1 DEF TypeOK, FlowTypeOK, Merged, MergedAllowlist, Record, Records
<1>3. rescan.found \subseteq Eics
  BY DEF TypeOK, FlowTypeOK
<1>4. Known(entry') = Known(entry) \cup rescan.found
  BY <1>2, <1>3 DEF Known, Merged, Record
<1>5. QED
  BY <1>2, <1>4
  DEF SubmitRescan, NoRescan, DialogKeeps, TypeOK, FlowTypeOK, DialogsInv, EicsFromFolder

LEMMA ReauthKeeps ==
    ASSUME TypeOK, DialogsInv, EicsFromFolder, phase # "absent", UNCHANGED phase, SubmitReauth
    PROVE  DialogKeeps /\ UNCHANGED entry.eics
<1>1. /\ entry'.folder = entry.folder /\ entry'.password = accepted
      /\ entry'.eics = entry.eics
      /\ entry' \in [folder : Folders \cup {None}, password : Passwords \cup {None},
                     eics : [Eics -> Records], allow : SUBSET Senders]
  BY DEF SubmitReauth, TypeOK, FlowTypeOK
<1>2. Known(entry') = Known(entry)
  BY <1>1 DEF Known
<1>3. QED
  BY <1>1, <1>2 DEF SubmitReauth, DialogKeeps, TypeOK, FlowTypeOK, DialogsInv, EicsFromFolder

LEMMA BeginRescanKeeps ==
    ASSUME TypeOK, DialogsInv, EicsFromFolder, phase # "absent", UNCHANGED phase,
           BeginRescan \/ CloseRescan
    PROVE  DialogKeeps /\ UNCHANGED <<entry, reauth, accepted>>
<1>1. CASE BeginRescan
  <2>1. PICK d \in Discoveries(entry.folder) :
          rescan' = [open |-> TRUE, found |-> d.found, senders |-> d.senders]
    BY <1>1 DEF BeginRescan
  <2>2. /\ d.found \in SUBSET Eics /\ d.senders \in SUBSET Senders
        /\ d.found \subseteq EicsIn(entry.folder)
    BY DiscoveriesType DEF TypeOK
  <2>3. QED
    BY <1>1, <2>1, <2>2
    DEF BeginRescan, DialogKeeps, TypeOK, FlowTypeOK, DialogsInv, EicsFromFolder
<1>2. CASE CloseRescan
  BY <1>2
  DEF CloseRescan, NoRescan, DialogKeeps, TypeOK, FlowTypeOK, DialogsInv, EicsFromFolder
<1>3. QED
  BY <1>1, <1>2

\* The wizard's last form.
LEMMA CreateType ==
    ASSUME TypeOK, DialogsInv, phase = "absent", phase' = "not_loaded", SubmitPostSetup
    PROVE  /\ FlowTypeOK' /\ DialogsInv' /\ EicsFromFolder'
           /\ entry'.folder \in Folders /\ entry'.password \in Passwords
<1>1. /\ entry'.folder = wizard.folder /\ entry'.password = wizard.password
      /\ entry'.eics = [e \in Eics |-> IF e \in wizard.found
                                       THEN Record(wizard.picked, e) ELSE "unknown"]
      /\ wizard.folder \in Folders /\ wizard.password \in Passwords
      /\ entry' \in [folder : Folders \cup {None}, password : Passwords \cup {None},
                     eics : [Eics -> Records], allow : SUBSET Senders]
  BY FlowAssumption
  DEF SubmitPostSetup, TypeOK, FlowTypeOK, DialogsInv, Record, Records, InitialAllowlist
<1>2. Known(entry') = wizard.found
  BY <1>1 DEF Known, Record, TypeOK, FlowTypeOK
<1>3. QED
  BY <1>1, <1>2, FlowAssumption
  DEF SubmitPostSetup, Closed, TypeOK, FlowTypeOK, DialogsInv, EicsFromFolder, Known

-----------------------------------------------------------------------------
(* The inductive invariant, part by part.                                  *)

\* The parts that are about the dialogs.
FlowInv == FlowTypeOK /\ DialogsInv /\ EicsFromFolder

LEMMA FlowStep ==
    ASSUME TypeOK, DialogsInv, EicsFromFolder, [Next]_vars
    PROVE  /\ FlowInv'
           /\ phase' # "absent" => entry'.folder \in Folders /\ entry'.password \in Passwords
<1> DEFINE Goal == /\ FlowInv'
                   /\ phase' # "absent" =>
                        entry'.folder \in Folders /\ entry'.password \in Passwords
<1>1. CASE SetUpWizard
  BY <1>1, WizardType DEF SetUpWizard, EicsFromFolder, FlowInv
<1>2. CASE CreateEntry
  BY <1>2, CreateType DEF CreateEntry, FlowInv
<1>3. CASE ChangeOptions \/ RescanMailbox \/ NewPassword
  <2>1. UNCHANGED phase /\ phase # "absent"
    BY <1>3 DEF ChangeOptions, RescanMailbox, NewPassword, Updated
  <2>2. DialogKeeps
    BY <1>3, <2>1, OptionsKeep, RescanKeeps, ReauthKeeps, BeginRescanKeeps
    DEF ChangeOptions, RescanMailbox, NewPassword
  <2>3. QED
    BY <2>1, <2>2 DEF DialogKeeps, FlowInv, TypeOK
<1>4. CASE RotatePassword
  <2>1. accepted' \in Passwords
    BY <1>4, FlowAssumption DEF RotatePassword, Rotate, TypeOK, FlowTypeOK, Passwords
  <2>2. QED
    BY <1>4, <2>1 DEF RotatePassword, Rotate, FlowInv, TypeOK, FlowTypeOK, DialogsInv,
                      EicsFromFolder, Known
<1>5. reauth' \in {None, "open", "waiting", "reloading"} \/ Dialogs \/ RotatePassword
  <2>1. CASE Setup
    BY <2>1 DEF Setup, Construct, CannotConnect, FolderMissing, PasswordRefused, SetupFails,
                FirstRefresh, Forwarded, RetrySetup, DialogDone, flowVars, TypeOK, FlowTypeOK
  <2>2. CASE Reload \/ ReloadForDialog \/ Unload \/ PollRefused
    BY <2>2 DEF Reload, ReloadForDialog, BeginReload, Unload, PollRefused, Asked, flowVars,
                TypeOK, FlowTypeOK
  <2>3. CASE StalePollEnds \/ UserReloads \/ Remove \/ Restart \/ UNCHANGED vars
    BY <2>3 DEF StalePollEnds, UserReloads, Remove, Restart, Asked, flowVars, vars,
                TypeOK, FlowTypeOK
  <2>4. QED
    BY <2>1, <2>2, <2>3 DEF Next
<1>6. CASE /\ ~Dialogs /\ ~RotatePassword
           /\ UNCHANGED <<entry, wizard, rescan, accepted>>
  <2>1. (phase' = "absent" <=> phase = "absent") \/ Remove
    BY <1>6 DEF Next, Setup, Construct, CannotConnect, FolderMissing, PasswordRefused,
         SetupFails, FirstRefresh, Forwarded, RetrySetup, Reload, ReloadForDialog, BeginReload,
         Resting, Unload, PollRefused, StalePollEnds, UserReloads, Restart, vars
  <2>2. CASE Remove
    BY <1>5, <1>6, <2>2 DEF Remove, NoRescan, FlowInv, TypeOK, FlowTypeOK, DialogsInv,
                            EicsFromFolder
  <2>3. CASE phase' = "absent" <=> phase = "absent"
    BY <1>5, <1>6, <2>3 DEF FlowInv, TypeOK, FlowTypeOK, DialogsInv, EicsFromFolder, Known
  <2>4. QED
    BY <2>1, <2>2, <2>3
<1>7. CASE phase # "absent" /\ rescan' = NoRescan /\ UNCHANGED <<entry, wizard, accepted>>
           /\ ~Dialogs /\ ~RotatePassword
  BY <1>5, <1>7 DEF NoRescan, FlowInv, TypeOK, FlowTypeOK, DialogsInv, EicsFromFolder, Known
<1>8. CASE /\ phase' = "absent" /\ entry' = NoEntry /\ rescan' = NoRescan
           /\ UNCHANGED <<wizard, accepted>> /\ ~Dialogs /\ ~RotatePassword
  BY <1>5, <1>8 DEF NoEntry, NoRescan, FlowInv, TypeOK, FlowTypeOK, DialogsInv,
                    EicsFromFolder, Records
<1>9. QED
  BY <1>1, <1>2, <1>3, <1>4, <1>6, <1>7, <1>8, StepsOnFlow DEF Dialogs

\* What the lifecycle's own variables hold.
LEMMA TypeStep ==
    ASSUME TypeOK, DialogsInv, EicsFromFolder, [Next]_vars
    PROVE  TypeOK'
<1> DEFINE CoordType == /\ coord \in [eics : SUBSET Eics, password : Passwords \cup {None}]
                        /\ coord.password \in Passwords <=> phase \in Running
           RestType == /\ phase \in Phases /\ entities \in SUBSET Eics
                       /\ reloads \in 0..MaxReloads /\ unheard \in BOOLEAN
                       /\ stale \in SUBSET Passwords
<1>0. None \notin Passwords /\ MaxReloads \in Nat
  BY FlowAssumption, LifecycleAssumption DEF Passwords
<1>1. (CoordType /\ RestType)'
  <2>1. CASE Setup
    <3>1. CASE Construct
      <4>1. Enabled(entry) \in SUBSET Eics /\ entry.password \in Passwords
        BY <3>1 DEF Construct, Enabled, TypeOK
      <4>2. QED
        BY <3>1, <4>1 DEF Construct, Running, Phases, TypeOK
    <3>2. CASE CannotConnect \/ FolderMissing \/ PasswordRefused
      <4>1. PICK why \in {"retry", "error", "refused"} : \E dialog : SetupFails(why, dialog)
        BY <3>2 DEF CannotConnect, FolderMissing, PasswordRefused
      <4>2. QED
        BY <1>0, <4>1 DEF SetupFails, NoCoordinator, Running, Phases, TypeOK
    <3>3. CASE FirstRefresh \/ Forwarded \/ RetrySetup
      BY <1>0, <3>3 DEF FirstRefresh, Forwarded, RetrySetup, Running, Phases, TypeOK
    <3>4. QED
      BY <2>1, <3>1, <3>2, <3>3 DEF Setup
  <2>2. CASE Reload \/ ReloadForDialog
    BY <1>0, <2>2 DEF Reload, ReloadForDialog, BeginReload, Resting, Running, Phases, TypeOK
  <2>3. CASE Unload
    BY <1>0, <2>3 DEF Unload, NoCoordinator, Running, Phases, TypeOK
  <2>4. CASE PollRefused \/ StalePollEnds \/ UserReloads \/ UNCHANGED vars
    BY <1>0, <2>4 DEF PollRefused, StalePollEnds, UserReloads, vars, Running, TypeOK
  <2>5. CASE Remove \/ Restart
    BY <1>0, <2>5, LifecycleAssumption
    DEF Remove, Restart, NoCoordinator, Running, Phases, TypeOK
  <2>6. CASE SetUpWizard \/ RotatePassword
    BY <1>0, <2>6 DEF SetUpWizard, RotatePassword, TypeOK
  <2>7. CASE CreateEntry
    BY <1>0, <2>7 DEF CreateEntry, Running, Phases, TypeOK
  <2>8. ASSUME NEW most \in {1, 2}, Updated(most) PROVE (CoordType /\ RestType)'
    <3>1. CASE NoListener
      BY <1>0, <2>8, <3>1 DEF Updated, NoListener, TypeOK
    <3>2. ASSUME NEW calls \in 0..2, Listener(calls) PROVE (CoordType /\ RestType)'
      BY <1>0, <2>8, <3>2 DEF Updated, Listener, Enabled, TypeOK
    <3>3. QED
      BY <2>8, <3>1, <3>2 DEF Updated
  <2>9. CASE ChangeOptions \/ RescanMailbox \/ NewPassword
    BY <1>0, <2>8, <2>9 DEF ChangeOptions, RescanMailbox, NewPassword, TypeOK
  <2>10. QED
    BY <2>1, <2>2, <2>3, <2>4, <2>5, <2>6, <2>7, <2>9 DEF Next, Dialogs
<1>2. QED
  BY <1>1, FlowStep DEF TypeOK, FlowInv

LEMMA EicsStep ==
    ASSUME TypeOK, EicsInv, [Next]_vars
    PROVE  EicsInv'
<1> USE DEF EicsInv
<1>1. CASE Setup
  BY <1>1 DEF Setup, Construct, CannotConnect, FolderMissing, PasswordRefused, SetupFails,
              FirstRefresh, Forwarded, RetrySetup, flowVars, Enabled
<1>2. CASE Reload \/ ReloadForDialog \/ Unload \/ Remove \/ Restart
  BY <1>2 DEF Reload, ReloadForDialog, BeginReload, Unload, Remove, Restart
<1>3. CASE PollRefused \/ StalePollEnds \/ UserReloads \/ UNCHANGED vars
  BY <1>3 DEF PollRefused, StalePollEnds, UserReloads, vars, flowVars, Enabled, TypeOK
<1>4. CASE SetUpWizard \/ CreateEntry \/ RotatePassword
  BY <1>4 DEF SetUpWizard, CreateEntry, RotatePassword, Rotate, Enabled
<1>5. ASSUME NEW most \in {1, 2}, Updated(most) PROVE EicsInv'
  <2>1. CASE NoListener
    BY <1>5, <2>1 DEF Updated, NoListener, Listening, Enabled
  <2>2. ASSUME NEW calls \in 0..2, Listener(calls), calls = 0 => entry' = entry PROVE EicsInv'
    <3>1. UNCHANGED <<phase, entities, unheard>> /\ reloads \in Nat
      BY <1>5, <2>2, LifecycleAssumption DEF Updated, Listener, TypeOK
    <3>2. CASE coord.eics # Enabled(entry')
      <4>1. CASE calls = 0
        BY <2>2, <3>1, <3>2, <4>1 DEF Listener, Listening, Enabled
      <4>2. CASE calls > 0
        BY <2>2, <3>1, <3>2, <4>2 DEF Listener, Listening
      <4>3. QED
        BY <4>1, <4>2
    <3>3. CASE coord.eics = Enabled(entry')
      <4>1. coord'.eics = Enabled(entry') /\ coord'.eics = coord.eics
        BY <2>2, <3>3 DEF Listener, TypeOK
      <4>2. Enabled(entry)' = Enabled(entry')
        BY DEF Enabled
      <4>3. QED
        BY <2>2, <3>1, <4>1, <4>2 DEF Listener, Listening
    <3>4. QED
      BY <3>2, <3>3
  <2>3. QED
    BY <1>5, <2>1, <2>2 DEF Updated
<1>6. CASE ChangeOptions \/ RescanMailbox \/ NewPassword
  BY <1>5, <1>6 DEF ChangeOptions, RescanMailbox, BeginRescan, CloseRescan, NewPassword, Enabled
<1>7. QED
  BY <1>1, <1>2, <1>3, <1>4, <1>5, <1>6 DEF Next, Dialogs

LEMMA PasswordStep ==
    ASSUME TypeOK, PasswordInv, [Next]_vars
    PROVE  PasswordInv'
<1> USE DEF PasswordInv, Running
<1>0. None \notin {"open", "waiting", "reloading"}
  BY FlowAssumption
<1>1. CASE Setup
  BY <1>0, <1>1 DEF Setup, Construct, CannotConnect, FolderMissing, PasswordRefused, SetupFails,
              FirstRefresh, Forwarded, RetrySetup, DialogDone, flowVars
<1>2. CASE Reload \/ ReloadForDialog \/ Unload \/ Remove \/ Restart
  BY <1>0, <1>2 DEF Reload, ReloadForDialog, BeginReload, Resting, Unload, Remove, Restart,
                    flowVars
<1>3. CASE PollRefused \/ StalePollEnds \/ UserReloads \/ UNCHANGED vars
  BY <1>0, <1>3 DEF PollRefused, StalePollEnds, UserReloads, Asked, vars, flowVars
<1>4. CASE SetUpWizard \/ CreateEntry \/ RotatePassword
  BY <1>4 DEF SetUpWizard, OpenWizard, SubmitUser, SubmitFolder, SubmitEics, CloseWizard,
              CreateEntry, SubmitPostSetup, RotatePassword, Rotate
<1>5. ASSUME NEW most \in {1, 2}, Updated(most)
      PROVE  coord'.password = coord.password /\ UNCHANGED phase
  BY <1>5 DEF Updated, NoListener, Listener, TypeOK
<1>6. CASE ChangeOptions \/ RescanMailbox
  BY <1>5, <1>6 DEF ChangeOptions, SubmitOptions, RescanMailbox, SubmitRescan, BeginRescan,
                    CloseRescan, TypeOK, FlowTypeOK
<1>7. CASE NewPassword
  BY <1>0, <1>5, <1>7 DEF NewPassword, SubmitReauth
<1>8. QED
  BY <1>1, <1>2, <1>3, <1>4, <1>6, <1>7 DEF Next, Dialogs

LEMMA EntryInitially == Init => EntryInv
<1> SUFFICES ASSUME Init PROVE EntryInv
  OBVIOUS
<1>0. /\ None \notin Passwords /\ 0 \in Passwords /\ 0 \in 0..MaxReloads
      /\ None \notin {"user", "folder", "discover_eics", "post_setup", "reloading"}
  BY FlowAssumption, LifecycleAssumption DEF Passwords
<1>1. FlowTypeOK
  BY <1>0 DEF Init, FlowInit, NoEntry, Closed, NoRescan, FlowTypeOK, Records
<1>2. TypeOK
  BY <1>0, <1>1 DEF Init, NoCoordinator, TypeOK, Phases, Running
<1>3. DialogsInv
  BY <1>0 DEF Init, FlowInit, Closed, NoRescan, DialogsInv
<1>4. EicsFromFolder /\ EicsInv /\ PasswordInv
  BY <1>0 DEF Init, FlowInit, EicsFromFolder, EicsInv, PasswordInv, Running
<1>5. QED
  BY <1>2, <1>3, <1>4 DEF EntryInv

(* The inductive invariant holds throughout. *)
THEOREM EntryInvariant == Spec => []EntryInv
<1>1. EntryInv /\ [Next]_vars => EntryInv'
  BY TypeStep, FlowStep, EicsStep, PasswordStep DEF EntryInv, FlowInv
<1>2. QED
  BY <1>1, EntryInitially, PTL DEF Spec

(* The variables keep their types: in particular an entry always has its    *)
(* folder and password, and a coordinator its copy of the password.        *)
THEOREM EntryTypeCorrect == Spec => []TypeOK
  BY EntryInvariant, PTL DEF EntryInv

(* Once everything has come to rest, the coordinator and the sensors are    *)
(* those of the metering points that are switched on, unless an update came *)
(* while the entry was being set up.                                       *)
THEOREM EntryInSync == Spec => []InSyncIfHeard
<1>1. EntryInv => InSyncIfHeard
  BY LifecycleAssumption DEF EntryInv, EicsInv, InSyncIfHeard, TypeOK
<1>2. QED
  BY <1>1, EntryInvariant, PTL

(* A loaded coordinator has the entry's password unless the reload with a   *)
(* new one is yet to come.                                                 *)
THEOREM EntryCredentials == Spec => []CredentialsCurrent
<1>1. EntryInv => CredentialsCurrent
  BY DEF EntryInv, PasswordInv, Running, CredentialsCurrent
<1>2. QED
  BY <1>1, EntryInvariant, PTL

(* An entry polls the folder in which its metering points were found.       *)
THEOREM EntryFolder == Spec => []EicsFromFolder
  BY EntryInvariant, PTL DEF EntryInv

-----------------------------------------------------------------------------
(* What a step may never do.                                               *)

LEMMA PromptStep ==
    ASSUME EntryInv, [Next]_vars, reauth = None, reauth' = "open"
    PROVE  entry.password # accepted \/ stale # {}
<1>0. None \notin {"open", "waiting", "reloading"}
  BY FlowAssumption
<1>1. phase \in Running => coord.password = entry.password
  BY <1>0 DEF EntryInv, PasswordInv
<1>2. CASE PasswordRefused \/ PollRefused
  BY <1>1, <1>2 DEF PasswordRefused, SetupFails, PollRefused, Listening, Running
<1>3. CASE StalePollEnds
  BY <1>3 DEF StalePollEnds
<1>4. CASE Setup /\ ~PasswordRefused
  BY <1>0, <1>4 DEF Setup, Construct, CannotConnect, FolderMissing, SetupFails, FirstRefresh,
                    Forwarded, RetrySetup, DialogDone, flowVars
<1>5. CASE Reload \/ ReloadForDialog \/ Unload \/ UserReloads \/ Remove \/ Restart
  BY <1>0, <1>5 DEF Reload, ReloadForDialog, Unload, UserReloads, Remove, Restart, flowVars
<1>6. CASE SetUpWizard \/ CreateEntry \/ RotatePassword
  BY <1>0, <1>6 DEF SetUpWizard, OpenWizard, SubmitUser, SubmitFolder, SubmitEics, CloseWizard,
                    CreateEntry, SubmitPostSetup, RotatePassword, Rotate
<1>7. CASE ChangeOptions \/ RescanMailbox \/ NewPassword
  BY <1>0, <1>7 DEF ChangeOptions, SubmitOptions, RescanMailbox, SubmitRescan, BeginRescan,
                    CloseRescan, NewPassword, SubmitReauth
<1>8. CASE UNCHANGED vars
  BY <1>0, <1>8 DEF vars, flowVars
<1>9. QED
  BY <1>2, <1>3, <1>4, <1>5, <1>6, <1>7, <1>8 DEF Next, Dialogs

(* The password dialog opens for a password that the server refuses, or for *)
(* a poll left behind by an unloaded coordinator.                          *)
THEOREM EntryPrompts == Spec => PromptsJustified
<1>1. EntryInv /\ [Next]_vars
        => [reauth = None /\ reauth' = "open" => entry.password # accepted \/ stale # {}]_vars
  BY PromptStep
<1>2. QED
  BY <1>1, EntryInvariant, PTL DEF Spec, PromptsJustified

\* What a step does to the metering points and the allowlist of an entry that stays.
LEMMA EntryKept ==
    ASSUME EntryInv, [Next]_vars, phase # "absent", phase' # "absent"
    PROVE  /\ Known(entry) \subseteq Known(entry')
           /\ \A s \in Senders :
                rescan.open /\ entry' # entry /\ ~rescan'.open
                  /\ (s \in rescan.senders \/ s \in entry.allow)
                => s \in Allowed(entry')
<1> USE DEF EntryInv
<1>1. CASE ChangeOptions
  BY <1>1, OptionsKeep DEF ChangeOptions, SubmitOptions, Updated, DialogKeeps
<1>2. CASE RescanMailbox /\ SubmitRescan
  <2>1. UNCHANGED phase
    BY <1>2 DEF RescanMailbox, Updated
  <2>2. entry'.allow = MergedAllowlist
    BY <1>2 DEF SubmitRescan, TypeOK, FlowTypeOK
  <2>3. QED
    BY <1>2, <2>1, <2>2, RescanKeeps DEF DialogKeeps, MergedAllowlist, Allowed
<1>3. CASE RescanMailbox /\ ~SubmitRescan
  BY <1>3 DEF RescanMailbox, BeginRescan, CloseRescan
<1>4. CASE NewPassword
  BY <1>4, ReauthKeeps DEF NewPassword, SubmitReauth, Updated, DialogKeeps
<1>5. CASE RotatePassword \/ SetUpWizard \/ CreateEntry
  BY <1>5 DEF RotatePassword, Rotate, SetUpWizard, CreateEntry
<1>6. CASE UNCHANGED entry
  BY <1>6
<1>7. QED
  BY <1>1, <1>2, <1>3, <1>4, <1>5, <1>6, StepsOnFlow DEF Dialogs

(* No dialog, option or restart makes an entry forget a metering point.     *)
THEOREM EntryKnown == Spec => KnownKept
<1>1. EntryInv /\ [Next]_vars
        => [phase # "absent" /\ phase' # "absent" => Known(entry) \subseteq Known(entry')]_vars
  BY EntryKept
<1>2. QED
  BY <1>1, EntryInvariant, PTL DEF Spec, KnownKept

(* A rescan only adds senders to those whose mail is read, if the list was  *)
(* not empty.                                                              *)
THEOREM EntrySenders == Spec => RescanKeepsSenders
<1>1. EntryInv => (rescan.open => phase # "absent")
  BY DEF EntryInv, DialogsInv
<1>2. EntryInv /\ [Next]_vars
        => [\A s \in Senders :
              rescan.open /\ entry' # entry /\ ~rescan'.open /\ phase' # "absent"
                /\ (s \in rescan.senders \/ s \in entry.allow)
              => s \in Allowed(entry')]_vars
  BY <1>1, EntryKept
<1>3. QED
  BY <1>2, EntryInvariant, PTL DEF Spec, RescanKeepsSenders
=============================================================================
