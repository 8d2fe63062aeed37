---------------------------- MODULE MCConversions ----------------------------
(***************************************************************************)
(* Instance of DailyFiles and PollWindow for TLC.  They share nothing, so  *)
(* each is checked while the other rests.                                  *)
(***************************************************************************)
EXTENDS DailyFiles, PollWindow

CONSTANTS off, prod

VARIABLE subject  \* what this behaviour is about

RestingFile == [eic |-> off, day |-> 1, notation |-> "basic", flaw |-> "none"]
RestingOptions == CHOOSE o \in Options : TRUE

ConversionsInit ==
  \/ /\ subject = "files"
     /\ FilesInit
     /\ now = 0 /\ wait = 0 /\ options = RestingOptions /\ seen = TRUE
  \/ /\ subject = "window"
     /\ WindowInit
     /\ file = RestingFile /\ parsed = Unparsed

ConversionsNext ==
  \/ subject = "files" /\ FilesNext /\ UNCHANGED <<windowVars, subject>>
  \/ subject = "window" /\ WindowNext /\ UNCHANGED <<fileVars, subject>>

ConversionsSpec == ConversionsInit /\ [][ConversionsNext]_<<fileVars, windowVars, subject>>
=============================================================================
