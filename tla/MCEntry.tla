------------------------------- MODULE MCEntry -------------------------------
(***************************************************************************)
(* Instance of EntryLifecycle for TLC: an off-take and a producer point,   *)
(* INBOX with mail of the one only and a subfolder with mail of both.      *)
(***************************************************************************)
EXTENDS EntryProperties, TLC

CONSTANTS off, prod, INBOX, subfolder, okte, forwarder

MCHolds == (INBOX :> {<<off, okte>>})
        @@ (subfolder :> {<<off, okte>>, <<prod, forwarder>>})
=============================================================================
