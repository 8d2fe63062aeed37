--------------------------- MODULE MCCoordinator ---------------------------
(***************************************************************************)
(* Instances of Coordinator for TLC.  "off" is an off-take point with two  *)
(* statistics, "prod" a producer with one; the real ones have more of the  *)
(* same.  Messages are the UIDs 9, 10, 11: sorted as byte strings they are *)
(* 10, 11, 9.                                                              *)
(***************************************************************************)
EXTENDS CoordinatorProperties, TLC

CONSTANTS off, prod, okte, stranger

MCSeries   == (off :> {"supplier", "shared"}) @@ (prod :> {"supplier"})
OneSeries  == (off :> {"supplier"}) @@ (prod :> {"supplier"})
MCByteRank == (9 :> 3) @@ (10 :> 1) @@ (11 :> 2)

File(e, d, v) == [eic |-> e, day |-> d, version |-> v, body |-> "good"]

OkteMail(files) ==
    [sender |-> okte, foundBy |-> {"SUBJECT", "TEXT", "TOKEN"}, files |-> files]

(* A file, its correction together with another EIC's file, the next day's. *)
(* The server's full-text search splits the second one's subject.           *)
Corrections ==
    (9  :> OkteMail({File(off, 1, 1)})) @@
    (10 :> [sender |-> okte, foundBy |-> {"TOKEN"},
            files |-> {File(off, 1, 2), File(prod, 1, 1)}]) @@
    (11 :> OkteMail({File(off, 2, 1)}))

(* A correction that overtakes its original, with a garbled copy of another *)
(* file, under a subject that full-text search splits; the original, with a *)
(* late file of an earlier day; a message from an unknown forwarder.        *)
Forwarded ==
    (9  :> [sender |-> okte, foundBy |-> {"TOKEN"},
            files |-> {File(off, 2, 2), [File(prod, 1, 1) EXCEPT !.body = "garbled"]}]) @@
    (10 :> OkteMail({File(off, 1, 1), File(off, 2, 1)})) @@
    (11 :> [sender |-> stranger, foundBy |-> {"TOKEN"}, files |-> {File(off, 1, 2)}])

BothEnabled   == {{off, prod}}
MayDisable    == {{off}, {off, prod}}
OnlyOkte      == {okte}
TextOnly      == {"TEXT", "TOKEN"}
=============================================================================
