------------------------------ MODULE MCSnapshot ------------------------------
(***************************************************************************)
(* One resource, two contents, and a heap of six maps: enough for the    *)
(* cached datapoint and record (3 maps), a replacement add while the       *)
(* consumer holds part of the old state, and copies of a record's two      *)
(* maps.  A second add while the consumer holds a datapoint and a copied   *)
(* record does not fit and waits for a Collect; SnapshotProofs covers      *)
(* every heap size.                                                        *)
(***************************************************************************)
EXTENDS Snapshot, TLC

CONSTANTS k1, m1, m2, m3, m4, m5, m6, v1, v2

MCKeys == {k1}
MCMapIds == {m1, m2, m3, m4, m5, m6}
MCVals == {v1, v2}

=============================================================================
