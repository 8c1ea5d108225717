------------------------------ MODULE MCLedger ------------------------------
(***************************************************************************)
(* Model checking of Ledger: what the next open would read from the files  *)
(* as they stand, and the refinement of ObservationLog through it.         *)
(***************************************************************************)
EXTENDS Ledger, SequencesExt

CONSTANTS k1, k2

\* One source or author that named both observations.
BothKeys == {{k1, k2}}

FencedAt == IF marker = NoMarker THEN FileSize(log) ELSE marker.offset

Recovered ==
    FoldLeft(LAMBDA r, x :
                IF /\ r.valid /\ x.at < FencedAt
                   /\ x.len = RecordLen(x.rec) /\ x.at + x.len <= FencedAt
                   /\ Acceptable(r.entries, x.rec)
                THEN [entries |-> Applied(r.entries, x.rec), valid |-> TRUE]
                ELSE [r EXCEPT !.valid = FALSE],
             [entries |-> <<>>, valid |-> TRUE], log).entries

Abstract == INSTANCE ObservationLog WITH entries <- Recovered

\* The files implement the promised list: what an open would recover changes
\* only by whole operations, each at its rename, and never by a crash.
ImplementsObservationLog == Abstract!Spec
=============================================================================
