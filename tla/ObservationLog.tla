--------------------------- MODULE ObservationLog ---------------------------
(***************************************************************************)
(* What the ledger promises its callers (include/atperson/core.h): a list  *)
(* of observations that only grows, whose members keep their id and key,   *)
(* change outcome one at a time, and lose their text only by compaction.   *)
(* A crash is invisible here: each operation happens entirely or not.      *)
(***************************************************************************)
EXTENDS Naturals, Sequences

CONSTANTS Keys, Outcomes, Payloads

VARIABLE entries

Closed == {"learned", "skipped", "withdrawn"}

Init == entries = <<>>

Observe ==
    \E k \in Keys, o \in Outcomes, p \in Payloads :
        /\ \A i \in DOMAIN entries : entries[i].key # k
        /\ entries' = Append(entries, [key |-> k, outcome |-> o, payload |-> p])

Resolve ==
    \E i \in DOMAIN entries, o \in Outcomes :
        /\ entries[i].outcome \in Closed => o # "pending"
        /\ entries' = [entries EXCEPT ![i].outcome = o]

\* Text leaves a withdrawn entry, and a learned or skipped one whose elders
\* have released theirs; an open entry keeps its text.
Releasable == {i \in DOMAIN entries : /\ entries[i].payload = "text"
                                      /\ entries[i].outcome \in {"learned", "skipped"}}

Shrink ==
    \E R \in SUBSET Releasable :
        /\ \A i \in R : \A j \in Releasable : j < i => j \in R
        /\ entries' = [i \in DOMAIN entries |->
                        IF i \in R THEN [entries[i] EXCEPT !.payload = "released"]
                        ELSE IF entries[i].outcome = "withdrawn" /\ entries[i].payload = "text"
                             THEN [entries[i] EXCEPT !.payload = "none"]
                             ELSE entries[i]]

Next == Observe \/ Resolve \/ Shrink

Spec == Init /\ [][Next]_entries
=============================================================================
