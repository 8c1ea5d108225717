------------------------------ MODULE MCGraph ------------------------------
(***************************************************************************)
(* Instance of Graph for TLC: two texts of three tokens, one of them old   *)
(* enough for the legacy tokenizer, with every token in one hash bucket,   *)
(* and edges and groups in few, so that chains and collisions occur.       *)
(***************************************************************************)
EXTENDS Graph

FirstIsOld == <<1>>

TokensBefore == << <<"a", "b">>, <<"b", "c">> >>

TokensNow == << <<"a", "b">>, <<"b", "c", "b">> >>

OneBucket(t) == 1

FewBuckets(s, t) == s + t

ByLength(s) == Len(s)

\* scaled down: three rows lack 9 bytes, which two episodes and no feeling do not
\* leave behind them, and two episodes with one felt token do
FewBytes(episodes, records, log) == 4 + episodes + 2 * records + log
=============================================================================
