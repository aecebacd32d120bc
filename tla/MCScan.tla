------------------------------- MODULE MCScan -------------------------------
(* Instances of ScanRun for TLC. *)
EXTENDS ScanProps, TLC

CONSTANTS a, b, c, d, w1, w2, t, t2

\* a flat list with a duplicate and an entry of two labels
MCFlat    == <<<<a>>, <<b>>, <<a>>, <<c>>>>
MCTwo     == <<<<a>>, <<b>>>>
MCDotted  == <<<<a>>, <<a, b>>, <<b>>>>
MCNone    == <<>>
MCNoScope == {}
MCScopeB  == {<<b>>}
MCScopeBA == {<<b, a>>, <<a, b, a>>}
MCTreeB   == {<<b>>}
MCParents == <<<<a>>, <<a, b>>>>
MCTwoWorkers == {w1, w2}
MCLabels  == {a, b, c, d}
Symmetric == Permutations(MCTwoWorkers)
=============================================================================
