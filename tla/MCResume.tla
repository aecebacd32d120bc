------------------------------ MODULE MCResume ------------------------------
(* The worlds TLC checks the interrupted and resumed run in. *)
EXTENDS ResumeProps
CONSTANTS a, b, c, p

MCLabels == {a, b, c, p}
MCTwo == <<<<a>>, <<b>>>>

(* A plain scan of one target by one worker. *)
Plain ==
  [targets |-> 1, recursive |-> FALSE, depth |-> 1, maxQueries |-> 0, workers |-> 1,
   exists |-> {<<a>>}, wild |-> {}, flaky |-> FALSE, noAbort |-> TRUE, permute |-> FALSE,
   perms |-> <<>>, logNames |-> <<>>, logsFail |-> FALSE]

(* A recursive scan by two workers. *)
Tree ==
  [Plain EXCEPT !.recursive = TRUE, !.depth = 2, !.workers = 2,
     !.exists = {<<a>>, <<b>>, <<b, a>>}]

(* The same with one worker, where every name below one it finds resolves.     *)
Wildcarded == [Tree EXCEPT !.workers = 1, !.exists = {<<a>>, <<b>>}, !.wild = {<<b>>}]

(* Permutations of one target under a cap, with an overloaded resolver.        *)
Permuted ==
  [Plain EXCEPT !.workers = 2, !.maxQueries = 2, !.flaky = TRUE, !.noAbort = FALSE,
     !.permute = TRUE, !.exists = {<<a>>, <<b>>, <<a, p>>},
     !.perms = <<[seed |-> <<a>>, name |-> <<a, p>>], [seed |-> <<b>>, name |-> <<b, p>>],
                 [seed |-> <<a, p>>, name |-> <<p, a>>]>>]

(* Two targets: without permutations, with a working resolver, and by one worker. *)
Two == [Permuted EXCEPT !.targets = 2]
TwoPlain == [Two EXCEPT !.permute = FALSE]
TwoCalm == [Two EXCEPT !.flaky = FALSE]
TwoAlone == [Two EXCEPT !.workers = 1, !.perms = <<Head(@)>>]

(* Recursion and permutations below names of the certificate logs: one is in   *)
(* the wordlist, one is new.                                                   *)
Logged ==
  [Plain EXCEPT !.recursive = TRUE, !.depth = 2, !.permute = TRUE,
     !.logNames = <<<<b>>, <<c>>>>,
     !.exists = {<<a>>, <<c>>, <<a, c>>, <<c, p>>, <<a, p>>},
     !.perms = <<[seed |-> <<c>>, name |-> <<c, p>>], [seed |-> <<a>>, name |-> <<a, p>>]>>]

MCWorlds == {Tree, Wildcarded, Permuted, TwoPlain, TwoCalm, TwoAlone, Logged}

MCOverloaded == {[Plain EXCEPT !.targets = 2, !.flaky = TRUE, !.noAbort = FALSE]}
MCSpent == {[Plain EXCEPT !.targets = 2]}
(* A wordlist with an entry of two labels, and a name below it. *)
MCDotted == <<<<a>>, <<b, c>>>>
MCDottedParent == {[Plain EXCEPT !.recursive = TRUE, !.depth = 2, !.exists = {<<b, c>>, <<a, b, c>>}]}
MCLogsDown ==
  {[Logged EXCEPT !.recursive = FALSE, !.depth = 1, !.logsFail = TRUE]}
=============================================================================
