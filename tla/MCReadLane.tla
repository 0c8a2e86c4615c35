----------------------------- MODULE MCReadLane -----------------------------
(* TLC instance of ReadLane: every other body brings the first content     *)
(* back.                                                                   *)
EXTENDS ReadLane, TLC

AlternatingHashes == [n \in 0..MaxCommits |-> IF n = 0 THEN 0 ELSE 1 + (n % 2)]
FirstChangesMost == [k \in Accounts |-> IF k = 1 THEN MaxCommits ELSE 1]
=============================================================================
