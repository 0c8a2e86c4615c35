-------------------------- MODULE MCKeyGeneration --------------------------
(* KeyGeneration on small sets of interchangeable attempts and requests. *)
EXTENDS KeyGeneration, TLC

\* Sound where no liveness property is checked.
KeySymmetry == Permutations(Attempts) \cup Permutations(Requests)

\* Which attempt a given callback completes is of no importance, only whether
\* the others complete it too: attempts are interchangeable.
OneAttemptFixed ==
    /\ KeyInit
    /\ row[CHOOSE r \in Requests : TRUE] = CHOOSE c \in Attempts : TRUE

OneFairKeySpec == OneAttemptFixed /\ [][KeyNext]_keyVars /\ KeyFairness
=============================================================================
