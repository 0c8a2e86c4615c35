---------------------------- MODULE TrailingCopy ----------------------------
(***************************************************************************)
(* What the website promises of anything it derives from something else:   *)
(* the source advances, and the copy follows it.  The copy may skip what   *)
(* the source went through and may lag behind for ever, but never goes     *)
(* back, never gets ahead of the source, and does not move in the step in  *)
(* which the source does.  Nothing here knows of jobs, queries, caches or  *)
(* watermarks, and any set of copies may move in one step.                 *)
(***************************************************************************)
EXTENDS Naturals

CONSTANT Things

VARIABLES source,  \* the version of each thing
          copy     \* the version last copied of it

trailVars == <<source, copy>>

TrailInit ==
    /\ source = [t \in Things |-> 0]
    /\ copy = [t \in Things |-> 0]

Advance(t) ==
    /\ source'[t] > source[t]
    /\ copy'[t] = copy[t]

Follow(t) ==
    /\ source'[t] = source[t]
    /\ copy'[t] > copy[t]
    /\ copy'[t] <= source[t]

Rest(t) == source'[t] = source[t] /\ copy'[t] = copy[t]

TrailStep(t) == Advance(t) \/ Follow(t) \/ Rest(t)

TrailSpec == TrailInit /\ [][\A t \in Things : TrailStep(t)]_trailVars
=============================================================================
