---------------------------- MODULE RecoveryDesk ----------------------------
(***************************************************************************)
(* What the recovery queue promises the packages: a desk that serves one   *)
(* client at a time, in the order they joined the line.  Nobody is passed, *)
(* dropped from the line or in it twice, nobody joins while being served,  *)
(* and a client that has been given up never comes back.  Nothing here     *)
(* knows who notices that a client is down, of rounds, pauses or launches. *)
(***************************************************************************)
EXTENDS Naturals, Sequences

CONSTANTS Clients, Nobody

VARIABLES line,     \* those that wait, in the order they joined
          serving,  \* the client at the desk
          gone      \* those that have been given up

deskVars == <<line, serving, gone>>

DeskInit == line = <<>> /\ serving = Nobody /\ gone = {}

\* The line is q still, with newcomers behind it.
JoinsBehind(q) ==
    /\ Len(q) <= Len(line')
    /\ \A i \in 1..Len(q) : line'[i] = q[i]
    /\ \A i \in (Len(q) + 1)..Len(line') :
          /\ line'[i] \in Clients \ (gone' \cup {serving'})
          /\ \A j \in 1..(i - 1) : line'[j] # line'[i]

Join ==
    /\ JoinsBehind(line)
    /\ UNCHANGED <<serving, gone>>

Serve ==
    /\ serving = Nobody
    /\ line # <<>>
    /\ serving' = Head(line)
    /\ line' = Tail(line)
    /\ UNCHANGED gone

Finish ==
    /\ serving # Nobody
    /\ serving' = Nobody
    /\ UNCHANGED <<line, gone>>

\* The others that are found to need it join in the same step.
GiveUp ==
    /\ serving # Nobody
    /\ serving' = Nobody
    /\ gone' = gone \cup {serving}
    /\ JoinsBehind(line)

DeskSpec == DeskInit /\ [][Join \/ Serve \/ Finish \/ GiveUp]_deskVars
=============================================================================
