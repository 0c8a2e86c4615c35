-------------------------- MODULE MCSessionShards --------------------------
(* SessionShards on two accounts, one of them busier than the other. *)
EXTENDS SessionShards, TLC

CONSTANTS a1, a2

MCAccounts == {a1, a2}
MCMaxUploads == a1 :> 2 @@ a2 :> 1
=============================================================================
