----------------------------- MODULE Semaphore ------------------------------
(***************************************************************************)
(* What the semaphores and mailboxes promise together: a post that is told *)
(* E_OK adds one token to its event, a pend or accept that is told E_OK    *)
(* takes one that is there.                                                *)
(***************************************************************************)
EXTENDS Naturals

CONSTANTS Events, Initial    \* the tokens each event starts with

VARIABLE tokens

Init == tokens = Initial
Post(e) == tokens' = [tokens EXCEPT ![e] = @ + 1]
Take(e) == tokens[e] > 0 /\ tokens' = [tokens EXCEPT ![e] = @ - 1]
Next == \E e \in Events : Post(e) \/ Take(e)
Spec == Init /\ [][Next]_tokens
=============================================================================
