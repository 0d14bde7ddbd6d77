----------------------------- MODULE MCMembership -----------------------------
(* Instances of Membership for TLC.                                         *)
EXTENDS Membership, TLC

CONSTANTS n1, n2, n3, w1, w2

\* n1 and n3 are two lives of the daemon of host 1, under one id
MCHostOf == n1 :> 1 @@ n2 :> 2 @@ n3 :> 1
MCIdOf == n1 :> "a" @@ n2 :> "b" @@ n3 :> "a"
\* a call in flight in the first process of each host
OneEach == w1 :> n1 @@ w2 :> n2
=============================================================================
