------------------------------- MODULE MCVGLock -------------------------------
(* Instances of VGLock for TLC.                                             *)
EXTENDS VGLock, TLC

CONSTANTS n1, n2, n3, w1, w2, w3

\* n1 and n3 are two lives of the daemon of host 1
MCHostOf == n1 :> 1 @@ n2 :> 2 @@ n3 :> 1
\* one call in flight in each process
OneEach == w1 :> n1 @@ w2 :> n2 @@ w3 :> n3
\* two calls in flight in n1
Shared == w1 :> n1 @@ w2 :> n1 @@ w3 :> n2
=============================================================================
