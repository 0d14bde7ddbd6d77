------------------------------ MODULE FirstCome ------------------------------
(***************************************************************************)
(* What cluster.Locker gives its callers when etcd answers them: for each  *)
(* volume group they are let in one at a time and in the order in which    *)
(* they asked; who finds nobody is let in at once.  A caller is gone when  *)
(* it releases the lock, gives up waiting, or its lease ends.              *)
(***************************************************************************)

CONSTANTS
    Callers,    \* goroutines that call Acquire
    VGs,        \* LVM volume groups
    NoVG        \* "no volume group"

VARIABLES
    wants,      \* wants[c]: the volume group whose lock c waits for or holds
    inside,     \* the callers that hold a lock
    before      \* before[c]: who asked before c and is not gone

vars == <<wants, inside, before>>

Init ==
    /\ wants = [c \in Callers |-> NoVG]
    /\ inside = {}
    /\ before = [c \in Callers |-> {}]

Ask(c, g) ==
    LET older == {d \in Callers : wants[d] = g} IN
    /\ wants[c] = NoVG
    /\ wants' = [wants EXCEPT ![c] = g]
    /\ before' = [before EXCEPT ![c] = older]
    /\ inside' = IF older = {} THEN inside \cup {c} ELSE inside

Enter(c) ==
    /\ wants[c] # NoVG
    /\ before[c] = {}
    /\ inside' = inside \cup {c}
    /\ UNCHANGED <<wants, before>>

Leave(c) ==
    /\ wants[c] # NoVG
    /\ wants' = [wants EXCEPT ![c] = NoVG]
    /\ inside' = inside \ {c}
    /\ before' = [d \in Callers |-> IF d = c THEN {} ELSE before[d] \ {c}]

Next == \E c \in Callers : Enter(c) \/ Leave(c) \/ \E g \in VGs : Ask(c, g)

Spec == Init /\ [][Next]_vars
=============================================================================
