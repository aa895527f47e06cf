---------------------------- MODULE Provisioning ----------------------------
(***************************************************************************)
(* What provisioning promises, without journal, crashes or network: a job  *)
(* is tied to one plan, its mutations leave in the order of the plan and   *)
(* each at most once, and nothing leaves after the job is closed, which it *)
(* is only when all of them have left.                                     *)
(***************************************************************************)
EXTENDS Naturals, Sequences

CONSTANTS Jobs, Plans, None, Script(_)

VARIABLES chosen, log, closed

Init ==
    /\ chosen = [j \in Jobs |-> None]
    /\ log = [j \in Jobs |-> <<>>]
    /\ closed = [j \in Jobs |-> FALSE]

Choose(j, p) ==
    /\ chosen[j] = None
    /\ chosen' = [chosen EXCEPT ![j] = p]
    /\ UNCHANGED <<log, closed>>

Emit(j) ==
    /\ chosen[j] # None /\ ~closed[j]
    /\ Len(log[j]) < Len(Script(chosen[j]))
    /\ log' = [log EXCEPT ![j] = Append(@, Script(chosen[j])[Len(@) + 1])]
    /\ UNCHANGED <<chosen, closed>>

Close(j) ==
    /\ chosen[j] # None /\ Len(log[j]) = Len(Script(chosen[j]))
    /\ closed' = [closed EXCEPT ![j] = TRUE]
    /\ UNCHANGED <<chosen, log>>

Next == \E j \in Jobs : (\E p \in Plans : Choose(j, p)) \/ Emit(j) \/ Close(j)

vars == <<chosen, log, closed>>

Spec == Init /\ [][Next]_vars
=============================================================================
