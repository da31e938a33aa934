--------------------------- MODULE AtMostOnceCall ---------------------------
(***************************************************************************)
(* What labrpc promises to the callers of ClientEnd.Call: a call is        *)
(* executed at most once, true is returned only for a call that was        *)
(* executed, and false says nothing: the call may have been executed, may  *)
(* still be, or never will.                                                *)
(***************************************************************************)
EXTENDS Naturals

CONSTANT Call

VARIABLES status, executions

vars == <<status, executions>>

Init ==
    /\ status = [c \in Call |-> "idle"]
    /\ executions = [c \in Call |-> 0]

Move(c, from, to) ==
    /\ status[c] = from
    /\ status' = [status EXCEPT ![c] = to]
    /\ UNCHANGED executions

Execute(c) ==
    /\ status[c] \in {"pending", "failed"}
    /\ executions[c] = 0
    /\ executions' = [executions EXCEPT ![c] = 1]
    /\ UNCHANGED status

Succeed(c) == executions[c] = 1 /\ Move(c, "pending", "ok")

Next ==
    \E c \in Call : \/ Move(c, "idle", "pending")
                    \/ Execute(c)
                    \/ Succeed(c)
                    \/ Move(c, "pending", "failed")

Spec == Init /\ [][Next]_vars

=============================================================================
