--------------------------- MODULE TargetRegister ---------------------------
(***************************************************************************)
(* What setTarget promises (types.go): one usage is maintained at a time,  *)
(* and each call sets it to its argument, at one moment between the call   *)
(* and the return, or returns because the usage is maintained already.     *)
(* CpuControl and MemoryControl implement it.                              *)
(***************************************************************************)
EXTENDS Naturals

CONSTANTS Callers, Usages

VARIABLES
    maintained, \* the usage
    status,     \* each call: none ("idle"), to be done ("asked"), done ("set")
    arg         \* its argument

registerVars == <<maintained, status, arg>>

Init ==
    /\ maintained = 0
    /\ status = [c \in Callers |-> "idle"]
    /\ arg = [c \in Callers |-> 0]

\* setTarget(v) is called.
Ask(c, v) ==
    /\ status[c] = "idle"
    /\ status' = [status EXCEPT ![c] = "asked"]
    /\ arg' = [arg EXCEPT ![c] = v]
    /\ UNCHANGED maintained

\* The call takes effect.
Set(c) ==
    /\ status[c] = "asked"
    /\ status' = [status EXCEPT ![c] = "set"]
    /\ maintained' = arg[c]
    /\ UNCHANGED arg

\* The call returns, after it took effect or for want of a difference.
Return(c) ==
    /\ status[c] = "set" \/ (status[c] = "asked" /\ maintained = arg[c])
    /\ status' = [status EXCEPT ![c] = "idle"]
    /\ UNCHANGED <<maintained, arg>>

Next == \E c \in Callers : (\E v \in Usages : Ask(c, v)) \/ Set(c) \/ Return(c)

Spec == Init /\ [][Next]_registerVars
=============================================================================
