--------------------------- MODULE ResourceUsage ---------------------------
(***************************************************************************)
(* The target and the current usage of one resource, shared between the    *)
(* requests that set the target, the goroutine that measures the usage and *)
(* the goroutine that maintains it (types.go, ResourceUsage).              *)
(*                                                                         *)
(* The RWMutex is its write holder: a read takes its lock and gives it     *)
(* back in one step, which needs that nobody holds it for writing.         *)
(* setTarget hands the value over on TargetChan, an unbuffered channel,    *)
(* while it holds the lock for writing.                                    *)
(***************************************************************************)
EXTENDS Naturals

CONSTANTS
    Callers,    \* the requests in progress that call setTarget
    NoCaller,   \* nobody
    Usages      \* the usages, in percent

ASSUME CallersAssumption == NoCaller \notin Callers
\* The parameters cpu and memory match regexpPercent, so that the checks for
\* 0 to 100 in cpuStress and memoryAllocate hold of every target.
ASSUME UsagesAssumption == Usages \subseteq 0 .. 100 /\ 0 \in Usages

VARIABLES
    Target, Current,    \* the fields of ResourceUsage
    writer,             \* who holds the RWMutex for writing
    pc,                 \* how far each caller is in setTarget
    value               \* the argument of each caller

usageVars == <<Target, Current, writer, pc, value>>
callVars == <<pc, value>>

CallStates == {"idle", "check", "lock", "send", "store"}

UsageTypeOK ==
    /\ Target \in Usages
    /\ Current \in Usages
    /\ writer \in Callers \union {NoCaller}
    /\ pc \in [Callers -> CallStates]
    /\ value \in [Callers -> Usages]

UsageInit ==
    /\ Target = 0
    /\ Current = 0
    /\ writer = NoCaller
    /\ pc = [c \in Callers |-> "idle"]
    /\ value = [c \in Callers |-> 0]

Unlocked == writer = NoCaller

-----------------------------------------------------------------------------
(***************************************************************************)
(* setTarget                                                               *)
(***************************************************************************)

\* A request with cpu=v or memory=v reaches setTarget(v).
Call(c, v) ==
    /\ pc[c] = "idle"
    /\ pc' = [pc EXCEPT ![c] = "check"]
    /\ value' = [value EXCEPT ![c] = v]
    /\ UNCHANGED <<Target, Current, writer>>

\* Mutated form of Check: getTarget without its lock.
CheckUnlocked(c) ==
    /\ pc[c] = "check"
    /\ pc' = [pc EXCEPT ![c] = IF Target # value[c] THEN "lock" ELSE "idle"]
    /\ UNCHANGED <<Target, Current, writer, value>>

\* if ru.getTarget() != value: a read lock of its own, given back before
\* the write lock is asked for.
Check(c) ==
    /\ pc[c] = "check"
    /\ Unlocked
    /\ pc' = [pc EXCEPT ![c] = IF Target # value[c] THEN "lock" ELSE "idle"]
    /\ UNCHANGED <<Target, Current, writer, value>>

\* ru.Lock()
Lock(c) ==
    /\ pc[c] = "lock"
    /\ Unlocked
    /\ writer' = c
    /\ pc' = [pc EXCEPT ![c] = "send"]
    /\ UNCHANGED <<Target, Current, value>>

\* ru.TargetChan <- value, the caller's side.
Send(c) ==
    /\ pc[c] = "send"
    /\ pc' = [pc EXCEPT ![c] = "store"]
    /\ UNCHANGED <<Target, Current, writer, value>>

\* ru.Target = value; ru.Unlock()
Store(c) ==
    /\ pc[c] = "store"
    /\ Target' = value[c]
    /\ writer' = NoCaller
    /\ pc' = [pc EXCEPT ![c] = "idle"]
    /\ UNCHANGED <<Current, value>>

CallStep(c) ==
    \/ \E v \in Usages : Call(c, v)
    \/ Check(c)
    \/ Lock(c)
    \/ Store(c)

\* Each call as the requests see it (TargetRegister).
Seen(s) == CASE s = "idle" -> "idle" [] s = "store" -> "set" [] OTHER -> "asked"

Status == [c \in Callers |-> Seen(pc[c])]

\* Mutated form of Measure: a fraction instead of a percentage.
MeasureFraction(v) ==
    /\ Unlocked
    /\ Current # v
    /\ Current' = v \div 100
    /\ UNCHANGED <<Target, writer, pc, value>>

(***************************************************************************)
(* procStatParser and procMeminfoParser: a new measurement.  The parser is *)
(* the only one that writes Current, so that comparing and writing are one *)
(* step.                                                                   *)
(***************************************************************************)
Measure(v) ==
    /\ Unlocked
    /\ Current # v
    /\ Current' = v
    /\ UNCHANGED <<Target, writer, pc, value>>
=============================================================================
