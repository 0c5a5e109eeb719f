--------------------------- MODULE MemoryControl ---------------------------
(***************************************************************************)
(* The memory load (memory.go): the goroutine memoryAllocate, which        *)
(* allocates and releases one unit (a hundredth of the memory) per tick,   *)
(* and procMeminfoParser, around the memory's ResourceUsage.               *)
(***************************************************************************)
EXTENDS ResourceUsage

CONSTANT MaxUnits   \* bound: where further allocations no longer count

ASSUME MaxUnitsAssumption == MaxUnits \in Nat

VARIABLES
    alloc,          \* where memoryAllocate is
    memoryUsage,
    units           \* len(allocData)

allocVars == <<alloc, memoryUsage, units>>
vars == <<usageVars, allocVars>>

\* Variables have values of these types.
TypeOK ==
    /\ UsageTypeOK
    /\ alloc \in {"select", "read"}
    /\ memoryUsage \in Usages
    /\ units \in 0 .. MaxUnits

Init ==
    /\ UsageInit
    /\ alloc = "select"
    /\ memoryUsage = 0
    /\ units = 0

-----------------------------------------------------------------------------
\* case <-t.C
Tick ==
    /\ alloc = "select"
    /\ alloc' = "read"
    /\ UNCHANGED <<usageVars, memoryUsage, units>>

\* allocData grows or shrinks by one unit.
Allocate(n) == IF n < MaxUnits THEN n + 1 ELSE n
Release(n) == IF n # 0 THEN n - 1 ELSE n

\* Mutated form of ReadCurrent: a unit is allocated at the target too.
ReadCurrentAtMost ==
    /\ alloc = "read"
    /\ Unlocked
    /\ units' = IF Current <= memoryUsage THEN Allocate(units) ELSE Release(units)
    /\ alloc' = "select"
    /\ UNCHANGED <<usageVars, memoryUsage>>

\* Mutated form of ReadCurrent: allocData[1:] of an empty slice.
ReadCurrentUnguarded ==
    /\ alloc = "read"
    /\ Unlocked
    /\ units' = IF Current < memoryUsage THEN Allocate(units) ELSE units - 1
    /\ alloc' = "select"
    /\ UNCHANGED <<usageVars, memoryUsage>>

\* store.resource.Memory.getCurrent() and what follows from it.
ReadCurrent ==
    /\ alloc = "read"
    /\ Unlocked
    /\ units' = IF Current < memoryUsage THEN Allocate(units) ELSE Release(units)
    /\ alloc' = "select"
    /\ UNCHANGED <<usageVars, memoryUsage>>

\* Mutated form of Receive: 0 is not taken as a target.
ReceivePositive(c) ==
    /\ alloc = "select"
    /\ Send(c)
    /\ memoryUsage' = IF value[c] > 0 THEN value[c] ELSE memoryUsage
    /\ UNCHANGED <<alloc, units>>

\* case newMemoryUsage := <-memoryTargetChan
Receive(c) ==
    /\ alloc = "select"
    /\ Send(c)
    /\ memoryUsage' = value[c]
    /\ UNCHANGED <<alloc, units>>

Next ==
    \/ \E c \in Callers : CallStep(c) /\ UNCHANGED allocVars
    \/ \E v \in Usages : Measure(v) /\ UNCHANGED allocVars
    \/ \E c \in Callers : Receive(c)
    \/ Tick
    \/ ReadCurrent

(***************************************************************************)
(* The ticker ticks and goroutines are scheduled fairly.                   *)
(***************************************************************************)
Spec == Init /\ [][Next]_vars

FairSpec == Spec /\ WF_vars(Tick) /\ WF_vars(ReadCurrent)

-----------------------------------------------------------------------------
(***************************************************************************)
(* Once a change of target is through, memoryAllocate maintains the very   *)
(* value that getTarget reports.                                           *)
(***************************************************************************)
TargetMaintained == Unlocked => memoryUsage = Target

(***************************************************************************)
(* MemoryControl implements TargetRegister: whatever calls of setTarget    *)
(* overlap, memoryAllocate turns to their values one after the other, and  *)
(* none returns before its value was maintained.                           *)
(***************************************************************************)
Register == INSTANCE TargetRegister WITH
    maintained <- memoryUsage,
    status <- Status,
    arg <- value

SetsTargets == Register!Spec

(***************************************************************************)
(* When the target stays at 0, all that was allocated is released.         *)
(***************************************************************************)
AllReleased ==
    <>[](Target = 0 /\ \A c \in Callers : pc[c] = "idle") => <>[](units = 0)
=============================================================================
