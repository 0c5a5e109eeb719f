------------------------ MODULE MemoryControlProofs ------------------------
(***************************************************************************)
(* Proofs about MemoryControl, for any number of concurrent requests and   *)
(* any usages: types, that the target reported is the one maintained, and  *)
(* that MemoryControl implements TargetRegister.                           *)
(***************************************************************************)
EXTENDS MemoryControl, ResourceUsageProofs, TLAPS

\* The inductive invariant: memoryAllocate maintains what Target is, or
\* becomes when the lock is given back.
MemoryInv == TypeOK /\ Holder /\ memoryUsage = Goal

\* The initial state.
LEMMA InitInv == Init => MemoryInv
  BY UsagesNat, CallersAssumption, MaxUnitsAssumption
     DEF Init, UsageInit, MemoryInv, TypeOK, UsageTypeOK, CallStates, Holder, Goal

\* The steps of the callers that do not involve memoryAllocate.
LEMMA CallInv ==
  ASSUME MemoryInv, NEW c \in Callers, CallStep(c), UNCHANGED allocVars
  PROVE  MemoryInv'
<1> USE CallersAssumption DEF MemoryInv, TypeOK, UsageTypeOK, CallStates, allocVars
<1>1. CASE \E v \in Usages : Call(c, v)
  BY <1>1 DEF Call, Holder, Goal
<1>2. CASE Check(c)
  BY <1>2 DEF Check, Unlocked, Holder, Goal
<1>3. CASE Lock(c)
  BY <1>3 DEF Lock, Unlocked, Holder, Goal
<1>4. CASE Store(c)
  <2>1. writer = c /\ Goal = value[c] /\ Goal' = value[c]
    BY <1>4 DEF Store, Holder, Goal
  <2> QED
    BY <1>4, <2>1 DEF Store, Holder
<1> QED
  BY <1>1, <1>2, <1>3, <1>4 DEF CallStep

\* A new measurement.
LEMMA MeasureInv ==
  ASSUME MemoryInv, NEW v \in Usages, Measure(v), UNCHANGED allocVars
  PROVE  MemoryInv'
  BY DEF MemoryInv, TypeOK, UsageTypeOK, Measure, allocVars, Holder, Goal

\* A caller hands its target over to memoryAllocate.
LEMMA ReceiveInv ==
  ASSUME MemoryInv, NEW c \in Callers, Receive(c)
  PROVE  MemoryInv'
<1> USE CallersAssumption
        DEF MemoryInv, TypeOK, UsageTypeOK, CallStates, Receive, Send, Holder
<1>1. TypeOK'
  OBVIOUS
<1>2. Holder'
  OBVIOUS
<1>3. Goal' = value[c]
  BY DEF Goal
<1> QED
  BY <1>1, <1>2, <1>3

\* A tick, and the unit it allocates or releases.
LEMMA TickInv ==
  ASSUME MemoryInv, Tick \/ ReadCurrent
  PROVE  MemoryInv'
<1>1. UNCHANGED <<usageVars, memoryUsage>>
  BY DEF Tick, ReadCurrent
<1>2. units' \in 0 .. MaxUnits /\ alloc' \in {"select", "read"}
  BY MaxUnitsAssumption
     DEF MemoryInv, TypeOK, Tick, ReadCurrent, Allocate, Release
<1> QED
  BY <1>1, <1>2 DEF MemoryInv, TypeOK, UsageTypeOK, usageVars, Holder, Goal

\* Every step preserves the invariant.
LEMMA NextInv == MemoryInv /\ [Next]_vars => MemoryInv'
<1> SUFFICES ASSUME MemoryInv, [Next]_vars PROVE MemoryInv'
  OBVIOUS
<1>1. CASE UNCHANGED vars
  BY <1>1 DEF vars, usageVars, allocVars, MemoryInv, TypeOK, UsageTypeOK, Holder, Goal
<1> QED
  BY <1>1, CallInv, MeasureInv, ReceiveInv, TickInv DEF Next

\* The invariant holds in every reachable state.
LEMMA Invariance == Spec => []MemoryInv
  BY InitInv, NextInv, PTL DEF Spec

(***************************************************************************)
(* Every reachable state of the memory's ResourceUsage and of              *)
(* memoryAllocate (memory.go) is well typed; allocData never shrinks below *)
(* nothing.                                                                *)
(***************************************************************************)
THEOREM TypeCorrect == Spec => []TypeOK
<1>1. MemoryInv => TypeOK
  BY DEF MemoryInv
<1> QED
  BY <1>1, Invariance, PTL

(***************************************************************************)
(* The target getTarget reports (types.go:81) is the one memoryAllocate    *)
(* works towards, however many requests set it at once.                    *)
(***************************************************************************)
THEOREM Maintained == Spec => []TargetMaintained
<1>1. MemoryInv => TargetMaintained
  BY DEF MemoryInv, Goal, TargetMaintained, Unlocked
<1> QED
  BY <1>1, Invariance, PTL

-----------------------------------------------------------------------------
(***************************************************************************)
(* The refinement: what a step of MemoryControl is to TargetRegister.      *)
(***************************************************************************)

\* The initial state is one of TargetRegister.
LEMMA RegisterInit == Init => Register!Init
  BY DEF Init, UsageInit, Register!Init, Status, Seen

\* A caller's own steps: a call, a return, or nothing that is seen.
LEMMA RegisterCall ==
  ASSUME MemoryInv, NEW c \in Callers, CallStep(c), UNCHANGED allocVars
  PROVE  [Register!Next]_(Register!registerVars)
<1> USE DEF MemoryInv, TypeOK, allocVars
<1>1. CASE \E v \in Usages : Call(c, v)
  <2>1. PICK v \in Usages : Call(c, v)
    BY <1>1
  <2>2. Status[c] = "idle" /\ Seen("check") = "asked"
    BY <2>1 DEF Call, Status, Seen
  <2>3. Status' = [Status EXCEPT ![c] = "asked"]
    BY <2>1, <2>2, StatusMove DEF Call
  <2>4. Register!Ask(c, v)
    BY <2>1, <2>2, <2>3 DEF Register!Ask, Call
  <2> QED
    BY <2>4 DEF Register!Next
<1>2. CASE Check(c) /\ Target # value[c]
  <2>1. Seen("lock") = Seen(pc[c])
    BY <1>2 DEF Check, Seen
  <2>2. Status' = Status
    BY <1>2, <2>1, StatusStays DEF Check
  <2> QED
    BY <1>2, <2>2 DEF Register!registerVars, Check
<1>3. CASE Check(c) /\ Target = value[c]
  <2>1. Status[c] = "asked" /\ Seen("idle") = "idle"
    BY <1>3 DEF Check, Status, Seen
  <2>2. Status' = [Status EXCEPT ![c] = "idle"]
    BY <1>3, <2>1, StatusMove DEF Check
  <2>3. memoryUsage = value[c]
    BY <1>3 DEF Check, Unlocked, Goal
  <2>4. Register!Return(c)
    BY <1>3, <2>1, <2>2, <2>3 DEF Register!Return, Check
  <2> QED
    BY <2>4 DEF Register!Next
<1>4. CASE Lock(c)
  <2>1. Seen("send") = Seen(pc[c])
    BY <1>4 DEF Lock, Seen
  <2>2. Status' = Status
    BY <1>4, <2>1, StatusStays DEF Lock
  <2> QED
    BY <1>4, <2>2 DEF Register!registerVars, Lock
<1>5. CASE Store(c)
  <2>1. Status[c] = "set" /\ Seen("idle") = "idle"
    BY <1>5 DEF Store, Status, Seen
  <2>2. Status' = [Status EXCEPT ![c] = "idle"]
    BY <1>5, <2>1, StatusMove DEF Store
  <2>3. Register!Return(c)
    BY <1>5, <2>1, <2>2 DEF Register!Return, Store
  <2> QED
    BY <2>3 DEF Register!Next
<1> QED
  BY <1>1, <1>2, <1>3, <1>4, <1>5 DEF CallStep

\* The moment a target is handed over is the moment it takes effect.
LEMMA RegisterReceive ==
  ASSUME MemoryInv, NEW c \in Callers, Receive(c)
  PROVE  [Register!Next]_(Register!registerVars)
<1>1. Status[c] = "asked" /\ Seen("store") = "set"
  BY DEF Receive, Send, Status, Seen
<1>2. Status' = [Status EXCEPT ![c] = "set"]
  <2>1. UsageTypeOK /\ pc' = [pc EXCEPT ![c] = "store"]
    BY DEF MemoryInv, TypeOK, Receive, Send
  <2> QED
    BY <1>1, <2>1, StatusMove
<1>3. Register!Set(c)
  BY <1>1, <1>2 DEF Register!Set, Receive, Send
<1> QED
  BY <1>3 DEF Register!Next

\* Every step is one of TargetRegister, or none.
LEMMA RegisterNext ==
  MemoryInv /\ [Next]_vars => [Register!Next]_(Register!registerVars)
<1> SUFFICES ASSUME MemoryInv, [Next]_vars
             PROVE  [Register!Next]_(Register!registerVars)
  OBVIOUS
<1>1. CASE \E v \in Usages : Measure(v) /\ UNCHANGED allocVars
  BY <1>1 DEF Measure, allocVars, Register!registerVars, Status
<1>2. CASE Tick \/ ReadCurrent \/ UNCHANGED vars
  BY <1>2 DEF Tick, ReadCurrent, vars, usageVars, allocVars,
              Register!registerVars, Status
<1> QED
  BY <1>1, <1>2, RegisterCall, RegisterReceive DEF Next

(***************************************************************************)
(* MemoryControl implements TargetRegister: however many calls of          *)
(* setTarget (types.go:87) overlap, memoryAllocate (memory.go) turns to    *)
(* their values one after the other, and none returns before its value was *)
(* maintained.                                                             *)
(***************************************************************************)
THEOREM Implements == Spec => SetsTargets
  BY RegisterInit, RegisterNext, Invariance, PTL
     DEF Spec, SetsTargets, Register!Spec
=============================================================================
