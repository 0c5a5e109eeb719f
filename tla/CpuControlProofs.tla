-------------------------- MODULE CpuControlProofs --------------------------
(***************************************************************************)
(* Proofs about CpuControl, for any number of concurrent requests and any  *)
(* usages: types, the pairing of cpuStress with its controller, that the   *)
(* target reported is the one maintained, and that CpuControl implements   *)
(* TargetRegister.                                                         *)
(***************************************************************************)
EXTENDS CpuControl, ResourceUsageProofs, TLAPS

\* The value that cpuStress maintains, or will once quit is taken.
Pursued == IF stress = "quit" THEN newUsage ELSE cpuUsage

\* cpuStress pursues the goal, with a load unless it is 0.
Agreement ==
    /\ Pursued = Goal
    /\ ~started => Goal = 0
    /\ stress = "quit" => ~started

\* The inductive invariant.
CpuInv == TypeOK /\ Holder /\ ControllerPaired /\ Agreement

\* The initial state.
LEMMA InitInv == Init => CpuInv
  BY UsagesNat, CallersAssumption
     DEF Init, UsageInit, CpuInv, TypeOK, UsageTypeOK, CallStates, StressStates,
         Holder, ControllerPaired, Agreement, Goal, Pursued

\* The steps of the callers that do not involve cpuStress.
LEMMA CallInv ==
  ASSUME CpuInv, NEW c \in Callers, CallStep(c), UNCHANGED stressVars
  PROVE  CpuInv'
<1> USE CallersAssumption DEF CpuInv, TypeOK, UsageTypeOK, CallStates, stressVars
<1>1. CASE \E v \in Usages : Call(c, v)
  BY <1>1 DEF Call, Holder, ControllerPaired, Agreement, Goal, Pursued
<1>2. CASE Check(c)
  BY <1>2 DEF Check, Unlocked, Holder, ControllerPaired, Agreement, Goal, Pursued
<1>3. CASE Lock(c)
  BY <1>3 DEF Lock, Unlocked, Holder, ControllerPaired, Agreement, Goal, Pursued
<1>4. CASE Store(c)
  <2>1. writer = c /\ Goal = value[c] /\ Goal' = value[c]
    BY <1>4 DEF Store, Holder, Goal
  <2> QED
    BY <1>4, <2>1 DEF Store, Holder, ControllerPaired, Agreement, Pursued
<1> QED
  BY <1>1, <1>2, <1>3, <1>4 DEF CallStep

\* A new measurement.
LEMMA MeasureInv ==
  ASSUME CpuInv, NEW v \in Usages, Measure(v), UNCHANGED stressVars
  PROVE  CpuInv'
<1>1. TypeOK'
  BY DEF CpuInv, TypeOK, UsageTypeOK, Measure, stressVars
<1>2. Holder' /\ ControllerPaired'
  BY DEF CpuInv, Measure, stressVars, Holder, ControllerPaired
<1>3. Agreement'
  BY DEF CpuInv, Measure, stressVars, Agreement, Goal, Pursued
<1> QED
  BY <1>1, <1>2, <1>3 DEF CpuInv

\* A caller hands its target over to cpuStress.
LEMMA ReceiveInv ==
  ASSUME CpuInv, NEW c \in Callers, Receive(c)
  PROVE  CpuInv'
<1> USE CallersAssumption, UsagesNat DEF CpuInv
<1>1. TypeOK'
  <2>1. UsageTypeOK'
    BY DEF TypeOK, UsageTypeOK, CallStates, Receive, Send
  <2>2. CASE started /\ value[c] = 0
    BY <2>1, <2>2 DEF TypeOK, UsageTypeOK, StressStates, Receive
  <2>3. CASE ~(started /\ value[c] = 0)
    <3>1. started' = TRUE /\ cpuUsage' = value[c] /\ stress' = stress
          /\ newUsage' = value[c]
      BY <2>3 DEF Receive
    <3>2. controllers' = controllers + (IF started THEN 0 ELSE 1)
      BY <2>3 DEF Receive
    <3>3. controllers' \in Nat
      BY <3>2 DEF TypeOK
    <3> QED
      BY <2>1, <3>1, <3>3 DEF TypeOK, UsageTypeOK
  <2> QED
    BY <2>2, <2>3
<1>2. Holder'
  BY DEF TypeOK, UsageTypeOK, CallStates, Receive, Send, Holder
<1>3. Goal' = value[c] /\ Pursued' = value[c]
  BY DEF TypeOK, UsageTypeOK, CallStates, Receive, Send, Holder, Goal, Pursued
<1>4. ControllerPaired'
  BY DEF TypeOK, Receive, ControllerPaired
<1>5. (~started' => value[c] = 0) /\ (stress' = "quit" => ~started')
  BY DEF Receive
<1> QED
  BY <1>1, <1>2, <1>3, <1>4, <1>5 DEF Agreement

\* The ticks of cpuStress and its dealings with the controller.
LEMMA StressInv ==
  ASSUME CpuInv, StressStep
  PROVE  CpuInv'
<1> USE DEF CpuInv, TypeOK, UsageTypeOK, usageVars, StressStates
<1>1. CASE Tick
  BY <1>1 DEF Tick, Holder, ControllerPaired, Agreement, Goal, Pursued
<1>2. CASE ReadCurrent
  BY <1>2 DEF ReadCurrent, Holder, ControllerPaired, Agreement, Goal, Pursued
<1>3. CASE Ratio
  BY <1>3 DEF Ratio, Holder, ControllerPaired, Agreement, Goal, Pursued
<1>4. CASE Quit
  BY <1>4 DEF Quit, Holder, ControllerPaired, Agreement, Goal, Pursued
<1> QED
  BY <1>1, <1>2, <1>3, <1>4 DEF StressStep

\* Every step preserves the invariant.
LEMMA NextInv == CpuInv /\ [Next]_vars => CpuInv'
<1> SUFFICES ASSUME CpuInv, [Next]_vars PROVE CpuInv'
  OBVIOUS
<1>1. CASE UNCHANGED vars
  BY <1>1 DEF vars, usageVars, stressVars, CpuInv, TypeOK, UsageTypeOK, Holder,
     ControllerPaired, Agreement, Goal, Pursued
<1> QED
  BY <1>1, CallInv, MeasureInv, ReceiveInv, StressInv DEF Next

\* The invariant holds in every reachable state.
LEMMA Invariance == Spec => []CpuInv
  BY InitInv, NextInv, PTL DEF Spec

(***************************************************************************)
(* Every reachable state of the CPU's ResourceUsage and of cpuStress       *)
(* (types.go:73-107, cpu.go:21-56) is well typed.                          *)
(***************************************************************************)
THEOREM TypeCorrect == Spec => []TypeOK
<1>1. CpuInv => TypeOK
  BY DEF CpuInv
<1> QED
  BY <1>1, Invariance, PTL

(***************************************************************************)
(* cpuStress (cpu.go:21-56) starts and stops its controller in pairs: no   *)
(* controller is left behind and none is missing.                          *)
(***************************************************************************)
THEOREM Paired == Spec => []ControllerPaired
<1>1. CpuInv => ControllerPaired
  BY DEF CpuInv
<1> QED
  BY <1>1, Invariance, PTL

(***************************************************************************)
(* The target getTarget reports (types.go:81) is the one cpuStress works   *)
(* towards, however many requests set it at once.                          *)
(***************************************************************************)
THEOREM Maintained == Spec => []TargetMaintained
<1>1. CpuInv => TargetMaintained
  BY DEF CpuInv, Agreement, Goal, Pursued, TargetMaintained, Unlocked
<1> QED
  BY <1>1, Invariance, PTL

(***************************************************************************)
(* The refinement: what a step of CpuControl is to TargetRegister.         *)
(***************************************************************************)

\* The initial state is one of TargetRegister.
LEMMA RegisterInit == Init => Register!Init
  BY DEF Init, UsageInit, Register!Init, Status, Seen

\* A caller's own steps: a call, a return, or nothing that is seen.
LEMMA RegisterCall ==
  ASSUME CpuInv, NEW c \in Callers, CallStep(c), UNCHANGED stressVars
  PROVE  [Register!Next]_(Register!registerVars)
<1> USE DEF CpuInv, TypeOK
<1>1. Pursued' = Pursued
  BY DEF stressVars, Pursued
<1>2. CASE \E v \in Usages : Call(c, v)
  <2>1. PICK v \in Usages : Call(c, v)
    BY <1>2
  <2>2. Status[c] = "idle" /\ Seen("check") = "asked"
    BY <2>1 DEF Call, Status, Seen
  <2>3. Status' = [Status EXCEPT ![c] = "asked"]
    BY <2>1, <2>2, StatusMove DEF Call
  <2>4. Register!Ask(c, v)
    BY <1>1, <2>1, <2>2, <2>3 DEF Register!Ask, Call, Pursued
  <2> QED
    BY <2>4 DEF Register!Next
<1>3. CASE Check(c) /\ Target # value[c]
  <2>1. Seen("lock") = Seen(pc[c])
    BY <1>3 DEF Check, Seen
  <2>2. Status' = Status
    BY <1>3, <2>1, StatusStays DEF Check
  <2> QED
    BY <1>1, <1>3, <2>2 DEF Register!registerVars, Check, Pursued
<1>4. CASE Check(c) /\ Target = value[c]
  <2>1. Status[c] = "asked" /\ Seen("idle") = "idle"
    BY <1>4 DEF Check, Status, Seen
  <2>2. Status' = [Status EXCEPT ![c] = "idle"]
    BY <1>4, <2>1, StatusMove DEF Check
  <2>3. Pursued = value[c]
    BY <1>4 DEF Check, Unlocked, Agreement, Goal
  <2>4. Register!Return(c)
    BY <1>1, <1>4, <2>1, <2>2, <2>3 DEF Register!Return, Check, Pursued
  <2> QED
    BY <2>4 DEF Register!Next
<1>5. CASE Lock(c)
  <2>1. Seen("send") = Seen(pc[c])
    BY <1>5 DEF Lock, Seen
  <2>2. Status' = Status
    BY <1>5, <2>1, StatusStays DEF Lock
  <2> QED
    BY <1>1, <1>5, <2>2 DEF Register!registerVars, Lock, Pursued
<1>6. CASE Store(c)
  <2>1. Status[c] = "set" /\ Seen("idle") = "idle"
    BY <1>6 DEF Store, Status, Seen
  <2>2. Status' = [Status EXCEPT ![c] = "idle"]
    BY <1>6, <2>1, StatusMove DEF Store
  <2>3. Register!Return(c)
    BY <1>1, <1>6, <2>1, <2>2 DEF Register!Return, Store, Pursued
  <2> QED
    BY <2>3 DEF Register!Next
<1> QED
  BY <1>2, <1>3, <1>4, <1>5, <1>6 DEF CallStep

\* The moment a target is handed over is the moment it takes effect.
LEMMA RegisterReceive ==
  ASSUME CpuInv, NEW c \in Callers, Receive(c)
  PROVE  [Register!Next]_(Register!registerVars)
<1> USE DEF CpuInv, TypeOK
<1>1. Status[c] = "asked" /\ Seen("store") = "set"
  BY DEF Receive, Send, Status, Seen
<1>2. Status' = [Status EXCEPT ![c] = "set"]
  <2>1. UsageTypeOK /\ pc' = [pc EXCEPT ![c] = "store"]
    BY DEF Receive, Send
  <2> QED
    BY <1>1, <2>1, StatusMove
<1>3. Pursued' = value[c]
  BY DEF Receive, Pursued
<1>4. value' = value
  BY DEF Receive, Send
<1>5. Register!Set(c)
  BY <1>1, <1>2, <1>3, <1>4 DEF Register!Set, Pursued
<1> QED
  BY <1>5 DEF Register!Next

\* cpuStress changes nothing that the requests see on its own.
LEMMA RegisterStress ==
  ASSUME CpuInv, StressStep
  PROVE  UNCHANGED Register!registerVars
<1>1. UNCHANGED usageVars /\ Pursued' = Pursued
  BY DEF StressStep, Tick, ReadCurrent, Ratio, Quit, Pursued
<1>2. Status' = Status
  BY <1>1 DEF usageVars, Status
<1> QED
  BY <1>1, <1>2 DEF Register!registerVars, usageVars, Pursued

\* Every step is one of TargetRegister, or none.
LEMMA RegisterNext ==
  CpuInv /\ [Next]_vars => [Register!Next]_(Register!registerVars)
<1> SUFFICES ASSUME CpuInv, [Next]_vars
             PROVE  [Register!Next]_(Register!registerVars)
  OBVIOUS
<1>1. CASE \E v \in Usages : Measure(v) /\ UNCHANGED stressVars
  BY <1>1 DEF Measure, stressVars, Register!registerVars, Status
<1>2. CASE UNCHANGED vars
  BY <1>2 DEF vars, usageVars, stressVars, Register!registerVars, Status
<1> QED
  BY <1>1, <1>2, RegisterCall, RegisterReceive, RegisterStress DEF Next

(***************************************************************************)
(* CpuControl implements TargetRegister: however many calls of setTarget   *)
(* (types.go:87) overlap, cpuStress (cpu.go:21-56) turns to their values   *)
(* one after the other, and none returns before its value was maintained.  *)
(***************************************************************************)
THEOREM Implements == Spec => SetsTargets
  BY RegisterInit, RegisterNext, Invariance, PTL
     DEF Spec, SetsTargets, Register!Spec
=============================================================================
