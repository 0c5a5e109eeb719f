----------------------------- MODULE CpuControl -----------------------------
(***************************************************************************)
(* The CPU load (cpu.go): the goroutine cpuStress, the controller it       *)
(* starts and stops, and procStatParser, around the CPU's ResourceUsage.   *)
(*                                                                         *)
(* How the controller spreads its load (interval, placeLoad) is left out:  *)
(* of the two channels ratio and quit it matters who waits on them.        *)
(***************************************************************************)
EXTENDS ResourceUsage

VARIABLES
    stress,     \* where cpuStress is
    started,
    cpuUsage,
    newUsage,   \* newCPUUsage, while cpuStress waits in quit <- true
    controllers \* how many cpuUsageController goroutines run

stressVars == <<stress, started, cpuUsage, newUsage, controllers>>
vars == <<usageVars, stressVars>>

StressStates == {"select", "read", "ratio", "quit"}

\* Variables have values of these types.
TypeOK ==
    /\ UsageTypeOK
    /\ stress \in StressStates
    /\ started \in BOOLEAN
    /\ cpuUsage \in Usages
    /\ newUsage \in Usages
    /\ controllers \in Nat

Init ==
    /\ UsageInit
    /\ stress = "select"
    /\ started = FALSE
    /\ cpuUsage = 0
    /\ newUsage = 0
    /\ controllers = 0

-----------------------------------------------------------------------------
\* case <-t.C: a tick before the load is started does nothing.
Tick ==
    /\ stress = "select"
    /\ started
    /\ stress' = "read"
    /\ UNCHANGED <<usageVars, started, cpuUsage, newUsage, controllers>>

\* store.resource.CPU.getCurrent(), which needs the read lock.
ReadCurrent ==
    /\ stress = "read"
    /\ Unlocked
    /\ stress' = "ratio"
    /\ UNCHANGED <<usageVars, started, cpuUsage, newUsage, controllers>>

\* ratio <- newRatio meets a controller.
Ratio ==
    /\ stress = "ratio"
    /\ controllers > 0
    /\ stress' = "select"
    /\ UNCHANGED <<usageVars, started, cpuUsage, newUsage, controllers>>

\* Mutated form of Receive: a second target starts a second controller.
ReceiveTwice(c) ==
    /\ stress = "select"
    /\ Send(c)
    /\ newUsage' = value[c]
    /\ IF started /\ value[c] = 0
       THEN /\ started' = FALSE
            /\ stress' = "quit"
            /\ UNCHANGED <<cpuUsage, controllers>>
       ELSE /\ started' = TRUE
            /\ cpuUsage' = value[c]
            /\ controllers' = controllers + 1
            /\ UNCHANGED stress

\* Mutated form of Receive: 0 stops the load without leaving cpuUsage at 0.
ReceiveStale(c) ==
    /\ stress = "select"
    /\ Send(c)
    /\ newUsage' = IF value[c] = 0 THEN cpuUsage ELSE value[c]
    /\ IF started /\ value[c] = 0
       THEN /\ started' = FALSE
            /\ stress' = "quit"
            /\ UNCHANGED <<cpuUsage, controllers>>
       ELSE /\ started' = TRUE
            /\ cpuUsage' = value[c]
            /\ controllers' = controllers + (IF started THEN 0 ELSE 1)
            /\ UNCHANGED stress

\* Mutated form of Receive: the controller is not started again.
ReceiveForgets(c) ==
    /\ stress = "select"
    /\ Send(c)
    /\ newUsage' = value[c]
    /\ IF started /\ value[c] = 0
       THEN /\ started' = FALSE
            /\ stress' = "quit"
            /\ UNCHANGED <<cpuUsage, controllers>>
       ELSE /\ started' = TRUE
            /\ cpuUsage' = value[c]
            /\ UNCHANGED <<controllers, stress>>

(***************************************************************************)
(* case newCPUUsage := <-cpuTargetChan: a caller's send meets the select.  *)
(* 0 stops a load that runs, any value starts one that does not.           *)
(***************************************************************************)
Receive(c) ==
    /\ stress = "select"
    /\ Send(c)
    /\ newUsage' = value[c]
    /\ IF started /\ value[c] = 0
       THEN /\ started' = FALSE
            /\ stress' = "quit"
            /\ UNCHANGED <<cpuUsage, controllers>>
       ELSE /\ started' = TRUE
            /\ cpuUsage' = value[c]
            /\ controllers' = controllers + (IF started THEN 0 ELSE 1)
            /\ UNCHANGED stress

\* quit <- true meets a controller, which returns; cpuUsage = newCPUUsage.
Quit ==
    /\ stress = "quit"
    /\ controllers > 0
    /\ controllers' = controllers - 1
    /\ cpuUsage' = newUsage
    /\ stress' = "select"
    /\ UNCHANGED <<usageVars, started, newUsage>>

StressStep == Tick \/ ReadCurrent \/ Ratio \/ Quit

Next ==
    \/ \E c \in Callers : CallStep(c) /\ UNCHANGED stressVars
    \/ \E v \in Usages : Measure(v) /\ UNCHANGED stressVars
    \/ \E c \in Callers : Receive(c)
    \/ StressStep

(***************************************************************************)
(* Goroutines are scheduled fairly, the ticker ticks, and a RWMutex        *)
(* starves nobody: a caller gets the lock if it is free again and again.   *)
(***************************************************************************)
Fairness ==
    /\ WF_vars(StressStep)
    /\ \A c \in Callers :
           /\ SF_vars(Check(c) /\ UNCHANGED stressVars)
           /\ SF_vars(Lock(c) /\ UNCHANGED stressVars)
           /\ SF_vars(Receive(c))
           /\ WF_vars(Store(c) /\ UNCHANGED stressVars)

Spec == Init /\ [][Next]_vars

FairSpec == Spec /\ Fairness

-----------------------------------------------------------------------------
(***************************************************************************)
(* One controller runs exactly while the load is started, and one is there *)
(* to take quit: a second one would go on for ever after quit, and without *)
(* one cpuStress would wait on ratio or quit for ever.                     *)
(***************************************************************************)
ControllerPaired ==
    controllers = IF started \/ stress = "quit" THEN 1 ELSE 0

(***************************************************************************)
(* Once a change of target is through, cpuStress maintains the very value  *)
(* that getTarget reports, and it does so with a load if it is not 0.      *)
(***************************************************************************)
TargetMaintained ==
    Unlocked /\ stress # "quit" =>
        cpuUsage = Target /\ (Target # 0 => started)

(***************************************************************************)
(* CpuControl implements TargetRegister: whatever calls of setTarget       *)
(* overlap, cpuStress turns to their values one after the other, and none  *)
(* returns before its value was maintained.  While cpuStress waits in      *)
(* quit <- true it has taken the new value and maintains the old one no    *)
(* more.                                                                   *)
(***************************************************************************)
Register == INSTANCE TargetRegister WITH
    maintained <- IF stress = "quit" THEN newUsage ELSE cpuUsage,
    status <- Status,
    arg <- value

SetsTargets == Register!Spec

(***************************************************************************)
(* cpuStress comes back to its select from ratio <- and quit <-.           *)
(***************************************************************************)
StressResumes == stress \in {"ratio", "quit"} ~> stress = "select"

\* "cpu=0~100: Maintains the specified usage rate" (README.md:291): with the
\* target at 0 and nobody changing it, no load runs.
ZeroStopsLoad == Unlocked /\ Target = 0 => ~started

\* "resource.cpu.target is the value specified in the query string"
\* (README.md:292): every request that sets a target gets through setTarget.
TargetSet == \A c \in Callers : pc[c] # "idle" ~> pc[c] = "idle"

(***************************************************************************)
(* What README.md says of cpu.  Both statements may fail in one behaviour, *)
(* so it is the weaker that is stated, that one of them holds.             *)
(***************************************************************************)
CpuAsDocumented == []ZeroStopsLoad \/ TargetSet
=============================================================================
