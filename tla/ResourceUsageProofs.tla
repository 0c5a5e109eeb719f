------------------------ MODULE ResourceUsageProofs ------------------------
(***************************************************************************)
(* What the proofs about CpuControl and MemoryControl share: the lock of a *)
(* ResourceUsage, and how the requests see the steps of setTarget.         *)
(***************************************************************************)
EXTENDS ResourceUsage, TLAPS

\* The write lock is held exactly by the caller between Lock and Unlock.
Holder == \A c \in Callers : pc[c] \in {"send", "store"} <=> writer = c

\* The value that Target has, or gets when the lock is given back.
Goal ==
    IF writer # NoCaller /\ pc[writer] = "store" THEN value[writer] ELSE Target

\* What the proofs need of the usages.
LEMMA UsagesNat == Usages \subseteq Nat /\ 0 \in Usages
  BY UsagesAssumption

\* A caller's step is one step of what the requests see.
LEMMA StatusMove ==
  ASSUME UsageTypeOK, NEW c \in Callers, NEW s, pc' = [pc EXCEPT ![c] = s]
  PROVE  Status' = [Status EXCEPT ![c] = Seen(s)]
<1>1. \A d \in Callers : pc'[d] = IF d = c THEN s ELSE pc[d]
  BY DEF UsageTypeOK
<1>2. \A d \in Callers : Seen(pc'[d]) = IF d = c THEN Seen(s) ELSE Seen(pc[d])
  BY <1>1
<1>3. Status' = [d \in Callers |-> IF d = c THEN Seen(s) ELSE Seen(pc[d])]
  BY <1>2 DEF Status
<1>4. [Status EXCEPT ![c] = Seen(s)]
          = [d \in Callers |-> IF d = c THEN Seen(s) ELSE Seen(pc[d])]
  BY DEF Status
<1> QED
  BY <1>3, <1>4

\* A step between two points that the requests cannot tell apart is none.
LEMMA StatusStays ==
  ASSUME UsageTypeOK, NEW c \in Callers, NEW s, pc' = [pc EXCEPT ![c] = s],
         Seen(s) = Seen(pc[c])
  PROVE  Status' = Status
<1>1. \A d \in Callers : pc'[d] = IF d = c THEN s ELSE pc[d]
  BY DEF UsageTypeOK
<1>2. \A d \in Callers : Seen(pc'[d]) = Seen(pc[d])
  BY <1>1
<1> QED
  BY <1>2 DEF Status
=============================================================================
