--------------------------- MODULE SpinlockProofs ----------------------------
(***************************************************************************)
(* Proofs about the ll/sc spinlock, for every set of CPUs: the lock gives  *)
(* mutual exclusion and implements the abstract lock of module Mutex.      *)
(***************************************************************************)
EXTENDS Spinlock, TLAPS

\* Every variable keeps its type along every step of spin_lock and spin_unlock.
LEMMA TypeCorrect == Spec => []TypeOK
<1>1. Init => TypeOK
  BY DEF Init, TypeOK
<1>2. TypeOK /\ [Next]_vars => TypeOK'
  BY DEF TypeOK, Next, vars, Call, LoadLinked, StoreConditional, Unlock, LinkLost, Goto, StoreLock
<1>3. QED
  BY <1>1, <1>2, PTL DEF Spec

\* A step of spin_lock or spin_unlock preserves the relation between the lock
\* word, the link bits and the CPUs inside.
LEMMA LockInvStep == TypeOK /\ LockInv /\ [Next]_vars => LockInv'
<1> SUFFICES ASSUME TypeOK, LockInv, [Next]_vars
             PROVE  LockInv'
  OBVIOUS
<1> USE DEF TypeOK, LockInv, MutualExclusion, Goto, StoreLock
<1>1. ASSUME NEW c \in CPUs, Call(c)
      PROVE  LockInv'
  BY <1>1 DEF Call
<1>2. ASSUME NEW c \in CPUs, LoadLinked(c)
      PROVE  LockInv'
  BY <1>2 DEF LoadLinked
<1>3. ASSUME NEW c \in CPUs, StoreConditional(c)
      PROVE  LockInv'
  BY <1>3 DEF StoreConditional
<1>4. ASSUME NEW c \in CPUs, Unlock(c)
      PROVE  LockInv'
  BY <1>4 DEF Unlock
<1>5. ASSUME NEW c \in CPUs, LinkLost(c)
      PROVE  LockInv'
  BY <1>5 DEF LinkLost
<1>6. CASE UNCHANGED vars
  BY <1>6 DEF vars
<1>7. QED
  BY <1>1, <1>2, <1>3, <1>4, <1>5, <1>6 DEF Next

\* The lock word is 1 exactly while one CPU is between spin_lock and
\* spin_unlock of kern/spinlock.S, and an intact link bit at the sc means 0.
THEOREM LockInvariant == Spec => []LockInv
<1>1. Init => LockInv
  BY DEF Init, LockInv, MutualExclusion
<1>2. QED
  BY <1>1, LockInvStep, TypeCorrect, PTL DEF Spec

\* What the refinement mapping yields: the abstract holder is the one CPU that
\* is between spin_lock and spin_unlock.
HolderFacts == /\ \A c \in CPUs : pc[c] = "held" => Holder = c
               /\ (\A c \in CPUs : pc[c] # "held") => Holder = NoCPU

\* The CHOOSE of the mapping has one candidate, by mutual exclusion.
LEMMA HolderIs == LockInv => HolderFacts
<1> SUFFICES ASSUME LockInv
             PROVE  HolderFacts
  OBVIOUS
<1>1. ASSUME NEW c \in CPUs, pc[c] = "held"
      PROVE  Holder = c
  <2>1. \A d \in CPUs : pc[d] = "held" => d = c
    BY <1>1 DEF LockInv, MutualExclusion
  <2>2. (CHOOSE d \in CPUs : pc[d] = "held") = c
    BY <1>1, <2>1
  <2>3. QED
    BY <1>1, <2>2 DEF Holder
<1>2. (\A c \in CPUs : pc[c] # "held") => Holder = NoCPU
  BY DEF Holder
<1>3. QED
  BY <1>1, <1>2 DEF HolderFacts

\* Every instruction of the ll/sc loop is a step of the abstract lock or leaves
\* the abstract lock alone.
LEMMA StepRefines ==
    TypeOK /\ LockInv /\ HolderFacts /\ HolderFacts' /\ [Next]_vars => [M!Next]_(M!mvars)
<1> DEFINE Waiting == {c \in CPUs : pc[c] \in {"ll", "sc"}}
<1> SUFFICES ASSUME TypeOK, LockInv, HolderFacts, HolderFacts', [Next]_vars
             PROVE  [M!Next]_(M!mvars)
  OBVIOUS
<1>0. \A c \in CPUs : Holder = c => pc[c] = "held"
  BY CPUAssumption DEF HolderFacts, Holder
<1> USE DEF TypeOK, Goto, StoreLock
<1>1. ASSUME NEW c \in CPUs, Call(c)
      PROVE  M!Request(c)
  <2>1. Holder' = Holder
    BY <1>1 DEF Call, Holder
  <2>2. c \notin Waiting /\ Waiting' = Waiting \cup {c}
    BY <1>1 DEF Call
  <2>3. Holder # c
    BY <1>1, <1>0 DEF Call
  <2>4. QED
    BY <2>1, <2>2, <2>3 DEF M!Request
<1>2. ASSUME NEW c \in CPUs, LoadLinked(c)
      PROVE  UNCHANGED M!mvars
  <2>1. Holder' = Holder
    BY <1>2 DEF LoadLinked, Holder
  <2>2. Waiting' = Waiting
    BY <1>2 DEF LoadLinked
  <2>3. QED
    BY <2>1, <2>2 DEF M!mvars
<1>3. ASSUME NEW c \in CPUs, StoreConditional(c), llbit[c]
      PROVE  M!Acquire(c)
  <2>1. Holder = NoCPU
    BY <1>3 DEF StoreConditional, LockInv, HolderFacts
  <2>2. Holder' = c
    BY <1>3 DEF StoreConditional, HolderFacts
  <2>3. c \in Waiting /\ Waiting' = Waiting \ {c}
    BY <1>3 DEF StoreConditional
  <2>4. QED
    BY <2>1, <2>2, <2>3 DEF M!Acquire
<1>4. ASSUME NEW c \in CPUs, StoreConditional(c), ~llbit[c]
      PROVE  UNCHANGED M!mvars
  <2>1. Holder' = Holder
    BY <1>4 DEF StoreConditional, Holder
  <2>2. Waiting' = Waiting
    BY <1>4 DEF StoreConditional
  <2>3. QED
    BY <2>1, <2>2 DEF M!mvars
<1>5. ASSUME NEW c \in CPUs, Unlock(c)
      PROVE  M!Release(c)
  <2>1. Holder = c
    BY <1>5 DEF Unlock, HolderFacts
  <2>2. \A d \in CPUs : pc'[d] # "held"
    BY <1>5 DEF Unlock, LockInv, MutualExclusion
  <2>3. Holder' = NoCPU
    BY <2>2 DEF HolderFacts
  <2>4. Waiting' = Waiting
    BY <1>5 DEF Unlock
  <2>5. QED
    BY <2>1, <2>3, <2>4 DEF M!Release
<1>6. ASSUME NEW c \in CPUs, LinkLost(c)
      PROVE  UNCHANGED M!mvars
  BY <1>6 DEF LinkLost, Holder, M!mvars
<1>7. CASE UNCHANGED vars
  BY <1>7 DEF vars, Holder, M!mvars
<1>8. QED
  BY <1>1, <1>2, <1>3, <1>4, <1>5, <1>6, <1>7 DEF Next, M!Next

\* The ll/sc spinlock of kern/spinlock.S implements the abstract lock, for any
\* number of CPUs and any loss of link bits.
THEOREM SpinlockRefinesMutex == Spec => ImplementsMutex
<1>1. Init => M!Init
  BY DEF Init, M!Init, Holder
<1>2. QED
  BY <1>1, StepRefines, HolderIs, LockInvariant, TypeCorrect, PTL
     DEF Spec, ImplementsMutex, M!Spec
==============================================================================
