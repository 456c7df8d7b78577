------------------------------ MODULE Spinlock -------------------------------
(***************************************************************************)
(* The ll/sc spinlock of kern/spinlock.S (and its copy for user programs,  *)
(* user_spin_lock of fs/serv.h), one instruction that touches memory per   *)
(* action.                                                                 *)
(*                                                                         *)
(* ll sets the CPU's link bit; a store of any CPU to the word, or an       *)
(* exception return on the CPU itself, clears it; sc stores only if the    *)
(* link bit is still set and tells the CPU whether it did.                 *)
(***************************************************************************)
EXTENDS Naturals

CONSTANTS CPUs, NoCPU

ASSUME CPUAssumption == NoCPU \notin CPUs

VARIABLES lock,   \* the spinlock_t word: 0 free, 1 taken
          llbit,  \* llbit[c]: the link bit of CPU c
          pc      \* where c is: outside, at the ll, at the sc, holding the lock

vars == <<lock, llbit, pc>>

Init == /\ lock = 0
        /\ llbit = [c \in CPUs |-> FALSE]
        /\ pc = [c \in CPUs |-> "out"]

Goto(c, from, to) == /\ pc[c] = from
                     /\ pc' = [pc EXCEPT ![c] = to]

\* A store to the lock word clears the link bit of every CPU.
StoreLock(v) == /\ lock' = v
                /\ llbit' = [c \in CPUs |-> FALSE]

Call(c) == /\ Goto(c, "out", "ll")
           /\ UNCHANGED <<lock, llbit>>

\* 1: ll t0, 0(a0); bnez t0, 1b
LoadLinked(c) == /\ Goto(c, "ll", IF lock = 0 THEN "sc" ELSE "ll")
                 /\ llbit' = [llbit EXCEPT ![c] = TRUE]
                 /\ UNCHANGED lock

\* Mutant of StoreConditional: a plain store, the link bit is not looked at.
PlainStore(c) == /\ Goto(c, "sc", "held")
                 /\ StoreLock(1)

\* sc t1, 0(a0); beqz t1, 1b
StoreConditional(c) ==
    \/ /\ llbit[c]
       /\ Goto(c, "sc", "held")
       /\ StoreLock(1)
    \/ /\ ~llbit[c]
       /\ Goto(c, "sc", "ll")
       /\ UNCHANGED <<lock, llbit>>

\* Mutants of Unlock: the word is not written back, or is counted up instead.
UnlockKeepsWord(c) == /\ Goto(c, "held", "out")
                      /\ UNCHANGED <<lock, llbit>>

UnlockCountsUp(c) == /\ Goto(c, "held", "out")
                     /\ StoreLock(lock + 1)

\* spin_unlock: sync; sw zero, 0(a0)
Unlock(c) == /\ Goto(c, "held", "out")
             /\ StoreLock(0)

\* An interrupt taken and returned from between ll and sc: eret clears the link.
LinkLost(c) == /\ llbit[c]
               /\ llbit' = [llbit EXCEPT ![c] = FALSE]
               /\ UNCHANGED <<lock, pc>>

Next == \E c \in CPUs :
            Call(c) \/ LoadLinked(c) \/ StoreConditional(c) \/ Unlock(c) \/ LinkLost(c)

Spec == Init /\ [][Next]_vars

(***************************************************************************)
(* Fairness.  A CPU inside spin_lock keeps executing, and an sc whose link *)
(* bit is intact again and again is not always beaten by an interrupt,     *)
(* which needs the strong form.  Nothing is assumed of a holder: it may    *)
(* wait inside its section, as smp_group_function_call does for the target *)
(* under ipi_mailbox_lock.                                                 *)
(***************************************************************************)
FairSpec == /\ Spec
            /\ \A c \in CPUs : /\ WF_vars(LoadLinked(c))
                               /\ WF_vars(StoreConditional(c))
                               /\ SF_vars(StoreConditional(c) /\ llbit[c])
------------------------------------------------------------------------------
TypeOK == /\ lock \in {0, 1}
          /\ llbit \in [CPUs -> BOOLEAN]
          /\ pc \in [CPUs -> {"out", "ll", "sc", "held"}]

\* Two CPUs are never between spin_lock and spin_unlock of the same lock at
\* once, whatever the interleaving of their ll and sc.
MutualExclusion == \A c, d \in CPUs : pc[c] = "held" /\ pc[d] = "held" => c = d

\* The strengthening that makes mutual exclusion inductive: the word is 1
\* exactly while some CPU is inside, and a CPU at its sc whose link bit is
\* still set knows that the word is 0.
LockInv == /\ MutualExclusion
           /\ (lock = 1) <=> (\E c \in CPUs : pc[c] = "held")
           /\ \A c \in CPUs : pc[c] = "sc" /\ llbit[c] => lock = 0

\* The refinement mapping onto the abstract lock.
Holder == IF \E c \in CPUs : pc[c] = "held" THEN CHOOSE c \in CPUs : pc[c] = "held"
                                            ELSE NoCPU

M == INSTANCE Mutex WITH holder <- Holder,
                         waiting <- {c \in CPUs : pc[c] \in {"ll", "sc"}}

\* The ll/sc loop implements the abstract lock: no CPU returns from spin_lock
\* while another one holds the lock, and nobody's unlock but the holder's frees it.
ImplementsMutex == M!Spec

\* While CPUs spin in spin_lock the lock is held or comes to be held: sc failures,
\* lost links and contention cannot leave a free lock untaken for ever.
KeepsGranting == (\E c \in CPUs : pc[c] \in {"ll", "sc"}) ~> (\E c \in CPUs : pc[c] = "held")
==============================================================================
