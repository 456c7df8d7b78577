------------------------------ MODULE IpiProofs ------------------------------
(* Proofs about module Ipi, for every number of CPUs and every workload. *)
EXTENDS Ipi, TLAPS

\* Every step of smp_group_function_call and handle_ipi_irq keeps the types.
LEMMA TypeStep == TypeOK /\ IpiInv /\ [Next]_vars => TypeOK'
<1> SUFFICES ASSUME TypeOK, IpiInv, [Next]_vars PROVE TypeOK'
    OBVIOUS
<1> USE IpiAssumption DEF TypeOK, CPUs, Slots, Holding, Reading, shared, caller, handler,
                          Goto, HGoto, After
<1>1. ASSUME NEW c \in CPUs, SecondaryStart(c) PROVE TypeOK'
    BY <1>1 DEF SecondaryStart
<1>2. ASSUME NEW c \in CPUs, NEW v \in Calls, GroupCall(c, v) PROVE TypeOK'
    BY <1>2 DEF GroupCall
<1>3. ASSUME NEW c \in CPUs, SkipTarget(c) PROVE TypeOK'
    <2>1. tgt[c] \in 0..(NR_CPUS - 1) /\ tgt[c] + 1 \in 0..NR_CPUS
        BY <1>3 DEF SkipTarget
    <2> QED
        BY SMTT(30), <1>3, <2>1 DEF SkipTarget
<1>4. ASSUME NEW c \in CPUs, LockMailbox(c) PROVE TypeOK'
    BY SMTT(30), <1>4 DEF LockMailbox
<1>5. ASSUME NEW c \in CPUs, ClearDone(c) PROVE TypeOK'
    BY <1>5, Zenon DEF ClearDone
<1>6. ASSUME NEW c \in CPUs, MailboxWrite(c) PROVE TypeOK'
    <2>1. PICK s \in Slots :
              /\ pc' = [pc EXCEPT ![c] = After(s, "send")]
              /\ ipi_mailbox' = [ipi_mailbox EXCEPT ![tgt[c]][s] = arg[c]]
              /\ UNCHANGED <<ipi_ready, ipi_done, ipi_pending, ipi_mailbox_lock,
                             tgt, arg, handler>>
        BY <1>6, Zenon DEF MailboxWrite
    <2>2. After(s, "send") \in Holding
        OBVIOUS
    <2>3. ipi_mailbox' \in [CPUs -> [Slots -> Calls \cup {Nil}]]
        BY <2>1, Zenon
    <2> QED
        BY <2>1, <2>2, <2>3
<1>7. ASSUME NEW c \in CPUs, IpiSend(c) PROVE TypeOK'
    BY <1>7, Zenon DEF IpiSend
<1>8. ASSUME NEW c \in CPUs, WaitDone(c) PROVE TypeOK'
    BY <1>8 DEF WaitDone
<1>9. ASSUME NEW c \in CPUs, WaitPoll(c) PROVE TypeOK'
    BY SMTT(30), <1>9 DEF WaitPoll
<1>10. ASSUME NEW c \in CPUs, ClearFn(c) PROVE TypeOK'
    BY <1>10, Zenon DEF ClearFn
<1>11. ASSUME NEW c \in CPUs, UnlockMailbox(c) PROVE TypeOK'
    <2>1. tgt[c] \in 0..(NR_CPUS - 1) /\ tgt[c] + 1 \in 0..NR_CPUS
        BY <1>11 DEF UnlockMailbox, IpiInv, CallerInv
    <2> QED
        BY SMTT(30), <1>11, <2>1 DEF UnlockMailbox
<1>12. ASSUME NEW c \in CPUs, Return(c) PROVE TypeOK'
    BY <1>12 DEF Return
<1>13. ASSUME NEW c \in CPUs, StatusRead(c) PROVE TypeOK'
    BY <1>13 DEF StatusRead
<1>14. ASSUME NEW c \in CPUs, StatusClear(c) PROVE TypeOK'
    BY <1>14 DEF StatusClear
<1>15. ASSUME NEW c \in CPUs, MailboxRead(c) PROVE TypeOK'
    BY <1>15 DEF MailboxRead
<1>16. ASSUME NEW c \in CPUs, Exec(c) PROVE TypeOK'
    BY <1>16 DEF Exec
<1>17. ASSUME NEW c \in CPUs, Ack(c) PROVE TypeOK'
    BY <1>17 DEF Ack
<1>18. CASE UNCHANGED vars
    BY <1>18 DEF vars
<1> QED
    BY Zenon, <1>1, <1>2, <1>3, <1>4, <1>5, <1>6, <1>7, <1>8, <1>9, <1>10, <1>11, <1>12,
       <1>13, <1>14, <1>15, <1>16, <1>17, <1>18 DEF Next, CallerStep, HandlerStep

\* Two CPUs are never inside the locked part of smp_group_function_call for
\* the same target.
LEMMA OneCallerPerTarget ==
    ASSUME TypeOK, IpiInv, NEW c \in CPUs, NEW d \in CPUs,
           pc[c] \in Holding, pc[d] \in Holding, tgt[c] = tgt[d]
    PROVE c = d
BY DEF TypeOK, IpiInv, LockOwner, CallerInv

\* A CPU that nobody waits for has nothing pending and runs no handler.
LEMMA QuietTarget ==
    ASSUME TypeOK, IpiInv, NEW t \in CPUs,
           \A c \in CPUs : ~(pc[c] \in Waiting /\ tgt[c] = t)
    PROVE ~ipi_pending[t] /\ hpc[t] = "none"
BY DEF IpiInv, TargetInv

\* In the locked part, before the call is posted and after it is acknowledged,
\* the target is quiet.
LEMMA QuietBeforeSend ==
    ASSUME TypeOK, IpiInv, NEW c \in CPUs, pc[c] \in Holding \ Waiting
    PROVE ~ipi_pending[tgt[c]] /\ hpc[tgt[c]] = "none"
<1>1. tgt[c] \in CPUs
    BY DEF IpiInv, CallerInv
<1>2. \A d \in CPUs : ~(pc[d] \in Waiting /\ tgt[d] = tgt[c])
    BY OneCallerPerTarget DEF Waiting, Holding
<1> QED
    BY <1>1, <1>2, QuietTarget

\* Every step of kern/smp.c keeps the protocol invariant.
LEMMA InvStep == TypeOK /\ IpiInv /\ [Next]_vars => IpiInv'
<1> SUFFICES ASSUME TypeOK, IpiInv, [Next]_vars PROVE IpiInv'
    OBVIOUS
<1>0. TypeOK'
    BY TypeStep
<1> USE IpiAssumption, <1>0
<1> DEFINE Parts == /\ LockOwner'
                    /\ \A d \in CPUs : CallerInv(d)'
                    /\ \A d \in CPUs : SlotsInv(d)'
                    /\ \A d \in CPUs : TargetInv(d)'
<1>1. ASSUME NEW c \in CPUs, SecondaryStart(c) PROVE Parts
    <2> USE <1>1 DEF SecondaryStart, Goto, HGoto, InCaller, shared, caller, handler, TypeOK
    <2>1. LockOwner'
        BY DEF IpiInv, LockOwner, Holding
    <2>2. ASSUME NEW d \in CPUs PROVE CallerInv(d)'
        BY <2>2 DEF IpiInv, CallerInv, InFlight, Holding, Waiting, Reading
    <2>3. ASSUME NEW d \in CPUs PROVE SlotsInv(d)'
        BY <2>3 DEF IpiInv, CallerInv, SlotsInv, PastWrite, PastRead, Slots, Holding, Waiting
    <2>4. ASSUME NEW d \in CPUs PROVE TargetInv(d)'
        BY <2>4 DEF IpiInv, TargetInv, Waiting
    <2> QED
        BY <2>1, <2>2, <2>3, <2>4
<1>2. ASSUME NEW c \in CPUs, NEW v \in Calls, GroupCall(c, v) PROVE Parts
    <2> USE <1>2 DEF GroupCall, Goto, HGoto, InCaller, shared, caller, handler, TypeOK
    <2>1. LockOwner'
        BY DEF IpiInv, LockOwner, Holding
    <2>2. ASSUME NEW d \in CPUs PROVE CallerInv(d)'
        BY <2>2 DEF IpiInv, CallerInv, InFlight, Holding, Waiting, Reading
    <2>3. ASSUME NEW d \in CPUs PROVE SlotsInv(d)'
        BY <2>3 DEF IpiInv, CallerInv, SlotsInv, PastWrite, PastRead, Slots, Holding, Waiting
    <2>4. ASSUME NEW d \in CPUs PROVE TargetInv(d)'
        BY <2>4, Zenon DEF IpiInv, TargetInv, Waiting
    <2> QED
        BY <2>1, <2>2, <2>3, <2>4
<1>3. ASSUME NEW c \in CPUs, SkipTarget(c) PROVE Parts
    <2> USE <1>3 DEF SkipTarget, Goto, HGoto, InCaller, shared, caller, handler, TypeOK
    <2>1. LockOwner'
        BY DEF IpiInv, LockOwner, Holding
    <2>2. ASSUME NEW d \in CPUs PROVE CallerInv(d)'
        BY <2>2 DEF IpiInv, CallerInv, InFlight, Holding, Waiting, Reading
    <2>3. ASSUME NEW d \in CPUs PROVE SlotsInv(d)'
        BY <2>3 DEF IpiInv, CallerInv, SlotsInv, PastWrite, PastRead, Slots, Holding, Waiting
    <2>4. ASSUME NEW d \in CPUs PROVE TargetInv(d)'
        BY <2>4, Zenon DEF IpiInv, TargetInv, Waiting
    <2> QED
        BY <2>1, <2>2, <2>3, <2>4
<1>4. ASSUME NEW c \in CPUs, LockMailbox(c) PROVE Parts
    <2> USE <1>4 DEF LockMailbox, Goto, HGoto, InCaller, shared, caller, handler, TypeOK
    <2>1. LockOwner'
        BY DEF IpiInv, LockOwner, Holding
    <2>2. ASSUME NEW d \in CPUs PROVE CallerInv(d)'
        BY <2>2 DEF IpiInv, CallerInv, InFlight, Holding, Waiting, Reading
    <2>3. ASSUME NEW d \in CPUs PROVE SlotsInv(d)'
        BY <2>3 DEF IpiInv, CallerInv, SlotsInv, PastWrite, PastRead, Slots, Holding, Waiting
    <2>4. ASSUME NEW d \in CPUs PROVE TargetInv(d)'
        BY <2>4, Zenon DEF IpiInv, TargetInv, Waiting
    <2> QED
        BY <2>1, <2>2, <2>3, <2>4
<1>5. ASSUME NEW c \in CPUs, ClearDone(c) PROVE Parts
    <2> USE <1>5 DEF ClearDone, Goto, HGoto, InCaller, shared, caller, handler, TypeOK
    <2>0. \A d \in CPUs : pc[d] \in Holding /\ tgt[d] = tgt[c] => d = c
        BY OneCallerPerTarget DEF Holding
    <2>1. LockOwner'
        BY DEF IpiInv, LockOwner, Holding
    <2>2. ASSUME NEW d \in CPUs PROVE CallerInv(d)'
        BY <2>0, <2>2 DEF IpiInv, CallerInv, InFlight, Holding, Waiting, Reading
    <2>3. ASSUME NEW d \in CPUs PROVE SlotsInv(d)'
        BY <2>3 DEF IpiInv, CallerInv, SlotsInv, PastWrite, PastRead, Slots, Holding, Waiting
    <2>4. ASSUME NEW d \in CPUs PROVE TargetInv(d)'
        BY <2>4, Zenon DEF IpiInv, TargetInv, Waiting
    <2> QED
        BY <2>1, <2>2, <2>3, <2>4
<1>6. ASSUME NEW c \in CPUs, MailboxWrite(c) PROVE Parts
    <2> USE DEF Goto, InCaller, shared, caller, handler, TypeOK
    <2>0. PICK s \in Slots :
              /\ Goto(c, s, After(s, "send"))
              /\ ipi_mailbox' = [ipi_mailbox EXCEPT ![tgt[c]][s] = arg[c]]
              /\ UNCHANGED <<ipi_ready, ipi_done, ipi_pending, ipi_mailbox_lock,
                             tgt, arg, handler>>
        BY <1>6, Zenon DEF MailboxWrite
    <2>a. After(s, "send") \in {"ARG0", "ARG1", "send"} /\ s \in Holding /\ s # "idle"
        BY DEF After, Slots, Holding
    <2>b. \A d \in CPUs : pc[d] \in Holding /\ tgt[d] = tgt[c] => d = c
        BY <2>0, <2>a, OneCallerPerTarget
    <2>1. LockOwner'
        BY <2>0, <2>a DEF IpiInv, LockOwner, Holding
    <2>2. ASSUME NEW d \in CPUs PROVE CallerInv(d)'
        BY <2>0, <2>a, <2>2 DEF Slots, IpiInv, CallerInv, InFlight, Holding, Waiting, Reading
    <2>3. ASSUME NEW d \in CPUs PROVE SlotsInv(d)'
        BY <2>0, <2>a, <2>b, <2>3 DEF After, IpiInv, CallerInv, SlotsInv, PastWrite, PastRead, Slots, Holding, Waiting
    <2>4. ASSUME NEW d \in CPUs PROVE TargetInv(d)'
        BY <2>0, <2>a, <2>4, Zenon DEF IpiInv, TargetInv, Waiting, Slots
    <2> QED
        BY <2>1, <2>2, <2>3, <2>4
<1>7. ASSUME NEW c \in CPUs, IpiSend(c) PROVE Parts
    <2> USE <1>7 DEF IpiSend, Goto, HGoto, InCaller, shared, caller, handler, TypeOK
    <2>0. /\ \A d \in CPUs : pc[d] \in Holding /\ tgt[d] = tgt[c] => d = c
          /\ ~ipi_pending[tgt[c]] /\ hpc[tgt[c]] = "none"
        BY OneCallerPerTarget, QuietBeforeSend, Zenon DEF Holding, Waiting
    <2>1. LockOwner'
        BY DEF IpiInv, LockOwner, Holding
    <2>2. ASSUME NEW d \in CPUs PROVE CallerInv(d)'
        BY <2>0, <2>2 DEF IpiInv, CallerInv, InFlight, Holding, Waiting, Reading
    <2>3. ASSUME NEW d \in CPUs PROVE SlotsInv(d)'
        BY <2>0, <2>3 DEF IpiInv, CallerInv, SlotsInv, PastWrite, PastRead, Slots, Holding, Waiting
    <2>4. ASSUME NEW d \in CPUs PROVE TargetInv(d)'
        BY <2>4 DEF IpiInv, TargetInv, Waiting
    <2> QED
        BY <2>1, <2>2, <2>3, <2>4
<1>8. ASSUME NEW c \in CPUs, WaitDone(c) PROVE Parts
    <2> USE <1>8 DEF WaitDone, Goto, HGoto, InCaller, shared, caller, handler, TypeOK
    <2>1. LockOwner'
        BY DEF IpiInv, LockOwner, Holding
    <2>2. ASSUME NEW d \in CPUs PROVE CallerInv(d)'
        BY <2>2 DEF IpiInv, CallerInv, InFlight, Holding, Waiting, Reading
    <2>3. ASSUME NEW d \in CPUs PROVE SlotsInv(d)'
        BY <2>3 DEF IpiInv, CallerInv, SlotsInv, PastWrite, PastRead, Slots, Holding, Waiting
    <2>4. ASSUME NEW d \in CPUs PROVE TargetInv(d)'
        BY <2>4 DEF IpiInv, CallerInv, InFlight, TargetInv, Waiting, Holding, Reading
    <2> QED
        BY <2>1, <2>2, <2>3, <2>4
<1>9. ASSUME NEW c \in CPUs, WaitPoll(c) PROVE Parts
    <2> USE <1>9 DEF WaitPoll, Goto, HGoto, InCaller, shared, caller, handler, TypeOK
    <2>1. LockOwner'
        BY DEF IpiInv, LockOwner, Holding
    <2>2. ASSUME NEW d \in CPUs PROVE CallerInv(d)'
        BY <2>2 DEF IpiInv, CallerInv, InFlight, Holding, Waiting, Reading
    <2>3. ASSUME NEW d \in CPUs PROVE SlotsInv(d)'
        BY <2>3 DEF IpiInv, CallerInv, SlotsInv, PastWrite, PastRead, Slots, Holding, Waiting
    <2>4. ASSUME NEW d \in CPUs PROVE TargetInv(d)'
        BY <2>4 DEF IpiInv, TargetInv, Waiting
    <2> QED
        BY <2>1, <2>2, <2>3, <2>4
<1>10. ASSUME NEW c \in CPUs, ClearFn(c) PROVE Parts
    <2> USE <1>10 DEF ClearFn, Goto, HGoto, InCaller, shared, caller, handler, TypeOK
    <2>0. \A d \in CPUs : pc[d] \in Holding /\ tgt[d] = tgt[c] => d = c
        BY OneCallerPerTarget DEF Holding
    <2>1. LockOwner'
        BY DEF IpiInv, LockOwner, Holding
    <2>2. ASSUME NEW d \in CPUs PROVE CallerInv(d)'
        BY <2>2 DEF IpiInv, CallerInv, InFlight, Holding, Waiting, Reading
    <2>3. ASSUME NEW d \in CPUs PROVE SlotsInv(d)'
        BY <2>0, <2>3 DEF IpiInv, CallerInv, SlotsInv, PastWrite, PastRead, Slots, Holding, Waiting
    <2>4. ASSUME NEW d \in CPUs PROVE TargetInv(d)'
        BY <2>4, Zenon DEF IpiInv, TargetInv, Waiting
    <2> QED
        BY <2>1, <2>2, <2>3, <2>4
<1>11. ASSUME NEW c \in CPUs, UnlockMailbox(c) PROVE Parts
    <2> USE <1>11 DEF UnlockMailbox, Goto, HGoto, InCaller, shared, caller, handler, TypeOK
    <2>0. \A d \in CPUs : pc[d] \in Holding /\ tgt[d] = tgt[c] => d = c
        BY OneCallerPerTarget DEF Holding
    <2>1. LockOwner'
        BY <2>0 DEF IpiInv, LockOwner, Holding
    <2>2. ASSUME NEW d \in CPUs PROVE CallerInv(d)'
        BY <2>2 DEF IpiInv, CallerInv, InFlight, Holding, Waiting, Reading
    <2>3. ASSUME NEW d \in CPUs PROVE SlotsInv(d)'
        BY <2>3 DEF IpiInv, CallerInv, SlotsInv, PastWrite, PastRead, Slots, Holding, Waiting
    <2>4. ASSUME NEW d \in CPUs PROVE TargetInv(d)'
        BY <2>4, Zenon DEF IpiInv, TargetInv, Waiting
    <2> QED
        BY <2>1, <2>2, <2>3, <2>4
<1>12. ASSUME NEW c \in CPUs, Return(c) PROVE Parts
    <2> USE <1>12 DEF Return, Goto, HGoto, InCaller, shared, caller, handler, TypeOK
    <2>1. LockOwner'
        BY DEF IpiInv, LockOwner, Holding
    <2>2. ASSUME NEW d \in CPUs PROVE CallerInv(d)'
        BY <2>2 DEF IpiInv, CallerInv, InFlight, Holding, Waiting, Reading
    <2>3. ASSUME NEW d \in CPUs PROVE SlotsInv(d)'
        BY <2>3 DEF IpiInv, CallerInv, SlotsInv, PastWrite, PastRead, Slots, Holding, Waiting
    <2>4. ASSUME NEW d \in CPUs PROVE TargetInv(d)'
        BY <2>4, Zenon DEF IpiInv, TargetInv, Waiting
    <2> QED
        BY <2>1, <2>2, <2>3, <2>4
<1>13. ASSUME NEW c \in CPUs, StatusRead(c) PROVE Parts
    <2> USE <1>13 DEF StatusRead, Goto, HGoto, InCaller, shared, caller, handler, TypeOK
    <2>1. LockOwner'
        BY DEF IpiInv, LockOwner, Holding
    <2>2. ASSUME NEW d \in CPUs PROVE CallerInv(d)'
        BY <2>2 DEF IpiInv, CallerInv, InFlight, Holding, Waiting, Reading
    <2>3. ASSUME NEW d \in CPUs PROVE SlotsInv(d)'
        BY <2>3 DEF IpiInv, CallerInv, SlotsInv, PastWrite, PastRead, Slots, Holding, Waiting
    <2>4. ASSUME NEW d \in CPUs PROVE TargetInv(d)'
        BY <2>4 DEF IpiInv, TargetInv, Waiting
    <2> QED
        BY <2>1, <2>2, <2>3, <2>4
<1>14. ASSUME NEW c \in CPUs, StatusClear(c) PROVE Parts
    <2> USE <1>14 DEF StatusClear, Goto, HGoto, InCaller, shared, caller, handler, TypeOK
    <2>1. LockOwner'
        BY DEF IpiInv, LockOwner, Holding
    <2>2. ASSUME NEW d \in CPUs PROVE CallerInv(d)'
        BY <2>2 DEF IpiInv, CallerInv, InFlight, Holding, Waiting, Reading
    <2>3. ASSUME NEW d \in CPUs PROVE SlotsInv(d)'
        BY <2>3 DEF IpiInv, CallerInv, SlotsInv, PastWrite, PastRead, Slots, Holding, Waiting
    <2>4. ASSUME NEW d \in CPUs PROVE TargetInv(d)'
        BY <2>4 DEF IpiInv, TargetInv, Waiting
    <2> QED
        BY <2>1, <2>2, <2>3, <2>4
<1>15. ASSUME NEW c \in CPUs, MailboxRead(c) PROVE Parts
    <2> USE DEF HGoto, shared, caller, handler, TypeOK
    <2>0. PICK s \in Slots :
              /\ HGoto(c, s, After(s, "exec"))
              /\ got' = [got EXCEPT ![c][s] = ipi_mailbox[c][s]]
              /\ UNCHANGED <<shared, caller, ran>>
        BY <1>15, Zenon DEF MailboxRead
    <2>a. After(s, "exec") \in {"ARG0", "ARG1", "exec"} /\ s \in Reading /\ s # "none"
        BY DEF After, Slots, Reading
    <2>1. LockOwner'
        BY <2>0 DEF IpiInv, LockOwner
    <2>2. ASSUME NEW d \in CPUs PROVE CallerInv(d)'
        BY <2>0, <2>a, <2>2 DEF IpiInv, CallerInv, InFlight, Holding, Waiting, Reading
    <2>3. ASSUME NEW d \in CPUs PROVE SlotsInv(d)'
        BY <2>0, <2>3 DEF After, IpiInv, CallerInv, SlotsInv, PastWrite, PastRead, Slots, Holding, Waiting
    <2>4. ASSUME NEW d \in CPUs PROVE TargetInv(d)'
        BY <2>0, <2>a, <2>4 DEF IpiInv, TargetInv
    <2> QED
        BY <2>1, <2>2, <2>3, <2>4
<1>16. ASSUME NEW c \in CPUs, Exec(c) PROVE Parts
    <2> USE <1>16 DEF Exec, Goto, HGoto, InCaller, shared, caller, handler, TypeOK
    <2>1. LockOwner'
        BY DEF IpiInv, LockOwner, Holding
    <2>2. ASSUME NEW d \in CPUs PROVE CallerInv(d)'
        BY <2>2 DEF IpiInv, CallerInv, InFlight, Holding, Waiting, Reading
    <2>3. ASSUME NEW d \in CPUs PROVE SlotsInv(d)'
        BY <2>3 DEF IpiInv, CallerInv, SlotsInv, PastWrite, PastRead, Slots, Holding, Waiting
    <2>4. ASSUME NEW d \in CPUs PROVE TargetInv(d)'
        BY <2>4 DEF IpiInv, TargetInv, Waiting
    <2> QED
        BY <2>1, <2>2, <2>3, <2>4
<1>17. ASSUME NEW c \in CPUs, Ack(c) PROVE Parts
    <2> USE <1>17 DEF Ack, Goto, HGoto, InCaller, shared, caller, handler, TypeOK
    <2>0. \A d \in CPUs : pc[d] \in Holding \ Waiting => tgt[d] # c
        BY QuietBeforeSend DEF HGoto
    <2>1. LockOwner'
        BY DEF IpiInv, LockOwner, Holding
    <2>2. ASSUME NEW d \in CPUs PROVE CallerInv(d)'
        BY <2>0, <2>2 DEF IpiInv, CallerInv, InFlight, Holding, Waiting, Reading
    <2>3. ASSUME NEW d \in CPUs PROVE SlotsInv(d)'
        BY <2>3 DEF IpiInv, CallerInv, SlotsInv, PastWrite, PastRead, Slots, Holding, Waiting
    <2>4. ASSUME NEW d \in CPUs PROVE TargetInv(d)'
        BY <2>4 DEF IpiInv, TargetInv, Waiting
    <2> QED
        BY <2>1, <2>2, <2>3, <2>4
<1>18. CASE UNCHANGED vars
    <2> USE <1>18 DEF vars, shared, caller, handler
    <2>1. LockOwner'
        BY DEF IpiInv, LockOwner
    <2>2. ASSUME NEW d \in CPUs PROVE CallerInv(d)'
        BY <2>2 DEF IpiInv, CallerInv, InFlight
    <2>3. ASSUME NEW d \in CPUs PROVE SlotsInv(d)'
        BY <2>3 DEF IpiInv, SlotsInv
    <2>4. ASSUME NEW d \in CPUs PROVE TargetInv(d)'
        BY <2>4 DEF IpiInv, TargetInv
    <2> QED
        BY <2>1, <2>2, <2>3, <2>4 DEF IpiInv
<1> QED
    BY <1>1, <1>2, <1>3, <1>4, <1>5, <1>6, <1>7, <1>8, <1>9, <1>10, <1>11, <1>12, <1>13, <1>14, <1>15, <1>16, <1>17, <1>18 DEF Next, CallerStep, HandlerStep, IpiInv

\* The initial state, smp_init, satisfies the invariant.
LEMMA InvInit == Init => TypeOK /\ IpiInv
BY IpiAssumption DEF Init, NoSlots, TypeOK, IpiInv, LockOwner, CallerInv, SlotsInv, TargetInv,
                     CPUs, Slots, Holding, Reading, Waiting, PastWrite

\* The protocol invariant of kern/smp.c holds for every number of CPUs.
THEOREM IpiInvariant == Spec => [](TypeOK /\ IpiInv)
<1>1. TypeOK /\ IpiInv /\ [Next]_vars => (TypeOK /\ IpiInv)'
    BY TypeStep, InvStep
<1> QED
    BY <1>1, InvInit, PTL DEF Spec

\* handle_ipi_irq is never entered on top of itself and ipi_status_clear never
\* erases a call that was posted behind it, for every number of CPUs.
THEOREM OneCall == Spec => []OneCallAtATime
<1>1. ASSUME TypeOK, IpiInv, NEW t \in CPUs, hpc[t] \in Reading PROVE ~ipi_pending[t]
    <2>1. PICK c \in CPUs : pc[c] \in Waiting /\ tgt[c] = t
        BY <1>1 DEF IpiInv, TargetInv, Reading
    <2>2. InFlight(t)
        BY <1>1, <2>1 DEF IpiInv, CallerInv
    <2> QED
        BY <1>1, <2>2 DEF InFlight, Reading
<1>2. ASSUME TypeOK, IpiInv, NEW t \in CPUs, NEW d \in CPUs, hpc[t] # "none"
      PROVE ~(pc[d] = "send" /\ tgt[d] = t)
    BY <1>2, QuietBeforeSend DEF Holding, Waiting
<1>3. TypeOK /\ IpiInv => OneCallAtATime
    BY <1>1, <1>2 DEF OneCallAtATime
<1> QED
    BY <1>3, IpiInvariant, PTL
==============================================================================
