----------------------------- MODULE IpiRefinement ---------------------------
(***************************************************************************)
(* Ipi implements RemoteCall, for every number of CPUs.                    *)
(***************************************************************************)
EXTENDS IpiProofs

\* A step of kern/smp.c is a step of module RemoteCall or invisible in it.
LEMMA StepRefines == TypeOK /\ IpiInv /\ TypeOK' /\ IpiInv' /\ [Next]_vars => [R!Next]_(R!rvars)
<1> SUFFICES ASSUME TypeOK, IpiInv, TypeOK', IpiInv', [Next]_vars PROVE [R!Next]_(R!rvars)
    OBVIOUS
<1> USE IpiAssumption
<1> DEFINE Same == /\ \A d \in CPUs : Left(d)' = Left(d) /\ InCall(d)' = InCall(d)
                   /\ UNCHANGED <<ipi_ready, ran>>
<1>0. ASSUME Same PROVE UNCHANGED R!rvars
    BY <1>0 DEF R!rvars
<1>a. CPUs = R!CPUs /\ Slots = R!Slots
    BY DEF CPUs, R!CPUs, Slots, R!Slots
<1> DEFINE SameCall(d) == pc[d]' = "idle" <=> pc[d] = "idle"
           SameServed(d) == tgt[d] \in CPUs \ {d} => (Served(d)' <=> Served(d))
<1>b. ASSUME UNCHANGED <<tgt, arg, ipi_ready, ran>>,
             \A d \in CPUs : SameCall(d) /\ SameServed(d)
      PROVE Same
    <2>1. \A d \in CPUs : InCall(d)' = InCall(d)
        BY <1>b DEF InCall
    <2>2. ASSUME NEW d \in CPUs PROVE Left(d)' = Left(d)
        BY <1>b, Zenon DEF Left
    <2> QED
        BY <1>b, <2>1, <2>2
<1>1. ASSUME NEW c \in CPUs, LockMailbox(c) PROVE Same
    <2>1. \A d \in CPUs : SameCall(d) /\ SameServed(d)
        BY <1>1 DEF LockMailbox, Goto, handler, TypeOK, Served
    <2> QED
        BY <1>1, <1>b, <2>1 DEF LockMailbox, shared, caller, handler
<1>2. ASSUME NEW c \in CPUs, ClearDone(c) PROVE Same
    <2>0. \A d \in CPUs : pc[d] \in Holding /\ tgt[d] = tgt[c] => d = c
        BY <1>2, OneCallerPerTarget DEF ClearDone, Goto, Holding
    <2>1. \A d \in CPUs : SameCall(d) /\ SameServed(d)
        BY <1>2, <2>0 DEF ClearDone, Goto, handler, TypeOK, Served, Holding
    <2> QED
        BY <1>2, <1>b, <2>1 DEF ClearDone, shared, caller, handler
<1>3. ASSUME NEW c \in CPUs, MailboxWrite(c) PROVE Same
    <2>0. PICK s \in Slots : Goto(c, s, After(s, "send")) /\ UNCHANGED <<ipi_done, tgt, handler>>
        BY <1>3 DEF MailboxWrite
    <2>a. s \in {"FN", "ARG0", "ARG1"} /\ After(s, "send") \in {"ARG0", "ARG1", "send"}
        BY DEF After, Slots
    <2>1. \A d \in CPUs : SameCall(d) /\ SameServed(d)
        BY <2>0, <2>a DEF Goto, handler, TypeOK, Served
    <2> QED
        BY <1>3, <1>b, <2>1 DEF MailboxWrite, shared, caller, handler
<1>4. ASSUME NEW c \in CPUs, IpiSend(c) PROVE Same
    <2>0. ~ipi_done[tgt[c]] /\ hpc[tgt[c]] = "none"
        BY <1>4, QuietBeforeSend DEF IpiSend, Goto, IpiInv, CallerInv, Holding, Waiting
    <2>1. \A d \in CPUs : SameCall(d) /\ SameServed(d)
        BY <1>4, <2>0 DEF IpiSend, Goto, shared, handler, TypeOK, Served
    <2> QED
        BY <1>4, <1>b, <2>1 DEF IpiSend, shared, caller, handler
<1>5. ASSUME NEW c \in CPUs, WaitDone(c) PROVE Same
    <2>1. \A d \in CPUs : SameCall(d) /\ SameServed(d)
        BY <1>5 DEF WaitDone, Goto, shared, handler, TypeOK, Served
    <2> QED
        BY <1>5, <1>b, <2>1 DEF WaitDone, shared, caller, handler
<1>6. ASSUME NEW c \in CPUs, WaitPoll(c) PROVE Same
    <2>0. ipi_pending[c] => hpc[c] = "none"
        BY <1>6 DEF WaitPoll, Goto, InCaller, IpiInv, TargetInv, CallerInv, InFlight, Reading
    <2>1. \A d \in CPUs : SameCall(d) /\ SameServed(d)
        BY <1>6, <2>0 DEF WaitPoll, Goto, shared, TypeOK, Served
    <2> QED
        BY <1>6, <1>b, <2>1 DEF WaitPoll, shared, caller, handler
<1>7. ASSUME NEW c \in CPUs, ClearFn(c) PROVE Same
    <2>1. \A d \in CPUs : SameCall(d) /\ SameServed(d)
        BY <1>7 DEF ClearFn, Goto, handler, TypeOK, Served
    <2> QED
        BY <1>7, <1>b, <2>1 DEF ClearFn, shared, caller, handler
<1>8. ASSUME NEW c \in CPUs, UnlockMailbox(c) PROVE Same
    <2>1. \A d \in CPUs \ {c} : Left(d)' = Left(d) /\ InCall(d)' = InCall(d)
        BY <1>8 DEF UnlockMailbox, Goto, handler, TypeOK, Left, InCall, Served
    <2>2. InCall(c)' = InCall(c)
        BY <1>8 DEF UnlockMailbox, Goto, TypeOK, InCall
    <2>3. /\ Left(c) = {t \in CPUs \ {c} : tgt[c] < t}
          /\ Left(c)' = {t \in CPUs \ {c} : tgt[c] + 1 < t \/ tgt[c] + 1 = t}
        BY <1>8 DEF UnlockMailbox, Goto, TypeOK, Left, Served
    <2>4. \A t \in CPUs : tgt[c] < t <=> tgt[c] + 1 < t \/ tgt[c] + 1 = t
        BY DEF TypeOK, CPUs
    <2>5. Left(c)' = Left(c)
        BY <2>3, <2>4, Zenon
    <2>6. UNCHANGED <<ipi_ready, ran>>
        BY <1>8 DEF UnlockMailbox, handler
    <2> QED
        BY <2>1, <2>2, <2>5, <2>6, Zenon
<1>9. ASSUME NEW c \in CPUs, StatusRead(c) PROVE Same
    <2>1. \A d \in CPUs : SameCall(d) /\ SameServed(d)
        BY <1>9 DEF StatusRead, HGoto, shared, caller, TypeOK, Served
    <2> QED
        BY <1>9, <1>b, <2>1 DEF StatusRead, shared, caller, handler
<1>10. ASSUME NEW c \in CPUs, StatusClear(c) PROVE Same
    <2>1. \A d \in CPUs : SameCall(d) /\ SameServed(d)
        BY <1>10 DEF StatusClear, HGoto, caller, TypeOK, Served
    <2> QED
        BY <1>10, <1>b, <2>1 DEF StatusClear, shared, caller, handler
<1>11. ASSUME NEW c \in CPUs, MailboxRead(c) PROVE Same
    <2>0. PICK s \in Slots : HGoto(c, s, After(s, "exec")) /\ UNCHANGED <<shared, caller>>
        BY <1>11 DEF MailboxRead
    <2>a. /\ s \notin {"fn", "stuck", "ack"}
          /\ After(s, "exec") \notin {"fn", "stuck", "ack"}
        BY DEF After, Slots
    <2>1. \A d \in CPUs : SameCall(d) /\ SameServed(d)
        BY <2>0, <2>a DEF HGoto, shared, caller, TypeOK, Served
    <2> QED
        BY <1>11, <1>b, <2>1 DEF MailboxRead, shared, caller, handler
<1>12. ASSUME NEW c \in CPUs, Ack(c) PROVE Same
    <2>1. \A d \in CPUs : SameCall(d) /\ SameServed(d)
        BY <1>12 DEF Ack, HGoto, caller, TypeOK, Served
    <2> QED
        BY <1>12, <1>b, <2>1 DEF Ack, shared, caller, handler
<1>13. ASSUME NEW c \in CPUs, SecondaryStart(c) PROVE R!Next
    <2>1. R!Online(c)
        BY <1>13 DEF SecondaryStart, shared, caller, handler, R!Online, Left, InCall, Served
    <2> QED
        BY <2>1, <1>a DEF R!Next
<1>14. ASSUME NEW c \in CPUs, NEW v \in Calls, GroupCall(c, v) PROVE R!Next
    <2> USE <1>14 DEF GroupCall, Goto, shared, handler, TypeOK
    <2>1. InCall(c) = Nil /\ \A d \in CPUs : InCall(d)' = IF d = c THEN v ELSE InCall(d)
        BY DEF InCall
    <2>2. \A d \in CPUs \ {c} : Left(d)' = Left(d)
        BY DEF Left, Served
    <2>3. Left(c)' = CPUs \ {c}
        <3>1. pc'[c] = "loop" /\ tgt'[c] = 0 /\ ~Served(c)'
            BY DEF Served
        <3>2. \A t \in CPUs : 0 < t \/ 0 = t
            BY DEF CPUs
        <3> QED
            BY <3>1, <3>2 DEF Left
    <2>c. [d \in CPUs |-> InCall(d)]' = [[d \in CPUs |-> InCall(d)] EXCEPT ![c] = v]
        BY <2>1, Zenon
    <2>l. [d \in CPUs |-> Left(d)]' = [[d \in CPUs |-> Left(d)] EXCEPT ![c] = CPUs \ {c}]
        BY <2>2, <2>3, Zenon
    <2>4. R!Begin(c, v)
        BY <2>1, <2>c, <2>l, <1>a DEF R!Begin
    <2> QED
        BY <2>4, <1>a DEF R!Next
<1>15. ASSUME NEW c \in CPUs, SkipTarget(c) PROVE Same \/ R!Next
    <2> USE <1>15 DEF SkipTarget, Goto, shared, handler, TypeOK
    <2>1. \A d \in CPUs : InCall(d)' = InCall(d)
        BY DEF InCall
    <2>2. \A d \in CPUs \ {c} : Left(d)' = Left(d)
        BY DEF Left, Served
    <2>3. Left(c)' = Left(c) \ {tgt[c]}
        <3>1. pc[c] = "loop" /\ pc'[c] = "loop" /\ tgt'[c] = tgt[c] + 1 /\ ~Served(c) /\ ~Served(c)'
            BY DEF Served
        <3>2. \A t \in CPUs : /\ tgt[c] < t <=> tgt[c] + 1 < t \/ tgt[c] + 1 = t
                              /\ ~(tgt[c] < tgt[c])
            BY DEF CPUs
        <3> QED
            BY <3>1, <3>2 DEF Left
    <2>c. [d \in CPUs |-> InCall(d)]' = [d \in CPUs |-> InCall(d)]
        BY <2>1
    <2>l. [d \in CPUs |-> Left(d)]' = [[d \in CPUs |-> Left(d)] EXCEPT ![c] = Left(c) \ {tgt[c]}]
        BY <2>2, <2>3, Zenon
    <2>4. CASE tgt[c] = c
        <3>1. Left(c)' = Left(c)
            BY <2>3, <2>4 DEF Left
        <3> QED
            BY <2>1, <2>2, <3>1
    <2>5. CASE tgt[c] \notin ipi_ready /\ tgt[c] # c
        <3>1. tgt[c] \in Left(c)
            BY <2>5 DEF Left, Served
        <3>2. R!Skip(c, tgt[c])
            BY <2>c, <2>l, <2>5, <3>1 DEF R!Skip
        <3> QED
            BY <3>2, <1>a DEF R!Next
    <2> QED
        BY <2>4, <2>5
<1>16. ASSUME NEW c \in CPUs, Return(c) PROVE R!Next
    <2> USE <1>16 DEF Return, Goto, shared, TypeOK
    <2>1. InCall(c) # Nil /\ \A d \in CPUs : InCall(d)' = IF d = c THEN Nil ELSE InCall(d)
        BY DEF InCall, IpiInv, CallerInv
    <2>2. ASSUME NEW d \in CPUs \ {c} PROVE Left(d)' = Left(d)
        <3>1. tgt[d] \in CPUs => (Served(d)' <=> Served(d))
            BY DEF Served, InCaller
        <3>2. pc'[d] = pc[d] /\ tgt' = tgt
            OBVIOUS
        <3> HIDE <1>16 DEF Return, Goto, shared, TypeOK
        <3> QED
            BY <3>1, <3>2, Zenon DEF Left
    <2>3. Left(c) = {} /\ Left(c)' = {}
        <3>1. \A t \in CPUs : ~(tgt[c] < t) /\ tgt[c] # t
            BY DEF CPUs
        <3> QED
            BY <3>1 DEF Left
    <2>c. [d \in CPUs |-> InCall(d)]' = [[d \in CPUs |-> InCall(d)] EXCEPT ![c] = Nil]
        BY <2>1, Zenon
    <2>l. [d \in CPUs |-> Left(d)]' = [d \in CPUs |-> Left(d)]
        BY <2>2, <2>3, Zenon
    <2>4. R!End(c)
        BY <2>1, <2>3, <2>c, <2>l DEF R!End
    <2> QED
        BY <2>4, <1>a DEF R!Next
<1>17. ASSUME NEW c \in CPUs, Exec(c) PROVE R!Next
    <2> USE <1>17 DEF Exec, HGoto, shared, caller, TypeOK
    <2>1. PICK d \in CPUs : pc[d] \in Waiting /\ tgt[d] = c
        BY DEF IpiInv, TargetInv
    <2>2. d # c /\ arg[d] \in Calls /\ ~ipi_done[c] /\ got[c] = [s \in Slots |-> arg[d]]
        BY <2>1 DEF IpiInv, CallerInv, SlotsInv, InFlight, PastRead, Slots, Holding, Waiting
    <2>3. \A e \in CPUs : InCall(e)' = InCall(e)
        BY DEF InCall
    <2>4. ASSUME NEW e \in CPUs, e # d PROVE Left(e)' = Left(e)
        <3>1. pc[e] \in Waiting => tgt[e] # c
            BY <2>1, <2>4, OneCallerPerTarget DEF Waiting, Holding
        <3>2. Served(e)' <=> Served(e)
            BY <3>1 DEF Served, Waiting
        <3>3. pc' = pc /\ tgt' = tgt
            OBVIOUS
        <3> HIDE <1>17 DEF Exec, HGoto, shared, caller, TypeOK
        <3> QED
            BY <3>2, <3>3, Zenon DEF Left
    <2>5. c \in Left(d) /\ Left(d)' = Left(d) \ {c}
        <3>1. ~Served(d) /\ Served(d)' /\ pc[d] # "idle"
            BY <2>1, <2>2 DEF Served, Waiting
        <3>2. ~(c < c)
            BY DEF CPUs
        <3> QED
            BY <2>1, <2>2, <3>1, <3>2 DEF Left
    <2>6. InCall(d) = arg[d]
        BY <2>1 DEF InCall, Waiting
    <2>7. ran' = [ran EXCEPT ![c] = [given |-> [s \in Slots |-> arg[d]], odd |-> ~ran[c].odd]]
        <3>1. got[c]["FN"] # Nil
            BY <2>2 DEF Slots
        <3> QED
            BY <2>2, <3>1, Zenon
    <2>c. [e \in CPUs |-> InCall(e)]' = [e \in CPUs |-> InCall(e)]
        BY <2>3
    <2>l. [e \in CPUs |-> Left(e)]' = [[e \in CPUs |-> Left(e)] EXCEPT ![d] = Left(d) \ {c}]
        BY <2>4, <2>5, Zenon
    <2>8. ipi_ready' = ipi_ready /\ [s \in Slots |-> arg[d]] = [s \in R!Slots |-> InCall(d)]
        BY <2>6, <1>a
    <2> HIDE <1>17 DEF Exec, HGoto, shared, caller, TypeOK
    <2>9. R!Run(d, c)
        BY <2>5, <2>6, <2>7, <2>8, <2>c, <2>l, Zenon DEF R!Run
    <2> QED
        BY <2>1, <2>9, <1>a DEF R!Next
<1>18. CASE UNCHANGED vars
    BY <1>18 DEF vars, shared, caller, handler, Left, InCall, Served, R!rvars
<1> QED
    BY <1>0, <1>1, <1>2, <1>3, <1>4, <1>5, <1>6, <1>7, <1>8, <1>9, <1>10, <1>11, <1>12, <1>13, <1>14, <1>15, <1>16, <1>17, <1>18 DEF Next, CallerStep, HandlerStep

\* smp_group_function_call, as kern/smp.c implements it with plain loads and
\* stores, keeps the promise of module RemoteCall for every number of CPUs: each
\* function that a handler runs is the next one that its CPU still owes a caller.
THEOREM IpiRefinesRemoteCall == Spec => ImplementsRemoteCall
<1>1. Init => R!Init
    BY IpiAssumption DEF Init, NoSlots, R!Init, R!CPUs, R!Slots, CPUs, Slots, InCall, Left
<1> QED
    BY <1>1, StepRefines, IpiInvariant, PTL DEF Spec, ImplementsRemoteCall, R!Spec
==============================================================================
