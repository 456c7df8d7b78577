--------------------------------- MODULE Ipi ---------------------------------
(***************************************************************************)
(* The inter-processor calls of kern/smp.c, in the default build           *)
(* (SMP_USE_MMIO_IPI = 0): a pending word and a three-slot mailbox per     *)
(* CPU in shared memory, polled by the target.  One action per access to   *)
(* shared memory.  Interrupts are off while the kernel runs                *)
(* (exc_gen_entry clears IE), so a CPU takes calls only where it polls:    *)
(* outside the kernel's group calls (timer interrupt, schedule, the idle   *)
(* and destroy loops) and in ipi_wait_done.                                *)
(*                                                                         *)
(* Each CPU has two frames: the caller's (pc, inside                       *)
(* smp_group_function_call) and the handler's (hpc, inside                 *)
(* handle_ipi_irq); the handler runs on top of the caller, except that a   *)
(* function that makes a call of its own (as tests/lab6_3 does) puts a     *)
(* caller frame on top of the handler ("fn").  Such a function taken in    *)
(* ipi_wait_done would spin on the mailbox lock its own CPU holds: "stuck".*)
(***************************************************************************)
EXTENDS Naturals

CONSTANTS NR_CPUS,   \* number of processors
          Calls,     \* the (function, arg0, arg1) triples that are passed
          Nesting,   \* the calls whose function makes a group call itself
          Base,      \* Base[c]: the calls CPU c makes outside a handler
          Inner,     \* the calls that the function of a nesting call makes
          Nil,       \* the null function pointer
          NoCPU      \* "mailbox lock is free"

CPUs == 0..(NR_CPUS - 1)
Slots == {"FN", "ARG0", "ARG1"}

ASSUME IpiAssumption == /\ NR_CPUS \in Nat \ {0}
                        /\ Nil \notin Calls
                        /\ NoCPU \notin CPUs
                        /\ Nesting \subseteq Calls
                        /\ Base \in [CPUs -> SUBSET Calls]
                        /\ Inner \subseteq Calls

VARIABLES ipi_ready,         \* set of the CPUs whose ipi_ready[] is 1
          ipi_done,          \* ipi_done[c]
          ipi_pending,       \* IPI_CALL bit of ipi_pending[c]
          ipi_mailbox,       \* ipi_mailbox[c][slot]: the slot's part of a call
          ipi_mailbox_lock,  \* holder of ipi_mailbox_lock[c] (module Mutex)
          pc, tgt, arg,      \* caller frame: place, loop variable cpu, the call
          hpc, got,          \* handler frame: place, slots read so far
          ran                \* ran[c]: the slots the last function on c was given, and
                             \* whether the number of functions run on c is odd

shared == <<ipi_ready, ipi_done, ipi_pending, ipi_mailbox, ipi_mailbox_lock>>
caller == <<pc, tgt, arg>>
handler == <<hpc, got, ran>>
vars == <<shared, caller, handler>>

NoSlots == [s \in Slots |-> Nil]

\* smp_init, run by CPU 0; the other CPUs wait for smp_boot_ready.
Init == /\ ipi_ready = {0}
        /\ ipi_done = [c \in CPUs |-> TRUE]
        /\ ipi_pending = [c \in CPUs |-> FALSE]
        /\ ipi_mailbox = [c \in CPUs |-> NoSlots]
        /\ ipi_mailbox_lock = [c \in CPUs |-> NoCPU]
        /\ pc = [c \in CPUs |-> "idle"]
        /\ tgt = [c \in CPUs |-> 0]
        /\ arg = [c \in CPUs |-> Nil]
        /\ hpc = [c \in CPUs |-> "none"]
        /\ got = [c \in CPUs |-> NoSlots]
        /\ ran = [c \in CPUs |-> [given |-> NoSlots, odd |-> FALSE]]

------------------------------------------------------------------------------
(* The caller: smp_group_function_call. *)

\* The CPU executes its caller frame: no handler frame on top of it.
InCaller(c) == hpc[c] \in {"none", "fn"}

Goto(c, from, to) == /\ InCaller(c)
                     /\ pc[c] = from
                     /\ pc' = [pc EXCEPT ![c] = to]

\* smp_secondary_start: ipi_ready[cpu] = 1.
SecondaryStart(c) == /\ c \notin ipi_ready
                     /\ ipi_ready' = ipi_ready \cup {c}
                     /\ UNCHANGED <<ipi_done, ipi_pending, ipi_mailbox, ipi_mailbox_lock,
                                    caller, handler>>

\* Entry, outside a handler or from the function that a handler runs.  The
\* call is the workload's; with fn == 0 the code returns at once.
GroupCall(c, v) == /\ c \in ipi_ready
                   /\ v \in IF hpc[c] = "fn" THEN Inner ELSE Base[c]
                   /\ Goto(c, "idle", "loop")
                   /\ tgt' = [tgt EXCEPT ![c] = 0]
                   /\ arg' = [arg EXCEPT ![c] = v]
                   /\ UNCHANGED <<shared, handler>>

\* Mutant: the loop test is cpu <= NR_CPUS.
SkipOneTooMany(c) == /\ tgt[c] \in 0..NR_CPUS
                     /\ tgt[c] = c \/ tgt[c] \notin ipi_ready
                     /\ Goto(c, "loop", "loop")
                     /\ tgt' = [tgt EXCEPT ![c] = @ + 1]
                     /\ UNCHANGED <<shared, arg, handler>>

\* if (cpu == self || !ipi_ready[cpu]) continue;
SkipTarget(c) == /\ tgt[c] \in CPUs
                 /\ tgt[c] = c \/ tgt[c] \notin ipi_ready
                 /\ Goto(c, "loop", "loop")
                 /\ tgt' = [tgt EXCEPT ![c] = @ + 1]
                 /\ UNCHANGED <<shared, arg, handler>>

\* spin_lock(&ipi_mailbox_lock[cpu]): no polling while it spins.
LockMailbox(c) == /\ tgt[c] \in ipi_ready \ {c}
                  /\ ipi_mailbox_lock[tgt[c]] = NoCPU
                  /\ Goto(c, "loop", "clear")
                  /\ ipi_mailbox_lock' = [ipi_mailbox_lock EXCEPT ![tgt[c]] = c]
                  /\ UNCHANGED <<ipi_ready, ipi_done, ipi_pending, ipi_mailbox, tgt, arg, handler>>

\* Mutant: the acknowledgement of the previous call is not reset.
KeepDone(c) == /\ Goto(c, "clear", "FN")
               /\ UNCHANGED <<shared, tgt, arg, handler>>

\* ipi_done[cpu] = 0;
ClearDone(c) == /\ Goto(c, "clear", "FN")
                /\ ipi_done' = [ipi_done EXCEPT ![tgt[c]] = FALSE]
                /\ UNCHANGED <<ipi_ready, ipi_pending, ipi_mailbox, ipi_mailbox_lock,
                               tgt, arg, handler>>

\* The slot after s, or the place after the last one.
After(s, last) == CASE s = "FN" -> "ARG0" [] s = "ARG0" -> "ARG1" [] s = "ARG1" -> last

\* ipi_mailbox_write(cpu, slot, ...), FN first, then ARG0, then ARG1.
MailboxWrite(c) == \E s \in Slots :
    /\ Goto(c, s, After(s, "send"))
    /\ ipi_mailbox' = [ipi_mailbox EXCEPT ![tgt[c]][s] = arg[c]]
    /\ UNCHANGED <<ipi_ready, ipi_done, ipi_pending, ipi_mailbox_lock, tgt, arg, handler>>

\* ipi_send(cpu, IPI_CALL).  Its |= is a load and a store, but IPI_CALL is the only
\* signal that is ever sent: the store writes the same bit whatever was loaded.
IpiSend(c) == /\ Goto(c, "send", "wait")
              /\ ipi_pending' = [ipi_pending EXCEPT ![tgt[c]] = TRUE]
              /\ UNCHANGED <<ipi_ready, ipi_done, ipi_mailbox, ipi_mailbox_lock,
                             tgt, arg, handler>>

\* ipi_wait_done: the loop test, while (!ipi_done[cpu]) ...
WaitDone(c) == /\ Goto(c, "wait", IF ipi_done[tgt[c]] THEN "clearfn" ELSE "poll")
               /\ UNCHANGED <<shared, tgt, arg, handler>>

\* Mutant: ipi_wait_done only waits.
WaitNoPoll(c) == /\ Goto(c, "poll", "wait")
                 /\ UNCHANGED <<shared, tgt, arg, handler>>

\* ... and its body: if (ipi_status_read(self) != 0) handle_ipi_irq();
WaitPoll(c) == /\ Goto(c, "poll", "wait")
               /\ hpc' = [hpc EXCEPT ![c] = IF ipi_pending[c] THEN "clear" ELSE @]
               /\ UNCHANGED <<shared, tgt, arg, got, ran>>

\* ipi_mailbox_write(cpu, IPI_MBOX_FN, 0);
ClearFn(c) == /\ Goto(c, "clearfn", "unlock")
              /\ ipi_mailbox' = [ipi_mailbox EXCEPT ![tgt[c]]["FN"] = Nil]
              /\ UNCHANGED <<ipi_ready, ipi_done, ipi_pending, ipi_mailbox_lock,
                             tgt, arg, handler>>

\* spin_unlock(&ipi_mailbox_lock[cpu]); and the loop's cpu++.
UnlockMailbox(c) == /\ Goto(c, "unlock", "loop")
                    /\ ipi_mailbox_lock' = [ipi_mailbox_lock EXCEPT ![tgt[c]] = NoCPU]
                    /\ tgt' = [tgt EXCEPT ![c] = @ + 1]
                    /\ UNCHANGED <<ipi_ready, ipi_done, ipi_pending, ipi_mailbox, arg, handler>>

\* The loop is over; a call made by a handler's function goes back into it.
Return(c) == /\ tgt[c] = NR_CPUS
             /\ Goto(c, "loop", "idle")
             /\ hpc' = [hpc EXCEPT ![c] = IF @ = "fn" THEN "ack" ELSE @]
             /\ UNCHANGED <<shared, tgt, arg, got, ran>>

CallerStep(c) == \/ SkipTarget(c) \/ LockMailbox(c) \/ ClearDone(c) \/ MailboxWrite(c)
                 \/ IpiSend(c) \/ WaitDone(c) \/ WaitPoll(c) \/ ClearFn(c)
                 \/ UnlockMailbox(c) \/ Return(c)

------------------------------------------------------------------------------
(* The target: handle_ipi_irq. *)

HGoto(c, from, to) == /\ hpc[c] = from
                      /\ hpc' = [hpc EXCEPT ![c] = to]

\* handle_ipi_irq called by the timer interrupt, schedule or an idle loop;
\* status = ipi_status_read(cpu), and if it is 0 it returns at once.
StatusRead(c) == /\ pc[c] = "idle"
                 /\ ipi_pending[c]
                 /\ HGoto(c, "none", "clear")
                 /\ UNCHANGED <<shared, caller, got, ran>>

\* Mutant: the pending bit is not cleared.
StatusKept(c) == /\ HGoto(c, "clear", "FN")
                 /\ UNCHANGED <<shared, caller, got, ran>>

\* ipi_status_clear(cpu, status): here too the &= stores a constant bit, and a
\* call posted since ipi_status_read is lost.
StatusClear(c) == /\ HGoto(c, "clear", "FN")
                  /\ ipi_pending' = [ipi_pending EXCEPT ![c] = FALSE]
                  /\ UNCHANGED <<ipi_ready, ipi_done, ipi_mailbox, ipi_mailbox_lock,
                                 caller, got, ran>>

\* ipi_mailbox_read(cpu, slot), FN first, then ARG0, then ARG1.
MailboxRead(c) == \E s \in Slots :
    /\ HGoto(c, s, After(s, "exec"))
    /\ got' = [got EXCEPT ![c][s] = ipi_mailbox[c][s]]
    /\ UNCHANGED <<shared, caller, ran>>

\* if (fn != 0) fn(arg0, arg1);
Exec(c) == /\ HGoto(c, "exec", IF got[c]["FN"] \notin Nesting THEN "ack"
                               ELSE IF pc[c] = "idle" THEN "fn" ELSE "stuck")
           /\ ran' = IF got[c]["FN"] = Nil THEN ran
                     ELSE [ran EXCEPT ![c] = [given |-> got[c], odd |-> ~ran[c].odd]]
           /\ UNCHANGED <<shared, caller, got>>

\* ipi_done[cpu] = 1;
Ack(c) == /\ HGoto(c, "ack", "none")
          /\ ipi_done' = [ipi_done EXCEPT ![c] = TRUE]
          /\ UNCHANGED <<ipi_ready, ipi_pending, ipi_mailbox, ipi_mailbox_lock,
                         caller, got, ran>>

HandlerStep(c) == StatusClear(c) \/ MailboxRead(c) \/ Exec(c) \/ Ack(c)
------------------------------------------------------------------------------
Next == \E c \in CPUs : \/ SecondaryStart(c)
                        \/ \E v \in Calls : GroupCall(c, v)
                        \/ CallerStep(c)
                        \/ StatusRead(c)
                        \/ HandlerStep(c)

Spec == Init /\ [][Next]_vars

(***************************************************************************)
(* Fairness.  A CPU that is inside smp_group_function_call or              *)
(* handle_ipi_irq executes its next instruction.  A CPU that keeps coming  *)
(* back to a polling place takes a pending call: the timer interrupt stays *)
(* raised while IE is off and is taken on the way back to user mode, and   *)
(* both handle_timer_irq and schedule poll.  A lock is only fair to its    *)
(* waiters in the sense of Spinlock: nothing here favours one of them.     *)
(***************************************************************************)
Fairness == \A c \in CPUs : /\ WF_vars(CallerStep(c))
                            /\ WF_vars(HandlerStep(c))
                            /\ WF_vars(hpc[c] = "fn" /\ \E v \in Calls : GroupCall(c, v))
                            /\ SF_vars(StatusRead(c))

FairSpec == Spec /\ Fairness
------------------------------------------------------------------------------
(* Properties. *)

Holding == {"clear", "FN", "ARG0", "ARG1", "send", "wait", "poll", "clearfn", "unlock"}
Reading == {"FN", "ARG0", "ARG1", "exec", "fn", "stuck", "ack"}

\* The variables have their types; in particular the loop variable of
\* smp_group_function_call never passes NR_CPUS (smp.c, lines 228-229).
TypeOK == /\ ipi_ready \in SUBSET CPUs
          /\ ipi_done \in [CPUs -> BOOLEAN]
          /\ ipi_pending \in [CPUs -> BOOLEAN]
          /\ ipi_mailbox \in [CPUs -> [Slots -> Calls \cup {Nil}]]
          /\ ipi_mailbox_lock \in [CPUs -> CPUs \cup {NoCPU}]
          /\ pc \in [CPUs -> {"idle", "loop"} \cup Holding]
          /\ tgt \in [CPUs -> 0..NR_CPUS]
          /\ arg \in [CPUs -> Calls \cup {Nil}]
          /\ hpc \in [CPUs -> {"none", "clear"} \cup Reading]
          /\ got \in [CPUs -> [Slots -> Calls \cup {Nil}]]
          /\ ran \in [CPUs -> [given : [Slots -> Calls \cup {Nil}], odd : BOOLEAN]]

\* A CPU works on one call at a time: nobody is about to post a call to a CPU
\* that is in handle_ipi_irq, so that ipi_status_clear never erases one, and no
\* call is pending from the clear on, so that the handler never runs on top of
\* itself, even when its function makes a call and polls in ipi_wait_done.
OneCallAtATime == \A c \in CPUs :
    /\ hpc[c] # "none" => \A d \in CPUs : ~(pc[d] = "send" /\ tgt[d] = c)
    /\ hpc[c] \in Reading => ~ipi_pending[c]

Waiting == {"wait", "poll"}

\* The caller's places at which it has written slot s, and the handler's at
\* which it has read it.
PastWrite(s) == Waiting \cup {"send"} \cup (CASE s = "FN" -> {"ARG0", "ARG1"}
                                             [] s = "ARG0" -> {"ARG1"}
                                             [] s = "ARG1" -> {})
PastRead(s) == {"exec", "fn", "stuck", "ack"} \cup (CASE s = "FN" -> {"ARG0", "ARG1"}
                                                     [] s = "ARG0" -> {"ARG1"}
                                                     [] s = "ARG1" -> {})

\* A mailbox lock is held by the one CPU whose caller frame is at that target.
LockOwner == \A c, t \in CPUs :
    ipi_mailbox_lock[t] = c <=> pc[c] \in Holding /\ tgt[c] = t /\ t # c

\* The call that some CPU waits for t to run: posted and not taken, taken and
\* not acknowledged, or acknowledged.
InFlight(t) == \/ ipi_pending[t] /\ hpc[t] \in {"none", "clear"} /\ ~ipi_done[t]
               \/ ~ipi_pending[t] /\ hpc[t] \in Reading /\ ~ipi_done[t]
               \/ ~ipi_pending[t] /\ hpc[t] = "none" /\ ipi_done[t]

CallerInv(c) == /\ pc[c] # "idle" => arg[c] \in Calls
                /\ pc[c] \in Holding => tgt[c] \in CPUs \ {c}
                /\ pc[c] \in {"FN", "ARG0", "ARG1", "send"} => ~ipi_done[tgt[c]]
                /\ pc[c] \in Waiting => InFlight(tgt[c])

SlotsInv(c) == \A s \in Slots :
    /\ pc[c] \in PastWrite(s) => ipi_mailbox[tgt[c]][s] = arg[c]
    /\ pc[c] \in Waiting /\ hpc[tgt[c]] \in PastRead(s) => got[tgt[c]][s] = arg[c]

TargetInv(t) == hpc[t] # "none" \/ ipi_pending[t]
                   => \E c \in CPUs : pc[c] \in Waiting /\ tgt[c] = t

\* The protocol between a caller and its target, and between callers: the
\* mailbox lock, held until the target has acknowledged, is what makes the
\* plain stores to pending, done and mailbox words of kern/smp.c safe.
IpiInv == LockOwner /\ \A c \in CPUs : CallerInv(c) /\ SlotsInv(c) /\ TargetInv(c)

\* The function that the caller waits for has been run or is still to come.
Served(c) == \/ pc[c] \in {"clearfn", "unlock"}
             \/ /\ pc[c] \in {"wait", "poll"}
                /\ ipi_done[tgt[c]] \/ hpc[tgt[c]] \in {"fn", "stuck", "ack"}

InCall(c) == IF pc[c] = "idle" THEN Nil ELSE arg[c]

Left(c) == IF pc[c] = "idle" THEN {}
           ELSE {t \in CPUs \ {c} : tgt[c] < t \/ (tgt[c] = t /\ ~Served(c))}

R == INSTANCE RemoteCall WITH online <- ipi_ready,
                              call <- [c \in CPUs |-> InCall(c)],
                              left <- [c \in CPUs |-> Left(c)],
                              ran <- ran

\* smp_group_function_call keeps the promise of module RemoteCall: when it
\* returns, every CPU that was ready has run the function exactly once, with
\* function and arguments of this call and not of a mixture of two, and
\* handle_ipi_irq runs no function at any other time (ran changes with each).
ImplementsRemoteCall == R!Spec

\* Every group call returns: CPUs that call each other, or call back from a
\* handler, do not wait for each other for ever (ipi_wait_done polls).
CallReturns == \A c \in CPUs : pc[c] # "idle" ~> pc[c] = "idle"
==============================================================================
