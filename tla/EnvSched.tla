------------------------------- MODULE EnvSched ------------------------------
(***************************************************************************)
(* Environments and their scheduling on several CPUs: kern/sched.c,        *)
(* kern/env.c and the system calls of kern/syscall_all.c that create,      *)
(* start, block, wake and destroy an env.                                  *)
(*                                                                         *)
(* A section under env_sched_lock is one step (module Spinlock); what the  *)
(* code does outside the lock is a step of its own.  Interrupts are off in *)
(* the kernel, so a CPU is preempted only in user mode ("user").  A group  *)
(* call (the TLB shootdowns of env_free, the poke of env_destroy) returns  *)
(* (module Ipi) and changes nothing here: it is the delay before the next  *)
(* step of the CPU that makes it.  A failing envid2env returns to the user *)
(* with nothing changed and is left out.                                   *)
(*                                                                         *)
(* TAILQ_REMOVE and LIST_REMOVE take one occurrence out of a list.  Of an  *)
(* env that is not linked they would leave the list undefined, and so      *)
(* would a LIST_REMOVE of env_alloc, which holds no lock, that meets       *)
(* another access to env_free_list.  No run goes on from there: its        *)
(* workload excludes it, or TLC has stopped at QueueExact before.          *)
(***************************************************************************)
EXTENDS Naturals, Sequences, FiniteSets, SequencesExt

CONSTANTS NR_CPUS, NENV,
          NBoot,    \* the number of envs created at boot: 1..NBoot
          Pinned,   \* Pinned[e]: env_pinned_cpu of boot env e
          Pri,      \* Pri[e]: env_pri of boot env e
          Ops,      \* Ops[e]: the system calls that env e makes
          MaxId,    \* bound on the env_ids that mkenvid hands out
          NoCPU, NoEnv

CPUs == 0..(NR_CPUS - 1)
Envs == 1..NENV
OpNames == {"yield", "exofork", "start", "setstatus", "destroy", "recv", "send"}

ASSUME EnvSchedAssumption ==
    /\ NR_CPUS \in Nat \ {0} /\ NENV \in Nat /\ NBoot \in 1..NENV /\ MaxId \in Nat
    /\ NoCPU \notin CPUs /\ NoEnv \notin Envs
    /\ Pinned \in [Envs -> CPUs \cup {NoCPU}]
    /\ Pri \in [Envs -> Nat \ {0}]
    /\ Ops \in [Envs -> SUBSET OpNames]

VARIABLES envs,             \* struct Env envs[NENV]
          env_sched_list,   \* TAILQ of envs
          env_free_list,    \* LIST of envs
          cpu,              \* cpu_data[], and each CPU's place in the kernel
          next_id,          \* static i of mkenvid
          timer_schedule_ready

lists == <<env_sched_list, env_free_list>>
vars == <<envs, lists, cpu, next_id, timer_schedule_ready>>

\* struct Env: env_tf is "saved" when it holds the env's latest context and
\* "stale" while that is in the registers or on the kernel stack of a CPU;
\* vm tells whether the address space is there; env_runs only whether it ever ran.
Booted(e) == [status |-> "RUNNABLE", running |-> FALSE, cpu_id |-> NoCPU,
              pinned_cpu |-> Pinned[e], kill_pending |-> FALSE, kill_done |-> FALSE,
              ipc_recving |-> FALSE, ipc_from |-> 0, id |-> e, parent_id |-> 0,
              pri |-> Pri[e], runs |-> FALSE, tf |-> "saved", vm |-> TRUE]

Unused == [status |-> "FREE", running |-> FALSE, cpu_id |-> NoCPU,
           pinned_cpu |-> NoCPU, kill_pending |-> FALSE, kill_done |-> FALSE,
           ipc_recving |-> FALSE, ipc_from |-> 0, id |-> 0, parent_id |-> 0,
           pri |-> 1, runs |-> FALSE, tf |-> "saved", vm |-> FALSE]

\* env_init, which puts the envs on the free list in order, and the ENV_CREATEs
\* of mips_init, which insert at the head of env_sched_list; CPU 0 enters
\* schedule(0), the others wait in smp_secondary_start for timer_schedule_ready.
Init == /\ envs = [e \in Envs |-> IF e <= NBoot THEN Booted(e) ELSE Unused]
        /\ env_sched_list = [i \in 1..NBoot |-> NBoot + 1 - i]
        /\ env_free_list = [i \in 1..(NENV - NBoot) |-> NBoot + i]
        /\ cpu = [c \in CPUs |-> [pc |-> IF c = 0 THEN "enter" ELSE "boot", curenv |-> NoEnv,
                                  count |-> 0, yield |-> FALSE, e |-> NoEnv, id |-> 0]]
        /\ next_id = NBoot
        /\ timer_schedule_ready = FALSE

\* smp_secondary_start: while (!timer_schedule_ready) ...; schedule(0);
SecondarySchedule(c) == /\ cpu[c].pc = "boot"
                        /\ timer_schedule_ready
                        /\ cpu' = [cpu EXCEPT ![c].pc = "enter"]
                        /\ UNCHANGED <<envs, lists, next_id, timer_schedule_ready>>
------------------------------------------------------------------------------
(* schedule *)

\* The CPU enters schedule(y).
EnterSchedule(c, y) == cpu' = [cpu EXCEPT ![c].pc = "enter", ![c].yield = y]

\* handle_timer_irq in user mode: schedule(0).
TimerIrq(c) == /\ cpu[c].pc = "user"
               /\ EnterSchedule(c, FALSE)
               /\ UNCHANGED <<envs, lists, next_id, timer_schedule_ready>>

\* handle_ipi_irq(); env_check_kill_pending(); smp_note_schedule_ready();
CheckKillPending(c) ==
    LET e == cpu[c].curenv
        killed == e # NoEnv /\ envs[e].kill_pending
    IN /\ cpu[c].pc = "enter"
       /\ cpu' = IF killed THEN [cpu EXCEPT ![c].pc = "free", ![c].e = e]
                 ELSE [cpu EXCEPT ![c].pc = "lock"]
       /\ timer_schedule_ready' = (timer_schedule_ready \/ (c = 0 /\ ~killed))
       /\ UNCHANGED <<envs, lists, next_id>>

\* Mutant: an env that runs on another CPU is not skipped.
EligibleIfRunning(env, c) == env.pinned_cpu \in {NoCPU, c} /\ ~env.kill_pending

Eligible(env, c) == /\ env.pinned_cpu \in {NoCPU, c}
                    /\ ~env.kill_pending
                    /\ ~env.running \/ env.cpu_id = c

\* The while (1) loop, up to the unlock on either way out: take the first
\* env that this CPU may run, or release the lock and go idle.
PickNext(c, es, list) ==
    LET able == SelectSeq(list, LAMBDA e : Eligible(es[e], c))
        e == Head(able)
    IN /\ env_sched_list' = list
       /\ IF able = <<>>
          THEN /\ envs' = es
               /\ cpu' = [cpu EXCEPT ![c].pc = "idle"]
          ELSE /\ envs' = [es EXCEPT ![e].running = TRUE, ![e].cpu_id = c]
               /\ cpu' = [cpu EXCEPT ![c].pc = "run", ![c].e = e, ![c].count = es[e].pri - 1]

\* Mutant: the time slice is not looked at.
MustSwitchNoCount(c) == LET e == cpu[c].curenv
                        IN \/ cpu[c].yield \/ e = NoEnv
                           \/ e # NoEnv /\ envs[e].status # "RUNNABLE"

MustSwitch(c) == LET e == cpu[c].curenv
                 IN \/ cpu[c].yield \/ cpu[c].count = 0 \/ e = NoEnv
                    \/ e # NoEnv /\ envs[e].status # "RUNNABLE"

\* Mutant: the old env is not moved to the tail.
SwitchKeepsPlace(c) ==
    LET e == cpu[c].curenv
    IN /\ cpu[c].pc = "lock"
       /\ MustSwitch(c)
       /\ PickNext(c, IF e = NoEnv THEN envs
                      ELSE [envs EXCEPT ![e].running = FALSE, ![e].cpu_id = NoCPU],
                   env_sched_list)
       /\ UNCHANGED <<env_free_list, next_id, timer_schedule_ready>>

\* Mutant: the old env is inserted at the tail without being removed first.
SwitchInsertsOnly(c) ==
    LET e == cpu[c].curenv
    IN /\ cpu[c].pc = "lock"
       /\ MustSwitch(c)
       /\ IF e = NoEnv THEN PickNext(c, envs, env_sched_list)
          ELSE PickNext(c, [envs EXCEPT ![e].running = FALSE, ![e].cpu_id = NoCPU],
                        Append(env_sched_list, e))
       /\ UNCHANGED <<env_free_list, next_id, timer_schedule_ready>>

\* The locked part of schedule when another env is to be picked.
Switch(c) ==
    LET e == cpu[c].curenv
    IN /\ cpu[c].pc = "lock"
       /\ MustSwitch(c)
       /\ IF e = NoEnv THEN PickNext(c, envs, env_sched_list)
          ELSE PickNext(c, [envs EXCEPT ![e].running = FALSE, ![e].cpu_id = NoCPU],
                        IF envs[e].status = "RUNNABLE"
                        THEN Append(RemoveFirst(env_sched_list, e), e) ELSE env_sched_list)
       /\ UNCHANGED <<env_free_list, next_id, timer_schedule_ready>>

\* The locked part of schedule when the env keeps its time slice.
KeepSlice(c) == /\ cpu[c].pc = "lock"
                /\ ~MustSwitch(c)
                /\ cpu' = [cpu EXCEPT ![c].pc = "run", ![c].e = cpu[c].curenv, ![c].count = @ - 1]
                /\ UNCHANGED <<envs, lists, next_id, timer_schedule_ready>>

\* The idle loop: unlock, handle_ipi_irq, lock, look again.
IdleRetry(c) == /\ cpu[c].pc = "idle"
                /\ PickNext(c, envs, env_sched_list)
                /\ UNCHANGED <<env_free_list, next_id, timer_schedule_ready>>

\* Mutant: the context of curenv is not saved.
EnvRunNoSave(c) == /\ cpu[c].pc = "run"
                   /\ cpu' = [cpu EXCEPT ![c].pc = "pop"]
                   /\ UNCHANGED <<envs, lists, next_id, timer_schedule_ready>>

\* env_run, no lock held: assert the status, save the context of curenv.
EnvRunSave(c) ==
    LET old == cpu[c].curenv
    IN /\ cpu[c].pc = "run"
       /\ IF envs[cpu[c].e].status = "RUNNABLE"
          THEN /\ cpu' = [cpu EXCEPT ![c].pc = "pop"]
               /\ envs' = IF old = NoEnv THEN envs ELSE [envs EXCEPT ![old].tf = "saved"]
          ELSE /\ cpu' = [cpu EXCEPT ![c].pc = "panic"]
               /\ UNCHANGED envs
       /\ UNCHANGED <<lists, next_id, timer_schedule_ready>>

\* env_run: curenv = e, env_runs++, and env_pop_tf into user mode.
EnvRunPop(c) == /\ cpu[c].pc = "pop"
                /\ cpu' = [cpu EXCEPT ![c].pc = "user", ![c].curenv = cpu[c].e]
                /\ envs' = [envs EXCEPT ![cpu[c].e].runs = TRUE, ![cpu[c].e].tf = "stale"]
                /\ UNCHANGED <<lists, next_id, timer_schedule_ready>>

ScheduleStep(c) == \/ SecondarySchedule(c) \/ CheckKillPending(c) \/ Switch(c) \/ KeepSlice(c)
                   \/ IdleRetry(c) \/ EnvRunSave(c) \/ EnvRunPop(c)
------------------------------------------------------------------------------
(* The system calls.  cpu[c].e is the struct Env * that the call works on. *)

\* The env on CPU c is in user mode and makes system call op.
Calls(c, op) == cpu[c].pc = "user" /\ op \in Ops[cpu[c].curenv]

\* envid2env(envid, &e, 1) succeeds: e is the caller or a child of it.
MayControl(c, e) == /\ envs[e].status # "FREE"
                    /\ e = cpu[c].curenv \/ envs[e].parent_id = envs[cpu[c].curenv].id

Goto(c, p) == cpu' = [cpu EXCEPT ![c].pc = p]
GotoWith(c, p, e) == cpu' = [cpu EXCEPT ![c].pc = p, ![c].e = e]

\* sys_yield
Yield(c) == /\ Calls(c, "yield")
            /\ EnterSchedule(c, TRUE)
            /\ UNCHANGED <<envs, lists, next_id, timer_schedule_ready>>

\* sys_exofork: env_alloc, no lock held, looks at the head of the free list ...
Exofork(c) == /\ Calls(c, "exofork")
              /\ env_free_list # <<>>
              /\ next_id < MaxId
              /\ GotoWith(c, "alloc", Head(env_free_list))
              /\ UNCHANGED <<envs, lists, next_id, timer_schedule_ready>>

\* ... sets up address space and fields, but not ipc_recving and kill_done ...
EnvAlloc(c) == /\ cpu[c].pc = "alloc"
               /\ envs' = [envs EXCEPT ![cpu[c].e] = [@ EXCEPT !.running = FALSE,
                              !.cpu_id = NoCPU, !.pinned_cpu = NoCPU, !.kill_pending = FALSE,
                              !.id = next_id + 1, !.parent_id = envs[cpu[c].curenv].id,
                              !.runs = FALSE, !.vm = TRUE]]
               /\ next_id' = next_id + 1
               /\ Goto(c, "take")
               /\ UNCHANGED <<lists, timer_schedule_ready>>

\* Mutant: the env stays on the free list.
TakeKeepsFree(c) == /\ cpu[c].pc = "take"
                    /\ Goto(c, "exofork")
                    /\ UNCHANGED <<envs, lists, next_id, timer_schedule_ready>>

\* ... and takes the env, which is ENV_FREE still, off the list.
TakeFree(c) == /\ cpu[c].pc = "take"
               /\ env_free_list' = RemoveFirst(env_free_list, cpu[c].e)
               /\ Goto(c, "exofork")
               /\ UNCHANGED <<envs, env_sched_list, next_id, timer_schedule_ready>>

\* sys_exofork, back from env_alloc: trap frame, status and priority of the child.
ExoforkChild(c) == /\ cpu[c].pc = "exofork"
                   /\ envs' = [envs EXCEPT ![cpu[c].e] = [@ EXCEPT !.tf = "saved",
                                  !.status = "NOT_RUNNABLE", !.pri = envs[cpu[c].curenv].pri]]
                   /\ Goto(c, "user")
                   /\ UNCHANGED <<lists, next_id, timer_schedule_ready>>

\* sys_set_env_status(envid, status), up to its lock: as fork and spawn call it,
\* once for a child that never ran, or with any legal arguments.
SetEnvStatus(c, e, status) ==
    /\ \/ /\ Calls(c, "start")
          /\ status = "RUNNABLE" /\ envs[e].status = "NOT_RUNNABLE" /\ ~envs[e].runs
       \/ Calls(c, "setstatus")
    /\ MayControl(c, e)
    /\ GotoWith(c, status, e)
    /\ UNCHANGED <<envs, lists, next_id, timer_schedule_ready>>

\* sys_set_env_status from its lock on; the place is the status asked for.
SetStatusLocked(c) ==
    LET e == cpu[c].e
        status == cpu[c].pc
    IN /\ status \in {"RUNNABLE", "NOT_RUNNABLE"}
       /\ env_sched_list' = CASE envs[e].status = status -> env_sched_list
                              [] status = "RUNNABLE" -> Append(env_sched_list, e)
                              [] OTHER -> RemoveFirst(env_sched_list, e)
       /\ envs' = [envs EXCEPT ![e].status = status]
       /\ IF e = cpu[c].curenv THEN EnterSchedule(c, TRUE) ELSE Goto(c, "user")
       /\ UNCHANGED <<env_free_list, next_id, timer_schedule_ready>>

\* Mutant: the env is not removed from env_sched_list.
RecvKeepsQueue(c) ==
    /\ Calls(c, "recv")
    /\ envs' = [envs EXCEPT ![cpu[c].curenv] = [@ EXCEPT !.ipc_recving = TRUE,
                   !.status = "NOT_RUNNABLE", !.running = FALSE, !.cpu_id = NoCPU]]
    /\ EnterSchedule(c, TRUE)
    /\ UNCHANGED <<lists, next_id, timer_schedule_ready>>

\* sys_ipc_recv: block, then schedule(1).
IpcRecv(c) ==
    LET e == cpu[c].curenv
    IN /\ Calls(c, "recv")
       /\ envs' = [envs EXCEPT ![e] = [@ EXCEPT !.ipc_recving = TRUE, !.status = "NOT_RUNNABLE",
                                               !.running = FALSE, !.cpu_id = NoCPU]]
       /\ env_sched_list' = RemoveFirst(env_sched_list, e)
       /\ EnterSchedule(c, TRUE)
       /\ UNCHANGED <<env_free_list, next_id, timer_schedule_ready>>

\* sys_ipc_try_send: envid2env without a permission check ...
IpcTrySend(c, e) == /\ Calls(c, "send")
                    /\ envs[e].status # "FREE"
                    /\ GotoWith(c, "send", e)
                    /\ UNCHANGED <<envs, lists, next_id, timer_schedule_ready>>

\* Mutant: env_ipc_recving stays set.
ClaimKeepsRecving(c) == /\ cpu[c].pc = "send"
                        /\ Goto(c, IF envs[cpu[c].e].ipc_recving THEN "map" ELSE "user")
                        /\ UNCHANGED <<envs, lists, next_id, timer_schedule_ready>>

\* ... the first locked part: claim the receiver, or return -E_IPC_NOT_RECV ...
SendClaim(c) == LET e == cpu[c].e
                IN /\ cpu[c].pc = "send"
                   /\ envs' = [envs EXCEPT ![e].ipc_recving = FALSE]
                   /\ Goto(c, IF envs[e].ipc_recving THEN "map" ELSE "user")
                   /\ UNCHANGED <<lists, next_id, timer_schedule_ready>>

\* Mutant: the claim is not given back.
FailKeepsClaim(c) == /\ cpu[c].pc = "map"
                     /\ Goto(c, "user")
                     /\ UNCHANGED <<envs, lists, next_id, timer_schedule_ready>>

\* ... page_lookup or page_insert fails: give the claim back ...
SendFail(c) == /\ cpu[c].pc = "map"
               /\ envs' = [envs EXCEPT ![cpu[c].e].ipc_recving = TRUE]
               /\ Goto(c, "user")
               /\ UNCHANGED <<lists, next_id, timer_schedule_ready>>

\* ... the page is mapped and the message fields are set, no lock held ...
SendMap(c) == /\ cpu[c].pc = "map"
              /\ envs' = [envs EXCEPT ![cpu[c].e].ipc_from = envs[cpu[c].curenv].id]
              /\ Goto(c, "wake")
              /\ UNCHANGED <<lists, next_id, timer_schedule_ready>>

\* ... and the second locked part wakes the receiver.
SendWake(c) == LET e == cpu[c].e
               IN /\ cpu[c].pc = "wake"
                  /\ envs' = [envs EXCEPT ![e].status = "RUNNABLE"]
                  /\ env_sched_list' = Append(env_sched_list, e)
                  /\ Goto(c, "user")
                  /\ UNCHANGED <<env_free_list, next_id, timer_schedule_ready>>

\* sys_env_destroy: envid2env, then env_destroy up to its lock.
EnvDestroy(c, e) == /\ Calls(c, "destroy")
                    /\ MayControl(c, e)
                    /\ GotoWith(c, "destroy", e)
                    /\ UNCHANGED <<envs, lists, next_id, timer_schedule_ready>>

\* Mutant: an env that runs on another CPU is freed here.
DestroyRemoteHere(c) ==
    LET e == cpu[c].e
    IN /\ cpu[c].pc = "destroy"
       /\ IF envs[e].status = "FREE" THEN Goto(c, "user") /\ UNCHANGED envs
          ELSE Goto(c, "free") /\ envs' = [envs EXCEPT ![e].kill_pending = TRUE]
       /\ UNCHANGED <<lists, next_id, timer_schedule_ready>>

\* env_destroy, locked part: already free, running on another CPU, or ours to free.
DestroyLocked(c) ==
    LET e == cpu[c].e
        remote == envs[e].running /\ envs[e].cpu_id # c
    IN /\ cpu[c].pc = "destroy"
       /\ \/ /\ envs[e].status = "FREE"
             /\ Goto(c, "user")
             /\ UNCHANGED envs
          \/ /\ envs[e].status # "FREE" /\ remote
             /\ envs' = [envs EXCEPT ![e].kill_pending = TRUE, ![e].kill_done = FALSE]
             /\ cpu' = [cpu EXCEPT ![c].pc = "waitkill", ![c].id = envs[e].id]
          \/ /\ envs[e].status # "FREE" /\ ~remote
             /\ envs' = [envs EXCEPT ![e].kill_pending = TRUE]
             /\ Goto(c, "free")
       /\ UNCHANGED <<lists, next_id, timer_schedule_ready>>

\* env_wait_remote_destroy: the group call, then the loop until it is done.
WaitRemoteDestroy(c) == /\ cpu[c].pc = "waitkill"
                        /\ envs[cpu[c].e].id # cpu[c].id \/ envs[cpu[c].e].kill_done
                        /\ Goto(c, "user")
                        /\ UNCHANGED <<envs, lists, next_id, timer_schedule_ready>>

\* env_free: pages, page tables, page directory and ASID, no scheduler lock.
FreeVm(c) == /\ cpu[c].pc = "free"
             /\ envs' = [envs EXCEPT ![cpu[c].e].vm = FALSE]
             /\ Goto(c, "unlink")
             /\ UNCHANGED <<lists, next_id, timer_schedule_ready>>

\* Mutant: the env stays in env_sched_list.
FreeKeepsQueue(c) ==
    LET e == cpu[c].e
    IN /\ cpu[c].pc = "unlink"
       /\ envs' = [envs EXCEPT ![e] = [@ EXCEPT !.status = "FREE", !.running = FALSE,
                      !.cpu_id = NoCPU, !.kill_pending = FALSE, !.kill_done = TRUE]]
       /\ env_free_list' = <<e>> \o env_free_list
       /\ cpu' = IF cpu[c].curenv = e
                 THEN [cpu EXCEPT ![c].curenv = NoEnv, ![c].pc = "enter", ![c].yield = TRUE]
                 ELSE [cpu EXCEPT ![c].pc = "user"]
       /\ UNCHANGED <<env_sched_list, next_id, timer_schedule_ready>>

\* env_free: the locked part; then env_destroy or env_check_kill_pending goes
\* on with schedule(1) when the env was this CPU's own.
FreeEnv(c) ==
    LET e == cpu[c].e
    IN /\ cpu[c].pc = "unlink"
       /\ env_sched_list' = IF envs[e].status = "RUNNABLE" THEN RemoveFirst(env_sched_list, e)
                            ELSE env_sched_list
       /\ envs' = [envs EXCEPT ![e] = [@ EXCEPT !.status = "FREE", !.running = FALSE,
                      !.cpu_id = NoCPU, !.pinned_cpu = NoCPU, !.kill_pending = FALSE,
                      !.kill_done = TRUE]]
       /\ env_free_list' = <<e>> \o env_free_list
       /\ cpu' = IF cpu[c].curenv = e
                 THEN [cpu EXCEPT ![c].curenv = NoEnv, ![c].pc = "enter", ![c].yield = TRUE]
                 ELSE [cpu EXCEPT ![c].pc = "user"]
       /\ UNCHANGED <<next_id, timer_schedule_ready>>

UserStep(c) == \/ TimerIrq(c) \/ Yield(c) \/ Exofork(c) \/ IpcRecv(c)
               \/ \E e \in Envs : \/ IpcTrySend(c, e) \/ EnvDestroy(c, e)
                                  \/ \E s \in {"RUNNABLE", "NOT_RUNNABLE"} : SetEnvStatus(c, e, s)

SyscallStep(c) == \/ EnvAlloc(c) \/ TakeFree(c) \/ ExoforkChild(c) \/ SetStatusLocked(c)
                  \/ SendClaim(c) \/ SendFail(c) \/ SendMap(c) \/ SendWake(c)
                  \/ DestroyLocked(c) \/ WaitRemoteDestroy(c) \/ FreeVm(c)
                  \/ FreeEnv(c)
------------------------------------------------------------------------------
Next == \E c \in CPUs : UserStep(c) \/ SyscallStep(c) \/ ScheduleStep(c)

Spec == Init /\ [][Next]_vars

(***************************************************************************)
(* Fairness: a CPU in the kernel goes on, and in user mode the timer       *)
(* interrupts it.  A CPU that wants env_sched_lock gets it: with two CPUs  *)
(* the other one leaves the lock for a time slice in user mode, or for the *)
(* delay loop that schedule's idle loop has for this purpose.              *)
(***************************************************************************)
Fairness == \A c \in CPUs : WF_vars(SyscallStep(c) \/ ScheduleStep(c)) /\ WF_vars(TimerIrq(c))

FairSpec == Spec /\ Fairness
------------------------------------------------------------------------------
(* Properties. *)

SchedulePCs == {"boot", "enter", "lock", "idle", "run", "pop"}
SyscallPCs == {"alloc", "take", "exofork", "RUNNABLE", "NOT_RUNNABLE", "send", "map", "wake", "destroy",
               "waitkill", "free", "unlink"}

EnvRecord == [status : {"FREE", "RUNNABLE", "NOT_RUNNABLE"}, running : BOOLEAN,
              cpu_id : CPUs \cup {NoCPU}, pinned_cpu : CPUs \cup {NoCPU},
              kill_pending : BOOLEAN, kill_done : BOOLEAN, ipc_recving : BOOLEAN,
              ipc_from : Nat, id : Nat, parent_id : Nat, pri : Nat \ {0},
              runs : BOOLEAN, tf : {"saved", "stale"}, vm : BOOLEAN]

\* The types of the fields; a CPU in user mode or in a system call has a curenv,
\* and sched_count never passes below 0 (schedule, count--).
TypeOK == /\ envs \in [Envs -> EnvRecord]
          /\ env_sched_list \in Seq(Envs)
          /\ env_free_list \in Seq(Envs)
          /\ cpu \in [CPUs -> [pc : SchedulePCs \cup SyscallPCs \cup {"user", "panic"},
                              curenv : Envs \cup {NoEnv}, count : Nat, yield : BOOLEAN,
                              e : Envs \cup {NoEnv}, id : Nat]]
          /\ \A c \in CPUs : cpu[c].pc \in SyscallPCs \cup {"user"} => cpu[c].curenv \in Envs
          /\ next_id \in Nat
          /\ timer_schedule_ready \in BOOLEAN

\* 'env_sched_list' contains exactly the runnable envs, each once (the invariant
\* stated at kern/env.c:17 and kern/syscall_all.c:292).
QueueExact == /\ \A e \in Envs : envs[e].status = "RUNNABLE" <=> e \in Range(env_sched_list)
              /\ Len(env_sched_list) = Cardinality(Range(env_sched_list))

\* The envs that a sys_exofork has taken and not yet given a status.
Taken == {cpu[c].e : c \in {d \in CPUs : cpu[d].pc = "exofork"}}

\* 'env_free_list' contains exactly the free envs that no sys_exofork has taken,
\* each once (env_alloc's LIST_REMOVE and env_free's LIST_INSERT_HEAD).
FreeListExact == /\ Range(env_free_list) = {e \in Envs : envs[e].status = "FREE"} \ Taken
                 /\ Len(env_free_list) = Cardinality(Range(env_free_list))

\* A destroyed env leaves nothing behind in the run queue: no env is in
\* env_sched_list while it is on env_free_list (env_free, sys_ipc_try_send).
NothingLeftQueued == Range(env_sched_list) \cap Range(env_free_list) = {}

\* CPU c executes env code, or kernel code on behalf of the env.
Executes(c) == cpu[c].pc \in SyscallPCs \cup {"user"}

\* No env runs on two CPUs at once (schedule skips envs with env_running set).
NoDoubleRun == \A c, d \in CPUs : c # d /\ Executes(c) /\ Executes(d)
                                     => cpu[c].curenv # cpu[d].curenv

\* The env that a CPU runs or is about to run is marked as running there: what
\* tests/lab6_4/pre_env_run.c asserts and env_destroy's remote test relies on.
RunningMarked == \A c \in CPUs :
    LET e == IF cpu[c].pc \in {"run", "pop"} THEN cpu[c].e ELSE cpu[c].curenv
    IN cpu[c].pc \in {"run", "pop", "user"} => envs[e].running /\ envs[e].cpu_id = c

\* A CPU never is in user mode in an address space that was freed, and env_run's
\* assertion on the status never fails.
RunsLiveEnv == \A c \in CPUs : /\ cpu[c].pc = "user" => envs[cpu[c].curenv].vm
                               /\ cpu[c].pc # "panic"

\* env_free never frees the same address space twice: a remote kill is carried out
\* by one of env_destroy and env_check_kill_pending (for envs that do not use IPC:
\* sys_ipc_recv clears the mark by which env_destroy tells a remote env).
FreedOnce == [][\A c \in CPUs : cpu[c].pc = "free" /\ cpu'[c].pc = "unlink"
                                   => envs[cpu[c].e].vm]_vars

\* env_pop_tf always resumes an env from the context it last had.
ResumesLatest == [][\A c \in CPUs : cpu[c].pc = "pop" /\ cpu'[c].pc = "user"
                                       => envs[cpu[c].e].tf = "saved"]_vars

\* The message fields, written without a lock, have one writer: two senders are
\* never both between the two locked parts of sys_ipc_try_send for one receiver.
OneSender == \A c, d \in CPUs :
    c # d /\ cpu[c].pc \in {"map", "wake"} /\ cpu[d].pc \in {"map", "wake"} => cpu[c].e # cpu[d].e

\* A send is only accepted for an env that is blocked in sys_ipc_recv: it ran,
\* and it is not runnable.
SendsToReceiver == [][\A c \in CPUs : cpu[c].pc = "send" /\ cpu'[c].pc = "map"
                         => envs[cpu[c].e].status = "NOT_RUNNABLE" /\ envs[cpu[c].e].runs]_vars

\* A claimed receiver is not forgotten: it is woken, or its claim is given back.
ClaimResolved == \A e \in Envs :
    envs[e].status = "NOT_RUNNABLE" /\ envs[e].runs /\ ~envs[e].ipc_recving
       ~> envs[e].status = "RUNNABLE" \/ envs[e].ipc_recving

\* Every runnable env gets to run again.
EveryEnvRuns == \A e \in Envs : envs[e].status = "RUNNABLE"
                   ~> (\E c \in CPUs : cpu[c].pc = "user" /\ cpu[c].curenv = e)

\* sys_env_destroy of an env on another CPU returns: the env is freed there.
DestroyReturns == \A c \in CPUs : cpu[c].pc = "waitkill" ~> cpu[c].pc # "waitkill"
==============================================================================
