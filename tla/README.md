# A TLA+ verification of the MOS SMP kernel

The repository is the MOS teaching kernel for MIPS, ported to two CPUs. This
project models its concurrent core in TLA+, checks the models with TLC on small
instances, and proves the two lowest layers with TLAPS for every number of CPUs.

## The system and what is modelled

| Part | Code | Modules | State of the work |
|---|---|---|---|
| spinlocks | `kern/spinlock.S`, `fs/serv.h` | `Mutex`, `Spinlock`, `SpinlockProofs` | modelled, proved |
| inter-processor calls | `kern/smp.c` | `RemoteCall`, `Ipi`, `MCIpi`, `IpiProofs`, `IpiRefinement` | modelled, proved |
| scheduler | `kern/sched.c`, timer interrupt | `EnvSched`, `MCEnvSched` | modelled |
| env life cycle, remote kill | `kern/env.c`, `kern/syscall_all.c` | `EnvSched` | partly |
| IPC | `kern/syscall_all.c` | `EnvSched` | partly (no pages yet) |
| boot, exceptions | `init/`, `kern/entry.S`, `kern/genex.S` | as seen by `Ipi`, `EnvSched` | partly |
| pages, page tables, TLB, ASIDs | `kern/pmap.c`, `kern/tlbex.c` | | planned |
| fork, fd table, pipe | `user/lib/` | | planned |
| file server, block layer, client | `fs/`, `user/lib/file.c` | | planned |
| console, formatting, ELF, strings, shell, tools, device I/O | | | not modelled: sequential or pure I/O |

How the parts interact. Every shared structure of the kernel is guarded by a
spinlock (`env_sched_lock`, `pmap_lock`, `asid_lock`, `console_lock`, one lock per
IPI mailbox). TLB shootdowns and the poke of a remote kill are group calls
(`smp_group_function_call`) that the target polls for. The scheduler polls, checks
for a pending kill, and picks an env under `env_sched_lock`; system calls move envs
between the run queue, the blocked state and the free list. The user library
(fork, pipe, file descriptors) and the file server are built on these calls.

## Modules

**`Mutex` and `Spinlock`.** `Mutex` is what a lock promises: at most one holder,
and only the holder releases. `Spinlock` has one action per instruction of
`spin_lock` and `spin_unlock` that touches memory: `LoadLinked`, `StoreConditional`,
`Unlock`. `LinkLost` is the architecture's rule that an exception return breaks a
link. `Holder` is the refinement mapping. The file server's `user_spin_lock` is the
same loop.

**`RemoteCall` and `Ipi`.** `RemoteCall` says what a group call promises: when it
returns, each other CPU that was online at its turn has run the function exactly
once, with this call's function and arguments. A function is run by `Run` only, and
`Run` flips a bit of `ran` each time, so that running a call again is never a
stuttering step and "once" is part of what is refined. `Ipi` models the default build
(`SMP_USE_MMIO_IPI` = 0) with one action per access to shared memory. Each CPU has a
caller frame (`pc`, `tgt`, `arg`) and a handler frame (`hpc`, `got`), because
`ipi_wait_done` runs the handler inside a call, and a function run by the handler
may make a call itself. A mailbox slot holds which call its word belongs to, so a
mixture of two calls is visible in `ran`. The updates of `ipi_pending` (`|=`, `&=`)
are one step each: since `IPI_CALL` is the only signal that is sent, each of them
stores a constant bit whatever it loaded. That a clear never comes after the next
set follows from `IpiInv` (`LockOwner` and `TargetInv`) and is part of
`OneCallAtATime`. Which calls a CPU makes outside a handler and which ones a
function run by a handler makes are the workload (`Base`, `Inner`): in `ipi_nested`
the inner calls do not nest again, the proofs allow any. The immediate return for a
null function is left out.

**`EnvSched`.** One record per `struct Env`, the two lists, and per CPU its place in
the kernel with `curenv` and `sched_count`. A section under `env_sched_lock` is one
action (justified by `Spinlock`); what the code does without the lock is a step of
its own: `CheckKillPending` before the lock in `schedule`, `EnvRunSave` and
`EnvRunPop` after it, `SendMap` between the two locked parts of `sys_ipc_try_send`,
`FreeVm` before the locked part of `env_free`, `Exofork`, `EnvAlloc` and `TakeFree` for
the unlocked `env_alloc`, which leaves the env off the free list and still
`ENV_FREE` until `ExoforkChild`. Contexts are abstracted to `tf`: "saved" when `env_tf` holds the env's
latest context, "stale" while that is on a CPU. An address space is the flag `vm`.
Group calls inside `env_free` and `env_destroy` return (module `Ipi`) and change
nothing here, so they are delays. Errors that return to the user with nothing
changed are left out. A list macro takes out one occurrence of the env; what it
does to a list that the env is not in is not modelled.

`MCIpi` and `MCEnvSched` hold the workloads: which CPU makes which call, which env
makes which system calls. The boot envs stand for the `ENV_CREATE`s of the init
programs under `tests/`; the `mips_init` in `init/init.c` has them commented out.

## Runs

| Run | Instance | Shows |
|---|---|---|
| `spinlock` | 3 CPUs | mutual exclusion, refinement of `Mutex`, and that the lock keeps being granted |
| `ipi_pair` | 2 CPUs calling each other | the protocol invariant, refinement of `RemoteCall`, every call returns |
| `ipi_nested` | 2 CPUs, a call-back from a handler (`tests/lab6_3`) | the same with nested frames |
| `sched_yield` | 2 CPUs, 3 envs, one pinned, two priorities | exact queue, no double run, right running marks, no starvation |
| `uni_lifecycle` | 1 CPU, 3 slots, 3 reuses | queue and free list exact, no context lost under create, suspend, resume, destroy |
| `server` | 2 CPUs, 2 clients, receiver pinned to CPU 0 | one writer of the message fields, claims are resolved |
| `kill` | 2 CPUs, a parent and 2 children | the remote kill frees once and never under a running env, for envs that do not use IPC |

`kill` has the action constraint `CreateFirst`: all children exist before the first
destroy, so that the unlocked `env_alloc` never meets `env_free` on the other CPU.
It says nothing of the free list, which is checked in `uni_lifecycle`: there
`FreeListExact` holds step by step, up to the env that a `sys_exofork` has taken.

Five runs show where the code departs from a statement of the repository; the
statements are quoted in `PROJECT.json`.

| Run | What happens |
|---|---|
| `stale_context` | an env is resumed elsewhere before `env_run` has saved its context |
| `double_run` | an env blocking in `sys_ipc_recv` is woken too early and runs on both CPUs |
| `lost_kill` | a kill that arrives after `env_check_kill_pending` is never carried out and `env_destroy` never returns |
| `queue_twice` | an env resumed by its parent and then woken by a send is queued twice |
| `wake_freed` | a send wakes an env that was destroyed after it was claimed: the env is in the run queue and on the free list |

TLC finds five more when given the workload, without a run being kept for them (see
the hazards): an env that is blocking in `sys_ipc_recv` is freed both by
`env_destroy`, which no longer sees it as running, and by `env_check_kill_pending` on
its own CPU; an env suspended by its parent while it runs is taken out of the run
queue a second time by its `sys_ipc_recv`; a new env inherits `env_ipc_recving` from the slot's last user; an env
suspended after it was picked makes `env_run`'s assertion fail; two `sys_exofork`s on
two CPUs get the same slot.

So the passing runs with two CPUs say what holds where these do not interfere: envs
that only yield, a pinned receiver (how the file server is deployed), kills without
IPC. `uni_lifecycle` has the life-cycle calls in any order on one CPU.

### Bounds

- CPUs: 2 is the system's own `NR_CPUS`; contention for a mailbox lock needs 3, where
  the proofs take over. 1 is the uniprocessor kernel.
- Envs: 3 slots (`NENV`) are two CPUs' worth and one waiting. `MaxId` bounds the
  number of `mkenvid` calls, 3 creations in `uni_lifecycle`, enough to use each slot
  again.
- Calls: two kinds, which both CPUs may make in `ipi_pair`. CPUs repeat calls without
  bound.
- Time slices: 1 and 2, so that both branches of `schedule` are taken.

### Fairness

- `Spinlock`: a CPU inside `spin_lock` keeps executing, and an intact link is not
  beaten by interrupts for ever (strong fairness of a successful `sc`). Nothing is
  assumed of a holder, who may wait inside its section as the holder of an
  `ipi_mailbox_lock` does in `ipi_wait_done`: `KeepsGranting` says that a lock that
  is waited for is held or comes to be held, not that each waiter gets it.
- `Ipi`: weak fairness of each frame; strong fairness of taking a pending call outside
  a group call, because the timer interrupt stays raised until it is taken and both
  it and `schedule` poll. Locks are not assumed fair; with two CPUs a mailbox lock has
  one possible caller, and `CallReturns` is claimed for two CPUs only.
- `EnvSched`: a CPU in the kernel goes on, and the timer ends every stay in user mode.
  A CPU gets `env_sched_lock`: with two CPUs the other one leaves it for a time slice
  or for the delay loop that `schedule` has for that purpose.

## Proofs

`SpinlockProofs` assumes only that `NoCPU` is no CPU. Mutual exclusion is not
inductive by itself: a CPU about to `sc` could store 1 over a taken lock. `LockInv`
adds that the word is 1 exactly while somebody holds the lock, and that a live link
at the `sc` means the word is 0; the latter survives since every store breaks all
links. `SpinlockRefinesMutex` follows: a successful `sc` is `Acquire`, the store of
`spin_unlock` is `Release`, everything else is `Request` or a stutter.

`IpiProofs` assumes `IpiAssumption` (at least one CPU, distinct null values). `IpiInv`
has four parts. `LockOwner`: a mailbox lock is held by the one CPU that is at that
target. `CallerInv`: while a caller waits, its call is posted, taken, or acknowledged,
in exactly one of these forms (`InFlight`). `SlotsInv`: what has been written, and what
has been read, are the words of this call. `TargetInv`: a busy target has a waiting
caller. The argument is that the lock is held from before the reset of `ipi_done`
until after the acknowledgement, so a target has one caller (`OneCallerPerTarget`) and
is quiet until that caller sends (`QuietBeforeSend`). `OneCall` and
`IpiRefinesRemoteCall` (module `IpiRefinement`) follow. In the latter `Exec` is `Run`:
`TargetInv` gives the waiting caller, `SlotsInv` the arguments, and since the caller
is not yet `Served` the target is still in its `Left`; a second `Exec` for the same
call would have no such step. The loop's step past a CPU that is not ready is `Skip`.

Only model-checked: all liveness (temporal logic with fairness is beyond the prover)
and all of `EnvSched`.

## Hard behaviours and plan

`PROJECT.json` lists every hazard at its line with the properties that watch it, or
with why none does yet. Next, in this order:

1. Pages: reference counts, page tables and the memory system calls under `pmap_lock`,
   with TLB shootdown and ASID reuse; an abstract memory that it should implement. To
   prove: reference counts equal mappings; a freed page has no mapping.
2. Pipe: positions, blocking, end of file by reference counts, with `fork`, `dup` and
   `close`; refinement of a bounded queue.
3. File server: open file table and locks; block bitmap, cache, truncation.
4. Boot with interrupts enabled and the IPI self-test; envid and ASID arithmetic;
   contexts with an owner in `EnvSched`.
5. Proofs about `EnvSched`: the queue and running marks for envs that do not use IPC,
   and the safety of the remote kill.
6. Copy-on-write fork and the file descriptor table.
