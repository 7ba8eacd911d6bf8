# Raeen: guest synchronization, asynchronous work and the GPU queue in TLA+

Raeen is a PS5 emulator written in Rust. It runs a title's machine code natively
on host threads and answers the calls the title makes into the console's
libraries ("HLE": high-level emulation). Everything the title relies on for
mutual exclusion, waiting, waking and ending is code of this repository, and a
fault in it shows as a hang, a lost wake or two threads in one critical section.
This project specifies that core, model-checks it on small instances with TLC and
proves with TLAPS, for any number of threads, the safety properties of every modelled
component; liveness is model-checked only.

Paths below are relative to the repository root.

## 1. Inventory

### The modelled core

| Component | State | Operations | What is hard | What makes it correct |
|---|---|---|---|---|
| pthread mutex (`crates/raeen-hle/src/pthread_sync.rs`, `PthreadMutex` in `crates/raeen-kernel/src/lib.rs`) | owner, recursion, type, FIFO of waiters, a wake bit per waiter | lock, trylock, timedlock, unlock, owner death | direct handoff racing a timeout or termination; owner death with a queue; spin, then park in 10 ms slices | one owner, handed over oldest first, no waiter on a free mutex, nobody stuck |
| condition variable (`pthread_cond.rs`) | FIFO of waiters with wake bits, plus the mutex | wait, timedwait, signal, signalto, broadcast | the gap between unlock and sleep; signal against timeout; a thread that dies queued | no wake lost, none delivered twice, the mutex held on return |
| read-write lock (`pthread_sync.rs`) | writer, its recursion, one shared reader count, a separate per-thread depth table | rdlock, wrlock, try and timed forms, unlock, death | count and depth are updated in separate steps; the notify comes after the lock is released | the count is the sum of the holds, a writer excludes other threads' readers |
| kernel semaphore (`kernel_semaphore.rs`) | count and ceiling per handle, one host lock and condition variable for all semaphores | create, delete, signal, poll, wait, cancel | producers change the count without the lock and notify under it; guest handlers run inside a wait | no missed notify, the ceiling, no handler under the lock |
| event flag (`kernel_eventflag.rs`, `wait_until` and `update_event` of the kernel) | bit pattern | set, clear, cancel, delete, poll, wait | as above; other waiters take bits away, and slices hide a missed notify | a satisfied waiter is woken by the notify alone, and every wait with a reason to end ends |
| event queue (`kernel_equeue.rs`) | registered events, pending flags | add, delete, trigger, wait | the payload is copied and the flag cleared in different steps; two waiters; delivery under the lock | a trigger is delivered once and not lost |
| ordered GPU side effects (`crates/raeen-gpu/src/ordered_side_effects.rs`, `libsce_agc.rs`) | FIFO of effects and a cached length | publish, drain, apply | published by the GPU worker, drained by any guest thread, applied outside every lock | effects become visible, in execution order |
| sync-on-address (`libkernel.rs`, `SyncAddressTable`) | one FIFO per address, the guest's word | wait with compare, wake | the word is guest memory; compare against enqueue; wake against timeout | no lost wake, a wake that took an entry is reported |
| exceptions (`exception.rs`, `pending_exceptions` of the kernel) | one pending entry per thread, a cached count, the delivering mark | raise, claim, requeue, handler, thread exit | the count is refreshed in two steps; handlers make calls that are safe points themselves | no nesting, the newest raise survives, no mark left behind |
| POSIX semaphore (`posix_sem.rs`) | a table from guest address to a shared object, its value | init, destroy, post, wait, trywait, timedwait, getvalue | the object can be replaced or destroyed under sleeping waiters; handlers run inside a wait and use semaphores themselves | no post lost on a waiter of the same object, the value in range |
| mutex table (`pthread_sync.rs`: `resolve_mutex`, `lock_core`, init, destroy) | object of each key (slot address or handle), guest memory, handle allocations | implicit creation, init and re-init, destroy and lookup by slot or by handle | a lookup is several steps with guest memory in between; several threads are the first to touch a mutex; re-init and destroy by handle leave keys behind | one object per mutex, both keys lead to it, keys left behind lead elsewhere |
| thread lifecycle and teardown (`crates/raeen-runtime/src/thread.rs`, `lib.rs`, `dispatch.rs`) | the table of workers, the lifecycle lock, stacks, the termination flag and the exit code | create, join, detach, exit, process exit, `terminate_and_reap` | workers create and join each other while an exit races the teardown; flag and code are set in two steps | the teardown leaves no worker in guest code, frees every stack once, reports the winner's code and returns |
| asynchronous I/O (`crates/raeen-kernel/src/aio.rs`, `kernel_aio.rs`) | submissions with slots, a pending count and a state, the work queue, the retired ring | submit, perform, poll, wait, cancel, delete, evict | outcomes are drained under the engine lock and delivered outside it; cancel overtakes a worker; delete under a sleeping waiter | each outcome delivered once, no final state before its results, no wait on what is final or gone |
| GPU submission queue (`AgcGpuSession` in `crates/raeen-gpu/src/agc_exec.rs`) | lifecycle state and lock, bounded channel, in-flight count, flip permits, per ring a suspended buffer and those parked behind it | submit, flip, `wait_idle`, flush, shutdown; the worker's walk, suspend, re-check, resume | a label can be satisfied and reset between two looks; a blocked send holds the lifecycle lock; a walk fails or panics half-way; shutdown races the submitters | a ring runs its buffers in order, a release is not lost, the counts survive every fault, every call returns |

They interact in six ways. A condition wait calls the mutex's unlock and lock.
Semaphores, event flags and event queues share one discipline, a host lock with a
condition variable and bounded park slices. Exceptions are delivered at the end of
every HLE call and inside wait slices, so guest code runs in the middle of a wait.
Process termination and the death of a thread cut across all of them:
`begin_termination` sets a flag that every slice looks at, and
`release_locks_owned_by` takes a dead thread's holds away. The teardown waits for
the workers, so each wait that termination does not end is a process that does not
end: the liveness properties of the wait modules are what `ThreadLifecycle` takes
as its safe points. The GPU worker publishes the effects `EventQueue` drains; the
guest threads that submit to it block on its channel and its permits.

### The rest of the system

`PROJECT.json` lists every component with its status. Not modelled, and why:

- on the plan (section 6): the alias tables of condition variables and read-write
  locks, VideoOut and host vblank, the frame hand-over between processes, virtual memory tables, handle
  quotas, fibers, the guest allocator;
- sequential and data-heavy, out of a model checker's reach: shader recompiler
  and the translation of commands (`kyty-graphics`, `raeen-gpu`), loader and dynamic
  linker (`raeen-loader`, `raeen-firmware`);
- machine-level control transfer: trampolines and the fault handler
  (`raeen-runtime`); its safe points appear as the places where handlers run;
- I/O and presentation: file system, sockets, audio, input, upscaling, user
  interface.

Of the repository's 275,000 lines most are the second group: instruction decoding,
shader translation and command translation, pure functions on large data, whose
correctness is what the console's hardware does, which the repository does not
state. The modelled components are a small share of the lines and nearly all of the
code in which several threads share state under a protocol.

## 2. Modules

| Module | Models | Notes |
|---|---|---|
| `GuestThreads` | the guest threads and the value that is none of them | constants of the pthread modules and `WaitGate` |
| `WaiterFifo` | the waiter queues of `PthreadMutex` and `GuestWaitQueue` | pure operators: membership, position, cancel, join |
| `PthreadMutex` | one guest mutex | `pc` follows a thread through `lock_core`: guest, spinning, parked in a slice, abandoning |
| `ReentrantLock` | the abstract lock a guest is promised | only `held`, the levels each thread was told it has; `PthreadMutex` implements it (`Lock == INSTANCE ReentrantLock WITH held <- held`) |
| `PthreadCond` | one condition variable over one mutex | EXTENDS `PthreadMutex`; `cpc` follows a thread through `wait_core` |
| `PthreadRwlock` | one read-write lock | the two-step updates of count and depth are two actions |
| `MutexTable` | how a mutex is found: slot, handle, aliases, implicit creation, init, re-init and destroy of a slot or a handle | one slot, and the guest initializes and destroys a mutex only while nobody uses it (`Unused`); the mutex itself is reduced to its owner |
| `WaitGate` | the shared host lock, park slices and notify | extended by the next three modules |
| `KernelSemaphore`, `EventFlag`, `EventQueue` | the objects behind the gate | `EventQueue` adds the GPU worker and the side-effect FIFO |
| `SyncOnAddress` | one watched word and its queue | the guest's stores are external |
| `ExceptionDelivery` | the pending table, the cached count, claims and handlers | |
| `PosixSem` | the semaphores at one guest address | EXTENDS `ExceptionDelivery`; every thread has a call outside and a call inside its handler |
| `ThreadLifecycle` | the main thread, the workers and the teardown | `st` follows a thread through create, join, exit and the steps of the teardown |
| `Aio` | the engine, its host workers and the guest's calls | an engine operation under the lock is one action, delivery another |
| `GpuQueue` | one process's submission queue and its worker | `w` follows the worker through an item, `call` a guest thread through submit, flip or `wait_idle`; a buffer is a sequence of waits, releases and dispatches |
| `PthreadProofs` | theorems about `PthreadMutex`, `PthreadCond`, `PthreadRwlock` and `MutexTable` | checked by TLAPS, as the next two rows; one part per module, with its inductive invariant |
| `WaitGateProofs` | theorems about `KernelSemaphore`, `EventFlag` and `EventQueue` | |
| `SyncOnAddressProofs`, `PosixSemProofs`, `ThreadLifecycleProofs`, `AioProofs`, `GpuQueueProofs` | theorems about the module of that name | |
| `WaiterFifoProofs` | lemmas about the operators of `WaiterFifo` | cited by the proofs about mutex, condition variable and address waits |
| `MC*` | instances for TLC | symmetry sets and small constant sets only |

Conventions. An action is what one thread does without giving others a chance:
code under one lock acquisition is one action, code that drops a lock in the
middle is several. A call that fails without changing anything (a bad argument, an
unknown handle, a failed trylock) is a stuttering step and has no action. Times
are abstract: a deadline is `none`, `future` or `passed`, and `DeadlinePasses`
(`LimitPasses` in some modules) lets it pass at any moment, so every race between a
timeout and a wake is explored. A park ends by its wake, or by `SliceEnds` at any
moment, which covers the expired slice, a spurious host wake and the wake an exception
raise sends. Names that two of the modules proved about together would share carry a
prefix (`Flag`, `Queue`, `Rw`).
Handles, words, bits and payloads are model values or small integers. The `Faulty
variant` definitions are the bugs each property is tested against; no
specification uses them.

## 3. Runs

Runs with `CHECK_DEADLOCK FALSE` are of systems that may legitimately stop, when all
threads have ended or wait for something no guest does. That waits end when they
should is stated as liveness instead. `mutex_table` and `aio` check for deadlock:
there a guest can always make another call.

One run per component, for its safety and its liveness, where one instance serves both;
all are expected to pass.

| Run | Instance | Safety | Liveness |
|---|---|---|---|
| `mutex` | 3 threads, all 4 types, recursion to 2 | `MutexInv`: what a guest was told agrees with the kernel's record, no waiter on a free mutex, the dead own nothing. `HandoffExact`: queue and wake bits agree. `HandoffIsFifo`. `ImplementsReentrantLock` | `EveryLockReturns` if critical sections end; `HostUnblocks`: termination and deadlines end a lock call even if they do not |
| `cond` | 2 threads, errorcheck and normal mutexes | `CondInv`: no gap between unlock and sleep, the dead absorb no signal. `SignalBeatsTimeout`, `WaitReturnsHolding`. `MutexUnderCond`: the mutex below still satisfies its own `Spec` | `SignalledReturns` if critical sections end; `TerminationEndsWaits` |
| `semaphore` | 2 threads, 1 handle, ceiling 2 | `SemInv`: the count in range, the host lock held exactly by threads between check and park, no missed notify | `WokenByNotify`: the notify alone wakes a satisfied waiter; `SemWaitEnds` by termination and deadlines |
| `eventflag` | 2 threads, 2 bits | `FlagInv`: no missed set, clear or delete | `SetReachesWaiter`: a set or a delete reaches a waiter through its notify alone, unless the bits are taken first; `FlagWaitEnds` by termination and deadlines |
| `rwlock` | 3 threads, depth 2 | `RwInv`: the count is the sum of the holds at every intermediate step, no missed release, recovery after death, a writer excludes other threads' readers | `RwTerminationUnblocks` |
| `futex` | 2 threads and their handlers, 2 values, wakes of one and of all | `SyncInv`: an entry is queued or was taken by a wake, and a store followed by wakes leaves nobody asleep. `WakesSpentWell`: a wake that took an entry is reported by its wait, and the oldest entry goes first | `EveryWaitEnds` by its deadline, the self-heal interval or termination |
| `exception` | `PosixSem`: 2 threads, 2 raises, 2 objects at one address, values to 1 | `PosixInv`: no post lost on a parked waiter, whatever replaces or destroys its object and whatever its handler does. `NewestRaiseKept`, `DeliveriesExclusive` | |
| `equeue` | 2 guests and the GPU worker, 2 events, batches of 1, 2 triggers | `QueueInv`: no missed trigger, effect or deletion, at most one delivery per trigger. `NeverEmptyHanded`: no wait returns with nothing before its deadline | |
| `teardown` | the main thread and 2 workers, 2 stacks | `LifeInv`: every live worker has somebody who will join it, no stack is leaked or registered after it is freed, the reported code is the winner's. `TeardownReaps`: nobody runs guest code afterwards | `TeardownEnds`, unless a worker waits for the lifecycle lock |
| `mutex_table` | 3 threads, 3 handles, 3 objects | `TableInv`: never two holders of one mutex, slot and handle lead to one object unless the handle was destroyed by name, handles left behind never lead into the slot's mutex, no freed handle is in the table; until a caller uses a handle that is not in the table | |
| `aio` | 2 threads, 2 workers, 1 batch of up to 2 requests | `AioInv`: the pending count and the final state are exact, no outcome is handed out twice, nobody sleeps on a submission that is final or gone. `ResultsBeforeReport` | `AioWaitReturns`: by termination and deadlines though the host's I/O never ends, otherwise when it ends |
| `gpu_queue` | 2 guest threads and the shutdown, both rings, 3 buffers, channel and permits of 1 | `GpuInv`: in-flight count and permits are exact through failures, no work behind the Shutdown marker, no release lost on a suspended buffer (items cut short by a fault or by the limit on re-check passes excepted), buffers parked only behind a wait. `RingOrder`. `ResumedGenuinely`: no wait is passed that was never satisfied, dead waits excepted. `IdleIsIdle` | `GpuCallsReturn` for submit, flip, `wait_idle` and shutdown |

Fairness and why the code justifies it. *Host steps*: host threads are preemptive
and every step of a call is bounded, so a step that stays enabled is taken (WF). A
thread asking for a host lock gets it although others take it again and again (SF
on `HostStep`): `std` and `parking_lot` locks are not strictly fair, but a lock
released in bounded time infinitely often is not withheld from one thread for ever
by a preemptive scheduler. *Handlers return* (SF): a guest handler that never
returned would hold its own thread and nothing else; the properties are about waits
that handlers interrupt. In `SyncOnAddress` a pass of the slice loop always reaches
its deadline check after a delivery, which is SF on the loop's progress. *Clocks
advance* (WF on `DeadlinePasses`, `LimitPasses`) where a deadline is to be reached
from a future one.

The specifications of the runs assume only that. What more a property needs, it
says as its premise: `GuestReleases` and `CondGuestReleases`, that guests end their
critical sections, in `EveryLockReturns` and `SignalledReturns`; `SlicesExpire(t)`
and `FlagSlicesExpire(t)`, that the park slices of thread `t` run out, in `SemWaitEnds`
and `FlagWaitEnds`. In
particular that a notify wakes a semaphore waiter (`WokenByNotify`) and an event flag
waiter (`SetReachesWaiter`) is checked without the slices, which in the code would turn a missing notify into a delay of a
few milliseconds. Nothing assumes that a guest signals, sets or triggers; in
`SyncOnAddress`, where `NoLostWake` is about stores followed by wakes, a guest that
has stored does call wake.

*Teardown* (`LifeFairness`): SF on the steps of `scePthreadCreate`, on the join and on
the teardown, for the lifecycle lock as above; WF on the exit path of a worker. A
worker in guest code comes to a safe point and leaves once termination is requested
(WF on `SafePoint`): that is the guest's part, and the code says so, a trap-free
worker "intentionally keeps teardown waiting". *Asynchronous I/O*: WF on the steps of
guest calls only (`CallFairness`); that the host's I/O ends (`WorkerFairness`) is a
premise of the second half of `AioWaitReturns`.

*GPU queue* (`GpuFairSpec`): the worker thread runs (WF), and so does each thread inside
a call. Weak fairness is enough for the lifecycle mutex and the permits because a
behaviour has finitely many calls; under submissions without end `wait_idle`, which
waits for a count of zero, could starve, and the property does not speak of that. No
guest owes a store to a label, and no walk is required to fail.

### Where comments and code disagree

Modelling met these disagreements. The models do what the code does; no run is
spent on them.

- `exception.rs`, the cached pending count: two threads that refresh it leave it at
  zero over a pending exception, which then waits for an unrelated raise
  (`ExceptionDelivery`).
- `libkernel.rs`, address waits: a thread that ends in a handler run inside its wait
  leaves its queue entry, which swallows a later wake (`SyncOnAddress`).
- `kernel_equeue.rs`: a trigger between the copy of an event and the clearing of its
  flag is lost (`EventQueue`).
- `pthread_sync.rs:580`, mutex creation: the handle is in the slot before its alias
  is in the table; a caller that reads it there and passes it on creates a second
  mutex under the handle. `split` in `MutexTable` marks that, and `TableInv` is
  about behaviours without it.
- `pthread_sync.rs:313`, destroy, "drop the state and zero the guest handle": given the
  handle instead of the slot, which lock and unlock take either of, it finds no handle
  at that address. It removes the handle's key only; the mutex stays usable in the slot
  and allocated (`Destroy`, marked by `gone`), and a lock under the destroyed handle
  makes a second one (`split`). A re-init (`MutexInit`) leaves the old handle's alias,
  object and allocation, and an init whose slot write fails leaks its handle
  (`MutexInitFails`). `KeysAgree` says what holds in spite of these.
- `posix_sem.rs:221`, timed waits: after a delivery that finds the thread already in a
  handler the loop starts over without looking at the deadline, so a timed wait made
  by a handler while a newer raise is pending spins. Re-init and destroy strand the
  waiters of the old object until their deadline or termination.
- `kernel_aio.rs:14`, results before the final state: a second poller may report
  COMPLETED while the first is still delivering, which `ResultsBeforeReport` allows
  for. `hle_wait_requests` drains before it reads the state, so an outcome that
  arrives in between is reported and not yet delivered. Of two deletes the loser drops
  what it drained (`aio.rs:391`), and a worker that finishes between the drain and the
  removal of a delete loses its outcome though the retired state says COMPLETED.
- `thread.rs:641`, `terminate_and_reap`: it holds the lifecycle lock while it joins the
  workers (`thread.rs:646`). A worker that has entered `scePthreadCreate` and waits for
  that lock (`thread.rs:686`) is not at a safe point, so each waits for the other and
  the teardown does not come back. `TeardownEnds` excepts this state and shows that it
  is the only one.
- `thread.rs`, joins: workers that join each other in a circle take each other's
  handles out of the table and are not reaped; `TeardownReaps` and the stack part of
  `LifeInv` state that boundary.
- `ordered_side_effects.rs:13`, "Effects therefore become visible [...] in execution
  order": `drain` hands the effects to whichever thread asks and they are applied
  outside every lock (`Drain`, `TopDrain`, then `Apply`), so of two threads that
  drain one after the other the second can apply first.
- `pthread_cond.rs:2`, "Wait atomically releases the associated guest mutex": with
  a recursive mutex held twice the wait takes one level off and sleeps as the
  owner. `SignalledReturns` is therefore checked with types that do not nest.
- `kernel_semaphore.rs:227`, "A negative setCount means "reset to the max"": the
  clamp makes it zero (`Clamped`).
- `kernel_eventflag.rs:11`, "`Wait` completes immediately when the pattern is
  already satisfied (the common same-thread case) and otherwise reports a timeout
  rather than hanging": neither half holds of the code below it. The deadline is tested
  before the first look (`TimesOut` at `top`), so a zero timeout reports ETIMEDOUT
  although the pattern is there; and a wait whose pattern is missing parks until its
  own deadline (`NotReady`, `StartsSlice`), an untimed one for ever, which is what the
  comment at `kernel_eventflag.rs:238` says.
- `pthread_sync.rs:1188`, "Release the most-recently-acquired hold first (LIFO)":
  after wrlock, rdlock, wrlock the read hold goes first (`UnlockRead`).
- `thread.rs:903`, "keep the pending set empty": a raise at a thread that has
  exited is queued for ever (`Raise` does not ask whether the target lives).

- `agc_exec.rs`, waits "NEVER force-satisfied": a wait found unmet
  `DEAD_WAIT_FORCE_RESUME_ROUNDS` times is resumed (`Resume`), and only new work makes
  a round, so a title that submits nothing more stays suspended.
- `agc_exec.rs`, a panic while a suspended buffer is resumed: the worker loop survives,
  but the ring is no longer suspended and its parked buffers stay parked, so that later
  submissions overtake them (`hist.broken`). A state-only walk that fails leaves before
  its produced labels are drained; the next walk of the ring drains them and may latch
  a wait that began later (`hist.left`).
- `agc_exec.rs:3169`, the re-check resumes buffers pass after pass, at most
  `MAX_RESUME_PASSES` times: a longer chain of resumes leaves its last satisfied wait
  suspended until another item makes a re-check (`NextRing`, which marks such an item
  as cut short). The proof of `NoLostRelease` met this case; the programs of run
  `gpu_queue` are too short for it.
- `libsce_agc.rs`, `sceAgcSuspendPoint`, "wait until all previously submitted GPU work
  has completed": a suspended or parked buffer counts as finished, which is what
  `IdleIsIdle` says. A buffer resumed in the re-check after a flush leaves the writes of
  its dispatches to the next flush.
- `agc_exec.rs`, shutdown, "so no queued PM4 work can retain guest pointers past process
  teardown": the in-flight count covers submissions only. A queued flip, its flush and
  the re-check after it, which resumes buffers, may run after shutdown has returned
  (`ShutdownIsLast` is about submissions); a second caller returns at once.

### Bounds

`Threads` is 3 where queue order or a third party matters (a holder, a waiter and
an arrival; three first users of one mutex) and the liveness graph allows it, 2
elsewhere. With 2 threads the semaphores, the event flag and the address wait still
have their third party: a handler that interrupts a waiting thread posts, signals,
sets, wakes or deletes while its own wait and the other thread's are pending. The
condition variable with 2 threads has a waiter and a signaller; two waiters, and with
them the order of signals, are left to `WakesSpentWell` of the address waits, whose queue
is the same code (`GuestWaitQueue`).
`MaxRecursion = 2` and `MaxDepth = 2` tell a nested hold from a single one.
`MaxCount = 2` tells a signal that fits from one that passes the ceiling.
`MaxRaises = 2` gives a raise that is replaced and one that arrives after a claim.
`MaxObjects` is 2 for the semaphore (a waiter on the old object, a post to the new
one), with `MaxValue = 1` the post that is refused, and 3 for mutexes, with three handles
(a creation, a re-init and an object that a handle gets of its own, or a second re-init
with two old handles left). `MaxHandle = 3` gives two workers, enough for a
circle of joins and for a create that races a join, and `Codes` one code apart from
the zero a plain return reports. One submission (`MaxSubmits = 1`) of two requests
(`MaxBatch = 2`) has a request queued, one in work and one done; submissions share
only the engine lock and the retired ring, whose eviction `Evict` takes at any moment.
`MaxTriggers = 2` gives a trigger during the delivery of another, `Batch = 1` a
queue with more pending events than the caller's array. The event flag has one wait
mode, all bits with `clear_pattern`, which takes bits away from other waiters; the
other modes differ in `is_satisfied` and `apply_clear` only. In `GpuQueue` the graphics
ring waits for a label the compute ring releases and has a second buffer to park, whose
dispatch the compute ring waits for in turn; one label is also stored by a guest.
`Depth = 1` (8 in the code) fills the channel with one item, `FramesInFlight = 1` (2)
makes a second flip block, `MaxPasses = 4` (64) exceeds the resumes three buffers can
need, `DeadRounds = 3` (1024) lets a wait be found unmet and satisfied afterwards as
well as given up. `Makes` says which thread makes which calls: both submit, one also
stores, the other flips and waits. One fault (`MaxFaults = 1`) comes at every point of
every walk and flush. One object per model:
the code keeps no order between objects, except that all objects of a class share
the host lock, and a notify for another object is a spurious wake, which
`SliceEnds` covers. Symmetry over threads (and events) is used only where no
liveness is checked.

## 4. Proofs

Every theorem is about the specification the runs check, for every value of its
constants that satisfies the `ASSUME`s of its module; those ask for no more than
distinct names for nobody (`NoThread \notin Threads` and the like), positive limits
where the code's are positive, and finitely many threads where threads are counted
(`ExceptionDelivery`, `PosixSem`, `GpuQueue`). The bounds that only keep TLC's graphs
finite (`MaxRaises`, `MaxObjects`, `MaxHandle`, `MaxFlips`, `MaxFaults` and so on) are
arbitrary in the proofs. Each proof has the same plan: an inductive invariant, a lemma
that `Init` implies it, a lemma with one step per action that `Next` preserves it, and
the properties as consequences.

| Module | Theorem | States |
|---|---|---|
| `PthreadProofs` | `MutexInvariant` | `Spec => []MutexInv`, from `TypeCorrect`, `MutualExclusion`, `NoStrandedWaiter`, `OwnerDeathRecovered` |
| | `HandoffRaceResolved`, `FifoHandoff` | `HandoffExact`, `HandoffIsFifo` |
| | `Refinement` | `Spec => ImplementsReentrantLock` |
| | `MutexRefinement` | `CondSpec => MutexUnderCond`, so all theorems on the mutex hold below condition waits |
| | `NoWakeLost`, `ReturnsHolding`, `SignalWins` | `CondInv`, `WaitReturnsHolding`, `SignalBeatsTimeout` |
| | `RwlockCountsExact` | `RwSpec => []RwInv` |
| | `TableIsOneMutex` | `TableSpec => []TableInv` |
| `WaitGateProofs` | `NoNotifyMissed` | `SemInv` |
| | `NoSetMissed` | `FlagInv` |
| | `NoTriggerMissed`, `WaitsEndForAReason` | `QueueInv`, `NeverEmptyHanded` |
| `SyncOnAddressProofs` | `NoWakeLost`, `WakesWellSpent` | `SyncInv`, `WakesSpentWell` |
| `PosixSemProofs` | `DeliveryUnderSemaphores` | `PosixSpec => Spec`: with semaphore calls in and around its handlers a thread still follows `ExceptionDelivery` |
| | `NewestRaiseSafe`, `DeliveriesNeverNest`, `NoPostLost` | `NewestRaiseKept`, `DeliveriesExclusive`, `PosixInv` |
| `ThreadLifecycleProofs` | `WorkersNeverLost`, `TeardownComplete` | `LifeInv`, `TeardownReaps` |
| `AioProofs` | `AioAccountsExact`, `ReportsAreDelivered` | `AioInv`, `ResultsBeforeReport` |
| `GpuQueueProofs` | `GpuInvariant`, `RingsInOrder` | `GpuInv`, `RingOrder` |
| | `ResumesGenuine`, `IdleMeansIdle` | `ResumedGenuinely`, `IdleIsIdle` |

*Mutex.* `IInv` is `TypeOK`, no duplicates in the queue, `FreeMeansNoWaiters`,
`HandoffExact` and `Bookkeeping`. `HoldersAgree` is not inductive: a thread that was
granted the mutex but has not yet noticed is the owner and holds nothing, and only
`HandoffExact` (a thread inside its lock call is queued, or it is the owner and its
wake bit is set, never both) says that the grant it later observes is still its own.
That in turn needs the queue to be free of duplicates, or a cancelled or granted
thread could still be in it; `FreeMeansNoWaiters` is what lets an arrival take a free
mutex without overtaking anybody. `Bookkeeping` says what each thread was told in
terms of the kernel's record. The three actions that end in `try_grant_head` share the
lemmas `GrantFree` and `HandOver`. For the refinement, every action that answers OK is
an `Acquire`, `Unlock` is a `Release`, the death of a holder is an `Abandon`, and all
else leaves `held` alone.

*Condition variable.* Every action is a step of the mutex or leaves it alone, which
brings `IInv` over without a second proof. `CondIInv` adds `CallShape` to `CondInv`: a
thread asleep in a wait is in no lock call, and the lock call a wait makes has no
deadline, so it can give up only because of termination. `ReturnsHolding` needs both:
the only other way out of the relock would be a timeout.

*Kernel semaphore.* `SemInv` speaks of parked waiters, but the count is changed without
the lock, so the state to worry about is the one before the park. `ShortCovered` says
it: if a thread that has looked and not yet parked could go on after all, whoever made
it so still owes its notify, and cannot pay it before the lock is released. `WantKept`
keeps the need of a thread while a handler runs inside its wait.

*Event flag.* `FlagIInv` follows the semaphore: `ShortFlagCovered` is `ShortCovered` for
bit patterns. A wait that succeeds or a poll may clear bits without notifying anybody; that is
right because taking bits away satisfies nobody (`ClearingSatisfiesNobody`).

*Event queue.* `QueueIInv` adds `ShortQueueCovered`, where the events and the undrained
effects are what a waiter may miss, and `NumberInv` for `DeliveredOnce`. Triggers are
numbered, and a number is in an event's payload, in an effect published or drained, in
a batch being delivered, or delivered. A delivery reports what `newest` held when the
batch was copied, so that no number comes twice is a statement on all these places:
none is ahead of the numbers given and an event whose flag is set has one that nobody
delivered (`NumbersGiven`), an effect's number is not yet its
event's (`EffectsUntouched`), and the effects in the FIFO and in each thread's hand have
numbers of their own (`EffectsDistinct`).

*Read-write lock.* The count is compared with a set of shares, one pair of a thread and
a hold for each it has or owes, instead of a sum. That makes `ReadersExact` a statement
on a cardinality: `RwIInv` adds that the set is finite, a step of one thread adds or
removes one pair (`OneShareChanges`) or leaves the set alone, as the death of a thread
does, which moves its holds from what it has to what it owes (`NoShareChanges`), and no induction over the threads is needed.
`DyingGivesBack` says that only a dying thread owes holds, and has none left recorded.

*Mutex table.* `KeysAgree` and `OneMutex` say little about a call on its way, whose steps
read the table, guest memory and the table again. `TableIInv` says, outside `split`, three
things. `KeysSound` is the table at any time, also between slot write and alias: only the
slot holds a handle, and two keys lead to one object only if they are the slot and that
handle, so that the keys a re-init or a destroy by handle leaves behind are harmless.
`AliasMeant` gives the reasons for which the handle in the slot may lead nowhere: its
creator is about to insert it or it was destroyed by name. `CallLed` and `HoldLed` follow
a key to its object, with `Leads` for where the key leads once the alias is there: a call
looks further only for the slot's mutex, what it has found is what its key leads to, and
so is what a thread holds. Steps of a call leave the table alone (`LedKept`), except for
the creation and the alias; inits and destroys meet no call (`UnusedLed`), which is the
guest's contract `Unused` and the only place where the proof needs it.

*Asynchronous I/O.* `AioIInv` follows an outcome. Only a live submission has requests,
and its pending count is the cardinality of those without an outcome (`AccountsKept`); a
request a worker performs is running, unless its submission was deleted under it, and no
other worker has it (`JobsKept`), so that a report takes exactly one off the count. An
outcome is in its slot, in one thread's hands or in guest memory (`HandsKept`); a drain
takes outcomes, which are still in their slots, so nobody holds them. `CallsKept` carries
what a thread has read across its own steps: a final state stays final while the
submission lives, so the drain after it leaves nothing behind in the slots, which is
`ReportsAreDelivered` once `Deliver` has been shown to be the only step that ends the
call. That nobody sleeps for good takes `notify_all` in each of the three places that
make a submission final (the last report, a cancel, a delete).

*Address waits.* `SyncInv` is inductive as it stands. The work is in the queue: a wake
takes a prefix (`WaiterFifoProofs`), so a thread is queued or taken and never both.

*Exceptions and POSIX semaphores.* `ExcIInv` adds to the two properties where a
thread's handler frame and mark may be (`PlacesMeant`) and that a queued raise is the
newest and a claimed one the newest unless a newer is queued (`RaisesMeant`). It is
proved of `ExceptionDelivery` and carried to `PosixSem` by `DeliveryUnderSemaphores`.
`PosixIInv` adds `FramesMeant`: a frame without a call is empty, and a thread that
delivers is not also asleep. `PostsReachWaiters` compares a count with a cardinality;
the lemmas on `At` say by how much each step changes the set of waiters awake.

*Thread lifecycle.* `LifeIInv` is `LifeCore` with `TeardownReaps` and `ExitCodeExact`.
`LifeCore` says who holds the lifecycle lock (`LockHeld`), what a create or join is
about (`ArgsMeant`, `HandlesFresh`), that the table is closed once drained
(`TableClosed`), who owns a worker's handle and memory (`WorkersOwned`,
`SlotsExclusive`) and where the winner's code is between the two steps of an exit
(`CodeOnItsWay`). `ReapDone` is the one step that reaches `done` (`DoneIsFinal`): there
every live worker's handle is with a joiner, and a joiner takes one handle only, so by
counting (`JoinsClose`) the live workers are all joiners of live workers, which is the
circle of `TeardownReaps`.

*GPU queue.* `GpuIInv` has fourteen parts in five groups.
Types and places: `Types`, `BuffersMeant`, `CallsMeant` (who is sending has the
lifecycle lock and the session is open), `WorkMeant`, `FlushesAnswered`.
Shutdown: `ClosingMeant`, `ShutdownIsLast`. Counting: `CountsExact` with the lemmas on
how each step changes the counted sets. Order: `AllKept` (each admitted buffer is begun,
parked, in the channel or being sent) and `InOrder` (begun, parked and queued numbers
follow one another, so the next number of a ring is the one at its first item), with
`ParkedMeant`; every step leaves the buffers where they are or lets one of them flow
on, and the lemmas treat the ways it can flow once for both rings. Waits: `LatchesMeant` (what
a walk writes is recorded until the walk ends and then latched in the waits it
satisfies) and `PassesMeant` (the last pass of a re-check resumed nothing, so no latched
wait is left) give `NoLostRelease`; neither does alone, since the label may be reset at
once. `IdlesMeant` carries what `wait_idle` saw at a count of zero to the moment it
returns, which takes `CountsExact` and the order of the channel.

With TLC only, and why: all liveness, since the prover does not do fairness or
`ENABLED`. Every invariant and every action property that a run checks is also a theorem.

## 5. What the models leave out

- Condition variables and read-write locks are created once: their init, destroy and
  aliases are not modelled, nor are attribute objects and handle quotas. The mutex's
  are, in `MutexTable`.
- A handler run inside a wait may call the producers of the same object and may end
  its thread. It starts a second wait on the same object in `PosixSem`, not in the
  other modules.
- Asynchronous I/O: the plural forms over several ids are loops over the modelled
  calls (wait-any blocks on its ids in order and takes a new deadline for each), a
  failed write of the new id to guest memory and the engine's shutdown are left out,
  and file contents are not modelled.
- Mutex table: a second slot (two slots share only the allocator), the contents of a
  fresh allocation, and an init or destroy while another thread is in a call or holds
  the mutex, which is the guest's error.
- GPU queue: the error path of the readback flush (`agc_exec.rs:1441`: pending writes
  are discarded with a warning and the re-check follows as after a success), which has
  no action of its own; the synchronous flip (`RAEEN_ASYNC_FLIP=0`), what a flush presents and the
  scanout snapshots, a panic of a walk that runs inline, and what a packet does beyond
  its labels. Two rings; the label a wait compares is satisfied or not.
- Teardown: fibers, the loader's part of process start, and what the main thread does
  after `execute_process_shared` returns.
- Write failures to guest memory appear where they change state (event delivery,
  exception context, the compare of an address wait), elsewhere the call fails
  without effect.
- The flips and end-of-pipe interrupts among the GPU effects take the path of the
  event effects and are not told apart. The overflow cap of that queue is not
  reached.
- Diagnostics, contention reports, host timer resolution and spin budgets. A spin
  is a state from which the wake bit may be seen or the budget run out.
- Memory ordering: accesses are sequentially consistent. The relaxed counter of
  pending exceptions can only be staler than modelled.

## 6. Plan

Done: mutex, condition variable, read-write lock, the three gated kernel objects,
address waits and exceptions, because everything else stands on them; then POSIX
semaphores composed with exceptions, the mutex table, the thread lifecycle,
asynchronous I/O and the GPU submission queue.

Models still to write, in order:

1. The alias tables of condition variables and read-write locks, as `MutexTable`.
2. `VideoOut` (`libsce_video_out.rs`, `host_vblank.rs`): the flip queue and the
   events it triggers, composed with `EventQueue`.
3. `FrameIpc` (`frame_ipc.rs`): the seqlock over which frames go to the shell, whose
   single writer an inline flush and the worker's can both be; then handle quotas and
   memory tables.

No safety property of the runs is left without a proof; what each of these models adds
should come with its own.

Still to check: the liveness of event queue waits, whose graph with two waiters is too large
as the model stands, the condition variable with a second waiter, and the remaining
wait modes of the event flag.
