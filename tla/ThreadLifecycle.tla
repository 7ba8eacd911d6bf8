--------------------------- MODULE ThreadLifecycle ---------------------------
(***************************************************************************)
(* The guest threads of one process and its teardown: scePthreadCreate,    *)
(* Join, Detach, Exit, the exit family and terminate_and_reap              *)
(* (crates/raeen-runtime/src/thread.rs and lib.rs).                        *)
(*                                                                         *)
(* The main thread runs on the launcher's host thread; a worker is a host  *)
(* thread whose JoinHandle sits in the `threads` table until a joiner or   *)
(* the teardown takes it.  `lifecycle` is a host lock: a create holds it   *)
(* from its termination check to the insertion of the record, the teardown *)
(* holds it from the drain of the table to the end.  The table itself has  *)
(* a lock that is held for one action at a time.                           *)
(***************************************************************************)
EXTENDS Naturals, FiniteSets

CONSTANTS MaxHandle,  \* bound on the handles next_thread gives out
          Slots,      \* guest memory for one worker: its stack and TCB
          NoSlot,
          Codes       \* exit codes the guest passes

ASSUME MaxHandleAssumption == MaxHandle \in Nat \ {0}
ASSUME NoSlotAssumption == NoSlot \notin Slots
ASSUME CodesAssumption == Codes \subseteq Nat

None == 0
Main == 1
Workers == 2..MaxHandle
Threads == 1..MaxHandle

VARIABLES st,          \* where each thread is
          arg,         \* the handle a create or a join is about
          next,        \* GuestProcess::next_thread
          record,      \* the table: does the record still hold its JoinHandle
          detached,    \* workers whose record is marked detached
          lifecycle,   \* holder of the lifecycle lock
          slotOf,      \* guest memory allocated to each worker
          registered,  \* OrbisKernel::guest_thread_stacks
          failed,      \* workers whose run ended in a fault
          terminating, \* GuestProcess::terminating
          exitCode,    \* GuestProcess::exit_code
          code,        \* exit code each thread is passing
          won,         \* history: code of the request that set terminating
          reap,        \* workers whose handle the teardown took
          requested,   \* an exit was requested before the main thread left
          report       \* what execute_process_shared returns

threadTable == <<next, record, detached>>
memory == <<slotOf, registered>>
exitState == <<terminating, exitCode, code, won>>
mainState == <<reap, requested, report>>
lifeVars == <<st, arg, threadTable, lifecycle, memory, failed, exitState, mainState>>

-------------------------------------------------------------------------------
(***************************************************************************)
(* guest:     running guest code between calls                             *)
(* create, alloc, spawn, record: the steps of scePthreadCreate; create is  *)
(*            the wait for the lifecycle lock                              *)
(* joining:   in the host join of arg                                      *)
(* exit:      in a call of the exit family, termination not requested yet  *)
(* store:     set terminating, has not stored its exit code yet            *)
(* unborn, starting, exiting, unregistered, ended: a worker's host thread  *)
(* left, begin, fallback, lock, reaping, done: the main thread's teardown  *)
(***************************************************************************)
Creating == {"alloc", "spawn", "record"}
GuestPcs == {"guest", "create", "joining", "exit", "store"} \cup Creating
WorkerPcs == GuestPcs \cup {"unborn", "starting", "exiting", "unregistered", "ended"}
MainPcs == GuestPcs \cup {"left", "begin", "fallback", "lock", "reaping", "done"}
Live(w) == st[w] \notin {"unborn", "ended"}

LifeInit ==
    /\ st = [t \in Threads |-> IF t = Main THEN "guest" ELSE "unborn"]
    /\ arg = [t \in Threads |-> None]
    /\ next = 2
    /\ record = [w \in Workers |-> "absent"]
    /\ detached = {}
    /\ lifecycle = None
    /\ slotOf = [w \in Workers |-> NoSlot]
    /\ registered = [w \in Workers |-> NoSlot]
    /\ failed = {}
    /\ terminating = FALSE
    /\ exitCode = 0
    /\ code = [t \in Threads |-> 0]
    /\ won = 0
    /\ reap = {}
    /\ requested = FALSE
    /\ report = 0

Goto(t, p) == st' = [st EXCEPT ![t] = p]

(***************************************************************************)
(* Every import call traps into the dispatcher, which looks at the         *)
(* termination flag before it runs the handler and again before it goes    *)
(* back to guest code: a terminating process gets no further call, and a   *)
(* thread that returns to one leaves guest code instead.                   *)
(***************************************************************************)
Calls(t) == st[t] = "guest" /\ ~terminating

Leaving(t) == IF t = Main THEN "left" ELSE "exiting"

Resume(t) == Goto(t, IF terminating THEN Leaving(t) ELSE "guest")

-------------------------------------------------------------------------------
(***************************************************************************)
(* scePthreadCreate.  The caller waits for the lifecycle lock; nothing     *)
(* ends that wait but the lock.                                            *)
(***************************************************************************)
CreateCall(t) ==
    /\ Calls(t)
    /\ next <= MaxHandle
    /\ Goto(t, "create")
    /\ UNCHANGED <<arg, threadTable, lifecycle, memory, failed, exitState, mainState>>

(***************************************************************************)
(* Under the lock a terminating process answers EAGAIN, invalid arguments  *)
(* and an exhausted arena answer EINVAL or EAGAIN; the lock is dropped.    *)
(***************************************************************************)
CreateEnter(t) ==
    /\ st[t] = "create"
    /\ lifecycle = None
    /\ IF terminating
         THEN /\ Resume(t)
              /\ UNCHANGED lifecycle
         ELSE /\ Goto(t, "alloc")
              /\ lifecycle' = t
    /\ UNCHANGED <<arg, threadTable, memory, failed, exitState, mainState>>

CreateRefused(t) ==
    /\ st[t] = "alloc"
    /\ Resume(t)
    /\ lifecycle' = None
    /\ UNCHANGED <<arg, threadTable, memory, failed, exitState, mainState>>

(***************************************************************************)
(* Stack and TCB are allocated and a handle is drawn.                      *)
(***************************************************************************)
CreateAlloc(t, s) ==
    /\ st[t] = "alloc"
    /\ next <= MaxHandle
    /\ \A w \in Workers : slotOf[w] # s
    /\ slotOf' = [slotOf EXCEPT ![next] = s]
    /\ arg' = [arg EXCEPT ![t] = next]
    /\ next' = next + 1
    /\ Goto(t, "spawn")
    /\ UNCHANGED <<record, detached, lifecycle, registered, failed, exitState, mainState>>

CreateSpawn(t) ==
    /\ st[t] = "spawn"
    /\ st' = [st EXCEPT ![t] = "record", ![arg[t]] = "starting"]
    /\ UNCHANGED <<arg, threadTable, lifecycle, memory, failed, exitState, mainState>>

(***************************************************************************)
(* The host refuses the thread: its closure never runs, so the creator     *)
(* frees the memory.                                                       *)
(***************************************************************************)
SpawnFails(t) ==
    /\ st[t] = "spawn"
    /\ slotOf' = [slotOf EXCEPT ![arg[t]] = NoSlot]
    /\ arg' = [arg EXCEPT ![t] = None]
    /\ Resume(t)
    /\ lifecycle' = None
    /\ UNCHANGED <<threadTable, registered, failed, exitState, mainState>>

(***************************************************************************)
(* The record is inserted while the worker may already be running or gone. *)
(***************************************************************************)
CreateRecord(t, d) ==
    /\ st[t] = "record"
    /\ record' = [record EXCEPT ![arg[t]] = "joinable"]
    /\ detached' = IF d THEN detached \cup {arg[t]} ELSE detached
    /\ arg' = [arg EXCEPT ![t] = None]
    /\ lifecycle' = None
    /\ Resume(t)
    /\ UNCHANGED <<next, memory, failed, exitState, mainState>>

-------------------------------------------------------------------------------
(***************************************************************************)
(* scePthreadJoin takes the JoinHandle out of the record.  Joining oneself *)
(* (refused by the dispatcher), an unknown, detached or already joined     *)
(* thread returns an error and changes nothing.                            *)
(***************************************************************************)
JoinCall(t, w) ==
    /\ Calls(t)
    /\ w # t
    /\ record[w] = "joinable"
    /\ w \notin detached
    /\ record' = [record EXCEPT ![w] = "taken"]
    /\ arg' = [arg EXCEPT ![t] = w]
    /\ Goto(t, "joining")
    /\ UNCHANGED <<next, detached, lifecycle, memory, failed, exitState, mainState>>

(***************************************************************************)
(* Faulty variant: the joiner of a faulted worker waits for a result that  *)
(* never comes.                                                            *)
(***************************************************************************)
JoinMissesFault(t) ==
    /\ st[t] = "joining"
    /\ st[arg[t]] = "ended"
    /\ arg[t] \notin failed
    /\ record' = [record EXCEPT ![arg[t]] = "absent"]
    /\ detached' = detached \ {arg[t]}
    /\ arg' = [arg EXCEPT ![t] = None]
    /\ Resume(t)
    /\ UNCHANGED <<next, lifecycle, memory, failed, exitState, mainState>>

(***************************************************************************)
(* The host join returns when the worker has ended.  A faulted worker      *)
(* gives EINVAL and its record stays, without a handle.                    *)
(***************************************************************************)
JoinReturns(t) ==
    /\ st[t] = "joining"
    /\ st[arg[t]] = "ended"
    /\ IF arg[t] \in failed
         THEN UNCHANGED <<record, detached>>
         ELSE /\ record' = [record EXCEPT ![arg[t]] = "absent"]
              /\ detached' = detached \ {arg[t]}
    /\ arg' = [arg EXCEPT ![t] = None]
    /\ Resume(t)
    /\ UNCHANGED <<next, lifecycle, memory, failed, exitState, mainState>>

(***************************************************************************)
(* Faulty variant: detaching drops the JoinHandle, as POSIX would.         *)
(***************************************************************************)
DetachDropsHandle(t, w) ==
    /\ Calls(t)
    /\ record[w] # "absent"
    /\ w \notin detached
    /\ detached' = detached \cup {w}
    /\ record' = [record EXCEPT ![w] = "taken"]
    /\ Resume(t)
    /\ UNCHANGED <<arg, next, lifecycle, memory, failed, exitState, mainState>>

(***************************************************************************)
(* scePthreadDetach, also by the worker itself: the guest can no longer    *)
(* join it, the runtime keeps the handle.                                  *)
(***************************************************************************)
Detach(t, w) ==
    /\ Calls(t)
    /\ record[w] # "absent"
    /\ w \notin detached
    /\ detached' = detached \cup {w}
    /\ Resume(t)
    /\ UNCHANGED <<arg, next, record, lifecycle, memory, failed, exitState, mainState>>

-------------------------------------------------------------------------------
(***************************************************************************)
(* The worker's host thread publishes its stack before guest code runs.    *)
(***************************************************************************)
WorkerStarts(w) ==
    /\ st[w] = "starting"
    /\ registered' = [registered EXCEPT ![w] = slotOf[w]]
    /\ Goto(w, "guest")
    /\ UNCHANGED <<arg, threadTable, lifecycle, slotOf, failed, exitState, mainState>>

(***************************************************************************)
(* Guest code ends: the entry returns, scePthreadExit, a fault, or the     *)
(* first safe point at which the process is terminating.  The locks it     *)
(* still owns are released here (ThreadExit of the lock modules).          *)
(***************************************************************************)
WorkerLeaves(w, f) ==
    /\ w # Main
    /\ st[w] = "guest"
    /\ failed' = IF f THEN failed \cup {w} ELSE failed
    /\ Goto(w, "exiting")
    /\ UNCHANGED <<arg, threadTable, lifecycle, memory, exitState, mainState>>

(***************************************************************************)
(* The stack registration goes before the memory is given back.            *)
(***************************************************************************)
Unregister(w) ==
    /\ st[w] = "exiting"
    /\ registered' = [registered EXCEPT ![w] = NoSlot]
    /\ Goto(w, "unregistered")
    /\ UNCHANGED <<arg, threadTable, lifecycle, slotOf, failed, exitState, mainState>>

WorkerEnds(w) ==
    /\ st[w] = "unregistered"
    /\ slotOf' = [slotOf EXCEPT ![w] = NoSlot]
    /\ Goto(w, "ended")
    /\ UNCHANGED <<arg, threadTable, lifecycle, registered, failed, exitState, mainState>>

-------------------------------------------------------------------------------
(***************************************************************************)
(* begin_termination(c) by t, first half: one request wins the exchange.   *)
(* The winner goes on to store its code at p, a loser goes to q.           *)
(***************************************************************************)
BeginTermination(t, c, p, q) ==
    IF terminating
      THEN /\ Goto(t, q)
           /\ UNCHANGED <<terminating, won>>
      ELSE /\ Goto(t, p)
           /\ terminating' = TRUE
           /\ won' = c

(***************************************************************************)
(* exit, _exit, exit_group, sceKernelExit: the calling thread requests     *)
(* termination and leaves guest code.                                      *)
(***************************************************************************)
ExitCall(t, c) ==
    /\ Calls(t)
    /\ code' = [code EXCEPT ![t] = c]
    /\ Goto(t, "exit")
    /\ UNCHANGED <<arg, threadTable, lifecycle, memory, failed, terminating, exitCode, won, mainState>>

ProcessExit(t) ==
    /\ st[t] = "exit"
    /\ BeginTermination(t, code[t], "store", Leaving(t))
    /\ UNCHANGED <<arg, threadTable, lifecycle, memory, failed, exitCode, code, mainState>>

StoreCode(t) ==
    /\ st[t] = "store"
    /\ exitCode' = code[t]
    /\ Goto(t, Leaving(t))
    /\ UNCHANGED <<arg, threadTable, lifecycle, memory, failed, terminating, code, won, mainState>>

(***************************************************************************)
(* The Shell quits the session: request_termination(0).  The code equals   *)
(* the initial value of exit_code, so its store needs no step of its own.  *)
(***************************************************************************)
ShellQuits ==
    /\ ~terminating
    /\ terminating' = TRUE
    /\ won' = 0
    /\ UNCHANGED <<st, arg, threadTable, lifecycle, memory, failed, exitCode, code, mainState>>

(***************************************************************************)
(* The main thread leaves guest code by returning, by a fault or at a safe *)
(* point; c is the fallback code of its result.                            *)
(***************************************************************************)
MainLeaves(c) ==
    /\ st[Main] = "guest"
    /\ code' = [code EXCEPT ![Main] = c]
    /\ Goto(Main, "left")
    /\ UNCHANGED <<arg, threadTable, lifecycle, memory, failed, terminating, exitCode, won, mainState>>

LookRequested ==
    /\ st[Main] = "left"
    /\ requested' = terminating
    /\ Goto(Main, "begin")
    /\ UNCHANGED <<arg, threadTable, lifecycle, memory, failed, exitState, reap, report>>

(***************************************************************************)
(* terminate_and_reap begins with the code of the main thread, unless      *)
(* another request has won.                                                *)
(***************************************************************************)
ReapBegins ==
    /\ st[Main] = "begin"
    /\ BeginTermination(Main, code[Main], "fallback", "lock")
    /\ UNCHANGED <<arg, threadTable, lifecycle, memory, failed, exitCode, code, mainState>>

StoreFallback ==
    /\ st[Main] = "fallback"
    /\ exitCode' = code[Main]
    /\ Goto(Main, "lock")
    /\ UNCHANGED <<arg, threadTable, lifecycle, memory, failed, terminating, code, won, mainState>>

(***************************************************************************)
(* Faulty variant: the table is drained without the lifecycle lock.        *)
(***************************************************************************)
DrainUnlocked ==
    /\ st[Main] = "lock"
    /\ reap' = {w \in Workers : record[w] = "joinable"}
    /\ record' = [w \in Workers |-> "absent"]
    /\ detached' = {}
    /\ Goto(Main, "reaping")
    /\ UNCHANGED <<arg, next, lifecycle, memory, failed, exitState, requested, report>>

(***************************************************************************)
(* Under the lifecycle lock the table is drained; the handles that are     *)
(* still in it are the teardown's to join, and the lock stays held.        *)
(***************************************************************************)
Drain ==
    /\ st[Main] = "lock"
    /\ lifecycle = None
    /\ lifecycle' = Main
    /\ reap' = {w \in Workers : record[w] = "joinable"}
    /\ record' = [w \in Workers |-> "absent"]
    /\ detached' = {}
    /\ Goto(Main, "reaping")
    /\ UNCHANGED <<arg, next, memory, failed, exitState, requested, report>>

(***************************************************************************)
(* Every taken handle is joined, the lock dropped, and the outcome chosen. *)
(***************************************************************************)
ReapDone ==
    /\ st[Main] = "reaping"
    /\ \A w \in reap : st[w] = "ended"
    /\ lifecycle' = None
    /\ report' = IF requested THEN exitCode ELSE code[Main]
    /\ Goto(Main, "done")
    /\ UNCHANGED <<arg, threadTable, memory, failed, exitState, reap, requested>>

-------------------------------------------------------------------------------
(***************************************************************************)
(* Steps a thread takes from guest code, and the steps of its host thread  *)
(* that follow without the guest's doing.                                  *)
(***************************************************************************)
GuestStep(t) ==
    \/ CreateCall(t)
    \/ \E w \in Workers : JoinCall(t, w) \/ Detach(t, w)
    \/ \E f \in BOOLEAN : WorkerLeaves(t, f)
    \/ \E c \in Codes : ExitCall(t, c)
    \/ t = Main /\ \E c \in {0, 1} : MainLeaves(c)

CallStep(t) ==
    \/ CreateEnter(t)
    \/ CreateRefused(t)
    \/ \E s \in Slots : CreateAlloc(t, s)
    \/ CreateSpawn(t)
    \/ SpawnFails(t)
    \/ \E d \in BOOLEAN : CreateRecord(t, d)
    \/ JoinReturns(t)
    \/ ProcessExit(t)
    \/ StoreCode(t)

WorkerStep(w) ==
    \/ WorkerStarts(w)
    \/ Unregister(w)
    \/ WorkerEnds(w)

TeardownStep ==
    \/ LookRequested
    \/ ReapBegins
    \/ StoreFallback
    \/ Drain
    \/ ReapDone

LifeNext ==
    \/ \E t \in Threads : GuestStep(t) \/ CallStep(t)
    \/ \E w \in Workers : WorkerStep(w)
    \/ ShellQuits
    \/ TeardownStep

LifeSpec == LifeInit /\ [][LifeNext]_lifeVars

-------------------------------------------------------------------------------
(***************************************************************************)
(* Fairness.  Host threads run, so every step of a call, of an ending      *)
(* worker and of the teardown that is enabled is taken; a create waiting   *)
(* for the lifecycle lock gets it when it is free again and again.         *)
(* SafePoints is the guest's part: a thread of a terminating process makes *)
(* a call or traps and leaves ("a trap-free worker intentionally keeps     *)
(* teardown waiting").                                                     *)
(***************************************************************************)
SafePoint(t) ==
    /\ terminating
    /\ IF t = Main THEN MainLeaves(0) ELSE WorkerLeaves(t, FALSE)

LifeFairness ==
    /\ \A t \in Threads : SF_lifeVars(CallStep(t))
    /\ \A w \in Workers : WF_lifeVars(WorkerStep(w))
    /\ \A t \in Threads : WF_lifeVars(SafePoint(t))
    /\ SF_lifeVars(TeardownStep)

LifeFairSpec == LifeSpec /\ LifeFairness

-------------------------------------------------------------------------------
(***************************************************************************)
(* Every variable has its type.                                            *)
(***************************************************************************)
LifeTypeOK ==
    /\ st \in [Threads -> WorkerPcs \cup MainPcs]
    /\ arg \in [Threads -> Workers \cup {None}]
    /\ next \in 2..(MaxHandle + 1)
    /\ record \in [Workers -> {"absent", "joinable", "taken"}]
    /\ detached \subseteq Workers
    /\ lifecycle \in Threads \cup {None}
    /\ slotOf \in [Workers -> Slots \cup {NoSlot}]
    /\ registered \in [Workers -> Slots \cup {NoSlot}]
    /\ failed \subseteq Workers
    /\ terminating \in BOOLEAN
    /\ reap \subseteq Workers
    /\ requested \in BOOLEAN

(***************************************************************************)
(* Who will wait for worker w: its record, the creator that is about to    *)
(* insert the record, the teardown that drained it, or a joiner.           *)
(***************************************************************************)
Creator(t, w) == st[t] = "record" /\ arg[t] = w
Joiner(t, w) == st[t] = "joining" /\ arg[t] = w

(***************************************************************************)
(* The runtime never loses a worker: whatever detach, join, a concurrent   *)
(* create and the drain of the table do, there is a party that holds or    *)
(* will hold the host handle of a live worker.                             *)
(***************************************************************************)
WorkersOwned ==
    \A w \in Workers :
      Live(w) => \/ record[w] = "joinable"
                 \/ w \in reap /\ st[Main] = "reaping"
                 \/ \E t \in Threads : Creator(t, w) \/ Joiner(t, w)

(***************************************************************************)
(* terminate_and_reap returns only when no worker runs guest code any      *)
(* more.  The one kind of worker that can be left is stuck in a host join  *)
(* whose target is stuck too: workers that join each other in a circle     *)
(* took each other's handles away from the table.                          *)
(***************************************************************************)
TeardownReaps ==
    st[Main] = "done" =>
      \A w \in Workers : Live(w) => st[w] = "joining" /\ Live(arg[w])

(***************************************************************************)
(* A registered stack is memory of that very worker and of no other, and   *)
(* when the process is torn down no stack is left allocated except those   *)
(* of the workers stuck in a circle of joins.                              *)
(***************************************************************************)
StacksExact ==
    /\ \A w \in Workers :
         registered[w] # NoSlot =>
           /\ slotOf[w] = registered[w]
           /\ \A v \in Workers \ {w} : slotOf[v] # registered[w]
    /\ st[Main] = "done" =>
         \A w \in Workers : slotOf[w] # NoSlot => st[w] = "joining"

(***************************************************************************)
(* The exit code that is reported is the one of the request that won, if   *)
(* there was one before the main thread left guest code, although the flag *)
(* and the code are set in two steps and others request exit meanwhile.    *)
(***************************************************************************)
ExitCodeExact == st[Main] = "done" /\ requested => report = won

(***************************************************************************)
(* The invariant of the table and of a process that ends: its types, no    *)
(* worker lost, no stack leaked or left registered, and the winner's code. *)
(***************************************************************************)
LifeInv == LifeTypeOK /\ WorkersOwned /\ StacksExact /\ ExitCodeExact

(***************************************************************************)
(* Teardown ends once every worker reaches a safe point, however the       *)
(* workers join each other, unless a worker waits in scePthreadCreate for  *)
(* the lifecycle lock.                                                     *)
(***************************************************************************)
TeardownEnds ==
    st[Main] = "reaping"
      ~> (st[Main] = "done" \/ \E w \in Workers : st[w] = "create")
===============================================================================
