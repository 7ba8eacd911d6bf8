------------------------------- MODULE PosixSem -------------------------------
(***************************************************************************)
(* POSIX semaphores, sem_* and scePthreadSem*                              *)
(* (crates/raeen-hle/src/posix_sem.rs), at one guest address, composed     *)
(* with exception delivery: a wait looks for a raise at its own thread in  *)
(* every slice and runs the handler in the middle of the wait, and the     *)
(* handler is guest code that uses semaphores too.                         *)
(*                                                                         *)
(* A call first resolves the address to a shared object, creating one on   *)
(* first touch, and then works on the object under its lock.  sem_init     *)
(* puts a new object in the table and sem_destroy removes the entry: calls *)
(* under way stay with the object they resolved.                           *)
(***************************************************************************)
EXTENDS ExceptionDelivery

CONSTANTS MaxObjects,  \* bound: objects made in a behaviour
          MaxValue     \* i64::MAX, past which a post is refused

ASSUME MaxObjectsAssumption == MaxObjects \in Nat \ {0}
ASSUME MaxValueAssumption == MaxValue \in Nat \ {0}

VARIABLES current,  \* the object in the table, or 0
          made,     \* objects made so far
          value,    \* count of each object
          frame     \* semaphore call of each thread, outside and inside its handler

semVars == <<current, made, value, frame>>
allVars == <<vars, semVars>>

-------------------------------------------------------------------------------
(***************************************************************************)
(* none:       no semaphore call                                           *)
(* post, try:  resolved, about to lock the object                          *)
(* wait:       the top of acquire's loop, about to lock the object         *)
(* parked:     asleep on the object                                        *)
(* deliver:    found a raise at its thread, lock dropped                   *)
(* delivering: in deliver_pending or in the handler it runs                *)
(***************************************************************************)
CallPcs == {"none", "post", "try", "wait", "parked", "deliver", "delivering"}
Objects == 1..MaxObjects
NoCall == [at |-> "none", obj |-> 0, limit |-> "none"]
Levels == 0..1

Calls == [at : CallPcs, obj : 0..MaxObjects, limit : {"none", "future", "passed"}]

PosixInit ==
    /\ Init
    /\ current = 0
    /\ made = 0
    /\ value = [o \in Objects |-> 0]
    /\ frame = [t \in Threads |-> [d \in Levels |-> NoCall]]

(***************************************************************************)
(* The call t is in, at the level it is running at.                        *)
(***************************************************************************)
Call(t) == frame[t][depth[t]]
InCall(t, p) == Call(t).at = p /\ pc[t] \in {"guest", "handler"} /\ sync[t] = "idle"
Idle(t) == InGuestCode(t) /\ Call(t).at = "none"
Moves(t, p) == frame' = [frame EXCEPT ![t][depth[t]].at = p]
Returns(t) == frame' = [frame EXCEPT ![t][depth[t]] = NoCall]

(***************************************************************************)
(* Threads parked on o, and threads that will look at o without a wake.    *)
(***************************************************************************)
At(p, o) == {t \in Threads : \E d \in Levels :
               d <= depth[t] /\ frame[t][d].at = p /\ frame[t][d].obj = o}

-------------------------------------------------------------------------------
(***************************************************************************)
(* sem_init, scePthreadSemInit: a new object with v counts replaces what   *)
(* is at the address.                                                      *)
(***************************************************************************)
SemInit(t, v) ==
    /\ Idle(t)
    /\ made < MaxObjects
    /\ made' = made + 1
    /\ current' = made + 1
    /\ value' = [value EXCEPT ![made + 1] = v]
    /\ UNCHANGED <<vars, frame>>

SemDestroy(t) ==
    /\ Idle(t)
    /\ current # 0
    /\ current' = 0
    /\ UNCHANGED <<vars, made, value, frame>>

(***************************************************************************)
(* semaphore(): an address without an object gets one with count 0.        *)
(***************************************************************************)
Resolve(t, p, limit) ==
    /\ Idle(t)
    /\ current # 0 \/ made < MaxObjects
    /\ IF current = 0
         THEN /\ made' = made + 1
              /\ current' = made + 1
         ELSE UNCHANGED <<made, current>>
    /\ frame' = [frame EXCEPT ![t][depth[t]] =
                   [at |-> p, obj |-> current', limit |-> limit]]
    /\ UNCHANGED <<vars, value>>

(***************************************************************************)
(* Faulty variant: the count is raised and nobody is notified.             *)
(***************************************************************************)
PostSilently(t) ==
    /\ InCall(t, "post")
    /\ LET o == Call(t).obj IN
         /\ value[o] < MaxValue
         /\ value' = [value EXCEPT ![o] = @ + 1]
         /\ Returns(t)
    /\ UNCHANGED <<vars, current, made>>

(***************************************************************************)
(* sem_post: one count and, under the same lock, one parked waiter woken.  *)
(***************************************************************************)
Post(t) ==
    /\ InCall(t, "post")
    /\ LET o == Call(t).obj IN
         \/ /\ value[o] = MaxValue
            /\ Returns(t)
            /\ UNCHANGED value
         \/ /\ value[o] < MaxValue
            /\ value' = [value EXCEPT ![o] = @ + 1]
            /\ IF At("parked", o) = {}
                 THEN Returns(t)
                 ELSE \E u \in At("parked", o) :
                        frame' = [frame EXCEPT ![t][depth[t]] = NoCall,
                                               ![u][depth[u]].at = "wait"]
    /\ UNCHANGED <<vars, current, made>>

TryWait(t) ==
    /\ InCall(t, "try")
    /\ LET o == Call(t).obj IN
         value' = [value EXCEPT ![o] = IF @ > 0 THEN @ - 1 ELSE @]
    /\ Returns(t)
    /\ UNCHANGED <<vars, current, made>>

-------------------------------------------------------------------------------
(***************************************************************************)
(* acquire's loop.  The object's lock is held from the look at the count   *)
(* to the sleep, so each pass is one action.  It looks at the count, at    *)
(* termination, at the raises of its own thread and at its deadline, in    *)
(* this order.                                                             *)
(***************************************************************************)
Empty(t) == InCall(t, "wait") /\ value[Call(t).obj] = 0

RaiseAtSelf(t) == count # 0 /\ pending[t] # 0

Take(t) ==
    /\ InCall(t, "wait")
    /\ value[Call(t).obj] > 0
    /\ value' = [value EXCEPT ![Call(t).obj] = @ - 1]
    /\ Returns(t)
    /\ UNCHANGED <<vars, current, made>>

Interrupted(t) ==
    /\ Empty(t)
    /\ terminating
    /\ Returns(t)
    /\ UNCHANGED <<vars, current, made, value>>

(***************************************************************************)
(* A raise at this thread: the lock is dropped, then deliver_pending looks *)
(* at the cached count and at termination again.                           *)
(***************************************************************************)
FindsRaise(t) ==
    /\ Empty(t)
    /\ ~terminating
    /\ RaiseAtSelf(t)
    /\ Moves(t, "deliver")
    /\ UNCHANGED <<vars, current, made, value>>

DeliverStarts(t) ==
    /\ InCall(t, "deliver")
    /\ SafePoint(t)
    /\ Moves(t, "delivering")
    /\ UNCHANGED <<current, made, value>>

DeliverSkipped(t) ==
    /\ InCall(t, "deliver")
    /\ count = 0 \/ terminating
    /\ Moves(t, "wait")
    /\ UNCHANGED <<vars, current, made, value>>

(***************************************************************************)
(* deliver_pending is over, with or without a handler run: the loop goes   *)
(* on from its top.                                                        *)
(***************************************************************************)
DeliverOver(t) ==
    /\ InCall(t, "delivering")
    /\ Moves(t, "wait")
    /\ UNCHANGED <<vars, current, made, value>>

TimesOut(t) ==
    /\ Empty(t)
    /\ ~terminating
    /\ ~RaiseAtSelf(t)
    /\ Call(t).limit = "passed"
    /\ Returns(t)
    /\ UNCHANGED <<vars, current, made, value>>

Park(t) ==
    /\ Empty(t)
    /\ ~terminating
    /\ ~RaiseAtSelf(t)
    /\ Call(t).limit # "passed"
    /\ Moves(t, "parked")
    /\ UNCHANGED <<vars, current, made, value>>

(***************************************************************************)
(* A park slice (at most 10 ms) ends without a post.                       *)
(***************************************************************************)
SliceEnds(t) ==
    /\ InCall(t, "parked")
    /\ Moves(t, "wait")
    /\ UNCHANGED <<vars, current, made, value>>

LimitPasses(t) ==
    \E d \in Levels :
      /\ frame[t][d].limit = "future"
      /\ frame' = [frame EXCEPT ![t][d].limit = "passed"]
      /\ UNCHANGED <<vars, current, made, value>>

-------------------------------------------------------------------------------
(***************************************************************************)
(* Exception delivery around and inside semaphore calls.                   *)
(***************************************************************************)
GuestException(t) ==
    /\ Idle(t)
    /\ \/ \E u \in Threads : Raise(t, u)
       \/ SafePoint(t)
    /\ UNCHANGED semVars

HandlerEnds(t) ==
    /\ Idle(t)
    /\ HandlerReturns(t)
    /\ UNCHANGED semVars

DeliveryStep(t) ==
    /\ \/ SyncReads(t)
       \/ SyncStores(t)
       \/ Claim(t)
       \/ NothingToClaim(t)
       \/ Defer(t)
       \/ Abandon(t)
       \/ RunHandler(t)
    /\ UNCHANGED semVars

(***************************************************************************)
(* The thread ends, possibly in a handler run inside a wait: the suspended *)
(* call goes with its stack.                                               *)
(***************************************************************************)
EndThread(t) ==
    /\ Idle(t)
    /\ ThreadExit(t)
    /\ frame' = [frame EXCEPT ![t] = [d \in Levels |-> NoCall]]
    /\ UNCHANGED <<current, made, value>>

Terminate ==
    /\ BeginTermination
    /\ UNCHANGED semVars

SemCall(t) ==
    \/ \E v \in 0..1 : SemInit(t, v)
    \/ SemDestroy(t)
    \/ \E p \in {"post", "try"} : Resolve(t, p, "none")
    \/ \E limit \in {"none", "future"} : Resolve(t, "wait", limit)

WaitStep(t) ==
    \/ Take(t)
    \/ Interrupted(t)
    \/ FindsRaise(t)
    \/ DeliverStarts(t)
    \/ DeliverSkipped(t)
    \/ DeliverOver(t)
    \/ TimesOut(t)
    \/ Park(t)
    \/ SliceEnds(t)

PosixNext ==
    \/ \E t \in Threads :
         \/ SemCall(t)
         \/ Post(t)
         \/ TryWait(t)
         \/ WaitStep(t)
         \/ LimitPasses(t)
         \/ GuestException(t)
         \/ HandlerEnds(t)
         \/ DeliveryStep(t)
         \/ EndThread(t)
    \/ Terminate

PosixSpec == PosixInit /\ [][PosixNext]_allVars

-------------------------------------------------------------------------------
(***************************************************************************)
(* No post is lost on a parked waiter: while threads sleep on an object,   *)
(* every count it has is matched by a waiter of that object that is awake  *)
(* and will take it, although waits leave the loop for handlers, slices    *)
(* end on their own and the object may have been replaced or destroyed     *)
(* since the waiters and the poster resolved it.                           *)
(***************************************************************************)
PostsReachWaiters ==
    \A o \in Objects :
      At("parked", o) # {} => value[o] <= Cardinality(At("wait", o))

(***************************************************************************)
(* Type invariant, with the frames a thread can have: a call outside the   *)
(* handler is suspended in its delivery while the handler runs.            *)
(***************************************************************************)
PosixTypeOK ==
    /\ ExceptionTypeOK
    /\ current \in 0..made
    /\ made \in 0..MaxObjects
    /\ value \in [Objects -> 0..MaxValue]
    /\ frame \in [Threads -> [Levels -> Calls]]
    /\ \A t \in Threads :
         /\ depth[t] = 0 => frame[t][1] = NoCall
         /\ depth[t] = 1 => frame[t][0].at \in {"none", "delivering"}

(***************************************************************************)
(* The semaphore keeps its types and its promise to parked waiters.        *)
(***************************************************************************)
PosixInv == PosixTypeOK /\ PostsReachWaiters
===============================================================================
