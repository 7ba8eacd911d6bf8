------------------------------- MODULE EventQueue ------------------------------
(***************************************************************************)
(* sceKernelCreateEqueue and its events (raeen-hle/src/kernel_equeue.rs),  *)
(* together with the hand-off of GPU side effects that feeds it            *)
(* (raeen-gpu/src/ordered_side_effects.rs, gpu_side_effect_waker.rs and    *)
(* apply_ordered_gpu_side_effects of libsce_agc.rs).  One queue.           *)
(*                                                                         *)
(* Producers change the event table without the notification lock and then *)
(* take it to notify; a waiter collects the triggered events under that    *)
(* lock and clears them one by one as it writes them to guest memory.  The *)
(* GPU worker only publishes: its effects become triggers when some guest  *)
(* thread drains the hand-off queue, in a wait or in a submit.             *)
(***************************************************************************)
EXTENDS WaitGate, FiniteSets, Sequences

CONSTANTS Events,      \* event identifiers
          Worker,      \* the GPU worker, a host thread that runs no guest code
          Timeouts,    \* the timeouts guests pass: subset of Limits
          Batch,       \* capacity of a waiter's event array
          MaxTriggers  \* bound: triggers and published effects, together

ASSUME WorkerAssumption == Worker \in Threads
ASSUME TimeoutsAssumption == Timeouts \subseteq {"none", "future", "passed"}
ASSUME BatchAssumption == Batch \in Nat \ {0} /\ MaxTriggers \in Nat

VARIABLES queueLive,  \* the queue is in kernel_equeues
          registered, \* its events in kernel_equeue_events
          triggered,  \* those pending
          newest,     \* the trigger whose payload each event carries, or 0
          batch,      \* what the waiter in "delivering" has collected, else 0
          delivered,  \* the last trigger of each event written to a guest
          effects,    \* PENDING: published, not drained
          hand,       \* effects each thread has drained and not applied
          clock       \* triggers and effects so far

queueVars == <<queueLive, registered, triggered, newest, batch, delivered, effects,
               hand, clock>>
queueAllVars == <<gateVars, queueVars>>

Guests == Threads \ {Worker}
Numbers == 0..MaxTriggers
Effect == (1..MaxTriggers) \X Events
NoBatch == [e \in Events |-> 0]
Collected == {e \in Events : batch[e] # 0}

(***************************************************************************)
(* Type invariant; a batch exists only while its collector holds the lock. *)
(***************************************************************************)
QueueTypeOK ==
    /\ GateTypeOK
    /\ queueLive \in BOOLEAN
    /\ registered \subseteq Events
    /\ triggered \subseteq registered
    /\ newest \in [Events -> Numbers]
    /\ batch \in [Events -> Numbers]
    /\ Collected # {} => gate # NoThread /\ gpc[gate] = "delivering"
    /\ delivered \in [Events -> Numbers]
    /\ effects \in Seq(Effect)
    /\ hand \in [Guests -> Seq(Effect)]
    /\ clock \in Numbers

QueueInit ==
    /\ GateInit
    /\ queueLive = TRUE
    /\ registered \in SUBSET Events
    /\ triggered = {}
    /\ newest = [e \in Events |-> 0]
    /\ batch = NoBatch
    /\ delivered = [e \in Events |-> 0]
    /\ effects = <<>>
    /\ hand = [t \in Guests |-> <<>>]
    /\ clock = 0

-------------------------------------------------------------------------------
(***************************************************************************)
(* A guest thread that may make a call: nothing drained is left to apply.  *)
(***************************************************************************)
Calling(t) == Running(t) /\ hand[t] = <<>>

(***************************************************************************)
(* Registering replaces the entry, and with it a trigger still pending.    *)
(***************************************************************************)
AddEvent(t, e) ==
    /\ Calling(t)
    /\ queueLive
    /\ registered' = registered \cup {e}
    /\ triggered' = triggered \ {e}
    /\ newest' = [newest EXCEPT ![e] = 0]
    /\ UNCHANGED <<gateVars, queueLive, batch, delivered, effects, hand, clock>>

DeleteEvent(t, e) ==
    /\ Calling(t)
    /\ e \in registered
    /\ registered' = registered \ {e}
    /\ triggered' = triggered \ {e}
    /\ UNCHANGED <<gateVars, queueLive, newest, batch, delivered, effects, hand,
                   clock>>

DeleteQueue(t) ==
    /\ Calling(t)
    /\ queueLive
    /\ queueLive' = FALSE
    /\ registered' = {}
    /\ triggered' = {}
    /\ OweNotify(t)
    /\ UNCHANGED <<newest, batch, delivered, effects, hand, clock>>

(***************************************************************************)
(* Event e becomes pending with payload n.                                 *)
(***************************************************************************)
MarkPending(e, n) ==
    /\ triggered' = triggered \cup {e}
    /\ newest' = [newest EXCEPT ![e] = n]

Trigger(t, e) ==
    /\ Calling(t)
    /\ e \in registered
    /\ clock < MaxTriggers
    /\ clock' = clock + 1
    /\ MarkPending(e, clock')
    /\ OweNotify(t)
    /\ UNCHANGED <<queueLive, registered, batch, delivered, effects, hand>>

-------------------------------------------------------------------------------
(***************************************************************************)
(* Faulty variant: a publish wakes nobody, as before the waker existed.    *)
(***************************************************************************)
PublishSilently(e) ==
    /\ Worker \notin notifying
    /\ clock < MaxTriggers
    /\ clock' = clock + 1
    /\ effects' = Append(effects, <<clock', e>>)
    /\ UNCHANGED <<gateVars, queueLive, registered, triggered, newest, batch,
                   delivered, hand>>

(***************************************************************************)
(* The GPU worker publishes an effect, then wakes every queue.             *)
(***************************************************************************)
Publish(e) ==
    /\ Worker \notin notifying
    /\ clock < MaxTriggers
    /\ clock' = clock + 1
    /\ effects' = Append(effects, <<clock', e>>)
    /\ OweNotify(Worker)
    /\ UNCHANGED <<queueLive, registered, triggered, newest, batch, delivered, hand>>

(***************************************************************************)
(* drain: take everything published, in a submit or a VideoOut call.       *)
(***************************************************************************)
Drain(t) ==
    /\ gpc[t] = "guest"
    /\ Calling(t)
    /\ effects # <<>>
    /\ hand' = [hand EXCEPT ![t] = effects]
    /\ effects' = <<>>
    /\ UNCHANGED <<gateVars, queueLive, registered, triggered, newest, batch,
                   delivered, clock>>

(***************************************************************************)
(* Apply the oldest drained effect: trigger the event, if it is            *)
(* registered, and wake the queue.                                         *)
(***************************************************************************)
Apply(t) ==
    /\ hand[t] # <<>>
    /\ t \notin notifying
    /\ hand' = [hand EXCEPT ![t] = Tail(@)]
    /\ LET n == Head(hand[t])[1]
           e == Head(hand[t])[2]
       IN  IF e \in registered
             THEN MarkPending(e, n) /\ OweNotify(t)
             ELSE UNCHANGED <<gateVars, triggered, newest>>
    /\ UNCHANGED <<queueLive, registered, batch, delivered, effects, clock>>

-------------------------------------------------------------------------------
QueueWaitCall(t, lim) ==
    /\ gpc[t] = "guest"
    /\ Calling(t)
    /\ queueLive
    /\ limit' = [limit EXCEPT ![t] = lim]
    /\ At(t, "top")
    /\ UNCHANGED <<gate, notifying, terminating, queueLive, registered, triggered,
                   newest, batch, delivered, effects, hand, clock>>

(***************************************************************************)
(* Head of the loop: the drain.                                            *)
(***************************************************************************)
TopDrain(t) ==
    /\ gpc[t] = "top"
    /\ hand' = [hand EXCEPT ![t] = effects]
    /\ effects' = <<>>
    /\ At(t, "drained")
    /\ UNCHANGED <<gate, notifying, limit, terminating, queueLive, registered,
                   triggered, newest, batch, delivered, clock>>

Idle(t) == hand[t] = <<>> /\ t \notin notifying

(***************************************************************************)
(* The drained effects are applied; a pending exception is delivered, or   *)
(* the bounded wait starts.                                                *)
(***************************************************************************)
QueueDeliver(t) ==
    /\ gpc[t] = "drained"
    /\ Idle(t)
    /\ ~terminating
    /\ At(t, "handler")
    /\ UNCHANGED <<gate, notifying, limit, terminating, queueVars>>

QueueStartsSlice(t) ==
    /\ gpc[t] \in {"drained", "handler"}
    /\ Idle(t)
    /\ At(t, "entering")
    /\ UNCHANGED <<gate, notifying, limit, terminating, queueVars>>

QueueEnter(t) == gpc[t] = "entering" /\ TakeGate(t) /\ UNCHANGED queueVars

QueueReadyDeleted(t) ==
    /\ gpc[t] = "checking"
    /\ ~queueLive
    /\ EndWait(t)
    /\ UNCHANGED <<queueLive, registered, triggered, newest, batch, delivered,
                   effects, hand, clock>>

(***************************************************************************)
(* Collect as many pending events as the guest's array holds, with the     *)
(* payloads they have now.                                                 *)
(***************************************************************************)
Collect(t) ==
    /\ gpc[t] = "checking"
    /\ queueLive
    /\ triggered # {}
    /\ \E S \in SUBSET triggered :
         /\ Cardinality(S) = (IF Cardinality(triggered) < Batch
                                THEN Cardinality(triggered) ELSE Batch)
         /\ batch' = [e \in Events |-> IF e \in S THEN newest[e] ELSE 0]
    /\ At(t, "delivering")
    /\ UNCHANGED <<gate, notifying, limit, terminating, queueLive, registered,
                   triggered, newest, delivered, effects, hand,
                   clock>>

(***************************************************************************)
(* Write one event to the guest, then clear its pending flag.              *)
(***************************************************************************)
DeliverEvent(t, e) ==
    /\ gpc[t] = "delivering"
    /\ e \in Collected
    /\ delivered' = [delivered EXCEPT ![e] = batch[e]]
    /\ triggered' = triggered \ {e}
    /\ batch' = [batch EXCEPT ![e] = 0]
    /\ UNCHANGED <<gateVars, queueLive, registered, newest, effects, hand,
                   clock>>

(***************************************************************************)
(* The guest's array is not writable: the rest of the batch stays pending. *)
(***************************************************************************)
DeliverFaults(t) ==
    /\ gpc[t] = "delivering"
    /\ Collected # {}
    /\ batch' = NoBatch
    /\ EndWait(t)
    /\ UNCHANGED <<queueLive, registered, triggered, newest, delivered, effects,
                   hand, clock>>

DeliverDone(t) ==
    /\ gpc[t] = "delivering"
    /\ Collected = {}
    /\ EndWait(t)
    /\ UNCHANGED <<queueLive, registered, triggered, newest, batch, delivered,
                   effects, hand, clock>>

(***************************************************************************)
(* Nothing triggered, but effects to drain: out of the wait, without the   *)
(* lock, and round the loop.                                               *)
(***************************************************************************)
ReadyEffects(t) ==
    /\ gpc[t] = "checking"
    /\ queueLive
    /\ triggered = {}
    /\ effects # <<>>
    /\ gate' = NoThread
    /\ At(t, "top")
    /\ UNCHANGED <<notifying, limit, terminating, queueVars>>

NothingReady(t) ==
    gpc[t] = "checking" /\ queueLive /\ triggered = {} /\ effects = <<>>

QueueWaitTerminates(t) ==
    /\ NothingReady(t)
    /\ terminating
    /\ EndWait(t)
    /\ UNCHANGED <<queueLive, registered, triggered, newest, batch, delivered,
                   effects, hand, clock>>

QueueNotReady(t) ==
    /\ NothingReady(t)
    /\ ~terminating
    /\ At(t, "short")
    /\ UNCHANGED <<gate, notifying, limit, terminating, queueVars>>

(***************************************************************************)
(* Faulty variant: the end of a slice is reported as the guest's timeout.  *)
(***************************************************************************)
QueueSliceOverIsTimeout(t) ==
    /\ gpc[t] = "short"
    /\ EndWait(t)
    /\ UNCHANGED <<queueLive, registered, triggered, newest, batch, delivered,
                   effects, hand, clock>>

(***************************************************************************)
(* The slice is used up: the guest's timeout if its deadline has come,     *)
(* another turn of the loop otherwise.                                     *)
(***************************************************************************)
QueueSliceOver(t) ==
    /\ gpc[t] = "short"
    /\ IF DeadlineReached(t)
         THEN EndWait(t)
         ELSE /\ gate' = NoThread
              /\ At(t, "top")
              /\ UNCHANGED <<notifying, limit, terminating>>
    /\ UNCHANGED <<queueLive, registered, triggered, newest, batch, delivered,
                   effects, hand, clock>>

QueueGateStep(t) ==
    /\ Park(t) \/ SliceEnds(t) \/ Notify(t) \/ DeadlinePasses(t)
    /\ UNCHANGED queueVars

QueueEnds(t) == Calling(t) /\ ThreadEnds(t) /\ UNCHANGED queueVars

QueueTerminate == BeginTermination /\ UNCHANGED queueVars

QueueNext ==
    \/ \E t \in Guests :
         \/ \E e \in Events :
              \/ AddEvent(t, e)
              \/ DeleteEvent(t, e)
              \/ Trigger(t, e)
              \/ DeliverEvent(t, e)
         \/ DeleteQueue(t)
         \/ Drain(t)
         \/ Apply(t)
         \/ \E lim \in Timeouts : QueueWaitCall(t, lim)
         \/ TopDrain(t)
         \/ QueueDeliver(t)
         \/ QueueStartsSlice(t)
         \/ QueueEnter(t)
         \/ QueueReadyDeleted(t)
         \/ Collect(t)
         \/ DeliverFaults(t)
         \/ DeliverDone(t)
         \/ ReadyEffects(t)
         \/ QueueWaitTerminates(t)
         \/ QueueNotReady(t)
         \/ QueueSliceOver(t)
         \/ QueueEnds(t)
    \/ \E t \in Threads : QueueGateStep(t)
    \/ \E e \in Events : Publish(e)
    \/ QueueTerminate

QueueSpec == QueueInit /\ [][QueueNext]_queueAllVars

-------------------------------------------------------------------------------
(***************************************************************************)
(* What a waiter is to come out of its park for.                           *)
(***************************************************************************)
Observable == ~queueLive \/ triggered # {} \/ effects # <<>>

(***************************************************************************)
(* No lost wakeup: a waiter is never left parked on a pending event, on    *)
(* published GPU effects or on a deleted queue, unless a producer is still *)
(* on its way to the notify.                                               *)
(***************************************************************************)
NoMissedTrigger ==
    \A t \in Guests : gpc[t] = "parked" /\ Observable => notifying # {}

(***************************************************************************)
(* One trigger is handed to a guest at most once, however many threads     *)
(* wait on the queue and however often it is re-triggered meanwhile: what  *)
(* a waiter has collected has not been delivered before.                   *)
(***************************************************************************)
DeliveredOnce == \A e \in Collected : batch[e] # delivered[e]

(***************************************************************************)
(* The invariant of the event queue: its types, that no producer, the GPU  *)
(* worker included, leaves a waiter parked on what it produced, and that   *)
(* no trigger is handed out twice.                                         *)
(***************************************************************************)
QueueInv == QueueTypeOK /\ NoMissedTrigger /\ DeliveredOnce

(***************************************************************************)
(* No wait comes back empty-handed: it returns with collected events, from *)
(* a deleted queue, in a terminating process, or at its own deadline.      *)
(* Slices, handlers, drained effects and spurious wakes never end it.      *)
(***************************************************************************)
NeverEmptyHanded ==
    [][ \A t \in Guests :
          (InWait(t) /\ gpc'[t] = "guest")
            => \/ gpc[t] = "delivering"
               \/ ~queueLive
               \/ terminating
               \/ limit[t] = "passed" ]_queueAllVars
===============================================================================
