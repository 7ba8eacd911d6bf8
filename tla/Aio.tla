--------------------------------- MODULE Aio ---------------------------------
(***************************************************************************)
(* Asynchronous file I/O: the engine of crates/raeen-kernel/src/aio.rs     *)
(* and the sceKernelAio* calls of crates/raeen-hle/src/kernel_aio.rs.      *)
(*                                                                         *)
(* A submission is a batch of requests under one id.  Host workers perform *)
(* the requests and leave outcomes in the submission; guest threads drain  *)
(* the outcomes and deliver them to guest memory when they poll, wait for, *)
(* cancel or delete the id.  Every engine operation holds the engine lock  *)
(* and is one action; a guest call is several of them with the delivery,   *)
(* which no lock covers, in between.                                       *)
(***************************************************************************)
EXTENDS Naturals, Sequences, FiniteSets

CONSTANTS Threads,     \* guest threads
          Workers,     \* host workers of the engine
          MaxSubmits,  \* bound: submissions in a behaviour
          MaxBatch     \* bound: requests in a submission

ASSUME MaxSubmitsAssumption == MaxSubmits \in Nat
ASSUME MaxBatchAssumption == MaxBatch \in Nat \ {0}

Ids == 1..MaxSubmits
Indexes == 1..MaxBatch

VARIABLES made,         \* submissions so far
          phase,        \* none, live, retired or evicted
          state,        \* state of a submission, kept when it is retired
          slot,         \* its requests
          pending,      \* Submission::pending
          cancelled,    \* Submission::cancelled
          queue,        \* FIFO of requests to perform
          job,          \* the request each worker performs
          result,       \* SceKernelAioResult of each request in guest memory
          call,         \* the call each guest thread is in
          terminating   \* process_is_terminating

engine == <<made, phase, state, slot, pending, cancelled, queue>>
aioVars == <<engine, job, result, call, terminating>>

-------------------------------------------------------------------------------
(***************************************************************************)
(* A request is queued, running, has an outcome (completed or aborted) or  *)
(* is drained.                                                             *)
(***************************************************************************)
Outcomes == {"completed", "aborted"}
SlotStates == {"none", "queued", "running", "drained"} \cup Outcomes
Terminal == {"COMPLETED", "ABORTED"}
States == {"NONE", "SUBMITTED", "PROCESSING"} \cup Terminal

(***************************************************************************)
(* slice, look, parked, expired: wait_terminal and the engine's wait       *)
(* drain, deliver:               a call that reports the state it has read *)
(* lateDrain, lateDeliver:       a wait that timed out                     *)
(* delDrain, remove, delDeliver: delete, after its cancel                  *)
(***************************************************************************)
Places == {"idle", "slice", "look", "parked", "expired", "drain", "deliver",
           "lateDrain", "lateDeliver", "delDrain", "remove", "delDeliver"}
AfterDrain == [drain |-> "deliver", lateDrain |-> "lateDeliver", delDrain |-> "remove"]
InWait == {"slice", "look", "parked", "expired"}

NoCall == [at |-> "idle", id |-> 0, limit |-> "none", state |-> "NONE", took |-> {}]
NoJob == <<0, 0>>

AioInit ==
    /\ made = 0
    /\ phase = [d \in Ids |-> "none"]
    /\ state = [d \in Ids |-> "NONE"]
    /\ slot = [d \in Ids |-> [i \in Indexes |-> "none"]]
    /\ pending = [d \in Ids |-> 0]
    /\ cancelled = [d \in Ids |-> FALSE]
    /\ queue = <<>>
    /\ job = [w \in Workers |-> NoJob]
    /\ result = [d \in Ids |-> [i \in Indexes |-> "none"]]
    /\ call = [t \in Threads |-> NoCall]
    /\ terminating = FALSE

In(t, p) == call[t].at = p
Goto(t, p) == call' = [call EXCEPT ![t].at = p]
Return(t) == call' = [call EXCEPT ![t] = NoCall]
WaitOver(t, final) == call' = [call EXCEPT ![t].at = "drain", ![t].limit = "none", ![t].state = final]
TimedOut(t) == call' = [call EXCEPT ![t].at = "lateDrain", ![t].limit = "none"]

(***************************************************************************)
(* done_cv.notify_all: every parked waiter, whatever its id, looks again.  *)
(***************************************************************************)
Notified == [t \in Threads |->
               IF In(t, "parked") THEN [call[t] EXCEPT !.at = "look"] ELSE call[t]]

-------------------------------------------------------------------------------
(***************************************************************************)
(* Submit a batch of n requests: their results start as SUBMITTED.         *)
(***************************************************************************)
Submit(t, n) ==
    /\ In(t, "idle")
    /\ made < MaxSubmits
    /\ LET d == made + 1 IN
         /\ made' = d
         /\ phase' = [phase EXCEPT ![d] = "live"]
         /\ state' = [state EXCEPT ![d] = "SUBMITTED"]
         /\ slot' = [slot EXCEPT ![d] = [i \in Indexes |-> IF i <= n THEN "queued" ELSE "none"]]
         /\ pending' = [pending EXCEPT ![d] = n]
         /\ queue' = queue \o [i \in 1..n |-> <<d, i>>]
         /\ result' = [result EXCEPT ![d] =
                         [i \in Indexes |-> IF i <= n THEN "submitted" ELSE "none"]]
    /\ UNCHANGED <<cancelled, job, call, terminating>>

(***************************************************************************)
(* A worker takes the oldest work item.  One whose submission was deleted  *)
(* or whose request was cancelled is skipped.                              *)
(***************************************************************************)
WorkerPops(w) ==
    /\ job[w] = NoJob
    /\ queue # <<>>
    /\ queue' = Tail(queue)
    /\ LET d == Head(queue)[1]
           i == Head(queue)[2] IN
       IF phase[d] = "live" /\ slot[d][i] = "queued"
         THEN /\ job' = [job EXCEPT ![w] = <<d, i>>]
              /\ slot' = [slot EXCEPT ![d][i] = "running"]
              /\ state' = [state EXCEPT ![d] = "PROCESSING"]
         ELSE UNCHANGED <<job, slot, state>>
    /\ UNCHANGED <<made, phase, pending, cancelled, result, call, terminating>>

(***************************************************************************)
(* The request has been performed, with success or an error.  The last one *)
(* gives the submission its final state and wakes the waiters; the outcome *)
(* of a deleted submission is dropped.                                     *)
(***************************************************************************)
WorkerFinishes(w, outcome) ==
    /\ job[w] # NoJob
    /\ job' = [job EXCEPT ![w] = NoJob]
    /\ LET d == job[w][1]
           i == job[w][2] IN
       IF phase[d] # "live"
         THEN UNCHANGED <<slot, pending, state, call>>
         ELSE /\ slot' = [slot EXCEPT ![d][i] = outcome]
              /\ pending' = [pending EXCEPT ![d] = @ - 1]
              /\ IF pending[d] = 1
                   THEN /\ state' = [state EXCEPT ![d] =
                                       IF cancelled[d] THEN "ABORTED" ELSE "COMPLETED"]
                        /\ call' = Notified
                   ELSE UNCHANGED <<state, call>>
    /\ UNCHANGED <<made, phase, cancelled, queue, result, terminating>>

-------------------------------------------------------------------------------
(***************************************************************************)
(* What poll answers: an evicted id is unknown.                            *)
(***************************************************************************)
Known(d) == phase[d] \in {"live", "retired"}

PollCall(t, d) ==
    /\ In(t, "idle")
    /\ Known(d)
    /\ call' = [call EXCEPT ![t] = [NoCall EXCEPT !.at = "drain", !.id = d, !.state = state[d]]]
    /\ UNCHANGED <<engine, job, result, terminating>>

(***************************************************************************)
(* AioEngine::cancel aborts what no worker has started.  If nothing is     *)
(* left running the submission is final; next is where the caller goes.    *)
(***************************************************************************)
Cancelled(t, d, next) ==
    LET queued == {i \in Indexes : slot[d][i] = "queued"}
        left == pending[d] - Cardinality(queued) IN
    IF phase[d] # "live" \/ state[d] \in Terminal
      THEN /\ call' = [call EXCEPT ![t] = next]
           /\ UNCHANGED <<slot, pending, cancelled, state>>
      ELSE /\ slot' = [slot EXCEPT ![d] =
                         [i \in Indexes |-> IF i \in queued THEN "aborted" ELSE slot[d][i]]]
           /\ pending' = [pending EXCEPT ![d] = left]
           /\ cancelled' = [cancelled EXCEPT ![d] = @ \/ queued # {}]
           /\ state' = [state EXCEPT ![d] = IF left = 0 THEN "ABORTED" ELSE @]
           /\ call' = [(IF left = 0 THEN Notified ELSE call) EXCEPT ![t] = next]

(***************************************************************************)
(* The state a cancel answers is the one it leaves.                        *)
(***************************************************************************)
StateAfterCancel(d) ==
    IF /\ phase[d] = "live"
       /\ state[d] \notin Terminal
       /\ \A i \in Indexes : slot[d][i] # "running"
      THEN "ABORTED" ELSE state[d]

CancelCall(t, d) ==
    /\ In(t, "idle")
    /\ Known(d)
    /\ Cancelled(t, d, [NoCall EXCEPT !.at = "drain", !.id = d, !.state = StateAfterCancel(d)])
    /\ UNCHANGED <<made, phase, queue, job, result, terminating>>

DeleteCall(t, d) ==
    /\ In(t, "idle")
    /\ Known(d)
    /\ Cancelled(t, d, [NoCall EXCEPT !.at = "delDrain", !.id = d])
    /\ UNCHANGED <<made, phase, queue, job, result, terminating>>

-------------------------------------------------------------------------------
(***************************************************************************)
(* Faulty variant: only the outcomes of requests that ran are handed out.  *)
(***************************************************************************)
DrainSkipsAborted(t) ==
    /\ call[t].at \in {"drain", "lateDrain", "delDrain"}
    /\ LET d == call[t].id
           ready == {i \in Indexes : phase[d] = "live" /\ slot[d][i] = "completed"} IN
         /\ slot' = [slot EXCEPT ![d] =
                       [i \in Indexes |-> IF i \in ready THEN "drained" ELSE slot[d][i]]]
         /\ call' = [call EXCEPT ![t].took = {<<i, slot[d][i]>> : i \in ready},
                                 ![t].at = AfterDrain[@]]
    /\ UNCHANGED <<made, phase, state, pending, cancelled, queue,
                   job, result, terminating>>

(***************************************************************************)
(* drain_completions: every outcome not handed out yet, exactly once.      *)
(***************************************************************************)
Drain(t) ==
    /\ call[t].at \in {"drain", "lateDrain", "delDrain"}
    /\ LET d == call[t].id
           ready == {i \in Indexes : phase[d] = "live" /\ slot[d][i] \in Outcomes} IN
         /\ slot' = [slot EXCEPT ![d] =
                       [i \in Indexes |-> IF i \in ready THEN "drained" ELSE slot[d][i]]]
         /\ call' = [call EXCEPT ![t].took = {<<i, slot[d][i]>> : i \in ready},
                                 ![t].at = AfterDrain[@]]
    /\ UNCHANGED <<made, phase, state, pending, cancelled, queue,
                   job, result, terminating>>

(***************************************************************************)
(* Faulty variant: the waiters of a deleted id are not woken.              *)
(***************************************************************************)
RemoveSilently(t) ==
    /\ In(t, "remove")
    /\ LET d == call[t].id IN
       IF phase[d] # "live"
         THEN /\ Return(t)
              /\ UNCHANGED <<phase, state, slot, pending, cancelled>>
         ELSE /\ phase' = [phase EXCEPT ![d] = "retired"]
              /\ state' = [state EXCEPT ![d] = IF pending[d] > 0 THEN "ABORTED" ELSE @]
              /\ slot' = [slot EXCEPT ![d] = [i \in Indexes |-> "none"]]
              /\ pending' = [pending EXCEPT ![d] = 0]
              /\ cancelled' = [cancelled EXCEPT ![d] = FALSE]
              /\ Goto(t, "delDeliver")
    /\ UNCHANGED <<made, queue, job, result, terminating>>

(***************************************************************************)
(* The rest of delete: the submission goes, its final state is remembered  *)
(* and waiters of the id are woken.  A second delete of the id finds       *)
(* nothing and answers ESRCH; what it drained is dropped.                  *)
(***************************************************************************)
Remove(t) ==
    /\ In(t, "remove")
    /\ LET d == call[t].id IN
       IF phase[d] # "live"
         THEN /\ Return(t)
              /\ UNCHANGED <<phase, state, slot, pending, cancelled>>
         ELSE /\ phase' = [phase EXCEPT ![d] = "retired"]
              /\ state' = [state EXCEPT ![d] = IF pending[d] > 0 THEN "ABORTED" ELSE @]
              /\ slot' = [slot EXCEPT ![d] = [i \in Indexes |-> "none"]]
              /\ pending' = [pending EXCEPT ![d] = 0]
              /\ cancelled' = [cancelled EXCEPT ![d] = FALSE]
              /\ call' = [Notified EXCEPT ![t].at = "delDeliver"]
    /\ UNCHANGED <<made, queue, job, result, terminating>>

(***************************************************************************)
(* RETIRED_CAP later deletes, of ids this model does not follow, push the  *)
(* id out of the ring of remembered ones.                                  *)
(***************************************************************************)
Evict(d) ==
    /\ phase[d] = "retired"
    /\ phase' = [phase EXCEPT ![d] = "evicted"]
    /\ state' = [state EXCEPT ![d] = "NONE"]
    /\ UNCHANGED <<made, slot, pending, cancelled, queue, job, result, call, terminating>>

(***************************************************************************)
(* deliver_completions: data and result structs go to guest memory, and    *)
(* the call returns with the state it took before the drain.  Only a wait  *)
(* that timed out reads the state for its caller after the delivery.       *)
(***************************************************************************)
Deliver(t) ==
    /\ call[t].at \in {"deliver", "lateDeliver", "delDeliver"}
    /\ result' = [result EXCEPT ![call[t].id] =
                    [i \in Indexes |->
                       IF \E o \in Outcomes : <<i, o>> \in call[t].took
                         THEN CHOOSE o \in Outcomes : <<i, o>> \in call[t].took
                         ELSE result[call[t].id][i]]]
    /\ Return(t)
    /\ UNCHANGED <<engine, job, terminating>>

-------------------------------------------------------------------------------
(***************************************************************************)
(* sceKernelAioWaitRequest.                                                *)
(***************************************************************************)
WaitCall(t, d, limit) ==
    /\ In(t, "idle")
    /\ call' = [call EXCEPT ![t] = [NoCall EXCEPT !.at = "slice", !.id = d, !.limit = limit]]
    /\ UNCHANGED <<engine, job, result, terminating>>

(***************************************************************************)
(* The engine's wait: a final or retired state is taken, an unknown id     *)
(* ends the call with ESRCH, otherwise the thread sleeps on done_cv.       *)
(***************************************************************************)
Look(t) ==
    LET d == call[t].id IN
    IF ~Known(d) THEN Return(t)
    ELSE IF phase[d] = "retired" \/ state[d] \in Terminal
      THEN WaitOver(t, state[d])
      ELSE Goto(t, "parked")

(***************************************************************************)
(* The head of wait_terminal's loop: ETIMEDOUT once the deadline passed.   *)
(***************************************************************************)
SliceStarts(t) ==
    /\ In(t, "slice")
    /\ IF call[t].limit = "passed" THEN TimedOut(t) ELSE Look(t)
    /\ UNCHANGED <<engine, job, result, terminating>>

WokenLooks(t) ==
    /\ In(t, "look")
    /\ Look(t)
    /\ UNCHANGED <<engine, job, result, terminating>>

SliceExpires(t) ==
    /\ In(t, "parked")
    /\ Goto(t, "expired")
    /\ UNCHANGED <<engine, job, result, terminating>>

(***************************************************************************)
(* Faulty variant: an expired slice of an untimed wait never looks at      *)
(* termination.                                                            *)
(***************************************************************************)
ExpiredIgnoresTermination(t) ==
    /\ In(t, "expired")
    /\ LET d == call[t].id IN
       IF phase[d] = "live" /\ state[d] \notin Terminal
         THEN Goto(t, "slice")
         ELSE WaitOver(t, IF phase[d] = "live" THEN state[d] ELSE "ABORTED")
    /\ UNCHANGED <<engine, job, result, terminating>>

(***************************************************************************)
(* After a slice that timed out the state is looked at once more: a        *)
(* submission that is gone is taken for aborted; one that is not final     *)
(* ends the wait if the process terminates and is waited for again if not. *)
(***************************************************************************)
ExpiredLooks(t) ==
    /\ In(t, "expired")
    /\ LET d == call[t].id IN
       IF phase[d] = "live" /\ state[d] \notin Terminal
         THEN IF terminating THEN TimedOut(t) ELSE Goto(t, "slice")
         ELSE WaitOver(t, IF phase[d] = "live" THEN state[d] ELSE "ABORTED")
    /\ UNCHANGED <<engine, job, result, terminating>>

LimitPasses(t) ==
    /\ call[t].limit = "future"
    /\ call' = [call EXCEPT ![t].limit = "passed"]
    /\ UNCHANGED <<engine, job, result, terminating>>

BeginTermination ==
    /\ ~terminating
    /\ terminating' = TRUE
    /\ UNCHANGED <<engine, job, result, call>>

-------------------------------------------------------------------------------
WaitStep(t) == SliceStarts(t) \/ WokenLooks(t) \/ SliceExpires(t) \/ ExpiredLooks(t)

CallStep(t) ==
    \/ WaitStep(t)
    \/ Drain(t)
    \/ Remove(t)
    \/ Deliver(t)

WorkerStep(w) ==
    \/ WorkerPops(w)
    \/ \E outcome \in Outcomes : WorkerFinishes(w, outcome)

AioNext ==
    \/ \E t \in Threads :
         \/ \E n \in Indexes : Submit(t, n)
         \/ \E d \in Ids :
              \/ PollCall(t, d)
              \/ CancelCall(t, d)
              \/ DeleteCall(t, d)
              \/ \E limit \in {"none", "future"} : WaitCall(t, d, limit)
         \/ CallStep(t)
         \/ LimitPasses(t)
    \/ \E w \in Workers : WorkerStep(w)
    \/ \E d \in Ids : Evict(d)
    \/ BeginTermination

AioSpec == AioInit /\ [][AioNext]_aioVars

(***************************************************************************)
(* Fairness.  Guest calls and host workers run; the host's file I/O ends.  *)
(***************************************************************************)
CallFairness == \A t \in Threads : WF_aioVars(CallStep(t))
WorkerFairness == \A w \in Workers : WF_aioVars(WorkerStep(w))
AioFairSpec == AioSpec /\ CallFairness

-------------------------------------------------------------------------------
Held(d, i) == {t \in Threads : call[t].id = d /\ \E o \in Outcomes : <<i, o>> \in call[t].took}

CallRecord == [at : Places, id : 0..MaxSubmits, limit : {"none", "future", "passed"},
               state : States, took : SUBSET (Indexes \X Outcomes)]

(***************************************************************************)
(* Every variable has its type.                                            *)
(***************************************************************************)
AioTypeOK ==
    /\ made \in 0..MaxSubmits
    /\ phase \in [Ids -> {"none", "live", "retired", "evicted"}]
    /\ state \in [Ids -> States]
    /\ slot \in [Ids -> [Indexes -> SlotStates]]
    /\ pending \in [Ids -> 0..MaxBatch]
    /\ cancelled \in [Ids -> BOOLEAN]
    /\ queue \in Seq(Ids \X Indexes)
    /\ job \in [Workers -> (Ids \X Indexes) \cup {NoJob}]
    /\ result \in [Ids -> [Indexes -> {"none", "submitted"} \cup Outcomes]]
    /\ call \in [Threads -> CallRecord]
    /\ terminating \in BOOLEAN

(***************************************************************************)
(* The engine's accounts hold through cancels, deletes and late workers:   *)
(* a live submission counts exactly the requests without an outcome, is    *)
(* final exactly when none is left, no two workers perform one request, an *)
(* outcome is in the hands of at most one guest thread and not yet in      *)
(* guest memory, and nobody sleeps on done_cv for a submission that is     *)
(* final or gone, which no later notify_all would announce.                *)
(***************************************************************************)
AioInv ==
    /\ AioTypeOK
    /\ \A d \in Ids : phase[d] = "live" =>
         /\ pending[d] = Cardinality({i \in Indexes : slot[d][i] \in {"queued", "running"}})
         /\ (state[d] \in Terminal) <=> (pending[d] = 0)
    /\ \A v, w \in Workers : v # w /\ job[v] # NoJob => job[v] # job[w]
    /\ \A d \in Ids, i \in Indexes :
         Held(d, i) # {} => Cardinality(Held(d, i)) = 1 /\ result[d][i] = "submitted"
    /\ \A t \in Threads : In(t, "parked") =>
         phase[call[t].id] = "live" /\ state[call[t].id] \notin Terminal

(***************************************************************************)
(* A poll, wait or cancel that returns with a final state of a submission  *)
(* still live leaves each of its results in guest memory or in the hands   *)
(* of another thread that is delivering it: the state is read before the   *)
(* outcomes are drained, so none can appear in between unnoticed, and a    *)
(* cancel that overtakes a worker delivers the requests it aborted too.    *)
(***************************************************************************)
ResultsBeforeReport ==
    [][\A t \in Threads :
         LET d == call[t].id IN
         In(t, "deliver") /\ In(t, "idle")' /\ call[t].state \in Terminal /\ phase[d] = "live" =>
           \A i \in Indexes : slot[d][i] # "none" =>
             result'[d][i] \in Outcomes \/ Held(d, i) \ {t} # {}]_aioVars

(***************************************************************************)
(* No wait is held hostage.  One whose deadline has passed, or that is in  *)
(* progress when the process terminates, ends though the host's I/O may    *)
(* never finish; if it does finish every wait ends, deleted or cancelled   *)
(* while it sleeps or not.                                                 *)
(***************************************************************************)
AioWaitReturns ==
    /\ \A t \in Threads :
         (call[t].at \in InWait /\ (terminating \/ call[t].limit = "passed"))
           ~> (call[t].at \notin InWait)
    /\ WorkerFairness => \A t \in Threads : (call[t].at \in InWait) ~> (call[t].at \notin InWait)

===============================================================================
