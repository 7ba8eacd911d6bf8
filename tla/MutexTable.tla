------------------------------ MODULE MutexTable ------------------------------
(***************************************************************************)
(* How a guest pthread_mutex_t is found: the pthread_mutexes table keyed   *)
(* by guest address, resolve_mutex, implicit creation on first touch,      *)
(* scePthreadMutexInit and Destroy (crates/raeen-hle/src/pthread_sync.rs). *)
(*                                                                         *)
(* A mutex is a guest word (the slot) holding a handle, the address of an  *)
(* opaque guest allocation.  Both addresses are keys of the table, so that *)
(* callers may pass either.  Single table operations are atomic; a lookup  *)
(* is up to three of them with a read of guest memory in between.          *)
(*                                                                         *)
(* The mutex behind an object is reduced to its owner: module PthreadMutex *)
(* has the rest.                                                           *)
(***************************************************************************)
EXTENDS Naturals, FiniteSets, GuestThreads

CONSTANTS Handles,    \* guest allocations for opaque mutex objects
          Slot,       \* the guest word
          MaxObjects  \* bound: state objects made in a behaviour

ASSUME KeysDistinct == Slot \notin Handles /\ 0 \notin Handles \cup {Slot}
ASSUME MaxObjectsAssumption == MaxObjects \in Nat

Keys == Handles \cup {Slot}
Objects == 1..MaxObjects

VARIABLES table,    \* OrbisKernel::pthread_mutexes: object of each key, or 0
          mem,      \* guest memory at each key: a handle or 0
          heap,     \* handles that are allocated
          made,     \* objects made so far
          holder,   \* owner of each object
          call,     \* the call each thread is in
          lockedAs, \* the key under which a thread has locked the mutex
          split,    \* history: a handle was given an object of its own
          gone      \* history: the handle in the slot was destroyed by name

mutexVars == <<table, mem, heap, made, holder, gone>>
tableVars == <<mutexVars, call, lockedAs, split>>

-------------------------------------------------------------------------------
(***************************************************************************)
(* probe, deref, alias: the steps of resolve_mutex                         *)
(* entry:   nothing found, about to open the table entry of its key        *)
(* publish: made the object, about to insert the alias of its handle       *)
(* acquire: has the object                                                 *)
(***************************************************************************)
NoCall == [at |-> "idle", op |-> "lock", key |-> Slot, handle |-> 0, obj |-> 0]

TableInit ==
    /\ table = [k \in Keys |-> 0]
    /\ mem = [k \in Keys |-> 0]
    /\ heap = {}
    /\ made = 0
    /\ holder = [o \in Objects |-> NoThread]
    /\ call = [t \in Threads |-> NoCall]
    /\ lockedAs = [t \in Threads |-> 0]
    /\ split = FALSE
    /\ gone = FALSE

In(t, p) == call[t].at = p
Answer(t) == call' = [call EXCEPT ![t] = NoCall]
Found(t, o) == call' = [call EXCEPT ![t].at = "acquire", ![t].obj = o]

-------------------------------------------------------------------------------
(***************************************************************************)
(* A guest passes the slot, the handle it reads in the slot, or a handle   *)
(* it read there before a re-init and has not destroyed; a holder unlocks  *)
(* under the key it locked with.  An unlock by a thread that holds nothing *)
(* is a guest's error that the code answers.                               *)
(***************************************************************************)
Passes(k) == k = Slot \/ k = mem[Slot] \/ table[k] # 0

LockCall(t, k) ==
    /\ In(t, "idle")
    /\ lockedAs[t] = 0
    /\ Passes(k)
    /\ call' = [call EXCEPT ![t] = [NoCall EXCEPT !.at = "probe", !.key = k]]
    /\ UNCHANGED <<mutexVars, lockedAs, split>>

UnlockCall(t, k) ==
    /\ In(t, "idle")
    /\ IF lockedAs[t] # 0 THEN k = lockedAs[t] ELSE Passes(k)
    /\ call' = [call EXCEPT ![t] =
                    [NoCall EXCEPT !.at = "probe", !.op = "unlock", !.key = k]]
    /\ UNCHANGED <<mutexVars, lockedAs, split>>

(***************************************************************************)
(* resolve_mutex: the key itself, else the handle found at that address.   *)
(***************************************************************************)
Probe(t) ==
    /\ In(t, "probe")
    /\ LET o == table[call[t].key] IN
         IF o # 0 THEN Found(t, o) ELSE call' = [call EXCEPT ![t].at = "deref"]
    /\ UNCHANGED <<mutexVars, lockedAs, split>>

Deref(t) ==
    /\ In(t, "deref")
    /\ LET h == mem[call[t].key] IN
         call' = [call EXCEPT ![t].handle = h,
                              ![t].at = IF h = 0 THEN "entry" ELSE "alias"]
    /\ UNCHANGED <<mutexVars, lockedAs, split>>

ProbeAlias(t) ==
    /\ In(t, "alias")
    /\ LET o == table[call[t].handle] IN
         IF o # 0 THEN Found(t, o) ELSE call' = [call EXCEPT ![t].at = "entry"]
    /\ UNCHANGED <<mutexVars, lockedAs, split>>

(***************************************************************************)
(* unlock of an address that resolves to nothing: EINVAL.                  *)
(***************************************************************************)
UnlockUnknown(t) ==
    /\ In(t, "entry")
    /\ call[t].op = "unlock"
    /\ Answer(t)
    /\ UNCHANGED <<mutexVars, lockedAs, split>>

(***************************************************************************)
(* The entry of the key is occupied after all: another thread was faster.  *)
(***************************************************************************)
EntryOccupied(t) ==
    /\ In(t, "entry")
    /\ call[t].op = "lock"
    /\ table[call[t].key] # 0
    /\ Found(t, table[call[t].key])
    /\ UNCHANGED <<mutexVars, lockedAs, split>>

(***************************************************************************)
(* Faulty variant: the object is inserted without a look at the entry.     *)
(***************************************************************************)
CreateBlindly(t, h) ==
    /\ In(t, "entry")
    /\ call[t].op = "lock"
    /\ h \notin heap
    /\ made < MaxObjects
    /\ heap' = heap \cup {h}
    /\ mem' = [mem EXCEPT ![call[t].key] = h]
    /\ made' = made + 1
    /\ table' = [table EXCEPT ![call[t].key] = made + 1]
    /\ call' = [call EXCEPT ![t].at = "publish", ![t].handle = h, ![t].obj = made + 1]
    /\ split' = (split \/ call[t].key # Slot)
    /\ UNCHANGED <<holder, gone, lockedAs>>

(***************************************************************************)
(* Implicit creation.  The vacant entry is held while the handle is        *)
(* allocated, written to the slot and the object inserted.                 *)
(***************************************************************************)
Create(t, h) ==
    /\ In(t, "entry")
    /\ call[t].op = "lock"
    /\ table[call[t].key] = 0
    /\ h \notin heap
    /\ made < MaxObjects
    /\ heap' = heap \cup {h}
    /\ mem' = [mem EXCEPT ![call[t].key] = h]
    /\ made' = made + 1
    /\ table' = [table EXCEPT ![call[t].key] = made + 1]
    /\ call' = [call EXCEPT ![t].at = "publish", ![t].handle = h, ![t].obj = made + 1]
    /\ split' = (split \/ call[t].key # Slot)
    /\ UNCHANGED <<holder, gone, lockedAs>>

(***************************************************************************)
(* No memory for the handle: EINVAL.                                       *)
(***************************************************************************)
CreateFails(t) ==
    /\ In(t, "entry")
    /\ call[t].op = "lock"
    /\ table[call[t].key] = 0
    /\ Answer(t)
    /\ UNCHANGED <<mutexVars, lockedAs, split>>

(***************************************************************************)
(* The alias of the handle, inserted after the entry has been released.    *)
(***************************************************************************)
Publish(t) ==
    /\ In(t, "publish")
    /\ table' = [table EXCEPT ![call[t].handle] = call[t].obj]
    /\ call' = [call EXCEPT ![t].at = "acquire"]
    /\ UNCHANGED <<mem, heap, made, holder, gone, lockedAs, split>>

-------------------------------------------------------------------------------
(***************************************************************************)
(* The call works on the object it found: lock waits until it is free,     *)
(* trylock may answer EBUSY, unlock answers EPERM to a thread that is not  *)
(* the owner.                                                              *)
(***************************************************************************)
Acquire(t) ==
    /\ In(t, "acquire")
    /\ call[t].op = "lock"
    /\ holder[call[t].obj] = NoThread
    /\ holder' = [holder EXCEPT ![call[t].obj] = t]
    /\ lockedAs' = [lockedAs EXCEPT ![t] = call[t].key]
    /\ Answer(t)
    /\ UNCHANGED <<table, mem, heap, made, gone, split>>

Busy(t) ==
    /\ In(t, "acquire")
    /\ call[t].op = "lock"
    /\ holder[call[t].obj] # NoThread
    /\ Answer(t)
    /\ UNCHANGED <<mutexVars, lockedAs, split>>

Release(t) ==
    /\ In(t, "acquire")
    /\ call[t].op = "unlock"
    /\ IF holder[call[t].obj] = t
         THEN /\ holder' = [holder EXCEPT ![call[t].obj] = NoThread]
              /\ lockedAs' = [lockedAs EXCEPT ![t] = 0]
         ELSE UNCHANGED <<holder, lockedAs>>
    /\ Answer(t)
    /\ UNCHANGED <<table, mem, heap, made, gone, split>>

(***************************************************************************)
(* The guest's part of the contract: it initializes and destroys mutexes   *)
(* when no thread holds one or is in a call.  The code asks for nothing.   *)
(***************************************************************************)
Unused == \A t \in Threads : In(t, "idle") /\ lockedAs[t] = 0

(***************************************************************************)
(* hle_mutex_init, on a slot that may have a mutex: that one stays in the  *)
(* table under its old handle, and allocated.                              *)
(***************************************************************************)
MutexInit(h) ==
    /\ Unused
    /\ h \notin heap
    /\ made < MaxObjects
    /\ heap' = heap \cup {h}
    /\ mem' = [mem EXCEPT ![Slot] = h]
    /\ made' = made + 1
    /\ table' = [table EXCEPT ![Slot] = made + 1, ![h] = made + 1]
    /\ gone' = FALSE
    /\ UNCHANGED <<holder, call, lockedAs, split>>

(***************************************************************************)
(* The slot cannot be written: EINVAL, and the handle stays allocated.     *)
(***************************************************************************)
MutexInitFails(h) ==
    /\ Unused
    /\ h \notin heap
    /\ heap' = heap \cup {h}
    /\ UNCHANGED <<table, mem, made, holder, gone, call, lockedAs, split>>

(***************************************************************************)
(* hle_mutex_destroy, of whatever leads to a mutex (anything else is       *)
(* EINVAL): the key given and the handle found at that address go, the     *)
(* handle is freed and the word zeroed.  No handle is found at a handle:   *)
(* destroyed under its handle, a mutex stays in the slot, and allocated.   *)
(***************************************************************************)
Destroy(k) ==
    /\ Unused
    /\ Passes(k)
    /\ table[k] # 0 \/ (mem[k] # 0 /\ table[mem[k]] # 0)
    /\ table' = [j \in Keys |-> IF j \in {k, mem[k]} THEN 0 ELSE table[j]]
    /\ heap' = heap \ {mem[k]}
    /\ mem' = [mem EXCEPT ![k] = 0]
    /\ gone' = (k = mem[Slot] \/ (k # Slot /\ gone))
    /\ UNCHANGED <<made, holder, call, lockedAs, split>>

TableNext ==
    \/ \E t \in Threads :
         \/ \E k \in Keys : LockCall(t, k) \/ UnlockCall(t, k)
         \/ Probe(t)
         \/ Deref(t)
         \/ ProbeAlias(t)
         \/ UnlockUnknown(t)
         \/ EntryOccupied(t)
         \/ \E h \in Handles : Create(t, h)
         \/ CreateFails(t)
         \/ Publish(t)
         \/ Acquire(t)
         \/ Busy(t)
         \/ Release(t)
    \/ \E h \in Handles : MutexInit(h) \/ MutexInitFails(h)
    \/ \E k \in Keys : Destroy(k)

TableSpec == TableInit /\ [][TableNext]_tableVars

-------------------------------------------------------------------------------
(***************************************************************************)
(* Two keys under which the guest means the same mutex.                    *)
(***************************************************************************)
SameMutex(j, k) == j = k \/ {j, k} = {Slot, mem[Slot]}

(***************************************************************************)
(* Two threads never hold one mutex, although it was not initialized and   *)
(* several may be the first to touch it, whether they pass the slot or the *)
(* handle, and whatever was initialized or destroyed before: "there is no  *)
(* mutual exclusion at all" is what the atomic entry of lock_core is there *)
(* to prevent.  The exception is a caller that used a handle which was not *)
(* in the table, because its creator had not inserted it or because it had *)
(* been destroyed: it made a second mutex (split), to which even later     *)
(* callers of the slot may be led.                                         *)
(***************************************************************************)
OneMutex ==
    ~split => \A t, u \in Threads :
      lockedAs[t] # 0 /\ lockedAs[u] # 0 /\ SameMutex(lockedAs[t], lockedAs[u]) => t = u

(***************************************************************************)
(* What any sequence of creations, inits, re-inits and destroys under the  *)
(* slot or a handle leaves behind, when no call is between the creation of *)
(* an object and its alias: a slot without a mutex holds no handle, a slot *)
(* with one holds a handle that is allocated and leads to the same object, *)
(* unless it was destroyed by name; handles that re-inits left behind lead *)
(* to objects of their own, never into the mutex now in the slot; and no   *)
(* handle is in the table that the allocator may give out again.           *)
(***************************************************************************)
KeysAgree ==
    (~split /\ \A t \in Threads : ~In(t, "publish")) =>
      /\ table[Slot] = 0 <=> mem[Slot] = 0
      /\ mem[Slot] # 0 => /\ mem[Slot] \in heap
                          /\ table[mem[Slot]] = IF gone THEN 0 ELSE table[Slot]
      /\ \A j, k \in Keys : table[j] # 0 /\ table[j] = table[k] => SameMutex(j, k)
      /\ \A h \in Handles : table[h] # 0 => h \in heap

(***************************************************************************)
(* One mutex behind two keys: mutual exclusion and the table together.     *)
(***************************************************************************)
TableInv == OneMutex /\ KeysAgree
===============================================================================
