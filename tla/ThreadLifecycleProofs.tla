------------------------- MODULE ThreadLifecycleProofs -------------------------
(***************************************************************************)
(* Proofs about ThreadLifecycle, for every number of handles, every supply *)
(* of guest memory and every set of exit codes.                            *)
(***************************************************************************)
EXTENDS ThreadLifecycle, FiniteSetTheorems, TLAPS

(***************************************************************************)
(* The strengthening of LifeInv and TeardownReaps.                         *)
(*                                                                         *)
(* Places: the main thread is never at a worker's place, nor a worker at   *)
(* the teardown's.                                                         *)
(***************************************************************************)
Places ==
    /\ st[Main] \in MainPcs
    /\ \A w \in Workers : st[w] \in WorkerPcs

(***************************************************************************)
(* A create past its termination check and the teardown past its drain     *)
(* hold the lifecycle lock.                                                *)
(***************************************************************************)
LockHeld ==
    /\ \A t \in Threads : st[t] \in Creating => lifecycle = t
    /\ st[Main] = "reaping" => lifecycle = Main

(***************************************************************************)
(* What a create or a join is about: a worker that has no host thread yet  *)
(* before the spawn, one that was spawned after it.  So has every worker   *)
(* of the table.                                                           *)
(***************************************************************************)
ArgsMeant ==
    /\ \A t \in Threads :
         /\ st[t] = "spawn" => arg[t] \in Workers /\ arg[t] < next /\ st[arg[t]] = "unborn"
         /\ st[t] \in {"record", "joining"} => arg[t] \in Workers /\ st[arg[t]] # "unborn"
    /\ \A w \in Workers : record[w] # "absent" => st[w] # "unborn"

(***************************************************************************)
(* Handles that have not been drawn stand for nothing yet.                 *)
(***************************************************************************)
HandlesFresh ==
    \A w \in Workers : w >= next => st[w] = "unborn" /\ slotOf[w] = NoSlot

(***************************************************************************)
(* Guest memory belongs to one worker, which runs or is about to be        *)
(* spawned; a registration is of that memory and ends before it is freed.  *)
(***************************************************************************)
SlotsExclusive ==
    /\ \A w, v \in Workers : slotOf[w] = slotOf[v] /\ slotOf[w] # NoSlot => w = v
    /\ \A w \in Workers :
         /\ slotOf[w] # NoSlot =>
              Live(w) \/ \E t \in Threads : st[t] = "spawn" /\ arg[t] = w
         /\ registered[w] # NoSlot =>
              /\ registered[w] = slotOf[w]
              /\ st[w] \notin {"unborn", "starting", "unregistered", "ended"}

(***************************************************************************)
(* Between the two steps of a termination request, the code on its way is  *)
(* the winner's; when nobody is between them it has been stored.           *)
(***************************************************************************)
CodeOnItsWay ==
    /\ \A t \in Threads : st[t] = "store" => terminating /\ code[t] = won
    /\ st[Main] = "fallback" => terminating /\ code[Main] = won
    /\ terminating => \/ exitCode = won
                      \/ st[Main] = "fallback"
                      \/ \E t \in Threads : st[t] = "store"
    /\ ~terminating => exitCode = 0
    /\ requested => terminating

(***************************************************************************)
(* The teardown drains the table of a process that is terminating, and no  *)
(* handle enters the table after the drain.                                *)
(***************************************************************************)
TableClosed ==
    /\ st[Main] \in {"fallback", "lock", "reaping", "done"} => terminating
    /\ st[Main] \in {"reaping", "done"} => \A w \in Workers : record[w] # "joinable"

(***************************************************************************)
(* What every step before the end preserves, and the whole invariant.      *)
(***************************************************************************)
LifeShape == LifeTypeOK /\ Places /\ LockHeld /\ ArgsMeant /\ HandlesFresh /\ TableClosed

LifeCore == LifeShape /\ WorkersOwned /\ SlotsExclusive /\ CodeOnItsWay

LifeIInv == LifeCore /\ TeardownReaps /\ ExitCodeExact
-------------------------------------------------------------------------------
(***************************************************************************)
(* The main thread is not a worker, and 0 is nobody's handle.              *)
(***************************************************************************)
LEMMA HandleFacts ==
  /\ Main \in Threads /\ Main \notin Workers
  /\ Threads = Workers \cup {Main}
  /\ None \notin Threads
BY MaxHandleAssumption DEF Main, Threads, Workers, None

(***************************************************************************)
(* The initial state satisfies the invariant.                              *)
(***************************************************************************)
LEMMA InitLifeIInv == LifeInit => LifeIInv
<1> SUFFICES ASSUME LifeInit PROVE LifeIInv
  OBVIOUS
<1> USE HandleFacts DEF LifeInit
<1>1. LifeTypeOK
  <2>1. next \in 2..(MaxHandle + 1)
    BY MaxHandleAssumption
  <2> QED BY <2>1 DEF LifeTypeOK, MainPcs, WorkerPcs, GuestPcs
<1>2. LifeShape
  BY <1>1 DEF LifeShape, Places, LockHeld, ArgsMeant, HandlesFresh, TableClosed,
              MainPcs, WorkerPcs, GuestPcs, Creating
<1>3. WorkersOwned /\ SlotsExclusive /\ CodeOnItsWay
  BY DEF WorkersOwned, SlotsExclusive, CodeOnItsWay, Live
<1>4. TeardownReaps /\ ExitCodeExact
  BY DEF TeardownReaps, ExitCodeExact
<1> QED BY <1>2, <1>3, <1>4 DEF LifeIInv, LifeCore

(***************************************************************************)
(* A set of workers, each of which is joined by one of the set, is a set   *)
(* of workers that all join each other: there are no more joins than       *)
(* joiners.                                                                *)
(***************************************************************************)
LEMMA JoinsClose ==
  ASSUME NEW L, IsFiniteSet(L), NEW J, J \subseteq L, NEW f,
         \A w \in L : \E t \in J : f[t] = w
  PROVE  J = L /\ \A t \in L : f[t] \in L
<1> DEFINE T == {f[t] : t \in J}
           g == [t \in J |-> f[t]]
<1>1. IsFiniteSet(J) /\ Cardinality(J) <= Cardinality(L)
      /\ (Cardinality(L) = Cardinality(J) => L = J)
  BY FS_Subset
<1>2. g \in Surjection(J, T)
  BY DEF Surjection
<1>3. IsFiniteSet(T) /\ Cardinality(T) <= Cardinality(J)
  <2> HIDE DEF T, g
  <2> QED BY <1>1, <1>2, FS_Surjection
<1>4. L \subseteq T
  OBVIOUS
<1> HIDE DEF T
<1>5. Cardinality(L) <= Cardinality(T) /\ (Cardinality(T) = Cardinality(L) => T = L)
  BY <1>3, <1>4, FS_Subset
<1>6. Cardinality(L) \in Nat /\ Cardinality(T) \in Nat /\ Cardinality(J) \in Nat
  BY <1>1, <1>3, FS_CardinalityType
<1>7. Cardinality(L) = Cardinality(J) /\ Cardinality(T) = Cardinality(L)
  BY <1>1, <1>3, <1>5, <1>6
<1>8. J = L /\ T = L
  BY <1>1, <1>5, <1>7
<1> QED BY <1>8 DEF T

(***************************************************************************)
(* After the teardown nothing moves any more.                              *)
(***************************************************************************)
LEMMA DoneIsFinal ==
  ASSUME LifeIInv, LifeNext
  PROVE  st[Main] # "done"
<1> SUFFICES ASSUME st[Main] = "done" PROVE FALSE
  OBVIOUS
<1>0. TableClosed /\ TeardownReaps
  BY DEF LifeIInv, LifeCore, LifeShape
<1>1. terminating
  BY <1>0 DEF TableClosed
<1>6. ASSUME NEW t \in Workers, Live(t) PROVE st[t] = "joining" /\ Live(arg[t])
  BY <1>0, <1>6 DEF TeardownReaps
<1>2. ASSUME NEW t \in Threads PROVE ~GuestStep(t)
  BY <1>1, <1>6, HandleFacts
     DEF Live, GuestStep, CreateCall, JoinCall, Detach, Calls, WorkerLeaves, ExitCall,
         MainLeaves
<1>3. ASSUME NEW t \in Threads PROVE ~CallStep(t)
  BY <1>1, <1>6, HandleFacts
     DEF Live, CallStep, CreateEnter, CreateRefused, CreateAlloc, CreateSpawn, SpawnFails,
         CreateRecord, JoinReturns, ProcessExit, StoreCode
<1>4. ASSUME NEW w \in Workers PROVE ~WorkerStep(w)
  BY <1>6 DEF Live, WorkerStep, WorkerStarts, Unregister, WorkerEnds
<1>5. ~ShellQuits /\ ~TeardownStep
  BY <1>1 DEF ShellQuits, TeardownStep, LookRequested, ReapBegins, StoreFallback, Drain, ReapDone
<1> QED BY <1>2, <1>3, <1>4, <1>5 DEF LifeNext

(***************************************************************************)
(* Every step but the last one of the teardown preserves the core.         *)
(***************************************************************************)
LEMMA StepLifeCore ==
  ASSUME LifeCore, LifeNext, st[Main] # "done", ~ReapDone
  PROVE  LifeCore' /\ st'[Main] # "done"
<1> USE HandleFacts DEF LifeTypeOK, Goto, threadTable, memory, exitState, mainState
<1>0. LifeTypeOK /\ LifeShape /\ WorkersOwned /\ SlotsExclusive /\ CodeOnItsWay
  BY DEF LifeCore, LifeShape
<1> USE <1>0
<1>1. ASSUME NEW t \in Threads, CreateCall(t) PROVE LifeCore' /\ st'[Main] # "done"
  <2>1. LifeShape' /\ st'[Main] # "done"
    BY <1>1
       DEF LifeShape, Places, MainPcs, WorkerPcs, GuestPcs, Creating, LockHeld, ArgsMeant,
           HandlesFresh, TableClosed,
           CreateCall, Calls
  <2>2. WorkersOwned' /\ SlotsExclusive'
    BY <1>1
       DEF LifeShape, LockHeld, ArgsMeant, Creating, WorkersOwned, SlotsExclusive,
           Live, Creator, Joiner,
           CreateCall, Calls
  <2>3. CodeOnItsWay'
    BY <1>1 DEF LifeShape, CodeOnItsWay, CreateCall, Calls
  <2> QED BY <2>1, <2>2, <2>3 DEF LifeCore
<1>2. ASSUME NEW t \in Threads, NEW w \in Workers, JoinCall(t, w) PROVE LifeCore' /\ st'[Main] # "done"
  <2>1. LifeShape' /\ st'[Main] # "done"
    BY <1>2
       DEF LifeShape, Places, MainPcs, WorkerPcs, GuestPcs, Creating, LockHeld, ArgsMeant,
           HandlesFresh, TableClosed,
           JoinCall, Calls
  <2>2. WorkersOwned' /\ SlotsExclusive'
    BY <1>2
       DEF LifeShape, LockHeld, ArgsMeant, Creating, WorkersOwned, SlotsExclusive,
           Live, Creator, Joiner,
           JoinCall, Calls
  <2>3. CodeOnItsWay'
    BY <1>2 DEF LifeShape, CodeOnItsWay, JoinCall, Calls
  <2> QED BY <2>1, <2>2, <2>3 DEF LifeCore
<1>3. ASSUME NEW t \in Threads, NEW w \in Workers, Detach(t, w) PROVE LifeCore' /\ st'[Main] # "done"
  <2>1. LifeShape' /\ st'[Main] # "done"
    BY <1>3
       DEF LifeShape, Places, MainPcs, WorkerPcs, GuestPcs, Creating, LockHeld, ArgsMeant,
           HandlesFresh, TableClosed,
           Detach, Calls, Resume, Leaving
  <2>2. WorkersOwned' /\ SlotsExclusive'
    BY <1>3
       DEF LifeShape, LockHeld, ArgsMeant, Creating, WorkersOwned, SlotsExclusive,
           Live, Creator, Joiner,
           Detach, Calls, Resume, Leaving
  <2>3. CodeOnItsWay'
    BY <1>3 DEF LifeShape, CodeOnItsWay, Detach, Calls, Resume, Leaving
  <2> QED BY <2>1, <2>2, <2>3 DEF LifeCore
<1>4. ASSUME NEW t \in Threads, NEW f \in BOOLEAN, WorkerLeaves(t, f) PROVE LifeCore' /\ st'[Main] # "done"
  <2>1. LifeShape' /\ st'[Main] # "done"
    BY <1>4
       DEF LifeShape, Places, MainPcs, WorkerPcs, GuestPcs, Creating, LockHeld, ArgsMeant,
           HandlesFresh, TableClosed,
           WorkerLeaves
  <2>2. WorkersOwned' /\ SlotsExclusive'
    BY <1>4
       DEF LifeShape, LockHeld, ArgsMeant, Creating, WorkersOwned, SlotsExclusive,
           Live, Creator, Joiner,
           WorkerLeaves
  <2>3. CodeOnItsWay'
    BY <1>4 DEF LifeShape, CodeOnItsWay, WorkerLeaves
  <2> QED BY <2>1, <2>2, <2>3 DEF LifeCore
<1>5. ASSUME NEW t \in Threads, NEW c \in Codes, ExitCall(t, c) PROVE LifeCore' /\ st'[Main] # "done"
  <2>1. LifeShape' /\ st'[Main] # "done"
    BY <1>5
       DEF LifeShape, Places, MainPcs, WorkerPcs, GuestPcs, Creating, LockHeld, ArgsMeant,
           HandlesFresh, TableClosed,
           ExitCall, Calls
  <2>2. WorkersOwned' /\ SlotsExclusive'
    BY <1>5
       DEF LifeShape, LockHeld, ArgsMeant, Creating, WorkersOwned, SlotsExclusive,
           Live, Creator, Joiner,
           ExitCall, Calls
  <2>3. CodeOnItsWay'
    BY <1>5 DEF LifeShape, CodeOnItsWay, ExitCall, Calls
  <2> QED BY <2>1, <2>2, <2>3 DEF LifeCore
<1>6. ASSUME NEW c \in {0, 1}, MainLeaves(c) PROVE LifeCore' /\ st'[Main] # "done"
  <2>1. LifeShape' /\ st'[Main] # "done"
    BY <1>6
       DEF LifeShape, Places, MainPcs, WorkerPcs, GuestPcs, Creating, LockHeld, ArgsMeant,
           HandlesFresh, TableClosed,
           MainLeaves
  <2>2. WorkersOwned' /\ SlotsExclusive'
    BY <1>6
       DEF LifeShape, LockHeld, ArgsMeant, Creating, WorkersOwned, SlotsExclusive,
           Live, Creator, Joiner,
           MainLeaves
  <2>3. CodeOnItsWay'
    BY <1>6 DEF LifeShape, CodeOnItsWay, MainLeaves
  <2> QED BY <2>1, <2>2, <2>3 DEF LifeCore
<1>7. ASSUME NEW t \in Threads, CreateEnter(t) PROVE LifeCore' /\ st'[Main] # "done"
  <2>1. LifeShape' /\ st'[Main] # "done"
    BY <1>7
       DEF LifeShape, Places, MainPcs, WorkerPcs, GuestPcs, Creating, LockHeld, ArgsMeant,
           HandlesFresh, TableClosed,
           CreateEnter, Resume, Leaving
  <2>2. WorkersOwned' /\ SlotsExclusive'
    BY <1>7
       DEF LifeShape, LockHeld, ArgsMeant, Creating, WorkersOwned, SlotsExclusive,
           Live, Creator, Joiner,
           CreateEnter, Resume, Leaving
  <2>3. CodeOnItsWay'
    BY <1>7 DEF LifeShape, CodeOnItsWay, CreateEnter, Resume, Leaving
  <2> QED BY <2>1, <2>2, <2>3 DEF LifeCore
<1>8. ASSUME NEW t \in Threads, CreateRefused(t) PROVE LifeCore' /\ st'[Main] # "done"
  <2>1. LifeShape' /\ st'[Main] # "done"
    BY <1>8
       DEF LifeShape, Places, MainPcs, WorkerPcs, GuestPcs, Creating, LockHeld, ArgsMeant,
           HandlesFresh, TableClosed,
           CreateRefused, Resume, Leaving
  <2>2. WorkersOwned' /\ SlotsExclusive'
    BY <1>8
       DEF LifeShape, LockHeld, ArgsMeant, Creating, WorkersOwned, SlotsExclusive,
           Live, Creator, Joiner,
           CreateRefused, Resume, Leaving
  <2>3. CodeOnItsWay'
    BY <1>8 DEF LifeShape, CodeOnItsWay, CreateRefused, Resume, Leaving
  <2> QED BY <2>1, <2>2, <2>3 DEF LifeCore
<1>9. ASSUME NEW t \in Threads, NEW s \in Slots, CreateAlloc(t, s) PROVE LifeCore' /\ st'[Main] # "done"
  <2>1. /\ next \in Workers /\ next < next + 1
        /\ next + 1 \in 2..(MaxHandle + 1)
        /\ \A w \in Workers : /\ w >= next + 1 => w >= next /\ w # next
                              /\ w < next => w < next + 1
    BY <1>9, MaxHandleAssumption DEF LifeShape, CreateAlloc, Workers
  <2>2. st[next] = "unborn" /\ slotOf[next] = NoSlot /\ next # t
    <3>1. next >= next
      BY <1>9 DEF LifeShape
    <3> QED BY <1>9, <2>1, <3>1 DEF LifeShape, HandlesFresh, CreateAlloc
  <2>3. LifeTypeOK'
    BY <1>9, <2>1 DEF LifeShape, CreateAlloc, MainPcs, WorkerPcs, GuestPcs, Creating
  <2>4. ArgsMeant' /\ HandlesFresh'
    BY <1>9, <2>1, <2>2, ZenonT(40) DEF LifeShape, ArgsMeant, HandlesFresh, CreateAlloc
  <2>5. LifeShape' /\ st'[Main] # "done"
    BY <1>9, <2>3, <2>4
       DEF LifeShape, Places, MainPcs, WorkerPcs, GuestPcs, Creating, LockHeld, TableClosed, CreateAlloc
  <2>6. WorkersOwned'
    BY <1>9, <2>2 DEF LifeShape, WorkersOwned, Live, Creator, Joiner, CreateAlloc
  <2>7. SlotsExclusive'
    BY <1>9, <2>1, <2>2, NoSlotAssumption DEF LifeShape, SlotsExclusive, Live, CreateAlloc
  <2>8. CodeOnItsWay'
    BY <1>9 DEF LifeShape, CodeOnItsWay, CreateAlloc
  <2> QED BY <2>5, <2>6, <2>7, <2>8 DEF LifeCore
<1>10. ASSUME NEW t \in Threads, CreateSpawn(t) PROVE LifeCore' /\ st'[Main] # "done"
  <2> DEFINE w == arg[t]
  <2>1. w \in Workers /\ w < next /\ st[w] = "unborn" /\ w # t
    BY <1>10 DEF LifeShape, ArgsMeant, CreateSpawn
  <2>2. \A u \in Threads : st[u] \in Creating => u = t
    BY <1>10 DEF LifeShape, LockHeld, Creating, CreateSpawn
  <2>3. st' = [st EXCEPT ![t] = "record", ![w] = "starting"]
    BY <1>10 DEF CreateSpawn
  <2>4. ~(w >= next)
    BY <2>1 DEF LifeShape, Workers
  <2> HIDE DEF w
  <2>5. LifeShape' /\ st'[Main] # "done"
    <3>1. LifeTypeOK' /\ Places'
      BY <1>10, <2>1, <2>3
         DEF LifeShape, Places, MainPcs, WorkerPcs, GuestPcs, Creating, CreateSpawn
    <3>2. LockHeld' /\ TableClosed' /\ st'[Main] # "done"
      BY <1>10, <2>1, <2>2, <2>3 DEF LifeShape, LockHeld, TableClosed, Creating, CreateSpawn
    <3>3. ArgsMeant'
      BY <1>10, <2>1, <2>2, <2>3 DEF LifeShape, ArgsMeant, Creating, CreateSpawn, w
    <3>4. HandlesFresh'
      BY <1>10, <2>1, <2>3, <2>4 DEF LifeShape, HandlesFresh, CreateSpawn
    <3> QED BY <3>1, <3>2, <3>3, <3>4 DEF LifeShape
  <2>6. WorkersOwned' /\ SlotsExclusive'
    BY <1>10 DEF LifeShape, LockHeld, ArgsMeant, Creating, WorkersOwned, SlotsExclusive,
                Live, Creator, Joiner, CreateSpawn
  <2>7. CodeOnItsWay'
    BY <1>10, <2>1, <2>3 DEF LifeShape, CodeOnItsWay, CreateSpawn
  <2> QED BY <2>5, <2>6, <2>7 DEF LifeCore
<1>11. ASSUME NEW t \in Threads, SpawnFails(t) PROVE LifeCore' /\ st'[Main] # "done"
  <2>1. LifeShape' /\ st'[Main] # "done"
    BY <1>11
       DEF LifeShape, Places, MainPcs, WorkerPcs, GuestPcs, Creating, LockHeld, ArgsMeant,
           HandlesFresh, TableClosed,
           SpawnFails, Resume, Leaving
  <2>2. WorkersOwned' /\ SlotsExclusive'
    BY <1>11
       DEF LifeShape, LockHeld, ArgsMeant, Creating, WorkersOwned, SlotsExclusive,
           Live, Creator, Joiner,
           SpawnFails, Resume, Leaving
  <2>3. CodeOnItsWay'
    BY <1>11 DEF LifeShape, CodeOnItsWay, SpawnFails, Resume, Leaving
  <2> QED BY <2>1, <2>2, <2>3 DEF LifeCore
<1>12. ASSUME NEW t \in Threads, NEW d \in BOOLEAN, CreateRecord(t, d) PROVE LifeCore' /\ st'[Main] # "done"
  <2>1. LifeShape' /\ st'[Main] # "done"
    BY <1>12
       DEF LifeShape, Places, MainPcs, WorkerPcs, GuestPcs, Creating, LockHeld, ArgsMeant,
           HandlesFresh, TableClosed,
           CreateRecord, Resume, Leaving
  <2>2. WorkersOwned' /\ SlotsExclusive'
    BY <1>12
       DEF LifeShape, LockHeld, ArgsMeant, Creating, WorkersOwned, SlotsExclusive,
           Live, Creator, Joiner,
           CreateRecord, Resume, Leaving
  <2>3. CodeOnItsWay'
    BY <1>12 DEF LifeShape, CodeOnItsWay, CreateRecord, Resume, Leaving
  <2> QED BY <2>1, <2>2, <2>3 DEF LifeCore
<1>13. ASSUME NEW t \in Threads, JoinReturns(t) PROVE LifeCore' /\ st'[Main] # "done"
  <2>1. LifeShape' /\ st'[Main] # "done"
    BY <1>13
       DEF LifeShape, Places, MainPcs, WorkerPcs, GuestPcs, Creating, LockHeld, ArgsMeant,
           HandlesFresh, TableClosed,
           JoinReturns, Resume, Leaving
  <2>2. WorkersOwned' /\ SlotsExclusive'
    BY <1>13
       DEF LifeShape, LockHeld, ArgsMeant, Creating, WorkersOwned, SlotsExclusive,
           Live, Creator, Joiner,
           JoinReturns, Resume, Leaving
  <2>3. CodeOnItsWay'
    BY <1>13 DEF LifeShape, CodeOnItsWay, JoinReturns, Resume, Leaving
  <2> QED BY <2>1, <2>2, <2>3 DEF LifeCore
<1>14. ASSUME NEW t \in Threads, ProcessExit(t) PROVE LifeCore' /\ st'[Main] # "done"
  <2>1. LifeTypeOK' /\ Places' /\ st'[Main] # "done"
    <3>1. LifeTypeOK'
      BY <1>14, ZenonT(40) DEF MainPcs, WorkerPcs, GuestPcs, Creating,
           ProcessExit, BeginTermination, Leaving
    <3>2. Places' /\ st'[Main] # "done"
      BY <1>14 DEF LifeShape, Places, MainPcs, WorkerPcs, GuestPcs, Creating,
           ProcessExit, BeginTermination, Leaving
    <3> QED BY <3>1, <3>2
  <2>2. LockHeld' /\ ArgsMeant'
    BY <1>14 DEF LifeShape, LockHeld, ArgsMeant, Creating, ProcessExit, BeginTermination, Leaving
  <2>3. HandlesFresh' /\ TableClosed'
    BY <1>14 DEF LifeShape, HandlesFresh, TableClosed, ProcessExit, BeginTermination, Leaving
  <2>4. WorkersOwned' /\ SlotsExclusive'
    BY <1>14
       DEF LifeShape, LockHeld, ArgsMeant, Creating, WorkersOwned, SlotsExclusive,
           Live, Creator, Joiner,
           ProcessExit, BeginTermination, Leaving
  <2>5. CodeOnItsWay'
    BY <1>14 DEF LifeShape, CodeOnItsWay, ProcessExit, BeginTermination, Leaving
  <2> QED BY <2>1, <2>2, <2>3, <2>4, <2>5 DEF LifeCore, LifeShape
<1>15. ASSUME NEW t \in Threads, StoreCode(t) PROVE LifeCore' /\ st'[Main] # "done"
  <2>1. LifeShape' /\ st'[Main] # "done"
    BY <1>15
       DEF LifeShape, Places, MainPcs, WorkerPcs, GuestPcs, Creating, LockHeld, ArgsMeant,
           HandlesFresh, TableClosed,
           StoreCode, Leaving
  <2>2. WorkersOwned' /\ SlotsExclusive'
    BY <1>15
       DEF LifeShape, LockHeld, ArgsMeant, Creating, WorkersOwned, SlotsExclusive,
           Live, Creator, Joiner,
           StoreCode, Leaving
  <2>3. CodeOnItsWay'
    BY <1>15 DEF LifeShape, CodeOnItsWay, StoreCode, Leaving
  <2> QED BY <2>1, <2>2, <2>3 DEF LifeCore
<1>16. ASSUME NEW w \in Workers, WorkerStarts(w) PROVE LifeCore' /\ st'[Main] # "done"
  <2>1. LifeShape' /\ st'[Main] # "done"
    BY <1>16
       DEF LifeShape, Places, MainPcs, WorkerPcs, GuestPcs, Creating, LockHeld, ArgsMeant,
           HandlesFresh, TableClosed,
           WorkerStarts
  <2>2. WorkersOwned' /\ SlotsExclusive'
    BY <1>16
       DEF LifeShape, LockHeld, ArgsMeant, Creating, WorkersOwned, SlotsExclusive,
           Live, Creator, Joiner,
           WorkerStarts
  <2>3. CodeOnItsWay'
    BY <1>16 DEF LifeShape, CodeOnItsWay, WorkerStarts
  <2> QED BY <2>1, <2>2, <2>3 DEF LifeCore
<1>17. ASSUME NEW w \in Workers, Unregister(w) PROVE LifeCore' /\ st'[Main] # "done"
  <2>1. LifeShape' /\ st'[Main] # "done"
    BY <1>17
       DEF LifeShape, Places, MainPcs, WorkerPcs, GuestPcs, Creating, LockHeld, ArgsMeant,
           HandlesFresh, TableClosed,
           Unregister
  <2>2. WorkersOwned' /\ SlotsExclusive'
    BY <1>17
       DEF LifeShape, LockHeld, ArgsMeant, Creating, WorkersOwned, SlotsExclusive,
           Live, Creator, Joiner,
           Unregister
  <2>3. CodeOnItsWay'
    BY <1>17 DEF LifeShape, CodeOnItsWay, Unregister
  <2> QED BY <2>1, <2>2, <2>3 DEF LifeCore
<1>18. ASSUME NEW w \in Workers, WorkerEnds(w) PROVE LifeCore' /\ st'[Main] # "done"
  <2>1. LifeShape' /\ st'[Main] # "done"
    BY <1>18
       DEF LifeShape, Places, MainPcs, WorkerPcs, GuestPcs, Creating, LockHeld, ArgsMeant,
           HandlesFresh, TableClosed,
           WorkerEnds
  <2>2. WorkersOwned' /\ SlotsExclusive'
    BY <1>18
       DEF LifeShape, LockHeld, ArgsMeant, Creating, WorkersOwned, SlotsExclusive,
           Live, Creator, Joiner,
           WorkerEnds
  <2>3. CodeOnItsWay'
    BY <1>18 DEF LifeShape, CodeOnItsWay, WorkerEnds
  <2> QED BY <2>1, <2>2, <2>3 DEF LifeCore
<1>19. ASSUME ShellQuits PROVE LifeCore' /\ st'[Main] # "done"
  <2>1. LifeShape' /\ st'[Main] # "done"
    BY <1>19
       DEF LifeShape, Places, MainPcs, WorkerPcs, GuestPcs, Creating, LockHeld, ArgsMeant,
           HandlesFresh, TableClosed,
           ShellQuits
  <2>2. WorkersOwned' /\ SlotsExclusive'
    BY <1>19
       DEF LifeShape, LockHeld, ArgsMeant, Creating, WorkersOwned, SlotsExclusive,
           Live, Creator, Joiner,
           ShellQuits
  <2>3. CodeOnItsWay'
    BY <1>19 DEF LifeShape, CodeOnItsWay, ShellQuits
  <2> QED BY <2>1, <2>2, <2>3 DEF LifeCore
<1>20. ASSUME LookRequested PROVE LifeCore' /\ st'[Main] # "done"
  <2>1. LifeShape' /\ st'[Main] # "done"
    BY <1>20
       DEF LifeShape, Places, MainPcs, WorkerPcs, GuestPcs, Creating, LockHeld, ArgsMeant,
           HandlesFresh, TableClosed,
           LookRequested
  <2>2. WorkersOwned' /\ SlotsExclusive'
    BY <1>20
       DEF LifeShape, LockHeld, ArgsMeant, Creating, WorkersOwned, SlotsExclusive,
           Live, Creator, Joiner,
           LookRequested
  <2>3. CodeOnItsWay'
    BY <1>20 DEF LifeShape, CodeOnItsWay, LookRequested
  <2> QED BY <2>1, <2>2, <2>3 DEF LifeCore
<1>21. ASSUME ReapBegins PROVE LifeCore' /\ st'[Main] # "done"
  <2>1. LifeTypeOK' /\ Places' /\ st'[Main] # "done"
    <3>1. LifeTypeOK'
      BY <1>21, ZenonT(40) DEF MainPcs, WorkerPcs, GuestPcs, Creating,
           ReapBegins, BeginTermination
    <3>2. Places' /\ st'[Main] # "done"
      BY <1>21 DEF LifeShape, Places, MainPcs, WorkerPcs, GuestPcs, Creating,
           ReapBegins, BeginTermination
    <3> QED BY <3>1, <3>2
  <2>2. LockHeld' /\ ArgsMeant'
    BY <1>21 DEF LifeShape, LockHeld, ArgsMeant, Creating, ReapBegins, BeginTermination
  <2>3. HandlesFresh' /\ TableClosed'
    BY <1>21 DEF LifeShape, HandlesFresh, TableClosed, ReapBegins, BeginTermination
  <2>4. WorkersOwned' /\ SlotsExclusive'
    BY <1>21
       DEF LifeShape, LockHeld, ArgsMeant, Creating, WorkersOwned, SlotsExclusive,
           Live, Creator, Joiner,
           ReapBegins, BeginTermination
  <2>5. CodeOnItsWay'
    BY <1>21 DEF LifeShape, CodeOnItsWay, ReapBegins, BeginTermination
  <2> QED BY <2>1, <2>2, <2>3, <2>4, <2>5 DEF LifeCore, LifeShape
<1>22. ASSUME StoreFallback PROVE LifeCore' /\ st'[Main] # "done"
  <2>1. LifeShape' /\ st'[Main] # "done"
    BY <1>22
       DEF LifeShape, Places, MainPcs, WorkerPcs, GuestPcs, Creating, LockHeld, ArgsMeant,
           HandlesFresh, TableClosed,
           StoreFallback
  <2>2. WorkersOwned' /\ SlotsExclusive'
    BY <1>22
       DEF LifeShape, LockHeld, ArgsMeant, Creating, WorkersOwned, SlotsExclusive,
           Live, Creator, Joiner,
           StoreFallback
  <2>3. CodeOnItsWay'
    BY <1>22 DEF LifeShape, CodeOnItsWay, StoreFallback
  <2> QED BY <2>1, <2>2, <2>3 DEF LifeCore
<1>23. ASSUME Drain PROVE LifeCore' /\ st'[Main] # "done"
  <2>1. LifeShape' /\ st'[Main] # "done"
    BY <1>23
       DEF LifeShape, Places, MainPcs, WorkerPcs, GuestPcs, Creating, LockHeld, ArgsMeant,
           HandlesFresh, TableClosed,
           Drain
  <2>2. WorkersOwned' /\ SlotsExclusive'
    BY <1>23
       DEF LifeShape, LockHeld, ArgsMeant, Creating, WorkersOwned, SlotsExclusive,
           Live, Creator, Joiner,
           Drain
  <2>3. CodeOnItsWay'
    BY <1>23 DEF LifeShape, CodeOnItsWay, Drain
  <2> QED BY <2>1, <2>2, <2>3 DEF LifeCore
<1> QED
  BY <1>1, <1>2, <1>3, <1>4, <1>5, <1>6, <1>7, <1>8, <1>9, <1>10, <1>11, <1>12,
     <1>13, <1>14, <1>15, <1>16, <1>17, <1>18, <1>19, <1>20, <1>21, <1>22, <1>23
     DEF LifeNext, GuestStep, CallStep, WorkerStep, TeardownStep

(***************************************************************************)
(* The last step of the teardown: the handles it took have ended and the   *)
(* lock keeps creates out, so a worker that is still alive is waited for   *)
(* by a joiner that is alive itself.                                       *)
(***************************************************************************)
LEMMA ReapDoneKeepsInv ==
  ASSUME LifeIInv, ReapDone
  PROVE  LifeIInv'
<1> USE HandleFacts DEF LifeTypeOK, Goto, threadTable, memory, exitState, mainState
<1>0. LifeShape /\ WorkersOwned /\ SlotsExclusive /\ CodeOnItsWay
  BY DEF LifeIInv, LifeCore
<1>1. /\ st[Main] = "reaping" /\ st' = [st EXCEPT ![Main] = "done"]
      /\ \A w \in reap : st[w] = "ended"
      /\ UNCHANGED <<arg, record, terminating, exitCode, won, requested>>
      /\ report' = IF requested THEN exitCode ELSE code[Main]
  BY DEF ReapDone
<1>2. \A t \in Threads : st[t] \notin Creating
  BY <1>0, <1>1 DEF LifeShape, LockHeld, Creating
<1> DEFINE L == {w \in Workers : Live(w)}
           J == {w \in L : st[w] = "joining"}
<1>3. \A w \in L : \E t \in J : arg[t] = w
  <2> SUFFICES ASSUME NEW w \in L PROVE \E t \in J : arg[t] = w
    OBVIOUS
  <2>1. w \in Workers /\ Live(w) /\ record[w] # "joinable" /\ w \notin reap
    BY <1>0, <1>1 DEF LifeShape, TableClosed, Live
  <2>2. PICK t \in Threads : Joiner(t, w)
    BY <1>0, <1>2, <2>1 DEF WorkersOwned, Creator, Creating
  <2>3. t \in J /\ arg[t] = w
    BY <1>1, <2>2 DEF Joiner, Live
  <2> QED BY <2>3
<1>4. J = L /\ \A t \in L : arg[t] \in L
  <2>1. IsFiniteSet(Workers)
    BY MaxHandleAssumption, FS_Interval DEF Workers
  <2>2. IsFiniteSet(L) /\ J \subseteq L
    BY <2>1, FS_Subset
  <2> HIDE DEF L, J
  <2> QED BY <1>3, <2>2, JoinsClose
<1>5. TeardownReaps'
  BY <1>1, <1>4 DEF TeardownReaps, Live
<1>6. LifeShape'
  BY <1>0, <1>1 DEF LifeShape, Places, MainPcs, WorkerPcs, GuestPcs, Creating, LockHeld, ArgsMeant,
                    HandlesFresh, TableClosed, ReapDone
<1>7. WorkersOwned'
  <2>1. \A w \in L : \E t \in Threads : Joiner(t, w)
    BY <1>3 DEF Joiner
  <2> QED BY <1>1, <2>1 DEF WorkersOwned, Live, Joiner
<1>8. SlotsExclusive'
  BY <1>0, <1>1 DEF LifeShape, SlotsExclusive, Live, ReapDone
<1>9. CodeOnItsWay' /\ ExitCodeExact'
  <2>1. \A t \in Threads : st[t] # "store"
    BY <1>1, <1>4 DEF Live
  <2> QED BY <1>0, <1>1, <2>1 DEF LifeShape, TableClosed, CodeOnItsWay, ExitCodeExact, ReapDone
<1> QED BY <1>5, <1>6, <1>7, <1>8, <1>9 DEF LifeIInv, LifeCore

(***************************************************************************)
(* Every step preserves the invariant.                                     *)
(***************************************************************************)
LEMMA StepLifeIInv == LifeIInv /\ [LifeNext]_lifeVars => LifeIInv'
<1> SUFFICES ASSUME LifeIInv, [LifeNext]_lifeVars PROVE LifeIInv'
  OBVIOUS
<1>1. CASE UNCHANGED lifeVars
  BY <1>1 DEF LifeIInv, LifeCore, LifeShape, LifeTypeOK, Places, LockHeld, ArgsMeant,
     HandlesFresh, TableClosed, WorkersOwned, SlotsExclusive, CodeOnItsWay, TeardownReaps,
     ExitCodeExact, Live, Creator, Joiner, lifeVars, threadTable, memory, exitState, mainState
<1>2. CASE LifeNext /\ ReapDone
  BY <1>2, ReapDoneKeepsInv
<1>3. CASE LifeNext /\ ~ReapDone
  <2>1. LifeCore' /\ st'[Main] # "done"
    BY <1>3, DoneIsFinal, StepLifeCore DEF LifeIInv
  <2> QED BY <2>1 DEF LifeIInv, TeardownReaps, ExitCodeExact
<1> QED BY <1>1, <1>2, <1>3

(***************************************************************************)
(* The invariant gives LifeInv: the memory of a worker that is neither     *)
(* alive nor about to be spawned is free.                                  *)
(***************************************************************************)
LEMMA IInvGivesLifeInv == LifeIInv => LifeInv
<1> SUFFICES ASSUME LifeIInv PROVE LifeInv
  OBVIOUS
<1>1. LifeTypeOK /\ WorkersOwned /\ ExitCodeExact
  BY DEF LifeIInv, LifeCore, LifeShape
<1>2. StacksExact
  <2>1. \A w \in Workers :
          registered[w] # NoSlot =>
            /\ slotOf[w] = registered[w]
            /\ \A v \in Workers \ {w} : slotOf[v] # registered[w]
    BY DEF LifeIInv, LifeCore, SlotsExclusive
  <2>2. ASSUME st[Main] = "done", NEW w \in Workers, slotOf[w] # NoSlot
        PROVE  st[w] = "joining"
    <3>1. \A t \in Threads : st[t] # "spawn"
      BY <2>2, HandleFacts DEF LifeIInv, TeardownReaps, Live
    <3> QED BY <2>2, <3>1 DEF LifeIInv, LifeCore, SlotsExclusive, TeardownReaps
  <2> QED BY <2>1, <2>2 DEF StacksExact
<1> QED BY <1>1, <1>2 DEF LifeInv

(***************************************************************************)
(* The inductive invariant holds in every reachable state.                 *)
(***************************************************************************)
THEOREM LifeInvariance == LifeSpec => []LifeIInv
BY InitLifeIInv, StepLifeIInv, PTL DEF LifeSpec

(***************************************************************************)
(* The runtime never loses a worker: a live worker's host handle is in the *)
(* table, with a creator, a joiner or the teardown; its stack is its own   *)
(* and freed when it ends; and the process reports the exit code of the    *)
(* request that won.                                                       *)
(***************************************************************************)
THEOREM WorkersNeverLost == LifeSpec => []LifeInv
BY LifeInvariance, IInvGivesLifeInv, PTL

(***************************************************************************)
(* terminate_and_reap returns only when no worker runs any more, except    *)
(* those that join each other in a circle.                                 *)
(***************************************************************************)
THEOREM TeardownComplete == LifeSpec => []TeardownReaps
<1>1. LifeIInv => TeardownReaps
  BY DEF LifeIInv
<1> QED BY <1>1, LifeInvariance, PTL
===============================================================================
