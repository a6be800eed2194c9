-------------------------- MODULE StateStoreProofs --------------------------
(***************************************************************************)
(* Proofs about StateStore.  The type invariant needs no assumption about  *)
(* the writers.  Mutual exclusion and the ownership of the lock directory  *)
(* are proved for timely writers until a lock directory is left behind,    *)
(* the refinement of CursorFile for prompt ones, all of them for every     *)
(* number of writers, repositories and commits and all time limits: what   *)
(* makes them true is that the lock directory never grows old while its    *)
(* owner is alive, so that nobody ever gets to the rmdir of a leftover.    *)
(***************************************************************************)
EXTENDS StateStore, TLAPS

-----------------------------------------------------------------------------
(* What an update does to a table: it stays a table. *)
LEMMA ApplyType ==
  ASSUME NEW t \in CursorTable, NEW rq \in Request
  PROVE  Abstract!Apply(t, rq) \in CursorTable
BY DEF CursorTable, Request, Abstract!CursorTable, Abstract!Request,
       Abstract!Cursor, Abstract!Apply

(* The table every state file starts from. *)
LEMMA FreshTableType == FreshTable \in CursorTable
BY DEF FreshTable, CursorTable, Abstract!CursorTable, Abstract!Cursor,
       Abstract!FreshCursor

(* A writer inside an update has been given a request. *)
RequestKnown == \A w \in Writers : pc[w] # "idle" => request[w] \in Request

(* The inductive form of the type invariant. *)
TypeInv == TypeOK /\ RequestKnown

LEMMA TypeInvInit == Init => TypeInv
<1> SUFFICES ASSUME Init PROVE TypeInv
  OBVIOUS
<1>1. TypeOK
  <2>1. crashes \in 0..MaxCrashes /\ refusals \in 0..MaxRefusals
    BY StateStoreAssumption DEF Init
  <2>2. waited \in [Writers -> 0..LockTimeout]
    BY StateStoreAssumption DEF Init
  <2>3. request \in [Writers -> Request \cup {NoRequest}]
    BY DEF Init
  <2>4. /\ file \in CursorTable
        /\ snapshot \in [Writers -> CursorTable]
        /\ pc \in [Writers -> Location]
    BY FreshTableType DEF Init, Location
  <2> QED
    BY <2>1, <2>2, <2>3, <2>4 DEF Init, TypeOK
<1>2. RequestKnown
  BY DEF Init, RequestKnown
<1> QED
  BY <1>1, <1>2 DEF TypeInv

LEMMA TypeInvStep == TypeInv /\ [Next]_vars => TypeInv'
<1> SUFFICES ASSUME TypeInv, [Next]_vars PROVE TypeInv'
  OBVIOUS
<1> USE StateStoreAssumption DEF TypeInv, TypeOK, RequestKnown, Location,
        Waiting, Holding, GoTo, failures
<1>1. ASSUME NEW w \in Writers, NEW rq \in Request, Begin(w, rq) PROVE TypeInv'
  BY <1>1 DEF Begin
<1>2. ASSUME NEW w \in Writers, Acquire(w) PROVE TypeInv'
  BY <1>2 DEF Acquire, LockDirectory, failures
<1>12. ASSUME NEW w \in Writers, AcquireFails(w) PROVE TypeInv'
  BY <1>12, FreshTableType DEF AcquireFails, LockDirectory, Refused, Return
<1>13. ASSUME NEW w \in Writers, BreakFails(w) PROVE TypeInv'
  BY <1>13 DEF BreakFails, Refused
<1>14. ASSUME NEW w \in Writers, UnlockFails(w) PROVE TypeInv'
  BY <1>14, FreshTableType DEF UnlockFails, Refused, Return
<1>3. ASSUME NEW w \in Writers,
             Contend(w) \/ StatGone(w) \/ StatStale(w) \/ StatWait(w)
      PROVE  TypeInv'
  BY <1>3 DEF Contend, StatGone, StatStale, StatWait
<1>4. ASSUME NEW w \in Writers, BreakStale(w) PROVE TypeInv'
  BY <1>4 DEF BreakStale
<1>5. ASSUME NEW w \in Writers, StatTimeout(w) \/ LockFails(w) \/ Unlock(w)
      PROVE TypeInv'
  BY <1>5, FreshTableType DEF StatTimeout, LockFails, Unlock, Return
<1>6. ASSUME NEW w \in Writers, Load(w) PROVE TypeInv'
  BY <1>6 DEF Load
<1>7. ASSUME NEW w \in Writers, Save(w) PROVE TypeInv'
  <2>1. request[w] \in Request /\ snapshot[w] \in CursorTable
    BY <1>7 DEF Save
  <2>2. file' \in CursorTable
    BY <1>7, <2>1, ApplyType DEF Save
  <2> QED
    BY <1>7, <2>2 DEF Save
<1>8. ASSUME NEW w \in Writers, Fail(w) PROVE TypeInv'
  BY <1>8 DEF Fail
<1>9. CASE Tick
  <2>1. lock' \in LockDirectory \cup {NoLock}
    BY <1>9 DEF Tick, LockDirectory
  <2>2. waited' \in [Writers -> 0..LockTimeout]
    BY <1>9 DEF Tick
  <2> QED
    BY <1>9, <2>1, <2>2 DEF Tick
<1>10. CASE Crash
  BY <1>10, FreshTableType DEF Crash
<1>11. CASE UNCHANGED vars
  BY <1>11 DEF vars
<1> QED
  BY <1>1, <1>2, <1>3, <1>4, <1>5, <1>6, <1>7, <1>8, <1>9, <1>10, <1>11,
     <1>12, <1>13, <1>14 DEF Next, Step

(* Every state of every instance is well typed: the document on disk is    *)
(* always a complete table, crashes and failing writers included.          *)
THEOREM StateStoreTypeCorrect == Spec => []TypeOK
<1>1. TypeInv => TypeOK
  BY DEF TypeInv
<1> QED
  BY <1>1, TypeInvInit, TypeInvStep, PTL DEF Spec

-----------------------------------------------------------------------------
(* No lock directory gets as old as LockStale, so nobody breaks one. *)
LockIsFresh ==
  /\ lock # NoLock => lock.age <= HoldLimit
  /\ \A w \in Writers : pc[w] # "break"

(* What a writer loaded is still on disk when it saves. *)
SnapshotIsCurrent == \A w \in Writers : pc[w] = "save" => snapshot[w] = file

(* What holds until a lock directory is left behind, and then no more. *)
LockInv == TypeInv /\ LockIsOwned /\ (~left => LockIsFresh /\ SnapshotIsCurrent)

LEMMA LockInvInit == Init => LockInv
BY TypeInvInit
   DEF Init, LockInv, LockIsOwned, LockIsFresh, SnapshotIsCurrent, Holds, Holding

LEMMA LockInvStep ==
  ASSUME Timely PROVE LockInv /\ [Next]_vars => LockInv'
<1> SUFFICES ASSUME LockInv, [Next]_vars PROVE LockInv'
  OBVIOUS
<1>0. TypeInv'
  BY TypeInvStep DEF LockInv
<1> USE StateStoreAssumption, <1>0
    DEF LockInv, TypeInv, TypeOK, LockIsOwned, LockIsFresh, SnapshotIsCurrent,
        Location, Waiting, Holding, Holds, GoTo, LockDirectory, failures
<1>1. ASSUME NEW w \in Writers, NEW rq \in Request, Begin(w, rq) PROVE LockInv'
  BY <1>1 DEF Begin
<1>2. ASSUME NEW w \in Writers, Acquire(w) PROVE LockInv'
  BY <1>2 DEF Acquire
<1>3. ASSUME NEW w \in Writers, Contend(w) \/ StatGone(w) \/ StatWait(w)
      PROVE  LockInv'
  BY <1>3 DEF Contend, StatGone, StatWait
<1>4. ASSUME NEW w \in Writers, StatStale(w) PROVE LockInv'
  <2>1. left /\ left'
    BY <1>4 DEF StatStale, Timely
  <2> QED
    BY <1>4, <2>1 DEF StatStale
<1>5. ASSUME NEW w \in Writers, BreakStale(w) \/ BreakFails(w) PROVE LockInv'
  <2>1. left /\ left'
    BY <1>5 DEF BreakStale, BreakFails
  <2> QED
    BY <2>1
<1>14. ASSUME NEW w \in Writers, AcquireFails(w) \/ UnlockFails(w) PROVE LockInv'
  <2>1. left'
    BY <1>14 DEF AcquireFails, UnlockFails
  <2> QED
    BY <2>1
<1>6. ASSUME NEW w \in Writers, StatTimeout(w) \/ LockFails(w) PROVE LockInv'
  BY <1>6 DEF StatTimeout, LockFails, Return
<1>7. ASSUME NEW w \in Writers, Load(w) PROVE LockInv'
  BY <1>7 DEF Load
<1>8. ASSUME NEW w \in Writers, Save(w) PROVE LockInv'
  BY <1>8 DEF Save
<1>9. ASSUME NEW w \in Writers, Fail(w) PROVE LockInv'
  BY <1>9 DEF Fail
<1>10. ASSUME NEW w \in Writers, Unlock(w) PROVE LockInv'
  BY <1>10 DEF Unlock, Return
<1>11. CASE Tick
  <2>1. lock' # NoLock => lock # NoLock /\ lock'.owner = lock.owner
    BY <1>11 DEF Tick
  <2>2. ~left /\ lock # NoLock => lock' # NoLock /\ lock'.age <= HoldLimit
    BY <1>11 DEF Tick
  <2> QED
    BY <1>11, <2>1, <2>2 DEF Tick
<1>12. CASE Crash
  BY <1>12 DEF Crash
<1>13. CASE UNCHANGED vars
  BY <1>13 DEF vars
<1> QED
  BY <1>1, <1>2, <1>3, <1>4, <1>5, <1>6, <1>7, <1>8, <1>9, <1>10, <1>11,
     <1>12, <1>13, <1>14 DEF Next, Step

(* With timely writers, and until a lock directory is left behind, one     *)
(* writer at a time is inside an update of the state file.                 *)
THEOREM StateStoreMutualExclusion ==
  ASSUME Timely PROVE Spec => [](~left => MutualExclusion)
<1>1. LockInv => (~left => MutualExclusion)
  BY DEF LockInv, LockIsOwned, MutualExclusion
<1> QED
  BY <1>1, LockInvInit, LockInvStep, PTL DEF Spec

(* ... and the lock directory exists exactly while one is: of the ways out *)
(* of state_lock only the three that set left leave it behind.             *)
THEOREM StateStoreLockIsOwned ==
  ASSUME Timely PROVE Spec => []LockIsOwned
<1>1. LockInv => LockIsOwned
  BY DEF LockInv
<1> QED
  BY <1>1, LockInvInit, LockInvStep, PTL DEF Spec

-----------------------------------------------------------------------------
(* The pending requests CursorFile sees. *)
AskedFor == [w \in Writers |-> IF pc[w] \in {"idle", "unlock"}
                               THEN NoRequest ELSE request[w]]

(* Nothing is left behind where nothing crashes and nothing is refused. *)
Undisturbed == LockInv /\ ~left

LEMMA NothingIsRefused ==
  ASSUME PromptWriters, TypeInv PROVE ~Refused /\ ~Crash
BY StateStoreAssumption DEF PromptWriters, TypeInv, TypeOK, Refused, Crash

LEMMA UndisturbedStep ==
  ASSUME PromptWriters PROVE Undisturbed /\ [Next]_vars => Undisturbed'
<1> SUFFICES ASSUME Undisturbed, [Next]_vars PROVE Undisturbed'
  OBVIOUS
<1>1. LockInv'
  BY LockInvStep DEF Undisturbed, PromptWriters
<1>2. ~Refused /\ ~Crash
  BY NothingIsRefused DEF Undisturbed, LockInv
<1>3. left' = left
  BY <1>2 DEF Next, Step, vars, failures, Begin, Acquire, AcquireFails, Contend,
              StatGone, StatStale, StatWait, StatTimeout, BreakStale, BreakFails,
              LockFails, Load, Save, Fail, Unlock, UnlockFails, Tick
<1> QED
  BY <1>1, <1>3 DEF Undisturbed

(* Every step of a prompt writer is a step of CursorFile or a stutter: the *)
(* update takes effect at Save, and what fails before it is refused.       *)
LEMMA UpdateStep ==
  ASSUME PromptWriters
  PROVE  Undisturbed /\ [Next]_vars => [Abstract!Next]_(Abstract!vars)
<1> SUFFICES ASSUME Undisturbed, [Next]_vars
             PROVE  Abstract!Next \/ (file' = file /\ AskedFor' = AskedFor)
  BY DEF Abstract!vars, AskedFor
<1>0. ~Refused /\ ~Crash
  BY NothingIsRefused DEF Undisturbed, LockInv
<1> USE StateStoreAssumption DEF Undisturbed, LockInv, TypeInv, TypeOK,
        RequestKnown, Location, Waiting, Holding, GoTo
<1>1. ASSUME NEW w \in Writers, NEW rq \in Request, Begin(w, rq)
      PROVE  Abstract!Next
  <2>1. AskedFor[w] = NoRequest /\ file' = file
    BY <1>1 DEF Begin, AskedFor
  <2>2. AskedFor' = [AskedFor EXCEPT ![w] = rq]
    BY <1>1 DEF Begin, AskedFor
  <2> QED
    BY <2>1, <2>2 DEF Abstract!Next, Abstract!Ask, AskedFor, Request
<1>2. ASSUME NEW w \in Writers,
             \/ Acquire(w) \/ Contend(w) \/ StatGone(w) \/ StatStale(w)
             \/ StatWait(w) \/ BreakStale(w) \/ Load(w)
      PROVE  file' = file /\ AskedFor' = AskedFor
  BY <1>2 DEF Acquire, Contend, StatGone, StatStale, StatWait, BreakStale,
              Load, AskedFor
<1>3. ASSUME NEW w \in Writers, StatTimeout(w) \/ LockFails(w) \/ Fail(w) PROVE Abstract!Next
  <2>1. AskedFor[w] # NoRequest /\ file' = file
    BY <1>3 DEF StatTimeout, LockFails, Fail, AskedFor, Request, Abstract!Request
  <2>2. AskedFor' = [AskedFor EXCEPT ![w] = NoRequest]
    BY <1>3 DEF StatTimeout, LockFails, Fail, Return, AskedFor
  <2> QED
    BY <2>1, <2>2 DEF Abstract!Next, Abstract!Refuse, AskedFor
<1>4. ASSUME NEW w \in Writers, Save(w) PROVE Abstract!Next
  <2>1. AskedFor[w] # NoRequest /\ AskedFor[w] = request[w]
    BY <1>4 DEF Save, AskedFor, Request, Abstract!Request
  <2>2. snapshot[w] = file
    BY <1>4 DEF Save, SnapshotIsCurrent
  <2>3. file' = Abstract!Apply(file, AskedFor[w])
    BY <1>4, <2>1, <2>2 DEF Save
  <2>4. AskedFor' = [AskedFor EXCEPT ![w] = NoRequest]
    BY <1>4 DEF Save, AskedFor
  <2> QED
    BY <2>1, <2>3, <2>4 DEF Abstract!Next, Abstract!TakeEffect, AskedFor
<1>5. ASSUME NEW w \in Writers, Unlock(w)
      PROVE  file' = file /\ AskedFor' = AskedFor
  BY <1>5 DEF Unlock, Return, AskedFor
<1>6. CASE Tick
  BY <1>6 DEF Tick, AskedFor
<1>7. ASSUME NEW w \in Writers, AcquireFails(w) \/ BreakFails(w) \/ UnlockFails(w)
      PROVE  FALSE
  BY <1>0, <1>7 DEF AcquireFails, BreakFails, UnlockFails
<1>8. CASE UNCHANGED vars
  BY <1>8 DEF vars, AskedFor
<1> QED
  BY <1>0, <1>1, <1>2, <1>3, <1>4, <1>5, <1>6, <1>7, <1>8 DEF Next, Step

(* With prompt writers the locked load-modify-replace of                   *)
(* state.py implements an atomic table of cursors: no update is lost.      *)
THEOREM StateStoreUpdatesAreAtomic ==
  ASSUME PromptWriters PROVE Spec => UpdatesAreAtomic
<1>1. Init => Abstract!Init
  BY DEF Init, Abstract!Init, FreshTable
<1>2. Init => Undisturbed
  BY LockInvInit DEF Init, Undisturbed
<1> QED
  BY <1>1, <1>2, UndisturbedStep, UpdateStep, PTL
     DEF Spec, UpdatesAreAtomic, Abstract!Spec
=============================================================================
