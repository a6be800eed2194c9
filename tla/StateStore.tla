----------------------------- MODULE StateStore -----------------------------
(***************************************************************************)
(* The ingestion state file (ingestion/state.py) and the lock directory    *)
(* that serialises its updates (state_lock in ingestion/dirfd_path.py).    *)
(*                                                                         *)
(* An update is load -> modify -> replace, done while a directory          *)
(* "<state>.lock" exists.  mkdir takes the lock, rmdir gives it back, and  *)
(* neither says who owns it.  A lock older than LockStale is taken for the *)
(* leftover of a crash and removed by whoever meets it.                    *)
(*                                                                         *)
(* Time is relative: the lock has an age and every waiter the time it has  *)
(* waited, both saturating at the constants they are compared with, so the *)
(* model needs no bound on the clock.                                      *)
(***************************************************************************)
EXTENDS Integers

CONSTANTS Writers, Repositories, Commits, NoCommit, NoRequest,
          NoLock,        \* the lock directory does not exist
          LockTimeout,   \* _LOCK_TIMEOUT_SECONDS
          LockStale,     \* _LOCK_STALE_SECONDS
          HoldLimit,     \* longest time a writer spends between mkdir and rmdir
          LockFaults,    \* whether the OS may refuse to make or inspect the lock
          MaxRefusals,   \* bound: operations it refuses on a lock that was made
          MaxCrashes     \* bound: crashes of the service process

ASSUME StateStoreAssumption ==
  /\ LockTimeout \in Nat
  /\ LockStale \in Nat \ {0}
  /\ HoldLimit \in Nat
  /\ LockFaults \in BOOLEAN
  /\ MaxRefusals \in Nat
  /\ MaxCrashes \in Nat
  /\ NoCommit \notin Commits
  /\ Repositories # {}
  /\ NoLock \notin [owner : Writers, age : 0..LockStale]
  /\ NoRequest \notin [kind : {"ingested", "error"}, repo : Repositories, sha : Commits]

VARIABLES file,      \* the JSON document on disk
          lock,      \* the lock directory: who made it, and its age
          pc,        \* where in _locked_update each writer is
          request,   \* the update it was called for
          snapshot,  \* the document it loaded
          waited,    \* time since it computed its deadline
          crashes, refusals,  \* how many there were
          left       \* history: a lock directory was left behind

failures == <<crashes, refusals, left>>
vars == <<file, lock, pc, request, snapshot, waited, failures>>

(* While pending, an update of CursorFile is being waited for. *)
Waiting == {"mkdir", "stat", "break"}
Holding == {"load", "save", "unlock"}
Location == {"idle"} \cup Waiting \cup Holding

Holds(w) == pc[w] \in Holding

Abstract == INSTANCE CursorFile WITH
  table <- file,
  pending <- [w \in Writers |-> IF pc[w] \in {"idle", "unlock"}
                                THEN NoRequest ELSE request[w]]

Cursor == Abstract!Cursor
CursorTable == Abstract!CursorTable
Request == Abstract!Request

LockDirectory == [owner : Writers, age : 0..LockStale]

-----------------------------------------------------------------------------
FreshTable == [r \in Repositories |-> Abstract!FreshCursor]

Init == /\ file = FreshTable
        /\ lock = NoLock
        /\ pc = [w \in Writers |-> "idle"]
        /\ request = [w \in Writers |-> NoRequest]
        /\ snapshot = [w \in Writers |-> FreshTable]
        /\ waited = [w \in Writers |-> 0]
        /\ crashes = 0
        /\ refusals = 0
        /\ left = FALSE

GoTo(w, place) == pc' = [pc EXCEPT ![w] = place]

(* mark_ingested or mark_error is called: the deadline starts to run. *)
Begin(w, rq) ==
  /\ pc[w] = "idle"
  /\ request' = [request EXCEPT ![w] = rq]
  /\ waited' = [waited EXCEPT ![w] = 0]
  /\ GoTo(w, "mkdir")
  /\ UNCHANGED <<file, lock, snapshot, failures>>

(* The operating system refuses something done to a lock directory that    *)
(* exists.                                                                 *)
Refused ==
  /\ refusals < MaxRefusals
  /\ refusals' = refusals + 1
  /\ UNCHANGED crashes

(* Return to the caller: the locals are gone. *)
Return(w) ==
  /\ GoTo(w, "idle")
  /\ request' = [request EXCEPT ![w] = NoRequest]
  /\ snapshot' = [snapshot EXCEPT ![w] = FreshTable]
  /\ waited' = [waited EXCEPT ![w] = 0]

(* os.mkdir succeeds: the directory is new, and nothing in it names w. *)
Acquire(w) ==
  /\ pc[w] = "mkdir"
  /\ lock = NoLock
  /\ lock' = [owner |-> w, age |-> 0]
  /\ GoTo(w, "load")
  /\ UNCHANGED <<file, request, snapshot, waited, failures>>

(* os.mkdir succeeds but the inspection after it raises, which is before   *)
(* the try with the finally clause: the new directory stays.               *)
AcquireFails(w) ==
  /\ pc[w] = "mkdir"
  /\ lock = NoLock
  /\ Refused
  /\ lock' = [owner |-> w, age |-> 0]
  /\ left' = TRUE
  /\ Return(w)
  /\ UNCHANGED file

(* os.mkdir raises FileExistsError: look at the directory next. *)
Contend(w) ==
  /\ pc[w] = "mkdir"
  /\ lock # NoLock
  /\ GoTo(w, "stat")
  /\ UNCHANGED <<file, lock, request, snapshot, waited, failures>>

(* The directory is gone by the time it is inspected: try again at once,   *)
(* without looking at the deadline.                                        *)
StatGone(w) ==
  /\ pc[w] = "stat"
  /\ lock = NoLock
  /\ GoTo(w, "mkdir")
  /\ UNCHANGED <<file, lock, request, snapshot, waited, failures>>

(* Mutant: an old directory is only waited for, never removed. *)
StatStaleIgnored(w) ==
  /\ pc[w] = "stat"
  /\ lock # NoLock
  /\ lock.age >= LockStale
  /\ GoTo(w, "mkdir")
  /\ UNCHANGED <<file, lock, request, snapshot, waited, failures>>

(* The directory is old enough to be a leftover. *)
StatStale(w) ==
  /\ pc[w] = "stat"
  /\ lock # NoLock
  /\ lock.age >= LockStale
  /\ GoTo(w, "break")
  /\ UNCHANGED <<file, lock, request, snapshot, waited, failures>>

(* os.rmdir of the leftover: it removes whatever directory has the name    *)
(* now, which may no longer be the one that was inspected.                 *)
BreakStale(w) ==
  /\ pc[w] = "break"
  /\ lock' = NoLock
  /\ GoTo(w, "mkdir")
  /\ UNCHANGED <<file, request, snapshot, waited, failures>>

(* The removal fails, which is ignored: the next round begins at once and  *)
(* without a look at the deadline.                                         *)
BreakFails(w) ==
  /\ pc[w] = "break"
  /\ Refused
  /\ GoTo(w, "mkdir")
  /\ UNCHANGED <<file, lock, request, snapshot, waited, left>>

(* A fresh lock and time left: sleep for the poll interval and try again. *)
StatWait(w) ==
  /\ pc[w] = "stat"
  /\ lock # NoLock
  /\ lock.age < LockStale
  /\ waited[w] < LockTimeout
  /\ GoTo(w, "mkdir")
  /\ UNCHANGED <<file, lock, request, snapshot, waited, failures>>

(* A fresh lock and no time left: TimeoutError to the caller. *)
StatTimeout(w) ==
  /\ pc[w] = "stat"
  /\ lock # NoLock
  /\ lock.age < LockStale
  /\ waited[w] >= LockTimeout
  /\ Return(w)
  /\ UNCHANGED <<file, lock, failures>>

(* mkdir or the inspection fails for another reason (a full disk, a path   *)
(* that cannot be trusted): StateStoreError to the caller.                 *)
LockFails(w) ==
  /\ LockFaults
  /\ pc[w] \in {"mkdir", "stat"}
  /\ Return(w)
  /\ UNCHANGED <<file, lock, failures>>

(* Mutant: the document is read from a copy kept since the start of the    *)
(* service instead of from disk.                                           *)
LoadCached(w) ==
  /\ pc[w] = "load"
  /\ GoTo(w, "save")
  /\ UNCHANGED <<file, lock, request, snapshot, waited, failures>>

(* _load_unlocked *)
Load(w) ==
  /\ pc[w] = "load"
  /\ snapshot' = [snapshot EXCEPT ![w] = file]
  /\ GoTo(w, "save")
  /\ UNCHANGED <<file, lock, request, waited, failures>>

(* Mutant: only the entry of the updated repository is written back. *)
SaveEntryOnly(w) ==
  /\ pc[w] = "save"
  /\ file' = [r \in {request[w].repo} |->
                Abstract!Apply(snapshot[w], request[w])[r]]
  /\ GoTo(w, "unlock")
  /\ UNCHANGED <<lock, request, snapshot, waited, failures>>

(* _save_unlocked, by atomic_replace_bytes_at: a complete temporary file is *)
(* renamed over the document.                                              *)
Save(w) ==
  /\ pc[w] = "save"
  /\ file' = Abstract!Apply(snapshot[w], request[w])
  /\ GoTo(w, "unlock")
  /\ UNCHANGED <<lock, request, snapshot, waited, failures>>

(* Mutant: the error path leaves without the finally clause. *)
FailLeaksLock(w) ==
  /\ pc[w] \in {"load", "save"}
  /\ Return(w)
  /\ UNCHANGED <<file, lock, failures>>

(* The document cannot be read or trusted, or cannot be replaced:          *)
(* StateStoreError, and the finally clause still gives the lock back.      *)
Fail(w) ==
  /\ pc[w] \in {"load", "save"}
  /\ GoTo(w, "unlock")
  /\ UNCHANGED <<file, lock, request, snapshot, waited, failures>>

(* The finally clause: os.rmdir of the lock, whoever made it. *)
Unlock(w) ==
  /\ pc[w] = "unlock"
  /\ lock' = NoLock
  /\ Return(w)
  /\ UNCHANGED <<file, failures>>

(* The removal raises something else than FileNotFoundError: the exception *)
(* reaches the caller, and the directory stays.                            *)
UnlockFails(w) ==
  /\ pc[w] = "unlock"
  /\ Refused
  /\ left' = TRUE
  /\ Return(w)
  /\ UNCHANGED <<file, lock>>

(* One time unit.  The environment lets no writer that still owns the lock *)
(* directory hold it for longer than HoldLimit.                            *)
Tick ==
  /\ lock # NoLock /\ Holds(lock.owner) => lock.age < HoldLimit
  /\ lock' = IF lock # NoLock /\ lock.age < LockStale
             THEN [lock EXCEPT !.age = @ + 1] ELSE lock
  /\ waited' = [w \in Writers |-> IF pc[w] \in Waiting /\ waited[w] < LockTimeout
                                  THEN waited[w] + 1 ELSE waited[w]]
  /\ UNCHANGED <<file, pc, request, snapshot, failures>>

(* The service process dies and is started again: every thread is gone,    *)
(* the document and the lock directory stay.                               *)
Crash ==
  /\ crashes < MaxCrashes
  /\ crashes' = crashes + 1
  /\ left' = (left \/ lock # NoLock)
  /\ pc' = [w \in Writers |-> "idle"]
  /\ request' = [w \in Writers |-> NoRequest]
  /\ snapshot' = [w \in Writers |-> FreshTable]
  /\ waited' = [w \in Writers |-> 0]
  /\ UNCHANGED <<file, lock, refusals>>

Step(w) == \/ Acquire(w) \/ AcquireFails(w) \/ Contend(w)
           \/ StatGone(w) \/ StatStale(w) \/ StatWait(w) \/ StatTimeout(w)
           \/ BreakStale(w) \/ BreakFails(w) \/ LockFails(w)
           \/ Load(w) \/ Save(w) \/ Fail(w) \/ Unlock(w) \/ UnlockFails(w)

Next == \/ \E w \in Writers : Step(w) \/ \E rq \in Request : Begin(w, rq)
        \/ Tick
        \/ Crash

Spec == Init /\ [][Next]_vars

(* Threads are scheduled, time passes, and the background refresher keeps  *)
(* calling: no strong fairness, so a writer may lose every race for mkdir. *)
(* Meaningful without LockFaults: an operating system that always refuses  *)
(* the lock directory stops every update.                                  *)
Fairness == /\ WF_vars(Tick)
            /\ \A w \in Writers : /\ WF_vars(Step(w))
                                  /\ WF_vars(\E rq \in Request : Begin(w, rq))

FairSpec == Spec /\ Fairness

-----------------------------------------------------------------------------
(* No writer holds the lock for as long as it takes to look abandoned. *)
Timely == HoldLimit < LockStale

(* Timely writers that are never interrupted, and an operating system that *)
(* does as it is told once the lock directory is made.                     *)
PromptWriters == Timely /\ MaxCrashes = 0 /\ MaxRefusals = 0

(* Every variable keeps its type; in particular what is on disk is always  *)
(* a complete table (atomic_replace_bytes_at never leaves a torn file).    *)
TypeOK ==
  /\ file \in CursorTable
  /\ lock \in LockDirectory \cup {NoLock}
  /\ pc \in [Writers -> Location]
  /\ request \in [Writers -> Request \cup {NoRequest}]
  /\ snapshot \in [Writers -> CursorTable]
  /\ waited \in [Writers -> 0..LockTimeout]
  /\ crashes \in 0..MaxCrashes
  /\ refusals \in 0..MaxRefusals
  /\ left \in BOOLEAN

(* "Two workers must not overwrite each other's repository cursor state":  *)
(* at most one writer is between mkdir and rmdir.                          *)
MutualExclusion == \A v, w \in Writers : Holds(v) /\ Holds(w) => v = w

(* The lock directory exists exactly while a writer is inside the update:  *)
(* a failure of the update itself, a timeout and a lock that cannot be     *)
(* made all give it back or never had it.  Three things leave one behind,  *)
(* and void this: a crash while there is one, an inspection of the new     *)
(* directory that raises, and an rmdir that the system refuses.            *)
LockIsOwned ==
  ~left => /\ \A w \in Writers : Holds(w) => lock # NoLock /\ lock.owner = w
           /\ lock # NoLock => Holds(lock.owner)

(* mark_ingested and mark_error are atomic: what a writer saves is its     *)
(* update applied to the document as it is at that moment.                 *)
UpdatesAreAtomic == Abstract!Spec

(* "A crashed writer's empty lock directory must not wedge ingestion       *)
(* forever": a lock directory nobody holds, left by a crash or by an       *)
(* operation that was refused, is eventually removed.                      *)
Abandoned == lock # NoLock /\ ~Holds(lock.owner)
CrashDoesNotWedge == Abandoned ~> ~Abandoned
=============================================================================
