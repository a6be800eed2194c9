------------------------ MODULE BackgroundRefresher -------------------------
(***************************************************************************)
(* The life cycle of the background refresher (api/refresher.py): start    *)
(* and stop, called in turn by the lifespan of an application, against the *)
(* loops they start.  All the loops share one stop event.                  *)
(***************************************************************************)
EXTENDS Naturals

CONSTANTS
  Loops,      \* the threads that may ever be started: bounds the restarts
  NoLoop,
  MaxRuns     \* bound: the ticks that are run

BackgroundRefresherAssumption ==
  /\ NoLoop \notin Loops
  /\ MaxRuns \in Nat

VARIABLES
  stopSet,    \* the event _stop
  thread,     \* _thread
  loop,       \* where each thread is
  joining,    \* the thread that stop() waits for
  running,    \* _status.running
  counts,     \* the counters of _status
  overdue     \* history: some stop() has given up on its thread

vars == <<stopSet, thread, loop, joining, running, counts, overdue>>
-----------------------------------------------------------------------------
Live(l) == loop[l] \in {"checking", "waiting", "ticking", "leaving"}

Init ==
  /\ stopSet = FALSE
  /\ thread = NoLoop
  /\ loop = [l \in Loops |-> "new"]
  /\ joining = NoLoop
  /\ running = FALSE
  /\ counts = [runs |-> 0, failures |-> 0, consecutive |-> 0, error |-> FALSE]
  /\ overdue = FALSE

Start ==
  /\ thread = NoLoop /\ joining = NoLoop
  /\ \E l \in Loops :
       /\ loop[l] = "new"
       /\ thread' = l
       /\ loop' = [loop EXCEPT ![l] = "checking"]
  /\ stopSet' = FALSE
  /\ running' = TRUE
  /\ UNCHANGED <<joining, counts, overdue>>

(* Mutant: stop wakes the loops without leaving the event set. *)
PulseToStop ==
  /\ thread # NoLoop /\ joining = NoLoop
  /\ loop' = [l \in Loops |-> IF loop[l] = "waiting" THEN "leaving" ELSE loop[l]]
  /\ joining' = thread
  /\ thread' = NoLoop
  /\ UNCHANGED <<stopSet, running, counts, overdue>>

(* stop sets the event, which wakes whoever waits for it, forgets the      *)
(* thread and joins it.                                                    *)
AskToStop ==
  /\ thread # NoLoop /\ joining = NoLoop
  /\ stopSet' = TRUE
  /\ loop' = [l \in Loops |-> IF loop[l] = "waiting" THEN "leaving" ELSE loop[l]]
  /\ joining' = thread
  /\ thread' = NoLoop
  /\ UNCHANGED <<running, counts, overdue>>

(* Mutant: stop does not wait for the tick to end. *)
NotJoined ==
  /\ joining # NoLoop
  /\ joining' = NoLoop
  /\ running' = FALSE
  /\ UNCHANGED <<stopSet, thread, loop, counts, overdue>>

Joined ==
  /\ joining # NoLoop /\ ~Live(joining)
  /\ joining' = NoLoop
  /\ running' = FALSE
  /\ UNCHANGED <<stopSet, thread, loop, counts, overdue>>

(* The join times out while a tick goes on; running is cleared anyway. *)
JoinTimesOut ==
  /\ joining # NoLoop /\ Live(joining)
  /\ joining' = NoLoop
  /\ running' = FALSE
  /\ overdue' = TRUE
  /\ UNCHANGED <<stopSet, thread, loop, counts>>

Goes(l, from, to) == loop[l] = from /\ loop' = [loop EXCEPT ![l] = to]

(* wait() finds the event set, or goes to sleep until it is or the         *)
(* interval is over.                                                       *)
Check(l) ==
  /\ Goes(l, "checking", IF stopSet THEN "ended" ELSE "waiting")
  /\ UNCHANGED <<stopSet, thread, joining, running, counts, overdue>>

Leave(l) ==
  /\ Goes(l, "leaving", "ended")
  /\ UNCHANGED <<stopSet, thread, joining, running, counts, overdue>>

Tick(l) ==
  /\ counts.runs < MaxRuns
  /\ Goes(l, "waiting", "ticking")
  /\ UNCHANGED <<stopSet, thread, joining, running, counts, overdue>>

Counted(failed) ==
  [runs |-> counts.runs + 1,
   failures |-> counts.failures + (IF failed THEN 1 ELSE 0),
   consecutive |-> IF failed THEN counts.consecutive + 1 ELSE 0,
   error |-> failed]

(* run_once: whatever ingest returns or raises, the loop goes on. *)
FinishTick(l) ==
  /\ Goes(l, "ticking", "checking")
  /\ \E failed \in BOOLEAN : counts' = Counted(failed)
  /\ UNCHANGED <<stopSet, thread, joining, running, overdue>>

LoopStep(l) == Check(l) \/ Leave(l) \/ FinishTick(l)

Next ==
  \/ Start \/ AskToStop \/ Joined \/ JoinTimesOut
  \/ \E l \in Loops : LoopStep(l) \/ Tick(l)

(* A tick ends (its requests have timeouts) and threads are scheduled;     *)
(* nobody has to start or stop anything.                                   *)
Fairness == \A l \in Loops : WF_vars(LoopStep(l))

Spec == Init /\ [][Next]_vars
FairSpec == Spec /\ Fairness
-----------------------------------------------------------------------------
TypeOK ==
  /\ stopSet \in BOOLEAN
  /\ thread \in Loops \union {NoLoop}
  /\ loop \in [Loops -> {"new", "checking", "waiting", "ticking", "leaving", "ended"}]
  /\ joining \in Loops \union {NoLoop}
  /\ running \in BOOLEAN
  /\ counts \in [runs : Nat, failures : Nat, consecutive : Nat, error : BOOLEAN]
  /\ overdue \in BOOLEAN

(* Restarts do not accumulate pollers, and nothing polls while the status *)
(* says that nothing runs: there is another loop than the one the object   *)
(* knows, or is waiting for, only after a stop has given up on one.        *)
OneLoop ==
  ~overdue => \A l \in Loops : Live(l) => l \in {thread, joining} /\ running

(* run_once: the streak of failures in the status is the current one.      *)
StreakIsCurrent ==
  /\ counts.consecutive <= counts.failures
  /\ counts.failures <= counts.runs
  /\ counts.error <=> counts.consecutive > 0

(* A stop that is not followed by a start ends every loop, also one that   *)
(* an earlier stop gave up on and that a start then kept alive.            *)
StopEndsEveryLoop ==
  <>[](thread = NoLoop) => <>[](\A l \in Loops : ~Live(l))
=============================================================================
