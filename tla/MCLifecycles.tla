---------------------------- MODULE MCLifecycles ----------------------------
(***************************************************************************)
(* What has a beginning and must come to an end: the loops of the          *)
(* refresher, fetches and their lookups, the versions of a game.  Each is  *)
(* a part of its own, as in MCApiProcess; fairness is assumed of the part  *)
(* that runs.  FetchBroker is extended, so that its properties are those   *)
(* of its theorems.                                                        *)
(***************************************************************************)
EXTENDS FetchBroker

CONSTANTS
  Loops, NoLoop, MaxRuns,
  Thread, Requests, Settings, Title, Initial, None, Back, MaxSeconds, MaxVersions, MaxAgain

EachItsOwn == [s \in Settings |-> s]
FetchCalls == Fetches \X (0..MaxRedirects)

VARIABLES
  part,
  stopSet, thread, loop, joining, running, counts, overdue,
  second, pages, sidecars, written, writes, work

refresher == <<stopSet, thread, loop, joining, running, counts, overdue>>
fetch == vars
games == <<second, pages, sidecars, written, writes, work>>
allVars == <<part, refresher, fetch, games>>
-----------------------------------------------------------------------------
Refresher == INSTANCE BackgroundRefresher

Games == INSTANCE GameVersions WITH Threads <- {Thread}

(* Requests about games come one after the other: one thread serves them.  *)
ASSUME LifecyclesAssumption ==
  /\ Refresher!BackgroundRefresherAssumption
  /\ FetchBrokerAssumption
  /\ Games!GameVersionsAssumption
  /\ Back \notin Settings
-----------------------------------------------------------------------------
PartsInit ==
  /\ part \in {"refresher", "fetch", "games"}
  /\ Refresher!Init /\ Init /\ Games!Init
  /\ url = [f \in Fetches |-> CHOOSE u \in Urls : TRUE]

OnRefresher(A) == part = "refresher" /\ A /\ UNCHANGED <<part, fetch, games>>
OnFetch(A) == part = "fetch" /\ A /\ UNCHANGED <<part, refresher, games>>
OnGames(A) == part = "games" /\ A /\ UNCHANGED <<part, refresher, fetch>>

PartsNext ==
  \/ OnRefresher(Refresher!Next)
  \/ OnFetch(Next)
  \/ OnGames(Games!Next)

PartsFairness ==
  /\ \A l \in Loops : WF_allVars(OnRefresher(Refresher!LoopStep(l)))
  /\ \A f \in Fetches : WF_allVars(OnFetch(FetchStep(f)))

PartsSpec == PartsInit /\ [][PartsNext]_allVars /\ PartsFairness
-----------------------------------------------------------------------------
OneLoop == Refresher!OneLoop
StopEndsEveryLoop == Refresher!StopEndsEveryLoop

EverySaveIsNew == Games!EverySaveIsNew

Asked(w) ==
  IF w = Games!Idle THEN [request |-> None, what |-> None, to |-> <<>>]
  ELSE [request |-> w.version.request,
        what |-> IF w.undo THEN Back ELSE w.version.setting,
        to |-> IF w.undo THEN Games!Stack[w.version.restored] ELSE <<>>]

History == INSTANCE UndoHistory WITH
  Threads <- {Thread},
  history <- [r \in Requests |-> Games!Undoable(r)],
  saved <- [r \in Requests |-> Games!Saved(r)],
  asked <- [t \in {Thread} |-> Asked(work[t])]

(* revise: undoing walks back over the pages that were asked for, past the *)
(* copies earlier undos made, and a change after an undo starts from what  *)
(* the undo brought back; only a former title goes back from an older      *)
(* version.  The reviser reads sidecars only, so they have to describe the *)
(* pages, also after a request that died half-way.                         *)
UndoIsAStack == History!Spec
=============================================================================
