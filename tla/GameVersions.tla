---------------------------- MODULE GameVersions ----------------------------
(***************************************************************************)
(* The generated games on disk: each version is a page and a sidecar that  *)
(* says what it was built from.  Making, changing and undoing all write a  *)
(* new version (creation/revise.py, save_game of creation/games.py).       *)
(***************************************************************************)
EXTENDS Naturals, Sequences, FiniteSets

CONSTANTS
  Threads,     \* request threads of the API
  Requests,    \* request texts; the template is a function of the text
  Settings,    \* difficulty, colours, title and panel of a page, together
  Title,       \* setting -> the title among them
  Initial,     \* what the generator builds from a request
  None,
  MaxSeconds,  \* bound: seconds the file names tell apart
  MaxVersions, \* bound: pages
  MaxAgain     \* bound: versions a chain has when its request is made again

Names == [second : 0..MaxSeconds, serial : 1..MaxVersions]
Builds == [request : Requests, setting : Settings]
Versions == [request : Requests, setting : Settings, restored : Names \union {None}]

GameVersionsAssumption ==
  /\ Initial \in Settings
  /\ DOMAIN Title = Settings
  /\ None \notin Names \union Requests \union Settings
  /\ MaxSeconds \in Nat /\ MaxVersions \in Nat /\ MaxAgain \in Nat

VARIABLES
  second,   \* the clock, at the resolution of the names
  pages,    \* name -> request and setting the page was built from
  sidecars, \* name -> the same, and the version an undo copied
  written,  \* name -> when its sidecar was modified
  writes,   \* the sidecars written so far, the clock of these times
  work      \* what each thread is building

vars == <<second, pages, sidecars, written, writes, work>>
-----------------------------------------------------------------------------
Idle == [at |-> "idle"]
Built(r, s, from, undo) ==
  [at |-> "built", undo |-> undo,
   version |-> [request |-> r, setting |-> s, restored |-> from]]
Page(version) == [request |-> version.request, setting |-> version.setting]

Init ==
  /\ second = 0
  /\ pages = <<>>
  /\ sidecars = <<>>
  /\ written = <<>>
  /\ writes = 0
  /\ work = [t \in Threads |-> Idle]

(* The chain of a request: the versions built from it. *)
Chain(r) == {n \in DOMAIN sidecars : sidecars[n].request = r}
Newest(names) == CHOOSE n \in names : \A m \in names : written[m] <= written[n]

(* find_target_meta: the newest of the games of some titles and kinds; so  *)
(* a former title finds the version that had it last.                      *)
Targets ==
  {n \in DOMAIN sidecars :
     \A m \in Chain(sidecars[n].request) :
       Title[sidecars[m].setting] = Title[sidecars[n].setting] => written[m] <= written[n]}

(* An undo leads back to the version it copied. *)
Origin[n \in DOMAIN sidecars] ==
  LET from == sidecars[n].restored
  IN  IF from \in Chain(sidecars[n].request) THEN Origin[from] ELSE n

Before(n) == {m \in Chain(sidecars[n].request) : written[m] < written[n]}

(* Mutant: an undo does not look where the version came from, so that a    *)
(* second one brings back what the first took away.                        *)
PreviousWritten(n) == IF Before(n) = {} THEN None ELSE Newest(Before(n))

(* The version before this one, None for the first. *)
Previous(n) ==
  LET earlier == Before(Origin[n])
  IN  IF earlier = {} THEN None ELSE Newest(earlier)
-----------------------------------------------------------------------------
(* A generator builds a page; the same request may be made again. *)
Make(t, r) ==
  /\ work[t] = Idle
  /\ Cardinality(Chain(r)) < MaxAgain
  /\ work' = [work EXCEPT ![t] = Built(r, Initial, None, FALSE)]
  /\ UNCHANGED <<second, pages, sidecars, written, writes>>

(* A change that changes nothing writes nothing, unless it also named an   *)
(* object that cannot be changed.                                          *)
Change(t, target, s) ==
  /\ work[t] = Idle
  /\ work' = [work EXCEPT ![t] = Built(sidecars[target].request, s, None, FALSE)]
  /\ UNCHANGED <<second, pages, sidecars, written, writes>>

Undo(t, target) ==
  /\ work[t] = Idle
  /\ Previous(target) # None
  /\ LET from == Previous(target)
     IN  work' = [work EXCEPT ![t] =
                    Built(sidecars[from].request, sidecars[from].setting, from, TRUE)]
  /\ UNCHANGED <<second, pages, sidecars, written, writes>>

(* Mutant: no serial number is looked for. *)
PickStamp(t) ==
  /\ work[t].at = "built"
  /\ work' = [work EXCEPT ![t] = [at |-> "named", undo |-> @.undo, version |-> @.version,
                                  name |-> [second |-> second, serial |-> 1]]]
  /\ UNCHANGED <<second, pages, sidecars, written, writes>>

Free(k) == [second |-> second, serial |-> k] \notin DOMAIN pages

(* The first name of this second that no page has. *)
PickName(t) ==
  /\ work[t].at = "built"
  /\ \E k \in 1..MaxVersions :
       /\ Free(k)
       /\ \A j \in 1..(k - 1) : ~Free(j)
       /\ work' = [work EXCEPT ![t] = [at |-> "named", undo |-> @.undo, version |-> @.version,
                                       name |-> [second |-> second, serial |-> k]]]
  /\ UNCHANGED <<second, pages, sidecars, written, writes>>

Put(f, n, v) == [m \in DOMAIN f \union {n} |-> IF m = n THEN v ELSE f[m]]

WritePage(t) ==
  /\ work[t].at = "named"
  /\ pages' = Put(pages, work[t].name, Page(work[t].version))
  /\ work' = [work EXCEPT ![t].at = "saved"]
  /\ UNCHANGED <<second, sidecars, written, writes>>

WriteSidecar(t) ==
  /\ work[t].at = "saved"
  /\ LET n == work[t].name
     IN  /\ sidecars' = Put(sidecars, n, work[t].version)
         /\ written' = Put(written, n, writes + 1)
  /\ writes' = writes + 1
  /\ work' = [work EXCEPT ![t] = Idle]
  /\ UNCHANGED <<second, pages>>

(* A request dies between two of its files, or the process does. *)
GiveUp(t) ==
  /\ work[t] # Idle
  /\ work' = [work EXCEPT ![t] = Idle]
  /\ UNCHANGED <<second, pages, sidecars, written, writes>>

Tick ==
  /\ second < MaxSeconds
  /\ second' = second + 1
  /\ UNCHANGED <<pages, sidecars, written, writes, work>>

Room == Cardinality(DOMAIN pages) < MaxVersions
Next ==
  \/ Tick
  \/ \E t \in Threads :
       \/ Room /\ \E r \in Requests : Make(t, r)
       \/ Room /\ \E target \in Targets : Undo(t, target) \/ \E s \in Settings : Change(t, target, s)
       \/ PickName(t)
       \/ WritePage(t)
       \/ WriteSidecar(t)
       \/ GiveUp(t)

Spec == Init /\ [][Next]_vars
-----------------------------------------------------------------------------
TypeOK ==
  /\ second \in 0..MaxSeconds
  /\ DOMAIN pages \subseteq Names /\ \A n \in DOMAIN pages : pages[n] \in Builds
  /\ DOMAIN sidecars \subseteq Names /\ \A n \in DOMAIN sidecars : sidecars[n] \in Versions
  /\ DOMAIN written = DOMAIN sidecars /\ \A n \in DOMAIN written : written[n] \in 1..writes
  /\ writes \in Nat
  /\ \A t \in Threads : work[t] = Idle \/ work[t].version \in Versions

(* save_game: every save is a new file, so the older versions that the     *)
(* sign-off of a revision promises are still there.                        *)
EverySaveIsNew == [][\A n \in DOMAIN pages : n \in DOMAIN pages' /\ pages'[n] = pages[n]]_vars

(* What undoing again and again brings back, up to the version itself. *)
Stack[n \in DOMAIN sidecars] ==
  LET under == Previous(n)
  IN  IF under = None THEN <<pages[n].setting>> ELSE Append(Stack[under], pages[n].setting)
Undoable(r) == IF Chain(r) = {} THEN <<>> ELSE Stack[Newest(Chain(r))]
Saved(r) == {Stack[n] : n \in Chain(r)}
=============================================================================
