-------------------------- MODULE LifecyclesProofs --------------------------
(***************************************************************************)
(* Proofs about the refresher and the games of MCLifecycles, for any       *)
(* number of starts, ticks and versions.                                   *)
(***************************************************************************)
EXTENDS MCLifecycles, SequenceTheorems, TLAPS

-----------------------------------------------------------------------------
(* stop forgets the thread before it waits for it. *)
JoinedIsForgotten == joining # NoLoop => thread = NoLoop

RefresherInv == Refresher!TypeOK /\ Refresher!OneLoop /\ Refresher!StreakIsCurrent /\ JoinedIsForgotten

LEMMA RefresherInvInit ==
  ASSUME Refresher!BackgroundRefresherAssumption
  PROVE  Refresher!Init => RefresherInv
<1> SUFFICES ASSUME Refresher!Init PROVE RefresherInv
  OBVIOUS
<1> USE DEF Refresher!Init
<1>1. Refresher!TypeOK
  BY DEF Refresher!TypeOK
<1>2. Refresher!OneLoop /\ JoinedIsForgotten
  BY DEF Refresher!OneLoop, JoinedIsForgotten, Refresher!Live
<1>3. Refresher!StreakIsCurrent
  BY DEF Refresher!StreakIsCurrent
<1> QED
  BY <1>1, <1>2, <1>3 DEF RefresherInv

(* A step of a loop that is alive starts none, and ends at most itself.    *)
LEMMA LoopStepKeeps ==
  ASSUME Refresher!BackgroundRefresherAssumption, RefresherInv,
         NEW l \in Loops, Refresher!Check(l) \/ Refresher!Leave(l) \/ Refresher!Tick(l)
  PROVE  RefresherInv'
<1> USE DEF RefresherInv, Refresher!TypeOK
<1>1. \A k \in Loops : Refresher!Live(k)' => Refresher!Live(k)
  BY DEF Refresher!Check, Refresher!Leave, Refresher!Tick, Refresher!Goes, Refresher!Live
<1>2. Refresher!TypeOK'
  BY DEF Refresher!Check, Refresher!Leave, Refresher!Tick, Refresher!Goes
<1>3. UNCHANGED <<thread, joining, running, counts, overdue>>
  BY DEF Refresher!Check, Refresher!Leave, Refresher!Tick
<1> QED
  BY <1>1, <1>2, <1>3 DEF Refresher!OneLoop, Refresher!StreakIsCurrent, JoinedIsForgotten

LEMMA FinishTickKeeps ==
  ASSUME Refresher!BackgroundRefresherAssumption, RefresherInv, NEW l \in Loops, Refresher!FinishTick(l)
  PROVE  RefresherInv'
<1> USE DEF RefresherInv, Refresher!TypeOK
<1>1. \A k \in Loops : Refresher!Live(k)' => Refresher!Live(k)
  BY DEF Refresher!FinishTick, Refresher!Goes, Refresher!Live
<1>2. PICK failed \in BOOLEAN : counts' = Refresher!Counted(failed)
  BY DEF Refresher!FinishTick
<1>3. Refresher!TypeOK'
  BY <1>2 DEF Refresher!FinishTick, Refresher!Goes, Refresher!Counted
<1>4. Refresher!StreakIsCurrent'
  <2>1. CASE failed
    BY <1>2, <2>1 DEF Refresher!Counted, Refresher!StreakIsCurrent
  <2>2. CASE ~failed
    BY <1>2, <2>2 DEF Refresher!Counted, Refresher!StreakIsCurrent
  <2> QED
    BY <2>1, <2>2
<1>5. UNCHANGED <<thread, joining, running, overdue>>
  BY DEF Refresher!FinishTick
<1> QED
  BY <1>1, <1>3, <1>4, <1>5 DEF Refresher!OneLoop, JoinedIsForgotten

LEMMA RefresherInvStep ==
  ASSUME Refresher!BackgroundRefresherAssumption
  PROVE  RefresherInv /\ [Refresher!Next]_(Refresher!vars) => RefresherInv'
<1> SUFFICES ASSUME RefresherInv, [Refresher!Next]_(Refresher!vars) PROVE RefresherInv'
  OBVIOUS
<1> USE DEF RefresherInv, Refresher!TypeOK
<1>1. CASE Refresher!Start
  <2>1. PICK l \in Loops : /\ loop[l] = "new" /\ thread' = l
                           /\ loop' = [loop EXCEPT ![l] = "checking"]
    BY <1>1 DEF Refresher!Start
  <2>2. Refresher!TypeOK'
    BY <1>1, <2>1 DEF Refresher!Start
  <2>3. Refresher!OneLoop'
    BY <1>1, <2>1, Refresher!BackgroundRefresherAssumption
       DEF Refresher!Start, Refresher!OneLoop, Refresher!Live, Refresher!BackgroundRefresherAssumption
  <2> QED
    BY <1>1, <2>1, <2>2, <2>3 DEF Refresher!Start, Refresher!StreakIsCurrent, JoinedIsForgotten
<1>2. CASE Refresher!AskToStop
  <2>1. Refresher!TypeOK'
    BY <1>2 DEF Refresher!AskToStop
  <2>2. \A k \in Loops : Refresher!Live(k)' => Refresher!Live(k)
    BY <1>2 DEF Refresher!AskToStop, Refresher!Live
  <2>3. UNCHANGED <<running, counts, overdue>>
    BY <1>2 DEF Refresher!AskToStop
  <2>4. Refresher!OneLoop'
    BY <1>2, <2>2, <2>3, Refresher!BackgroundRefresherAssumption
       DEF Refresher!AskToStop, Refresher!OneLoop, Refresher!BackgroundRefresherAssumption
  <2> QED
    BY <1>2, <2>1, <2>3, <2>4 DEF Refresher!AskToStop, JoinedIsForgotten, Refresher!StreakIsCurrent
<1>3. CASE Refresher!Joined
  <2>1. \A k \in Loops : Refresher!Live(k)' <=> Refresher!Live(k)
    BY <1>3 DEF Refresher!Joined, Refresher!Live
  <2>2. ~overdue => \A k \in Loops : ~Refresher!Live(k)
    BY <1>3, Refresher!BackgroundRefresherAssumption
       DEF Refresher!Joined, Refresher!OneLoop, JoinedIsForgotten, Refresher!BackgroundRefresherAssumption
  <2>3. Refresher!OneLoop'
    BY <1>3, <2>1, <2>2 DEF Refresher!Joined, Refresher!OneLoop
  <2>4. Refresher!TypeOK' /\ JoinedIsForgotten'
    BY <1>3 DEF Refresher!Joined, JoinedIsForgotten
  <2> QED
    BY <1>3, <2>3, <2>4 DEF Refresher!Joined, Refresher!StreakIsCurrent
<1>4. CASE Refresher!JoinTimesOut
  BY <1>4 DEF Refresher!JoinTimesOut, Refresher!OneLoop, Refresher!StreakIsCurrent, JoinedIsForgotten
<1>5. ASSUME NEW l \in Loops, Refresher!Check(l) \/ Refresher!Leave(l) \/ Refresher!Tick(l) PROVE RefresherInv'
  BY <1>5, LoopStepKeeps, Refresher!BackgroundRefresherAssumption
<1>6. ASSUME NEW l \in Loops, Refresher!FinishTick(l) PROVE RefresherInv'
  BY <1>6, FinishTickKeeps, Refresher!BackgroundRefresherAssumption
<1>7. CASE UNCHANGED Refresher!vars
  BY <1>7 DEF Refresher!vars, Refresher!OneLoop, Refresher!StreakIsCurrent, JoinedIsForgotten, Refresher!Live
<1> QED
  BY <1>1, <1>2, <1>3, <1>4, <1>5, <1>6, <1>7 DEF Refresher!Next, Refresher!LoopStep

THEOREM RefresherInvariant == PartsSpec => []RefresherInv
<1>1. PartsInit => RefresherInv
  BY LifecyclesAssumption, RefresherInvInit DEF PartsInit, LifecyclesAssumption
<1>2. RefresherInv /\ [PartsNext]_allVars => RefresherInv'
  <2> SUFFICES ASSUME RefresherInv, [PartsNext]_allVars PROVE RefresherInv'
    OBVIOUS
  <2>1. [Refresher!Next]_(Refresher!vars)
    BY DEF PartsNext, OnRefresher, OnFetch, OnGames, allVars, refresher, Refresher!vars
  <2> QED
    BY <2>1, LifecyclesAssumption, RefresherInvStep DEF LifecyclesAssumption
<1> QED
  BY <1>1, <1>2, PTL DEF PartsSpec

(* start and stop in turn never leave a second poller behind, nor one that *)
(* the status does not show, as long as no stop has given up on its thread.*)
THEOREM RefresherOneLoop == PartsSpec => []OneLoop
<1>1. RefresherInv => OneLoop
  BY DEF RefresherInv, OneLoop
<1> QED
  BY <1>1, RefresherInvariant, PTL

(* The streak of failures in the status ends with the last success, over   *)
(* any number of restarts and of loops that tick side by side.             *)
THEOREM RefresherStreakIsCurrent == PartsSpec => []Refresher!StreakIsCurrent
<1>1. RefresherInv => Refresher!StreakIsCurrent
  BY DEF RefresherInv
<1> QED
  BY <1>1, RefresherInvariant, PTL
-----------------------------------------------------------------------------
(* A page is there before its sidecar, and both say the same. *)
PagesKept ==
  /\ DOMAIN sidecars \subseteq DOMAIN pages
  /\ DOMAIN pages \subseteq Games!Names
  /\ \A n \in DOMAIN pages : pages[n] \in Games!Builds
  /\ \A n \in DOMAIN sidecars :
       /\ sidecars[n] \in Games!Versions
       /\ pages[n] = Games!Page(sidecars[n])
       /\ sidecars[n].restored \in DOMAIN sidecars \union {None}

(* The sidecars stand in the order they were written in. *)
InTurn ==
  /\ writes \in Nat
  /\ DOMAIN written = DOMAIN sidecars
  /\ \A n \in DOMAIN sidecars : written[n] \in Nat /\ written[n] <= writes
  /\ \A m, n \in DOMAIN sidecars : written[m] = written[n] => m = n

HasNewest(names) ==
  names # {} => \E n \in names : \A m \in names : written[m] <= written[n]

Lined ==
  /\ \A r \in Requests : HasNewest(Games!Chain(r))
  /\ \A n \in DOMAIN sidecars : HasNewest(Games!Before(n))

(* Following the copies comes to an end: there is one function that does. *)
FollowsCopies(f) ==
  f = [n \in DOMAIN sidecars |->
         LET from == sidecars[n].restored
         IN  IF from \in Games!Chain(sidecars[n].request) THEN f[from] ELSE n]

OriginKnown ==
  /\ \E f : FollowsCopies(f)
  /\ \A f, g : FollowsCopies(f) /\ FollowsCopies(g) => f = g
  /\ \A f : FollowsCopies(f) =>
       \A n \in DOMAIN sidecars : f[n] \in Games!Chain(sidecars[n].request)

LEMMA NewestIs ==
  ASSUME NEW S, NEW W, NEW x \in S,
         \A m \in S : W[m] \in Nat,
         \A m, n \in S : W[m] = W[n] => m = n,
         \A m \in S : W[m] <= W[x]
  PROVE  (CHOOSE n \in S : \A m \in S : W[m] <= W[n]) = x
<1> DEFINE y == CHOOSE n \in S : \A m \in S : W[m] <= W[n]
<1>1. y \in S /\ \A m \in S : W[m] <= W[y]
  OBVIOUS
<1> HIDE DEF y
<1>2. W[y] = W[x]
  BY <1>1
<1>3. y = x
  BY <1>1, <1>2
<1> QED
  BY <1>3 DEF y

LEMMA OriginFollows ==
  ASSUME OriginKnown
  PROVE  FollowsCopies(Games!Origin)
<1>1. Games!Origin = CHOOSE f : FollowsCopies(f)
  BY DEF Games!Origin, FollowsCopies
<1>2. \E f : FollowsCopies(f)
  BY DEF OriginKnown
<1> QED
  BY <1>1, <1>2

(* A sidecar is added: the only step that changes what the reviser reads.  *)
Adds(n, v) ==
  /\ n \notin DOMAIN sidecars
  /\ n \in DOMAIN pages
  /\ v \in Games!Versions
  /\ v.restored \in Games!Chain(v.request) \union {None}
  /\ pages[n] = Games!Page(v)
  /\ sidecars' = Games!Put(sidecars, n, v)
  /\ written' = Games!Put(written, n, writes + 1)
  /\ writes' = writes + 1
  /\ pages' = pages

LEMMA AddedSidecar ==
  ASSUME NEW n, NEW v, Adds(n, v)
  PROVE  /\ DOMAIN sidecars' = DOMAIN sidecars \union {n}
         /\ sidecars'[n] = v
         /\ \A m \in DOMAIN sidecars : sidecars'[m] = sidecars[m]
         /\ \A m \in DOMAIN sidecars : m # n
BY DEF Adds, Games!Put

LEMMA AddedTime ==
  ASSUME InTurn, NEW n, NEW v, Adds(n, v)
  PROVE  /\ written'[n] = writes + 1
         /\ \A m \in DOMAIN sidecars : written'[m] = written[m]
         /\ DOMAIN written' = DOMAIN sidecars'
BY DEF Adds, Games!Put, InTurn

LEMMA AddedChain ==
  ASSUME NEW n, NEW v, Adds(n, v), NEW r
  PROVE  Games!Chain(r)' =
           IF r = v.request THEN Games!Chain(r) \union {n} ELSE Games!Chain(r)
<1>1. /\ DOMAIN sidecars' = DOMAIN sidecars \union {n}
      /\ \A m \in DOMAIN sidecars : m # n /\ sidecars'[m] = sidecars[m]
      /\ sidecars'[n] = v
  BY AddedSidecar
<1>2. /\ Games!Chain(r)' = {m \in DOMAIN sidecars' : sidecars'[m].request = r}
      /\ Games!Chain(r) = {m \in DOMAIN sidecars : sidecars[m].request = r}
  BY DEF Games!Chain
<1>3. ASSUME NEW m
      PROVE  m \in Games!Chain(r)' <=> m \in Games!Chain(r) \/ (m = n /\ r = v.request)
  BY <1>1, <1>2
<1> QED
  BY <1>3

LEMMA AddedPagesKept ==
  ASSUME PagesKept, NEW n, NEW v, Adds(n, v)
  PROVE  PagesKept'
<1>1. v.restored \in DOMAIN sidecars \union {None}
  BY DEF Adds, Games!Chain
<1>2. ASSUME NEW m \in DOMAIN sidecars'
      PROVE  /\ sidecars'[m] \in Games!Versions
             /\ pages'[m] = Games!Page(sidecars'[m])
             /\ sidecars'[m].restored \in DOMAIN sidecars' \union {None}
  <2>1. CASE m = n
    BY <2>1, <1>1, AddedSidecar DEF Adds, Games!Page
  <2>2. CASE m \in DOMAIN sidecars
    BY <2>2, AddedSidecar DEF PagesKept, Adds, Games!Page
  <2>3. DOMAIN sidecars' = DOMAIN sidecars \union {n}
    BY AddedSidecar
  <2> QED
    BY <2>1, <2>2, <2>3
<1> QED
  BY <1>2, AddedSidecar DEF PagesKept, Adds, Games!Page

LEMMA AddedInTurn ==
  ASSUME InTurn, NEW n, NEW v, Adds(n, v)
  PROVE  InTurn'
<1>0. DOMAIN sidecars' = DOMAIN sidecars \union {n}
  BY AddedSidecar
<1>1. writes' = writes + 1 /\ writes \in Nat
  BY DEF Adds, InTurn
<1>2. \A m \in DOMAIN sidecars : written'[m] \in Nat /\ written'[m] < writes'
  BY <1>1, AddedTime DEF InTurn
<1>3. written'[n] \in Nat /\ written'[n] = writes'
  BY <1>1, AddedTime
<1>4. \A k, m \in DOMAIN sidecars : written'[k] = written'[m] => k = m
  BY AddedTime DEF InTurn
<1>5. \A k, m \in DOMAIN sidecars' : written'[k] = written'[m] => k = m
  BY <1>0, <1>1, <1>2, <1>3, <1>4
<1>6. \A m \in DOMAIN sidecars' : written'[m] \in Nat /\ written'[m] <= writes'
  BY <1>0, <1>1, <1>2, <1>3
<1> QED
  BY <1>1, <1>5, <1>6, AddedTime DEF InTurn

LEMMA AddedBefore ==
  ASSUME PagesKept, InTurn, NEW n, NEW v, Adds(n, v)
  PROVE  /\ Games!Before(n)' = Games!Chain(v.request)
         /\ \A m \in DOMAIN sidecars : Games!Before(m)' = Games!Before(m)
<1> writes \in Nat /\ \A m \in DOMAIN sidecars : written[m] \in Nat /\ written[m] <= writes
  BY DEF InTurn
<1>1. Games!Before(n)' = Games!Chain(v.request)
  <2>1. \A m \in Games!Chain(v.request) :
           m \in DOMAIN sidecars /\ written'[m] < written'[n]
    BY AddedTime DEF Games!Chain
  <2>2. ~(written'[n] < written'[n])
    BY AddedTime
  <2>3. Games!Chain(v.request)' = Games!Chain(v.request) \union {n}
    BY AddedChain
  <2>4. Games!Before(n)' = {m \in Games!Chain(sidecars[n].request)' : written'[m] < written'[n]}
    BY DEF Games!Before
  <2>5. Games!Chain(sidecars[n].request)' = Games!Chain(v.request) \union {n}
    BY <2>3, AddedSidecar DEF Games!Chain
  <2> QED
    BY <2>1, <2>2, <2>4, <2>5
<1>2. ASSUME NEW m \in DOMAIN sidecars
      PROVE  Games!Before(m)' = Games!Before(m)
  <2> DEFINE C == Games!Chain(sidecars[m].request)
  <2>1. ~(written'[n] < written'[m])
    BY AddedTime
  <2>2. \A k \in C : k \in DOMAIN sidecars /\ (written'[k] < written'[m] <=> written[k] < written[m])
    BY AddedTime DEF Games!Chain
  <2>3. Games!Chain(sidecars[m].request)' = {k \in DOMAIN sidecars' : sidecars'[k].request = sidecars[m].request}
    BY AddedSidecar DEF Games!Chain
  <2>4. /\ \A k \in Games!Chain(sidecars[m].request)' : k \in C \/ k = n
        /\ \A k \in C : k \in Games!Chain(sidecars[m].request)'
    <3>1. C = {k \in DOMAIN sidecars : sidecars[k].request = sidecars[m].request}
      BY DEF Games!Chain
    <3>2. /\ DOMAIN sidecars' = DOMAIN sidecars \union {n}
          /\ \A k \in DOMAIN sidecars : sidecars'[k] = sidecars[k]
      BY AddedSidecar
    <3> HIDE DEF C
    <3> QED
      BY <2>3, <3>1, <3>2
  <2> HIDE DEF C
  <2>5. Games!Before(m) = {k \in C : written[k] < written[m]}
    BY DEF Games!Before, C
  <2>6. Games!Before(m)' = {k \in Games!Chain(sidecars[m].request)' : written'[k] < written'[m]}
    BY DEF Games!Before
  <2> QED
    BY <2>1, <2>2, <2>4, <2>5, <2>6
<1> QED
  BY <1>1, <1>2

LEMMA AddedLined ==
  ASSUME PagesKept, InTurn, Lined, NEW n, NEW v, Adds(n, v)
  PROVE  Lined'
<1> writes \in Nat /\ \A m \in DOMAIN sidecars : written[m] \in Nat /\ written[m] <= writes
  BY DEF InTurn
<1>1. ASSUME NEW S \in SUBSET DOMAIN sidecars, HasNewest(S), NEW T, T = S
      PROVE  T # {} => \E x \in T : \A m \in T : written'[m] <= written'[x]
  BY <1>1, AddedTime DEF HasNewest
<1>2. \A r : Games!Chain(r) \in SUBSET DOMAIN sidecars
  BY DEF Games!Chain
<1>3. ASSUME NEW r \in Requests
      PROVE  HasNewest(Games!Chain(r))'
  <2>1. CASE r = v.request
    <3>1. Games!Chain(r)' = Games!Chain(r) \union {n}
      BY <2>1, AddedChain
    <3>2. \A m \in Games!Chain(r) \union {n} : written'[m] <= written'[n]
      BY <1>2, AddedTime
    <3> QED
      BY <3>1, <3>2 DEF HasNewest
  <2>2. CASE r # v.request
    <3>1. Games!Chain(r)' = Games!Chain(r)
      BY <2>2, AddedChain
    <3>2. HasNewest(Games!Chain(r))
      BY DEF Lined
    <3> HIDE DEF HasNewest
    <3>3. Games!Chain(r)' # {} => \E x \in Games!Chain(r)' :
            \A m \in Games!Chain(r)' : written'[m] <= written'[x]
      BY <3>1, <3>2, <1>1, <1>2
    <3> QED
      BY <3>3 DEF HasNewest
  <2> QED
    BY <2>1, <2>2
<1>4. ASSUME NEW m \in DOMAIN sidecars'
      PROVE  HasNewest(Games!Before(m))'
  <2> SUFFICES \E S \in SUBSET DOMAIN sidecars : HasNewest(S) /\ Games!Before(m)' = S
    <3>1. Games!Before(m)' # {} => \E x \in Games!Before(m)' :
            \A k \in Games!Before(m)' : written'[k] <= written'[x]
      BY <1>1
    <3> QED
      BY <3>1 DEF HasNewest
  <2>1. CASE m = n
    <3>1. v.request \in Requests
      BY DEF Adds, Games!Versions
    <3>2. HasNewest(Games!Chain(v.request))
      BY <3>1 DEF Lined
    <3> QED
      BY <2>1, <3>2, AddedBefore, <1>2
  <2>2. CASE m \in DOMAIN sidecars
    <3>1. Games!Before(m) \in SUBSET DOMAIN sidecars
      BY DEF Games!Before, Games!Chain
    <3>2. HasNewest(Games!Before(m))
      BY <2>2 DEF Lined
    <3> QED
      BY <2>2, <3>1, <3>2, AddedBefore
  <2> QED
    BY <2>1, <2>2, AddedSidecar
<1> QED
  BY <1>3, <1>4 DEF Lined

(* What following the copies means, sidecar by sidecar. *)
CopiedIn(f, m) ==
  f[m] = IF sidecars[m].restored \in Games!Chain(sidecars[m].request)
           THEN f[sidecars[m].restored] ELSE m

LEMMA FollowsEach ==
  ASSUME NEW f
  PROVE  FollowsCopies(f) <=> /\ f = [m \in DOMAIN sidecars |-> f[m]]
                              /\ \A m \in DOMAIN sidecars : CopiedIn(f, m)
BY DEF FollowsCopies, CopiedIn

LEMMA AddedFollows ==
  ASSUME PagesKept, NEW n, NEW v, Adds(n, v), NEW f
  PROVE  FollowsCopies(f)' <=>
           /\ f = [m \in DOMAIN sidecars \union {n} |-> f[m]]
           /\ \A m \in DOMAIN sidecars : CopiedIn(f, m)
           /\ f[n] = IF v.restored = None THEN n ELSE f[v.restored]
<1>1. /\ DOMAIN sidecars' = DOMAIN sidecars \union {n}
      /\ sidecars'[n] = v
      /\ \A m \in DOMAIN sidecars : sidecars'[m] = sidecars[m]
  BY AddedSidecar
<1>2. FollowsCopies(f)' <=>
        /\ f = [m \in DOMAIN sidecars' |-> f[m]]
        /\ \A m \in DOMAIN sidecars' :
             f[m] = IF sidecars'[m].restored \in Games!Chain(sidecars[m].request)'
                      THEN f[sidecars'[m].restored] ELSE m
  BY DEF FollowsCopies
<1>3. n # None /\ None \notin DOMAIN sidecars
  BY LifecyclesAssumption
     DEF Adds, PagesKept, LifecyclesAssumption, Games!GameVersionsAssumption
<1>4. \A r : \A k \in DOMAIN sidecars \union {None} :
        k \in {j \in DOMAIN sidecars' : sidecars'[j].request = r} <=> k \in Games!Chain(r)
  BY <1>1, <1>3 DEF Games!Chain, Adds
<1>5. ASSUME NEW m \in DOMAIN sidecars
      PROVE  sidecars[m].restored \in Games!Chain(sidecars[m].request)'
               <=> sidecars[m].restored \in Games!Chain(sidecars[m].request)
  <2>1. sidecars[m].restored \in DOMAIN sidecars \union {None}
    BY DEF PagesKept
  <2>2. Games!Chain(sidecars[m].request)'
          = {j \in DOMAIN sidecars' : sidecars'[j].request = sidecars[m].request}
    BY <1>1 DEF Games!Chain
  <2> QED
    BY <2>1, <2>2, <1>4
<1>6. v.restored \in Games!Chain(sidecars[n].request)' <=> v.restored # None
  <2>1. v.restored \in Games!Chain(v.request) \union {None} /\ None \notin Games!Chain(v.request)
    BY <1>3 DEF Adds, Games!Chain
  <2>2. v.restored \in DOMAIN sidecars \union {None}
    BY DEF Adds, Games!Chain
  <2>3. Games!Chain(sidecars[n].request)'
          = {j \in DOMAIN sidecars' : sidecars'[j].request = v.request}
    BY <1>1 DEF Games!Chain
  <2> QED
    BY <2>1, <2>2, <2>3, <1>4
<1>7. (\A m \in DOMAIN sidecars' :
             f[m] = IF sidecars'[m].restored \in Games!Chain(sidecars[m].request)'
                      THEN f[sidecars'[m].restored] ELSE m)
      <=> /\ \A m \in DOMAIN sidecars : CopiedIn(f, m)
          /\ f[n] = IF v.restored = None THEN n ELSE f[v.restored]
  <2>1. ASSUME NEW m \in DOMAIN sidecars
        PROVE  (f[m] = IF sidecars'[m].restored \in Games!Chain(sidecars[m].request)'
                      THEN f[sidecars'[m].restored] ELSE m) <=> CopiedIn(f, m)
    BY <1>1, <1>5 DEF CopiedIn
  <2>2. (f[n] = IF sidecars'[n].restored \in Games!Chain(sidecars[n].request)'
                      THEN f[sidecars'[n].restored] ELSE n)
        <=> f[n] = IF v.restored = None THEN n ELSE f[v.restored]
    BY <1>1, <1>6
  <2> QED
    BY <1>1, <2>1, <2>2
<1> QED
  BY <1>1, <1>2, <1>7

LEMMA AddedOrigin ==
  ASSUME PagesKept, OriginKnown, NEW n, NEW v, Adds(n, v)
  PROVE  /\ OriginKnown'
         /\ \A m \in DOMAIN sidecars : Games!Origin'[m] = Games!Origin[m]
         /\ Games!Origin'[n] = IF v.restored = None THEN n ELSE Games!Origin[v.restored]
<1> DEFINE D == DOMAIN sidecars
           o == Games!Origin
<1>0. /\ DOMAIN sidecars' = D \union {n} /\ n \notin D
      /\ v.restored \in D \union {None}
      /\ \A m \in D : sidecars[m].restored \in D \union {None}
      /\ \A m \in D : Games!Chain(sidecars[m].request) \subseteq D
      /\ n # None
  BY AddedSidecar, LifecyclesAssumption
     DEF Adds, Games!Chain, PagesKept, LifecyclesAssumption, Games!GameVersionsAssumption
<1> PICK extended :
      extended = [m \in D \union {n} |->
                    IF m # n THEN o[m]
                    ELSE IF v.restored = None THEN n ELSE o[v.restored]]
  OBVIOUS
<1>1. FollowsCopies(o)
  BY OriginFollows
<1>2. \A m \in D : CopiedIn(o, m)
  BY <1>1, FollowsEach
<1>3. FollowsCopies(extended)'
  <2>1. \A m \in D : extended[m] = o[m]
    BY <1>0
  <2>2. \A m \in D : CopiedIn(extended, m)
    BY <1>0, <1>2, <2>1 DEF CopiedIn
  <2>3. extended[n] = IF v.restored = None THEN n ELSE extended[v.restored]
    BY <1>0, <2>1
  <2>4. extended = [m \in D \union {n} |-> extended[m]]
    OBVIOUS
  <2> QED
    BY <2>2, <2>3, <2>4, AddedFollows
<1> \A f : FollowsCopies(f)' <=>
           /\ f = [m \in D \union {n} |-> f[m]]
           /\ \A m \in D : CopiedIn(f, m)
           /\ f[n] = IF v.restored = None THEN n ELSE f[v.restored]
  BY AddedFollows
<1>4. ASSUME NEW f, FollowsCopies(f)'
      PROVE  f = extended
  <2>1. /\ f = [m \in D \union {n} |-> f[m]]
        /\ \A m \in D : CopiedIn(f, m)
        /\ f[n] = IF v.restored = None THEN n ELSE f[v.restored]
    BY <1>4
  <2> DEFINE old == [m \in D |-> f[m]]
  <2>2. \A m \in D : CopiedIn(old, m)
    BY <1>0, <2>1 DEF CopiedIn
  <2>3. FollowsCopies(old)
    <3>1. old = [m \in DOMAIN sidecars |-> old[m]]
      OBVIOUS
    <3> QED
      BY <2>2, <3>1, FollowsEach
  <2>4. old = o
    BY <2>3, <1>1 DEF OriginKnown
  <2>5. \A m \in D : f[m] = o[m]
    BY <2>4
  <2>6. f[n] = extended[n]
    BY <2>1, <2>5, <1>0
  <2> QED
    BY <2>1, <2>5, <2>6, <1>0
<1>5. \A m \in DOMAIN sidecars' : extended[m] \in Games!Chain(sidecars[m].request)'
  <2> TAKE m \in DOMAIN sidecars'
  <2>1. \A r : \A k \in Games!Chain(r) : k \in {j \in DOMAIN sidecars' : sidecars'[j].request = r}
    BY AddedSidecar DEF Games!Chain
  <2>2. \A k \in D : o[k] \in Games!Chain(sidecars[k].request)
    BY <1>1 DEF OriginKnown
  <2>3. CASE m = n
    <3>1. Games!Chain(sidecars[m].request)' = {j \in DOMAIN sidecars' : sidecars'[j].request = v.request}
      BY <2>3, AddedSidecar DEF Games!Chain
    <3>2. CASE v.restored = None
      BY <2>3, <3>1, <3>2, <1>0, AddedSidecar
    <3>3. CASE v.restored # None
      <4>1. v.restored \in D /\ sidecars[v.restored].request = v.request
        BY <3>3 DEF Adds, Games!Chain
      <4> QED
        BY <4>1, <2>3, <3>1, <3>3, <2>1, <2>2, <1>0
    <3> QED
      BY <3>2, <3>3
  <2>4. CASE m \in D
    <3>1. Games!Chain(sidecars[m].request)' = {j \in DOMAIN sidecars' : sidecars'[j].request = sidecars[m].request}
      BY <2>4, AddedSidecar DEF Games!Chain
    <3> QED
      BY <2>4, <3>1, <2>1, <2>2, <1>0
  <2> QED
    BY <2>3, <2>4, <1>0
<1>6. OriginKnown'
  BY <1>3, <1>4, <1>5 DEF OriginKnown
<1>7. Games!Origin' = extended
  <2>1. Games!Origin' = CHOOSE f : FollowsCopies(f)'
    BY DEF Games!Origin, FollowsCopies
  <2> QED
    BY <2>1, <1>3, <1>4
<1> QED
  BY <1>6, <1>7, <1>0

LEMMA NewestIn ==
  ASSUME InTurn, NEW S \in SUBSET DOMAIN sidecars, S # {}, HasNewest(S)
  PROVE  Games!Newest(S) \in S /\ \A m \in S : written[m] <= written[Games!Newest(S)]
BY DEF HasNewest, Games!Newest

LEMMA AddedNewest ==
  ASSUME InTurn, NEW n, NEW v, Adds(n, v),
         NEW S \in SUBSET DOMAIN sidecars, S # {}, HasNewest(S)
  PROVE  Games!Newest(S)' = Games!Newest(S)
<1>1. PICK x \in S : \A m \in S : written[m] <= written[x]
  BY DEF HasNewest
<1>2. /\ \A m \in S : written[m] \in Nat
      /\ \A m, k \in S : written[m] = written[k] => m = k
  BY DEF InTurn
<1>3. \A m \in S : written'[m] = written[m]
  BY AddedTime
<1>4. (CHOOSE k \in S : \A m \in S : written[m] <= written[k]) = x
  BY <1>1, <1>2, NewestIs
<1>5. (CHOOSE k \in S : \A m \in S : written'[m] <= written'[k]) = x
  BY <1>1, <1>2, <1>3, NewestIs
<1> QED
  BY <1>4, <1>5 DEF Games!Newest

LEMMA PreviousFits ==
  ASSUME PagesKept, InTurn, Lined, OriginKnown, NEW m \in DOMAIN sidecars
  PROVE  /\ Games!Origin[m] \in DOMAIN sidecars
         /\ Games!Previous(m) # None => Games!Previous(m) \in Games!Chain(sidecars[m].request)
<1>1. FollowsCopies(Games!Origin)
  BY OriginFollows
<1>2. PICK o : o = Games!Origin[m]
  OBVIOUS
<1>3. o \in Games!Chain(sidecars[m].request)
  BY <1>1, <1>2 DEF OriginKnown
<1>4. o \in DOMAIN sidecars /\ sidecars[o].request = sidecars[m].request
  BY <1>3 DEF Games!Chain
<1>5. HasNewest(Games!Before(o)) /\ Games!Before(o) \in SUBSET DOMAIN sidecars
  BY <1>4 DEF Lined, Games!Before, Games!Chain
<1>6. Games!Before(o) # {} => Games!Newest(Games!Before(o)) \in Games!Before(o)
  BY <1>5, NewestIn
<1>7. Games!Before(o) \subseteq Games!Chain(sidecars[m].request)
  BY <1>4 DEF Games!Before
<1> QED
  BY <1>2, <1>4, <1>6, <1>7 DEF Games!Previous

LEMMA AddedPrevious ==
  ASSUME PagesKept, InTurn, Lined, OriginKnown, NEW n, NEW v, Adds(n, v)
  PROVE  /\ \A m \in DOMAIN sidecars : Games!Previous(m)' = Games!Previous(m)
         /\ Games!Previous(n)' =
              IF v.restored # None THEN Games!Previous(v.restored)
              ELSE IF Games!Chain(v.request) = {} THEN None
              ELSE Games!Newest(Games!Chain(v.request))
<1>1. ASSUME NEW k, NEW o \in DOMAIN sidecars, Games!Origin'[k] = o
      PROVE  Games!Previous(k)' =
               IF Games!Before(o) = {} THEN None ELSE Games!Newest(Games!Before(o))
  <2>1. HasNewest(Games!Before(o)) /\ Games!Before(o) \in SUBSET DOMAIN sidecars
    BY DEF Lined, Games!Before, Games!Chain
  <2>2. PICK S : S = Games!Before(o)
    OBVIOUS
  <2>3. Games!Before(Games!Origin[k])' = S
    BY <1>1, <2>2, AddedBefore DEF Games!Before
  <2>4. Games!Previous(k)' = IF S = {} THEN None ELSE Games!Newest(S)'
    BY <2>3 DEF Games!Previous
  <2>5. S # {} => Games!Newest(S)' = Games!Newest(S)
    BY <2>1, <2>2, AddedNewest
  <2> QED
    BY <2>2, <2>4, <2>5
<1>2. ASSUME NEW m \in DOMAIN sidecars
      PROVE  Games!Previous(m)' = Games!Previous(m)
  <2>1. Games!Origin[m] \in DOMAIN sidecars /\ Games!Origin'[m] = Games!Origin[m]
    BY PreviousFits, AddedOrigin
  <2> QED
    BY <2>1, <1>1 DEF Games!Previous
<1>3. CASE v.restored # None
  <2>1. v.restored \in DOMAIN sidecars
    BY <1>3 DEF Adds, Games!Chain
  <2>2. Games!Origin[v.restored] \in DOMAIN sidecars
    BY <2>1, PreviousFits
  <2>3. Games!Origin'[n] = Games!Origin[v.restored]
    BY <1>3, AddedOrigin
  <2>4. Games!Previous(n)' = Games!Previous(v.restored)
    BY <2>2, <2>3, <1>1 DEF Games!Previous
  <2> QED
    BY <1>2, <1>3, <2>4
<1>4. CASE v.restored = None
  <2>1. Games!Origin'[n] = n
    BY <1>4, AddedOrigin
  <2>2. PICK S : S = Games!Chain(v.request)
    OBVIOUS
  <2>3. Games!Before(Games!Origin[n])' = S
    BY <2>1, <2>2, AddedBefore DEF Games!Before
  <2>4. Games!Previous(n)' = IF S = {} THEN None ELSE Games!Newest(S)'
    BY <2>3 DEF Games!Previous
  <2>5. S # {} => Games!Newest(S)' = Games!Newest(S)
    <3>1. HasNewest(S) /\ S \in SUBSET DOMAIN sidecars
      BY <2>2 DEF Lined, Adds, Games!Versions, Games!Chain
    <3> QED
      BY <3>1, AddedNewest
  <2> QED
    BY <1>2, <1>4, <2>2, <2>4, <2>5
<1> QED
  BY <1>3, <1>4
-----------------------------------------------------------------------------
(* Undoing again and again comes to an end as well. *)
StacksUp(f) ==
  f = [n \in DOMAIN sidecars |->
         IF Games!Previous(n) = None THEN <<pages[n].setting>>
         ELSE Append(f[Games!Previous(n)], pages[n].setting)]

StackKnown ==
  /\ \E f : StacksUp(f)
  /\ \A f, g : StacksUp(f) /\ StacksUp(g) => f = g
  /\ \A f : StacksUp(f) =>
       \A n \in DOMAIN sidecars : f[n] \in Seq(Settings) /\ f[n] # <<>>

LEMMA StackStacks ==
  ASSUME StackKnown
  PROVE  StacksUp(Games!Stack)
<1>1. Games!Stack = CHOOSE f : StacksUp(f)
  BY DEF Games!Stack, StacksUp
<1>2. \E f : StacksUp(f)
  BY DEF StackKnown
<1> QED
  BY <1>1, <1>2

StackedIn(f, m) ==
  f[m] = IF Games!Previous(m) = None THEN <<pages[m].setting>>
         ELSE Append(f[Games!Previous(m)], pages[m].setting)

LEMMA StacksEach ==
  ASSUME NEW f
  PROVE  StacksUp(f) <=> /\ f = [m \in DOMAIN sidecars |-> f[m]]
                         /\ \A m \in DOMAIN sidecars : StackedIn(f, m)
BY DEF StacksUp, StackedIn

(* What an undo of the version to be added would bring back. *)
Under(v) ==
  IF v.restored # None THEN Games!Previous(v.restored)
  ELSE IF Games!Chain(v.request) = {} THEN None
  ELSE Games!Newest(Games!Chain(v.request))

LEMMA UnderFits ==
  ASSUME PagesKept, InTurn, Lined, OriginKnown, NEW n, NEW v, Adds(n, v)
  PROVE  Under(v) \in DOMAIN sidecars \union {None}
<1>1. CASE v.restored # None
  <2>1. v.restored \in DOMAIN sidecars
    BY <1>1 DEF Adds, Games!Chain
  <2> QED
    BY <1>1, <2>1, PreviousFits DEF Under, Games!Chain
<1>2. CASE v.restored = None
  <2>1. v.request \in Requests
    BY DEF Adds, Games!Versions
  <2>2. HasNewest(Games!Chain(v.request)) /\ Games!Chain(v.request) \in SUBSET DOMAIN sidecars
    BY <2>1 DEF Lined, Games!Chain
  <2> QED
    BY <1>2, <2>2, NewestIn DEF Under
<1> QED
  BY <1>1, <1>2

StacksUpWith(f, n, v) ==
  /\ f = [m \in DOMAIN sidecars \union {n} |-> f[m]]
  /\ \A m \in DOMAIN sidecars : StackedIn(f, m)
  /\ f[n] = IF Under(v) = None THEN <<v.setting>>
            ELSE Append(f[Under(v)], v.setting)

LEMMA AddedStacks ==
  ASSUME PagesKept, InTurn, Lined, OriginKnown, NEW n, NEW v, Adds(n, v), NEW f
  PROVE  StacksUp(f)' <=> StacksUpWith(f, n, v)
<1>1. StacksUp(f)' <=>
        /\ f = [m \in DOMAIN sidecars' |-> f[m]]
        /\ \A m \in DOMAIN sidecars' :
             f[m] = IF Games!Previous(m)' = None THEN <<pages'[m].setting>>
                    ELSE Append(f[Games!Previous(m)'], pages'[m].setting)
  BY DEF StacksUp
<1>2. DOMAIN sidecars' = DOMAIN sidecars \union {n}
  BY AddedSidecar
<1>3. ASSUME NEW m \in DOMAIN sidecars
      PROVE  (f[m] = IF Games!Previous(m)' = None THEN <<pages'[m].setting>>
                     ELSE Append(f[Games!Previous(m)'], pages'[m].setting))
             <=> StackedIn(f, m)
  <2>1. Games!Previous(m)' = Games!Previous(m) /\ pages' = pages
    BY AddedPrevious DEF Adds
  <2> QED
    BY <2>1 DEF StackedIn
<1>4. Games!Previous(n)' = Under(v) /\ pages'[n].setting = v.setting
  BY AddedPrevious DEF Under, Adds, Games!Page
<1> QED
  BY <1>1, <1>2, <1>3, <1>4 DEF StacksUpWith

LEMMA AddedStack ==
  ASSUME PagesKept, InTurn, Lined, OriginKnown, StackKnown, NEW n, NEW v, Adds(n, v)
  PROVE  /\ StackKnown'
         /\ \A m \in DOMAIN sidecars : Games!Stack'[m] = Games!Stack[m]
         /\ Games!Stack'[n] = IF Under(v) = None THEN <<v.setting>>
                              ELSE Append(Games!Stack[Under(v)], v.setting)
<1>a. ASSUME NEW f
      PROVE  StacksUp(f)' <=> StacksUpWith(f, n, v)
  BY AddedStacks
<1> DEFINE D == DOMAIN sidecars
           s == Games!Stack
<1> PICK extended :
      extended = [m \in D \union {n} |->
                    IF m # n THEN s[m]
                    ELSE IF Under(v) = None THEN <<v.setting>>
                    ELSE Append(s[Under(v)], v.setting)]
  OBVIOUS
<1>0. /\ DOMAIN sidecars' = D \union {n} /\ n \notin D
      /\ Under(v) \in D \union {None}
      /\ \A m \in D : Games!Previous(m) \in D \union {None}
      /\ v.setting \in Settings
  <2>1. \A m \in D : Games!Previous(m) \in D \union {None}
    BY PreviousFits DEF Games!Chain
  <2> QED
    BY <2>1, AddedSidecar, UnderFits DEF Adds, Games!Versions
<1>1. StacksUp(s)
  BY StackStacks
<1>2. \A m \in D : StackedIn(s, m)
  BY <1>1, StacksEach
<1>3. StacksUp(extended)'
  <2>1. \A m \in D : extended[m] = s[m]
    BY <1>0
  <2>2. \A m \in D : StackedIn(extended, m)
    BY <1>0, <1>2, <2>1 DEF StackedIn
  <2>3. extended[n] = IF Under(v) = None THEN <<v.setting>>
                      ELSE Append(extended[Under(v)], v.setting)
    BY <1>0, <2>1
  <2>4. extended = [m \in D \union {n} |-> extended[m]]
    OBVIOUS
  <2> QED
    BY <2>2, <2>3, <2>4, <1>a DEF StacksUpWith
<1>4. ASSUME NEW f, StacksUp(f)'
      PROVE  f = extended
  <2>1. /\ f = [m \in D \union {n} |-> f[m]]
        /\ \A m \in D : StackedIn(f, m)
        /\ f[n] = IF Under(v) = None THEN <<v.setting>>
                  ELSE Append(f[Under(v)], v.setting)
    BY <1>4, <1>a DEF StacksUpWith
  <2> DEFINE old == [m \in D |-> f[m]]
  <2>2. \A m \in D : StackedIn(old, m)
    BY <1>0, <2>1 DEF StackedIn
  <2>3. StacksUp(old)
    <3>1. old = [m \in DOMAIN sidecars |-> old[m]]
      OBVIOUS
    <3> QED
      BY <2>2, <3>1, StacksEach
  <2>4. old = s
    BY <2>3, <1>1 DEF StackKnown
  <2>5. \A m \in D : f[m] = s[m]
    BY <2>4
  <2>6. f[n] = extended[n]
    BY <2>1, <2>5, <1>0
  <2> QED
    BY <2>1, <2>5, <2>6, <1>0
<1>5. \A m \in D \union {n} : extended[m] \in Seq(Settings) /\ extended[m] # <<>>
  <2>1. \A m \in D : s[m] \in Seq(Settings) /\ s[m] # <<>>
    BY <1>1 DEF StackKnown
  <2>2. ASSUME NEW t \in Seq(Settings)
        PROVE  Append(t, v.setting) \in Seq(Settings) /\ Append(t, v.setting) # <<>>
    BY <1>0
  <2>3. <<v.setting>> \in Seq(Settings) /\ <<v.setting>> # <<>>
    BY <1>0
  <2> HIDE DEF s
  <2>4. extended[n] \in Seq(Settings) /\ extended[n] # <<>>
    BY <2>1, <2>2, <2>3, <1>0
  <2> QED
    BY <2>1, <2>4, <1>0
<1>6. StackKnown'
  BY <1>0, <1>3, <1>4, <1>5 DEF StackKnown
<1>7. Games!Stack' = extended
  <2>1. Games!Stack' = CHOOSE f : StacksUp(f)'
    BY DEF Games!Stack, StacksUp
  <2> QED
    BY <2>1, <1>3, <1>4
<1> QED
  BY <1>6, <1>7, <1>0

(* A page of its own does not disturb what is read about the others. *)
LEMMA OtherPagesKeepStack ==
  ASSUME PagesKept, StackKnown,
         UNCHANGED <<sidecars, written>>,
         \A m \in DOMAIN sidecars : pages'[m] = pages[m]
  PROVE  StackKnown' /\ Games!Stack' = Games!Stack
<1>1. ASSUME NEW f
      PROVE  StacksUp(f)' <=> StacksUp(f)
  <2>1. \A m \in DOMAIN sidecars : Games!Previous(m)' = Games!Previous(m)
    BY DEF Games!Previous, Games!Origin, Games!Before, Games!Chain, Games!Newest
  <2>2. StacksUp(f)' <=>
          f = [m \in DOMAIN sidecars |->
                 IF Games!Previous(m)' = None THEN <<pages'[m].setting>>
                 ELSE Append(f[Games!Previous(m)'], pages'[m].setting)]
    BY DEF StacksUp
  <2> QED
    BY <2>1, <2>2 DEF StacksUp
<1>2. StackKnown'
  BY <1>1 DEF StackKnown
<1>3. Games!Stack' = CHOOSE f : StacksUp(f)'
  BY DEF Games!Stack, StacksUp
<1>4. StacksUp(Games!Stack)
  BY StackStacks
<1>5. PICK s : s = Games!Stack
  OBVIOUS
<1>6. StacksUp(s)' /\ \A f : StacksUp(f)' => f = s
  BY <1>1, <1>4, <1>5 DEF StackKnown
<1> QED
  BY <1>2, <1>3, <1>5, <1>6
-----------------------------------------------------------------------------
(* What the reviser finds on disk. *)
ReadOK == PagesKept /\ InTurn /\ Lined /\ OriginKnown /\ StackKnown

LEMMA KeptReads ==
  ASSUME ReadOK, PagesKept',
         UNCHANGED <<sidecars, written, writes>>,
         \A m \in DOMAIN sidecars : pages'[m] = pages[m]
  PROVE  /\ ReadOK'
         /\ \A r : Games!Chain(r)' = Games!Chain(r)
         /\ \A r : Games!Newest(Games!Chain(r))' = Games!Newest(Games!Chain(r))
         /\ Games!Stack' = Games!Stack
         /\ \A r : Games!Undoable(r)' = Games!Undoable(r)
         /\ \A r : Games!Saved(r)' = Games!Saved(r)
<1> USE DEF ReadOK
<1>1. InTurn'
  BY DEF InTurn
<1>2. Lined'
  BY DEF Lined, HasNewest, Games!Before, Games!Chain
<1>3. OriginKnown'
  BY DEF OriginKnown, FollowsCopies, Games!Chain
<1>4. StackKnown' /\ Games!Stack' = Games!Stack
  BY OtherPagesKeepStack
<1>5. ASSUME NEW r
      PROVE  /\ Games!Chain(r)' = Games!Chain(r)
             /\ Games!Newest(Games!Chain(r))' = Games!Newest(Games!Chain(r))
  BY DEF Games!Chain, Games!Newest
<1>6. \A r : Games!Undoable(r)' = Games!Undoable(r)
  BY <1>4, <1>5 DEF Games!Undoable
<1>7. \A r : Games!Saved(r)' = Games!Saved(r)
  BY <1>4, <1>5 DEF Games!Saved
<1> QED
  BY <1>1, <1>2, <1>3, <1>4, <1>5, <1>6, <1>7

LEMMA NewestOfChain ==
  ASSUME ReadOK, NEW r \in Requests, Games!Chain(r) # {}
  PROVE  /\ Games!Newest(Games!Chain(r)) \in Games!Chain(r)
         /\ Games!Chain(r) \in SUBSET DOMAIN sidecars
         /\ HasNewest(Games!Chain(r))
<1>1. HasNewest(Games!Chain(r)) /\ Games!Chain(r) \in SUBSET DOMAIN sidecars
  BY DEF ReadOK, Lined, Games!Chain
<1> QED
  BY <1>1, NewestIn DEF ReadOK

(* An undo is possible where the stack has more than its first setting. *)
LEMMA UndoPops ==
  ASSUME ReadOK, NEW n \in DOMAIN sidecars,
         NEW p, p = Games!Previous(n), p # None
  PROVE  /\ p \in DOMAIN sidecars /\ sidecars[p].request = sidecars[n].request
         /\ sidecars[n].setting \in Settings
         /\ Games!Stack[n] = Append(Games!Stack[p], sidecars[n].setting)
         /\ Games!Stack[p] \in Seq(Settings) /\ Games!Stack[p] # <<>>
<1>1. p \in DOMAIN sidecars /\ sidecars[p].request = sidecars[n].request
  BY PreviousFits DEF ReadOK, Games!Chain
<1>2. StacksUp(Games!Stack)
  BY StackStacks DEF ReadOK
<1>3. StackedIn(Games!Stack, n)
  BY <1>2, StacksEach
<1>4. pages[n].setting = sidecars[n].setting /\ sidecars[n].setting \in Settings
  <2>1. pages[n] = Games!Page(sidecars[n]) /\ sidecars[n] \in Games!Versions
    BY DEF ReadOK, PagesKept
  <2> QED
    BY <2>1 DEF Games!Page, Games!Versions
<1>5. Games!Stack[p] \in Seq(Settings) /\ Games!Stack[p] # <<>>
  BY <1>1, <1>2 DEF ReadOK, StackKnown
<1> QED
  BY <1>1, <1>3, <1>4, <1>5 DEF StackedIn

(* A stack ends in the setting of its version. *)
LEMMA StackEnds ==
  ASSUME ReadOK, NEW n \in DOMAIN sidecars
  PROVE  /\ Games!Stack[n] \in Seq(Settings) /\ Games!Stack[n] # <<>>
         /\ History!Last(Games!Stack[n]) = sidecars[n].setting
<1>1. StacksUp(Games!Stack)
  BY StackStacks DEF ReadOK
<1>2. Games!Stack[n] \in Seq(Settings) /\ Games!Stack[n] # <<>>
  BY <1>1 DEF ReadOK, StackKnown
<1>3. pages[n].setting = sidecars[n].setting /\ sidecars[n].setting \in Settings
  <2>1. pages[n] = Games!Page(sidecars[n]) /\ sidecars[n] \in Games!Versions
    BY DEF ReadOK, PagesKept
  <2> QED
    BY <2>1 DEF Games!Page, Games!Versions
<1>4. CASE Games!Previous(n) = None
  <2>1. Games!Stack[n] = <<sidecars[n].setting>>
    BY <1>1, <1>3, <1>4, StacksEach DEF StackedIn
  <2> QED
    BY <1>2, <2>1 DEF History!Last
<1>5. CASE Games!Previous(n) # None
  <2>1. PICK s : s = Games!Stack[Games!Previous(n)]
    OBVIOUS
  <2>2. s \in Seq(Settings) /\ Games!Stack[n] = Append(s, sidecars[n].setting)
    BY <1>5, <2>1, UndoPops
  <2>3. Append(s, sidecars[n].setting)[Len(Append(s, sidecars[n].setting))] = sidecars[n].setting
    BY <1>3, <2>2
  <2> QED
    BY <1>2, <2>2, <2>3 DEF History!Last
<1> QED
  BY <1>4, <1>5

LEMMA AddedUndoable ==
  ASSUME ReadOK, NEW n, NEW v, Adds(n, v)
  PROVE  /\ ReadOK'
         /\ \A r \in Requests : r # v.request => Games!Undoable(r)' = Games!Undoable(r)
         /\ Games!Undoable(v.request)' =
              IF Under(v) = None THEN <<v.setting>>
              ELSE Append(Games!Stack[Under(v)], v.setting)
         /\ \A r : Games!Saved(r)' = IF r = v.request
                                     THEN Games!Saved(r) \union {Games!Undoable(r)'}
                                     ELSE Games!Saved(r)
<1> USE DEF ReadOK
<1>1. ReadOK'
  BY AddedPagesKept, AddedInTurn, AddedLined, AddedOrigin, AddedStack
<1>2. ASSUME NEW r \in Requests, r # v.request
      PROVE  Games!Undoable(r)' = Games!Undoable(r)
  <2>1. PICK S : S = Games!Chain(r)
    OBVIOUS
  <2>2. Games!Chain(r)' = S
    BY <1>2, <2>1, AddedChain
  <2>3. CASE S = {}
    BY <2>1, <2>2, <2>3 DEF Games!Undoable
  <2>4. CASE S # {}
    <3>1. Games!Newest(S) \in S /\ S \in SUBSET DOMAIN sidecars /\ HasNewest(S)
      BY <2>1, <2>4, NewestOfChain
    <3>2. Games!Newest(S)' = Games!Newest(S)
      BY <2>4, <3>1, AddedNewest
    <3>3. Games!Stack'[Games!Newest(S)] = Games!Stack[Games!Newest(S)]
      BY <3>1, AddedStack
    <3>4. Games!Undoable(r)' = Games!Stack'[Games!Newest(S)']
      BY <2>2, <2>4 DEF Games!Undoable, Games!Newest
    <3> QED
      BY <2>1, <2>4, <3>2, <3>3, <3>4 DEF Games!Undoable
  <2> QED
    BY <2>3, <2>4
<1>3. Games!Undoable(v.request)' = Games!Stack'[n]
  <2>1. PICK S : S = Games!Chain(v.request) \union {n}
    OBVIOUS
  <2>2. Games!Chain(v.request)' = S
    BY <2>1, AddedChain
  <2>3. \A m \in S : written'[m] \in Nat /\ written'[m] <= written'[n]
    <3>1. \A m \in Games!Chain(v.request) : m \in DOMAIN sidecars
      BY DEF Games!Chain
    <3> QED
      BY <2>1, <3>1, AddedTime DEF InTurn
  <2>4. \A k, m \in S : written'[k] = written'[m] => k = m
    <3>1. S \subseteq DOMAIN sidecars'
      BY <2>1, AddedSidecar DEF Games!Chain
    <3> QED
      BY <3>1, <1>1 DEF InTurn
  <2>5. (CHOOSE k \in S : \A m \in S : written'[m] <= written'[k]) = n
    BY <2>1, <2>3, <2>4, NewestIs
  <2>6. Games!Newest(Games!Chain(v.request))' = n
    BY <2>2, <2>5 DEF Games!Newest
  <2> QED
    BY <2>1, <2>2, <2>6 DEF Games!Undoable
<1>4. ASSUME NEW r
      PROVE  Games!Saved(r)' = IF r = v.request
                               THEN Games!Saved(r) \union {Games!Undoable(r)'}
                               ELSE Games!Saved(r)
  <2>1. \A m \in Games!Chain(r) : Games!Stack'[m] = Games!Stack[m]
    BY AddedStack DEF Games!Chain
  <2>2. Games!Saved(r)' = {Games!Stack'[m] : m \in Games!Chain(r)'}
    BY DEF Games!Saved
  <2>3. Games!Saved(r) = {Games!Stack[m] : m \in Games!Chain(r)}
    BY DEF Games!Saved
  <2>4. CASE r = v.request
    <3>1. Games!Chain(r)' = Games!Chain(r) \union {n}
      BY <2>4, AddedChain
    <3>2. Games!Undoable(r)' = Games!Stack'[n]
      BY <1>3, <2>4
    <3> QED
      BY <2>1, <2>2, <2>3, <2>4, <3>1, <3>2
  <2>5. CASE r # v.request
    <3>1. Games!Chain(r)' = Games!Chain(r)
      BY <2>5, AddedChain
    <3> QED
      BY <2>1, <2>2, <2>3, <2>5, <3>1
  <2> QED
    BY <2>4, <2>5
<1> QED
  BY <1>1, <1>2, <1>3, <1>4, AddedStack
-----------------------------------------------------------------------------
(* What the one thread is building still fits what it read: an undo copies *)
(* a version of its chain, and a name that was picked is still free.       *)
Works ==
  {Games!Idle}
  \union [at : {"built"}, undo : BOOLEAN, version : Games!Versions]
  \union [at : {"named", "saved"}, undo : BOOLEAN, version : Games!Versions, name : Games!Names]

Foreseen(w) ==
  LET v == w.version
  IN  /\ ~w.undo => v.restored = None
      /\ w.undo => /\ v.restored \in Games!Chain(v.request)
                   /\ v.setting = sidecars[v.restored].setting

Placed(w) ==
  /\ w.at = "named" => w.name \notin DOMAIN pages
  /\ w.at = "saved" => /\ w.name \in DOMAIN pages \ DOMAIN sidecars
                       /\ pages[w.name] = Games!Page(w.version)

WorkFits ==
  /\ second \in 0..MaxSeconds
  /\ work \in [{Thread} -> Works]
  /\ work[Thread] # Games!Idle => Foreseen(work[Thread]) /\ Placed(work[Thread])

GamesInv == ReadOK /\ WorkFits

LEMMA GamesInvInit == PartsInit => GamesInv
<1> SUFFICES ASSUME PartsInit PROVE GamesInv
  OBVIOUS
<1>1. Games!Init
  BY DEF PartsInit
<1>2. DOMAIN sidecars = {} /\ DOMAIN pages = {} /\ DOMAIN written = {} /\ writes = 0
  BY <1>1 DEF Games!Init
<1>3. \A r : Games!Chain(r) = {}
  BY <1>2 DEF Games!Chain
<1>4. PagesKept /\ InTurn /\ Lined
  BY <1>2, <1>3 DEF PagesKept, InTurn, Lined, HasNewest
<1>5. OriginKnown
  <2>1. \A f : FollowsCopies(f) <=> f = [n \in {} |-> n]
    BY <1>2, FollowsEach
  <2> QED
    BY <2>1, <1>2 DEF OriginKnown
<1>6. StackKnown
  <2>1. \A f : StacksUp(f) <=> f = [n \in {} |-> n]
    BY <1>2, StacksEach
  <2> QED
    BY <2>1, <1>2 DEF StackKnown
<1>7. WorkFits
  BY <1>1, LifecyclesAssumption
     DEF Games!Init, WorkFits, Works, LifecyclesAssumption, Games!GameVersionsAssumption
<1> QED
  BY <1>4, <1>5, <1>6, <1>7 DEF GamesInv, ReadOK

LEMMA KeptForeseen ==
  ASSUME UNCHANGED <<sidecars, written>>, NEW w
  PROVE  Foreseen(w)' <=> Foreseen(w)
<1>1. Games!Chain(w.version.request)' = Games!Chain(w.version.request)
  BY DEF Games!Chain
<1> QED
  BY <1>1 DEF Foreseen

(* A step that leaves the files alone, and what is foreseen with them. *)
LEMMA FilesAlone ==
  ASSUME ReadOK, UNCHANGED <<pages, sidecars, written, writes>>
  PROVE  /\ ReadOK'
         /\ \A w : Foreseen(w)' <=> Foreseen(w)
         /\ \A w : Placed(w)' <=> Placed(w)
         /\ Games!Stack' = Games!Stack
         /\ \A r : Games!Undoable(r)' = Games!Undoable(r)
         /\ \A r : Games!Saved(r)' = Games!Saved(r)
<1>1. PagesKept'
  BY DEF ReadOK, PagesKept
<1>2. /\ ReadOK'
      /\ Games!Stack' = Games!Stack
      /\ \A r : Games!Undoable(r)' = Games!Undoable(r)
      /\ \A r : Games!Saved(r)' = Games!Saved(r)
  BY <1>1, KeptReads
<1>3. \A w : Foreseen(w)' <=> Foreseen(w)
  BY KeptForeseen
<1>4. \A w : Placed(w)' <=> Placed(w)
  BY DEF Placed
<1> QED
  BY <1>2, <1>3, <1>4

LEMMA MakeFits ==
  ASSUME GamesInv, NEW r \in Requests, Games!Make(Thread, r)
  PROVE  GamesInv'
<1> USE DEF GamesInv, Games!Make
<1>1. PICK w : w = Games!Built(r, Initial, None, FALSE)
  OBVIOUS
<1>2. w \in Works /\ Foreseen(w) /\ Placed(w)
  BY <1>1, LifecyclesAssumption
     DEF Games!Built, Works, Foreseen, Placed, Games!Versions,
         LifecyclesAssumption, Games!GameVersionsAssumption
<1>3. work'[Thread] = w /\ work' \in [{Thread} -> Works]
  BY <1>1, <1>2 DEF WorkFits
<1> QED
  BY <1>2, <1>3, FilesAlone DEF WorkFits

LEMMA TargetIs ==
  ASSUME ReadOK, NEW target \in Games!Targets
  PROVE  target \in DOMAIN sidecars /\ sidecars[target].request \in Requests
BY DEF Games!Targets, ReadOK, PagesKept, Games!Versions

LEMMA ChangeFits ==
  ASSUME GamesInv, NEW target \in Games!Targets, NEW s \in Settings,
         Games!Change(Thread, target, s)
  PROVE  GamesInv'
<1> USE DEF GamesInv, Games!Change
<1>1. PICK r \in Requests : sidecars[target].request = r
  BY TargetIs
<1>2. PICK w : w = Games!Built(r, s, None, FALSE)
  OBVIOUS
<1>3. w \in Works /\ Foreseen(w) /\ Placed(w)
  BY <1>2 DEF Games!Built, Works, Foreseen, Placed, Games!Versions
<1>4. work'[Thread] = w /\ work' \in [{Thread} -> Works]
  BY <1>1, <1>2, <1>3 DEF WorkFits
<1> QED
  BY <1>3, <1>4, FilesAlone DEF WorkFits

LEMMA UndoFits ==
  ASSUME GamesInv, NEW target \in Games!Targets, Games!Undo(Thread, target)
  PROVE  GamesInv'
<1> USE DEF GamesInv, Games!Undo
<1>1. PICK r \in Requests : r = sidecars[target].request /\ target \in DOMAIN sidecars
  BY TargetIs
<1>2. PICK p : p = Games!Previous(target)
  OBVIOUS
<1>3. p # None /\ p \in DOMAIN sidecars /\ sidecars[p].request = r
  BY <1>1, <1>2, UndoPops
<1>4. sidecars[p].setting \in Settings /\ p \in Games!Names
  BY <1>3 DEF ReadOK, PagesKept, Games!Versions
<1>5. PICK w : w = Games!Built(r, sidecars[p].setting, p, TRUE)
  OBVIOUS
<1>6. w \in Works /\ Foreseen(w) /\ Placed(w)
  BY <1>1, <1>2, <1>3, <1>4, <1>5
     DEF Games!Built, Works, Foreseen, Placed, Games!Versions, Games!Chain
<1>7. work'[Thread] = w /\ work' \in [{Thread} -> Works]
  BY <1>2, <1>3, <1>5, <1>6 DEF WorkFits
<1> QED
  BY <1>6, <1>7, FilesAlone DEF WorkFits

LEMMA PickNameFits ==
  ASSUME GamesInv, Games!PickName(Thread)
  PROVE  GamesInv'
<1> USE DEF GamesInv, Games!PickName
<1>1. PICK k \in 1..MaxVersions :
        /\ Games!Free(k)
        /\ work' = [work EXCEPT ![Thread] =
             [at |-> "named", undo |-> work[Thread].undo, version |-> work[Thread].version,
              name |-> [second |-> second, serial |-> k]]]
  OBVIOUS
<1>2. /\ work[Thread] \in Works /\ work[Thread].at = "built"
      /\ work[Thread] # Games!Idle
      /\ second \in 0..MaxSeconds
  BY DEF WorkFits, Games!Idle
<1>3. work[Thread].undo \in BOOLEAN /\ work[Thread].version \in Games!Versions
  BY <1>2 DEF Works, Games!Idle
<1>4. PICK w : w = [at |-> "named", undo |-> work[Thread].undo,
                    version |-> work[Thread].version,
                    name |-> [second |-> second, serial |-> k]]
  OBVIOUS
<1>5. w \in Works
  BY <1>2, <1>3, <1>4 DEF Works, Games!Names
<1>6. Foreseen(w)
  BY <1>2, <1>4 DEF WorkFits, Foreseen
<1>7. Placed(w)
  BY <1>1, <1>4 DEF Placed, Games!Free
<1>8. work'[Thread] = w /\ work' \in [{Thread} -> Works]
  BY <1>1, <1>4, <1>5 DEF WorkFits
<1> QED
  BY <1>5, <1>6, <1>7, <1>8, FilesAlone DEF WorkFits

LEMMA WritePageFits ==
  ASSUME GamesInv, Games!WritePage(Thread)
  PROVE  /\ GamesInv'
         /\ \A n \in DOMAIN pages : n \in DOMAIN pages' /\ pages'[n] = pages[n]
         /\ Games!Stack' = Games!Stack
         /\ \A r : Games!Undoable(r)' = Games!Undoable(r)
         /\ \A r : Games!Saved(r)' = Games!Saved(r)
<1> USE DEF GamesInv, Games!WritePage
<1>1. PICK old : old = work[Thread]
  OBVIOUS
<1>2. old \in Works /\ old.at = "named" /\ old # Games!Idle /\ Foreseen(old) /\ Placed(old)
  BY <1>1 DEF WorkFits, Games!Idle
<1>3. /\ old.undo \in BOOLEAN /\ old.version \in Games!Versions /\ old.name \in Games!Names
      /\ old \in [at : {"named", "saved"}, undo : BOOLEAN, version : Games!Versions,
                  name : Games!Names]
  BY <1>2 DEF Works, Games!Idle
<1>4. /\ DOMAIN pages' = DOMAIN pages \union {old.name}
      /\ pages'[old.name] = Games!Page(old.version)
      /\ \A n \in DOMAIN pages : pages'[n] = pages[n]
      /\ old.name \notin DOMAIN pages
  BY <1>1, <1>2 DEF Games!Put, Placed
<1>5. Games!Page(old.version) \in Games!Builds
  BY <1>3 DEF Games!Page, Games!Builds, Games!Versions
<1>6. PagesKept'
  <2>1. ASSUME NEW n \in DOMAIN pages'
        PROVE  n \in Games!Names /\ pages'[n] \in Games!Builds
    BY <1>3, <1>4, <1>5 DEF ReadOK, PagesKept
  <2>2. ASSUME NEW n \in DOMAIN sidecars'
        PROVE  /\ n \in DOMAIN pages'
               /\ sidecars'[n] \in Games!Versions
               /\ pages'[n] = Games!Page(sidecars'[n])
               /\ sidecars'[n].restored \in DOMAIN sidecars' \union {None}
    BY <1>4 DEF ReadOK, PagesKept, Games!Page
  <2> QED
    BY <2>1, <2>2 DEF PagesKept, Games!Page
<1>7. \A m \in DOMAIN sidecars : pages'[m] = pages[m]
  BY <1>4 DEF ReadOK, PagesKept
<1>8. /\ ReadOK' /\ Games!Stack' = Games!Stack
      /\ \A r : Games!Undoable(r)' = Games!Undoable(r)
      /\ \A r : Games!Saved(r)' = Games!Saved(r)
  BY <1>6, <1>7, KeptReads
<1>9. PICK w : w = [old EXCEPT !.at = "saved"]
  OBVIOUS
<1>10. w \in Works /\ w.version = old.version /\ w.name = old.name /\ w.undo = old.undo
       /\ w.at = "saved"
  BY <1>3, <1>9 DEF Works
<1>11. work'[Thread] = w /\ work' \in [{Thread} -> Works]
  BY <1>1, <1>9, <1>10 DEF WorkFits
<1>12. Foreseen(w)'
  BY <1>2, <1>10, KeptForeseen DEF Foreseen
<1>13. Placed(w)'
  BY <1>4, <1>10 DEF Placed, ReadOK, PagesKept, Games!Page
<1> QED
  BY <1>4, <1>8, <1>11, <1>12, <1>13 DEF WorkFits

(* The version that is saved is added as the reviser expects one. *)
LEMMA SavedAdds ==
  ASSUME GamesInv, Games!WriteSidecar(Thread),
         NEW w, w = work[Thread]
  PROVE  /\ Adds(w.name, w.version)
         /\ Foreseen(w) /\ w \in Works /\ w # Games!Idle /\ w.undo \in BOOLEAN
<1> USE DEF GamesInv, Games!WriteSidecar
<1>1. w \in Works /\ w.at = "saved" /\ w # Games!Idle /\ Foreseen(w) /\ Placed(w)
  BY DEF WorkFits, Games!Idle
<1>2. w.undo \in BOOLEAN /\ w.version \in Games!Versions
  BY <1>1 DEF Works, Games!Idle
<1>3. w.version.restored \in Games!Chain(w.version.request) \union {None}
  BY <1>1, <1>2 DEF Foreseen
<1>4. Adds(w.name, w.version)
  BY <1>1, <1>2, <1>3 DEF Adds, Placed
<1> QED
  BY <1>1, <1>2, <1>4

LEMMA WriteSidecarFits ==
  ASSUME GamesInv, Games!WriteSidecar(Thread)
  PROVE  GamesInv'
<1> USE DEF GamesInv, Games!WriteSidecar
<1>1. PICK w : w = work[Thread]
  OBVIOUS
<1>2. ReadOK'
  BY <1>1, SavedAdds, AddedUndoable
<1>3. work' \in [{Thread} -> Works] /\ work'[Thread] = Games!Idle
  BY DEF WorkFits, Works
<1> QED
  BY <1>2, <1>3 DEF WorkFits

LEMMA GamesInvStep ==
  ASSUME GamesInv, [Games!Next]_(Games!vars)
  PROVE  GamesInv'
<1> USE DEF GamesInv
<1>1. CASE Games!Tick
  <2>1. second' \in 0..MaxSeconds
    BY <1>1, LifecyclesAssumption
       DEF Games!Tick, WorkFits, LifecyclesAssumption, Games!GameVersionsAssumption
  <2> QED
    BY <1>1, <2>1, FilesAlone DEF Games!Tick, WorkFits
<1>2. CASE Games!GiveUp(Thread)
  <2>1. work' \in [{Thread} -> Works] /\ work'[Thread] = Games!Idle
    BY <1>2 DEF Games!GiveUp, WorkFits, Works
  <2> QED
    BY <1>2, <2>1, FilesAlone DEF Games!GiveUp, WorkFits
<1>3. CASE UNCHANGED Games!vars
  BY <1>3, FilesAlone DEF Games!vars, WorkFits
<1>4. CASE \E r \in Requests : Games!Make(Thread, r)
  BY <1>4, MakeFits
<1>5. CASE \E target \in Games!Targets : Games!Undo(Thread, target)
  BY <1>5, UndoFits
<1>6. CASE \E target \in Games!Targets, s \in Settings : Games!Change(Thread, target, s)
  BY <1>6, ChangeFits
<1>7. CASE Games!PickName(Thread)
  BY <1>7, PickNameFits
<1>8. CASE Games!WritePage(Thread)
  BY <1>8, WritePageFits
<1>9. CASE Games!WriteSidecar(Thread)
  BY <1>9, WriteSidecarFits
<1> QED
  BY <1>1, <1>2, <1>3, <1>4, <1>5, <1>6, <1>7, <1>8, <1>9 DEF Games!Next

LEMMA PartsStepGames ==
  ASSUME [PartsNext]_allVars
  PROVE  [Games!Next]_(Games!vars)
BY DEF PartsNext, OnRefresher, OnFetch, OnGames, allVars, games, Games!vars

THEOREM GamesInvariant == PartsSpec => []GamesInv
<1>1. PartsInit => GamesInv
  BY GamesInvInit
<1>2. GamesInv /\ [PartsNext]_allVars => GamesInv'
  BY GamesInvStep, PartsStepGames
<1> QED
  BY <1>1, <1>2, PTL DEF PartsSpec

(* Every version that was ever saved is still there, as it was: a save     *)
(* takes a name that no page has, in the same second as others or not.     *)
THEOREM EverySaveStays == PartsSpec => EverySaveIsNew
<1> DEFINE Kept == \A n \in DOMAIN pages : n \in DOMAIN pages' /\ pages'[n] = pages[n]
<1>1. GamesInv /\ [PartsNext]_allVars => [Kept]_(Games!vars)
  <2> SUFFICES ASSUME GamesInv, [PartsNext]_allVars, ~UNCHANGED Games!vars PROVE Kept
    OBVIOUS
  <2>1. Games!Next
    BY PartsStepGames
  <2>2. CASE Games!WritePage(Thread)
    BY <2>2, WritePageFits
  <2>3. CASE UNCHANGED pages
    BY <2>3
  <2> QED
    BY <2>1, <2>2, <2>3
       DEF Games!Next, Games!Tick, Games!GiveUp, Games!Make, Games!Undo, Games!Change,
           Games!PickName, Games!WriteSidecar
<1> QED
  BY <1>1, GamesInvariant, PTL DEF PartsSpec, EverySaveIsNew, Games!EverySaveIsNew
-----------------------------------------------------------------------------
(* The refinement: each step of the games is a step of UndoHistory, or     *)
(* none.  The history of a request is the stack of its newest version.     *)
HistoryNow == [r \in Requests |-> Games!Undoable(r)]
SavedNow == [r \in Requests |-> Games!Saved(r)]
AskedNow == [t \in {Thread} |-> Asked(work[t])]

LEMMA HistoryUnchanged ==
  ASSUME \A r \in Requests : Games!Undoable(r)' = Games!Undoable(r),
         \A r \in Requests : Games!Saved(r)' = Games!Saved(r)
  PROVE  HistoryNow' = HistoryNow /\ SavedNow' = SavedNow
BY DEF HistoryNow, SavedNow

LEMMA HistoryInit == PartsInit => History!Init
<1> SUFFICES ASSUME PartsInit PROVE History!Init
  OBVIOUS
<1>1. DOMAIN sidecars = {} /\ work = [t \in {Thread} |-> Games!Idle]
  BY DEF PartsInit, Games!Init
<1>2. \A r : Games!Undoable(r) = <<>> /\ Games!Saved(r) = {}
  BY <1>1 DEF Games!Undoable, Games!Saved, Games!Chain
<1> QED
  BY <1>1, <1>2 DEF History!Init, History!Nothing, Asked

(* What a request will be, once the files can be read as they are now. *)
LEMMA AskedNext ==
  ASSUME GamesInv, Games!Stack' = Games!Stack, NEW w, work' = [work EXCEPT ![Thread] = w]
  PROVE  AskedNow' = [AskedNow EXCEPT ![Thread] = Asked(w)]
<1>1. PICK s : s = Games!Stack
  OBVIOUS
<1>2. work'[Thread] = w /\ Games!Stack' = s
  BY <1>1 DEF GamesInv, WorkFits
<1>3. AskedNow' = [t \in {Thread} |-> Asked(w)]
  BY <1>1, <1>2 DEF AskedNow, Asked
<1> QED
  BY <1>3 DEF AskedNow

(* Making and changing ask for a setting, undoing for an earlier stack. *)
LEMMA Asks ==
  ASSUME GamesInv, UNCHANGED <<pages, sidecars, written, writes>>,
         work[Thread] = Games!Idle,
         NEW w, work' = [work EXCEPT ![Thread] = w], w # Games!Idle,
         w.version \in Games!Versions, NEW r, r = w.version.request,
         \/ w.undo = FALSE
         \/ /\ w.undo = TRUE
            /\ \E stack \in Games!Saved(r) :
                 /\ Len(stack) > 1
                 /\ stack # Games!Undoable(r) =>
                      Title[History!Last(stack)] # Title[History!Last(Games!Undoable(r))]
                 /\ Games!Stack[w.version.restored] = SubSeq(stack, 1, Len(stack) - 1)
  PROVE  History!Next
<1>1. r \in Requests /\ w.version.setting \in Settings
  BY DEF Games!Versions
<1>2. AskedNow[Thread] = History!Nothing
  BY DEF AskedNow, Asked, History!Nothing
<1>3. AskedNow' = [AskedNow EXCEPT ![Thread] = Asked(w)]
  BY FilesAlone, AskedNext DEF GamesInv
<1>4. HistoryNow' = HistoryNow /\ SavedNow' = SavedNow
  BY FilesAlone, HistoryUnchanged DEF GamesInv
<1>5. ASSUME NEW what, NEW to, Asked(w) = [request |-> r, what |-> what, to |-> to]
      PROVE  History!Ask(Thread, r, what, to)
  BY <1>3, <1>4, <1>5 DEF History!Ask, HistoryNow, SavedNow, AskedNow
<1>6. CASE w.undo = FALSE
  <2>1. Asked(w) = [request |-> r, what |-> w.version.setting, to |-> <<>>]
    BY <1>6 DEF Asked
  <2>2. History!Push(Thread, r, w.version.setting)
    BY <1>5, <2>1 DEF History!Push
  <2> QED
    BY <1>1, <1>2, <2>2 DEF History!Next, AskedNow
<1>7. CASE w.undo = TRUE
  <2>1. PICK stack \in Games!Saved(r) :
          /\ Len(stack) > 1
          /\ stack # Games!Undoable(r) =>
               Title[History!Last(stack)] # Title[History!Last(Games!Undoable(r))]
          /\ Games!Stack[w.version.restored] = SubSeq(stack, 1, Len(stack) - 1)
    BY <1>7
  <2>2. Asked(w) = [request |-> r, what |-> Back, to |-> SubSeq(stack, 1, Len(stack) - 1)]
    BY <1>7, <2>1 DEF Asked
  <2>3. History!Ask(Thread, r, Back, SubSeq(stack, 1, Len(stack) - 1))
    BY <1>5, <2>2
  <2>4. stack \in SavedNow[r] /\ HistoryNow[r] = Games!Undoable(r)
    BY <1>1, <2>1 DEF SavedNow, HistoryNow
  <2>5. History!Pop(Thread, r, stack)
    BY <2>1, <2>3, <2>4 DEF History!Pop, HistoryNow
  <2> QED
    BY <1>1, <1>2, <2>4, <2>5 DEF History!Next, AskedNow, SavedNow
<1> QED
  BY <1>6, <1>7

LEMMA GiveUpDrops ==
  ASSUME GamesInv, Games!GiveUp(Thread)
  PROVE  History!Next
<1>1. AskedNow' = [AskedNow EXCEPT ![Thread] = History!Nothing]
  <2>1. AskedNow' = [AskedNow EXCEPT ![Thread] = Asked(Games!Idle)]
    BY FilesAlone, AskedNext DEF Games!GiveUp, GamesInv
  <2> QED
    BY <2>1 DEF Asked, History!Nothing
<1>2. HistoryNow' = HistoryNow /\ SavedNow' = SavedNow
  BY FilesAlone, HistoryUnchanged DEF GamesInv, Games!GiveUp
<1>3. History!Drop(Thread)
  BY <1>1, <1>2 DEF History!Drop, HistoryNow, SavedNow, AskedNow
<1> QED
  BY <1>3 DEF History!Next

(* The sidecar is what makes the request come true. *)
LEMMA WriteSidecarDoes ==
  ASSUME GamesInv, Games!WriteSidecar(Thread)
  PROVE  History!Next
<1>1. PICK w : w = work[Thread]
  OBVIOUS
<1> DEFINE v == w.version
           r == v.request
<1>2. /\ Adds(w.name, v) /\ Foreseen(w) /\ w \in Works
      /\ w # Games!Idle /\ w.undo \in BOOLEAN
  BY <1>1, SavedAdds
<1>3. r \in Requests /\ v.setting \in Settings
  BY <1>2 DEF Adds, Games!Versions
<1>4. ReadOK
  BY DEF GamesInv
<1>5. /\ \A q \in Requests : q # r => Games!Undoable(q)' = Games!Undoable(q)
      /\ Games!Undoable(r)' = IF Under(v) = None THEN <<v.setting>>
                              ELSE Append(Games!Stack[Under(v)], v.setting)
      /\ \A q : Games!Saved(q)' = IF q = r THEN Games!Saved(q) \union {Games!Undoable(q)'}
                                  ELSE Games!Saved(q)
  BY <1>2, <1>4, AddedUndoable
<1>6. Games!Undoable(r)' = History!After(Games!Undoable(r), Asked(w))
  <2>1. CASE w.undo
    <3>1. PICK p : p = v.restored
      OBVIOUS
    <3>2. p \in DOMAIN sidecars /\ v.setting = sidecars[p].setting /\ p # None
      <4>1. p \in DOMAIN sidecars /\ v.setting = sidecars[p].setting
        BY <1>2, <2>1, <3>1 DEF Foreseen, Games!Chain
      <4> QED
        BY <4>1, <1>4, LifecyclesAssumption
           DEF ReadOK, PagesKept, LifecyclesAssumption, Games!GameVersionsAssumption
    <3>3. PICK s : s = Games!Stack
      OBVIOUS
    <3>4. s[p] = IF Games!Previous(p) = None THEN <<v.setting>>
                 ELSE Append(s[Games!Previous(p)], v.setting)
      <4>1. StacksUp(s)
        BY <1>4, <3>3, StackStacks DEF ReadOK
      <4>2. pages[p] = Games!Page(sidecars[p])
        BY <3>2, <1>4 DEF ReadOK, PagesKept
      <4> QED
        BY <3>2, <4>1, <4>2, StacksEach DEF StackedIn, Games!Page
    <3>5. Under(v) = Games!Previous(p)
      BY <3>1, <3>2 DEF Under
    <3>6. Games!Undoable(r)' = s[p]
      BY <1>5, <3>3, <3>4, <3>5
    <3>7. Asked(w) = [request |-> r, what |-> Back, to |-> s[p]]
      BY <1>2, <2>1, <3>1, <3>3 DEF Asked
    <3> QED
      BY <3>6, <3>7 DEF History!After
  <2>2. CASE ~w.undo
    <3>1. v.restored = None
      BY <1>2, <2>2 DEF Foreseen
    <3>2. Games!Undoable(r)' = Append(Games!Undoable(r), v.setting)
      <4>1. CASE Games!Chain(r) = {}
        <5>1. Games!Undoable(r) = <<>> /\ Games!Undoable(r)' = <<v.setting>>
          BY <1>5, <3>1, <4>1 DEF Under, Games!Undoable
        <5> QED
          BY <5>1, <1>3
      <4>2. CASE Games!Chain(r) # {}
        <5>1. Games!Newest(Games!Chain(r)) # None
          <6>1. Games!Newest(Games!Chain(r)) \in DOMAIN sidecars
            BY <1>3, <1>4, <4>2, NewestOfChain
          <6> QED
            BY <6>1, <1>4, LifecyclesAssumption
               DEF ReadOK, PagesKept, LifecyclesAssumption, Games!GameVersionsAssumption
        <5> QED
          BY <1>5, <3>1, <4>2, <5>1 DEF Under, Games!Undoable
      <4> QED
        BY <4>1, <4>2
    <3>3. Asked(w) = [request |-> r, what |-> v.setting, to |-> <<>>]
      BY <1>2, <2>2 DEF Asked
    <3>4. v.setting # Back
      BY <1>3, LifecyclesAssumption DEF LifecyclesAssumption
    <3> QED
      BY <3>2, <3>3, <3>4 DEF History!After
  <2> QED
    BY <2>1, <2>2, <1>2
<1>7. AskedNow[Thread] = Asked(w) /\ Asked(w).request = r
  BY <1>1, <1>2 DEF AskedNow, Asked
<1>8. AskedNow' = [AskedNow EXCEPT ![Thread] = History!Nothing]
  BY DEF AskedNow, Asked, History!Nothing, Games!WriteSidecar, GamesInv, WorkFits
<1>9. AskedNow[Thread] # History!Nothing
  <2>1. r # None
    BY <1>3, LifecyclesAssumption DEF LifecyclesAssumption, Games!GameVersionsAssumption
  <2> QED
    BY <1>7, <2>1 DEF History!Nothing
<1>10. HistoryNow' = [HistoryNow EXCEPT ![r] = History!After(HistoryNow[r], AskedNow[Thread])]
  BY <1>3, <1>5, <1>6, <1>7 DEF HistoryNow
<1>11. SavedNow' = [SavedNow EXCEPT ![r] = @ \union {History!After(HistoryNow[r], AskedNow[Thread])}]
  BY <1>3, <1>5, <1>6, <1>7 DEF SavedNow, HistoryNow
<1>12. History!Do(Thread)
  BY <1>7, <1>8, <1>9, <1>10, <1>11 DEF History!Do, HistoryNow, SavedNow, AskedNow
<1> QED
  BY <1>12 DEF History!Next

(* What an undo of a target leads to, and how it was called. *)
LEMMA TargetPops ==
  ASSUME ReadOK, NEW target \in Games!Targets,
         NEW p, p = Games!Previous(target), p # None,
         NEW r, r = sidecars[target].request
  PROVE  \E stack \in Games!Saved(r) :
           /\ Len(stack) > 1
           /\ stack # Games!Undoable(r) =>
                Title[History!Last(stack)] # Title[History!Last(Games!Undoable(r))]
           /\ Games!Stack[p] = SubSeq(stack, 1, Len(stack) - 1)
<1>1. target \in DOMAIN sidecars /\ r \in Requests /\ target \in Games!Chain(r)
  BY TargetIs DEF Games!Chain
<1>2. PICK s : s = Games!Stack
  OBVIOUS
<1>3. PICK c : c = sidecars[target].setting
  OBVIOUS
<1>4. c \in Settings /\ s[target] = Append(s[p], c) /\ s[p] \in Seq(Settings) /\ s[p] # <<>>
  BY <1>1, <1>2, <1>3, UndoPops
<1>5. ASSUME NEW q \in Seq(Settings), q # <<>>
      PROVE  Len(Append(q, c)) > 1 /\ SubSeq(Append(q, c), 1, Len(Append(q, c)) - 1) = q
  <2>1. Len(Append(q, c)) > 1
    BY <1>4, <1>5, EmptySeq
  <2>2. SubSeq(Append(q, c), 1, Len(Append(q, c)) - 1) = q
    BY <1>4
  <2> QED
    BY <2>1, <2>2
<1>6. Len(s[target]) > 1 /\ s[p] = SubSeq(s[target], 1, Len(s[target]) - 1)
  BY <1>4, <1>5
<1>7. s[target] \in Games!Saved(r)
  BY <1>1, <1>2 DEF Games!Saved
<1>8. PICK top : top = Games!Newest(Games!Chain(r))
  OBVIOUS
<1>9. /\ top \in Games!Chain(r) /\ top \in DOMAIN sidecars
      /\ \A m \in Games!Chain(r) : written[m] <= written[top]
      /\ Games!Undoable(r) = s[top]
  <2>1. /\ Games!Chain(r) # {} /\ Games!Chain(r) \in SUBSET DOMAIN sidecars
        /\ HasNewest(Games!Chain(r)) /\ InTurn
    BY <1>1, NewestOfChain DEF ReadOK
  <2> QED
    BY <1>2, <1>8, <2>1, NewestIn DEF Games!Undoable
<1>10. History!Last(s[target]) = c /\ History!Last(s[top]) = sidecars[top].setting
  BY <1>1, <1>2, <1>3, <1>9, StackEnds
<1>11. Title[c] = Title[sidecars[top].setting] => target = top
  <2> HAVE Title[c] = Title[sidecars[top].setting]
  <2>1. written[top] <= written[target]
    BY <1>1, <1>3, <1>9 DEF Games!Targets
  <2>2. written[target] <= written[top]
    BY <1>1, <1>9
  <2>3. written[top] \in Nat /\ written[target] \in Nat
    BY <1>1, <1>9 DEF ReadOK, InTurn
  <2>4. written[top] = written[target]
    BY <2>1, <2>2, <2>3
  <2> QED
    BY <1>1, <1>9, <2>4 DEF ReadOK, InTurn
<1> QED
  BY <1>2, <1>6, <1>7, <1>9, <1>10, <1>11

LEMMA HistoryStep ==
  ASSUME GamesInv, [Games!Next]_(Games!vars)
  PROVE  [History!Next]_(History!vars)
<1> USE DEF GamesInv
<1> SUFFICES ASSUME History!vars' # History!vars
             PROVE  History!Next
  OBVIOUS
<1>1. ASSUME UNCHANGED work, Games!Stack' = Games!Stack,
             \A r \in Requests : Games!Undoable(r)' = Games!Undoable(r),
             \A r \in Requests : Games!Saved(r)' = Games!Saved(r)
      PROVE  FALSE
  <2>1. HistoryNow' = HistoryNow /\ SavedNow' = SavedNow
    BY <1>1, HistoryUnchanged
  <2>2. AskedNow' = AskedNow
    BY <1>1 DEF AskedNow, Asked
  <2> QED
    BY <2>1, <2>2 DEF History!vars, HistoryNow, SavedNow, AskedNow
<1>2. CASE Games!Tick \/ UNCHANGED Games!vars
  BY <1>1, <1>2, FilesAlone DEF Games!Tick, Games!vars
<1>3. CASE Games!GiveUp(Thread)
  BY <1>3, GiveUpDrops
<1>4. CASE Games!WriteSidecar(Thread)
  BY <1>4, WriteSidecarDoes
<1>5. ASSUME NEW w \in Works, Asked(w) = Asked(work[Thread]),
             work' = [work EXCEPT ![Thread] = w], Games!Stack' = Games!Stack,
             \A r \in Requests : Games!Undoable(r)' = Games!Undoable(r),
             \A r \in Requests : Games!Saved(r)' = Games!Saved(r)
      PROVE  FALSE
  <2>1. AskedNow' = AskedNow
    <3>1. AskedNow' = [AskedNow EXCEPT ![Thread] = Asked(w)]
      BY <1>5, AskedNext
    <3> QED
      BY <1>5, <3>1 DEF AskedNow
  <2>2. HistoryNow' = HistoryNow /\ SavedNow' = SavedNow
    BY <1>5, HistoryUnchanged
  <2> QED
    BY <2>1, <2>2 DEF History!vars, HistoryNow, SavedNow, AskedNow
<1>6. CASE Games!PickName(Thread)
  <2>1. PICK w : work' = [work EXCEPT ![Thread] = w] /\ w.at = "named"
                 /\ w.undo = work[Thread].undo /\ w.version = work[Thread].version
    BY <1>6 DEF Games!PickName
  <2>2. w \in Works
    BY <1>6, <2>1, PickNameFits DEF WorkFits
  <2>3. Asked(w) = Asked(work[Thread])
    BY <1>6, <2>1 DEF Asked, Games!Idle, Games!PickName
  <2> QED
    BY <1>5, <1>6, <2>1, <2>2, <2>3, FilesAlone DEF Games!PickName
<1>7. CASE Games!WritePage(Thread)
  <2>1. PICK w : w = [work[Thread] EXCEPT !.at = "saved"]
    OBVIOUS
  <2>2. work' = [work EXCEPT ![Thread] = w]
    BY <1>7, <2>1 DEF Games!WritePage
  <2>3. w \in Works
    BY <1>7, <2>2, WritePageFits DEF WorkFits
  <2>4. work[Thread] \in [at : {"named", "saved"}, undo : BOOLEAN,
                          version : Games!Versions, name : Games!Names]
    BY <1>7 DEF Games!WritePage, WorkFits, Works, Games!Idle
  <2>5. Asked(w) = Asked(work[Thread])
    BY <2>1, <2>4 DEF Asked, Games!Idle
  <2> QED
    BY <1>5, <1>7, <2>2, <2>3, <2>5, WritePageFits
<1>8. CASE \E r \in Requests : Games!Make(Thread, r)
  <2>1. PICK r \in Requests : Games!Make(Thread, r)
    BY <1>8
  <2>2. PICK w : w = Games!Built(r, Initial, None, FALSE)
    OBVIOUS
  <2>3. /\ w # Games!Idle /\ w.undo = FALSE /\ w.version \in Games!Versions
    BY <2>2, LifecyclesAssumption
       DEF Games!Built, Games!Idle, Games!Versions, LifecyclesAssumption,
           Games!GameVersionsAssumption
  <2> QED
    BY <2>1, <2>2, <2>3, Asks DEF Games!Make
<1>9. CASE \E target \in Games!Targets, s \in Settings : Games!Change(Thread, target, s)
  <2>1. PICK target \in Games!Targets, s \in Settings : Games!Change(Thread, target, s)
    BY <1>9
  <2>2. sidecars[target].request \in Requests
    BY TargetIs
  <2>3. PICK w : w = Games!Built(sidecars[target].request, s, None, FALSE)
    OBVIOUS
  <2>4. /\ w # Games!Idle /\ w.undo = FALSE /\ w.version \in Games!Versions
    BY <2>2, <2>3 DEF Games!Built, Games!Idle, Games!Versions
  <2> QED
    BY <2>1, <2>3, <2>4, Asks DEF Games!Change
<1>10. CASE \E target \in Games!Targets : Games!Undo(Thread, target)
  <2>1. PICK target \in Games!Targets : Games!Undo(Thread, target)
    BY <1>10
  <2>2. PICK r \in Requests : r = sidecars[target].request /\ target \in DOMAIN sidecars
    BY TargetIs
  <2>3. PICK p : p = Games!Previous(target)
    OBVIOUS
  <2>4. p # None /\ p \in DOMAIN sidecars /\ sidecars[p].request = r
    BY <2>1, <2>2, <2>3, UndoPops DEF Games!Undo
  <2>5. \E stack \in Games!Saved(r) :
          /\ Len(stack) > 1
          /\ stack # Games!Undoable(r) =>
               Title[History!Last(stack)] # Title[History!Last(Games!Undoable(r))]
          /\ Games!Stack[p] = SubSeq(stack, 1, Len(stack) - 1)
    BY <2>2, <2>3, <2>4, TargetPops
  <2>6. sidecars[p].setting \in Settings /\ p \in Games!Names
    BY <2>4 DEF ReadOK, PagesKept, Games!Versions
  <2>7. PICK w : w = Games!Built(sidecars[p].request, sidecars[p].setting, p, TRUE)
    OBVIOUS
  <2>8. /\ w # Games!Idle /\ w.undo = TRUE /\ w.version \in Games!Versions
        /\ w.version.request = r /\ w.version.restored = p
    BY <2>4, <2>6, <2>7 DEF Games!Built, Games!Idle, Games!Versions
  <2>9. /\ work' = [work EXCEPT ![Thread] = w]
        /\ work[Thread] = Games!Idle
        /\ UNCHANGED <<pages, sidecars, written, writes>>
    BY <2>1, <2>3, <2>7 DEF Games!Undo
  <2> QED
    BY <2>5, <2>8, <2>9, Asks
<1> QED
  BY <1>2, <1>3, <1>4, <1>6, <1>7, <1>8, <1>9, <1>10 DEF Games!Next

(* Making, changing and undoing a game, and requests that die anywhere in  *)
(* between, are pushes and pops of one stack of settings per request, or   *)
(* of an earlier stack when a game is named by a title it had then: no run *)
(* of undos oscillates, skips a state or falls off the first version.      *)
THEOREM GamesAreStacks == PartsSpec => UndoIsAStack
<1>1. PartsInit => History!Init
  BY HistoryInit
<1>2. GamesInv /\ [PartsNext]_allVars => [History!Next]_(History!vars)
  BY HistoryStep, PartsStepGames
<1> QED
  BY <1>1, <1>2, GamesInvariant, PTL DEF PartsSpec, UndoIsAStack, History!Spec
=============================================================================
