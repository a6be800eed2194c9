-------------------------- MODULE FetchBrokerProofs -------------------------
(***************************************************************************)
(* Proofs about FetchBroker and the resolver below it, for any number of   *)
(* fetches, redirects, permits, URLs and addresses.  The permits are       *)
(* counted; that requests only go to checked targets needs that an answer, *)
(* once a request was based on it, is never replaced: the requests of a    *)
(* fetch that is still resolving all belong to earlier hops.               *)
(***************************************************************************)
EXTENDS FetchBroker, FiniteSetTheorems, TLAPS

-----------------------------------------------------------------------------
(* The variables of the resolver, and the permits among them. *)
ResolverOK ==
  /\ permits \in 0..MaxInflight
  /\ call \in [Calls -> {"new", "waiting", "busy", "unstarted", "timed out", "answered", "failed"}]
  /\ worker \in [Calls -> {"none", "looking", "returned", "released", "ended"}]
  /\ PermitsBalanced

LEMMA MaxIsANumber == FetchBrokerAssumption => MaxInflight \in Nat
BY DEF FetchBrokerAssumption, DnsResolverAssumption

LEMMA FiniteHolders ==
  ASSUME FetchBrokerAssumption
  PROVE  /\ IsFiniteSet(Holding) /\ Cardinality(Holding) \in Nat
         /\ IsFiniteSet(Leaked) /\ Cardinality(Leaked) \in Nat
<1>1. IsFiniteSet(Calls) /\ Holding \subseteq Calls /\ Leaked \subseteq Calls
  BY DEF FetchBrokerAssumption, DnsResolverAssumption, Holding, Leaked
<1> QED
  BY <1>1, FS_Subset, FS_CardinalityType

LEMMA ResolverInitOK ==
  ASSUME FetchBrokerAssumption
  PROVE  ResolverInit => ResolverOK
<1> SUFFICES ASSUME ResolverInit PROVE ResolverOK
  OBVIOUS
<1> USE DEF ResolverInit
<1>1. Holding = {} /\ Leaked = {}
  BY DEF Holding, Leaked
<1>2. Cardinality(Holding) = 0 /\ Cardinality(Leaked) = 0
  BY <1>1, FS_EmptySet
<1>3. MaxInflight \in Nat
  BY MaxIsANumber
<1> QED
  BY <1>2, <1>3 DEF ResolverOK, PermitsBalanced

LEMMA TakePermitKeeps ==
  ASSUME FetchBrokerAssumption, ResolverOK, NEW c \in Calls, TakePermit(c)
  PROVE  ResolverOK'
<1>1. Holding' = Holding \union {c} /\ c \notin Holding /\ Leaked' = Leaked
  BY DEF ResolverOK, TakePermit, Ends, Moves, Holding, Leaked
<1>2. Cardinality(Holding') = Cardinality(Holding) + 1
  BY <1>1, FiniteHolders, FS_AddElement
<1>3. Cardinality(Holding') \in Nat
  BY <1>1, FiniteHolders, FS_Subset, FS_AddElement, FS_CardinalityType
<1>4. permits' = permits - 1 /\ permits > 0
  BY DEF TakePermit
<1>5. permits' \in 0..MaxInflight /\ PermitsBalanced'
  <2> DEFINE h == Cardinality(Holding)  l == Cardinality(Leaked)
  <2>1. h \in Nat /\ l \in Nat /\ MaxInflight \in Nat
    BY FiniteHolders, MaxIsANumber
  <2>2. permits \in 0..MaxInflight /\ permits + h + l = MaxInflight
    BY DEF ResolverOK, PermitsBalanced
  <2>3. h' = h + 1 /\ l' = l
    BY <1>1, <1>2
  <2>4. h' \in Nat /\ l' \in Nat
    BY <1>1, <1>3, <2>1, <2>3
  <2> HIDE DEF h, l
  <2>5. permits' \in 0..MaxInflight /\ permits' + h' + l' = MaxInflight
    BY <1>4, <2>1, <2>2, <2>3, <2>4
  <2> QED
    BY <2>5 DEF PermitsBalanced, h, l
<1>6. call' \in [Calls -> {"new", "waiting", "busy", "unstarted", "timed out", "answered", "failed"}]
  BY DEF ResolverOK, TakePermit, Ends
<1>7. worker' \in [Calls -> {"none", "looking", "returned", "released", "ended"}]
  BY DEF ResolverOK, TakePermit, Moves
<1> QED
  BY <1>5, <1>6, <1>7 DEF ResolverOK

LEMMA StartFailsKeeps ==
  ASSUME FetchBrokerAssumption, ResolverOK, NEW c \in Calls, StartFails(c)
  PROVE  ResolverOK'
<1>1. Leaked' = Leaked \union {c} /\ c \notin Leaked /\ Holding' = Holding
  BY DEF ResolverOK, StartFails, Ends, Moves, Holding, Leaked
<1>2. Cardinality(Leaked') = Cardinality(Leaked) + 1
  BY <1>1, FiniteHolders, FS_AddElement
<1>3. Cardinality(Leaked') \in Nat
  BY <1>1, FiniteHolders, FS_Subset, FS_AddElement, FS_CardinalityType
<1>4. permits' = permits - 1 /\ permits > 0
  BY DEF StartFails
<1>5. permits' \in 0..MaxInflight /\ PermitsBalanced'
  <2> DEFINE h == Cardinality(Holding)  l == Cardinality(Leaked)
  <2>1. h \in Nat /\ l \in Nat /\ MaxInflight \in Nat
    BY FiniteHolders, MaxIsANumber
  <2>2. permits \in 0..MaxInflight /\ permits + h + l = MaxInflight
    BY DEF ResolverOK, PermitsBalanced
  <2>3. l' = l + 1 /\ h' = h
    BY <1>1, <1>2
  <2>4. h' \in Nat /\ l' \in Nat
    BY <1>1, <1>3, <2>1, <2>3
  <2> HIDE DEF h, l
  <2>5. permits' \in 0..MaxInflight /\ permits' + h' + l' = MaxInflight
    BY <1>4, <2>1, <2>2, <2>3, <2>4
  <2> QED
    BY <2>5 DEF PermitsBalanced, h, l
<1>6. call' \in [Calls -> {"new", "waiting", "busy", "unstarted", "timed out", "answered", "failed"}]
  BY DEF ResolverOK, StartFails, Ends
<1>7. worker' \in [Calls -> {"none", "looking", "returned", "released", "ended"}]
  BY DEF ResolverOK, StartFails, Moves
<1> QED
  BY <1>5, <1>6, <1>7 DEF ResolverOK

LEMMA ReleaseKeeps ==
  ASSUME FetchBrokerAssumption, ResolverOK, NEW c \in Calls, Release(c)
  PROVE  ResolverOK'
<1>1. Holding' = Holding \ {c} /\ c \in Holding /\ Leaked' = Leaked
  BY DEF ResolverOK, Release, Ends, Moves, Holding, Leaked
<1>2. Cardinality(Holding') = Cardinality(Holding) - 1
  BY <1>1, FiniteHolders, FS_RemoveElement
<1>3. Cardinality(Holding') \in Nat
  BY <1>1, FiniteHolders, FS_Subset, FS_AddElement, FS_CardinalityType
<1>4. permits' = permits + 1
  BY DEF Release
<1>5. permits' \in 0..MaxInflight /\ PermitsBalanced'
  <2> DEFINE h == Cardinality(Holding)  l == Cardinality(Leaked)
  <2>1. h \in Nat /\ l \in Nat /\ MaxInflight \in Nat
    BY FiniteHolders, MaxIsANumber
  <2>2. permits \in 0..MaxInflight /\ permits + h + l = MaxInflight
    BY DEF ResolverOK, PermitsBalanced
  <2>3. h' = h - 1 /\ l' = l
    BY <1>1, <1>2
  <2>4. h' \in Nat /\ l' \in Nat
    BY <1>1, <1>3, <2>1, <2>3
  <2> HIDE DEF h, l
  <2>5. permits' \in 0..MaxInflight /\ permits' + h' + l' = MaxInflight
    BY <1>4, <2>1, <2>2, <2>3, <2>4
  <2> QED
    BY <2>5 DEF PermitsBalanced, h, l
<1>6. call' \in [Calls -> {"new", "waiting", "busy", "unstarted", "timed out", "answered", "failed"}]
  BY DEF ResolverOK, Release, Ends
<1>7. worker' \in [Calls -> {"none", "looking", "returned", "released", "ended"}]
  BY DEF ResolverOK, Release, Moves
<1> QED
  BY <1>5, <1>6, <1>7 DEF ResolverOK

(* The other steps of the resolver move no permit. *)
LEMMA OthersKeep ==
  ASSUME ResolverOK, NEW c \in Calls,
         Busy(c) \/ GiveUp(c) \/ TakeAnswer(c) \/ LookupReturns(c) \/ Publish(c)
  PROVE  ResolverOK'
<1> USE DEF ResolverOK, Busy, GiveUp, TakeAnswer, LookupReturns, Publish, Ends, Moves
<1>1. Holding' = Holding /\ Leaked' = Leaked
  BY DEF Holding, Leaked
<1>2. permits' = permits
  OBVIOUS
<1>3. PermitsBalanced'
  BY <1>1, <1>2 DEF PermitsBalanced
<1>4. call' \in [Calls -> {"new", "waiting", "busy", "unstarted", "timed out", "answered", "failed"}]
  OBVIOUS
<1>5. worker' \in [Calls -> {"none", "looking", "returned", "released", "ended"}]
  OBVIOUS
<1> QED
  BY <1>2, <1>3, <1>4, <1>5

LEMMA ResolverUntouched ==
  ASSUME ResolverOK, UNCHANGED resolverVars
  PROVE  ResolverOK'
BY DEF ResolverOK, resolverVars, PermitsBalanced, Holding, Leaked

LEMMA NowIsACall ==
  ASSUME FetchBrokerAssumption, TypeOK, NEW f \in Fetches
  PROVE  Now(f) \in Calls
BY DEF FetchBrokerAssumption, TypeOK, Now

(* Whatever a fetch or a thread does, the permits stay balanced. *)
LEMMA ResolverStep ==
  ASSUME FetchBrokerAssumption, TypeOK, ResolverOK, [Next]_vars
  PROVE  ResolverOK'
<1>1. ASSUME NEW f \in Fetches, Begin(f) \/ Redirect(f) \/ Read(f) \/ \E ip \in ips[f] : Try(f, ip)
      PROVE  ResolverOK'
  BY <1>1, ResolverUntouched DEF Begin, Redirect, Try, Read
<1>2. ASSUME NEW f \in Fetches, Resolve(f) \/ ResolveFails(f) \/ Resolved(f)
      PROVE  ResolverOK'
  <2>1. Now(f) \in Calls
    BY NowIsACall
  <2>2. \/ TakePermit(Now(f)) \/ Busy(Now(f)) \/ StartFails(Now(f))
        \/ GiveUp(Now(f)) \/ TakeAnswer(Now(f))
    BY <1>2 DEF Resolve, ResolveFails, Resolved
  <2> QED
    BY <2>1, <2>2, TakePermitKeeps, StartFailsKeeps, OthersKeep
<1>3. CASE LookupStep
  <2>1. PICK c \in Calls : WorkerStep(c)
    BY <1>3 DEF LookupStep
  <2> QED
    BY <2>1, ReleaseKeeps, OthersKeep DEF WorkerStep
<1>4. CASE UNCHANGED vars
  BY <1>4, ResolverUntouched DEF vars
<1> QED
  BY <1>1, <1>2, <1>3, <1>4 DEF Next, FetchStep
-----------------------------------------------------------------------------
(* A fetch goes, or has gone, where the policy allows it to. *)
HeadingIsAllowed ==
  \A f \in Fetches : at[f] \in {"resolve", "resolving", "getting", "reading"} => url[f] \in Allowed

(* What is left to try is part of the answer for this hop. *)
TriesAreAnswers ==
  \A f \in Fetches : at[f] \in {"getting", "reading"} => ips[f] \subseteq answers[Now(f)] \cap Global

(* The requests of a fetch that resolves belong to earlier hops. *)
RequestsAreEarlier ==
  \A f \in Fetches : \A get \in gets[f] :
    /\ get.hop <= hop[f]
    /\ at[f] \in {"idle", "resolve", "resolving"} => get.hop < hop[f]

FetchInv ==
  TypeOK /\ OnlyCheckedTargets /\ HeadingIsAllowed /\ TriesAreAnswers /\ RequestsAreEarlier

Inv == ResolverOK /\ FetchInv

LEMMA InvInit ==
  ASSUME FetchBrokerAssumption
  PROVE  Init => Inv
<1> SUFFICES ASSUME Init PROVE Inv
  OBVIOUS
<1>1. ResolverOK
  BY ResolverInitOK DEF Init
<1>3. PICK u \in Urls : url = [f \in Fetches |-> u]
  BY DEF Init
<1>4. gets \in [Fetches -> SUBSET [url : Urls, hop : 0..MaxRedirects, ip : Addresses]]
  BY DEF Init
<1>5. 0 \in 0..MaxRedirects
  BY DEF FetchBrokerAssumption
<1>6. TypeOK
  BY <1>1, <1>3, <1>4, <1>5 DEF Init, TypeOK, ResolverOK
<1>7. OnlyCheckedTargets /\ HeadingIsAllowed /\ TriesAreAnswers /\ RequestsAreEarlier
  BY DEF Init, OnlyCheckedTargets, HeadingIsAllowed, TriesAreAnswers, RequestsAreEarlier
<1> QED
  BY <1>1, <1>6, <1>7 DEF Inv, FetchInv

(* The requests are records of their type. *)
LEMMA RequestType ==
  ASSUME TypeOK, NEW g \in Fetches, NEW get \in gets[g]
  PROVE  get \in [url : Urls, hop : 0..MaxRedirects, ip : Addresses]
BY DEF TypeOK

(* A fetch that ends disturbs nothing. *)
LEMMA FailsKeeps ==
  ASSUME FetchInv, ResolverOK', NEW f \in Fetches, Fails(f)
  PROVE  FetchInv'
<1>1. TypeOK'
  BY DEF FetchInv, TypeOK, ResolverOK, Fails, Done
<1>2. UNCHANGED <<url, hop, answers, ips, asked, gets>>
      /\ \A g \in Fetches : at'[g] = at[g] \/ at'[g] = "failed"
  BY DEF FetchInv, TypeOK, Fails
<1>3. OnlyCheckedTargets'
  BY <1>2 DEF FetchInv, OnlyCheckedTargets
<1>4. HeadingIsAllowed'
  BY <1>2 DEF FetchInv, HeadingIsAllowed
<1>5. TriesAreAnswers'
  BY <1>2 DEF FetchInv, TriesAreAnswers, Now
<1>6. RequestsAreEarlier'
  BY <1>2 DEF FetchInv, RequestsAreEarlier
<1> QED
  BY <1>1, <1>3, <1>4, <1>5, <1>6 DEF FetchInv

(* Heading for a URL from the start, or from a redirect to the next hop.   *)
LEMMA HeadForKeeps ==
  ASSUME FetchInv, ResolverOK', MaxRedirects \in Nat,
         NEW f \in Fetches, NEW u \in Urls, HeadFor(f, u),
         \/ hop' = hop /\ at[f] = "idle"
         \/ hop' = [hop EXCEPT ![f] = @ + 1] /\ hop[f] < MaxRedirects
  PROVE  FetchInv'
<1>1. /\ hop' \in [Fetches -> 0..MaxRedirects]
      /\ (hop'[f] = hop[f] /\ at[f] = "idle") \/ hop'[f] = hop[f] + 1
      /\ \A g \in Fetches \ {f} : hop'[g] = hop[g]
  <2>1. hop \in [Fetches -> 0..MaxRedirects]
    BY DEF FetchInv, TypeOK
  <2>2. CASE hop' = hop /\ at[f] = "idle"
    BY <2>1, <2>2
  <2>3. CASE hop' = [hop EXCEPT ![f] = @ + 1] /\ hop[f] < MaxRedirects
    <3>1. hop[f] \in 0..MaxRedirects /\ hop[f] + 1 \in 0..MaxRedirects
      BY <2>1, <2>3
    <3> QED
      BY <2>1, <2>3, <3>1
  <2> QED
    BY <2>2, <2>3
<1>2. UNCHANGED <<visited, answers, ips, asked, gets>>
  BY DEF HeadFor
<1>3. /\ at' \in [Fetches -> {"idle", "resolve", "resolving", "getting", "reading", "redirected"} \union Done]
      /\ url' \in [Fetches -> Urls]
      /\ (at'[f] = "resolve" /\ url'[f] \in Allowed) \/ at'[f] = "failed"
      /\ \A g \in Fetches \ {f} : at'[g] = at[g] /\ url'[g] = url[g]
  <2>1. /\ at \in [Fetches -> {"idle", "resolve", "resolving", "getting", "reading", "redirected"} \union Done]
        /\ url \in [Fetches -> Urls]
    BY DEF FetchInv, TypeOK
  <2>2. CASE u \in Allowed
    BY <2>1, <2>2 DEF HeadFor
  <2>3. CASE u \notin Allowed
    BY <2>1, <2>3 DEF HeadFor, Done
  <2> QED
    BY <2>2, <2>3
<1>4. TypeOK'
  BY <1>1, <1>2, <1>3 DEF FetchInv, TypeOK, ResolverOK
<1>5. OnlyCheckedTargets'
  BY <1>2 DEF FetchInv, OnlyCheckedTargets
<1>6. HeadingIsAllowed'
  BY <1>3 DEF FetchInv, HeadingIsAllowed
<1>7. TriesAreAnswers'
  BY <1>1, <1>2, <1>3 DEF FetchInv, TriesAreAnswers, Now
<1>8. RequestsAreEarlier'
  <2> SUFFICES ASSUME NEW g \in Fetches, NEW get \in gets[g]
               PROVE  /\ get.hop <= hop'[g]
                      /\ at'[g] \in {"idle", "resolve", "resolving"} => get.hop < hop'[g]
    BY <1>2 DEF RequestsAreEarlier
  <2>1. get.hop \in Nat
    BY RequestType DEF FetchInv
  <2>2. hop[g] \in Nat
    <3>1. hop \in [Fetches -> 0..MaxRedirects]
      BY DEF FetchInv, TypeOK
    <3> QED
      BY <3>1
  <2>3. /\ get.hop <= hop[g]
        /\ at[g] \in {"idle", "resolve", "resolving"} => get.hop < hop[g]
    BY DEF FetchInv, RequestsAreEarlier
  <2>4. CASE g = f
    BY <1>1, <2>1, <2>2, <2>3, <2>4
  <2>5. CASE g # f
    BY <1>1, <1>3, <2>3, <2>5
  <2> QED
    BY <2>4, <2>5
<1> QED
  BY <1>4, <1>5, <1>6, <1>7, <1>8 DEF FetchInv

LEMMA ResolveKeeps ==
  ASSUME FetchInv, ResolverOK', NEW f \in Fetches, Resolve(f)
  PROVE  FetchInv'
<1>1. TypeOK'
  BY DEF FetchInv, TypeOK, ResolverOK, Resolve, Done
<1>2. /\ UNCHANGED <<url, visited, hop, answers, ips, gets>>
      /\ at[f] = "resolve" /\ asked' = asked \union {url[f]}
      /\ \A g \in Fetches : at'[g] = at[g] \/ (g = f /\ at'[g] = "resolving")
  BY DEF FetchInv, TypeOK, Resolve
<1>3. url[f] \in Allowed
  BY <1>2 DEF FetchInv, HeadingIsAllowed
<1>4. OnlyCheckedTargets'
  BY <1>2, <1>3 DEF FetchInv, OnlyCheckedTargets
<1>5. HeadingIsAllowed'
  BY <1>2, <1>3 DEF FetchInv, HeadingIsAllowed
<1>6. TriesAreAnswers'
  BY <1>2 DEF FetchInv, TriesAreAnswers, Now
<1>7. RequestsAreEarlier'
  BY <1>2 DEF FetchInv, RequestsAreEarlier
<1> QED
  BY <1>1, <1>4, <1>5, <1>6, <1>7 DEF FetchInv

(* An answer replaces none that a request was based on.                    *)
LEMMA ResolvedKeeps ==
  ASSUME FetchBrokerAssumption, FetchInv, ResolverOK', NEW f \in Fetches, Resolved(f)
  PROVE  FetchInv'
<1>1. PICK answer \in SUBSET Addresses :
        IF answer # {} /\ answer \subseteq Global
        THEN /\ answers' = [answers EXCEPT ![Now(f)] = answer]
             /\ ips' = [ips EXCEPT ![f] = answer]
             /\ visited' = [visited EXCEPT ![f] = @ \union {url[f]}]
             /\ at' = [at EXCEPT ![f] = "getting"]
             /\ UNCHANGED <<url, hop, asked, gets>>
        ELSE Fails(f)
  BY DEF Resolved
<1>2. CASE ~(answer # {} /\ answer \subseteq Global)
  BY <1>1, <1>2, FailsKeeps
<1>3. CASE answer # {} /\ answer \subseteq Global
  <2>1. /\ answers' = [answers EXCEPT ![Now(f)] = answer]
        /\ ips' = [ips EXCEPT ![f] = answer]
        /\ visited' = [visited EXCEPT ![f] = @ \union {url[f]}]
        /\ at' = [at EXCEPT ![f] = "getting"]
        /\ UNCHANGED <<url, hop, asked, gets>>
    BY <1>1, <1>3
  <2>2. at[f] = "resolving" /\ Now(f) \in Calls
    BY NowIsACall DEF Resolved, FetchInv
  <2>3. TypeOK'
    BY <2>1, <2>2 DEF ResolverOK, FetchInv, TypeOK
  <2>4. ASSUME NEW g \in Fetches, NEW get \in gets[g]
        PROVE  answers'[<<g, get.hop>>] = answers[<<g, get.hop>>]
    <3>1. get.hop \in 0..MaxRedirects /\ hop[f] \in 0..MaxRedirects
      BY RequestType DEF FetchInv, TypeOK
    <3>2. g = f => get.hop < hop[f]
      BY <2>2 DEF FetchInv, RequestsAreEarlier
    <3>3. <<g, get.hop>> # <<f, hop[f]>>
      BY <3>1, <3>2
    <3>4. <<g, get.hop>> \in Calls
      BY <3>1 DEF FetchBrokerAssumption
    <3>5. answers \in [Calls -> SUBSET Addresses]
      BY DEF FetchInv, TypeOK
    <3> QED
      BY <2>1, <3>3, <3>4, <3>5 DEF Now
  <2>5. OnlyCheckedTargets'
    BY <2>1, <2>4 DEF FetchInv, OnlyCheckedTargets
  <2>6. at \in [Fetches -> {"idle", "resolve", "resolving", "getting", "reading", "redirected"} \union Done]
    BY DEF FetchInv, TypeOK
  <2>7. HeadingIsAllowed'
    BY <2>1, <2>2, <2>6 DEF FetchInv, HeadingIsAllowed
  <2>8. TriesAreAnswers'
    <3> SUFFICES ASSUME NEW g \in Fetches, at'[g] \in {"getting", "reading"}
                 PROVE  ips'[g] \subseteq answers'[Now(g)] \cap Global
      BY <2>1 DEF TriesAreAnswers, Now
    <3>1. /\ answers \in [Calls -> SUBSET Addresses]
          /\ ips \in [Fetches -> SUBSET Addresses]
      BY DEF FetchInv, TypeOK
    <3>2. CASE g = f
      BY <1>3, <2>1, <2>2, <3>1, <3>2
    <3>3. CASE g # f
      <4>1. at[g] \in {"getting", "reading"} /\ ips'[g] = ips[g]
        BY <2>1, <2>6, <3>1, <3>3
      <4>2. Now(g) # Now(f) /\ Now(g) \in Calls
        BY <3>3, NowIsACall DEF Now, FetchInv
      <4> QED
        BY <2>1, <3>1, <4>1, <4>2 DEF FetchInv, TriesAreAnswers
    <3> QED
      BY <3>2, <3>3
  <2>9. RequestsAreEarlier'
    BY <2>1, <2>6 DEF FetchInv, RequestsAreEarlier
  <2> QED
    BY <2>3, <2>5, <2>7, <2>8, <2>9 DEF FetchInv
<1> QED
  BY <1>2, <1>3

LEMMA TryKeeps ==
  ASSUME FetchInv, ResolverOK', NEW f \in Fetches, NEW ip \in ips[f], Try(f, ip)
  PROVE  FetchInv'
<1> DEFINE R == [url : Urls, hop : 0..MaxRedirects, ip : Addresses]
<1>1. PICK get : get = [url |-> url[f], hop |-> hop[f], ip |-> ip]
  OBVIOUS
<1>2. /\ at[f] = "getting" /\ UNCHANGED <<url, visited, hop, answers, asked>>
      /\ ips' = [ips EXCEPT ![f] = @ \ {ip}]
      /\ gets' = [gets EXCEPT ![f] = @ \union {get}]
  BY <1>1 DEF Try
<1>3. /\ at \in [Fetches -> {"idle", "resolve", "resolving", "getting", "reading", "redirected"} \union Done]
      /\ ips \in [Fetches -> SUBSET Addresses]
      /\ gets \in [Fetches -> SUBSET R]
      /\ get \in R
  BY <1>1 DEF FetchInv, TypeOK
<1>4. PICK next \in {"reading", "redirected", "failed", "getting"} : at' = [at EXCEPT ![f] = next]
  BY DEF Try
<1>5. gets' \in [Fetches -> SUBSET R]
  BY <1>2, <1>3
<1>6. TypeOK'
  BY <1>2, <1>3, <1>4, <1>5 DEF FetchInv, TypeOK, ResolverOK, Done
<1>7. ASSUME NEW g \in Fetches, NEW q \in gets'[g]
      PROVE  q \in gets[g] \/ (g = f /\ q = get)
  BY <1>2, <1>3
<1>8. url[f] \in Allowed /\ ip \in answers[<<f, hop[f]>>] \cap Global
  BY <1>2 DEF FetchInv, HeadingIsAllowed, TriesAreAnswers, Now
<1>9. get.url = url[f] /\ get.hop = hop[f] /\ get.ip = ip
  BY <1>1
<1>10. OnlyCheckedTargets'
  BY <1>2, <1>7, <1>8, <1>9 DEF FetchInv, OnlyCheckedTargets
<1>11. HeadingIsAllowed'
  BY <1>2, <1>3, <1>4 DEF FetchInv, HeadingIsAllowed
<1>12. TriesAreAnswers'
  BY <1>2, <1>3, <1>4 DEF FetchInv, TriesAreAnswers, Now
<1>13. RequestsAreEarlier'
  <2>1. hop \in [Fetches -> 0..MaxRedirects]
    BY DEF FetchInv, TypeOK
  <2> QED
    BY <1>2, <1>3, <1>4, <1>7, <1>9, <2>1 DEF FetchInv, RequestsAreEarlier
<1> QED
  BY <1>6, <1>10, <1>11, <1>12, <1>13 DEF FetchInv

LEMMA ReadKeeps ==
  ASSUME FetchInv, ResolverOK', NEW f \in Fetches, Read(f)
  PROVE  FetchInv'
<1>1. PICK next \in {"ok", "failed", "getting"} : at' = [at EXCEPT ![f] = next]
  BY DEF Read
<1>2. at[f] = "reading" /\ UNCHANGED <<url, visited, hop, answers, ips, asked, gets>>
  BY DEF Read
<1>3. at \in [Fetches -> {"idle", "resolve", "resolving", "getting", "reading", "redirected"} \union Done]
  BY DEF FetchInv, TypeOK
<1>4. TypeOK'
  BY <1>1, <1>2, <1>3 DEF FetchInv, TypeOK, ResolverOK, Done
<1>5. OnlyCheckedTargets'
  BY <1>2 DEF FetchInv, OnlyCheckedTargets
<1>6. HeadingIsAllowed'
  BY <1>1, <1>2, <1>3 DEF FetchInv, HeadingIsAllowed
<1>7. TriesAreAnswers'
  BY <1>1, <1>2, <1>3 DEF FetchInv, TriesAreAnswers, Now
<1>8. RequestsAreEarlier'
  BY <1>1, <1>2, <1>3 DEF FetchInv, RequestsAreEarlier
<1> QED
  BY <1>4, <1>5, <1>6, <1>7, <1>8 DEF FetchInv

LEMMA InvStep ==
  ASSUME FetchBrokerAssumption
  PROVE  Inv /\ [Next]_vars => Inv'
<1> SUFFICES ASSUME Inv, [Next]_vars PROVE Inv'
  OBVIOUS
<1> USE DEF Inv
<1>1. ResolverOK'
  BY ResolverStep DEF FetchInv
<1>2. MaxRedirects \in Nat
  BY DEF FetchBrokerAssumption
<1>3. ASSUME NEW f \in Fetches, Begin(f) PROVE FetchInv'
  BY <1>1, <1>2, <1>3, HeadForKeeps DEF Begin
<1>4. ASSUME NEW f \in Fetches, Redirect(f) PROVE FetchInv'
  <2>1. CASE Fails(f)
    BY <1>1, <2>1, FailsKeeps
  <2>2. CASE /\ hop[f] < MaxRedirects
             /\ hop' = [hop EXCEPT ![f] = @ + 1]
             /\ \E u \in Urls \ visited[f] : HeadFor(f, u)
    BY <1>1, <1>2, <2>2, HeadForKeeps
  <2> QED
    BY <1>4, <2>1, <2>2 DEF Redirect
<1>5. ASSUME NEW f \in Fetches, Resolve(f) PROVE FetchInv'
  BY <1>1, <1>5, ResolveKeeps
<1>6. ASSUME NEW f \in Fetches, ResolveFails(f) PROVE FetchInv'
  BY <1>1, <1>6, FailsKeeps DEF ResolveFails
<1>7. ASSUME NEW f \in Fetches, Resolved(f) PROVE FetchInv'
  BY <1>1, <1>7, ResolvedKeeps
<1>8. ASSUME NEW f \in Fetches, NEW ip \in ips[f], Try(f, ip) PROVE FetchInv'
  BY <1>1, <1>8, TryKeeps
<1>9. ASSUME NEW f \in Fetches, Read(f) PROVE FetchInv'
  BY <1>1, <1>9, ReadKeeps
<1>10. CASE UNCHANGED fetchVars
  BY <1>1, <1>10
     DEF fetchVars, FetchInv, TypeOK, ResolverOK, OnlyCheckedTargets,
         HeadingIsAllowed, TriesAreAnswers, RequestsAreEarlier, Now
<1> QED
  BY <1>1, <1>3, <1>4, <1>5, <1>6, <1>7, <1>8, <1>9, <1>10
     DEF Next, FetchStep, LookupStep, vars

THEOREM FetchBrokerInvariant ==
  ASSUME FetchBrokerAssumption
  PROVE  Spec => []Inv
<1>1. Init => Inv
  BY InvInit
<1>2. Inv /\ [Next]_vars => Inv'
  BY InvStep
<1> QED
  BY <1>1, <1>2, PTL DEF Spec

(* Timeouts and late answers neither lose nor make permits, with any       *)
(* number of fetches and redirects; what is missing from the free ones and *)
(* those in use was lost, for good, to threads that could not be started.  *)
THEOREM FetchPermitsBalanced ==
  ASSUME FetchBrokerAssumption
  PROVE  Spec => []PermitsBalanced
<1>1. Inv => PermitsBalanced
  BY DEF Inv, ResolverOK
<1> QED
  BY <1>1, FetchBrokerInvariant, PTL

(* The broker never resolves what the policy refuses, and never sends a    *)
(* request anywhere but to a global address resolved for that very hop.    *)
THEOREM FetchOnlyCheckedTargets ==
  ASSUME FetchBrokerAssumption
  PROVE  Spec => []OnlyCheckedTargets
<1>1. Inv => OnlyCheckedTargets
  BY DEF Inv, FetchInv
<1> QED
  BY <1>1, FetchBrokerInvariant, PTL
=============================================================================
