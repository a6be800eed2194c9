---------------------------- MODULE FetchBroker -----------------------------
(***************************************************************************)
(* Fetches through the broker (fetch/broker.py, fetch/transport.py): every *)
(* hop is checked, resolved, checked again and requested from one of the   *)
(* addresses of its own answer.  All fetches share one resolver.  A call   *)
(* of the resolver is a fetch and the number of the hop.                   *)
(***************************************************************************)
EXTENDS DnsResolver

CONSTANTS
  Fetches,
  Urls,
  Allowed,        \* the URLs that pass the static policy
  Addresses,
  Global,         \* the addresses a target may have
  MaxRedirects

FetchBrokerAssumption ==
  /\ DnsResolverAssumption
  /\ Allowed \subseteq Urls
  /\ Global \subseteq Addresses
  /\ MaxRedirects \in Nat
  /\ Calls = Fetches \X (0..MaxRedirects)

VARIABLES
  at,        \* where each fetch is
  url,       \* its target, or the URL it wants to go to
  visited,
  hop,       \* redirects_taken
  answers,   \* history: the addresses the resolver returned for a call
  ips,       \* the addresses that are still to be tried
  asked,     \* history: the URLs that have been resolved
  gets       \* history: the requests of each fetch, with their addresses

fetchVars == <<at, url, visited, hop, answers, ips, asked, gets>>
vars == <<resolverVars, fetchVars>>
-----------------------------------------------------------------------------
Done == {"ok", "failed"}

Init ==
  /\ ResolverInit
  /\ at = [f \in Fetches |-> "idle"]
  /\ \E u \in Urls : url = [f \in Fetches |-> u]
  /\ visited = [f \in Fetches |-> {}]
  /\ hop = [f \in Fetches |-> 0]
  /\ answers = [c \in Calls |-> {}]
  /\ ips = [f \in Fetches |-> {}]
  /\ asked = {}
  /\ gets = [f \in Fetches |-> {}]

Now(f) == <<f, hop[f]>>

Fails(f) ==
  /\ at' = [at EXCEPT ![f] = "failed"]
  /\ UNCHANGED <<url, visited, hop, answers, ips, asked, gets>>

(* Mutant: the resolver is asked before the URL is checked. *)
HeadForUnchecked(f, u) ==
  /\ at' = [at EXCEPT ![f] = "resolve"]
  /\ url' = [url EXCEPT ![f] = u]
  /\ UNCHANGED <<visited, answers, ips, asked, gets>>

(* The static policy comes before the resolver. *)
HeadFor(f, u) ==
  IF u \in Allowed
  THEN /\ at' = [at EXCEPT ![f] = "resolve"]
       /\ url' = [url EXCEPT ![f] = u]
       /\ UNCHANGED <<visited, answers, ips, asked, gets>>
  ELSE /\ at' = [at EXCEPT ![f] = "failed"]
       /\ UNCHANGED <<url, visited, answers, ips, asked, gets>>

Begin(f) ==
  /\ at[f] = "idle"
  /\ \E u \in Urls : HeadFor(f, u)
  /\ UNCHANGED <<hop, resolverVars>>

Resolve(f) ==
  /\ at[f] = "resolve"
  /\ TakePermit(Now(f))
  /\ at' = [at EXCEPT ![f] = "resolving"]
  /\ asked' = asked \union {url[f]}
  /\ UNCHANGED <<url, visited, hop, answers, ips, gets>>

ResolveFails(f) ==
  \/ at[f] = "resolve" /\ Busy(Now(f)) /\ Fails(f)
  \/ at[f] = "resolve" /\ StartFails(Now(f)) /\ Fails(f)
  \/ at[f] = "resolving" /\ GiveUp(Now(f)) /\ Fails(f)

(* validate_target and validate_redirect: one address that is not global   *)
(* condemns the whole answer.                                              *)
Resolved(f) ==
  /\ at[f] = "resolving"
  /\ TakeAnswer(Now(f))
  /\ \E answer \in SUBSET Addresses :
       /\ (answer = {}) = (call'[Now(f)] = "failed")
       /\ IF answer # {} /\ answer \subseteq Global
          THEN /\ answers' = [answers EXCEPT ![Now(f)] = answer]
               /\ ips' = [ips EXCEPT ![f] = answer]
               /\ visited' = [visited EXCEPT ![f] = @ \union {url[f]}]
               /\ at' = [at EXCEPT ![f] = "getting"]
               /\ UNCHANGED <<url, hop, asked, gets>>
          ELSE Fails(f)

(* One address is tried, up to the headers of its reply, which decide: a   *)
(* body is read after 200 only; a redirect; or anything else.  An address  *)
(* that cannot be reached leaves it to the remaining ones.                 *)
Try(f, ip) ==
  /\ at[f] = "getting"
  /\ ip \in ips[f]
  /\ ips' = [ips EXCEPT ![f] = @ \ {ip}]
  /\ gets' = [gets EXCEPT ![f] = @ \union {[url |-> url[f], hop |-> hop[f], ip |-> ip]}]
  /\ \E next \in {"reading", "redirected", "failed"} \union {"getting" : rest \in ips[f] \ {ip}} :
       at' = [at EXCEPT ![f] = next]
  /\ UNCHANGED <<url, visited, hop, answers, asked, resolverVars>>

(* _read_bounded_body comes to an end; an error of the socket leaves it to *)
(* the remaining addresses.                                                *)
Read(f) ==
  /\ at[f] = "reading"
  /\ \E next \in {"ok", "failed"} \union {"getting" : rest \in ips[f]} :
       at' = [at EXCEPT ![f] = next]
  /\ UNCHANGED <<url, visited, hop, answers, ips, asked, gets, resolverVars>>

Redirect(f) ==
  /\ at[f] = "redirected"
  /\ \/ hop[f] >= MaxRedirects /\ Fails(f)
     \/ hop[f] < MaxRedirects /\ \E u \in visited[f] : Fails(f)
     \/ /\ hop[f] < MaxRedirects
        /\ hop' = [hop EXCEPT ![f] = @ + 1]
        /\ \E u \in Urls \ visited[f] : HeadFor(f, u)
  /\ UNCHANGED resolverVars

FetchStep(f) ==
  \/ Resolve(f) \/ ResolveFails(f) \/ Resolved(f) \/ Redirect(f)
  \/ \E ip \in ips[f] : Try(f, ip)

LookupStep == \E c \in Calls : WorkerStep(c) /\ UNCHANGED fetchVars

Next == (\E f \in Fetches : Begin(f) \/ FetchStep(f) \/ Read(f)) \/ LookupStep

(* Nobody has to fetch; but the waits of a fetch are limited: that for the *)
(* resolver by its timeout, that for a connection and for headers by       *)
(* theirs and by the watchdog.  The operating system owes no answer, and   *)
(* no fairness is assumed of Read: the deadline is looked at between reads *)
(* only, and a read lasts as long as its peer keeps sending a little.      *)
Fairness == \A f \in Fetches : WF_vars(FetchStep(f))

Spec == Init /\ [][Next]_vars
FairSpec == Spec /\ Fairness
-----------------------------------------------------------------------------
TypeOK ==
  /\ permits \in 0..MaxInflight
  /\ call \in [Calls -> {"new", "waiting", "busy", "unstarted", "timed out", "answered", "failed"}]
  /\ worker \in [Calls -> {"none", "looking", "returned", "released", "ended"}]
  /\ at \in [Fetches -> {"idle", "resolve", "resolving", "getting", "reading", "redirected"} \union Done]
  /\ url \in [Fetches -> Urls]
  /\ visited \in [Fetches -> SUBSET Urls]
  /\ hop \in [Fetches -> 0..MaxRedirects]
  /\ answers \in [Calls -> SUBSET Addresses]
  /\ ips \in [Fetches -> SUBSET Addresses]
  /\ asked \in SUBSET Urls
  /\ gets \in [Fetches -> SUBSET [url : Urls, hop : 0..MaxRedirects, ip : Addresses]]

(* A permit is free, or a lookup is running that will release it, or it is *)
(* lost because its thread could not be started: timeouts and late answers *)
(* neither lose permits nor make new ones.                                 *)
PermitsBalanced == permits + Cardinality(Holding) + Cardinality(Leaked) = MaxInflight

(* Nothing is resolved that the static policy refuses, and every request   *)
(* goes to a global address of the answer for its own hop, whatever other  *)
(* fetches and late answers do.                                            *)
OnlyCheckedTargets ==
  /\ asked \subseteq Allowed
  /\ \A f \in Fetches : \A get \in gets[f] :
       /\ get.url \in Allowed
       /\ get.ip \in answers[<<f, get.hop>>] \cap Global

(* A fetch ends, whatever the operating system does and however endpoints  *)
(* reply, unless it is left reading one body for ever.                     *)
EveryFetchEnds ==
  \A f \in Fetches : []<>(at[f] # "reading") => (at[f] # "idle" ~> at[f] \in Done)
=============================================================================
