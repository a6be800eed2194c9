---------------------------- MODULE DnsResolver -----------------------------
(***************************************************************************)
(* The bounded resolver (fetch/resolver.py).  getaddrinfo cannot be        *)
(* cancelled, so every call runs it on a thread of its own: the caller     *)
(* waits for a limited time, the thread holds one of MaxInflight permits   *)
(* until the operating system has answered.                                *)
(***************************************************************************)
EXTENDS Naturals, FiniteSets

CONSTANTS
  Calls,        \* the calls of resolve
  MaxInflight   \* max_inflight

DnsResolverAssumption ==
  /\ IsFiniteSet(Calls)
  /\ MaxInflight \in Nat \ {0}

VARIABLES
  permits,   \* the value of the semaphore
  call,      \* what each call has come to
  worker     \* where the thread of each call is

resolverVars == <<permits, call, worker>>
-----------------------------------------------------------------------------
(* Threads that will still release a permit. *)
Holding == {c \in Calls : worker[c] \in {"looking", "returned"}}

(* Calls whose permit nobody releases. *)
Leaked == {c \in Calls : call[c] = "unstarted"}

ResolverInit ==
  /\ permits = MaxInflight
  /\ call = [c \in Calls |-> "new"]
  /\ worker = [c \in Calls |-> "none"]

Ends(c, from, to) == call[c] = from /\ call' = [call EXCEPT ![c] = to]
Moves(c, from, to) == worker[c] = from /\ worker' = [worker EXCEPT ![c] = to]

TakePermit(c) ==
  /\ permits > 0
  /\ permits' = permits - 1
  /\ Ends(c, "new", "waiting")
  /\ Moves(c, "none", "looking")

(* Without a permit the call fails at once. *)
Busy(c) ==
  /\ permits = 0
  /\ Ends(c, "new", "busy")
  /\ UNCHANGED <<permits, worker>>

(* Thread.start raises; nothing gives the permit back. *)
StartFails(c) ==
  /\ permits > 0
  /\ permits' = permits - 1
  /\ Ends(c, "new", "unstarted")
  /\ UNCHANGED worker

LookupReturns(c) ==
  /\ Moves(c, "looking", "returned")
  /\ UNCHANGED <<permits, call>>

Release(c) ==
  /\ permits' = permits + 1
  /\ Moves(c, "returned", "released")
  /\ UNCHANGED call

(* put_nowait, and the thread ends. *)
Publish(c) ==
  /\ Moves(c, "released", "ended")
  /\ UNCHANGED <<permits, call>>

(* The thread has ended in time: with addresses, or with an error. *)
TakeAnswer(c) ==
  /\ worker[c] = "ended"
  /\ \/ Ends(c, "waiting", "answered")
     \/ Ends(c, "waiting", "failed")
  /\ UNCHANGED <<permits, worker>>

(* Mutant: the call gives the permit back itself. *)
GiveUpAndRelease(c) ==
  /\ worker[c] # "ended"
  /\ Ends(c, "waiting", "timed out")
  /\ permits' = permits + 1
  /\ UNCHANGED worker

(* Mutant: the caller waits as long as the lookup takes. *)
GiveUpAfterLookup(c) ==
  /\ worker[c] \in {"returned", "released"}
  /\ Ends(c, "waiting", "timed out")
  /\ UNCHANGED <<permits, worker>>

GiveUp(c) ==
  /\ worker[c] # "ended"
  /\ Ends(c, "waiting", "timed out")
  /\ UNCHANGED <<permits, worker>>

WorkerStep(c) == LookupReturns(c) \/ Release(c) \/ Publish(c)
=============================================================================
