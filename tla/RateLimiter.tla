---------------------------- MODULE RateLimiter -----------------------------
(***************************************************************************)
(* The rate limiter of the API (api/app.py): one window of admission times *)
(* per client, in a table of bounded size whose order is that of the last  *)
(* attempts.  Every method runs under the limiter's lock, so it is one     *)
(* action; a rejected request asks for its Retry-After in a second call,   *)
(* and other requests come in between.                                     *)
(***************************************************************************)
EXTENDS Naturals, Sequences

CONSTANTS
  Clients,
  NoClient,
  PerMinute,   \* requests a client may make in a window
  MaxClients,  \* size of the table
  Window,      \* the 60 seconds, in ticks of the clock
  Second,      \* one second, in ticks
  MaxTime      \* bound: the clock stops here

RateLimiterAssumption ==
  /\ NoClient \notin Clients
  /\ PerMinute \in Nat \ {0}
  /\ MaxClients \in Nat \ {0}
  /\ Window \in Nat
  /\ Second \in Nat \ {0}
  /\ MaxTime \in Nat

VARIABLES
  clock,
  order,     \* the keys of _hits, least recently used first
  window,    \* the values of _hits; empty for a client that is not in it
  admitted,  \* history: every admission of a client, oldest first
  answer,    \* what the last call of check said
  asking,    \* clients with a rejected request that will call retry_after
  told       \* the last Retry-After, until its client is admitted again

vars == <<clock, order, window, admitted, answer, asking, told>>
-----------------------------------------------------------------------------
NoAnswer == [client |-> NoClient, said |-> "nothing"]
NoAdvice == [client |-> NoClient, at |-> 0, wait |-> 0]

Tracked == {order[i] : i \in DOMAIN order}

Expired(t) == clock - t > Window
AllExpired(w) == \A i \in DOMAIN w : Expired(w[i])

(* What popping expired times from the front leaves of a window: the set   *)
(* has exactly one element.                                                *)
Pruned(w) ==
  {SubSeq(w, k + 1, Len(w)) : k \in {k \in 0..Len(w) :
     /\ \A i \in 1..k : Expired(w[i])
     /\ k < Len(w) => ~Expired(w[k + 1])}}

(* Mutant: a client goes only when its window is empty already. *)
ReclaimedEmpty ==
  {[order |-> SubSeq(order, n + 1, Len(order)), window |-> window] :
     n \in {n \in 0..Len(order) :
              /\ \A i \in 1..n : window[order[i]] = <<>>
              /\ n < Len(order) => window[order[n + 1]] # <<>>}}

(* The table after the least recently used clients without a live hit have *)
(* been dropped: it stops at the first client with one, whose window has   *)
(* been pruned.                                                            *)
Reclaimed ==
  UNION {{[order |-> SubSeq(order, n + 1, Len(order)),
           window |-> [c \in Clients |->
                         IF \E i \in 1..n : order[i] = c THEN <<>>
                         ELSE IF n < Len(order) /\ order[n + 1] = c THEN w
                         ELSE window[c]]] :
            w \in IF n < Len(order) THEN Pruned(window[order[n + 1]]) ELSE {<<>>}} :
     n \in {n \in 0..Len(order) :
              /\ \A i \in 1..n : AllExpired(window[order[i]])
              /\ n < Len(order) => ~AllExpired(window[order[n + 1]])}}

MovedToEnd(c) ==
  {SubSeq(order, 1, i - 1) \o SubSeq(order, i + 1, Len(order)) \o <<c>> :
     i \in {i \in DOMAIN order : order[i] = c}}
-----------------------------------------------------------------------------
Init ==
  /\ clock = 0
  /\ order = <<>>
  /\ window = [c \in Clients |-> <<>>]
  /\ admitted = [c \in Clients |-> <<>>]
  /\ answer = NoAnswer
  /\ asking = {}
  /\ told = NoAdvice

(* Mutant: a rejected client does not know why. *)
RejectBare(c, why) ==
  /\ answer' = [client |-> NoClient, said |-> "rejected"]
  /\ asking' = asking \union {c}
  /\ UNCHANGED <<admitted, told>>

Reject(c, why) ==
  /\ answer' = [client |-> c, said |-> why]
  /\ asking' = asking \union {c}
  /\ UNCHANGED <<admitted, told>>

(* The end of check: the client is last in the table. *)
Decide(c, queue, table) ==
  \E w \in Pruned(table[c]) :
    /\ order' = queue
    /\ \/ /\ Len(w) >= PerMinute
          /\ window' = [table EXCEPT ![c] = w]
          /\ Reject(c, "limited")
       \/ /\ Len(w) < PerMinute
          /\ window' = [table EXCEPT ![c] = Append(w, clock)]
          /\ admitted' = [admitted EXCEPT ![c] = Append(@, clock)]
          /\ answer' = [client |-> c, said |-> "admitted"]
          /\ told' = IF told.client = c THEN NoAdvice ELSE told
          /\ UNCHANGED asking

CheckKnown(c) ==
  /\ c \in Tracked
  /\ \E queue \in MovedToEnd(c) : Decide(c, queue, window)
  /\ UNCHANGED clock

(* Mutant: a full table forgets its least recently used client. *)
CheckUnseenEvicts(c) ==
  /\ c \notin Tracked
  /\ \E r \in Reclaimed :
       IF Len(r.order) >= MaxClients
       THEN Decide(c, Append(Tail(r.order), c),
                   [r.window EXCEPT ![c] = <<>>, ![Head(r.order)] = <<>>])
       ELSE Decide(c, Append(r.order, c), [r.window EXCEPT ![c] = <<>>])
  /\ UNCHANGED clock

CheckUnseen(c) ==
  /\ c \notin Tracked
  /\ \E r \in Reclaimed :
       \/ /\ Len(r.order) >= MaxClients
          /\ order' = r.order
          /\ window' = r.window
          /\ Reject(c, "full")
       \/ /\ Len(r.order) < MaxClients
          /\ Decide(c, Append(r.order, c), [r.window EXCEPT ![c] = <<>>])
  /\ UNCHANGED clock

(* Mutant: the wait is rounded down. *)
Floor(a, b) == a \div b

Ceiling(a, b) == (a + b - 1) \div b

Longest(a, b) == IF a > b THEN a ELSE b

(* retry_after: only called for a request that was rejected, by then       *)
(* possibly after other requests of the same client.                       *)
RetryAfter(c) ==
  /\ c \in asking
  /\ asking' = asking \ {c}
  /\ \E w \in Pruned(window[c]) :
       /\ window' = [window EXCEPT ![c] = w]
       /\ told' = [client |-> c, at |-> clock,
                   wait |-> IF Len(w) < PerMinute THEN 1
                            ELSE Longest(1, Ceiling(w[1] + Window - clock, Second))]
  /\ UNCHANGED <<clock, order, admitted, answer>>

Tick ==
  /\ clock < MaxTime
  /\ clock' = clock + 1
  /\ answer' = NoAnswer
  /\ UNCHANGED <<order, window, admitted, asking, told>>

Next ==
  \/ \E c \in Clients : CheckKnown(c) \/ CheckUnseen(c) \/ RetryAfter(c)
  \/ Tick

Spec == Init /\ [][Next]_vars
-----------------------------------------------------------------------------
TypeOK ==
  /\ clock \in Nat
  /\ order \in Seq(Clients)
  /\ window \in [Clients -> Seq(Nat)]
  /\ admitted \in [Clients -> Seq(Nat)]
  /\ answer \in [client : Clients \union {NoClient},
                 said : {"nothing", "admitted", "limited", "full"}]
  /\ asking \in SUBSET Clients
  /\ told \in [client : Clients \union {NoClient}, at : Nat, wait : Nat]

(* Whatever the clients do, also when the table is full or entries are     *)
(* reclaimed in between: any PerMinute + 1 consecutive admissions of a     *)
(* client span more than the window.  This is what the limiter is for.     *)
AtMostPerMinute ==
  \A c \in Clients : \A i \in DOMAIN admitted[c] :
    i + PerMinute <= Len(admitted[c])
      => admitted[c][i + PerMinute] - admitted[c][i] > Window

(* How many admissions of c a check at time t would still count. *)
LiveAt(c, t) == {i \in DOMAIN admitted[c] : t - admitted[c][i] <= Window}

(* A client that has been refused for want of a place in the table shares  *)
(* it with somebody who was admitted within the last window: the table is  *)
(* never full of clients that are gone.                                    *)
FullMeansBusy ==
  answer.said = "full" =>
    \E c \in Clients : \E i \in DOMAIN admitted[c] : ~Expired(admitted[c][i])

(* The advice, whatever happened between the rejection and the question:   *)
(* a client that waits for longer than it was told finds room in its       *)
(* window, and when it is told more than a second, one second less would   *)
(* not have been enough.                                                   *)
Full(c, t) == \E i \in LiveAt(c, t) : i + PerMinute - 1 \in LiveAt(c, t)

AdviceIsExact ==
  told # NoAdvice =>
    /\ ~Full(told.client, told.at + told.wait * Second + 1)
    /\ told.wait > 1 => Full(told.client, told.at + (told.wait - 1) * Second)
=============================================================================
