---------------------------- MODULE ChatService -----------------------------
(***************************************************************************)
(* Requests of the private API, served by a pool of threads: what is       *)
(* screened before it is used, who holds the one local model, what is      *)
(* booked and what is audited (api/service.py, api/app.py, api/audit.py,   *)
(* models/singleflight.py, models/usage.py).                               *)
(***************************************************************************)
EXTENDS Naturals, Sequences, FiniteSets

CONSTANTS
  Threads,
  Nobody,
  MaxRequests,  \* bound: requests while the model runs
  MaxCalls      \* bound: model calls of one generator (proposer and copy writer)

ChatServiceAssumption ==
  /\ IsFiniteSet(Threads) /\ Nobody \notin Threads
  /\ MaxRequests \in Nat /\ MaxCalls \in Nat

VARIABLES
  work,       \* what each thread does
  slot,       \* the thread inside the backend: the single-flight lock
  ledger,     \* usage records
  completed,  \* generations the backend finished
  log,        \* lines of api_audit.jsonl
  torn,       \* the last of them has no end
  recorded,   \* the audit log's counters
  failed,
  started     \* requests so far

vars == <<work, slot, ledger, completed, log, torn, recorded, failed, started>>
-----------------------------------------------------------------------------
(* How chat will take a message: answered before the gate looks at it      *)
(* (greeting, help, the list of what was made, ...), about a page on disk, *)
(* a change to a game, something to make, unclear, or a question.          *)
Kinds == {"local", "page", "revise", "create", "unclear", "ask"}
Requests ==
  [op : {"chat", "analyze"}, kind : Kinds, allowed : BOOLEAN, history : {"none"}]
    \union [op : {"chat"}, kind : Kinds, allowed : BOOLEAN, history : {"allowed", "held"}]
    \union [op : {"retrieve"}, kind : {"ask"}, allowed : BOOLEAN, history : {"none"}]
    \union [op : {"index"}, kind : {"ask"}, allowed : {TRUE}, history : {"none"}]

NoRequest == [op |-> "none", kind |-> "ask", allowed |-> TRUE, history |-> "none"]
Idle ==
  [at |-> "idle", req |-> NoRequest, changed |-> FALSE, calls |-> 0, text |-> "none",
   reply |-> "none", attempted |-> FALSE, written |-> FALSE]

Init ==
  /\ work = [t \in Threads |-> Idle]
  /\ slot = Nobody
  /\ ledger = 0
  /\ completed = 0
  /\ log = <<>>
  /\ torn = FALSE
  /\ recorded = 0
  /\ failed = 0
  /\ started = 0

model == <<slot, ledger, completed>>
audit == <<log, torn, recorded, failed>>

At(t, place) == work[t].at = place
Goto(t, place) == work' = [work EXCEPT ![t].at = place]
Say(t, reply, text) ==
  work' = [work EXCEPT ![t] = [@ EXCEPT !.at = "replied", !.reply = reply, !.text = text]]

(* Neither the message nor a replayed turn was held back by the gate. *)
Screened(t) == work[t].req.allowed /\ work[t].req.history # "held"
-----------------------------------------------------------------------------
(* Where a request of each kind begins. *)
Entrance ==
  [chat |-> "asked", retrieve |-> "asked", analyze |-> "ingesting", index |-> "counted"]

Receive(t, req) ==
  /\ At(t, "idle") /\ started < MaxRequests
  /\ started' = started + 1
  /\ work' = [work EXCEPT ![t] = [Idle EXCEPT !.req = req, !.at = Entrance[req.op]]]
  /\ UNCHANGED <<model, audit>>

(* analyze_github: the model is asked only if something was indexed. *)
Ingest(t, changed) ==
  /\ At(t, "ingesting")
  /\ IF changed
       THEN work' = [work EXCEPT ![t] = [@ EXCEPT !.at = "asked", !.changed = TRUE]]
       ELSE Say(t, "skipped", "fixed")
  /\ UNCHANGED <<model, audit, started>>

IndexStats(t) ==
  /\ At(t, "counted")
  /\ Say(t, "allowed", "fixed")
  /\ UNCHANGED <<model, audit, started>>

(* Replies that need neither the gate nor the index; the names of files in *)
(* them are answered as they are.                                          *)
AnswerLocally(t, text) ==
  /\ At(t, "asked") /\ work[t].req.kind = "local"
  /\ Say(t, "refused", text)
  /\ UNCHANGED <<model, audit, started>>

RefuseMessage(t) ==
  /\ At(t, "asked") /\ work[t].req.kind # "local"
  /\ ~work[t].req.allowed
  /\ Say(t, "refused", "fixed")
  /\ UNCHANGED <<model, audit, started>>

RefuseHistory(t) ==
  /\ At(t, "asked") /\ work[t].req.kind # "local"
  /\ work[t].req.allowed /\ work[t].req.history = "held"
  /\ Say(t, "refused", "fixed")
  /\ UNCHANGED <<model, audit, started>>

Accepted(t) == At(t, "asked") /\ Screened(t)

(* A question about a page on disk, or a change nobody can make: the title *)
(* beside the page or the request that made it is quoted as it is.         *)
AnswerFromDisk(t, text) ==
  /\ Accepted(t) /\ work[t].req.kind = "page"
  /\ Say(t, "refused", text)
  /\ UNCHANGED <<model, audit, started>>

Guarded(text) == IF text = "harmful" THEN "fixed" ELSE text

(* What to make is unclear, or of a kind nobody makes: the subject is      *)
(* quoted once the output guard has seen it.                               *)
AskBack(t, text) ==
  /\ Accepted(t) /\ work[t].req.kind = "unclear"
  /\ Say(t, "refused", Guarded(text))
  /\ UNCHANGED <<model, audit, started>>

(* Mutant: the summary of a change is answered as it is. *)
ReviseUnscanned(t, text) ==
  /\ Accepted(t) /\ work[t].req.kind = "revise"
  /\ Say(t, "allowed", text)
  /\ UNCHANGED <<model, audit, started>>

Revise(t, text) ==
  /\ Accepted(t) /\ work[t].req.kind = "revise"
  /\ work' = [work EXCEPT ![t] = [@ EXCEPT !.at = "written", !.text = text]]
  /\ UNCHANGED <<model, audit, started>>

FindFacts(t) ==
  /\ Accepted(t) /\ work[t].req.kind = "create"
  /\ Goto(t, "building")
  /\ UNCHANGED <<model, audit, started>>

(* The generator is done with the model; nobody may have one registered.  *)
Build(t, text) ==
  /\ At(t, "building")
  /\ work' = [work EXCEPT ![t] = [@ EXCEPT !.at = "written", !.text = text]]
  /\ UNCHANGED <<model, audit, started>>

NoGenerator(t) ==
  /\ At(t, "building") /\ work[t].calls = 0
  /\ work' = [work EXCEPT ![t] = [@ EXCEPT !.at = "asked", !.req.kind = "ask"]]
  /\ UNCHANGED <<model, audit, started>>

(* chat goes on to the model with whatever evidence the search found. *)
Search(t) ==
  /\ Accepted(t) /\ work[t].req.kind = "ask"
  /\ IF work[t].req.op = "retrieve" THEN Say(t, "allowed", "fixed") ELSE Goto(t, "prompting")
  /\ UNCHANGED <<model, audit, started>>
-----------------------------------------------------------------------------
(* The single-flight slot: whoever finds it taken is turned away at once.  *)
Asking(t) ==
  \/ At(t, "prompting")
  \/ At(t, "building") /\ work[t].calls < MaxCalls

Generate(t) ==
  /\ Asking(t) /\ slot = Nobody
  /\ slot' = t
  /\ work' = [work EXCEPT ![t] =
                [@ EXCEPT !.at = "generating", !.attempted = TRUE, !.calls = work[t].calls + 1]]
  /\ UNCHANGED <<ledger, completed, audit, started>>

(* A question is refused with the reason that means "attempted"; a         *)
(* generator swallows the error and does without.                          *)
ModelUnavailable(t) ==
  IF work[t].req.kind = "ask"
    THEN work' = [work EXCEPT ![t] = [@ EXCEPT !.at = "replied", !.attempted = TRUE,
                                               !.reply = "unavailable", !.text = "fixed"]]
    ELSE work' = [work EXCEPT ![t] = [@ EXCEPT !.at = "building", !.attempted = TRUE,
                                               !.calls = MaxCalls]]

Busy(t) ==
  /\ Asking(t) /\ slot # Nobody
  /\ ModelUnavailable(t)
  /\ UNCHANGED <<model, audit, started>>

BackendFails(t) ==
  /\ At(t, "generating")
  /\ slot' = Nobody
  /\ ModelUnavailable(t)
  /\ UNCHANGED <<ledger, completed, audit, started>>

(* Mutant: the slot is given back only by the backend. *)
TooLongKeepsSlot(t) ==
  /\ At(t, "generating")
  /\ IF work[t].req.kind = "ask"
       THEN work' = [work EXCEPT ![t] = Idle]
       ELSE ModelUnavailable(t)
  /\ UNCHANGED <<model, audit, started>>

(* Too long for the context: a ValueError, which chat does not catch, so   *)
(* the request ends without a reply and without an audit line.             *)
TooLong(t) ==
  /\ At(t, "generating")
  /\ slot' = Nobody
  /\ IF work[t].req.kind = "ask"
       THEN work' = [work EXCEPT ![t] = Idle]
       ELSE ModelUnavailable(t)
  /\ UNCHANGED <<ledger, completed, audit, started>>

BackendAnswers(t, text) ==
  /\ At(t, "generating")
  /\ slot' = Nobody
  /\ completed' = completed + 1
  /\ work' = [work EXCEPT ![t] = [@ EXCEPT !.at = "booking", !.text = text]]
  /\ UNCHANGED <<ledger, audit, started>>

Book(t) ==
  /\ At(t, "booking")
  /\ ledger' = ledger + 1
  /\ Goto(t, IF work[t].req.kind = "ask" THEN "written" ELSE "building")
  /\ UNCHANGED <<slot, completed, audit, started>>

(* OutputGuard: a finding withholds the whole text. *)
Scan(t) ==
  /\ At(t, "written")
  /\ Say(t, IF work[t].text = "harmful" THEN "withheld" ELSE "allowed", Guarded(work[t].text))
  /\ UNCHANGED <<model, audit, started>>
-----------------------------------------------------------------------------
(* Mutant: a failed backend counts as not asked. *)
InvokedIfAnswered(w) ==
  w.req.op \in {"chat", "analyze"} /\ w.req.kind = "ask" /\ w.reply \in {"allowed", "withheld"}

(* _model_was_attempted *)
Invoked(w) ==
  /\ w.req.op \in {"chat", "analyze"} /\ w.req.kind = "ask"
  /\ w.reply \in {"allowed", "withheld", "unavailable"}

Event(w) ==
  [kind |-> w.req.kind, reply |-> w.reply, invoked |-> Invoked(w), attempted |-> w.attempted]

(* A line is written at the end of the file; if the last one has no end,   *)
(* it is glued to it and neither can be read.                              *)
Garbled == [kind |-> "garbled", reply |-> "none", invoked |-> FALSE, attempted |-> FALSE]
Extended(line) == IF torn THEN [log EXCEPT ![Len(log)] = Garbled] ELSE Append(log, line)

(* record, under the log's lock.  A write that fails may have left nothing *)
(* in the file, a part of the line, all but its end, or the whole line.    *)
Audited(t, ok) ==
  /\ At(t, "replied")
  /\ \/ log' = Extended(Event(work[t])) /\ torn' = FALSE
     \/ ~ok /\ UNCHANGED <<log, torn>>
     \/ ~ok /\ torn' = TRUE /\ \E line \in {Garbled, Event(work[t])} : log' = Extended(line)
  /\ work' = [work EXCEPT ![t] = [@ EXCEPT !.at = "audited", !.written = ok]]
  /\ UNCHANGED <<recorded, failed, model, started>>

(* The counters are taken in a critical section of their own. *)
Count(t) ==
  /\ At(t, "audited")
  /\ recorded' = recorded + (IF work[t].written THEN 1 ELSE 0)
  /\ failed' = failed + (IF work[t].written THEN 0 ELSE 1)
  /\ work' = [work EXCEPT ![t] = IF @.req.op = "index" THEN [@ EXCEPT !.at = "reading"] ELSE Idle]
  /\ UNCHANGED <<log, torn, model, started>>

(* /v1/index reports the counters after its own event was counted. *)
Durability(t) ==
  /\ At(t, "reading")
  /\ work' = [work EXCEPT ![t] = Idle]
  /\ UNCHANGED <<audit, model, started>>

Step(t) ==
  \/ \E req \in Requests : Receive(t, req)
  \/ \E changed \in BOOLEAN : Ingest(t, changed)
  \/ IndexStats(t)
  \/ RefuseMessage(t)
  \/ RefuseHistory(t)
  \/ \E text \in {"safe", "harmful"} :
       \/ AnswerLocally(t, text) \/ AnswerFromDisk(t, text) \/ AskBack(t, text)
       \/ Revise(t, text) \/ Build(t, text) \/ BackendAnswers(t, text)
  \/ FindFacts(t)
  \/ NoGenerator(t)
  \/ Search(t)
  \/ Generate(t)
  \/ Busy(t)
  \/ BackendFails(t)
  \/ TooLong(t)
  \/ Book(t)
  \/ Scan(t)
  \/ \E ok \in BOOLEAN : Audited(t, ok)
  \/ Count(t)
  \/ Durability(t)

Next == \E t \in Threads : Step(t)

Spec == Init /\ [][Next]_vars
-----------------------------------------------------------------------------
TypeOK ==
  /\ slot \in Threads \union {Nobody}
  /\ {ledger, completed, recorded, failed} \subseteq Nat
  /\ started \in 0..MaxRequests
  /\ \A t \in Threads :
       /\ work[t].calls \in 0..(MaxCalls + 1)
       /\ work[t].text \in {"none", "fixed", "safe", "harmful"}
       /\ work[t].req \in Requests \union {NoRequest}

(* SingleFlightLocalModelAdapter: at most one generation is inside the     *)
(* backend, and every way out of it - an answer, a failure, an input that  *)
(* is too long - gives the slot back.                                      *)
SlotIsItsGeneration == \A t \in Threads : slot = t <=> At(t, "generating")

(* chat: neither a held message nor a held turn of the history reaches the *)
(* model, a generator or the reviser (and analyze_github asks only about   *)
(* something that changed); and no answer that is the work of the model, a *)
(* generator or the reviser, or asks back, carries text the output guard   *)
(* would withhold.  Replies put together from the names and titles of      *)
(* pages on disk are not scanned, nor is the metadata beside an answer.    *)
NothingUnscreenedPasses ==
  \A t \in Threads :
    /\ work[t].at \in {"prompting", "building", "generating", "booking", "written"} =>
         Screened(t) /\ (work[t].req.op = "analyze" => work[t].changed)
    /\ /\ work[t].at \in {"replied", "audited", "reading"}
       /\ work[t].req.kind \notin {"local", "page"}
       => work[t].text # "harmful"

(* The records agree with what happened.  Each generation the backend      *)
(* finished is booked once, also those of generators, and no failed one is *)
(* (MeteredAdapter); the line of a question says that the model was asked  *)
(* exactly when it was, also when it failed or was busy.  The counters of  *)
(* the audit log fit what can be read of its file up to the failed writes, *)
(* each of which may have cost one recorded line or left one of its own    *)
(* (ApiAuditLog).                                                          *)
Readable == {k \in DOMAIN log : log[k].kind # "garbled"}
Lines(ok) == Cardinality({t \in Threads : At(t, "audited") /\ work[t].written = ok})

RecordsAreTrue ==
  /\ completed = ledger + Cardinality({t \in Threads : At(t, "booking")})
  /\ Cardinality(Readable) <= recorded + Lines(TRUE) + failed + Lines(FALSE)
  /\ recorded + Lines(TRUE) <= Cardinality(Readable) + failed + Lines(FALSE)
  /\ \A k \in DOMAIN log : log[k].kind = "ask" => (log[k].invoked <=> log[k].attempted)
=============================================================================
