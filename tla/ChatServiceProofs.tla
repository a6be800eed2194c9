-------------------------- MODULE ChatServiceProofs -------------------------
(***************************************************************************)
(* Proofs about ChatService, for any number of threads, requests and model *)
(* calls.  Most steps move one thread between places where it holds        *)
(* nothing shared (Plain); the six others enter or leave the backend, the  *)
(* ledger or the audit log.                                                *)
(***************************************************************************)
EXTENDS ChatService, FiniteSetTheorems, SequenceTheorems, TLAPS

-----------------------------------------------------------------------------
Places ==
  {"idle", "ingesting", "counted", "asked", "building", "prompting", "generating",
   "booking", "written", "replied", "audited", "reading"}

Work ==
  [at : Places,
   req : [op : {"none", "chat", "analyze", "retrieve", "index"}, kind : Kinds,
          allowed : BOOLEAN, history : {"none", "allowed", "held"}],
   changed : BOOLEAN, calls : Nat, text : {"none", "fixed", "safe", "harmful"},
   reply : {"none", "allowed", "withheld", "refused", "skipped", "unavailable"},
   attempted : BOOLEAN, written : BOOLEAN]

(* Only a question, or something that was indexed and is asked about, is   *)
(* on its way; what is on its way was screened.                            *)
GoodRequest(w) ==
  /\ w.at \notin {"idle", "ingesting", "counted"} /\ w.req.op = "analyze" =>
       w.changed \/ w.at \in {"replied", "audited", "reading"}
  /\ w.at \in {"prompting", "building", "generating", "booking", "written"} =>
       w.req.allowed /\ w.req.history # "held" /\ w.req.op \in {"chat", "analyze"}
  /\ w.at = "ingesting" => w.req.op = "analyze"
  /\ w.at = "counted" => w.req.op = "index"
  /\ w.at = "asked" => w.req.op \in {"chat", "analyze", "retrieve"}
  /\ w.req.op \in {"retrieve", "index"} => w.req.kind = "ask"

(* Whether the model was asked is known at every place. *)
GoodAttempt(w) ==
  /\ w.at \in {"ingesting", "counted", "asked", "prompting"} => ~w.attempted
  /\ w.at = "building" /\ w.calls = 0 => ~w.attempted
  /\ w.at \in {"generating", "booking"} => w.attempted
  /\ w.at = "written" /\ w.req.kind = "ask" => w.attempted
  /\ w.at = "prompting" => w.req.kind = "ask"
  /\ w.at = "building" => w.req.kind = "create"
  /\ w.at \in {"generating", "booking"} => w.req.kind \in {"ask", "create"}
  /\ w.at \in {"generating", "booking"} /\ w.req.kind = "create" => 0 < w.calls /\ 0 < MaxCalls
  /\ w.at = "replied" /\ w.req.kind = "ask" => (Invoked(w) <=> w.attempted)

GoodText(w) ==
  w.at \in {"replied", "audited", "reading"} /\ w.req.kind \notin {"local", "page"} => w.text # "harmful"

Good(w) == w \in Work /\ GoodRequest(w) /\ GoodAttempt(w) /\ GoodText(w)

WorkOK == work \in [Threads -> Work] /\ \A t \in Threads : Good(work[t])

Booking == {t \in Threads : work[t].at = "booking"}
Writing == {t \in Threads : work[t].at = "audited" /\ work[t].written}
Failing == {t \in Threads : work[t].at = "audited" /\ ~work[t].written}

Line == [kind : Kinds \union {"garbled"}, invoked : BOOLEAN, attempted : BOOLEAN,
         reply : {"none", "allowed", "withheld", "refused", "skipped", "unavailable"}]

(* What the next line may cost: itself, and the last one if it can still   *)
(* be read.                                                                *)
AtStake == IF ~torn THEN 0 ELSE IF Len(log) \in Readable THEN 2 ELSE 1

FileOK ==
  /\ recorded \in Nat /\ failed \in Nat /\ log \in Seq(Line) /\ torn \in BOOLEAN
  /\ torn => log # <<>>
  /\ Cardinality(Readable) <= recorded + Cardinality(Writing) + failed + Cardinality(Failing)
  /\ recorded + Cardinality(Writing) + AtStake <= Cardinality(Readable) + failed + Cardinality(Failing)

RecordsOK ==
  /\ ledger \in Nat /\ completed \in Nat
  /\ completed = ledger + Cardinality(Booking)
  /\ FileOK
  /\ \A k \in DOMAIN log : log[k].kind = "ask" => (log[k].invoked <=> log[k].attempted)

Inv == WorkOK /\ SlotIsItsGeneration /\ RecordsOK
-----------------------------------------------------------------------------
(* Nothing but thread t's own work changes, and it ends up well. *)
MovesWell(t) == work' = [work EXCEPT ![t] = work'[t]] /\ Good(work'[t])

(* It was, and is, inside nothing that is counted. *)
Plain(t) ==
  /\ MovesWell(t)
  /\ {work[t].at, work'[t].at} \cap {"generating", "booking", "audited"} = {}
  /\ UNCHANGED <<model, audit>>

(* What the new work of t is made of is enough to know. *)
LEMMA MoveTo ==
  ASSUME WorkOK, NEW t \in Threads, NEW w, Good(w), work' = [work EXCEPT ![t] = w]
  PROVE  work'[t] = w /\ MovesWell(t)
<1>1. work \in [Threads -> Work]
  BY DEF WorkOK
<1>2. work'[t] = w
  BY <1>1
<1>3. work' = [work EXCEPT ![t] = work'[t]]
  BY <1>2
<1> QED
  BY <1>2, <1>3 DEF MovesWell

LEMMA ReceivePlain ==
  ASSUME WorkOK, NEW t \in Threads, NEW req \in Requests, Receive(t, req)
  PROVE  Plain(t)
<1> DEFINE w == [Idle EXCEPT !.req = req, !.at = Entrance[req.op]]
<1>1. work[t] \in Work /\ Good(work[t])
  BY DEF WorkOK
<1>2. work' = [work EXCEPT ![t] = w]
  BY DEF Receive, Say, Goto, Idle, Requests, Kinds, NoRequest, Entrance
<1>3. Good(w)
  <2>1. /\ req \in [op : {"chat", "analyze", "retrieve", "index"}, kind : Kinds,
                   allowed : BOOLEAN, history : {"none", "allowed", "held"}]
        /\ req.op \in {"retrieve", "index"} => req.kind = "ask"
    <3>1. \/ req \in [op : {"chat", "analyze"}, kind : Kinds, allowed : BOOLEAN, history : {"none"}]
          \/ req \in [op : {"chat"}, kind : Kinds, allowed : BOOLEAN, history : {"allowed", "held"}]
          \/ req \in [op : {"retrieve"}, kind : {"ask"}, allowed : BOOLEAN, history : {"none"}]
          \/ req \in [op : {"index"}, kind : {"ask"}, allowed : {TRUE}, history : {"none"}]
      BY DEF Requests
    <3> QED
      BY <3>1 DEF Kinds
  <2>2. /\ w.at = Entrance[req.op] /\ w.req = req /\ w.calls = 0 /\ w.text = "none"
        /\ w.attempted = FALSE
    BY DEF Idle
  <2>3. /\ Entrance[req.op] \in {"asked", "ingesting", "counted"}
        /\ Entrance[req.op] = "asked" => req.op \in {"chat", "retrieve"}
        /\ Entrance[req.op] = "ingesting" => req.op = "analyze"
        /\ Entrance[req.op] = "counted" => req.op = "index"
    BY <2>1 DEF Entrance
  <2>4. w \in Work
    BY <2>1, <2>3 DEF Idle, Work, Places
  <2> HIDE DEF w
  <2> QED
    BY <2>1, <2>2, <2>3, <2>4 DEF Good, GoodRequest, GoodAttempt, GoodText
<1>4. UNCHANGED <<model, audit>> /\ {work[t].at, w.at} \cap {"generating", "booking", "audited"} = {}
  BY <1>1 DEF Receive, At, Accepted, Good, GoodRequest, GoodAttempt, GoodText, Work, Places, Idle, Requests, Kinds, NoRequest, Entrance
<1> HIDE DEF w
<1> QED
  BY <1>2, <1>3, <1>4, MoveTo DEF Plain

LEMMA IngestPlain ==
  ASSUME WorkOK, NEW t \in Threads, NEW changed \in BOOLEAN, Ingest(t, changed)
  PROVE  Plain(t)
<1> DEFINE w == IF changed THEN [work[t] EXCEPT !.at = "asked", !.changed = TRUE]
                    ELSE [work[t] EXCEPT !.at = "replied", !.reply = "skipped", !.text = "fixed"]
<1>1. work[t] \in Work /\ Good(work[t])
  BY DEF WorkOK
<1>2. work' = [work EXCEPT ![t] = w]
  BY DEF Ingest, Say, Goto, Kinds
<1>3. Good(w)
  BY <1>1 DEF Ingest, At, Screened, Accepted, Invoked, Good, GoodRequest, GoodAttempt, GoodText, Work, Places, Kinds
<1>4. UNCHANGED <<model, audit>> /\ {work[t].at, w.at} \cap {"generating", "booking", "audited"} = {}
  BY <1>1 DEF Ingest, At, Accepted, Good, GoodRequest, GoodAttempt, GoodText, Work, Places, Kinds
<1> HIDE DEF w
<1> QED
  BY <1>2, <1>3, <1>4, MoveTo DEF Plain

LEMMA IndexStatsPlain ==
  ASSUME WorkOK, NEW t \in Threads, IndexStats(t)
  PROVE  Plain(t)
<1> DEFINE w == [work[t] EXCEPT !.at = "replied", !.reply = "allowed", !.text = "fixed"]
<1>1. work[t] \in Work /\ Good(work[t])
  BY DEF WorkOK
<1>2. work' = [work EXCEPT ![t] = w]
  BY DEF IndexStats, Say, Goto, Kinds
<1>3. Good(w)
  BY <1>1 DEF IndexStats, At, Screened, Accepted, Invoked, Good, GoodRequest, GoodAttempt, GoodText, Work, Places, Kinds
<1>4. UNCHANGED <<model, audit>> /\ {work[t].at, w.at} \cap {"generating", "booking", "audited"} = {}
  BY <1>1 DEF IndexStats, At, Accepted, Good, GoodRequest, GoodAttempt, GoodText, Work, Places, Kinds
<1> HIDE DEF w
<1> QED
  BY <1>2, <1>3, <1>4, MoveTo DEF Plain

(* Answers that need neither the gate nor the index, refusals, what is     *)
(* said of a page on disk, and what is asked back.                         *)
Refusing(t) ==
  \/ RefuseMessage(t) \/ RefuseHistory(t)
  \/ \E text \in {"safe", "harmful"} :
       AnswerLocally(t, text) \/ AnswerFromDisk(t, text) \/ AskBack(t, text)

LEMMA RefusedPlain ==
  ASSUME WorkOK, NEW t \in Threads, Refusing(t)
  PROVE  Plain(t)
<1>0. PICK text \in {"fixed", "safe", "harmful"} :
        /\ Say(t, "refused", text)
        /\ work[t].req.kind \notin {"local", "page"} => text # "harmful"
        /\ At(t, "asked") /\ UNCHANGED <<model, audit>>
        /\ work[t].req.kind = "ask" => ~Screened(t)
  <2>1. CASE RefuseMessage(t) \/ RefuseHistory(t)
    BY <2>1 DEF RefuseMessage, RefuseHistory, Screened
  <2>2. ASSUME NEW text \in {"safe", "harmful"},
               AnswerLocally(t, text) \/ AnswerFromDisk(t, text) \/ AskBack(t, text)
        PROVE  \E said \in {"fixed", "safe", "harmful"} :
                 /\ Say(t, "refused", said)
                 /\ work[t].req.kind \notin {"local", "page"} => said # "harmful"
                 /\ At(t, "asked") /\ UNCHANGED <<model, audit>>
                 /\ work[t].req.kind = "ask" => ~Screened(t)
    BY <2>2 DEF AnswerLocally, AnswerFromDisk, AskBack, Guarded, Accepted
  <2> QED BY <2>1, <2>2 DEF Refusing
<1> DEFINE w == [work[t] EXCEPT !.at = "replied", !.reply = "refused", !.text = text]
<1>1. work[t] \in Work /\ Good(work[t])
  BY DEF WorkOK
<1>2. work' = [work EXCEPT ![t] = w]
  BY <1>0 DEF Say
<1>3. Good(w)
  BY <1>0, <1>1 DEF At, Invoked, Good, GoodRequest, GoodAttempt, GoodText, Work, Places, Kinds
<1>4. UNCHANGED <<model, audit>> /\ {work[t].at, w.at} \cap {"generating", "booking", "audited"} = {}
  BY <1>0, <1>1 DEF At, Work
<1> HIDE DEF w
<1> QED
  BY <1>2, <1>3, <1>4, MoveTo DEF Plain

LEMMA RevisePlain ==
  ASSUME WorkOK, NEW t \in Threads, NEW text \in {"safe", "harmful"}, Revise(t, text)
  PROVE  Plain(t)
<1> DEFINE w == [work[t] EXCEPT !.at = "written", !.text = text]
<1>1. work[t] \in Work /\ Good(work[t])
  BY DEF WorkOK
<1>2. work' = [work EXCEPT ![t] = w]
  BY DEF Revise, Say, Goto, Kinds
<1>3. Good(w)
  BY <1>1 DEF Revise, At, Screened, Accepted, Invoked, Good, GoodRequest, GoodAttempt, GoodText, Work, Places, Kinds
<1>4. UNCHANGED <<model, audit>> /\ {work[t].at, w.at} \cap {"generating", "booking", "audited"} = {}
  BY <1>1 DEF Revise, At, Accepted, Good, GoodRequest, GoodAttempt, GoodText, Work, Places, Kinds
<1> HIDE DEF w
<1> QED
  BY <1>2, <1>3, <1>4, MoveTo DEF Plain

LEMMA FindFactsPlain ==
  ASSUME WorkOK, NEW t \in Threads, FindFacts(t)
  PROVE  Plain(t)
<1> DEFINE w == [work[t] EXCEPT !.at = "building"]
<1>1. work[t] \in Work /\ Good(work[t])
  BY DEF WorkOK
<1>2. work' = [work EXCEPT ![t] = w]
  BY DEF FindFacts, Say, Goto, Kinds
<1>3. Good(w)
  BY <1>1 DEF FindFacts, At, Screened, Accepted, Invoked, Good, GoodRequest, GoodAttempt, GoodText, Work, Places, Kinds
<1>4. UNCHANGED <<model, audit>> /\ {work[t].at, w.at} \cap {"generating", "booking", "audited"} = {}
  BY <1>1 DEF FindFacts, At, Accepted, Good, GoodRequest, GoodAttempt, GoodText, Work, Places, Kinds
<1> HIDE DEF w
<1> QED
  BY <1>2, <1>3, <1>4, MoveTo DEF Plain

LEMMA BuildPlain ==
  ASSUME WorkOK, NEW t \in Threads, NEW text \in {"safe", "harmful"}, Build(t, text)
  PROVE  Plain(t)
<1> DEFINE w == [work[t] EXCEPT !.at = "written", !.text = text]
<1>1. work[t] \in Work /\ Good(work[t])
  BY DEF WorkOK
<1>2. work' = [work EXCEPT ![t] = w]
  BY DEF Build, Say, Goto, Kinds
<1>3. Good(w)
  BY <1>1 DEF Build, At, Screened, Accepted, Invoked, Good, GoodRequest, GoodAttempt, GoodText, Work, Places, Kinds
<1>4. UNCHANGED <<model, audit>> /\ {work[t].at, w.at} \cap {"generating", "booking", "audited"} = {}
  BY <1>1 DEF Build, At, Accepted, Good, GoodRequest, GoodAttempt, GoodText, Work, Places, Kinds
<1> HIDE DEF w
<1> QED
  BY <1>2, <1>3, <1>4, MoveTo DEF Plain

LEMMA NoGeneratorPlain ==
  ASSUME WorkOK, NEW t \in Threads, NoGenerator(t)
  PROVE  Plain(t)
<1> DEFINE w == [work[t] EXCEPT !.at = "asked", !.req.kind = "ask"]
<1>1. work[t] \in Work /\ Good(work[t])
  BY DEF WorkOK
<1>2. work' = [work EXCEPT ![t] = w]
  BY DEF NoGenerator, Say, Goto, Kinds
<1>3. Good(w)
  BY <1>1 DEF NoGenerator, At, Screened, Accepted, Invoked, Good, GoodRequest, GoodAttempt, GoodText, Work, Places, Kinds
<1>4. UNCHANGED <<model, audit>> /\ {work[t].at, w.at} \cap {"generating", "booking", "audited"} = {}
  BY <1>1 DEF NoGenerator, At, Accepted, Good, GoodRequest, GoodAttempt, GoodText, Work, Places, Kinds
<1> HIDE DEF w
<1> QED
  BY <1>2, <1>3, <1>4, MoveTo DEF Plain

LEMMA SearchPlain ==
  ASSUME WorkOK, NEW t \in Threads, Search(t)
  PROVE  Plain(t)
<1> DEFINE w == IF work[t].req.op = "retrieve"
            THEN [work[t] EXCEPT !.at = "replied", !.reply = "allowed", !.text = "fixed"]
            ELSE [work[t] EXCEPT !.at = "prompting"]
<1>1. work[t] \in Work /\ Good(work[t])
  BY DEF WorkOK
<1>2. work' = [work EXCEPT ![t] = w]
  BY DEF Search, Say, Goto, Kinds
<1>3. Good(w)
  BY ZenonT(60), <1>1 DEF Search, At, Screened, Accepted, Invoked, Good, GoodRequest, GoodAttempt, GoodText, Work, Places, Kinds
<1>4. UNCHANGED <<model, audit>> /\ {work[t].at, w.at} \cap {"generating", "booking", "audited"} = {}
  BY <1>1 DEF Search, At, Accepted, Good, GoodRequest, GoodAttempt, GoodText, Work, Places, Kinds
<1> HIDE DEF w
<1> QED
  BY <1>2, <1>3, <1>4, MoveTo DEF Plain

LEMMA ScanPlain ==
  ASSUME WorkOK, NEW t \in Threads, Scan(t)
  PROVE  Plain(t)
<1> DEFINE w == IF work[t].text = "harmful"
            THEN [work[t] EXCEPT !.at = "replied", !.reply = "withheld", !.text = "fixed"]
            ELSE [work[t] EXCEPT !.at = "replied", !.reply = "allowed", !.text = work[t].text]
<1>1. work[t] \in Work /\ Good(work[t])
  BY DEF WorkOK
<1>2. work' = [work EXCEPT ![t] = w]
  BY DEF Scan, Say, Guarded
<1>3. Good(w)
  <2>1. CASE work[t].text = "harmful"
    BY ZenonT(60), <1>1, <2>1 DEF Scan, At, Invoked, Good, GoodRequest, GoodAttempt, GoodText, Work, Places, Kinds
  <2>2. CASE work[t].text # "harmful"
    <3> DEFINE v == [work[t] EXCEPT !.at = "replied", !.reply = "allowed"]
    <3>1. w = v
      BY <1>1, <2>2 DEF Good, Work
    <3>2. v \in Work
      BY <1>1 DEF Work, Places
    <3>3. /\ v.at = "replied" /\ v.reply = "allowed" /\ v.text = work[t].text
          /\ v.req = work[t].req /\ v.changed = work[t].changed
          /\ v.attempted = work[t].attempted
      BY <1>1 DEF Work
    <3>4. work[t].at = "written"
      BY DEF Scan, At
    <3>5. /\ work[t].req.op \in {"chat", "analyze"}
          /\ work[t].req.kind = "ask" => work[t].attempted
      BY <1>1, <3>4 DEF Good, GoodRequest, GoodAttempt
    <3> HIDE DEF v
    <3>6. GoodRequest(v) /\ GoodText(v)
      BY <2>2, <3>3, <3>5 DEF GoodRequest, GoodText
    <3>7. GoodAttempt(v)
      BY <3>3, <3>5 DEF GoodAttempt, Invoked
    <3> QED
      BY <3>1, <3>2, <3>6, <3>7 DEF Good
  <2> QED
    BY <2>1, <2>2
<1>4. UNCHANGED <<model, audit>> /\ {work[t].at, w.at} \cap {"generating", "booking", "audited"} = {}
  BY <1>1 DEF Scan, At, Accepted, Good, GoodRequest, GoodAttempt, GoodText, Work, Places, Kinds
<1> HIDE DEF w
<1> QED
  BY <1>2, <1>3, <1>4, MoveTo DEF Plain

LEMMA DurabilityPlain ==
  ASSUME WorkOK, NEW t \in Threads, Durability(t)
  PROVE  Plain(t)
<1> DEFINE w == Idle
<1>1. work[t] \in Work /\ Good(work[t])
  BY DEF WorkOK
<1>2. work' = [work EXCEPT ![t] = w]
  BY DEF Durability, Say, Goto, Idle, NoRequest, Kinds
<1>3. Good(w)
  BY <1>1 DEF Durability, At, Screened, Accepted, Invoked, Good, GoodRequest, GoodAttempt, GoodText, Work, Places, Idle, NoRequest, Kinds
<1>4. UNCHANGED <<model, audit>> /\ {work[t].at, w.at} \cap {"generating", "booking", "audited"} = {}
  BY <1>1 DEF Durability, At, Accepted, Good, GoodRequest, GoodAttempt, GoodText, Work, Places, Idle, NoRequest, Kinds
<1> HIDE DEF w
<1> QED
  BY <1>2, <1>3, <1>4, MoveTo DEF Plain
-----------------------------------------------------------------------------
(* The threads a set counts, after one of them moved. *)
LEMMA CountedThreads ==
  ASSUME ChatServiceAssumption
  PROVE  /\ IsFiniteSet(Booking) /\ Cardinality(Booking) \in Nat
         /\ IsFiniteSet(Writing) /\ Cardinality(Writing) \in Nat
         /\ IsFiniteSet(Failing) /\ Cardinality(Failing) \in Nat
<1>1. IsFiniteSet(Threads) /\ Booking \subseteq Threads /\ Writing \subseteq Threads /\ Failing \subseteq Threads
  BY DEF ChatServiceAssumption, Booking, Writing, Failing
<1> QED
  BY <1>1, FS_Subset, FS_CardinalityType

(* A thread that moves well leaves the others as they are. *)
LEMMA WorkKept ==
  ASSUME WorkOK, NEW t \in Threads, MovesWell(t)
  PROVE  /\ WorkOK'
         /\ \A s \in Threads \ {t} : work'[s] = work[s]
<1>1. work \in [Threads -> Work] /\ work' = [work EXCEPT ![t] = work'[t]] /\ Good(work'[t])
  BY DEF WorkOK, MovesWell
<1>2. work'[t] \in Work
  BY <1>1 DEF Good
<1>3. work' \in [Threads -> Work]
  BY <1>1, <1>2
<1>4. \A s \in Threads \ {t} : work'[s] = work[s]
  BY <1>1
<1>5. \A s \in Threads : Good(work'[s])
  BY <1>1, <1>4 DEF WorkOK
<1> QED
  BY <1>3, <1>4, <1>5 DEF WorkOK, Good, GoodRequest, GoodAttempt, GoodText, Invoked

LEMMA SlotKept ==
  ASSUME WorkOK, SlotIsItsGeneration, NEW t \in Threads, MovesWell(t), slot' = slot,
         work[t].at # "generating", work'[t].at # "generating"
  PROVE  SlotIsItsGeneration'
BY WorkKept DEF SlotIsItsGeneration, At

LEMMA SlotGiven ==
  ASSUME ChatServiceAssumption, WorkOK, SlotIsItsGeneration, NEW t \in Threads, MovesWell(t),
         slot' = Nobody, work[t].at = "generating", work'[t].at # "generating"
  PROVE  SlotIsItsGeneration'
BY WorkKept DEF SlotIsItsGeneration, At, ChatServiceAssumption

LEMMA SetsKept ==
  ASSUME WorkOK, NEW t \in Threads, MovesWell(t),
         work[t].at # "booking" /\ work'[t].at # "booking",
         work[t].at # "audited" /\ work'[t].at # "audited"
  PROVE  Booking' = Booking /\ Writing' = Writing /\ Failing' = Failing
BY WorkKept DEF Booking, Writing, Failing

LEMMA RecordsKept ==
  ASSUME RecordsOK, Booking' = Booking, Writing' = Writing, Failing' = Failing,
         UNCHANGED <<ledger, completed, recorded, failed, log, torn>>
  PROVE  RecordsOK'
BY DEF RecordsOK, FileOK, AtStake, Readable

LEMMA PlainKeeps ==
  ASSUME Inv, NEW t \in Threads, Plain(t)
  PROVE  Inv'
<1>1. /\ MovesWell(t)
      /\ work[t].at \notin {"generating", "booking", "audited"}
      /\ work'[t].at \notin {"generating", "booking", "audited"}
      /\ UNCHANGED <<slot, ledger, completed, recorded, failed, log, torn>>
  BY DEF Plain, model, audit
<1>2. WorkOK' /\ SlotIsItsGeneration'
  BY <1>1, WorkKept, SlotKept DEF Inv
<1>3. Booking' = Booking /\ Writing' = Writing /\ Failing' = Failing
  BY <1>1, SetsKept DEF Inv
<1>4. RecordsOK'
  BY <1>1, <1>3, RecordsKept DEF Inv
<1> QED
  BY <1>2, <1>4 DEF Inv

(* The slot is free, so nobody else is inside the backend. *)
LEMMA GenerateKeeps ==
  ASSUME ChatServiceAssumption, Inv, NEW t \in Threads, Generate(t)
  PROVE  Inv'
<1> DEFINE w == [work[t] EXCEPT !.at = "generating", !.attempted = TRUE,
                           !.calls = work[t].calls + 1]
<1>1. work[t] \in Work /\ Good(work[t])
  BY DEF Inv, WorkOK
<1>2. /\ work' = [work EXCEPT ![t] = w] /\ slot = Nobody /\ slot' = t
      /\ work[t].at = "prompting" \/ (work[t].at = "building" /\ work[t].calls < MaxCalls)
      /\ UNCHANGED <<ledger, completed, recorded, failed, log, torn>>
  <2>1. work' = [work EXCEPT ![t] = [work[t] EXCEPT !.at = "generating", !.attempted = TRUE,
                                                    !.calls = work[t].calls + 1]]
    BY DEF Generate
  <2>2. /\ slot = Nobody /\ slot' = t
        /\ UNCHANGED <<ledger, completed, recorded, failed, log, torn>>
    BY DEF Generate, audit
  <2>3. Asking(t)
    BY DEF Generate
  <2> QED
    BY <2>1, <2>2, <2>3 DEF Asking, At
<1>3. Good(w) /\ w.at = "generating"
  <2>1. work[t].calls + 1 \in Nat /\ 0 < work[t].calls + 1 /\ MaxCalls \in Nat
    BY <1>1 DEF Work, ChatServiceAssumption
  <2>2. work[t].at = "building" => 0 < MaxCalls
    BY <1>1, <1>2, <2>1 DEF Work
  <2>3. w \in Work
    BY <1>1, <2>1 DEF Work, Places
  <2>4. /\ w.at = "generating" /\ w.req = work[t].req /\ w.changed = work[t].changed
        /\ w.calls = work[t].calls + 1 /\ w.attempted = TRUE
    BY <1>1 DEF Work
  <2> HIDE DEF w
  <2>5. GoodRequest(w)
    BY <1>1, <1>2, <2>4 DEF Good, GoodRequest
  <2>6. GoodAttempt(w)
    BY <1>1, <1>2, <2>1, <2>2, <2>4 DEF Good, GoodAttempt
  <2>7. GoodText(w)
    BY <2>4 DEF GoodText
  <2> QED
    BY <2>3, <2>4, <2>5, <2>6, <2>7 DEF Good
<1> HIDE DEF w
<1>4. MovesWell(t) /\ work'[t] = w
  BY <1>2, <1>3, MoveTo DEF Inv
<1>5. SlotIsItsGeneration'
  BY <1>2, <1>3, <1>4, WorkKept DEF Inv, SlotIsItsGeneration, At, ChatServiceAssumption
<1>6. Booking' = Booking /\ Writing' = Writing /\ Failing' = Failing
  BY <1>2, <1>3, <1>4, SetsKept DEF Inv
<1>7. RecordsOK'
  BY <1>2, <1>6, RecordsKept DEF Inv
<1> QED
  BY <1>4, <1>5, <1>7, WorkKept DEF Inv

(* What becomes of a request that the model could not be asked for. *)
LEMMA UnavailableIsGood ==
  ASSUME ChatServiceAssumption, WorkOK, NEW t \in Threads, ModelUnavailable(t),
         Asking(t) \/ At(t, "generating")
  PROVE  MovesWell(t) /\ work'[t].at \in {"replied", "building"}
<1>1. work[t] \in Work /\ Good(work[t])
  BY DEF WorkOK
<1>2. /\ work[t].at \in {"prompting", "building", "generating"}
      /\ work[t].at = "building" => work[t].calls < MaxCalls
      /\ MaxCalls \in Nat
  BY DEF Asking, At, ChatServiceAssumption
<1>3. CASE work[t].req.kind = "ask"
  <2> DEFINE w == [work[t] EXCEPT !.at = "replied", !.attempted = TRUE,
                                  !.reply = "unavailable", !.text = "fixed"]
  <2>1. work' = [work EXCEPT ![t] = w]
    BY <1>3 DEF ModelUnavailable
  <2>2. Good(w) /\ w.at = "replied"
    BY ZenonT(60), <1>1, <1>2, <1>3
       DEF Good, GoodRequest, GoodAttempt, GoodText, Work, Places, Kinds, Invoked
  <2> HIDE DEF w
  <2> QED
    BY <2>1, <2>2, MoveTo
<1>4. CASE work[t].req.kind # "ask"
  <2> DEFINE w == [work[t] EXCEPT !.at = "building", !.attempted = TRUE, !.calls = MaxCalls]
  <2>1. work' = [work EXCEPT ![t] = w]
    BY <1>4 DEF ModelUnavailable
  <2>2. 0 < MaxCalls
    BY <1>1, <1>2, <1>4 DEF Good, GoodAttempt, Work
  <2>3. w \in Work
    BY <1>1, <1>2 DEF Work, Places
  <2>4. /\ w.at = "building" /\ w.req = work[t].req /\ w.changed = work[t].changed
        /\ w.calls = MaxCalls /\ w.attempted = TRUE
    BY <1>1 DEF Work
  <2> HIDE DEF w
  <2>5. Good(w)
    BY <1>1, <1>2, <1>4, <2>2, <2>3, <2>4 DEF Good, GoodRequest, GoodAttempt, GoodText
  <2> QED
    BY <2>1, <2>4, <2>5, MoveTo
<1> QED
  BY <1>3, <1>4

(* Whoever finds the slot taken holds nothing. *)
LEMMA BusyPlain ==
  ASSUME ChatServiceAssumption, WorkOK, NEW t \in Threads, Busy(t)
  PROVE  Plain(t)
<1>1. MovesWell(t) /\ work'[t].at \in {"replied", "building"}
  BY UnavailableIsGood DEF Busy
<1>2. work[t].at \in {"prompting", "building"} /\ UNCHANGED <<model, audit>>
  BY DEF Busy, Asking, At
<1> QED
  BY <1>1, <1>2 DEF Plain

(* A backend that fails, or does not take the input, books nothing.        *)
LEMMA NoAnswerKeeps ==
  ASSUME ChatServiceAssumption, Inv, NEW t \in Threads, BackendFails(t) \/ TooLong(t)
  PROVE  Inv'
<1>1. /\ work[t].at = "generating" /\ slot' = Nobody
      /\ UNCHANGED <<ledger, completed, recorded, failed, log, torn>>
      /\ ModelUnavailable(t) \/ work' = [work EXCEPT ![t] = Idle]
  BY DEF BackendFails, TooLong, At, audit
<1>2. MovesWell(t) /\ work'[t].at \in {"replied", "building", "idle"}
  <2>1. CASE ModelUnavailable(t)
    BY <1>1, <2>1, UnavailableIsGood DEF Inv, At
  <2>2. CASE work' = [work EXCEPT ![t] = Idle]
    <3>1. Good(Idle) /\ Idle.at = "idle"
      BY DEF Idle, NoRequest, Good, GoodRequest, GoodAttempt, GoodText, Work, Places, Kinds
    <3> QED
      BY <2>2, <3>1, MoveTo DEF Inv
  <2> QED
    BY <1>1, <2>1, <2>2
<1>3. WorkOK' /\ SlotIsItsGeneration'
  BY <1>1, <1>2, WorkKept, SlotGiven DEF Inv
<1>4. Booking' = Booking /\ Writing' = Writing /\ Failing' = Failing
  BY <1>1, <1>2, SetsKept DEF Inv
<1>5. RecordsOK'
  BY <1>1, <1>4, RecordsKept DEF Inv
<1> QED
  BY <1>3, <1>5 DEF Inv

LEMMA AnswersKeeps ==
  ASSUME ChatServiceAssumption, Inv, NEW t \in Threads, NEW text \in {"safe", "harmful"},
         BackendAnswers(t, text)
  PROVE  Inv'
<1> DEFINE w == [work[t] EXCEPT !.at = "booking", !.text = text]
<1>1. work[t] \in Work /\ Good(work[t])
  BY DEF Inv, WorkOK
<1>2. /\ work' = [work EXCEPT ![t] = w] /\ work[t].at = "generating"
      /\ slot' = Nobody /\ completed' = completed + 1
      /\ UNCHANGED <<ledger, recorded, failed, log, torn>>
  BY DEF BackendAnswers, At, audit
<1>3. Good(w) /\ w.at = "booking"
  BY <1>1, <1>2 DEF Good, GoodRequest, GoodAttempt, GoodText, Work, Places, Kinds
<1> HIDE DEF w
<1>4. MovesWell(t) /\ work'[t] = w
  BY <1>2, <1>3, MoveTo DEF Inv
<1>5. WorkOK' /\ SlotIsItsGeneration'
  BY <1>2, <1>3, <1>4, WorkKept, SlotGiven DEF Inv
<1>6. Booking' = Booking \union {t} /\ t \notin Booking /\ Writing' = Writing /\ Failing' = Failing
  BY <1>2, <1>3, <1>4, WorkKept DEF Inv, Booking, Writing, Failing
<1>7. Cardinality(Booking') = Cardinality(Booking) + 1
  BY <1>6, CountedThreads, FS_AddElement
<1>8. RecordsOK'
  <2> DEFINE b == Cardinality(Booking)
  <2>1. b \in Nat /\ b' = b + 1 /\ completed \in Nat /\ ledger \in Nat /\ completed = ledger + b
    BY <1>7, CountedThreads DEF Inv, RecordsOK
  <2> HIDE DEF b
  <2>2. completed' \in Nat /\ completed' = ledger' + b'
    BY <1>2, <2>1
  <2> QED
    BY <1>2, <1>6, <2>2 DEF Inv, RecordsOK, FileOK, AtStake, Readable, b
<1> QED
  BY <1>5, <1>8 DEF Inv

LEMMA BookKeeps ==
  ASSUME ChatServiceAssumption, Inv, NEW t \in Threads, Book(t)
  PROVE  Inv'
<1> DEFINE w == [work[t] EXCEPT !.at = IF work[t].req.kind = "ask" THEN "written" ELSE "building"]
<1>1. work[t] \in Work /\ Good(work[t])
  BY DEF Inv, WorkOK
<1>2. /\ work' = [work EXCEPT ![t] = w] /\ work[t].at = "booking"
      /\ ledger' = ledger + 1
      /\ UNCHANGED <<slot, completed, recorded, failed, log, torn>>
  BY DEF Book, Goto, At, audit
<1>3. Good(w) /\ w.at \in {"written", "building"}
  BY <1>1, <1>2 DEF Good, GoodRequest, GoodAttempt, GoodText, Work, Places, Kinds
<1> HIDE DEF w
<1>4. MovesWell(t) /\ work'[t] = w
  BY <1>2, <1>3, MoveTo DEF Inv
<1>5. WorkOK' /\ SlotIsItsGeneration'
  BY <1>2, <1>3, <1>4, WorkKept, SlotKept DEF Inv
<1>6. Booking' = Booking \ {t} /\ t \in Booking /\ Writing' = Writing /\ Failing' = Failing
  BY <1>2, <1>3, <1>4, WorkKept DEF Inv, Booking, Writing, Failing
<1>7. Cardinality(Booking') = Cardinality(Booking) - 1
  BY <1>6, CountedThreads, FS_RemoveElement
<1>8. RecordsOK'
  <2> DEFINE b == Cardinality(Booking)
  <2>1. b \in Nat /\ b' = b - 1 /\ completed \in Nat /\ ledger \in Nat /\ completed = ledger + b
    BY <1>7, CountedThreads DEF Inv, RecordsOK
  <2> HIDE DEF b
  <2>2. ledger' \in Nat /\ completed' = ledger' + b'
    BY <1>2, <2>1
  <2> QED
    BY <1>2, <1>6, <2>1, <2>2 DEF Inv, RecordsOK, FileOK, AtStake, Readable, b
<1> QED
  BY <1>5, <1>8 DEF Inv
-----------------------------------------------------------------------------
(* The lines that can be read, before and after one more. *)
LEMMA ReadableLines ==
  ASSUME log \in Seq(Line)
  PROVE  /\ IsFiniteSet(Readable) /\ Cardinality(Readable) \in Nat
         /\ DOMAIN log = 1..Len(log) /\ Len(log) \in Nat
<1>1. DOMAIN log = 1..Len(log) /\ Len(log) \in Nat
  BY LenProperties
<1>2. IsFiniteSet(1..Len(log)) /\ Readable \subseteq 1..Len(log)
  BY <1>1, FS_Interval DEF Readable
<1> QED BY <1>1, <1>2, FS_Subset, FS_CardinalityType

LEMMA OneMoreLine ==
  ASSUME log \in Seq(Line), torn \in BOOLEAN, torn => log # <<>>,
         NEW line \in Line, log' = Extended(line)
  PROVE  /\ log' \in Seq(Line) /\ log' # <<>>
         /\ \A k \in DOMAIN log' : (k \in DOMAIN log /\ log'[k] = log[k]) \/ log'[k] \in {line, Garbled}
         /\ ~torn => /\ Cardinality(Readable') = Cardinality(Readable)
                                                    + (IF line.kind # "garbled" THEN 1 ELSE 0)
                     /\ Len(log') \in Readable' <=> line.kind # "garbled"
         /\ torn => /\ Cardinality(Readable') = Cardinality(Readable)
                                                   - (IF Len(log) \in Readable THEN 1 ELSE 0)
                    /\ Len(log') \notin Readable'
<1> DEFINE n == Len(log)
<1>0. DOMAIN log = 1..n /\ n \in Nat /\ IsFiniteSet(Readable) /\ Cardinality(Readable) \in Nat
  BY ReadableLines
<1>1. CASE ~torn
  <2>1. log' = Append(log, line)
    BY <1>1 DEF Extended
  <2>2. /\ log' \in Seq(Line) /\ Len(log') = n + 1 /\ DOMAIN log' = 1..(n + 1)
        /\ \A k \in 1..n : log'[k] = log[k]
        /\ log'[n + 1] = line
    BY <2>1, AppendProperties, LenProperties
  <2> HIDE DEF n
  <2>3. \A k : k \in 1..(n + 1) <=> k \in 1..n \/ k = n + 1
    BY <1>0
  <2>4. n + 1 \notin 1..n
    BY <1>0
  <2>5. Readable' = IF line.kind # "garbled" THEN Readable \union {n + 1} ELSE Readable
    <3>1. Readable' = {k \in 1..(n + 1) : log'[k].kind # "garbled"}
      BY <2>2 DEF Readable
    <3>2. Readable = {k \in 1..n : log[k].kind # "garbled"}
      BY <1>0 DEF Readable
    <3> QED BY <3>1, <3>2, <2>2, <2>3
  <2>6. n + 1 \notin Readable
    BY <1>0, <2>4 DEF Readable
  <2>7. Cardinality(Readable') = Cardinality(Readable) + (IF line.kind # "garbled" THEN 1 ELSE 0)
    <3>1. CASE line.kind # "garbled"
      BY <1>0, <2>5, <2>6, <3>1, FS_AddElement
    <3>2. CASE line.kind = "garbled"
      <4>1. Readable' = Readable
        BY <2>5, <3>2
      <4> QED BY <1>0, <3>2, <4>1
    <3> QED BY <3>1, <3>2
  <2>8. n + 1 \in Readable' <=> line.kind # "garbled"
    BY <2>5, <2>6
  <2>9. log' # <<>>
    BY <2>2, <1>0
  <2>10. \A k \in DOMAIN log' : (k \in DOMAIN log /\ log'[k] = log[k]) \/ log'[k] = line
    BY <1>0, <2>2, <2>3
  <2> QED BY <1>1, <2>2, <2>7, <2>8, <2>9, <2>10
<1>2. CASE torn
  <2>1. log' = [log EXCEPT ![n] = Garbled] /\ n \in 1..n /\ Garbled \in Line
    <3>1. n # 0
      BY <1>2, EmptySeq
    <3>2. Garbled \in Line
      BY DEF Garbled, Line
    <3> QED BY <1>0, <1>2, <3>1, <3>2 DEF Extended
  <2>2. /\ log' \in Seq(Line) /\ Len(log') = n /\ DOMAIN log' = 1..n
        /\ \A k \in 1..n : log'[k] = IF k = n THEN Garbled ELSE log[k]
    BY <1>0, <2>1, ExceptSeq
  <2> HIDE DEF n
  <2>3. Readable' = Readable \ {n}
    <3>1. Readable' = {k \in 1..n : log'[k].kind # "garbled"}
      BY <2>2 DEF Readable
    <3>2. Readable = {k \in 1..n : log[k].kind # "garbled"}
      BY <1>0 DEF Readable
    <3>3. Garbled.kind = "garbled"
      BY DEF Garbled
    <3> QED BY <3>1, <3>2, <3>3, <2>2
  <2>4. Cardinality(Readable') = Cardinality(Readable) - (IF n \in Readable THEN 1 ELSE 0)
    <3>1. CASE n \in Readable
      BY <1>0, <2>3, <3>1, FS_RemoveElement
    <3>2. CASE n \notin Readable
      <4>1. Readable' = Readable
        BY <2>3, <3>2
      <4> QED BY <1>0, <3>2, <4>1
    <3> QED BY <3>1, <3>2
  <2>5. n \notin Readable'
    BY <2>3
  <2>6. log' # <<>>
    BY <2>1, <2>2
  <2>7. \A k \in DOMAIN log' : (k \in DOMAIN log /\ log'[k] = log[k]) \/ log'[k] = Garbled
    BY <1>0, <2>2
  <2>8. Len(log) = n
    BY DEF n
  <2> QED BY <1>2, <2>2, <2>4, <2>5, <2>6, <2>7, <2>8
<1> QED BY <1>1, <1>2

(* How many lines can be read fits the counters after any write.           *)
LEMMA FileKept ==
  ASSUME ChatServiceAssumption, FileOK, NEW line \in Line, line.kind # "garbled", NEW ok \in BOOLEAN,
         UNCHANGED <<recorded, failed>>,
         Cardinality(Writing') = Cardinality(Writing) + (IF ok THEN 1 ELSE 0),
         Cardinality(Failing') = Cardinality(Failing) + (IF ok THEN 0 ELSE 1),
         \/ log' = Extended(line) /\ torn' = FALSE
         \/ ~ok /\ UNCHANGED <<log, torn>>
         \/ ~ok /\ torn' = TRUE /\ \E l \in {Garbled, line} : log' = Extended(l)
  PROVE  /\ FileOK'
         /\ \A k \in DOMAIN log' : (k \in DOMAIN log /\ log'[k] = log[k]) \/ log'[k] \in {line, Garbled}
<1> DEFINE c == Cardinality(Writing)
           d == Cardinality(Failing)
           n == Cardinality(Readable)
           a == AtStake
<1>1. /\ recorded \in Nat /\ failed \in Nat /\ log \in Seq(Line) /\ torn \in BOOLEAN
      /\ torn => log # <<>>
      /\ c \in Nat /\ d \in Nat /\ n \in Nat /\ a \in {0, 1, 2}
      /\ c' = c + (IF ok THEN 1 ELSE 0) /\ d' = d + (IF ok THEN 0 ELSE 1)
      /\ n <= recorded + c + failed + d /\ recorded + c + a <= n + failed + d
  BY CountedThreads, ReadableLines DEF FileOK, AtStake
<1>2. /\ ~torn => a = 0
      /\ torn /\ Len(log) \in Readable => a = 2
      /\ torn /\ Len(log) \notin Readable => a = 1
  BY DEF AtStake
<1>3. Garbled \in Line /\ Garbled.kind = "garbled"
  BY DEF Garbled, Line
<1>4. CASE ~ok /\ UNCHANGED <<log, torn>>
  <2>1. n' = n /\ a' = a
    BY <1>4 DEF AtStake, Readable
  <2> HIDE DEF c, d, n, a
  <2>2. n' <= recorded' + c' + failed' + d' /\ recorded' + c' + a' <= n' + failed' + d'
    BY <1>1, <1>4, <2>1
  <2>3. FileOK'
    BY <1>1, <1>4, <2>2 DEF FileOK, c, d, n, a
  <2> QED BY <1>4, <2>3
<1>5. ASSUME NEW l \in {Garbled, line}, log' = Extended(l),
             (torn' = FALSE /\ l = line) \/ (~ok /\ torn' = TRUE)
      PROVE  /\ FileOK'
             /\ \A k \in DOMAIN log' : (k \in DOMAIN log /\ log'[k] = log[k]) \/ log'[k] \in {line, Garbled}
  <2>1. l \in Line
    BY <1>3
  <2>2. /\ log' \in Seq(Line) /\ log' # <<>>
        /\ \A k \in DOMAIN log' : (k \in DOMAIN log /\ log'[k] = log[k]) \/ log'[k] \in {l, Garbled}
        /\ ~torn => /\ n' = n + (IF l.kind # "garbled" THEN 1 ELSE 0)
                    /\ Len(log') \in Readable' <=> l.kind # "garbled"
        /\ torn => /\ n' = n - (IF Len(log) \in Readable THEN 1 ELSE 0)
                   /\ Len(log') \notin Readable'
    BY <1>1, <1>5, <2>1, OneMoreLine
  <2>3. /\ torn' = FALSE => a' = 0
        /\ torn' = TRUE => a' = IF Len(log') \in Readable' THEN 2 ELSE 1
        /\ torn' \in BOOLEAN
    BY <1>5 DEF AtStake
  <2> HIDE DEF c, d, n, a
  <2>4. n' <= recorded' + c' + failed' + d' /\ recorded' + c' + a' <= n' + failed' + d'
    <3>1. CASE torn
      BY <1>1, <1>2, <1>5, <2>2, <2>3, <3>1
    <3>2. CASE ~torn
      <4>1. CASE torn' = FALSE
        BY <1>1, <1>2, <1>5, <2>2, <2>3, <3>2, <4>1
      <4>2. CASE torn' = TRUE
        BY <1>1, <1>2, <1>3, <1>5, <2>2, <2>3, <3>2, <4>2
      <4> QED BY <2>3, <4>1, <4>2
    <3> QED BY <1>1, <3>1, <3>2
  <2>5. FileOK'
    BY <1>1, <2>2, <2>3, <2>4 DEF FileOK, c, d, n, a
  <2> QED BY <2>2, <2>5
<1>6. CASE log' = Extended(line) /\ torn' = FALSE
  BY <1>5, <1>6
<1>7. ASSUME ~ok, torn' = TRUE, NEW l \in {Garbled, line}, log' = Extended(l)
      PROVE  /\ FileOK'
             /\ \A k \in DOMAIN log' : (k \in DOMAIN log /\ log'[k] = log[k]) \/ log'[k] \in {line, Garbled}
  BY <1>5, <1>7
<1> QED BY <1>4, <1>6, <1>7

LEMMA AuditedKeeps ==
  ASSUME ChatServiceAssumption, Inv, NEW t \in Threads, NEW ok \in BOOLEAN, Audited(t, ok)
  PROVE  Inv'
<1> DEFINE w == [work[t] EXCEPT !.at = "audited", !.written = ok]
           line == Event(work[t])
<1>1. work[t] \in Work /\ Good(work[t])
  BY DEF Inv, WorkOK
<1>2. /\ work' = [work EXCEPT ![t] = w] /\ work[t].at = "replied"
      /\ \/ log' = Extended(line) /\ torn' = FALSE
         \/ ~ok /\ UNCHANGED <<log, torn>>
         \/ ~ok /\ torn' = TRUE /\ \E l \in {Garbled, line} : log' = Extended(l)
      /\ UNCHANGED <<slot, completed, ledger, recorded, failed>>
  BY DEF Audited, At, model
<1>3. Good(w) /\ w.at = "audited" /\ w.written = ok
  BY ZenonT(60), <1>1, <1>2 DEF Good, GoodRequest, GoodAttempt, GoodText, Work, Places, Kinds
<1>4. /\ line \in Line /\ line.kind # "garbled"
      /\ line.kind = "ask" => (line.invoked <=> line.attempted)
  BY <1>1, <1>2 DEF Event, Line, Invoked, Good, GoodAttempt, Work, Kinds
<1> HIDE DEF w, line
<1>5. MovesWell(t) /\ work'[t] = w
  BY <1>2, <1>3, MoveTo DEF Inv
<1>6. WorkOK' /\ SlotIsItsGeneration'
  BY <1>2, <1>3, <1>5, WorkKept, SlotKept DEF Inv
<1>7. /\ Booking' = Booking /\ t \notin Writing /\ t \notin Failing
      /\ Writing' = (IF ok THEN Writing \union {t} ELSE Writing)
      /\ Failing' = (IF ok THEN Failing ELSE Failing \union {t})
  BY <1>2, <1>3, <1>5, WorkKept DEF Inv, Booking, Writing, Failing
<1>8. /\ Cardinality(Writing') = Cardinality(Writing) + (IF ok THEN 1 ELSE 0)
      /\ Cardinality(Failing') = Cardinality(Failing) + (IF ok THEN 0 ELSE 1)
  <2>1. CASE ok
    <3>1. Cardinality(Writing') = Cardinality(Writing) + 1
      BY <1>7, <2>1, CountedThreads, FS_AddElement
    <3>2. Failing' = Failing
      BY <1>7, <2>1
    <3> QED BY <2>1, <3>1, <3>2, CountedThreads
  <2>2. CASE ~ok
    <3>1. Cardinality(Failing') = Cardinality(Failing) + 1
      BY <1>7, <2>2, CountedThreads, FS_AddElement
    <3>2. Writing' = Writing
      BY <1>7, <2>2
    <3> QED BY <2>2, <3>1, <3>2, CountedThreads
  <2> QED BY <2>1, <2>2
<1>9. FileOK
  BY DEF Inv, RecordsOK
<1>10. /\ FileOK'
       /\ \A k \in DOMAIN log' : (k \in DOMAIN log /\ log'[k] = log[k]) \/ log'[k] \in {line, Garbled}
  BY <1>2, <1>4, <1>8, <1>9, FileKept
<1>11. \A k \in DOMAIN log' : log'[k].kind = "ask" => (log'[k].invoked <=> log'[k].attempted)
  BY <1>4, <1>10 DEF Inv, RecordsOK, Garbled
<1>12. RecordsOK'
  BY <1>2, <1>7, <1>10, <1>11 DEF Inv, RecordsOK
<1> QED
  BY <1>6, <1>12 DEF Inv

LEMMA CountKeeps ==
  ASSUME ChatServiceAssumption, Inv, NEW t \in Threads, Count(t)
  PROVE  Inv'
<1> DEFINE w == IF work[t].req.op = "index" THEN [work[t] EXCEPT !.at = "reading"] ELSE Idle
<1>1. work[t] \in Work /\ Good(work[t])
  BY DEF Inv, WorkOK
<1>2. /\ work' = [work EXCEPT ![t] = w] /\ work[t].at = "audited"
      /\ recorded' = recorded + (IF work[t].written THEN 1 ELSE 0)
      /\ failed' = failed + (IF work[t].written THEN 0 ELSE 1)
      /\ UNCHANGED <<slot, completed, ledger, log, torn>>
  BY DEF Count, At, model
<1>3. Good(w) /\ w.at \in {"reading", "idle"}
  BY <1>1, <1>2
     DEF Idle, NoRequest, Good, GoodRequest, GoodAttempt, GoodText, Work, Places, Kinds
<1> HIDE DEF w
<1>4. MovesWell(t) /\ work'[t] = w
  BY <1>2, <1>3, MoveTo DEF Inv
<1>5. WorkOK' /\ SlotIsItsGeneration'
  BY <1>2, <1>3, <1>4, WorkKept, SlotKept DEF Inv
<1>6. /\ Booking' = Booking /\ Writing' = Writing \ {t} /\ Failing' = Failing \ {t}
      /\ t \in Writing <=> work[t].written
      /\ t \in Failing <=> ~work[t].written
  BY <1>2, <1>3, <1>4, WorkKept DEF Inv, Booking, Writing, Failing
<1>7. FileOK'
  <2> DEFINE c == Cardinality(Writing)
             d == Cardinality(Failing)
             n == Cardinality(Readable)
             a == AtStake
  <2>1. /\ recorded \in Nat /\ failed \in Nat /\ c \in Nat /\ d \in Nat /\ n \in Nat /\ a \in {0, 1, 2}
        /\ n <= recorded + c + failed + d /\ recorded + c + a <= n + failed + d
    BY CountedThreads, ReadableLines DEF Inv, RecordsOK, FileOK, AtStake
  <2>2. n' = n /\ a' = a
    BY <1>2 DEF AtStake, Readable
  <2>3. CASE work[t].written
    <3>1. c' = c - 1 /\ Failing' = Failing /\ c' \in Nat
      BY <1>6, <2>3, CountedThreads, FS_RemoveElement, FS_CardinalityType
    <3>2. d' = d /\ recorded' = recorded + 1 /\ failed' = failed
      BY <1>2, <2>1, <2>3, <3>1
    <3> HIDE DEF c, d, n, a
    <3>3. n' <= recorded' + c' + failed' + d' /\ recorded' + c' + a' <= n' + failed' + d'
      BY <2>1, <2>2, <3>1, <3>2
    <3> QED BY <1>2, <2>1, <3>2, <3>3 DEF Inv, RecordsOK, FileOK, c, d, n, a
  <2>4. CASE ~work[t].written
    <3>1. d' = d - 1 /\ Writing' = Writing /\ d' \in Nat
      BY <1>6, <2>4, CountedThreads, FS_RemoveElement, FS_CardinalityType
    <3>2. c' = c /\ recorded' = recorded /\ failed' = failed + 1
      BY <1>2, <2>1, <2>4, <3>1
    <3> HIDE DEF c, d, n, a
    <3>3. n' <= recorded' + c' + failed' + d' /\ recorded' + c' + a' <= n' + failed' + d'
      BY <2>1, <2>2, <3>1, <3>2
    <3> QED BY <1>2, <2>1, <3>2, <3>3 DEF Inv, RecordsOK, FileOK, c, d, n, a
  <2> QED BY <2>3, <2>4
<1>8. RecordsOK'
  BY <1>2, <1>6, <1>7 DEF Inv, RecordsOK
<1> QED
  BY <1>5, <1>8 DEF Inv
-----------------------------------------------------------------------------
LEMMA InvInit ==
  ASSUME ChatServiceAssumption
  PROVE  Init => Inv
<1> SUFFICES ASSUME Init PROVE Inv
  OBVIOUS
<1>1. Good(Idle)
  BY DEF Idle, NoRequest, Good, GoodRequest, GoodAttempt, GoodText, Work, Places, Kinds
<1>2. \A t \in Threads : work[t] = Idle
  BY DEF Init
<1>3. WorkOK
  BY <1>1, <1>2 DEF Init, WorkOK, Good
<1>4. SlotIsItsGeneration
  BY <1>2 DEF Init, SlotIsItsGeneration, At, Idle, ChatServiceAssumption
<1>5. Booking = {} /\ Writing = {} /\ Failing = {} /\ Readable = {} /\ log = <<>>
  BY <1>2 DEF Booking, Writing, Failing, Readable, Idle, Init
<1>6. /\ Cardinality(Booking) = 0 /\ Cardinality(Writing) = 0
      /\ Cardinality(Failing) = 0 /\ Cardinality(Readable) = 0 /\ log \in Seq(Line)
  BY <1>5, FS_EmptySet, EmptySeq
<1>7. FileOK
  <2>1. AtStake = 0 /\ recorded = 0 /\ failed = 0 /\ torn = FALSE
    BY DEF Init, AtStake
  <2>2. torn \in BOOLEAN /\ (torn => log # <<>>)
    BY <2>1
  <2> QED BY <1>6, <2>1, <2>2 DEF FileOK
<1>8. RecordsOK
  BY <1>5, <1>6, <1>7 DEF Init, RecordsOK
<1> QED
  BY <1>3, <1>4, <1>8 DEF Inv

LEMMA InvStep ==
  ASSUME ChatServiceAssumption
  PROVE  Inv /\ [Next]_vars => Inv'
<1> SUFFICES ASSUME Inv, [Next]_vars PROVE Inv'
  OBVIOUS
<1>1. WorkOK
  BY DEF Inv
<1>2. ASSUME NEW t \in Threads, Step(t) PROVE Inv'
  <2>1. ASSUME NEW req \in Requests, Receive(t, req) PROVE Inv'
    BY <1>1, <2>1, ReceivePlain, PlainKeeps
  <2>2. ASSUME NEW changed \in BOOLEAN, Ingest(t, changed) PROVE Inv'
    BY <1>1, <2>2, IngestPlain, PlainKeeps
  <2>3. CASE IndexStats(t)
    BY <1>1, <2>3, IndexStatsPlain, PlainKeeps
  <2>4. CASE Refusing(t)
    BY <1>1, <2>4, RefusedPlain, PlainKeeps
  <2>5. ASSUME NEW text \in {"safe", "harmful"}, Revise(t, text) \/ Build(t, text) PROVE Inv'
    BY <1>1, <2>5, RevisePlain, BuildPlain, PlainKeeps
  <2>6. ASSUME NEW text \in {"safe", "harmful"}, BackendAnswers(t, text) PROVE Inv'
    BY <2>6, AnswersKeeps
  <2>7. CASE FindFacts(t) \/ NoGenerator(t) \/ Search(t)
    BY <1>1, <2>7, FindFactsPlain, NoGeneratorPlain, SearchPlain, PlainKeeps
  <2>8. CASE Generate(t)
    BY <2>8, GenerateKeeps
  <2>9. CASE Busy(t)
    BY <1>1, <2>9, BusyPlain, PlainKeeps
  <2>10. CASE BackendFails(t) \/ TooLong(t)
    BY <2>10, NoAnswerKeeps
  <2>11. CASE Book(t)
    BY <2>11, BookKeeps
  <2>12. CASE Scan(t) \/ Durability(t)
    BY <1>1, <2>12, ScanPlain, DurabilityPlain, PlainKeeps
  <2>13. ASSUME NEW ok \in BOOLEAN, Audited(t, ok) PROVE Inv'
    BY <2>13, AuditedKeeps
  <2>14. CASE Count(t)
    BY <2>14, CountKeeps
  <2> QED
    BY <1>2, <2>1, <2>2, <2>3, <2>4, <2>5, <2>6, <2>7, <2>8, <2>9, <2>10, <2>11,
       <2>12, <2>13, <2>14 DEF Step, Refusing
<1>3. CASE UNCHANGED vars
  BY <1>3 DEF vars, Inv, WorkOK, SlotIsItsGeneration, At, RecordsOK, FileOK, AtStake, Readable,
              Booking, Writing, Failing
<1> QED
  BY <1>2, <1>3 DEF Next

THEOREM ChatInvariant ==
  ASSUME ChatServiceAssumption
  PROVE  Spec => []Inv
<1>1. Init => Inv
  BY InvInit
<1>2. Inv /\ [Next]_vars => Inv'
  BY InvStep
<1> QED
  BY <1>1, <1>2, PTL DEF Spec

(* Every way out of the backend gives the slot back, for any number of     *)
(* threads: the slot is held exactly by the thread that generates.         *)
THEOREM ChatSlotIsItsGeneration ==
  ASSUME ChatServiceAssumption
  PROVE  Spec => []SlotIsItsGeneration
<1>1. Inv => SlotIsItsGeneration
  BY DEF Inv
<1> QED
  BY <1>1, ChatInvariant, PTL

(* No held message or turn gets to the model, a generator or the reviser,  *)
(* and no text the output guard withholds is answered on any path but      *)
(* those that quote the names and titles of pages on disk.                 *)
THEOREM ChatNothingUnscreenedPasses ==
  ASSUME ChatServiceAssumption
  PROVE  Spec => []NothingUnscreenedPasses
<1>1. Inv => NothingUnscreenedPasses
  BY DEF Inv, WorkOK, Good, GoodRequest, GoodText, NothingUnscreenedPasses, Screened
<1> QED
  BY <1>1, ChatInvariant, PTL

(* Ledger, audit lines and counters agree with what the model was asked    *)
(* and answered, however the threads interleave; file and counters differ  *)
(* by no more than the failed writes.                                      *)
THEOREM ChatRecordsAreTrue ==
  ASSUME ChatServiceAssumption
  PROVE  Spec => []RecordsAreTrue
<1>1. Inv => RecordsAreTrue
  <2> SUFFICES ASSUME Inv PROVE RecordsAreTrue
    OBVIOUS
  <2> DEFINE c == Cardinality(Writing)
             d == Cardinality(Failing)
             n == Cardinality(Readable)
  <2>1. c \in Nat /\ d \in Nat /\ n \in Nat /\ recorded \in Nat /\ failed \in Nat /\ AtStake \in Nat
        /\ n <= recorded + c + failed + d /\ recorded + c + AtStake <= n + failed + d
    BY CountedThreads, ReadableLines DEF Inv, RecordsOK, FileOK, AtStake
  <2>2. Lines(TRUE) = c /\ Lines(FALSE) = d
    <3>1. \A t \in Threads : work[t].written \in BOOLEAN
      BY DEF Inv, WorkOK, Work
    <3>2. /\ {t \in Threads : At(t, "audited") /\ work[t].written = TRUE} = Writing
          /\ {t \in Threads : At(t, "audited") /\ work[t].written = FALSE} = Failing
      BY <3>1 DEF Writing, Failing, At
    <3> QED BY <3>2 DEF Lines
  <2> HIDE DEF c, d, n
  <2>3. n <= recorded + c + failed + d /\ recorded + c <= n + failed + d
    BY <2>1
  <2>4. /\ Cardinality(Readable) <= recorded + Lines(TRUE) + failed + Lines(FALSE)
        /\ recorded + Lines(TRUE) <= Cardinality(Readable) + failed + Lines(FALSE)
    BY <2>2, <2>3 DEF n
  <2> QED BY <2>4 DEF Inv, RecordsOK, RecordsAreTrue, Booking, At
<1> QED
  BY <1>1, ChatInvariant, PTL

-----------------------------------------------------------------------------
(* TypeOK adds to this the bounds: a request that has not been through a   *)
(* generator has not asked the model.                                      *)
Early == {"ingesting", "asked", "prompting"}

Typed(w) ==
  /\ w.req \in Requests \union {NoRequest}
  /\ w.calls <= MaxCalls + 1
  /\ w.at \in Early => w.calls = 0

TypeInv ==
  /\ Inv
  /\ slot \in Threads \union {Nobody}
  /\ failed \in Nat /\ started \in 0..MaxRequests
  /\ \A t \in Threads : Typed(work[t])

(* What the steps do to the fields that matter here. *)
LEMMA FieldsKept ==
  ASSUME NEW w \in Work, NEW a, NEW b, NEW c
  PROVE  /\ [w EXCEPT !.at = a].at = a /\ [w EXCEPT !.at = a].req = w.req
         /\ [w EXCEPT !.at = a].calls = w.calls
         /\ [w EXCEPT !.at = a, !.changed = b].at = a /\ [w EXCEPT !.at = a, !.changed = b].req = w.req
         /\ [w EXCEPT !.at = a, !.changed = b].calls = w.calls
         /\ [w EXCEPT !.at = a, !.text = b].at = a /\ [w EXCEPT !.at = a, !.text = b].req = w.req
         /\ [w EXCEPT !.at = a, !.text = b].calls = w.calls
         /\ [w EXCEPT !.at = a, !.written = b].at = a /\ [w EXCEPT !.at = a, !.written = b].req = w.req
         /\ [w EXCEPT !.at = a, !.written = b].calls = w.calls
         /\ [w EXCEPT !.at = a, !.reply = b, !.text = c].at = a
         /\ [w EXCEPT !.at = a, !.reply = b, !.text = c].req = w.req
         /\ [w EXCEPT !.at = a, !.reply = b, !.text = c].calls = w.calls
BY DEF Work

(* Most steps leave the request and the number of calls as they are. *)
LEMMA SameTyped ==
  ASSUME WorkOK, NEW t \in Threads, Typed(work[t]),
         \/ \E changed \in BOOLEAN : Ingest(t, changed)
         \/ IndexStats(t) \/ Refusing(t)
         \/ \E text \in {"safe", "harmful"} : Revise(t, text) \/ Build(t, text) \/ BackendAnswers(t, text)
         \/ FindFacts(t) \/ Search(t) \/ Book(t) \/ Scan(t)
         \/ \E ok \in BOOLEAN : Audited(t, ok)
  PROVE  Typed(work'[t])
<1> DEFINE w == work[t]
           Kept(v) == v.req = w.req /\ v.calls = w.calls /\ (v.at \in Early => w.at \in Early)
<1>1. work \in [Threads -> Work] /\ w \in Work
  BY DEF WorkOK
<1>2. Kept(work'[t])
  <2>0. \A v : work' = [work EXCEPT ![t] = v] => work'[t] = v
    BY <1>1
  <2>1. ASSUME NEW place \in Places \ Early, Goto(t, place) PROVE Kept(work'[t])
    BY <1>1, <2>0, <2>1, FieldsKept DEF Goto
  <2>2. ASSUME NEW reply, NEW text, Say(t, reply, text) PROVE Kept(work'[t])
    <3>1. work'[t] = [w EXCEPT !.at = "replied", !.reply = reply, !.text = text]
      BY <2>0, <2>2 DEF Say
    <3> QED BY <1>1, <3>1, FieldsKept DEF Early
  <2>3. ASSUME NEW changed \in BOOLEAN, Ingest(t, changed) PROVE Kept(work'[t])
    <3>1. CASE changed
      <4>1. work'[t] = [w EXCEPT !.at = "asked", !.changed = TRUE] /\ w.at = "ingesting"
        BY <2>0, <2>3, <3>1 DEF Ingest, At
      <4> QED BY <1>1, <4>1, FieldsKept DEF Early
    <3>2. CASE ~changed
      BY <2>2, <2>3, <3>2 DEF Ingest
    <3> QED BY <3>1, <3>2
  <2>4. CASE IndexStats(t) \/ Refusing(t)
    BY <2>2, <2>4 DEF IndexStats, Refusing, AnswerLocally, RefuseMessage, RefuseHistory, AnswerFromDisk, AskBack
  <2>5. ASSUME NEW text, Revise(t, text) \/ Build(t, text) \/ BackendAnswers(t, text) PROVE Kept(work'[t])
    <3>1. \E place \in {"written", "booking"} : work'[t] = [w EXCEPT !.at = place, !.text = text]
      BY <2>0, <2>5 DEF Revise, Build, BackendAnswers
    <3> QED BY <1>1, <3>1, FieldsKept DEF Early
  <2>6. CASE FindFacts(t) \/ Book(t)
    BY <2>1, <2>6 DEF FindFacts, Book, Places, Early
  <2>7. CASE Search(t)
    <3>1. CASE w.req.op = "retrieve"
      BY <2>2, <2>7, <3>1 DEF Search
    <3>2. CASE w.req.op # "retrieve"
      <4>1. work'[t] = [w EXCEPT !.at = "prompting"] /\ w.at = "asked"
        BY <2>0, <2>7, <3>2 DEF Search, Goto, Accepted, At
      <4> QED BY <1>1, <4>1, FieldsKept DEF Early
    <3> QED BY <3>1, <3>2
  <2>8. CASE Scan(t)
    BY <2>2, <2>8 DEF Scan
  <2>9. ASSUME NEW ok \in BOOLEAN, Audited(t, ok) PROVE Kept(work'[t])
    <3>1. work'[t] = [w EXCEPT !.at = "audited", !.written = ok]
      BY <2>0, <2>9 DEF Audited
    <3> QED BY <1>1, <3>1, FieldsKept DEF Early
  <2> QED BY <2>3, <2>4, <2>5, <2>6, <2>7, <2>8, <2>9
<1> QED BY <1>2 DEF Typed

(* The others, among them those that end a request. *)
LEMMA OtherTyped ==
  ASSUME ChatServiceAssumption, WorkOK, NEW t \in Threads, Typed(work[t]),
         \/ \E req \in Requests : Receive(t, req)
         \/ NoGenerator(t) \/ Generate(t) \/ Busy(t) \/ BackendFails(t) \/ TooLong(t)
         \/ Count(t) \/ Durability(t)
  PROVE  Typed(work'[t])
<1>1. /\ work \in [Threads -> Work] /\ MaxCalls \in Nat
      /\ work[t].calls \in Nat /\ work[t].at \in Places
  BY DEF WorkOK, ChatServiceAssumption, Work
<1>2. Typed(Idle)
  BY <1>1 DEF Typed, Idle
<1>3. ASSUME NEW req \in Requests, Receive(t, req) PROVE Typed(work'[t])
  <2>1. work'[t].req = req /\ work'[t].calls = 0
    BY <1>1, <1>3 DEF Receive, Idle
  <2> QED BY <1>1, <2>1 DEF Typed
<1>4. CASE NoGenerator(t)
  <2>1. work'[t].calls = 0 /\ work'[t].req = [work[t].req EXCEPT !.kind = "ask"]
    BY <1>1, <1>4 DEF NoGenerator, Work
  <2>2. \A req \in Requests \union {NoRequest} : [req EXCEPT !.kind = "ask"] \in Requests \union {NoRequest}
    <3>1. ASSUME NEW req \in Requests PROVE [req EXCEPT !.kind = "ask"] \in Requests
      <4>1. CASE req \in [op : {"chat", "analyze"}, kind : Kinds, allowed : BOOLEAN, history : {"none"}]
        BY <4>1 DEF Requests, Kinds
      <4>2. CASE req \in [op : {"chat"}, kind : Kinds, allowed : BOOLEAN, history : {"allowed", "held"}]
        BY <4>2 DEF Requests, Kinds
      <4>3. CASE req.kind = "ask"
        <5>1. [req EXCEPT !.kind = "ask"] = req
          BY <4>3 DEF Requests
        <5> QED BY <5>1
      <4> QED BY <4>1, <4>2, <4>3 DEF Requests
    <3>2. [NoRequest EXCEPT !.kind = "ask"] = NoRequest
      BY DEF NoRequest
    <3> QED BY <3>1, <3>2
  <2> QED BY <1>1, <2>1, <2>2 DEF Typed
<1>5. CASE Generate(t)
  <2>1. /\ work'[t].req = work[t].req /\ work'[t].calls = work[t].calls + 1
        /\ work'[t].at = "generating"
    BY <1>1, <1>5 DEF Generate, Work
  <2>2. work[t].calls <= MaxCalls
    BY <1>1, <1>5 DEF Generate, Asking, At, Typed, Early
  <2> QED BY <1>1, <2>1, <2>2 DEF Typed, Early
<1>6. ASSUME ModelUnavailable(t) PROVE Typed(work'[t])
  <2>1. /\ work'[t].req = work[t].req
        /\ work'[t].calls \in {work[t].calls, MaxCalls}
        /\ work'[t].at \in {"replied", "building"}
    <3> DEFINE v == [work[t] EXCEPT !.at = "replied", !.attempted = TRUE,
                                    !.reply = "unavailable", !.text = "fixed"]
               u == [work[t] EXCEPT !.at = "building", !.attempted = TRUE, !.calls = MaxCalls]
    <3>0. \A x : work' = [work EXCEPT ![t] = x] => work'[t] = x
      BY <1>1
    <3>1. CASE work[t].req.kind = "ask"
      <4>1. work'[t] = v
        BY <1>6, <3>0, <3>1 DEF ModelUnavailable
      <4>2. work[t] \in Work
        BY <1>1
      <4>3. v.at = "replied" /\ v.req = work[t].req /\ v.calls = work[t].calls
        BY <4>2 DEF Work
      <4> HIDE DEF v
      <4> QED BY <4>1, <4>3
    <3>2. CASE work[t].req.kind # "ask"
      <4>1. work'[t] = u
        BY <1>6, <3>0, <3>2 DEF ModelUnavailable
      <4>2. work[t] \in Work
        BY <1>1
      <4>3. u.at = "building" /\ u.req = work[t].req /\ u.calls = MaxCalls
        BY <4>2 DEF Work
      <4> HIDE DEF u
      <4> QED BY <4>1, <4>3
    <3> QED BY <3>1, <3>2
  <2> QED BY <1>1, <2>1 DEF Typed, Early
<1>7. CASE Busy(t) \/ BackendFails(t)
  BY <1>6, <1>7 DEF Busy, BackendFails
<1>8. CASE TooLong(t)
  <2>1. ModelUnavailable(t) \/ work'[t] = Idle
    BY <1>1, <1>8 DEF TooLong
  <2> QED BY <1>2, <1>6, <2>1
<1>9. CASE Count(t)
  <2>1. \/ work'[t] = Idle
        \/ /\ work'[t].req = work[t].req /\ work'[t].calls = work[t].calls
           /\ work'[t].at = "reading"
    BY <1>1, <1>9 DEF Count, Work
  <2> QED BY <1>2, <2>1 DEF Typed, Early
<1>10. CASE Durability(t)
  BY <1>1, <1>2, <1>10 DEF Durability
<1> QED BY <1>3, <1>4, <1>5, <1>7, <1>8, <1>9, <1>10

LEMMA TypeInit ==
  ASSUME ChatServiceAssumption
  PROVE  Init => TypeInv
<1> SUFFICES ASSUME Init PROVE TypeInv
  OBVIOUS
<1>1. Inv
  BY InvInit
<1>2. Typed(Idle)
  BY DEF Typed, Idle, ChatServiceAssumption
<1> QED BY <1>1, <1>2 DEF Init, TypeInv, ChatServiceAssumption

LEMMA TypeStep ==
  ASSUME ChatServiceAssumption
  PROVE  TypeInv /\ [Next]_vars => TypeInv'
<1> SUFFICES ASSUME TypeInv, [Next]_vars PROVE TypeInv'
  OBVIOUS
<1>1. /\ Inv /\ Inv' /\ WorkOK /\ work \in [Threads -> Work]
      /\ failed \in Nat /\ started \in 0..MaxRequests /\ MaxRequests \in Nat
      /\ slot \in Threads \union {Nobody}
  BY InvStep DEF TypeInv, Inv, WorkOK, ChatServiceAssumption
<1>2. CASE UNCHANGED vars
  BY <1>1, <1>2 DEF vars, TypeInv
<1>3. ASSUME NEW t \in Threads, Step(t) PROVE TypeInv'
  <2>1. Typed(work'[t])
    BY <1>1, <1>3, SameTyped, OtherTyped DEF Step, TypeInv, Refusing
  <2>2. \A u \in Threads \ {t} : work'[u] = work[u]
    BY <1>1, <1>3 DEF Step, Receive, Ingest, IndexStats, AnswerLocally, RefuseMessage, RefuseHistory,
          AnswerFromDisk, AskBack, Revise, Build, BackendAnswers, FindFacts, NoGenerator, Search, Generate, Busy,
          BackendFails, TooLong, Book, Scan, Audited, Count, Durability, ModelUnavailable, Say, Goto
  <2>3. \A u \in Threads : Typed(work[u])'
    BY <2>1, <2>2 DEF TypeInv, Typed
  <2>4. slot' \in Threads \union {Nobody}
    BY <1>1, <1>3 DEF Step, Receive, Ingest, IndexStats, AnswerLocally, RefuseMessage, RefuseHistory,
          AnswerFromDisk, AskBack, Revise, Build, BackendAnswers, FindFacts, NoGenerator, Search, Generate, Busy,
          BackendFails, TooLong, Book, Scan, Audited, Count, Durability, model
  <2>5. failed' = failed \/ failed' = failed + 0 \/ failed' = failed + 1
    BY <1>3 DEF Step, Receive, Ingest, IndexStats, AnswerLocally, RefuseMessage, RefuseHistory,
          AnswerFromDisk, AskBack, Revise, Build, BackendAnswers, FindFacts, NoGenerator, Search, Generate, Busy,
          BackendFails, TooLong, Book, Scan, Audited, Count, Durability, audit
  <2>6. started' = started \/ (started < MaxRequests /\ started' = started + 1)
    BY <1>3 DEF Step, Receive, Ingest, IndexStats, AnswerLocally, RefuseMessage, RefuseHistory,
          AnswerFromDisk, AskBack, Revise, Build, BackendAnswers, FindFacts, NoGenerator, Search, Generate, Busy,
          BackendFails, TooLong, Book, Scan, Audited, Count, Durability
  <2>7. failed' \in Nat /\ started' \in 0..MaxRequests
    BY <1>1, <2>5, <2>6
  <2> QED BY <1>1, <2>3, <2>4, <2>7 DEF TypeInv
<1> QED BY <1>2, <1>3 DEF Next

LEMMA TypedIsOK ==
  ASSUME ChatServiceAssumption
  PROVE  TypeInv => TypeOK
<1> SUFFICES ASSUME TypeInv PROVE TypeOK
  OBVIOUS
<1>1. \A t \in Threads : work[t] \in Work /\ Typed(work[t])
  BY DEF TypeInv, Inv, WorkOK
<1>2. \A t \in Threads :
        /\ work[t].calls \in 0..(MaxCalls + 1)
        /\ work[t].text \in {"none", "fixed", "safe", "harmful"}
        /\ work[t].req \in Requests \union {NoRequest}
  BY <1>1 DEF Work, Typed, ChatServiceAssumption
<1> QED BY <1>2 DEF TypeInv, Inv, RecordsOK, FileOK, TypeOK

(* Whatever the threads do, requests, texts and the counters keep their    *)
(* types, and no request asks the model more often than its generator may. *)
THEOREM ChatTypeCorrect ==
  ASSUME ChatServiceAssumption
  PROVE  Spec => []TypeOK
<1>1. Init => TypeInv
  BY TypeInit
<1>2. TypeInv /\ [Next]_vars => TypeInv'
  BY TypeStep
<1>3. TypeInv => TypeOK
  BY TypedIsOK
<1> QED
  BY <1>1, <1>2, <1>3, PTL DEF Spec
=============================================================================
