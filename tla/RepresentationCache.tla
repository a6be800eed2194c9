------------------------ MODULE RepresentationCache -------------------------
(***************************************************************************)
(* Conditional requests of the GitHub client (ingestion/github_client.py): *)
(* _request with its retries, and the bounded cache of representations it  *)
(* shares between the refresher's thread and the threads of the API.       *)
(* A body is the version GitHub had, and so is the tag that names it.      *)
(***************************************************************************)
EXTENDS Naturals, Sequences

CONSTANTS
  Threads,
  Urls,
  Versions,     \* a set of naturals without 0
  Retries,      \* requests after the first one (2)
  MaxEntries,   \* MAX_ETAG_CACHE_ENTRIES
  Sharing,      \* may two threads request one URL at a time?
  MaxChanges,   \* bound: changes on GitHub
  MaxFaults     \* bound: requests that GitHub or the network fails

RepresentationCacheAssumption ==
  /\ Versions \subseteq Nat \ {0}
  /\ Retries \in Nat
  /\ MaxEntries \in Nat \ {0}
  /\ Sharing \in BOOLEAN

VARIABLES
  remote,   \* what GitHub has at a URL: a version, or Nothing
  cache,    \* _etag_cache, oldest first
  req,      \* the request of each thread
  seen,     \* history: what GitHub had since a thread's request began
  changes, faults

vars == <<remote, cache, req, seen, changes, faults>>
-----------------------------------------------------------------------------
Nothing == 0    \* no representation (404), no tag, no body

Status == {"none", "200", "304", "404", "limited", "refused", "lost"}

Request == [at : {"idle", "ready", "sent", "answered", "ok", "failed"},
            url : Urls, tries : Nat,
            asked : Versions \union {Nothing},     \* If-None-Match
            status : Status,
            tag : Versions \union {Nothing},       \* ETag of the reply
            body : Versions \union {Nothing}]

Entry == [url : Urls, tag : Versions, body : Versions]

InFlight(t) == req[t].at \in {"ready", "sent", "answered"}

Cached(u) == {i \in DOMAIN cache : cache[i].url = u}

(* self._etag_cache.pop(url, None) *)
Without(u) ==
  IF Cached(u) = {} THEN cache
  ELSE LET i == CHOOSE i \in Cached(u) : TRUE
       IN  SubSeq(cache, 1, i - 1) \o SubSeq(cache, i + 1, Len(cache))

(* Mutant: a reply without a tag leaves the old representation. *)
RememberingTagged(u, tag, body) ==
  IF tag = Nothing THEN Append(Without(u), [url |-> u, body |-> body,
       tag |-> IF Cached(u) = {} THEN body ELSE cache[CHOOSE i \in Cached(u) : TRUE].tag])
  ELSE LET kept == Append(Without(u), [url |-> u, tag |-> tag, body |-> body])
       IN  IF Len(kept) > MaxEntries THEN Tail(kept) ELSE kept

(* _remember_representation *)
Remembering(u, tag, body) ==
  IF tag = Nothing THEN Without(u)
  ELSE LET kept == Append(Without(u), [url |-> u, tag |-> tag, body |-> body])
       IN  IF Len(kept) > MaxEntries THEN Tail(kept) ELSE kept

-----------------------------------------------------------------------------
Init ==
  /\ remote \in [Urls -> Versions \union {Nothing}]
  /\ cache = <<>>
  /\ \E u \in Urls :
       req = [t \in Threads |-> [at |-> "idle", url |-> u, tries |-> 0, asked |-> Nothing,
                                 status |-> "none", tag |-> Nothing, body |-> Nothing]]
  /\ seen = [t \in Threads |-> {}]
  /\ changes = 0
  /\ faults = 0

Begin(t, u) ==
  /\ ~InFlight(t)
  /\ ~Sharing => \A s \in Threads : InFlight(s) => req[s].url # u
  /\ req' = [req EXCEPT ![t] = [at |-> "ready", url |-> u, tries |-> 0, asked |-> Nothing,
                                status |-> "none", tag |-> Nothing, body |-> Nothing]]
  /\ seen' = [seen EXCEPT ![t] = {remote[u]}]
  /\ UNCHANGED <<remote, cache, changes, faults>>

(* The headers are built and the request is sent. *)
Send(t) ==
  /\ req[t].at = "ready"
  /\ \E tag \in IF Cached(req[t].url) = {} THEN {Nothing}
                ELSE {cache[i].tag : i \in Cached(req[t].url)} :
       req' = [req EXCEPT ![t].at = "sent", ![t].asked = tag]
  /\ UNCHANGED <<remote, cache, seen, changes, faults>>

(* GitHub answers from what it has now, with or without a tag. *)
Answer(t) ==
  LET now == remote[req[t].url] IN
  /\ req[t].at = "sent"
  /\ \E tagged \in BOOLEAN :
       LET tag == IF tagged THEN now ELSE Nothing IN
       req' = [req EXCEPT ![t] =
                 CASE now = Nothing       -> [@ EXCEPT !.at = "answered", !.status = "404"]
                   [] now # Nothing /\ now = req[t].asked ->
                        [@ EXCEPT !.at = "answered", !.status = "304", !.tag = tag]
                   [] OTHER ->
                        [@ EXCEPT !.at = "answered", !.status = "200", !.tag = tag, !.body = now]]
  /\ UNCHANGED <<remote, cache, seen, changes, faults>>

(* Throttling, any other status, or no usable reply at all. *)
Fault(t) ==
  /\ req[t].at = "sent"
  /\ faults < MaxFaults
  /\ faults' = faults + 1
  /\ \E s \in {"limited", "refused", "lost"} :
       req' = [req EXCEPT ![t].at = "answered", ![t].status = s]
  /\ UNCHANGED <<remote, cache, seen, changes>>

Returning(t, outcome, body) ==
  [at |-> outcome, url |-> req[t].url, tries |-> 0, asked |-> Nothing,
   status |-> "none", tag |-> Nothing, body |-> body]

Finish(t, outcome, body) ==
  /\ req' = [req EXCEPT ![t] = Returning(t, outcome, body)]
  /\ UNCHANGED <<remote, seen, changes, faults>>

ReceiveNew(t) ==
  /\ req[t].at = "answered" /\ req[t].status = "200"
  /\ cache' = Remembering(req[t].url, req[t].tag, req[t].body)
  /\ Finish(t, "ok", req[t].body)

(* The cache is read again: what it holds by now answers the request, and  *)
(* is remembered under the tag of the reply.                               *)
ReceiveNotModified(t) ==
  /\ req[t].at = "answered" /\ req[t].status = "304"
  /\ \E i \in Cached(req[t].url) :
       /\ cache' = Remembering(req[t].url,
                     IF req[t].tag # Nothing THEN req[t].tag ELSE cache[i].tag, cache[i].body)
       /\ Finish(t, "ok", cache[i].body)

ReceiveGone(t) ==
  /\ req[t].at = "answered" /\ req[t].status = "304"
  /\ Cached(req[t].url) = {}
  /\ Finish(t, "failed", Nothing)
  /\ UNCHANGED cache

ReceiveMissing(t) ==
  /\ req[t].at = "answered" /\ req[t].status = "404"
  /\ cache' = Without(req[t].url)
  /\ Finish(t, "failed", Nothing)

(* Throttled and failed requests are sent again, after a pause. *)
Retry(t) ==
  /\ req[t].at = "answered" /\ req[t].status \in {"limited", "lost"}
  /\ req[t].tries < Retries
  /\ req' = [req EXCEPT ![t].at = "ready", ![t].status = "none", ![t].tries = @ + 1]
  /\ UNCHANGED <<remote, cache, seen, changes, faults>>

GiveUp(t) ==
  /\ req[t].at = "answered"
  /\ \/ req[t].status = "refused"
     \/ req[t].status \in {"limited", "lost"} /\ req[t].tries >= Retries
  /\ Finish(t, "failed", Nothing)
  /\ UNCHANGED cache

(* A push, an edit, a deletion, or the way back. *)
Change(u) ==
  /\ changes < MaxChanges
  /\ changes' = changes + 1
  /\ \E v \in (Versions \union {Nothing}) \ {remote[u]} :
       /\ remote' = [remote EXCEPT ![u] = v]
       /\ seen' = [t \in Threads |-> IF InFlight(t) /\ req[t].url = u
                                     THEN seen[t] \union {v} ELSE seen[t]]
  /\ UNCHANGED <<cache, req, faults>>

Next ==
  \/ \E t \in Threads :
       \/ \E u \in Urls : Begin(t, u)
       \/ Send(t) \/ Answer(t) \/ Fault(t)
       \/ ReceiveNew(t) \/ ReceiveNotModified(t) \/ ReceiveGone(t) \/ ReceiveMissing(t)
       \/ Retry(t) \/ GiveUp(t)
  \/ \E u \in Urls : Change(u)

Spec == Init /\ [][Next]_vars
-----------------------------------------------------------------------------
TypeOK ==
  /\ remote \in [Urls -> Versions \union {Nothing}]
  /\ cache \in Seq(Entry)
  /\ req \in [Threads -> Request]
  /\ seen \in [Threads -> SUBSET (Versions \union {Nothing})]
  /\ changes \in Nat
  /\ faults \in Nat

(* What a request returns is what GitHub had at some moment between its    *)
(* beginning and its end, whether it was sent, repeated or reused: the     *)
(* commit the pipeline takes for HEAD is never older than its question.    *)
AnswerIsCurrent ==
  \A t \in Threads : req[t].at = "ok" => req[t].body \in seen[t]
=============================================================================
