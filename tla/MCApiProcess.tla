---------------------------- MODULE MCApiProcess ----------------------------
(***************************************************************************)
(* The components of the API process that share no state with each other.  *)
(* They are checked one at a time: a behaviour belongs to one of them, its *)
(* part, and the others stay where they begin.  ChatService is             *)
(* extended, so that its properties are those of its theorems.             *)
(***************************************************************************)
EXTENDS ChatService, TLC

CONSTANTS
  Clients, NoClient, PerMinute, MaxClients, Window, Second, MaxTime,
  Urls, Versions, Retries, MaxEntries, MaxChanges, MaxFaults,
  Chunks, OddChunks, Pool, MaxFilters,
  Pulls, Issues, PerPage, Limit, MaxPages, MaxEdits,
  Documents, Operators, MaxRecords, MaxReleases

VARIABLES
  part,
  clock, order, window, admitted, answer, asking, told,
  remote, cache, req, seen, changes, faults,
  store, chunks, tokens, indexed, filters, rows, source, owner, at, snap, result,
  place, updated, edits, query, page, items, state,
  screened, let, entries, releases, complete, reading, approved

limiter == <<clock, order, window, admitted, answer, asking, told>>
client == <<remote, cache, req, seen, changes, faults>>
index == <<store, chunks, tokens, indexed, filters, rows, source, owner, at, snap, result>>
listing == <<place, updated, edits, query, page, items, state>>
review == <<screened, let, entries, releases, complete, reading, approved>>
chat == vars
processVars == <<part, limiter, client, index, listing, review, chat>>
-----------------------------------------------------------------------------
Limiter == INSTANCE RateLimiter

Client == INSTANCE RepresentationCache WITH Sharing <- FALSE

Repositories == {"odd", "even"}
RepositoryOf == [c \in Chunks |-> IF c \in OddChunks THEN "odd" ELSE "even"]

Index == INSTANCE RetrieverIndex WITH NoThread <- Nobody

Listings == INSTANCE Listing WITH Items <- Pulls \union Issues

Review == INSTANCE QuarantineReview WITH admitted <- let, log <- entries

ASSUME ProcessAssumption ==
  /\ Limiter!RateLimiterAssumption
  /\ Client!RepresentationCacheAssumption
  /\ Index!RetrieverIndexAssumption
  /\ Listings!ListingAssumption
  /\ Review!QuarantineReviewAssumption
  /\ ChatServiceAssumption
-----------------------------------------------------------------------------
(* The parts that do not run begin in one state each.  GitHub has the same *)
(* version everywhere to begin with.                                       *)
ProcessInit ==
  /\ part \in {"limiter", "client", "index", "listing", "review", "chat"}
  /\ Limiter!Init /\ Client!Init /\ Index!Init /\ Listings!Init
  /\ Review!Init /\ Init
  /\ \A u \in Urls : remote[u] = 1
  /\ \A t \in Threads : req[t].url = CHOOSE u \in Urls : TRUE
  /\ part # "index" => source = "absent"
  /\ part # "listing" => place = CHOOSE p \in Listings!Orders : TRUE

OnLimiter(A) ==
  part = "limiter" /\ A /\ UNCHANGED <<part, client, index, listing, review, chat>>
OnClient(A) ==
  part = "client" /\ A /\ UNCHANGED <<part, limiter, index, listing, review, chat>>
OnIndex(A) ==
  part = "index" /\ A /\ UNCHANGED <<part, limiter, client, listing, review, chat>>
OnListing(A) ==
  part = "listing" /\ A /\ UNCHANGED <<part, limiter, client, index, review, chat>>
OnReview(A) ==
  part = "review" /\ A /\ UNCHANGED <<part, limiter, client, index, listing, chat>>
OnChat(A) ==
  part = "chat" /\ A /\ UNCHANGED <<part, limiter, client, index, listing, review>>

ProcessNext ==
  \/ OnLimiter(Limiter!Next)
  \/ OnClient(Client!Next)
  \/ OnIndex(Index!Next)
  \/ OnListing(Listings!Next)
  \/ OnReview(Review!Next)
  \/ OnChat(Next)

ProcessSpec == ProcessInit /\ [][ProcessNext]_processVars

(* Threads are alike, and so are clients: nothing chooses among them by    *)
(* name, and what is checked are invariants.                               *)
Symmetry == Permutations(Threads) \union Permutations(Clients)
-----------------------------------------------------------------------------
EachTypeOK ==
  CASE part = "limiter" -> Limiter!TypeOK
    [] part = "client" -> Client!TypeOK
    [] part = "index" -> Index!TypeOK
    [] part = "listing" -> Listings!TypeOK
    [] part = "review" -> Review!TypeOK
    [] part = "chat" -> TypeOK

AtMostPerMinute == Limiter!AtMostPerMinute
FullMeansBusy == Limiter!FullMeansBusy
AdviceIsExact == Limiter!AdviceIsExact

AnswerIsCurrent == Client!AnswerIsCurrent
NothingSkipped == Listings!NothingSkipped

IndexIsAligned == Index!IndexIsAligned
AnswersFromTheStore == Index!AnswersFromTheStore

OnlyApprovedIsAdmitted == Review!OnlyApprovedIsAdmitted
OneReleasePerOperator == Review!OneReleasePerOperator
=============================================================================
