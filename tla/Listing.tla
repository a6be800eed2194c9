------------------------------ MODULE Listing -------------------------------
(***************************************************************************)
(* The paginated listings of pull requests and issues of the GitHub client *)
(* (ingestion/github_client.py): the pages are cut from a list that GitHub *)
(* sorts by the last update, and that moves while they are fetched.        *)
(***************************************************************************)
EXTENDS Naturals, Sequences, FiniteSets

CONSTANTS
  Items,
  Pulls,       \* those that are pull requests; the others are issues
  PerPage,     \* items of a page
  Limit,       \* max_items_per_source
  MaxPages,    \* MAX_PAGINATION_PAGES
  MaxEdits     \* bound: the last second anything is edited in

ListingAssumption ==
  /\ IsFiniteSet(Items)
  /\ Pulls \subseteq Items
  /\ PerPage \in Nat \ {0}
  /\ Limit \in Nat \ {0}
  /\ MaxPages \in Nat
  /\ MaxEdits \in Nat \ {0}

VARIABLES
  place,    \* where GitHub lists each item, the last updated first
  updated,  \* updated_at of each item
  edits,    \* the clock: the second of the last edit
  query,    \* the listing: its endpoint, cursor, and when it began
  page,     \* pages fetched so far
  items,    \* what they contained
  state     \* "idle", "paging", "complete" or "failed"

vars == <<place, updated, edits, query, page, items, state>>
-----------------------------------------------------------------------------
NoCursor == MaxEdits + 1
Incremental == query.since # NoCursor

Orders == {p \in [Items -> 1..Cardinality(Items)] : \A i, j \in Items : p[i] = p[j] => i = j}

NoQuery == [endpoint |-> "none", since |-> NoCursor, begun |-> 0]

Init ==
  /\ place \in Orders
  /\ updated = [i \in Items |-> 1]
  /\ edits = 1
  /\ query = NoQuery
  /\ page = 0
  /\ items = <<>>
  /\ state = "idle"

(* Somebody edits an item: GitHub sorts it to the front. *)
Edit(i) ==
  /\ edits < MaxEdits
  /\ edits' = edits + 1
  /\ updated' = [updated EXCEPT ![i] = edits + 1]
  /\ place' = [j \in Items |-> IF j = i THEN 1
                                 ELSE IF place[j] < place[i] THEN place[j] + 1
                                 ELSE place[j]]
  /\ UNCHANGED <<query, page, items, state>>

List(endpoint, since) ==
  /\ state # "paging"
  /\ since = NoCursor \/ since <= edits
  /\ query' = [endpoint |-> endpoint, since |-> since, begun |-> edits]
  /\ page' = 0
  /\ items' = <<>>
  /\ state' = "paging"
  /\ UNCHANGED <<place, updated, edits>>

(* The list GitHub cuts the pages from: /pulls knows no since, /issues     *)
(* does, and lists the pull requests too.                                  *)
Matching ==
  IF query.endpoint = "pulls" THEN Pulls
  ELSE IF Incremental THEN {i \in Items : updated[i] >= query.since}
  ELSE Items

Size == IF Incremental \/ Limit > PerPage THEN PerPage ELSE Limit

Ahead(i, S) == {j \in S : place[j] < place[i]}

Page(n) == {i \in Matching : Cardinality(Ahead(i, Matching)) \in (n * Size)..((n + 1) * Size - 1)}
HasNext(n) == (n + 1) * Size < Cardinality(Matching)

Reached(i) == Incremental /\ query.endpoint = "pulls" /\ updated[i] <= query.since

(* The rows that are kept: of /issues those that are no pull requests, of  *)
(* /pulls those before the first one that the cursor covers.               *)
Wanted(S) ==
  IF query.endpoint = "pulls" THEN {i \in S : ~Reached(i)} ELSE S \ Pulls

Rows(S) == [k \in 1..Cardinality(S) |-> CHOOSE i \in S : Cardinality(Ahead(i, S)) = k - 1]

(* Mutant: an incremental listing is cut like a snapshot. *)
CutAlways(s) == IF Len(s) > Limit THEN SubSeq(s, 1, Limit) ELSE s

Cut(s) == IF ~Incremental /\ Len(s) > Limit THEN SubSeq(s, 1, Limit) ELSE s

Finished(now) ==
  \/ ~Incremental /\ Len(now) >= Limit
  \/ \E i \in Page(page) : Reached(i)
  \/ ~HasNext(page)

FetchPage ==
  /\ state = "paging"
  /\ page < MaxPages
  /\ LET now == items \o Rows(Wanted(Page(page))) IN
       /\ items' = Cut(now)
       /\ state' = IF Finished(now) THEN "complete" ELSE "paging"
  /\ page' = page + 1
  /\ UNCHANGED <<place, updated, edits, query>>

(* The page chain is too long, or a request fails. *)
Fail ==
  /\ state = "paging"
  /\ state' = "failed"
  /\ items' = <<>>
  /\ UNCHANGED <<place, updated, edits, query, page>>

Next ==
  \/ \E i \in Items : Edit(i)
  \/ \E endpoint \in {"pulls", "issues"}, since \in 0..NoCursor : List(endpoint, since)
  \/ FetchPage \/ Fail

Spec == Init /\ [][Next]_vars
-----------------------------------------------------------------------------
Asked == IF query.endpoint = "pulls" THEN Pulls ELSE Items \ Pulls
Listed == {items[k] : k \in DOMAIN items}
Untouched(i) == updated[i] <= query.begun

TypeOK ==
  /\ place \in Orders
  /\ updated \in [Items -> 0..MaxEdits]
  /\ edits \in 0..MaxEdits
  /\ query \in [endpoint : {"none", "pulls", "issues"}, since : 0..NoCursor, begun : 0..MaxEdits]
  /\ page \in 0..MaxPages
  /\ items \in Seq(Items)
  /\ state \in {"idle", "paging", "complete", "failed"}

(* What a complete listing leaves out is old, although the pages moved     *)
(* under it: an incremental one has every item that was updated after the  *)
(* cursor, a snapshot is bounded and whatever it lacks is older than what  *)
(* it has.  The exceptions were edited after the listing began, and are    *)
(* found by the next one.                                                  *)
NothingSkipped ==
  state = "complete" =>
    /\ ~Incremental => Len(items) <= Limit
    /\ \A i \in Asked \ Listed : Untouched(i) =>
         IF Incremental THEN updated[i] <= query.since
         ELSE \A j \in Listed : Untouched(j) => updated[i] <= updated[j]
=============================================================================
