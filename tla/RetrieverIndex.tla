--------------------------- MODULE RetrieverIndex ---------------------------
(***************************************************************************)
(* The index of the retriever (retrieval/search.py) over a store that is   *)
(* ingested into while it is searched, with the memo of filters and the    *)
(* full-text candidate index (retrieval/candidates.py).  All its lists are *)
(* parallel: a position in one names the same chunk in every other one.    *)
(* The tokens of a chunk are modelled by the chunk, a query by the set of  *)
(* chunks that score above zero.                                           *)
(***************************************************************************)
EXTENDS Integers, Sequences, FiniteSets

CONSTANTS
  Chunks,
  Repositories,
  RepositoryOf,   \* of each chunk
  Threads,
  NoThread,
  Pool,           \* how many candidates the full-text index is asked for
  MaxFilters      \* _FILTER_CACHE_MAX

RetrieverIndexAssumption ==
  /\ RepositoryOf \in [Chunks -> Repositories]
  /\ NoThread \notin Threads
  /\ Pool \in Nat \ {0}
  /\ MaxFilters \in Nat \ {0}

VARIABLES
  store,      \* the chunks of the document store, in its order
  chunks,     \* _chunks
  tokens,     \* _term_frequencies, _lengths and what _document_frequency counts
  indexed,    \* _indexed_count
  filters,    \* _filter_cache: the eligible positions of a filter
  rows,       \* the rows of the full-text index
  source,     \* candidate_source: absent, open, or closed and without opinion
  owner,      \* who holds _index_lock
  at, snap,   \* of each thread: where it is, and the chunks it has read
  result      \* the answer just given, with what it should be made of

indexVars == <<chunks, tokens, indexed, filters, rows, source>>
vars == <<store, indexVars, owner, at, snap, result>>
-----------------------------------------------------------------------------
Elements(s) == {s[i] : i \in DOMAIN s}
After(s, n) == SubSeq(s, n + 1, Len(s))

NoFilters == [f \in {} |-> {}]
NoResult == [held |-> {}, filter |-> {}, query |-> {}, narrowed |-> FALSE, found |-> {}]

Init ==
  /\ store = <<>>
  /\ chunks = <<>> /\ tokens = <<>> /\ indexed = -1
  /\ filters = NoFilters
  /\ rows = <<>>
  /\ source \in {"absent", "open", "closed"}
  /\ owner = NoThread
  /\ at = [t \in Threads |-> "idle"]
  /\ snap = [t \in Threads |-> <<>>]
  /\ result = NoResult

(* What the document store does to its chunks: a document is added, one is *)
(* retired, a revision takes the place of another at the end.              *)
StoreChanges ==
  /\ \/ \E c \in Chunks \ Elements(store) : store' = Append(store, c)
     \/ \E i \in DOMAIN store :
          LET rest == SubSeq(store, 1, i - 1) \o After(store, i) IN
          \/ store' = rest
          \/ \E c \in Chunks \ Elements(store) : store' = Append(rest, c)
  /\ result' = NoResult
  /\ UNCHANGED <<indexVars, owner, at, snap>>

Goes(t, from, to) == at[t] = from /\ at' = [at EXCEPT ![t] = to]

(* search holds _index_lock from here to its answer. *)
Take(t) ==
  /\ owner = NoThread
  /\ Goes(t, "idle", "look")
  /\ owner' = t
  /\ result' = NoResult
  /\ UNCHANGED <<store, indexVars, snap>>

(* Mutant: the same number of chunks is taken for the same chunks. *)
SameCount(now) == indexed = Len(now)

Current(now) == indexed = Len(now) /\ chunks = now

IsExtension(now) ==
  /\ indexed >= 0
  /\ Len(now) > indexed
  /\ SubSeq(now, 1, indexed) = chunks

(* _ensure_index reads the store and decides. *)
Look(t) ==
  /\ snap' = [snap EXCEPT ![t] = store]
  /\ \/ /\ Current(store)
        /\ Goes(t, "look", "score")
        /\ UNCHANGED filters
     \/ /\ ~Current(store)
        /\ Goes(t, "look", IF IsExtension(store) THEN "extend" ELSE "rebuild")
        /\ filters' = NoFilters
  /\ UNCHANGED <<store, chunks, tokens, indexed, rows, source, owner, result>>

(* The tail is committed once the full-text index, if there is one, has    *)
(* taken it.                                                               *)
Extend(t) ==
  /\ Goes(t, "extend", "score")
  /\ source # "closed"
  /\ rows' = IF source = "open" THEN rows \o After(snap[t], indexed) ELSE rows
  /\ tokens' = tokens \o After(snap[t], indexed)
  /\ chunks' = snap[t]
  /\ indexed' = Len(snap[t])
  /\ UNCHANGED <<store, filters, source, owner, snap, result>>

(* It declines, or fails and is dropped: everything is rebuilt. *)
ExtendFails(t) ==
  /\ Goes(t, "extend", "rebuild")
  /\ source # "absent"
  /\ rows' = <<>>
  /\ source' = "closed"
  /\ UNCHANGED <<store, chunks, tokens, indexed, filters, owner, snap, result>>

Reset(t) ==
  /\ Goes(t, "rebuild", "fill")
  /\ chunks' = snap[t]
  /\ tokens' = <<>>
  /\ UNCHANGED <<store, indexed, filters, rows, source, owner, snap, result>>

(* The full-text index is rebuilt with the lists, or gives up. *)
Fill(t) ==
  /\ Goes(t, "fill", "score")
  /\ tokens' = tokens \o snap[t]
  /\ indexed' = Len(snap[t])
  /\ source' \in IF source = "absent" THEN {"absent"} ELSE {"open", "closed"}
  /\ rows' = IF source' = "open" THEN snap[t] ELSE <<>>
  /\ UNCHANGED <<store, chunks, filters, owner, snap, result>>
-----------------------------------------------------------------------------
Eligible(filter) == {i \in DOMAIN chunks : RepositoryOf[chunks[i]] \in filter}

(* What the full-text index may offer when it has an opinion and is not    *)
(* asked for everything.  Its match is not the retriever's: the phrase of  *)
(* a term with an underscore also matches neighbouring tokens, a term of   *)
(* underscores alone matches nothing, so any rows may be on the short list *)
(* and any be missing; only their number is bounded.                       *)
Offered ==
  IF source = "open" /\ Pool < Len(rows)
  THEN {offer \in SUBSET DOMAIN rows : Cardinality(offer) <= Pool}
  ELSE {}

Remembering(filter, positions) ==
  LET kept == IF Cardinality(DOMAIN filters) >= MaxFilters THEN NoFilters ELSE filters
  IN  [f \in DOMAIN kept \union {filter} |-> IF f = filter THEN positions ELSE kept[f]]

Answer(t, filter, query, positions, narrowed) ==
  /\ Goes(t, "score", "idle")
  /\ owner' = NoThread
  /\ result' = [held |-> Elements(snap[t]), filter |-> filter, query |-> query,
                narrowed |-> narrowed,
                found |-> {chunks[i] : i \in {i \in positions \cap DOMAIN chunks \cap DOMAIN tokens :
                                                tokens[i] \in query}}]
  /\ snap' = [snap EXCEPT ![t] = <<>>]
  /\ UNCHANGED <<store, chunks, tokens, indexed, rows, source>>

(* Without a filter everything is scored, or what is offered; a query the  *)
(* full-text index cannot answer is no offer.                              *)
Search(t, query) ==
  /\ \/ Answer(t, Repositories, query, DOMAIN chunks, FALSE)
     \/ \E offer \in Offered : Answer(t, Repositories, query, offer, TRUE)
  /\ UNCHANGED filters

SearchFiltered(t, query) ==
  \E filter \in SUBSET Repositories :
    \/ /\ filter \in DOMAIN filters
       /\ Answer(t, filter, query, filters[filter], FALSE)
       /\ UNCHANGED filters
    \/ /\ filter \notin DOMAIN filters
       /\ Answer(t, filter, query, Eligible(filter), FALSE)
       /\ filters' = Remembering(filter, Eligible(filter))

Next ==
  \/ StoreChanges
  \/ \E t \in Threads :
       \/ Take(t) \/ Look(t) \/ Extend(t) \/ ExtendFails(t) \/ Reset(t) \/ Fill(t)
       \/ \E query \in SUBSET Chunks : Search(t, query) \/ SearchFiltered(t, query)

Spec == Init /\ [][Next]_vars
-----------------------------------------------------------------------------
TypeOK ==
  /\ store \in Seq(Chunks)
  /\ chunks \in Seq(Chunks)
  /\ tokens \in Seq(Chunks)
  /\ indexed \in Nat \union {-1}
  /\ DOMAIN filters \subseteq SUBSET Repositories
  /\ rows \in Seq(Chunks)
  /\ source \in {"absent", "open", "closed"}
  /\ owner \in Threads \union {NoThread}
  /\ at \in [Threads -> {"idle", "look", "extend", "rebuild", "fill", "score"}]
  /\ snap \in [Threads -> Seq(Chunks)]
  /\ result \in [held : SUBSET Chunks, filter : SUBSET Repositories,
                 query : SUBSET Chunks, narrowed : BOOLEAN, found : SUBSET Chunks]

(* Between two searches the lists of the index are parallel, and so are    *)
(* the rows of the full-text index and the remembered positions, whatever  *)
(* was added, replaced or retired, and whichever extension failed.         *)
IndexIsAligned ==
  owner = NoThread /\ indexed >= 0 =>
    /\ tokens = chunks
    /\ indexed = Len(chunks)
    /\ source = "open" => rows = chunks
    /\ \A f \in DOMAIN filters : filters[f] = Eligible(f)

(* A search answers from what the store held when it looked: nothing that  *)
(* had been retired by then, nothing outside its filter, and everything    *)
(* else that matches, unless the full-text index has narrowed the search.  *)
AnswersFromTheStore ==
  LET due == {c \in result.held : c \in result.query /\ RepositoryOf[c] \in result.filter} IN
  /\ result.found \subseteq due
  /\ ~result.narrowed => result.found = due
=============================================================================
