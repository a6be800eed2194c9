----------------------------- MODULE CursorFile -----------------------------
(***************************************************************************)
(* What the persisted ingestion state promises its writers: a table of     *)
(* repository cursors in which every requested update takes effect         *)
(* atomically, at most once and on top of all updates before it.  Nothing  *)
(* is said here of locks, temporary files or time; StateStore is shown to  *)
(* implement this specification.                                           *)
(***************************************************************************)
CONSTANTS Writers,       \* the threads that update the state file
          Repositories,  \* the repositories it has an entry for
          Commits,       \* the commit SHAs a repository can be marked with
          NoCommit,      \* the empty last_commit_sha of a new entry
          NoRequest      \* "this writer asks for nothing"

(* RepositoryState: the cursor and the error that forces a full re-fetch. *)
Cursor == [sha : Commits \cup {NoCommit}, failed : BOOLEAN]

CursorTable == [Repositories -> Cursor]

FreshCursor == [sha |-> NoCommit, failed |-> FALSE]

(* The two updates: mark_ingested(repo, sha) and mark_error(repo). *)
Request == [kind : {"ingested", "error"}, repo : Repositories, sha : Commits]

(* mark_ingested moves the cursor and clears the error; mark_error only    *)
(* records the error and leaves the cursor where it was.                   *)
Apply(table, rq) ==
  [table EXCEPT ![rq.repo] =
     IF rq.kind = "ingested" THEN [sha |-> rq.sha, failed |-> FALSE]
                             ELSE [sha |-> @.sha, failed |-> TRUE]]

VARIABLES table,    \* the cursors on disk
          pending   \* the update each writer is waiting for

vars == <<table, pending>>

Init == /\ table = [r \in Repositories |-> FreshCursor]
        /\ pending = [w \in Writers |-> NoRequest]

Ask(w, rq) == /\ pending[w] = NoRequest
              /\ pending' = [pending EXCEPT ![w] = rq]
              /\ UNCHANGED table

TakeEffect(w) == /\ pending[w] # NoRequest
                 /\ table' = Apply(table, pending[w])
                 /\ pending' = [pending EXCEPT ![w] = NoRequest]

Refuse(w) == /\ pending[w] # NoRequest
             /\ pending' = [pending EXCEPT ![w] = NoRequest]
             /\ UNCHANGED table

Crash == /\ pending' = [w \in Writers |-> NoRequest]
         /\ UNCHANGED table

Next == \/ \E w \in Writers : \/ \E rq \in Request : Ask(w, rq)
                              \/ TakeEffect(w)
                              \/ Refuse(w)
        \/ Crash

Spec == Init /\ [][Next]_vars
=============================================================================
