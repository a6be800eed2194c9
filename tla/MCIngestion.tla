---------------------------- MODULE MCIngestion -----------------------------
(* Ingestion for TLC: the histories of commits the runs allow.             *)
EXTENDS Ingestion

AnyPush(old, new) == TRUE

(* One file at a time; a diff over two commits may name two.               *)
OneFile(old, new) == Cardinality(Changed(old, new)) = 1

(* Files appear, disappear and are put back; the README may be rejected by *)
(* the gate, a path of docs/ may become one that gives no document.        *)
MixedPush(old, new) ==
  /\ OneFile(old, new)
  /\ new[Readme] \notin Blank
  /\ \A s \in Docs : new[s] \notin Unsafe
  /\ \A s \in Beside : new[s] \notin Unsafe \cup Blank

(* A file is only ever added or given a newer revision. *)
ForwardPush(old, new) ==
  /\ OneFile(old, new)
  /\ \A s \in Documentation : old[s] <= new[s]
=============================================================================
