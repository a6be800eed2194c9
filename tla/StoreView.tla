----------------------------- MODULE StoreView ------------------------------
(***************************************************************************)
(* What the ingestion pipeline may rely on in the document store: one      *)
(* document for each source that can be retrieved, and one that the next   *)
(* start of the service would find.  Nothing is said here of lines, torn   *)
(* or not, of compaction or of the gate.  DocumentStore acts like this     *)
(* whenever no append is cut short, the gate stays the same and a load is  *)
(* not stopped half-way; the store that Ingestion is written with always   *)
(* does.                                                                   *)
(***************************************************************************)
CONSTANT Documents  \* records with a source

VARIABLES view,  \* the documents that can be retrieved
          file   \* those a start of the service finds in index.jsonl

Init == view = {} /\ file = {}

Replaced(documents, d) == {e \in documents : e.source # d.source} \cup {d}

(* add: the new revision is the current one of its source, now and later. *)
Add(d) == /\ view' = Replaced(view, d)
          /\ file' = Replaced(file, d)

(* retire_source, rescreen_all, a start that cannot read the file: some    *)
(* documents can no longer be retrieved, but the next start may find them. *)
Forget == view' \subseteq view /\ UNCHANGED file

(* load. *)
Restart == view' = file /\ UNCHANGED file

(* The file is gone. *)
Lose == view' = {} /\ file' = {}

Next == (\E d \in Documents : Add(d)) \/ Forget \/ Restart \/ Lose

Spec == Init /\ [][Next]_<<view, file>>
=============================================================================
