-------------------------- MODULE MCDocumentStore ---------------------------
(* DocumentStore for TLC, with the loop of load() as a reference for its   *)
(* Reload.                                                                 *)
EXTENDS DocumentStore

(* The loop of load(): records one by one, those that fail are skipped. *)
LoadLoop(lines, gate) ==
  LET view[i \in 0..Len(lines)] ==
        IF i = 0 THEN {}
        ELSE IF Passes(lines, gate, i) THEN Installed(view[i - 1], lines[i])
        ELSE view[i - 1]
  IN  view[Len(lines)]

(* Reload, the closed form the specification uses, is what the loop of     *)
(* load() computes on every reachable file under every gate.               *)
ReloadIsTheLoop ==
  \A gate \in SUBSET Revisions : LoadLoop(log, gate) = Reload(log, gate)
=============================================================================
