--------------------------- MODULE MCGameVersions ---------------------------
(* GameVersions with a title of its own in each setting. *)
EXTENDS GameVersions

EachItsOwn == [s \in Settings |-> s]
=============================================================================
