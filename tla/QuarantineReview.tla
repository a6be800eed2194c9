-------------------------- MODULE QuarantineReview --------------------------
(***************************************************************************)
(* Quarantined documents and the people who release them: the quarantine   *)
(* log the gate appends to, the release log the operators append to, and   *)
(* the gate that reads it back (security/quarantine_review.py,             *)
(* security/gate.py).                                                      *)
(***************************************************************************)
EXTENDS Naturals, Sequences, FiniteSets

CONSTANTS
  Documents,
  Operators,
  MaxRecords,  \* bound: lines of the quarantine log
  MaxReleases  \* bound: appends to the release log

QuarantineReviewAssumption == MaxRecords \in Nat /\ MaxReleases \in Nat

VARIABLES
  screened,  \* what the detectors said of each document the last time
  admitted,  \* whether the gate let it into the index then
  log,       \* the quarantine log: entries
  releases,  \* the release log: lines, each an entry or none
  complete,  \* whether its last line ends with a newline
  reading,   \* the entry each operator is about to release, 0 for none
  approved   \* documents some operator approved

vars == <<screened, admitted, log, releases, complete, reading, approved>>
-----------------------------------------------------------------------------
Decisions == {"allow", "quarantine", "block"}

Init ==
  /\ screened = [d \in Documents |-> "none"]
  /\ admitted = [d \in Documents |-> FALSE]
  /\ log = <<>>
  /\ releases = <<>>
  /\ complete = TRUE
  /\ reading = [o \in Operators |-> 0]
  /\ approved = {}

(* releases: a torn line, or two records on one line, is no record.        *)
NoRecord == 0
Released == {releases[k] : k \in DOMAIN releases} \ {NoRecord}
ReleasedDocuments == {log[e].document : e \in Released}

(* Mutant: an approval lifts a refusal as well. *)
LiftedByAnyApproval(d, decision) == decision # "allow" /\ d \in ReleasedDocuments

Lifted(d, decision) == decision = "quarantine" /\ d \in ReleasedDocuments

(* screen_document: the decision is recorded, and a human approval lifts a *)
(* quarantine but not a block.  A detector, a limit or the allowlist may   *)
(* have changed since the document was screened last.                      *)
Screen(d, decision) ==
  /\ Len(log) < MaxRecords
  /\ screened' = [screened EXCEPT ![d] = decision]
  /\ admitted' = [admitted EXCEPT ![d] = decision = "allow" \/ Lifted(d, decision)]
  /\ log' = IF decision = "allow" THEN log
            ELSE Append(log, [document |-> d, decision |-> decision])
  /\ UNCHANGED <<releases, complete, reading, approved>>

(* Mutant: that the entry is released already is not noticed. *)
LookAgain(o, e) ==
  /\ reading[o] = 0
  /\ log[e].decision = "quarantine"
  /\ reading' = [reading EXCEPT ![o] = e]
  /\ UNCHANGED <<screened, admitted, log, releases, complete, approved>>

(* release: look the entry up, refuse what is no quarantine or is released *)
(* already; then append.                                                   *)
Look(o, e) ==
  /\ reading[o] = 0
  /\ log[e].decision = "quarantine"
  /\ e \notin Released
  /\ reading' = [reading EXCEPT ![o] = e]
  /\ UNCHANGED <<screened, admitted, log, releases, complete, approved>>

(* The file is opened for appending: what is written continues an          *)
(* unfinished line, and that line is no record then.                       *)
Appended(e) ==
  IF complete THEN Append(releases, e)
  ELSE [releases EXCEPT ![Len(releases)] = NoRecord]

AppendRelease(o) ==
  /\ reading[o] # 0 /\ Len(releases) < MaxReleases
  /\ releases' = Appended(reading[o])
  /\ complete' = TRUE
  /\ approved' = approved \union {log[reading[o]].document}
  /\ reading' = [reading EXCEPT ![o] = 0]
  /\ UNCHANGED <<screened, admitted, log>>

(* The disk is full, or the operator's process killed, before the end of   *)
(* the record or before its newline.                                       *)
AppendTorn(o) ==
  /\ reading[o] # 0 /\ Len(releases) < MaxReleases
  /\ \E written \in {NoRecord, reading[o]} : releases' = Appended(written)
  /\ complete' = FALSE
  /\ approved' = approved \union {log[reading[o]].document}
  /\ reading' = [reading EXCEPT ![o] = 0]
  /\ UNCHANGED <<screened, admitted, log>>

Next ==
  \/ \E d \in Documents, decision \in Decisions : Screen(d, decision)
  \/ \E o \in Operators :
       \/ \E e \in DOMAIN log : Look(o, e)
       \/ AppendRelease(o)
       \/ AppendTorn(o)

Spec == Init /\ [][Next]_vars
-----------------------------------------------------------------------------
TypeOK ==
  /\ screened \in [Documents -> Decisions \union {"none"}]
  /\ admitted \in [Documents -> BOOLEAN]
  /\ Len(log) <= MaxRecords /\ Len(releases) <= MaxReleases
  /\ \A k \in DOMAIN log : log[k] \in [document : Documents, decision : {"quarantine", "block"}]
  /\ reading \in [Operators -> 0..Len(log)]

(* screen_document, _is_released: what is in the index was either clean    *)
(* when it was screened, or quarantined and approved by a human; a policy  *)
(* refusal is never lifted, whatever was approved before.                  *)
OnlyApprovedIsAdmitted ==
  \A d \in Documents :
    admitted[d] =>
      \/ screened[d] = "allow"
      \/ screened[d] = "quarantine" /\ d \in approved

(* "Double-release is refused, so there is at most one", as far as release *)
(* can refuse it without a lock: no entry has more records than there are  *)
(* operators, who may all have looked before any of them appended.         *)
OneReleasePerOperator ==
  \A e \in DOMAIN log :
    Cardinality({k \in DOMAIN releases : releases[k] = e}) <= Cardinality(Operators)
=============================================================================
