-------------------------- MODULE ApiProcessProofs --------------------------
(***************************************************************************)
(* Proofs about the parts of the API process that share no state: the      *)
(* quarantine review, the cache of representations, the retriever's index, *)
(* the rate limiter and the listings.  A step of the process is a step of  *)
(* one part, so the invariant of a part has only its own steps to survive. *)
(* What is proved of ChatService in a module of its own is used for the    *)
(* types of all the parts.                                                 *)
(***************************************************************************)
EXTENDS MCApiProcess, ChatServiceProofs, FiniteSetTheorems, SequenceTheorems, TLAPS

-----------------------------------------------------------------------------
(* A sequence without one of its elements. *)
Dropped(s, i) == SubSeq(s, 1, i - 1) \o SubSeq(s, i + 1, Len(s))

LEMMA DroppedElement ==
  ASSUME NEW S, NEW s \in Seq(S), NEW i \in 1..Len(s)
  PROVE  LET r == Dropped(s, i) IN
         /\ r \in Seq(S)
         /\ Len(r) = Len(s) - 1
         /\ DOMAIN r = 1..(Len(s) - 1)
         /\ \A k \in 1..(Len(s) - 1) : r[k] = IF k < i THEN s[k] ELSE s[k + 1]
<1> DEFINE a == SubSeq(s, 1, i - 1)
           b == SubSeq(s, i + 1, Len(s))
           r == Dropped(s, i)
<1>0. Len(s) \in Nat /\ i \in Nat /\ \A k \in 1..Len(s) : s[k] \in S
  BY LenProperties
<1>1. a \in Seq(S) /\ Len(a) = i - 1 /\ \A k \in 1..(i - 1) : a[k] = s[k]
  <2>1. \A k \in 1..(i - 1) : s[k] \in S
    BY <1>0
  <2>2. /\ a \in Seq(S)
        /\ Len(a) = IF 1 <= i - 1 THEN i - 1 - 1 + 1 ELSE 0
        /\ \A k \in 1..(i - 1 - 1 + 1) : a[k] = s[1 + k - 1]
    BY <1>0, <2>1, SubSeqProperties
  <2> QED BY <1>0, <2>2
<1>2. b \in Seq(S) /\ Len(b) = Len(s) - i /\ \A k \in 1..(Len(s) - i) : b[k] = s[i + k]
  <2>1. \A k \in (i + 1)..Len(s) : s[k] \in S
    BY <1>0
  <2>2. /\ b \in Seq(S)
        /\ Len(b) = IF i + 1 <= Len(s) THEN Len(s) - (i + 1) + 1 ELSE 0
        /\ \A k \in 1..(Len(s) - (i + 1) + 1) : b[k] = s[(i + 1) + k - 1]
    BY <1>0, <2>1, SubSeqProperties
  <2> QED BY <1>0, <2>2
<1>3. /\ r \in Seq(S)
      /\ Len(r) = Len(a) + Len(b)
      /\ \A k \in 1..(Len(a) + Len(b)) : r[k] = IF k <= Len(a) THEN a[k] ELSE b[k - Len(a)]
  BY <1>1, <1>2, ConcatProperties DEF Dropped
<1>4. Len(a) = i - 1 /\ Len(b) = Len(s) - i
  BY <1>1, <1>2
<1> HIDE DEF a, b, r
<1>5. Len(r) = Len(s) - 1
  <2>1. (i - 1) + (Len(s) - i) = Len(s) - 1
    BY <1>0
  <2> QED BY <2>1, <1>3, <1>4
<1>6. \A k \in 1..(Len(s) - 1) : r[k] = IF k <= i - 1 THEN a[k] ELSE b[k - (i - 1)]
  <2>1. (i - 1) + (Len(s) - i) = Len(s) - 1
    BY <1>0
  <2> QED BY <2>1, <1>3, <1>4
<1>7. ASSUME NEW k \in 1..(Len(s) - 1) PROVE r[k] = IF k < i THEN s[k] ELSE s[k + 1]
  <2>1. CASE k < i
    <3>1. k \in 1..(i - 1) /\ k <= i - 1
      BY <2>1, <1>0
    <3> QED BY <2>1, <3>1, <1>1, <1>6
  <2>2. CASE ~(k < i)
    <3>1. k - (i - 1) \in 1..(Len(s) - i) /\ i + (k - (i - 1)) = k + 1 /\ ~(k <= i - 1)
      BY <2>2, <1>0
    <3>2. r[k] = b[k - (i - 1)]
      BY <3>1, <1>6
    <3> QED BY <2>2, <3>1, <3>2, <1>2
  <2> QED BY <2>1, <2>2
<1> QED BY <1>3, <1>5, <1>7, LenProperties DEF r
-----------------------------------------------------------------------------
(* OnlyApprovedIsAdmitted.  Every line of the release log, and every entry *)
(* an operator is about to release, is an entry of the quarantine log; the *)
(* document of a released entry was approved by then.  The quarantine log  *)
(* only grows, so that an entry keeps its document.                        *)
LogEntry == [document : Documents, decision : {"quarantine", "block"}]

ReviewTyped ==
  /\ screened \in [Documents -> Review!Decisions \union {"none"}]
  /\ let \in [Documents -> BOOLEAN]
  /\ entries \in Seq(LogEntry)
  /\ releases \in Seq(0..Len(entries))
  /\ complete \in BOOLEAN
  /\ reading \in [Operators -> 0..Len(entries)]

ReleasesAreApproved ==
  \A k \in DOMAIN releases :
    releases[k] # Review!NoRecord => entries[releases[k]].document \in approved

ReviewInv == ReviewTyped /\ ReleasesAreApproved /\ OnlyApprovedIsAdmitted

LEMMA ReviewInit == ProcessInit => ReviewInv
<1> SUFFICES ASSUME Review!Init PROVE ReviewInv
  BY DEF ProcessInit
<1>1. ReviewTyped
  BY EmptySeq DEF Review!Init, ReviewTyped, Review!Decisions
<1>2. ReleasesAreApproved
  BY DEF Review!Init, ReleasesAreApproved
<1>3. OnlyApprovedIsAdmitted
  BY DEF Review!Init, OnlyApprovedIsAdmitted, Review!OnlyApprovedIsAdmitted
<1> QED BY <1>1, <1>2, <1>3 DEF ReviewInv

(* Screening appends at most one entry, and judges by the approved.        *)
LEMMA ScreenKeepsReview ==
  ASSUME ReviewInv, NEW d \in Documents, NEW decision \in Review!Decisions,
         Review!Screen(d, decision)
  PROVE  ReviewInv'
<1> USE DEF ReviewInv
<1> DEFINE entry == [document |-> d, decision |-> decision]
<1>1. /\ entries' \in Seq(LogEntry)
      /\ Len(entries') \in Nat /\ Len(entries) \in Nat /\ Len(entries) <= Len(entries')
      /\ \A k \in 1..Len(entries) : entries'[k] = entries[k]
  <2>1. CASE decision = "allow"
    BY <2>1, LenProperties DEF Review!Screen, ReviewTyped
  <2>2. CASE decision # "allow"
    <3>1. entry \in LogEntry
      BY <2>2 DEF LogEntry, Review!Decisions
    <3>2. entries' = Append(entries, entry)
      BY <2>2 DEF Review!Screen
    <3> QED BY <3>1, <3>2, LenProperties, AppendProperties DEF ReviewTyped
  <2> QED BY <2>1, <2>2
<1>2. ReviewTyped'
  <2>1. /\ releases' \in Seq(0..Len(entries'))
        /\ reading' \in [Operators -> 0..Len(entries')]
    <3>1. 0..Len(entries) \subseteq 0..Len(entries')
      BY <1>1
    <3> QED BY <3>1, SeqMonotonic DEF Review!Screen, ReviewTyped
  <2>2. screened' \in [Documents -> Review!Decisions \union {"none"}] /\ let' \in [Documents -> BOOLEAN]
    BY DEF Review!Screen, ReviewTyped, Review!Lifted
  <2> QED BY <1>1, <2>1, <2>2 DEF ReviewTyped, Review!Screen
<1>3. ReleasesAreApproved'
  <2> SUFFICES ASSUME NEW k \in DOMAIN releases, releases[k] # 0
               PROVE  entries'[releases[k]].document \in approved
    BY DEF ReleasesAreApproved, Review!Screen, Review!NoRecord
  <2>1. releases[k] \in 1..Len(entries)
    BY LenProperties DEF ReviewTyped
  <2> QED BY <2>1, <1>1 DEF ReleasesAreApproved, Review!NoRecord
<1>4. OnlyApprovedIsAdmitted'
  <2> SUFFICES ASSUME NEW x \in Documents, let'[x]
               PROVE  \/ screened'[x] = "allow"
                      \/ screened'[x] = "quarantine" /\ x \in approved
    BY DEF OnlyApprovedIsAdmitted, Review!OnlyApprovedIsAdmitted, Review!Screen
  <2>0. screened' = [screened EXCEPT ![d] = decision] /\ screened \in [Documents -> Review!Decisions \union {"none"}]
    BY DEF Review!Screen, ReviewTyped
  <2>1. CASE x # d
    <3>1. let[x]
      BY <2>1, Zenon DEF Review!Screen, ReviewTyped
    <3>2. screened'[x] = screened[x]
      BY <2>0, <2>1
    <3> QED BY <3>1, <3>2 DEF OnlyApprovedIsAdmitted, Review!OnlyApprovedIsAdmitted
  <2>2. CASE x = d /\ decision = "allow"
    BY <2>0, <2>2
  <2>3. CASE x = d /\ decision # "allow"
    <3>1. decision = "quarantine" /\ d \in Review!ReleasedDocuments
      BY <2>3 DEF Review!Screen, ReviewTyped, Review!Lifted
    <3>2. PICK k \in DOMAIN releases : releases[k] # Review!NoRecord /\ d = entries[releases[k]].document
      BY <3>1 DEF Review!ReleasedDocuments, Review!Released
    <3> QED BY <2>3, <3>1, <3>2 DEF ReleasesAreApproved, Review!Screen, ReviewTyped
  <2> QED BY <2>1, <2>2, <2>3
<1> QED BY <1>2, <1>3, <1>4

(* What an append leaves in the release log. *)
LEMMA AppendedLines ==
  ASSUME ReviewInv, NEW written \in 0..Len(entries), releases' = Review!Appended(written)
  PROVE  /\ releases' \in Seq(0..Len(entries))
         /\ \A k \in DOMAIN releases' :
              \/ releases'[k] \in {0, written}
              \/ k \in DOMAIN releases /\ releases'[k] = releases[k]
<1>0. releases \in Seq(0..Len(entries)) /\ Len(entries) \in Nat /\ 0 \in 0..Len(entries)
  BY LenProperties DEF ReviewInv, ReviewTyped
<1>1. CASE complete
  BY <1>0, <1>1, LenProperties, AppendProperties DEF Review!Appended
<1>2. CASE ~complete /\ Len(releases) \in 1..Len(releases)
  BY <1>0, <1>2, LenProperties, ExceptSeq DEF Review!Appended, Review!NoRecord
<1>3. CASE ~complete /\ Len(releases) \notin 1..Len(releases)
  BY <1>0, <1>3, LenProperties DEF Review!Appended
<1> QED BY <1>1, <1>2, <1>3

LEMMA ReleaseKeepsReview ==
  ASSUME ReviewInv, NEW o \in Operators, Review!AppendRelease(o) \/ Review!AppendTorn(o)
  PROVE  ReviewInv'
<1>0. PICK written \in {0, reading[o]} : releases' = Review!Appended(written)
  BY DEF Review!AppendRelease, Review!AppendTorn, Review!NoRecord
<1>1. /\ reading[o] \in 1..Len(entries) /\ Len(entries) \in Nat
      /\ written \in 0..Len(entries)
      /\ approved' = approved \union {entries[reading[o]].document}
  BY LenProperties DEF ReviewInv, ReviewTyped, Review!AppendRelease, Review!AppendTorn
<1>2. /\ UNCHANGED <<screened, let, entries>>
      /\ reading' = [reading EXCEPT ![o] = 0]
      /\ complete' \in BOOLEAN
  BY DEF Review!AppendRelease, Review!AppendTorn
<1>3. /\ releases' \in Seq(0..Len(entries))
      /\ \A k \in DOMAIN releases' :
           \/ releases'[k] \in {0, written}
           \/ k \in DOMAIN releases /\ releases'[k] = releases[k]
  BY <1>0, <1>1, AppendedLines
<1>4. ReviewTyped'
  BY <1>1, <1>2, <1>3 DEF ReviewInv, ReviewTyped
<1>5. ReleasesAreApproved'
  BY <1>0, <1>1, <1>2, <1>3 DEF ReviewInv, ReleasesAreApproved, Review!NoRecord
<1>6. OnlyApprovedIsAdmitted'
  BY <1>1, <1>2 DEF ReviewInv, OnlyApprovedIsAdmitted, Review!OnlyApprovedIsAdmitted
<1> QED BY <1>4, <1>5, <1>6 DEF ReviewInv

LEMMA ReviewSteps == ReviewInv /\ [ProcessNext]_processVars => ReviewInv'
<1> SUFFICES ASSUME ReviewInv, [ProcessNext]_processVars PROVE ReviewInv'
  OBVIOUS
<1>1. CASE UNCHANGED review
  BY <1>1 DEF review, ReviewInv, ReviewTyped, ReleasesAreApproved, OnlyApprovedIsAdmitted,
              Review!OnlyApprovedIsAdmitted
<1>2. CASE Review!Next
  <2>1. ASSUME NEW d \in Documents, NEW decision \in Review!Decisions, Review!Screen(d, decision)
        PROVE  ReviewInv'
    BY <2>1, ScreenKeepsReview
  <2>2. ASSUME NEW o \in Operators, NEW e \in DOMAIN entries, Review!Look(o, e) PROVE ReviewInv'
    <3>1. e \in 0..Len(entries)
      BY <2>2, LenProperties DEF ReviewInv, ReviewTyped
    <3> QED BY <2>2, <3>1 DEF Review!Look, ReviewInv, ReviewTyped, ReleasesAreApproved,
                              OnlyApprovedIsAdmitted, Review!OnlyApprovedIsAdmitted
  <2>3. ASSUME NEW o \in Operators, Review!AppendRelease(o) \/ Review!AppendTorn(o) PROVE ReviewInv'
    BY <2>3, ReleaseKeepsReview
  <2> QED BY <1>2, <2>1, <2>2, <2>3 DEF Review!Next
<1> QED BY <1>1, <1>2 DEF ProcessNext, processVars, OnLimiter, OnClient, OnIndex, OnListing, OnReview, OnChat

(* For any documents, operators and lengths of the logs: what the gate     *)
(* lets into the index was clean, or was quarantined and approved by a     *)
(* human; releases that are torn, or appended to a torn line, never lift   *)
(* anything else (screen_document, _is_released).                          *)
THEOREM ReviewOnlyApproved == ProcessSpec => []OnlyApprovedIsAdmitted
<1>1. ReviewInv => OnlyApprovedIsAdmitted
  BY DEF ReviewInv
<1> QED BY <1>1, ReviewInit, ReviewSteps, PTL DEF ProcessSpec

(* OneReleasePerOperator.  Whoever is about to release an entry may add a   *)
(* record of it; so those who have looked are counted with the records.    *)
Records(e) == {k \in DOMAIN releases : releases[k] = e}
Readers(e) == {o \in Operators : reading[o] = e}

OnceInv ==
  \A e \in Nat \ {0} :
    Cardinality(Records(e)) + Cardinality(Readers(e)) <= Cardinality(Operators)

LEMMA CountsAreNumbers ==
  ASSUME IsFiniteSet(Operators), ReviewInv, NEW e
  PROVE  /\ IsFiniteSet(Records(e)) /\ Cardinality(Records(e)) \in Nat
         /\ IsFiniteSet(Readers(e)) /\ Cardinality(Readers(e)) \in Nat
         /\ Cardinality(Operators) \in Nat
<1>1. DOMAIN releases = 1..Len(releases) /\ Len(releases) \in Nat
  BY LenProperties DEF ReviewInv, ReviewTyped
<1>2. IsFiniteSet(1..Len(releases))
  BY <1>1, FS_Interval
<1>3. Records(e) \subseteq 1..Len(releases) /\ Readers(e) \subseteq Operators
  BY <1>1 DEF Records, Readers
<1> QED BY <1>2, <1>3, FS_Subset, FS_CardinalityType

(* Nothing is counted that was not. *)
LEMMA NothingCounted ==
  ASSUME IsFiniteSet(Operators), ReviewInv, OnceInv, NEW e \in Nat \ {0},
         Records(e)' \subseteq Records(e), Readers(e)' \subseteq Readers(e)
  PROVE  Cardinality(Records(e)') + Cardinality(Readers(e)') <= Cardinality(Operators)
<1>1. /\ Cardinality(Records(e)') <= Cardinality(Records(e)) /\ IsFiniteSet(Records(e)')
      /\ Cardinality(Readers(e)') <= Cardinality(Readers(e)) /\ IsFiniteSet(Readers(e)')
  BY CountsAreNumbers, FS_Subset
<1>2. Cardinality(Records(e)') \in Nat /\ Cardinality(Readers(e)') \in Nat
  BY <1>1, FS_CardinalityType
<1>3. Cardinality(Records(e)) + Cardinality(Readers(e)) <= Cardinality(Operators)
  BY DEF OnceInv
<1> QED BY <1>1, <1>2, <1>3, CountsAreNumbers

LEMMA LookOnce ==
  ASSUME IsFiniteSet(Operators), ReviewInv, OnceInv,
         NEW o \in Operators, NEW e0 \in DOMAIN entries, Review!Look(o, e0)
  PROVE  OnceInv'
<1>1. /\ releases' = releases /\ reading' = [reading EXCEPT ![o] = e0]
      /\ reading \in [Operators -> Nat]
  BY LenProperties DEF Review!Look, ReviewInv, ReviewTyped
<1>2. SUFFICES ASSUME NEW e \in Nat \ {0}
               PROVE  Cardinality(Records(e)') + Cardinality(Readers(e)') <= Cardinality(Operators)
  BY DEF OnceInv
<1>3. Records(e)' = Records(e)
  BY <1>1 DEF Records
<1>4. CASE e = e0
  <2>1. e \notin Review!Released
    BY <1>4 DEF Review!Look
  <2>2. Records(e) = {}
    BY <2>1 DEF Review!Released, Review!NoRecord, Records
  <2>3. Cardinality(Records(e)') = 0
    BY <1>3, <2>2, FS_EmptySet
  <2>4. Readers(e)' \subseteq Operators
    BY DEF Readers
  <2>5. Cardinality(Readers(e)') <= Cardinality(Operators) /\ IsFiniteSet(Readers(e)')
    BY <2>4, FS_Subset
  <2>6. Cardinality(Readers(e)') \in Nat
    BY <2>5, FS_CardinalityType
  <2> QED BY <2>3, <2>5, <2>6, CountsAreNumbers
<1>5. CASE e # e0
  <2>1. Readers(e)' \subseteq Readers(e)
    BY <1>1, <1>5 DEF Readers
  <2> QED BY <1>3, <2>1, NothingCounted
<1> QED BY <1>4, <1>5

LEMMA AppendOnce ==
  ASSUME IsFiniteSet(Operators), ReviewInv, OnceInv,
         NEW o \in Operators, Review!AppendRelease(o) \/ Review!AppendTorn(o)
  PROVE  OnceInv'
<1>1. PICK written \in {0, reading[o]} : releases' = Review!Appended(written)
  BY DEF Review!AppendRelease, Review!AppendTorn, Review!NoRecord
<1>2. /\ releases \in Seq(0..Len(entries)) /\ Len(entries) \in Nat
      /\ Len(releases) \in Nat /\ DOMAIN releases = 1..Len(releases)
      /\ reading' = [reading EXCEPT ![o] = 0] /\ reading \in [Operators -> 0..Len(entries)]
      /\ reading[o] # 0
  BY LenProperties DEF ReviewInv, ReviewTyped, Review!AppendRelease, Review!AppendTorn
<1>3. \/ /\ DOMAIN releases' = 1..(Len(releases) + 1)
         /\ \A k \in 1..Len(releases) : releases'[k] = releases[k]
         /\ releases'[Len(releases) + 1] = written
      \/ /\ DOMAIN releases' = DOMAIN releases
         /\ \A k \in DOMAIN releases : releases'[k] \in {0, releases[k]}
  <2>1. CASE complete
    <3>1. releases' = Append(releases, written) /\ written \in 0..Len(entries)
      BY <1>1, <1>2, <2>1 DEF Review!Appended
    <3>2. /\ DOMAIN releases' = 1..(Len(releases) + 1)
          /\ \A k \in 1..Len(releases) : releases'[k] = releases[k]
          /\ releases'[Len(releases) + 1] = written
      BY <3>1, <1>2
    <3> QED BY <3>2
  <2>2. CASE ~complete
    <3>1. releases' = [releases EXCEPT ![Len(releases)] = 0]
      BY <1>1, <2>2 DEF Review!Appended, Review!NoRecord
    <3> QED BY <3>1, <1>2
  <2> QED BY <2>1, <2>2
<1>4. SUFFICES ASSUME NEW e \in Nat \ {0}
               PROVE  Cardinality(Records(e)') + Cardinality(Readers(e)') <= Cardinality(Operators)
  BY DEF OnceInv
<1>5. CASE e # written
  <2>1. Records(e)' \subseteq Records(e)
    BY <1>2, <1>3, <1>5 DEF Records
  <2>2. Readers(e)' \subseteq Readers(e)
    BY <1>2 DEF Readers
  <2> QED BY <2>1, <2>2, NothingCounted
<1>6. CASE e = written
  <2>1. Records(e)' \subseteq Records(e) \union {Len(releases) + 1}
    BY <1>2, <1>3 DEF Records
  <2>2. reading[o] = e /\ o \in Readers(e) /\ Readers(e)' = Readers(e) \ {o}
    BY <1>2, <1>6 DEF Readers
  <2>3. /\ IsFiniteSet(Records(e) \union {Len(releases) + 1})
        /\ Cardinality(Records(e) \union {Len(releases) + 1}) <= Cardinality(Records(e)) + 1
    <3>1. IsFiniteSet(Records(e)) /\ Cardinality(Records(e)) \in Nat
      BY CountsAreNumbers
    <3>2. /\ IsFiniteSet(Records(e) \union {Len(releases) + 1})
          /\ Cardinality(Records(e) \union {Len(releases) + 1})
               = IF Len(releases) + 1 \in Records(e) THEN Cardinality(Records(e))
                 ELSE Cardinality(Records(e)) + 1
      BY <3>1, FS_AddElement
    <3> QED BY <3>1, <3>2
  <2>4. /\ Cardinality(Records(e)') <= Cardinality(Records(e) \union {Len(releases) + 1})
        /\ IsFiniteSet(Records(e)')
    BY <2>1, <2>3, FS_Subset
  <2>5. Cardinality(Readers(e)') = Cardinality(Readers(e)) - 1 /\ IsFiniteSet(Readers(e)')
    BY <2>2, CountsAreNumbers, FS_RemoveElement
  <2>6. /\ Cardinality(Records(e)') \in Nat /\ Cardinality(Readers(e)') \in Nat
        /\ Cardinality(Records(e) \union {Len(releases) + 1}) \in Nat
    BY <2>3, <2>4, <2>5, FS_CardinalityType
  <2>7. Cardinality(Records(e)) + Cardinality(Readers(e)) <= Cardinality(Operators)
    BY DEF OnceInv
  <2> QED BY <2>3, <2>4, <2>5, <2>6, <2>7, CountsAreNumbers
<1> QED BY <1>5, <1>6

LEMMA OnceSteps ==
  IsFiniteSet(Operators) /\ ReviewInv /\ OnceInv /\ [ProcessNext]_processVars => OnceInv'
<1> SUFFICES ASSUME IsFiniteSet(Operators), ReviewInv, OnceInv, [ProcessNext]_processVars
             PROVE  OnceInv'
  OBVIOUS
<1>1. ASSUME UNCHANGED <<releases, reading>> PROVE OnceInv'
  BY <1>1 DEF OnceInv, Records, Readers
<1>2. CASE UNCHANGED review
  BY <1>1, <1>2 DEF review
<1>3. CASE Review!Next
  <2>1. ASSUME NEW d \in Documents, NEW decision \in Review!Decisions, Review!Screen(d, decision)
        PROVE  OnceInv'
    BY <1>1, <2>1 DEF Review!Screen
  <2> QED BY <1>3, <2>1, LookOnce, AppendOnce DEF Review!Next
<1> QED BY <1>2, <1>3 DEF ProcessNext, processVars, OnLimiter, OnClient, OnIndex, OnListing, OnReview, OnChat

(* For any operators and documents, wherever an append is torn: no entry   *)
(* has more releases than there are operators.  One operator never         *)
(* releases an entry twice, and two do only if both looked before either   *)
(* appended (release, _append_release).                                    *)
THEOREM ReviewOneReleasePerOperator ==
  ASSUME IsFiniteSet(Operators)
  PROVE  ProcessSpec => []OneReleasePerOperator
<1>1. ProcessInit => OnceInv
  <2> SUFFICES ASSUME ProcessInit PROVE OnceInv
    OBVIOUS
  <2> SUFFICES ASSUME NEW e \in Nat \ {0}
               PROVE  Cardinality(Records(e)) + Cardinality(Readers(e)) <= Cardinality(Operators)
    BY DEF OnceInv
  <2>1. Records(e) = {} /\ Readers(e) = {}
    BY EmptySeq DEF ProcessInit, Review!Init, Records, Readers
  <2> QED BY <2>1, FS_EmptySet, FS_CardinalityType
<1>2. ReviewInv /\ OnceInv => OneReleasePerOperator
  <2>0. \A S : Review!Cardinality(S) = Cardinality(S)
    BY DEF Review!Cardinality, Cardinality
  <2> SUFFICES ASSUME ReviewInv, OnceInv, NEW e \in DOMAIN entries
               PROVE  Cardinality(Records(e)) <= Cardinality(Operators)
    BY <2>0, Zenon DEF OneReleasePerOperator, Review!OneReleasePerOperator, Records
  <2>1. e \in Nat \ {0}
    BY LenProperties DEF ReviewInv, ReviewTyped
  <2>2. Cardinality(Records(e)) + Cardinality(Readers(e)) <= Cardinality(Operators)
    BY <2>1 DEF OnceInv
  <2> QED BY <2>2, CountsAreNumbers
<1>3. ReviewInv /\ OnceInv /\ [ProcessNext]_processVars => OnceInv'
  BY OnceSteps
<1> QED BY <1>1, <1>2, <1>3, ReviewInit, ReviewSteps, PTL DEF ProcessSpec

-----------------------------------------------------------------------------
(* AnswerIsCurrent.  The cache has one entry of a URL, whose tag names its *)
(* body.  No two threads request one URL at a time, so that between the    *)
(* request of a thread and the end of it, the entry it asked with is the   *)
(* entry of the cache or gone: what a 304 confirms is what is returned.    *)

CacheOK(c) ==
  /\ c \in Seq(Client!Entry)
  /\ \A i \in DOMAIN c : c[i].tag = c[i].body
  /\ \A i, j \in DOMAIN c : c[i].url = c[j].url => i = j

(* The entries of other URLs are old ones. *)
OthersAreOld(c, u) ==
  \A j \in DOMAIN c : c[j].url # u => \E i \in DOMAIN cache : c[j] = cache[i]

LEMMA WithoutUrl ==
  ASSUME CacheOK(cache), NEW u
  PROVE  LET c == Client!Without(u) IN
         CacheOK(c) /\ OthersAreOld(c, u) /\ \A j \in DOMAIN c : c[j].url # u
<1> DEFINE c == Client!Without(u)
<1>1. CASE Client!Cached(u) = {}
  BY <1>1 DEF Client!Without, Client!Cached, OthersAreOld
<1>2. CASE Client!Cached(u) # {}
  <2> DEFINE i == CHOOSE i \in Client!Cached(u) : TRUE
  <2>1. i \in DOMAIN cache /\ cache[i].url = u
    BY <1>2 DEF Client!Cached
  <2>2. c = Dropped(cache, i)
    BY <1>2 DEF Client!Without, Dropped
  <2>3. cache \in Seq(Client!Entry) /\ DOMAIN cache = 1..Len(cache) /\ Len(cache) \in Nat
    BY LenProperties DEF CacheOK
  <2> HIDE DEF i, c
  <2>4. /\ c \in Seq(Client!Entry)
        /\ DOMAIN c = 1..(Len(cache) - 1)
        /\ \A k \in 1..(Len(cache) - 1) : c[k] = IF k < i THEN cache[k] ELSE cache[k + 1]
    <3>1. i \in 1..Len(cache)
      BY <2>1, <2>3
    <3> QED BY <3>1, <2>2, <2>3, DroppedElement
  <2>5. ASSUME NEW k \in DOMAIN c
        PROVE  \E j \in DOMAIN cache : /\ c[k] = cache[j] /\ j # i
                                       /\ j = IF k < i THEN k ELSE k + 1
    BY <2>1, <2>3, <2>4
  <2>6. \A k \in DOMAIN c : c[k].url # u
    BY <2>1, <2>5 DEF CacheOK
  <2>7. \A k, l \in DOMAIN c : c[k].url = c[l].url => k = l
    <3> SUFFICES ASSUME NEW k \in DOMAIN c, NEW l \in DOMAIN c, c[k].url = c[l].url PROVE k = l
      OBVIOUS
    <3>1. PICK j \in DOMAIN cache : c[k] = cache[j] /\ j # i /\ j = IF k < i THEN k ELSE k + 1
      BY <2>5
    <3>2. PICK m \in DOMAIN cache : c[l] = cache[m] /\ m # i /\ m = IF l < i THEN l ELSE l + 1
      BY <2>5
    <3>3. j = m
      BY <3>1, <3>2 DEF CacheOK
    <3>4. k \in Nat /\ l \in Nat /\ i \in Nat
      BY <2>1, <2>3, <2>4
    <3> QED BY <3>1, <3>2, <3>3, <3>4
  <2> QED BY <2>4, <2>5, <2>6, <2>7 DEF CacheOK, OthersAreOld, c
<1> QED BY <1>1, <1>2

LEMMA RememberingUrl ==
  ASSUME CacheOK(cache), NEW u \in Urls, NEW body \in Versions, NEW tag \in {Client!Nothing, body}
  PROVE  LET c == Client!Remembering(u, tag, body) IN CacheOK(c) /\ OthersAreOld(c, u)
<1> DEFINE c == Client!Remembering(u, tag, body)
           old == Client!Without(u)
           entry == [url |-> u, tag |-> tag, body |-> body]
           kept == Append(old, entry)
<1>1. CacheOK(old) /\ OthersAreOld(old, u) /\ \A j \in DOMAIN old : old[j].url # u
  BY WithoutUrl
<1>2. CASE tag = Client!Nothing
  BY <1>1, <1>2 DEF Client!Remembering
<1>3. CASE tag # Client!Nothing
  <2>1. entry \in Client!Entry /\ entry.url = u /\ entry.tag = entry.body
    BY <1>3 DEF Client!Entry
  <2>2. c = IF Len(kept) > MaxEntries THEN Tail(kept) ELSE kept
    BY <1>3 DEF Client!Remembering
  <2>3. old \in Seq(Client!Entry) /\ DOMAIN old = 1..Len(old) /\ Len(old) \in Nat
    BY <1>1, LenProperties DEF CacheOK
  <2> HIDE DEF old, entry, c
  <2>4. /\ kept \in Seq(Client!Entry) /\ Len(kept) = Len(old) + 1
        /\ DOMAIN kept = 1..(Len(old) + 1)
        /\ \A k \in 1..Len(old) : kept[k] = old[k]
        /\ kept[Len(old) + 1] = entry
    BY <2>1, <2>3, AppendProperties, LenProperties
  <2> HIDE DEF kept
  <2>5. CacheOK(kept)
    <3>1. ASSUME NEW k \in DOMAIN kept PROVE kept[k].tag = kept[k].body
      <4>1. k \in 1..Len(old) \/ k = Len(old) + 1
        BY <2>3, <2>4
      <4> QED BY <4>1, <1>1, <2>1, <2>3, <2>4 DEF CacheOK
    <3>2. ASSUME NEW k \in DOMAIN kept, NEW l \in DOMAIN kept, kept[k].url = kept[l].url PROVE k = l
      <4>1. (k \in 1..Len(old) \/ k = Len(old) + 1) /\ (l \in 1..Len(old) \/ l = Len(old) + 1)
        BY <2>3, <2>4
      <4> QED BY <3>2, <4>1, <1>1, <2>1, <2>3, <2>4 DEF CacheOK
    <3> QED BY <2>4, <3>1, <3>2 DEF CacheOK
  <2>6. OthersAreOld(kept, u)
    <3> SUFFICES ASSUME NEW k \in DOMAIN kept, kept[k].url # u
                 PROVE  \E i \in DOMAIN cache : kept[k] = cache[i]
      BY DEF OthersAreOld
    <3>1. k \in 1..Len(old)
      BY <2>1, <2>3, <2>4
    <3> QED BY <3>1, <1>1, <2>3, <2>4 DEF OthersAreOld
  <2>7. CASE Len(kept) > MaxEntries
    <3>1. /\ Tail(kept) \in Seq(Client!Entry)
          /\ DOMAIN Tail(kept) = 1..Len(old)
          /\ \A k \in 1..Len(old) : Tail(kept)[k] = kept[k + 1] /\ k + 1 \in DOMAIN kept
      <4>1. kept # <<>>
        BY <2>3, <2>4, EmptySeq
      <4>2. /\ Tail(kept) \in Seq(Client!Entry) /\ Len(Tail(kept)) = Len(kept) - 1
            /\ \A k \in 1..Len(Tail(kept)) : Tail(kept)[k] = kept[k + 1]
        BY <4>1, <2>4, HeadTailProperties
      <4>3. Len(kept) - 1 = Len(old)
        BY <2>3, <2>4
      <4> QED BY <4>2, <4>3, <2>3, <2>4, LenProperties
    <3>2. c = Tail(kept)
      BY <2>2, <2>7
    <3>3. /\ \A k \in DOMAIN c : c[k].tag = c[k].body
          /\ \A k, l \in DOMAIN c : c[k].url = c[l].url => k = l
      <4>1. \A k \in DOMAIN c : c[k] = kept[k + 1] /\ k + 1 \in DOMAIN kept
        BY <3>1, <3>2
      <4>2. \A k, l \in DOMAIN c : k + 1 = l + 1 => k = l
        BY <3>1, <3>2, <2>3
      <4> QED BY <4>1, <4>2, <2>5 DEF CacheOK
    <3>4. OthersAreOld(c, u)
      BY <3>1, <3>2, <2>6 DEF OthersAreOld
    <3> QED BY <3>1, <3>2, <3>3, <3>4 DEF CacheOK, c
  <2>8. CASE ~(Len(kept) > MaxEntries)
    BY <2>2, <2>8, <2>5, <2>6 DEF c
  <2> QED BY <2>7, <2>8
<1> QED BY <1>2, <1>3

Flying == {"ready", "sent", "answered"}

(* What a request may rely on; known is what GitHub had since it began.    *)
RequestOK(r, known) ==
  /\ r.at \in Flying => remote[r.url] \in known
  /\ r.at \in {"sent", "answered"} /\ r.asked # Client!Nothing =>
       \A i \in DOMAIN cache : cache[i].url = r.url => cache[i].tag = r.asked
  /\ r.at = "answered" /\ r.status = "304" =>
       /\ r.asked # Client!Nothing /\ r.asked \in known
       /\ r.tag \in {Client!Nothing, r.asked}
  /\ r.at = "answered" /\ r.status = "200" =>
       /\ r.body # Client!Nothing /\ r.body \in known
       /\ r.tag \in {Client!Nothing, r.body}
  /\ r.at = "ok" => r.body \in known

OneThreadPerUrl ==
  \A s, t \in Threads :
    s # t /\ req[s].at \in Flying /\ req[t].at \in Flying => req[s].url # req[t].url

ClientInv ==
  /\ Client!TypeOK
  /\ CacheOK(cache)
  /\ OneThreadPerUrl
  /\ \A t \in Threads : RequestOK(req[t], seen[t])

LEMMA ClientInitially == ProcessInit => ClientInv
<1> SUFFICES ASSUME Client!Init PROVE ClientInv
  BY DEF ProcessInit
<1> USE DEF Client!Nothing
<1>1. PICK u \in Urls :
        req = [t \in Threads |-> [at |-> "idle", url |-> u, tries |-> 0, asked |-> 0,
                                 status |-> "none", tag |-> 0, body |-> 0]]
  BY DEF Client!Init
<1>2. Client!TypeOK
  BY <1>1, EmptySeq DEF Client!Init, Client!TypeOK, Client!Request, Client!Status
<1>3. CacheOK(cache)
  BY EmptySeq DEF Client!Init, CacheOK
<1>4. OneThreadPerUrl /\ \A t \in Threads : RequestOK(req[t], seen[t])
  BY <1>1 DEF OneThreadPerUrl, RequestOK, Flying
<1> QED BY <1>2, <1>3, <1>4 DEF ClientInv

(* One request changes, and stays a request for the same URL in flight. *)
LEMMA RequestMoves ==
  ASSUME ClientInv, NEW t \in Threads, NEW r \in Client!Request,
         req' = [req EXCEPT ![t] = r], UNCHANGED <<remote, cache, seen, changes>>, faults' \in Nat,
         req[t].at \in Flying, r.at \in Flying, r.url = req[t].url, RequestOK(r, seen[t])
  PROVE  ClientInv'
<1>1. /\ req'[t] = r /\ \A s \in Threads : s # t => req'[s] = req[s]
      /\ req' \in [Threads -> Client!Request]
  BY DEF ClientInv, Client!TypeOK
<1>2. Client!TypeOK' /\ CacheOK(cache)'
  BY <1>1 DEF ClientInv, Client!TypeOK, CacheOK
<1>3. OneThreadPerUrl'
  BY <1>1 DEF ClientInv, OneThreadPerUrl
<1>4. ASSUME NEW s \in Threads PROVE RequestOK(req[s], seen[s])'
  BY <1>1 DEF ClientInv, RequestOK
<1> QED BY <1>2, <1>3, <1>4 DEF ClientInv

(* A request ends, and touches no entry of another URL. *)
LEMMA RequestEnds ==
  ASSUME ClientInv, NEW t \in Threads, req[t].at \in Flying,
         NEW outcome \in {"ok", "failed"}, NEW body \in Versions \union {Client!Nothing},
         Client!Finish(t, outcome, body), outcome = "ok" => body \in seen[t],
         CacheOK(cache'), OthersAreOld(cache', req[t].url)
  PROVE  ClientInv'
<1> USE DEF Client!Nothing
<1> DEFINE r == Client!Returning(t, outcome, body)
<1>1. r \in Client!Request /\ r.at = outcome /\ r.body = body
  BY DEF ClientInv, Client!TypeOK, Client!Returning, Client!Request, Client!Status
<1>2. /\ UNCHANGED <<remote, seen, changes, faults>>
      /\ req' = [req EXCEPT ![t] = r]
  BY DEF Client!Finish
<1> HIDE DEF r
<1>3. /\ req'[t] = r /\ \A s \in Threads : s # t => req'[s] = req[s]
      /\ req' \in [Threads -> Client!Request]
  BY <1>1, <1>2 DEF ClientInv, Client!TypeOK
<1>4. Client!TypeOK'
  BY <1>2, <1>3 DEF ClientInv, Client!TypeOK, CacheOK
<1>5. OneThreadPerUrl'
  BY <1>1, <1>3 DEF ClientInv, OneThreadPerUrl, Flying
<1>6. ASSUME NEW s \in Threads PROVE RequestOK(req[s], seen[s])'
  <2>1. CASE s = t
    BY <2>1, <1>1, <1>2, <1>3 DEF RequestOK, Flying
  <2>2. CASE s # t
    <3>1. req'[s] = req[s] /\ seen'[s] = seen[s] /\ remote' = remote /\ RequestOK(req[s], seen[s])
      BY <2>2, <1>2, <1>3 DEF ClientInv
    <3>2. ASSUME req[s].at \in {"sent", "answered"}, req[s].asked # 0,
                 NEW j \in DOMAIN cache', cache'[j].url = req[s].url
          PROVE  cache'[j].tag = req[s].asked
      <4>1. req[s].url # req[t].url
        BY <2>2, <3>2 DEF ClientInv, OneThreadPerUrl, Flying
      <4>2. PICK i \in DOMAIN cache : cache'[j] = cache[i]
        BY <3>2, <4>1 DEF OthersAreOld
      <4> QED BY <3>1, <3>2, <4>2 DEF RequestOK
    <3> QED BY <3>1, <3>2 DEF RequestOK
  <2> QED BY <2>1, <2>2
<1> QED BY <1>4, <1>5, <1>6 DEF ClientInv

LEMMA BeginKeepsClient ==
  ASSUME ClientInv, NEW t \in Threads, NEW u \in Urls, Client!Begin(t, u)
  PROVE  ClientInv'
<1> USE DEF Client!Nothing
<1> DEFINE r == [at |-> "ready", url |-> u, tries |-> 0, asked |-> 0,
                 status |-> "none", tag |-> 0, body |-> 0]
<1>1. /\ r \in Client!Request /\ r.at = "ready" /\ r.url = u
      /\ req' = [req EXCEPT ![t] = r] /\ seen' = [seen EXCEPT ![t] = {remote[u]}]
      /\ UNCHANGED <<remote, cache, changes, faults>>
      /\ \A s \in Threads : req[s].at \in Flying => req[s].url # u
  BY DEF Client!Begin, Client!Request, Client!Status, Client!InFlight, Flying
<1> HIDE DEF r
<1>2. /\ req'[t] = r /\ \A s \in Threads : s # t => req'[s] = req[s]
      /\ req' \in [Threads -> Client!Request]
      /\ seen'[t] = {remote[u]} /\ \A s \in Threads : s # t => seen'[s] = seen[s]
      /\ seen' \in [Threads -> SUBSET (Versions \union {0})]
  BY <1>1 DEF ClientInv, Client!TypeOK
<1>3. Client!TypeOK' /\ CacheOK(cache)'
  BY <1>1, <1>2 DEF ClientInv, Client!TypeOK, CacheOK
<1>4. OneThreadPerUrl'
  BY <1>1, <1>2 DEF ClientInv, OneThreadPerUrl
<1>5. ASSUME NEW s \in Threads PROVE RequestOK(req[s], seen[s])'
  BY <1>1, <1>2 DEF ClientInv, RequestOK
<1> QED BY <1>3, <1>4, <1>5 DEF ClientInv

LEMMA ChangeKeepsClient ==
  ASSUME ClientInv, NEW u \in Urls, Client!Change(u)
  PROVE  ClientInv'
<1> USE DEF Client!Nothing
<1>1. PICK v \in Versions \union {0} :
        /\ remote' = [remote EXCEPT ![u] = v]
        /\ seen' = [t \in Threads |-> IF Client!InFlight(t) /\ req[t].url = u
                                      THEN seen[t] \union {v} ELSE seen[t]]
  BY DEF Client!Change
<1>2. changes' = changes + 1 /\ UNCHANGED <<cache, req, faults>>
  BY DEF Client!Change
<1>3. Client!TypeOK' /\ CacheOK(cache)' /\ OneThreadPerUrl'
  BY <1>1, <1>2 DEF ClientInv, Client!TypeOK, CacheOK, OneThreadPerUrl
<1>4. ASSUME NEW s \in Threads PROVE RequestOK(req[s], seen[s])'
  <2>1. RequestOK(req[s], seen[s]) /\ req'[s] = req[s] /\ cache' = cache
    BY <1>2 DEF ClientInv
  <2>2. seen[s] \subseteq seen'[s]
    BY <1>1
  <2>3. ASSUME req[s].at \in Flying PROVE remote'[req[s].url] \in seen'[s]
    BY <2>1, <2>2, <2>3, <1>1 DEF ClientInv, Client!TypeOK, RequestOK, Flying, Client!InFlight,
                                  Client!Request
  <2> QED BY <2>1, <2>2, <2>3 DEF RequestOK
<1> QED BY <1>3, <1>4 DEF ClientInv

LEMMA AskingKeepsClient ==
  ASSUME ClientInv, NEW t \in Threads,
         Client!Send(t) \/ Client!Answer(t) \/ Client!Fault(t) \/ Client!Retry(t)
  PROVE  ClientInv'
<1> USE DEF Client!Nothing
<1>0. /\ req[t] \in Client!Request /\ req \in [Threads -> Client!Request]
      /\ RequestOK(req[t], seen[t]) /\ CacheOK(cache)
      /\ faults \in Nat /\ remote \in [Urls -> Versions \union {0}]
  BY DEF ClientInv, Client!TypeOK
<1>1. CASE Client!Send(t)
  <2>1. PICK tag \in IF Client!Cached(req[t].url) = {} THEN {0}
                      ELSE {cache[i].tag : i \in Client!Cached(req[t].url)} :
          req' = [req EXCEPT ![t].at = "sent", ![t].asked = tag]
    BY <1>1 DEF Client!Send
  <2> DEFINE r == [req[t] EXCEPT !.at = "sent", !.asked = tag]
  <2>2. req' = [req EXCEPT ![t] = r]
    BY <2>1, <1>0
  <2>3. tag # 0 => \A i \in DOMAIN cache : cache[i].url = req[t].url => cache[i].tag = tag
    BY <2>1, <1>0 DEF Client!Cached, CacheOK
  <2>4. tag \in Versions \union {0}
    <3>1. \A i \in DOMAIN cache : cache[i] \in Client!Entry
      BY <1>0, LenProperties DEF CacheOK
    <3> QED BY <2>1, <3>1 DEF Client!Cached, Client!Entry
  <2>5. /\ r \in Client!Request /\ r.at = "sent" /\ r.url = req[t].url /\ r.asked = tag
        /\ req[t].at = "ready"
    BY <1>0, <1>1, <2>4 DEF Client!Request, Client!Send
  <2> HIDE DEF r
  <2>6. RequestOK(r, seen[t])
    BY <1>0, <2>3, <2>5 DEF RequestOK, Flying
  <2>7. UNCHANGED <<remote, cache, seen, changes>> /\ faults' \in Nat
    BY <1>0, <1>1 DEF Client!Send
  <2> QED BY <2>2, <2>5, <2>6, <2>7, RequestMoves DEF Flying
<1>2. CASE Client!Answer(t)
  <2> DEFINE now == remote[req[t].url]
  <2>1. PICK tag \in {0, now} :
          req' = [req EXCEPT ![t] =
                   CASE now = 0 -> [@ EXCEPT !.at = "answered", !.status = "404"]
                     [] now # 0 /\ now = req[t].asked ->
                          [@ EXCEPT !.at = "answered", !.status = "304", !.tag = tag]
                     [] OTHER ->
                          [@ EXCEPT !.at = "answered", !.status = "200", !.tag = tag, !.body = now]]
    BY <1>2 DEF Client!Answer
  <2>2. now \in Versions \union {0} /\ req[t].at = "sent"
    BY <1>0, <1>2 DEF Client!Answer, Client!Request
  <2>3. now \in seen[t]
    BY <1>0, <2>2 DEF RequestOK, Flying
  <2> HIDE DEF now
  <2>4. CASE now = 0
    <3> DEFINE r == [req[t] EXCEPT !.at = "answered", !.status = "404"]
    <3>1. req' = [req EXCEPT ![t] = r]
      BY <2>1, <2>4
    <3>2. /\ r \in Client!Request /\ r.at = "answered" /\ r.url = req[t].url
          /\ r.status = "404" /\ r.asked = req[t].asked
      BY <1>0 DEF Client!Request, Client!Status
    <3> HIDE DEF r
    <3>3. RequestOK(r, seen[t])
      BY <1>0, <2>2, <3>2 DEF RequestOK, Flying
    <3>4. UNCHANGED <<remote, cache, seen, changes>> /\ faults' \in Nat
      BY <1>0, <1>2 DEF Client!Answer
    <3> QED BY <2>2, <3>1, <3>2, <3>3, <3>4, RequestMoves DEF Flying
  <2>5. CASE now # 0 /\ now = req[t].asked
    <3> DEFINE r == [req[t] EXCEPT !.at = "answered", !.status = "304", !.tag = tag]
    <3>1. req' = [req EXCEPT ![t] = r]
      BY <2>1, <2>5
    <3>2. /\ r \in Client!Request /\ r.at = "answered" /\ r.url = req[t].url
          /\ r.status = "304" /\ r.asked = req[t].asked /\ r.tag = tag
      BY <1>0, <2>1, <2>2 DEF Client!Request, Client!Status
    <3> HIDE DEF r
    <3>3. RequestOK(r, seen[t])
      BY <1>0, <2>1, <2>2, <2>3, <2>5, <3>2 DEF RequestOK, Flying
    <3>4. UNCHANGED <<remote, cache, seen, changes>> /\ faults' \in Nat
      BY <1>0, <1>2 DEF Client!Answer
    <3> QED BY <2>2, <3>1, <3>2, <3>3, <3>4, RequestMoves DEF Flying
  <2>6. CASE now # 0 /\ now # req[t].asked
    <3> DEFINE r == [req[t] EXCEPT !.at = "answered", !.status = "200", !.tag = tag, !.body = now]
    <3>1. req' = [req EXCEPT ![t] = r]
      BY <2>1, <2>6
    <3>2. /\ r \in Client!Request /\ r.at = "answered" /\ r.url = req[t].url
          /\ r.status = "200" /\ r.asked = req[t].asked /\ r.tag = tag /\ r.body = now
      BY <1>0, <2>1, <2>2 DEF Client!Request, Client!Status
    <3> HIDE DEF r
    <3>3. RequestOK(r, seen[t])
      BY <1>0, <2>1, <2>2, <2>3, <2>6, <3>2 DEF RequestOK, Flying
    <3>4. UNCHANGED <<remote, cache, seen, changes>> /\ faults' \in Nat
      BY <1>0, <1>2 DEF Client!Answer
    <3> QED BY <2>2, <3>1, <3>2, <3>3, <3>4, RequestMoves DEF Flying
  <2> QED BY <2>4, <2>5, <2>6
<1>3. CASE Client!Fault(t)
  <2>1. PICK s \in {"limited", "refused", "lost"} :
          req' = [req EXCEPT ![t].at = "answered", ![t].status = s]
    BY <1>3 DEF Client!Fault
  <2> DEFINE r == [req[t] EXCEPT !.at = "answered", !.status = s]
  <2>2. req' = [req EXCEPT ![t] = r]
    BY <2>1, <1>0
  <2>3. /\ r \in Client!Request /\ r.at = "answered" /\ r.url = req[t].url
        /\ r.status = s /\ r.asked = req[t].asked /\ req[t].at = "sent"
    BY <1>0, <1>3 DEF Client!Request, Client!Status, Client!Fault
  <2> HIDE DEF r
  <2>4. RequestOK(r, seen[t])
    BY <1>0, <2>3 DEF RequestOK, Flying
  <2>5. UNCHANGED <<remote, cache, seen, changes>> /\ faults' \in Nat
    BY <1>0, <1>3 DEF Client!Fault
  <2> QED BY <2>2, <2>3, <2>4, <2>5, RequestMoves DEF Flying
<1>4. CASE Client!Retry(t)
  <2> DEFINE r == [req[t] EXCEPT !.at = "ready", !.status = "none", !.tries = @ + 1]
  <2>1. req' = [req EXCEPT ![t] = r]
    BY <1>0, <1>4 DEF Client!Retry
  <2>2. r \in Client!Request /\ r.at = "ready" /\ r.url = req[t].url /\ req[t].at = "answered"
    BY <1>0, <1>4 DEF Client!Request, Client!Status, Client!Retry
  <2> HIDE DEF r
  <2>3. RequestOK(r, seen[t])
    BY <1>0, <2>2 DEF RequestOK, Flying
  <2>4. UNCHANGED <<remote, cache, seen, changes>> /\ faults' \in Nat
    BY <1>0, <1>4 DEF Client!Retry
  <2> QED BY <2>1, <2>2, <2>3, <2>4, RequestMoves DEF Flying
<1> QED BY <1>1, <1>2, <1>3, <1>4

LEMMA ReceivingKeepsClient ==
  ASSUME ClientInv, NEW t \in Threads,
         \/ Client!ReceiveNew(t) \/ Client!ReceiveNotModified(t) \/ Client!ReceiveGone(t)
         \/ Client!ReceiveMissing(t) \/ Client!GiveUp(t)
  PROVE  ClientInv'
<1> USE DEF Client!Nothing
<1>0. /\ req[t] \in Client!Request /\ RequestOK(req[t], seen[t]) /\ CacheOK(cache)
      /\ req[t].url \in Urls /\ req[t].body \in Versions \union {0}
      /\ req[t].at = "answered"
  BY DEF ClientInv, Client!TypeOK, Client!Request, Client!ReceiveNew, Client!ReceiveNotModified,
         Client!ReceiveGone, Client!ReceiveMissing, Client!GiveUp
<1>1. CASE Client!ReceiveNew(t)
  <2>1. /\ cache' = Client!Remembering(req[t].url, req[t].tag, req[t].body)
        /\ Client!Finish(t, "ok", req[t].body) /\ req[t].status = "200"
    BY <1>1 DEF Client!ReceiveNew
  <2>2. /\ req[t].body \in Versions /\ req[t].tag \in {0, req[t].body}
        /\ req[t].body \in seen[t]
    BY <1>0, <2>1 DEF RequestOK
  <2>3. CacheOK(cache') /\ OthersAreOld(cache', req[t].url)
    BY <1>0, <2>1, <2>2, RememberingUrl
  <2> QED BY <1>0, <2>1, <2>2, <2>3, RequestEnds DEF Flying
<1>2. CASE Client!ReceiveNotModified(t)
  <2>1. PICK i \in Client!Cached(req[t].url) :
          /\ cache' = Client!Remembering(req[t].url,
                        IF req[t].tag # 0 THEN req[t].tag ELSE cache[i].tag, cache[i].body)
          /\ Client!Finish(t, "ok", cache[i].body)
    BY <1>2 DEF Client!ReceiveNotModified
  <2>2. req[t].status = "304" /\ i \in DOMAIN cache /\ cache[i].url = req[t].url
    BY <1>2 DEF Client!ReceiveNotModified, Client!Cached
  <2>3. cache[i] \in Client!Entry
    BY <1>0, <2>2, LenProperties DEF CacheOK
  <2>4. cache[i].tag = req[t].asked /\ req[t].asked \in seen[t] /\ req[t].tag \in {0, req[t].asked}
    BY <1>0, <2>2 DEF RequestOK
  <2>5. cache[i].body \in Versions /\ cache[i].body = req[t].asked
    BY <1>0, <2>2, <2>3, <2>4 DEF CacheOK, Client!Entry
  <2>6. PICK tag \in {0, cache[i].body} : cache' = Client!Remembering(req[t].url, tag, cache[i].body)
    BY <2>1, <2>4, <2>5
  <2>7. CacheOK(cache') /\ OthersAreOld(cache', req[t].url)
    BY <1>0, <2>5, <2>6, RememberingUrl
  <2> QED BY <1>0, <2>1, <2>4, <2>5, <2>7, RequestEnds DEF Flying
<1>3. CASE Client!ReceiveGone(t) \/ Client!GiveUp(t)
  <2>1. cache' = cache /\ Client!Finish(t, "failed", 0)
    BY <1>3 DEF Client!ReceiveGone, Client!GiveUp
  <2>2. CacheOK(cache') /\ OthersAreOld(cache', req[t].url)
    BY <1>0, <2>1 DEF OthersAreOld
  <2> QED BY <1>0, <2>1, <2>2, RequestEnds DEF Flying
<1>4. CASE Client!ReceiveMissing(t)
  <2>1. cache' = Client!Without(req[t].url) /\ Client!Finish(t, "failed", 0)
    BY <1>4 DEF Client!ReceiveMissing
  <2>2. CacheOK(cache') /\ OthersAreOld(cache', req[t].url)
    BY <1>0, <2>1, WithoutUrl
  <2> QED BY <1>0, <2>1, <2>2, RequestEnds DEF Flying
<1> QED BY <1>1, <1>2, <1>3, <1>4

LEMMA ClientSteps == ClientInv /\ [ProcessNext]_processVars => ClientInv'
<1> SUFFICES ASSUME ClientInv, [ProcessNext]_processVars PROVE ClientInv'
  OBVIOUS
<1>1. CASE UNCHANGED client
  BY <1>1 DEF client, ClientInv, Client!TypeOK, CacheOK, OneThreadPerUrl, RequestOK
<1>2. CASE Client!Next
  <2>1. ASSUME NEW t \in Threads, NEW u \in Urls, Client!Begin(t, u) PROVE ClientInv'
    BY <2>1, BeginKeepsClient
  <2>2. ASSUME NEW u \in Urls, Client!Change(u) PROVE ClientInv'
    BY <2>2, ChangeKeepsClient
  <2> QED BY <1>2, <2>1, <2>2, AskingKeepsClient, ReceivingKeepsClient DEF Client!Next
<1> QED BY <1>1, <1>2 DEF ProcessNext, processVars, OnLimiter, OnClient, OnIndex, OnListing, OnReview, OnChat

(* For any threads, URLs, versions, cache size and number of retries, as   *)
(* long as no two threads request one URL at a time: whatever _request     *)
(* returns, sent, repeated or reused, is what GitHub had at some moment    *)
(* between the beginning and the end of the request.                       *)
THEOREM ClientAnswerIsCurrent == ProcessSpec => []AnswerIsCurrent
<1>1. ClientInv => AnswerIsCurrent
  BY DEF ClientInv, RequestOK, AnswerIsCurrent, Client!AnswerIsCurrent
<1> QED BY <1>1, ClientInitially, ClientSteps, PTL DEF ProcessSpec

-----------------------------------------------------------------------------
(* IndexIsAligned and AnswersFromTheStore.  A search holds the lock from   *)
(* its look at the store to its answer, and every stage in between has     *)
(* left the lists in a known shape.                                        *)
Aligned ==
  /\ tokens = chunks
  /\ indexed = Len(chunks)
  /\ source = "open" => rows = chunks
  /\ \A f \in DOMAIN filters : filters[f] = Index!Eligible(f)

StageOK(t) ==
  /\ at[t] # "idle" <=> owner = t
  /\ at[t] = "look" => (indexed >= 0 => Aligned)
  /\ at[t] = "extend" => /\ Aligned /\ filters = Index!NoFilters
                         /\ Len(snap[t]) > indexed /\ SubSeq(snap[t], 1, indexed) = chunks
  /\ at[t] = "rebuild" => filters = Index!NoFilters
  /\ at[t] = "fill" => filters = Index!NoFilters /\ chunks = snap[t] /\ tokens = <<>>
  /\ at[t] = "score" => Aligned /\ chunks = snap[t]

IndexInv ==
  /\ Index!TypeOK
  /\ IndexIsAligned
  /\ \A t \in Threads : StageOK(t)
  /\ AnswersFromTheStore

LEMMA SameCardinality == \A S : Index!Cardinality(S) = Cardinality(S)
  BY DEF Index!Cardinality, Cardinality

LEMMA IndexInitially == ProcessInit => IndexInv
<1> SUFFICES ASSUME Index!Init PROVE IndexInv
  BY DEF ProcessInit
<1>0. Nobody \notin Threads
  BY ProcessAssumption DEF ChatServiceAssumption
<1>1. Index!TypeOK
  BY EmptySeq DEF Index!Init, Index!TypeOK, Index!NoFilters, Index!NoResult
<1>2. IndexIsAligned
  BY DEF Index!Init, IndexIsAligned, Index!IndexIsAligned
<1>3. \A t \in Threads : StageOK(t)
  BY <1>0 DEF Index!Init, StageOK
<1>4. AnswersFromTheStore
  BY DEF Index!Init, Index!NoResult, AnswersFromTheStore, Index!AnswersFromTheStore
<1> QED BY <1>1, <1>2, <1>3, <1>4 DEF IndexInv

(* An empty result leaves nothing out. *)
LEMMA NoResultIsRight ==
  ASSUME result' = Index!NoResult PROVE AnswersFromTheStore'
  BY DEF Index!NoResult, AnswersFromTheStore, Index!AnswersFromTheStore

LEMMA StoreKeepsIndex ==
  ASSUME IndexInv, Index!StoreChanges PROVE IndexInv'
<1>0. store \in Seq(Chunks) /\ Len(store) \in Nat /\ DOMAIN store = 1..Len(store)
  BY LenProperties DEF IndexInv, Index!TypeOK
<1>1. ASSUME NEW s \in Seq(Chunks), NEW c \in Chunks PROVE Append(s, c) \in Seq(Chunks)
  BY AppendProperties
<1>2. ASSUME NEW i \in DOMAIN store
      PROVE  SubSeq(store, 1, i - 1) \o Index!After(store, i) \in Seq(Chunks)
  <2>1. Dropped(store, i) \in Seq(Chunks)
    BY <1>0, DroppedElement
  <2> QED BY <2>1 DEF Dropped, Index!After
<1>3. store' \in Seq(Chunks)
  BY <1>0, <1>1, <1>2 DEF Index!StoreChanges
<1>4. /\ UNCHANGED <<chunks, tokens, indexed, filters, rows, source, owner, at, snap>>
      /\ result' = Index!NoResult
  BY DEF Index!StoreChanges, Index!indexVars
<1>5. Index!TypeOK'
  BY <1>3, <1>4 DEF IndexInv, Index!TypeOK, Index!NoResult
<1>6. IndexIsAligned' /\ \A t \in Threads : StageOK(t)'
  BY <1>4 DEF IndexInv, IndexIsAligned, Index!IndexIsAligned, StageOK, Aligned, Index!Eligible
<1> QED BY <1>3, <1>4, <1>5, <1>6, NoResultIsRight DEF IndexInv

(* A step of the thread that holds the lock, up to its answer. *)
LEMMA StageMoves ==
  ASSUME IndexInv, NEW t \in Threads, at[t] # "idle", NEW to, to # "idle",
         at' = [at EXCEPT ![t] = to], owner' = owner, store' = store, result' = result,
         \A s \in Threads : s # t => snap'[s] = snap[s],
         Index!TypeOK', StageOK(t)'
  PROVE  IndexInv'
<1>0. Nobody \notin Threads
  BY ProcessAssumption DEF ChatServiceAssumption
<1>1. owner = t /\ \A s \in Threads : s # t => at[s] = "idle"
  BY DEF IndexInv, StageOK
<1>2. IndexIsAligned'
  BY <1>0, <1>1 DEF IndexIsAligned, Index!IndexIsAligned
<1>3. AnswersFromTheStore'
  BY DEF IndexInv, AnswersFromTheStore, Index!AnswersFromTheStore
<1>4. ASSUME NEW s \in Threads, s # t PROVE StageOK(s)'
  <2>1. at'[s] = "idle" /\ owner' # s /\ snap'[s] = snap[s]
    BY <1>1, <1>4 DEF IndexInv, Index!TypeOK
  <2> QED BY <2>1 DEF StageOK
<1> QED BY <1>2, <1>3, <1>4 DEF IndexInv

LEMMA TakeKeepsIndex ==
  ASSUME IndexInv, NEW t \in Threads, Index!Take(t) PROVE IndexInv'
<1>1. /\ owner = Nobody /\ owner' = t /\ at[t] = "idle" /\ at' = [at EXCEPT ![t] = "look"]
      /\ result' = Index!NoResult
      /\ UNCHANGED <<store, chunks, tokens, indexed, filters, rows, source, snap>>
  BY DEF Index!Take, Index!Goes, Index!indexVars
<1>2. Index!TypeOK'
  BY <1>1 DEF IndexInv, Index!TypeOK, Index!NoResult
<1>3. IndexIsAligned'
  BY <1>1, ProcessAssumption DEF IndexIsAligned, Index!IndexIsAligned, ChatServiceAssumption
<1>4. ASSUME NEW s \in Threads PROVE StageOK(s)'
  <2>2. at[s] = "idle"
    BY <1>1, ProcessAssumption DEF IndexInv, StageOK, ChatServiceAssumption
  <2>3. indexed >= 0 => Aligned
    BY <1>1 DEF IndexInv, IndexIsAligned, Index!IndexIsAligned, Aligned
  <2>4. indexed' >= 0 => Aligned'
    BY <1>1, <2>3 DEF Aligned, Index!Eligible
  <2>5. at'[s] = IF s = t THEN "look" ELSE "idle"
    BY <1>1, <2>2 DEF IndexInv, Index!TypeOK
  <2> QED BY <1>1, <2>4, <2>5 DEF StageOK
<1> QED BY <1>1, <1>2, <1>3, <1>4, NoResultIsRight DEF IndexInv

LEMMA LookKeepsIndex ==
  ASSUME IndexInv, NEW t \in Threads, Index!Look(t) PROVE IndexInv'
<1>0. /\ at[t] = "look" /\ snap' = [snap EXCEPT ![t] = store]
      /\ UNCHANGED <<store, chunks, tokens, indexed, rows, source, owner, result>>
      /\ \/ Index!Current(store) /\ at' = [at EXCEPT ![t] = "score"] /\ filters' = filters
         \/ /\ ~Index!Current(store) /\ filters' = Index!NoFilters
            /\ at' = [at EXCEPT ![t] = IF Index!IsExtension(store) THEN "extend" ELSE "rebuild"]
  BY DEF Index!Look, Index!Goes
<1>1. /\ StageOK(t) /\ DOMAIN at = Threads /\ snap \in [Threads -> Seq(Chunks)]
      /\ store \in Seq(Chunks) /\ indexed \in Nat \union {-1}
  BY DEF IndexInv, Index!TypeOK
<1>2. snap'[t] = store /\ (\A s \in Threads : s # t => snap'[s] = snap[s])
  BY <1>0, <1>1
<1>3. Index!TypeOK'
  <2>1. DOMAIN filters' \subseteq SUBSET Repositories
    BY <1>0 DEF IndexInv, Index!TypeOK, Index!NoFilters
  <2> QED BY <1>0, <1>1, <2>1 DEF IndexInv, Index!TypeOK
<1>4. owner = t
  BY <1>0, <1>1 DEF StageOK
<1>5. CASE Index!Current(store)
  <2>1. at' = [at EXCEPT ![t] = "score"] /\ at'[t] = "score" /\ filters' = filters
    BY <1>0, <1>1, <1>5
  <2>2. Aligned /\ chunks = store
    <3>1. indexed = Len(store) /\ chunks = store /\ Len(store) \in Nat
      BY <1>1, <1>5, LenProperties DEF Index!Current
    <3> QED BY <3>1, <1>0, <1>1 DEF StageOK
  <2>3. Aligned'
    BY <1>0, <2>1, <2>2 DEF Aligned, Index!Eligible
  <2>4. StageOK(t)'
    BY <1>0, <1>2, <1>4, <2>1, <2>2, <2>3 DEF StageOK
  <2> QED BY <1>0, <1>2, <1>3, <2>1, <2>4, StageMoves
<1>6. CASE ~Index!Current(store) /\ Index!IsExtension(store)
  <2>1. at' = [at EXCEPT ![t] = "extend"] /\ at'[t] = "extend" /\ filters' = Index!NoFilters
    BY <1>0, <1>1, <1>6
  <2>2. indexed >= 0 /\ Len(store) > indexed /\ SubSeq(store, 1, indexed) = chunks
    BY <1>6 DEF Index!IsExtension
  <2>3. Aligned
    BY <1>0, <1>1, <2>2 DEF StageOK
  <2>4. Aligned'
    BY <1>0, <2>1, <2>3 DEF Aligned, Index!NoFilters
  <2>5. StageOK(t)'
    BY <1>0, <1>2, <1>4, <2>1, <2>2, <2>4 DEF StageOK
  <2> QED BY <1>0, <1>2, <1>3, <2>1, <2>5, StageMoves
<1>7. CASE ~Index!Current(store) /\ ~Index!IsExtension(store)
  <2>1. at' = [at EXCEPT ![t] = "rebuild"] /\ at'[t] = "rebuild" /\ filters' = Index!NoFilters
    BY <1>0, <1>1, <1>7
  <2>2. StageOK(t)'
    BY <1>0, <1>2, <1>4, <2>1 DEF StageOK
  <2> QED BY <1>0, <1>2, <1>3, <2>1, <2>2, StageMoves
<1> QED BY <1>5, <1>6, <1>7

LEMMA ExtendKeepsIndex ==
  ASSUME IndexInv, NEW t \in Threads, Index!Extend(t) PROVE IndexInv'
<1>0. /\ at[t] = "extend" /\ at' = [at EXCEPT ![t] = "score"] /\ source # "closed"
      /\ rows' = IF source = "open" THEN rows \o Index!After(snap[t], indexed) ELSE rows
      /\ tokens' = tokens \o Index!After(snap[t], indexed)
      /\ chunks' = snap[t] /\ indexed' = Len(snap[t])
      /\ UNCHANGED <<store, filters, source, owner, snap, result>>
  BY DEF Index!Extend, Index!Goes
<1>1. /\ StageOK(t) /\ snap[t] \in Seq(Chunks) /\ DOMAIN at = Threads
      /\ Len(snap[t]) \in Nat /\ indexed \in Nat \union {-1}
  BY LenProperties DEF IndexInv, Index!TypeOK
<1>2. /\ source = "open" => rows = chunks
      /\ tokens = chunks /\ filters = Index!NoFilters /\ indexed = Len(chunks)
      /\ Len(snap[t]) > indexed /\ SubSeq(snap[t], 1, indexed) = chunks /\ owner = t
  BY <1>0, <1>1 DEF StageOK, Aligned
<1>3. indexed \in Nat
  BY <1>2, LenProperties DEF IndexInv, Index!TypeOK
<1>4. chunks \o Index!After(snap[t], indexed) = snap[t]
  <2> DEFINE r == snap[t]
  <2>1. r \in Seq(Chunks) /\ 1 \in 1..(Len(r) + 1) /\ indexed \in (1 - 1)..Len(r) /\ Len(r) \in indexed..Len(r)
    BY <1>1, <1>2, <1>3
  <2> HIDE DEF r
  <2>2. SubSeq(r, 1, indexed) \o SubSeq(r, indexed + 1, Len(r)) = SubSeq(r, 1, Len(r))
    BY <2>1, ConcatAdjacentSubSeq
  <2>3. SubSeq(r, 1, Len(r)) = r
    BY <2>1, SubSeqFull
  <2> QED BY <2>2, <2>3, <1>2 DEF r, Index!After
<1>5. at'[t] = "score" /\ tokens' = chunks' /\ (source = "open" => rows' = chunks')
  BY <1>0, <1>1, <1>2, <1>4
<1>6. Index!TypeOK'
  BY <1>0, <1>1, <1>5 DEF IndexInv, Index!TypeOK
<1>7. Aligned'
  BY <1>0, <1>2, <1>5 DEF Aligned, Index!NoFilters
<1>8. StageOK(t)'
  BY <1>0, <1>1, <1>2, <1>5, <1>7 DEF StageOK
<1> QED BY <1>0, <1>6, <1>8, StageMoves

LEMMA RebuildKeepsIndex ==
  ASSUME IndexInv, NEW t \in Threads, Index!ExtendFails(t) \/ Index!Reset(t) \/ Index!Fill(t)
  PROVE  IndexInv'
<1>0. /\ StageOK(t) /\ snap[t] \in Seq(Chunks) /\ DOMAIN at = Threads /\ Len(snap[t]) \in Nat
      /\ <<>> \in Seq(Chunks)
  BY LenProperties, EmptySeq DEF IndexInv, Index!TypeOK
<1>1. CASE Index!ExtendFails(t)
  <2>1. /\ at[t] = "extend" /\ at' = [at EXCEPT ![t] = "rebuild"] /\ rows' = <<>> /\ source' = "closed"
        /\ UNCHANGED <<store, chunks, tokens, indexed, filters, owner, snap, result>>
    BY <1>1 DEF Index!ExtendFails, Index!Goes
  <2>2. at'[t] = "rebuild" /\ owner = t /\ filters = Index!NoFilters
    BY <1>0, <2>1 DEF StageOK
  <2>3. Index!TypeOK'
    BY <1>0, <2>1 DEF IndexInv, Index!TypeOK
  <2>4. StageOK(t)'
    BY <2>1, <2>2 DEF StageOK
  <2> QED BY <2>1, <2>3, <2>4, StageMoves
<1>2. CASE Index!Reset(t)
  <2>1. /\ at[t] = "rebuild" /\ at' = [at EXCEPT ![t] = "fill"] /\ chunks' = snap[t] /\ tokens' = <<>>
        /\ UNCHANGED <<store, indexed, filters, rows, source, owner, snap, result>>
    BY <1>2 DEF Index!Reset, Index!Goes
  <2>2. at'[t] = "fill" /\ owner = t /\ filters = Index!NoFilters
    BY <1>0, <2>1 DEF StageOK
  <2>3. Index!TypeOK'
    BY <1>0, <2>1 DEF IndexInv, Index!TypeOK
  <2>4. StageOK(t)'
    BY <2>1, <2>2 DEF StageOK
  <2> QED BY <2>1, <2>3, <2>4, StageMoves
<1>3. CASE Index!Fill(t)
  <2>1. /\ at[t] = "fill" /\ at' = [at EXCEPT ![t] = "score"] /\ tokens' = tokens \o snap[t]
        /\ indexed' = Len(snap[t]) /\ source' \in {"absent", "open", "closed"}
        /\ rows' = IF source' = "open" THEN snap[t] ELSE <<>>
        /\ UNCHANGED <<store, chunks, filters, owner, snap, result>>
    BY <1>3 DEF Index!Fill, Index!Goes, IndexInv, Index!TypeOK
  <2>2. /\ at'[t] = "score" /\ owner = t /\ filters = Index!NoFilters
        /\ chunks = snap[t] /\ tokens = <<>>
    BY <1>0, <2>1 DEF StageOK
  <2>3. tokens' = snap[t]
    BY <1>0, <2>1, <2>2, ConcatEmptySeq
  <2>4. rows' \in Seq(Chunks)
    BY <1>0, <2>1
  <2>5. Index!TypeOK'
    BY <1>0, <2>1, <2>3, <2>4 DEF IndexInv, Index!TypeOK
  <2>6. Aligned'
    BY <2>1, <2>2, <2>3 DEF Aligned, Index!NoFilters
  <2>7. StageOK(t)'
    BY <2>1, <2>2, <2>6 DEF StageOK
  <2> QED BY <2>1, <2>5, <2>7, StageMoves
<1> QED BY <1>1, <1>2, <1>3

(* What a search finds among the positions it scores, and what is due.     *)
LEMMA ScoredAreDue ==
  ASSUME IndexInv, NEW t \in Threads, at[t] = "score", NEW wanted \in SUBSET Chunks, NEW positions
  PROVE  LET found == {chunks[i] : i \in {i \in positions \cap DOMAIN chunks \cap DOMAIN tokens :
                                           tokens[i] \in wanted}}
             due == {c \in Index!Elements(snap[t]) : c \in wanted}
         IN  found \subseteq due /\ (positions = DOMAIN chunks => found = due)
  BY DEF IndexInv, StageOK, Aligned, Index!Elements

(* The answer is given and the lock let go. *)
LEMMA AnswerKeepsIndex ==
  ASSUME IndexInv, NEW t \in Threads, NEW filter \in SUBSET Repositories,
         NEW wanted \in SUBSET Chunks, NEW positions, NEW narrowed \in BOOLEAN,
         Index!Answer(t, filter, wanted, positions, narrowed),
         DOMAIN filters' \subseteq SUBSET Repositories,
         \A f \in DOMAIN filters' : filters'[f] = Index!Eligible(f),
         AnswersFromTheStore'
  PROVE  IndexInv'
<1>0. /\ at[t] = "score" /\ at' = [at EXCEPT ![t] = "idle"] /\ owner' = Nobody
      /\ result' = [held |-> Index!Elements(snap[t]), filter |-> filter, query |-> wanted,
                    narrowed |-> narrowed,
                    found |-> {chunks[i] : i \in {i \in positions \cap DOMAIN chunks \cap DOMAIN tokens :
                                                tokens[i] \in wanted}}]
      /\ snap' = [snap EXCEPT ![t] = <<>>]
      /\ UNCHANGED <<store, chunks, tokens, indexed, rows, source>>
  BY DEF Index!Answer, Index!Goes
<1>1. /\ Aligned /\ DOMAIN at = Threads /\ owner = t /\ \A s \in Threads : s # t => at[s] = "idle"
      /\ chunks \in Seq(Chunks) /\ snap \in [Threads -> Seq(Chunks)] /\ <<>> \in Seq(Chunks)
  BY <1>0, EmptySeq DEF IndexInv, StageOK, Index!TypeOK
<1>2. Aligned'
  BY <1>0, <1>1 DEF Aligned, Index!Eligible
<1>3. IndexIsAligned'
  BY <1>2 DEF IndexIsAligned, Index!IndexIsAligned, Aligned
<1>4. ASSUME NEW s \in Threads PROVE StageOK(s)'
  <2>1. at'[s] = "idle" /\ owner' # s
    BY <1>0, <1>1, ProcessAssumption DEF ChatServiceAssumption
  <2> QED BY <2>1 DEF StageOK
<1>5. Index!TypeOK'
  <2>1. result' \in [held : SUBSET Chunks, filter : SUBSET Repositories,
                     query : SUBSET Chunks, narrowed : BOOLEAN, found : SUBSET Chunks]
    <3>1. \A s \in Seq(Chunks) : \A i \in DOMAIN s : s[i] \in Chunks
      BY LenProperties
    <3> QED BY <1>0, <1>1, <3>1 DEF Index!Elements
  <2>2. snap' \in [Threads -> Seq(Chunks)]
    BY <1>0, <1>1
  <2> QED BY <1>0, <2>1, <2>2 DEF IndexInv, Index!TypeOK
<1> QED BY <1>3, <1>4, <1>5 DEF IndexInv

LEMMA SearchKeepsIndex ==
  ASSUME IndexInv, NEW t \in Threads, NEW wanted \in SUBSET Chunks, Index!Search(t, wanted)
  PROVE  IndexInv'
<1>0. PICK positions : \E narrowed \in BOOLEAN :
        /\ Index!Answer(t, Repositories, wanted, positions, narrowed)
        /\ ~narrowed => positions = DOMAIN chunks
  BY DEF Index!Search
<1>1. PICK narrowed \in BOOLEAN :
        /\ Index!Answer(t, Repositories, wanted, positions, narrowed)
        /\ ~narrowed => positions = DOMAIN chunks
  BY <1>0
<1>2. at[t] = "score" /\ filters' = filters /\ Aligned
  BY <1>1 DEF Index!Search, Index!Answer, Index!Goes, IndexInv, StageOK
<1> DEFINE found == {chunks[i] : i \in {i \in positions \cap DOMAIN chunks \cap DOMAIN tokens :
                                           tokens[i] \in wanted}}
           due == {c \in Index!Elements(snap[t]) : c \in wanted}
<1>3. found \subseteq due /\ (~narrowed => found = due)
  BY <1>2, <1>1, ScoredAreDue
<1>4. result' = [held |-> Index!Elements(snap[t]), filter |-> Repositories, query |-> wanted,
                    narrowed |-> narrowed, found |-> found]
  BY <1>1 DEF Index!Answer
<1>5. due = {c \in Index!Elements(snap[t]) : c \in wanted /\ RepositoryOf[c] \in Repositories}
  <2>1. \A c \in Index!Elements(snap[t]) : c \in Chunks
    BY LenProperties DEF IndexInv, Index!TypeOK, Index!Elements
  <2>2. \A c \in Chunks : RepositoryOf[c] \in Repositories
    BY DEF RepositoryOf, Repositories
  <2> QED BY <2>1, <2>2
<1> HIDE DEF found, due
<1>6. AnswersFromTheStore'
  <2>1. /\ result'.found = found /\ result'.held = Index!Elements(snap[t])
        /\ result'.query = wanted /\ result'.filter = Repositories /\ result'.narrowed = narrowed
    BY <1>4
  <2> QED BY <1>3, <1>5, <2>1 DEF AnswersFromTheStore, Index!AnswersFromTheStore
<1>7. /\ DOMAIN filters' \subseteq SUBSET Repositories /\ Repositories \in SUBSET Repositories
      /\ \A f \in DOMAIN filters' : filters'[f] = Index!Eligible(f)
  BY <1>2 DEF Aligned, IndexInv, Index!TypeOK
<1> QED BY <1>1, <1>6, <1>7, AnswerKeepsIndex

LEMMA FilteredSearchKeepsIndex ==
  ASSUME IndexInv, NEW t \in Threads, NEW wanted \in SUBSET Chunks, Index!SearchFiltered(t, wanted)
  PROVE  IndexInv'
<1>1. PICK filter \in SUBSET Repositories :
        \/ /\ filter \in DOMAIN filters
           /\ Index!Answer(t, filter, wanted, filters[filter], FALSE)
           /\ UNCHANGED filters
        \/ /\ filter \notin DOMAIN filters
           /\ Index!Answer(t, filter, wanted, Index!Eligible(filter), FALSE)
           /\ filters' = Index!Remembering(filter, Index!Eligible(filter))
  BY DEF Index!SearchFiltered
<1>2. at[t] = "score" /\ Aligned /\ chunks = snap[t] /\ DOMAIN filters \subseteq SUBSET Repositories
  BY <1>1 DEF Index!Answer, Index!Goes, IndexInv, StageOK, Index!TypeOK
<1>3. Index!Answer(t, filter, wanted, Index!Eligible(filter), FALSE)
  BY <1>1, <1>2 DEF Aligned
<1>4. /\ DOMAIN filters' \subseteq SUBSET Repositories
      /\ \A f \in DOMAIN filters' : filters'[f] = Index!Eligible(f)
  <2>1. CASE UNCHANGED filters
    BY <2>1, <1>2 DEF Aligned
  <2>2. CASE filters' = Index!Remembering(filter, Index!Eligible(filter))
    <3> DEFINE kept == IF Cardinality(DOMAIN filters) >= MaxFilters THEN Index!NoFilters ELSE filters
    <3>1. /\ DOMAIN kept \subseteq SUBSET Repositories
          /\ \A f \in DOMAIN kept : kept[f] = Index!Eligible(f)
      BY <1>2 DEF Aligned, Index!NoFilters
    <3>2. filters' = [f \in DOMAIN kept \union {filter} |->
                       IF f = filter THEN Index!Eligible(filter) ELSE kept[f]]
      BY <2>2, SameCardinality DEF Index!Remembering
    <3> HIDE DEF kept
    <3> QED BY <3>1, <3>2
  <2> QED BY <1>1, <2>1, <2>2
<1> DEFINE found == {chunks[i] : i \in {i \in Index!Eligible(filter) \cap DOMAIN chunks \cap DOMAIN tokens :
                                           tokens[i] \in wanted}}
<1>5. result' = [held |-> Index!Elements(snap[t]), filter |-> filter, query |-> wanted,
                    narrowed |-> FALSE, found |-> found]
  BY <1>3 DEF Index!Answer
<1>6. found = {c \in Index!Elements(snap[t]) : c \in wanted /\ RepositoryOf[c] \in filter}
  BY <1>2 DEF Aligned, Index!Elements, Index!Eligible
<1> HIDE DEF found
<1>7. AnswersFromTheStore'
  BY <1>5, <1>6 DEF AnswersFromTheStore, Index!AnswersFromTheStore
<1> QED BY <1>3, <1>4, <1>7, AnswerKeepsIndex

LEMMA IndexSteps == IndexInv /\ [ProcessNext]_processVars => IndexInv'
<1> SUFFICES ASSUME IndexInv, [ProcessNext]_processVars PROVE IndexInv'
  OBVIOUS
<1>1. CASE UNCHANGED index
  BY <1>1 DEF index, IndexInv, Index!TypeOK, IndexIsAligned, Index!IndexIsAligned, StageOK,
              Aligned, Index!Eligible, AnswersFromTheStore, Index!AnswersFromTheStore
<1>2. CASE Index!Next
  BY <1>2, StoreKeepsIndex, TakeKeepsIndex, LookKeepsIndex, ExtendKeepsIndex, RebuildKeepsIndex,
     SearchKeepsIndex, FilteredSearchKeepsIndex DEF Index!Next
<1> QED BY <1>1, <1>2 DEF ProcessNext, processVars, OnLimiter, OnClient, OnIndex, OnListing, OnReview, OnChat

(* For any threads, chunks, pool and number of remembered filters: between *)
(* two searches the term frequencies, the full-text rows and the memo of   *)
(* filters are those of the chunks (_ensure_index, _append_to_index).      *)
THEOREM IndexStaysAligned == ProcessSpec => []IndexIsAligned
<1>1. IndexInv => IndexIsAligned
  BY DEF IndexInv
<1> QED BY <1>1, IndexInitially, IndexSteps, PTL DEF ProcessSpec

(* And every search answers from what the store held when it looked:       *)
(* nothing retired by then, nothing outside its filter, and everything     *)
(* else that matches when the full-text index has not narrowed the search  *)
(* (search).                                                               *)
THEOREM IndexAnswersFromTheStore == ProcessSpec => []AnswersFromTheStore
<1>1. IndexInv => AnswersFromTheStore
  BY DEF IndexInv
<1> QED BY <1>1, IndexInitially, IndexSteps, PTL DEF ProcessSpec

-----------------------------------------------------------------------------
(* AtMostPerMinute, FullMeansBusy and AdviceIsExact.  The window of a      *)
(* client is the end of the history of its admissions, and what precedes   *)
(* it there has expired; a client that is not in the table has an empty    *)
(* one.  Pruning, reclaiming and the clock keep that.                      *)
Members(s) == {s[i] : i \in DOMAIN s}

Follows(w, h) ==
  /\ Len(w) <= Len(h) /\ Len(w) <= PerMinute
  /\ \A i \in 1..Len(w) : w[i] = h[Len(h) - Len(w) + i]
  /\ \A i \in 1..(Len(h) - Len(w)) : Limiter!Expired(h[i])

InOrder(h) ==
  /\ \A i \in DOMAIN h : h[i] <= clock
  /\ \A i, j \in DOMAIN h : i <= j => h[i] <= h[j]

TableOK(queue, table) ==
  /\ queue \in Seq(Clients) /\ table \in [Clients -> Seq(Nat)]
  /\ \A c \in Clients : /\ Follows(table[c], admitted[c])
                        /\ c \notin Members(queue) => table[c] = <<>>

LimiterInv ==
  /\ Limiter!TypeOK
  /\ TableOK(order, window)
  /\ \A c \in Clients : InOrder(admitted[c])
  /\ told = Limiter!NoAdvice \/ told.client \in Clients
  /\ AtMostPerMinute /\ FullMeansBusy /\ AdviceIsExact

LEMMA Rates ==
  PerMinute \in Nat \ {0} /\ MaxClients \in Nat \ {0} /\ Window \in Nat /\ Second \in Nat \ {0}
    /\ MaxTime \in Nat /\ NoClient \notin Clients
  BY ProcessAssumption DEF Limiter!RateLimiterAssumption

LEMMA LimiterInitially == ProcessInit => LimiterInv
<1> SUFFICES ASSUME Limiter!Init PROVE LimiterInv
  BY DEF ProcessInit
<1> USE Rates DEF Limiter!Init
<1>0. <<>> \in Seq(Clients) /\ <<>> \in Seq(Nat) /\ Len(<<>>) = 0 /\ DOMAIN <<>> = {}
  BY EmptySeq
<1>1. Limiter!TypeOK
  BY <1>0 DEF Limiter!TypeOK, Limiter!NoAnswer, Limiter!NoAdvice
<1>2. TableOK(order, window)
  BY <1>0 DEF TableOK, Follows
<1>3. \A c \in Clients : InOrder(admitted[c])
  BY <1>0 DEF InOrder
<1>4. AtMostPerMinute /\ FullMeansBusy /\ AdviceIsExact
  BY <1>0 DEF AtMostPerMinute, Limiter!AtMostPerMinute, FullMeansBusy, Limiter!FullMeansBusy,
              AdviceIsExact, Limiter!AdviceIsExact, Limiter!NoAnswer
<1> QED BY <1>1, <1>2, <1>3, <1>4 DEF LimiterInv

LEMMA Quotient ==
  \A x \in Nat, b \in Nat \ {0} :
    /\ x \div b \in Nat
    /\ (x \div b) * b <= x
    /\ x < (x \div b) * b + b
  OBVIOUS

LEMMA Ceilings ==
  ASSUME NEW a \in Nat, NEW b \in Nat \ {0}
  PROVE  LET q == Limiter!Ceiling(a, b) IN
         q \in Nat /\ q * b >= a /\ (q - 1) * b < a
<1> DEFINE q == (a + b - 1) \div b
<1>1. a + b - 1 \in Nat
  OBVIOUS
<1>2. q \in Nat /\ q * b <= a + b - 1 /\ a + b - 1 < q * b + b
  BY <1>1, Quotient
<1> HIDE DEF q
<1>3. q * b \in Nat /\ (q - 1) * b = q * b - b
  BY <1>2
<1>4. q * b >= a /\ (q - 1) * b < a
  BY <1>2, <1>3
<1> QED BY <1>2, <1>4 DEF q, Limiter!Ceiling

(* What pruning leaves is still the end of the history, and begins with a  *)
(* live time.                                                              *)
LEMMA PrunedFollows ==
  ASSUME NEW h \in Seq(Nat), NEW w \in Seq(Nat), Follows(w, h), clock \in Nat,
         NEW p \in Limiter!Pruned(w)
  PROVE  /\ p \in Seq(Nat) /\ Follows(p, h)
         /\ Len(p) > 0 => ~Limiter!Expired(p[1])
<1>0. /\ Len(w) \in Nat /\ Len(h) \in Nat /\ DOMAIN w = 1..Len(w) /\ DOMAIN h = 1..Len(h)
      /\ \A i \in 1..Len(w) : w[i] \in Nat
  BY LenProperties
<1>1. PICK k \in 0..Len(w) : /\ p = SubSeq(w, k + 1, Len(w))
                             /\ \A i \in 1..k : Limiter!Expired(w[i])
                             /\ k < Len(w) => ~Limiter!Expired(w[k + 1])
  BY DEF Limiter!Pruned
<1>2. p \in Seq(Nat) /\ Len(p) = Len(w) - k /\ \A i \in 1..(Len(w) - k) : p[i] = w[k + i]
  <2>1. \A i \in (k + 1)..Len(w) : w[i] \in Nat
    BY <1>0
  <2>2. /\ SubSeq(w, k + 1, Len(w)) \in Seq(Nat)
        /\ Len(SubSeq(w, k + 1, Len(w))) = IF k + 1 <= Len(w) THEN Len(w) - (k + 1) + 1 ELSE 0
        /\ \A i \in 1..(Len(w) - (k + 1) + 1) : SubSeq(w, k + 1, Len(w))[i] = w[(k + 1) + i - 1]
    BY <1>0, <2>1, SubSeqProperties
  <2>3. k \in Nat /\ Len(w) \in Nat /\ k <= Len(w)
    BY <1>0
  <2>4. Len(p) = Len(w) - k
    <3>1. Len(p) = IF k + 1 <= Len(w) THEN Len(w) - (k + 1) + 1 ELSE 0
      BY <1>1, <2>2
    <3> QED BY <3>1, <2>3
  <2>5. ASSUME NEW i \in 1..(Len(w) - k) PROVE p[i] = w[k + i]
    <3>1. p[i] = w[(k + 1) + i - 1]
      <4>1. i \in 1..(Len(w) - (k + 1) + 1)
        BY <2>3
      <4> QED BY <1>1, <2>2, <4>1
    <3>2. (k + 1) + i - 1 = k + i
      BY <2>3, <1>0
    <3> QED BY <3>1, <3>2
  <2> QED BY <1>1, <2>2, <2>4, <2>5
<1>3. Len(p) <= Len(h) /\ Len(p) <= PerMinute
  BY <1>0, <1>2, Rates DEF Follows
<1>4. ASSUME NEW i \in 1..Len(p) PROVE p[i] = h[Len(h) - Len(p) + i]
  <2>1. k + i \in 1..Len(w) /\ Len(h) - Len(p) + i = Len(h) - Len(w) + (k + i)
    BY <1>0, <1>2
  <2> QED BY <1>2, <2>1 DEF Follows
<1>5. ASSUME NEW i \in 1..(Len(h) - Len(p)) PROVE Limiter!Expired(h[i])
  <2>1. CASE i <= Len(h) - Len(w)
    BY <1>0, <2>1 DEF Follows
  <2>2. CASE i > Len(h) - Len(w)
    <3> DEFINE j == i - (Len(h) - Len(w))
    <3>0. /\ k \in Nat /\ Len(w) \in Nat /\ Len(h) \in Nat /\ k <= Len(w)
          /\ i \in Nat /\ i <= Len(h) - (Len(w) - k) /\ i > Len(h) - Len(w)
      <4>1. Len(p) = Len(w) - k
        BY <1>2
      <4> QED BY <1>0, <2>2, <4>1
    <3>1. j \in 1..k /\ j \in 1..Len(w)
      BY <3>0
    <3>2. Len(h) - Len(w) + j = i
      BY <1>0
    <3> HIDE DEF j
    <3>3. w[j] = h[i]
      BY <3>1, <3>2 DEF Follows
    <3>4. Limiter!Expired(w[j])
      BY <1>1, <3>1
    <3> QED BY <3>3, <3>4
  <2> QED BY <1>0, <2>1, <2>2
<1>6. Len(p) > 0 => ~Limiter!Expired(p[1])
  <2>1. Len(p) > 0 => k < Len(w) /\ p[1] = w[k + 1]
    BY <1>0, <1>2
  <2> QED BY <1>1, <2>1
<1> QED BY <1>2, <1>3, <1>4, <1>5, <1>6 DEF Follows

(* A window without a live time stands for a history without one. *)
LEMMA ExpiredFollows ==
  ASSUME NEW h \in Seq(Nat), NEW w \in Seq(Nat), Follows(w, h), Limiter!AllExpired(w)
  PROVE  Follows(<<>>, h)
<1>0. /\ Len(w) \in Nat /\ Len(h) \in Nat /\ DOMAIN w = 1..Len(w) /\ Len(<<>>) = 0
  BY LenProperties, EmptySeq
<1>1. ASSUME NEW i \in 1..Len(h) PROVE Limiter!Expired(h[i])
  <2>1. CASE i <= Len(h) - Len(w)
    BY <1>0, <2>1 DEF Follows
  <2>2. CASE i > Len(h) - Len(w)
    <3>1. i - (Len(h) - Len(w)) \in 1..Len(w)
      BY <1>0, <2>2 DEF Follows
    <3>2. Len(h) - Len(w) + (i - (Len(h) - Len(w))) = i
      BY <1>0
    <3>3. w[i - (Len(h) - Len(w))] = h[i]
      BY <3>1, <3>2 DEF Follows
    <3> QED BY <1>0, <3>1, <3>3 DEF Limiter!AllExpired
  <2> QED BY <1>0, <2>1, <2>2
<1> QED BY <1>0, <1>1, Rates DEF Follows

(* Dropping the least recently used clients keeps the table, and stops at  *)
(* a client that was admitted within the window.                           *)
LEMMA ReclaimedTable ==
  ASSUME LimiterInv, NEW r \in Limiter!Reclaimed
  PROVE  /\ TableOK(r.order, r.window)
         /\ Len(r.order) > 0 => \E c \in Clients : \E i \in DOMAIN admitted[c] :
                                  ~Limiter!Expired(admitted[c][i])
<1>0. /\ order \in Seq(Clients) /\ Len(order) \in Nat /\ DOMAIN order = 1..Len(order)
      /\ window \in [Clients -> Seq(Nat)] /\ admitted \in [Clients -> Seq(Nat)] /\ clock \in Nat
      /\ \A i \in 1..Len(order) : order[i] \in Clients
  BY LenProperties DEF LimiterInv, Limiter!TypeOK
<1>1. PICK n \in 0..Len(order) :
        /\ \A i \in 1..n : Limiter!AllExpired(window[order[i]])
        /\ n < Len(order) => ~Limiter!AllExpired(window[order[n + 1]])
        /\ \E w \in IF n < Len(order) THEN Limiter!Pruned(window[order[n + 1]]) ELSE {<<>>} :
             r = [order |-> SubSeq(order, n + 1, Len(order)),
                  window |-> [c \in Clients |->
                               IF \E i \in 1..n : order[i] = c THEN <<>>
                               ELSE IF n < Len(order) /\ order[n + 1] = c THEN w
                               ELSE window[c]]]
  BY DEF Limiter!Reclaimed
<1>2. PICK w \in IF n < Len(order) THEN Limiter!Pruned(window[order[n + 1]]) ELSE {<<>>} :
        r = [order |-> SubSeq(order, n + 1, Len(order)),
             window |-> [c \in Clients |->
                          IF \E i \in 1..n : order[i] = c THEN <<>>
                          ELSE IF n < Len(order) /\ order[n + 1] = c THEN w
                          ELSE window[c]]]
  BY <1>1
<1>3. /\ r.order = SubSeq(order, n + 1, Len(order))
      /\ r.window = [c \in Clients |-> IF \E i \in 1..n : order[i] = c THEN <<>>
                                       ELSE IF n < Len(order) /\ order[n + 1] = c THEN w
                                       ELSE window[c]]
  BY <1>2
<1>4. n \in Nat /\ n <= Len(order)
  BY <1>0
<1>5. /\ r.order \in Seq(Clients) /\ Len(r.order) \in Nat
      /\ Len(r.order) > 0 => n < Len(order)
      /\ \A i \in 1..Len(order) : i > n => order[i] \in Members(r.order)
  <2>1. \A i \in (n + 1)..Len(order) : order[i] \in Clients
    BY <1>0, <1>4
  <2>2. /\ r.order \in Seq(Clients)
        /\ Len(r.order) = IF n + 1 <= Len(order) THEN Len(order) - (n + 1) + 1 ELSE 0
        /\ \A i \in 1..(Len(order) - (n + 1) + 1) : r.order[i] = order[(n + 1) + i - 1]
    BY <1>0, <1>3, <1>4, <2>1, SubSeqProperties
  <2>3. DOMAIN r.order = 1..Len(r.order) /\ Len(r.order) \in Nat
    BY <2>2, LenProperties
  <2>4. Len(r.order) > 0 => n < Len(order)
    BY <1>0, <1>4, <2>2
  <2>5. ASSUME NEW i \in 1..Len(order), i > n PROVE order[i] \in Members(r.order)
    <3> DEFINE j == i - n
    <3>1. j \in 1..(Len(order) - (n + 1) + 1) /\ n + 1 <= Len(order)
      BY <1>0, <1>4, <2>5
    <3>2. (n + 1) + j - 1 = i
      BY <1>0, <1>4
    <3> HIDE DEF j
    <3>3. r.order[j] = order[i] /\ j \in DOMAIN r.order
      BY <2>2, <2>3, <3>1, <3>2
    <3> QED BY <3>3 DEF Members
  <2> QED BY <2>2, <2>3, <2>4, <2>5
<1>6. /\ n < Len(order) => order[n + 1] \in Clients /\ w \in Limiter!Pruned(window[order[n + 1]])
      /\ w \in Seq(Nat)
      /\ n < Len(order) => Follows(w, admitted[order[n + 1]])
  <2>1. CASE n < Len(order)
    <3>1. n + 1 \in 1..Len(order)
      BY <1>0, <1>4, <2>1
    <3>2. /\ order[n + 1] \in Clients /\ w \in Limiter!Pruned(window[order[n + 1]])
          /\ Follows(window[order[n + 1]], admitted[order[n + 1]])
      BY <1>0, <1>2, <2>1, <3>1 DEF LimiterInv, TableOK
    <3> QED BY <1>0, <3>2, PrunedFollows
  <2>2. CASE ~(n < Len(order))
    BY <1>2, <2>2, EmptySeq
  <2> QED BY <2>1, <2>2
<1>7. ASSUME NEW c \in Clients
      PROVE  /\ r.window[c] \in Seq(Nat) /\ Follows(r.window[c], admitted[c])
             /\ c \notin Members(r.order) => r.window[c] = <<>>
  <2>0. Follows(window[c], admitted[c]) /\ (c \notin Members(order) => window[c] = <<>>)
    BY DEF LimiterInv, TableOK
  <2>1. CASE \E i \in 1..n : order[i] = c
    <3>1. r.window[c] = <<>>
      BY <1>3, <2>1
    <3>2. Limiter!AllExpired(window[c])
      BY <1>1, <2>1
    <3> QED BY <1>0, <2>0, <3>1, <3>2, ExpiredFollows, EmptySeq
  <2>2. CASE ~(\E i \in 1..n : order[i] = c) /\ n < Len(order) /\ order[n + 1] = c
    <3>1. r.window[c] = w
      BY <1>3, <2>2
    <3>2. n + 1 \in 1..Len(order) /\ n + 1 > n
      BY <1>0, <1>4, <2>2
    <3> QED BY <1>5, <1>6, <2>2, <3>1, <3>2
  <2>3. CASE ~(\E i \in 1..n : order[i] = c) /\ ~(n < Len(order) /\ order[n + 1] = c)
    <3>1. r.window[c] = window[c]
      BY <1>3, <2>3
    <3>2. ASSUME c \in Members(order) PROVE c \in Members(r.order)
      <4>1. PICK i \in 1..Len(order) : order[i] = c
        BY <1>0, <3>2 DEF Members
      <4>2. i > n
        BY <1>0, <1>4, <2>3, <4>1
      <4> QED BY <1>5, <4>1, <4>2
    <3> QED BY <1>0, <2>0, <3>1, <3>2
  <2> QED BY <2>1, <2>2, <2>3
<1>8. r.window \in [Clients -> Seq(Nat)]
  BY <1>3, <1>7
<1>9. ASSUME Len(r.order) > 0
      PROVE  \E c \in Clients : \E i \in DOMAIN admitted[c] : ~Limiter!Expired(admitted[c][i])
  <2> DEFINE c == order[n + 1]
  <2>1. c \in Clients /\ ~Limiter!AllExpired(window[c]) /\ Follows(window[c], admitted[c])
    BY <1>1, <1>5, <1>6, <1>9 DEF LimiterInv, TableOK
  <2> HIDE DEF c
  <2>2. PICK i \in DOMAIN window[c] : ~Limiter!Expired(window[c][i])
    BY <2>1 DEF Limiter!AllExpired
  <2>3. /\ window[c] \in Seq(Nat) /\ admitted[c] \in Seq(Nat)
        /\ DOMAIN window[c] = 1..Len(window[c]) /\ DOMAIN admitted[c] = 1..Len(admitted[c])
        /\ Len(window[c]) \in Nat /\ Len(admitted[c]) \in Nat
    BY <1>0, <2>1, LenProperties
  <2> DEFINE k == Len(admitted[c]) - Len(window[c]) + i
  <2>4. k \in DOMAIN admitted[c]
    <3>1. Len(window[c]) <= Len(admitted[c]) /\ i \in 1..Len(window[c])
      BY <2>1, <2>2, <2>3 DEF Follows
    <3>2. \A a, m \in Nat : \A j \in 1..m : m <= a => a - m + j \in 1..a
      OBVIOUS
    <3>3. k \in 1..Len(admitted[c])
      BY <2>3, <3>1, <3>2
    <3> QED BY <2>3, <3>3
  <2>5. window[c][i] = admitted[c][k]
    BY <2>1, <2>2, <2>3 DEF Follows
  <2> HIDE DEF k
  <2> QED BY <2>1, <2>2, <2>4, <2>5
<1> QED BY <1>5, <1>7, <1>8, <1>9 DEF TableOK

(* One more admission of a client that had room. *)
LEMMA AdmittedFollows ==
  ASSUME NEW h \in Seq(Nat), NEW w \in Seq(Nat), Follows(w, h), InOrder(h), clock \in Nat,
         Len(w) < PerMinute,
         \A i \in DOMAIN h : i + PerMinute <= Len(h) => h[i + PerMinute] - h[i] > Window
  PROVE  LET g == Append(h, clock) IN
         /\ g \in Seq(Nat) /\ Append(w, clock) \in Seq(Nat)
         /\ Follows(Append(w, clock), g) /\ InOrder(g)
         /\ \A i \in DOMAIN g : i + PerMinute <= Len(g) => g[i + PerMinute] - g[i] > Window
<1> DEFINE g == Append(h, clock)
           v == Append(w, clock)
<1>0. /\ Len(w) \in Nat /\ Len(h) \in Nat /\ Len(w) <= Len(h) /\ PerMinute \in Nat \ {0}
      /\ DOMAIN h = 1..Len(h) /\ \A i \in 1..Len(h) : h[i] \in Nat
  BY LenProperties, Rates DEF Follows
<1>1. /\ g \in Seq(Nat) /\ Len(g) = Len(h) + 1 /\ g[Len(h) + 1] = clock
      /\ \A i \in 1..Len(h) : g[i] = h[i]
  BY AppendProperties
<1>2. /\ v \in Seq(Nat) /\ Len(v) = Len(w) + 1 /\ v[Len(w) + 1] = clock
      /\ \A i \in 1..Len(w) : v[i] = w[i]
  BY AppendProperties
<1>3. DOMAIN g = 1..(Len(h) + 1)
  BY <1>1, LenProperties
<1> HIDE DEF g, v
<1>4. \A i \in 1..(Len(h) + 1) : i \in 1..Len(h) \/ i = Len(h) + 1
  BY <1>0
<1>5. Follows(v, g)
  <2>1. Len(v) <= Len(g) /\ Len(v) <= PerMinute
    BY <1>0, <1>1, <1>2
  <2>2. ASSUME NEW i \in 1..Len(v) PROVE v[i] = g[Len(g) - Len(v) + i]
    <3>1. Len(g) - Len(v) + i = Len(h) - Len(w) + i
      BY <1>0, <1>1, <1>2
    <3>2. CASE i = Len(w) + 1
      <4>1. Len(h) - Len(w) + i = Len(h) + 1
        BY <1>0, <3>2
      <4> QED BY <3>1, <3>2, <4>1, <1>1, <1>2
    <3>3. CASE i \in 1..Len(w)
      <4>1. Len(h) - Len(w) + i \in 1..Len(h)
        BY <1>0, <3>3
      <4>2. w[i] = h[Len(h) - Len(w) + i]
        BY <3>3 DEF Follows
      <4> QED BY <3>1, <3>3, <4>1, <4>2, <1>1, <1>2
    <3> QED BY <1>0, <1>2, <3>2, <3>3
  <2>3. ASSUME NEW i \in 1..(Len(g) - Len(v)) PROVE Limiter!Expired(g[i])
    <3>0. Len(g) - Len(v) = Len(h) - Len(w)
      BY <1>0, <1>1, <1>2
    <3>1. i \in 1..(Len(h) - Len(w))
      BY <3>0
    <3>2. i \in 1..Len(h)
      BY <1>0, <3>1
    <3> QED BY <3>1, <3>2, <1>1 DEF Follows
  <2> QED BY <2>1, <2>2, <2>3 DEF Follows
<1>6. InOrder(g)
  <2>1. ASSUME NEW i \in DOMAIN g PROVE g[i] <= clock /\ g[i] \in Nat
    <3>1. CASE i \in 1..Len(h)
      BY <3>1, <1>0, <1>1 DEF InOrder
    <3>2. CASE i = Len(h) + 1
      BY <3>2, <1>1
    <3> QED BY <3>1, <3>2, <1>3, <1>4
  <2>2. ASSUME NEW i \in DOMAIN g, NEW j \in DOMAIN g, i <= j PROVE g[i] <= g[j]
    <3>1. CASE j = Len(h) + 1
      BY <2>1, <3>1, <1>1
    <3>2. CASE j \in 1..Len(h)
      <4>1. i \in 1..Len(h)
        BY <2>2, <3>2, <1>0, <1>3
      <4> QED BY <2>2, <3>2, <4>1, <1>0, <1>1 DEF InOrder
    <3> QED BY <3>1, <3>2, <1>3, <1>4
  <2> QED BY <2>1, <2>2 DEF InOrder
<1>7. ASSUME NEW i \in DOMAIN g, i + PerMinute <= Len(g) PROVE g[i + PerMinute] - g[i] > Window
  <2>0. i \in 1..Len(h) /\ g[i] = h[i]
    <3>1. i \in 1..(Len(h) + 1) /\ i + PerMinute <= Len(h) + 1
      BY <1>1, <1>3, <1>7
    <3>2. i \in 1..Len(h)
      <4>1. Len(h) \in Nat /\ PerMinute \in Nat /\ PerMinute # 0
        BY <1>0
      <4> QED BY <3>1, <4>1
    <3> QED BY <3>2, <1>1
  <2>1. CASE i + PerMinute <= Len(h)
    <3>1. i + PerMinute \in 1..Len(h)
      BY <1>0, <2>0, <2>1
    <3> QED BY <1>0, <1>1, <2>0, <2>1, <3>1
  <2>2. CASE i + PerMinute = Len(h) + 1
    <3>1. i \in 1..(Len(h) - Len(w))
      BY <1>0, <2>0, <2>2
    <3>2. clock - h[i] > Window
      BY <3>1 DEF Follows, Limiter!Expired
    <3> QED BY <2>0, <2>2, <3>2, <1>1
  <2>3. i + PerMinute <= Len(h) \/ i + PerMinute = Len(h) + 1
    <3>1. i + PerMinute <= Len(h) + 1 /\ i \in Nat
      BY <1>1, <1>7, <2>0
    <3>2. Len(h) \in Nat /\ PerMinute \in Nat
      BY <1>0
    <3> QED BY <3>1, <3>2
  <2> QED BY <2>1, <2>2, <2>3
<1> QED BY <1>1, <1>2, <1>5, <1>6, <1>7 DEF g, v

(* The advice depends on the history of its client only. *)
LEMMA AdviceStands ==
  ASSUME AdviceIsExact, told' = told, told.client \in Clients,
         admitted'[told.client] = admitted[told.client]
  PROVE  AdviceIsExact'
  BY DEF AdviceIsExact, Limiter!AdviceIsExact, Limiter!Full, Limiter!LiveAt, Limiter!NoAdvice

LEMMA NoAdviceIsExact ==
  ASSUME told' = Limiter!NoAdvice PROVE AdviceIsExact'
  BY DEF AdviceIsExact, Limiter!AdviceIsExact, Limiter!NoAdvice

(* check, once the client has its place in the table. *)
LEMMA DecideKeepsLimiter ==
  ASSUME LimiterInv, NEW c \in Clients, NEW queue, NEW table, TableOK(queue, table),
         c \in Members(queue), Limiter!Decide(c, queue, table), clock' = clock
  PROVE  LimiterInv'
<1>0. /\ clock \in Nat /\ admitted \in [Clients -> Seq(Nat)] /\ asking \in SUBSET Clients
      /\ told \in [client : Clients \union {NoClient}, at : Nat, wait : Nat]
      /\ told = Limiter!NoAdvice \/ told.client \in Clients
      /\ table \in [Clients -> Seq(Nat)] /\ queue \in Seq(Clients)
  BY DEF LimiterInv, Limiter!TypeOK, TableOK
<1>1. PICK w \in Limiter!Pruned(table[c]) :
        /\ order' = queue
        /\ \/ /\ Len(w) >= PerMinute
              /\ window' = [table EXCEPT ![c] = w]
              /\ Limiter!Reject(c, "limited")
           \/ /\ Len(w) < PerMinute
              /\ window' = [table EXCEPT ![c] = Append(w, clock)]
              /\ admitted' = [admitted EXCEPT ![c] = Append(@, clock)]
              /\ answer' = [client |-> c, said |-> "admitted"]
              /\ told' = IF told.client = c THEN Limiter!NoAdvice ELSE told
              /\ UNCHANGED asking
  BY DEF Limiter!Decide
<1>2. w \in Seq(Nat) /\ Follows(w, admitted[c])
  BY <1>0, PrunedFollows DEF TableOK
<1>3. CASE Len(w) >= PerMinute
  <2>1. /\ window' = [table EXCEPT ![c] = w] /\ answer' = [client |-> c, said |-> "limited"]
        /\ asking' = asking \union {c} /\ UNCHANGED <<admitted, told>>
    BY <1>0, <1>1, <1>2, <1>3, LenProperties, Rates DEF Limiter!Reject
  <2>2. TableOK(order, window)'
    <3>1. window' \in [Clients -> Seq(Nat)] /\ window'[c] = w
          /\ \A d \in Clients : d # c => window'[d] = table[d]
      BY <1>0, <1>2, <2>1
    <3>2. ASSUME NEW d \in Clients
          PROVE  Follows(window[d], admitted[d])' /\ (d \notin Members(order)' => window'[d] = <<>>)
      <4>1. Follows(window'[d], admitted[d]) /\ (d \notin Members(queue) => window'[d] = <<>>)
        BY <1>2, <3>1 DEF TableOK
      <4> QED BY <4>1, <1>1, <2>1 DEF Follows, Limiter!Expired, Members
    <3> QED BY <1>0, <1>1, <3>1, <3>2 DEF TableOK
  <2>3. Limiter!TypeOK'
    BY <1>0, <1>1, <2>1, <2>2 DEF LimiterInv, Limiter!TypeOK, TableOK
  <2>4. AtMostPerMinute' /\ FullMeansBusy' /\ \A d \in Clients : InOrder(admitted[d])'
    BY <2>1 DEF LimiterInv, AtMostPerMinute, Limiter!AtMostPerMinute, FullMeansBusy,
                Limiter!FullMeansBusy, InOrder
  <2>5. AdviceIsExact'
    BY <1>0, <2>1, AdviceStands, NoAdviceIsExact DEF LimiterInv
  <2> QED BY <1>0, <2>1, <2>2, <2>3, <2>4, <2>5 DEF LimiterInv
<1>4. CASE Len(w) < PerMinute
  <2>1. /\ window' = [table EXCEPT ![c] = Append(w, clock)]
        /\ admitted' = [admitted EXCEPT ![c] = Append(@, clock)]
        /\ answer' = [client |-> c, said |-> "admitted"]
        /\ told' = IF told.client = c THEN Limiter!NoAdvice ELSE told
        /\ UNCHANGED asking
    BY <1>0, <1>1, <1>2, <1>4, LenProperties, Rates
  <2> DEFINE g == Append(admitted[c], clock)
             v == Append(w, clock)
  <2>2. /\ g \in Seq(Nat) /\ v \in Seq(Nat) /\ Follows(v, g) /\ InOrder(g)
        /\ \A i \in DOMAIN g : i + PerMinute <= Len(g) => g[i + PerMinute] - g[i] > Window
    <3>1. /\ admitted[c] \in Seq(Nat) /\ InOrder(admitted[c])
          /\ \A i \in DOMAIN admitted[c] :
               i + PerMinute <= Len(admitted[c]) => admitted[c][i + PerMinute] - admitted[c][i] > Window
      BY <1>0 DEF LimiterInv, AtMostPerMinute, Limiter!AtMostPerMinute
    <3> QED BY <1>0, <1>2, <1>4, <3>1, AdmittedFollows
  <2> HIDE DEF g, v
  <2>3. /\ window' \in [Clients -> Seq(Nat)] /\ window'[c] = v
        /\ \A d \in Clients : d # c => window'[d] = table[d]
    BY <1>0, <2>1, <2>2 DEF v
  <2>4. /\ admitted' \in [Clients -> Seq(Nat)] /\ admitted'[c] = g
        /\ \A d \in Clients : d # c => admitted'[d] = admitted[d]
    BY <1>0, <2>1, <2>2 DEF g
  <2>5. TableOK(order, window)'
    <3>1. ASSUME NEW d \in Clients
          PROVE  Follows(window[d], admitted[d])' /\ (d \notin Members(order)' => window'[d] = <<>>)
      <4>1. Follows(window'[d], admitted'[d]) /\ (d \notin Members(queue) => window'[d] = <<>>)
        BY <2>2, <2>3, <2>4 DEF TableOK
      <4> QED BY <4>1, <1>1 DEF Follows, Limiter!Expired, Members
    <3> QED BY <1>0, <1>1, <2>3, <3>1 DEF TableOK
  <2>6. ASSUME NEW d \in Clients PROVE InOrder(admitted[d])'
    <3>1. InOrder(admitted'[d])
      BY <2>2, <2>4 DEF LimiterInv
    <3> QED BY <3>1 DEF InOrder
  <2>7. AtMostPerMinute'
    BY <2>2, <2>4 DEF LimiterInv, AtMostPerMinute, Limiter!AtMostPerMinute
  <2>8. FullMeansBusy'
    BY <2>1 DEF FullMeansBusy, Limiter!FullMeansBusy
  <2>9. AdviceIsExact' /\ (told' = Limiter!NoAdvice \/ told'.client \in Clients)
    <3>1. CASE told.client = c \/ told = Limiter!NoAdvice
      BY <2>1, <3>1, NoAdviceIsExact
    <3>2. CASE told.client # c /\ told.client \in Clients
      BY <2>1, <2>4, <3>2, AdviceStands DEF LimiterInv
    <3> QED BY <1>0, <3>1, <3>2
  <2>10. Limiter!TypeOK'
    <3>1. told' \in [client : Clients \union {NoClient}, at : Nat, wait : Nat]
      BY <1>0, <2>1 DEF Limiter!NoAdvice
    <3> QED BY <1>0, <1>1, <2>1, <2>3, <2>4, <3>1 DEF LimiterInv, Limiter!TypeOK
  <2> QED BY <2>5, <2>6, <2>7, <2>8, <2>9, <2>10 DEF LimiterInv
<1> QED BY <1>1, <1>2, <1>3, <1>4, LenProperties, Rates

LEMMA CheckKeepsLimiter ==
  ASSUME LimiterInv, NEW c \in Clients, Limiter!CheckKnown(c) \/ Limiter!CheckUnseen(c)
  PROVE  LimiterInv'
<1>0. /\ order \in Seq(Clients) /\ DOMAIN order = 1..Len(order) /\ TableOK(order, window)
      /\ clock' = clock
  BY LenProperties DEF LimiterInv, Limiter!TypeOK, Limiter!CheckKnown, Limiter!CheckUnseen
<1>1. CASE Limiter!CheckKnown(c)
  <2>1. PICK queue \in Limiter!MovedToEnd(c) : Limiter!Decide(c, queue, window)
    BY <1>1 DEF Limiter!CheckKnown
  <2>2. PICK i \in DOMAIN order :
          /\ order[i] = c
          /\ queue = SubSeq(order, 1, i - 1) \o SubSeq(order, i + 1, Len(order)) \o <<c>>
    BY <2>1 DEF Limiter!MovedToEnd
  <2> DEFINE rest == Dropped(order, i)
  <2>3. /\ rest \in Seq(Clients) /\ DOMAIN rest = 1..(Len(order) - 1) /\ Len(rest) = Len(order) - 1
        /\ \A k \in 1..(Len(order) - 1) : rest[k] = IF k < i THEN order[k] ELSE order[k + 1]
    BY <1>0, DroppedElement
  <2>4. queue = rest \o <<c>>
    BY <2>2 DEF Dropped
  <2> HIDE DEF rest
  <2>5. /\ queue \in Seq(Clients) /\ Len(queue) = Len(rest) + 1
        /\ \A k \in 1..(Len(rest) + 1) : queue[k] = IF k <= Len(rest) THEN rest[k] ELSE c
    <3>1. <<c>> \in Seq(Clients) /\ Len(<<c>>) = 1 /\ <<c>>[1] = c
      OBVIOUS
    <3>2. Len(rest) \in Nat
      BY <2>3, LenProperties
    <3>3. /\ queue \in Seq(Clients) /\ Len(queue) = Len(rest) + Len(<<c>>)
          /\ \A k \in 1..(Len(rest) + Len(<<c>>)) :
               queue[k] = IF k <= Len(rest) THEN rest[k] ELSE <<c>>[k - Len(rest)]
      BY <2>3, <2>4, <3>1, ConcatProperties
    <3>4. ASSUME NEW k \in 1..(Len(rest) + 1), ~(k <= Len(rest)) PROVE k - Len(rest) = 1
      BY <3>2, <3>4
    <3> QED BY <3>1, <3>3, <3>4
  <2>6. DOMAIN queue = 1..Len(queue) /\ Len(order) \in Nat /\ Len(rest) \in Nat
    BY <1>0, <2>3, <2>5, LenProperties
  <2>7. c \in Members(queue)
    <3>1. Len(rest) + 1 \in DOMAIN queue /\ queue[Len(rest) + 1] = c
      BY <2>5, <2>6
    <3> QED BY <3>1 DEF Members
  <2>8. ASSUME NEW d \in Members(order) PROVE d \in Members(queue)
    <3>1. PICK j \in DOMAIN order : order[j] = d
      BY DEF Members
    <3>2. CASE j = i
      BY <2>2, <2>7, <3>1, <3>2
    <3>3. CASE j < i
      <4>1. j \in 1..(Len(order) - 1) /\ j \in 1..(Len(rest) + 1) /\ j <= Len(rest)
        BY <1>0, <2>3, <2>6, <3>3
      <4>2. queue[j] = d /\ j \in DOMAIN queue
        BY <2>3, <2>5, <2>6, <3>1, <3>3, <4>1
      <4> QED BY <4>2 DEF Members
    <3>4. CASE j > i
      <4> DEFINE k == j - 1
      <4>1. /\ k \in 1..(Len(order) - 1) /\ k \in 1..(Len(rest) + 1) /\ k <= Len(rest)
            /\ ~(k < i) /\ k + 1 = j
        BY <1>0, <2>3, <2>6, <3>4
      <4> HIDE DEF k
      <4>2. queue[k] = d /\ k \in DOMAIN queue
        BY <2>3, <2>5, <2>6, <3>1, <4>1
      <4> QED BY <4>2 DEF Members
    <3> QED BY <1>0, <2>6, <3>2, <3>3, <3>4
  <2>9. TableOK(queue, window)
    BY <1>0, <2>5, <2>8 DEF TableOK
  <2> QED BY <1>0, <2>1, <2>7, <2>9, DecideKeepsLimiter
<1>2. CASE Limiter!CheckUnseen(c)
  <2>1. PICK r \in Limiter!Reclaimed :
          \/ /\ Len(r.order) >= MaxClients
             /\ order' = r.order
             /\ window' = r.window
             /\ Limiter!Reject(c, "full")
          \/ /\ Len(r.order) < MaxClients
             /\ Limiter!Decide(c, Append(r.order, c), [r.window EXCEPT ![c] = <<>>])
    BY <1>2 DEF Limiter!CheckUnseen
  <2>2. /\ TableOK(r.order, r.window)
        /\ Len(r.order) > 0 => \E d \in Clients : \E i \in DOMAIN admitted[d] :
                                 ~Limiter!Expired(admitted[d][i])
    BY ReclaimedTable
  <2>3. CASE /\ Len(r.order) >= MaxClients /\ order' = r.order /\ window' = r.window
             /\ Limiter!Reject(c, "full")
    <3>1. /\ answer' = [client |-> c, said |-> "full"] /\ asking' = asking \union {c}
          /\ UNCHANGED <<admitted, told, clock>> /\ order' = r.order /\ window' = r.window
      BY <1>0, <2>3 DEF Limiter!Reject
    <3>2. TableOK(order, window)'
      <4>1. ASSUME NEW d \in Clients
            PROVE  Follows(window[d], admitted[d])' /\ (d \notin Members(order)' => window'[d] = <<>>)
        <5>1. Follows(window'[d], admitted[d]) /\ (d \notin Members(r.order) => window'[d] = <<>>)
          BY <2>2, <3>1 DEF TableOK
        <5> QED BY <5>1, <3>1 DEF Follows, Limiter!Expired, Members
      <4> QED BY <2>2, <3>1, <4>1 DEF TableOK
    <3>3. Limiter!TypeOK'
      BY <2>2, <3>1 DEF LimiterInv, Limiter!TypeOK, TableOK
    <3>4. AtMostPerMinute' /\ \A d \in Clients : InOrder(admitted[d])'
      BY <3>1 DEF LimiterInv, AtMostPerMinute, Limiter!AtMostPerMinute, InOrder
    <3>5. FullMeansBusy'
      <4>1. Len(r.order) > 0
        BY <2>2, <2>3, Rates, LenProperties DEF TableOK
      <4> QED BY <2>2, <3>1, <4>1 DEF FullMeansBusy, Limiter!FullMeansBusy, Limiter!Expired
    <3>6. AdviceIsExact' /\ (told' = Limiter!NoAdvice \/ told'.client \in Clients)
      BY <3>1, AdviceStands, NoAdviceIsExact DEF LimiterInv
    <3> QED BY <3>2, <3>3, <3>4, <3>5, <3>6 DEF LimiterInv
  <2>4. CASE Limiter!Decide(c, Append(r.order, c), [r.window EXCEPT ![c] = <<>>])
    <3> DEFINE queue == Append(r.order, c)
               table == [r.window EXCEPT ![c] = <<>>]
    <3>1. /\ r.order \in Seq(Clients) /\ r.window \in [Clients -> Seq(Nat)]
          /\ Len(r.order) \in Nat /\ <<>> \in Seq(Nat)
      BY <2>2, LenProperties, EmptySeq DEF TableOK
    <3>2. window[c] = <<>>
      BY <1>0, <1>2 DEF TableOK, Limiter!CheckUnseen, Limiter!Tracked, Members
    <3>3. Follows(<<>>, admitted[c])
      BY <1>0, <3>2 DEF TableOK
    <3>4. /\ queue \in Seq(Clients) /\ Len(queue) = Len(r.order) + 1
          /\ queue[Len(r.order) + 1] = c
          /\ \A i \in 1..Len(r.order) : queue[i] = r.order[i]
      BY <3>1, AppendProperties
    <3>5. DOMAIN queue = 1..(Len(r.order) + 1) /\ DOMAIN r.order = 1..Len(r.order)
      BY <3>1, <3>4, LenProperties
    <3>6. /\ table \in [Clients -> Seq(Nat)] /\ table[c] = <<>>
          /\ \A d \in Clients : d # c => table[d] = r.window[d]
      BY <3>1
    <3> HIDE DEF queue, table
    <3>7. c \in Members(queue) /\ \A d \in Members(r.order) : d \in Members(queue)
      <4>1. Len(r.order) + 1 \in DOMAIN queue /\ \A i \in DOMAIN r.order : i \in DOMAIN queue
        BY <3>1, <3>5
      <4> QED BY <3>4, <3>5, <4>1 DEF Members
    <3>8. TableOK(queue, table)
      BY <2>2, <3>3, <3>4, <3>6, <3>7 DEF TableOK
    <3>9. Limiter!Decide(c, queue, table)
      BY <2>4 DEF queue, table
    <3> QED BY <1>0, <3>7, <3>8, <3>9, DecideKeepsLimiter
  <2> QED BY <2>1, <2>3, <2>4
<1> QED BY <1>1, <1>2

(* The advice for a window that has just been pruned. *)
LEMMA AdviceForWindow ==
  ASSUME LimiterInv, NEW c \in Clients, NEW w \in Limiter!Pruned(window[c]),
         NEW wait,
         wait = IF Len(w) < PerMinute THEN 1
                ELSE Limiter!Longest(1, Limiter!Ceiling(w[1] + Window - clock, Second))
  PROVE  /\ wait \in Nat
         /\ ~Limiter!Full(c, clock + wait * Second + 1)
         /\ wait > 1 => Limiter!Full(c, clock + (wait - 1) * Second)
<1> DEFINE h == admitted[c]
<1>0. /\ clock \in Nat /\ h \in Seq(Nat) /\ window[c] \in Seq(Nat) /\ InOrder(h)
      /\ Follows(window[c], h)
  BY DEF LimiterInv, Limiter!TypeOK, TableOK
<1>1. w \in Seq(Nat) /\ Follows(w, h) /\ (Len(w) > 0 => ~Limiter!Expired(w[1]))
  BY <1>0, PrunedFollows
<1>2. /\ Len(w) \in Nat /\ Len(h) \in Nat /\ Len(w) <= Len(h) /\ Len(w) <= PerMinute
      /\ DOMAIN h = 1..Len(h) /\ \A i \in 1..Len(h) : h[i] \in Nat /\ h[i] <= clock
  BY <1>0, <1>1, LenProperties DEF Follows, InOrder
<1>3. \A t : Limiter!LiveAt(c, t) = {i \in 1..Len(h) : t - h[i] <= Window}
  BY <1>2 DEF Limiter!LiveAt
<1> HIDE DEF h
<1>4. CASE Len(w) < PerMinute
  <2>1. wait = 1
    BY <1>4
  <2>2. wait * Second = Second
    BY <2>1, Rates
  <2> DEFINE t == clock + Second + 1
  <2>3. ASSUME NEW i \in 1..Len(h), t - h[i] <= Window, i + PerMinute - 1 \in 1..Len(h) PROVE FALSE
    <3>1. i \in 1..(Len(h) - Len(w))
      BY <1>2, <1>4, <2>3, Rates
    <3>2. clock - h[i] > Window
      BY <1>1, <3>1 DEF Follows, Limiter!Expired
    <3> QED BY <1>0, <1>2, <2>3, <3>2, Rates
  <2>4. ~Limiter!Full(c, t)
    BY <1>3, <2>3 DEF Limiter!Full
  <2> QED BY <2>1, <2>2, <2>4
<1>5. CASE Len(w) = PerMinute
  <2> DEFINE first == Len(h) - PerMinute + 1
             x == w[1] + Window - clock
             q == Limiter!Ceiling(x, Second)
  <2>1. first \in 1..Len(h) /\ w[1] = h[first] /\ w[1] \in Nat
    <3>1. 1 \in 1..Len(w) /\ first \in 1..Len(h)
      BY <1>2, <1>5, Rates
    <3>2. w[1] = h[Len(h) - Len(w) + 1]
      BY <1>1, <3>1 DEF Follows
    <3> QED BY <1>2, <1>5, <3>1, <3>2
  <2>2. x \in Nat
    <3>1. ~(clock - w[1] > Window)
      BY <1>1, <1>5, Rates DEF Limiter!Expired
    <3>2. clock \in Nat /\ Window \in Nat /\ w[1] \in Nat
      BY <1>0, <2>1, Rates
    <3> QED BY <3>1, <3>2
  <2>3. q \in Nat /\ q * Second >= x /\ (q - 1) * Second < x
    BY <2>2, Ceilings, Rates
  <2>4. wait = IF 1 > q THEN 1 ELSE q
    BY <1>5, Rates DEF Limiter!Longest
  <2> HIDE DEF q
  <2>5. wait \in Nat /\ wait * Second \in Nat /\ wait * Second >= x
    <3>1. CASE 1 > q
      <4>1. wait = 1 /\ q = 0
        BY <2>3, <2>4, <3>1
      <4>2. q * Second = 0 /\ wait * Second = Second
        BY <4>1, Rates
      <4> QED BY <2>2, <2>3, <4>1, <4>2, Rates
    <3>2. CASE ~(1 > q)
      <4>1. wait = q
        BY <2>4, <3>2
      <4>2. q * Second \in Nat
        BY <2>3, Rates
      <4> QED BY <2>3, <4>1, <4>2
    <3> QED BY <3>1, <3>2
  <2> DEFINE d == wait * Second
  <2>6. d \in Nat /\ d >= x
    BY <2>5
  <2> HIDE DEF d
  <2>7. ASSUME NEW i \in 1..Len(h), i + PerMinute - 1 \in 1..Len(h) PROVE ~((clock + d + 1) - h[i] <= Window)
    <3>1. i <= first
      BY <1>2, <2>7, Rates
    <3>2. h[i] <= h[first]
      BY <1>0, <1>2, <2>1, <3>1 DEF InOrder
    <3>3. h[i] \in Nat /\ h[first] \in Nat
      BY <1>2, <2>1
    <3>4. d >= h[first] + Window - clock
      BY <2>1, <2>6
    <3>5. d \in Nat /\ clock \in Nat /\ Window \in Nat
      BY <1>0, <2>6, Rates
    <3>6. \A a, b, k, m, v \in Nat : a <= b /\ k >= b + v - m => ~((m + k + 1) - a <= v)
      OBVIOUS
    <3> QED BY <3>2, <3>3, <3>4, <3>5, <3>6
  <2>8. ~Limiter!Full(c, clock + d + 1)
    <3>1. Limiter!LiveAt(c, clock + d + 1) = {i \in 1..Len(h) : (clock + d + 1) - h[i] <= Window}
      BY <1>3
    <3> QED BY <2>7, <3>1 DEF Limiter!Full
  <2>9. ASSUME wait > 1 PROVE Limiter!Full(c, clock + (wait - 1) * Second)
    <3>1. wait = q
      BY <2>3, <2>4, <2>9
    <3> DEFINE e == (wait - 1) * Second
               s == clock + e
    <3>2. e \in Nat /\ e < x
      <4>1. wait - 1 \in Nat
        BY <2>5, <2>9
      <4> QED BY <2>3, <3>1, <4>1, Rates
    <3> HIDE DEF e
    <3>3. s - h[first] <= Window
      BY <1>0, <2>1, <3>2, Rates
    <3>4. Len(h) \in 1..Len(h) /\ first + PerMinute - 1 = Len(h) /\ h[first] <= h[Len(h)]
      <4>1. Len(h) \in 1..Len(h) /\ first + PerMinute - 1 = Len(h) /\ first <= Len(h)
        BY <1>2, <2>1, Rates
      <4> QED BY <1>0, <1>2, <2>1, <4>1 DEF InOrder
    <3>5. s - h[Len(h)] <= Window
      <4>1. h[Len(h)] \in Nat /\ h[first] \in Nat
        BY <1>2, <2>1, <3>4
      <4>2. clock \in Nat /\ s \in Nat /\ Window \in Nat
        BY <1>0, <3>2, Rates
      <4>3. h[first] <= h[Len(h)] /\ s - h[first] <= Window
        BY <3>3, <3>4
      <4> HIDE DEF s, first, h
      <4> QED BY <4>1, <4>2, <4>3
    <3>6. first \in Limiter!LiveAt(c, s) /\ first + PerMinute - 1 \in Limiter!LiveAt(c, s)
      BY <1>3, <2>1, <3>3, <3>4, <3>5
    <3> QED BY <3>6 DEF Limiter!Full, e
  <2> QED BY <2>5, <2>8, <2>9 DEF d
<1> QED BY <1>2, <1>4, <1>5, Rates

LEMMA RetryKeepsLimiter ==
  ASSUME LimiterInv, NEW c \in Clients, Limiter!RetryAfter(c) PROVE LimiterInv'
<1>0. /\ clock \in Nat /\ admitted \in [Clients -> Seq(Nat)] /\ asking \in SUBSET Clients
      /\ window \in [Clients -> Seq(Nat)] /\ TableOK(order, window)
  BY DEF LimiterInv, Limiter!TypeOK
<1>1. PICK w \in Limiter!Pruned(window[c]) :
        /\ window' = [window EXCEPT ![c] = w]
        /\ told' = [client |-> c, at |-> clock,
                    wait |-> IF Len(w) < PerMinute THEN 1
                             ELSE Limiter!Longest(1, Limiter!Ceiling(w[1] + Window - clock, Second))]
  BY DEF Limiter!RetryAfter
<1>2. asking' = asking \ {c} /\ UNCHANGED <<clock, order, admitted, answer>>
  BY DEF Limiter!RetryAfter
<1>3. w \in Seq(Nat) /\ Follows(w, admitted[c])
  BY <1>0, PrunedFollows DEF TableOK
<1> DEFINE wait == IF Len(w) < PerMinute THEN 1
                   ELSE Limiter!Longest(1, Limiter!Ceiling(w[1] + Window - clock, Second))
<1>4. /\ wait \in Nat
      /\ ~Limiter!Full(c, clock + wait * Second + 1)
      /\ wait > 1 => Limiter!Full(c, clock + (wait - 1) * Second)
  BY AdviceForWindow
<1>5. told' = [client |-> c, at |-> clock, wait |-> wait]
  BY <1>1
<1> HIDE DEF wait
<1>6. TableOK(order, window)'
  <2>1. window' \in [Clients -> Seq(Nat)] /\ window'[c] = w
        /\ \A d \in Clients : d # c => window'[d] = window[d]
    BY <1>0, <1>1, <1>3
  <2>2. ASSUME NEW d \in Clients
        PROVE  Follows(window[d], admitted[d])' /\ (d \notin Members(order)' => window'[d] = <<>>)
    <3>1. Follows(window'[d], admitted[d])
      BY <1>0, <1>3, <2>1 DEF TableOK
    <3>2. ASSUME d \notin Members(order) PROVE window'[d] = <<>>
      <4>1. window[d] = <<>>
        BY <1>0, <3>2 DEF TableOK
      <4>2. d = c => w = <<>>
        <5>1. \A k \in 0..Len(<<>>) : SubSeq(<<>>, k + 1, Len(<<>>)) = <<>>
          BY EmptySeq, SubSeqEmpty
        <5> QED BY <4>1, <5>1 DEF Limiter!Pruned
      <4> QED BY <2>1, <4>1, <4>2
    <3> QED BY <1>2, <3>1, <3>2 DEF Follows, Limiter!Expired, Members
  <2> QED BY <1>0, <1>2, <2>1, <2>2 DEF TableOK
<1>7. Limiter!TypeOK'
  BY <1>0, <1>2, <1>4, <1>5, <1>6 DEF LimiterInv, Limiter!TypeOK, TableOK
<1>8. AtMostPerMinute' /\ FullMeansBusy' /\ \A d \in Clients : InOrder(admitted[d])'
  BY <1>2 DEF LimiterInv, AtMostPerMinute, Limiter!AtMostPerMinute, FullMeansBusy,
              Limiter!FullMeansBusy, Limiter!Expired, InOrder
<1>9. AdviceIsExact'
  BY <1>2, <1>4, <1>5 DEF AdviceIsExact, Limiter!AdviceIsExact, Limiter!Full, Limiter!LiveAt
<1> QED BY <1>5, <1>6, <1>7, <1>8, <1>9 DEF LimiterInv

LEMMA TickKeepsLimiter ==
  ASSUME LimiterInv, Limiter!Tick PROVE LimiterInv'
<1>0. /\ clock \in Nat /\ clock' = clock + 1 /\ answer' = Limiter!NoAnswer
      /\ UNCHANGED <<order, window, admitted, asking, told>>
      /\ admitted \in [Clients -> Seq(Nat)] /\ TableOK(order, window)
  BY DEF LimiterInv, Limiter!TypeOK, Limiter!Tick
<1>1. ASSUME NEW c \in Clients PROVE InOrder(admitted[c])' /\ Follows(window[c], admitted[c])'
  <2> DEFINE h == admitted[c]
             w == window[c]
  <2>1. /\ InOrder(h) /\ Follows(w, h) /\ DOMAIN h = 1..Len(h) /\ Len(h) \in Nat
        /\ \A i \in 1..Len(h) : h[i] \in Nat
    BY <1>0, LenProperties DEF LimiterInv, TableOK
  <2>2. h' = h /\ w' = w
    BY <1>0
  <2>3. InOrder(h)'
    BY <1>0, <2>1, <2>2 DEF InOrder
  <2>4. \A i \in 1..Len(h) : Limiter!Expired(h[i]) => clock + 1 - h[i] > Window
    BY <1>0, <2>1, Rates DEF Limiter!Expired
  <2>5. \A i \in 1..(Len(h) - Len(w)) : i \in 1..Len(h)
    BY <1>0, <2>1, LenProperties DEF TableOK
  <2>6. Follows(w, h)'
    <3>1. \A i \in 1..(Len(h) - Len(w)) : Limiter!Expired(h[i])
      BY <2>1 DEF Follows
    <3>2. ASSUME NEW i \in 1..(Len(h) - Len(w)) PROVE clock' - h[i] > Window
      <4>1. i \in 1..Len(h) /\ Limiter!Expired(h[i])
        BY <2>5, <3>1
      <4>2. clock + 1 - h[i] > Window
        BY <2>4, <4>1
      <4> QED BY <1>0, <4>2
    <3>3. /\ Len(w) <= Len(h) /\ Len(w) <= PerMinute
          /\ \A i \in 1..Len(w) : w[i] = h[Len(h) - Len(w) + i]
      BY <2>1 DEF Follows
    <3> HIDE DEF h, w
    <3> QED BY <2>2, <3>2, <3>3 DEF Follows, Limiter!Expired
  <2> QED BY <2>3, <2>6
<1>2. TableOK(order, window)'
  BY <1>0, <1>1 DEF TableOK, Members
<1>3. Limiter!TypeOK'
  BY <1>0 DEF LimiterInv, Limiter!TypeOK, Limiter!NoAnswer
<1>4. AtMostPerMinute' /\ FullMeansBusy'
  BY <1>0 DEF LimiterInv, AtMostPerMinute, Limiter!AtMostPerMinute, FullMeansBusy,
              Limiter!FullMeansBusy, Limiter!NoAnswer
<1>5. AdviceIsExact' /\ (told' = Limiter!NoAdvice \/ told'.client \in Clients)
  BY <1>0, AdviceStands, NoAdviceIsExact DEF LimiterInv
<1> QED BY <1>1, <1>2, <1>3, <1>4, <1>5 DEF LimiterInv

LEMMA LimiterSteps == LimiterInv /\ [ProcessNext]_processVars => LimiterInv'
<1> SUFFICES ASSUME LimiterInv, [ProcessNext]_processVars PROVE LimiterInv'
  OBVIOUS
<1>1. CASE UNCHANGED limiter
  BY <1>1 DEF limiter, LimiterInv, Limiter!TypeOK, TableOK, Follows, Limiter!Expired, Members, InOrder,
              AtMostPerMinute, Limiter!AtMostPerMinute, FullMeansBusy, Limiter!FullMeansBusy,
              AdviceIsExact, Limiter!AdviceIsExact, Limiter!Full, Limiter!LiveAt
<1>2. CASE Limiter!Next
  BY <1>2, CheckKeepsLimiter, RetryKeepsLimiter, TickKeepsLimiter DEF Limiter!Next
<1> QED BY <1>1, <1>2 DEF ProcessNext, processVars, OnLimiter, OnClient, OnIndex, OnListing, OnReview, OnChat

(* For any clients, rate, table and window: PerMinute + 1 admissions of a  *)
(* client in a row span more than the window (RateLimiter.check).          *)
THEOREM LimiterAtMostPerMinute == ProcessSpec => []AtMostPerMinute
<1>1. LimiterInv => AtMostPerMinute
  BY DEF LimiterInv
<1> QED BY <1>1, LimiterInitially, LimiterSteps, PTL DEF ProcessSpec

(* Nobody is refused for want of a place in the table while it is full of  *)
(* clients that are gone.                                                  *)
THEOREM LimiterFullMeansBusy == ProcessSpec => []FullMeansBusy
<1>1. LimiterInv => FullMeansBusy
  BY DEF LimiterInv
<1> QED BY <1>1, LimiterInitially, LimiterSteps, PTL DEF ProcessSpec

(* Who waits for longer than retry_after tells finds room, and a second    *)
(* less than that, where it is more than one, is too short, whatever       *)
(* happened since the rejection.                                           *)
THEOREM LimiterAdviceIsExact == ProcessSpec => []AdviceIsExact
<1>1. LimiterInv => AdviceIsExact
  BY DEF LimiterInv
<1> QED BY <1>1, LimiterInitially, LimiterSteps, PTL DEF ProcessSpec

-----------------------------------------------------------------------------
(* NothingSkipped.  An edit moves an item to the front and the others      *)
(* back, so what has not been touched since the listing began never gets   *)
(* ahead of a page that is still to come: whatever of it is missing after  *)
(* some pages stands behind them, and behind everything they brought.      *)
Everything == Pulls \union Issues

(* GitHub sorts by the last update. *)
Sorted ==
  \A i, j \in Everything : updated[i] > updated[j] => place[i] < place[j]

(* What the listing is still to bring. *)
Missing == {i \in Listings!Asked \ Listings!Listed : Listings!Untouched(i)}
Place(i) == Cardinality(Listings!Ahead(i, Listings!Matching))

Behind ==
  \A i \in Missing \cap Listings!Matching :
    ~Listings!Reached(i) => Place(i) >= page * Listings!Size

NewestFirst ==
  ~Listings!Incremental =>
    \A i \in Missing, j \in Listings!Listed : Listings!Untouched(j) => updated[i] <= updated[j]

QueryOK ==
  /\ query.begun <= edits
  /\ query.endpoint \in {"pulls", "issues"}
  /\ Listings!Incremental => query.since <= query.begun

ListingInv ==
  /\ Listings!TypeOK
  /\ Sorted
  /\ \A i \in Everything : updated[i] <= edits
  /\ state = "idle" \/ QueryOK
  /\ state = "paging" =>
       /\ Behind /\ NewestFirst
       /\ ~Listings!Incremental => Len(items) < Limit
  /\ NothingSkipped

LEMMA ListingParameters ==
  /\ IsFiniteSet(Everything) /\ Pulls \subseteq Everything
  /\ PerPage \in Nat \ {0} /\ Limit \in Nat \ {0} /\ MaxPages \in Nat /\ MaxEdits \in Nat \ {0}
  /\ Listings!Size \in Nat
  /\ \A S : Listings!Cardinality(S) = Cardinality(S)
<1>1. \A S : Listings!Cardinality(S) = Cardinality(S) /\ (Listings!IsFiniteSet(S) <=> IsFiniteSet(S))
  BY DEF Listings!Cardinality, Cardinality, Listings!IsFiniteSet, IsFiniteSet
<1>2. Listings!ListingAssumption
  BY ProcessAssumption
<1> QED BY <1>1, <1>2 DEF Listings!ListingAssumption, Everything, Listings!Size

(* In a finite part of the list the items have consecutive places. *)
LEMMA Consecutive ==
  ASSUME place \in Listings!Orders, NEW S \in SUBSET Everything
  PROVE  /\ IsFiniteSet(S) /\ Cardinality(S) \in Nat
         /\ \A i \in Everything : Cardinality(Listings!Ahead(i, S)) \in Nat
         /\ \A i \in S : Cardinality(Listings!Ahead(i, S)) < Cardinality(S)
         /\ \A i, j \in S : place[i] < place[j]
              <=> Cardinality(Listings!Ahead(i, S)) < Cardinality(Listings!Ahead(j, S))
         /\ \A k \in 1..Cardinality(S) : \E i \in S : Cardinality(Listings!Ahead(i, S)) = k - 1
<1> DEFINE InFront(i) == Cardinality(Listings!Ahead(i, S))
<1>0. \A i \in Everything : place[i] \in Int /\ \A j \in Everything : place[i] = place[j] => i = j
  BY ListingParameters, FS_CardinalityType DEF Listings!Orders, Everything
<1>1. IsFiniteSet(S) /\ Cardinality(S) \in Nat
  BY ListingParameters, FS_Subset, FS_CardinalityType
<1>2. ASSUME NEW i \in Everything
      PROVE  /\ IsFiniteSet(Listings!Ahead(i, S))
             /\ InFront(i) \in Nat
             /\ i \notin Listings!Ahead(i, S)
  <2>1. Listings!Ahead(i, S) \in SUBSET S /\ i \notin Listings!Ahead(i, S)
    BY <1>0 DEF Listings!Ahead
  <2> QED BY <1>1, <2>1, FS_Subset, FS_CardinalityType
<1>3. ASSUME NEW i \in S, NEW T \in SUBSET S, Listings!Ahead(i, S) \union {i} \subseteq T
      PROVE  InFront(i) < Cardinality(T)
  <2>1. Cardinality(Listings!Ahead(i, S) \union {i}) = InFront(i) + 1
    BY <1>2, FS_AddElement
  <2>2. IsFiniteSet(T) /\ Cardinality(T) \in Nat
    BY <1>1, FS_Subset, FS_CardinalityType
  <2>3. Cardinality(Listings!Ahead(i, S) \union {i}) <= Cardinality(T)
    BY <1>3, <2>2, FS_Subset
  <2> HIDE DEF InFront
  <2> QED BY <1>2, <2>1, <2>2, <2>3
<1>4. \A i \in S : InFront(i) < Cardinality(S)
  BY <1>3 DEF Listings!Ahead
<1>5. ASSUME NEW i \in S, NEW j \in S, place[i] < place[j] PROVE InFront(i) < InFront(j)
  <2>1. Listings!Ahead(j, S) \in SUBSET S /\ Listings!Ahead(i, S) \union {i} \subseteq Listings!Ahead(j, S)
    BY <1>0, <1>5 DEF Listings!Ahead
  <2> QED BY <1>3, <2>1
<1> HIDE DEF InFront
<1>6. ASSUME NEW i \in S, NEW j \in S, InFront(i) < InFront(j) PROVE place[i] < place[j]
  <2>1. CASE place[j] < place[i]
    BY <1>2, <1>5, <1>6, <2>1
  <2>2. CASE place[i] = place[j]
    BY <1>0, <1>2, <1>6, <2>2
  <2> QED BY <1>0, <2>1, <2>2
<1>7. ASSUME NEW k \in 1..Cardinality(S) PROVE \E i \in S : InFront(i) = k - 1
  <2> DEFINE n == Cardinality(S)
             f == [i \in S |-> InFront(i)]
             T == 0..(n - 1)
  <2>1. f \in [S -> T]
    BY <1>1, <1>2, <1>4
  <2>2. \A i, j \in S : f[i] = f[j] => i = j
    <3>1. \A i, j \in S : InFront(i) = InFront(j) => ~(place[i] < place[j]) /\ ~(place[j] < place[i])
      BY <1>2, <1>5
    <3> QED BY <1>0, <3>1
  <2>3. f \in Injection(S, T)
    BY <2>1, <2>2 DEF Injection, IsInjective
  <2>4. IsFiniteSet(T) /\ Cardinality(T) = n
    <3>1. 0 \in Int /\ n - 1 \in Int /\ n \in Nat
      BY <1>1
    <3> HIDE DEF n
    <3>2. IsFiniteSet(T) /\ Cardinality(T) = IF 0 > n - 1 THEN 0 ELSE (n - 1) - 0 + 1
      BY <3>1, FS_Interval
    <3> QED BY <3>1, <3>2
  <2>5. f \in Surjection(S, T)
    BY <2>3, <2>4, FS_Injection
  <2>6. k - 1 \in T
    BY <1>1
  <2> QED BY <2>5, <2>6 DEF Surjection
<1> QED BY <1>1, <1>2, <1>4, <1>5, <1>6, <1>7 DEF InFront

(* The rows of a page: each item of it once, in the order of the list.     *)
LEMMA RowsInOrder ==
  ASSUME place \in Listings!Orders, NEW S \in SUBSET Everything
  PROVE  LET fresh == Listings!Rows(S) IN
         /\ fresh \in Seq(S) /\ Len(fresh) \in Nat
         /\ DOMAIN fresh = 1..Len(fresh)
         /\ {fresh[k] : k \in 1..Len(fresh)} = S
         /\ \A k, l \in 1..Len(fresh) : k < l => place[fresh[k]] < place[fresh[l]]
<1> DEFINE InFront(i) == Cardinality(Listings!Ahead(i, S))
           n == Cardinality(S)
           listed == Listings!Rows(S)
<1>1. /\ n \in Nat
      /\ \A i \in S : InFront(i) \in Nat /\ InFront(i) < n
      /\ \A i, j \in S : place[i] < place[j] <=> InFront(i) < InFront(j)
      /\ \A k \in 1..n : \E i \in S : InFront(i) = k - 1
  BY Consecutive
<1>2. \A i, j \in S : InFront(i) = InFront(j) => i = j
  <2>1. \A i, j \in S : InFront(i) = InFront(j) => ~(place[i] < place[j]) /\ ~(place[j] < place[i])
    BY <1>1
  <2>2. \A i, j \in S : /\ place[i] \in Int /\ place[j] \in Int
                        /\ place[i] = place[j] => i = j
    BY ListingParameters, FS_CardinalityType DEF Listings!Orders, Everything
  <2> QED BY <2>1, <2>2
<1>3. listed = [k \in 1..n |-> CHOOSE i \in S : InFront(i) = k - 1]
  BY ListingParameters DEF Listings!Rows
<1> HIDE DEF InFront, n, listed
<1>4. \A k \in 1..n : listed[k] \in S /\ InFront(listed[k]) = k - 1
  BY <1>1, <1>3
<1>5. listed \in Seq(S) /\ Len(listed) = n /\ DOMAIN listed = 1..n
  BY <1>1, <1>3, <1>4
<1>6. ASSUME NEW i \in S PROVE \E k \in 1..n : listed[k] = i
  <2>1. InFront(i) + 1 \in 1..n
    BY <1>1
  <2>2. listed[InFront(i) + 1] \in S /\ InFront(listed[InFront(i) + 1]) = InFront(i)
    BY <1>1, <1>4, <2>1
  <2> QED BY <1>2, <2>1, <2>2
<1>7. {listed[k] : k \in 1..n} = S
  BY <1>4, <1>6
<1>8. \A k, l \in 1..n : k < l => place[listed[k]] < place[listed[l]]
  BY <1>1, <1>4
<1> QED BY <1>1, <1>5, <1>7, <1>8 DEF listed

LEMMA ListingInitially == ProcessInit => ListingInv
<1> SUFFICES ASSUME Listings!Init PROVE ListingInv
  BY DEF ProcessInit
<1> USE DEF Listings!Init
<1>1. Listings!TypeOK
  BY ListingParameters, EmptySeq
     DEF Listings!TypeOK, Listings!NoQuery, Listings!NoCursor
<1>2. Sorted
  BY DEF Sorted, Everything
<1>3. \A i \in Everything : updated[i] <= edits
  BY DEF Everything
<1>4. NothingSkipped
  BY DEF NothingSkipped, Listings!NothingSkipped
<1> QED BY <1>1, <1>2, <1>3, <1>4 DEF ListingInv

(* An edit keeps the order of the other items, and none of them moves      *)
(* forward.                                                                *)
LEMMA EditOrder ==
  ASSUME Listings!TypeOK, NEW e \in Everything, Listings!Edit(e)
  PROVE  /\ place' \in Listings!Orders
         /\ \A j \in Everything \ {e} : place'[e] < place'[j]
         /\ \A i, j \in Everything \ {e} : place[i] < place[j] => place'[i] < place'[j]
<1> DEFINE n == Cardinality(Everything)
<1>0. /\ n \in Nat /\ place \in [Everything -> 1..n]
      /\ \A i, j \in Everything : place[i] = place[j] => i = j
  BY ListingParameters, FS_CardinalityType DEF Listings!TypeOK, Listings!Orders, Everything
<1>1. place' = [j \in Everything |-> IF j = e THEN 1
                                     ELSE IF place[j] < place[e] THEN place[j] + 1 ELSE place[j]]
  BY DEF Listings!Edit, Everything
<1> HIDE DEF n
<1>2. ASSUME NEW j \in Everything \ {e}
      PROVE  place'[e] = 1 /\ place'[j] \in 1..n /\ 1 < place'[j]
  <2>1. /\ place[j] \in 1..n /\ place[e] \in 1..n /\ place[j] # place[e] /\ place'[e] = 1
        /\ place'[j] = IF place[j] < place[e] THEN place[j] + 1 ELSE place[j]
    BY <1>0, <1>1
  <2> QED BY <1>0, <2>1
<1>3. ASSUME NEW i \in Everything \ {e}, NEW j \in Everything \ {e}, place[i] < place[j]
      PROVE  place'[i] < place'[j]
  <2>1. /\ place[i] \in 1..n /\ place[j] \in 1..n /\ place[e] \in 1..n
        /\ place[j] # place[e]
        /\ place'[i] = IF place[i] < place[e] THEN place[i] + 1 ELSE place[i]
        /\ place'[j] = IF place[j] < place[e] THEN place[j] + 1 ELSE place[j]
    BY <1>0, <1>1
  <2> QED BY <1>0, <1>3, <2>1
<1>4. place' \in [Everything -> 1..n]
  <2>1. place'[e] = 1 /\ 1 \in 1..n
    BY <1>0, <1>1
  <2>2. \A j \in Everything : place'[j] \in 1..n
    BY <1>2, <2>1
  <2> QED BY <1>1, <2>2
<1>5. \A i, j \in Everything : place'[i] = place'[j] => i = j
  <2> SUFFICES ASSUME NEW i \in Everything, NEW j \in Everything, i # j PROVE place'[i] # place'[j]
    OBVIOUS
  <2>1. CASE i = e \/ j = e
    BY <1>0, <1>2, <2>1
  <2>2. CASE i # e /\ j # e
    <3>1. place[i] < place[j] \/ place[j] < place[i]
      BY <1>0
    <3>2. place'[i] < place'[j] \/ place'[j] < place'[i]
      BY <1>3, <2>2, <3>1
    <3> QED BY <1>4, <3>2
  <2> QED BY <2>1, <2>2
<1>6. place' \in Listings!Orders
  BY <1>4, <1>5, ListingParameters DEF Listings!Orders, n, Everything
<1> QED BY <1>2, <1>3, <1>6

LEMMA EditKeepsListing ==
  ASSUME ListingInv, NEW e \in Everything, Listings!Edit(e)
  PROVE  ListingInv'
<1>0. /\ Listings!TypeOK /\ Sorted /\ \A i \in Everything : updated[i] <= edits
      /\ edits \in Nat /\ updated \in [Everything -> Nat] /\ query.begun \in Nat
      /\ query.since \in Nat
      /\ state = "idle" \/ QueryOK
      /\ NothingSkipped
  BY ListingParameters DEF ListingInv, Listings!TypeOK, Listings!NoCursor, Everything
<1>1. /\ edits < MaxEdits /\ edits' = edits + 1
      /\ updated' = [updated EXCEPT ![e] = edits + 1]
      /\ UNCHANGED <<query, page, items, state>>
  BY DEF Listings!Edit
<1>2. /\ place' \in Listings!Orders
      /\ \A j \in Everything \ {e} : place'[e] < place'[j]
      /\ \A i, j \in Everything \ {e} : place[i] < place[j] => place'[i] < place'[j]
  BY <1>0, EditOrder
<1>3. /\ updated'[e] = edits + 1
      /\ \A j \in Everything \ {e} : updated'[j] = updated[j]
      /\ \A j \in Everything : updated'[j] \in Nat
  BY <1>0, <1>1
<1>4. Listings!TypeOK'
  <2>1. edits' \in 0..MaxEdits
    BY <1>0, <1>1, ListingParameters
  <2>2. updated' \in [Pulls \union Issues -> 0..MaxEdits]
    BY <1>0, <1>1, ListingParameters DEF Listings!TypeOK
  <2> QED BY <1>0, <1>1, <1>2, <2>1, <2>2 DEF Listings!TypeOK, Listings!Orders, Listings!NoCursor
<1>5. Sorted'
  <2> SUFFICES ASSUME NEW i \in Everything, NEW j \in Everything, updated'[i] > updated'[j]
               PROVE  place'[i] < place'[j]
    BY DEF Sorted
  <2>1. i # j
    BY <1>3
  <2>2. CASE i = e
    BY <1>2, <2>1, <2>2
  <2>3. CASE i # e
    <3>1. updated[j] <= edits /\ updated[i] <= edits
      BY <1>0
    <3>2. j # e
      BY <1>0, <1>3, <2>3, <3>1
    <3>3. place[i] < place[j]
      BY <1>0, <1>3, <2>3, <3>2 DEF Sorted
    <3> QED BY <1>2, <2>3, <3>2, <3>3
  <2> QED BY <2>2, <2>3
<1>6. \A i \in Everything : updated'[i] <= edits'
  BY <1>0, <1>1, <1>3
<1>7. state' = "idle" \/ QueryOK'
  BY <1>0, <1>1 DEF QueryOK, Listings!Incremental, Listings!NoCursor
(* What has been edited now has been touched since the listing began. *)
<1>8. QueryOK => \A i \in Everything : Listings!Untouched(i)' =>
        /\ i # e /\ Listings!Untouched(i) /\ updated'[i] = updated[i]
        /\ Listings!Reached(i)' = Listings!Reached(i)
  <2> SUFFICES ASSUME QueryOK, NEW i \in Everything, Listings!Untouched(i)'
               PROVE  /\ i # e /\ Listings!Untouched(i) /\ updated'[i] = updated[i]
                      /\ Listings!Reached(i)' = Listings!Reached(i)
    OBVIOUS
  <2>1. updated'[i] <= query.begun
    BY <1>1 DEF Listings!Untouched
  <2>2. i # e
    BY <1>0, <1>3, <2>1 DEF QueryOK
  <2> QED BY <1>1, <1>3, <2>1, <2>2 DEF Listings!Untouched, Listings!Reached, Listings!Incremental, Listings!NoCursor
<1>9. /\ Listings!Asked' = Listings!Asked /\ Listings!Listed' = Listings!Listed
      /\ Listings!Incremental' = Listings!Incremental /\ Listings!Size' = Listings!Size
      /\ Listings!Asked \subseteq Everything
      /\ Listings!Listed \subseteq Everything
  <2>1. items \in Seq(Everything)
    BY <1>0 DEF Listings!TypeOK, Everything
  <2>2. \A k \in DOMAIN items : items[k] \in Everything
    BY <2>1
  <2> QED BY <1>1, <2>2, ListingParameters
      DEF Listings!Asked, Listings!Listed, Listings!Incremental, Listings!Size,
          Listings!NoCursor, Everything
<1>10. QueryOK => Missing' \subseteq Missing
  BY <1>8, <1>9 DEF Missing
<1>11. ASSUME state = "paging" PROVE Behind' /\ NewestFirst' /\ (~Listings!Incremental' => Len(items') < Limit)
  <2>0. QueryOK /\ Behind /\ NewestFirst /\ (~Listings!Incremental => Len(items) < Limit)
    BY <1>0, <1>11 DEF ListingInv
  <2>1. NewestFirst'
    BY <1>8, <1>9, <1>10, <2>0 DEF NewestFirst, Missing
  <2>2. ASSUME NEW i \in Missing', i \in Listings!Matching', ~Listings!Reached(i)'
        PROVE  Place(i)' >= (page * Listings!Size)'
    <3>1. /\ i \in Everything \ {e} /\ i \in Missing /\ updated'[i] = updated[i]
          /\ ~Listings!Reached(i)
      BY <1>8, <1>9, <1>10, <2>0, <2>2 DEF Missing
    <3>2. Listings!Matching \subseteq Listings!Matching'
      <4>1. query.since <= query.begun /\ query.begun <= edits => query.since <= edits + 1
        BY <1>0
      <4> QED BY <1>1, <1>3, <1>9, <2>0, <4>1 DEF Listings!Matching, QueryOK, Everything
    <3>3. i \in Listings!Matching
      BY <1>1, <1>9, <2>2, <3>1 DEF Listings!Matching
    <3>4. Listings!Matching \in SUBSET Everything /\ Listings!Matching' \in SUBSET Everything
      BY ListingParameters DEF Listings!Matching, Everything
    <3>5. Listings!Ahead(i, Listings!Matching) \subseteq Listings!Ahead(i, Listings!Matching)'
      <4> SUFFICES ASSUME NEW j \in Listings!Matching, place[j] < place[i]
                   PROVE  place'[j] < place'[i]
        BY <3>2 DEF Listings!Ahead
      <4>1. CASE j = e
        BY <1>2, <3>1, <4>1
      <4>2. CASE j # e
        BY <1>2, <3>1, <3>4, <4>2
      <4> QED BY <4>1, <4>2
    <3>6. IsFiniteSet(Listings!Ahead(i, Listings!Matching)')
      <4>1. Listings!Ahead(i, Listings!Matching)' \in SUBSET Everything
        BY <3>4 DEF Listings!Ahead
      <4> QED BY <4>1, ListingParameters, FS_Subset
    <3>7. /\ Place(i) <= Place(i)'
          /\ Place(i) \in Nat /\ Place(i)' \in Nat
      BY <3>5, <3>6, FS_Subset, FS_CardinalityType DEF Place
    <3>8. Place(i) >= page * Listings!Size
      BY <2>0, <3>1, <3>3 DEF Behind
    <3>9. page * Listings!Size \in Int /\ (page * Listings!Size)' = page * Listings!Size
      BY <1>0, <1>1, <1>9, ListingParameters DEF Listings!TypeOK
    <3> QED BY <3>7, <3>8, <3>9
  <2>3. Behind'
    BY <2>2 DEF Behind
  <2> QED BY <1>1, <1>9, <2>0, <2>1, <2>3
<1>12. NothingSkipped'
  <2> SUFFICES ASSUME state = "complete"
               PROVE  /\ ~Listings!Incremental => Len(items) <= Limit
                      /\ \A i \in Missing' :
                           IF Listings!Incremental THEN updated'[i] <= query.since
                           ELSE \A j \in Listings!Listed : Listings!Untouched(j)' => updated'[i] <= updated'[j]
    BY <1>1, <1>9 DEF NothingSkipped, Listings!NothingSkipped, Missing
  <2>1. /\ ~Listings!Incremental => Len(items) <= Limit
        /\ \A i \in Missing :
             IF Listings!Incremental THEN updated[i] <= query.since
             ELSE \A j \in Listings!Listed : Listings!Untouched(j) => updated[i] <= updated[j]
    BY <1>0 DEF NothingSkipped, Listings!NothingSkipped, Missing
  <2>2. QueryOK
    BY <1>0
  <2>3. \A i \in Missing' : i \in Missing /\ updated'[i] = updated[i]
    BY <1>8, <1>9, <1>10, <2>2 DEF Missing
  <2> QED BY <1>8, <1>9, <2>1, <2>2, <2>3
<1> QED BY <1>1, <1>4, <1>5, <1>6, <1>7, <1>11, <1>12 DEF ListingInv

LEMMA ListKeepsListing ==
  ASSUME ListingInv, NEW endpoint \in {"pulls", "issues"}, NEW since \in 0..Listings!NoCursor,
         Listings!List(endpoint, since)
  PROVE  ListingInv'
<1>0. /\ Listings!TypeOK /\ Sorted /\ \A i \in Everything : updated[i] <= edits
      /\ edits \in Nat
  BY ListingParameters DEF ListingInv, Listings!TypeOK
<1>1. /\ since = Listings!NoCursor \/ since <= edits
      /\ query' = [endpoint |-> endpoint, since |-> since, begun |-> edits]
      /\ page' = 0 /\ items' = <<>> /\ state' = "paging"
      /\ UNCHANGED <<place, updated, edits>>
  BY DEF Listings!List
<1>2. Listings!TypeOK'
  <2>1. edits \in 0..MaxEdits
    BY <1>0 DEF Listings!TypeOK
  <2>2. query' \in [endpoint : {"none", "pulls", "issues"}, since : 0..Listings!NoCursor, begun : 0..MaxEdits]
    BY <1>1, <2>1
  <2>3. page' \in 0..MaxPages /\ items' \in Seq(Pulls \union Issues)
    BY <1>1, ListingParameters, EmptySeq
  <2> QED BY <1>0, <1>1, <2>2, <2>3 DEF Listings!TypeOK, Listings!Orders, Listings!NoCursor
<1>3. Sorted' /\ \A i \in Everything : updated'[i] <= edits'
  BY <1>0, <1>1 DEF Sorted
<1>4. QueryOK'
  BY <1>0, <1>1 DEF QueryOK, Listings!Incremental, Listings!NoCursor
<1>5. Behind'
  <2> SUFFICES ASSUME NEW i \in Everything PROVE Place(i)' >= (page * Listings!Size)'
    <3>1. Missing' \subseteq Everything
      BY ListingParameters DEF Missing, Listings!Asked, Everything
    <3> QED BY <3>1 DEF Behind
  <2>1. Listings!Ahead(i, Listings!Matching)' \in SUBSET Everything
    BY ListingParameters DEF Listings!Ahead, Listings!Matching, Everything
  <2>2. Place(i)' \in Nat
    BY <2>1, ListingParameters, FS_Subset, FS_CardinalityType DEF Place
  <2>3. Listings!Size' \in Nat
    BY ListingParameters DEF Listings!Size
  <2>4. (page * Listings!Size)' = 0
    <3>1. \A z \in Nat : 0 * z = 0
      OBVIOUS
    <3> QED BY <1>1, <2>3, <3>1
  <2> QED BY <2>2, <2>4
<1>6. NewestFirst'
  BY <1>1 DEF NewestFirst, Listings!Listed
<1>7. Len(items') < Limit
  BY <1>1, ListingParameters
<1>8. NothingSkipped'
  BY <1>1 DEF NothingSkipped, Listings!NothingSkipped
<1> QED BY <1>2, <1>3, <1>4, <1>5, <1>6, <1>7, <1>8 DEF ListingInv

LEMMA FailKeepsListing ==
  ASSUME ListingInv, Listings!Fail
  PROVE  ListingInv'
<1>0. Listings!TypeOK /\ Sorted /\ \A i \in Everything : updated[i] <= edits
  BY DEF ListingInv
<1>1. items' = <<>> /\ state = "paging" /\ state' = "failed" /\ UNCHANGED <<place, updated, edits, query, page>>
  BY DEF Listings!Fail
<1>2. Listings!TypeOK'
  BY <1>0, <1>1, EmptySeq DEF Listings!TypeOK, Listings!Orders, Listings!NoCursor
<1>3. Sorted' /\ (\A i \in Everything : updated'[i] <= edits') /\ QueryOK'
  BY <1>0, <1>1 DEF ListingInv, Sorted, QueryOK, Listings!Incremental, Listings!NoCursor
<1>4. NothingSkipped'
  BY <1>1 DEF NothingSkipped, Listings!NothingSkipped
<1> QED BY <1>1, <1>2, <1>3, <1>4 DEF ListingInv

(* What a page adds, and what it leaves: everything that is still missing  *)
(* stands behind the page, and so is no newer than anything on it.         *)
LEMMA PageIsNext ==
  ASSUME ListingInv, state = "paging",
         NEW i \in Missing \cap Listings!Matching, ~Listings!Reached(i),
         i \notin Listings!Wanted(Listings!Page(page))
  PROVE  /\ Place(i) \in Nat /\ Place(i) >= (page + 1) * Listings!Size
         /\ \A j \in Listings!Page(page) : updated[i] <= updated[j]
<1> DEFINE low == page * Listings!Size
           high == (page + 1) * Listings!Size
<1>0. /\ place \in Listings!Orders /\ Sorted /\ Behind
      /\ \A j \in Everything : updated[j] \in Nat
      /\ low \in Nat /\ high \in Nat
      /\ Listings!Matching \in SUBSET Everything
  BY ListingParameters DEF ListingInv, Listings!TypeOK, Listings!Matching, Everything
<1>1. Listings!Page(page) = {j \in Listings!Matching : Place(j) \in low..(high - 1)}
  BY ListingParameters DEF Listings!Page, Place
<1>2. \A j \in Everything : Place(j) \in Nat
  BY <1>0, Consecutive DEF Place
<1> HIDE DEF low, high
<1>3. Place(i) >= low
  BY <1>0 DEF Behind, low
<1>4. i \notin Listings!Page(page)
  BY DEF Listings!Wanted, Missing, Listings!Asked
<1>5. Place(i) >= high
  BY <1>0, <1>1, <1>2, <1>3, <1>4
<1>6. ASSUME NEW j \in Listings!Page(page) PROVE updated[i] <= updated[j]
  <2>1. j \in Listings!Matching /\ Place(j) < Place(i)
    BY <1>0, <1>1, <1>2, <1>5, <1>6
  <2>2. place[j] < place[i]
    BY <1>0, <2>1, Consecutive DEF Place
  <2>3. ~(place[i] < place[j])
    BY <1>0, <2>1, <2>2, ListingParameters, FS_CardinalityType DEF Listings!Orders, Everything
  <2> QED BY <1>0, <2>1, <2>3 DEF Sorted
<1> QED BY <1>0, <1>2, <1>5, <1>6 DEF high

(* In a snapshot everything that was asked for is in the list. *)
LEMMA SnapshotMatches ==
  ASSUME ListingInv, state = "paging", ~Listings!Incremental
  PROVE  Missing \subseteq Listings!Matching /\ \A i \in Missing : ~Listings!Reached(i)
BY DEF Missing, Listings!Asked, Listings!Matching, Listings!Reached

(* What an incremental listing leaves out of a page that is its last is    *)
(* covered by the cursor.                                                  *)
LEMMA LastPage ==
  ASSUME ListingInv, state = "paging", Listings!Incremental,
         NEW i \in Missing, i \notin Listings!Wanted(Listings!Page(page)),
         \/ \E r \in Listings!Page(page) : Listings!Reached(r)
         \/ ~Listings!HasNext(page)
  PROVE  updated[i] <= query.since
<1>0. /\ i \in Everything /\ updated[i] \in Nat /\ query.since \in Nat
      /\ place \in Listings!Orders /\ Listings!Matching \in SUBSET Everything
      /\ page \in Nat
      /\ \A r \in Everything : updated[r] \in Nat
      /\ query.endpoint \in {"pulls", "issues"}
  BY ListingParameters DEF ListingInv, QueryOK, Listings!TypeOK, Listings!Matching, Listings!NoCursor,
                           Missing, Listings!Asked, Everything
<1> SUFFICES ASSUME ~(updated[i] <= query.since) PROVE FALSE
  OBVIOUS
<1>1. i \in Listings!Matching /\ ~Listings!Reached(i)
  BY <1>0 DEF Listings!Matching, Listings!Reached, Missing, Listings!Asked, Everything
<1>2. /\ Place(i) \in Nat /\ Place(i) >= (page + 1) * Listings!Size
      /\ \A j \in Listings!Page(page) : updated[i] <= updated[j]
  BY <1>1, PageIsNext
<1>3. CASE \E r \in Listings!Page(page) : Listings!Reached(r)
  <2>1. PICK r \in Listings!Page(page) : Listings!Reached(r)
    BY <1>3
  <2>2. r \in Everything /\ updated[r] <= query.since /\ updated[i] <= updated[r]
    BY <1>0, <1>2, <2>1 DEF Listings!Page, Listings!Reached
  <2> QED BY <1>0, <2>2
<1>4. CASE ~Listings!HasNext(page)
  <2>1. Cardinality(Listings!Matching) \in Nat /\ Place(i) < Cardinality(Listings!Matching)
    BY <1>0, <1>1, Consecutive DEF Place
  <2> DEFINE high == (page + 1) * Listings!Size
  <2>2. high \in Nat
    BY <1>0, ListingParameters
  <2>3. ~(high < Cardinality(Listings!Matching))
    BY <1>4, ListingParameters DEF Listings!HasNext
  <2>4. Place(i) >= high
    BY <1>2
  <2> HIDE DEF high
  <2> QED BY <1>2, <2>1, <2>2, <2>3, <2>4
<1> QED BY <1>3, <1>4

LEMMA FetchKeepsListing ==
  ASSUME ListingInv, Listings!FetchPage
  PROVE  ListingInv'
<1> DEFINE P == Listings!Page(page)
           R == Listings!Wanted(P)
           fresh == Listings!Rows(R)
           now == items \o fresh
<1>0. /\ Listings!TypeOK /\ Sorted /\ \A i \in Everything : updated[i] <= edits
      /\ state = "paging" /\ QueryOK /\ Behind /\ NewestFirst
      /\ ~Listings!Incremental => Len(items) < Limit
      /\ items \in Seq(Everything) /\ Len(items) \in Nat /\ page \in Nat
      /\ \A i \in Everything : updated[i] \in Nat
      /\ place \in Listings!Orders
  <2>1. items \in Seq(Everything)
    BY DEF ListingInv, Listings!TypeOK, Everything
  <2>2. state = "paging"
    BY DEF Listings!FetchPage
  <2> QED BY <2>1, <2>2, LenProperties, ListingParameters DEF ListingInv, Listings!TypeOK, Everything
<1>1. /\ page < MaxPages /\ page' = page + 1
      /\ items' = Listings!Cut(now)
      /\ state' = IF Listings!Finished(now) THEN "complete" ELSE "paging"
      /\ UNCHANGED <<place, updated, edits, query>>
  BY DEF Listings!FetchPage
<1>2. P \subseteq Everything /\ R \subseteq P
  BY ListingParameters DEF Listings!Page, Listings!Wanted, Listings!Matching, Everything
<1>3. /\ fresh \in Seq(R) /\ Len(fresh) \in Nat /\ DOMAIN fresh = 1..Len(fresh)
      /\ {fresh[k] : k \in 1..Len(fresh)} = R
      /\ \A k, l \in 1..Len(fresh) : k < l => place[fresh[k]] < place[fresh[l]]
  BY <1>0, <1>2, RowsInOrder
<1> HIDE DEF fresh
<1>4. /\ now \in Seq(Everything) /\ Len(now) = Len(items) + Len(fresh) /\ Len(now) \in Nat
      /\ DOMAIN now = 1..Len(now) /\ DOMAIN items = 1..Len(items)
      /\ \A k \in 1..Len(now) : now[k] = IF k <= Len(items) THEN items[k] ELSE fresh[k - Len(items)]
      /\ \A k \in 1..Len(items) : k \in 1..Len(now)
      /\ \A k \in 1..Len(fresh) : k + Len(items) \in 1..Len(now) /\ (k + Len(items)) - Len(items) = k
                                 /\ ~(k + Len(items) <= Len(items))
  <2>1. \A k \in 1..Len(fresh) : fresh[k] \in Everything
    BY <1>2, <1>3
  <2>2. fresh \in Seq(Everything)
    BY <1>3, <2>1
  <2>3. /\ now \in Seq(Everything) /\ Len(now) = Len(items) + Len(fresh)
        /\ \A k \in 1..(Len(items) + Len(fresh)) :
             now[k] = IF k <= Len(items) THEN items[k] ELSE fresh[k - Len(items)]
    BY <1>0, <2>2, ConcatProperties
  <2>4. DOMAIN now = 1..Len(now) /\ DOMAIN items = 1..Len(items)
    BY <1>0, <2>3, LenProperties
  <2> HIDE DEF now
  <2>5. Len(now) \in Nat
    BY <1>0, <1>3, <2>3
  <2>6. \A k \in 1..Len(items) : k \in 1..Len(now)
    BY <1>0, <1>3, <2>3
  <2>7. \A k \in 1..Len(fresh) : k + Len(items) \in 1..Len(now) /\ (k + Len(items)) - Len(items) = k
                                 /\ ~(k + Len(items) <= Len(items))
    BY <1>0, <1>3, <2>3
  <2> QED BY <2>3, <2>4, <2>5, <2>6, <2>7
<1> HIDE DEF now
<1>5. {now[k] : k \in 1..Len(now)} = Listings!Listed \union R
  <2>1. ASSUME NEW k \in 1..Len(now) PROVE now[k] \in Listings!Listed \union R
    <3>1. CASE k <= Len(items)
      <4>1. k \in 1..Len(items)
        BY <1>0, <1>4, <3>1
      <4> QED BY <1>4, <3>1, <4>1 DEF Listings!Listed
    <3>2. CASE ~(k <= Len(items))
      <4>1. k - Len(items) \in 1..Len(fresh)
        BY <1>0, <1>3, <1>4, <3>2
      <4> QED BY <1>3, <1>4, <3>2, <4>1
    <3> QED BY <3>1, <3>2
  <2>2. ASSUME NEW j \in Listings!Listed PROVE \E k \in 1..Len(now) : now[k] = j
    <3>1. PICK k \in 1..Len(items) : items[k] = j
      BY <1>4 DEF Listings!Listed
    <3>2. k \in 1..Len(now) /\ k <= Len(items)
      BY <1>0, <1>4
    <3> QED BY <1>4, <3>1, <3>2
  <2>3. ASSUME NEW j \in R PROVE \E k \in 1..Len(now) : now[k] = j
    <3>1. PICK k \in 1..Len(fresh) : fresh[k] = j
      BY <1>3
    <3> QED BY <1>4, <3>1
  <2> QED BY <2>1, <2>2, <2>3
<1>6. /\ Listings!Asked' = Listings!Asked /\ Listings!Incremental' = Listings!Incremental
      /\ Listings!Size' = Listings!Size /\ Listings!Matching' = Listings!Matching
      /\ \A i : Listings!Untouched(i)' = Listings!Untouched(i)
      /\ \A i : Listings!Reached(i)' = Listings!Reached(i)
      /\ \A i : Place(i)' = Place(i)
      /\ Listings!Listed' = {items'[k] : k \in DOMAIN items'}
      /\ Listings!Asked \subseteq Everything
  BY <1>1, ListingParameters
     DEF Listings!Asked, Listings!Incremental, Listings!Size, Listings!Matching, Listings!Untouched,
         Listings!Reached, Listings!NoCursor, Place, Listings!Ahead, Listings!Listed, Everything
(* What no page has brought so far, this one included. *)
<1> DEFINE Left == {i \in Missing : i \notin R}
<1>7. ~Listings!Incremental =>
        \A i \in Left, j \in Listings!Listed \union R : Listings!Untouched(j) => updated[i] <= updated[j]
  <2> SUFFICES ASSUME ~Listings!Incremental, NEW i \in Left, NEW j \in Listings!Listed \union R,
                      Listings!Untouched(j)
               PROVE  updated[i] <= updated[j]
    OBVIOUS
  <2>1. CASE j \in Listings!Listed
    BY <1>0, <2>1 DEF NewestFirst
  <2>2. CASE j \in R
    <3>1. i \in Missing \cap Listings!Matching /\ ~Listings!Reached(i)
      BY <1>0, SnapshotMatches
    <3> QED BY <1>0, <1>2, <2>2, <3>1, PageIsNext
  <2> QED BY <2>1, <2>2
<1>8. items' \in Seq(Everything) => Listings!TypeOK'
  <2>1. page' \in 0..MaxPages
    BY <1>0, <1>1, ListingParameters
  <2> QED BY <1>0, <1>1, <2>1 DEF Listings!TypeOK, Listings!Orders, Listings!NoCursor, Everything
<1>9. /\ Sorted' /\ QueryOK' /\ \A i \in Everything : updated'[i] <= edits'
  BY <1>0, <1>1, <1>6 DEF Sorted, QueryOK
<1>10. CASE Listings!Incremental \/ Len(now) <= Limit
  <2>1. items' = now
    BY <1>0, <1>1, <1>4, <1>10, ListingParameters DEF Listings!Cut
  <2>2. Listings!Listed' = Listings!Listed \union R
    BY <1>4, <1>5, <1>6, <2>1
  <2>3. Missing' = Left
    BY <1>6, <2>2 DEF Missing
  <2>4. ASSUME ~Listings!Finished(now)
        PROVE  state' = "paging" /\ Behind' /\ NewestFirst' /\ (~Listings!Incremental' => Len(items') < Limit)
    <3>1. Behind'
      <4> SUFFICES ASSUME NEW i \in Missing' \cap Listings!Matching', ~Listings!Reached(i)'
                   PROVE  Place(i)' >= (page * Listings!Size)'
        BY DEF Behind
      <4>1. /\ i \in Missing \cap Listings!Matching /\ ~Listings!Reached(i)
            /\ i \notin Listings!Wanted(Listings!Page(page))
        BY <1>6, <2>3
      <4>2. Place(i) >= (page + 1) * Listings!Size
        BY <1>0, <4>1, PageIsNext
      <4>3. (page * Listings!Size)' = (page + 1) * Listings!Size
        BY <1>1, <1>6
      <4> QED BY <1>6, <4>2, <4>3
    <3>2. NewestFirst'
      BY <1>1, <1>6, <1>7, <2>2, <2>3 DEF NewestFirst
    <3>3. ~Listings!Incremental => Len(now) < Limit
      BY <1>4, <2>4, ListingParameters DEF Listings!Finished
    <3> QED BY <1>1, <1>6, <2>1, <2>4, <3>1, <3>2, <3>3
  <2>5. ASSUME Listings!Finished(now)
        PROVE  state' = "complete" /\ NothingSkipped'
    <3>1. ~Listings!Incremental => Len(items') <= Limit
      BY <1>10, <2>1
    <3>2. ASSUME Listings!Incremental, NEW i \in Missing' PROVE updated[i] <= query.since
      <4>1. \/ \E r \in Listings!Page(page) : Listings!Reached(r)
            \/ ~Listings!HasNext(page)
        BY <2>5, <3>2 DEF Listings!Finished
      <4> QED BY <1>0, <2>3, <3>2, <4>1, LastPage
    <3>3. ~Listings!Incremental =>
            \A i \in Missing', j \in Listings!Listed' : Listings!Untouched(j) => updated[i] <= updated[j]
      BY <1>7, <2>2, <2>3
    <3> QED BY <1>1, <1>6, <2>5, <3>1, <3>2, <3>3 DEF NothingSkipped, Listings!NothingSkipped, Missing
  <2>6. state' = "paging" => NothingSkipped'
    BY DEF NothingSkipped, Listings!NothingSkipped
  <2> QED BY <1>4, <1>8, <1>9, <2>1, <2>4, <2>5, <2>6 DEF ListingInv
<1>11. CASE ~Listings!Incremental /\ Len(now) > Limit
  <2>1. items' = SubSeq(now, 1, Limit) /\ state' = "complete"
    BY <1>1, <1>4, <1>11, ListingParameters DEF Listings!Cut, Listings!Finished
  <2>2. /\ items' \in Seq(Everything) /\ Len(items') = Limit /\ DOMAIN items' = 1..Limit
        /\ \A k \in 1..Limit : items'[k] = now[k] /\ k \in 1..Len(now)
    <3>1. Limit \in Nat /\ 1 <= Limit /\ Limit <= Len(now)
      BY <1>4, <1>11, ListingParameters
    <3>2. \A k \in 1..Limit : now[k] \in Everything
      BY <1>4, <3>1
    <3>3. /\ SubSeq(now, 1, Limit) \in Seq(Everything)
          /\ Len(SubSeq(now, 1, Limit)) = IF 1 <= Limit THEN Limit - 1 + 1 ELSE 0
          /\ \A k \in 1..(Limit - 1 + 1) : SubSeq(now, 1, Limit)[k] = now[1 + k - 1]
      BY <3>1, <3>2, SubSeqProperties
    <3>4. Limit - 1 + 1 = Limit /\ \A k \in 1..Limit : 1 + k - 1 = k /\ k \in 1..Len(now)
      BY <1>4, <3>1
    <3> QED BY <2>1, <3>1, <3>3, <3>4, LenProperties
  <2>3. ASSUME NEW i \in Missing', NEW j \in Listings!Listed', Listings!Untouched(j)
        PROVE  updated[i] <= updated[j]
    <3>1. PICK k \in 1..Limit : now[k] = j
      BY <1>6, <2>2
    <3>2. /\ i \in Everything /\ i \in Listings!Asked /\ Listings!Untouched(i)
          /\ \A l \in 1..Limit : now[l] # i
      BY <1>6, <2>2 DEF Missing
    <3>3. i \in Missing
      <4>1. i \notin Listings!Listed
        <5>1. \A l \in 1..Len(items) : l \in 1..Limit /\ now[l] = items[l]
          BY <1>0, <1>4, <1>11, ListingParameters
        <5> QED BY <1>4, <3>2, <5>1 DEF Listings!Listed
      <4> QED BY <3>2, <4>1 DEF Missing
    <3>4. j \in Listings!Listed \union R
      BY <1>5, <2>2, <3>1
    <3>5. CASE i \notin R
      BY <1>7, <1>11, <2>3, <3>3, <3>4, <3>5
    <3>6. CASE i \in R /\ k <= Len(items)
      <4>1. k \in 1..Len(items)
        BY <1>0, <3>1, <3>6, ListingParameters
      <4>2. j \in Listings!Listed
        BY <1>4, <3>1, <3>6, <4>1 DEF Listings!Listed
      <4> QED BY <1>0, <1>11, <2>3, <3>3, <4>2 DEF NewestFirst
    <3>7. CASE i \in R /\ ~(k <= Len(items))
      <4>1. PICK l \in 1..Len(fresh) : fresh[l] = i
        BY <1>3, <3>7
      <4>2. now[l + Len(items)] = i /\ l + Len(items) \in 1..Len(now)
        BY <1>4, <4>1
      <4>3. ~(l + Len(items) <= Limit)
        <5>1. l + Len(items) \in Nat /\ l + Len(items) >= 1
          BY <1>0, <1>3
        <5> QED BY <3>2, <4>2, <5>1, ListingParameters
      <4> DEFINE m == k - Len(items)
      <4>4. m \in 1..Len(fresh) /\ m < l
        BY <1>0, <1>3, <1>4, <2>2, <3>1, <3>7, <4>3, ListingParameters
      <4>5. fresh[m] = j
        BY <1>4, <2>2, <3>1, <3>7
      <4>6. place[j] < place[i]
        BY <1>3, <4>1, <4>4, <4>5
      <4>7. j \in Everything
        BY <1>2, <1>3, <4>4, <4>5
      <4>8. ~(place[i] < place[j])
        BY <1>0, <3>2, <4>6, <4>7, ListingParameters, FS_CardinalityType DEF Listings!Orders, Everything
      <4> QED BY <1>0, <3>2, <4>7, <4>8 DEF Sorted
    <3> QED BY <3>5, <3>6, <3>7
  <2>4. NothingSkipped'
    BY <1>1, <1>6, <1>11, <2>1, <2>2, <2>3, ListingParameters
       DEF NothingSkipped, Listings!NothingSkipped, Missing
  <2> QED BY <1>8, <1>9, <2>1, <2>2, <2>4 DEF ListingInv
<1> QED BY <1>4, <1>10, <1>11, ListingParameters

LEMMA ListingSteps == ListingInv /\ [ProcessNext]_processVars => ListingInv'
<1> SUFFICES ASSUME ListingInv, [ProcessNext]_processVars PROVE ListingInv'
  OBVIOUS
<1>1. CASE UNCHANGED listing
  <2> USE <1>1 DEF listing
  <2>1. Listings!TypeOK'
    BY DEF ListingInv, Listings!TypeOK, Listings!Orders, Listings!NoCursor
  <2>2. /\ Listings!Asked' = Listings!Asked /\ Listings!Listed' = Listings!Listed
        /\ Listings!Incremental' = Listings!Incremental /\ Listings!Size' = Listings!Size
        /\ Listings!Matching' = Listings!Matching
        /\ \A i : /\ Listings!Untouched(i)' = Listings!Untouched(i)
                  /\ Listings!Reached(i)' = Listings!Reached(i)
                  /\ Place(i)' = Place(i)
    BY DEF Listings!Asked, Listings!Listed, Listings!Incremental, Listings!Size, Listings!Matching,
           Listings!Untouched, Listings!Reached, Listings!NoCursor, Place, Listings!Ahead
  <2>3. Behind' = Behind /\ NewestFirst' = NewestFirst
    BY <2>2 DEF Behind, NewestFirst, Missing
  <2>4. NothingSkipped' = NothingSkipped
    BY <2>2 DEF NothingSkipped, Listings!NothingSkipped
  <2>5. QueryOK' = QueryOK /\ Sorted' = Sorted
    BY <2>2 DEF QueryOK, Sorted
  <2> QED BY <2>1, <2>2, <2>3, <2>4, <2>5 DEF ListingInv
<1>2. CASE Listings!Next
  <2>1. \A e \in Everything : Listings!Edit(e) => ListingInv'
    BY EditKeepsListing
  <2> QED BY <1>2, <2>1, ListKeepsListing, FetchKeepsListing, FailKeepsListing
          DEF Listings!Next, Everything
<1> QED BY <1>1, <1>2 DEF ProcessNext, processVars, OnLimiter, OnClient, OnIndex, OnListing, OnReview, OnChat

(* For any items, page size, limit and number of pages, and any edits      *)
(* between the pages: what a complete listing leaves out, and nobody has   *)
(* touched since it began, is covered by the cursor or older than what a   *)
(* snapshot has (list_pull_requests, list_issues).                         *)
THEOREM ListingSkipsNothing == ProcessSpec => []NothingSkipped
<1>1. ListingInv => NothingSkipped
  BY DEF ListingInv
<1> QED BY <1>1, ListingInitially, ListingSteps, PTL DEF ProcessSpec

-----------------------------------------------------------------------------
(* EachTypeOK.  What is new is the types of the parts whose invariant does *)
(* not mention them: the logs of the review stay within their bounds, and  *)
(* a request that has not reached the model has not been counted.          *)
ReviewFits ==
  /\ ReviewInv
  /\ Len(entries) <= MaxRecords /\ Len(releases) <= MaxReleases

LEMMA ReviewFitsInit == ProcessInit => ReviewFits
<1> SUFFICES ASSUME ProcessInit PROVE ReviewFits
  OBVIOUS
<1>1. ReviewInv
  BY ReviewInit
<1>2. entries = <<>> /\ releases = <<>>
  BY DEF ProcessInit, Review!Init
<1> QED BY <1>1, <1>2, ProcessAssumption, EmptySeq DEF ReviewFits, Review!QuarantineReviewAssumption

LEMMA ReviewFitsSteps == ReviewFits /\ [ProcessNext]_processVars => ReviewFits'
<1> SUFFICES ASSUME ReviewFits, [ProcessNext]_processVars PROVE ReviewFits'
  OBVIOUS
<1>0. /\ ReviewInv /\ ReviewInv' /\ MaxRecords \in Nat /\ MaxReleases \in Nat
      /\ Len(entries) <= MaxRecords /\ Len(releases) <= MaxReleases
      /\ entries \in Seq(LogEntry) /\ Len(entries) \in Nat
      /\ releases \in Seq(0..Len(entries)) /\ Len(releases) \in Nat
  BY ReviewSteps, ProcessAssumption, LenProperties
     DEF ReviewFits, ReviewInv, ReviewTyped, Review!QuarantineReviewAssumption
<1>1. CASE UNCHANGED review
  BY <1>0, <1>1 DEF review, ReviewFits
<1>2. CASE Review!Next
  <2>1. ASSUME NEW d \in Documents, NEW decision \in Review!Decisions, Review!Screen(d, decision)
        PROVE  Len(entries') <= MaxRecords /\ releases' = releases
    <3> DEFINE entry == [document |-> d, decision |-> decision]
    <3>1. Len(entries) < MaxRecords /\ releases' = releases
      BY <2>1 DEF Review!Screen
    <3>2. CASE decision = "allow"
      BY <1>0, <2>1, <3>2 DEF Review!Screen
    <3>3. CASE decision # "allow"
      <4>1. entry \in LogEntry
        BY <3>3 DEF LogEntry, Review!Decisions
      <4>2. entries' = Append(entries, entry)
        BY <2>1, <3>3 DEF Review!Screen
      <4>3. Len(entries') = Len(entries) + 1
        BY <1>0, <4>1, <4>2, AppendProperties
      <4> QED BY <1>0, <3>1, <4>3
    <3> QED BY <3>1, <3>2, <3>3
  <2>2. ASSUME NEW o \in Operators, NEW e \in DOMAIN entries, Review!Look(o, e)
        PROVE  entries' = entries /\ releases' = releases
    BY <2>2 DEF Review!Look
  <2>3. ASSUME NEW o \in Operators, Review!AppendRelease(o) \/ Review!AppendTorn(o)
        PROVE  entries' = entries /\ Len(releases') <= MaxReleases
    <3>1. entries' = entries /\ Len(releases) < MaxReleases
      BY <2>3 DEF Review!AppendRelease, Review!AppendTorn
    <3>2. PICK written \in {0, reading[o]} : releases' = Review!Appended(written)
      BY <2>3 DEF Review!AppendRelease, Review!AppendTorn, Review!NoRecord
    <3>3. written \in 0..Len(entries)
      BY <1>0, <3>2 DEF ReviewInv, ReviewTyped
    <3>4. CASE complete
      <4>1. Len(releases') = Len(releases) + 1
        BY <1>0, <3>2, <3>3, <3>4, AppendProperties DEF Review!Appended
      <4> QED BY <1>0, <3>1, <4>1
    <3>5. CASE ~complete
      <4>1. DOMAIN releases' = DOMAIN releases
        BY <3>2, <3>5 DEF Review!Appended
      <4>2. releases' \in Seq(0..Len(entries')) /\ DOMAIN releases = 1..Len(releases)
        BY <1>0, LenProperties DEF ReviewInv, ReviewTyped
      <4>3. Len(releases') = Len(releases)
        BY <1>0, <4>1, <4>2, LenProperties
      <4> QED BY <1>0, <3>1, <4>3
    <3> QED BY <3>1, <3>4, <3>5
  <2> QED BY <1>0, <1>2, <2>1, <2>2, <2>3 DEF Review!Next, ReviewFits
<1> QED BY <1>1, <1>2 DEF ProcessNext, processVars, OnLimiter, OnClient, OnIndex, OnListing, OnReview, OnChat

LEMMA ReviewTypes == ReviewFits => Review!TypeOK
<1> SUFFICES ASSUME ReviewFits PROVE Review!TypeOK
  OBVIOUS
<1>1. \A k \in DOMAIN entries : entries[k] \in [document : Documents, decision : {"quarantine", "block"}]
  <2>1. \A k \in DOMAIN entries : entries[k] \in LogEntry
    BY LenProperties DEF ReviewFits, ReviewInv, ReviewTyped
  <2> QED BY <2>1 DEF LogEntry
<1> QED BY <1>1 DEF ReviewFits, ReviewInv, ReviewTyped, Review!TypeOK

LEMMA ChatTypesInit == ProcessInit => TypeInv
BY ProcessAssumption, TypeInit DEF ProcessInit

LEMMA ChatTypesSteps == TypeInv /\ [ProcessNext]_processVars => TypeInv'
<1> SUFFICES ASSUME TypeInv, [ProcessNext]_processVars PROVE TypeInv'
  OBVIOUS
<1>1. [Next]_vars
  BY DEF ProcessNext, processVars, chat, OnLimiter, OnClient, OnIndex, OnListing, OnReview, OnChat
<1> QED BY <1>1, TypeStep, ProcessAssumption

PartOK == part \in {"limiter", "client", "index", "listing", "review", "chat"}

LEMMA PartStays ==
  /\ ProcessInit => PartOK
  /\ PartOK /\ [ProcessNext]_processVars => PartOK'
BY DEF ProcessInit, PartOK, ProcessNext, processVars, OnLimiter, OnClient, OnIndex, OnListing, OnReview, OnChat

(* The variables of every part keep their types, for any instance of any   *)
(* of them; the logs, the table, the cache and the pages stay within what  *)
(* they are bounded by.                                                    *)
THEOREM ProcessTypeCorrect == ProcessSpec => []EachTypeOK
<1> DEFINE Types == /\ LimiterInv /\ ClientInv /\ IndexInv /\ ListingInv
                    /\ ReviewFits /\ TypeInv /\ PartOK
<1>1. ProcessInit => Types
  BY LimiterInitially, ClientInitially, IndexInitially, ListingInitially, ReviewFitsInit, ChatTypesInit,
     PartStays
<1>2. Types /\ [ProcessNext]_processVars => Types'
  BY LimiterSteps, ClientSteps, IndexSteps, ListingSteps, ReviewFitsSteps, ChatTypesSteps, PartStays
<1>3. Types => EachTypeOK
  <2> SUFFICES ASSUME Types PROVE EachTypeOK
    OBVIOUS
  <2>1. /\ Limiter!TypeOK /\ Client!TypeOK /\ Index!TypeOK /\ Listings!TypeOK
    BY DEF LimiterInv, ClientInv, IndexInv, ListingInv
  <2>2. Review!TypeOK /\ TypeOK
    BY ReviewTypes, TypedIsOK, ProcessAssumption
  <2> QED BY <2>1, <2>2 DEF EachTypeOK, PartOK
<1> QED BY <1>1, <1>2, <1>3, PTL DEF ProcessSpec
=============================================================================
