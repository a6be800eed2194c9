------------------------- MODULE DocumentStoreProofs ------------------------
(***************************************************************************)
(* Proofs about DocumentStore, for every set of sources and revisions and  *)
(* files of any length.  What is served is well formed whatever happens to *)
(* the file; what a stop can cost is bounded by the appends cut short; and *)
(* the closed form of a reload is what the loop of load() computes.        *)
(***************************************************************************)
EXTENDS MCDocumentStore, FiniteSetTheorems, WellFoundedInduction, TLAPS

USE DEF Line

(* The file is a sequence of lines. *)
LogType == log \in Seq(Line)

-----------------------------------------------------------------------------
(* A reload holds documents the gate allows, one for each source.          *)
LEMMA ReloadSound ==
  ASSUME NEW lines \in Seq(Line), NEW gate
  PROVE  /\ Reload(lines, gate) \subseteq Document
         /\ \A d \in Reload(lines, gate) : d.revision \notin gate
         /\ \A d, e \in Reload(lines, gate) : d.source = e.source => d = e
<1>1. ASSUME NEW k \in DOMAIN lines, Passes(lines, gate, k)
      PROVE  lines[k] \in Document /\ lines[k].revision \notin gate
  BY <1>1 DEF Passes
<1>2. ASSUME NEW i \in DOMAIN lines, NEW k \in DOMAIN lines, i < k,
             Passes(lines, gate, k),
             \A j \in (i + 1)..Len(lines) :
               Passes(lines, gate, j) => lines[j].source # lines[i].source
      PROVE  lines[k].source # lines[i].source
  BY <1>2
<1>3. Reload(lines, gate) \subseteq Document
  BY <1>1 DEF Reload
<1>4. \A d \in Reload(lines, gate) : d.revision \notin gate
  BY <1>1 DEF Reload
<1>5. ASSUME NEW d \in Reload(lines, gate), NEW e \in Reload(lines, gate),
             d.source = e.source
      PROVE  d = e
  <2>1. PICK i \in DOMAIN lines :
          /\ lines[i] = d /\ Passes(lines, gate, i)
          /\ \A j \in (i + 1)..Len(lines) :
               Passes(lines, gate, j) => lines[j].source # lines[i].source
    BY DEF Reload
  <2>2. PICK k \in DOMAIN lines :
          /\ lines[k] = e /\ Passes(lines, gate, k)
          /\ \A j \in (k + 1)..Len(lines) :
               Passes(lines, gate, j) => lines[j].source # lines[k].source
    BY DEF Reload
  <2>3. ~(i < k) /\ ~(k < i)
    BY <1>2, <1>5, <2>1, <2>2
  <2> QED
    BY <2>1, <2>2, <2>3
<1> QED
  BY <1>3, <1>4, <1>5

(* What Written leaves is a sequence of lines again. *)
LEMMA WrittenType ==
  ASSUME LogType, NEW line \in Line
  PROVE  Written(line) \in Seq(Line)
<1>1. Joined(log[Len(log)], line) \in Line
  BY DEF Joined
<1> QED
  BY <1>1 DEF LogType, Written

LEMMA ListingType ==
  ASSUME NEW view \in SUBSET Document, NEW q \in Listings(view), LogType
  PROVE  q \in Seq(Line)
<1>1. PICK n \in 0..Len(log) : q \in [1..n -> view]
  BY DEF Listings
<1>2. n \in Nat
  BY <1>1 DEF LogType
<1> QED
  BY <1>1, <1>2

-----------------------------------------------------------------------------
(* The inductive invariant for what is served: the properties themselves,  *)
(* and that the file is readable as lines.                                 *)
ServedInv ==
  /\ LogType
  /\ documents \subseteq Document
  /\ OneRevisionPerSource
  /\ ChunksMatchDocuments
  /\ ServedContentIsAllowed

LEMMA ServedInvInit == Init => ServedInv
BY DEF Init, ServedInv, LogType, OneRevisionPerSource, ChunksMatchDocuments,
       ServedContentIsAllowed

LEMMA ServedInvStep == ServedInv /\ [Next]_vars => ServedInv'
<1> SUFFICES ASSUME ServedInv, [Next]_vars PROVE ServedInv'
  OBVIOUS
<1> USE DEF ServedInv, OneRevisionPerSource, ChunksMatchDocuments,
            ServedContentIsAllowed, Document
<1>1. ASSUME NEW d \in Document, Add(d) PROVE ServedInv'
  <2>1. LogType'
    BY <1>1, WrittenType DEF Add, LogType
  <2> QED
    BY <1>1, <2>1 DEF Add, Installed
<1>2. ASSUME NEW d \in Document, AppendFails(d) PROVE ServedInv'
  <2>1. LogType'
    BY <1>2, WrittenType DEF AppendFails, Pieces, LogType
  <2> QED
    BY <1>2, <2>1 DEF AppendFails, memory
<1>3. ASSUME NEW s \in Sources, RetireSource(s) PROVE ServedInv'
  BY <1>3 DEF RetireSource, disk, LogType
<1>4. ASSUME NEW gate \in SUBSET Revisions, Tighten(gate) PROVE ServedInv'
  BY <1>4 DEF Tighten, memory, disk, LogType
<1>5. CASE RescreenAll
  BY <1>5 DEF RescreenAll, disk, LogType
<1>6. CASE Stop
  <2>1. LogType'
    BY <1>6, WrittenType DEF Stop, Pieces, disk, LogType
  <2> QED
    BY <1>6, <2>1 DEF Stop
<1>7. CASE Load
  <2>1. LogType' /\ rejected' = rejected
    BY <1>7 DEF Load, disk, LogType
  <2> QED
    BY <1>7, <2>1, ReloadSound DEF Load, LogType
<1>11. CASE LoadStops
  <2>1. LogType' /\ rejected' = rejected
    BY <1>11 DEF LoadStops, disk, LogType
  <2>2. PICK lines \in Seq(Line) : documents' = Reload(lines, rejected)
    <3>1. ASSUME NEW i \in DOMAIN log PROVE SubSeq(log, 1, i - 1) \in Seq(Line)
      BY <3>1 DEF LogType
    <3> QED
      BY <1>11, <3>1 DEF LoadStops
  <2>3. chunks' = documents'
    BY <1>11 DEF LoadStops
  <2> QED
    BY <2>1, <2>2, <2>3, ReloadSound
<1>8. CASE Compact
  <2>1. LogType'
    BY <1>8, ListingType DEF Compact, LogType
  <2> QED
    BY <1>8, <2>1 DEF Compact, memory
<1>9. CASE LoadFails \/ SkipCompact
  BY <1>9 DEF LoadFails, SkipCompact, memory, disk, LogType
<1>10. CASE UNCHANGED vars
  BY <1>10 DEF vars, memory, disk, LogType
<1> QED
  BY <1>1, <1>2, <1>3, <1>4, <1>5, <1>6, <1>7, <1>8, <1>9, <1>10, <1>11 DEF Next

LEMMA WrittenIsNotEmpty ==
  ASSUME LogType, unended => log # <<>>, NEW line \in Line
  PROVE  Written(line) # <<>>
<1>1. CASE unended
  BY <1>1 DEF LogType, Written
<1>2. CASE ~unended
  <2>1. Written(line) = Append(log, line)
    BY <1>2 DEF Written
  <2>2. Len(Append(log, line)) = Len(log) + 1 /\ Len(log) \in Nat
    BY DEF LogType
  <2> QED
    BY <2>1, <2>2
<1> QED
  BY <1>1, <1>2

LEMMA TypeInvStep == ServedInv /\ TypeOK /\ [Next]_vars => TypeOK'
<1> SUFFICES ASSUME ServedInv, TypeOK, [Next]_vars PROVE TypeOK'
  OBVIOUS
<1>1. /\ documents' \subseteq Document /\ chunks' \subseteq Document
      /\ log' \in Seq(Line)
  BY ServedInvStep DEF ServedInv, ChunksMatchDocuments, LogType
<1>2. \A line \in Line : Written(line) # <<>>
  BY WrittenIsNotEmpty DEF TypeOK, LogType
<1> USE <1>1, DocumentStoreAssumption DEF TypeOK, bounds, disk, memory
<1>3. ASSUME NEW d \in Document, Add(d) PROVE TypeOK'
  BY <1>3 DEF Add
<1>4. ASSUME NEW d \in Document, AppendFails(d) PROVE TypeOK'
  BY <1>2, <1>4 DEF AppendFails, Pieces
<1>5. ASSUME NEW s \in Sources, RetireSource(s) PROVE TypeOK'
  BY <1>5 DEF RetireSource
<1>6. ASSUME NEW gate \in SUBSET Revisions, Tighten(gate) PROVE TypeOK'
  BY <1>6 DEF Tighten
<1>7. CASE Stop
  <2>1. /\ partials' \in 0..MaxPartial /\ restarts' \in 0..MaxRestarts
        /\ phase' \in {"down", "loaded", "up"} /\ rejected' \subseteq Revisions
    BY <1>7 DEF Stop
  <2>2. screened' \in BOOLEAN /\ half' \in BOOLEAN
    BY <1>7 DEF Stop
  <2>3. unended' \in BOOLEAN
    BY <1>7 DEF Stop
  <2>4. unended' => log' # <<>>
    <3>1. CASE UNCHANGED disk
      BY <3>1
    <3>2. CASE \E line \in Line : log' = Written(line)
      BY <3>2, <1>2
    <3> QED
      BY <3>1, <3>2, <1>7 DEF Stop, Pieces
  <2> QED
    BY <2>1, <2>2, <2>3, <2>4
<1>8. CASE RescreenAll \/ Load \/ LoadStops \/ LoadFails \/ Compact \/ SkipCompact
  <2>1. /\ partials' \in 0..MaxPartial /\ restarts' \in 0..MaxRestarts
        /\ phase' \in {"down", "loaded", "up"} /\ rejected' \subseteq Revisions
    BY <1>8 DEF RescreenAll, Load, LoadStops, LoadFails, Compact, SkipCompact
  <2>2. screened' \in BOOLEAN /\ half' \in BOOLEAN
    BY <1>8 DEF RescreenAll, Load, LoadStops, LoadFails, Compact, SkipCompact
  <2>3. unended' \in BOOLEAN
    BY <1>8 DEF RescreenAll, Load, LoadStops, LoadFails, Compact, SkipCompact
  <2>4. unended' => log' # <<>>
    BY <1>8 DEF RescreenAll, Load, LoadStops, LoadFails, Compact, SkipCompact
  <2> QED
    BY <2>1, <2>2, <2>3, <2>4
<1>9. CASE UNCHANGED vars
  BY <1>9 DEF vars, memory
<1> QED
  BY <1>3, <1>4, <1>5, <1>6, <1>7, <1>8, <1>9 DEF Next

(* The store's variables keep their types, and a file with an unended line *)
(* has a line.                                                             *)
THEOREM StoreTypeCorrect == Spec => []TypeOK
<1>1. Init => TypeOK
  <2> SUFFICES ASSUME Init PROVE TypeOK
    OBVIOUS
  <2>1. unended \in BOOLEAN /\ screened \in BOOLEAN /\ half \in BOOLEAN
    BY DEF Init
  <2>2. partials \in 0..MaxPartial /\ restarts \in 0..MaxRestarts
    BY DocumentStoreAssumption DEF Init
  <2>3. log \in Seq(Line) /\ ~unended
    BY DEF Init
  <2> QED
    BY <2>1, <2>2, <2>3 DEF Init, TypeOK
<1> QED
  BY <1>1, ServedInvInit, ServedInvStep, TypeInvStep, PTL DEF Spec

(* However the index came to be what it is, by additions, retirements,     *)
(* reloads, rescreens and torn files: one revision per source is served.   *)
THEOREM StoreOneRevisionPerSource == Spec => []OneRevisionPerSource
<1>1. ServedInv => OneRevisionPerSource
  BY DEF ServedInv
<1> QED
  BY <1>1, ServedInvInit, ServedInvStep, PTL DEF Spec

(* ... its chunks are those of the indexed documents ...                   *)
THEOREM StoreChunksMatchDocuments == Spec => []ChunksMatchDocuments
<1>1. ServedInv => ChunksMatchDocuments
  BY DEF ServedInv
<1> QED
  BY <1>1, ServedInvInit, ServedInvStep, PTL DEF Spec

(* ... and nothing the gate in force rejects survives a load or a rescreen. *)
THEOREM StoreServedContentIsAllowed == Spec => []ServedContentIsAllowed
<1>1. ServedInv => ServedContentIsAllowed
  BY DEF ServedInv
<1> QED
  BY <1>1, ServedInvInit, ServedInvStep, PTL DEF Spec

-----------------------------------------------------------------------------
(* A record appended is found by the reload, and hides none of another     *)
(* source.                                                                 *)
LEMMA ReloadAfterAppend ==
  ASSUME NEW lines \in Seq(Line), NEW gate,
         NEW d \in Document, d.revision \notin gate
  PROVE  /\ d \in Reload(Append(lines, d), gate)
         /\ \A e \in Reload(lines, gate) :
              e.source # d.source => e \in Reload(Append(lines, d), gate)
<1> DEFINE longer == Append(lines, d)
           n == Len(lines) + 1
<1>1. /\ Len(longer) = n /\ longer[n] = d /\ n \in Nat
      /\ \A k \in 1..Len(lines) : longer[k] = lines[k]
      /\ DOMAIN longer = 1..n /\ DOMAIN lines = 1..Len(lines)
  OBVIOUS
<1>2. Passes(longer, gate, n)
  BY <1>1, DocumentStoreAssumption DEF Passes
<1>3. d \in Reload(longer, gate)
  BY <1>1, <1>2 DEF Reload
<1>4. ASSUME NEW e \in Reload(lines, gate), e.source # d.source
      PROVE  e \in Reload(longer, gate)
  <2>1. PICK i \in DOMAIN lines :
          /\ lines[i] = e /\ Passes(lines, gate, i)
          /\ \A j \in (i + 1)..Len(lines) :
               Passes(lines, gate, j) => lines[j].source # lines[i].source
    BY DEF Reload
  <2>2. i \in DOMAIN longer /\ longer[i] = e /\ Passes(longer, gate, i)
    BY <1>1, <2>1 DEF Passes
  <2>3. ASSUME NEW j \in (i + 1)..Len(longer), Passes(longer, gate, j)
        PROVE  longer[j].source # longer[i].source
    <3>1. CASE j = n
      BY <3>1, <1>1, <1>4, <2>2
    <3>2. CASE j # n
      <4>1. j \in (i + 1)..Len(lines) /\ longer[j] = lines[j]
        BY <3>2, <1>1, <2>1, <2>3
      <4>2. Passes(lines, gate, j)
        BY <4>1, <2>3 DEF Passes
      <4> QED
        BY <4>1, <4>2, <2>1, <2>2
    <3> QED
      BY <3>1, <3>2
  <2> QED
    BY <2>2, <2>3 DEF Reload
<1> QED
  BY <1>3, <1>4

(* A stricter gate finds every record it allows that the laxer one found.  *)
LEMMA ReloadUnderStricterGate ==
  ASSUME NEW lines \in Seq(Line), NEW gate, NEW stricter,
         gate \subseteq stricter,
         NEW d \in Reload(lines, gate), d.revision \notin stricter
  PROVE  d \in Reload(lines, stricter)
<1>1. PICK i \in DOMAIN lines :
        /\ lines[i] = d /\ Passes(lines, gate, i)
        /\ \A j \in (i + 1)..Len(lines) :
             Passes(lines, gate, j) => lines[j].source # lines[i].source
  BY DEF Reload
<1>2. \A j : Passes(lines, stricter, j) => Passes(lines, gate, j)
  BY DEF Passes
<1>3. Passes(lines, stricter, i)
  BY <1>1 DEF Passes
<1> QED
  BY <1>1, <1>2, <1>3 DEF Reload

(* A compacted file reloads as the documents it was written from.          *)
LEMMA ReloadOfListing ==
  ASSUME LogType, NEW gate, NEW view \in SUBSET Document,
         \A d \in view : d.revision \notin gate,
         \A d, e \in view : d.source = e.source => d = e,
         NEW q \in Listings(view)
  PROVE  Reload(q, gate) = view
<1>1. PICK n \in 0..Len(log) : q \in [1..n -> view]
  BY DEF Listings
<1>2. n \in Nat /\ DOMAIN q = 1..n /\ Len(q) = n
  BY <1>1 DEF LogType
<1>3. /\ \A d \in view : \E i \in DOMAIN q : q[i] = d
      /\ \A i, j \in DOMAIN q : q[i] = q[j] => i = j
  BY DEF Listings
<1>4. \A i \in DOMAIN q : q[i] \in view /\ Passes(q, gate, i)
  BY <1>1, <1>2, DocumentStoreAssumption DEF Passes
<1>5. Reload(q, gate) \subseteq view
  BY <1>4 DEF Reload
<1>6. ASSUME NEW d \in view PROVE d \in Reload(q, gate)
  <2>1. PICK i \in DOMAIN q : q[i] = d
    BY <1>3
  <2>2. ASSUME NEW j \in (i + 1)..Len(q), Passes(q, gate, j)
        PROVE  q[j].source # q[i].source
    <3>1. j \in DOMAIN q /\ i # j
      BY <1>2, <2>1, <2>2
    <3> QED
      BY <3>1, <2>1, <1>3, <1>4
  <2> QED
    BY <2>1, <2>2, <1>4 DEF Reload
<1> QED
  BY <1>5, <1>6

-----------------------------------------------------------------------------
(* Between load and compact "the file and the index are known to agree";   *)
(* a service that is down has no index, and no verdict that is out of date.*)
LoadedInv ==
  /\ ServedInv
  /\ phase = "down" => documents = {} /\ screened /\ ~half
  /\ phase = "loaded" => documents = Reload(log, rejected) /\ screened

LEMMA LoadedInvInit == Init => LoadedInv
BY ServedInvInit DEF Init, LoadedInv

LEMMA LoadedInvStep == LoadedInv /\ [Next]_vars => LoadedInv'
<1> SUFFICES ASSUME LoadedInv, [Next]_vars PROVE LoadedInv'
  OBVIOUS
<1>1. ServedInv'
  BY ServedInvStep DEF LoadedInv
<1> USE <1>1 DEF LoadedInv
<1>2. ASSUME NEW d \in Document, Add(d) \/ AppendFails(d) PROVE LoadedInv'
  BY <1>2 DEF Add, AppendFails
<1>3. ASSUME NEW s \in Sources, RetireSource(s) PROVE LoadedInv'
  BY <1>3 DEF RetireSource
<1>4. ASSUME NEW gate \in SUBSET Revisions, Tighten(gate) PROVE LoadedInv'
  BY <1>4 DEF Tighten
<1>5. CASE RescreenAll \/ LoadStops \/ LoadFails \/ Compact \/ SkipCompact
  BY <1>5 DEF RescreenAll, LoadStops, LoadFails, Compact, SkipCompact
<1>6. CASE Stop
  BY <1>6 DEF Stop
<1>7. CASE Load
  <2>1. screened'
    BY <1>7 DEF Load
  <2> QED
    BY <1>7, <2>1 DEF Load, disk, Reload, Passes
<1>8. CASE UNCHANGED vars
  BY <1>8 DEF vars, memory, disk, Reload, Passes
<1> QED
  BY <1>2, <1>3, <1>4, <1>5, <1>6, <1>7, <1>8 DEF Next

LEMMA CompactStep ==
  LoadedInv /\ [Next]_vars
    => (phase = "loaded" /\ phase' = "up"
          => Reload(log', rejected) = Reload(log, rejected))
<1> SUFFICES ASSUME LoadedInv, [Next]_vars, phase = "loaded", phase' = "up"
             PROVE  Reload(log', rejected) = Reload(log, rejected)
  OBVIOUS
<1>1. Compact \/ SkipCompact
  BY DEF Next, vars, Add, AppendFails, RetireSource, Tighten, RescreenAll,
         Stop, Load, LoadStops, LoadFails
<1>2. CASE Compact
  BY <1>2, ReloadOfListing
     DEF Compact, LoadedInv, ServedInv, OneRevisionPerSource,
         ServedContentIsAllowed
<1>3. CASE SkipCompact
  BY <1>3 DEF SkipCompact, disk
<1> QED
  BY <1>1, <1>2, <1>3

(* Compaction changes the file and nothing a reload under the same gate    *)
(* would find in it, torn lines or not.                                    *)
THEOREM StoreCompactKeepsView == Spec => CompactKeepsView
BY LoadedInvInit, LoadedInvStep, CompactStep, PTL DEF Spec, CompactKeepsView

-----------------------------------------------------------------------------
(* What a cut append can cost, whatever happens to the gate.  The lines    *)
(* before an unended one are what the next append leaves of the file, so   *)
(* it is there that the loss has to be counted; LossIsBounded alone is not *)
(* inductive, and it says nothing while documents are not screened again.  *)
Settled == IF unended THEN SubSeq(log, 1, Len(log) - 1) ELSE log

Lost(lines) ==
  {d \in documents : d.revision \notin rejected /\ d \notin Reload(lines, rejected)}

LossInv ==
  /\ LoadedInv
  /\ IsFiniteSet(documents)
  /\ unended \in BOOLEAN /\ (unended => log # <<>> /\ partials > 0)
  /\ partials \in Nat
  /\ ~half =>
       Cardinality(Lost(Settled)) <= 2 * partials - (IF unended THEN 1 ELSE 0)

LEMMA LogParts ==
  ASSUME NEW lines \in Seq(Line), lines # <<>>
  PROVE  /\ SubSeq(lines, 1, Len(lines) - 1) \in Seq(Line)
         /\ lines[Len(lines)] \in Line
         /\ lines = Append(SubSeq(lines, 1, Len(lines) - 1), lines[Len(lines)])
         /\ \A line \in Line :
              [lines EXCEPT ![Len(lines)] = line] = Append(SubSeq(lines, 1, Len(lines) - 1), line)
<1> DEFINE n == Len(lines)
           front == SubSeq(lines, 1, n - 1)
<1>1. n \in Nat /\ n > 0 /\ lines \in [1..n -> Line]
  OBVIOUS
<1>2. front \in Seq(Line) /\ Len(front) = n - 1
      /\ \A i \in 1..(n - 1) : front[i] = lines[i]
  BY <1>1
<1>3. ASSUME NEW x \in Line
      PROVE  /\ Append(front, x) \in [1..n -> Line]
             /\ Append(front, x)[n] = x
             /\ \A i \in 1..(n - 1) : Append(front, x)[i] = lines[i]
  <2> HIDE DEF front, n
  <2>1. /\ Append(front, x) \in Seq(Line)
        /\ Len(Append(front, x)) = Len(front) + 1
        /\ Append(front, x)[Len(front) + 1] = x
        /\ \A i \in 1..Len(front) : Append(front, x)[i] = front[i]
    BY <1>2
  <2>2. Len(front) + 1 = n /\ Len(front) = n - 1
    BY <1>1, <1>2
  <2>3. ASSUME NEW q \in Seq(Line)
        PROVE  q \in [1..Len(q) -> Line]
    OBVIOUS
  <2>4. Append(front, x) \in [1..n -> Line]
    BY <2>1, <2>2, <2>3
  <2>5. Append(front, x)[n] = x
    BY <2>1, <2>2
  <2>6. \A i \in 1..(n - 1) : Append(front, x)[i] = lines[i]
    BY <1>2, <2>1, <2>2
  <2> QED
    BY <2>4, <2>5, <2>6
<1>4. lines[n] \in Line
  BY <1>1
<1>5. lines = Append(front, lines[n])
  <2> HIDE DEF front, n
  <2> QED
    BY <1>1, <1>3, <1>4
<1>6. ASSUME NEW line \in Line PROVE [lines EXCEPT ![n] = line] = Append(front, line)
  <2> HIDE DEF front, n
  <2>1. \A i \in 1..n : [lines EXCEPT ![n] = line][i] = Append(front, line)[i]
    BY <1>1, <1>3
  <2> QED
    BY <1>1, <1>3, <2>1
<1> QED
  BY <1>2, <1>4, <1>5, <1>6

(* A line at the end hides records of its own source only. *)
LEMMA ReloadBeforeLine ==
  ASSUME NEW lines \in Seq(Line), NEW gate,
         NEW line \in Line,
         NEW e \in Reload(lines, gate), e \notin Reload(Append(lines, line), gate)
  PROVE  line \in Document /\ line.source = e.source
<1> DEFINE longer == Append(lines, line)
           n == Len(lines) + 1
<1>1. /\ Len(longer) = n /\ longer[n] = line /\ n \in Nat
      /\ \A k \in 1..Len(lines) : longer[k] = lines[k]
      /\ DOMAIN longer = 1..n /\ DOMAIN lines = 1..Len(lines)
  OBVIOUS
<1>2. PICK i \in DOMAIN lines :
        /\ lines[i] = e /\ Passes(lines, gate, i)
        /\ \A j \in (i + 1)..Len(lines) :
             Passes(lines, gate, j) => lines[j].source # lines[i].source
  BY DEF Reload
<1>3. i \in DOMAIN longer /\ longer[i] = e /\ Passes(longer, gate, i)
  BY <1>1, <1>2 DEF Passes
<1>4. PICK j \in (i + 1)..Len(longer) : Passes(longer, gate, j) /\ longer[j].source = longer[i].source
  BY <1>3 DEF Reload
<1>5. j = n
  <2> SUFFICES ASSUME j # n PROVE FALSE
    OBVIOUS
  <2>1. j \in (i + 1)..Len(lines) /\ longer[j] = lines[j]
    BY <1>1, <1>2
  <2>2. Passes(lines, gate, j)
    BY <1>4, <2>1 DEF Passes
  <2> QED
    BY <1>2, <1>3, <1>4, <2>1, <2>2
<1> QED
  BY <1>1, <1>3, <1>4, <1>5 DEF Passes

(* What it adds to the reload is itself.                                   *)
LEMMA ReloadOfLonger ==
  ASSUME NEW lines \in Seq(Line), NEW gate,
         NEW line \in Line,
         NEW e \in Reload(Append(lines, line), gate), e \notin Reload(lines, gate)
  PROVE  e = line
<1> DEFINE longer == Append(lines, line)
           n == Len(lines) + 1
<1>1. /\ Len(longer) = n /\ longer[n] = line /\ n \in Nat
      /\ \A k \in 1..Len(lines) : longer[k] = lines[k]
      /\ DOMAIN longer = 1..n /\ DOMAIN lines = 1..Len(lines)
  OBVIOUS
<1>2. PICK i \in DOMAIN longer :
        /\ longer[i] = e /\ Passes(longer, gate, i)
        /\ \A j \in (i + 1)..Len(longer) :
             Passes(longer, gate, j) => longer[j].source # longer[i].source
  BY DEF Reload
<1>3. SUFFICES ASSUME i # n PROVE FALSE
  BY <1>1, <1>2
<1>4. i \in DOMAIN lines /\ lines[i] = e /\ Passes(lines, gate, i)
  BY <1>1, <1>2, <1>3 DEF Passes
<1>5. ASSUME NEW j \in (i + 1)..Len(lines), Passes(lines, gate, j)
      PROVE  lines[j].source # lines[i].source
  <2>1. j \in (i + 1)..Len(longer) /\ longer[j] = lines[j]
    BY <1>1, <1>4, <1>5
  <2>2. Passes(longer, gate, j)
    BY <2>1, <1>5 DEF Passes
  <2> QED
    BY <2>1, <2>2, <1>2, <1>4
<1> QED
  BY <1>4, <1>5 DEF Reload

LEMMA LostFinite ==
  ASSUME IsFiniteSet(documents), NEW lines
  PROVE  IsFiniteSet(Lost(lines)) /\ Cardinality(Lost(lines)) \in Nat
<1>1. Lost(lines) \subseteq documents
  BY DEF Lost
<1> QED
  BY <1>1, FS_Subset, FS_CardinalityType

LEMMA OneMore ==
  ASSUME NEW S, IsFiniteSet(S), NEW x, NEW T \in SUBSET (S \union {x})
  PROVE  IsFiniteSet(T) /\ Cardinality(T) <= Cardinality(S) + 1
<1>0. Cardinality(S) \in Nat
  BY FS_CardinalityType
<1>1. IsFiniteSet(S \union {x}) /\ Cardinality(S \union {x}) <= Cardinality(S) + 1
  <2>1. /\ IsFiniteSet(S \union {x})
        /\ Cardinality(S \union {x}) = IF x \in S THEN Cardinality(S) ELSE Cardinality(S) + 1
    BY FS_AddElement
  <2> QED
    BY <1>0, <2>1
<1>2. IsFiniteSet(T) /\ Cardinality(T) <= Cardinality(S \union {x})
  BY <1>1, FS_Subset
<1> QED
  BY <1>1, <1>2, FS_CardinalityType

LEMMA HiddenByLine ==
  ASSUME NEW lines \in Seq(Line), NEW line \in Line,
         NEW e \in Reload(lines, rejected), e \notin Reload(Append(lines, line), rejected)
  PROVE  line \in Document /\ line.source = e.source
<1>1. PICK gate : gate = rejected
  OBVIOUS
<1>2. e \in Reload(lines, gate) /\ e \notin Reload(Append(lines, line), gate)
  BY <1>1
<1> QED
  BY <1>2, ReloadBeforeLine

(* The unended line can hide one served document, that of its own source.  *)
LEMMA LostWithTail ==
  ASSUME LossInv, ~half
  PROVE  Cardinality(Lost(log)) <= 2 * partials
<1> USE DEF LossInv
<1>1. CASE ~unended
  BY <1>1, LostFinite DEF Settled
<1>2. CASE unended
  <2>1. /\ LogType /\ log # <<>> /\ documents \subseteq Document
        /\ OneRevisionPerSource
    BY <1>2 DEF LoadedInv, ServedInv
  <2>2. PICK x \in Line : log = Append(Settled, x) /\ Settled \in Seq(Line)
    BY <1>2, <2>1, LogParts DEF Settled, LogType
  <2>3. ASSUME NEW e \in Lost(log) \ Lost(Settled)
        PROVE  x \in Document /\ x.source = e.source /\ e \in documents
    <3>1. /\ e \in documents /\ e \in Reload(Settled, rejected)
          /\ e \notin Reload(Append(Settled, x), rejected)
      BY <2>2, <2>3 DEF Lost
    <3>2. x \in Document /\ x.source = e.source
      BY <2>2, <3>1, HiddenByLine
    <3> QED
      BY <3>1, <3>2
  <2>4. \E y : Lost(log) \subseteq Lost(Settled) \union {y}
    <3>1. CASE Lost(log) \subseteq Lost(Settled)
      BY <3>1
    <3>2. ASSUME NEW y \in Lost(log) \ Lost(Settled)
          PROVE  Lost(log) \subseteq Lost(Settled) \union {y}
      <4>1. \A e \in Lost(log) \ Lost(Settled) : e = y
        BY <2>1, <2>3, <3>2 DEF OneRevisionPerSource
      <4> QED
        BY <4>1
    <3> QED
      BY <3>1, <3>2
  <2>5. Cardinality(Lost(log)) <= Cardinality(Lost(Settled)) + 1
    BY <2>4, LostFinite, OneMore
  <2>6. Cardinality(Lost(log)) \in Nat /\ Cardinality(Lost(Settled)) \in Nat
    BY LostFinite
  <2> QED
    BY <1>2, <2>5, <2>6
<1> QED
  BY <1>1, <1>2

(* Nothing is lost to a stricter gate or by forgetting a document. *)
LEMMA LostShrinks ==
  ASSUME LossInv, rejected \subseteq rejected', documents' \subseteq documents,
         UNCHANGED <<disk, half, partials>>, LoadedInv'
  PROVE  LossInv'
<1> USE DEF LossInv
<1>1. Settled' = Settled /\ Settled \in Seq(Line)
  BY LogParts DEF Settled, disk, LoadedInv, ServedInv, LogType
<1>2. ASSUME NEW lines \in Seq(Line)
      PROVE  Lost(lines)' \subseteq Lost(lines)
  BY ReloadUnderStricterGate DEF Lost
<1>3. Lost(Settled)' = {d \in documents' : d.revision \notin rejected' /\ d \notin Reload(Settled, rejected')}
  BY <1>1 DEF Lost, Reload, Passes
<1>4. PICK lines : lines = Settled
  OBVIOUS
<1>5. Lost(Settled)' \subseteq Lost(Settled)
  BY <1>1, <1>2, <1>3, <1>4 DEF Lost
<1>6. IsFiniteSet(documents') /\ Cardinality(Lost(Settled)') <= Cardinality(Lost(Settled))
  BY <1>5, LostFinite, FS_Subset
<1>7. Cardinality(Lost(Settled)') \in Nat /\ Cardinality(Lost(Settled)) \in Nat
  BY <1>5, LostFinite, FS_Subset, FS_CardinalityType
<1> QED
  BY <1>6, <1>7 DEF disk

(* After the next line the unended one is unreadable.                      *)
Settles(line) == IF unended THEN Joined(log[Len(log)], line) ELSE line

LEMMA WrittenAfterSettled ==
  ASSUME LossInv, NEW line \in Line
  PROVE  /\ Settled \in Seq(Line)
         /\ Written(line) = Append(Settled, Settles(line))
         /\ Settles(line) \in Line /\ (unended => Settles(line) \notin Document)
         /\ Written(line) # <<>>
<1>1. LogType /\ (unended => log # <<>>)
  BY DEF LossInv, LoadedInv, ServedInv
<1>2. Settles(line) \in Line /\ (unended => Settles(line) \notin Document)
  BY DocumentStoreAssumption DEF Settles, Joined
<1>3. CASE unended
  <2>1. Written(line) = [log EXCEPT ![Len(log)] = Settles(line)]
    BY <1>3 DEF Written, Settles
  <2> QED
    BY <1>1, <1>2, <1>3, <2>1, LogParts, WrittenIsNotEmpty DEF Settled, LogType
<1>4. CASE ~unended
  BY <1>1, <1>2, <1>4, WrittenIsNotEmpty DEF Settled, Settles, Written, LogType
<1> QED
  BY <1>3, <1>4

LEMMA FrontOfAppend ==
  ASSUME NEW S, NEW lines \in Seq(S), NEW x \in S
  PROVE  SubSeq(Append(lines, x), 1, Len(Append(lines, x)) - 1) = lines
OBVIOUS

(* The loss of the next state, in terms of its file and its gate.          *)
LEMMA LostNext ==
  ASSUME NEW lines, Settled' = lines
  PROVE  Lost(Settled)' = {d \in documents' : d.revision \notin rejected'
                                               /\ d \notin Reload(lines, rejected')}
BY DEF Lost, Reload, Passes

(* An append that succeeds costs its own document if the line before it    *)
(* was unended, and nothing otherwise.                                     *)
LEMMA AddLoses ==
  ASSUME LossInv, NEW d \in Document, Add(d), LoadedInv'
  PROVE  LossInv'
<1>1. /\ unended' = FALSE /\ partials' = partials /\ rejected' = rejected
      /\ half' = half
      /\ documents' = {e \in documents : e.source # d.source} \cup {d}
      /\ log' = Written(d) /\ d.revision \notin rejected
  BY DEF Add, bounds, Installed
<1>2. IsFiniteSet(documents')
  <2>1. {e \in documents : e.source # d.source} \subseteq documents
    OBVIOUS
  <2> QED
    BY <1>1, <2>1, FS_Subset, FS_AddElement DEF LossInv
<1>3. /\ Settled \in Seq(Line)
      /\ log' = Append(Settled, Settles(d))
      /\ Settled' = log'
  BY <1>1, WrittenAfterSettled DEF Settled
<1> DEFINE lines == Append(Settled, Settles(d))
<1>4. Lost(Settled)' = {e \in documents' : e.revision \notin rejected
                                            /\ e \notin Reload(lines, rejected)}
  BY <1>1, <1>3, LostNext
<1>5. unended' \in BOOLEAN /\ ~unended'
  BY <1>1
<1>6. CASE unended
  <2>1. Settles(d) \in Line /\ Settles(d) \notin Document
    BY <1>6, WrittenAfterSettled
  <2>2. \A e \in Reload(Settled, rejected) : e \in Reload(lines, rejected)
    BY <1>3, <2>1, ReloadBeforeLine
  <2>3. Lost(Settled)' \subseteq Lost(Settled) \union {d}
    BY <1>1, <1>4, <2>2 DEF Lost
  <2>4. Cardinality(Lost(Settled)') <= Cardinality(Lost(Settled)) + 1
    BY <2>3, LostFinite, OneMore DEF LossInv
  <2>5. Cardinality(Lost(Settled)) \in Nat /\ Cardinality(Lost(Settled)') \in Nat
    BY <2>3, LostFinite, OneMore, FS_CardinalityType DEF LossInv
  <2> QED
    BY <1>1, <1>2, <1>5, <1>6, <2>4, <2>5 DEF LossInv
<1>7. CASE ~unended
  <2>1. lines = Append(Settled, d)
    BY <1>7 DEF Settles
  <2>2. Lost(Settled)' \subseteq Lost(Settled)
    BY <1>1, <1>3, <1>4, <2>1, ReloadAfterAppend DEF Lost
  <2>3. /\ Cardinality(Lost(Settled)') <= Cardinality(Lost(Settled))
        /\ Cardinality(Lost(Settled)) \in Nat /\ Cardinality(Lost(Settled)') \in Nat
    BY <2>2, LostFinite, FS_Subset, FS_CardinalityType DEF LossInv
  <2> QED
    BY <1>1, <1>2, <1>5, <1>7, <2>3 DEF LossInv
<1> QED
  BY <1>6, <1>7

(* One that is cut short leaves everything before it as it was.            *)
LEMMA FailedAppendLoses ==
  ASSUME LossInv, NEW d \in Document, AppendFails(d), LoadedInv'
  PROVE  LossInv'
<1>1. /\ unended' = TRUE /\ partials' = partials + 1
      /\ documents' = documents /\ rejected' = rejected /\ half' = half
  BY DEF AppendFails, memory
<1>2. PICK piece \in Line : log' = Written(piece)
  BY DEF AppendFails, Pieces
<1>3. /\ Settled \in Seq(Line) /\ log' # <<>>
      /\ log' = Append(Settled, Settles(piece)) /\ Settles(piece) \in Line
  BY <1>2, WrittenAfterSettled
<1>4. Settled' = Settled
  <2>1. Settled' = SubSeq(log', 1, Len(log') - 1)
    BY <1>1 DEF Settled
  <2> QED
    BY <1>3, <2>1, FrontOfAppend
<1>5. Lost(Settled)' = Lost(Settled)
  BY <1>1, <1>4, LostNext DEF Lost
<1>6. Cardinality(Lost(Settled)) \in Nat
  BY LostFinite DEF LossInv
<1> QED
  BY <1>1, <1>3, <1>5, <1>6 DEF LossInv

LEMMA StopLoses ==
  ASSUME LossInv, Stop, LoadedInv'
  PROVE  LossInv'
<1>1. documents' = {}
  BY DEF Stop
<1>2. Lost(Settled)' = {}
  BY <1>1 DEF Lost
<1>3. IsFiniteSet({}) /\ Cardinality({}) = 0
  BY FS_EmptySet
<1>4. CASE UNCHANGED <<disk, partials>>
  BY <1>1, <1>2, <1>3, <1>4 DEF LossInv, disk
<1>5. CASE partials' = partials + 1 /\ (\E line \in Line : log' = Written(line)) /\ unended' = TRUE
  <2>1. log' # <<>>
    BY <1>5, WrittenAfterSettled
  <2> QED
    BY <1>1, <1>2, <1>3, <1>5, <2>1 DEF LossInv
<1> QED
  BY <1>4, <1>5 DEF Stop, Pieces

(* A reload brings finitely many documents. *)
LEMMA ReloadFinite ==
  ASSUME NEW file \in Seq(Line), NEW gate
  PROVE  IsFiniteSet(Reload(file, gate))
<1>1. Len(file) \in Nat /\ DOMAIN file = 1..Len(file)
  OBVIOUS
<1>2. IsFiniteSet(DOMAIN file)
  BY <1>1, FS_Interval
<1> DEFINE lines == {file[i] : i \in DOMAIN file}
           line == [i \in DOMAIN file |-> file[i]]
<1>3. line \in Surjection(DOMAIN file, lines)
  BY DEF Surjection
<1>4. Reload(file, gate) \subseteq lines
  BY DEF Reload
<1>5. IsFiniteSet(lines)
  BY <1>2, <1>3, FS_Surjection
<1> QED
  BY <1>4, <1>5, FS_Subset

(* A start that is stopped in the middle of load() is not counted.         *)
LEMMA LoadStopsKeeps ==
  ASSUME LossInv, LoadStops, LoadedInv'
  PROVE  LossInv'
<1>1. half' /\ UNCHANGED <<log, unended, partials>>
  BY DEF LoadStops, disk, bounds
<1>2. ASSUME NEW i \in DOMAIN log PROVE SubSeq(log, 1, i - 1) \in Seq(Line)
  BY DEF LossInv, LoadedInv, ServedInv, LogType
<1>3. IsFiniteSet(documents')
  BY <1>2, ReloadFinite DEF LoadStops
<1> QED
  BY <1>1, <1>3 DEF LossInv

(* A reload reads the unended line too; only what that line says can be    *)
(* missing from the lines before it.                                       *)
LEMMA LoadLoses ==
  ASSUME LossInv, Load, LoadedInv'
  PROVE  LossInv'
<1>1. /\ documents' = Reload(log, rejected) /\ log' = log /\ unended' = unended
      /\ partials' = partials /\ rejected' = rejected
  BY DEF Load, disk, bounds
<1>2. log \in Seq(Line)
  BY DEF LossInv, LoadedInv, ServedInv, LogType
<1>3. IsFiniteSet(documents')
  BY <1>1, <1>2, ReloadFinite
<1>4. Settled' = Settled
  BY <1>1 DEF Settled
<1>5. Lost(Settled)' = {e \in Reload(log, rejected) : e.revision \notin rejected
                                                      /\ e \notin Reload(Settled, rejected)}
  BY <1>1, <1>4, LostNext
<1>6. CASE ~unended
  <2>1. Lost(Settled)' = {}
    BY <1>5, <1>6 DEF Settled
  <2> QED
    BY <1>1, <1>3, <1>6, <2>1, FS_EmptySet DEF LossInv
<1>7. CASE unended
  <2>1. PICK x \in Line : log = Append(Settled, x) /\ Settled \in Seq(Line)
    BY <1>2, <1>7, LogParts DEF LossInv, Settled
  <2>2. Lost(Settled)' \subseteq {x}
    BY <1>5, <2>1, ReloadOfLonger
  <2>3. /\ Cardinality(Lost(Settled)') <= 1
        /\ Cardinality(Lost(Settled)') \in Nat
    <3>1. IsFiniteSet({x}) /\ Cardinality({x}) = 1
      BY FS_Singleton
    <3>2. IsFiniteSet(Lost(Settled)') /\ Cardinality(Lost(Settled)') <= Cardinality({x})
      BY <2>2, <3>1, FS_Subset
    <3> QED
      BY <3>1, <3>2, FS_CardinalityType
  <2> QED
    BY <1>1, <1>3, <1>7, <2>3 DEF LossInv
<1> QED
  BY <1>6, <1>7

LEMMA CompactLoses ==
  ASSUME LossInv, Compact, LoadedInv'
  PROVE  LossInv'
<1>1. /\ documents' = documents /\ unended' = FALSE /\ log' \in Listings(documents)
      /\ partials' = partials /\ rejected' = rejected /\ phase = "loaded"
      /\ half' = half
  BY DEF Compact, memory, bounds
<1>2. Reload(log', rejected) = documents
  BY <1>1, ReloadOfListing
     DEF LossInv, LoadedInv, ServedInv, OneRevisionPerSource, ServedContentIsAllowed
<1>3. Settled' = log'
  BY <1>1 DEF Settled
<1>4. Lost(Settled)' = {}
  BY <1>1, <1>2, <1>3, LostNext
<1> QED
  <2>1. Cardinality(Lost(Settled)') = 0
    BY <1>4, FS_EmptySet
  <2>2. unended' \in BOOLEAN /\ ~unended'
    BY <1>1
  <2> QED
    BY <1>1, <2>1, <2>2 DEF LossInv

LEMMA LossInvInit == Init => LossInv
<1> SUFFICES ASSUME Init PROVE LossInv
  OBVIOUS
<1>1. documents = {} /\ unended = FALSE /\ partials = 0
  BY DEF Init
<1>2. Lost(Settled) = {}
  BY <1>1 DEF Lost
<1> QED
  <2>1. IsFiniteSet(documents) /\ Cardinality(Lost(Settled)) = 0
    BY <1>1, <1>2, FS_EmptySet
  <2>2. unended \in BOOLEAN /\ ~unended
    BY <1>1
  <2> QED
    BY <1>1, <2>1, <2>2, LoadedInvInit DEF LossInv

LEMMA LossInvStep == LossInv /\ [Next]_vars => LossInv'
<1> SUFFICES ASSUME LossInv, [Next]_vars PROVE LossInv'
  OBVIOUS
<1>1. LoadedInv'
  BY LoadedInvStep DEF LossInv
<1>2. ASSUME NEW d \in Document, Add(d) \/ AppendFails(d) PROVE LossInv'
  BY <1>1, <1>2, AddLoses, FailedAppendLoses
<1>3. ASSUME NEW s \in Sources, RetireSource(s) PROVE LossInv'
  BY <1>1, <1>3, LostShrinks DEF RetireSource, bounds
<1>4. ASSUME NEW gate \in SUBSET Revisions, Tighten(gate) PROVE LossInv'
  BY <1>1, <1>4, LostShrinks DEF Tighten, memory, bounds
<1>5. CASE RescreenAll
  BY <1>1, <1>5, LostShrinks DEF RescreenAll, bounds
<1>6. CASE LoadFails \/ SkipCompact
  BY <1>1, <1>6, LostShrinks DEF LoadFails, SkipCompact, memory, bounds
<1>7. CASE UNCHANGED vars
  BY <1>1, <1>7, LostShrinks DEF vars, memory, bounds
<1> QED
  BY <1>1, <1>2, <1>3, <1>4, <1>5, <1>6, <1>7, StopLoses, LoadLoses,
     LoadStopsKeeps, CompactLoses DEF Next

(* However appends, stops, reloads, compactions and gates follow on each   *)
(* other: a stop costs at most two of the served documents for each append *)
(* that was cut short, and none if there was none, unless the last start   *)
(* was stopped in the middle of its load.                                  *)
THEOREM StoreLossIsBounded == Spec => []LossIsBounded
<1>1. LossInv => LossIsBounded
  <2> SUFFICES ASSUME LossInv, screened, ~half
               PROVE  Cardinality(documents \ Reload(log, rejected)) <= 2 * partials
    BY DEF LossIsBounded
  <2>1. documents \ Reload(log, rejected) = Lost(log)
    BY DEF LossInv, LoadedInv, ServedInv, ServedContentIsAllowed, Lost
  <2> QED
    BY <2>1, LostWithTail
<1> QED
  BY <1>1, LossInvInit, LossInvStep, PTL DEF Spec

-----------------------------------------------------------------------------
(* The store as the pipeline sees it.  A whole line appended to a file     *)
(* that ends with a newline replaces what a reload finds for its source.   *)
LEMMA ReloadReplaces ==
  ASSUME NEW lines \in Seq(Line), NEW gate, NEW d \in Document, d.revision \notin gate
  PROVE  Reload(Append(lines, d), gate) = Installed(Reload(lines, gate), d)
<1>1. Append(lines, d) \in Seq(Line)
  OBVIOUS
<1>2. ASSUME NEW e \in Reload(Append(lines, d), gate)
      PROVE  e \in Installed(Reload(lines, gate), d)
  <2>1. d \in Reload(Append(lines, d), gate)
    BY ReloadAfterAppend
  <2>2. e.source = d.source => e = d
    BY <1>1, <1>2, <2>1, ReloadSound
  <2>3. e \in Reload(lines, gate) \/ e = d
    BY <1>2, ReloadOfLonger
  <2> QED
    BY <2>2, <2>3 DEF Installed
<1>3. Installed(Reload(lines, gate), d) \subseteq Reload(Append(lines, d), gate)
  BY ReloadAfterAppend DEF Installed
<1> QED
  BY <1>2, <1>3

LEMMA NextFile == Reload(log, rejected)' = Reload(log', rejected')
BY DEF Reload, Passes

LEMMA ViewStep ==
  LossInv /\ [Next]_vars
    => (UNCHANGED <<unended, partials, rejected>> /\ (half' => half)
          => View!Next \/ UNCHANGED <<documents, Reload(log, rejected)>>)
<1> SUFFICES ASSUME LossInv, [Next]_vars, half' => half,
                    UNCHANGED <<unended, partials, rejected>>
             PROVE  View!Next \/ UNCHANGED <<documents, Reload(log, rejected)>>
  OBVIOUS
<1> DEFINE file == Reload(log, rejected)
<1>0. log' = log => file' = file
  BY NextFile
<1>1. ASSUME NEW d \in Document, Add(d) PROVE View!Next
  <2>1. /\ log' = Append(log, d) /\ d.revision \notin rejected
        /\ documents' = Installed(documents, d)
    BY <1>1 DEF Add, Written
  <2>2. file' = Installed(file, d)
    BY <2>1, NextFile, ReloadReplaces DEF LossInv, LoadedInv, ServedInv, LogType
  <2>3. View!Add(d)
    BY <2>1, <2>2 DEF View!Add, View!Replaced, Installed
  <2> QED
    BY <2>3 DEF View!Next
<1>2. ASSUME NEW d \in Document PROVE ~AppendFails(d)
  BY DEF AppendFails, LossInv
<1>3. ASSUME documents' \subseteq documents, log' = log PROVE View!Next
  BY <1>0, <1>3 DEF View!Next, View!Forget
<1>4. CASE Load
  <2>1. documents' = file /\ log' = log
    BY <1>4 DEF Load, disk
  <2> QED
    BY <1>0, <2>1 DEF View!Next, View!Restart
<1>5. CASE Stop
  <2>1. documents' = {} /\ log' = log
    BY <1>5 DEF Stop, disk, LossInv
  <2> QED
    BY <1>3, <2>1
<1>6. CASE Compact \/ SkipCompact
  <2>1. documents' = documents /\ phase = "loaded" /\ phase' = "up"
    BY <1>6 DEF Compact, SkipCompact, memory
  <2>2. file' = file
    BY <2>1, CompactStep, NextFile DEF LossInv
  <2> QED
    BY <2>1, <2>2
<1>7. ASSUME NEW s \in Sources, RetireSource(s) PROVE View!Next
  BY <1>3, <1>7 DEF RetireSource, disk
<1>8. ASSUME NEW gate \in SUBSET Revisions PROVE ~Tighten(gate)
  BY DEF Tighten
<1>9. CASE RescreenAll \/ LoadFails \/ UNCHANGED vars
  BY <1>3, <1>9 DEF RescreenAll, LoadFails, vars, disk, memory
<1>10. ~LoadStops
  BY DEF LoadStops, LossInv, LoadedInv
<1> QED
  BY <1>1, <1>2, <1>4, <1>5, <1>6, <1>7, <1>8, <1>9, <1>10 DEF Next

(* Unless an append is cut short, follows a cut one, the gate changes or a *)
(* load stops half-way, whatever the store does is an addition, a          *)
(* forgetting or a restart to those who use it.                            *)
THEOREM StoreActsAsView == Spec => ActsAsView
BY LossInvInit, LossInvStep, ViewStep, PTL DEF Spec, ActsAsView

-----------------------------------------------------------------------------
(* The loop of load() and its closed form.  What the loop has in memory    *)
(* after i lines is the closed form of these lines; that there is no other *)
(* result is shown by the first line where two could differ.               *)
LEMMA LeastNat ==
  ASSUME NEW T \in SUBSET Nat, T # {}
  PROVE  \E x \in T : \A y \in T : x <= y
<1>1. PICK x \in T : \A y \in T : <<y, x>> \notin OpToRel(<, Nat)
  BY NatLessThanWellFounded, WFMin
<1>2. \A y \in T : ~(y < x)
  BY <1>1 DEF OpToRel
<1> QED
  BY <1>2

ReloadTo(lines, gate, i) ==
  {lines[k] : k \in {m \in 1..i :
     /\ Passes(lines, gate, m)
     /\ \A j \in (m + 1)..i : Passes(lines, gate, j) => lines[j].source # lines[m].source}}

LoadStep(view, lines, gate, i) ==
  IF Passes(lines, gate, i) THEN Installed(view, lines[i]) ELSE view

Loads(view, lines, gate) ==
  view = [i \in 0..Len(lines) |->
            IF i = 0 THEN {} ELSE LoadStep(view[i - 1], lines, gate, i)]

LEMMA ReloadToStep ==
  ASSUME NEW lines \in Seq(Line), NEW gate, NEW i \in 1..Len(lines)
  PROVE  ReloadTo(lines, gate, i) = LoadStep(ReloadTo(lines, gate, i - 1), lines, gate, i)
<1> DEFINE Last(m, n) ==
             /\ Passes(lines, gate, m)
             /\ \A j \in (m + 1)..n : Passes(lines, gate, j) => lines[j].source # lines[m].source
<1>1. /\ ReloadTo(lines, gate, i) = {lines[k] : k \in {m \in 1..i : Last(m, i)}}
      /\ ReloadTo(lines, gate, i - 1) = {lines[k] : k \in {m \in 1..(i - 1) : Last(m, i - 1)}}
  BY DEF ReloadTo
<1>2. i \in Nat /\ i > 0
  OBVIOUS
<1>3. CASE ~Passes(lines, gate, i)
  <2>1. \A m \in 1..i : Last(m, i) <=> m \in 1..(i - 1) /\ Last(m, i - 1)
    BY <1>2, <1>3
  <2> HIDE DEF Last
  <2> QED
    BY <1>1, <1>2, <1>3, <2>1 DEF LoadStep
<1>4. CASE Passes(lines, gate, i)
  <2>1. Last(i, i)
    BY <1>2, <1>4
  <2>2. \A m \in 1..(i - 1) :
          Last(m, i) <=> Last(m, i - 1) /\ lines[m].source # lines[i].source
    BY <1>2, <1>4
  <2> HIDE DEF Last
  <2>3. LoadStep(ReloadTo(lines, gate, i - 1), lines, gate, i)
          = {e \in ReloadTo(lines, gate, i - 1) : e.source # lines[i].source} \cup {lines[i]}
    BY <1>4 DEF LoadStep, Installed
  <2>4. ASSUME NEW e
        PROVE  e \in ReloadTo(lines, gate, i)
                 <=> \/ e = lines[i]
                     \/ e \in ReloadTo(lines, gate, i - 1) /\ e.source # lines[i].source
    BY <1>1, <1>2, <2>1, <2>2
  <2> QED
    BY <2>3, <2>4
<1> QED
  BY <1>3, <1>4

LEMMA LoadsOnce ==
  ASSUME NEW lines \in Seq(Line), NEW gate,
         NEW f, Loads(f, lines, gate), NEW g, Loads(g, lines, gate)
  PROVE  \A i \in 0..Len(lines) : f[i] = g[i]
<1> DEFINE Differ == {i \in 0..Len(lines) : f[i] # g[i]}
<1> SUFFICES ASSUME Differ # {} PROVE FALSE
  OBVIOUS
<1>1. Len(lines) \in Nat
  OBVIOUS
<1>2. PICK i \in Differ : \A k \in Differ : i <= k
  <2>1. Differ \in SUBSET Nat
    BY <1>1
  <2> HIDE DEF Differ
  <2> QED
    BY <2>1, LeastNat
<1>3. f[0] = {} /\ g[0] = {}
  BY <1>1 DEF Loads
<1>4. i \in 1..Len(lines)
  <2>1. i \in 0..Len(lines) /\ f[i] # g[i]
    BY <1>2
  <2>2. i # 0
    BY <2>1, <1>3
  <2> QED
    BY <1>1, <2>1, <2>2
<1>5. i - 1 \in 0..Len(lines) /\ i - 1 < i
  BY <1>1, <1>4
<1>6. f[i - 1] = g[i - 1]
  BY <1>2, <1>5
<1>7. f[i] = LoadStep(f[i - 1], lines, gate, i) /\ g[i] = LoadStep(g[i - 1], lines, gate, i)
  BY <1>1, <1>4 DEF Loads
<1> QED
  BY <1>2, <1>6, <1>7

LEMMA LoopIsReload ==
  ASSUME NEW lines \in Seq(Line), NEW gate
  PROVE  LoadLoop(lines, gate) = Reload(lines, gate)
<1> DEFINE closed == [i \in 0..Len(lines) |-> ReloadTo(lines, gate, i)]
           view == CHOOSE f : Loads(f, lines, gate)
<1>1. Len(lines) \in Nat
  OBVIOUS
<1>2. Loads(closed, lines, gate)
  <2>1. closed[0] = {}
    BY <1>1 DEF ReloadTo
  <2>2. ASSUME NEW i \in 1..Len(lines)
        PROVE  closed[i] = LoadStep(closed[i - 1], lines, gate, i)
    <3>1. i - 1 \in 0..Len(lines) /\ i \in 0..Len(lines)
      BY <1>1
    <3>2. closed[i] = ReloadTo(lines, gate, i) /\ closed[i - 1] = ReloadTo(lines, gate, i - 1)
      BY <3>1
    <3> QED
      BY <3>2, ReloadToStep
  <2>3. closed = [i \in 0..Len(lines) |-> closed[i]]
    OBVIOUS
  <2>4. \A i \in 0..Len(lines) : i # 0 => i \in 1..Len(lines)
    BY <1>1
  <2> HIDE DEF closed
  <2>5. \A i \in 0..Len(lines) :
          closed[i] = IF i = 0 THEN {} ELSE LoadStep(closed[i - 1], lines, gate, i)
    BY <2>1, <2>2, <2>4
  <2> QED
    BY <2>3, <2>5 DEF Loads
<1>3. Loads(view, lines, gate)
  BY <1>2
<1>4. LoadLoop(lines, gate) = view[Len(lines)]
  BY DEF LoadLoop, Loads, LoadStep
<1>5. view[Len(lines)] = closed[Len(lines)]
  <2> HIDE DEF view, closed
  <2> QED
    BY <1>1, <1>2, <1>3, LoadsOnce
<1>6. closed[Len(lines)] = Reload(lines, gate)
  BY <1>1 DEF ReloadTo, Reload
<1> QED
  BY <1>4, <1>5, <1>6

(* The closed form the model reloads with is what the loop of load()       *)
(* leaves in memory, for every file the store can have written.            *)
THEOREM StoreReloadIsTheLoop == Spec => []ReloadIsTheLoop
<1>1. ServedInv => ReloadIsTheLoop
  BY LoopIsReload DEF ServedInv, LogType, ReloadIsTheLoop
<1>2. Spec => []ServedInv
  BY ServedInvInit, ServedInvStep, PTL DEF Spec
<1> QED
  BY <1>1, <1>2, PTL
=============================================================================
