--------------------------- MODULE DocumentStore ----------------------------
(***************************************************************************)
(* The retrieval index (retrieval/store.py): documents and chunks in       *)
(* memory, and the append-only file index.jsonl they are rebuilt from when *)
(* SidraService starts (api/service.py).                                   *)
(*                                                                         *)
(* A document is a revision of a logical source (origin, repository, type  *)
(* and path in the code); that pair is also its doc_id.  The security gate *)
(* is the set of revisions it rejects at the moment.  Every method body    *)
(* runs under the store's lock, so each is one action; the process may     *)
(* stop between any two, and in the middle of an append.                   *)
(***************************************************************************)
EXTENDS Integers, Sequences, FiniteSets

CONSTANTS Sources,      \* logical sources
          Revisions,    \* contents a source can have
          Torn,         \* a line of index.jsonl that is not a record
          Garbled,      \* a line cut within a character: it is not UTF-8
          MinDead,      \* compact's min_dead
          MaxLog,       \* bound: lines of index.jsonl
          MaxPartial,   \* bound: appends cut short
          MaxRestarts   \* bound: stops of the service process

Document == [source : Sources, revision : Revisions]
Line == Document \cup {Torn, Garbled}

ASSUME DocumentStoreAssumption ==
  /\ {Torn, Garbled} \cap Document = {}
  /\ MinDead \in Nat /\ MaxLog \in Nat /\ MaxPartial \in Nat /\ MaxRestarts \in Nat

VARIABLES documents,   \* _documents
          chunks,      \* _chunks, by the document they were cut from
          log,         \* the lines of index.jsonl
          unended,     \* the last line has no newline yet
          rejected,    \* what the gate in force does not ALLOW
          screened,    \* documents have been screened by the gate in force
          phase,       \* "down", "loaded" (before compact) or "up"
          half,        \* the last start was stopped in the middle of load()
          partials, restarts

memory == <<documents, chunks, half>>
disk   == <<log, unended>>
bounds == <<partials, restarts>>
vars   == <<memory, disk, rejected, screened, phase, bounds>>

-----------------------------------------------------------------------------
(* _retire_logical_source_locked followed by the insertion of the document *)
(* and its chunks; shared by add and _install.                             *)
Installed(view, d) == {e \in view : e.source # d.source} \cup {d}

(* The records load() gets past the JSON parser and the gate. *)
Passes(lines, gate, i) == lines[i] \in Document /\ lines[i].revision \notin gate

(* Mutant: the first record of a source wins, later ones are duplicates. *)
ReloadFirst(lines, gate) ==
  {lines[i] : i \in {k \in DOMAIN lines :
     /\ Passes(lines, gate, k)
     /\ \A j \in 1..(k - 1) :
          Passes(lines, gate, j) => lines[j].source # lines[k].source}}

(* What load() leaves in memory: records are installed in file order, each *)
(* retiring the one before it, so the last one that passes is left.        *)
Reload(lines, gate) ==
  {lines[i] : i \in {k \in DOMAIN lines :
     /\ Passes(lines, gate, k)
     /\ \A j \in (k + 1)..Len(lines) :
          Passes(lines, gate, j) => lines[j].source # lines[k].source}}

(* load() and compact() can decode the file; the error an undecodable line *)
(* raises is not the line's, it ends the loop over all of them.            *)
Decodable == \A i \in DOMAIN log : log[i] # Garbled

(* A line is written at the end of the file.  If the line before it was    *)
(* cut short, the two become one line, which is not JSON.                  *)
Joined(old, line) == IF Garbled \in {old, line} THEN Garbled ELSE Torn
Written(line) == IF unended THEN [log EXCEPT ![Len(log)] = Joined(@, line)]
                            ELSE Append(log, line)

(* What a write that is cut short leaves of a line: a part of it, or all   *)
(* of it but the newline.                                                  *)
Pieces(d) == {Torn, Garbled, d}

(* The files compact can write: every live document once. *)
Listings(view) ==
  {q \in UNION {[1..n -> view] : n \in 0..Len(log)} :
     /\ \A d \in view : \E i \in DOMAIN q : q[i] = d
     /\ \A i, j \in DOMAIN q : q[i] = q[j] => i = j}

-----------------------------------------------------------------------------
Init == /\ documents = {} /\ chunks = {} /\ half = FALSE
        /\ log = <<>> /\ unended = FALSE
        /\ rejected \in SUBSET Revisions
        /\ screened = TRUE
        /\ phase = "up"
        /\ partials = 0 /\ restarts = 0

(* Mutant: the new revision is inserted without retiring the old one. *)
AddBeside(d) ==
  /\ phase = "up"
  /\ d.revision \notin rejected
  /\ Len(log) < MaxLog
  /\ log' = Written(d)
  /\ unended' = FALSE
  /\ documents' = documents \cup {d}
  /\ chunks' = chunks \cup {d}
  /\ UNCHANGED <<rejected, screened, phase, half, bounds>>

(* Mutant: memory changes although the line did not get to disk. *)
AppendErrorIgnored(d) ==
  /\ phase = "up"
  /\ d.revision \notin rejected
  /\ documents' = Installed(documents, d)
  /\ chunks' = Installed(chunks, d)
  /\ UNCHANGED <<disk, rejected, screened, phase, half, bounds>>

(* add: only what the gate allows; the line is on disk before memory       *)
(* changes.                                                                *)
Add(d) ==
  /\ phase = "up"
  /\ d.revision \notin rejected
  /\ Len(log) < MaxLog
  /\ log' = Written(d)
  /\ unended' = FALSE
  /\ documents' = Installed(documents, d)
  /\ chunks' = Installed(chunks, d)
  /\ UNCHANGED <<rejected, screened, phase, half, bounds>>

(* The append fails half way (a full disk): add raises before it touches   *)
(* memory.                                                                 *)
AppendFails(d) ==
  /\ phase = "up"
  /\ d.revision \notin rejected
  /\ Len(log) < MaxLog
  /\ partials < MaxPartial
  /\ partials' = partials + 1
  /\ \E piece \in Pieces(d) : log' = Written(piece)
  /\ unended' = TRUE
  /\ UNCHANGED <<memory, rejected, screened, phase, restarts>>

(* Mutant: the chunks of the retired document are left behind. *)
RetireDocumentOnly(s) ==
  /\ phase = "up"
  /\ documents' = {d \in documents : d.source # s}
  /\ UNCHANGED <<chunks, disk, rejected, screened, phase, half, bounds>>

(* retire_source: memory only; index.jsonl keeps the revisions. *)
RetireSource(s) ==
  /\ phase = "up"
  /\ documents' = {d \in documents : d.source # s}
  /\ chunks' = {d \in chunks : d.source # s}
  /\ UNCHANGED <<disk, rejected, screened, phase, half, bounds>>

(* A detector is tightened in the running process. *)
Tighten(gate) ==
  /\ phase = "up"
  /\ rejected \subseteq gate /\ gate # rejected
  /\ rejected' = gate
  /\ screened' = FALSE
  /\ UNCHANGED <<memory, disk, phase, bounds>>

(* rescreen_all: what the gate in force rejects is evicted; the file stays. *)
RescreenAll ==
  /\ phase = "up"
  /\ documents' = {d \in documents : d.revision \notin rejected}
  /\ chunks' = {d \in chunks : d.revision \notin rejected}
  /\ screened' = TRUE
  /\ UNCHANGED <<disk, rejected, phase, half, bounds>>

(* The process stops; memory is gone.  It may be started again with other  *)
(* detectors.  An append in progress leaves nothing in the file, or a      *)
(* piece of its line.                                                      *)
Stop ==
  /\ restarts < MaxRestarts
  /\ restarts' = restarts + 1
  /\ documents' = {} /\ chunks' = {} /\ half' = FALSE
  /\ screened' = TRUE
  /\ rejected' \in SUBSET Revisions
  /\ phase' = "down"
  /\ \/ UNCHANGED <<disk, partials>>
     \/ /\ phase = "up"
        /\ partials < MaxPartial /\ Len(log) < MaxLog
        /\ partials' = partials + 1
        /\ \E d \in Document : \E piece \in Pieces(d) :
             d.revision \notin rejected /\ log' = Written(piece)
        /\ unended' = TRUE

(* Mutant: load(rescreen=False), yesterday's verdicts are trusted. *)
LoadUnscreened ==
  /\ phase = "down" /\ Decodable
  /\ documents' = Reload(log, {}) /\ chunks' = documents'
  /\ phase' = "loaded"
  /\ UNCHANGED <<disk, rejected, screened, half, bounds>>

(* load, at start-up: the file is read to its end before any of it is      *)
(* installed.                                                              *)
Load ==
  /\ phase = "down" /\ Decodable
  /\ documents' = Reload(log, rejected) /\ chunks' = documents'
  /\ phase' = "loaded"
  /\ UNCHANGED <<disk, rejected, screened, half, bounds>>

(* The gate writes each record it rejects to the quarantine log.  When     *)
(* that write raises, load raises with it, and the records before the      *)
(* rejected one are installed already: the service runs on with them, and  *)
(* does not compact.                                                       *)
LoadStops ==
  /\ phase = "down" /\ Decodable
  /\ \E i \in DOMAIN log :
       /\ log[i] \in Document /\ log[i].revision \in rejected
       /\ documents' = Reload(SubSeq(log, 1, i - 1), rejected)
  /\ chunks' = documents'
  /\ half' = TRUE
  /\ phase' = "up"
  /\ UNCHANGED <<disk, rejected, screened, bounds>>

(* Mutant: compaction runs although the file could not be loaded. *)
LoadFailsThenCompact ==
  /\ phase = "down"
  /\ phase' = "loaded"
  /\ UNCHANGED <<memory, disk, rejected, screened, bounds>>

(* load raises, because the file cannot be opened or decoded: the service  *)
(* starts with an empty index and does not compact.                        *)
LoadFails ==
  /\ phase = "down"
  /\ phase' = "up"
  /\ UNCHANGED <<memory, disk, rejected, screened, bounds>>

(* Mutant: the lines are joined, so the last one has no newline. *)
CompactJoins ==
  /\ phase = "loaded"
  /\ Len(log) - Cardinality(documents) >= MinDead
  /\ log' \in Listings(documents)
  /\ unended' = TRUE
  /\ phase' = "up"
  /\ UNCHANGED <<memory, rejected, screened, bounds>>

(* compact, right after load: the file is replaced by a listing of the     *)
(* live documents once enough of its lines are dead.                       *)
Compact ==
  /\ phase = "loaded"
  /\ Len(log) - Cardinality(documents) >= MinDead
  /\ log' \in Listings(documents)
  /\ unended' = FALSE
  /\ phase' = "up"
  /\ UNCHANGED <<memory, rejected, screened, bounds>>

(* Too few dead lines, or compact raised before os.replace: the file stays. *)
SkipCompact ==
  /\ phase = "loaded"
  /\ phase' = "up"
  /\ UNCHANGED <<memory, disk, rejected, screened, bounds>>

Next == \/ \E d \in Document : Add(d) \/ AppendFails(d)
        \/ \E s \in Sources : RetireSource(s)
        \/ \E gate \in SUBSET Revisions : Tighten(gate)
        \/ RescreenAll
        \/ Stop \/ Load \/ LoadStops \/ LoadFails \/ Compact \/ SkipCompact

Spec == Init /\ [][Next]_vars

-----------------------------------------------------------------------------
(* Every variable keeps its type. *)
TypeOK ==
  /\ documents \subseteq Document /\ chunks \subseteq Document
  /\ log \in Seq(Line)
  /\ unended \in BOOLEAN /\ (unended => log # <<>>)
  /\ rejected \subseteq Revisions
  /\ screened \in BOOLEAN /\ half \in BOOLEAN
  /\ phase \in {"down", "loaded", "up"}
  /\ partials \in 0..MaxPartial /\ restarts \in 0..MaxRestarts

(* "The store also enforces a current-source view": no two revisions of a  *)
(* logical source are retrievable together, through add, reload, rescreen  *)
(* and compaction.                                                         *)
OneRevisionPerSource ==
  \A d, e \in documents : d.source = e.source => d = e

(* What can be retrieved (chunks) is exactly what is indexed (documents):  *)
(* a retired or evicted document leaves no chunk behind.                   *)
ChunksMatchDocuments == chunks = documents

(* "Reloading blindly would resurrect content the current policy rejects": *)
(* once load or rescreen_all has run under the gate in force, nothing that *)
(* gate rejects is retrievable.                                            *)
ServedContentIsAllowed ==
  screened => \A d \in documents : d.revision \notin rejected

(* A stop at this moment loses at most two documents for each append that  *)
(* was cut short, and none if there was none: the one whose line the next  *)
(* append joins, and the one it adds.  The others a reload of index.jsonl  *)
(* finds under the same gate, and no newer revision of their sources,      *)
(* provided that no append was cut within a character, and that the last   *)
(* start read the file to its end: one that was stopped in the middle of   *)
(* load() may serve revisions that later lines supersede.                  *)
LossIsBounded ==
  screened /\ Decodable /\ ~half =>
    Cardinality(documents \ Reload(log, rejected)) <= 2 * partials

(* "A crash mid-append must cost one record, not the whole index": the     *)
(* same wherever an append is cut.                                         *)
Found == IF Decodable THEN Reload(log, rejected) ELSE {}
CutAppendCostsLittle ==
  screened /\ ~half => Cardinality(documents \ Found) <= 2 * partials

(* Compaction never changes what the next reload will find. *)
CompactKeepsView ==
  [][phase = "loaded" /\ phase' = "up"
       => Reload(log', rejected) = Reload(log, rejected)]_vars

(* Every step that neither cuts an append short, nor follows a cut one,    *)
(* nor changes the gate, nor is a load that stops half-way, is one the     *)
(* pipeline expects of the store: what is added is there after a restart,  *)
(* nothing but an addition and a complete load makes a document            *)
(* retrievable that was not, and no other source is touched.               *)
View == INSTANCE StoreView WITH
  Documents <- Document, view <- documents, file <- Reload(log, rejected)

ActsAsView ==
  [][UNCHANGED <<unended, partials, rejected>> /\ (half' => half)
       => View!Next \/ UNCHANGED <<documents, Reload(log, rejected)>>]_vars

=============================================================================
