----------------------------- MODULE MemoryStore -----------------------------
(***************************************************************************)
(* core::FileMemoryStore: tables in memory, one append-only file for each, *)
(* and the replay of the files at startup.  Every upsert_... and append_   *)
(* operation of the store has one shape: assign the record in the table,   *)
(* append its line, log an event, answer ok; any exception is caught and   *)
(* answered as an error.  A layer here is one such table.                  *)
(*                                                                         *)
(* A record is its id, its stamp (the fields the append_behavioral_...     *)
(* operations compare to see whether they have it already) and the number  *)
(* of the write the rest of it comes from.                                 *)
(*                                                                         *)
(* The file system is external: an append may be refused (the file does    *)
(* not open), or be cut short by a full disk, which the code does not      *)
(* notice; the log may refuse the event.  A record's texts may not survive *)
(* the encoding: each escape is taken off twice and a line end not escaped *)
(* at all, so that a '\', a '|' inside a map or list, or a line end in a    *)
(* value changes what is read, or makes a line that does not parse.        *)
(* Faults says which of these may happen, and FaultyLayers to which        *)
(* layers; the log may fail under any.                                     *)
(* Not covered: the two vectors (episodic, history), whose records are not *)
(* replaced; relationship_memory, which is written but never read back;    *)
(* ids with such characters, and values that have a line of another record *)
(* in them; the manifest.                                                  *)
(***************************************************************************)
EXTENDS Naturals, Sequences, SequencesExt

CONSTANTS
  UpsertLayers,    \* written whatever is there
  DedupLayers,     \* not written again under the same id and stamp
  LenientLayers,   \* read even where all fields but the id are missing
  Ids, Stamps,
  Shorter,         \* of each id, the ids that it begins with
  Stray,           \* the rest of what may stand for an id in a damaged line
  Faults, FaultyLayers,
  MaxWrites        \* bound: writes asked for in one behavior

ASSUME StoreAssumption ==
  /\ UpsertLayers \intersect DedupLayers = {}
  /\ LenientLayers \subseteq UpsertLayers
  /\ Shorter \in [Ids -> SUBSET Ids] /\ Stray \notin Ids
  /\ Faults \subseteq {"refuse", "cut", "event", "text"}
  /\ FaultyLayers \subseteq UpsertLayers \union DedupLayers
  /\ MaxWrites \in Nat /\ 0 \notin Stamps /\ Stamps # {}

Layers == UpsertLayers \union DedupLayers

VARIABLES
  state,     \* of the process: "down", "up", "writing", "failed"
  tables,    \* the maps in memory, by layer and id
  files,     \* the files, by layer
  current,   \* the write being executed
  \* history and bound
  promised,  \* the last write answered ok, by layer and id
  refused,   \* records whose last write by this process was refused
  harmed,    \* records whose line is not what was written, or may have been replaced by a cut one
  writes

vars == <<state, tables, files, current, promised, refused, harmed, writes>>

Record(s, n) == [stamp |-> s, write |-> n]
None == [stamp |-> 0, write |-> 0]
Empty == [i \in Ids |-> None]

NoWrite == [layer |-> "none"]

Init ==
  /\ state = "down"
  /\ tables = [l \in Layers |-> Empty] /\ files = [l \in Layers |-> <<>>]
  /\ current = NoWrite
  /\ promised = [l \in Layers |-> [i \in Ids |-> 0]]
  /\ refused = {} /\ harmed = {} /\ writes = 0

-----------------------------------------------------------------------------
(* Files *)

\* A line, as a load reads it: the id it has, the record it makes, whether it
\* parses, and where it was cut short, if it was.
Line(i, r, parses, cut) == [id |-> i, record |-> r, parses |-> parses, cut |-> cut]
Whole(i, r) == Line(i, r, TRUE, "nowhere")

Open(f) == f # <<>> /\ Last(f).cut # "nowhere"

\* What damage may leave of a record under its id: the stamp, or not even that.
Remains(r) == {[r EXCEPT !.write = 0], None}

\* serialize_fields and parse_fields, escape and unescape: the line of a record,
\* or what its texts make of it.
Encoded(l, i, r) ==
  {Whole(i, r)} \union
  IF "text" \in Faults /\ l \in FaultyLayers
  THEN {Line(i, s, parses, "nowhere") : s \in Remains(r), parses \in BOOLEAN} ELSE {}

\* After a cut line, the two make one.  A key that the first has whole is read
\* again from the second: the id too, if the first ended behind a ';'; else it
\* was joined to another value, or, inside the first's id, to that.
Joined(x, y) ==
  [y EXCEPT !.id = CASE x.cut = "id" -> Stray [] x.cut = "separator" -> @ [] OTHER -> x.id]

\* Mutant of Written: the file is not opened for appending.
WrittenAlone(f, x) == <<x>>

\* append_line.
Written(f, x) ==
  IF Open(f) THEN Front(f) \o <<Joined(Last(f), x)>> ELSE Append(f, x)

\* The ids a cut line may be read under: its own, or in a lenient layer one that
\* it begins with.
CutIds(l, i) == {i} \union IF l \in LenientLayers THEN Shorter[i] ELSE {}

\* What a full disk may leave of a line, and how it is read: nothing; less than a
\* field, or the id, or a part of it; the fields up to a ';', after which a load
\* wants one more; the fields up to some value, which may be enough of them; or
\* all but the newline.
CutLines(f, l, i, r) ==
  LET less == [id : {Stray}, record : {None}, parses : {FALSE}, cut : {"id"}]
      inId == [id : CutIds(l, i) \union {Stray}, record : {None},
               parses : IF l \in LenientLayers THEN {TRUE} ELSE {FALSE}, cut : {"id"}]
      behind == [id : {i}, record : {None}, parses : {FALSE}, cut : {"separator"}]
      some == [id : {i}, record : Remains(r), parses : BOOLEAN, cut : {"later"}]
      all == [id : {i}, record : {r}, parses : {TRUE}, cut : {"later"}] IN
  {f} \union {Append(f, x) : x \in less \union inId \union behind \union some \union all}

\* Mutant of LastOf: the first line of an id is kept.
LastOfKeepsFirst(f, i) ==
  IF \E k \in DOMAIN f : f[k].id = i
  THEN f[CHOOSE k \in DOMAIN f : f[k].id = i /\ \A m \in DOMAIN f : f[m].id = i => k <= m].record
  ELSE None

\* Replay: the last line of an id wins.
LastOf(f, i) ==
  IF \E k \in DOMAIN f : f[k].id = i
  THEN f[CHOOSE k \in DOMAIN f : f[k].id = i /\ \A m \in DOMAIN f : f[m].id = i => m <= k].record
  ELSE None

\* Mutant of Replay: one more layer is not read at startup.
ReplayForgetsDedup(l) == IF l \in UpsertLayers THEN [i \in Ids |-> LastOf(files[l], i)] ELSE Empty

Replay(l) == [i \in Ids |-> LastOf(files[l], i)]

\* A field without a '=', a number that is none, a dangling escape.
Malformed(f) == \E k \in DOMAIN f : ~f[k].parses

-----------------------------------------------------------------------------
(* load_from_disk, in a process that has just started.  If one line of any   *)
(* file does not parse it fails; the process ends, and so does every later   *)
(* one.                                                                      *)

Load ==
  /\ state = "down"
  /\ IF \E l \in Layers : Malformed(files[l])
     THEN state' = "failed" /\ UNCHANGED tables
     ELSE state' = "up" /\ tables' = [l \in Layers |-> Replay(l)]
  /\ UNCHANGED <<files, current, promised, refused, harmed, writes>>

-----------------------------------------------------------------------------
(* A write *)

AlreadyThere(l, i, s) == l \in DedupLayers /\ tables[l][i].stamp = s

\* The record is already there: answered ok, and nothing is written, even if
\* it is there because an append was refused.
Skip(l, i, s) ==
  /\ state = "up" /\ writes < MaxWrites
  /\ AlreadyThere(l, i, s)
  /\ promised' = [promised EXCEPT ![l][i] = tables[l][i].write]
  /\ harmed' = harmed \union (refused \intersect {<<l, i>>})
  /\ writes' = writes + 1
  /\ UNCHANGED <<state, tables, files, current, refused>>

\* The table is assigned before the line is appended.
Assign(l, i, s) ==
  /\ state = "up" /\ writes < MaxWrites
  /\ ~AlreadyThere(l, i, s)
  /\ writes' = writes + 1
  /\ tables' = [tables EXCEPT ![l][i] = Record(s, writes')]
  /\ state' = "writing" /\ current' = [layer |-> l, id |-> i]
  /\ UNCHANGED <<files, promised, refused, harmed>>

Target == <<current.layer, current.id>>
Value == tables[current.layer][current.id]
\* Mutant of Answer: the write is not over.
AnswerKeepsCurrent == state' = "up" /\ current' = current

Answer == state' = "up" /\ current' = NoWrite
Acknowledge == promised' = [promised EXCEPT ![current.layer][current.id] = Value.write]

\* The line is appended; if the event is refused after that, the answer is an
\* error although the record is there to stay.
AppendLine ==
  /\ state = "writing"
  /\ \E x \in Encoded(current.layer, current.id, Value) :
       LET f == Written(files[current.layer], x) IN
       /\ files' = [files EXCEPT ![current.layer] = f]
       /\ harmed' = IF Last(f) = Whole(current.id, Value) THEN harmed ELSE harmed \union {Target}
  /\ refused' = refused \ {Target}
  /\ Answer
  /\ \/ Acknowledge
     \/ "event" \in Faults /\ UNCHANGED promised
  /\ UNCHANGED <<tables, writes>>

\* The file does not open: an error is answered, the table keeps the record.
RefuseLine ==
  /\ "refuse" \in Faults /\ state = "writing" /\ current.layer \in FaultyLayers
  /\ refused' = refused \union {Target}
  /\ Answer
  /\ UNCHANGED <<tables, files, promised, harmed, writes>>

\* The line is cut short, and answered ok.  Bound: a cut line is not joined by
\* another.
CutLine ==
  /\ "cut" \in Faults /\ state = "writing" /\ current.layer \in FaultyLayers
  /\ ~Open(files[current.layer])
  /\ \E f \in CutLines(files[current.layer], current.layer, current.id, Value) :
       files' = [files EXCEPT ![current.layer] = f]
  /\ harmed' = harmed \union {current.layer} \X CutIds(current.layer, current.id)
  /\ Answer /\ Acknowledge
  /\ UNCHANGED <<tables, refused, writes>>

\* The process ends, in order or not.
Crash ==
  /\ state \in {"up", "writing"}
  /\ state' = "down" /\ current' = NoWrite
  /\ tables' = [l \in Layers |-> Empty]
  /\ refused' = {}
  /\ UNCHANGED <<files, promised, harmed, writes>>

\* Only the deduplicating layers look at the stamp.
StampsOf(l) == IF l \in DedupLayers THEN Stamps ELSE {CHOOSE s \in Stamps : TRUE}

Next ==
  \/ Load
  \/ \E l \in Layers, i \in Ids : \E s \in StampsOf(l) : Skip(l, i, s) \/ Assign(l, i, s)
  \/ AppendLine \/ RefuseLine \/ CutLine
  \/ Crash

Spec == Init /\ [][Next]_vars

-----------------------------------------------------------------------------
(* Properties *)

Records == [stamp : Stamps \union {0}, write : 0..MaxWrites]
Cuts == {"nowhere", "id", "separator", "later"}
Lines == [id : Ids \union {Stray}, record : Records, parses : BOOLEAN, cut : Cuts]

TypeOK ==
  /\ state \in {"down", "up", "writing", "failed"}
  /\ tables \in [Layers -> [Ids -> Records]]
  /\ files \in [Layers -> Seq(Lines)]
  /\ state = "writing" <=> current # NoWrite
  /\ promised \in [Layers -> [Ids -> 0..MaxWrites]]
  /\ refused \subseteq Layers \X Ids /\ harmed \subseteq Layers \X Ids
  /\ writes \in 0..MaxWrites

\* Between two writes the tables are what a restart would read, if it can load at
\* all, except for the records whose writes were refused, or whose lines were
\* damaged: those the reader sees as they were given until the restart.  In a
\* lenient layer a cut line may also replace a record whose id it begins with; in
\* the others no record is harmed by the damage of another's line.
MemoryIsReplay ==
  state = "up" => \A l \in Layers, i \in Ids :
    <<l, i>> \notin refused \union harmed => tables[l][i] = LastOf(files[l], i)

\* docs/MEMORY_LAYER_BASELINE.md: "Startup load materializes authoritative
\* in-memory state by replaying files".  A write that was answered ok is
\* there, or a later one is, before and after any number of restarts.
AcknowledgedSurvives ==
  state = "up" => \A l \in Layers, i \in Ids : tables[l][i].write >= promised[l][i]

\* What the files hold of a record is no older than what was answered ok, unless
\* its own line was cut, or joined to a cut one, or its texts did not survive the
\* encoding, or it was taken as written when its append had been refused; or, in a
\* lenient layer only, a cut line of a longer id is read under its id.  (A line
\* that does not parse keeps every record of every file from being loaded.)
DamageIsContained ==
  \A l \in Layers, i \in Ids :
    <<l, i>> \notin harmed => LastOf(files[l], i).write >= promised[l][i]

\* The store as its users see it: the tables while the process runs and no
\* write is under way, and otherwise what the files hold.
SoundLayers == Layers \ FaultyLayers
Shown ==
  [l \in SoundLayers |-> [i \in Ids |->
     IF state = "up" THEN tables[l][i].write ELSE LastOf(files[l], i).write]]

\* Whatever happens to other files, the layers whose files are sound are what
\* the rest of the program takes the store to be.
Durable == INSTANCE DurableStore WITH Layers <- SoundLayers, contents <- Shown
IsDurable == Durable!Spec
=============================================================================
