-------------------------- MODULE MemoryStore_proofs --------------------------
(***************************************************************************)
(* Proofs about MemoryStore, for any layers, ids, stamps and faults: what  *)
(* a full disk, a refused append or a crash can harm, that memory is what  *)
(* a restart would read, and that the layers on sound files implement the  *)
(* abstract durable store.                                                 *)
(***************************************************************************)
EXTENDS MemoryStore, SequenceTheorems, WellFoundedInduction, TLAPS

\* The last line of an id.
IsLastLine(f, k, i) ==
  k \in DOMAIN f /\ f[k].id = i /\ \A m \in DOMAIN f : f[m].id = i => m <= k

-----------------------------------------------------------------------------
(* What replay reads *)

\* The record of the last line of an id is the one replayed.
LEMMA LastIsRead ==
  ASSUME NEW f \in Seq(Lines), NEW i \in Ids, NEW k \in DOMAIN f, IsLastLine(f, k, i)
  PROVE  LastOf(f, i) = f[k].record
<1> DEFINE P(m) == f[m].id = i /\ \A n \in DOMAIN f : f[n].id = i => n <= m
           c == CHOOSE m \in DOMAIN f : P(m)
<1>1. P(k)
  BY DEF IsLastLine
<1>2. c \in DOMAIN f /\ P(c)
  BY <1>1
<1>3. c = k
  <2>1. c \in Nat /\ k \in Nat
    BY <1>2
  <2>2. c <= k /\ k <= c
    BY <1>1, <1>2
  <2> QED
    BY <2>1, <2>2
<1>4. \E m \in DOMAIN f : f[m].id = i
  BY <1>1
<1> QED
  BY <1>3, <1>4 DEF LastOf

\* An id without a line has no record.
LEMMA NoneIsRead ==
  ASSUME NEW f \in Seq(Lines), NEW i \in Ids, \A k \in DOMAIN f : f[k].id # i
  PROVE  LastOf(f, i) = None
BY DEF LastOf

\* Every id that has a line has a last one.
LEMMA LastsExist ==
  ASSUME NEW f \in Seq(Lines), NEW i \in Ids
  PROVE  (\A k \in DOMAIN f : f[k].id # i) \/ \E k \in DOMAIN f : IsLastLine(f, k, i)
<1> SUFFICES ASSUME NEW m \in DOMAIN f, f[m].id = i
             PROVE  \E k \in DOMAIN f : IsLastLine(f, k, i)
  OBVIOUS
<1> DEFINE D == {n \in Nat : \E k \in DOMAIN f : f[k].id = i /\ n = Len(f) - k}
<1>1. Len(f) \in Nat /\ DOMAIN f = 1..Len(f)
  OBVIOUS
<1>2. Len(f) - m \in D
  BY <1>1
<1>3. PICK n \in D : \A o \in D : n <= o
  <2>1. PICK n \in D : \A o \in D : ~(<<o, n>> \in OpToRel(<, Nat))
    BY <1>2, NatLessThanWellFounded, WFMin
  <2>2. \A o \in D : ~(o < n)
    BY <2>1 DEF OpToRel
  <2> QED
    BY <2>2
<1>4. PICK k \in DOMAIN f : f[k].id = i /\ n = Len(f) - k
  OBVIOUS
<1>5. ASSUME NEW o \in DOMAIN f, f[o].id = i PROVE o <= k
  <2>1. Len(f) - o \in D
    BY <1>1, <1>5
  <2> QED
    BY <1>1, <1>3, <1>4, <2>1
<1> QED
  BY <1>4, <1>5 DEF IsLastLine

\* A line appended is the last of its id, and of no other.
LEMMA AppendedIsRead ==
  ASSUME NEW f \in Seq(Lines), NEW x \in Lines
  PROVE  /\ Append(f, x) \in Seq(Lines) /\ Append(f, x) # <<>> /\ Last(Append(f, x)) = x
         /\ \A k \in DOMAIN Append(f, x) :
              Append(f, x)[k] = x \/ \E m \in DOMAIN f : Append(f, x)[k] = f[m]
         /\ \A j \in Ids : LastOf(Append(f, x), j) = IF x.id = j THEN x.record ELSE LastOf(f, j)
<1> DEFINE g == Append(f, x)
<1>1. /\ g \in Seq(Lines) /\ DOMAIN f = 1..Len(f) /\ DOMAIN g = 1..Len(f) + 1 /\ Len(f) \in Nat
      /\ g[Len(f) + 1] = x /\ \A k \in 1..Len(f) : g[k] = f[k]
  OBVIOUS
<1> HIDE DEF g
<1>2. ASSUME NEW j \in Ids
      PROVE  LastOf(g, j) = IF x.id = j THEN x.record ELSE LastOf(f, j)
  <2>1. CASE x.id = j
    <3>1. IsLastLine(g, Len(f) + 1, j)
      BY <1>1, <2>1 DEF IsLastLine
    <3>2. LastOf(g, j) = g[Len(f) + 1].record
      BY <1>1, <3>1, LastIsRead
    <3> QED
      BY <1>1, <2>1, <3>2
  <2>2. CASE x.id # j /\ \A k \in DOMAIN f : f[k].id # j
    <3>1. \A k \in DOMAIN g : g[k].id # j
      BY <1>1, <2>2
    <3> QED
      BY <1>1, <2>2, <3>1, NoneIsRead
  <2>3. CASE x.id # j /\ \E k \in DOMAIN f : IsLastLine(f, k, j)
    <3>1. PICK k \in DOMAIN f : IsLastLine(f, k, j)
      BY <2>3
    <3>2. k \in DOMAIN g /\ IsLastLine(g, k, j)
      BY <1>1, <2>3, <3>1 DEF IsLastLine
    <3>3. LastOf(g, j) = g[k].record /\ LastOf(f, j) = f[k].record
      BY <1>1, <3>1, <3>2, LastIsRead
    <3> QED
      BY <1>1, <2>3, <3>2, <3>3
  <2> QED
    BY <2>1, <2>2, <2>3, LastsExist
<1>3. g # <<>> /\ Last(g) = x
  <2>1. Len(g) = Len(f) + 1
    BY DEF g
  <2> QED
    BY <1>1, <2>1 DEF Last
<1>4. \A k \in DOMAIN g : g[k] = x \/ \E m \in DOMAIN f : g[k] = f[m]
  BY <1>1
<1> QED
  BY <1>1, <1>2, <1>3, <1>4 DEF g

\* A line in the place of the last: what is read for its id is its record, for the
\* id of the line it replaces something else, and for the others what was.
LEMMA ContinuedIsRead ==
  ASSUME NEW f \in Seq(Lines), f # <<>>, NEW x \in Lines
  PROVE  /\ Front(f) \o <<x>> \in Seq(Lines)
         /\ Last(Front(f) \o <<x>>) = x /\ Front(f) \o <<x>> # <<>>
         /\ \A k \in DOMAIN (Front(f) \o <<x>>) :
              (Front(f) \o <<x>>)[k] = x \/ \E m \in DOMAIN f : (Front(f) \o <<x>>)[k] = f[m]
         /\ \A j \in Ids : x.id = j => LastOf(Front(f) \o <<x>>, j) = x.record
         /\ \A j \in Ids : x.id # j /\ Last(f).id # j =>
              LastOf(Front(f) \o <<x>>, j) = LastOf(f, j)
<1> DEFINE g == Front(f) \o <<x>>
<1>1. /\ g \in Seq(Lines) /\ DOMAIN f = 1..Len(f) /\ DOMAIN g = 1..Len(f) /\ Len(f) \in Nat \ {0}
      /\ Len(g) = Len(f)
      /\ g[Len(f)] = x /\ \A k \in 1..Len(f) - 1 : g[k] = f[k]
  <2>1. Len(f) \in Nat \ {0} /\ DOMAIN f = 1..Len(f)
    OBVIOUS
  <2>2. /\ Front(f) \in Seq(Lines) /\ Len(Front(f)) = Len(f) - 1
        /\ \A k \in 1..Len(f) - 1 : Front(f)[k] = f[k]
    BY <2>1 DEF Front
  <2>3. <<x>> \in Seq(Lines) /\ Len(<<x>>) = 1 /\ <<x>>[1] = x
    OBVIOUS
  <2>4. /\ g \in Seq(Lines) /\ Len(g) = Len(Front(f)) + 1
        /\ \A k \in 1..Len(Front(f)) + 1 :
             g[k] = IF k <= Len(Front(f)) THEN Front(f)[k] ELSE <<x>>[k - Len(Front(f))]
    BY <2>2, <2>3, ConcatProperties
  <2> HIDE DEF g
  <2>5. DOMAIN g = 1..Len(g) /\ Len(g) = Len(f)
    BY <2>1, <2>2, <2>4
  <2>6. g[Len(f)] = x
    BY <2>1, <2>2, <2>3, <2>4
  <2>7. \A k \in 1..Len(f) - 1 : g[k] = f[k]
    BY <2>1, <2>2, <2>4
  <2> QED
    BY <2>1, <2>4, <2>5, <2>6, <2>7
<1> HIDE DEF g
<1>2. Last(f) = f[Len(f)] /\ Last(g) = g[Len(f)]
  BY <1>1 DEF Last
<1>3. ASSUME NEW j \in Ids, x.id = j PROVE LastOf(g, j) = x.record
  <2>1. IsLastLine(g, Len(f), j)
    BY <1>1, <1>3 DEF IsLastLine
  <2>2. LastOf(g, j) = g[Len(f)].record
    BY <1>1, <2>1, LastIsRead
  <2> QED
    BY <1>1, <2>2
<1>4. ASSUME NEW j \in Ids, x.id # j, Last(f).id # j PROVE LastOf(g, j) = LastOf(f, j)
  <2>1. CASE \A k \in DOMAIN f : f[k].id # j
    <3>1. \A k \in DOMAIN g : g[k].id # j
      BY <1>1, <1>4, <2>1
    <3> QED
      BY <1>1, <2>1, <3>1, NoneIsRead
  <2>2. CASE \E k \in DOMAIN f : IsLastLine(f, k, j)
    <3>1. PICK k \in DOMAIN f : IsLastLine(f, k, j)
      BY <2>2
    <3>2. k # Len(f)
      BY <1>2, <1>4, <3>1 DEF IsLastLine
    <3>3. k \in DOMAIN g /\ IsLastLine(g, k, j)
      BY <1>1, <1>4, <3>1, <3>2 DEF IsLastLine
    <3>4. LastOf(g, j) = g[k].record /\ LastOf(f, j) = f[k].record
      BY <1>1, <3>1, <3>3, LastIsRead
    <3> QED
      BY <1>1, <3>2, <3>4
  <2> QED
    BY <2>1, <2>2, LastsExist
<1>5. \A k \in DOMAIN g : g[k] = x \/ \E m \in DOMAIN f : g[k] = f[m]
  BY <1>1
<1>6. g # <<>>
  <2>1. 1 \in DOMAIN g
    BY <1>1
  <2> QED
    BY <2>1
<1> QED
  BY <1>1, <1>2, <1>3, <1>4, <1>5, <1>6 DEF g

-----------------------------------------------------------------------------
(* The inductive invariant *)

Targets == IF state = "writing" THEN {Target} ELSE {}

Typed ==
  /\ TypeOK
  /\ current # NoWrite => current \in [layer : Layers, id : Ids]

\* MemoryIsReplay, and what a write under way leaves of it.
TablesAreReplay ==
  state \in {"up", "writing"} => \A l \in Layers, i \in Ids :
    <<l, i>> \notin refused \union harmed \union Targets => tables[l][i] = LastOf(files[l], i)

\* A cut line is read under the id of a record that counts as harmed, if it has
\* one; only faulty layers have one, or records that are harmed or refused.
OpenIsHarmed ==
  \A l \in Layers : Open(files[l]) =>
    l \in FaultyLayers /\ (Last(files[l]).id \in Ids => <<l, Last(files[l]).id>> \in harmed)
HarmIsFaulty ==
  \A l \in Layers, i \in Ids : <<l, i>> \in refused \union harmed => l \in FaultyLayers

\* Writes are numbered as they are asked for, and the one under way is the last.
WritesAreOrdered ==
  /\ \A l \in Layers, i \in Ids : promised[l][i] <= writes /\ tables[l][i].write <= writes
  /\ \A l \in Layers : \A k \in DOMAIN files[l] : files[l][k].record.write <= writes
  /\ state = "writing" =>
       /\ Value.write = writes /\ 0 < writes
       /\ \A l \in Layers : \A k \in DOMAIN files[l] : files[l][k].record.write < writes

IInv == /\ Typed /\ TablesAreReplay /\ OpenIsHarmed /\ HarmIsFaulty
        /\ WritesAreOrdered /\ DamageIsContained

\* Records and what is left of them.
LEMMA RecordTypes ==
  /\ \A r \in Records : r.stamp \in Stamps \union {0} /\ r.write \in 0..MaxWrites
  /\ \A s \in Stamps, n \in 0..MaxWrites :
       Record(s, n) \in Records /\ Record(s, n).stamp = s /\ Record(s, n).write = n
  /\ None \in Records /\ None.write = 0 /\ None.stamp = 0
  /\ \A r \in Records : \A s \in Remains(r) : s \in Records /\ s.write = 0
  /\ \A l, i : [layer |-> l, id |-> i] # NoWrite
BY StoreAssumption DEF Records, Record, None, NoWrite, Remains

LEMMA StampsAreStamps ==
  ASSUME NEW l \in Layers
  PROVE  StampsOf(l) \subseteq Stamps
BY StoreAssumption DEF StampsOf

\* What replay reads of a file of lines is the record of one of them, or none.
LEMMA ReplayIsTyped ==
  ASSUME NEW f \in Seq(Lines), NEW i \in Ids
  PROVE  /\ LastOf(f, i) \in Records
         /\ LastOf(f, i) = None \/ \E k \in DOMAIN f : LastOf(f, i) = f[k].record
<1>1. CASE \A k \in DOMAIN f : f[k].id # i
  BY <1>1, NoneIsRead, RecordTypes
<1>2. CASE \E k \in DOMAIN f : IsLastLine(f, k, i)
  <2>1. PICK k \in DOMAIN f : IsLastLine(f, k, i)
    BY <1>2
  <2>2. f[k] \in Lines
    BY <2>1
  <2> QED
    BY <2>1, <2>2, LastIsRead DEF Lines
<1> QED
  BY <1>1, <1>2, LastsExist

\* The types of one record, one file and one promise.
LEMMA TypesOfOne ==
  ASSUME Typed, NEW l \in Layers, NEW i \in Ids
  PROVE  /\ files[l] \in Seq(Lines)
         /\ tables[l][i] \in Records /\ tables[l][i].write \in 0..MaxWrites
         /\ LastOf(files[l], i) \in Records
         /\ LastOf(files[l], i).write \in 0..MaxWrites
         /\ promised[l][i] \in 0..MaxWrites
         /\ writes \in 0..MaxWrites /\ MaxWrites \in Nat
<1>1. files[l] \in Seq(Lines)
  BY DEF Typed, TypeOK
<1>2. tables[l][i] \in Records /\ LastOf(files[l], i) \in Records
  BY <1>1, ReplayIsTyped DEF Typed, TypeOK
<1>3. \A r \in Records : r.write \in 0..MaxWrites
  BY RecordTypes
<1>4. promised[l][i] \in 0..MaxWrites /\ writes \in 0..MaxWrites /\ MaxWrites \in Nat
  BY StoreAssumption DEF Typed, TypeOK
<1> QED
  BY <1>1, <1>2, <1>3, <1>4

\* What replay reads was written before the write under way.
LEMMA ReplayIsOrdered ==
  ASSUME Typed, WritesAreOrdered, NEW l \in Layers, NEW i \in Ids
  PROVE  /\ LastOf(files[l], i).write <= writes
         /\ state = "writing" => LastOf(files[l], i).write < writes
<1>1. /\ files[l] \in Seq(Lines) /\ writes \in Nat
  BY TypesOfOne
<1>2. LastOf(files[l], i) = None \/ \E k \in DOMAIN files[l] : LastOf(files[l], i) = files[l][k].record
  BY <1>1, ReplayIsTyped
<1> QED
  BY <1>1, <1>2, RecordTypes DEF WritesAreOrdered

LEMMA Initially == Init => IInv
<1> SUFFICES ASSUME Init PROVE IInv
  OBVIOUS
<1> USE StoreAssumption DEF Init
<1>1. Typed
  <2>1. <<>> \in Seq(Lines) /\ None \in Records
    BY RecordTypes
  <2> QED
    BY <2>1 DEF Typed, TypeOK, Empty
<1>2. \A l \in Layers : ~Open(files[l]) /\ \A k \in DOMAIN files[l] : FALSE
  BY DEF Open
<1>3. \A l \in Layers, i \in Ids : LastOf(files[l], i) = None
  BY DEF LastOf
<1>4. TablesAreReplay /\ OpenIsHarmed /\ HarmIsFaulty
  BY <1>2 DEF TablesAreReplay, OpenIsHarmed, HarmIsFaulty
<1>5. WritesAreOrdered /\ DamageIsContained
  BY <1>2, <1>3, RecordTypes DEF Empty, WritesAreOrdered, DamageIsContained
<1> QED
  BY <1>1, <1>4, <1>5 DEF IInv

LEMMA LoadKeeps == ASSUME IInv, Load PROVE IInv'
<1> USE DEF IInv, Load
<1>1. Typed'
  <2>1. CASE state' = "up"
    <3>1. \A l \in Layers, i \in Ids : LastOf(files[l], i) \in Records
      BY TypesOfOne
    <3>2. tables' = [l \in Layers |-> Replay(l)]
      BY <2>1
    <3>3. tables' \in [Layers -> [Ids -> Records]]
      BY <3>1, <3>2 DEF Replay
    <3> QED
      BY <2>1, <3>3 DEF Typed, TypeOK
  <2>2. CASE state' = "failed"
    BY <2>2 DEF Typed, TypeOK
  <2> QED
    BY <2>1, <2>2
<1>2. TablesAreReplay'
  BY DEF TablesAreReplay, Replay
<1>3. OpenIsHarmed' /\ HarmIsFaulty' /\ DamageIsContained'
  BY DEF OpenIsHarmed, HarmIsFaulty, DamageIsContained
<1>4. WritesAreOrdered'
  <2>1. \A l \in Layers, i \in Ids : LastOf(files[l], i).write <= writes
    BY ReplayIsOrdered
  <2> QED
    BY <2>1 DEF WritesAreOrdered, Replay
<1> QED
  BY <1>1, <1>2, <1>3, <1>4

LEMMA SkipKeeps ==
  ASSUME IInv, NEW l \in Layers, NEW i \in Ids, NEW s \in StampsOf(l), Skip(l, i, s)
  PROVE  IInv'
<1> USE DEF IInv, Skip
<1>1. tables[l][i].write \in 0..MaxWrites /\ tables[l][i].write <= writes
      /\ (<<l, i>> \notin refused \union harmed => tables[l][i] = LastOf(files[l], i))
  BY TypesOfOne DEF TablesAreReplay, WritesAreOrdered, Targets
<1>2. Typed'
  <2>1. writes' \in 0..MaxWrites
    BY StoreAssumption DEF Typed, TypeOK
  <2>2. promised' \in [Layers -> [Ids -> 0..MaxWrites]]
    BY <1>1 DEF Typed, TypeOK
  <2>3. harmed' \subseteq Layers \X Ids
    BY DEF Typed, TypeOK
  <2> QED
    BY <2>1, <2>2, <2>3 DEF Typed, TypeOK
<1>3. TablesAreReplay' /\ OpenIsHarmed' /\ HarmIsFaulty'
  BY DEF TablesAreReplay, OpenIsHarmed, HarmIsFaulty, Targets
<1>4. ASSUME NEW m \in Layers, NEW j \in Ids
      PROVE  /\ promised'[m][j] <= writes' /\ tables[m][j].write <= writes'
             /\ <<m, j>> \notin harmed' => LastOf(files[m], j).write >= promised'[m][j]
  <2>1. /\ promised[m][j] \in Nat /\ tables[m][j].write \in Nat /\ writes \in Nat
        /\ LastOf(files[m], j).write \in Nat /\ tables[l][i].write \in Nat
    BY TypesOfOne
  <2>2. promised'[m][j] = IF m = l /\ j = i THEN tables[l][i].write ELSE promised[m][j]
    BY DEF Typed, TypeOK
  <2> QED
    BY <1>1, <2>1, <2>2 DEF WritesAreOrdered, DamageIsContained
<1>5. \A m \in Layers : \A k \in DOMAIN files[m] : files[m][k].record.write <= writes'
  <2> TAKE m \in Layers
  <2> TAKE k \in DOMAIN files[m]
  <2>1. files[m][k] \in Lines
    BY DEF Typed, TypeOK
  <2>2. files[m][k].record.write \in 0..MaxWrites
    BY <2>1, RecordTypes DEF Lines
  <2>3. writes \in Nat /\ files[m][k].record.write <= writes
    BY StoreAssumption DEF WritesAreOrdered, Typed, TypeOK
  <2> QED
    BY <2>2, <2>3
<1> QED
  BY <1>2, <1>3, <1>4, <1>5 DEF WritesAreOrdered, DamageIsContained

LEMMA AssignKeeps ==
  ASSUME IInv, NEW l \in Layers, NEW i \in Ids, NEW s \in StampsOf(l), Assign(l, i, s)
  PROVE  IInv'
<1> USE DEF IInv, Assign
<1>1. writes' \in 1..MaxWrites /\ writes' = writes + 1 /\ writes \in Nat
  BY StoreAssumption DEF Typed, TypeOK
<1>2. /\ Record(s, writes') \in Records /\ Record(s, writes').write = writes'
      /\ current' # NoWrite
  BY <1>1, RecordTypes, StampsAreStamps
<1>3. /\ tables' \in [Layers -> [Ids -> Records]]
      /\ \A m \in Layers, j \in Ids :
           tables'[m][j] = IF m = l /\ j = i THEN Record(s, writes') ELSE tables[m][j]
  BY <1>2 DEF Typed, TypeOK
<1>4. Typed'
  <2>1. current' \in [layer : Layers, id : Ids]
    OBVIOUS
  <2>2. files' = files /\ promised' = promised /\ refused' = refused /\ harmed' = harmed
    OBVIOUS
  <2>3. state' = "writing" /\ current' # NoWrite /\ writes' \in 0..MaxWrites
    BY <1>1, <1>2, StoreAssumption DEF Typed, TypeOK
  <2>4. TypeOK'
    BY <1>3, <2>2, <2>3 DEF Typed, TypeOK
  <2> QED
    BY <2>1, <2>4 DEF Typed
<1>5. state' = "writing" /\ Target' = <<l, i>> /\ Value' = Record(s, writes')
  BY <1>3 DEF Target, Value
<1>6. TablesAreReplay'
  BY <1>3, <1>5 DEF TablesAreReplay, Targets
<1>7. OpenIsHarmed' /\ HarmIsFaulty' /\ DamageIsContained'
  BY DEF OpenIsHarmed, HarmIsFaulty, DamageIsContained
<1>8. WritesAreOrdered'
  <2>1. ASSUME NEW m \in Layers, NEW j \in Ids
        PROVE  promised[m][j] <= writes' /\ tables'[m][j].write <= writes'
    BY <1>1, <1>2, <1>3, TypesOfOne DEF WritesAreOrdered
  <2>2. ASSUME NEW m \in Layers, NEW k \in DOMAIN files[m]
        PROVE  files[m][k].record.write < writes' /\ files[m][k].record.write <= writes'
    <3>1. files[m][k] \in Lines
      BY DEF Typed, TypeOK
    <3>2. files[m][k].record.write \in 0..MaxWrites
      BY <3>1, RecordTypes DEF Lines
    <3> QED
      BY <1>1, <3>2 DEF WritesAreOrdered
  <2> QED
    BY <1>1, <1>2, <1>5, <2>1, <2>2 DEF WritesAreOrdered
<1> QED
  BY <1>4, <1>6, <1>7, <1>8

\* A line written to its end closes the file; it is read under its own id, or, if
\* it was joined to a cut line, perhaps under that one's, or none.
LEMMA WrittenIsRead ==
  ASSUME NEW f \in Seq(Lines), NEW x \in Lines, x.cut = "nowhere", x.id \in Ids,
         NEW g, g = Written(f, x)
  PROVE  /\ g \in Seq(Lines) /\ ~Open(g)
         /\ ~Open(f) => Last(g) = x
         /\ Last(g).record = x.record
         /\ \A k \in DOMAIN g : g[k].record = x.record \/ \E m \in DOMAIN f : g[k] = f[m]
         /\ Last(g).id \in Ids => LastOf(g, Last(g).id) = x.record
         /\ \A j \in Ids : j # x.id /\ (Open(f) => j # Last(f).id) => LastOf(g, j) = LastOf(f, j)
<1>1. CASE Open(f)
  <2> DEFINE y == Joined(Last(f), x)
  <2>1. f # <<>> /\ Last(f) \in Lines
    BY <1>1 DEF Open, Last
  <2>2. /\ y \in Lines /\ y.record = x.record /\ y.cut = "nowhere"
        /\ y.id \in {Stray, x.id, Last(f).id}
    BY <2>1 DEF Joined, Lines
  <2>3. g = Front(f) \o <<y>>
    BY <1>1 DEF Written
  <2>4. Stray \notin Ids
    BY StoreAssumption
  <2> HIDE DEF y
  <2>5. /\ g \in Seq(Lines) /\ Last(g) = y /\ g # <<>>
        /\ \A k \in DOMAIN g : g[k] = y \/ \E m \in DOMAIN f : g[k] = f[m]
        /\ \A j \in Ids : y.id = j => LastOf(g, j) = y.record
        /\ \A j \in Ids : y.id # j /\ Last(f).id # j => LastOf(g, j) = LastOf(f, j)
    <3>1. f # <<>> /\ y \in Lines
      BY <2>1, <2>2
    <3>2. /\ Front(f) \o <<y>> \in Seq(Lines)
          /\ Last(Front(f) \o <<y>>) = y /\ Front(f) \o <<y>> # <<>>
          /\ \A k \in DOMAIN (Front(f) \o <<y>>) :
               (Front(f) \o <<y>>)[k] = y \/ \E m \in DOMAIN f : (Front(f) \o <<y>>)[k] = f[m]
          /\ \A j \in Ids : y.id = j => LastOf(Front(f) \o <<y>>, j) = y.record
          /\ \A j \in Ids : y.id # j /\ Last(f).id # j =>
               LastOf(Front(f) \o <<y>>, j) = LastOf(f, j)
      BY Zenon, <3>1, ContinuedIsRead
    <3> QED
      BY Zenon, <2>3, <3>2
  <2>6. ~Open(g)
    BY <2>2, <2>5 DEF Open
  <2>7. \A k \in DOMAIN g : g[k].record = x.record \/ \E m \in DOMAIN f : g[k] = f[m]
    BY <2>2, <2>5
  <2>8. Last(g).id \in Ids => LastOf(g, Last(g).id) = x.record
    BY <2>2, <2>5
  <2>9. ASSUME NEW j \in Ids, j # x.id, Open(f) => j # Last(f).id
        PROVE  LastOf(g, j) = LastOf(f, j)
    <3>1. y.id # j
      BY <1>1, <2>2, <2>4, <2>9
    <3> QED
      BY <1>1, <2>5, <2>9, <3>1
  <2> QED
    BY <1>1, <2>2, <2>5, <2>6, <2>7, <2>8, <2>9
<1>2. CASE ~Open(f)
  <2>1. g = Append(f, x)
    BY <1>2 DEF Written
  <2> QED
    BY <1>2, <2>1, AppendedIsRead DEF Open
<1> QED
  BY <1>1, <1>2

\* What a full disk leaves is read for no id but its own, or in a lenient layer
\* one that it begins with.
LEMMA CutIsRead ==
  ASSUME NEW f \in Seq(Lines), ~Open(f), NEW l \in Layers, NEW i \in Ids,
         NEW r \in Records, NEW g \in CutLines(f, l, i, r)
  PROVE  /\ g \in Seq(Lines)
         /\ Open(g) => Last(g).id \in CutIds(l, i) \union {Stray}
         /\ \A j \in Ids : j \notin CutIds(l, i) => LastOf(g, j) = LastOf(f, j)
         /\ \A k \in DOMAIN g : g[k].record \in {r, None} \union Remains(r) \/ \E m \in DOMAIN f : g[k] = f[m]
<1>1. CASE g = f
  BY <1>1
<1>2. ASSUME NEW x \in Lines, x.id \in CutIds(l, i) \union {Stray},
             x.record \in {r, None} \union Remains(r), g = Append(f, x)
      PROVE  /\ g \in Seq(Lines) /\ Last(g).id \in CutIds(l, i) \union {Stray}
             /\ \A j \in Ids : j \notin CutIds(l, i) => LastOf(g, j) = LastOf(f, j)
             /\ \A k \in DOMAIN g :
                  g[k].record \in {r, None} \union Remains(r) \/ \E m \in DOMAIN f : g[k] = f[m]
  <2>1. Stray \notin Ids
    BY StoreAssumption
  <2> QED
    BY <1>2, <2>1, AppendedIsRead
<1>3. CASE g # f
  <2>1. PICK x \in [id : CutIds(l, i) \union {Stray}, record : {r, None} \union Remains(r),
                    parses : BOOLEAN, cut : Cuts] : g = Append(f, x)
    <3>1. i \in CutIds(l, i)
      BY DEF CutIds
    <3> QED
      BY <1>3, <3>1 DEF CutLines, Cuts
  <2>2. CutIds(l, i) \subseteq Ids
    BY StoreAssumption DEF CutIds
  <2>3. x \in Lines
    BY <2>2, RecordTypes DEF Lines
  <2>4. Last(g) = x
    BY <2>1, <2>3, AppendedIsRead
  <2> QED
    BY <1>2, <2>1, <2>3, <2>4
<1> QED
  BY <1>1, <1>3

\* The end of a write: the line, or what there is of it, is in the file, and
\* the table is as it was.
LEMMA EndOfWrite ==
  ASSUME IInv, state = "writing",
         NEW g \in Seq(Lines), files' = [files EXCEPT ![current.layer] = g],
         Answer, UNCHANGED <<tables, writes>>,
         refused' \union harmed' \subseteq refused \union harmed \union {current.layer} \X Ids,
         current.layer \notin FaultyLayers => refused' \union harmed' \subseteq refused \union harmed,
         refused \union harmed \subseteq refused' \union harmed' \union {Target},
         harmed \subseteq harmed',
         Acknowledge \/ UNCHANGED promised,
         \A k \in DOMAIN g : g[k].record.write <= writes,
         \A j \in Ids : <<current.layer, j>> \notin harmed' \union {Target} =>
                          LastOf(g, j) = LastOf(files[current.layer], j),
         Target \notin harmed' => LastOf(g, current.id).write >= promised'[current.layer][current.id],
         Target \notin refused' \union harmed' => LastOf(g, current.id) = Value,
         Open(g) => /\ current.layer \in FaultyLayers
                    /\ Last(g).id \in Ids => <<current.layer, Last(g).id>> \in harmed'
  PROVE  IInv'
<1> USE DEF IInv, Answer
<1> DEFINE L == current.layer
           I == current.id
<1>1. L \in Layers /\ I \in Ids /\ Target = <<L, I>> /\ Value = tables[L][I]
  BY DEF Typed, TypeOK, Target, Value
<1>2. /\ files' \in [Layers -> Seq(Lines)]
      /\ \A l \in Layers : files'[l] = IF l = L THEN g ELSE files[l]
  BY <1>1 DEF Typed, TypeOK
<1>3. /\ Value.write \in 0..MaxWrites /\ Value.write = writes
      /\ promised \in [Layers -> [Ids -> 0..MaxWrites]]
  BY <1>1, TypesOfOne DEF WritesAreOrdered, Typed, TypeOK
<1>4. /\ promised' \in [Layers -> [Ids -> 0..MaxWrites]]
      /\ \A l \in Layers, i \in Ids :
           promised'[l][i] \in {promised[l][i], IF l = L /\ i = I THEN Value.write ELSE promised[l][i]}
  <2>1. CASE UNCHANGED promised
    BY <1>3, <2>1
  <2>2. CASE Acknowledge
    <3>1. promised' = [promised EXCEPT ![L][I] = Value.write]
      BY <2>2 DEF Acknowledge
    <3> HIDE DEF L, I
    <3> QED
      BY <1>1, <1>3, <3>1
  <2> QED
    BY <2>1, <2>2
<1> HIDE DEF L, I
<1>5. Typed'
  <2>1. refused' \subseteq Layers \X Ids /\ harmed' \subseteq Layers \X Ids
    BY <1>1 DEF Typed, TypeOK, L
  <2>2. TypeOK'
    BY <1>2, <1>4, <2>1 DEF Typed, TypeOK
  <2> QED
    BY <2>2 DEF Typed
<1>6. TablesAreReplay'
  <2> SUFFICES ASSUME NEW l \in Layers, NEW i \in Ids, <<l, i>> \notin refused' \union harmed'
               PROVE  tables[l][i] = LastOf(files'[l], i)
    BY DEF TablesAreReplay
  <2>1. CASE <<l, i>> = Target
    <3>1. l = L /\ i = I
      BY <1>1, <2>1
    <3>2. LastOf(g, I) = Value
      BY <2>1 DEF I
    <3> QED
      BY <1>1, <1>2, <3>1, <3>2
  <2>2. CASE <<l, i>> # Target
    <3>1. <<l, i>> \notin refused \union harmed \union Targets
      BY <2>2 DEF Targets
    <3>2. tables[l][i] = LastOf(files[l], i)
      BY <3>1 DEF TablesAreReplay
    <3>3. l = L => LastOf(g, i) = LastOf(files[l], i)
      BY <2>2 DEF L
    <3> QED
      BY <1>2, <3>2, <3>3
  <2> QED
    BY <2>1, <2>2
<1>7. OpenIsHarmed'
  <2> SUFFICES ASSUME NEW l \in Layers, Open(files'[l])
               PROVE  /\ l \in FaultyLayers
                      /\ Last(files'[l]).id \in Ids => <<l, Last(files'[l]).id>> \in harmed'
    BY DEF OpenIsHarmed
  <2>1. CASE l = L
    BY <1>2, <2>1 DEF L
  <2>2. CASE l # L
    BY <1>2, <2>2 DEF OpenIsHarmed
  <2> QED
    BY <2>1, <2>2
<1>8. HarmIsFaulty'
  BY <1>1 DEF HarmIsFaulty, L
<1>10. ASSUME NEW l \in Layers, NEW i \in Ids
       PROVE  /\ promised'[l][i] <= writes /\ tables[l][i].write <= writes
              /\ <<l, i>> \notin harmed' => LastOf(files'[l], i).write >= promised'[l][i]
  <2>1. promised'[l][i] <= writes /\ tables[l][i].write <= writes
    BY <1>1, <1>3, <1>4, TypesOfOne DEF WritesAreOrdered
  <2>3. ASSUME <<l, i>> \notin harmed'
        PROVE  LastOf(files'[l], i).write >= promised'[l][i]
    <3>1. CASE <<l, i>> = Target
      <4>1. l = L /\ i = I
        BY <1>1, <3>1
      <4>2. LastOf(g, I).write >= promised'[L][I]
        BY <2>3, <3>1 DEF L, I
      <4> QED
        BY <1>1, <1>2, <4>1, <4>2
    <3>2. CASE <<l, i>> # Target
      <4>1. LastOf(files'[l], i) = LastOf(files[l], i)
        BY <1>2, <2>3, <3>2 DEF L
      <4>2. promised'[l][i] = promised[l][i]
        BY <1>1, <1>4, <3>2
      <4> QED
        BY <2>3, <4>1, <4>2 DEF DamageIsContained
    <3> QED
      BY <3>1, <3>2
  <2> QED
    BY <2>1, <2>3
<1>9. \A l \in Layers : \A k \in DOMAIN files'[l] : files'[l][k].record.write <= writes
  BY <1>2 DEF WritesAreOrdered
<1>11. WritesAreOrdered' /\ DamageIsContained'
  BY <1>9, <1>10 DEF WritesAreOrdered, DamageIsContained
<1> QED
  BY <1>5, <1>6, <1>7, <1>8, <1>11

\* What there is to say of the write under way.
LEMMA WriteUnderWay ==
  ASSUME IInv, state = "writing"
  PROVE  /\ current.layer \in Layers /\ current.id \in Ids
         /\ Target = <<current.layer, current.id>>
         /\ Value \in Records /\ Value.write = writes /\ writes \in Nat
         /\ files[current.layer] \in Seq(Lines)
         /\ files = [files EXCEPT ![current.layer] = files[current.layer]]
         /\ \A k \in DOMAIN files[current.layer] : files[current.layer][k].record.write <= writes
         /\ \A j \in Ids : promised[current.layer][j] <= writes
         /\ promised \in [Layers -> [Ids -> 0..MaxWrites]] /\ Value.write \in 0..MaxWrites
<1> USE DEF IInv
<1>1. /\ current.layer \in Layers /\ current.id \in Ids
      /\ Target = <<current.layer, current.id>> /\ Value = tables[current.layer][current.id]
      /\ promised \in [Layers -> [Ids -> 0..MaxWrites]] /\ Value.write = writes
  BY DEF Typed, TypeOK, Target, Value, WritesAreOrdered
<1>2. files = [files EXCEPT ![current.layer] = files[current.layer]]
  BY <1>1 DEF Typed, TypeOK
<1> QED
  BY <1>1, <1>2, TypesOfOne, RecordTypes DEF WritesAreOrdered

\* The encoded line of a record has its id, and is whole in a sound layer.
LEMMA EncodedIs ==
  ASSUME NEW l \in Layers, NEW i \in Ids, NEW r \in Records, NEW x \in Encoded(l, i, r)
  PROVE  /\ x \in Lines /\ x.cut = "nowhere" /\ x.id = i /\ x.record \in {r} \union Remains(r)
         /\ Whole(i, r).id = i /\ Whole(i, r).record = r
         /\ l \notin FaultyLayers => x = Whole(i, r)
<1>1. ASSUME NEW s \in Records, NEW parses \in BOOLEAN
      PROVE  /\ Line(i, s, parses, "nowhere") \in Lines
             /\ Line(i, s, parses, "nowhere").cut = "nowhere"
             /\ Line(i, s, parses, "nowhere").id = i /\ Line(i, s, parses, "nowhere").record = s
  BY DEF Line, Lines, Cuts
<1>2. Whole(i, r) = Line(i, r, TRUE, "nowhere")
  BY DEF Whole
<1>3. CASE x = Whole(i, r)
  BY <1>1, <1>2, <1>3
<1>4. CASE x # Whole(i, r)
  <2>1. l \in FaultyLayers /\ \E s \in Remains(r), parses \in BOOLEAN : x = Line(i, s, parses, "nowhere")
    BY <1>4 DEF Encoded
  <2>2. PICK s \in Remains(r), parses \in BOOLEAN : x = Line(i, s, parses, "nowhere")
    BY <2>1
  <2>3. s \in Records
    BY RecordTypes
  <2>4. Whole(i, r).id = i /\ Whole(i, r).record = r
    BY <1>1, <1>2
  <2> QED
    BY <1>1, <2>1, <2>2, <2>3, <2>4
<1> QED
  BY <1>3, <1>4

LEMMA AppendLineKeeps == ASSUME IInv, AppendLine PROVE IInv'
<1> DEFINE f == files[current.layer]
<1>1. /\ f \in Seq(Lines) /\ current.id \in Ids /\ current.layer \in Layers
      /\ Value \in Records /\ Value.write = writes /\ writes \in Nat
      /\ Target = <<current.layer, current.id>>
      /\ \A k \in DOMAIN f : f[k].record.write <= writes
      /\ \A j \in Ids : promised[current.layer][j] <= writes
      /\ promised \in [Layers -> [Ids -> 0..MaxWrites]]
  BY WriteUnderWay DEF AppendLine
<1>2. Open(f) => /\ current.layer \in FaultyLayers
                 /\ Last(f).id \in Ids => <<current.layer, Last(f).id>> \in harmed
  BY <1>1 DEF IInv, OpenIsHarmed
<1>3. PICK x \in Encoded(current.layer, current.id, Value) :
        /\ files' = [files EXCEPT ![current.layer] = Written(f, x)]
        /\ harmed' = IF Last(Written(f, x)) = Whole(current.id, Value) THEN harmed
                     ELSE harmed \union {Target}
  BY DEF AppendLine
<1>4. /\ state = "writing" /\ refused' = refused \ {Target} /\ Answer
      /\ Acknowledge \/ UNCHANGED promised
      /\ UNCHANGED <<tables, writes>>
  BY DEF AppendLine
<1> DEFINE g == Written(f, x)
<1>5. /\ x \in Lines /\ x.cut = "nowhere" /\ x.id = current.id
      /\ x.record \in {Value} \union Remains(Value)
      /\ Whole(current.id, Value).id = current.id /\ Whole(current.id, Value).record = Value
      /\ current.layer \notin FaultyLayers => x = Whole(current.id, Value)
  <2>1. current.layer \in Layers /\ current.id \in Ids /\ Value \in Records
    BY <1>1
  <2> HIDE DEF f, g
  <2> QED
    BY <2>1, EncodedIs
<1> HIDE DEF f
<1>6. /\ g \in Seq(Lines) /\ ~Open(g) /\ (~Open(f) => Last(g) = x)
      /\ Last(g).record = x.record
      /\ \A k \in DOMAIN g : g[k].record = x.record \/ \E m \in DOMAIN f : g[k] = f[m]
      /\ Last(g).id \in Ids => LastOf(g, Last(g).id) = x.record
      /\ \A j \in Ids : j # x.id /\ (Open(f) => j # Last(f).id) => LastOf(g, j) = LastOf(f, j)
  BY <1>1, <1>5, WrittenIsRead
<1>7. /\ files' = [files EXCEPT ![current.layer] = g]
      /\ harmed' = IF Last(g) = Whole(current.id, Value) THEN harmed ELSE harmed \union {Target}
  BY <1>3
<1> HIDE DEF g
<1>8. Target \notin harmed' => LastOf(g, current.id) = Value
  BY <1>1, <1>5, <1>6, <1>7
<1>9. promised'[current.layer][current.id] <= writes
  <2>1. CASE Acknowledge
    BY <1>1, <2>1 DEF Acknowledge
  <2>2. CASE UNCHANGED promised
    BY <1>1, <2>2
  <2> QED
    BY <1>4, <2>1, <2>2
<1>10. \A k \in DOMAIN g : g[k].record.write <= writes
  <2>1. x.record.write <= writes
    BY <1>1, <1>5, RecordTypes
  <2> QED
    BY <1>1, <1>6, <2>1
<1>11. \A j \in Ids : <<current.layer, j>> \notin harmed' \union {Target} =>
                        LastOf(g, j) = LastOf(f, j)
  BY <1>1, <1>2, <1>5, <1>6, <1>7
<1>12. Target \notin harmed' => LastOf(g, current.id).write >= promised'[current.layer][current.id]
  BY <1>1, <1>8, <1>9
<1>13. /\ refused' \union harmed' \subseteq refused \union harmed \union {current.layer} \X Ids
       /\ refused \union harmed \subseteq refused' \union harmed' \union {Target}
       /\ harmed \subseteq harmed'
  BY <1>1, <1>4, <1>7
<1>14. current.layer \notin FaultyLayers => refused' \union harmed' \subseteq refused \union harmed
  BY <1>2, <1>4, <1>5, <1>6, <1>7
<1> QED
  BY <1>4, <1>6, <1>7, <1>8, <1>10, <1>11, <1>12, <1>13, <1>14, EndOfWrite DEF f

LEMMA RefuseLineKeeps == ASSUME IInv, RefuseLine PROVE IInv'
<1> USE DEF RefuseLine
<1> DEFINE f == files[current.layer]
<1>1. /\ f \in Seq(Lines) /\ current.id \in Ids /\ current.layer \in Layers
      /\ Target = <<current.layer, current.id>>
      /\ files' = [files EXCEPT ![current.layer] = f]
      /\ \A k \in DOMAIN f : f[k].record.write <= writes
  BY WriteUnderWay
<1>2. Open(f) => /\ current.layer \in FaultyLayers
                 /\ Last(f).id \in Ids => <<current.layer, Last(f).id>> \in harmed'
  BY <1>1 DEF IInv, OpenIsHarmed
<1>3. Target \notin harmed' => LastOf(f, current.id).write >= promised'[current.layer][current.id]
  BY <1>1 DEF IInv, DamageIsContained
<1>4. /\ refused' = refused \union {Target} /\ harmed' = harmed /\ promised' = promised /\ Answer
      /\ UNCHANGED <<tables, writes>> /\ current.layer \in FaultyLayers /\ state = "writing"
  OBVIOUS
<1>5. \A j \in Ids : <<current.layer, j>> \notin harmed' \union {Target} =>
                       LastOf(f, j) = LastOf(files[current.layer], j)
  OBVIOUS
<1>6. refused' \union harmed' \subseteq refused \union harmed \union {current.layer} \X Ids
  BY <1>1, <1>4
<1> HIDE DEF f
<1> QED
  BY <1>1, <1>2, <1>3, <1>4, <1>5, <1>6, EndOfWrite

LEMMA CutLineKeeps == ASSUME IInv, CutLine PROVE IInv'
<1> USE DEF CutLine
<1> DEFINE f == files[current.layer]
           H == {current.layer} \X CutIds(current.layer, current.id)
<1>1. /\ f \in Seq(Lines) /\ current.id \in Ids /\ current.layer \in Layers
      /\ Value \in Records /\ Value.write = writes /\ writes \in Nat
      /\ Target = <<current.layer, current.id>>
      /\ \A k \in DOMAIN f : f[k].record.write <= writes
  BY WriteUnderWay
<1>2. PICK g \in CutLines(f, current.layer, current.id, Value) :
        files' = [files EXCEPT ![current.layer] = g]
  OBVIOUS
<1>3. ~Open(f)
  OBVIOUS
<1> HIDE DEF f
<1>4. /\ g \in Seq(Lines)
      /\ Open(g) => Last(g).id \in CutIds(current.layer, current.id) \union {Stray}
      /\ \A j \in Ids : j \notin CutIds(current.layer, current.id) => LastOf(g, j) = LastOf(f, j)
      /\ \A k \in DOMAIN g :
           g[k].record \in {Value, None} \union Remains(Value) \/ \E m \in DOMAIN f : g[k] = f[m]
  BY <1>1, <1>3, CutIsRead
<1>5. \A k \in DOMAIN g : g[k].record.write <= writes
  BY <1>1, <1>4, RecordTypes
<1>6. /\ current.id \in CutIds(current.layer, current.id)
      /\ CutIds(current.layer, current.id) \subseteq Ids /\ Stray \notin Ids
  BY <1>1, StoreAssumption DEF CutIds
<1>7. /\ refused' = refused /\ harmed' = harmed \union H /\ Acknowledge /\ Answer
      /\ UNCHANGED <<tables, writes>> /\ current.layer \in FaultyLayers /\ state = "writing"
  OBVIOUS
<1>8. Target \in harmed' /\ H \subseteq {current.layer} \X Ids
  BY <1>1, <1>6, <1>7
<1>9. \A j \in Ids : <<current.layer, j>> \notin harmed' \union {Target} =>
                       LastOf(g, j) = LastOf(f, j)
  BY <1>4, <1>7
<1>10. Open(g) => /\ current.layer \in FaultyLayers
                  /\ Last(g).id \in Ids => <<current.layer, Last(g).id>> \in harmed'
  BY <1>4, <1>6, <1>7
<1> HIDE DEF H
<1>11. /\ refused' \union harmed' \subseteq refused \union harmed \union {current.layer} \X Ids
       /\ refused \union harmed \subseteq refused' \union harmed' \union {Target}
       /\ harmed \subseteq harmed'
  BY <1>7, <1>8
<1> QED
  BY <1>2, <1>4, <1>5, <1>7, <1>8, <1>9, <1>10, <1>11, EndOfWrite DEF f

LEMMA CrashKeeps == ASSUME IInv, Crash PROVE IInv'
<1> USE DEF IInv, Crash
<1>1. /\ \A l \in Layers, i \in Ids : tables'[l][i] = None /\ tables'[l][i].write = 0
      /\ tables' \in [Layers -> [Ids -> Records]]
  BY RecordTypes DEF Empty
<1>2. Typed'
  BY <1>1 DEF Typed, TypeOK
<1>3. TablesAreReplay' /\ OpenIsHarmed' /\ HarmIsFaulty' /\ DamageIsContained'
  BY DEF TablesAreReplay, OpenIsHarmed, HarmIsFaulty, DamageIsContained
<1>4. WritesAreOrdered'
  BY <1>1, TypesOfOne DEF WritesAreOrdered
<1> QED
  BY <1>2, <1>3, <1>4

\* The invariant of the store holds through writes, faults, crashes and loads.
THEOREM StoreInvariant == Spec => []IInv
<1>1. IInv /\ [Next]_vars => IInv'
  <2> SUFFICES ASSUME IInv, [Next]_vars PROVE IInv'
    OBVIOUS
  <2>1. CASE UNCHANGED vars
    BY <2>1 DEF vars, IInv, Typed, TypeOK, TablesAreReplay, Targets, Target, Value, OpenIsHarmed,
                HarmIsFaulty, WritesAreOrdered, DamageIsContained
  <2>2. CASE Next
    BY <2>2, LoadKeeps, SkipKeeps, AssignKeeps, AppendLineKeeps, RefuseLineKeeps, CutLineKeeps,
       CrashKeeps DEF Next
  <2> QED
    BY <2>1, <2>2
<1> QED
  BY Initially, <1>1, PTL DEF Spec

\* The types of the tables, the files, the write under way and the history
\* hold for any layers, ids and faults.
THEOREM StoreTypes == Spec => []TypeOK
<1>1. IInv => TypeOK
  BY DEF IInv, Typed
<1> QED
  BY <1>1, StoreInvariant, PTL

\* Between two writes memory is what a restart would read, if it can load, save for
\* the records whose writes were refused, cut, joined to a cut line or changed by
\* the encoding, and, in a lenient layer, those whose id a cut line's begins with
\* (FileMemoryStore, load_from_disk).
THEOREM MemoryIsReplayed == Spec => []MemoryIsReplay
<1>1. IInv => MemoryIsReplay
  BY DEF IInv, TablesAreReplay, MemoryIsReplay, Targets
<1> QED
  BY <1>1, StoreInvariant, PTL

\* What the files hold of a record is no older than what was answered ok, save for
\* the same records: a cut line harms no other record of a layer that insists on
\* its fields (append_line, parse_fields).
THEOREM DamageContained == Spec => []DamageIsContained
<1>1. IInv => DamageIsContained
  BY DEF IInv
<1> QED
  BY <1>1, StoreInvariant, PTL

-----------------------------------------------------------------------------
(* The layers on sound files implement the durable store *)

\* What is shown of a sound layer is what its file holds, unless the process
\* is up, and then its table, which is the same between two writes.
LEMMA ShownOne ==
  ASSUME IInv, NEW l \in SoundLayers, NEW i \in Ids
  PROVE  /\ l \in Layers /\ l \notin FaultyLayers /\ ~Open(files[l])
         /\ <<l, i>> \notin refused \union harmed
         /\ state = "up" => tables[l][i] = LastOf(files[l], i)
         /\ state = "writing" /\ <<l, i>> # Target => tables[l][i] = LastOf(files[l], i)
         /\ Shown[l][i] = LastOf(files[l], i).write
<1> USE DEF IInv
<1>1. l \in Layers /\ l \notin FaultyLayers
  BY DEF SoundLayers
<1>2. ~Open(files[l]) /\ <<l, i>> \notin refused \union harmed
  BY <1>1 DEF OpenIsHarmed, HarmIsFaulty
<1>3. /\ state = "up" => tables[l][i] = LastOf(files[l], i)
      /\ state = "writing" /\ <<l, i>> # Target => tables[l][i] = LastOf(files[l], i)
  BY <1>1, <1>2 DEF TablesAreReplay, Targets
<1> QED
  BY <1>1, <1>2, <1>3 DEF Shown

\* The same after a step.
LEMMA ShownNext ==
  ASSUME IInv', NEW l \in SoundLayers, NEW i \in Ids
  PROVE  Shown'[l][i] = LastOf(files'[l], i).write
<1>1. l \in Layers /\ <<l, i>> \notin refused' \union harmed'
  BY DEF IInv, HarmIsFaulty, SoundLayers
<1>2. state' = "up" => tables'[l][i] = LastOf(files'[l], i)
  BY <1>1 DEF IInv, TablesAreReplay, Targets
<1> QED
  BY <1>2 DEF Shown

\* A step that leaves what the sound files hold shows nothing new.
LEMMA ShownStays ==
  ASSUME IInv, IInv',
         \A l \in SoundLayers, i \in Ids : LastOf(files'[l], i).write = LastOf(files[l], i).write
  PROVE  Shown' = Shown
<1>1. \A l \in SoundLayers, i \in Ids : Shown[l][i] = LastOf(files[l], i).write
  BY ShownOne
<1>2. \A l \in SoundLayers, i \in Ids : Shown'[l][i] = LastOf(files'[l], i).write
  BY ShownNext
<1> QED
  BY <1>1, <1>2 DEF Shown

\* Every step leaves the sound layers as they were shown, or shows one write of
\* one of them, newer than all before.
LEMMA DurableStep ==
  ASSUME IInv, IInv', Next
  PROVE  Durable!Next \/ UNCHANGED Shown
<1>1. CASE UNCHANGED files
  BY <1>1, ShownStays
<1>2. CASE CutLine
  <2> DEFINE L == current.layer
  <2>1. L \in FaultyLayers /\ \E g : files' = [files EXCEPT ![L] = g]
    BY <1>2 DEF CutLine
  <2>2. \A l \in SoundLayers : files'[l] = files[l]
    BY <2>1 DEF SoundLayers, IInv, Typed, TypeOK
  <2> QED
    BY <2>2, ShownStays
<1>3. CASE AppendLine
  <2> DEFINE L == current.layer
             I == current.id
             f == files[L]
  <2>1. /\ L \in Layers /\ I \in Ids /\ Target = <<L, I>> /\ f \in Seq(Lines)
        /\ Value \in Records /\ Value.write = writes
    BY <1>3, WriteUnderWay DEF AppendLine
  <2>5. PICK x \in Encoded(L, I, Value) : files' = [files EXCEPT ![L] = Written(f, x)]
    BY <1>3 DEF AppendLine
  <2> DEFINE g == Written(f, x)
  <2>2. \A l \in Layers : files'[l] = IF l = L THEN g ELSE files[l]
    BY <2>1, <2>5 DEF IInv, Typed, TypeOK
  <2>3. CASE L \in FaultyLayers
    BY <2>2, <2>3, ShownStays DEF SoundLayers
  <2>4. CASE L \notin FaultyLayers
    <3>1. L \in SoundLayers /\ ~Open(f)
      BY <2>1, <2>4, ShownOne DEF SoundLayers
    <3> HIDE DEF f
    <3>8. x \in Lines /\ x.cut = "nowhere" /\ x.id = I /\ x.record = Value
      BY <2>1, <2>4, EncodedIs
    <3>2. \A j \in Ids : LastOf(g, j) = IF j = I THEN Value ELSE LastOf(f, j)
      BY <2>1, <3>1, <3>8, WrittenIsRead
    <3>3. LastOf(f, I).write < writes
      BY <1>3, <2>1, ReplayIsOrdered DEF f, AppendLine, IInv
    <3> HIDE DEF L, I, g
    <3>4. \A l \in SoundLayers, i \in Ids :
            Shown'[l][i] = IF l = L /\ i = I THEN writes ELSE Shown[l][i]
      <4> TAKE l \in SoundLayers, i \in Ids
      <4>1. Shown'[l][i] = LastOf(files'[l], i).write
        BY ShownNext
      <4>2. Shown[l][i] = LastOf(files[l], i).write
        BY ShownOne
      <4>3. CASE l # L
        BY <2>2, <4>1, <4>2, <4>3 DEF SoundLayers
      <4>4. CASE l = L
        BY <2>1, <2>2, <3>2, <4>1, <4>2, <4>4 DEF f
      <4> QED
        BY <4>3, <4>4
    <3>5. Shown[L][I] < writes
      BY <2>1, <3>1, <3>3, ShownOne DEF f
    <3>6. Shown' = [Shown EXCEPT ![L] = [Shown[L] EXCEPT ![I] = Shown'[L][I]]]
      <4>1. /\ DOMAIN Shown = SoundLayers /\ DOMAIN Shown' = SoundLayers
            /\ \A l \in SoundLayers : Shown[l] = [i \in Ids |-> Shown[l][i]]
            /\ \A l \in SoundLayers : Shown'[l] = [i \in Ids |-> Shown'[l][i]]
            /\ Shown = [l \in SoundLayers |-> Shown[l]]
            /\ Shown' = [l \in SoundLayers |-> Shown'[l]]
        BY DEF Shown
      <4>2. Shown'[L] = [Shown[L] EXCEPT ![I] = Shown'[L][I]]
        BY <3>1, <3>4, <4>1
      <4>3. \A l \in SoundLayers : l # L => Shown'[l] = Shown[l]
        BY <3>4, <4>1
      <4> HIDE DEF Shown
      <4> QED
        BY <3>1, <4>1, <4>2, <4>3
    <3>7. Durable!Write(L, I)
      BY <2>1, <3>1, <3>4, <3>5, <3>6 DEF Durable!Write
    <3> QED
      BY <2>1, <3>1, <3>7 DEF Durable!Next
  <2> QED
    BY <2>3, <2>4
<1> QED
  BY <1>1, <1>2, <1>3 DEF Next, Load, Skip, Assign, RefuseLine, Crash

\* The layers whose files are sound are a table that changes one record at a
\* time, to a newer write, and that no crash, restart or other file's damage
\* changes (FileMemoryStore, as DurableStore).
THEOREM StoreIsDurable == Spec => IsDurable
<1>1. Init => Durable!Init
  <2> SUFFICES ASSUME Init PROVE Durable!Init
    OBVIOUS
  <2>1. \A l \in SoundLayers, i \in Ids : LastOf(files[l], i).write = 0
    BY DEF Init, SoundLayers, LastOf, None
  <2>2. state # "up"
    BY DEF Init
  <2> QED
    BY <2>1, <2>2 DEF Durable!Init, Shown
<1>2. IInv /\ IInv' /\ [Next]_vars => [Durable!Next]_Shown
  <2> SUFFICES ASSUME IInv, IInv', [Next]_vars PROVE Durable!Next \/ UNCHANGED Shown
    OBVIOUS
  <2>1. CASE UNCHANGED vars
    BY <2>1 DEF vars, Shown
  <2> QED
    BY <2>1, DurableStep
<1> QED
  BY <1>1, <1>2, StoreInvariant, PTL DEF Spec, IsDurable, Durable!Spec
=============================================================================
