------------------------ MODULE TableRegistryProofs ------------------------
(***************************************************************************)
(* Proofs about TableRegistry, for every set of names, tables and lists of *)
(* actions and every bound.  The inductive invariant TableInv says that    *)
(* every slice and map has its type and every entry of a map leads to the  *)
(* element of its name.  What PostgreSQL accepts also keeps TableFull:     *)
(* every element has its entry and every index its table.  From TableFull  *)
(* follow the two action properties, and with what TableDefProofs says of  *)
(* the actions that the tables stay well formed and their names distinct.  *)
(***************************************************************************)
EXTENDS TableDefProofs, ObjectRegistryProofs

(* The names of a DROP TABLE are worked off one by one.                    *)
LEMMA DropTablesFacts ==
  ASSUME NEW T, NEW names \in Seq(T), NEW before, NEW ifExists
  PROVE  LET after == dropTables(before, names, ifExists) IN
         /\ after[0] = before
         /\ \A i \in 1..Len(names) : after[i] = dropOneTable(after[i - 1], names[i], ifExists)
<1> DEFINE n == Len(names)
           first == before
           step(s, i) == dropOneTable(s, names[i], ifExists)
           isRun(f, k) ==
             \A i \in 0..k : f[i] = IF i = 0 THEN first ELSE step(f[i - 1], i)
           runs == {k \in 0..n : \E f : isRun(f, k)}
<1>1. n \in Nat
  OBVIOUS
<1> HIDE DEF n, first, step
<1>2. 0 \in runs
  <2> DEFINE f == [i \in {0} |-> first]
  <2>1. isRun(f, 0)
    OBVIOUS
  <2> HIDE DEF f, isRun
  <2> QED
    BY <1>1, <2>1
<1>3. ASSUME NEW k \in 1..n, k - 1 \in runs PROVE k \in runs
  <2>1. PICK f : isRun(f, k - 1)
    BY <1>3
  <2> DEFINE g == [i \in 0..k |-> IF i = k THEN step(f[k - 1], k) ELSE f[i]]
  <2>2. ASSUME NEW i \in 0..k
        PROVE  g[i] = IF i = 0 THEN first ELSE step(g[i - 1], i)
    <3>1. i = k => g[k - 1] = f[k - 1]
      BY <1>1
    <3>2. i # k => /\ i \in 0..(k - 1)
                   /\ i # 0 => g[i - 1] = f[i - 1]
      BY <1>1
    <3> QED
      BY <1>1, <2>1, <3>1, <3>2
  <2> HIDE DEF g
  <2>3. isRun(g, k)
    BY <2>2
  <2> HIDE DEF isRun
  <2> QED
    BY <1>1, <2>3
<1>4. n \in runs
  <2> HIDE DEF runs
  <2>1. \A i \in 0..n : i \in runs
    BY <1>1, <1>2, <1>3, AlongList
  <2> QED
    BY <1>1, <2>1
<1>5. PICK f : isRun(f, n)
  <2> HIDE DEF isRun
  <2> QED
    BY <1>4
<1> DEFINE g == [i \in 0..n |-> f[i]]
<1>6. g = [i \in 0..n |-> IF i = 0 THEN first ELSE step(g[i - 1], i)]
  <2>1. \A i \in 0..n : g[i] = IF i = 0 THEN first ELSE step(g[i - 1], i)
    BY <1>1, <1>5
  <2> QED
    BY <2>1
<1> DEFINE whole(r) == r = [i \in 0..n |-> IF i = 0 THEN first ELSE step(r[i - 1], i)]
           after == dropTables(before, names, ifExists)
<1>7. \E r : whole(r)
  BY <1>6
<1>8. whole(after)
  <2>1. after = CHOOSE r : whole(r)
    BY DEF dropTables, n, first, step
  <2> HIDE DEF whole, after
  <2> QED
    BY <1>7, <2>1
<1> HIDE DEF after
<1>9. after[0] = first /\ \A i \in 1..n : after[i] = step(after[i - 1], i)
  BY <1>1, <1>8
<1> QED
  BY <1>9 DEF after, n, first, step

(* The actions of an ALTER TABLE are worked off one by one as well.        *)
LEMMA ApplyActionsFacts ==
  ASSUME NEW T, NEW actions \in Seq(T), NEW t
  PROVE  LET after == applyActions(t, actions) IN
         /\ after[0] = [table |-> t, refused |-> FALSE]
         /\ \A i \in 1..Len(actions) : after[i] = actOn(after[i - 1], actions[i])
<1> DEFINE n == Len(actions)
           first == [table |-> t, refused |-> FALSE]
           step(s, i) == actOn(s, actions[i])
           isRun(f, k) ==
             \A i \in 0..k : f[i] = IF i = 0 THEN first ELSE step(f[i - 1], i)
           runs == {k \in 0..n : \E f : isRun(f, k)}
<1>1. n \in Nat
  OBVIOUS
<1> HIDE DEF n, first, step
<1>2. 0 \in runs
  <2> DEFINE f == [i \in {0} |-> first]
  <2>1. isRun(f, 0)
    OBVIOUS
  <2> HIDE DEF f, isRun
  <2> QED
    BY <1>1, <2>1
<1>3. ASSUME NEW k \in 1..n, k - 1 \in runs PROVE k \in runs
  <2>1. PICK f : isRun(f, k - 1)
    BY <1>3
  <2> DEFINE g == [i \in 0..k |-> IF i = k THEN step(f[k - 1], k) ELSE f[i]]
  <2>2. ASSUME NEW i \in 0..k
        PROVE  g[i] = IF i = 0 THEN first ELSE step(g[i - 1], i)
    <3>1. i = k => g[k - 1] = f[k - 1]
      BY <1>1
    <3>2. i # k => /\ i \in 0..(k - 1)
                   /\ i # 0 => g[i - 1] = f[i - 1]
      BY <1>1
    <3> QED
      BY <1>1, <2>1, <3>1, <3>2
  <2> HIDE DEF g
  <2>3. isRun(g, k)
    BY <2>2
  <2> HIDE DEF isRun
  <2> QED
    BY <1>1, <2>3
<1>4. n \in runs
  <2> HIDE DEF runs
  <2>1. \A i \in 0..n : i \in runs
    BY <1>1, <1>2, <1>3, AlongList
  <2> QED
    BY <1>1, <2>1
<1>5. PICK f : isRun(f, n)
  <2> HIDE DEF isRun
  <2> QED
    BY <1>4
<1> DEFINE g == [i \in 0..n |-> f[i]]
<1>6. g = [i \in 0..n |-> IF i = 0 THEN first ELSE step(g[i - 1], i)]
  <2>1. \A i \in 0..n : g[i] = IF i = 0 THEN first ELSE step(g[i - 1], i)
    BY <1>1, <1>5
  <2> QED
    BY <2>1
<1> DEFINE whole(r) == r = [i \in 0..n |-> IF i = 0 THEN first ELSE step(r[i - 1], i)]
           after == applyActions(t, actions)
<1>7. \E r : whole(r)
  BY <1>6
<1>8. whole(after)
  <2>1. after = CHOOSE r : whole(r)
    BY DEF applyActions, n, first, step
  <2> HIDE DEF whole, after
  <2> QED
    BY <1>7, <2>1
<1> HIDE DEF after
<1>9. after[0] = first /\ \A i \in 1..n : after[i] = step(after[i - 1], i)
  BY <1>1, <1>8
<1> QED
  BY <1>9 DEF after, n, first, step

(* And the indexes that a dropped table may take along are gone through.   *)
LEMMA KeptIndexesFacts ==
  ASSUME NEW T, NEW indexes \in Seq(T), NEW key
  PROVE  LET after == keptIndexes(indexes, key) IN
         /\ after[0] = <<>>
         /\ \A i \in 1..Len(indexes) :
              after[i] = IF normIdent(indexes[i].TableName) # key
                           THEN Append(after[i - 1], indexes[i]) ELSE after[i - 1]
<1> DEFINE n == Len(indexes)
           first == <<>>
           step(s, i) == IF normIdent(indexes[i].TableName) # key
                           THEN Append(s, indexes[i]) ELSE s
           isRun(f, k) ==
             \A i \in 0..k : f[i] = IF i = 0 THEN first ELSE step(f[i - 1], i)
           runs == {k \in 0..n : \E f : isRun(f, k)}
<1>1. n \in Nat
  OBVIOUS
<1> HIDE DEF n, first, step
<1>2. 0 \in runs
  <2> DEFINE f == [i \in {0} |-> first]
  <2>1. isRun(f, 0)
    OBVIOUS
  <2> HIDE DEF f, isRun
  <2> QED
    BY <1>1, <2>1
<1>3. ASSUME NEW k \in 1..n, k - 1 \in runs PROVE k \in runs
  <2>1. PICK f : isRun(f, k - 1)
    BY <1>3
  <2> DEFINE g == [i \in 0..k |-> IF i = k THEN step(f[k - 1], k) ELSE f[i]]
  <2>2. ASSUME NEW i \in 0..k
        PROVE  g[i] = IF i = 0 THEN first ELSE step(g[i - 1], i)
    <3>1. i = k => g[k - 1] = f[k - 1]
      BY <1>1
    <3>2. i # k => /\ i \in 0..(k - 1)
                   /\ i # 0 => g[i - 1] = f[i - 1]
      BY <1>1
    <3> QED
      BY <1>1, <2>1, <3>1, <3>2
  <2> HIDE DEF g
  <2>3. isRun(g, k)
    BY <2>2
  <2> HIDE DEF isRun
  <2> QED
    BY <1>1, <2>3
<1>4. n \in runs
  <2> HIDE DEF runs
  <2>1. \A i \in 0..n : i \in runs
    BY <1>1, <1>2, <1>3, AlongList
  <2> QED
    BY <1>1, <2>1
<1>5. PICK f : isRun(f, n)
  <2> HIDE DEF isRun
  <2> QED
    BY <1>4
<1> DEFINE g == [i \in 0..n |-> f[i]]
<1>6. g = [i \in 0..n |-> IF i = 0 THEN first ELSE step(g[i - 1], i)]
  <2>1. \A i \in 0..n : g[i] = IF i = 0 THEN first ELSE step(g[i - 1], i)
    BY <1>1, <1>5
  <2> QED
    BY <2>1
<1> DEFINE whole(r) == r = [i \in 0..n |-> IF i = 0 THEN first ELSE step(r[i - 1], i)]
           after == keptIndexes(indexes, key)
<1>7. \E r : whole(r)
  BY <1>6
<1>8. whole(after)
  <2>1. after = CHOOSE r : whole(r)
    BY DEF keptIndexes, n, first, step
  <2> HIDE DEF whole, after
  <2> QED
    BY <1>7, <2>1
<1> HIDE DEF after
<1>9. after[0] = first /\ \A i \in 1..n : after[i] = step(after[i - 1], i)
  BY <1>1, <1>8
<1> QED
  BY <1>9 DEF after, n, first, step

(* What a dropped table leaves of the indexes: a slice of those that were  *)
(* there and are on other tables; no two of one name if there were none.   *)
LEMMA IndexesWithoutFacts ==
  ASSUME NEW indexes, IsSlice(indexes), NEW key
  PROVE  LET rest == indexesWithout(indexes, key) IN
         /\ IsSlice(rest)
         /\ \A p \in 1..Len(rest) : \E q \in 1..Len(indexes) :
              rest[p] = indexes[q] /\ normIdent(indexes[q].TableName) # key
         /\ Distinct(normKeys(indexes)) => Distinct(normKeys(rest))
<1> DEFINE n == Len(indexes)
           kept == keptIndexes(indexes, key)
           from(s, i) == \A p \in 1..Len(s) : \E q \in 1..i :
                           s[p] = indexes[q] /\ normIdent(indexes[q].TableName) # key
           unlike(s) == \A p, q \in 1..Len(s) :
                          normIdent(s[p].Name) = normIdent(s[q].Name) => p = q
           good(i) == /\ IsSlice(kept[i])
                      /\ from(kept[i], i)
                      /\ unlike(indexes) => unlike(kept[i])
           G == {i \in 0..n : good(i)}
<1>1. indexes \in Seq(Range(indexes)) /\ n \in Nat
  BY DEF IsSlice
<1>2. /\ kept[0] = <<>>
      /\ \A i \in 1..n : kept[i] = IF normIdent(indexes[i].TableName) # key
                                     THEN Append(kept[i - 1], indexes[i])
                                     ELSE kept[i - 1]
  BY <1>1, KeptIndexesFacts
<1> HIDE DEF kept, n
<1>3. 0 \in G
  <2>1. <<>> \in Seq({}) /\ Len(<<>>) = 0
    OBVIOUS
  <2>2. IsSlice(<<>>)
    BY <2>1, SeqIsSlice
  <2>3. good(0)
    BY <1>2, <2>1, <2>2
  <2> HIDE DEF good
  <2> QED
    BY <1>1, <2>3
<1>4. ASSUME NEW i \in 1..n, i - 1 \in G PROVE i \in G
  <2>1. good(i - 1) /\ i \in 0..n /\ i - 1 \in 0..n
    BY <1>1, <1>4
  <2>2. CASE normIdent(indexes[i].TableName) = key
    <3>1. kept[i] = kept[i - 1]
      BY <1>2, <2>2
    <3>2. good(i)
      BY <1>1, <2>1, <3>1
    <3> HIDE DEF good
    <3> QED
      BY <2>1, <3>2
  <2>3. CASE normIdent(indexes[i].TableName) # key
    <3> DEFINE s == kept[i - 1]
               x == indexes[i]
    <3>1. kept[i] = Append(s, x)
      BY <1>2, <2>3
    <3>2. IsSlice(s) /\ from(s, i - 1) /\ Len(s) \in Nat
      BY <2>1, SliceWithin
    <3> HIDE DEF s
    <3>3. /\ IsSlice(Append(s, x)) /\ Len(Append(s, x)) = Len(s) + 1
          /\ \A p \in 1..(Len(s) + 1) : Append(s, x)[p] = IF p <= Len(s) THEN s[p] ELSE x
      BY <3>2, SliceAppend
    <3>4. from(Append(s, x), i)
      <4> SUFFICES ASSUME NEW p \in 1..(Len(s) + 1)
                   PROVE  \E q \in 1..i : /\ Append(s, x)[p] = indexes[q]
                                          /\ normIdent(indexes[q].TableName) # key
        BY <3>3
      <4>1. CASE p <= Len(s)
        <5>1. PICK q \in 1..(i - 1) :
                s[p] = indexes[q] /\ normIdent(indexes[q].TableName) # key
          BY <3>2, <4>1
        <5> QED
          BY <1>1, <3>3, <4>1, <5>1
      <4>2. CASE ~ (p <= Len(s))
        BY <1>1, <2>3, <3>3, <4>2
      <4> QED
        BY <4>1, <4>2
    <3>5. ASSUME unlike(indexes) PROVE unlike(Append(s, x))
      <4>1. unlike(s)
        BY <2>1, <3>5 DEF s
      <4>2. ASSUME NEW p \in 1..Len(s) PROVE normIdent(s[p].Name) # normIdent(x.Name)
        <5>1. PICK q \in 1..(i - 1) : s[p] = indexes[q]
          BY <3>2
        <5>2. q \in 1..n /\ q # i
          BY <1>1, <5>1
        <5> QED
          BY <3>5, <5>1, <5>2 DEF n
      <4> QED
        BY <3>2, <3>3, <4>1, <4>2
    <3>6. good(i)
      BY <3>1, <3>3, <3>4, <3>5
    <3> HIDE DEF good
    <3> QED
      BY <2>1, <3>6
  <2> QED
    BY <2>2, <2>3
<1>5. n \in G
  <2> HIDE DEF G
  <2>1. \A i \in 0..n : i \in G
    BY <1>1, <1>3, <1>4, AlongList
  <2> QED
    BY <1>1, <2>1
<1>6. good(n)
  BY <1>5
<1>7. indexesWithout(indexes, key) = kept[n]
  BY DEF indexesWithout, kept, n
<1>8. ASSUME NEW s, IsSlice(s) PROVE Distinct(normKeys(s)) <=> unlike(s)
  <2>1. DOMAIN normKeys(s) = 1..Len(s)
    BY <1>8, SliceKeys, SliceWithin
  <2> QED
    BY <1>8, <2>1, SliceKeys DEF Distinct
<1>9. Distinct(normKeys(indexes)) => Distinct(normKeys(kept[n]))
  <2> HIDE DEF unlike
  <2> QED
    BY <1>6, <1>8
<1> QED
  BY <1>6, <1>7, <1>9 DEF n

-----------------------------------------------------------------------------
(* A map from keys to positions.                                           *)
IsMap(m) == m \in [DOMAIN m -> Nat]

(* A slice and its map, both ways and one way.                             *)
Keyed(slice, m) == IsSlice(slice) /\ IsMap(m) /\ Sound(m, normKeys(slice))
Found(slice, m) == Complete(m, normKeys(slice))

(* The variables a DROP TABLE works on, as the record of dropOneTable.     *)
IsDropState(s) ==
  s = [Tables |-> s.Tables, tableIndex |-> s.tableIndex,
       Indexes |-> s.Indexes, indexIndex |-> s.indexIndex,
       Objects |-> s.Objects, objectIdx |-> s.objectIdx, refused |-> s.refused]

DropOK(s) ==
  /\ IsDropState(s)
  /\ Keyed(s.Tables, s.tableIndex)
  /\ Keyed(s.Indexes, s.indexIndex)
  /\ s.Objects \in Seq(StoredObject)
  /\ IsMap(s.objectIdx)
  /\ Sound(s.objectIdx, objectKeys(s.Objects))

DropFull(s) ==
  /\ Found(s.Tables, s.tableIndex)
  /\ Found(s.Indexes, s.indexIndex)
  /\ Complete(s.objectIdx, objectKeys(s.Objects))

(* What one name of a DROP TABLE does: nothing, or it takes a table with   *)
(* its indexes, or a partition.                                            *)
DropsNothing(s, t) ==
  /\ t.Tables = s.Tables /\ t.tableIndex = s.tableIndex
  /\ t.Indexes = s.Indexes /\ t.indexIndex = s.indexIndex
  /\ t.Objects = s.Objects /\ t.objectIdx = s.objectIdx

DropsTable(s, t, k) ==
  /\ t.Tables = RemoveAt(s.Tables, s.tableIndex[k])
  /\ t.tableIndex = Reindex(Delete(s.tableIndex, k), normKeys(t.Tables), s.tableIndex[k])
  /\ t.Indexes = indexesWithout(s.Indexes, k)
  /\ t.indexIndex = IndexPositions(t.Indexes)
  /\ t.Objects = s.Objects /\ t.objectIdx = s.objectIdx

DropsPartition(s, t, k) ==
  /\ t.Tables = s.Tables /\ t.tableIndex = s.tableIndex
  /\ t.Indexes = s.Indexes /\ t.indexIndex = s.indexIndex
  /\ t.Objects = RemoveAt(s.Objects, s.objectIdx[k])
  /\ t.objectIdx = Reindex(Delete(s.objectIdx, k), objectKeys(t.Objects), s.objectIdx[k])

(* One name of a DROP TABLE drops nothing, or the table or the partition   *)
(* of that name, and there is no fourth way.                               *)
LEMMA DropOneTableNamed ==
  ASSUME NEW s, IsDropState(s), NEW name, NEW ifExists, NEW t,
         t = dropOneTable(s, name, ifExists)
  PROVE  /\ IsDropState(t)
         /\ \/ DropsNothing(s, t)
            \/ /\ normIdent(name) \in DOMAIN s.tableIndex
               /\ DropsTable(s, t, normIdent(name))
            \/ /\ objectKey("PARTITION", name) \in DOMAIN s.objectIdx
               /\ DropsPartition(s, t, objectKey("PARTITION", name))
<1> DEFINE key == normIdent(name)
           partKey == objectKey("PARTITION", name)
           tables == RemoveAt(s.Tables, s.tableIndex[key])
           kept == indexesWithout(s.Indexes, key)
           objects == RemoveAt(s.Objects, s.objectIdx[partKey])
           positions == Reindex(Delete(s.tableIndex, key), normKeys(tables), s.tableIndex[key])
           objPositions == Reindex(Delete(s.objectIdx, partKey), objectKeys(objects),
                                   s.objectIdx[partKey])
<1>1. s = [Tables |-> s.Tables, tableIndex |-> s.tableIndex,
           Indexes |-> s.Indexes, indexIndex |-> s.indexIndex,
           Objects |-> s.Objects, objectIdx |-> s.objectIdx, refused |-> s.refused]
  BY DEF IsDropState
<1>2. CASE s.refused
  <2>1. t = s
    BY <1>2 DEF dropOneTable
  <2> QED
    BY <2>1 DEF DropsNothing
<1>3. CASE ~ s.refused /\ key \in DOMAIN s.tableIndex
  <2>1. t = [Tables |-> tables, tableIndex |-> positions,
             Indexes |-> kept, indexIndex |-> IndexPositions(kept),
             Objects |-> s.Objects, objectIdx |-> s.objectIdx, refused |-> s.refused]
    <3>1. t = [s EXCEPT !.Tables = tables, !.tableIndex = positions,
                        !.Indexes = kept, !.indexIndex = IndexPositions(kept)]
      BY <1>3 DEF dropOneTable, tablesWithout
    <3> HIDE DEF tables, positions, kept
    <3> QED
      BY <1>1, <3>1
  <2> HIDE DEF tables, positions, kept
  <2>2. /\ IsDropState(t) /\ t.Tables = tables /\ t.tableIndex = positions
        /\ t.Indexes = kept /\ t.indexIndex = IndexPositions(kept)
        /\ t.Objects = s.Objects /\ t.objectIdx = s.objectIdx
    BY <2>1 DEF IsDropState
  <2>3. DropsTable(s, t, key)
    BY <2>2 DEF DropsTable, tables, positions, kept
  <2> QED
    BY <1>3, <2>2, <2>3
<1>4. CASE ~ s.refused /\ key \notin DOMAIN s.tableIndex /\ partKey \in DOMAIN s.objectIdx
  <2>1. t = [Tables |-> s.Tables, tableIndex |-> s.tableIndex,
             Indexes |-> s.Indexes, indexIndex |-> s.indexIndex,
             Objects |-> objects, objectIdx |-> objPositions, refused |-> s.refused]
    <3>1. t = [s EXCEPT !.Objects = objects, !.objectIdx = objPositions]
      BY <1>4 DEF dropOneTable
    <3> HIDE DEF objects, objPositions
    <3> QED
      BY <1>1, <3>1
  <2> HIDE DEF objects, objPositions
  <2>2. /\ IsDropState(t) /\ t.Tables = s.Tables /\ t.tableIndex = s.tableIndex
        /\ t.Indexes = s.Indexes /\ t.indexIndex = s.indexIndex
        /\ t.Objects = objects /\ t.objectIdx = objPositions
    BY <2>1 DEF IsDropState
  <2>3. DropsPartition(s, t, partKey)
    BY <2>2 DEF DropsPartition, objects, objPositions
  <2> QED
    BY <1>4, <2>2, <2>3
<1>5. CASE ~ s.refused /\ key \notin DOMAIN s.tableIndex /\ partKey \notin DOMAIN s.objectIdx
  <2>1. t = [s EXCEPT !.refused = ~ ifExists]
    BY <1>5 DEF dropOneTable
  <2>2. t = [Tables |-> s.Tables, tableIndex |-> s.tableIndex,
             Indexes |-> s.Indexes, indexIndex |-> s.indexIndex,
             Objects |-> s.Objects, objectIdx |-> s.objectIdx, refused |-> ~ ifExists]
    BY <1>1, <2>1
  <2> QED
    BY <2>2 DEF IsDropState, DropsNothing
<1> QED
  BY <1>2, <1>3, <1>4, <1>5

(* ... so it is a table or a partition of some key.                        *)
LEMMA DropOneTableCases ==
  ASSUME NEW s, IsDropState(s), NEW name, NEW ifExists, NEW t,
         t = dropOneTable(s, name, ifExists)
  PROVE  /\ IsDropState(t)
         /\ \/ DropsNothing(s, t)
            \/ \E k \in DOMAIN s.tableIndex : DropsTable(s, t, k)
            \/ \E k \in DOMAIN s.objectIdx : DropsPartition(s, t, k)
BY DropOneTableNamed

(* Each of the three leaves the maps sound, and complete if they were.     *)
LEMMA DropOneTableKeeps ==
  ASSUME NEW s, DropOK(s), NEW name, NEW ifExists, NEW t,
         t = dropOneTable(s, name, ifExists)
  PROVE  DropOK(t) /\ (DropFull(s) => DropFull(t))
<1>1. IsDropState(s)
  BY DEF DropOK
<1>2. IsDropState(t)
  BY <1>1, DropOneTableCases
<1>3. CASE DropsNothing(s, t)
  BY <1>2, <1>3 DEF DropOK, DropFull, DropsNothing
<1>4. ASSUME NEW k \in DOMAIN s.tableIndex, DropsTable(s, t, k)
      PROVE  DropOK(t) /\ (DropFull(s) => DropFull(t))
  <2>1. IsSlice(s.Tables) /\ Sound(s.tableIndex, normKeys(s.Tables))
    BY DEF DropOK, Keyed
  <2>2. /\ t.Tables = RemoveAt(s.Tables, s.tableIndex[k])
        /\ t.tableIndex = Reindex(Delete(s.tableIndex, k), normKeys(t.Tables),
                                  s.tableIndex[k])
    BY <1>4 DEF DropsTable
  <2>3. /\ s.tableIndex[k] \in 1..Len(s.Tables)
        /\ IsSlice(t.Tables) /\ Sound(t.tableIndex, normKeys(t.Tables))
        /\ Found(s.Tables, s.tableIndex) => Found(t.Tables, t.tableIndex)
    BY <2>1, <2>2, KeyedDrop DEF Found
  <2>4. s.tableIndex[k] \in Nat /\ Len(normKeys(t.Tables)) \in Nat
    BY <2>1, <2>3, SliceKeys
  <2>5. IsMap(t.tableIndex)
    BY <2>2, <2>3, <2>4, ReindexIsFunction DEF IsMap
  <2>6. IsSlice(s.Indexes) /\ (Found(s.Indexes, s.indexIndex) => Distinct(normKeys(s.Indexes)))
    <3>1. IsSlice(s.Indexes)
      BY DEF DropOK, Keyed
    <3>2. DOMAIN normKeys(s.Indexes) = 1..Len(normKeys(s.Indexes))
      BY <3>1, SliceKeys, SliceWithin
    <3> QED
      BY <3>1, <3>2 DEF Found, Complete, Distinct
  <2>7. t.Indexes = indexesWithout(s.Indexes, k) /\ t.indexIndex = IndexPositions(t.Indexes)
    BY <1>4 DEF DropsTable
  <2>8. /\ IsSlice(t.Indexes)
        /\ Distinct(normKeys(s.Indexes)) => Distinct(normKeys(t.Indexes))
    BY <2>6, <2>7, IndexesWithoutFacts
  <2>9. /\ Sound(t.indexIndex, normKeys(t.Indexes))
        /\ Distinct(normKeys(t.Indexes)) => Found(t.Indexes, t.indexIndex)
    BY <2>7, <2>8, KeyedRebuild DEF IndexPositions, Found
  <2>10. Len(normKeys(t.Indexes)) \in Nat
    BY <2>8, SliceKeys
  <2>11. IsMap(t.indexIndex)
    BY <2>7, <2>9, <2>10, ReindexIsFunction DEF IndexPositions, IsMap
  <2> QED
    BY <1>2, <1>4, <2>3, <2>5, <2>6, <2>8, <2>9, <2>11
    DEF DropOK, DropFull, Keyed, DropsTable
<1>5. ASSUME NEW k \in DOMAIN s.objectIdx, DropsPartition(s, t, k)
      PROVE  DropOK(t) /\ (DropFull(s) => DropFull(t))
  <2> DEFINE keys == objectKeys(s.Objects)
             p == s.objectIdx[k]
  <2>1. s.Objects \in Seq(StoredObject) /\ Sound(s.objectIdx, keys)
    BY DEF DropOK
  <2>2. keys \in Seq(ObjKeysIn(StoredObject)) /\ Len(keys) = Len(s.Objects)
    BY <2>1, ObjKeysFacts
  <2>3. p \in 1..Len(s.Objects) /\ p \in Nat
    BY <2>1, <2>2 DEF Sound
  <2>4. t.Objects \in Seq(StoredObject) /\ objectKeys(t.Objects) = RemoveAt(keys, p)
    BY <1>5, <2>1, <2>3, ObjKeysRemove DEF DropsPartition
  <2>5. t.objectIdx = Reindex(Delete(s.objectIdx, k), RemoveAt(keys, p), p)
    BY <1>5, <2>4 DEF DropsPartition
  <2>6. Sound(t.objectIdx, objectKeys(t.Objects))
    BY <2>1, <2>2, <2>4, <2>5, DropSound
  <2>7. Complete(s.objectIdx, keys) => Complete(t.objectIdx, objectKeys(t.Objects))
    BY <2>1, <2>2, <2>4, <2>5, DropComplete
  <2>8. Len(objectKeys(t.Objects)) \in Nat
    BY <2>4, ObjKeysFacts
  <2>9. IsMap(t.objectIdx)
    BY <2>3, <2>4, <2>5, <2>6, <2>8, ReindexIsFunction DEF IsMap
  <2> QED
    BY <1>2, <1>5, <2>4, <2>6, <2>7, <2>9 DEF DropOK, DropFull, DropsPartition
<1> QED
  BY <1>1, <1>3, <1>4, <1>5, DropOneTableCases

(* What is left was there before, and no index loses its table.            *)
Housed(s) ==
  \A p \in 1..Len(s.Indexes) : normIdent(s.Indexes[p].TableName) \in DOMAIN s.tableIndex

Leaves(s, t) ==
  /\ \A p \in 1..Len(t.Tables) : \E q \in 1..Len(s.Tables) : t.Tables[p] = s.Tables[q]
  /\ \A p \in 1..Len(t.Indexes) : \E q \in 1..Len(s.Indexes) : t.Indexes[p] = s.Indexes[q]
  /\ Housed(s) => Housed(t)

(* The tables that are left stand in the order they stood in.              *)
OrderLeft(s, t) ==
  /\ DOMAIN t.tableIndex \subseteq DOMAIN s.tableIndex
  /\ \A k, l \in DOMAIN t.tableIndex :
       s.tableIndex[k] < s.tableIndex[l] => t.tableIndex[k] < t.tableIndex[l]

(* In each of the three cases what is left is what it was, in the order    *)
(* it was in.                                                              *)
LEMMA DropOneTableLeaves ==
  ASSUME NEW s, DropOK(s), NEW name, NEW ifExists, NEW t,
         t = dropOneTable(s, name, ifExists)
  PROVE  Leaves(s, t)
<1>1. IsDropState(s) /\ IsSlice(s.Tables) /\ IsSlice(s.Indexes)
  BY DEF DropOK, Keyed
<1>2. CASE DropsNothing(s, t)
  BY <1>2 DEF Leaves, Housed, DropsNothing
<1>3. ASSUME NEW k \in DOMAIN s.tableIndex, DropsTable(s, t, k)
      PROVE  Leaves(s, t)
  <2>1. s.tableIndex[k] \in 1..Len(s.Tables) /\ Len(s.Tables) \in Nat
    BY <1>1, KeyedDrop, SliceWithin DEF DropOK, Keyed
  <2>2. t.Tables = RemoveAt(s.Tables, s.tableIndex[k])
    BY <1>3 DEF DropsTable
  <2> DEFINE pos == s.tableIndex[k]
  <2>3. \A p \in 1..Len(t.Tables) : \E q \in 1..Len(s.Tables) : t.Tables[p] = s.Tables[q]
    <3>0. pos \in 1..Len(s.Tables) /\ t.Tables = RemoveAt(s.Tables, pos)
      BY <2>1, <2>2
    <3> HIDE DEF pos
    <3>1. /\ Len(t.Tables) = Len(s.Tables) - 1
          /\ \A i \in 1..(Len(s.Tables) - 1) :
               t.Tables[i] = IF i < pos THEN s.Tables[i] ELSE s.Tables[i + 1]
      BY <1>1, <3>0, SliceRemove
    <3>2. ASSUME NEW p \in 1..(Len(s.Tables) - 1)
          PROVE  \E q \in 1..Len(s.Tables) : t.Tables[p] = s.Tables[q]
      <4>1. t.Tables[p] = IF p < pos THEN s.Tables[p] ELSE s.Tables[p + 1]
        BY <3>1
      <4>2. p \in 1..Len(s.Tables) /\ p + 1 \in 1..Len(s.Tables)
        BY <2>1
      <4> QED
        BY <4>1, <4>2
    <3> QED
      BY <3>1, <3>2
  <2>4. \A p \in 1..Len(t.Indexes) : \E q \in 1..Len(s.Indexes) :
          t.Indexes[p] = s.Indexes[q] /\ normIdent(s.Indexes[q].TableName) # k
    <3>1. t.Indexes = indexesWithout(s.Indexes, k)
      BY <1>3 DEF DropsTable
    <3>2. \A p \in 1..Len(indexesWithout(s.Indexes, k)) : \E q \in 1..Len(s.Indexes) :
            /\ indexesWithout(s.Indexes, k)[p] = s.Indexes[q]
            /\ normIdent(s.Indexes[q].TableName) # k
      BY <1>1, IndexesWithoutFacts
    <3> QED
      BY <3>1, <3>2
  <2>5. DOMAIN s.tableIndex \ {k} \subseteq DOMAIN t.tableIndex
    BY <1>3 DEF DropsTable, Reindex, Delete
  <2> QED
    BY <2>3, <2>4, <2>5 DEF Leaves, Housed
<1>4. ASSUME NEW k \in DOMAIN s.objectIdx, DropsPartition(s, t, k)
      PROVE  Leaves(s, t)
  BY <1>4 DEF Leaves, Housed, DropsPartition
<1> QED
  BY <1>1, <1>2, <1>3, <1>4, DropOneTableCases

(* ... and leaves the order of the other tables.                           *)
LEMMA DropOneTableOrder ==
  ASSUME NEW s, DropOK(s), DropFull(s), NEW name, NEW ifExists, NEW t,
         t = dropOneTable(s, name, ifExists)
  PROVE  OrderLeft(s, t)
<1>1. IsDropState(s) /\ IsSlice(s.Tables) /\ IsMap(s.tableIndex)
  BY DEF DropOK, Keyed
<1>2. CASE t.tableIndex = s.tableIndex
  BY <1>2 DEF OrderLeft
<1>3. ASSUME NEW k \in DOMAIN s.tableIndex, DropsTable(s, t, k)
      PROVE  OrderLeft(s, t)
  <2> DEFINE m == s.tableIndex
             keys == normKeys(s.Tables)
  <2>1. Sound(m, keys) /\ Complete(m, keys) /\ IsSlice(keys)
    BY <1>1, SliceKeys DEF DropOK, DropFull, Found, Keyed
  <2>2. t.tableIndex = Reindex(Delete(m, k), RemoveAt(keys, m[k]), m[k])
    BY <1>1, <1>3, KeyedDrop DEF DropsTable, DropOK, Keyed
  <2> HIDE DEF m, keys
  <2>3. /\ DOMAIN t.tableIndex = DOMAIN m \ {k}
        /\ \A x \in DOMAIN t.tableIndex :
             t.tableIndex[x] = IF m[x] < m[k] THEN m[x] ELSE m[x] - 1
    <3>1. k \in DOMAIN m
      BY <1>3 DEF m
    <3> QED
      BY <2>1, <2>2, <3>1, DropPositions
  <2>4. \A x \in DOMAIN m : m[x] \in Nat
    BY <1>1 DEF m, IsMap
  <2>5. \A x \in DOMAIN m \ {k} : m[x] # m[k]
    BY <1>3, <2>1 DEF Sound, m
  <2> QED
    BY <1>3, <2>3, <2>4, <2>5 DEF OrderLeft, m
<1> QED
  BY <1>1, <1>2, <1>3, DropOneTableCases DEF DropsNothing, DropsPartition

(* A whole DROP TABLE, refused half way through its list or not.           *)
LEMMA DropTablesKeeps ==
  ASSUME NEW s, DropOK(s), NEW T, NEW names \in Seq(T), NEW ifExists, NEW t,
         t = dropTables(s, names, ifExists)[Len(names)]
  PROVE  /\ DropOK(t)
         /\ Leaves(s, t)
         /\ DropFull(s) => DropFull(t) /\ OrderLeft(s, t)
<1> DEFINE n == Len(names)
           after == dropTables(s, names, ifExists)
           good(u) == /\ DropOK(u)
                      /\ Leaves(s, u)
                      /\ DropFull(s) => DropFull(u) /\ OrderLeft(s, u)
           G == {i \in 0..n : good(after[i])}
<1>1. /\ n \in Nat
      /\ after[0] = s
      /\ \A i \in 1..n : after[i] = dropOneTable(after[i - 1], names[i], ifExists)
  BY DropTablesFacts
<1>2. good(s)
  BY DEF Leaves, OrderLeft
<1>3. ASSUME NEW u, good(u), NEW name, NEW v, v = dropOneTable(u, name, ifExists)
      PROVE  good(v)
  <2>1. DropOK(v) /\ (DropFull(u) => DropFull(v))
    BY <1>3, DropOneTableKeeps
  <2>2. Leaves(u, v)
    BY <1>3, DropOneTableLeaves
  <2>3. Leaves(s, v)
    BY <1>3, <2>2 DEF Leaves
  <2>4. DropFull(u) => OrderLeft(u, v)
    BY <1>3, DropOneTableOrder
  <2>5. OrderLeft(s, u) /\ OrderLeft(u, v) => OrderLeft(s, v)
    BY DEF OrderLeft
  <2> QED
    BY <1>3, <2>1, <2>3, <2>4, <2>5
<1> HIDE DEF good, after, n
<1>4. 0 \in G
  BY <1>1, <1>2
<1>5. ASSUME NEW i \in 1..n, i - 1 \in G PROVE i \in G
  BY <1>1, <1>3, <1>5
<1>6. \A i \in 0..n : i \in G
  <2> HIDE DEF G
  <2> QED
    BY <1>1, <1>4, <1>5, AlongList
<1>7. good(after[n])
  BY <1>1, <1>6
<1> QED
  BY <1>7 DEF good, after, n

-----------------------------------------------------------------------------
(* The inductive invariant.  TableInv is what every history keeps;         *)
(* TableFull is what those keep that take no name in use.                  *)
TablesOK ==
  Keyed(Tables, tableIndex) /\ \A i \in 1..Len(Tables) : IsTableDef(Tables[i])
IndexesOK ==
  Keyed(Indexes, indexIndex) /\ Indexes \in Seq(CreateIndexStmt)
TruncatesOK ==
  Truncates \in Seq(TruncateStmt) /\ IsMap(truncateIdx)

TableInv == ObjInv /\ TablesOK /\ IndexesOK /\ TruncatesOK

TableFull ==
  Found(Tables, tableIndex) /\ Found(Indexes, indexIndex) /\ ObjComplete

(* The invariant behind IndexesHaveTables: an index is on a table, never   *)
(* on a partition.                                                         *)
IndexesOnTables == \A i \in 1..Len(Indexes) : IsTable(Indexes[i].TableName)

(* What the steps do to the three, together.                               *)
Kept == /\ TableInv'
        /\ TableFull => TableFull'
        /\ IndexesOnTables => IndexesOnTables'

(* A map to positions keeps its type when an entry is set or moved.        *)
LEMMA PutIsMap ==
  ASSUME NEW m, IsMap(m), NEW k, NEW i \in Nat
  PROVE  IsMap(Put(m, k, i))
BY PutIsFunction DEF IsMap

(* The entry of a name is moved to another name.                           *)
LEMMA RekeyIsMap ==
  ASSUME NEW m, IsMap(m), NEW old \in DOMAIN m, NEW new
  PROVE  IsMap(Put(Delete(m, old), new, m[old]))
<1>1. IsMap(Delete(m, old)) /\ m[old] \in Nat
  BY DEF IsMap, Delete
<1> QED
  BY <1>1, PutIsMap

(* The objects do not see what happens to tables and indexes.              *)
LEMMA ObjectsKept ==
  ASSUME ObjInv, UNCHANGED objOnlyVars, failed' \in BOOLEAN
  PROVE  ObjInv' /\ (ObjComplete => ObjComplete')
BY DEF objOnlyVars, ObjInv, ObjectIndexSound, ObjComplete, objKeys

(* Neither do the other slices when one of them changes.                   *)
LEMMA TablesKept ==
  ASSUME TablesOK, UNCHANGED tableOnlyVars
  PROVE  /\ TablesOK' /\ (Found(Tables, tableIndex) => Found(Tables, tableIndex)')
         /\ \A t : IsTable(t)' = IsTable(t)
BY DEF tableOnlyVars, TablesOK, IsTable

(* Nor do the indexes see a step that leaves them alone.                   *)
LEMMA IndexesKept ==
  ASSUME IndexesOK, UNCHANGED indexVars
  PROVE  IndexesOK' /\ (Found(Indexes, indexIndex) => Found(Indexes, indexIndex)')
BY DEF indexVars, IndexesOK

(* Nor the TRUNCATEs.                                                      *)
LEMMA TruncatesKept ==
  ASSUME TruncatesOK, UNCHANGED truncVars
  PROVE  TruncatesOK'
BY DEF truncVars, TruncatesOK

(* A statement that is refused or skipped changes the outcome at most.     *)
LEMMA NothingDefined ==
  ASSUME TableInv, failed' \in BOOLEAN,
         UNCHANGED <<tableOnlyVars, indexVars, truncVars, objOnlyVars>>
  PROVE  Kept
<1>1. UNCHANGED tableOnlyVars /\ UNCHANGED indexVars /\ UNCHANGED truncVars
        /\ UNCHANGED objOnlyVars
  OBVIOUS
<1>2. IndexesOnTables => IndexesOnTables'
  BY <1>1 DEF IndexesOnTables, IsTable, tableOnlyVars, indexVars
<1> QED
  BY <1>1, <1>2, ObjectsKept, TablesKept, IndexesKept, TruncatesKept
  DEF Kept, TableInv, TableFull

(* A refused statement keeps the invariant.                                *)
LEMMA TableRefused ==
  ASSUME TableInv, RefuseTable
  PROVE  Kept
<1>1. failed' \in BOOLEAN
        /\ UNCHANGED <<tableOnlyVars, indexVars, truncVars, objOnlyVars>>
  BY DEF RefuseTable, Refused, tableOnlyVars
<1> QED
  BY <1>1, NothingDefined

(* A statement that is skipped, an IF EXISTS without a target, keeps       *)
(* it.                                                                     *)
LEMMA TableSkipped ==
  ASSUME TableInv, UNCHANGED tableVars
  PROVE  Kept
<1>1. failed' \in BOOLEAN
        /\ UNCHANGED <<tableOnlyVars, indexVars, truncVars, objOnlyVars>>
  BY DEF tableVars, tableOnlyVars, indexVars, truncVars, objOnlyVars, TableInv, ObjInv
<1> QED
  BY <1>1, NothingDefined

-----------------------------------------------------------------------------
(* Each handler keeps the invariant.                                       *)
LEMMA CreateTableStep ==
  ASSUME TableInv, NEW v \in CreateTableStmt, applyCreateTable(v)
  PROVE  Kept
<1> DEFINE key == normIdent(v.Name)
<1>1. CASE RefuseTable
  BY <1>1, TableRefused
<1>2. CASE /\ key \notin DOMAIN tableIndex
           /\ tableIndex' = Put(tableIndex, key, Len(Tables) + 1)
           /\ Tables' = Append(Tables, v)
           /\ UNCHANGED <<indexVars, truncVars, objOnlyVars>>
           /\ Succeed
  <2>1. IsSlice(Tables) /\ IsMap(tableIndex) /\ Sound(tableIndex, normKeys(Tables))
    BY DEF TableInv, TablesOK, Keyed
  <2>2. /\ IsSlice(Tables') /\ Sound(tableIndex', normKeys(Tables'))
        /\ Found(Tables, tableIndex) => Found(Tables, tableIndex)'
    BY <1>2, <2>1, KeyedCreate DEF Found
  <2>3. Len(Tables) + 1 \in Nat
    BY <2>1, SliceKeys
  <2>4. IsMap(tableIndex')
    BY <1>2, <2>1, <2>3, PutIsMap
  <2>5. IsTableDef(v)
    BY TableAssumption
  <2>6. \A i \in 1..Len(Tables') : IsTableDef(Tables'[i])
    BY <1>2, <2>1, <2>5, SliceAppend DEF TableInv, TablesOK
  <2>7. \A t : IsTable(t) => IsTable(t)'
    BY <1>2 DEF IsTable, Put
  <2>8. failed' \in BOOLEAN
    BY <1>2 DEF Succeed, TableInv, ObjInv
  <2>9. IndexesOnTables => IndexesOnTables'
    BY <1>2, <2>7 DEF IndexesOnTables, indexVars
  <2> QED
    BY <1>2, <2>2, <2>4, <2>6, <2>8, <2>9, ObjectsKept, IndexesKept, TruncatesKept
    DEF Kept, TableInv, TableFull, TablesOK, Keyed
<1> QED
  BY <1>1, <1>2 DEF applyCreateTable

(* CREATE TABLE ... PARTITION OF goes to the verbatim objects only.        *)
LEMMA CreatePartitionStep ==
  ASSUME TableInv, NEW v \in CreatePartitionStmt, createPartition(v)
  PROVE  Kept
<1>1. v \in CreateObjectStmt /\ applyCreateObject(v)
        /\ UNCHANGED tableOnlyVars /\ UNCHANGED indexVars /\ UNCHANGED truncVars
  BY DEF CreatePartitionStmt, createPartition, tableOnlyVars
<1>2. ObjInv' /\ (ObjComplete => ObjComplete')
  BY <1>1, CreateObjectStep DEF TableInv
<1>3. IndexesOnTables => IndexesOnTables'
  BY <1>1 DEF IndexesOnTables, IsTable, tableOnlyVars, indexVars
<1> QED
  BY <1>1, <1>2, <1>3, TablesKept, IndexesKept, TruncatesKept
  DEF Kept, TableInv, TableFull

(* A table is put in the place of one that was there.                      *)
LEMMA TablesReplaced ==
  ASSUME NEW tables, IsSlice(tables), NEW idx \in 1..Len(tables), NEW new,
         \A i \in DOMAIN tables : DistinctParts(tables[i]), DistinctParts(new)
  PROVE  \A i \in DOMAIN Replaced(tables, idx, new) :
           DistinctParts(Replaced(tables, idx, new)[i])
<1>1. /\ IsSlice(Replaced(tables, idx, new))
      /\ Len(Replaced(tables, idx, new)) = Len(tables)
      /\ \A i \in 1..Len(tables) :
           Replaced(tables, idx, new)[i] = IF i = idx THEN new ELSE tables[i]
  BY SliceReplace
<1>2. /\ DOMAIN Replaced(tables, idx, new) = 1..Len(tables)
      /\ DOMAIN tables = 1..Len(tables)
  BY <1>1, SliceWithin
<1> QED
  BY <1>1, <1>2

(* The actions of an ALTER TABLE keep what each of them keeps, as far as   *)
(* they came; if PostgreSQL accepts each of them where it is taken, the    *)
(* parts of the table have different names all along.                      *)
ActionsLegal(t, actions) ==
  \A i \in DOMAIN actions :
    LegalAction(applyActions(t, actions)[i - 1].table, actions[i])

(* A list of actions keeps the table, and if PostgreSQL accepts each of    *)
(* them where it is taken, the names of its parts distinct.                *)
LEMMA ActionsKeep ==
  ASSUME NEW t, IsTableDef(t), NEW actions, IsSlice(actions),
         \A a \in Range(actions) : IsAction(a), NEW x,
         x = applyActions(t, actions)[Len(actions)].table
  PROVE  Keeps(t, x, ActionsLegal(t, actions))
<1> DEFINE n == Len(actions)
           after == applyActions(t, actions)
           legal == ActionsLegal(t, actions)
           good(s) == /\ s = [table |-> s.table, refused |-> s.refused]
                      /\ Keeps(t, s.table, legal)
           G == {i \in 0..n : good(after[i])}
<1>1. /\ n \in Nat /\ DOMAIN actions = 1..n
      /\ actions \in Seq(Range(actions))
      /\ \A i \in 1..n : IsAction(actions[i])
  BY SliceWithin DEF IsSlice
<1>2. /\ after[0] = [table |-> t, refused |-> FALSE]
      /\ \A i \in 1..n : after[i] = actOn(after[i - 1], actions[i])
  BY <1>1, ApplyActionsFacts
<1>3. \A i \in 1..n : legal => LegalAction(after[i - 1].table, actions[i])
  BY <1>1 DEF ActionsLegal
<1> HIDE DEF after, legal, n
<1>4. 0 \in G
  <2>1. good(after[0])
    BY <1>2 DEF Keeps
  <2> HIDE DEF good
  <2> QED
    BY <1>1, <2>1
<1>5. ASSUME NEW i \in 1..n, i - 1 \in G PROVE i \in G
  <2> DEFINE s == after[i - 1]
             a == actions[i]
             some == applyAction(s.table, a)
             next == IF s.refused THEN {} ELSE some
  <2>1. /\ i \in 0..n
        /\ s = [table |-> s.table, refused |-> s.refused]
        /\ Keeps(t, s.table, legal)
        /\ IsAction(a)
        /\ legal => LegalAction(s.table, a)
    BY <1>1, <1>3, <1>5
  <2>2. after[i] = IF next = {} THEN [s EXCEPT !.refused = TRUE]
                                ELSE [s EXCEPT !.table = CHOOSE x1 \in next : TRUE]
    BY <1>2 DEF actOn
  <2> HIDE DEF s, a
  <2>3. CASE next = {}
    <3>1. after[i] = [table |-> s.table, refused |-> TRUE]
      BY <2>1, <2>2, <2>3
    <3>2. good(after[i])
      BY <2>1, <3>1
    <3> HIDE DEF good
    <3> QED
      BY <2>1, <3>2
  <2>4. CASE next # {}
    <3> DEFINE u == CHOOSE x1 \in next : TRUE
    <3>1. u \in next /\ u \in some
      BY <2>4
    <3> HIDE DEF next, u
    <3>2. after[i] = [table |-> u, refused |-> s.refused]
      BY <2>1, <2>2, <2>4 DEF u
    <3>3. IsTableDef(s.table)
      BY <2>1 DEF Keeps
    <3>4. Keeps(s.table, u, LegalAction(s.table, a))
      BY <2>1, <3>1, <3>3, ApplyActionKeeps
    <3>5. Keeps(t, u, legal)
      BY <2>1, <3>4 DEF Keeps
    <3>6. good(after[i])
      BY <3>2, <3>5
    <3> HIDE DEF good
    <3> QED
      BY <2>1, <3>6
  <2> QED
    BY <2>3, <2>4
<1>6. n \in G
  <2> HIDE DEF G
  <2>1. \A i \in 0..n : i \in G
    BY <1>1, <1>4, <1>5, AlongList
  <2> QED
    BY <1>1, <2>1
<1> QED
  BY <1>6 DEF after, n, legal

(* ALTER TABLE puts a table of the same name where the table stood.        *)
LEMMA AlterTableStep ==
  ASSUME TableInv, NEW v \in AlterTableStmt, applyAlterTable(v)
  PROVE  /\ Kept
         /\ tableIndex' = tableIndex
         /\ UNCHANGED indexVars
         /\ /\ NamesDistinct
            /\ IsTable(v.TableName) =>
                 ActionsLegal(Tables[tableIndex[normIdent(v.TableName)]], v.Actions)
            => NamesDistinct'
<1> DEFINE key == normIdent(v.TableName)
           idx == tableIndex[key]
           altered == applyActions(Tables[idx], v.Actions)[Len(v.Actions)]
           new == WithParts(Tables[idx], altered.table.Columns, altered.table.Constraints)
<1>1. CASE RefuseTable
  BY <1>1, TableRefused DEF RefuseTable, NamesDistinct
<1>2. CASE /\ key \in DOMAIN tableIndex
           /\ Tables' = [Tables EXCEPT ![idx].Columns = altered.table.Columns,
                                       ![idx].Constraints = altered.table.Constraints]
           /\ IF altered.refused THEN Refused ELSE Succeed
           /\ UNCHANGED <<tableIndex, indexVars, truncVars, objOnlyVars>>
  <2>1. IsSlice(Tables) /\ IsMap(tableIndex) /\ Sound(tableIndex, normKeys(Tables))
    BY DEF TableInv, TablesOK, Keyed
  <2>2. idx \in 1..Len(Tables) /\ IsTableDef(Tables[idx])
    BY <1>2, <2>1, KeyedDrop DEF TableInv, TablesOK
  <2>3. DOMAIN Tables = 1..Len(Tables)
    BY <2>1, SliceWithin
  <2>4. Tables' = Replaced(Tables, idx, new)
    <3> DEFINE cols == altered.table.Columns
               cons == altered.table.Constraints
    <3>1. Tables' = [Tables EXCEPT ![idx].Columns = cols, ![idx].Constraints = cons]
      BY <1>2
    <3>2. IsTableRecord(Tables[idx])
      BY <2>2 DEF IsTableDef, IsTableRecord
    <3>3. new = [[Tables[idx] EXCEPT !.Columns = cols] EXCEPT !.Constraints = cons]
      BY <3>2, SetParts
    <3> HIDE DEF cols, cons, new, idx
    <3>4. Tables' = [i \in 1..Len(Tables) |->
                       IF i = idx
                         THEN [[Tables[idx] EXCEPT !.Columns = cols] EXCEPT !.Constraints = cons]
                         ELSE Tables[i]]
      BY <2>2, <2>3, <3>1
    <3> QED
      BY <2>2, <2>3, <3>3, <3>4 DEF Replaced
  <2>5. Keeps(Tables[idx], new, ActionsLegal(Tables[idx], v.Actions))
    <3> DEFINE t == Tables[idx]
               x == altered.table
    <3>1. IsSlice(v.Actions) /\ \A a \in Range(v.Actions) : IsAction(a)
      BY TableAssumption DEF AlterTableStmt
    <3>2. Keeps(t, x, ActionsLegal(t, v.Actions))
      <4> HIDE DEF t
      <4>1. x = applyActions(t, v.Actions)[Len(v.Actions)].table
        BY DEF t
      <4> HIDE DEF x
      <4> QED
        BY <2>2, <3>1, <4>1, ActionsKeep DEF t
    <3>3. new = WithParts(t, x.Columns, x.Constraints)
      OBVIOUS
    <3> HIDE DEF t, x, new
    <3>4. IsTableDef(t) /\ IsTableDef(x)
      BY <2>2, <3>2 DEF Keeps, t
    <3>5. IsColumnList(x.Columns) /\ IsConstraintList(x.Constraints)
      BY <3>4, TableDefParts
    <3> QED
      BY <3>2, <3>3, <3>4, <3>5, PartsChanged, DistinctByPosition DEF Keeps, t
  <2> HIDE DEF new
  <2>6. IsSlice(Tables') /\ normKeys(Tables') = normKeys(Tables)
    BY <2>1, <2>2, <2>4, <2>5, KeyedKeep DEF Keeps
  <2>7. \A i \in 1..Len(Tables') : IsTableDef(Tables'[i])
    BY <2>1, <2>2, <2>4, <2>5, SliceReplace DEF TableInv, TablesOK, Keeps
  <2>8. TablesOK' /\ (Found(Tables, tableIndex) => Found(Tables, tableIndex)')
    BY <1>2, <2>1, <2>6, <2>7 DEF TablesOK, Keyed, Found
  <2>9. failed' \in BOOLEAN
    BY <1>2 DEF Succeed, Refused, TableInv, ObjInv
  <2>10. UNCHANGED indexVars /\ UNCHANGED truncVars /\ UNCHANGED objOnlyVars
    BY <1>2
  <2>11. IndexesOnTables => IndexesOnTables'
    BY <1>2 DEF IndexesOnTables, IsTable, indexVars
  <2>12. ASSUME NamesDistinct, ActionsLegal(Tables[idx], v.Actions) PROVE NamesDistinct'
    BY <2>1, <2>2, <2>4, <2>5, <2>12, TablesReplaced DEF Keeps, NamesDistinct
  <2> QED
    BY <1>2, <2>8, <2>9, <2>10, <2>11, <2>12, ObjectsKept, IndexesKept, TruncatesKept
    DEF Kept, TableInv, TableFull, IsTable
<1> QED
  BY <1>1, <1>2 DEF applyAlterTable

(* The indexes of a renamed table stay where they are under their names.   *)
LEMMA MoveIndexesFacts ==
  ASSUME IndexesOK, NEW oldKey, NEW name \in Token, NEW new,
         new = moveIndexes(oldKey, name)
  PROVE  /\ new \in Seq(CreateIndexStmt)
         /\ IsSlice(new)
         /\ Len(new) = Len(Indexes)
         /\ normKeys(new) = normKeys(Indexes)
         /\ \A i \in 1..Len(Indexes) :
              new[i].TableName =
                IF normIdent(Indexes[i].TableName) = oldKey THEN name
                                                            ELSE Indexes[i].TableName
<1> DEFINE n == Len(Indexes)
<1>1. /\ n \in Nat /\ DOMAIN Indexes = 1..n
      /\ \A i \in 1..n : Indexes[i] \in CreateIndexStmt
  BY DEF IndexesOK
<1>2. ASSUME NEW i \in 1..n
      PROVE  /\ new[i] \in CreateIndexStmt
             /\ new[i].Name = Indexes[i].Name
             /\ new[i].TableName =
                  IF normIdent(Indexes[i].TableName) = oldKey THEN name
                                                              ELSE Indexes[i].TableName
  <2>1. Indexes[i] \in CreateIndexStmt
    BY <1>1
  <2>2. new[i] = IF normIdent(Indexes[i].TableName) = oldKey
                   THEN [Indexes[i] EXCEPT !.TableName = name] ELSE Indexes[i]
    BY <1>1 DEF moveIndexes
  <2> DEFINE e == Indexes[i]
  <2> HIDE DEF e
  <2>3. e \in CreateIndexStmt
    BY <2>1 DEF e
  <2>4. /\ [e EXCEPT !.TableName = name] \in CreateIndexStmt
        /\ [e EXCEPT !.TableName = name].Name = e.Name
        /\ [e EXCEPT !.TableName = name].TableName = name
    BY <2>3 DEF CreateIndexStmt
  <2> QED
    BY <2>1, <2>2, <2>4 DEF e
<1>3. new \in [1..n -> CreateIndexStmt]
  <2>1. DOMAIN new = 1..n /\ new = [i \in 1..n |-> new[i]]
    BY <1>1 DEF moveIndexes
  <2> QED
    BY <1>2, <2>1
<1>4. new \in Seq(CreateIndexStmt) /\ Len(new) = n
  BY <1>1, <1>3
<1>5. normKeys(new) = normKeys(Indexes)
  BY <1>1, <1>2, <1>3 DEF normKeys
<1> QED
  BY <1>2, <1>4, <1>5, SeqIsSlice

(* ALTER TABLE ... RENAME TO.                                              *)
LEMMA RenameTableStep ==
  ASSUME TableInv, NEW v \in RenameTableStmt, applyRenameTo(v)
  PROVE  /\ TableInv'
         /\ TableFull /\ ~ IsTable(v.NewName) => TableFull'
         /\ IndexesOnTables => IndexesOnTables'
         /\ NamesDistinct => NamesDistinct'
<1> DEFINE oldKey == normIdent(v.TableName)
           newKey == normIdent(v.NewName)
           idx == tableIndex[oldKey]
           t == Tables[idx]
           new == [ReplaceSelfReference(t, v.NewName) EXCEPT !.Name = v.NewName]
<1>1. CASE RefuseTable
  BY <1>1, TableRefused DEF Kept, RefuseTable, NamesDistinct
<1>2. CASE /\ oldKey \in DOMAIN tableIndex
           /\ Tables' = [Tables EXCEPT ![idx] = new]
           /\ tableIndex' = Put(Delete(tableIndex, oldKey), newKey, idx)
           /\ Indexes' = moveIndexes(oldKey, v.NewName)
           /\ UNCHANGED <<indexIndex, truncVars, objOnlyVars>>
           /\ Succeed
  <2>1. IsSlice(Tables) /\ IsMap(tableIndex) /\ Sound(tableIndex, normKeys(Tables))
    BY DEF TableInv, TablesOK, Keyed
  <2>2. idx \in 1..Len(Tables) /\ IsTableDef(t)
    BY <1>2, <2>1, KeyedDrop DEF TableInv, TablesOK
  <2>3. v.NewName \in Token
    BY DEF RenameTableStmt
  <2>4. /\ IsTableDef(new) /\ new.Name = v.NewName
        /\ DistinctParts(t) => DistinctParts(new)
    BY <2>2, <2>3, RenamedTable
  <2>5. Tables' = Replaced(Tables, idx, new)
    BY <1>2, <2>1, <2>2, SliceWithin DEF Replaced
  <2> HIDE DEF new
  <2>6. /\ IsSlice(Tables') /\ Sound(tableIndex', normKeys(Tables'))
        /\ Found(Tables, tableIndex) /\ ~ IsTable(v.NewName) => Found(Tables, tableIndex)'
    <3>1. /\ tableIndex' = Put(Delete(tableIndex, oldKey), normIdent(new.Name), tableIndex[oldKey])
          /\ Tables' = Replaced(Tables, tableIndex[oldKey], new)
          /\ oldKey \in DOMAIN tableIndex
      BY <1>2, <2>4, <2>5
    <3>2. ~ IsTable(v.NewName) => normIdent(new.Name) \notin DOMAIN tableIndex \ {oldKey}
      BY <2>4 DEF IsTable
    <3> HIDE DEF oldKey
    <3>3. IsSlice(Tables') /\ Sound(tableIndex', normKeys(Tables'))
      BY <2>1, <3>1, KeyedRename
    <3>4. ASSUME Found(Tables, tableIndex), ~ IsTable(v.NewName)
          PROVE  Complete(tableIndex', normKeys(Tables'))
      <4>1. Complete(tableIndex, normKeys(Tables))
        BY <3>4 DEF Found
      <4>2. normIdent(new.Name) \notin DOMAIN tableIndex \ {oldKey}
        BY <3>2, <3>4
      <4> QED
        BY <2>1, <3>1, <4>1, <4>2, KeyedRename
    <3> QED
      BY <3>3, <3>4 DEF Found
  <2>7. IsMap(tableIndex')
    BY <1>2, <2>1, RekeyIsMap
  <2>8. \A i \in 1..Len(Tables') : IsTableDef(Tables'[i])
    BY <2>1, <2>2, <2>4, <2>5, SliceReplace DEF TableInv, TablesOK
  <2>9. /\ Indexes' \in Seq(CreateIndexStmt) /\ IsSlice(Indexes')
        /\ normKeys(Indexes') = normKeys(Indexes) /\ Len(Indexes') = Len(Indexes)
        /\ \A i \in 1..Len(Indexes) :
             Indexes'[i].TableName =
               IF normIdent(Indexes[i].TableName) = oldKey THEN v.NewName
                                                           ELSE Indexes[i].TableName
    BY <1>2, <2>3, MoveIndexesFacts DEF TableInv
  <2>10. IndexesOK' /\ (Found(Indexes, indexIndex) => Found(Indexes, indexIndex)')
    BY <1>2, <2>9 DEF TableInv, IndexesOK, Keyed, Found
  <2>11. newKey \in DOMAIN tableIndex' /\ DOMAIN tableIndex \ {oldKey} \subseteq DOMAIN tableIndex'
    BY <1>2 DEF Put, Delete
  <2>12. IndexesOnTables => IndexesOnTables'
    BY <2>9, <2>11 DEF IndexesOnTables, IsTable
  <2>13. failed' \in BOOLEAN /\ UNCHANGED truncVars /\ UNCHANGED objOnlyVars
    BY <1>2 DEF Succeed, TableInv, ObjInv
  <2>14. NamesDistinct => NamesDistinct'
    <3>1. idx \in DOMAIN Tables
      BY <2>1, <2>2, SliceWithin
    <3> QED
      BY <2>1, <2>2, <2>4, <2>5, <3>1, TablesReplaced DEF NamesDistinct
  <2> QED
    BY <2>6, <2>7, <2>8, <2>10, <2>12, <2>13, <2>14, ObjectsKept, TruncatesKept
    DEF TableInv, TableFull, TablesOK, Keyed
<1> QED
  BY <1>1, <1>2 DEF applyRenameTo

(* A slice all of whose elements are of a type is a sequence of that type. *)
LEMMA SliceTyped ==
  ASSUME NEW s, IsSlice(s), NEW E, \A i \in 1..Len(s) : s[i] \in E
  PROVE  s \in Seq(E)
<1>1. s \in [1..Len(s) -> Range(s)] /\ Len(s) \in Nat
  BY SliceWithin
<1>2. s \in [1..Len(s) -> E]
  BY <1>1
<1> QED
  BY <1>1, <1>2

(* DROP TABLE, refused half way through its list or not.                   *)
LEMMA DropTableStep ==
  ASSUME TableInv, NEW v \in DropTableStmt, applyDropTable(v)
  PROVE  /\ Kept
         /\ TableFull =>
              /\ DOMAIN tableIndex' \subseteq DOMAIN tableIndex
              /\ \A k, l \in DOMAIN tableIndex' :
                   tableIndex[k] < tableIndex[l] => tableIndex'[k] < tableIndex'[l]
         /\ \A i \in 1..Len(Indexes') : \E j \in 1..Len(Indexes) : Indexes'[i] = Indexes[j]
         /\ NamesDistinct => NamesDistinct'
<1> DEFINE s == [Tables |-> Tables, tableIndex |-> tableIndex,
                 Indexes |-> Indexes, indexIndex |-> indexIndex,
                 Objects |-> Objects, objectIdx |-> objectIdx, refused |-> FALSE]
           t == dropTables(s, v.TableNames, v.IfExists)[Len(v.TableNames)]
<1>1. /\ s.Tables = Tables /\ s.tableIndex = tableIndex
      /\ s.Indexes = Indexes /\ s.indexIndex = indexIndex
      /\ s.Objects = Objects /\ s.objectIdx = objectIdx
      /\ IsDropState(s)
  BY DEF IsDropState
<1>2. /\ t.Tables = Tables' /\ t.tableIndex = tableIndex'
      /\ t.Indexes = Indexes' /\ t.indexIndex = indexIndex'
      /\ t.Objects = Objects' /\ t.objectIdx = objectIdx'
      /\ failed' \in BOOLEAN /\ UNCHANGED truncVars /\ UNCHANGED Unknowns
  BY DEF applyDropTable, Refused, Succeed, TableInv, ObjInv
<1>3. v.TableNames \in Seq(Token)
  BY TableAssumption DEF DropTableStmt
<1> HIDE DEF s
<1>4. DropOK(s)
  BY <1>1 DEF DropOK, TableInv, TablesOK, IndexesOK, Keyed, ObjInv, ObjectIndexSound,
              objKeys, IsMap
<1>5. /\ DropOK(t)
      /\ Leaves(s, t)
      /\ DropFull(s) => DropFull(t) /\ OrderLeft(s, t)
  BY <1>3, <1>4, DropTablesKeeps
<1> HIDE DEF t
<1>6. /\ \A p \in 1..Len(Tables') : \E q \in 1..Len(Tables) : Tables'[p] = Tables[q]
      /\ \A p \in 1..Len(Indexes') : \E q \in 1..Len(Indexes) : Indexes'[p] = Indexes[q]
      /\ Housed(s) => Housed(t)
  BY <1>1, <1>2, <1>5 DEF Leaves
<1>7. TablesOK'
  <2>1. Keyed(Tables', tableIndex')
    BY <1>2, <1>5 DEF DropOK
  <2>2. \A p \in 1..Len(Tables') : IsTableDef(Tables'[p])
    BY <1>6 DEF TableInv, TablesOK
  <2> QED
    BY <2>1, <2>2 DEF TablesOK, Keyed
<1>8. IndexesOK'
  <2>1. Keyed(Indexes', indexIndex')
    BY <1>2, <1>5 DEF DropOK
  <2>2. \A q \in 1..Len(Indexes) : Indexes[q] \in CreateIndexStmt
    BY DEF TableInv, IndexesOK
  <2>3. \A p \in 1..Len(Indexes') : Indexes'[p] \in CreateIndexStmt
    BY <1>6, <2>2
  <2>4. Indexes' \in Seq(CreateIndexStmt)
    BY <2>1, <2>3, SliceTyped DEF Keyed
  <2> QED
    BY <2>1, <2>4 DEF IndexesOK, Keyed
<1>9. ObjInv'
  BY <1>2, <1>5 DEF DropOK, TableInv, ObjInv, ObjectIndexSound, objKeys, IsMap
<1>10. TableInv'
  BY <1>2, <1>7, <1>8, <1>9, TruncatesKept DEF TableInv
<1>11. TableFull => DropFull(s)
  BY <1>1 DEF TableFull, DropFull, Found, ObjComplete, objKeys
<1>12. DropFull(t) => TableFull'
  BY <1>2 DEF TableFull, DropFull, Found, ObjComplete, objKeys
<1>13. IndexesOnTables => IndexesOnTables'
  <2>1. IndexesOnTables => Housed(s)
    BY <1>1 DEF IndexesOnTables, Housed, IsTable
  <2>2. Housed(t) => IndexesOnTables'
    BY <1>2 DEF IndexesOnTables, Housed, IsTable
  <2> QED
    BY <1>6, <2>1, <2>2
<1>14. NamesDistinct => NamesDistinct'
  <2>1. DOMAIN Tables = 1..Len(Tables)
    BY SliceWithin DEF TableInv, TablesOK, Keyed
  <2>2. DOMAIN Tables' = 1..Len(Tables')
    BY <1>7, SliceWithin DEF TablesOK, Keyed
  <2> QED
    BY <1>6, <2>1, <2>2 DEF NamesDistinct
<1> QED
  BY <1>1, <1>2, <1>5, <1>6, <1>10, <1>11, <1>12, <1>13, <1>14 DEF Kept, OrderLeft

(* CREATE INDEX: skipped, in place of an index of that name, or at the end. *)
LEMMA CreateIndexStep ==
  ASSUME TableInv, NEW v \in CreateIndexStmt, applyCreateIndex(v)
  PROVE  /\ TableInv'
         /\ TableFull => TableFull'
         /\ IndexesOnTables /\ IsTable(v.TableName) => IndexesOnTables'
<1> DEFINE key == normIdent(v.Name)
<1>0. IsSlice(Indexes) /\ IsMap(indexIndex) /\ Sound(indexIndex, normKeys(Indexes))
        /\ Indexes \in Seq(CreateIndexStmt) /\ Len(Indexes) \in Nat
  BY SliceWithin DEF TableInv, IndexesOK, Keyed
<1>1. ASSUME UNCHANGED <<Tables, tableIndex, truncVars, objOnlyVars>>, Succeed,
             IndexesOK', Found(Indexes, indexIndex) => Found(Indexes, indexIndex)'
      PROVE  TableInv' /\ (TableFull => TableFull')
  <2>1. UNCHANGED tableOnlyVars /\ UNCHANGED truncVars /\ UNCHANGED objOnlyVars
          /\ failed' \in BOOLEAN
    BY <1>1 DEF tableOnlyVars, Succeed, TableInv, ObjInv
  <2> QED
    BY <1>1, <2>1, TablesKept, ObjectsKept, TruncatesKept DEF TableInv, TableFull
<1>2. CASE UNCHANGED tableVars
  BY <1>2, TableSkipped DEF Kept
<1>3. CASE /\ key \in DOMAIN indexIndex
           /\ Indexes' = [Indexes EXCEPT ![indexIndex[key]] = v]
           /\ UNCHANGED <<Tables, tableIndex, indexIndex, truncVars, objOnlyVars>>
           /\ Succeed
  <2> DEFINE p == indexIndex[key]
  <2>1. p \in 1..Len(Indexes) /\ normKeys(Indexes)[p] = key
    BY <1>0, <1>3, KeyedDrop DEF Sound
  <2>2. Indexes' = Replaced(Indexes, p, v)
    BY <1>3 DEF Replaced
  <2> HIDE DEF p
  <2>3. normIdent(v.Name) = normIdent(Indexes[p].Name)
    BY <1>0, <2>1, SliceKeys
  <2>4. IsSlice(Indexes') /\ normKeys(Indexes') = normKeys(Indexes)
    BY <1>0, <2>1, <2>2, <2>3, KeyedKeep
  <2>5. Indexes' \in Seq(CreateIndexStmt) /\ Len(Indexes') = Len(Indexes)
          /\ \A i \in 1..Len(Indexes) : Indexes'[i] = IF i = p THEN v ELSE Indexes[i]
    BY <1>0, <2>2, ReplacedFacts
  <2>6. IndexesOK' /\ (Found(Indexes, indexIndex) => Found(Indexes, indexIndex)')
    BY <1>0, <1>3, <2>4, <2>5 DEF IndexesOK, Keyed, Found
  <2>7. IndexesOnTables /\ IsTable(v.TableName) => IndexesOnTables'
    BY <1>3, <2>5 DEF IndexesOnTables, IsTable
  <2> QED
    BY <1>1, <1>3, <2>6, <2>7
<1>4. CASE /\ key \notin DOMAIN indexIndex
           /\ indexIndex' = Put(indexIndex, key, Len(Indexes) + 1)
           /\ Indexes' = Append(Indexes, v)
           /\ UNCHANGED <<Tables, tableIndex, truncVars, objOnlyVars>>
           /\ Succeed
  <2>1. /\ IsSlice(Indexes') /\ Sound(indexIndex', normKeys(Indexes'))
        /\ Found(Indexes, indexIndex) => Found(Indexes, indexIndex)'
    BY <1>0, <1>4, KeyedCreate DEF Found
  <2>2. IsMap(indexIndex')
    BY <1>0, <1>4, PutIsMap
  <2>3. Indexes' \in Seq(CreateIndexStmt)
    BY <1>0, <1>4
  <2>4. IndexesOK'
    BY <2>1, <2>2, <2>3 DEF IndexesOK, Keyed
  <2>5. IndexesOnTables /\ IsTable(v.TableName) => IndexesOnTables'
    BY <1>0, <1>4, SliceAppend DEF IndexesOnTables, IsTable
  <2> QED
    BY <1>1, <1>4, <2>1, <2>4, <2>5
<1> QED
  BY <1>2, <1>3, <1>4 DEF applyCreateIndex

(* DROP INDEX.                                                             *)
LEMMA DropIndexStep ==
  ASSUME TableInv, NEW v \in DropIndexStmt, applyDropIndex(v)
  PROVE  /\ Kept
         /\ tableIndex' = tableIndex
         /\ \A i \in 1..Len(Indexes') : \E j \in 1..Len(Indexes) : Indexes'[i] = Indexes[j]
<1> DEFINE key == normIdent(v.IndexName)
           idx == indexIndex[key]
<1>0. IsSlice(Indexes) /\ IsMap(indexIndex) /\ Sound(indexIndex, normKeys(Indexes))
        /\ Indexes \in Seq(CreateIndexStmt) /\ Len(Indexes) \in Nat
  BY SliceWithin DEF TableInv, IndexesOK, Keyed
<1>1. CASE UNCHANGED tableVars
  BY <1>1, TableSkipped DEF tableVars
<1>2. CASE RefuseIndex
  BY <1>2, TableRefused DEF RefuseIndex, RefuseTable, indexVars
<1>3. CASE /\ key \in DOMAIN indexIndex
           /\ Indexes' = RemoveAt(Indexes, idx)
           /\ indexIndex' = Reindex(Delete(indexIndex, key), RemoveAt(indexKeys, idx), idx)
           /\ UNCHANGED <<Tables, tableIndex, truncVars, objOnlyVars>>
           /\ Succeed
  <2>1. /\ idx \in 1..Len(Indexes)
        /\ IsSlice(Indexes')
        /\ normKeys(Indexes') = RemoveAt(normKeys(Indexes), idx)
        /\ Sound(Reindex(Delete(indexIndex, key), normKeys(Indexes'), idx), normKeys(Indexes'))
        /\ Complete(indexIndex, normKeys(Indexes)) =>
             Complete(Reindex(Delete(indexIndex, key), normKeys(Indexes'), idx),
                      normKeys(Indexes'))
    <3> HIDE DEF key
    <3> QED
      BY <1>0, <1>3, KeyedDrop
  <2>2. indexIndex' = Reindex(Delete(indexIndex, key), normKeys(Indexes'), idx)
    BY <1>3, <2>1 DEF indexKeys
  <2>3. Indexes' \in Seq(CreateIndexStmt) /\ Len(Indexes') \in Nat
          /\ \A i \in 1..Len(Indexes') : \E j \in 1..Len(Indexes) : Indexes'[i] = Indexes[j]
    <3> HIDE DEF idx
    <3>1. /\ Indexes' \in Seq(CreateIndexStmt) /\ Len(Indexes') = Len(Indexes) - 1
          /\ \A i \in 1..(Len(Indexes) - 1) :
               Indexes'[i] = IF i < idx THEN Indexes[i] ELSE Indexes[i + 1]
      BY <1>0, <1>3, <2>1, RemoveAtFacts
    <3> QED
      BY <1>0, <3>1
  <2>4. IsMap(indexIndex')
    <3>1. Len(normKeys(Indexes')) \in Nat /\ idx \in Nat
      BY <1>0, <2>1, SliceKeys
    <3> QED
      BY <2>1, <2>2, <3>1, ReindexIsFunction DEF IsMap
  <2>5. IndexesOK' /\ (Found(Indexes, indexIndex) => Found(Indexes, indexIndex)')
    BY <2>1, <2>2, <2>3, <2>4 DEF IndexesOK, Keyed, Found
  <2>6. IndexesOnTables => IndexesOnTables'
    BY <1>3, <2>3 DEF IndexesOnTables, IsTable
  <2>7. UNCHANGED tableOnlyVars /\ UNCHANGED truncVars /\ UNCHANGED objOnlyVars
          /\ failed' \in BOOLEAN
    BY <1>3 DEF tableOnlyVars, Succeed, TableInv, ObjInv
  <2> QED
    BY <1>3, <2>3, <2>5, <2>6, <2>7, TablesKept, ObjectsKept, TruncatesKept
    DEF Kept, TableInv, TableFull
<1> QED
  BY <1>1, <1>2, <1>3 DEF applyDropIndex

(* ALTER INDEX ... RENAME TO.                                              *)
LEMMA RenameIndexStep ==
  ASSUME TableInv, NEW v \in AlterIndexStmt, applyAlterIndex(v)
  PROVE  /\ TableInv'
         /\ TableFull /\ IndexNameFree(v.NewName) => TableFull'
         /\ IndexesOnTables => IndexesOnTables'
<1> DEFINE oldKey == normIdent(v.IndexName)
           idx == indexIndex[oldKey]
           new == [Indexes[idx] EXCEPT !.Name = v.NewName]
<1>0. IsSlice(Indexes) /\ IsMap(indexIndex) /\ Sound(indexIndex, normKeys(Indexes))
        /\ Indexes \in Seq(CreateIndexStmt) /\ Len(Indexes) \in Nat
  BY SliceWithin DEF TableInv, IndexesOK, Keyed
<1>1. CASE RefuseIndex
  BY <1>1, TableRefused DEF RefuseIndex, Kept
<1>2. CASE /\ oldKey \in DOMAIN indexIndex
           /\ Indexes' = [Indexes EXCEPT ![idx].Name = v.NewName]
           /\ indexIndex' = Put(Delete(indexIndex, oldKey), normIdent(v.NewName), idx)
           /\ UNCHANGED <<Tables, tableIndex, truncVars, objOnlyVars>>
           /\ Succeed
  <2>1. idx \in 1..Len(Indexes) /\ Indexes[idx] \in CreateIndexStmt
    BY <1>0, <1>2, KeyedDrop
  <2>2. v.NewName \in IndexToken
    BY DEF AlterIndexStmt
  <2>3. /\ new \in CreateIndexStmt /\ new.Name = v.NewName
        /\ new.TableName = Indexes[idx].TableName
    <3> DEFINE e == Indexes[idx]
    <3> HIDE DEF e
    <3>1. e \in CreateIndexStmt
      BY <2>1 DEF e
    <3>2. /\ [e EXCEPT !.Name = v.NewName] \in CreateIndexStmt
          /\ [e EXCEPT !.Name = v.NewName].Name = v.NewName
          /\ [e EXCEPT !.Name = v.NewName].TableName = e.TableName
      BY <2>2, <3>1 DEF CreateIndexStmt
    <3> QED
      BY <3>2 DEF e
  <2>4. Indexes' = Replaced(Indexes, idx, new)
    BY <1>2 DEF Replaced
  <2> HIDE DEF new
  <2>5. /\ indexIndex' = Put(Delete(indexIndex, oldKey), normIdent(new.Name), indexIndex[oldKey])
        /\ Indexes' = Replaced(Indexes, indexIndex[oldKey], new)
        /\ oldKey \in DOMAIN indexIndex
    BY <1>2, <2>3, <2>4
  <2>6. IndexNameFree(v.NewName) => normIdent(new.Name) \notin DOMAIN indexIndex \ {oldKey}
    BY <2>3 DEF IndexNameFree
  <2>7. IsSlice(Indexes') /\ Sound(indexIndex', normKeys(Indexes'))
    <3> HIDE DEF oldKey
    <3> QED
      BY <1>0, <2>5, KeyedRename
  <2>8. ASSUME Found(Indexes, indexIndex), IndexNameFree(v.NewName)
        PROVE  Complete(indexIndex', normKeys(Indexes'))
    <3>1. Complete(indexIndex, normKeys(Indexes))
      BY <2>8 DEF Found
    <3>2. normIdent(new.Name) \notin DOMAIN indexIndex \ {oldKey}
      BY <2>6, <2>8
    <3> HIDE DEF oldKey
    <3> QED
      BY <1>0, <2>5, <3>1, <3>2, KeyedRename
  <2>9. IsMap(indexIndex')
    BY <1>0, <1>2, RekeyIsMap
  <2>10. Indexes' \in Seq(CreateIndexStmt) /\ Len(Indexes') = Len(Indexes)
          /\ \A i \in 1..Len(Indexes) : Indexes'[i] = IF i = idx THEN new ELSE Indexes[i]
    <3> HIDE DEF idx
    <3> QED
      BY <1>0, <2>3, <2>4, ReplacedFacts
  <2>11. IndexesOK'
    BY <2>7, <2>9, <2>10 DEF IndexesOK, Keyed
  <2>12. IndexesOnTables => IndexesOnTables'
    BY <1>2, <2>1, <2>3, <2>10 DEF IndexesOnTables, IsTable
  <2>13. UNCHANGED tableOnlyVars /\ UNCHANGED truncVars /\ UNCHANGED objOnlyVars
          /\ failed' \in BOOLEAN
    BY <1>2 DEF tableOnlyVars, Succeed, TableInv, ObjInv
  <2> QED
    BY <2>8, <2>11, <2>12, <2>13, TablesKept, ObjectsKept, TruncatesKept
    DEF TableInv, TableFull, Found
<1> QED
  BY <1>1, <1>2 DEF applyAlterIndex

(* TRUNCATE concerns no other slice.                                       *)
LEMMA TruncateStep ==
  ASSUME TableInv, NEW v \in TruncateStmt, applyTruncate(v)
  PROVE  Kept /\ UNCHANGED tableOnlyVars /\ UNCHANGED indexVars
<1>1. UNCHANGED tableOnlyVars /\ UNCHANGED indexVars /\ UNCHANGED objOnlyVars
        /\ failed' \in BOOLEAN
  BY DEF applyTruncate, tableOnlyVars, Succeed, TableInv, ObjInv
<1>2. Truncates \in Seq(TruncateStmt) /\ IsMap(truncateIdx) /\ Len(Truncates) + 1 \in Nat
  BY DEF TableInv, TruncatesOK
<1>3. TruncatesOK'
  <2>1. CASE /\ Truncates' = [Truncates EXCEPT ![truncateIdx[truncateKey(v)]] = v]
             /\ UNCHANGED truncateIdx
    BY <1>2, <2>1, ReplacedFacts DEF TruncatesOK, Replaced
  <2>2. CASE /\ truncateIdx' = Put(truncateIdx, truncateKey(v), Len(Truncates) + 1)
             /\ Truncates' = Append(Truncates, v)
    BY <1>2, <2>2, PutIsMap DEF TruncatesOK
  <2> QED
    BY <2>1, <2>2 DEF applyTruncate
<1>4. IndexesOnTables => IndexesOnTables'
  BY <1>1 DEF IndexesOnTables, IsTable, tableOnlyVars, indexVars
<1> QED
  BY <1>1, <1>3, <1>4, ObjectsKept, TablesKept, IndexesKept DEF Kept, TableInv, TableFull

(* The empty schema.                                                       *)
LEMMA TableInitFacts ==
  ASSUME TableInit
  PROVE  TableInv /\ TableFull /\ IndexesOnTables
<1> DEFINE none == [k \in {} |-> 0]
<1>1. /\ ObjInit
      /\ Tables = <<>> /\ tableIndex = none
      /\ Indexes = <<>> /\ indexIndex = none
      /\ Truncates = <<>> /\ truncateIdx = none
  BY DEF TableInit
<1>2. IsMap(none) /\ DOMAIN none = {}
  BY DEF IsMap
<1>3. /\ <<>> \in Seq(CreateIndexStmt) /\ <<>> \in Seq(TruncateStmt)
      /\ Len(<<>>) = 0 /\ IsSlice(<<>>)
  <2>1. <<>> \in Seq({}) /\ <<>> \in Seq(CreateIndexStmt) /\ <<>> \in Seq(TruncateStmt)
          /\ Len(<<>>) = 0
    OBVIOUS
  <2> QED
    BY <2>1, SeqIsSlice
<1>4. Len(normKeys(<<>>)) = 0
  BY <1>3, SliceKeys
<1> HIDE DEF none
<1>5. Keyed(<<>>, none) /\ Found(<<>>, none)
  BY <1>2, <1>3, <1>4 DEF Keyed, Found, Sound, Complete
<1>6. ObjInv /\ ObjComplete
  BY <1>1, ObjInitFacts
<1> QED
  BY <1>1, <1>2, <1>3, <1>5, <1>6
  DEF TableInv, TableFull, TablesOK, IndexesOK, TruncatesOK, IndexesOnTables

-----------------------------------------------------------------------------
(* Any step of any history.                                                *)
LEMMA TableStep ==
  ASSUME TableInv, [TableNext]_tableVars
  PROVE  TableInv'
<1>1. CASE CreateTable
  BY <1>1, CreateTableStep DEF CreateTable, Kept
<1>2. CASE CreatePartition
  BY <1>2, CreatePartitionStep DEF CreatePartition, Kept
<1>3. CASE AlterTable
  BY <1>3, AlterTableStep DEF AlterTable, Kept
<1>4. CASE RenameTable
  BY <1>4, RenameTableStep DEF RenameTable
<1>5. CASE DropTable
  BY <1>5, DropTableStep DEF DropTable, Kept
<1>6. CASE CreateIndex
  BY <1>6, CreateIndexStep DEF CreateIndex
<1>7. CASE DropIndex
  BY <1>7, DropIndexStep DEF DropIndex, Kept
<1>8. CASE RenameIndex
  BY <1>8, RenameIndexStep DEF RenameIndex
<1>9. CASE Truncate
  BY <1>9, TruncateStep DEF Truncate, Kept
<1>10. CASE UNCHANGED tableVars
  BY <1>10, TableSkipped DEF Kept
<1> QED
  BY <1>1, <1>2, <1>3, <1>4, <1>5, <1>6, <1>7, <1>8, <1>9, <1>10 DEF TableNext

(* A step of a history PostgreSQL accepts is one of any history, and it    *)
(* keeps everything findable and every index on a table.                   *)
LEMMA TableLegalStep ==
  ASSUME TableInv, [TableLegalNext]_tableVars
  PROVE  Kept
<1>1. CASE CreateTableLegally
  BY <1>1, CreateTableStep DEF CreateTableLegally
<1>2. CASE CreatePartitionLegally
  BY <1>2, CreatePartitionStep DEF CreatePartitionLegally
<1>3. CASE AlterTableLegally
  BY <1>3, AlterTableStep DEF AlterTableLegally
<1>4. CASE RenameTableLegally
  BY <1>4, RenameTableStep DEF RenameTableLegally, NameFree, Kept
<1>5. CASE DropTableLegally
  BY <1>5, DropTableStep DEF DropTableLegally
<1>6. CASE CreateIndexLegally
  BY <1>6, CreateIndexStep DEF CreateIndexLegally, Kept
<1>7. CASE DropIndex
  BY <1>7, DropIndexStep DEF DropIndex
<1>8. CASE RenameIndexLegally
  BY <1>8, RenameIndexStep DEF RenameIndexLegally, Kept
<1>9. CASE TruncateLegally
  BY <1>9, TruncateStep DEF TruncateLegally
<1>10. CASE UNCHANGED tableVars
  BY <1>10, TableSkipped
<1> QED
  BY <1>1, <1>2, <1>3, <1>4, <1>5, <1>6, <1>7, <1>8, <1>9, <1>10 DEF TableLegalNext

(* What the invariant says of the properties the runs check.               *)
LEMMA TableInvMeaning ==
  ASSUME TableInv
  PROVE  /\ TableMapsSound
         /\ TableFull => TableMapsCoherent
         /\ IndexesOnTables => IndexesHaveTables
<1>1. DOMAIN Indexes = 1..Len(Indexes)
  BY SliceWithin DEF TableInv, IndexesOK, Keyed
<1>2. TableMapsSound
  BY DEF TableInv, TablesOK, IndexesOK, Keyed, ObjInv, ObjectIndexSound,
         TableMapsSound, tableKeys, indexKeys
<1> QED
  BY <1>1, <1>2 DEF TableFull, Found, ObjComplete, TableMapsSound, TableMapsCoherent, Coherent,
                    tableKeys, indexKeys, IndexesOnTables, IndexesHaveTables

-----------------------------------------------------------------------------
(* Whatever statements come, also ones PostgreSQL would refuse, and also   *)
(* after a DROP TABLE that failed half way: no lookup reaches past a slice *)
(* or returns another table, index or object than the one asked for.       *)
THEOREM TableMapsAlwaysSound ==
  TableSpec => []TableMapsSound
<1>1. TableInit => TableInv
  BY TableInitFacts
<1>2. TableInv /\ [TableNext]_tableVars => TableInv'
  BY TableStep
<1>3. TableInv => TableMapsSound
  BY TableInvMeaning
<1> QED
  BY <1>1, <1>2, <1>3, PTL DEF TableSpec

(* Of a history PostgreSQL accepts: every table, index and partition that  *)
(* is emitted can be found, altered and dropped under its name.            *)
THEOREM TableMapsAlwaysCoherent ==
  TableLegalSpec => []TableMapsCoherent
<1>1. TableInit => TableInv /\ TableFull
  BY TableInitFacts
<1>2. TableInv /\ TableFull /\ [TableLegalNext]_tableVars => (TableInv /\ TableFull)'
  BY TableLegalStep DEF Kept
<1>3. TableInv /\ TableFull => TableMapsCoherent
  BY TableInvMeaning
<1> QED
  BY <1>1, <1>2, <1>3, PTL DEF TableLegalSpec

(* ... and no CREATE INDEX is emitted for a table that is not.  The        *)
(* invariant is stronger: the index is on a table, never on a partition,   *)
(* since a DROP TABLE of a partition leaves the indexes alone.             *)
THEOREM IndexesAlwaysHaveTables ==
  TableLegalSpec => []IndexesHaveTables
<1>1. TableInit => TableInv /\ IndexesOnTables
  BY TableInitFacts
<1>2. TableInv /\ IndexesOnTables /\ [TableLegalNext]_tableVars
        => (TableInv /\ IndexesOnTables)'
  BY TableLegalStep DEF Kept
<1>3. TableInv /\ IndexesOnTables => IndexesHaveTables
  BY TableInvMeaning
<1> QED
  BY <1>1, <1>2, <1>3, PTL DEF TableLegalSpec

-----------------------------------------------------------------------------
(* The two action properties.  First the tables: who is before whom.       *)
OrderStays ==
  \A k, l \in DOMAIN tableIndex \cap DOMAIN tableIndex' :
    tableIndex[k] < tableIndex[l] => tableIndex'[k] < tableIndex'[l]

(* No handler moves a table past another one.                              *)
LEMMA OrderStep ==
  ASSUME TableInv, TableFull, [TableLegalNext]_tableVars
  PROVE  OrderStays
<1>1. ASSUME tableIndex' = tableIndex PROVE OrderStays
  BY <1>1 DEF OrderStays
<1>2. CASE CreateTableLegally
  <2>1. PICK v \in CreateTableStmt : applyCreateTable(v)
    BY <1>2 DEF CreateTableLegally
  <2> DEFINE key == normIdent(v.Name)
  <2>2. CASE RefuseTable
    BY <1>1, <2>2 DEF RefuseTable
  <2>3. CASE key \notin DOMAIN tableIndex /\ tableIndex' = Put(tableIndex, key, Len(Tables) + 1)
    BY <2>3 DEF OrderStays, Put
  <2> QED
    BY <2>1, <2>2, <2>3 DEF applyCreateTable
<1>3. CASE CreatePartitionLegally
  BY <1>1, <1>3 DEF CreatePartitionLegally, createPartition
<1>4. CASE AlterTableLegally
  BY <1>1, <1>4, AlterTableStep DEF AlterTableLegally
<1>5. CASE RenameTableLegally
  <2>1. PICK v \in RenameTableStmt : ~ IsTable(v.NewName) /\ applyRenameTo(v)
    BY <1>5 DEF RenameTableLegally, NameFree
  <2> DEFINE oldKey == normIdent(v.TableName)
             newKey == normIdent(v.NewName)
  <2>2. CASE RefuseTable
    BY <1>1, <2>2 DEF RefuseTable
  <2>3. CASE /\ oldKey \in DOMAIN tableIndex
             /\ tableIndex' = Put(Delete(tableIndex, oldKey), newKey, tableIndex[oldKey])
    BY <2>1, <2>3 DEF OrderStays, IsTable, Put, Delete
  <2> QED
    BY <2>1, <2>2, <2>3 DEF applyRenameTo
<1>6. CASE DropTableLegally
  BY <1>6, DropTableStep DEF DropTableLegally, OrderStays
<1>7. CASE CreateIndexLegally
  BY <1>1, <1>7 DEF CreateIndexLegally, applyCreateIndex, tableVars
<1>8. CASE DropIndex
  BY <1>1, <1>8, DropIndexStep DEF DropIndex
<1>9. CASE RenameIndexLegally
  BY <1>1, <1>9 DEF RenameIndexLegally, applyAlterIndex, RefuseIndex, RefuseTable
<1>10. CASE TruncateLegally
  BY <1>1, <1>10 DEF TruncateLegally, applyTruncate
<1>11. CASE UNCHANGED tableVars
  BY <1>1, <1>11 DEF tableVars
<1> QED
  BY <1>2, <1>3, <1>4, <1>5, <1>6, <1>7, <1>8, <1>9, <1>10, <1>11 DEF TableLegalNext

(* Then the indexes: which table each of them is on.                       *)
IndexesFollow ==
  \A k \in DOMAIN indexIndex \cap DOMAIN indexIndex' :
    LET old == normIdent(Indexes[indexIndex[k]].TableName)
        new == normIdent(Indexes'[indexIndex'[k]].TableName)
    IN  old # new =>
          /\ old \notin DOMAIN tableIndex'
          /\ new \in DOMAIN tableIndex' \ DOMAIN tableIndex
          /\ tableIndex'[new] = tableIndex[old]

(* An index that was there and is found again under its name is the same.  *)
LEMMA SameIndexes ==
  ASSUME IndexesOK, Found(Indexes, indexIndex), IndexesOK',
         \A i \in 1..Len(Indexes') : \E j \in 1..Len(Indexes) : Indexes'[i] = Indexes[j]
  PROVE  IndexesFollow
<1> SUFFICES ASSUME NEW k \in DOMAIN indexIndex \cap DOMAIN indexIndex'
             PROVE  Indexes'[indexIndex'[k]] = Indexes[indexIndex[k]]
  BY DEF IndexesFollow
<1> DEFINE i == indexIndex'[k]
<1>1. i \in 1..Len(Indexes') /\ normIdent(Indexes'[i].Name) = k
  <2>1. IsSlice(Indexes') /\ Sound(indexIndex', normKeys(Indexes'))
    BY DEF IndexesOK, Keyed
  <2>2. i \in 1..Len(normKeys(Indexes')) /\ normKeys(Indexes')[i] = k
    BY <2>1 DEF Sound
  <2> HIDE DEF i
  <2> QED
    BY <2>1, <2>2, SliceKeys
<1> HIDE DEF i
<1>2. PICK j \in 1..Len(Indexes) : Indexes'[i] = Indexes[j]
  BY <1>1
<1>3. j \in 1..Len(normKeys(Indexes)) /\ normKeys(Indexes)[j] = k
  BY <1>1, <1>2, SliceKeys DEF IndexesOK, Keyed
<1>4. indexIndex[k] = j
  BY <1>3 DEF Found, Complete
<1> QED
  BY <1>2, <1>4 DEF i

(* RENAME TO takes the indexes of the table along, and no others.          *)
LEMMA RenameTableFollow ==
  ASSUME TableInv, NEW v \in RenameTableStmt, applyRenameTo(v), ~ IsTable(v.NewName)
  PROVE  IndexesFollow
<1> DEFINE oldKey == normIdent(v.TableName)
           newKey == normIdent(v.NewName)
           idx == tableIndex[oldKey]
<1>1. CASE RefuseTable
  BY <1>1 DEF RefuseTable, indexVars, IndexesFollow
<1>2. CASE /\ oldKey \in DOMAIN tableIndex
           /\ tableIndex' = Put(Delete(tableIndex, oldKey), newKey, idx)
           /\ Indexes' = moveIndexes(oldKey, v.NewName)
           /\ UNCHANGED indexIndex
  <2>1. newKey \notin DOMAIN tableIndex /\ newKey # oldKey
    BY <1>2 DEF IsTable
  <2>2. /\ oldKey \notin DOMAIN tableIndex'
        /\ newKey \in DOMAIN tableIndex' \ DOMAIN tableIndex
        /\ tableIndex'[newKey] = tableIndex[oldKey]
    BY <1>2, <2>1 DEF Put, Delete
  <2>3. \A i \in 1..Len(Indexes) :
          Indexes'[i].TableName =
            IF normIdent(Indexes[i].TableName) = oldKey THEN v.NewName
                                                        ELSE Indexes[i].TableName
    BY <1>2, MoveIndexesFacts DEF TableInv, RenameTableStmt
  <2>4. ASSUME NEW k \in DOMAIN indexIndex PROVE indexIndex[k] \in 1..Len(Indexes)
    BY KeyedDrop DEF TableInv, IndexesOK, Keyed
  <2> QED
    BY <1>2, <2>2, <2>3, <2>4 DEF IndexesFollow
<1> QED
  BY <1>1, <1>2 DEF applyRenameTo

(* A new index changes none of those that are there.                       *)
LEMMA CreateIndexFollow ==
  ASSUME TableInv, NEW v \in CreateIndexStmt, applyCreateIndex(v),
         v.IfNotExists \/ IndexNameFree(v.Name)
  PROVE  IndexesFollow
<1> DEFINE key == normIdent(v.Name)
<1>1. CASE UNCHANGED tableVars
  BY <1>1 DEF tableVars, IndexesFollow
<1>2. CASE /\ key \notin DOMAIN indexIndex
           /\ indexIndex' = Put(indexIndex, key, Len(Indexes) + 1)
           /\ Indexes' = Append(Indexes, v)
  <2>1. IsSlice(Indexes) /\ Sound(indexIndex, normKeys(Indexes)) /\ Len(Indexes) \in Nat
    BY SliceWithin DEF TableInv, IndexesOK, Keyed
  <2>2. ASSUME NEW k \in DOMAIN indexIndex
        PROVE  Indexes'[indexIndex'[k]] = Indexes[indexIndex[k]]
    <3>1. indexIndex[k] \in 1..Len(Indexes) /\ indexIndex'[k] = indexIndex[k]
      BY <1>2, <2>1, KeyedDrop DEF Put
    <3> QED
      BY <1>2, <2>1, <3>1, SliceAppend
  <2> QED
    BY <2>2 DEF IndexesFollow
<1> QED
  BY <1>1, <1>2 DEF applyCreateIndex, IndexNameFree

(* An index that is renamed stays on its table.                            *)
LEMMA RenameIndexFollow ==
  ASSUME TableInv, NEW v \in AlterIndexStmt, applyAlterIndex(v), IndexNameFree(v.NewName)
  PROVE  IndexesFollow
<1> DEFINE oldKey == normIdent(v.IndexName)
           newKey == normIdent(v.NewName)
           idx == indexIndex[oldKey]
<1>1. CASE RefuseIndex
  BY <1>1 DEF RefuseIndex, RefuseTable, indexVars, IndexesFollow
<1>2. CASE /\ oldKey \in DOMAIN indexIndex
           /\ Indexes' = [Indexes EXCEPT ![idx].Name = v.NewName]
           /\ indexIndex' = Put(Delete(indexIndex, oldKey), newKey, idx)
  <2>1. newKey \notin DOMAIN indexIndex
    BY DEF IndexNameFree
  <2>2. ASSUME NEW k \in DOMAIN indexIndex \cap DOMAIN indexIndex'
        PROVE  /\ indexIndex'[k] = indexIndex[k]
               /\ indexIndex[k] # idx
               /\ indexIndex[k] \in DOMAIN Indexes
    <3>1. k # newKey /\ k # oldKey /\ indexIndex'[k] = indexIndex[k]
      BY <1>2, <2>1, <2>2 DEF Put, Delete
    <3>2. IsSlice(Indexes) /\ Sound(indexIndex, normKeys(Indexes))
      BY DEF TableInv, IndexesOK, Keyed
    <3>3. indexIndex[k] # idx
      BY <1>2, <3>1, <3>2 DEF Sound
    <3>4. indexIndex[k] \in 1..Len(Indexes) /\ DOMAIN Indexes = 1..Len(Indexes)
      BY <3>2, KeyedDrop, SliceWithin
    <3> QED
      BY <3>1, <3>3, <3>4
  <2>3. \A i \in DOMAIN Indexes : i # idx => Indexes'[i] = Indexes[i]
    BY <1>2
  <2> QED
    BY <2>2, <2>3 DEF IndexesFollow
<1> QED
  BY <1>1, <1>2 DEF applyAlterIndex

(* Every step, then.                                                       *)
LEMMA FollowStep ==
  ASSUME TableInv, TableFull, [TableLegalNext]_tableVars
  PROVE  IndexesFollow
<1>1. ASSUME UNCHANGED indexVars PROVE IndexesFollow
  BY <1>1 DEF IndexesFollow, indexVars
<1>2. TableInv' /\ IndexesOK /\ Found(Indexes, indexIndex)
  BY TableLegalStep DEF Kept, TableInv, TableFull
<1>3. CASE CreateTableLegally
  BY <1>1, <1>3 DEF CreateTableLegally, applyCreateTable, RefuseTable
<1>4. CASE CreatePartitionLegally
  BY <1>1, <1>4 DEF CreatePartitionLegally, createPartition
<1>5. CASE AlterTableLegally
  BY <1>1, <1>5, AlterTableStep DEF AlterTableLegally
<1>6. CASE RenameTableLegally
  BY <1>6, RenameTableFollow DEF RenameTableLegally, NameFree
<1>7. CASE DropTableLegally
  <2>1. \A i \in 1..Len(Indexes') : \E j \in 1..Len(Indexes) : Indexes'[i] = Indexes[j]
    BY <1>7, DropTableStep DEF DropTableLegally
  <2> QED
    BY <1>2, <2>1, SameIndexes DEF TableInv
<1>8. CASE CreateIndexLegally
  BY <1>8, CreateIndexFollow DEF CreateIndexLegally
<1>9. CASE DropIndex
  <2>1. \A i \in 1..Len(Indexes') : \E j \in 1..Len(Indexes) : Indexes'[i] = Indexes[j]
    BY <1>9, DropIndexStep DEF DropIndex
  <2> QED
    BY <1>2, <2>1, SameIndexes DEF TableInv
<1>10. CASE RenameIndexLegally
  BY <1>10, RenameIndexFollow DEF RenameIndexLegally
<1>11. CASE TruncateLegally
  BY <1>1, <1>11 DEF TruncateLegally, applyTruncate
<1>12. CASE UNCHANGED tableVars
  BY <1>1, <1>12 DEF tableVars, indexVars
<1> QED
  BY <1>3, <1>4, <1>5, <1>6, <1>7, <1>8, <1>9, <1>10, <1>11, <1>12 DEF TableLegalNext

(* Tables are emitted in the order in which they were created: two tables  *)
(* that stay keep their order, whatever is created, renamed and dropped    *)
(* around them.                                                            *)
THEOREM TableOrderAlwaysKept ==
  TableLegalSpec => TableOrderKept
<1>1. TableInit => TableInv /\ TableFull
  BY TableInitFacts
<1>2. TableInv /\ TableFull /\ [TableLegalNext]_tableVars => (TableInv /\ TableFull)'
  BY TableLegalStep DEF Kept
<1>3. TableInv /\ TableFull /\ [TableLegalNext]_tableVars => [OrderStays]_tableVars
  BY OrderStep
<1>4. TableLegalSpec => [][OrderStays]_tableVars
  BY <1>1, <1>2, <1>3, PTL DEF TableLegalSpec
<1> QED
  BY <1>4 DEF TableOrderKept, OrderStays

(* An index changes its table only together with the name of the table:    *)
(* no rename or drop of something else puts it on another one.             *)
THEOREM IndexesAlwaysFollowTables ==
  TableLegalSpec => IndexesFollowTables
<1>1. TableInit => TableInv /\ TableFull
  BY TableInitFacts
<1>2. TableInv /\ TableFull /\ [TableLegalNext]_tableVars => (TableInv /\ TableFull)'
  BY TableLegalStep DEF Kept
<1>3. TableInv /\ TableFull /\ [TableLegalNext]_tableVars => [IndexesFollow]_tableVars
  BY FollowStep
<1>4. TableLegalSpec => [][IndexesFollow]_tableVars
  BY <1>1, <1>2, <1>3, PTL DEF TableLegalSpec
<1> QED
  BY <1>4 DEF IndexesFollowTables, IndexesFollow

-----------------------------------------------------------------------------
(* The invariant at the positions of the slices.                           *)
LEMMA TableTypeMeaning ==
  ASSUME TableInv, UnknownsOK
  PROVE  TableTypeOK
<1>1. ObjTypeOK
  <2>1. StoredObject \subseteq GenericObject
    BY DEF StoredObject
  <2> QED
    BY <2>1 DEF TableInv, ObjInv, UnknownsOK, ObjTypeOK
<1>2. ASSUME NEW i \in DOMAIN Tables
      PROVE  /\ Tables[i].Name \in Token
             /\ \A j \in DOMAIN Tables[i].Columns :
                  /\ Tables[i].Columns[j].NotNull \in BOOLEAN
                  /\ \A k \in DOMAIN Tables[i].Columns[j].InlineConstraints :
                       Tables[i].Columns[j].InlineConstraints[k] # <<>>
  <2> DEFINE t == Tables[i]
  <2>1. IsTableDef(t)
    BY <1>2, SliceWithin DEF TableInv, TablesOK, Keyed
  <2> HIDE DEF t
  <2>2. t.Name \in Token /\ IsColumnList(t.Columns)
    BY <2>1, TableDefParts
  <2>3. ASSUME NEW j \in DOMAIN t.Columns
        PROVE  /\ t.Columns[j].NotNull \in BOOLEAN
               /\ \A k \in DOMAIN t.Columns[j].InlineConstraints :
                    t.Columns[j].InlineConstraints[k] # <<>>
    <3> DEFINE c == t.Columns[j]
    <3>1. IsColumnDef(c)
      BY <2>2, <2>3, SliceWithin DEF IsColumnList
    <3> HIDE DEF c
    <3>2. c.NotNull \in BOOLEAN /\ IsInlineList(c.InlineConstraints)
      BY <3>1, ColumnDefParts
    <3>3. \A k \in DOMAIN c.InlineConstraints : c.InlineConstraints[k] # <<>>
      BY <3>2, SliceWithin DEF IsInlineList
    <3> QED
      BY <3>2, <3>3 DEF c
  <2> QED
    BY <2>2, <2>3 DEF t
<1> QED
  BY <1>1, <1>2
  DEF TableTypeOK, TableInv, TablesOK, IndexesOK, TruncatesOK, Keyed, IsMap

(* Every table stays one the emitter can print, whatever its ALTERs: no    *)
(* inline constraint is ever the empty text, NOT NULL stays a flag.        *)
THEOREM TablesAlwaysTyped ==
  TableSpec => []TableTypeOK
<1>1. TableInit => TableInv /\ UnknownsOK
  BY TableInitFacts, ObjInitFacts DEF TableInit
<1>2. TableInv /\ UnknownsOK /\ [TableNext]_tableVars => TableInv' /\ UnknownsOK'
  <2> SUFFICES ASSUME TableInv, UnknownsOK, [TableNext]_tableVars
               PROVE  TableInv' /\ UnknownsOK'
    OBVIOUS
  <2>1. UNCHANGED Unknowns
    <3> USE DEF RefuseTable, Refused, tableVars, objOnlyVars
    <3>0. CASE CreatePartition
      BY <3>0 DEF CreatePartition, createPartition, CreatePartitionStmt,
                  applyCreateObject, RefuseObject
    <3>1. CASE CreateTable \/ RenameTable \/ AlterTable
      BY <3>1 DEF CreateTable, applyCreateTable, RenameTable, applyRenameTo,
                  AlterTable, applyAlterTable
    <3>2. CASE DropTable
      BY <3>2 DEF DropTable, applyDropTable
    <3>3. CASE CreateIndex \/ DropIndex \/ RenameIndex \/ Truncate
      BY <3>3 DEF CreateIndex, applyCreateIndex, DropIndex, applyDropIndex,
                  RenameIndex, applyAlterIndex, Truncate, applyTruncate, RefuseIndex
    <3>4. CASE UNCHANGED tableVars
      BY <3>4
    <3> QED
      BY <3>0, <3>1, <3>2, <3>3, <3>4 DEF TableNext
  <2> QED
    BY <2>1, TableStep DEF UnknownsOK
<1>3. TableInv /\ UnknownsOK => TableTypeOK
  BY TableTypeMeaning
<1> QED
  BY <1>1, <1>2, <1>3, PTL DEF TableSpec

(* A step of a history PostgreSQL accepts gives no two parts of a table    *)
(* one name.                                                               *)
LEMMA NamesStep ==
  ASSUME TableInv, NamesDistinct, [TableLegalNext]_tableVars
  PROVE  NamesDistinct'
<1>1. ASSUME Tables' = Tables PROVE NamesDistinct'
  BY <1>1 DEF NamesDistinct
<1>2. CASE CreateTableLegally
  <2>1. PICK v \in CreateTableStmt : DistinctParts(v) /\ applyCreateTable(v)
    BY <1>2 DEF CreateTableLegally
  <2>2. CASE Tables' = Append(Tables, v)
    <3>1. /\ IsSlice(Tables) /\ DOMAIN Tables = 1..Len(Tables)
      BY SliceWithin DEF TableInv, TablesOK, Keyed
    <3>2. /\ IsSlice(Append(Tables, v)) /\ Len(Append(Tables, v)) = Len(Tables) + 1
          /\ \A i \in 1..(Len(Tables) + 1) :
               Append(Tables, v)[i] = IF i <= Len(Tables) THEN Tables[i] ELSE v
          /\ Len(Tables) \in Nat
      BY <3>1, SliceAppend, SliceWithin
    <3>3. DOMAIN Append(Tables, v) = 1..(Len(Tables) + 1)
      BY <3>2, SliceWithin
    <3> QED
      BY <2>1, <2>2, <3>1, <3>2, <3>3 DEF NamesDistinct
  <2> QED
    BY <1>1, <2>1, <2>2 DEF applyCreateTable, RefuseTable
<1>3. CASE CreatePartitionLegally
  BY <1>1, <1>3 DEF CreatePartitionLegally, createPartition
<1>4. CASE AlterTableLegally
  BY <1>4, AlterTableStep DEF AlterTableLegally, ActionsLegal
<1>5. CASE RenameTableLegally
  BY <1>5, RenameTableStep DEF RenameTableLegally
<1>6. CASE DropTableLegally
  BY <1>6, DropTableStep DEF DropTableLegally
<1>7. CASE CreateIndexLegally
  BY <1>1, <1>7 DEF CreateIndexLegally, applyCreateIndex, tableVars
<1>8. CASE DropIndex
  BY <1>1, <1>8 DEF DropIndex, applyDropIndex, RefuseIndex, RefuseTable, tableVars
<1>9. CASE RenameIndexLegally
  BY <1>1, <1>9 DEF RenameIndexLegally, applyAlterIndex, RefuseIndex, RefuseTable
<1>10. CASE TruncateLegally
  BY <1>1, <1>10 DEF TruncateLegally, applyTruncate
<1>11. CASE UNCHANGED tableVars
  BY <1>1, <1>11 DEF tableVars
<1> QED
  BY <1>2, <1>3, <1>4, <1>5, <1>6, <1>7, <1>8, <1>9, <1>10, <1>11 DEF TableLegalNext

(* Of a history PostgreSQL accepts: no table that is emitted has two       *)
(* columns or two named constraints of one name, also after an ALTER TABLE *)
(* that was refused half way through its list of actions.                  *)
THEOREM NamesAlwaysDistinct ==
  TableLegalSpec => []NamesDistinct
<1>1. TableInit => TableInv /\ NamesDistinct
  <2>1. TableInit => NamesDistinct
    BY DEF TableInit, NamesDistinct
  <2> QED
    BY <2>1, TableInitFacts
<1>2. TableInv /\ NamesDistinct /\ [TableLegalNext]_tableVars => (TableInv /\ NamesDistinct)'
  BY NamesStep, TableLegalStep DEF Kept
<1> QED
  BY <1>1, <1>2, PTL DEF TableLegalSpec
=============================================================================
