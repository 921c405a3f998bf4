------------------------- MODULE KeyedSlicesProofs -------------------------
(***************************************************************************)
(* Facts about positions and slices: the smallest and the largest position *)
(* of a set, and what stands where after append(s[:i], s[i+1:]...) and     *)
(* after an insertion.  Then what the map updates of KeyedSlices preserve, *)
(* one lemma per operation of a handler (create, drop, rename) and per     *)
(* relation (Sound, Complete), for any slice and any map; the registries   *)
(* cite them.                                                              *)
(***************************************************************************)
EXTENDS KeyedSlices, Identifiers, Integers, Sequences, SequencesExt,
        WellFoundedInduction, SequenceTheorems, TLAPS

(* A non-empty set of positions has a smallest one: Min is well defined.   *)
LEMMA MinPosition ==
  ASSUME NEW S, S \subseteq Nat, S # {}
  PROVE  Min(S) \in S /\ \A x \in S : Min(S) <= x
<1>1. PICK m \in S : \A x \in S : ~ (<<x, m>> \in OpToRel(<, Nat))
  <2>1. IsWellFoundedOn(OpToRel(<, Nat), Nat)
    BY NatLessThanWellFounded
  <2> QED
    BY <2>1, WFMin
<1>2. ASSUME NEW x \in S PROVE m <= x
  <2>1. x \in Nat /\ m \in Nat
    OBVIOUS
  <2>2. ~ (x < m)
    BY <1>1, <2>1 DEF OpToRel
  <2> QED
    BY <2>1, <2>2
<1>3. \A x \in S : m <= x
  BY <1>2
<1> QED
  BY <1>3 DEF Min

(* A non-empty set of positions has a largest one: Max is well defined on  *)
(* the positions that Reindex looks at.                                    *)
LEMMA MaxPosition ==
  ASSUME NEW n \in Nat, NEW S, S \subseteq 1..n, S # {}
  PROVE  Max(S) \in S /\ \A j \in S : Max(S) >= j
<1> DEFINE Gaps == {n - j : j \in S}
<1>1. Gaps \subseteq Nat /\ Gaps # {}
  OBVIOUS
<1>2. PICK g \in Gaps : \A h \in Gaps : ~ (<<h, g>> \in OpToRel(<, Nat))
  <2>1. IsWellFoundedOn(OpToRel(<, Nat), Nat)
    BY NatLessThanWellFounded
  <2> HIDE DEF Gaps
  <2> QED
    BY <1>1, <2>1, WFMin
<1>3. PICK m \in S : g = n - m
  OBVIOUS
<1>4. \A j \in S : m >= j
  <2> SUFFICES ASSUME NEW j \in S PROVE m >= j
    OBVIOUS
  <2>1. n - j \in Gaps /\ n - j \in Nat /\ n - m \in Nat
    OBVIOUS
  <2>2. ~ (n - j < n - m)
    BY <1>2, <1>3, <2>1 DEF OpToRel
  <2> QED
    BY <2>2
<1>5. \E x \in S : \A j \in S : x >= j
  BY <1>4
<1> QED
  BY <1>5 DEF Max

(* Induction along a list: what holds of no element read and, with each    *)
(* element, goes on to hold, holds of all of them.  G is the set of the    *)
(* positions it holds at.                                                  *)
LEMMA AlongList ==
  ASSUME NEW n \in Nat, NEW G, 0 \in G,
         \A i \in 1..n : i - 1 \in G => i \in G
  PROVE  \A i \in 0..n : i \in G
<1> DEFINE missed == (0..n) \ G
<1> SUFFICES ASSUME missed # {} PROVE FALSE
  OBVIOUS
<1>1. missed \subseteq Nat
  OBVIOUS
<1> DEFINE first == Min(missed)
<1>2. first \in missed /\ \A x \in missed : first <= x
  <2> HIDE DEF missed
  <2> QED
    BY <1>1, MinPosition
<1> HIDE DEF first
<1>3. first \in 1..n /\ first - 1 \in 0..n /\ ~ (first <= first - 1)
  BY <1>2
<1>4. first - 1 \in G
  BY <1>2, <1>3
<1> QED
  BY <1>2, <1>3, <1>4

(* RemoveAt on a sequence of keys: what was before the removed position    *)
(* stays, what was behind it moves down by one.                            *)
LEMMA RemoveAtFacts ==
  ASSUME NEW T, NEW s \in Seq(T), NEW i \in 1..Len(s)
  PROVE  /\ RemoveAt(s, i) \in Seq(T)
         /\ Len(RemoveAt(s, i)) = Len(s) - 1
         /\ \A j \in 1..(Len(s) - 1) :
              RemoveAt(s, i)[j] = IF j < i THEN s[j] ELSE s[j + 1]
<1> DEFINE front == SubSeq(s, 1, i - 1)
           back == SubSeq(s, i + 1, Len(s))
<1>1. front \in Seq(T) /\ Len(front) = i - 1 /\ \A j \in 1..(i - 1) : front[j] = s[j]
  BY SubSeqProperties
<1>2. back \in Seq(T) /\ Len(back) = Len(s) - i
        /\ \A j \in 1..(Len(s) - i) : back[j] = s[i + j]
  BY SubSeqProperties
<1>3. RemoveAt(s, i) = front \o back
  BY DEF RemoveAt
<1>4. /\ front \o back \in Seq(T)
      /\ Len(front \o back) = Len(front) + Len(back)
      /\ \A j \in 1..(Len(front) + Len(back)) :
           (front \o back)[j] =
             IF j <= Len(front) THEN front[j] ELSE back[j - Len(front)]
  <2> HIDE DEF front, back
  <2> QED
    BY <1>1, <1>2, ConcatProperties
<1>5. Len(s) \in Nat
  OBVIOUS
<1>6. Len(front) + Len(back) = Len(s) - 1
  <2> HIDE DEF front, back
  <2> QED
    BY <1>1, <1>2, <1>5
<1>7. ASSUME NEW j \in 1..(Len(s) - 1)
      PROVE  RemoveAt(s, i)[j] = IF j < i THEN s[j] ELSE s[j + 1]
  <2> HIDE DEF front, back
  <2>1. RemoveAt(s, i)[j] = IF j <= i - 1 THEN front[j] ELSE back[j - (i - 1)]
    BY <1>1, <1>3, <1>4, <1>6
  <2>2. CASE j < i
    BY <1>1, <1>5, <2>1, <2>2
  <2>3. CASE ~ (j < i)
    <3>1. j - (i - 1) \in 1..(Len(s) - i) /\ i + (j - (i - 1)) = j + 1
      BY <1>5, <2>3
    <3> QED
      BY <1>2, <1>5, <2>1, <2>3, <3>1
  <2> QED
    BY <2>2, <2>3
<1> QED
  BY <1>3, <1>4, <1>6, <1>7

(* InsertAt: what was before the position stays, what was at it and behind *)
(* it moves up by one.                                                     *)
LEMMA InsertAtFacts ==
  ASSUME NEW T, NEW s \in Seq(T), NEW i \in 1..(Len(s) + 1), NEW e \in T
  PROVE  /\ InsertAt(s, i, e) \in Seq(T)
         /\ Len(InsertAt(s, i, e)) = Len(s) + 1
         /\ \A j \in 1..(Len(s) + 1) :
              InsertAt(s, i, e)[j] =
                IF j < i THEN s[j] ELSE IF j = i THEN e ELSE s[j - 1]
<1> DEFINE front == SubSeq(s, 1, i - 1)
           back == SubSeq(s, i, Len(s))
           grown == Append(front, e)
<1>1. Len(s) \in Nat
  OBVIOUS
<1>2. front \in Seq(T) /\ Len(front) = i - 1 /\ \A j \in 1..(i - 1) : front[j] = s[j]
  BY SubSeqProperties
<1>3. back \in Seq(T) /\ Len(back) = Len(s) - i + 1
        /\ \A j \in 1..(Len(s) - i + 1) : back[j] = s[i + j - 1]
  BY SubSeqProperties
<1> HIDE DEF front, back
<1>4. /\ grown \in Seq(T) /\ Len(grown) = i
      /\ \A j \in 1..i : grown[j] = IF j < i THEN s[j] ELSE e
  BY <1>1, <1>2
<1>5. InsertAt(s, i, e) = grown \o back
  <2>1. front \o <<e>> = grown
    BY <1>2
  <2> QED
    BY <2>1 DEF InsertAt, front, back
<1> HIDE DEF grown
<1>6. /\ grown \o back \in Seq(T)
      /\ Len(grown \o back) = Len(grown) + Len(back)
      /\ \A j \in 1..(Len(grown) + Len(back)) :
           (grown \o back)[j] =
             IF j <= Len(grown) THEN grown[j] ELSE back[j - Len(grown)]
  BY <1>3, <1>4, ConcatProperties
<1>7. Len(grown) + Len(back) = Len(s) + 1
  BY <1>1, <1>3, <1>4
<1>8. ASSUME NEW j \in 1..(Len(s) + 1)
      PROVE  (grown \o back)[j] =
               IF j < i THEN s[j] ELSE IF j = i THEN e ELSE s[j - 1]
  <2>1. (grown \o back)[j] = IF j <= i THEN grown[j] ELSE back[j - i]
    BY <1>4, <1>6, <1>7
  <2>2. CASE j <= i
    BY <1>4, <2>1, <2>2
  <2>3. CASE ~ (j <= i)
    <3>1. j - i \in 1..(Len(s) - i + 1) /\ i + (j - i) - 1 = j - 1
      BY <1>1, <2>3
    <3> QED
      BY <1>1, <1>3, <2>1, <2>3, <3>1
  <2> QED
    BY <2>2, <2>3
<1> QED
  BY <1>5, <1>6, <1>7, <1>8

-----------------------------------------------------------------------------
(* The keys of a slice are its elements under a key function; they follow  *)
(* the slice through an append, a removal and the change of one element.   *)
Mapped(s, f) == [i \in DOMAIN s |-> f[s[i]]]

(* The keys of a slice are a sequence as long as the slice.                *)
LEMMA MappedFacts ==
  ASSUME NEW T, NEW s \in Seq(T), NEW f
  PROVE  /\ Mapped(s, f) \in Seq({f[x] : x \in T})
         /\ Len(Mapped(s, f)) = Len(s)
<1>1. Mapped(s, f) \in [1..Len(s) -> {f[x] : x \in T}]
  BY DEF Mapped
<1> QED
  BY <1>1 DEF Mapped

(* The keys of a slice with one element appended.                          *)
LEMMA MappedAppend ==
  ASSUME NEW T, NEW s \in Seq(T), NEW f, NEW e \in T
  PROVE  Mapped(Append(s, e), f) = Append(Mapped(s, f), f[e])
<1> DEFINE U == {f[x] : x \in T}
           n == Len(s)
           l == Mapped(Append(s, e), f)
           r == Append(Mapped(s, f), f[e])
<1>1. Append(s, e) \in Seq(T) /\ Len(Append(s, e)) = n + 1 /\ n \in Nat
  OBVIOUS
<1>2. Mapped(s, f) \in Seq(U) /\ Len(Mapped(s, f)) = n
  BY MappedFacts
<1>3. l \in Seq(U) /\ Len(l) = n + 1
  BY <1>1, MappedFacts
<1>4. r \in Seq(U) /\ Len(r) = n + 1
  BY <1>1, <1>2
<1>5. ASSUME NEW i \in 1..(n + 1) PROVE l[i] = r[i]
  <2>1. l[i] = f[Append(s, e)[i]]
    BY <1>1 DEF Mapped
  <2>2. r[i] = IF i <= n THEN Mapped(s, f)[i] ELSE f[e]
    BY <1>1, <1>2
  <2>3. i <= n => Mapped(s, f)[i] = f[s[i]]
    BY <1>1 DEF Mapped
  <2> QED
    BY <1>1, <2>1, <2>2, <2>3
<1> HIDE DEF l, r, n, U
<1> QED
  BY <1>3, <1>4, <1>5, SeqEqual DEF l, r

(* The keys of a slice with one element removed, as append(s[:i],          *)
(* s[i+1:]).                                                               *)
LEMMA MappedRemove ==
  ASSUME NEW T, NEW s \in Seq(T), NEW f, NEW p \in 1..Len(s)
  PROVE  Mapped(RemoveAt(s, p), f) = RemoveAt(Mapped(s, f), p)
<1> DEFINE U == {f[x] : x \in T}
           n == Len(s)
           rest == RemoveAt(s, p)
           keys == Mapped(s, f)
           l == Mapped(rest, f)
           r == RemoveAt(keys, p)
<1>1. /\ rest \in Seq(T) /\ Len(rest) = n - 1 /\ n \in Nat
      /\ \A i \in 1..(n - 1) : rest[i] = IF i < p THEN s[i] ELSE s[i + 1]
  BY RemoveAtFacts
<1>2. keys \in Seq(U) /\ Len(keys) = n
  BY MappedFacts
<1>3. \A i \in 1..n : keys[i] = f[s[i]]
  BY DEF Mapped
<1> HIDE DEF rest, keys
<1>4. l \in Seq(U) /\ Len(l) = n - 1
  <2>1. rest \in Seq(T)
    BY <1>1
  <2>2. l \in Seq(U) /\ Len(l) = Len(rest)
    BY <2>1, MappedFacts
  <2> QED
    BY <1>1, <2>2
<1> HIDE DEF U
<1>5. /\ r \in Seq(U) /\ Len(r) = n - 1
      /\ \A i \in 1..(n - 1) : r[i] = IF i < p THEN keys[i] ELSE keys[i + 1]
  BY <1>2, RemoveAtFacts
<1>6. ASSUME NEW i \in 1..(n - 1) PROVE l[i] = r[i]
  <2>1. l[i] = f[rest[i]]
    BY <1>1 DEF Mapped
  <2> QED
    BY <1>1, <1>3, <1>5, <2>1
<1> HIDE DEF l, r, n
<1> QED
  BY <1>4, <1>5, <1>6, SeqEqual DEF l, r, rest, keys

(* A slice with one element overwritten.  The operator keeps the EXCEPT    *)
(* out of the provers' sight where a step only needs these facts.          *)
Replaced(s, p, x) == [s EXCEPT ![p] = x]

(* It is a slice of the same length, with the new element in its place.    *)
LEMMA ReplacedFacts ==
  ASSUME NEW T, NEW s \in Seq(T), NEW p, NEW x \in T
  PROVE  /\ Replaced(s, p, x) \in Seq(T)
         /\ Len(Replaced(s, p, x)) = Len(s)
         /\ \A i \in 1..Len(s) : Replaced(s, p, x)[i] = IF i = p THEN x ELSE s[i]
<1> DEFINE r == [i \in 1..Len(s) |-> IF i = p THEN x ELSE s[i]]
<1>1. s \in [1..Len(s) -> T] /\ Len(s) \in Nat
  OBVIOUS
<1>2. Replaced(s, p, x) = r
  BY <1>1 DEF Replaced
<1>3. r \in [1..Len(s) -> T]
  BY <1>1
<1>4. r \in Seq(T) /\ Len(r) = Len(s)
  BY <1>1, <1>3
<1> QED
  BY <1>2, <1>4

(* Its keys are the old ones but for that place.                           *)
LEMMA MappedReplace ==
  ASSUME NEW T, NEW s \in Seq(T), NEW f, NEW p \in 1..Len(s), NEW e \in T
  PROVE  Mapped(Replaced(s, p, e), f) = Replaced(Mapped(s, f), p, f[e])
BY DEF Mapped, Replaced

(* The two key functions of the schema, normIdent of a name and objectKey  *)
(* of a kind and a name, as instances of Mapped.                           *)
KeyOf(E) == [e \in E |-> normIdent(e.Name)]

(* The keys of a slice are the normalised names of its elements.           *)
LEMMA NormKeysAreMapped ==
  ASSUME NEW E, NEW s \in Seq(E)
  PROVE  normKeys(s) = Mapped(s, KeyOf(E))
<1>1. \A i \in DOMAIN s : s[i] \in E
  OBVIOUS
<1> QED
  BY <1>1 DEF normKeys, Mapped, KeyOf

(* The normalised names of a slice are normal tokens, one per element.     *)
LEMMA NormKeysFacts ==
  ASSUME NEW E, \A e \in E : e.Name \in Token, NEW s \in Seq(E)
  PROVE  normKeys(s) \in Seq(NormalToken) /\ Len(normKeys(s)) = Len(s)
<1>1. \A i \in 1..Len(s) : normIdent(s[i].Name) \in NormalToken
  <2>1. \A i \in 1..Len(s) : s[i] \in E
    OBVIOUS
  <2> QED
    BY <2>1 DEF NormalToken
<1>2. normKeys(s) \in [1..Len(s) -> NormalToken]
  BY <1>1 DEF normKeys
<1> QED
  BY <1>2 DEF normKeys

(* ... after an element was appended,                                      *)
LEMMA NormKeysAppend ==
  ASSUME NEW E, NEW s \in Seq(E), NEW x \in E
  PROVE  /\ Append(s, x) \in Seq(E)
         /\ normKeys(Append(s, x)) = Append(normKeys(s), normIdent(x.Name))
<1>1. Append(s, x) \in Seq(E) /\ KeyOf(E)[x] = normIdent(x.Name)
  BY DEF KeyOf
<1>2. Mapped(Append(s, x), KeyOf(E)) = Append(Mapped(s, KeyOf(E)), KeyOf(E)[x])
  BY MappedAppend
<1> QED
  BY <1>1, <1>2, NormKeysAreMapped

(* ... removed,                                                            *)
LEMMA NormKeysRemove ==
  ASSUME NEW E, NEW s \in Seq(E), NEW p \in 1..Len(s)
  PROVE  /\ RemoveAt(s, p) \in Seq(E)
         /\ normKeys(RemoveAt(s, p)) = RemoveAt(normKeys(s), p)
<1>1. RemoveAt(s, p) \in Seq(E)
  BY RemoveAtFacts
<1> QED
  BY <1>1, NormKeysAreMapped, MappedRemove

(* ... or given another name;                                              *)
LEMMA NormKeysReplace ==
  ASSUME NEW E, NEW s \in Seq(E), NEW p \in 1..Len(s), NEW x \in E
  PROVE  /\ Replaced(s, p, x) \in Seq(E)
         /\ normKeys(Replaced(s, p, x)) = Replaced(normKeys(s), p, normIdent(x.Name))
<1>1. Replaced(s, p, x) \in Seq(E) /\ KeyOf(E)[x] = normIdent(x.Name)
  BY ReplacedFacts DEF KeyOf
<1> QED
  BY <1>1, NormKeysAreMapped, MappedReplace

(* a change that leaves the name of the element alone leaves the keys.     *)
LEMMA NormKeysKeep ==
  ASSUME NEW E, NEW s \in Seq(E), NEW p \in 1..Len(s), NEW x \in E,
         x.Name = s[p].Name
  PROVE  /\ Replaced(s, p, x) \in Seq(E)
         /\ normKeys(Replaced(s, p, x)) = normKeys(s)
<1>1. /\ Replaced(s, p, x) \in Seq(E)
      /\ normKeys(Replaced(s, p, x)) = Replaced(normKeys(s), p, normIdent(x.Name))
  BY NormKeysReplace
<1>2. normKeys(s)[p] = normIdent(x.Name) /\ normKeys(s) = [i \in DOMAIN s |-> normKeys(s)[i]]
  BY DEF normKeys
<1> QED
  BY <1>1, <1>2 DEF Replaced

-----------------------------------------------------------------------------
(* CREATE: the new element goes to the end of the slice, and its key to    *)
(* that position.  Sound needs nothing of the key, Complete needs it to be *)
(* new.                                                                    *)
LEMMA AppendSound ==
  ASSUME NEW T, NEW keys \in Seq(T), NEW k \in T, NEW m, Sound(m, keys)
  PROVE  Sound(Put(m, k, Len(keys) + 1), Append(keys, k))
BY DEF Sound, Put

(* ... and when every element was found before, every element is found     *)
(* after.                                                                  *)
LEMMA AppendComplete ==
  ASSUME NEW T, NEW keys \in Seq(T), NEW k \in T, NEW m,
         Complete(m, keys), k \notin DOMAIN m
  PROVE  Complete(Put(m, k, Len(keys) + 1), Append(keys, k))
BY DEF Complete, Put

(* RENAME: the entry moves to the new key, which may overwrite another     *)
(* entry; what is left still points at elements of the right key.          *)
LEMMA RekeySound ==
  ASSUME NEW T, NEW keys \in Seq(T), NEW new \in T, NEW m, Sound(m, keys),
         NEW old \in DOMAIN m
  PROVE  Sound(Put(Delete(m, old), new, m[old]), [keys EXCEPT ![m[old]] = new])
BY DEF Sound, Put, Delete

(* ... and all elements are found still, if the new key was free.          *)
LEMMA RekeyComplete ==
  ASSUME NEW T, NEW keys \in Seq(T), NEW new \in T, NEW m,
         Sound(m, keys), Complete(m, keys),
         NEW old \in DOMAIN m, new \notin DOMAIN m \ {old}
  PROVE  Complete(Put(Delete(m, old), new, m[old]),
                  [keys EXCEPT ![m[old]] = new])
BY DEF Sound, Complete, Put, Delete

(* DROP: the element and its entry go, and the elements behind it are      *)
(* indexed again.  An entry that pointed behind the dropped element would  *)
(* be stale; its key is among the keys indexed again.                      *)
LEMMA DropSound ==
  ASSUME NEW T, NEW keys \in Seq(T), NEW m, Sound(m, keys),
         NEW k \in DOMAIN m
  PROVE  Sound(Reindex(Delete(m, k), RemoveAt(keys, m[k]), m[k]),
               RemoveAt(keys, m[k]))
PROOF
<1> DEFINE i == m[k]
           rest == RemoveAt(keys, i)
           n == Len(rest)
           m1 == Reindex(Delete(m, k), rest, i)
<1>1. i \in 1..Len(keys) /\ Len(keys) \in Nat
  BY DEF Sound
<1>2. /\ rest \in Seq(T) /\ n = Len(keys) - 1 /\ n \in Nat
      /\ \A j \in 1..n : rest[j] = IF j < i THEN keys[j] ELSE keys[j + 1]
  <2> HIDE DEF i
  <2>1. /\ rest \in Seq(T)
        /\ Len(rest) = Len(keys) - 1
        /\ \A j \in 1..(Len(keys) - 1) :
             rest[j] = IF j < i THEN keys[j] ELSE keys[j + 1]
    BY <1>1, RemoveAtFacts
  <2> HIDE DEF rest
  <2> QED
    BY <1>1, <2>1
<1> SUFFICES ASSUME NEW x \in DOMAIN m1
             PROVE  m1[x] \in 1..n /\ rest[m1[x]] = x
  BY DEF Sound
<1>3. CASE Occurrences(rest, x, i) # {}
  <2>1. Occurrences(rest, x, i) \subseteq 1..n
    BY <1>1, <1>2 DEF Occurrences
  <2>2. Max(Occurrences(rest, x, i)) \in Occurrences(rest, x, i)
    BY <1>2, <1>3, <2>1, MaxPosition
  <2>3. m1[x] = Max(Occurrences(rest, x, i))
    BY <1>3 DEF Reindex
  <2> QED
    BY <2>1, <2>2, <2>3 DEF Occurrences
<1>4. CASE Occurrences(rest, x, i) = {}
  <2>1. x \in DOMAIN m /\ x # k /\ m1[x] = m[x]
    BY <1>4 DEF Reindex, Delete, Occurrences
  <2>2. m[x] \in 1..Len(keys) /\ keys[m[x]] = x /\ m[x] # i
    BY <1>1, <2>1 DEF Sound
  <2>3. m[x] < i
    <3>1. SUFFICES ASSUME m[x] > i PROVE FALSE
      BY <1>1, <2>2
    <3>2. m[x] - 1 \in i..n /\ m[x] - 1 \in 1..n /\ ~ (m[x] - 1 < i)
      BY <1>1, <1>2, <2>2, <3>1
    <3>3. rest[m[x] - 1] = keys[(m[x] - 1) + 1] /\ (m[x] - 1) + 1 = m[x]
      BY <1>1, <1>2, <2>2, <3>2
    <3> QED
      BY <1>4, <2>2, <3>2, <3>3 DEF Occurrences
  <2> QED
    BY <1>1, <1>2, <2>1, <2>2, <2>3
<1> QED
  BY <1>3, <1>4

(* ... and all that is left is found at its new position.                  *)
LEMMA DropComplete ==
  ASSUME NEW T, NEW keys \in Seq(T), NEW m, Sound(m, keys), Complete(m, keys),
         NEW k \in DOMAIN m
  PROVE  Complete(Reindex(Delete(m, k), RemoveAt(keys, m[k]), m[k]),
                  RemoveAt(keys, m[k]))
PROOF
<1> DEFINE i == m[k]
           rest == RemoveAt(keys, i)
           n == Len(rest)
           m1 == Reindex(Delete(m, k), rest, i)
<1>1. i \in 1..Len(keys) /\ Len(keys) \in Nat /\ keys[i] = k
  BY DEF Sound
<1>2. /\ rest \in Seq(T) /\ n = Len(keys) - 1 /\ n \in Nat
      /\ \A j \in 1..n : rest[j] = IF j < i THEN keys[j] ELSE keys[j + 1]
  <2>1. i \in 1..Len(keys) /\ Len(keys) \in Nat
    BY <1>1
  <2> HIDE DEF i
  <2>2. /\ rest \in Seq(T)
        /\ Len(rest) = Len(keys) - 1
        /\ \A j \in 1..(Len(keys) - 1) :
             rest[j] = IF j < i THEN keys[j] ELSE keys[j + 1]
    BY <2>1, RemoveAtFacts
  <2> HIDE DEF rest
  <2> QED
    BY <2>1, <2>2
<1>3. \A p, q \in 1..Len(keys) : keys[p] = keys[q] => p = q
  BY DEF Complete
<1>4. ASSUME NEW p \in 1..n, NEW q \in 1..n, rest[p] = rest[q]
      PROVE  p = q
  <2>1. PICK p1 \in 1..Len(keys) : rest[p] = keys[p1] /\ p1 = IF p < i THEN p ELSE p + 1
    BY <1>1, <1>2
  <2>2. PICK q1 \in 1..Len(keys) : rest[q] = keys[q1] /\ q1 = IF q < i THEN q ELSE q + 1
    BY <1>1, <1>2
  <2>3. p1 = q1
    BY <1>3, <1>4, <2>1, <2>2
  <2> QED
    BY <1>1, <1>2, <2>1, <2>2, <2>3
<1> SUFFICES ASSUME NEW j \in 1..n
             PROVE  rest[j] \in DOMAIN m1 /\ m1[rest[j]] = j
  BY DEF Complete
<1>5. CASE j < i
  <2>1. rest[j] = keys[j] /\ j \in 1..Len(keys) /\ j # i
    BY <1>1, <1>2, <1>5
  <2>2. keys[j] \in DOMAIN m /\ m[keys[j]] = j /\ keys[j] # k
    BY <1>1, <1>3, <2>1 DEF Complete
  <2>3. Occurrences(rest, rest[j], i) = {}
    <3>1. SUFFICES ASSUME NEW q \in i..n, rest[q] = rest[j] PROVE FALSE
      BY DEF Occurrences
    <3>2. q \in 1..n /\ q # j
      BY <1>1, <1>2, <1>5, <3>1
    <3> QED
      BY <1>4, <3>1, <3>2
  <2> QED
    BY <2>1, <2>2, <2>3 DEF Reindex, Delete
<1>6. CASE ~ (j < i)
  <2>1. j \in i..n
    BY <1>1, <1>2, <1>6
  <2>2. Occurrences(rest, rest[j], i) = {j}
    BY <1>1, <1>2, <1>4, <2>1 DEF Occurrences
  <2>3. Max({j}) = j
    BY DEF Max
  <2> QED
    BY <2>1, <2>2, <2>3 DEF Reindex
<1> QED
  BY <1>5, <1>6

(* The loop that indexes the elements behind a dropped one yields a map to *)
(* positions.                                                              *)
LEMMA ReindexIsFunction ==
  ASSUME NEW m, NEW keys, NEW i \in Nat, Len(keys) \in Nat, Sound(Reindex(m, keys, i), keys)
  PROVE  Reindex(m, keys, i) \in [DOMAIN Reindex(m, keys, i) -> Nat]
<1> DEFINE r == Reindex(m, keys, i)
<1>1. \A k \in DOMAIN r : r[k] \in Nat
  BY DEF Sound
<1>2. r = [k \in DOMAIN r |-> r[k]]
  BY DEF Reindex
<1> HIDE DEF r
<1>3. r \in [DOMAIN r -> Nat]
  BY <1>1, <1>2
<1> QED
  BY <1>3 DEF r

(* Setting one entry yields a map to positions.                            *)
LEMMA PutIsFunction ==
  ASSUME NEW m, NEW k, NEW i \in Nat, \A x \in DOMAIN m : m[x] \in Nat
  PROVE  Put(m, k, i) \in [DOMAIN Put(m, k, i) -> Nat]
BY DEF Put

-----------------------------------------------------------------------------
(* The keys of the verbatim objects are made of a kind and a lowered name. *)
ObjKeyOf(E) == [e \in E |-> objectKey(e.Kind, e.Name)]
ObjKeysIn(E) == {objectKey(e.Kind, e.Name) : e \in E}

(* They are the elements of the slice under a key function, ...            *)
LEMMA ObjKeysFacts ==
  ASSUME NEW E, NEW s \in Seq(E)
  PROVE  /\ objectKeys(s) = Mapped(s, ObjKeyOf(E))
         /\ objectKeys(s) \in Seq(ObjKeysIn(E))
         /\ Len(objectKeys(s)) = Len(s)
<1>1. \A i \in DOMAIN s : s[i] \in E
  OBVIOUS
<1>2. objectKeys(s) = Mapped(s, ObjKeyOf(E))
  BY <1>1 DEF objectKeys, Mapped, ObjKeyOf
<1>3. {ObjKeyOf(E)[x] : x \in E} = ObjKeysIn(E)
  BY DEF ObjKeyOf, ObjKeysIn
<1>4. /\ Mapped(s, ObjKeyOf(E)) \in Seq({ObjKeyOf(E)[x] : x \in E})
      /\ Len(Mapped(s, ObjKeyOf(E))) = Len(s)
  BY MappedFacts
<1> QED
  BY <1>2, <1>3, <1>4

(* ... so that they follow the slice when an element is appended,          *)
LEMMA ObjKeysAppend ==
  ASSUME NEW E, NEW s \in Seq(E), NEW x \in E
  PROVE  /\ Append(s, x) \in Seq(E)
         /\ objectKeys(Append(s, x)) = Append(objectKeys(s), objectKey(x.Kind, x.Name))
<1>1. Append(s, x) \in Seq(E) /\ ObjKeyOf(E)[x] = objectKey(x.Kind, x.Name)
  BY DEF ObjKeyOf
<1>2. Mapped(Append(s, x), ObjKeyOf(E)) = Append(Mapped(s, ObjKeyOf(E)), ObjKeyOf(E)[x])
  BY MappedAppend
<1> QED
  BY <1>1, <1>2, ObjKeysFacts

(* ... removed,                                                            *)
LEMMA ObjKeysRemove ==
  ASSUME NEW E, NEW s \in Seq(E), NEW p \in 1..Len(s)
  PROVE  /\ RemoveAt(s, p) \in Seq(E)
         /\ objectKeys(RemoveAt(s, p)) = RemoveAt(objectKeys(s), p)
<1>1. RemoveAt(s, p) \in Seq(E)
  BY RemoveAtFacts
<1>2. Mapped(RemoveAt(s, p), ObjKeyOf(E)) = RemoveAt(Mapped(s, ObjKeyOf(E)), p)
  BY MappedRemove
<1>3. objectKeys(RemoveAt(s, p)) = Mapped(RemoveAt(s, p), ObjKeyOf(E))
  BY <1>1, ObjKeysFacts
<1>4. objectKeys(s) = Mapped(s, ObjKeyOf(E))
  BY ObjKeysFacts
<1> QED
  BY <1>1, <1>2, <1>3, <1>4

(* ... or given another name;                                              *)
LEMMA ObjKeysReplace ==
  ASSUME NEW E, NEW s \in Seq(E), NEW p \in 1..Len(s), NEW x \in E
  PROVE  /\ Replaced(s, p, x) \in Seq(E)
         /\ objectKeys(Replaced(s, p, x)) =
              Replaced(objectKeys(s), p, objectKey(x.Kind, x.Name))
<1>1. Replaced(s, p, x) \in Seq(E) /\ ObjKeyOf(E)[x] = objectKey(x.Kind, x.Name)
  BY ReplacedFacts DEF ObjKeyOf
<1>2. Mapped(Replaced(s, p, x), ObjKeyOf(E)) =
        Replaced(Mapped(s, ObjKeyOf(E)), p, ObjKeyOf(E)[x])
  BY MappedReplace
<1>3. objectKeys(Replaced(s, p, x)) = Mapped(Replaced(s, p, x), ObjKeyOf(E))
  BY <1>1, ObjKeysFacts
<1>4. objectKeys(s) = Mapped(s, ObjKeyOf(E))
  BY ObjKeysFacts
<1> QED
  BY <1>1, <1>2, <1>3, <1>4

(* a change of anything but kind and name changes no key.                  *)
LEMMA ObjKeysKeep ==
  ASSUME NEW E, NEW s \in Seq(E), NEW p \in 1..Len(s), NEW x \in E,
         x.Kind = s[p].Kind, x.Name = s[p].Name
  PROVE  /\ Replaced(s, p, x) \in Seq(E)
         /\ objectKeys(Replaced(s, p, x)) = objectKeys(s)
<1>1. /\ Replaced(s, p, x) \in Seq(E)
      /\ objectKeys(Replaced(s, p, x)) =
           Replaced(objectKeys(s), p, objectKey(x.Kind, x.Name))
  BY ObjKeysReplace
<1>2. /\ objectKeys(s)[p] = objectKey(x.Kind, x.Name)
      /\ objectKeys(s) = [i \in DOMAIN s |-> objectKeys(s)[i]]
  BY DEF objectKeys
<1> QED
  BY <1>1, <1>2 DEF Replaced

-----------------------------------------------------------------------------
(* A slice is also a sequence over any larger set.                         *)
LEMMA SliceWithin ==
  ASSUME NEW s, IsSlice(s), NEW E, Range(s) \subseteq E
  PROVE  /\ s \in Seq(E) /\ Len(s) \in Nat /\ DOMAIN s = 1..Len(s)
         /\ \A i \in 1..Len(s) : s[i] \in E
<1>1. s \in Seq(Range(s))
  BY DEF IsSlice
<1>2. Len(s) \in Nat /\ DOMAIN s = 1..Len(s) /\ s \in [1..Len(s) -> Range(s)]
  BY <1>1
<1>3. s \in [1..Len(s) -> E]
  BY <1>2
<1> QED
  BY <1>2, <1>3

(* Whatever is a sequence is a slice.                                      *)
LEMMA SeqIsSlice ==
  ASSUME NEW E, NEW s \in Seq(E)
  PROVE  IsSlice(s) /\ Range(s) \subseteq E
<1>1. Len(s) \in Nat /\ DOMAIN s = 1..Len(s) /\ s \in [1..Len(s) -> E]
  OBVIOUS
<1>2. s \in [1..Len(s) -> Range(s)] /\ Range(s) \subseteq E
  BY <1>1 DEF Range
<1> QED
  BY <1>1, <1>2 DEF IsSlice

(* A function on the positions up to n is a slice of length n.             *)
LEMMA FunctionIsSlice ==
  ASSUME NEW n \in Nat, NEW E, NEW s \in [1..n -> E]
  PROVE  IsSlice(s) /\ Len(s) = n
<1>1. s \in Seq(E) /\ Len(s) = n
  OBVIOUS
<1> QED
  BY <1>1, SeqIsSlice

(* What an append leaves.                                                  *)
LEMMA SliceAppend ==
  ASSUME NEW s, IsSlice(s), NEW x
  PROVE  /\ IsSlice(Append(s, x))
         /\ Len(Append(s, x)) = Len(s) + 1
         /\ \A i \in 1..(Len(s) + 1) :
              Append(s, x)[i] = IF i <= Len(s) THEN s[i] ELSE x
<1> DEFINE E == Range(s) \cup {x}
<1>1. s \in Seq(E) /\ x \in E
  BY SliceWithin
<1> HIDE DEF E
<1>2. /\ Append(s, x) \in Seq(E)
      /\ Len(Append(s, x)) = Len(s) + 1
      /\ \A i \in 1..(Len(s) + 1) :
           Append(s, x)[i] = IF i <= Len(s) THEN s[i] ELSE x
  BY <1>1
<1> QED
  BY <1>2, SeqIsSlice

(* What a removal leaves.                                                  *)
LEMMA SliceRemove ==
  ASSUME NEW s, IsSlice(s), NEW p \in 1..Len(s)
  PROVE  /\ IsSlice(RemoveAt(s, p))
         /\ Len(RemoveAt(s, p)) = Len(s) - 1
         /\ \A i \in 1..(Len(s) - 1) :
              RemoveAt(s, p)[i] = IF i < p THEN s[i] ELSE s[i + 1]
<1>1. s \in Seq(Range(s))
  BY DEF IsSlice
<1> QED
  BY <1>1, RemoveAtFacts, SeqIsSlice

(* What the change of one element leaves.                                  *)
LEMMA SliceReplace ==
  ASSUME NEW s, IsSlice(s), NEW p \in 1..Len(s), NEW x
  PROVE  /\ IsSlice(Replaced(s, p, x))
         /\ Len(Replaced(s, p, x)) = Len(s)
         /\ \A i \in 1..Len(s) : Replaced(s, p, x)[i] = IF i = p THEN x ELSE s[i]
<1> DEFINE E == Range(s) \cup {x}
<1>1. s \in Seq(E) /\ x \in E
  BY SliceWithin
<1> HIDE DEF E
<1> QED
  BY <1>1, ReplacedFacts, SeqIsSlice

(* The keys of a slice, element by element.                                *)
LEMMA SliceKeys ==
  ASSUME NEW s, IsSlice(s)
  PROVE  /\ IsSlice(normKeys(s))
         /\ Len(normKeys(s)) = Len(s)
         /\ Len(s) \in Nat
         /\ \A i \in 1..Len(s) : normKeys(s)[i] = normIdent(s[i].Name)
<1> DEFINE T == {normIdent(e.Name) : e \in Range(s)}
<1>1. s \in Seq(Range(s)) /\ Len(s) \in Nat /\ DOMAIN s = 1..Len(s)
  BY DEF IsSlice
<1>2. normKeys(s) \in [1..Len(s) -> T]
  BY <1>1 DEF normKeys, Range
<1> HIDE DEF T
<1> QED
  BY <1>1, <1>2, FunctionIsSlice DEF normKeys

(* CREATE on such a slice, by name.                                        *)
LEMMA KeyedCreate ==
  ASSUME NEW s, IsSlice(s), NEW x, NEW m, Sound(m, normKeys(s))
  PROVE  /\ IsSlice(Append(s, x))
         /\ normKeys(Append(s, x)) = Append(normKeys(s), normIdent(x.Name))
         /\ Sound(Put(m, normIdent(x.Name), Len(s) + 1), normKeys(Append(s, x)))
         /\ Complete(m, normKeys(s)) /\ normIdent(x.Name) \notin DOMAIN m
              => Complete(Put(m, normIdent(x.Name), Len(s) + 1), normKeys(Append(s, x)))
<1> DEFINE E == Range(s) \cup {x}
           key == normIdent(x.Name)
           keys == normKeys(s)
           T == Range(keys) \cup {key}
<1>1. s \in Seq(E) /\ x \in E
  BY SliceWithin
<1> HIDE DEF E
<1>2. normKeys(Append(s, x)) = Append(keys, key)
  BY <1>1, NormKeysAppend
<1>3. IsSlice(keys) /\ Len(keys) = Len(s)
  BY SliceKeys
<1> HIDE DEF keys, key
<1>4. keys \in Seq(T) /\ key \in T
  BY <1>3, SliceWithin
<1> HIDE DEF T
<1>5. Sound(Put(m, key, Len(keys) + 1), Append(keys, key))
  BY <1>4, AppendSound DEF keys
<1>6. ASSUME Complete(m, keys), key \notin DOMAIN m
      PROVE  Complete(Put(m, key, Len(keys) + 1), Append(keys, key))
  BY <1>4, <1>6, AppendComplete
<1> QED
  BY <1>2, <1>3, <1>5, <1>6, SliceAppend DEF keys, key

(* DROP on such a slice.                                                   *)
LEMMA KeyedDrop ==
  ASSUME NEW s, IsSlice(s), NEW m, Sound(m, normKeys(s)), NEW k \in DOMAIN m
  PROVE  /\ m[k] \in 1..Len(s)
         /\ IsSlice(RemoveAt(s, m[k]))
         /\ normKeys(RemoveAt(s, m[k])) = RemoveAt(normKeys(s), m[k])
         /\ Sound(Reindex(Delete(m, k), normKeys(RemoveAt(s, m[k])), m[k]),
                  normKeys(RemoveAt(s, m[k])))
         /\ Complete(m, normKeys(s))
              => Complete(Reindex(Delete(m, k), normKeys(RemoveAt(s, m[k])), m[k]),
                          normKeys(RemoveAt(s, m[k])))
<1> DEFINE keys == normKeys(s)
           p == m[k]
<1>1. s \in Seq(Range(s))
  BY DEF IsSlice
<1>2. IsSlice(keys) /\ Len(keys) = Len(s)
  BY SliceKeys
<1>3. p \in 1..Len(s)
  BY <1>2 DEF Sound
<1>4. normKeys(RemoveAt(s, p)) = RemoveAt(keys, p)
  <2> HIDE DEF p
  <2> QED
    BY <1>1, <1>3, NormKeysRemove
<1> HIDE DEF keys
<1>5. keys \in Seq(Range(keys))
  BY <1>2 DEF IsSlice
<1>6. Sound(Reindex(Delete(m, k), RemoveAt(keys, m[k]), m[k]), RemoveAt(keys, m[k]))
  BY <1>5, DropSound DEF keys
<1>7. ASSUME Complete(m, keys)
      PROVE  Complete(Reindex(Delete(m, k), RemoveAt(keys, m[k]), m[k]), RemoveAt(keys, m[k]))
  BY <1>5, <1>7, DropComplete DEF keys
<1>8. IsSlice(RemoveAt(s, p))
  BY <1>3, SliceRemove
<1> QED
  BY <1>3, <1>4, <1>6, <1>7, <1>8 DEF keys

(* RENAME on such a slice: x stands where the renamed element stood.       *)
LEMMA KeyedRename ==
  ASSUME NEW s, IsSlice(s), NEW m, Sound(m, normKeys(s)), NEW old \in DOMAIN m, NEW x
  PROVE  /\ m[old] \in 1..Len(s)
         /\ IsSlice(Replaced(s, m[old], x))
         /\ Sound(Put(Delete(m, old), normIdent(x.Name), m[old]),
                  normKeys(Replaced(s, m[old], x)))
         /\ Complete(m, normKeys(s)) /\ normIdent(x.Name) \notin DOMAIN m \ {old}
              => Complete(Put(Delete(m, old), normIdent(x.Name), m[old]),
                          normKeys(Replaced(s, m[old], x)))
<1> DEFINE E == Range(s) \cup {x}
           new == normIdent(x.Name)
           keys == normKeys(s)
           T == Range(keys) \cup {new}
           p == m[old]
<1>1. s \in Seq(E) /\ x \in E
  BY SliceWithin
<1>2. IsSlice(keys) /\ Len(keys) = Len(s)
  BY SliceKeys
<1>3. p \in 1..Len(s)
  BY <1>2 DEF Sound
<1> HIDE DEF E
<1>4. normKeys(Replaced(s, p, x)) = Replaced(keys, p, new)
  <2> HIDE DEF p
  <2> QED
    BY <1>1, <1>3, NormKeysReplace
<1> HIDE DEF keys, new
<1>5. keys \in Seq(T) /\ new \in T
  BY <1>2, SliceWithin
<1> HIDE DEF T
<1>6. Sound(Put(Delete(m, old), new, m[old]), Replaced(keys, p, new))
  BY <1>5, RekeySound DEF keys, Replaced
<1>7. ASSUME Complete(m, keys), new \notin DOMAIN m \ {old}
      PROVE  Complete(Put(Delete(m, old), new, m[old]), Replaced(keys, p, new))
  BY <1>5, <1>7, RekeyComplete DEF keys, Replaced
<1>8. IsSlice(Replaced(s, p, x))
  BY <1>3, SliceReplace
<1> QED
  BY <1>3, <1>4, <1>6, <1>7, <1>8 DEF keys, new

(* An element that keeps its name leaves the keys alone.                   *)
LEMMA KeyedKeep ==
  ASSUME NEW s, IsSlice(s), NEW p \in 1..Len(s), NEW x,
         normIdent(x.Name) = normIdent(s[p].Name)
  PROVE  IsSlice(Replaced(s, p, x)) /\ normKeys(Replaced(s, p, x)) = normKeys(s)
<1>1. DOMAIN s = 1..Len(s)
  BY SliceWithin
<1>2. DOMAIN Replaced(s, p, x) = DOMAIN s
  BY DEF Replaced
<1>3. \A i \in DOMAIN s : normIdent(Replaced(s, p, x)[i].Name) = normIdent(s[i].Name)
  BY <1>1, SliceReplace
<1> QED
  BY <1>2, <1>3, SliceReplace DEF normKeys

(* A map made anew from the slice is sound, and complete if no two         *)
(* elements share a name.                                                  *)
LEMMA KeyedRebuild ==
  ASSUME NEW s, IsSlice(s)
  PROVE  LET m == Reindex([k \in {} |-> 0], normKeys(s), 1) IN
         /\ Sound(m, normKeys(s))
         /\ Distinct(normKeys(s)) => Complete(m, normKeys(s))
<1> DEFINE keys == normKeys(s)
           n == Len(s)
           m == Reindex([k \in {} |-> 0], keys, 1)
<1>1. IsSlice(keys) /\ Len(keys) = n /\ n \in Nat
  BY SliceKeys
<1> HIDE DEF keys, n
<1>2. ASSUME NEW k \in DOMAIN m
      PROVE  m[k] \in 1..n /\ keys[m[k]] = k
  <2> DEFINE at == Occurrences(keys, k, 1)
  <2>1. at \subseteq 1..n /\ at # {}
    BY <1>1, <1>2 DEF Reindex, Occurrences
  <2>2. m[k] = Max(at)
    BY <1>2, <2>1 DEF Reindex
  <2> HIDE DEF at
  <2>3. Max(at) \in at
    BY <1>1, <2>1, MaxPosition
  <2> QED
    BY <2>1, <2>2, <2>3 DEF Occurrences, at
<1>3. ASSUME Distinct(keys), NEW i \in 1..n
      PROVE  keys[i] \in DOMAIN m /\ m[keys[i]] = i
  <2>1. DOMAIN keys = 1..n
    BY <1>1, SliceWithin
  <2>2. Occurrences(keys, keys[i], 1) = {i}
    BY <1>1, <1>3, <2>1 DEF Occurrences, Distinct
  <2>3. Max({i}) = i
    BY DEF Max
  <2> QED
    BY <1>1, <2>2, <2>3 DEF Reindex
<1> QED
  BY <1>1, <1>2, <1>3 DEF Sound, Complete, keys, n

(* DROP takes one entry away; the positions behind the dropped element go  *)
(* down by one and the others stay.                                        *)
LEMMA DropPositions ==
  ASSUME NEW keys, IsSlice(keys), NEW m, Sound(m, keys), Complete(m, keys),
         NEW k \in DOMAIN m, NEW new,
         new = Reindex(Delete(m, k), RemoveAt(keys, m[k]), m[k])
  PROVE  /\ DOMAIN new = DOMAIN m \ {k}
         /\ \A x \in DOMAIN new :
              new[x] = IF m[x] < m[k] THEN m[x] ELSE m[x] - 1
<1> DEFINE p == m[k]
           rest == RemoveAt(keys, p)
           n == Len(keys)
<1>1. p \in 1..n /\ n \in Nat /\ keys[p] = k /\ keys \in Seq(Range(keys))
  BY SliceWithin DEF Sound, IsSlice
<1>2. /\ IsSlice(rest) /\ Len(rest) = n - 1
      /\ \A i \in 1..(n - 1) : rest[i] = IF i < p THEN keys[i] ELSE keys[i + 1]
  <2> HIDE DEF p
  <2> QED
    BY <1>1, SliceRemove
<1>3. Sound(new, rest) /\ Complete(new, rest)
  BY <1>1, DropSound, DropComplete
<1> HIDE DEF p, rest, n
<1>4. ASSUME NEW x \in DOMAIN m, x # k
      PROVE  x \in DOMAIN new /\ new[x] = IF m[x] < p THEN m[x] ELSE m[x] - 1
  <2>1. m[x] \in 1..n /\ keys[m[x]] = x /\ m[x] # p
    BY <1>1, <1>4 DEF Sound, p, n
  <2> DEFINE i == IF m[x] < p THEN m[x] ELSE m[x] - 1
  <2>2. i \in 1..(n - 1) /\ rest[i] = x
    <3>1. CASE m[x] < p
      BY <1>1, <1>2, <2>1, <3>1
    <3>2. CASE ~ (m[x] < p)
      <4>1. m[x] - 1 \in 1..(n - 1) /\ ~ (m[x] - 1 < p) /\ (m[x] - 1) + 1 = m[x]
        BY <1>1, <2>1, <3>2
      <4> QED
        BY <1>2, <2>1, <3>2, <4>1
    <3> QED
      BY <3>1, <3>2
  <2> HIDE DEF i
  <2>3. x \in DOMAIN new /\ new[x] = i
    BY <1>2, <1>3, <2>2 DEF Complete
  <2> QED
    BY <2>3 DEF i
<1>5. ASSUME NEW x \in DOMAIN new PROVE x \in DOMAIN m \ {k}
  <2>1. new[x] \in 1..(n - 1) /\ rest[new[x]] = x
    BY <1>2, <1>3 DEF Sound
  <2>2. PICK i \in 1..n : x = keys[i] /\ i # p
    <3>1. CASE new[x] < p
      <4>1. new[x] \in 1..n /\ new[x] # p /\ keys[new[x]] = x
        BY <1>1, <1>2, <2>1, <3>1
      <4> QED
        BY <4>1
    <3>2. CASE ~ (new[x] < p)
      <4>1. new[x] + 1 \in 1..n /\ new[x] + 1 # p /\ keys[new[x] + 1] = x
        BY <1>1, <1>2, <2>1, <3>2
      <4> QED
        BY <4>1
    <3> QED
      BY <3>1, <3>2
  <2>3. x \in DOMAIN m /\ m[x] = i
    BY <2>2 DEF Complete, n
  <2> QED
    BY <2>2, <2>3 DEF p
<1> QED
  BY <1>4, <1>5 DEF p

-----------------------------------------------------------------------------
(* The four ways a handler changes a slice s and its map m to s2 and m2.   *)
(* As predicates they keep the operators of the update out of the provers' *)
(* sight.                                                                  *)
Created(s, m, key, x, s2, m2) ==
  key \notin DOMAIN m /\ s2 = Append(s, x) /\ m2 = Put(m, key, Len(s) + 1)

Dropped(s, m, keys, key, s2, m2) ==
  /\ key \in DOMAIN m
  /\ s2 = RemoveAt(s, m[key])
  /\ m2 = Reindex(Delete(m, key), RemoveAt(keys, m[key]), m[key])

Renamed(s, m, old, new, x, s2, m2) ==
  /\ old \in DOMAIN m /\ new \notin DOMAIN m
  /\ s2 = Replaced(s, m[old], x)
  /\ m2 = Put(Delete(m, old), new, m[old])

Changed(s, m, key, x, s2) == key \in DOMAIN m /\ s2 = Replaced(s, m[key], x)

(* What the entries lead to after a handler, s[m[k]] for the key k: the    *)
(* lemmas the order and the dictionaries of the registries rest on.  After *)
(* CREATE, the new key leads to the new element and the others to what     *)
(* they led to.                                                            *)
LEMMA FoundAfterCreate ==
  ASSUME NEW s, IsSlice(s), NEW keys, Len(keys) = Len(s),
         NEW m, Sound(m, keys), NEW key, NEW x, NEW s2, NEW m2,
         Created(s, m, key, x, s2, m2)
  PROVE  /\ m2[key] = Len(s) + 1 /\ s2[m2[key]] = x
         /\ \A k \in DOMAIN m : m2[k] = m[k] /\ s2[m2[k]] = s[m[k]]
<1>1. /\ Len(s) \in Nat
      /\ \A i \in 1..(Len(s) + 1) : s2[i] = IF i <= Len(s) THEN s[i] ELSE x
  BY SliceWithin, SliceAppend DEF Created
<1>2. /\ m2[key] = Len(s) + 1
      /\ \A k \in DOMAIN m : m2[k] = m[k]
  BY DEF Put, Created
<1>3. \A k \in DOMAIN m : m[k] \in 1..Len(s)
  BY DEF Sound
<1> QED
  BY <1>1, <1>2, <1>3

(* After DROP, the keys that are left lead to what they led to, wherever   *)
(* it moved.                                                               *)
LEMMA FoundAfterDrop ==
  ASSUME NEW s, IsSlice(s), NEW keys, IsSlice(keys), Len(keys) = Len(s),
         NEW m, Sound(m, keys), Complete(m, keys), NEW key, NEW s2, NEW m2,
         Dropped(s, m, keys, key, s2, m2)
  PROVE  /\ DOMAIN m2 = DOMAIN m \ {key}
         /\ \A k \in DOMAIN m2 : s2[m2[k]] = s[m[k]]
         /\ \A k, l \in DOMAIN m2 : m[k] < m[l] => m2[k] < m2[l]
<1> DEFINE n == Len(s)
           p == m[key]
<1> USE DEF Dropped
<1>1. /\ n \in Nat /\ p \in 1..n
      /\ \A k \in DOMAIN m : m[k] \in 1..n /\ keys[m[k]] = k
  BY SliceWithin DEF Sound
<1>2. /\ DOMAIN m2 = DOMAIN m \ {key}
      /\ \A k \in DOMAIN m2 : m2[k] = IF m[k] < p THEN m[k] ELSE m[k] - 1
  BY DropPositions
<1>3. \A i \in 1..(n - 1) : s2[i] = IF i < p THEN s[i] ELSE s[i + 1]
  <2> HIDE DEF p
  <2> QED
    BY <1>1, SliceRemove DEF p
<1>4. \A k \in DOMAIN m2 : m[k] \in 1..n /\ m[k] # p
  BY <1>1, <1>2
<1> HIDE DEF p, n
<1>5. ASSUME NEW k \in DOMAIN m2 PROVE s2[m2[k]] = s[m[k]]
  <2>1. CASE m[k] < p
    BY <1>1, <1>2, <1>3, <1>4, <2>1
  <2>2. CASE ~ (m[k] < p)
    <3>1. m2[k] = m[k] - 1 /\ m[k] - 1 \in 1..(n - 1)
      BY <1>1, <1>2, <1>4, <2>2
    <3>2. ~ (m[k] - 1 < p) /\ (m[k] - 1) + 1 = m[k]
      BY <1>1, <1>4, <2>2
    <3> QED
      BY <1>3, <3>1, <3>2
  <2> QED
    BY <2>1, <2>2
<1>6. ASSUME NEW k \in DOMAIN m2, NEW l \in DOMAIN m2, m[k] < m[l]
      PROVE  m2[k] < m2[l]
  BY <1>1, <1>2, <1>4, <1>6
<1> QED
  BY <1>2, <1>5, <1>6

(* After RENAME to a free name, the new key leads to the element that took *)
(* the place, and the others to what they led to.                          *)
LEMMA FoundAfterRename ==
  ASSUME NEW s, IsSlice(s), NEW keys, Len(keys) = Len(s),
         NEW m, Sound(m, keys), NEW old, NEW new, NEW x, NEW s2, NEW m2,
         Renamed(s, m, old, new, x, s2, m2)
  PROVE  /\ s2[m2[new]] = x
         /\ \A k \in DOMAIN m \ {old} : m2[k] = m[k] /\ s2[m2[k]] = s[m[k]]
<1> DEFINE n == Len(s)
           p == m[old]
<1> USE DEF Renamed
<1>1. p \in 1..n /\ \A k \in DOMAIN m : m[k] \in 1..n /\ keys[m[k]] = k
  BY DEF Sound
<1>2. \A i \in 1..n : s2[i] = IF i = p THEN x ELSE s[i]
  <2> HIDE DEF p
  <2> QED
    BY <1>1, SliceReplace DEF p
<1>3. /\ m2[new] = p
      /\ \A k \in DOMAIN m \ {old} : m2[k] = m[k]
  BY DEF Put, Delete
<1>4. \A k \in DOMAIN m \ {old} : m[k] # p
  BY <1>1
<1> HIDE DEF p, n
<1> QED
  BY <1>1, <1>2, <1>3, <1>4

(* After a change of one element, its key leads to the new one and the     *)
(* others to what they led to.                                             *)
LEMMA FoundAfterChange ==
  ASSUME NEW s, IsSlice(s), NEW keys, Len(keys) = Len(s),
         NEW m, Sound(m, keys), NEW key, NEW x, NEW s2, Changed(s, m, key, x, s2)
  PROVE  /\ s2[m[key]] = x
         /\ \A k \in DOMAIN m \ {key} : s2[m[k]] = s[m[k]]
<1> DEFINE n == Len(s)
           p == m[key]
<1> USE DEF Changed
<1>1. p \in 1..n /\ \A k \in DOMAIN m : m[k] \in 1..n /\ keys[m[k]] = k
  BY DEF Sound
<1>2. \A i \in 1..n : s2[i] = IF i = p THEN x ELSE s[i]
  <2> HIDE DEF p
  <2> QED
    BY <1>1, SliceReplace DEF p
<1>3. \A k \in DOMAIN m \ {key} : m[k] # p
  BY <1>1
<1> HIDE DEF p, n
<1> QED
  BY <1>1, <1>2, <1>3 DEF p

-----------------------------------------------------------------------------
(* A slice behind another: all elements of both are there.                 *)
LEMMA ConcatFacts ==
  ASSUME NEW s, IsSlice(s), NEW t, IsSlice(t)
  PROVE  /\ IsSlice(s \o t)
         /\ Range(s) \cup Range(t) \subseteq Range(s \o t)
<1> DEFINE U == Range(s) \cup Range(t)
<1>1. s \in Seq(U) /\ t \in Seq(U)
  <2>1. s \in Seq(Range(s)) /\ t \in Seq(Range(t))
    BY DEF IsSlice
  <2> HIDE DEF U
  <2>2. Range(s) \subseteq U /\ Range(t) \subseteq U
    BY DEF U
  <2> QED
    BY <2>1, <2>2
<1> HIDE DEF U
<1>2. s \o t \in Seq(U)
  BY <1>1
<1>3. /\ DOMAIN (s \o t) = 1..(Len(s) + Len(t))
      /\ Len(s) \in Nat /\ DOMAIN s = 1..Len(s)
      /\ Len(t) \in Nat /\ DOMAIN t = 1..Len(t)
  BY <1>1
<1>4. ASSUME NEW i \in DOMAIN s PROVE s[i] \in Range(s \o t)
  <2>1. i \in DOMAIN (s \o t) /\ (s \o t)[i] = s[i]
    BY <1>1, <1>3
  <2> QED
    BY <2>1 DEF Range
<1>5. ASSUME NEW i \in DOMAIN t PROVE t[i] \in Range(s \o t)
  <2>1. Len(s) + i \in DOMAIN (s \o t) /\ (s \o t)[Len(s) + i] = t[i]
    BY <1>1, <1>3
  <2> QED
    BY <2>1 DEF Range
<1>6. \A x \in Range(s) \cup Range(t) : x \in Range(s \o t)
  <2>1. \A x \in Range(s) : \E i \in DOMAIN s : s[i] = x
    BY DEF Range
  <2>2. \A x \in Range(t) : \E i \in DOMAIN t : t[i] = x
    BY DEF Range
  <2> QED
    BY <1>4, <1>5, <2>1, <2>2
<1>7. IsSlice(s \o t)
  BY <1>2, SeqIsSlice
<1> QED
  BY <1>6, <1>7

(* FlattenSeq joins its parts one by one.                                  *)
LEMMA FlattenSteps ==
  ASSUME NEW parts, IsSlice(parts), Len(parts) > 0
  PROVE  \E joined :
           /\ FlattenSeq(parts) = joined[Len(parts)]
           /\ joined[1] = parts[1]
           /\ \A i \in 2..Len(parts) : joined[i] = joined[i - 1] \o parts[i]
<1> DEFINE n == Len(parts)
           isRun(f, k) ==
             \A i \in 1..k : f[i] = IF i = 1 THEN parts[i] ELSE f[i - 1] \o parts[i]
           runs == {k \in 0..n : \E f : isRun(f, k)}
<1>1. n \in Nat /\ n > 0
  BY DEF IsSlice
<1> HIDE DEF n
<1>2. 0 \in runs
  <2>1. \A f : isRun(f, 0)
    OBVIOUS
  <2> HIDE DEF isRun
  <2> QED
    BY <1>1, <2>1
<1>3. ASSUME NEW k \in 1..n, k - 1 \in runs PROVE k \in runs
  <2>1. PICK f : isRun(f, k - 1)
    BY <1>3
  <2> DEFINE g == [i \in 1..k |-> IF i = k THEN IF k = 1 THEN parts[k]
                                                        ELSE f[k - 1] \o parts[k]
                                           ELSE f[i]]
  <2>2. ASSUME NEW i \in 1..k
        PROVE  g[i] = IF i = 1 THEN parts[i] ELSE g[i - 1] \o parts[i]
    <3>1. k # 1 => g[k - 1] = f[k - 1]
      BY <1>1
    <3>2. i # k => /\ i \in 1..(k - 1)
                   /\ i # 1 => g[i - 1] = f[i - 1]
      BY <1>1
    <3> QED
      BY <1>1, <2>1, <3>1, <3>2
  <2> HIDE DEF g
  <2>3. isRun(g, k)
    BY <2>2
  <2> HIDE DEF isRun
  <2> QED
    BY <1>1, <2>3
<1>4. n \in runs
  <2> HIDE DEF runs
  <2>1. \A i \in 0..n : i \in runs
    BY <1>1, <1>2, <1>3, AlongList
  <2> QED
    BY <1>1, <2>1
<1>5. PICK f : isRun(f, n)
  <2> HIDE DEF isRun
  <2> QED
    BY <1>4
<1> DEFINE g == [i \in 1..n |-> f[i]]
           whole(r) == r = [i \in 1..n |-> IF i = 1 THEN parts[i] ELSE r[i - 1] \o parts[i]]
<1>6. whole(g)
  <2>1. \A i \in 1..n : g[i] = IF i = 1 THEN parts[i] ELSE g[i - 1] \o parts[i]
    BY <1>1, <1>5
  <2> QED
    BY <2>1
<1> DEFINE joined == CHOOSE r : whole(r)
<1>7. FlattenSeq(parts) = joined[n]
  BY <1>1 DEF FlattenSeq, n
<1>8. whole(joined)
  <2> HIDE DEF whole
  <2> QED
    BY <1>6
<1> HIDE DEF joined
<1>9. \A i \in 1..n : joined[i] = IF i = 1 THEN parts[i] ELSE joined[i - 1] \o parts[i]
  <2>1. joined = [i \in 1..n |-> IF i = 1 THEN parts[i] ELSE joined[i - 1] \o parts[i]]
    BY <1>8
  <2> QED
    BY <2>1, Zenon
<1>10. joined[1] = parts[1]
  <2>1. 1 \in 1..n
    BY <1>1
  <2> QED
    BY <1>9, <2>1
<1>11. \A i \in 2..n : joined[i] = joined[i - 1] \o parts[i]
  <2>1. \A i \in 2..n : i \in 1..n /\ i # 1
    BY <1>1
  <2> QED
    BY <1>9, <2>1
<1> QED
  BY <1>7, <1>10, <1>11 DEF n

(* ... so all elements of all parts are there.                             *)
LEMMA FlattenFacts ==
  ASSUME NEW parts, IsSlice(parts), \A i \in DOMAIN parts : IsSlice(parts[i])
  PROVE  /\ IsSlice(FlattenSeq(parts))
         /\ \A i \in DOMAIN parts : Range(parts[i]) \subseteq Range(FlattenSeq(parts))
<1> DEFINE n == Len(parts)
<1>1. n \in Nat /\ DOMAIN parts = 1..n
  BY DEF IsSlice
<1>2. CASE n = 0
  <2>1. FlattenSeq(parts) = parts
    BY <1>2 DEF FlattenSeq
  <2> QED
    BY <1>1, <1>2, <2>1
<1>3. CASE n # 0
  <2>1. PICK joined :
          /\ FlattenSeq(parts) = joined[n]
          /\ joined[1] = parts[1]
          /\ \A i \in 2..n : joined[i] = joined[i - 1] \o parts[i]
    <3>1. Len(parts) > 0
      BY <1>1, <1>3
    <3> QED
      BY <3>1, FlattenSteps, Zenon
  <2> DEFINE Joined(k) == /\ IsSlice(joined[k])
                          /\ \A i \in 1..k : Range(parts[i]) \subseteq Range(joined[k])
             good == {k \in 0..n : k = 0 \/ Joined(k)}
  <2> HIDE DEF n
  <2>2. 0 \in good
    BY <1>1
  <2>3. ASSUME NEW k \in 1..n, k - 1 \in good PROVE k \in good
    <3>1. CASE k = 1
      BY <1>1, <2>1, <3>1
    <3>2. CASE k # 1
      <4>1. /\ k \in 2..n /\ k - 1 # 0 /\ k \in DOMAIN parts
            /\ \A i \in 1..k : i = k \/ i \in 1..(k - 1)
        BY <1>1, <3>2
      <4>2. joined[k] = joined[k - 1] \o parts[k] /\ Joined(k - 1) /\ IsSlice(parts[k])
        BY <2>1, <2>3, <4>1
      <4>3. /\ IsSlice(joined[k])
            /\ Range(joined[k - 1]) \cup Range(parts[k]) \subseteq Range(joined[k])
        BY <4>2, ConcatFacts
      <4>4. Joined(k)
        BY <4>1, <4>2, <4>3
      <4> QED
        BY <4>1, <4>4
    <3> QED
      BY <3>1, <3>2
  <2>4. n \in good
    <3> HIDE DEF good
    <3>1. \A i \in 0..n : i \in good
      BY <1>1, <2>2, <2>3, AlongList
    <3> QED
      BY <1>1, <3>1
  <2> QED
    BY <1>1, <1>3, <2>1, <2>4
<1> QED
  BY <1>2, <1>3

(* FlattenSeq of sequences of T is one.                                    *)
LEMMA FlattenType ==
  ASSUME NEW T, NEW n \in Nat, NEW parts \in [1..n -> Seq(T)]
  PROVE  FlattenSeq(parts) \in Seq(T)
<1>1. IsSlice(parts) /\ Len(parts) = n
  <2>1. parts \in Seq(Seq(T)) /\ Len(parts) = n
    OBVIOUS
  <2> QED
    BY <2>1, SeqIsSlice
<1>2. CASE n = 0
  <2>1. FlattenSeq(parts) = parts
    BY <1>1, <1>2 DEF FlattenSeq
  <2>2. parts = <<>>
    BY <1>2
  <2> QED
    BY <2>1, <2>2
<1>3. CASE n # 0
  <2>1. PICK joined :
          /\ FlattenSeq(parts) = joined[n]
          /\ joined[1] = parts[1]
          /\ \A k \in 2..n : joined[k] = joined[k - 1] \o parts[k]
    <3>1. Len(parts) > 0
      BY <1>1, <1>3
    <3>2. \E joined :
             /\ FlattenSeq(parts) = joined[Len(parts)]
             /\ joined[1] = parts[1]
             /\ \A k \in 2..Len(parts) : joined[k] = joined[k - 1] \o parts[k]
      BY <1>1, <3>1, FlattenSteps, Zenon
    <3> QED
      BY <1>1, <3>2
  <2> DEFINE good == {k \in 0..n : k = 0 \/ joined[k] \in Seq(T)}
  <2>2. 0 \in good
    OBVIOUS
  <2>3. ASSUME NEW k \in 1..n, k - 1 \in good PROVE k \in good
    <3>1. parts[k] \in Seq(T)
      OBVIOUS
    <3>2. CASE k = 1
      BY <2>1, <3>1, <3>2
    <3>3. CASE k # 1
      <4>1. k \in 2..n /\ k - 1 # 0
        BY <3>3
      <4>2. joined[k - 1] \in Seq(T)
        BY <2>3, <4>1
      <4>3. joined[k - 1] \o parts[k] \in Seq(T)
        BY <3>1, <4>2
      <4>4. joined[k] = joined[k - 1] \o parts[k]
        BY <2>1, <4>1
      <4>5. joined[k] \in Seq(T)
        BY <4>3, <4>4, Zenon
      <4> QED
        BY <4>5
    <3> QED
      BY <3>2, <3>3
  <2> HIDE DEF good
  <2>4. n \in good
    <3>1. \A k \in 0..n : k \in good
      BY <2>2, <2>3, AlongList
    <3> QED
      BY <3>1
  <2> QED
    BY <1>3, <2>1, <2>4 DEF good
<1> QED
  BY <1>2, <1>3

(* What FlattenSeq makes of one part more.                                 *)
LEMMA FlattenLast ==
  ASSUME NEW T, NEW n \in Nat, NEW parts \in [1..(n + 1) -> Seq(T)]
  PROVE  FlattenSeq(parts) = FlattenSeq([k \in 1..n |-> parts[k]]) \o parts[n + 1]
<1> DEFINE first == [k \in 1..n |-> parts[k]]
<1>1. IsSlice(parts) /\ Len(parts) = n + 1
  <2>1. parts \in Seq(Seq(T)) /\ Len(parts) = n + 1
    OBVIOUS
  <2> QED
    BY <2>1, SeqIsSlice
<1>2. IsSlice(first) /\ Len(first) = n
  <2>1. first \in Seq(Seq(T)) /\ Len(first) = n
    OBVIOUS
  <2> QED
    BY <2>1, SeqIsSlice
<1>3. PICK joined :
        /\ FlattenSeq(parts) = joined[n + 1]
        /\ joined[1] = parts[1]
        /\ \A k \in 2..(n + 1) : joined[k] = joined[k - 1] \o parts[k]
  <2>1. Len(parts) > 0
    BY <1>1
  <2>2. \E joined :
           /\ FlattenSeq(parts) = joined[Len(parts)]
           /\ joined[1] = parts[1]
           /\ \A k \in 2..Len(parts) : joined[k] = joined[k - 1] \o parts[k]
    BY <1>1, <2>1, FlattenSteps, Zenon
  <2> QED
    BY <1>1, <2>2
<1>4. CASE n = 0
  <2>1. FlattenSeq(first) = first
    <3> HIDE DEF first
    <3> QED
      BY <1>2, <1>4 DEF FlattenSeq
  <2>2. first = <<>>
    BY <1>4
  <2>3. parts[1] \in Seq(T)
    BY <1>4
  <2>4. FlattenSeq(parts) = parts[1]
    BY <1>3, <1>4
  <2> HIDE DEF first
  <2>5. <<>> \o parts[1] = parts[1]
    BY <2>3, ConcatEmptySeq
  <2> QED
    BY <1>4, <2>1, <2>2, <2>4, <2>5 DEF first
<1>5. CASE n # 0
  <2>1. PICK shorter :
          /\ FlattenSeq(first) = shorter[n]
          /\ shorter[1] = first[1]
          /\ \A k \in 2..n : shorter[k] = shorter[k - 1] \o first[k]
    <3> HIDE DEF first
    <3>1. Len(first) > 0
      BY <1>2, <1>5
    <3>2. \E shorter :
             /\ FlattenSeq(first) = shorter[Len(first)]
             /\ shorter[1] = first[1]
             /\ \A k \in 2..Len(first) : shorter[k] = shorter[k - 1] \o first[k]
      BY <1>2, <3>1, FlattenSteps, Zenon
    <3> QED
      BY <1>2, <3>2
  <2> DEFINE good == {k \in 0..n : k = 0 \/ shorter[k] = joined[k]}
  <2>2. 0 \in good
    OBVIOUS
  <2>3. ASSUME NEW k \in 1..n, k - 1 \in good PROVE k \in good
    <3>1. first[k] = parts[k]
      OBVIOUS
    <3>2. CASE k = 1
      BY <1>3, <2>1, <3>1, <3>2
    <3>3. CASE k # 1
      <4>1. k \in 2..n /\ k \in 2..(n + 1) /\ k - 1 # 0
        BY <3>3
      <4>2. joined[k - 1] = shorter[k - 1]
        BY <2>3, <4>1
      <4>3. shorter[k] = shorter[k - 1] \o first[k]
        BY <2>1, <4>1
      <4>4. joined[k] = joined[k - 1] \o parts[k]
        BY <1>3, <4>1
      <4> HIDE DEF first
      <4>5. shorter[k] = joined[k]
        BY <3>1, <4>2, <4>3, <4>4
      <4> QED
        BY <4>5
    <3> QED
      BY <3>2, <3>3
  <2> HIDE DEF good
  <2>4. n \in good
    <3>1. \A k \in 0..n : k \in good
      BY <2>2, <2>3, AlongList
    <3> QED
      BY <3>1
  <2>5. shorter[n] = joined[n]
    BY <1>5, <2>4 DEF good
  <2>6. n + 1 \in 2..(n + 1) /\ (n + 1) - 1 = n
    BY <1>5
  <2>7. joined[n + 1] = joined[n] \o parts[n + 1]
    BY <1>3, <2>6
  <2> QED
    BY <1>3, <2>1, <2>5, <2>7
<1> QED
  BY <1>4, <1>5
=============================================================================
