---------------------------- MODULE CanvasProofs ----------------------------
(* The in-memory artifact store implements the table, whatever happens in  *)
(* the panel; what the panel shows is there; what a store of either kind   *)
(* was told is kept; and what the agent's tool or the button publishes     *)
(* reaches the viewers of its conversation once, in order and inert.       *)
EXTENDS CanvasPanel, ArtifactTool, SequenceTheorems, FiniteSetTheorems, WellFoundedInduction, TLAPS

(* A set of naturals has a least one.                                      *)
LEMMA LeastNatural ==
    ASSUME NEW S \in SUBSET Nat, S # {}
    PROVE  \E n \in S : \A m \in S : n <= m
<1>1. \E n \in S : \A m \in S : ~(<<m, n>> \in OpToRel(<, Nat))
  BY NatLessThanWellFounded, WFMin
<1>2. PICK n \in S : \A m \in S : ~(<<m, n>> \in OpToRel(<, Nat))
  BY <1>1
<1>3. ASSUME NEW m \in S PROVE n <= m
  <2>1. m \in Nat /\ n \in Nat
    OBVIOUS
  <2>2. m < n => <<m, n>> \in OpToRel(<, Nat)
    BY <2>1 DEF OpToRel
  <2>3. ~(m < n)
    BY <1>2, <2>2, Zenon
  <2> QED
    BY <2>1, <2>3
<1> QED
  BY <1>3

(* What InsertAt and RemoveAt return.                                      *)
LEMMA InsertFacts ==
    ASSUME NEW S, NEW s \in Seq(S), NEW e \in S, NEW n \in 1 .. Len(s) + 1
    PROVE  /\ InsertAt(s, n, e) \in Seq(S) /\ Len(InsertAt(s, n, e)) = Len(s) + 1
           /\ \A i \in 1 .. Len(s) + 1 :
                 InsertAt(s, n, e)[i] = IF i < n THEN s[i] ELSE IF i = n THEN e ELSE s[i - 1]
<1> DEFINE front == SubSeq(s, 1, n - 1)
           back == SubSeq(s, n, Len(s))
           head == Append(front, e)
<1>1. Len(s) \in Nat
  OBVIOUS
<1>2. front \in Seq(S) /\ Len(front) = n - 1 /\ \A i \in 1 .. n - 1 : front[i] = s[i]
  <2>1. CASE n = 1
    BY <2>1
  <2>2. CASE n # 1
    BY <1>1, <2>2, SubSeqProperties
  <2> QED
    BY <2>1, <2>2
<1>3. back \in Seq(S) /\ Len(back) = Len(s) - n + 1
      /\ \A i \in 1 .. Len(s) - n + 1 : back[i] = s[n + i - 1]
  BY <1>1, SubSeqProperties
<1>4. InsertAt(s, n, e) = (front \o <<e>>) \o back
  BY DEF InsertAt
<1> HIDE DEF front, back
<1>5. front \o <<e>> = head
  BY <1>2, AppendIsConcat
<1>6. /\ head \in Seq(S) /\ Len(head) = n /\ head[n] = e
      /\ \A i \in 1 .. n - 1 : head[i] = s[i]
  BY <1>2, AppendProperties
<1> HIDE DEF head
<1>7. /\ head \o back \in Seq(S) /\ Len(head \o back) = n + (Len(s) - n + 1)
      /\ \A i \in 1 .. n + (Len(s) - n + 1) :
            (head \o back)[i] = IF i <= n THEN head[i] ELSE back[i - n]
  <2>1. head \in Seq(S) /\ back \in Seq(S) /\ Len(head) = n /\ Len(back) = Len(s) - n + 1
    BY <1>3, <1>6
  <2>2. /\ head \o back \in Seq(S) /\ Len(head \o back) = Len(head) + Len(back)
        /\ \A i \in 1 .. Len(head) + Len(back) :
              (head \o back)[i] = IF i <= Len(head) THEN head[i] ELSE back[i - Len(head)]
    BY <2>1, ConcatProperties, Zenon
  <2> QED
    BY <2>1, <2>2
<1>8. n + (Len(s) - n + 1) = Len(s) + 1
  BY <1>1
<1>9. ASSUME NEW i \in 1 .. Len(s) + 1
      PROVE  (head \o back)[i] = IF i < n THEN s[i] ELSE IF i = n THEN e ELSE s[i - 1]
  <2>1. CASE i <= n
    BY <1>1, <1>6, <1>7, <2>1
  <2>2. CASE i > n
    <3>1. i - n \in 1 .. Len(s) - n + 1 /\ n + (i - n) - 1 = i - 1 /\ i \in 1 .. n + (Len(s) - n + 1)
      BY <1>1, <2>2
    <3> QED
      BY <1>1, <1>3, <1>7, <2>2, <3>1
  <2>3. i <= n \/ i > n
    BY <1>1
  <2> QED
    BY <2>1, <2>2, <2>3
<1> QED
  BY <1>4, <1>5, <1>7, <1>8, <1>9

LEMMA RemoveFacts ==
    ASSUME NEW S, NEW s \in Seq(S), NEW n \in 1 .. Len(s)
    PROVE  /\ RemoveAt(s, n) \in Seq(S) /\ Len(RemoveAt(s, n)) = Len(s) - 1
           /\ \A i \in 1 .. Len(s) - 1 : RemoveAt(s, n)[i] = IF i < n THEN s[i] ELSE s[i + 1]
<1> DEFINE front == SubSeq(s, 1, n - 1)
           back == SubSeq(s, n + 1, Len(s))
<1>1. Len(s) \in Nat
  OBVIOUS
<1>2. front \in Seq(S) /\ Len(front) = n - 1 /\ \A i \in 1 .. n - 1 : front[i] = s[i]
  <2>1. CASE n = 1
    BY <2>1
  <2>2. CASE n # 1
    BY <1>1, <2>2, SubSeqProperties
  <2> QED
    BY <2>1, <2>2
<1>3. back \in Seq(S) /\ Len(back) = Len(s) - n
      /\ \A i \in 1 .. Len(s) - n : back[i] = s[n + i]
  BY <1>1, SubSeqProperties
<1>4. RemoveAt(s, n) = front \o back
  BY DEF RemoveAt
<1> HIDE DEF front, back
<1>5. /\ front \o back \in Seq(S) /\ Len(front \o back) = Len(front) + Len(back)
      /\ \A i \in 1 .. Len(front) + Len(back) :
            (front \o back)[i] = IF i <= Len(front) THEN front[i] ELSE back[i - Len(front)]
  BY <1>2, <1>3, ConcatProperties
<1>6. Len(front) + Len(back) = Len(s) - 1
  BY <1>1, <1>2, <1>3
<1>7. ASSUME NEW i \in 1 .. Len(s) - 1
      PROVE  (front \o back)[i] = IF i < n THEN s[i] ELSE s[i + 1]
  <2>1. CASE i < n
    BY <1>1, <1>2, <1>5, <1>6, <2>1
  <2>2. CASE i >= n
    <3>1. i - (n - 1) \in 1 .. Len(s) - n /\ n + (i - (n - 1)) = i + 1 /\ ~(i <= n - 1)
      BY <1>1, <2>2
    <3>2. (front \o back)[i] = back[i - (n - 1)]
      BY <1>2, <1>5, <1>6, <3>1
    <3> QED
      BY <1>3, <2>2, <3>1, <3>2
  <2>3. i < n \/ i >= n
    BY <1>1
  <2> QED
    BY <2>1, <2>2, <2>3
<1> QED
  BY <1>4, <1>5, <1>6, <1>7

LEMMA SetFacts ==
    ASSUME NEW S, NEW s \in Seq(S)
    PROVE  /\ ToSet(s) \subseteq S /\ \A x : x \in ToSet(s) <=> \E i \in 1 .. Len(s) : s[i] = x
           /\ s = <<>> <=> ToSet(s) = {}
<1>1. DOMAIN s = 1 .. Len(s) /\ Len(s) \in Nat /\ \A i \in 1 .. Len(s) : s[i] \in S
  OBVIOUS
<1>2. \A x : x \in ToSet(s) <=> \E i \in 1 .. Len(s) : s[i] = x
  BY <1>1, Zenon DEF ToSet
<1>3. s = <<>> <=> Len(s) = 0
  OBVIOUS
<1>4. Len(s) # 0 => 1 \in 1 .. Len(s)
  BY <1>1
<1>5. Len(s) = 0 => 1 .. Len(s) = {}
  OBVIOUS
<1> QED
  BY <1>1, <1>2, <1>3, <1>4, <1>5

----------------------------------------------------------------------------
(* The rows of the map are those of its ids; the last of an id is its      *)
(* latest.                                                                 *)
LEMMA RowFacts ==
    ASSUME MemTypeOK, NEW id \in Ids
    PROVE  /\ byId[id] \in Seq(Row) /\ Len(byId[id]) \in Nat
           /\ \A i \in 1 .. Len(byId[id]) :
                 byId[id][i] \in Row /\ byId[id][i].version \in Nat \ {0} /\ byId[id][i].id = id
           /\ ToSet(byId[id]) \subseteq Row /\ ToSet(byId[id]) = {row \in AllRows : row.id = id}
           /\ \A x : x \in ToSet(byId[id]) <=> \E i \in 1 .. Len(byId[id]) : byId[id][i] = x
           /\ byId[id] = <<>> <=> ToSet(byId[id]) = {}
<1>1. byId[id] \in Seq(Row)
  BY DEF MemTypeOK
<1>2. /\ ToSet(byId[id]) \subseteq Row /\ byId[id] = <<>> <=> ToSet(byId[id]) = {}
      /\ \A x : x \in ToSet(byId[id]) <=> \E i \in 1 .. Len(byId[id]) : byId[id][i] = x
  BY <1>1, SetFacts
<1>3. \A i \in 1 .. Len(byId[id]) : byId[id][i] \in Row /\ byId[id][i].id = id
  BY <1>1, <1>2 DEF MemTypeOK
<1>4. ToSet(byId[id]) = {row \in AllRows : row.id = id}
  BY DEF MemTypeOK, AllRows
<1> QED
  BY <1>1, <1>2, <1>3, <1>4 DEF Row

LEMMA LastFacts ==
    ASSUME MemTypeOK, NEW id \in Ids, byId[id] # <<>>
    PROVE  /\ Last(byId[id]) \in ToSet(byId[id]) /\ Last(byId[id]).version \in Nat \ {0}
           /\ \A row \in ToSet(byId[id]) :
                 row.version \in Nat /\ row.version <= Last(byId[id]).version
           /\ \A row \in ToSet(byId[id]) :
                 row.version = Last(byId[id]).version => row = Last(byId[id])
<1> DEFINE seq == byId[id]
           n == Len(seq)
<1>1. /\ seq \in Seq(Row) /\ n \in Nat /\ \A i \in 1 .. n : seq[i].version \in Nat \ {0}
      /\ \A x : x \in ToSet(seq) <=> \E i \in 1 .. n : seq[i] = x
  BY RowFacts
<1>2. n # 0
  BY <1>1
<1>3. \A i, j \in 1 .. n : i < j => seq[i].version < seq[j].version
  BY DEF MemTypeOK, Ascending
<1> HIDE DEF seq, n
<1>4. n \in 1 .. n
  BY <1>1, <1>2
<1>5. \A i \in 1 .. n : i = n \/ (i < n /\ seq[i].version < seq[n].version)
  BY <1>1, <1>3, <1>4
<1>6. \A row \in ToSet(seq) : row # seq[n] => row.version \in Nat /\ row.version < seq[n].version
  BY <1>1, <1>5
<1>7. seq[n] \in ToSet(seq) /\ seq[n].version \in Nat \ {0}
  BY <1>1, <1>4
<1>8. \A row \in ToSet(seq) : row.version \in Nat /\ row.version <= seq[n].version
  BY <1>6, <1>7
<1>9. \A row \in ToSet(seq) : row.version = seq[n].version => row = seq[n]
  BY <1>6, <1>7
<1> QED
  BY <1>7, <1>8, <1>9 DEF Last, seq, n

(* Ids apart from one keep their rows.                                     *)
LEMMA RowsChanged ==
    ASSUME MemTypeOK, NEW id \in Ids, NEW seq \in Seq(Row), byId' = [byId EXCEPT ![id] = seq],
           \A row \in ToSet(seq) : row.id = id
    PROVE  AllRows' = {row \in AllRows : row.id # id} \cup ToSet(seq)
<1>1. AllRows' = UNION {ToSet(byId'[i]) : i \in Ids}
  BY DEF AllRows
<1>2. \A i \in Ids : byId'[i] = IF i = id THEN seq ELSE byId[i]
  BY DEF MemTypeOK
<1>3. \A i \in Ids : ToSet(byId[i]) = {row \in AllRows : row.id = i}
  BY RowFacts
<1>4. \A row \in AllRows : row.id \in Ids
  BY DEF AllRows, MemTypeOK
<1> QED
  BY <1>1, <1>2, <1>3, <1>4

(* A row whose version is free comes to its place.                         *)
LEMMA WithFacts ==
    ASSUME MemTypeOK, NEW row \in Row, ~MemTaken(row)
    PROVE  /\ With(byId[row.id], row) \in Seq(Row) /\ Ascending(With(byId[row.id], row))
           /\ ToSet(With(byId[row.id], row)) = ToSet(byId[row.id]) \cup {row}
<1> DEFINE seq == byId[row.id]
           n == Len(seq)
           place == Place(seq, row)
           new == InsertAt(seq, place, row)
           S == {k \in 1 .. n + 1 : \A i \in k .. n : row.version < seq[i].version}
<1>1. row.id \in Ids /\ row.version \in Nat \ {0}
  BY DEF Row
<1>2. /\ seq \in Seq(Row) /\ n \in Nat /\ \A i \in 1 .. n : seq[i].version \in Nat \ {0}
      /\ \A x : x \in ToSet(seq) <=> \E i \in 1 .. n : seq[i] = x
      /\ \A i \in 1 .. n : seq[i].id = row.id
  BY <1>1, RowFacts
<1>3. \A i, j \in 1 .. n : i < j => seq[i].version < seq[j].version
  BY <1>1 DEF MemTypeOK, Ascending
<1>4. \A i \in 1 .. n : seq[i].version # row.version
  BY <1>2 DEF MemTaken, SameKey
<1>5. place \in 1 .. n + 1 /\ \A i \in 1 .. n : row.version < seq[i].version <=> i >= place
  <2> HIDE DEF seq, n
  <2>1. S \in SUBSET Nat /\ n + 1 \in S
    BY <1>2
  <2>2. PICK k \in S : \A m \in S : k <= m
    BY <2>1, LeastNatural
  <2>3. k \in 1 .. n + 1 /\ \A i \in k .. n : row.version < seq[i].version
    OBVIOUS
  <2>4. ASSUME NEW i \in 1 .. n, row.version < seq[i].version PROVE i >= k
    <3>1. \A j \in i .. n : row.version < seq[j].version
      BY <1>1, <1>2, <1>3, <2>4
    <3>2. i \in S
      BY <3>1, <1>2
    <3> QED
      BY <2>2, <3>2, <1>2
  <2>5. \A i \in 1 .. n : row.version < seq[i].version <=> i >= k
    BY <1>2, <2>3, <2>4
  <2> QED
    BY <2>3, <2>5 DEF Place, Older, n
<1>6. /\ new \in Seq(Row) /\ Len(new) = n + 1
      /\ \A i \in 1 .. n + 1 :
            new[i] = IF i < place THEN seq[i] ELSE IF i = place THEN row ELSE seq[i - 1]
  <2>1. row \in Row /\ seq \in Seq(Row) /\ place \in 1 .. Len(seq) + 1
    BY <1>2, <1>5
  <2> HIDE DEF place, seq
  <2> QED
    BY <2>1, InsertFacts
<1>7. With(byId[row.id], row) = new
  BY DEF With
<1> HIDE DEF seq, n, place, new, S
<1>8. Ascending(new)
  <2>1. ASSUME NEW i \in 1 .. n, i < place PROVE seq[i].version < row.version
    BY <1>1, <1>2, <1>4, <1>5, <2>1
  <2> SUFFICES ASSUME NEW i \in 1 .. n + 1, NEW j \in 1 .. n + 1, i < j
               PROVE  new[i].version < new[j].version
    BY <1>6 DEF Ascending
  <2>2. CASE j < place
    <3>1. i \in 1 .. n /\ j \in 1 .. n /\ i < place
      BY <1>2, <1>5, <2>2
    <3> QED
      BY <1>3, <1>6, <2>2, <3>1
  <2>3. CASE j = place
    <3>1. i \in 1 .. n /\ i < place
      BY <1>2, <1>5, <2>3
    <3> QED
      BY <1>6, <2>1, <2>3, <3>1
  <2>4. CASE j > place /\ i < place
    <3>1. i \in 1 .. n /\ j - 1 \in 1 .. n /\ i < j - 1
      BY <1>2, <1>5, <2>4
    <3> QED
      BY <1>3, <1>5, <1>6, <2>4, <3>1
  <2>5. CASE j > place /\ i = place
    <3>1. j - 1 \in 1 .. n /\ j - 1 >= place
      BY <1>2, <1>5, <2>5
    <3> QED
      BY <1>5, <1>6, <2>5, <3>1
  <2>6. CASE j > place /\ i > place
    <3>1. j - 1 \in 1 .. n /\ i - 1 \in 1 .. n /\ i - 1 < j - 1
      BY <1>2, <1>5, <2>6
    <3> QED
      BY <1>3, <1>5, <1>6, <2>6, <3>1
  <2> QED
    BY <1>5, <2>2, <2>3, <2>4, <2>5, <2>6
<1>9. ToSet(new) = ToSet(seq) \cup {row}
  <2>1. \A x : x \in ToSet(new) <=> \E i \in 1 .. n + 1 : new[i] = x
    BY <1>6, SetFacts
  <2>2. ASSUME NEW i \in 1 .. n PROVE seq[i] \in ToSet(new)
    <3>1. CASE i < place
      <4>1. i \in 1 .. n + 1 /\ new[i] = seq[i]
        BY <1>2, <1>6, <3>1
      <4> QED
        BY <2>1, <4>1
    <3>2. CASE i >= place
      <4>1. i + 1 \in 1 .. n + 1 /\ i + 1 > place /\ (i + 1) - 1 = i
        BY <1>2, <1>5, <3>2
      <4>2. new[i + 1] = seq[i]
        BY <1>5, <1>6, <4>1
      <4> QED
        BY <2>1, <4>1, <4>2
    <3> QED
      BY <1>5, <3>1, <3>2
  <2>3. row \in ToSet(new)
    BY <1>5, <1>6, <2>1
  <2>4. ASSUME NEW i \in 1 .. n + 1 PROVE new[i] \in ToSet(seq) \cup {row}
    <3>1. CASE i < place
      BY <1>2, <1>5, <1>6, <3>1
    <3>2. CASE i = place
      BY <1>6, <3>2
    <3>3. CASE i > place
      <4>1. i - 1 \in 1 .. n /\ new[i] = seq[i - 1]
        BY <1>2, <1>5, <1>6, <3>3
      <4> QED
        BY <1>2, <4>1
    <3> QED
      BY <1>5, <3>1, <3>2, <3>3
  <2> QED
    BY <1>2, <2>1, <2>2, <2>3, <2>4
<1> QED
  BY <1>6, <1>7, <1>8, <1>9 DEF seq

(* The row of a version goes, the others keep their order.                 *)
LEMMA WithoutFacts ==
    ASSUME MemTypeOK, NEW id \in Ids, NEW v, \E row \in ToSet(byId[id]) : row.version = v
    PROVE  /\ Without(byId[id], v) \in Seq(Row) /\ Ascending(Without(byId[id], v))
           /\ ToSet(Without(byId[id], v)) = {row \in ToSet(byId[id]) : row.version # v}
<1> DEFINE seq == byId[id]
           n == Len(seq)
           place == PlaceOf(seq, v)
           new == RemoveAt(seq, place)
<1>1. /\ seq \in Seq(Row) /\ n \in Nat /\ \A i \in 1 .. n : seq[i].version \in Nat \ {0}
      /\ \A x : x \in ToSet(seq) <=> \E i \in 1 .. n : seq[i] = x
  BY RowFacts
<1>2. \A i, j \in 1 .. n : i < j => seq[i].version < seq[j].version
  BY DEF MemTypeOK, Ascending
<1>3. place \in 1 .. n /\ seq[place].version = v
  <2>1. \E i \in 1 .. n : seq[i].version = v
    BY <1>1
  <2> QED
    BY <2>1 DEF PlaceOf
<1>4. \A i \in 1 .. n : i # place => seq[i].version # v
  <2> HIDE DEF seq, n, place
  <2> SUFFICES ASSUME NEW i \in 1 .. n, i # place PROVE seq[i].version # v
    OBVIOUS
  <2>1. i < place \/ place < i
    BY <1>3
  <2> QED
    BY <1>1, <1>2, <1>3, <2>1
<1>5. /\ new \in Seq(Row) /\ Len(new) = n - 1
      /\ \A i \in 1 .. n - 1 : new[i] = IF i < place THEN seq[i] ELSE seq[i + 1]
  <2>1. seq \in Seq(Row) /\ place \in 1 .. Len(seq)
    BY <1>1, <1>3
  <2> HIDE DEF place, seq
  <2> QED
    BY <2>1, RemoveFacts
<1>6. Without(byId[id], v) = new
  BY DEF Without
<1> HIDE DEF seq, n, place, new
<1>7. Ascending(new)
  <2> SUFFICES ASSUME NEW i \in 1 .. n - 1, NEW j \in 1 .. n - 1, i < j
               PROVE  new[i].version < new[j].version
    BY <1>5 DEF Ascending
  <2>1. /\ i \in 1 .. n /\ i + 1 \in 1 .. n /\ j \in 1 .. n /\ j + 1 \in 1 .. n
        /\ i < j + 1 /\ i + 1 < j + 1
    BY <1>1
  <2>2. CASE i < place
    BY <1>2, <1>5, <2>1, <2>2
  <2>3. CASE i >= place
    <3>1. j >= place
      BY <1>3, <2>3
    <3> QED
      BY <1>2, <1>3, <1>5, <2>1, <2>3, <3>1
  <2> QED
    BY <1>3, <2>2, <2>3
<1>8. ToSet(new) = {row \in ToSet(seq) : row.version # v}
  <2>1. \A x : x \in ToSet(new) <=> \E i \in 1 .. n - 1 : new[i] = x
    BY <1>5, SetFacts
  <2>2. ASSUME NEW i \in 1 .. n, i # place PROVE seq[i] \in ToSet(new)
    <3>1. CASE i < place
      <4>1. i \in 1 .. n - 1 /\ new[i] = seq[i]
        BY <1>1, <1>3, <1>5, <3>1
      <4> QED
        BY <2>1, <4>1
    <3>2. CASE i > place
      <4>1. i - 1 \in 1 .. n - 1 /\ ~(i - 1 < place) /\ (i - 1) + 1 = i
        BY <1>1, <1>3, <3>2
      <4>2. new[i - 1] = seq[i]
        BY <1>5, <4>1
      <4> QED
        BY <2>1, <4>1, <4>2
    <3> QED
      BY <1>3, <2>2, <3>1, <3>2
  <2>3. ASSUME NEW i \in 1 .. n - 1 PROVE new[i] \in ToSet(seq) /\ new[i].version # v
    <3>1. i \in 1 .. n /\ i + 1 \in 1 .. n /\ (i < place => i # place)
          /\ (~(i < place) => i + 1 # place)
      BY <1>1, <1>3
    <3>2. \E j \in 1 .. n : j # place /\ new[i] = seq[j]
      BY <1>5, <3>1
    <3> QED
      BY <1>1, <1>4, <3>2
  <2>4. \A x \in ToSet(seq) : x.version # v => \E i \in 1 .. n : i # place /\ seq[i] = x
    BY <1>1, <1>3
  <2>5. \A x : x \in ToSet(new) => x \in ToSet(seq) /\ x.version # v
    BY <2>1, <2>3
  <2>6. \A x \in ToSet(seq) : x.version # v => x \in ToSet(new)
    BY <2>2, <2>4
  <2> QED
    BY <2>5, <2>6
<1> QED
  BY <1>5, <1>6, <1>7, <1>8 DEF seq

----------------------------------------------------------------------------
(* An id without rows.                                                     *)
LEMMA EmptyFacts == <<>> \in Seq(Row) /\ ToSet(<<>>) = {} /\ Ascending(<<>>)
<1>1. <<>> \in Seq(Row)
  OBVIOUS
<1>2. ToSet(<<>>) = {}
  BY <1>1, SetFacts
<1>3. Len(<<>>) = 0 /\ 1 .. 0 = {}
  OBVIOUS
<1>4. Ascending(<<>>)
  BY <1>3 DEF Ascending
<1> QED
  BY <1>1, <1>2, <1>4

(* A request that has arrived has a row.                                   *)
LEMMA ArrivedRow ==
    ASSUME RequestsTypeOK, NEW r \in Requests, pc[r] # "unsent"
    PROVE  draft[r] \in Row /\ draft[r].id \in Ids /\ draft[r].version \in Nat \ {0}
BY DEF RequestsTypeOK, Row

(* The rows of an id change as those of the table do.                      *)
LEMMA ReplacedRows ==
    ASSUME MemTypeOK, NEW id \in Ids, NEW seq \in Seq(Row), byId' = [byId EXCEPT ![id] = seq],
           Ascending(seq), \A row \in ToSet(seq) : row.id = id, RequestsTypeOK'
    PROVE  MemTypeOK'
<1>1. \A i \in Ids : byId'[i] = IF i = id THEN seq ELSE byId[i]
  BY DEF MemTypeOK
<1> QED
  BY <1>1 DEF MemTypeOK, Ascending

(* Everything the store and its requests do, apart from the panel.         *)
MemStep ==
    \/ \E r \in Requests, id \in Ids, v \in Versions :
           Post(r, [id |-> id, version |-> v, by |-> r]) /\ UNCHANGED byId
    \/ \E r \in Requests : MemServe(r)
    \/ MemDelete
    \/ UNCHANGED memVars

LEMMA StepIsMemStep ==
    ASSUME [Next]_allVars
    PROVE  MemStep
BY DEF Next, MemStep, allVars, memVars, Publish, PostElsewhere, Settle, Persisted, RolledBack,
       NetworkFailure, UserStep, Select, SetOpen, RemoveShown, ShowStored, Reload

LEMMA PostIsTabled ==
    ASSUME MemTypeOK, NEW r \in Requests, NEW id \in Ids, NEW v \in Versions,
           Post(r, [id |-> id, version |-> v, by |-> r]), UNCHANGED byId
    PROVE  MemTypeOK' /\ Table!Next
<1>1. [id |-> id, version |-> v, by |-> r] \in Row
  BY ArtifactAssumption DEF Row
<1>2. RequestsTypeOK'
  BY <1>1, ArtifactAssumption
  DEF MemTypeOK, RequestsTypeOK, Post, At, GoTo, Progress
<1>3. UNCHANGED AllRows
  BY DEF AllRows
<1> QED
  BY <1>2, <1>3 DEF MemTypeOK, Ascending, Table!Next, Table!Receive, Post, Table!Post, At, GoTo,
                    Table!At, Table!GoTo

LEMMA ServeIsTabled ==
    ASSUME MemTypeOK, NEW r \in Requests, MemServe(r)
    PROVE  MemTypeOK' /\ Table!Next
<1>1. CASE (Admit(r) \/ Reject(r)) /\ UNCHANGED byId
  <2>1. RequestsTypeOK'
    BY <1>1 DEF MemTypeOK, RequestsTypeOK, Admit, Reject, At, GoTo, Progress
  <2>2. UNCHANGED AllRows
    BY <1>1 DEF AllRows
  <2> QED
    BY <1>1, <2>1, <2>2
    DEF MemTypeOK, Ascending, Table!Next, Table!Receive, Admit, Reject, At, GoTo,
        Table!Admit, Table!Reject, Table!At, Table!GoTo
<1>2. CASE MemGet(r)
  <2>1. draft[r] \in Row /\ draft[r].id \in Ids /\ draft[r].version \in Nat \ {0}
    BY <1>2, ArrivedRow DEF MemGet, At, MemTypeOK
  <2> DEFINE seq == byId[draft[r].id]
             rows == Table!RowsOf(draft[r].id)
             newest == \E row \in rows : row.version >= draft[r].version
  <2>2. ToSet(seq) = rows /\ rows \subseteq Row
    BY <2>1, RowFacts DEF Table!RowsOf
  <2>3. (seq # <<>> /\ Last(seq).version >= draft[r].version) <=> newest
    <3>1. seq = <<>> <=> rows = {}
      BY <2>1, <2>2, RowFacts
    <3>2. ASSUME seq # <<>>
          PROVE  /\ Last(seq) \in rows /\ Last(seq).version \in Nat
                 /\ \A row \in rows : row.version \in Nat /\ row.version <= Last(seq).version
      BY <2>1, <2>2, <3>2, LastFacts
    <3> HIDE DEF seq, rows
    <3> QED
      BY <2>1, <3>1, <3>2
  <2>4. Found(r, rows, newest) /\ UNCHANGED byId
    <3>1. Found(r, ToSet(seq), seq # <<>> /\ Last(seq).version >= draft[r].version)
      BY <1>2 DEF MemGet
    <3> HIDE DEF seq, rows, newest
    <3>2. Found(r, rows, seq # <<>> /\ Last(seq).version >= draft[r].version)
      BY <2>2, <3>1
    <3>3. Found(r, rows, newest)
      BY <2>3, <3>2 DEF Found, GoTo
    <3> QED
      BY <1>2, <3>3 DEF MemGet
  <2>5. RequestsTypeOK'
    <3> HIDE DEF rows, newest
    <3> QED
      BY <1>2, <2>2, <2>4 DEF MemGet, MemTypeOK, RequestsTypeOK, Found, At, GoTo, Progress
  <2>6. UNCHANGED AllRows
    BY <2>4 DEF AllRows
  <2>7. Table!Get(r)
    BY <1>2, <2>4, <2>6 DEF MemGet, Table!Get, Found, Table!Found, At, GoTo, Table!At, Table!GoTo
  <2> QED
    BY <2>4, <2>5, <2>7 DEF MemTypeOK, Ascending, Table!Next
<1>3. CASE MemNumber(r)
  <2>1. draft[r] \in Row /\ draft[r].id \in Ids /\ draft[r].version \in Nat \ {0}
    BY <1>3, ArrivedRow DEF MemNumber, At, MemTypeOK
  <2> DEFINE seq == byId[draft[r].id]
             rows == Table!RowsOf(draft[r].id)
  <2>2. ToSet(seq) = rows /\ (seq = <<>> <=> rows = {})
    BY <2>1, RowFacts DEF Table!RowsOf
  <2>3. PICK version \in Nat \ {0} :
            /\ Numbered(r, version)
            /\ \/ rows = {} /\ version = 1
               \/ \E row \in rows : Table!IsLatest(row) /\ version = row.version + 1
    <3>1. CASE seq = <<>>
      BY <1>3, <2>2, <3>1 DEF MemNumber, MemNextVersion
    <3>2. CASE seq # <<>>
      <4>1. /\ Last(seq) \in rows /\ Last(seq).version \in Nat
            /\ \A row \in rows : row.version <= Last(seq).version
        BY <2>1, <2>2, <3>2, LastFacts
      <4>2. Table!IsLatest(Last(seq))
        BY <4>1 DEF Table!IsLatest, Table!RowsOf
      <4>3. Numbered(r, Last(seq).version + 1)
        BY <1>3, <3>2 DEF MemNumber, MemNextVersion
      <4> QED
        BY <4>1, <4>2, <4>3
    <3> QED
      BY <3>1, <3>2
  <2>4. [draft[r] EXCEPT !.version = version] \in Row
    BY <2>1 DEF Row
  <2>5. RequestsTypeOK'
    BY <1>3, <2>3, <2>4, ArtifactAssumption
    DEF MemNumber, MemTypeOK, RequestsTypeOK, Numbered, At, GoTo, Progress
  <2>6. UNCHANGED AllRows
    BY <1>3 DEF MemNumber, AllRows
  <2>7. Table!Number(r)
    BY <1>3, <2>3, <2>6
    DEF MemNumber, Table!Number, Numbered, Table!Numbered, At, GoTo, Table!At, Table!GoTo
  <2> QED
    BY <1>3, <2>5, <2>7 DEF MemNumber, MemTypeOK, Ascending, Table!Next
<1>4. CASE MemInsert(r)
  <2>1. draft[r] \in Row /\ draft[r].id \in Ids /\ draft[r].version \in Nat \ {0}
    BY <1>4, ArrivedRow DEF MemInsert, At, MemTypeOK
  <2>2. MemTaken(draft[r]) <=> Table!Taken(draft[r])
    BY <2>1, RowFacts DEF MemTaken, Table!Taken, SameKey, Table!SameKey
  <2>3. RequestsTypeOK'
    BY <1>4, <2>1 DEF MemInsert, MemTypeOK, RequestsTypeOK, Inserted, At, GoTo, Progress
  <2>4. MemTypeOK' /\ AllRows' = IF MemTaken(draft[r]) THEN AllRows ELSE AllRows \cup {draft[r]}
    <3>1. CASE MemTaken(draft[r])
      BY <1>4, <2>3, <3>1 DEF MemInsert, MemTypeOK, Ascending, AllRows
    <3>2. CASE ~MemTaken(draft[r])
      <4> DEFINE seq == With(byId[draft[r].id], draft[r])
      <4>1. seq \in Seq(Row) /\ Ascending(seq) /\ ToSet(seq) = ToSet(byId[draft[r].id]) \cup {draft[r]}
        BY <2>1, <3>2, WithFacts
      <4>2. ToSet(byId[draft[r].id]) = {row \in AllRows : row.id = draft[r].id}
        BY <2>1, RowFacts
      <4>3. byId' = [byId EXCEPT ![draft[r].id] = seq]
        BY <1>4, <3>2 DEF MemInsert
      <4>4. \A row \in ToSet(seq) : row.id = draft[r].id
        BY <4>1, <4>2
      <4> HIDE DEF seq
      <4>5. MemTypeOK' /\ AllRows' = {row \in AllRows : row.id # draft[r].id} \cup ToSet(seq)
        BY <2>1, <2>3, <4>1, <4>3, <4>4, ReplacedRows, RowsChanged
      <4> QED
        BY <3>2, <4>1, <4>2, <4>5
    <3> QED
      BY <3>1, <3>2
  <2>5. Table!Insert(r)
    BY <1>4, <2>2, <2>4
    DEF MemInsert, Table!Insert, Inserted, Table!Inserted, At, GoTo, Table!At, Table!GoTo
  <2> QED
    BY <2>4, <2>5 DEF Table!Next
<1> QED
  BY <1>1, <1>2, <1>3, <1>4 DEF MemServe

LEMMA DeleteIsTabled ==
    ASSUME MemTypeOK, MemDelete
    PROVE  MemTypeOK' /\ Table!Next
<1>1. ASSUME NEW rows \in SUBSET Row, Gone(rows) PROVE RequestsTypeOK'
  BY <1>1 DEF Gone, MemTypeOK, RequestsTypeOK
<1>2. CASE \E id \in Ids : MemRemove(id)
  <2> PICK id \in Ids : MemRemove(id)
    BY <1>2
  <2>1. /\ ToSet(byId[id]) = Table!RowsOf(id) /\ ToSet(byId[id]) # {}
        /\ ToSet(byId[id]) \subseteq Row
    BY RowFacts DEF MemRemove, Table!RowsOf
  <2>2. RequestsTypeOK'
    BY <1>1, <2>1 DEF MemRemove
  <2>3. <<>> \in Seq(Row) /\ ToSet(<<>>) = {} /\ Ascending(<<>>)
    BY EmptyFacts
  <2>4. byId' = [byId EXCEPT ![id] = <<>>]
    BY DEF MemRemove
  <2>5. MemTypeOK' /\ AllRows' = {row \in AllRows : row.id # id} \cup {}
    BY <2>2, <2>3, <2>4, ReplacedRows, RowsChanged
  <2>6. Table!Remove(id)
    BY <2>1, <2>5 DEF MemRemove, Gone, Table!Remove, Table!Delete, Table!Gone, Table!RowsOf
  <2> QED
    BY <2>5, <2>6 DEF Table!Next
<1>3. CASE \E row \in AllRows : MemRemoveVersion(row.id, row.version)
  <2> PICK row \in AllRows : MemRemoveVersion(row.id, row.version)
    BY <1>3
  <2> DEFINE id == row.id
             v == row.version
             rows == {a \in ToSet(byId[id]) : a.version = v}
             seq == Without(byId[id], v)
  <2>1. id \in Ids
    BY DEF AllRows, MemTypeOK
  <2>2. ToSet(byId[id]) = Table!RowsOf(id) /\ ToSet(byId[id]) \subseteq Row
    BY <2>1, RowFacts DEF Table!RowsOf
  <2>3. Gone(rows) /\ rows # {} /\ byId' = [byId EXCEPT ![id] = seq]
    BY DEF MemRemoveVersion
  <2>4. RequestsTypeOK'
    BY <1>1, <2>2, <2>3
  <2>5. /\ seq \in Seq(Row) /\ Ascending(seq)
        /\ ToSet(seq) = {a \in ToSet(byId[id]) : a.version # v}
    BY <2>1, <2>3, WithoutFacts
  <2>6. \A a \in ToSet(seq) : a.id = id
    BY <2>2, <2>5 DEF Table!RowsOf
  <2>7. MemTypeOK' /\ AllRows' = {a \in AllRows : a.id # id} \cup ToSet(seq)
    <3> HIDE DEF seq
    <3> QED
      BY <2>1, <2>3, <2>4, <2>5, <2>6, ReplacedRows, RowsChanged
  <2>8. rows = {a \in Table!RowsOf(id) : a.version = v} /\ AllRows' = AllRows \ rows
    BY <2>2, <2>5, <2>7 DEF Table!RowsOf
  <2>9. Table!RemoveVersion(id, v)
    BY <2>3, <2>8 DEF Gone, Table!RemoveVersion, Table!Delete, Table!Gone
  <2> QED
    BY <2>7, <2>9 DEF Table!Next
<1> QED
  BY <1>2, <1>3 DEF MemDelete

LEMMA MemStepIsTabled ==
    ASSUME MemTypeOK, MemStep
    PROVE  MemTypeOK' /\ [Table!Next]_(Table!storeVars)
<1>1. CASE UNCHANGED memVars
  BY <1>1 DEF memVars, requestVars, MemTypeOK, RequestsTypeOK, Ascending, AllRows,
              Table!storeVars, Table!requestVars
<1> QED
  BY <1>1, PostIsTabled, ServeIsTabled, DeleteIsTabled DEF MemStep

LEMMA MemStarts ==
    ASSUME MemInit
    PROVE  MemTypeOK /\ Table!Init
<1>1. <<>> \in Seq(Row) /\ ToSet(<<>>) = {} /\ Ascending(<<>>)
  BY EmptyFacts
<1>2. AllRows = {}
  BY <1>1 DEF MemInit, AllRows
<1> QED
  BY <1>1, <1>2, ArtifactAssumption
  DEF MemInit, RequestsInit, MemTypeOK, RequestsTypeOK, Progress, Table!Init, Table!RequestsInit

(* The in-memory store gives the answers of the table, request by request  *)
(* and delete by delete (sqlite-store-conformance.test.ts:17-21): sorting  *)
(* on insert (store.ts:108) keeps the last row the one with MAX(version).  *)
THEOREM MemoryIsTheTable == Spec => ImplementsTable
<1>1. Init => MemTypeOK /\ Table!Init
  BY MemStarts DEF Init
<1>2. MemTypeOK /\ [Next]_allVars => MemTypeOK' /\ [Table!Next]_(Table!storeVars)
  BY StepIsMemStep, MemStepIsTabled
<1> QED
  BY <1>1, <1>2, PTL DEF Spec, ImplementsTable, Table!Spec

----------------------------------------------------------------------------
(* The versions the panel has of an id are bounded, so that one of them is *)
(* the latest.                                                             *)
Bounded == \A id \in Ids : \E n \in Nat : \A row \in history : row.id = id => row.version <= n

PanelIInv == TypeOK /\ Bounded /\ PointerIsShown

LEMMA LatestOf ==
    ASSUME NEW rows \in SUBSET Row, rows # {}, NEW n \in Nat, \A row \in rows : row.version <= n
    PROVE  \E a \in rows : \A b \in rows : b.version <= a.version
<1> DEFINE S == {k \in Nat : \A row \in rows : row.version <= k}
<1>1. \A row \in rows : row.version \in Nat \ {0}
  BY DEF Row
<1>2. PICK k \in S : \A m \in S : k <= m
  BY LeastNatural
<1>3. k \in Nat /\ \A row \in rows : row.version <= k
  BY <1>2
<1>4. k # 0
  BY <1>1, <1>3
<1>5. \E a \in rows : ~(a.version <= k - 1)
  <2>1. k - 1 \in Nat /\ ~(k <= k - 1)
    BY <1>3, <1>4
  <2>2. k - 1 \notin S
    BY <1>2, <2>1
  <2> QED
    BY <2>1, <2>2
<1>6. PICK a \in rows : ~(a.version <= k - 1)
  BY <1>5
<1>7. a.version = k
  BY <1>1, <1>3, <1>6
<1> QED
  BY <1>3, <1>7

(* handleShow keeps the keys apart and points to what it shows.            *)
LEMMA ShowFacts ==
    ASSUME PanelIInv, NEW row \in Row, NEW b \in BOOLEAN, Show(row, b)
    PROVE  /\ history' \in SUBSET Row /\ \A x, y \in history' : SameKey(x, y) => x = y
           /\ pointer' \in [id : Ids, version : Nat \ {0}] /\ open' \in BOOLEAN
           /\ Bounded' /\ PointerIsShown'
<1>1. row.id \in Ids /\ row.version \in Nat \ {0}
  BY DEF Row
<1>2. history' \in SUBSET Row /\ \A x, y \in history' : SameKey(x, y) => x = y
  BY DEF PanelIInv, TypeOK, Show, SameKey
<1>3. pointer' \in [id : Ids, version : Nat \ {0}] /\ open' \in BOOLEAN
  BY <1>1 DEF PanelIInv, TypeOK, Show, KeyOf
<1>4. Bounded'
  <2> SUFFICES ASSUME NEW id \in Ids
               PROVE  \E n \in Nat : \A a \in history' : a.id = id => a.version <= n
    BY DEF Bounded
  <2>1. PICK n \in Nat : \A a \in history : a.id = id => a.version <= n
    BY DEF PanelIInv, Bounded
  <2>2. PICK m \in Nat : n <= m /\ row.version <= m
    BY <1>1
  <2>3. \A a \in history : a.version \in Nat
    BY DEF PanelIInv, TypeOK, Row
  <2>4. \A a \in history' : a.id = id => a.version <= m
    BY <2>1, <2>2, <2>3 DEF Show
  <2> QED
    BY <2>4
<1>5. PointerIsShown'
  BY DEF Show, PointerIsShown
<1> QED
  BY <1>2, <1>3, <1>4, <1>5

(* handleRemove leaves a pointer to a version that remains, or none.       *)
LEMMA KeepFacts ==
    ASSUME PanelIInv, NEW id \in Ids, NEW remaining \in SUBSET history, Keep(id, remaining),
           \A row \in remaining : row.id = id
    PROVE  /\ history' \in SUBSET history
           /\ pointer' \in [id : Ids, version : Nat \ {0}] \cup {NoPointer} /\ UNCHANGED open
           /\ PointerIsShown'
<1>1. history' = {a \in history : a.id # id} \cup remaining
      /\ pointer' = PointerAfter(id, remaining) /\ UNCHANGED open
  BY DEF Keep
<1>2. CASE pointer = NoPointer
  BY <1>1, <1>2 DEF PointerAfter, PointerIsShown
<1>3. CASE pointer # NoPointer /\ pointer.id # id
  <2>1. PICK row \in history : KeyOf(row) = pointer
    BY <1>3 DEF PanelIInv, PointerIsShown
  <2>2. row.id # id /\ pointer' = pointer
    BY <1>1, <1>3, <2>1 DEF KeyOf, PointerAfter
  <2> QED
    BY <1>1, <2>1, <2>2 DEF PanelIInv, TypeOK, PointerIsShown, KeyOf
<1>4. CASE pointer # NoPointer /\ pointer.id = id /\ remaining = {}
  BY <1>1, <1>4 DEF PointerAfter, PointerIsShown
<1>5. CASE pointer # NoPointer /\ pointer.id = id /\ remaining # {}
  <2> DEFINE latest == CHOOSE a \in remaining : \A b \in remaining : b.version <= a.version
  <2>1. remaining \subseteq Row
    BY DEF PanelIInv, TypeOK
  <2>2. PICK n \in Nat : \A row \in history : row.id = id => row.version <= n
    BY DEF PanelIInv, Bounded
  <2>3. \E a \in remaining : \A b \in remaining : b.version <= a.version
    BY <1>5, <2>1, <2>2, LatestOf
  <2>4. latest \in remaining
    BY <2>3
  <2>5. pointer' = KeyOf(latest)
    BY <1>1, <1>5 DEF PointerAfter
  <2> HIDE DEF latest
  <2>6. pointer' \in [id : Ids, version : Nat \ {0}]
    BY <2>1, <2>4, <2>5 DEF KeyOf, Row
  <2>7. PointerIsShown'
    BY <1>1, <2>4, <2>5 DEF PointerIsShown, KeyOf
  <2> QED
    BY <1>1, <2>6, <2>7
<1> QED
  BY <1>2, <1>3, <1>4, <1>5

(* A smaller history is as bounded, and has its keys apart.                *)
LEMMA ForgetFacts ==
    ASSUME PanelIInv, history' \in SUBSET history
    PROVE  /\ history' \in SUBSET Row /\ \A x, y \in history' : SameKey(x, y) => x = y
           /\ Bounded'
BY DEF PanelIInv, TypeOK, Bounded, SameKey

(* What the panel awaits stays sent while the store goes on.               *)
LEMMA StaysSent ==
    ASSUME MemTypeOK, MemStep, NEW r \in Requests, pc[r] # "unsent"
    PROVE  pc'[r] # "unsent"
BY DEF MemTypeOK, RequestsTypeOK, MemStep, Post, MemServe, Admit, Reject, MemGet, Found, MemNumber,
       Numbered, MemInsert, Inserted, MemDelete, MemRemove, MemRemoveVersion, Gone, At, GoTo,
       memVars, requestVars

LEMMA PublishKeeps ==
    ASSUME PanelIInv, MemTypeOK', MemStep, NEW r \in Requests, NEW row \in Row, row.by = r,
           Publish(r, row)
    PROVE  PanelIInv'
<1>1. /\ history' \in SUBSET Row /\ \A x, y \in history' : SameKey(x, y) => x = y
      /\ pointer' \in [id : Ids, version : Nat \ {0}] /\ open' \in BOOLEAN
      /\ Bounded' /\ PointerIsShown'
  BY ShowFacts DEF Publish
<1>2. pc'[r] # "unsent"
  BY DEF Publish, Post, GoTo, PanelIInv, TypeOK, MemTypeOK, RequestsTypeOK
<1>3. \A sent \in fetching : sent.by \in Published /\ pc'[sent.by] # "unsent"
  BY StaysSent, PanelAssumption DEF PanelIInv, TypeOK
<1>4. fetching' = fetching \cup {row} /\ r \in Published
  BY DEF Publish
<1>5. TypeOK'
  BY <1>1, <1>2, <1>3, <1>4 DEF TypeOK, PanelIInv, SameKey
<1> QED
  BY <1>1, <1>5 DEF PanelIInv

(* The store moves, the panel does not.                                    *)
LEMMA StoreKeeps ==
    ASSUME PanelIInv, MemTypeOK', MemStep, UNCHANGED panelVars
    PROVE  PanelIInv'
<1>1. \A sent \in fetching : sent.by \in Published /\ pc'[sent.by] # "unsent"
  BY StaysSent, PanelAssumption DEF PanelIInv, TypeOK
<1> QED
  BY <1>1 DEF PanelIInv, TypeOK, SameKey, Bounded, PointerIsShown, panelVars

LEMMA ForgetKeeps ==
    ASSUME PanelIInv, UNCHANGED memVars, NEW row \in Row, fetching' \in SUBSET fetching,
           Keep(row.id, {}) \/ Forget(row.id, row.version)
    PROVE  PanelIInv'
<1>1. row.id \in Ids
  BY DEF Row
<1>2. PICK remaining \in SUBSET history :
          Keep(row.id, remaining) /\ \A a \in remaining : a.id = row.id
  BY DEF Forget
<1>3. /\ history' \in SUBSET history
      /\ pointer' \in [id : Ids, version : Nat \ {0}] \cup {NoPointer} /\ UNCHANGED open
      /\ PointerIsShown'
  BY <1>1, <1>2, KeepFacts
<1>4. history' \in SUBSET Row /\ (\A x, y \in history' : SameKey(x, y) => x = y) /\ Bounded'
  BY <1>3, ForgetFacts
<1>5. MemTypeOK' /\ UNCHANGED pc
  BY DEF PanelIInv, TypeOK, memVars, requestVars, MemTypeOK, RequestsTypeOK, Ascending
<1> QED
  BY <1>3, <1>4, <1>5 DEF PanelIInv, TypeOK, SameKey

LEMMA SettleKeeps ==
    ASSUME PanelIInv, MemTypeOK', MemStep, NEW row \in fetching, Settle(row)
    PROVE  PanelIInv'
<1>1. row \in Row /\ UNCHANGED memVars /\ fetching' \in SUBSET fetching
  BY DEF PanelIInv, TypeOK, Settle, Persisted, RolledBack, NetworkFailure
<1>2. UNCHANGED pc
  BY <1>1 DEF memVars, requestVars
<1>3. CASE Persisted(row)
  <2>1. draft[row.by] \in Row
    BY <1>1, <1>3, ArrivedRow DEF Persisted, At, PanelIInv, TypeOK, MemTypeOK, Row
  <2>2. /\ history' \in SUBSET Row /\ \A x, y \in history' : SameKey(x, y) => x = y
        /\ pointer' \in [id : Ids, version : Nat \ {0}] /\ open' \in BOOLEAN
        /\ Bounded' /\ PointerIsShown'
    BY <1>3, <2>1, ShowFacts DEF Persisted
  <2> QED
    BY <1>1, <1>2, <2>2 DEF PanelIInv, TypeOK, SameKey
<1>4. CASE RolledBack(row) /\ Forget(row.id, row.version)
  BY <1>1, <1>4, ForgetKeeps
<1>5. CASE RolledBack(row) /\ UNCHANGED <<history, pointer, open>>
  BY <1>1, <1>2, <1>5 DEF PanelIInv, TypeOK, SameKey, Bounded, PointerIsShown
<1>6. CASE NetworkFailure(row)
  BY <1>1, <1>2, <1>6 DEF NetworkFailure, PanelIInv, TypeOK, SameKey, Bounded, PointerIsShown
<1> QED
  BY <1>3, <1>4, <1>5, <1>6 DEF Settle, RolledBack

LEMMA UserKeeps ==
    ASSUME PanelIInv, MemTypeOK', MemStep, UserStep
    PROVE  PanelIInv'
<1>1. UNCHANGED memVars
  BY DEF UserStep, Select, SetOpen, RemoveShown, ShowStored, Reload
<1>2. UNCHANGED pc
  BY <1>1 DEF memVars, requestVars
<1>3. CASE \E row \in history : Select(row)
  <2> PICK row \in history : Select(row)
    BY <1>3
  <2>1. KeyOf(row) \in [id : Ids, version : Nat \ {0}]
    BY DEF PanelIInv, TypeOK, KeyOf, Row
  <2> QED
    BY <1>2, <2>1 DEF Select, PanelIInv, TypeOK, SameKey, Bounded, PointerIsShown, KeyOf
<1>4. CASE \E row \in history : RemoveShown(row)
  BY <1>1, <1>4, ForgetKeeps DEF RemoveShown, PanelIInv, TypeOK
<1>5. CASE \E value \in BOOLEAN : SetOpen(value)
  BY <1>2, <1>5 DEF SetOpen, PanelIInv, TypeOK, SameKey, Bounded, PointerIsShown
<1>6. CASE \E row \in AllRows : ShowStored(row)
  <2> PICK row \in AllRows : ShowStored(row)
    BY <1>6
  <2>1. row \in Row
    BY RowFacts DEF AllRows, PanelIInv, TypeOK
  <2>2. /\ history' \in SUBSET Row /\ \A x, y \in history' : SameKey(x, y) => x = y
        /\ pointer' \in [id : Ids, version : Nat \ {0}] /\ open' \in BOOLEAN
        /\ Bounded' /\ PointerIsShown'
    BY <2>1, ShowFacts DEF ShowStored
  <2> QED
    BY <1>2, <2>2 DEF ShowStored, PanelIInv, TypeOK, SameKey
<1>7. CASE Reload
  <2>1. \A row \in AllRows : row \in Row
    BY RowFacts DEF AllRows, PanelIInv, TypeOK
  <2>2. \A x, y \in AllRows : SameKey(x, y) => x = y
    <3> SUFFICES ASSUME NEW x \in AllRows, NEW y \in AllRows, SameKey(x, y) PROVE x = y
      OBVIOUS
    <3>1. PICK id \in Ids : x \in ToSet(byId[id])
      BY DEF AllRows
    <3>2. y \in ToSet(byId[id]) /\ x.version = y.version
      BY <3>1, RowFacts DEF PanelIInv, TypeOK, SameKey
    <3>3. PICK i \in 1 .. Len(byId[id]) : byId[id][i] = x
      BY <3>1, RowFacts DEF PanelIInv, TypeOK
    <3>4. PICK j \in 1 .. Len(byId[id]) : byId[id][j] = y
      BY <3>2, RowFacts DEF PanelIInv, TypeOK
    <3>5. /\ i < j => x.version < y.version
          /\ j < i => y.version < x.version
      BY <3>3, <3>4 DEF PanelIInv, TypeOK, MemTypeOK, Ascending
    <3>6. x.version \in Nat
      BY <2>1 DEF Row
    <3>7. Len(byId[id]) \in Nat
      BY RowFacts DEF PanelIInv, TypeOK
    <3> QED
      BY <3>2, <3>3, <3>4, <3>5, <3>6, <3>7
  <2>3. \A id \in Ids : \E n \in Nat : \A row \in AllRows : row.id = id => row.version <= n
    <3> SUFFICES ASSUME NEW id \in Ids
                 PROVE  \E n \in Nat : \A row \in AllRows : row.id = id => row.version <= n
      OBVIOUS
    <3>1. ToSet(byId[id]) = {row \in AllRows : row.id = id}
          /\ (byId[id] = <<>> <=> ToSet(byId[id]) = {})
      BY RowFacts DEF PanelIInv, TypeOK
    <3>2. CASE byId[id] = <<>>
      BY <3>1, <3>2
    <3>3. CASE byId[id] # <<>>
      BY <3>1, <3>3, LastFacts DEF PanelIInv, TypeOK
    <3> QED
      BY <3>2, <3>3
  <2>4. history' = {} \/ history' = AllRows
    BY <1>7 DEF Reload
  <2>5. Bounded'
    BY <2>3, <2>4 DEF Bounded
  <2>6. history' \subseteq Row /\ \A x, y \in history' : SameKey(x, y) => x = y
    BY <2>1, <2>2, <2>4
  <2>7. PointerIsShown'
    BY <1>7 DEF Reload, PointerIsShown
  <2> QED
    BY <1>7, <2>5, <2>6, <2>7 DEF Reload, PanelIInv, TypeOK, SameKey
<1> QED
  BY <1>3, <1>4, <1>5, <1>6, <1>7 DEF UserStep

LEMMA PanelStarts ==
    ASSUME Init
    PROVE  PanelIInv
BY MemStarts DEF Init, PanelIInv, TypeOK, Bounded, PointerIsShown

LEMMA PanelKeeps ==
    ASSUME PanelIInv, [Next]_allVars
    PROVE  PanelIInv'
<1>1. MemStep /\ MemTypeOK'
  BY StepIsMemStep, MemStepIsTabled DEF PanelIInv, TypeOK
<1>2. CASE \E r \in Requests, id \in Ids, v \in Versions :
               Publish(r, [id |-> id, version |-> v, by |-> r])
  <2> PICK r \in Requests, id \in Ids, v \in Versions :
               Publish(r, [id |-> id, version |-> v, by |-> r])
    BY <1>2
  <2>1. [id |-> id, version |-> v, by |-> r] \in Row
    BY ArtifactAssumption DEF Row
  <2> QED
    BY <1>1, <2>1, PublishKeeps
<1>3. CASE \E row \in fetching : Settle(row)
  BY <1>1, <1>3, SettleKeeps
<1>4. CASE UserStep
  BY <1>1, <1>4, UserKeeps
<1>5. CASE UNCHANGED panelVars
  BY <1>1, <1>5, StoreKeeps
<1> QED
  BY <1>2, <1>3, <1>4, <1>5 DEF Next, PostElsewhere, allVars

(* The last of each id is the one with the largest version.                *)
LEMMA SameLists ==
    ASSUME MemTypeOK
    PROVE  ListsAgree
<1>1. \A row \in AllRows : row.id \in Ids /\ row.by \in Requests /\ row \in Row
  BY RowFacts DEF AllRows, Row
<1>2. ASSUME NEW filter \in SUBSET Requests PROVE MemAll(filter) = Table!ListAll(filter)
  BY DEF MemAll, Matching, Table!ListAll, AllRows
<1>3. ASSUME NEW row \in MemLatest(Requests) PROVE row \in Table!ListLatest(Requests)
  <2>1. PICK id \in Ids : byId[id] # <<>> /\ row = Last(byId[id])
    BY <1>3 DEF MemLatest, Matching
  <2>2. /\ row \in ToSet(byId[id])
        /\ \A other \in ToSet(byId[id]) : other.version <= row.version
    BY <2>1, LastFacts
  <2>3. ToSet(byId[id]) = {other \in AllRows : other.id = id}
    BY RowFacts
  <2> QED
    BY <1>1, <2>2, <2>3 DEF Table!ListLatest, Table!ListAll
<1>4. ASSUME NEW row \in Table!ListLatest(Requests) PROVE row \in MemLatest(Requests)
  <2>1. /\ row \in AllRows
        /\ \A other \in AllRows :
              other.by \in Requests /\ other.id = row.id => other.version <= row.version
    BY <1>4 DEF Table!ListLatest, Table!ListAll
  <2> DEFINE seq == byId[row.id]
  <2>2. row.id \in Ids
    BY <1>1, <2>1
  <2>3. ToSet(seq) = {other \in AllRows : other.id = row.id} /\ (seq = <<>> <=> ToSet(seq) = {})
    BY <2>2, RowFacts
  <2>4. row \in ToSet(seq) /\ seq # <<>>
    BY <2>1, <2>3
  <2>5. /\ Last(seq) \in ToSet(seq) /\ Last(seq).version \in Nat /\ row.version \in Nat
        /\ row.version <= Last(seq).version
        /\ row.version = Last(seq).version => row = Last(seq)
    BY <2>2, <2>4, LastFacts
  <2>6. Last(seq).version <= row.version
    BY <1>1, <2>1, <2>3, <2>5
  <2>7. row = Last(seq)
    BY <2>5, <2>6
  <2> QED
    BY <1>1, <2>1, <2>2, <2>4, <2>7 DEF MemLatest, Matching
<1> QED
  BY <1>2, <1>3, <1>4 DEF ListsAgree

(* What is on screen exists, also when a publish is rolled back or another *)
(* version removed in between (canvas-reducer-handlers.ts:83-115), and the *)
(* two stores list the same artifacts (store.ts:130-147, 371-401).         *)
THEOREM PanelIsKept == Spec => []PanelKept
<1>1. PanelIInv => PanelKept
  BY SameLists DEF PanelIInv, PanelKept, TypeOK
<1> QED
  BY <1>1, PanelStarts, PanelKeeps, PTL DEF Spec

----------------------------------------------------------------------------
StoreProofs == INSTANCE ArtifactStoreProofs WITH table <- AllRows

LEMMA TableStarts ==
    ASSUME Table!Init
    PROVE  StoreProofs!IInv
<1>1. StoreProofs!Init
  BY DEF Table!Init, StoreProofs!Init, Table!RequestsInit, StoreProofs!RequestsInit
<1> QED
  BY <1>1, StoreProofs!InitInv, ArtifactAssumption DEF Row, StoreProofs!Row

LEMMA TableKeeps ==
    ASSUME StoreProofs!IInv, [Table!Next]_(Table!storeVars)
    PROVE  StoreProofs!IInv'
<1>1. CASE Table!Next
  <2>1. ASSUME NEW r \in Requests, Table!Receive(r) PROVE StoreProofs!Next
    BY <2>1 DEF StoreProofs!Next, Table!Receive, StoreProofs!Receive, Table!Post, StoreProofs!Post,
                Table!Admit, StoreProofs!Admit, Table!Reject, StoreProofs!Reject, Table!At,
                StoreProofs!At, Table!GoTo, StoreProofs!GoTo
  <2>2. ASSUME NEW r \in Requests, Table!Get(r) PROVE StoreProofs!Next
    BY <2>2 DEF StoreProofs!Next, Table!Get, StoreProofs!Get, Table!Found, StoreProofs!Found,
                Table!RowsOf, StoreProofs!RowsOf, Table!At, StoreProofs!At, Table!GoTo,
                StoreProofs!GoTo
  <2>3. ASSUME NEW r \in Requests, Table!Number(r) PROVE StoreProofs!Next
    BY <2>3 DEF StoreProofs!Next, Table!Number, StoreProofs!Number, Table!Numbered,
                StoreProofs!Numbered, Table!IsLatest, StoreProofs!IsLatest, Table!RowsOf,
                StoreProofs!RowsOf, Table!At, StoreProofs!At, Table!GoTo, StoreProofs!GoTo
  <2>4. ASSUME NEW r \in Requests, Table!Insert(r) PROVE StoreProofs!Next
    BY <2>4 DEF StoreProofs!Next, Table!Insert, StoreProofs!Insert, Table!Inserted,
                StoreProofs!Inserted, Table!Taken, StoreProofs!Taken, Table!SameKey,
                StoreProofs!SameKey, Table!At, StoreProofs!At, Table!GoTo, StoreProofs!GoTo
  <2>5. ASSUME NEW id \in Ids, Table!Remove(id) PROVE StoreProofs!Next
    BY <2>5 DEF StoreProofs!Next, Table!Remove, StoreProofs!Remove, Table!Delete,
                StoreProofs!Delete, Table!Gone, StoreProofs!Gone, Table!RowsOf, StoreProofs!RowsOf
  <2>6. ASSUME NEW row \in AllRows, Table!RemoveVersion(row.id, row.version)
        PROVE  StoreProofs!Next
    BY <2>6 DEF StoreProofs!Next, Table!RemoveVersion, StoreProofs!RemoveVersion, Table!Delete,
                StoreProofs!Delete, Table!Gone, StoreProofs!Gone, Table!RowsOf, StoreProofs!RowsOf
  <2>7. StoreProofs!Next
    BY <1>1, <2>1, <2>2, <2>3, <2>4, <2>5, <2>6 DEF Table!Next
  <2> QED
    BY <2>7, StoreProofs!NextInv, ArtifactAssumption, Zenon DEF Row, StoreProofs!Row
<1>2. CASE UNCHANGED Table!storeVars
  <2>1. UNCHANGED StoreProofs!storeVars
    BY <1>2 DEF Table!storeVars, StoreProofs!storeVars, Table!requestVars, StoreProofs!requestVars
  <2> QED
    BY <2>1, StoreProofs!NextInv, ArtifactAssumption, Zenon DEF Row, StoreProofs!Row
<1> QED
  BY <1>1, <1>2

(* What holds of the table holds of the panel's store: two publishes are   *)
(* never both told 201 for one version (use-canvas.ts:96-97), and one that *)
(* succeeds is newer than what its handler saw (route-handlers.ts:150-157). *)
THEOREM PanelPublishesAreKept == Spec => [](NoSharedVersion /\ NewerThanSeen)
<1>1. StoreProofs!IInv => NoSharedVersion /\ NewerThanSeen
  <2>1. StoreProofs!IInv => StoreProofs!NoSharedVersion /\ StoreProofs!NewerThanSeen
    BY StoreProofs!Unshared, StoreProofs!Newer, ArtifactAssumption, Zenon DEF Row, StoreProofs!Row
  <2> QED
    BY <2>1 DEF NoSharedVersion, StoreProofs!NoSharedVersion, NewerThanSeen,
                StoreProofs!NewerThanSeen, SameKey, StoreProofs!SameKey
<1> QED
  BY <1>1, TableStarts, TableKeeps, MemoryIsTheTable, PTL DEF ImplementsTable, Table!Spec

----------------------------------------------------------------------------
(* The bus.  What the sequences of handlers and publications are made of,  *)
(* as they grow and shrink.                                                *)
LEMMA HandlersAdded ==
    ASSUME NEW S, NEW s \in Seq(S), NEW e \in S
    PROVE  /\ Append(s, e) \in Seq(S) /\ ToSet(Append(s, e)) = ToSet(s) \cup {e}
           /\ IsInjective(s) /\ e \notin ToSet(s) => IsInjective(Append(s, e))
<1> DEFINE t == Append(s, e)
<1>1. /\ t \in Seq(S) /\ Len(t) = Len(s) + 1 /\ Len(s) \in Nat /\ t[Len(s) + 1] = e
      /\ \A i \in 1 .. Len(s) : t[i] = s[i]
  BY AppendProperties
<1>2. DOMAIN t = 1 .. Len(s) + 1 /\ DOMAIN s = 1 .. Len(s)
  BY <1>1
<1> HIDE DEF t
<1>3. ToSet(t) = ToSet(s) \cup {e}
  <2>1. \A i \in 1 .. Len(s) + 1 : i \in 1 .. Len(s) \/ i = Len(s) + 1
    BY <1>1
  <2>2. \A i \in 1 .. Len(s) : i \in 1 .. Len(s) + 1
    BY <1>1
  <2>3. Len(s) + 1 \in 1 .. Len(s) + 1
    BY <1>1
  <2> QED
    BY <1>1, <1>2, <2>1, <2>2, <2>3, Zenon DEF ToSet
<1>4. ASSUME IsInjective(s), e \notin ToSet(s), NEW i \in DOMAIN t, NEW j \in DOMAIN t, t[i] = t[j]
      PROVE  i = j
  <2>1. \A k \in 1 .. Len(s) : s[k] # e
    BY <1>2, <1>4, Zenon DEF ToSet
  <2> QED
    BY <1>1, <1>2, <1>4, <2>1 DEF IsInjective
<1> QED
  BY <1>1, <1>3, <1>4 DEF t, IsInjective

LEMMA FirstHandled ==
    ASSUME NEW S, NEW s \in Seq(S), s # <<>>
    PROVE  /\ s[1] \in S /\ Tail(s) \in Seq(S) /\ s[1] \in ToSet(s)
           /\ ToSet(Tail(s)) \subseteq ToSet(s) /\ ToSet(s) \subseteq ToSet(Tail(s)) \cup {s[1]}
           /\ IsInjective(s) => IsInjective(Tail(s)) /\ s[1] \notin ToSet(Tail(s))
<1> DEFINE t == Tail(s)
<1>1. /\ t \in Seq(S) /\ Len(t) = Len(s) - 1 /\ Len(s) \in Nat \ {0}
      /\ \A i \in 1 .. Len(t) : t[i] = s[i + 1]
  BY HeadTailProperties
<1>2. DOMAIN t = 1 .. Len(s) - 1 /\ DOMAIN s = 1 .. Len(s) /\ 1 \in DOMAIN s
  BY <1>1
<1>3. \A i \in DOMAIN t : i + 1 \in DOMAIN s /\ t[i] = s[i + 1] /\ i + 1 # 1
  BY <1>1, <1>2
<1>4. \A i \in DOMAIN s : i # 1 => i - 1 \in DOMAIN t /\ t[i - 1] = s[i]
  BY <1>1, <1>2
<1> HIDE DEF t
<1>5. s[1] \in ToSet(s) /\ s[1] \in S
  BY <1>2 DEF ToSet
<1>6. ToSet(t) \subseteq ToSet(s) /\ ToSet(s) \subseteq ToSet(t) \cup {s[1]}
  <2>1. \A i \in DOMAIN t : t[i] \in ToSet(s)
    BY <1>3 DEF ToSet
  <2>2. \A i \in DOMAIN s : s[i] \in ToSet(t) \cup {s[1]}
    BY <1>4 DEF ToSet
  <2> QED
    BY <2>1, <2>2, Zenon DEF ToSet
<1>7. ASSUME IsInjective(s) PROVE IsInjective(t) /\ s[1] \notin ToSet(t)
  <2>1. ASSUME NEW i \in DOMAIN t, NEW j \in DOMAIN t, t[i] = t[j] PROVE i = j
    <3>1. i + 1 = j + 1
      BY <1>3, <1>7, <2>1 DEF IsInjective
    <3> QED
      BY <1>1, <1>2, <3>1
  <2>2. \A i \in DOMAIN t : t[i] # s[1]
    BY <1>2, <1>3, <1>7 DEF IsInjective
  <2> QED
    BY <2>1, <2>2, Zenon DEF IsInjective, ToSet
<1> QED
  BY <1>1, <1>5, <1>6, <1>7 DEF t

LEMMA Taken ==
    ASSUME NEW S, NEW s \in Seq(S), NEW v
    PROVE  Contains(s, v) <=> v \in ToSet(s)
BY SetFacts DEF Contains

LEMMA HandlerDeleted ==
    ASSUME NEW S, NEW s \in Seq(S), IsInjective(s), NEW v
    PROVE  /\ Deleted(s, v) \in Seq(S) /\ ToSet(Deleted(s, v)) = ToSet(s) \ {v}
           /\ IsInjective(Deleted(s, v))
<1>1. CASE ~Contains(s, v)
  BY <1>1, Taken DEF Deleted
<1>2. CASE Contains(s, v)
  <2> DEFINE n == CHOOSE i \in 1 .. Len(s) : s[i] = v
             t == RemoveAt(s, n)
  <2>1. n \in 1 .. Len(s) /\ s[n] = v
    BY <1>2 DEF Contains
  <2> HIDE DEF n
  <2>2. /\ t \in Seq(S) /\ Len(t) = Len(s) - 1 /\ Len(s) \in Nat
        /\ \A i \in 1 .. Len(s) - 1 : t[i] = IF i < n THEN s[i] ELSE s[i + 1]
    <3>1. Len(s) \in Nat
      OBVIOUS
    <3>2. n \in 1 .. Len(s)
      BY <2>1
    <3> QED
      BY <3>1, <3>2, RemoveFacts, Zenon
  <2>3. DOMAIN t = 1 .. Len(s) - 1 /\ DOMAIN s = 1 .. Len(s)
    BY <2>2
  <2> HIDE DEF t
  <2>4. Deleted(s, v) = t
    BY <1>2 DEF Deleted, n, t
  <2> DEFINE from(i) == IF i < n THEN i ELSE i + 1
  <2>5. \A i \in DOMAIN t : from(i) \in DOMAIN s /\ from(i) # n /\ t[i] = s[from(i)]
    BY <2>1, <2>2, <2>3
  <2>6. \A i, j \in DOMAIN t : from(i) = from(j) => i = j
    BY <2>1, <2>2, <2>3
  <2>7. \A i \in DOMAIN s : i # n => \E j \in DOMAIN t : from(j) = i
    <3> SUFFICES ASSUME NEW i \in DOMAIN s, i # n PROVE \E j \in DOMAIN t : from(j) = i
      OBVIOUS
    <3>1. CASE i < n
      BY <2>1, <2>2, <2>3, <3>1
    <3>2. CASE i > n
      <4>1. i - 1 \in DOMAIN t /\ from(i - 1) = i
        BY <2>1, <2>2, <2>3, <3>2
      <4> QED
        BY <4>1
    <3> QED
      BY <2>1, <2>2, <2>3, <3>1, <3>2
  <2> HIDE DEF from
  <2>8. n \in DOMAIN s
    BY <2>1, <2>3
  <2>9. ToSet(t) = ToSet(s) \ {v}
    <3>1. \A i \in DOMAIN t : t[i] \in ToSet(s) /\ t[i] # v
      BY <2>1, <2>5, <2>8 DEF ToSet, IsInjective
    <3>2. \A i \in DOMAIN s : s[i] # v => s[i] \in ToSet(t)
      BY <2>1, <2>5, <2>7 DEF ToSet
    <3> QED
      BY <3>1, <3>2, Zenon DEF ToSet
  <2>10. IsInjective(t)
    BY <2>5, <2>6 DEF IsInjective
  <2> QED
    BY <2>2, <2>4, <2>9, <2>10
<1> QED
  BY <1>1, <1>2

LEMMA OrderStarts == IsInjective(<<>>) /\ \A whole : InOrder(<<>>, whole)
BY DEF IsInjective, InOrder, ToSet

LEMMA OrderGrows ==
    ASSUME NEW S, NEW a \in Seq(S), NEW b \in Seq(S), NEW e \in S
    PROVE  /\ InOrder(a, b) => InOrder(a, Append(b, e))
           /\ InOrder(a, b) => InOrder(Append(a, e), Append(b, e))
<1> DEFINE c == Append(a, e)
           d == Append(b, e)
<1>1. /\ Len(c) = Len(a) + 1 /\ Len(a) \in Nat /\ c[Len(a) + 1] = e /\ c \in Seq(S)
      /\ \A i \in 1 .. Len(a) : c[i] = a[i]
  BY AppendProperties
<1>2. /\ Len(d) = Len(b) + 1 /\ Len(b) \in Nat /\ d[Len(b) + 1] = e /\ d \in Seq(S)
      /\ \A i \in 1 .. Len(b) : d[i] = b[i]
  BY AppendProperties
<1>3. ToSet(c) = ToSet(a) \cup {e} /\ ToSet(d) = ToSet(b) \cup {e}
  BY HandlersAdded
<1>4. /\ DOMAIN a = 1 .. Len(a) /\ DOMAIN b = 1 .. Len(b)
      /\ DOMAIN c = 1 .. Len(a) + 1 /\ DOMAIN d = 1 .. Len(b) + 1
  BY <1>1, <1>2
<1> HIDE DEF c, d
<1>5. ASSUME InOrder(a, b), NEW i \in DOMAIN a, NEW j \in DOMAIN a, i < j
      PROVE  \E k, l \in DOMAIN d : k < l /\ d[k] = a[i] /\ d[l] = a[j]
  <2>1. PICK k \in DOMAIN b, l \in DOMAIN b : k < l /\ b[k] = a[i] /\ b[l] = a[j]
    BY <1>5 DEF InOrder
  <2>2. k \in DOMAIN d /\ l \in DOMAIN d /\ d[k] = b[k] /\ d[l] = b[l]
    BY <1>2, <1>4
  <2> QED
    BY <2>1, <2>2
<1>6. ASSUME InOrder(a, b) PROVE InOrder(a, d)
  BY <1>3, <1>5, <1>6 DEF InOrder
<1>7. ASSUME InOrder(a, b) PROVE InOrder(c, d)
  <2> SUFFICES ASSUME NEW i \in DOMAIN c, NEW j \in DOMAIN c, i < j
               PROVE  \E k, l \in DOMAIN d : k < l /\ d[k] = c[i] /\ d[l] = c[j]
    BY <1>3, <1>7 DEF InOrder
  <2>1. i \in DOMAIN a /\ c[i] = a[i]
    BY <1>1, <1>4
  <2>2. CASE j \in DOMAIN a
    <3>1. c[j] = a[j]
      BY <1>1, <1>4, <2>2
    <3> QED
      BY <1>5, <1>7, <2>1, <2>2, <3>1
  <2>3. CASE j = Len(a) + 1
    <3>1. a[i] \in ToSet(a)
      BY <2>1, Zenon DEF ToSet
    <3>2. a[i] \in ToSet(b)
      BY <1>7, <3>1 DEF InOrder
    <3>3. PICK k \in DOMAIN b : b[k] = a[i]
      BY <3>2, Zenon DEF ToSet
    <3>4. k \in DOMAIN d /\ Len(b) + 1 \in DOMAIN d /\ k < Len(b) + 1 /\ d[k] = c[i]
      BY <1>2, <1>4, <2>1, <3>3
    <3>5. d[Len(b) + 1] = c[j]
      BY <1>1, <1>2, <2>3
    <3> QED
      BY <3>4, <3>5
  <2> QED
    BY <1>1, <1>4, <2>2, <2>3
<1> QED
  BY <1>6, <1>7 DEF c, d

(* ToolKept is not inductive.  During an emit each subscriber has been     *)
(* told, or is still to be told, of everything emitted since it            *)
(* subscribed: Coming is what it will have been told once the loop is      *)
(* over.  The loop's Set is the one of the conversation until it is empty. *)
Statuses == {"idle", "storing", "stored", "emitting", "answered", "failed", "refused"}
Submissions == [from : {"nobody", "tool", "button"}, artifact : Artifacts,
                conversation : Conversations \cup {"none"}, status : Statuses, version : Nat]

ToolTyped ==
    /\ tool \in {"none", "refused", "up"}
    /\ submitted \in [Publications -> Submissions]
    /\ subscribed \in [Conversations -> Seq(Viewers)]
    /\ \A c \in Conversations : IsInjective(subscribed[c])
    /\ emission \in [conversation : Conversations \cup {"none"}, publication : 0 .. MaxPublishes,
                     todo : Seq(Viewers), live : BOOLEAN]
    /\ seen \in [Viewers -> Seq(Publications)] /\ due \in [Viewers -> Seq(Publications)]
    /\ message \in [pieces : Seq(Pieces), open : BOOLEAN]
    /\ message.open => Len(message.pieces) > 0
    /\ picked \subseteq [id : {"fence", "svg", "md"} \X Nat, piece : Nat, early : BOOLEAN]

EmissionFits ==
    \/ emission = NoEmission
    \/ /\ emission.conversation \in Conversations /\ emission.publication \in Publications
       /\ submitted[emission.publication].status = "emitting"
       /\ IsInjective(emission.todo)
       /\ ToSet(emission.todo) \subseteq ToSet(subscribed[emission.conversation])
       /\ emission.live \/ emission.todo = <<>>

OneConversation ==
    \A c, d \in Conversations : \A v \in ToSet(subscribed[c]) \cap ToSet(subscribed[d]) : c = d

Coming(v) ==
    IF v \in ToSet(emission.todo) THEN Append(seen[v], emission.publication) ELSE seen[v]
Delivered ==
    \A c \in Conversations : \A v \in ToSet(subscribed[c]) :
        IsInjective(Coming(v)) /\ InOrder(due[v], Coming(v))

ToldAreOut ==
    \A v \in Viewers : \A p \in ToSet(seen[v]) :
        p \in Publications /\ submitted[p].status \in {"emitting", "answered"}

(* What was accepted cannot run, and has a version once it is stored.      *)
IsSound(s) ==
    /\ s.status \in {"storing", "stored", "emitting", "answered"}
          => /\ s.conversation \in Conversations
             /\ ~Runs(s.artifact) /\ (s.from = "tool" => ~ToolRefuses(s.artifact))
    /\ s.status \in {"stored", "emitting", "answered"} => s.version > 0
AllSound == \A p \in Publications : IsSound(submitted[p])

(* A pick from a message without an open piece keeps its place and rank.   *)
RankIn(places, i) == Cardinality({j \in places : j < i})
PicksStand ==
    \A k \in picked : ~k.early /\ k.piece # 0 =>
        /\ k.piece \in 1 .. Len(message.pieces) /\ ~IsOpen(k.piece)
        /\ \/ k.piece \in Fences /\ k.id = <<"fence", RankIn(Fences, k.piece)>>
           \/ k.piece \in Svgs /\ k.id = <<"svg", RankIn(Svgs, k.piece)>>

ToolIInv ==
    /\ ToolTyped
    /\ EmissionFits
    /\ OneConversation
    /\ Delivered
    /\ ToldAreOut
    /\ AllSound
    /\ PicksStand

LEMMA QuietBus ==
    ASSUME ToolTyped, EmissionFits
    PROVE  /\ emission = NoEmission => ToSet(emission.todo) = {} /\ \A v : Coming(v) = seen[v]
           /\ \A c \in Conversations : ToSet(subscribed[c]) \subseteq Viewers
           /\ \A v \in Viewers : ToSet(seen[v]) \subseteq Publications
<1>1. emission = NoEmission => emission.todo = <<>>
  BY DEF NoEmission
<1>2. ToSet(<<>>) = {}
  BY DEF ToSet
<1>3. \A c \in Conversations : ToSet(subscribed[c]) \subseteq Viewers
  BY SetFacts DEF ToolTyped
<1>4. \A v \in Viewers : ToSet(seen[v]) \subseteq Publications
  BY SetFacts DEF ToolTyped
<1> QED
  BY <1>1, <1>2, <1>3, <1>4 DEF Coming

LEMMA FlawsFit ==
    ASSUME NEW a \in Artifacts, a.flaw \in FlawsOf(a.kind) \cup {"none"}
    PROVE  ~Runs(a)
<1>1. DOMAIN Stripped = {"svg", "mermaid", "html"}
  BY DEF Stripped
<1>2. /\ Stripped["svg"] = {"script", "jsUrl", "onHandler", "iframe"}
      /\ Stripped["mermaid"] = {"script", "jsUrl", "onHandler", "iframe", "click"}
      /\ Stripped["html"] = {"script", "metaRefresh", "iframe", "onHandler", "jsUrl"}
  BY DEF Stripped
<1>3. CASE a.kind = "svg"
  <2>1. FlawsOf(a.kind) = {"script", "jsUrl", "onHandler", "iframe"}
    BY <1>3 DEF FlawsOf
  <2> QED
    BY <1>2, <1>3, <2>1 DEF Runs
<1>4. CASE a.kind = "mermaid"
  <2>1. FlawsOf(a.kind) = {"script", "jsUrl", "onHandler", "iframe", "click"}
    BY <1>4 DEF FlawsOf
  <2> QED
    BY <1>2, <1>4, <2>1 DEF Runs
<1>5. CASE a.kind = "html"
  <2>1. FlawsOf(a.kind) = {"script", "jsUrl", "onHandler", "iframe", "metaRefresh"}
    BY <1>5 DEF FlawsOf
  <2> QED
    BY <1>2, <1>5, <2>1 DEF Runs
<1> QED
  BY <1>1, <1>3, <1>4, <1>5 DEF Runs

(* The messages: nothing that was closed changes as the message grows.     *)
LEMMA PicksStill ==
    ASSUME PicksStand, UNCHANGED <<message, picked>>
    PROVE  PicksStand'
BY DEF PicksStand, IsOpen, Fences, Svgs, RankIn, IsFence, IsSvg

LEMMA ClosedStay ==
    ASSUME ToolTyped, NEW piece \in Pieces, NEW more \in BOOLEAN, MessageGrows(piece, more)
    PROVE  /\ message' \in [pieces : Seq(Pieces), open : BOOLEAN]
           /\ Len(message'.pieces) >= Len(message.pieces) /\ Len(message'.pieces) > 0
           /\ \A i \in 1 .. Len(message.pieces) :
                 /\ message'.pieces[i] = message.pieces[i]
                 /\ ~IsOpen(i) => ~IsOpen(i)'
<1>0. message \in [pieces : Seq(Pieces), open : BOOLEAN] /\ Len(message.pieces) \in Nat
  BY DEF ToolTyped
<1>1. CASE message.open /\ message' = [message EXCEPT !.open = FALSE]
  <2>1. message' \in [pieces : Seq(Pieces), open : BOOLEAN] /\ ~message'.open
        /\ message'.pieces = message.pieces
    BY <1>0, <1>1
  <2> QED
    BY <1>0, <1>1, <2>1 DEF IsOpen, ToolTyped
<1>2. CASE ~message.open /\ message' = [pieces |-> Append(message.pieces, piece), open |-> more]
  <2>1. message'.pieces = Append(message.pieces, piece) /\ message'.open = more
    BY <1>2
  <2>2. /\ message'.pieces \in Seq(Pieces) /\ Len(message'.pieces) = Len(message.pieces) + 1
        /\ \A i \in 1 .. Len(message.pieces) : message'.pieces[i] = message.pieces[i]
    BY <1>0, <2>1, AppendProperties
  <2>3. message' \in [pieces : Seq(Pieces), open : BOOLEAN]
    BY <1>2, <2>1, <2>2
  <2> QED
    BY <1>0, <2>2, <2>3 DEF IsOpen
<1> QED
  BY <1>1, <1>2 DEF MessageGrows

LEMMA GrowKeeps ==
    ASSUME ToolIInv, NEW piece \in Pieces, NEW more \in BOOLEAN, MessageGrows(piece, more)
    PROVE  ToolIInv'
<1>1. UNCHANGED <<tool, submitted, subscribed, emission, seen, due, picked>>
  BY DEF MessageGrows
<1>2. /\ message' \in [pieces : Seq(Pieces), open : BOOLEAN]
      /\ Len(message'.pieces) >= Len(message.pieces) /\ Len(message'.pieces) > 0
      /\ \A i \in 1 .. Len(message.pieces) :
            message'.pieces[i] = message.pieces[i] /\ (~IsOpen(i) => ~IsOpen(i)')
      /\ Len(message.pieces) \in Nat /\ Len(message'.pieces) \in Nat
  BY ClosedStay DEF ToolIInv, ToolTyped
<1>3. ToolTyped'
  BY <1>1, <1>2 DEF ToolIInv, ToolTyped
<1>4. EmissionFits' /\ OneConversation' /\ Delivered' /\ ToldAreOut' /\ AllSound'
  BY <1>1 DEF ToolIInv, EmissionFits, OneConversation, Delivered, Coming, ToldAreOut, AllSound
<1>5. PicksStand'
  <2> SUFFICES ASSUME NEW k \in picked, ~k.early, k.piece # 0
               PROVE  /\ k.piece \in 1 .. Len(message'.pieces) /\ ~IsOpen(k.piece)'
                      /\ \/ /\ k.piece \in Fences'
                            /\ k.id = <<"fence", RankIn(Fences', k.piece)>>
                         \/ /\ k.piece \in Svgs'
                            /\ k.id = <<"svg", RankIn(Svgs', k.piece)>>
    BY <1>1 DEF PicksStand, RankIn
  <2> DEFINE i == k.piece
  <2>1. /\ i \in 1 .. Len(message.pieces) /\ ~IsOpen(i)
        /\ \/ i \in Fences /\ k.id = <<"fence", RankIn(Fences, i)>>
           \/ i \in Svgs /\ k.id = <<"svg", RankIn(Svgs, i)>>
    BY DEF ToolIInv, PicksStand
  <2> HIDE DEF i
  <2>2. i \in 1 .. Len(message'.pieces) /\ ~IsOpen(i)'
    BY <1>2, <2>1
  <2>3. ASSUME NEW j \in 1 .. Len(message.pieces), ~IsOpen(j)
        PROVE  (j \in Fences' <=> j \in Fences) /\ (j \in Svgs' <=> j \in Svgs)
    <3>1. j \in 1 .. Len(message'.pieces) /\ ~IsOpen(j)' /\ message'.pieces[j] = message.pieces[j]
      BY <1>2, <2>3
    <3> HIDE DEF IsOpen
    <3> QED
      BY <2>3, <3>1 DEF Fences, Svgs, IsFence, IsSvg
  <2>4. \A j \in 1 .. Len(message.pieces) : j < i => ~IsOpen(j)
    BY <1>2, <2>1 DEF IsOpen
  <2>5. Fences \subseteq 1 .. Len(message.pieces) /\ Svgs \subseteq 1 .. Len(message.pieces)
        /\ Fences' \subseteq 1 .. Len(message'.pieces) /\ Svgs' \subseteq 1 .. Len(message'.pieces)
    BY DEF Fences, Svgs
  <2>6. \A j \in 1 .. Len(message'.pieces) : j < i => j \in 1 .. Len(message.pieces)
    BY <1>2, <2>1
  <2>7. {j \in Fences' : j < i} = {j \in Fences : j < i}
    BY <2>3, <2>4, <2>5, <2>6
  <2>8. {j \in Svgs' : j < i} = {j \in Svgs : j < i}
    BY <2>3, <2>4, <2>5, <2>6
  <2>9. RankIn(Fences', i) = RankIn(Fences, i) /\ RankIn(Svgs', i) = RankIn(Svgs, i)
    BY <2>7, <2>8 DEF RankIn
  <2> QED
    BY <2>1, <2>2, <2>3, <2>9 DEF i
<1> QED
  BY <1>3, <1>4, <1>5 DEF ToolIInv

LEMMA RanksDiffer ==
    ASSUME NEW n \in Nat, NEW S \in SUBSET (1 .. n), NEW i \in S, NEW j \in S,
           RankIn(S, i) = RankIn(S, j)
    PROVE  i = j
<1>1. ASSUME NEW k \in S, NEW l \in S, k < l PROVE RankIn(S, k) < RankIn(S, l)
  <2> DEFINE below == {m \in S : m < k}
             under == {m \in S : m < l}
  <2>1. IsFiniteSet(1 .. n)
    BY FS_Interval
  <2>2. IsFiniteSet(under)
    BY <2>1, FS_Subset
  <2>3. below \in SUBSET under /\ k \in under /\ k \notin below
    <3>1. \A m \in S : m \in Nat
      OBVIOUS
    <3>2. \A m \in S : m < k => m < l
      BY <1>1, <3>1
    <3>3. ~(k < k)
      BY <3>1
    <3> QED
      BY <1>1, <3>2, <3>3
  <2> HIDE DEF below, under
  <2>4. /\ IsFiniteSet(below) /\ Cardinality(below) <= Cardinality(under)
        /\ Cardinality(under) = Cardinality(below) => under = below
    BY <2>2, <2>3, FS_Subset
  <2>5. Cardinality(under) \in Nat /\ Cardinality(below) \in Nat
    BY <2>2, <2>4, FS_CardinalityType
  <2>6. Cardinality(below) < Cardinality(under)
    BY <2>3, <2>4, <2>5
  <2> QED
    BY <2>6 DEF RankIn, below, under
<1>2. RankIn(S, i) \in Nat /\ RankIn(S, j) \in Nat
  <2>1. IsFiniteSet(1 .. n)
    BY FS_Interval
  <2>2. \A m : IsFiniteSet({k \in S : k < m})
    BY <2>1, FS_Subset
  <2> QED
    BY <2>2, FS_CardinalityType DEF RankIn
<1>3. i \in Nat /\ j \in Nat
  OBVIOUS
<1> QED
  BY <1>1, <1>2, <1>3

(* The publications: what a step that only moves one of them on must show. *)
LEMMA MovingOnKeeps ==
    ASSUME ToolIInv, NEW p \in Publications, NEW r \in Submissions, IsSound(r),
           emission = NoEmission, submitted[p].status \notin {"emitting", "answered"},
           submitted' = [submitted EXCEPT ![p] = r],
           UNCHANGED <<tool, subscribed, emission, seen, due, message>>
    PROVE  /\ UNCHANGED picked => ToolIInv'
           /\ submitted' \in [Publications -> Submissions]
           /\ EmissionFits' /\ OneConversation' /\ Delivered' /\ ToldAreOut' /\ AllSound'
<1>1. submitted \in [Publications -> Submissions]
  BY DEF ToolIInv, ToolTyped
<1>2. submitted' \in [Publications -> Submissions]
  BY <1>1
<1>3. EmissionFits' /\ OneConversation'
  BY DEF ToolIInv, EmissionFits, OneConversation
<1>4. Delivered'
  BY DEF ToolIInv, Delivered, Coming
<1>5. ToldAreOut'
  <2>1. \A q \in Publications : q # p => submitted'[q] = submitted[q]
    BY <1>1
  <2> QED
    BY <2>1 DEF ToolIInv, ToldAreOut
<1>6. AllSound'
  BY <1>1 DEF ToolIInv, AllSound
<1>7. ASSUME UNCHANGED picked PROVE ToolTyped' /\ PicksStand'
  <2>1. ToolTyped'
    BY <1>2, <1>7 DEF ToolIInv, ToolTyped
  <2>2. PicksStand'
    BY <1>7, PicksStill DEF ToolIInv
  <2> QED
    BY <2>1, <2>2
<1> QED
  BY <1>2, <1>3, <1>4, <1>5, <1>6, <1>7 DEF ToolIInv

LEMMA IdleIsSound == Idle \in Submissions /\ Idle.status = "idle" /\ IsSound(Idle)
<1>1. Idle.artifact \in Artifacts
  BY DEF Idle, Artifacts, ArtifactKinds, Flaws
<1> QED
  BY <1>1 DEF Idle, Submissions, Statuses, IsSound

LEMMA ToolStarts == ASSUME ToolInit PROVE ToolIInv
<1> USE DEF ToolInit
<1>1. NoEmission \in [conversation : Conversations \cup {"none"}, publication : 0 .. MaxPublishes,
                      todo : Seq(Viewers), live : BOOLEAN]
  BY ToolAssumption DEF NoEmission
<1>2. IsInjective(<<>>) /\ ToSet(<<>>) = {}
  BY OrderStarts DEF ToSet
<1>3. ToolTyped
  BY <1>1, <1>2, IdleIsSound DEF ToolTyped
<1>4. EmissionFits /\ OneConversation /\ Delivered /\ ToldAreOut
  BY <1>2 DEF EmissionFits, OneConversation, Delivered, ToldAreOut
<1>5. AllSound
  BY IdleIsSound DEF AllSound
<1> QED
  BY <1>3, <1>4, <1>5 DEF ToolIInv, PicksStand

LEMMA DefineKeeps == ASSUME ToolIInv, DefineArtifactTool PROVE ToolIInv'
<1>1. UNCHANGED <<submitted, subscribed, emission, seen, due, message, picked>>
      /\ tool' \in {"none", "refused", "up"}
  BY DEF DefineArtifactTool
<1>2. ToolTyped'
  BY <1>1 DEF ToolIInv, ToolTyped
<1>3. PicksStand'
  BY <1>1, PicksStill DEF ToolIInv
<1>4. EmissionFits' /\ OneConversation' /\ Delivered' /\ ToldAreOut' /\ AllSound'
  BY <1>1 DEF ToolIInv, EmissionFits, OneConversation, Delivered, Coming, ToldAreOut, AllSound
<1> QED
  BY <1>2, <1>3, <1>4 DEF ToolIInv

LEMMA CallToolKeeps ==
    ASSUME ToolIInv, NEW p \in Publications, NEW a \in Candidates,
           NEW c \in Conversations, CallTool(p, a, c)
    PROVE  ToolIInv'
<1> DEFINE refused == [Idle EXCEPT !.from = "tool", !.status = "refused"]
           accepted == [from |-> "tool", artifact |-> a, conversation |-> c, version |-> 0,
                        status |-> "storing"]
           r == IF ToolRefuses(a) THEN refused ELSE accepted
<1>1. refused \in Submissions /\ refused.status = "refused"
  BY IdleIsSound DEF Submissions, Statuses
<1>2. a \in Artifacts /\ ~Runs(a)
  BY FlawsFit, ToolAssumption
<1>3. accepted \in Submissions /\ accepted.status = "storing"
  BY <1>2 DEF Submissions, Statuses
<1>4. ~ToolRefuses(a) => IsSound(accepted)
  BY <1>2 DEF IsSound
<1>5. IsSound(refused)
  BY <1>1 DEF IsSound
<1>6. submitted' = [submitted EXCEPT ![p] = r] /\ emission = NoEmission
      /\ UNCHANGED <<tool, subscribed, emission, seen, due, message, picked>>
  BY DEF CallTool
<1>7. submitted[p].status \notin {"emitting", "answered"}
  BY DEF CallTool, Idle
<1> HIDE DEF refused, accepted
<1>8. r \in Submissions /\ IsSound(r)
  BY <1>1, <1>3, <1>4, <1>5
<1> HIDE DEF r
<1> QED
  BY <1>6, <1>7, <1>8, MovingOnKeeps

LEMMA InsertRowKeeps ==
    ASSUME ToolIInv, NEW p \in Publications, NEW ok \in BOOLEAN, InsertRow(p, ok)
    PROVE  ToolIInv'
<1> DEFINE n == Cardinality({q \in Publications : submitted[q].version > 0})
           status == IF ok THEN "stored" ELSE "failed"
           version == IF ok THEN 1 + n ELSE 0
           r == [submitted[p] EXCEPT !.status = status, !.version = version]
<1>1. n \in Nat
  <2>1. IsFiniteSet(Publications)
    BY FS_Interval, ToolAssumption DEF Publications
  <2>2. IsFiniteSet({q \in Publications : submitted[q].version > 0})
    BY <2>1, FS_Subset
  <2> QED
    BY <2>2, FS_CardinalityType
<1>2. submitted[p] \in Submissions /\ submitted[p].status = "storing" /\ emission = NoEmission
      /\ IsSound(submitted[p]) /\ submitted \in [Publications -> Submissions]
      /\ UNCHANGED <<tool, subscribed, emission, seen, due, message, picked>>
  BY DEF InsertRow, ToolIInv, ToolTyped, AllSound
<1>3. submitted' = [submitted EXCEPT ![p].status = status, ![p].version = version]
  BY DEF InsertRow
<1> HIDE DEF n
<1>4. version \in Nat /\ status \in Statuses /\ (status = "stored" => version > 0)
      /\ status \in {"stored", "failed"}
  BY <1>1 DEF Statuses
<1> HIDE DEF status, version
<1>5. submitted' = [submitted EXCEPT ![p] = r]
  BY <1>2, <1>3
<1>6. r \in Submissions /\ r.status = status /\ r.version = version
      /\ r.from = submitted[p].from /\ r.artifact = submitted[p].artifact
      /\ r.conversation = submitted[p].conversation
  BY <1>2, <1>4 DEF Submissions
<1> HIDE DEF r
<1>7. IsSound(r)
  BY <1>2, <1>4, <1>6 DEF IsSound
<1>8. submitted[p].status \notin {"emitting", "answered"}
  BY <1>2
<1> QED
  BY <1>2, <1>5, <1>6, <1>7, <1>8, MovingOnKeeps

(* Open in canvas: what a snippet is, and where it stands in its message.  *)
LEMMA RankType == ASSUME NEW n \in Nat, NEW S \in SUBSET (1 .. n), NEW i PROVE RankIn(S, i) \in Nat
<1>1. IsFiniteSet(1 .. n)
  BY FS_Interval
<1>2. IsFiniteSet({j \in S : j < i})
  BY <1>1, FS_Subset
<1> QED
  BY <1>2, FS_CardinalityType DEF RankIn

LEMMA SnippetStands ==
    ASSUME ToolTyped, NEW s \in Snippets
    PROVE  /\ \/ s.piece \in Fences /\ s.id = <<"fence", RankIn(Fences, s.piece)>>
              \/ s.piece \in Svgs /\ s.id = <<"svg", RankIn(Svgs, s.piece)>>
              \/ s.piece = 0 /\ s.id = <<"md", 0>>
           /\ s.id \in {"fence", "svg", "md"} \X Nat /\ s.piece \in Nat
<1>1. Len(message.pieces) \in Nat
  BY DEF ToolTyped
<1>2. Fences \in SUBSET (1 .. Len(message.pieces)) /\ Svgs \in SUBSET (1 .. Len(message.pieces))
  BY DEF Fences, Svgs
<1>3. \A i : RankIn(Fences, i) \in Nat /\ RankIn(Svgs, i) \in Nat
  BY <1>1, <1>2, RankType
<1>4. \/ s \in Ranked("fence", Fences) \/ s \in Ranked("svg", Svgs)
      \/ s = [id |-> <<"md", 0>>, piece |-> 0]
  BY DEF Snippets
<1>5. CASE s \in Ranked("fence", Fences)
  <2>1. s.piece \in Fences /\ s.id = <<"fence", RankIn(Fences, s.piece)>>
    <3>1. PICK i \in Fences : s = [id |-> <<"fence", RankIn(Fences, i)>>, piece |-> i]
      BY <1>5, Zenon DEF Ranked, RankIn
    <3> QED
      BY <3>1
  <2>2. s.piece \in Nat
    <3>1. s.piece \in 1 .. Len(message.pieces)
      BY <1>2, <2>1
    <3> QED
      BY <1>1, <3>1
  <2> QED
    BY <1>3, <2>1, <2>2
<1>6. CASE s \in Ranked("svg", Svgs)
  <2>1. s.piece \in Svgs /\ s.id = <<"svg", RankIn(Svgs, s.piece)>>
    <3>1. PICK i \in Svgs : s = [id |-> <<"svg", RankIn(Svgs, i)>>, piece |-> i]
      BY <1>6, Zenon DEF Ranked, RankIn
    <3> QED
      BY <3>1
  <2>2. s.piece \in Nat
    <3>1. s.piece \in 1 .. Len(message.pieces)
      BY <1>2, <2>1
    <3> QED
      BY <1>1, <3>1
  <2> QED
    BY <1>3, <2>1, <2>2
<1>7. CASE s = [id |-> <<"md", 0>>, piece |-> 0]
  BY <1>7
<1> QED
  BY <1>4, <1>5, <1>6, <1>7

LEMMA OpenInCanvasKeeps ==
    ASSUME ToolIInv, NEW p \in Publications, NEW s \in Snippets, NEW c \in Conversations,
           OpenInCanvas(p, s, c)
    PROVE  ToolIInv'
<1> DEFINE kind == SnippetKind(s)
           flaw == IF kind = "svg" THEN "script" ELSE "none"
           a == [shape |-> "valid", kind |-> kind, flaw |-> flaw]
           r == [from |-> "button", conversation |-> c, status |-> "storing", version |-> 0,
                 artifact |-> a]
           pick == [id |-> s.id, piece |-> s.piece, early |-> message.open]
<1>1. kind \in ArtifactKinds /\ flaw \in Flaws
  BY DEF SnippetKind, ArtifactKinds, Flaws
<1>2. /\ submitted' = [submitted EXCEPT ![p] = r] /\ emission = NoEmission
      /\ picked' = picked \cup {pick} /\ submitted[p] = Idle
      /\ UNCHANGED <<tool, subscribed, emission, seen, due, message>>
  BY DEF OpenInCanvas
<1> HIDE DEF kind
<1>3. a \in Artifacts /\ a.kind = kind /\ a.flaw = flaw
  BY <1>1 DEF Artifacts
<1>4. flaw \in FlawsOf(kind) \cup {"none"}
  <2>1. kind = "svg" => FlawsOf(kind) = {"script", "jsUrl", "onHandler", "iframe"}
    BY DEF FlawsOf
  <2> QED
    BY <2>1
<1> HIDE DEF a, flaw
<1>5. ~Runs(a)
  BY <1>3, <1>4, FlawsFit
<1>6. r \in Submissions
  BY <1>3 DEF Submissions, Statuses
<1>7. IsSound(r)
  BY <1>5 DEF IsSound
<1> HIDE DEF r
<1>8. submitted[p].status \notin {"emitting", "answered"}
  BY <1>2, IdleIsSound
<1>9. /\ submitted' \in [Publications -> Submissions]
      /\ EmissionFits' /\ OneConversation' /\ Delivered' /\ ToldAreOut' /\ AllSound'
  BY <1>2, <1>6, <1>7, <1>8, MovingOnKeeps
<1>10. /\ \/ s.piece \in Fences /\ s.id = <<"fence", RankIn(Fences, s.piece)>>
          \/ s.piece \in Svgs /\ s.id = <<"svg", RankIn(Svgs, s.piece)>>
          \/ s.piece = 0 /\ s.id = <<"md", 0>>
       /\ s.id \in {"fence", "svg", "md"} \X Nat /\ s.piece \in Nat
  BY SnippetStands DEF ToolIInv
<1>11. pick \in [id : {"fence", "svg", "md"} \X Nat, piece : Nat, early : BOOLEAN]
       /\ pick.id = s.id /\ pick.piece = s.piece /\ pick.early = message.open
  BY <1>10 DEF ToolIInv, ToolTyped
<1> HIDE DEF pick
<1>12. ToolTyped'
  BY <1>2, <1>9, <1>11 DEF ToolIInv, ToolTyped
<1>13. PicksStand'
  <2>1. Fences' = Fences /\ Svgs' = Svgs /\ \A i : IsOpen(i)' <=> IsOpen(i)
    BY <1>2 DEF Fences, Svgs, IsFence, IsSvg, IsOpen
  <2>2. Fences \subseteq 1 .. Len(message.pieces) /\ Svgs \subseteq 1 .. Len(message.pieces)
    BY DEF Fences, Svgs
  <2> SUFFICES ASSUME NEW k \in picked', ~k.early, k.piece # 0
               PROVE  /\ k.piece \in 1 .. Len(message.pieces) /\ ~IsOpen(k.piece)
                      /\ \/ k.piece \in Fences /\ k.id = <<"fence", RankIn(Fences, k.piece)>>
                         \/ k.piece \in Svgs /\ k.id = <<"svg", RankIn(Svgs, k.piece)>>
    BY <1>2, <2>1 DEF PicksStand, RankIn
  <2>3. CASE k \in picked
    BY <2>3 DEF ToolIInv, PicksStand
  <2>4. CASE k = pick
    <3>1. ~IsOpen(k.piece)
      BY <1>11, <2>4 DEF IsOpen
    <3> QED
      BY <1>10, <1>11, <2>2, <2>4, <3>1
  <2> QED
    BY <1>2, <2>3, <2>4
<1> QED
  BY <1>9, <1>12, <1>13 DEF ToolIInv

(* The bus, between two emits.                                             *)
LEMMA EmitKeeps == ASSUME ToolIInv, NEW p \in Publications, Emit(p) PROVE ToolIInv'
<1> DEFINE c == submitted[p].conversation
           there == ToSet(subscribed[c])
           r == [submitted[p] EXCEPT !.status = "emitting"]
<1>1. /\ emission = NoEmission /\ submitted[p].status = "stored"
      /\ emission' = [conversation |-> c, publication |-> p, todo |-> subscribed[c], live |-> TRUE]
      /\ due' = [v \in Viewers |-> IF v \in there THEN Append(due[v], p) ELSE due[v]]
      /\ UNCHANGED <<tool, subscribed, seen, message, picked>>
  BY DEF Emit
<1>2. submitted \in [Publications -> Submissions] /\ submitted[p] \in Submissions
      /\ IsSound(submitted[p]) /\ c \in Conversations
  BY <1>1 DEF ToolIInv, ToolTyped, AllSound, IsSound
<1>3. r \in Submissions /\ r.status = "emitting" /\ submitted' = [submitted EXCEPT ![p] = r]
  BY <1>1, <1>2 DEF Emit, Submissions, Statuses
<1>4. IsSound(r)
  BY <1>1, <1>2 DEF IsSound, Submissions
<1> HIDE DEF r
<1>5. /\ subscribed \in [Conversations -> Seq(Viewers)] /\ IsInjective(subscribed[c])
      /\ seen \in [Viewers -> Seq(Publications)] /\ due \in [Viewers -> Seq(Publications)]
      /\ there \subseteq Viewers /\ p \in 0 .. MaxPublishes
  BY <1>2, QuietBus DEF ToolIInv, ToolTyped, Publications
<1>6. ToolTyped'
  <2>1. emission' \in [conversation : Conversations \cup {"none"}, publication : 0 .. MaxPublishes,
                       todo : Seq(Viewers), live : BOOLEAN]
    BY <1>1, <1>2, <1>5
  <2>2. \A v \in Viewers : Append(due[v], p) \in Seq(Publications)
    BY <1>5, AppendProperties
  <2>3. due' \in [Viewers -> Seq(Publications)]
    BY <1>1, <1>5, <2>2
  <2>4. submitted' \in [Publications -> Submissions]
    BY <1>2, <1>3
  <2> QED
    BY <1>1, <2>1, <2>3, <2>4 DEF ToolIInv, ToolTyped
<1>7. emission'.todo = subscribed[c] /\ emission'.publication = p /\ emission'.conversation = c
      /\ emission'.live
  BY <1>1
<1>8. EmissionFits'
  BY <1>1, <1>2, <1>3, <1>5, <1>7 DEF EmissionFits
<1>9. ToldAreOut' /\ \A v \in Viewers : p \notin ToSet(seen[v])
  <2>1. \A v \in Viewers : p \notin ToSet(seen[v])
    BY <1>1 DEF ToolIInv, ToldAreOut
  <2>2. \A q \in Publications : q # p => submitted'[q] = submitted[q]
    BY <1>2, <1>3
  <2> QED
    BY <1>1, <2>1, <2>2 DEF ToolIInv, ToldAreOut
<1>10. Delivered'
  <2> SUFFICES ASSUME NEW d \in Conversations, NEW v \in ToSet(subscribed[d])
               PROVE  IsInjective(Coming(v)') /\ InOrder(due'[v], Coming(v)')
    BY <1>1 DEF Delivered
  <2>1. v \in Viewers /\ IsInjective(seen[v]) /\ InOrder(due[v], seen[v])
    BY <1>1, QuietBus DEF ToolIInv, Delivered
  <2>2. CASE v \in there
    <3>1. Coming(v)' = Append(seen[v], p) /\ due'[v] = Append(due[v], p)
      BY <1>1, <1>7, <2>1, <2>2 DEF Coming
    <3>2. seen[v] \in Seq(Publications) /\ due[v] \in Seq(Publications)
      BY <1>5, <2>1
    <3>3. IsInjective(Append(seen[v], p))
      BY <1>9, <2>1, <3>2, HandlersAdded
    <3>4. InOrder(Append(due[v], p), Append(seen[v], p))
      BY <2>1, <3>2, OrderGrows
    <3> QED
      BY <3>1, <3>3, <3>4
  <2>3. CASE v \notin there
    <3>1. Coming(v)' = seen[v] /\ due'[v] = due[v]
      BY <1>1, <1>7, <2>1, <2>3 DEF Coming
    <3> QED
      BY <2>1, <3>1
  <2> QED
    BY <2>2, <2>3
<1>11. OneConversation'
  BY <1>1 DEF ToolIInv, OneConversation
<1>12. AllSound'
  BY <1>2, <1>3, <1>4 DEF ToolIInv, AllSound
<1>13. PicksStand'
  BY <1>1, PicksStill DEF ToolIInv
<1> QED
  BY <1>6, <1>8, <1>9, <1>10, <1>11, <1>12, <1>13 DEF ToolIInv

LEMMA NobodyElse ==
    ASSUME ToolTyped, NEW v \in Viewers
    PROVE  \A c \in Conversations : c \in Subscribers(v) <=> v \in ToSet(subscribed[c])
<1>1. \A c \in Conversations : Contains(subscribed[c], v) <=> v \in ToSet(subscribed[c])
  BY Taken DEF ToolTyped
<1> QED
  BY <1>1 DEF Subscribers

LEMMA SubscribeToKeeps ==
    ASSUME ToolIInv, NEW v \in Viewers, NEW c \in Conversations, SubscribeTo(v, c)
    PROVE  ToolIInv'
<1>1. /\ emission = NoEmission /\ Subscribers(v) = {}
      /\ subscribed' = [subscribed EXCEPT ![c] = Append(subscribed[c], v)]
      /\ seen' = [seen EXCEPT ![v] = <<>>] /\ due' = [due EXCEPT ![v] = <<>>]
      /\ UNCHANGED <<tool, submitted, emission, message, picked>>
  BY DEF SubscribeTo, Added
<1>2. /\ subscribed \in [Conversations -> Seq(Viewers)] /\ \A d \in Conversations : IsInjective(subscribed[d])
      /\ seen \in [Viewers -> Seq(Publications)] /\ due \in [Viewers -> Seq(Publications)]
  BY DEF ToolIInv, ToolTyped
<1>3. \A d \in Conversations : v \notin ToSet(subscribed[d])
  BY <1>1, NobodyElse DEF ToolIInv
<1>4. /\ Append(subscribed[c], v) \in Seq(Viewers) /\ IsInjective(Append(subscribed[c], v))
      /\ ToSet(Append(subscribed[c], v)) = ToSet(subscribed[c]) \cup {v}
  BY <1>2, <1>3, HandlersAdded
<1>5. \A d \in Conversations : /\ subscribed'[d] \in Seq(Viewers) /\ IsInjective(subscribed'[d])
                               /\ d # c => subscribed'[d] = subscribed[d]
                               /\ d = c => ToSet(subscribed'[d]) = ToSet(subscribed[c]) \cup {v}
  BY <1>1, <1>2, <1>4
<1>6. ToolTyped'
  <2>1. subscribed' \in [Conversations -> Seq(Viewers)]
    BY <1>1, <1>2, <1>4
  <2>2. seen' \in [Viewers -> Seq(Publications)] /\ due' \in [Viewers -> Seq(Publications)]
    BY <1>1, <1>2
  <2> QED
    BY <1>1, <1>5, <2>1, <2>2 DEF ToolIInv, ToolTyped
<1>7. EmissionFits'
  BY <1>1 DEF EmissionFits
<1>8. OneConversation'
  <2> SUFFICES ASSUME NEW d \in Conversations, NEW e \in Conversations, NEW u,
                      u \in ToSet(subscribed'[d]), u \in ToSet(subscribed'[e])
               PROVE  d = e
    BY DEF OneConversation
  <2>1. CASE u = v
    BY <1>3, <1>5, <2>1
  <2>2. CASE u # v
    <3>1. u \in ToSet(subscribed[d]) /\ u \in ToSet(subscribed[e])
      BY <1>5, <2>2
    <3> QED
      BY <3>1 DEF ToolIInv, OneConversation
  <2> QED
    BY <2>1, <2>2
<1>9. \A u : Coming(u)' = seen'[u] /\ Coming(u) = seen[u]
  BY <1>1, QuietBus DEF ToolIInv, Coming
<1>10. Delivered'
  <2> SUFFICES ASSUME NEW d \in Conversations, NEW u \in ToSet(subscribed'[d])
               PROVE  IsInjective(seen'[u]) /\ InOrder(due'[u], seen'[u])
    BY <1>9 DEF Delivered
  <2>1. CASE u = v
    BY <1>1, <1>2, <2>1, OrderStarts
  <2>2. CASE u # v
    <3>1. u \in ToSet(subscribed[d])
      BY <1>5, <2>2
    <3>2. IsInjective(seen[u]) /\ InOrder(due[u], seen[u])
      BY <1>9, <3>1 DEF ToolIInv, Delivered
    <3> QED
      BY <1>1, <1>2, <2>2, <3>2
  <2> QED
    BY <2>1, <2>2
<1>11. ToldAreOut'
  <2>1. ToSet(<<>>) = {}
    BY DEF ToSet
  <2>2. \A u \in Viewers : u # v => seen'[u] = seen[u]
    BY <1>1, <1>2
  <2>3. seen'[v] = <<>>
    BY <1>1, <1>2
  <2> QED
    BY <1>1, <2>1, <2>2, <2>3 DEF ToolIInv, ToldAreOut
<1>12. AllSound'
  BY <1>1 DEF ToolIInv, AllSound
<1>13. PicksStand'
  BY <1>1, PicksStill DEF ToolIInv
<1> QED
  BY <1>6, <1>7, <1>8, <1>10, <1>11, <1>12, <1>13 DEF ToolIInv

(* Handlers that leave between two emits, one of them or all.              *)
LEMMA LeavingKeeps ==
    ASSUME ToolIInv, emission = NoEmission, subscribed' \in [Conversations -> Seq(Viewers)],
           \A c \in Conversations : /\ IsInjective(subscribed'[c])
                                    /\ ToSet(subscribed'[c]) \subseteq ToSet(subscribed[c]),
           UNCHANGED <<tool, submitted, emission, seen, due, message, picked>>
    PROVE  ToolIInv'
<1>1. ToolTyped'
  BY DEF ToolIInv, ToolTyped
<1>2. OneConversation'
  BY DEF ToolIInv, OneConversation
<1>3. EmissionFits'
  BY DEF EmissionFits
<1>4. Delivered'
  BY DEF ToolIInv, Delivered, Coming
<1>5. ToldAreOut' /\ AllSound'
  BY DEF ToolIInv, ToldAreOut, AllSound
<1>6. PicksStand'
  BY PicksStill DEF ToolIInv
<1> QED
  BY <1>1, <1>2, <1>3, <1>4, <1>5, <1>6 DEF ToolIInv

LEMMA UnsubscribeFromKeeps ==
    ASSUME ToolIInv, NEW v \in Viewers, NEW c \in Conversations, UnsubscribeFrom(v, c)
    PROVE  ToolIInv'
<1>1. /\ emission = NoEmission
      /\ subscribed' = [subscribed EXCEPT ![c] = Deleted(subscribed[c], v)]
      /\ UNCHANGED <<tool, submitted, emission, seen, due, message, picked>>
  BY DEF UnsubscribeFrom, Dropped
<1>2. /\ subscribed \in [Conversations -> Seq(Viewers)]
      /\ \A d \in Conversations : IsInjective(subscribed[d])
  BY DEF ToolIInv, ToolTyped
<1>3. /\ Deleted(subscribed[c], v) \in Seq(Viewers) /\ IsInjective(Deleted(subscribed[c], v))
      /\ ToSet(Deleted(subscribed[c], v)) = ToSet(subscribed[c]) \ {v}
  BY <1>2, HandlerDeleted
<1>4. subscribed' \in [Conversations -> Seq(Viewers)]
  BY <1>1, <1>2, <1>3
<1>5. \A d \in Conversations : /\ IsInjective(subscribed'[d])
                               /\ ToSet(subscribed'[d]) \subseteq ToSet(subscribed[d])
  BY <1>1, <1>2, <1>3
<1> QED
  BY <1>1, <1>4, <1>5, LeavingKeeps

LEMMA DisposeBusKeeps == ASSUME ToolIInv, DisposeBus PROVE ToolIInv'
<1>1. /\ emission = NoEmission /\ subscribed' = [c \in Conversations |-> <<>>]
      /\ UNCHANGED <<tool, submitted, emission, seen, due, message, picked>>
  BY DEF DisposeBus
<1>2. IsInjective(<<>>) /\ ToSet(<<>>) = {}
  BY OrderStarts DEF ToSet
<1> QED
  BY <1>1, <1>2, LeavingKeeps

(* The loop of emit.  Its next handler is one of the conversation's, and   *)
(* the Set it runs over is still the one that subscribe adds to.           *)
LEMMA LoopRuns ==
    ASSUME ToolIInv, emission # NoEmission, emission.todo # <<>>
    PROVE  /\ emission.conversation \in Conversations /\ emission.publication \in Publications
           /\ submitted[emission.publication].status = "emitting"
           /\ Iterated(emission.conversation)
           /\ emission.todo[1] \in Viewers /\ emission.todo[1] \in ToSet(emission.todo)
           /\ ToSet(emission.todo) \subseteq ToSet(subscribed[emission.conversation])
           /\ Tail(emission.todo) \in Seq(Viewers) /\ IsInjective(Tail(emission.todo))
           /\ ToSet(Tail(emission.todo)) = ToSet(emission.todo) \ {emission.todo[1]}
<1>1. /\ emission.conversation \in Conversations /\ emission.publication \in Publications
      /\ submitted[emission.publication].status = "emitting"
      /\ IsInjective(emission.todo) /\ emission.live
      /\ ToSet(emission.todo) \subseteq ToSet(subscribed[emission.conversation])
      /\ emission.todo \in Seq(Viewers)
  BY DEF ToolIInv, EmissionFits, ToolTyped
<1>2. /\ emission.todo[1] \in Viewers /\ emission.todo[1] \in ToSet(emission.todo)
      /\ Tail(emission.todo) \in Seq(Viewers) /\ IsInjective(Tail(emission.todo))
      /\ ToSet(Tail(emission.todo)) \subseteq ToSet(emission.todo)
      /\ ToSet(emission.todo) \subseteq ToSet(Tail(emission.todo)) \cup {emission.todo[1]}
      /\ emission.todo[1] \notin ToSet(Tail(emission.todo))
  BY <1>1, FirstHandled
<1> QED
  BY <1>1, <1>2 DEF Iterated

(* What holds of the loop's next step whatever its handler does: those who *)
(* stay in the loop are to be told as they were, and what they are told is *)
(* out.  Left, for each reaction, is the one viewer that comes or goes.    *)
LEMMA ToldKeeps ==
    ASSUME ToolIInv, emission # NoEmission, emission.todo # <<>>,
           NEW told, told = [seen EXCEPT ![emission.todo[1]] = Append(@, emission.publication)],
           emission'.publication = emission.publication
    PROVE  /\ told \in [Viewers -> Seq(Publications)]
           /\ \A u \in Viewers :
                 /\ seen'[u] = told[u] /\ (u \in ToSet(emission'.todo) <=> u \in ToSet(Tail(emission.todo)))
                       => Coming(u)' = Coming(u)
                 /\ \A p \in ToSet(told[u]) :
                       p \in Publications /\ submitted[p].status \in {"emitting", "answered"}
<1> DEFINE v == emission.todo[1]
           e == emission.publication
<1>1. /\ e \in Publications /\ v \in Viewers /\ v \in ToSet(emission.todo)
      /\ submitted[e].status = "emitting"
      /\ ToSet(Tail(emission.todo)) = ToSet(emission.todo) \ {v}
  BY LoopRuns
<1>2. seen \in [Viewers -> Seq(Publications)]
  BY DEF ToolIInv, ToolTyped
<1>3. Append(seen[v], e) \in Seq(Publications) /\ ToSet(Append(seen[v], e)) = ToSet(seen[v]) \cup {e}
  BY <1>1, <1>2, HandlersAdded
<1> HIDE DEF v, e
<1>4. told = [seen EXCEPT ![v] = Append(seen[v], e)]
  BY DEF v, e
<1>5. told \in [Viewers -> Seq(Publications)] /\ told[v] = Append(seen[v], e)
      /\ \A u \in Viewers : u # v => told[u] = seen[u]
  BY <1>1, <1>2, <1>3, <1>4
<1>6. ASSUME NEW u \in Viewers, seen'[u] = told[u],
             u \in ToSet(emission'.todo) <=> u \in ToSet(Tail(emission.todo))
      PROVE  Coming(u)' = Coming(u)
  <2>1. CASE u = v
    BY <1>1, <1>5, <1>6, <2>1 DEF Coming, e
  <2>2. CASE u # v
    BY <1>1, <1>5, <1>6, <2>2 DEF Coming, e
  <2> QED
    BY <2>1, <2>2
<1>7. ASSUME NEW u \in Viewers, NEW p \in ToSet(told[u])
      PROVE  p \in Publications /\ submitted[p].status \in {"emitting", "answered"}
  <2>1. CASE p \in ToSet(seen[u])
    BY <2>1 DEF ToolIInv, ToldAreOut
  <2>2. CASE p \notin ToSet(seen[u])
    <3>1. p = e
      BY <1>3, <1>5, <1>7, <2>2
    <3> QED
      BY <1>1, <3>1
  <2> QED
    BY <2>1, <2>2
<1> QED
  BY <1>5, <1>6, <1>7

LEMMA QuietHandlerKeeps ==
    ASSUME ToolIInv, emission # NoEmission, emission.todo # <<>>,
           emission' = [emission EXCEPT !.todo = Tail(emission.todo)],
           seen' = [seen EXCEPT ![emission.todo[1]] = Append(@, emission.publication)],
           UNCHANGED <<tool, submitted, subscribed, due, message, picked>>
    PROVE  ToolIInv'
<1>1. /\ emission.conversation \in Conversations /\ emission.publication \in Publications
      /\ submitted[emission.publication].status = "emitting" /\ emission.live
      /\ ToSet(emission.todo) \subseteq ToSet(subscribed[emission.conversation])
      /\ Tail(emission.todo) \in Seq(Viewers) /\ IsInjective(Tail(emission.todo))
      /\ ToSet(Tail(emission.todo)) \subseteq ToSet(emission.todo)
  BY LoopRuns DEF Iterated
<1>2. emission \in [conversation : Conversations \cup {"none"}, publication : 0 .. MaxPublishes,
                    todo : Seq(Viewers), live : BOOLEAN]
  BY DEF ToolIInv, ToolTyped
<1>3. /\ emission' \in [conversation : Conversations \cup {"none"}, publication : 0 .. MaxPublishes,
                        todo : Seq(Viewers), live : BOOLEAN]
      /\ emission'.publication = emission.publication /\ emission'.todo = Tail(emission.todo)
      /\ emission'.conversation = emission.conversation /\ emission'.live = emission.live
  BY <1>1, <1>2
<1>4. /\ seen' \in [Viewers -> Seq(Publications)]
      /\ \A u \in Viewers :
            /\ Coming(u)' = Coming(u)
            /\ \A p \in ToSet(seen'[u]) :
                  p \in Publications /\ submitted[p].status \in {"emitting", "answered"}
  BY <1>3, ToldKeeps
<1>5. ToolTyped'
  BY <1>3, <1>4 DEF ToolIInv, ToolTyped
<1>6. EmissionFits'
  BY <1>1, <1>3 DEF EmissionFits
<1>7. Delivered'
  <2>1. \A c \in Conversations : ToSet(subscribed[c]) \subseteq Viewers
    BY QuietBus DEF ToolIInv
  <2> QED
    BY <1>4, <2>1 DEF ToolIInv, Delivered
<1>8. ToldAreOut'
  BY <1>4 DEF ToldAreOut
<1>9. OneConversation' /\ AllSound'
  BY DEF ToolIInv, OneConversation, AllSound
<1>10. PicksStand'
  BY PicksStill DEF ToolIInv
<1> QED
  BY <1>5, <1>6, <1>7, <1>8, <1>9, <1>10 DEF ToolIInv

LEMMA LeavingHandlerKeeps ==
    ASSUME ToolIInv, emission # NoEmission, emission.todo # <<>>,
           NEW w \in ToSet(subscribed[emission.conversation]),
           subscribed' = [subscribed EXCEPT ![emission.conversation]
                             = Deleted(subscribed[emission.conversation], w)],
           emission' = [emission EXCEPT !.todo = Deleted(Tail(emission.todo), w),
                                        !.live = subscribed'[emission.conversation] # <<>>],
           seen' = [seen EXCEPT ![emission.todo[1]] = Append(@, emission.publication)],
           UNCHANGED <<tool, submitted, due, message, picked>>
    PROVE  ToolIInv'
<1> DEFINE c == emission.conversation
           rest == Tail(emission.todo)
           todo == Deleted(rest, w)
           live == subscribed'[c] # <<>>
<1>1. /\ c \in Conversations /\ emission.publication \in Publications
      /\ submitted[emission.publication].status = "emitting"
      /\ ToSet(emission.todo) \subseteq ToSet(subscribed[c])
      /\ rest \in Seq(Viewers) /\ IsInjective(rest)
      /\ ToSet(rest) \subseteq ToSet(emission.todo)
  BY LoopRuns
<1>2. /\ emission \in [conversation : Conversations \cup {"none"}, publication : 0 .. MaxPublishes,
                       todo : Seq(Viewers), live : BOOLEAN]
      /\ subscribed \in [Conversations -> Seq(Viewers)]
      /\ \A d \in Conversations : IsInjective(subscribed[d])
  BY DEF ToolIInv, ToolTyped
<1>3. todo \in Seq(Viewers) /\ ToSet(todo) = ToSet(rest) \ {w} /\ IsInjective(todo)
  BY <1>1, HandlerDeleted
<1>4. /\ Deleted(subscribed[c], w) \in Seq(Viewers) /\ IsInjective(Deleted(subscribed[c], w))
      /\ ToSet(Deleted(subscribed[c], w)) = ToSet(subscribed[c]) \ {w}
  BY <1>1, <1>2, HandlerDeleted
<1> HIDE DEF todo, rest, live
<1>5. emission' = [emission EXCEPT !.todo = todo, !.live = live] /\ live \in BOOLEAN
  BY DEF todo, rest, live
<1> HIDE DEF c
<1>6. /\ emission' \in [conversation : Conversations \cup {"none"}, publication : 0 .. MaxPublishes,
                        todo : Seq(Viewers), live : BOOLEAN]
      /\ emission'.publication = emission.publication /\ emission'.todo = todo
      /\ emission'.conversation = c /\ emission'.live = live
  BY <1>2, <1>3, <1>5 DEF c
<1>7. /\ subscribed' \in [Conversations -> Seq(Viewers)]
      /\ \A d \in Conversations : /\ IsInjective(subscribed'[d])
                                  /\ d # c => subscribed'[d] = subscribed[d]
      /\ ToSet(subscribed'[c]) = ToSet(subscribed[c]) \ {w}
  BY <1>1, <1>2, <1>4 DEF c
<1>8. /\ seen' \in [Viewers -> Seq(Publications)]
      /\ \A u \in Viewers :
            /\ u # w => Coming(u)' = Coming(u)
            /\ \A p \in ToSet(seen'[u]) :
                  p \in Publications /\ submitted[p].status \in {"emitting", "answered"}
  BY <1>3, <1>6, ToldKeeps DEF rest
<1>9. ToolTyped'
  BY <1>6, <1>7, <1>8 DEF ToolIInv, ToolTyped
<1>10. EmissionFits'
  <2>1. ToSet(todo) \subseteq ToSet(subscribed'[c])
    BY <1>1, <1>3, <1>7
  <2>2. live \/ todo = <<>>
    <3>1. subscribed'[c] = <<>> => ToSet(todo) = {}
      BY <2>1 DEF ToSet
    <3>2. ToSet(todo) = {} => todo = <<>>
      BY <1>3, SetFacts
    <3> QED
      BY <3>1, <3>2 DEF live
  <2> QED
    BY <1>1, <1>3, <1>6, <2>1, <2>2 DEF EmissionFits
<1>11. \A d \in Conversations : ToSet(subscribed'[d]) \subseteq ToSet(subscribed[d])
  BY <1>7
<1>12. OneConversation'
  BY <1>11 DEF ToolIInv, OneConversation
<1>13. Delivered'
  <2> SUFFICES ASSUME NEW d \in Conversations, NEW u \in ToSet(subscribed'[d])
               PROVE  IsInjective(Coming(u)') /\ InOrder(due[u], Coming(u)')
    BY DEF Delivered
  <2>1. u \in ToSet(subscribed[d]) /\ u \in Viewers
    BY <1>11, QuietBus DEF ToolIInv
  <2>2. u # w
    BY <1>1, <1>7, <2>1 DEF ToolIInv, OneConversation, c
  <2> QED
    BY <1>8, <2>1, <2>2 DEF ToolIInv, Delivered
<1>14. ToldAreOut'
  BY <1>8 DEF ToldAreOut
<1>15. AllSound'
  BY DEF ToolIInv, AllSound
<1>16. PicksStand'
  BY PicksStill DEF ToolIInv
<1> QED
  BY <1>9, <1>10, <1>12, <1>13, <1>14, <1>15, <1>16 DEF ToolIInv

LEMMA JoiningHandlerKeeps ==
    ASSUME ToolIInv, emission # NoEmission, emission.todo # <<>>,
           NEW w \in Viewers, \A d \in Conversations : w \notin ToSet(subscribed[d]),
           subscribed' = [subscribed EXCEPT ![emission.conversation]
                             = Append(subscribed[emission.conversation], w)],
           emission' = [emission EXCEPT !.todo = Append(Tail(emission.todo), w)],
           seen' = [[seen EXCEPT ![emission.todo[1]] = Append(@, emission.publication)]
                        EXCEPT ![w] = <<>>],
           due' = [due EXCEPT ![w] = <<>>],
           UNCHANGED <<tool, submitted, message, picked>>
    PROVE  ToolIInv'
<1> DEFINE c == emission.conversation
           rest == Tail(emission.todo)
           todo == Append(rest, w)
           told == [seen EXCEPT ![emission.todo[1]] = Append(@, emission.publication)]
<1>1. /\ c \in Conversations /\ emission.publication \in Publications /\ emission.live
      /\ submitted[emission.publication].status = "emitting"
      /\ ToSet(emission.todo) \subseteq ToSet(subscribed[c])
      /\ rest \in Seq(Viewers) /\ IsInjective(rest)
      /\ ToSet(rest) \subseteq ToSet(emission.todo)
  BY LoopRuns DEF Iterated
<1>2. /\ emission \in [conversation : Conversations \cup {"none"}, publication : 0 .. MaxPublishes,
                       todo : Seq(Viewers), live : BOOLEAN]
      /\ subscribed \in [Conversations -> Seq(Viewers)]
      /\ \A d \in Conversations : IsInjective(subscribed[d])
      /\ due \in [Viewers -> Seq(Publications)]
  BY DEF ToolIInv, ToolTyped
<1>3. w \notin ToSet(rest) /\ w \notin ToSet(subscribed[c])
  BY <1>1
<1>4. todo \in Seq(Viewers) /\ ToSet(todo) = ToSet(rest) \cup {w} /\ IsInjective(todo)
  <2>1. rest \in Seq(Viewers) /\ IsInjective(rest) /\ w \notin ToSet(rest)
    BY <1>1, <1>3
  <2> HIDE DEF rest
  <2> QED
    BY <2>1, HandlersAdded
<1>5. /\ Append(subscribed[c], w) \in Seq(Viewers) /\ IsInjective(Append(subscribed[c], w))
      /\ ToSet(Append(subscribed[c], w)) = ToSet(subscribed[c]) \cup {w}
  BY <1>1, <1>2, <1>3, HandlersAdded
<1> HIDE DEF todo, rest
<1>6. emission' = [emission EXCEPT !.todo = todo]
  BY DEF todo, rest
<1>7. /\ emission' \in [conversation : Conversations \cup {"none"}, publication : 0 .. MaxPublishes,
                        todo : Seq(Viewers), live : BOOLEAN]
      /\ emission'.publication = emission.publication /\ emission'.todo = todo
      /\ emission'.conversation = c /\ emission'.live = emission.live
  BY <1>2, <1>4, <1>6
<1>8. told \in [Viewers -> Seq(Publications)]
      /\ \A u \in Viewers :
            /\ seen'[u] = told[u] /\ (u \in ToSet(emission'.todo) <=> u \in ToSet(rest))
                  => Coming(u)' = Coming(u)
            /\ \A p \in ToSet(told[u]) :
                  p \in Publications /\ submitted[p].status \in {"emitting", "answered"}
  BY <1>7, ToldKeeps DEF rest
<1>9. seen' = [told EXCEPT ![w] = <<>>]
  OBVIOUS
<1> HIDE DEF told, c
<1>10. /\ seen' \in [Viewers -> Seq(Publications)] /\ seen'[w] = <<>>
       /\ \A u \in Viewers : u # w => seen'[u] = told[u]
  <2>1. told \in [Viewers -> Seq(Publications)] /\ <<>> \in Seq(Publications)
    BY <1>8
  <2> QED
    BY <1>9, <2>1
<1>11. due' \in [Viewers -> Seq(Publications)] /\ due'[w] = <<>>
       /\ \A u \in Viewers : u # w => due'[u] = due[u]
  BY <1>2
<1>12. /\ subscribed' \in [Conversations -> Seq(Viewers)]
       /\ \A d \in Conversations : /\ IsInjective(subscribed'[d])
                                   /\ d # c => subscribed'[d] = subscribed[d]
       /\ ToSet(subscribed'[c]) = ToSet(subscribed[c]) \cup {w}
  BY <1>1, <1>2, <1>5 DEF c
<1>13. ToolTyped'
  BY <1>7, <1>10, <1>11, <1>12 DEF ToolIInv, ToolTyped
<1>14. EmissionFits'
  <2>1. ToSet(todo) \subseteq ToSet(subscribed'[c])
    BY <1>1, <1>4, <1>12
  <2> QED
    BY <1>1, <1>4, <1>7, <2>1 DEF EmissionFits
<1>15. OneConversation'
  <2> SUFFICES ASSUME NEW d \in Conversations, NEW e \in Conversations, NEW u,
                      u \in ToSet(subscribed'[d]), u \in ToSet(subscribed'[e])
               PROVE  d = e
    BY DEF OneConversation
  <2>1. CASE u = w
    BY <1>12, <2>1
  <2>2. CASE u # w
    <3>1. u \in ToSet(subscribed[d]) /\ u \in ToSet(subscribed[e])
      BY <1>12, <2>2
    <3> QED
      BY <3>1 DEF ToolIInv, OneConversation
  <2> QED
    BY <2>1, <2>2
<1>16. Delivered'
  <2> SUFFICES ASSUME NEW d \in Conversations, NEW u \in ToSet(subscribed'[d])
               PROVE  IsInjective(Coming(u)') /\ InOrder(due'[u], Coming(u)')
    BY DEF Delivered
  <2>1. CASE u = w
    <3>1. Coming(w)' = Append(<<>>, emission.publication)
      BY <1>4, <1>7, <1>10 DEF Coming
    <3>2. <<>> \in Seq(Publications) /\ emission.publication \notin ToSet(<<>>)
      BY DEF ToSet
    <3>3. IsInjective(Append(<<>>, emission.publication))
      BY <1>1, <3>2, OrderStarts, HandlersAdded
    <3> QED
      BY <1>11, <2>1, <3>1, <3>3, OrderStarts
  <2>2. CASE u # w
    <3>1. u \in ToSet(subscribed[d]) /\ u \in Viewers
      BY <1>12, <2>2, QuietBus DEF ToolIInv
    <3>2. u \in ToSet(emission'.todo) <=> u \in ToSet(rest)
      BY <1>4, <1>7, <2>2
    <3>3. Coming(u)' = Coming(u) /\ due'[u] = due[u]
      BY <1>8, <1>10, <1>11, <2>2, <3>1, <3>2
    <3> QED
      BY <3>1, <3>3 DEF ToolIInv, Delivered
  <2> QED
    BY <2>1, <2>2
<1>17. ToldAreOut'
  <2>1. ToSet(<<>>) = {}
    BY DEF ToSet
  <2> QED
    BY <1>8, <1>10, <2>1 DEF ToldAreOut
<1>18. AllSound'
  BY DEF ToolIInv, AllSound
<1>19. PicksStand'
  BY PicksStill DEF ToolIInv
<1> QED
  BY <1>13, <1>14, <1>15, <1>16, <1>17, <1>18, <1>19 DEF ToolIInv

LEMMA HandlerRunsKeeps ==
    ASSUME ToolIInv, NEW throws \in BOOLEAN, NEW reaction \in {"none", "unsubscribe", "subscribe"},
           NEW w \in Viewers, HandlerRuns(throws, reaction, w)
    PROVE  ToolIInv'
<1> DEFINE c == emission.conversation
           v == emission.todo[1]
<1>1. emission # NoEmission /\ emission.todo # <<>> /\ UNCHANGED <<tool, submitted, message, picked>>
  BY DEF HandlerRuns
<1>2. c \in Conversations /\ Iterated(c) /\ v \in ToSet(subscribed[c])
  BY <1>1, LoopRuns
<1>3. subscribed \in [Conversations -> Seq(Viewers)]
  BY DEF ToolIInv, ToolTyped
<1>4. CASE reaction = "none"
  <2>1. /\ emission' = [emission EXCEPT !.todo = Tail(emission.todo)]
        /\ seen' = [seen EXCEPT ![v] = Append(@, emission.publication)]
        /\ UNCHANGED <<subscribed, due>>
    BY <1>4 DEF HandlerRuns, AfterThrow
  <2> QED
    BY <1>1, <2>1, QuietHandlerKeeps
<1>5. CASE reaction = "unsubscribe"
  <2>1. /\ Contains(subscribed[c], w)
        /\ subscribed' = [subscribed EXCEPT ![c] = Deleted(subscribed[c], w)]
        /\ emission' = [emission EXCEPT !.todo = Deleted(Tail(emission.todo), w),
                                        !.live = subscribed'[c] # <<>>]
        /\ seen' = [seen EXCEPT ![v] = Append(@, emission.publication)]
        /\ UNCHANGED due
    BY <1>2, <1>5 DEF HandlerRuns, AfterThrow, Dropped
  <2>2. w \in ToSet(subscribed[c])
    BY <1>2, <1>3, <2>1, Taken
  <2> QED
    BY <1>1, <2>1, <2>2, LeavingHandlerKeeps
<1>6. CASE reaction = "subscribe"
  <2>1. Subscribers(w) = {}
    BY <1>6 DEF HandlerRuns
  <2>2. \A d \in Conversations : w \notin ToSet(subscribed[d])
    BY <2>1, NobodyElse DEF ToolIInv
  <2>3. w # v
    BY <1>2, <2>2
  <2>4. /\ subscribed' = [subscribed EXCEPT ![c] = Append(subscribed[c], w)]
        /\ emission' = [emission EXCEPT !.todo = Append(Tail(emission.todo), w)]
        /\ seen' = [[seen EXCEPT ![v] = Append(@, emission.publication)] EXCEPT ![w] = <<>>]
        /\ due' = [due EXCEPT ![w] = <<>>]
    BY <1>2, <1>6, <2>3 DEF HandlerRuns, AfterThrow, Added
  <2> QED
    BY <1>1, <2>2, <2>4, JoiningHandlerKeeps
<1> QED
  BY <1>4, <1>5, <1>6

LEMMA EmitReturnsKeeps == ASSUME ToolIInv, EmitReturns PROVE ToolIInv'
<1> DEFINE p == emission.publication
           r == [submitted[p] EXCEPT !.status = "answered"]
<1>1. /\ emission # NoEmission /\ emission.todo = <<>> /\ emission' = NoEmission
      /\ submitted' = [submitted EXCEPT ![p].status = "answered"]
      /\ UNCHANGED <<tool, subscribed, seen, due, message, picked>>
  BY DEF EmitReturns
<1>2. /\ p \in Publications /\ submitted[p].status = "emitting"
      /\ submitted \in [Publications -> Submissions] /\ IsSound(submitted[p])
  BY <1>1 DEF ToolIInv, ToolTyped, EmissionFits, AllSound
<1>3. r \in Submissions /\ r.status = "answered" /\ submitted' = [submitted EXCEPT ![p] = r]
  BY <1>1, <1>2 DEF Submissions, Statuses
<1>4. IsSound(r)
  BY <1>2 DEF IsSound, Submissions
<1> HIDE DEF r
<1>5. NoEmission \in [conversation : Conversations \cup {"none"}, publication : 0 .. MaxPublishes,
                      todo : Seq(Viewers), live : BOOLEAN]
  BY ToolAssumption DEF NoEmission
<1>6. \A q \in Publications : q # p => submitted'[q] = submitted[q]
  BY <1>2, <1>3
<1>7. submitted' \in [Publications -> Submissions] /\ submitted'[p] = r
  BY <1>2, <1>3
<1>8. ToolTyped'
  BY <1>1, <1>5, <1>7 DEF ToolIInv, ToolTyped
<1>9. EmissionFits'
  BY <1>1 DEF EmissionFits
<1>10. OneConversation'
  BY <1>1 DEF ToolIInv, OneConversation
<1>11. Delivered'
  <2>1. NoEmission.todo = <<>> /\ ToSet(<<>>) = {}
    BY DEF NoEmission, ToSet
  <2>2. \A v : Coming(v) = seen[v] /\ Coming(v)' = seen[v]
    BY <1>1, <2>1 DEF Coming
  <2> QED
    BY <1>1, <2>2 DEF ToolIInv, Delivered
<1>12. ToldAreOut'
  BY <1>1, <1>3, <1>6, <1>7 DEF ToolIInv, ToldAreOut
<1>13. AllSound'
  BY <1>4, <1>6, <1>7 DEF ToolIInv, AllSound
<1>14. PicksStand'
  BY <1>1, PicksStill DEF ToolIInv
<1> QED
  BY <1>8, <1>9, <1>10, <1>11, <1>12, <1>13, <1>14 DEF ToolIInv

LEMMA ToolStutters == ASSUME ToolIInv, UNCHANGED toolVars PROVE ToolIInv'
<1>1. UNCHANGED <<tool, submitted, subscribed, emission, seen, due, message, picked>>
  BY DEF toolVars
<1>2. PicksStand'
  BY <1>1, PicksStill DEF ToolIInv
<1> QED
  BY <1>1, <1>2 DEF ToolIInv, ToolTyped, EmissionFits, OneConversation, Delivered, Coming,
                    ToldAreOut, AllSound

LEMMA ToolKeeps == ASSUME ToolIInv, [ToolNext]_toolVars PROVE ToolIInv'
<1>1. CASE DefineArtifactTool
  BY <1>1, DefineKeeps
<1>2. ASSUME NEW p \in Publications, NEW a \in Candidates, NEW c \in Conversations,
             CallTool(p, a, c)
      PROVE  ToolIInv'
  BY <1>2, CallToolKeeps
<1>3. ASSUME NEW p \in Publications, NEW ok \in BOOLEAN, InsertRow(p, ok) PROVE ToolIInv'
  BY <1>3, InsertRowKeeps
<1>4. ASSUME NEW p \in Publications, Emit(p) PROVE ToolIInv'
  BY <1>4, EmitKeeps
<1>5. ASSUME NEW v \in Viewers, NEW c \in Conversations, SubscribeTo(v, c) \/ UnsubscribeFrom(v, c)
      PROVE  ToolIInv'
  BY <1>5, SubscribeToKeeps, UnsubscribeFromKeeps
<1>6. CASE DisposeBus
  BY <1>6, DisposeBusKeeps
<1>7. ASSUME NEW throws \in BOOLEAN, NEW reaction \in {"none", "unsubscribe", "subscribe"},
             NEW w \in Viewers, HandlerRuns(throws, reaction, w)
      PROVE  ToolIInv'
  BY <1>7, HandlerRunsKeeps
<1>8. CASE EmitReturns
  BY <1>8, EmitReturnsKeeps
<1>9. ASSUME NEW piece \in Pieces, NEW more \in BOOLEAN, MessageGrows(piece, more) PROVE ToolIInv'
  BY <1>9, GrowKeeps
<1>10. ASSUME NEW p \in Publications, NEW s \in Snippets, NEW c \in Conversations,
              OpenInCanvas(p, s, c)
       PROVE  ToolIInv'
  BY <1>10, OpenInCanvasKeeps
<1>11. CASE UNCHANGED toolVars
  BY <1>11, ToolStutters
<1> QED
  BY <1>1, <1>2, <1>3, <1>4, <1>5, <1>6, <1>7, <1>8, <1>9, <1>10, <1>11 DEF ToolNext

LEMMA ToolShows == ASSUME ToolIInv PROVE ToolKept
<1>1. ToolTypeOK
  <2>1. \A c \in Conversations : ToSet(subscribed[c]) \subseteq Viewers
    BY QuietBus DEF ToolIInv
  <2>2. \A v \in Viewers : ToSet(seen[v]) \subseteq Publications /\ ToSet(due[v]) \subseteq Publications
    BY SetFacts DEF ToolIInv, ToolTyped
  <2>3. \A p \in Publications : submitted[p].status \in Statuses
    BY DEF ToolIInv, ToolTyped, Submissions
  <2> QED
    BY <2>1, <2>2, <2>3 DEF ToolIInv, ToolTyped, ToolTypeOK, Statuses
<1>2. DeliveredOnce
  <2> SUFFICES ASSUME emission = NoEmission, NEW v \in Viewers, Subscribers(v) # {}
               PROVE  IsInjective(seen[v]) /\ InOrder(due[v], seen[v])
    BY DEF DeliveredOnce
  <2>1. PICK c \in Conversations : v \in ToSet(subscribed[c])
    <3>1. PICK c \in Conversations : c \in Subscribers(v)
      BY DEF Subscribers
    <3> QED
      BY <3>1, NobodyElse DEF ToolIInv
  <2>2. Coming(v) = seen[v]
    BY QuietBus DEF ToolIInv
  <2> QED
    BY <2>1, <2>2 DEF ToolIInv, Delivered
<1>3. ShownIsInert
  BY DEF ToolIInv, ToldAreOut, AllSound, IsSound, ShownIsInert
<1>4. SnippetKeepsId
  <2> SUFFICES ASSUME NEW k \in picked, ~k.early, k.piece # 0, NEW s \in Snippets, s.id = k.id
               PROVE  s.piece = k.piece
    BY DEF SnippetKeepsId
  <2>1. \/ k.piece \in Fences /\ k.id = <<"fence", RankIn(Fences, k.piece)>>
        \/ k.piece \in Svgs /\ k.id = <<"svg", RankIn(Svgs, k.piece)>>
    BY DEF ToolIInv, PicksStand
  <2>2. \/ s.piece \in Fences /\ s.id = <<"fence", RankIn(Fences, s.piece)>>
        \/ s.piece \in Svgs /\ s.id = <<"svg", RankIn(Svgs, s.piece)>>
        \/ s.piece = 0 /\ s.id = <<"md", 0>>
    BY SnippetStands DEF ToolIInv
  <2>3. Fences \in SUBSET (1 .. Len(message.pieces)) /\ Svgs \in SUBSET (1 .. Len(message.pieces))
    BY DEF Fences, Svgs
  <2>4. Len(message.pieces) \in Nat
    BY DEF ToolIInv, ToolTyped
  <2>5. CASE k.piece \in Fences /\ k.id = <<"fence", RankIn(Fences, k.piece)>>
    <3>1. s.piece \in Fences /\ RankIn(Fences, s.piece) = RankIn(Fences, k.piece)
      BY <2>2, <2>5
    <3> QED
      BY <2>3, <2>4, <2>5, <3>1, RanksDiffer
  <2>6. CASE k.piece \in Svgs /\ k.id = <<"svg", RankIn(Svgs, k.piece)>>
    <3>1. s.piece \in Svgs /\ RankIn(Svgs, s.piece) = RankIn(Svgs, k.piece)
      BY <2>2, <2>6
    <3> QED
      BY <2>3, <2>4, <2>6, <3>1, RanksDiffer
  <2> QED
    BY <2>1, <2>5, <2>6
<1> QED
  BY <1>1, <1>2, <1>3, <1>4 DEF ToolKept

(* Between two emits, a viewer on the bus was called with everything       *)
(* emitted since it subscribed, in order and once, whoever subscribed,     *)
(* left or threw in the loop; what it was shown was stored and cannot run, *)
(* whether the tool or the button published it; and a snippet published    *)
(* from a finished message keeps its id as the message grows.              *)
THEOREM ArtifactsAreDelivered == ToolSpec => []ToolKept
<1>1. ToolInit => ToolIInv
  BY ToolStarts
<1>2. ToolIInv /\ [ToolNext]_toolVars => ToolIInv'
  BY ToolKeeps
<1>3. ToolIInv => ToolKept
  BY ToolShows
<1> QED
  BY <1>1, <1>2, <1>3, PTL DEF ToolSpec
====
