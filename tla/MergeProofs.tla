------------------------------- MODULE MergeProofs -----------------------------
(* What flush, merge and save_content make of lists of any length: a delta      *)
(* takes the server to exactly the document, and a merge is a three-way merge.  *)
EXTENDS Merge, FiniteSetTheorems, TLAPS

Block == [id : Int, text : Int]
Row == [id : Int, text : Int, position : Int]

(* No block and no row is there twice, and no two rows are at one place.        *)
IsList(s) ==
    /\ s \in Seq(Block)
    /\ \A i, j \in 1..Len(s) : s[i].id = s[j].id => i = j

OneEach(rows) == \A u, v \in rows : u.id = v.id => u = v

Apart(rows) == \A u, v \in rows : u.position = v.position => u = v

(* The rows of a set that are at position p or before it.                       *)
Upto(rows, p) == {v \in rows : v.position <= p}

AreRows(rows) == rows \subseteq Row /\ IsFiniteSet(rows) /\ OneEach(rows)

--------------------------------------------------------------------------------
(* Lists.                                                                       *)

LEMMA Blocks ==
    ASSUME NEW s, IsList(s)
    PROVE  /\ Len(s) \in Nat /\ DOMAIN s = 1..Len(s)
           /\ \A i \in 1..Len(s) : s[i] \in Block /\ s[i].id \in Int /\ s[i].text \in Int
           /\ \A i \in 1..Len(s) : s[i] = [id |-> s[i].id, text |-> s[i].text]
           /\ \A id : id \in Ids(s) <=> \E i \in 1..Len(s) : id = s[i].id
           /\ \A i \in 1..Len(s) : TextOf(s, s[i].id) = s[i].text /\ PositionOf(s, s[i].id) = i
  <1>1. Len(s) \in Nat /\ DOMAIN s = 1..Len(s) /\ \A i \in 1..Len(s) : s[i] \in Block
    BY DEF IsList
  <1>2. \A i \in 1..Len(s) : /\ s[i].id \in Int /\ s[i].text \in Int
                             /\ s[i] = [id |-> s[i].id, text |-> s[i].text]
    BY <1>1 DEF Block
  <1>3. ToSet(s) = {s[i] : i \in 1..Len(s)}
    BY <1>1 DEF ToSet
  <1>4. \A id : id \in Ids(s) <=> \E i \in 1..Len(s) : id = s[i].id
    BY <1>3 DEF Ids, IdsOf
  <1>5. ASSUME NEW i \in 1..Len(s)
        PROVE  TextOf(s, s[i].id) = s[i].text /\ PositionOf(s, s[i].id) = i
    <2>1. \A j \in 1..Len(s) : s[j].id = s[i].id => j = i
      BY DEF IsList
    <2>2. PositionOf(s, s[i].id) = i
      BY <1>1, <2>1 DEF PositionOf
    <2>3. s[i] \in ToSet(s) /\ \A b \in ToSet(s) : b.id = s[i].id => b = s[i]
      BY <1>3, <2>1
    <2>4. (CHOOSE u \in ToSet(s) : u.id = s[i].id) = s[i]
      BY <2>3
    <2> QED BY <2>2, <2>4 DEF TextOf, TextIn
  <1> QED BY <1>1, <1>2, <1>4, <1>5

LEMMA Members ==
    ASSUME NEW s, IsList(s)
    PROVE  \A id : id \in Ids(s) <=> \E i \in 1..Len(s) : id = s[i].id
  BY Blocks

LEMMA RowsOfList ==
    ASSUME NEW s, IsList(s)
    PROVE  /\ AreRows(Rows(s)) /\ Apart(Rows(s))
           /\ \A u : u \in Rows(s) <=>
                \E i \in 1..Len(s) : u = [id |-> s[i].id, text |-> s[i].text, position |-> i]
           /\ IdsOf(Rows(s)) = Ids(s)
           /\ Cardinality(Rows(s)) = Len(s)
           /\ \A i \in 1..Len(s) : Cardinality(Upto(Rows(s), i)) = i
  <1>1. /\ Len(s) \in Nat /\ DOMAIN s = 1..Len(s)
        /\ \A i \in 1..Len(s) : s[i].id \in Int /\ s[i].text \in Int
    BY Blocks
  <1> DEFINE row(i) == [id |-> s[i].id, text |-> s[i].text, position |-> i]
             upto(n) == {v \in Rows(s) : v.position <= n}
  <1>2. \A u : u \in Rows(s) <=> \E i \in 1..Len(s) : u = row(i)
    <2>1. Numbered(s) = [i \in 1..Len(s) |-> row(i)]
      BY <1>1 DEF Numbered
    <2> HIDE DEF row
    <2>2. Rows(s) = {row(i) : i \in 1..Len(s)}
      BY <2>1 DEF Rows, ToSet
    <2> QED BY <2>2
  <1>3. \A i \in 1..Len(s) : row(i) \in Row /\ row(i).position = i /\ row(i).id = s[i].id
    BY <1>1 DEF Row
  <1>4. \A i, j \in 1..Len(s) : row(i).id = row(j).id => i = j
    BY <1>3 DEF IsList
  <1>5. IdsOf(Rows(s)) = Ids(s)
    <2>1. \A id : id \in IdsOf(Rows(s)) <=> \E u \in Rows(s) : id = u.id
      BY DEF IdsOf
    <2>2. \A id : id \in Ids(s) <=> \E i \in 1..Len(s) : id = s[i].id
      BY Blocks
    <2> HIDE DEF row
    <2>3. ASSUME NEW id \in IdsOf(Rows(s))
          PROVE  id \in Ids(s)
      <3>1. PICK u \in Rows(s) : id = u.id
        BY <2>1
      <3>2. PICK i \in 1..Len(s) : u = row(i)
        BY <1>2, <3>1
      <3> QED BY <1>3, <2>2, <3>1, <3>2
    <2>4. ASSUME NEW id \in Ids(s)
          PROVE  id \in IdsOf(Rows(s))
      <3>1. PICK i \in 1..Len(s) : id = s[i].id
        BY <2>2
      <3>2. row(i) \in Rows(s) /\ row(i).id = id
        BY <1>2, <1>3, <3>1
      <3> QED BY <2>1, <3>2
    <2> QED BY <2>3, <2>4
  <1> HIDE DEF row
  <1>6. ASSUME NEW n \in 0..Len(s)
        PROVE  IsFiniteSet(upto(n)) /\ Cardinality(upto(n)) = n
    <2> DEFINE f == [i \in 1..n |-> row(i)]
    <2>1. n \in Int /\ n <= Len(s) /\ n >= 0 /\ 1..n \subseteq 1..Len(s)
      BY <1>1
    <2>2. \A i \in 1..n : f[i] \in upto(n)
      BY <1>2, <1>3, <2>1
    <2>3. \A u \in upto(n) : \E i \in 1..n : f[i] = u
      <3>1. ASSUME NEW u \in upto(n)
            PROVE  \E i \in 1..n : f[i] = u
        <4>1. PICK i \in 1..Len(s) : u = row(i)
          BY <1>2
        <4>2. i <= n
          BY <1>3, <4>1
        <4>3. i \in 1..n
          BY <1>1, <2>1, <4>2
        <4> QED BY <4>1, <4>3
      <3> QED BY <3>1
    <2>4. \A i, j \in 1..n : f[i] = f[j] => i = j
      BY <1>4, <2>1
    <2>5. f \in [1..n -> upto(n)]
      BY <2>2
    <2> HIDE DEF f
    <2>7. f \in Bijection(1..n, upto(n))
      BY <2>2, <2>3, <2>4, <2>5 DEF Bijection, Injection, Surjection, IsInjective
    <2>6. IsFiniteSet(1..n) /\ Cardinality(1..n) = n
      BY <2>1, FS_Interval
    <2> HIDE DEF upto, f
    <2> QED BY <2>6, <2>7, FS_Bijection DEF ExistsBijection
  <1>7. upto(Len(s)) = Rows(s)
    BY <1>1, <1>2, <1>3
  <1>8. IsFiniteSet(Rows(s)) /\ Cardinality(Rows(s)) = Len(s)
    <2>1. Len(s) \in 0..Len(s)
      BY <1>1
    <2> HIDE DEF upto
    <2> QED BY <1>6, <1>7, <2>1
  <1>9. Rows(s) \subseteq Row /\ OneEach(Rows(s)) /\ Apart(Rows(s))
    BY <1>2, <1>3, <1>4 DEF OneEach, Apart
  <1>10. \A i \in 1..Len(s) : Cardinality(upto(i)) = i
    <2>1. \A i \in 1..Len(s) : i \in 0..Len(s)
      BY <1>1
    <2> HIDE DEF upto
    <2> QED BY <1>6, <2>1
  <1>11. AreRows(Rows(s)) /\ Apart(Rows(s))
    BY <1>8, <1>9 DEF AreRows
  <1>12. \A u : u \in Rows(s) <=>
            \E i \in 1..Len(s) : u = [id |-> s[i].id, text |-> s[i].text, position |-> i]
    BY <1>2 DEF row
  <1> QED BY <1>5, <1>8, <1>10, <1>11, <1>12 DEF Upto

(* Two lists one after the other.                                               *)
Joins(w, s, t) ==
    /\ IsList(w)
    /\ Ids(w) = Ids(s) \cup Ids(t)
    /\ Len(w) = Len(s) + Len(t)
    /\ \A i \in 1..Len(s) : w[i] = s[i]
    /\ \A i \in (Len(s) + 1)..(Len(s) + Len(t)) : w[i] = t[i - Len(s)]
    /\ \A id \in Ids(s) : TextOf(w, id) = TextOf(s, id)
    /\ \A id \in Ids(t) : TextOf(w, id) = TextOf(t, id)

LEMMA Joined ==
    ASSUME NEW s, NEW t, IsList(s), IsList(t), Ids(s) \cap Ids(t) = {}
    PROVE  Joins(s \o t, s, t)
  <1>1. PICK w, m, n : w = s \o t /\ m = Len(s) /\ n = Len(t)
    OBVIOUS
  <1>2. s \in Seq(Block) /\ t \in Seq(Block) /\ m \in Nat /\ n \in Nat
    BY <1>1 DEF IsList
  <1>3. /\ w \in Seq(Block) /\ Len(w) = m + n
        /\ \A i \in 1..m : w[i] = s[i]
        /\ \A i \in (m + 1)..(m + n) : w[i] = t[i - m]
    BY <1>1, <1>2
  <1>4. /\ \A i \in 1..m : s[i].id \in Ids(s)
        /\ \A i \in 1..n : t[i].id \in Ids(t)
        /\ \A i, j \in 1..m : s[i].id = s[j].id => i = j
        /\ \A i, j \in 1..n : t[i].id = t[j].id => i = j
    BY <1>1, Blocks DEF IsList
  <1>5. \A k \in 1..(m + n) : \/ k \in 1..m /\ w[k] = s[k]
                              \/ k \in (m + 1)..(m + n) /\ k - m \in 1..n /\ w[k] = t[k - m]
    BY <1>2, <1>3
  <1>6. ASSUME NEW i \in 1..(m + n), NEW j \in 1..(m + n), w[i].id = w[j].id
        PROVE  i = j
    <2>1. CASE i \in 1..m /\ j \in 1..m
      BY <1>3, <1>4, <1>6, <2>1
    <2>2. CASE i \notin 1..m /\ j \notin 1..m
      <3>1. i - m \in 1..n /\ j - m \in 1..n /\ w[i] = t[i - m] /\ w[j] = t[j - m]
        BY <1>5, <2>2
      <3>2. i - m = j - m
        BY <1>4, <1>6, <3>1
      <3> QED BY <1>2, <3>2
    <2>3. CASE i \in 1..m /\ j \notin 1..m
      BY <1>3, <1>4, <1>5, <1>6, <2>3
    <2>4. CASE i \notin 1..m /\ j \in 1..m
      BY <1>3, <1>4, <1>5, <1>6, <2>4
    <2> QED BY <2>1, <2>2, <2>3, <2>4
  <1>7. IsList(w)
    BY <1>3, <1>6 DEF IsList
  <1>8. ASSUME NEW i \in 1..n
        PROVE  m + i \in 1..(m + n) /\ w[m + i] = t[i]
    <2>1. PICK k : k = m + i
      OBVIOUS
    <2>2. k \in (m + 1)..(m + n) /\ k - m = i /\ k \in 1..(m + n)
      BY <1>2, <2>1
    <2>3. w[k] = t[k - m]
      BY <1>3, <2>2
    <2> QED BY <2>1, <2>2, <2>3
  <1>9. Ids(w) = Ids(s) \cup Ids(t)
    <2>1. \A id : id \in Ids(w) <=> \E k \in 1..(m + n) : id = w[k].id
      BY <1>3, <1>7, Blocks
    <2>2. /\ \A id : id \in Ids(s) <=> \E i \in 1..m : id = s[i].id
          /\ \A id : id \in Ids(t) <=> \E i \in 1..n : id = t[i].id
      BY <1>1, Blocks
    <2>3. \A id \in Ids(w) : id \in Ids(s) \cup Ids(t)
      BY <1>5, <2>1, <2>2
    <2>4. \A id \in Ids(s) : id \in Ids(w)
      BY <1>2, <1>3, <2>1, <2>2
    <2>5. \A id \in Ids(t) : id \in Ids(w)
      BY <1>8, <2>1, <2>2
    <2> QED BY <2>3, <2>4, <2>5
  <1>10. \A id \in Ids(s) : TextOf(w, id) = TextOf(s, id)
    <2>1. ASSUME NEW id \in Ids(s)
          PROVE  TextOf(w, id) = TextOf(s, id)
      <3>1. PICK i \in 1..m : id = s[i].id
        BY <1>1, Blocks
      <3>2. i \in 1..Len(w) /\ w[i] = s[i]
        BY <1>2, <1>3
      <3>3. TextOf(w, w[i].id) = w[i].text
        BY <1>7, <3>2, Blocks
      <3>4. TextOf(s, s[i].id) = s[i].text
        BY <1>1, Blocks
      <3> QED BY <3>1, <3>2, <3>3, <3>4
    <2> QED BY <2>1
  <1>11. \A id \in Ids(t) : TextOf(w, id) = TextOf(t, id)
    <2>1. ASSUME NEW id \in Ids(t)
          PROVE  TextOf(w, id) = TextOf(t, id)
      <3>1. PICK i \in 1..n : id = t[i].id
        BY <1>1, Blocks
      <3>2. m + i \in 1..Len(w) /\ w[m + i] = t[i]
        BY <1>3, <1>8
      <3>3. TextOf(w, w[m + i].id) = w[m + i].text
        BY <1>7, <3>2, Blocks
      <3>4. TextOf(t, t[i].id) = t[i].text
        BY <1>1, Blocks
      <3> QED BY <3>1, <3>2, <3>3, <3>4
    <2> QED BY <2>1
  <1>12. Joins(w, s, t)
    BY <1>1, <1>3, <1>7, <1>9, <1>10, <1>11 DEF Joins
  <1> QED BY <1>1, <1>12

--------------------------------------------------------------------------------
(* Rows in the order of their positions.                                        *)

LEMMA Enumerated ==
    ASSUME NEW R, AreRows(R), Apart(R)
    PROVE  /\ Cardinality(R) \in Nat
           /\ \A i \in 1..Cardinality(R) :
                /\ Nth(R, i) \in R
                /\ Cardinality(Upto(R, Nth(R, i).position)) = i
           /\ \A u \in R : \E i \in 1..Cardinality(R) : Nth(R, i) = u
           /\ \A i, j \in 1..Cardinality(R) : i < j => Nth(R, i).position < Nth(R, j).position
  <1> DEFINE below(u) == {v \in R : v.position <= u.position}
             rank(u) == Cardinality(below(u))
  <1>1. IsFiniteSet(R) /\ Cardinality(R) \in Nat /\ \A u \in R : u.position \in Int
    BY FS_CardinalityType DEF AreRows, Row
  <1> PICK n \in Nat : n = Cardinality(R)
    BY <1>1
  <1>2. ASSUME NEW u \in R
        PROVE  IsFiniteSet(below(u)) /\ rank(u) \in 1..n /\ below(u) \subseteq R
    <2>1. below(u) \subseteq R /\ u \in below(u)
      BY <1>1
    <2> HIDE DEF below
    <2>2. IsFiniteSet(below(u)) /\ rank(u) \in Nat /\ rank(u) <= n
      BY <1>1, <2>1, FS_Subset, FS_CardinalityType
    <2>3. rank(u) # 0
      BY <2>1, <2>2, FS_EmptySet
    <2> QED BY <2>1, <2>2, <2>3
  <1>3. ASSUME NEW u \in R, NEW v \in R, u.position < v.position
        PROVE  rank(u) < rank(v)
    <2>1. below(u) \subseteq below(v) /\ v \in below(v) /\ v \notin below(u)
      BY <1>1, <1>3
    <2> HIDE DEF below
    <2>2. IsFiniteSet(below(v)) /\ rank(u) \in Int /\ rank(v) \in Int
      BY <1>2, FS_CardinalityType
    <2>3. rank(u) <= rank(v) /\ rank(u) # rank(v)
      BY <2>1, <2>2, FS_Subset
    <2> QED BY <2>2, <2>3
  <1>4. \A u, v \in R : rank(u) = rank(v) => u = v
    <2> HIDE DEF rank
    <2>1. \A u, v \in R : u.position # v.position => rank(u) # rank(v)
      <3>1. ASSUME NEW u \in R, NEW v \in R, u.position # v.position
            PROVE  rank(u) # rank(v)
        <4> HIDE DEF below
        <4>1. rank(u) \in Int /\ rank(v) \in Int
          BY <1>2
        <4>2. u.position < v.position \/ v.position < u.position
          BY <1>1, <3>1
        <4> QED BY <1>3, <4>1, <4>2
      <3> QED BY <3>1
    <2> QED BY <2>1 DEF Apart
  <1>5. \A i \in 1..n : \E u \in R : rank(u) = i
    <2> DEFINE f == [u \in R |-> rank(u)]
    <2> HIDE DEF rank
    <2>1. f \in [R -> 1..n] /\ \A u \in R : f[u] = rank(u)
      BY <1>2
    <2> HIDE DEF f
    <2>2. f \in Injection(R, 1..n)
      BY <1>4, <2>1 DEF Injection, IsInjective
    <2>3. IsFiniteSet(1..n) /\ Cardinality(1..n) = n
      BY FS_Interval
    <2>4. f \in Surjection(R, 1..n)
      BY <2>2, <2>3, FS_Injection
    <2> QED BY <2>1, <2>4 DEF Surjection
  <1>6. \A i \in 1..n : Nth(R, i) \in R /\ rank(Nth(R, i)) = i
    BY <1>5 DEF Nth
  <1>7. \A u \in R : \E i \in 1..n : Nth(R, i) = u
    <2> HIDE DEF rank
    <2> QED BY <1>2, <1>4, <1>6
  <1>8. ASSUME NEW i \in 1..n, NEW j \in 1..n, i < j
        PROVE  Nth(R, i).position < Nth(R, j).position
    <2> HIDE DEF rank
    <2>1. PICK u \in R, v \in R : u = Nth(R, i) /\ v = Nth(R, j)
      BY <1>6
    <2>2. rank(u) = i /\ rank(v) = j
      BY <1>6, <2>1
    <2>3. ~(v.position < u.position)
      BY <1>3, <1>8, <2>2
    <2>4. u.position # v.position
      BY <1>8, <2>2 DEF Apart
    <2> QED BY <1>1, <2>1, <2>3, <2>4
  <1> QED BY <1>1, <1>6, <1>7, <1>8 DEF Upto

LEMMA ListedIsList ==
    ASSUME NEW R, AreRows(R), Apart(R)
    PROVE  /\ IsList(Listed(R))
           /\ Len(Listed(R)) = Cardinality(R)
           /\ Ids(Listed(R)) = IdsOf(R)
           /\ \A u \in R : TextOf(Listed(R), u.id) = u.text
           /\ \A i \in 1..Cardinality(R) :
                Nth(R, i) \in R /\ Listed(R)[i].id = Nth(R, i).id
           /\ \A i, j \in 1..Cardinality(R) : i < j => Nth(R, i).position < Nth(R, j).position
  <1> PICK n, s : n = Cardinality(R) /\ s = Listed(R)
    OBVIOUS
  <1>1. /\ n \in Nat
        /\ \A i \in 1..n : Nth(R, i) \in R
        /\ \A u \in R : \E i \in 1..n : Nth(R, i) = u
        /\ \A i, j \in 1..n : i < j => Nth(R, i).position < Nth(R, j).position
    BY Enumerated
  <1>2. \A u \in R : u.id \in Int /\ u.text \in Int /\ u.position \in Int
    BY DEF AreRows, Row
  <1>3. s = [i \in 1..n |-> [id |-> Nth(R, i).id, text |-> Nth(R, i).text]]
    BY DEF Listed
  <1>4. \A i \in 1..n : [id |-> Nth(R, i).id, text |-> Nth(R, i).text] \in Block
    BY <1>1, <1>2 DEF Block
  <1>5. s \in Seq(Block) /\ Len(s) = n
    BY <1>1, <1>3, <1>4
  <1>6. \A i \in 1..n : s[i].id = Nth(R, i).id /\ s[i].text = Nth(R, i).text
    BY <1>3
  <1>7. \A i, j \in 1..n : Nth(R, i).id = Nth(R, j).id => i = j
    <2>1. ASSUME NEW i \in 1..n, NEW j \in 1..n, Nth(R, i).id = Nth(R, j).id
          PROVE  i = j
      <3>1. PICK u \in R, v \in R : u = Nth(R, i) /\ v = Nth(R, j)
        BY <1>1
      <3>2. u = v
        BY <2>1, <3>1 DEF AreRows, OneEach
      <3>3. ~(u.position < u.position)
        BY <1>2
      <3>4. ~(i < j) /\ ~(j < i)
        BY <1>1, <3>1, <3>2, <3>3
      <3> QED BY <3>4
    <2> QED BY <2>1
  <1>8. IsList(s)
    BY <1>5, <1>6, <1>7 DEF IsList
  <1>9. /\ \A id : id \in Ids(s) <=> \E i \in 1..n : id = s[i].id
        /\ \A i \in 1..n : TextOf(s, s[i].id) = s[i].text
    BY <1>5, <1>8, Blocks
  <1>10. Ids(s) = IdsOf(R)
    <2>1. \A id : id \in IdsOf(R) <=> \E u \in R : id = u.id
      BY DEF IdsOf
    <2>2. \A id \in Ids(s) : id \in IdsOf(R)
      BY <1>1, <1>6, <1>9, <2>1
    <2>3. \A id \in IdsOf(R) : id \in Ids(s)
      BY <1>1, <1>6, <1>9, <2>1
    <2> QED BY <2>2, <2>3
  <1>11. \A u \in R : TextOf(s, u.id) = u.text
    <2>1. ASSUME NEW u \in R
          PROVE  TextOf(s, u.id) = u.text
      <3>1. PICK i \in 1..n : Nth(R, i) = u
        BY <1>1
      <3> QED BY <1>6, <1>9, <3>1
    <2> QED BY <2>1
  <1> QED BY <1>1, <1>5, <1>6, <1>8, <1>10, <1>11

(* What is listed from the rows of a list is the list.                          *)
LEMMA ListedRows ==
    ASSUME NEW s, IsList(s)
    PROVE  Listed(Rows(s)) = s
  <1> PICK n, R : n = Len(s) /\ R = Rows(s)
    OBVIOUS
  <1>1. /\ n \in Nat /\ DOMAIN s = 1..n
        /\ \A i \in 1..n : s[i] = [id |-> s[i].id, text |-> s[i].text]
    BY Blocks
  <1>2. /\ AreRows(R) /\ Apart(R) /\ Cardinality(R) = n
        /\ \A u : u \in R <=>
             \E i \in 1..n : u = [id |-> s[i].id, text |-> s[i].text, position |-> i]
        /\ \A i \in 1..n : Cardinality(Upto(R, i)) = i
    BY RowsOfList
  <1>3. \A i \in 1..n : Nth(R, i) = [id |-> s[i].id, text |-> s[i].text, position |-> i]
    <2>1. ASSUME NEW i \in 1..n
          PROVE  Nth(R, i) = [id |-> s[i].id, text |-> s[i].text, position |-> i]
      <3>1. /\ Nth(R, i) \in R
            /\ Cardinality(Upto(R, Nth(R, i).position)) = i
        <4>1. i \in 1..Cardinality(R)
          BY <1>2
        <4> QED BY <1>2, <4>1, Enumerated
      <3>2. PICK k \in 1..n :
              Nth(R, i) = [id |-> s[k].id, text |-> s[k].text, position |-> k]
        BY <1>2, <3>1
      <3>3. Nth(R, i).position = k
        BY <3>2
      <3>4. k = i
        BY <1>2, <3>1, <3>3
      <3> QED BY <3>2, <3>4
    <2> QED BY <2>1
  <1>4. \A i \in 1..n : [id |-> Nth(R, i).id, text |-> Nth(R, i).text] = s[i]
    BY <1>1, <1>3
  <1>5. Listed(R) = [i \in 1..n |-> s[i]]
    BY <1>2, <1>4 DEF Listed
  <1> QED BY <1>1, <1>5 DEF IsList

(* The rows of a list and the list itself.                                      *)
LEMMA RowFacts ==
    ASSUME NEW s, IsList(s)
    PROVE  /\ \A u \in Rows(s) :
                /\ u.id \in Ids(s) /\ u.id \in Int /\ u.text \in Int
                /\ TextOf(s, u.id) = u.text
                /\ PositionOf(s, u.id) = u.position
                /\ u.position \in 1..Len(s)
           /\ \A id \in Ids(s) : \E u \in Rows(s) : u.id = id
  <1>1. ASSUME NEW u \in Rows(s)
        PROVE  /\ u.id \in Ids(s) /\ u.id \in Int /\ u.text \in Int
               /\ TextOf(s, u.id) = u.text
               /\ PositionOf(s, u.id) = u.position
               /\ u.position \in 1..Len(s)
    <2>1. PICK i \in 1..Len(s) : u = [id |-> s[i].id, text |-> s[i].text, position |-> i]
      BY RowsOfList
    <2>2. u.id = s[i].id /\ u.text = s[i].text /\ u.position = i
      BY <2>1
    <2>3. /\ s[i].id \in Ids(s) /\ s[i].id \in Int /\ s[i].text \in Int
          /\ TextOf(s, s[i].id) = s[i].text /\ PositionOf(s, s[i].id) = i
      BY Blocks
    <2> QED BY <2>2, <2>3
  <1>2. \A id \in Ids(s) : \E u \in Rows(s) : u.id = id
    BY RowsOfList DEF IdsOf
  <1> QED BY <1>1, <1>2

--------------------------------------------------------------------------------
(* Deltas.                                                                      *)

LEMMA DeltaFacts ==
    ASSUME NEW draft, NEW base, IsList(draft), IsList(base)
    PROVE  LET delta == DeltaBetween(draft, base)
           IN  /\ AreRows(delta.upserts) /\ Apart(delta.upserts)
               /\ delta.upserts \subseteq Rows(draft)
               /\ IdsOf(delta.upserts) \subseteq Ids(draft)
               /\ delta.deletes = Ids(base) \ Ids(draft)
               /\ Ids(draft) \ Ids(base) \subseteq IdsOf(delta.upserts)
               /\ \A u \in Rows(draft) : u \notin Rows(base) => u \in delta.upserts
               /\ Overlay(base, delta) = Rows(draft)
  <1> DEFINE delta == DeltaBetween(draft, base)
  <1>1. /\ delta.upserts = {u \in Rows(draft) : u \notin Rows(base)}
        /\ delta.deletes = Ids(base) \ Ids(draft)
    BY DEF DeltaBetween, SameIn
  <1> HIDE DEF delta
  <1>2. /\ AreRows(Rows(draft)) /\ Apart(Rows(draft)) /\ AreRows(Rows(base))
    BY RowsOfList
  <1>3. AreRows(delta.upserts) /\ Apart(delta.upserts) /\ delta.upserts \subseteq Rows(draft)
    <2>1. delta.upserts \subseteq Rows(draft)
      BY <1>1
    <2>2. IsFiniteSet(delta.upserts)
      BY <1>2, <2>1, FS_Subset DEF AreRows
    <2> QED BY <1>2, <2>1, <2>2 DEF AreRows, OneEach, Apart
  <1>4. \A id : id \in IdsOf(delta.upserts) <=> \E u \in delta.upserts : u.id = id
    BY DEF IdsOf
  <1>5. IdsOf(delta.upserts) \subseteq Ids(draft)
    BY <1>3, <1>4, RowFacts
  <1>6. Ids(draft) \ Ids(base) \subseteq IdsOf(delta.upserts)
    <2>1. ASSUME NEW id \in Ids(draft), id \notin Ids(base)
          PROVE  id \in IdsOf(delta.upserts)
      <3>1. PICK u \in Rows(draft) : u.id = id
        BY RowFacts
      <3>2. u \notin Rows(base)
        BY <2>1, <3>1, RowFacts
      <3> QED BY <1>1, <1>4, <3>1, <3>2
    <2> QED BY <2>1
  <1>7. ASSUME NEW u \in Rows(base), u.id \notin delta.deletes \cup IdsOf(delta.upserts)
        PROVE  u \in Rows(draft)
    <2>1. u.id \in Ids(draft)
      BY <1>1, <1>7, RowFacts
    <2>2. PICK v \in Rows(draft) : v.id = u.id
      BY <2>1, RowFacts
    <2>3. v \in Rows(base)
      BY <1>1, <1>4, <1>7, <2>2
    <2> QED BY <1>2, <2>2, <2>3 DEF AreRows, OneEach
  <1>8. ASSUME NEW u \in Rows(draft), u \in Rows(base)
        PROVE  u.id \notin delta.deletes \cup IdsOf(delta.upserts)
    <2>1. u.id \notin delta.deletes
      BY <1>1, RowFacts
    <2>2. ASSUME u.id \in IdsOf(delta.upserts)
          PROVE  FALSE
      <3>1. PICK v \in delta.upserts : v.id = u.id
        BY <1>4, <2>2
      <3>2. v = u
        BY <1>2, <1>3, <3>1 DEF AreRows, OneEach
      <3> QED BY <1>1, <1>8, <3>2
    <2> QED BY <2>1, <2>2
  <1>9. Overlay(base, delta) = Rows(draft)
    BY <1>1, <1>7, <1>8 DEF Overlay
  <1>10. \A u \in Rows(draft) : u \notin Rows(base) => u \in delta.upserts
    BY <1>1
  <1> QED BY <1>1, <1>3, <1>5, <1>6, <1>9, <1>10 DEF delta

(* flushToContent and save_content: the delta of a document against a content   *)
(* is accepted by that content, and leaves exactly the document.               *)
THEOREM DeltaReaches ==
    ASSUME NEW draft, NEW base, IsList(draft), IsList(base)
    PROVE  /\ CoreAccepts(base, DeltaBetween(draft, base))
           /\ Saved(base, DeltaBetween(draft, base)) = draft
  <1> PICK delta : delta = DeltaBetween(draft, base)
    OBVIOUS
  <1>1. Overlay(base, delta) = Rows(draft) /\ delta.deletes = Ids(base) \ Ids(draft)
    BY DeltaFacts
  <1>2. CoreAccepts(base, delta)
    BY <1>1, RowsOfList DEF CoreAccepts, Apart
  <1>3. Saved(base, delta) = draft
    BY <1>1, ListedRows DEF Saved
  <1> QED BY <1>2, <1>3

(* Nothing to send means nothing to say: the document is the content.           *)
LEMMA NoDeltaSame ==
    ASSUME NEW draft, NEW base, IsList(draft), IsList(base), DeltaBetween(draft, base) = NoDelta
    PROVE  draft = base
  <1>1. Overlay(base, NoDelta) = Rows(draft)
    BY DeltaFacts
  <1>2. NoDelta.upserts = {} /\ NoDelta.deletes = {}
    BY DEF NoDelta
  <1>3. IdsOf({}) = {}
    BY DEF IdsOf
  <1>4. Overlay(base, NoDelta) = Rows(base)
    BY <1>2, <1>3 DEF Overlay
  <1>5. Listed(Rows(draft)) = draft /\ Listed(Rows(base)) = base
    BY ListedRows
  <1> QED BY <1>1, <1>4, <1>5

(* An accepted delta of rows leaves a list.                                     *)
LEMMA SavedIsList ==
    ASSUME NEW units, NEW delta, IsList(units), AreRows(delta.upserts),
           CoreAccepts(units, delta)
    PROVE  /\ IsList(Saved(units, delta))
           /\ Ids(Saved(units, delta)) \subseteq Ids(units) \cup IdsOf(delta.upserts)
  <1> PICK R : R = Overlay(units, delta)
    OBVIOUS
  <1>1. AreRows(Rows(units))
    BY RowsOfList
  <1> DEFINE kept == {u \in Rows(units) : u.id \notin delta.deletes \cup IdsOf(delta.upserts)}
  <1>2. kept \subseteq Rows(units) /\ \A u \in kept : u.id \notin IdsOf(delta.upserts)
    OBVIOUS
  <1>3. R = kept \cup delta.upserts
    BY DEF Overlay
  <1> HIDE DEF kept
  <1>4. IsFiniteSet(R)
    <2>1. IsFiniteSet(kept)
      BY <1>1, <1>2, FS_Subset DEF AreRows
    <2> QED BY <1>3, <2>1, FS_Union DEF AreRows
  <1>5. \A id : id \in IdsOf(delta.upserts) <=> \E u \in delta.upserts : id = u.id
    BY DEF IdsOf
  <1>6. OneEach(R) /\ R \subseteq Row
    BY <1>1, <1>2, <1>3, <1>5 DEF AreRows, OneEach
  <1>7. AreRows(R) /\ Apart(R)
    BY <1>4, <1>6 DEF AreRows, Apart, CoreAccepts
  <1>8. IsList(Listed(R)) /\ Ids(Listed(R)) = IdsOf(R)
    BY <1>7, ListedIsList
  <1>9. IdsOf(R) \subseteq Ids(units) \cup IdsOf(delta.upserts)
    <2>1. \A id \in IdsOf(R) : \E u \in R : id = u.id
      BY DEF IdsOf
    <2>2. \A u \in Rows(units) : u.id \in Ids(units)
      BY RowFacts
    <2>3. \A u \in R : u.id \in Ids(units) \/ u.id \in IdsOf(delta.upserts)
      BY <1>2, <1>3, <1>5, <2>2
    <2> QED BY <2>1, <2>3
  <1> QED BY <1>8, <1>9 DEF Saved

--------------------------------------------------------------------------------
(* Merges.                                                                      *)

LEMMA WithMineRow ==
    ASSUME NEW E, AreRows(E), NEW u \in Row
    PROVE  /\ WithMine(u, E) \in Row
           /\ WithMine(u, E).id = u.id
           /\ WithMine(u, E).position = u.position
           /\ u.id \notin IdsOf(E) => WithMine(u, E).text = u.text
           /\ \A e \in E : e.id = u.id => WithMine(u, E).text = e.text
  <1>1. \A id : id \in IdsOf(E) <=> \E e \in E : id = e.id
    BY DEF IdsOf
  <1>2. CASE u.id \notin IdsOf(E)
    <2>1. WithMine(u, E) = u
      BY <1>2 DEF WithMine
    <2> QED BY <1>1, <1>2, <2>1 DEF Row
  <1>3. CASE u.id \in IdsOf(E)
    <2>1. PICK e \in E : e.id = u.id
      BY <1>1, <1>3
    <2>2. \A d \in E : d.id = u.id => d = e
      BY <2>1 DEF AreRows, OneEach
    <2>3. (CHOOSE d \in E : d.id = u.id) = e
      BY <2>1, <2>2
    <2>4. WithMine(u, E) = [u EXCEPT !.text = e.text]
      BY <1>3, <2>3 DEF WithMine, TextIn
    <2>5. e.text \in Int
      BY DEF AreRows, Row
    <2>6. /\ [u EXCEPT !.text = e.text] \in Row
          /\ [u EXCEPT !.text = e.text].id = u.id
          /\ [u EXCEPT !.text = e.text].position = u.position
          /\ [u EXCEPT !.text = e.text].text = e.text
      BY <2>5 DEF Row
    <2> QED BY <1>3, <2>2, <2>4, <2>6
  <1> QED BY <1>2, <1>3

Overwrites(M, K, E) ==
    /\ AreRows(M) /\ Apart(M)
    /\ IdsOf(M) = IdsOf(K)
    /\ \A w \in M : \E u \in K : w = WithMine(u, E)
    /\ \A u \in K : WithMine(u, E) \in M

LEMMA Overwritten ==
    ASSUME NEW K, NEW E, AreRows(K), Apart(K), AreRows(E)
    PROVE  Overwrites({WithMine(u, E) : u \in K}, K, E)
  <1> DEFINE M == {WithMine(u, E) : u \in K}
  <1>1. (\A w \in M : \E u \in K : w = WithMine(u, E)) /\ (\A u \in K : WithMine(u, E) \in M)
    OBVIOUS
  <1> HIDE DEF M
  <1>2. \A u \in K : /\ u \in Row
                     /\ WithMine(u, E) \in Row
                     /\ WithMine(u, E).id = u.id
                     /\ WithMine(u, E).position = u.position
    BY WithMineRow DEF AreRows
  <1>3. M \subseteq Row /\ OneEach(M) /\ Apart(M)
    <2>1. \A u, v \in K : u.id = v.id => u = v
      BY DEF AreRows, OneEach
    <2>2. \A u, v \in K : u.position = v.position => u = v
      BY DEF Apart
    <2>3. M \subseteq Row
      BY <1>1, <1>2
    <2>4. ASSUME NEW w \in M, NEW x \in M, w.id = x.id \/ w.position = x.position
          PROVE  w = x
      <3>1. PICK u \in K, v \in K : w = WithMine(u, E) /\ x = WithMine(v, E)
        BY <1>1
      <3>2. u.id = v.id \/ u.position = v.position
        BY <1>2, <2>4, <3>1
      <3>3. u = v
        BY <2>1, <2>2, <3>2
      <3> QED BY <3>1, <3>3
    <2> QED BY <2>3, <2>4 DEF OneEach, Apart
  <1>4. IsFiniteSet(M)
    <2> DEFINE f == [u \in K |-> WithMine(u, E)]
    <2>1. f \in [K -> M] /\ \A u \in K : f[u] = WithMine(u, E)
      BY <1>1
    <2> HIDE DEF f
    <2>2. \A w \in M : \E u \in K : f[u] = w
      BY <1>1, <2>1
    <2>3. f \in Surjection(K, M)
      BY <2>1, <2>2 DEF Surjection
    <2> QED BY <2>3, FS_Surjection DEF AreRows
  <1>5. IdsOf(M) = IdsOf(K)
    <2>1. /\ \A id : id \in IdsOf(M) <=> \E w \in M : id = w.id
          /\ \A id : id \in IdsOf(K) <=> \E u \in K : id = u.id
      BY DEF IdsOf
    <2>2. \A id \in IdsOf(M) : id \in IdsOf(K)
      BY <1>1, <1>2, <2>1
    <2>3. \A id \in IdsOf(K) : id \in IdsOf(M)
      BY <1>1, <1>2, <2>1
    <2> QED BY <2>2, <2>3
  <1>6. AreRows(M)
    BY <1>3, <1>4 DEF AreRows
  <1>7. Overwrites(M, K, E)
    BY <1>1, <1>3, <1>5, <1>6 DEF Overwrites
  <1> QED BY <1>7 DEF M

(* Rows that some of are left out.                                              *)
LEMMA SomeRows ==
    ASSUME NEW R, NEW S, AreRows(R), Apart(R), S \subseteq R
    PROVE  AreRows(S) /\ Apart(S)
  <1>1. IsFiniteSet(S)
    BY FS_Subset DEF AreRows
  <1> QED BY <1>1 DEF AreRows, OneEach, Apart

(* What planMerge makes of a delta and a server whose units it does not collide  *)
(* with: the server's units in the server's order, less the deleted ones, then   *)
(* the units only the delta has; a unit of the delta has the delta's text.       *)
IsMergeOf(merged, base, theirs, mine) ==
    /\ IsList(merged)
    /\ Ids(merged) = (Ids(theirs) \ mine.deletes) \cup IdsOf(mine.upserts)
    /\ \A u \in mine.upserts : TextOf(merged, u.id) = u.text
    /\ \A id \in Ids(merged) \ IdsOf(mine.upserts) : TextOf(merged, id) = TextOf(theirs, id)
    /\ \A i, j \in 1..Len(merged) :
            i < j /\ merged[j].id \in Ids(theirs) =>
                /\ merged[i].id \in Ids(theirs)
                /\ PositionOf(theirs, merged[i].id) < PositionOf(theirs, merged[j].id)

(* planMerge: the units it puts on the screen are a three-way merge, for every  *)
(* baseline, server content and delta of mine, forced or not.                   *)
THEOREM MergeShape ==
    ASSUME NEW base, NEW theirs, NEW mine, IsList(base), IsList(theirs),
           AreRows(mine.upserts), Apart(mine.upserts),
           mine.deletes \cap IdsOf(mine.upserts) = {},
           (IdsOf(mine.upserts) \ Ids(base)) \cap Ids(theirs) = {}
    PROVE  IsMergeOf(MergedUnits(base, theirs, mine), base, theirs, mine)
  <1> DEFINE new == {u \in mine.upserts : u.id \notin Ids(base)}
             edited == mine.upserts \ new
             kept == {u \in Rows(theirs) : u.id \notin mine.deletes}
             M == {WithMine(u, edited) : u \in kept}
             back == {u \in edited : u.id \notin Ids(theirs)}
  <1> PICK A, B, C, merged : /\ A = Listed(M) /\ B = Listed(new) /\ C = Listed(back)
                             /\ merged = MergedUnits(base, theirs, mine)
    OBVIOUS
  <1>1. merged = (A \o B) \o C
    BY DEF MergedUnits
  <1>2. \A S : \A id : id \in IdsOf(S) <=> \E u \in S : id = u.id
    BY DEF IdsOf
  <1>3. /\ \A u : u \in new <=> u \in mine.upserts /\ u.id \notin Ids(base)
        /\ \A u : u \in edited <=> u \in mine.upserts /\ u.id \in Ids(base)
        /\ \A u : u \in back <=>
              u \in mine.upserts /\ u.id \in Ids(base) /\ u.id \notin Ids(theirs)
        /\ \A u : u \in kept <=> u \in Rows(theirs) /\ u.id \notin mine.deletes
    OBVIOUS
  <1>4. /\ AreRows(Rows(theirs)) /\ Apart(Rows(theirs)) /\ IdsOf(Rows(theirs)) = Ids(theirs)
    BY RowsOfList
  <1> HIDE DEF new, edited, kept, back
  <1>5. /\ new \subseteq mine.upserts /\ edited \subseteq mine.upserts
        /\ back \subseteq mine.upserts /\ kept \subseteq Rows(theirs)
    BY <1>3
  <1>6. /\ AreRows(new) /\ Apart(new) /\ AreRows(edited) /\ Apart(edited)
        /\ AreRows(back) /\ Apart(back) /\ AreRows(kept) /\ Apart(kept)
    BY <1>4, <1>5, SomeRows
  <1>7. /\ AreRows(M) /\ Apart(M) /\ IdsOf(M) = IdsOf(kept)
        /\ \A w \in M : \E u \in kept : w = WithMine(u, edited)
        /\ \A u \in kept : WithMine(u, edited) \in M
    <2>1. Overwrites(M, kept, edited)
      BY <1>6, Overwritten
    <2> HIDE DEF M
    <2> QED BY <2>1 DEF Overwrites
  <1> HIDE DEF M
  <1>8. /\ IsList(A) /\ Ids(A) = IdsOf(M) /\ Len(A) = Cardinality(M)
        /\ \A w \in M : TextOf(A, w.id) = w.text
        /\ \A i \in 1..Len(A) : Nth(M, i) \in M /\ A[i].id = Nth(M, i).id
        /\ \A i, j \in 1..Len(A) : i < j => Nth(M, i).position < Nth(M, j).position
    BY <1>7, ListedIsList
  <1>9. /\ IsList(B) /\ Ids(B) = IdsOf(new) /\ \A u \in new : TextOf(B, u.id) = u.text
        /\ IsList(C) /\ Ids(C) = IdsOf(back) /\ \A u \in back : TextOf(C, u.id) = u.text
    BY <1>6, ListedIsList
  <1>10. \A id : id \in Ids(A) <=> id \in Ids(theirs) \ mine.deletes
    BY <1>2, <1>3, <1>4, <1>7, <1>8
  <1>11. /\ \A id : id \in Ids(B) <=> id \in IdsOf(mine.upserts) /\ id \notin Ids(base)
         /\ \A id : id \in Ids(C) <=>
              id \in IdsOf(mine.upserts) /\ id \in Ids(base) /\ id \notin Ids(theirs)
    BY <1>2, <1>3, <1>9
  <1>12. /\ Ids(A) \cap Ids(B) = {} /\ (Ids(A) \cup Ids(B)) \cap Ids(C) = {}
    BY <1>10, <1>11
  <1> PICK AB : AB = A \o B
    OBVIOUS
  <1>13. /\ IsList(AB) /\ Ids(AB) = Ids(A) \cup Ids(B) /\ Len(AB) = Len(A) + Len(B)
         /\ \A i \in 1..Len(A) : AB[i] = A[i]
         /\ \A i \in (Len(A) + 1)..(Len(A) + Len(B)) : AB[i] = B[i - Len(A)]
         /\ \A id \in Ids(A) : TextOf(AB, id) = TextOf(A, id)
         /\ \A id \in Ids(B) : TextOf(AB, id) = TextOf(B, id)
    <2>1. Joins(AB, A, B)
      BY <1>8, <1>9, <1>12, Joined
    <2> QED BY <2>1 DEF Joins
  <1>14. /\ IsList(merged) /\ Ids(merged) = Ids(AB) \cup Ids(C)
         /\ Len(merged) = Len(AB) + Len(C)
         /\ \A i \in 1..Len(AB) : merged[i] = AB[i]
         /\ \A i \in (Len(AB) + 1)..(Len(AB) + Len(C)) : merged[i] = C[i - Len(AB)]
         /\ \A id \in Ids(AB) : TextOf(merged, id) = TextOf(AB, id)
         /\ \A id \in Ids(C) : TextOf(merged, id) = TextOf(C, id)
    <2>1. Joins(merged, AB, C)
      BY <1>1, <1>9, <1>12, <1>13, Joined
    <2> QED BY <2>1 DEF Joins
  <1>15. Ids(merged) = (Ids(theirs) \ mine.deletes) \cup IdsOf(mine.upserts)
    <2>1. \A id : id \in Ids(merged) <=> id \in Ids(A) \/ id \in Ids(B) \/ id \in Ids(C)
      BY <1>13, <1>14
    <2> QED BY <1>10, <1>11, <2>1
  <1>16. ASSUME NEW u \in mine.upserts
         PROVE  TextOf(merged, u.id) = u.text
    <2>1. CASE u \in new
      <3>1. u.id \in Ids(B)
        BY <1>2, <1>9, <2>1
      <3> QED BY <1>9, <1>13, <1>14, <2>1, <3>1
    <2>2. CASE u \in back
      <3>1. u.id \in Ids(C)
        BY <1>2, <1>9, <2>2
      <3> QED BY <1>9, <1>14, <2>2, <3>1
    <2>3. CASE u \notin new /\ u \notin back
      <3>1. u \in edited /\ u.id \in Ids(theirs) /\ u.id \notin mine.deletes
        BY <1>2, <1>3, <2>3
      <3>2. PICK v \in Rows(theirs) : v.id = u.id
        BY <3>1, RowFacts
      <3>3. v \in kept /\ v \in Row
        BY <1>3, <1>4, <3>1, <3>2 DEF AreRows
      <3>4. WithMine(v, edited).id = u.id /\ WithMine(v, edited).text = u.text
        BY <1>6, <3>1, <3>2, <3>3, WithMineRow
      <3>5. WithMine(v, edited) \in M
        BY <1>7, <3>3
      <3>6. u.id \in Ids(A) /\ TextOf(A, u.id) = u.text
        BY <1>2, <1>8, <3>4, <3>5
      <3> QED BY <1>13, <1>14, <3>6
    <2> QED BY <2>1, <2>2, <2>3
  <1>17. ASSUME NEW id \in Ids(merged), id \notin IdsOf(mine.upserts)
         PROVE  TextOf(merged, id) = TextOf(theirs, id)
    <2>1. id \in Ids(theirs) /\ id \notin mine.deletes /\ id \in Ids(A)
      BY <1>10, <1>15, <1>17
    <2>2. PICK v \in Rows(theirs) : v.id = id
      BY <2>1, RowFacts
    <2>3. v \in kept /\ v \in Row /\ v.id \notin IdsOf(edited)
      BY <1>2, <1>3, <1>4, <1>17, <2>1, <2>2 DEF AreRows
    <2>4. WithMine(v, edited).id = id /\ WithMine(v, edited).text = v.text
      BY <1>6, <2>2, <2>3, WithMineRow
    <2>5. TextOf(A, id) = v.text
      BY <1>7, <1>8, <2>3, <2>4
    <2>6. TextOf(theirs, id) = v.text
      BY <2>2, RowFacts
    <2> QED BY <1>13, <1>14, <2>1, <2>5, <2>6
  <1>18. ASSUME NEW i \in 1..Len(merged), NEW j \in 1..Len(merged),
                i < j, merged[j].id \in Ids(theirs)
         PROVE  /\ merged[i].id \in Ids(theirs)
                /\ PositionOf(theirs, merged[i].id) < PositionOf(theirs, merged[j].id)
    <2>1. Len(A) \in Nat /\ Len(B) \in Nat /\ Len(C) \in Nat
      BY <1>8, <1>9, Blocks
    <2>2. \A k \in 1..Len(merged) : k \notin 1..Len(A) => merged[k].id \notin Ids(theirs)
      <3>1. ASSUME NEW k \in 1..Len(merged), k \notin 1..Len(A)
            PROVE  merged[k].id \notin Ids(theirs)
        <4>1. CASE k \in (Len(A) + 1)..(Len(A) + Len(B))
          <5>4. Len(AB) = Len(A) + Len(B)
            BY <1>13
          <5>1. k - Len(A) \in 1..Len(B) /\ k \in 1..Len(AB)
            BY <2>1, <4>1, <5>4
          <5>3. merged[k] = B[k - Len(A)]
            <6>1. merged[k] = AB[k]
              BY <1>14, <5>1
            <6>2. AB[k] = B[k - Len(A)]
              BY <1>13, <4>1
            <6> QED BY <6>1, <6>2
          <5>2. merged[k].id \in Ids(B)
            BY <1>9, <5>1, <5>3, Blocks
          <5> QED BY <1>11, <5>2
        <4>2. CASE k \notin (Len(A) + 1)..(Len(A) + Len(B))
          <5>1. Len(AB) = Len(A) + Len(B) /\ Len(merged) = Len(AB) + Len(C)
            BY <1>13, <1>14
          <5>2. k \in (Len(AB) + 1)..(Len(AB) + Len(C)) /\ k - Len(AB) \in 1..Len(C)
            BY <2>1, <3>1, <4>2, <5>1
          <5>3. merged[k] = C[k - Len(AB)]
            BY <1>14, <5>2
          <5>4. merged[k].id \in Ids(C)
            BY <1>9, <5>2, <5>3, Blocks
          <5> QED BY <1>11, <5>4
        <4> QED BY <4>1, <4>2
      <3> QED BY <3>1
    <2>3. j \in 1..Len(A) /\ i \in 1..Len(A)
      BY <1>18, <2>1, <2>2
    <2>4. \A k \in 1..Len(A) : merged[k] = A[k]
      BY <1>13, <1>14, <2>1
    <2>5. ASSUME NEW k \in 1..Len(A)
          PROVE  /\ merged[k].id \in Ids(theirs)
                 /\ PositionOf(theirs, merged[k].id) = Nth(M, k).position
      <3>1. Nth(M, k) \in M /\ merged[k].id = Nth(M, k).id
        BY <1>8, <2>4
      <3>2. PICK u \in kept : Nth(M, k) = WithMine(u, edited)
        BY <1>7, <3>1
      <3>3. u \in Rows(theirs) /\ u \in Row
        BY <1>4, <1>5 DEF AreRows
      <3>4. Nth(M, k).id = u.id /\ Nth(M, k).position = u.position
        BY <1>6, <3>2, <3>3, WithMineRow
      <3> QED BY <3>1, <3>3, <3>4, RowFacts
    <2>6. Nth(M, i).position < Nth(M, j).position
      BY <1>8, <1>18, <2>3
    <2> QED BY <2>3, <2>5, <2>6
  <1> QED BY <1>14, <1>15, <1>16, <1>17, <1>18 DEF IsMergeOf

--------------------------------------------------------------------------------
(* What the gestures of a user make of a list.                                  *)

(* A stretch of a list.                                                         *)
LEMMA Stretch ==
    ASSUME NEW s, IsList(s), NEW a \in Int, NEW b \in Int, 1 <= a, b <= Len(s), a <= b + 1
    PROVE  /\ IsList(SubSeq(s, a, b))
           /\ Len(SubSeq(s, a, b)) = b - a + 1
           /\ \A id : id \in Ids(SubSeq(s, a, b)) <=> \E k \in a..b : id = s[k].id
  <1>0. PICK w : w = SubSeq(s, a, b)
    OBVIOUS
  <1>1. Len(s) \in Nat /\ s \in Seq(Block)
    BY DEF IsList
  <1>2. /\ w \in Seq(Block) /\ Len(w) = b - a + 1
        /\ \A i \in 1..(b - a + 1) : w[i] = s[a + i - 1]
    BY <1>0, <1>1
  <1>3. \A i \in 1..(b - a + 1) : a + i - 1 \in 1..Len(s) /\ a + i - 1 \in a..b
    BY <1>1
  <1>4. ASSUME NEW i \in 1..Len(w), NEW j \in 1..Len(w), w[i].id = w[j].id
        PROVE  i = j
    <2>1. i \in 1..(b - a + 1) /\ j \in 1..(b - a + 1)
      BY <1>2
    <2>2. PICK k, l : k = a + i - 1 /\ l = a + j - 1
      OBVIOUS
    <2>3. k \in 1..Len(s) /\ l \in 1..Len(s) /\ w[i] = s[k] /\ w[j] = s[l]
      BY <1>2, <1>3, <2>1, <2>2
    <2>4. k = l
      BY <1>4, <2>3 DEF IsList
    <2> QED BY <2>1, <2>2, <2>4
  <1>5. IsList(w)
    BY <1>2, <1>4 DEF IsList
  <1>6. \A id : id \in Ids(w) <=> \E i \in 1..(b - a + 1) : id = w[i].id
    <2>1. \A id : id \in Ids(w) <=> \E i \in 1..Len(w) : id = w[i].id
      BY <1>5, Members
    <2> QED BY <1>2, <2>1
  <1>7. ASSUME NEW k \in a..b
        PROVE  \E i \in 1..(b - a + 1) : s[k].id = w[i].id
    <2>1. k - a + 1 \in 1..(b - a + 1) /\ a + (k - a + 1) - 1 = k
      OBVIOUS
    <2>2. PICK i : i = k - a + 1
      OBVIOUS
    <2>3. i \in 1..(b - a + 1) /\ a + i - 1 = k
      BY <2>1, <2>2
    <2>4. w[i] = s[a + i - 1]
      BY <1>2, <2>3
    <2> QED BY <2>3, <2>4
  <1>8. ASSUME NEW i \in 1..(b - a + 1)
        PROVE  \E k \in a..b : w[i].id = s[k].id
    <2>1. PICK k : k = a + i - 1
      OBVIOUS
    <2>2. k \in a..b /\ w[i] = s[k]
      BY <1>2, <1>3, <2>1
    <2> QED BY <2>2
  <1>9. \A id : id \in Ids(w) <=> \E k \in a..b : id = s[k].id
    <2>1. ASSUME NEW id, id \in Ids(w)
          PROVE  \E k \in a..b : id = s[k].id
      BY <1>6, <1>8, <2>1
    <2>2. ASSUME NEW k \in a..b
          PROVE  s[k].id \in Ids(w)
      BY <1>6, <1>7
    <2> QED BY <2>1, <2>2
  <1> QED BY <1>0, <1>2, <1>5, <1>9

LEMMA Inserted ==
    ASSUME NEW s, IsList(s), NEW i \in 1..(Len(s) + 1), NEW e \in Block, e.id \notin Ids(s)
    PROVE  IsList(InsertAt(s, i, e)) /\ Ids(InsertAt(s, i, e)) = Ids(s) \cup {e.id}
  <1> PICK p, q, r, w : /\ p = SubSeq(s, 1, i - 1) /\ q = <<e>> /\ r = SubSeq(s, i, Len(s))
                        /\ w = InsertAt(s, i, e)
    OBVIOUS
  <1>1. w = (p \o q) \o r
    BY DEF InsertAt
  <1>2. Len(s) \in Nat /\ i \in Int
    BY Blocks
  <1>3. /\ IsList(p) /\ \A id : id \in Ids(p) <=> \E k \in 1..(i - 1) : id = s[k].id
        /\ IsList(r) /\ \A id : id \in Ids(r) <=> \E k \in i..Len(s) : id = s[k].id
    BY <1>2, Stretch
  <1>4. IsList(q) /\ Ids(q) = {e.id}
    <2>1. q \in Seq(Block) /\ Len(q) = 1 /\ q[1] = e
      OBVIOUS
    <2>2. IsList(q)
      BY <2>1 DEF IsList
    <2>3. \A id : id \in Ids(q) <=> \E k \in 1..Len(q) : id = q[k].id
      BY <2>2, Members
    <2>4. \A k : k \in 1..Len(q) <=> k = 1
      BY <2>1
    <2>5. \A id : id \in Ids(q) <=> id = e.id
      BY <2>1, <2>3, <2>4
    <2> QED BY <2>2, <2>5
  <1>5. \A id : id \in Ids(s) <=> id \in Ids(p) \/ id \in Ids(r)
    <2>1. \A id : id \in Ids(s) <=> \E k \in 1..Len(s) : id = s[k].id
      BY Members
    <2>2. \A k : k \in 1..Len(s) <=> k \in 1..(i - 1) \/ k \in i..Len(s)
      BY <1>2
    <2> QED BY <1>3, <2>1, <2>2
  <1>6. Ids(p) \cap Ids(r) = {}
    <2>1. \A k \in 1..(i - 1), l \in i..Len(s) : s[k].id # s[l].id
      BY <1>2 DEF IsList
    <2>2. ASSUME NEW id \in Ids(p), id \in Ids(r)
          PROVE  FALSE
      <3>1. PICK k \in 1..(i - 1) : id = s[k].id
        BY <1>3, <2>2
      <3>2. PICK l \in i..Len(s) : id = s[l].id
        BY <1>3, <2>2
      <3> QED BY <2>1, <3>1, <3>2
    <2> QED BY <2>2
  <1> PICK pq : pq = p \o q
    OBVIOUS
  <1>7. IsList(pq) /\ Ids(pq) = Ids(p) \cup {e.id}
    <2>1. Ids(p) \cap Ids(q) = {}
      <3>1. e.id \notin Ids(p)
        BY <1>5
      <3> QED BY <1>4, <3>1
    <2>2. Joins(pq, p, q)
      BY <1>3, <1>4, <2>1, Joined
    <2> QED BY <1>4, <2>2 DEF Joins
  <1>8. IsList(w) /\ Ids(w) = Ids(pq) \cup Ids(r)
    <2>1. Joins(w, pq, r)
      BY <1>1, <1>3, <1>5, <1>6, <1>7, Joined
    <2> QED BY <2>1 DEF Joins
  <1> QED BY <1>5, <1>7, <1>8

LEMMA Removed ==
    ASSUME NEW s, IsList(s), NEW i \in 1..Len(s)
    PROVE  /\ IsList(RemoveAt(s, i))
           /\ Ids(RemoveAt(s, i)) = Ids(s) \ {s[i].id}
           /\ Len(RemoveAt(s, i)) = Len(s) - 1
  <1> PICK p, r, w : /\ p = SubSeq(s, 1, i - 1) /\ r = SubSeq(s, i + 1, Len(s))
                     /\ w = RemoveAt(s, i)
    OBVIOUS
  <1>1. w = p \o r
    BY DEF RemoveAt
  <1>2. Len(s) \in Nat /\ i \in Int
    BY Blocks
  <1>3. /\ IsList(p) /\ Len(p) = i - 1
        /\ \A id : id \in Ids(p) <=> \E k \in 1..(i - 1) : id = s[k].id
        /\ IsList(r) /\ Len(r) = Len(s) - i
        /\ \A id : id \in Ids(r) <=> \E k \in (i + 1)..Len(s) : id = s[k].id
    <2>1. /\ IsList(p) /\ Len(p) = i - 1 - 1 + 1
          /\ \A id : id \in Ids(p) <=> \E k \in 1..(i - 1) : id = s[k].id
      BY <1>2, Stretch
    <2>2. /\ IsList(r) /\ Len(r) = Len(s) - (i + 1) + 1
          /\ \A id : id \in Ids(r) <=> \E k \in (i + 1)..Len(s) : id = s[k].id
      BY <1>2, Stretch
    <2> QED BY <1>2, <2>1, <2>2
  <1>4. \A k, l \in 1..Len(s) : s[k].id = s[l].id => k = l
    BY DEF IsList
  <1>5. \A id : id \in Ids(s) /\ id # s[i].id <=> id \in Ids(p) \/ id \in Ids(r)
    <2>1. \A id : id \in Ids(s) <=> \E k \in 1..Len(s) : id = s[k].id
      BY Members
    <2>2. \A k : k \in 1..Len(s) /\ k # i <=> k \in 1..(i - 1) \/ k \in (i + 1)..Len(s)
      BY <1>2
    <2>3. ASSUME NEW id, id \in Ids(s), id # s[i].id
          PROVE  id \in Ids(p) \/ id \in Ids(r)
      BY <1>3, <2>1, <2>2, <2>3
    <2>4. ASSUME NEW id, id \in Ids(p) \/ id \in Ids(r)
          PROVE  id \in Ids(s) /\ id # s[i].id
      <3>1. PICK k \in 1..Len(s) : k # i /\ id = s[k].id
        BY <1>3, <2>2, <2>4
      <3> QED BY <1>4, <2>1, <3>1
    <2> QED BY <2>3, <2>4
  <1>6. Ids(p) \cap Ids(r) = {}
    <2>1. \A k \in 1..(i - 1), l \in (i + 1)..Len(s) : s[k].id # s[l].id
      <3> TAKE k \in 1..(i - 1), l \in (i + 1)..Len(s)
      <3>1. k \in 1..Len(s) /\ l \in 1..Len(s) /\ k # l
        BY <1>2
      <3> QED BY <1>4, <3>1
    <2>2. ASSUME NEW id \in Ids(p), id \in Ids(r)
          PROVE  FALSE
      <3>1. PICK k \in 1..(i - 1) : id = s[k].id
        BY <1>3, <2>2
      <3>2. PICK l \in (i + 1)..Len(s) : id = s[l].id
        BY <1>3, <2>2
      <3> QED BY <2>1, <3>1, <3>2
    <2> QED BY <2>2
  <1>7. IsList(w) /\ Ids(w) = Ids(p) \cup Ids(r) /\ Len(w) = Len(p) + Len(r)
    <2>1. Joins(w, p, r)
      BY <1>1, <1>3, <1>6, Joined
    <2> QED BY <2>1 DEF Joins
  <1>8. Len(w) = Len(s) - 1
    BY <1>2, <1>3, <1>7
  <1> QED BY <1>5, <1>7, <1>8

LEMMA Retexted ==
    ASSUME NEW s, IsList(s), NEW i \in 1..Len(s), NEW x \in Int
    PROVE  IsList([s EXCEPT ![i].text = x]) /\ Ids([s EXCEPT ![i].text = x]) = Ids(s)
  <1>0. PICK w : w = [s EXCEPT ![i].text = x]
    OBVIOUS
  <1>1. /\ Len(s) \in Nat /\ DOMAIN s = 1..Len(s) /\ s \in Seq(Block)
        /\ \A k \in 1..Len(s) : s[k] \in Block
    BY Blocks DEF IsList
  <1>2. /\ w[i] = [s[i] EXCEPT !.text = x]
        /\ \A k \in 1..Len(s) : k # i => w[k] = s[k]
    BY <1>0, <1>1
  <1>3. [s[i] EXCEPT !.text = x] \in Block /\ [s[i] EXCEPT !.text = x].id = s[i].id
    BY <1>1 DEF Block
  <1>4. \A k \in 1..Len(s) : w[k] \in Block /\ w[k].id = s[k].id
    BY <1>1, <1>2, <1>3
  <1>5. w \in Seq(Block) /\ Len(w) = Len(s)
    BY <1>0, <1>1, <1>4
  <1>6. IsList(w)
    BY <1>4, <1>5 DEF IsList
  <1>7. Ids(w) = Ids(s)
    <2>1. \A id : id \in Ids(w) <=> \E k \in 1..Len(w) : id = w[k].id
      BY <1>6, Members
    <2>2. \A id : id \in Ids(s) <=> \E k \in 1..Len(s) : id = s[k].id
      BY Members
    <2>3. \A k \in 1..Len(s) : w[k].id \in Ids(w) /\ s[k].id \in Ids(s) /\ w[k].id = s[k].id
      BY <1>4, <1>5, <2>1, <2>2
    <2>4. \A id \in Ids(w) : id \in Ids(s)
      BY <1>5, <2>1, <2>3
    <2>5. \A id \in Ids(s) : id \in Ids(w)
      BY <2>2, <2>3
    <2> QED BY <2>4, <2>5
  <1> QED BY <1>0, <1>6, <1>7

(* A list is as long as it has ids.                                             *)
LEMMA LengthIsCount ==
    ASSUME NEW s, IsList(s)
    PROVE  Len(s) = Cardinality(Ids(s))
  <1>1. Len(s) \in Nat /\ \A i \in 1..Len(s) : s[i].id \in Ids(s)
    BY Blocks
  <1> DEFINE f == [i \in 1..Len(s) |-> s[i].id]
  <1>2. f \in [1..Len(s) -> Ids(s)] /\ \A i \in 1..Len(s) : f[i] = s[i].id
    BY <1>1
  <1> HIDE DEF f
  <1>3. \A id \in Ids(s) : \E i \in 1..Len(s) : f[i] = id
    BY <1>2, Members
  <1>4. f \in Bijection(1..Len(s), Ids(s))
    BY <1>2, <1>3 DEF Bijection, Injection, Surjection, IsInjective, IsList
  <1>5. IsFiniteSet(1..Len(s)) /\ Cardinality(1..Len(s)) = Len(s)
    BY <1>1, FS_Interval
  <1> QED BY <1>4, <1>5, FS_Bijection DEF ExistsBijection
================================================================================
