------------------------------- MODULE AxesProofs ------------------------------
(* The types, names and braces of a day, for every day it may start as and any  *)
(* number of gestures, of changes of other devices and of requests that fail.   *)
EXTENDS Axes, FiniteSetTheorems, TLAPS

(* A text after g gestures, without the words of those to come.                 *)
IsText(t, g) ==
    /\ t \in Seq(Words(t))
    /\ \A i, j \in DOMAIN t : t[i] = t[j] => i = j
    /\ Words(t) \cap (g + 1)..MaxGesture = {}

IsUnit(x, g) ==
    /\ x = [text |-> x.text, type |-> x.type]
    /\ IsText(x.text, g)
    /\ x.type \in Type \cup {NoType}

(* A content, and a document, with ids up to n.                                 *)
IsContent(c, g, n) == \A u \in DOMAIN c : u \in 1..n /\ IsUnit(c[u], g)

InPage(b, g, n) ==
    /\ IsBlock(b) /\ IsText(b.text, g)
    /\ DOMAIN b.names \subseteq 1..n /\ DOMAIN b.braces \subseteq 1..n

IsPage(d, g, n) == \A u \in DOMAIN d : u \in 1..n /\ InPage(d[u], g, n)

(* Handles, of units up to n.                                                   *)
Filed(f, n) ==
    \A h \in DOMAIN f :
        /\ h \in 1..n /\ f[h].unit \in 1..n
        /\ f[h] = [unit |-> f[h].unit, name |-> f[h].name]

Stored ==
    /\ minted \in Nat /\ gestures \in 0..MaxGesture /\ faults \in Nat
    /\ revision \in Nat /\ priorRev \in Nat
    /\ IsPage(doc, gestures, minted) /\ IsPage(deleted, gestures, minted)
    /\ IsContent(units, gestures, minted) /\ IsContent(prior, gestures, minted)
    /\ Filed(handles, minted) /\ Filed(sentNames, minted)
    /\ \A a \in DOMAIN sentBraces : sentBraces[a][1] \in 1..minted

(* The baseline is a content the server had, and the last one if its revision   *)
(* is.                                                                          *)
Based == priorRev <= revision /\ (priorRev = revision => prior = units)

--------------------------------------------------------------------------------
(* What the editor is about to send would be accepted by its baseline, and is    *)
(* the user's.                                                                  *)

SaveReady ==
    /\ sync.body = [upserts |-> sync.body.upserts, deletes |-> sync.body.deletes]
    /\ IsContent(sync.body.upserts, gestures, minted)
    /\ \A u \in DOMAIN sync.body.upserts :
            /\ u \notin sync.body.deletes
            /\ u \in DOMAIN doc \/ u \in retyped
            /\ sync.body.upserts[u].type = IF u \in DOMAIN prior THEN prior[u].type ELSE NoType
    /\ \A u \in sync.body.deletes :
            /\ u \in DOMAIN prior /\ u \in retyped
            /\ u \notin DOMAIN doc \/ u \in restored
            /\ prior[u].type # NoType => sync.pc \in Clears /\ u \in sync.queue
    /\ sync.pc \in Clears => sync.queue \subseteq sync.body.deletes

TypesReady ==
    \A n \in sync.queue : /\ n[1] \in DOMAIN prior /\ n[1] \in retyped
                          /\ n[2] \in Type \cup {NoType}

NamesReady ==
    \A n \in sync.queue : /\ n.unit \in DOMAIN prior /\ n.handle \in 1..minted

BracesReady ==
    /\ sync.body = [upserts |-> sync.body.upserts, deletes |-> sync.body.deletes]
    /\ \A d \in sync.body.upserts : d.unit \in 1..minted

Ready ==
    /\ sync = [pc |-> sync.pc, body |-> sync.body, queue |-> sync.queue, tries |-> sync.tries,
               failed |-> sync.failed]
    /\ sync.pc \in Saves \cup Clears => SaveReady
    /\ sync.pc = "type" => TypesReady
    /\ sync.pc = "name" => NamesReady
    /\ sync.pc = "braces" => BracesReady

(* Only what the user typed or deleted differs from the baseline in type.       *)
Mine ==
    /\ DOMAIN prior \ DOMAIN doc \subseteq retyped
    /\ \A u \in DOMAIN doc :
            doc[u].type # (IF u \in DOMAIN prior THEN prior[u].type ELSE NoType) => u \in retyped

Clean ==
    sync.pc = "idle" /\ status = "clean" =>
        /\ NoDelta(Delta(doc, prior))
        /\ TypeIntents(doc, prior) = {}
        /\ NothingPending(Pending(doc, prior, sentBraces))

--------------------------------------------------------------------------------
(* Without a fault the server has what was sent, save for units that the user    *)
(* deleted and perhaps brought back.                                            *)

Gone(u) == u \in restored \/ u \notin DOMAIN doc

(* Handle h is, or was, or is about to be, one of unit u.                       *)
Homed(h, u) ==
    \/ u \in DOMAIN doc /\ h \in DOMAIN doc[u].names
    \/ u \in DOMAIN deleted /\ h \in DOMAIN deleted[u].names
    \/ h \in DOMAIN handles /\ handles[h].unit = u
    \/ h \in DOMAIN sentNames /\ sentNames[h].unit = u
    \/ sync.pc = "name" /\ \E n \in sync.queue : n.handle = h /\ n.unit = u

(* Only a block with a type has names.                                          *)
Titled(d) == \A u \in DOMAIN d : DOMAIN d[u].names # {} => d[u].type # NoType

Unlost ==
    /\ priorRev = revision
    /\ \A a \in DOMAIN sentBraces :
            \/ Gone(sentBraces[a][1])
            \/ a \in DOMAIN targets /\ targets[a] = sentBraces[a]
    /\ DOMAIN targets \subseteq DOMAIN sentBraces
    /\ \A h \in DOMAIN sentNames :
            \/ Gone(sentNames[h].unit)
            \/ h \in DOMAIN handles /\ handles[h] = sentNames[h]
    /\ \A h, u, v \in 1..minted : Homed(h, u) /\ Homed(h, v) => u = v
    /\ Titled(doc) /\ Titled(deleted)

Inv == Stored /\ Based /\ Ready /\ Mine /\ Clean /\ (faults = 0 => Unlost)

--------------------------------------------------------------------------------
(* Texts and phrases.                                                           *)

(* A text as a function of 1..n.                                                *)
LEMMA TextShape ==
    ASSUME NEW t, NEW g, IsText(t, g)
    PROVE  /\ Len(t) \in Nat /\ DOMAIN t = 1..Len(t)
           /\ t \in Seq(Words(t))
           /\ \A i, j \in 1..Len(t) : t[i] = t[j] => i = j
           /\ \A w : w \in Words(t) <=> \E i \in 1..Len(t) : w = t[i]
  <1>1. t \in Seq(Words(t))
    BY DEF IsText
  <1>2. Len(t) \in Nat /\ DOMAIN t = 1..Len(t)
    BY <1>1
  <1>3. \A w : w \in Words(t) <=> \E i \in DOMAIN t : w = t[i]
    BY DEF Words
  <1> QED BY <1>1, <1>2, <1>3 DEF IsText

(* What is a sequence is one of its words.                                      *)
LEMMA OwnWords ==
    ASSUME NEW S, NEW t \in Seq(S)
    PROVE  t \in Seq(Words(t))
  <1>1. Len(t) \in Nat /\ DOMAIN t = 1..Len(t) /\ t = [i \in 1..Len(t) |-> t[i]]
    OBVIOUS
  <1>2. \A i \in 1..Len(t) : t[i] \in Words(t)
    BY <1>1 DEF Words
  <1>3. PICK W : W = Words(t)
    OBVIOUS
  <1> QED BY <1>1, <1>2, <1>3

(* A sequence over S is one over any larger set.                                *)
LEMMA MoreWords ==
    ASSUME NEW S, NEW t \in Seq(S), NEW R, S \subseteq R
    PROVE  t \in Seq(R)
  <1>1. Len(t) \in Nat /\ DOMAIN t = 1..Len(t) /\ t = [i \in 1..Len(t) |-> t[i]]
    OBVIOUS
  <1>2. \A i \in 1..Len(t) : t[i] \in R
    BY <1>1
  <1> QED BY <1>1, <1>2

LEMMA Shift ==
    ASSUME NEW a \in Int, NEW b \in Int
    PROVE  /\ a + 1 - (b + 1) = a - b
           /\ a - b + 1 = a + 1 - b /\ (b - 1) + (a - b + 1) = a
  OBVIOUS

(* The rest of a sequence from m on, and its beginning up to k.                 *)
LEMMA Rest ==
    ASSUME NEW W, NEW t \in Seq(W), NEW m \in Nat, 1 <= m, m <= Len(t) + 1
    PROVE  /\ SubSeq(t, m, Len(t)) \in Seq(W)
           /\ Len(SubSeq(t, m, Len(t))) = Len(t) + 1 - m
           /\ \A i \in m..Len(t) : SubSeq(t, m, Len(t))[i + 1 - m] = t[i]
  <1> PICK r : r = SubSeq(t, m, Len(t))
    OBVIOUS
  <1>1. r \in Seq(W) /\ Len(r) = Len(t) + 1 - m
    OBVIOUS
  <1>2. \A i \in 1..(Len(t) + 1 - m) : r[i] = t[m + i - 1]
    OBVIOUS
  <1>3. ASSUME NEW i \in m..Len(t)
        PROVE  r[i + 1 - m] = t[i]
    <2>1. i + 1 - m \in 1..(Len(t) + 1 - m) /\ m + (i + 1 - m) - 1 = i
      OBVIOUS
    <2> QED BY <1>2, <2>1
  <1> QED BY <1>1, <1>3

LEMMA Beginning ==
    ASSUME NEW W, NEW t \in Seq(W), NEW k \in Nat, k <= Len(t)
    PROVE  /\ SubSeq(t, 1, k) \in Seq(W)
           /\ Len(SubSeq(t, 1, k)) = k
           /\ \A i \in 1..k : SubSeq(t, 1, k)[i] = t[i]
  OBVIOUS

(* Two sequences put together.                                                  *)
LEMMA Glued ==
    ASSUME NEW W, NEW p \in Seq(W), NEW r \in Seq(W)
    PROVE  /\ p \o r \in Seq(W) /\ Len(p \o r) = Len(p) + Len(r)
           /\ Len(p) \in Nat /\ Len(r) \in Nat
           /\ \A i \in 1..Len(p) : (p \o r)[i] = p[i]
           /\ \A i \in 1..Len(r) : (p \o r)[Len(p) + i] = r[i]
  <1> PICK n : n = p \o r
    OBVIOUS
  <1>1. n \in Seq(W) /\ Len(n) = Len(p) + Len(r) /\ Len(p) \in Nat /\ Len(r) \in Nat
    OBVIOUS
  <1>2. \A i \in 1..Len(p) : n[i] = p[i]
    OBVIOUS
  <1>3. \A i \in (Len(p) + 1)..(Len(p) + Len(r)) : n[i] = r[i - Len(p)]
    OBVIOUS
  <1>4. ASSUME NEW i \in 1..Len(r)
        PROVE  n[Len(p) + i] = r[i]
    <2>1. Len(p) + i \in (Len(p) + 1)..(Len(p) + Len(r)) /\ (Len(p) + i) - Len(p) = i
      BY <1>1
    <2> QED BY <1>3, <2>1
  <1> QED BY <1>1, <1>2, <1>4

(* A word typed after the k-th.                                                 *)
LEMMA WordTyped ==
    ASSUME NEW t, NEW g \in Nat, IsText(t, g), g < MaxGesture, MaxGesture \in Nat,
           NEW k \in 0..Len(t), NEW n,
           n = WordAfter(t, k, g + 1)
    PROVE  /\ Len(n) = Len(t) + 1
           /\ \A i \in 1..k : n[i] = t[i]
           /\ n[k + 1] = g + 1
           /\ \A i \in (k + 1)..Len(t) : n[i + 1] = t[i]
           /\ g + 1 \notin Words(t)
           /\ IsText(n, g + 1)
  <1> PICK W : W = Words(t) \cup {g + 1}
    OBVIOUS
  <1>w. PICK p, q, r, pq :
            /\ p = SubSeq(t, 1, k) /\ q = <<g + 1>> /\ r = SubSeq(t, k + 1, Len(t))
            /\ pq = p \o q
    OBVIOUS
  <1>0. n = pq \o r
    BY <1>w DEF WordAfter
  <1>1. Len(t) \in Nat /\ DOMAIN t = 1..Len(t) /\ k \in Nat /\ k <= Len(t)
    BY TextShape
  <1>2. t \in Seq(W)
    BY TextShape, MoreWords
  <1>3. p \in Seq(W) /\ Len(p) = k /\ \A i \in 1..k : p[i] = t[i]
    BY <1>1, <1>2, <1>w, Beginning
  <1>4. q \in Seq(W) /\ Len(q) = 1 /\ q[1] = g + 1
    BY <1>w
  <1>5. r \in Seq(W) /\ Len(r) = Len(t) - k /\ \A i \in (k + 1)..Len(t) : r[i - k] = t[i]
    <2>1. k + 1 \in Nat /\ 1 <= k + 1 /\ k + 1 <= Len(t) + 1
      BY <1>1
    <2>2. /\ r \in Seq(W) /\ Len(r) = Len(t) + 1 - (k + 1)
          /\ \A i \in (k + 1)..Len(t) : r[i + 1 - (k + 1)] = t[i]
      BY <1>2, <1>w, <2>1, Rest
    <2>3. \A i \in (k + 1)..Len(t) : i + 1 - (k + 1) = i - k
      BY <1>1
    <2>4. Len(t) + 1 - (k + 1) = Len(t) - k
      <3>1. Len(t) \in Int /\ k \in Int
        BY <1>1
      <3> QED BY <3>1, Shift
    <2> QED BY <2>2, <2>3, <2>4
  <1>6. pq \in Seq(W) /\ Len(pq) = k + 1 /\ (\A i \in 1..k : pq[i] = t[i]) /\ pq[k + 1] = g + 1
    <2>1. /\ pq \in Seq(W) /\ Len(pq) = Len(p) + Len(q)
          /\ \A i \in 1..Len(p) : pq[i] = p[i]
          /\ \A i \in 1..Len(q) : pq[Len(p) + i] = q[i]
      BY <1>3, <1>4, <1>w, Glued
    <2>2. 1 \in 1..Len(q)
      BY <1>4
    <2> QED BY <1>3, <1>4, <2>1, <2>2
  <1>7. /\ n \in Seq(W) /\ Len(n) = Len(pq) + Len(r)
        /\ \A i \in 1..Len(pq) : n[i] = pq[i]
        /\ \A i \in 1..Len(r) : n[Len(pq) + i] = r[i]
    <2>1. pq \in Seq(W) /\ r \in Seq(W)
      BY <1>5, <1>6
    <2>2. /\ pq \o r \in Seq(W) /\ Len(pq \o r) = Len(pq) + Len(r)
          /\ \A i \in 1..Len(pq) : (pq \o r)[i] = pq[i]
          /\ \A i \in 1..Len(r) : (pq \o r)[Len(pq) + i] = r[i]
      BY <2>1, Glued
    <2> QED BY <1>0, <2>2
  <1>8. n \in Seq(W) /\ Len(n) = Len(t) + 1 /\ (\A i \in 1..k : n[i] = t[i]) /\ n[k + 1] = g + 1
    <2>1. Len(n) = Len(t) + 1
      BY <1>1, <1>5, <1>6, <1>7
    <2>2. k + 1 \in 1..Len(pq) /\ \A i \in 1..k : i \in 1..Len(pq)
      BY <1>1, <1>6
    <2> QED BY <1>6, <1>7, <2>1, <2>2
  <1>9. ASSUME NEW i \in (k + 1)..Len(t)
        PROVE  n[i + 1] = t[i]
    <2>1. i - k \in 1..Len(r) /\ Len(pq) + (i - k) = i + 1
      BY <1>1, <1>5, <1>6
    <2>2. n[Len(pq) + (i - k)] = r[i - k]
      BY <1>7, <2>1
    <2> QED BY <1>5, <2>1, <2>2
  <1>10. g + 1 \notin Words(t)
    BY DEF IsText
  <1>11. \A i \in 1..Len(t) : t[i] # g + 1
    BY <1>10, TextShape
  <1>12. \A i \in 1..Len(n) : /\ i \in 1..k => n[i] = t[i]
                              /\ i = k + 1 => n[i] = g + 1
                              /\ i \in (k + 2)..Len(n) => i - 1 \in (k + 1)..Len(t) /\ n[i] = t[i - 1]
                              /\ i \in 1..k \/ i = k + 1 \/ i \in (k + 2)..Len(n)
    BY <1>1, <1>8, <1>9
  <1>13. ASSUME NEW i \in 1..Len(n), NEW j \in 1..Len(n), n[i] = n[j], i < j
         PROVE  FALSE
    <2>1. \A a, b \in 1..Len(t) : t[a] = t[b] => a = b
      BY TextShape
    <2>2. CASE j \in 1..k
      <3>1. i \in 1..k /\ i \in 1..Len(t) /\ j \in 1..Len(t)
        BY <1>1, <1>13, <2>2
      <3> QED BY <1>12, <1>13, <2>1, <2>2, <3>1
    <2>3. CASE j = k + 1
      <3>1. i \in 1..k /\ i \in 1..Len(t)
        BY <1>1, <1>13, <2>3
      <3> QED BY <1>11, <1>12, <1>13, <2>3, <3>1
    <2>4. CASE j \in (k + 2)..Len(n)
      <3>1. j - 1 \in 1..Len(t) /\ n[j] = t[j - 1]
        BY <1>1, <1>8, <1>12, <2>4
      <3>2. CASE i \in 1..k
        <4>1. i \in 1..Len(t) /\ i # j - 1
          BY <1>1, <1>8, <2>4, <3>2
        <4> QED BY <1>12, <1>13, <2>1, <3>1, <3>2, <4>1
      <3>3. CASE i = k + 1
        BY <1>8, <1>11, <1>13, <3>1, <3>3
      <3>4. CASE i \in (k + 2)..Len(n)
        <4>1. i - 1 \in 1..Len(t) /\ n[i] = t[i - 1] /\ i - 1 # j - 1
          BY <1>1, <1>8, <1>12, <1>13, <3>4
        <4> QED BY <1>13, <2>1, <3>1, <4>1
      <3> QED BY <1>12, <3>2, <3>3, <3>4
    <2> QED BY <1>12, <2>2, <2>3, <2>4
  <1>14. \A i, j \in DOMAIN n : n[i] = n[j] => i = j
    <2>1. DOMAIN n = 1..Len(n)
      BY <1>8
    <2>2. \A i, j \in 1..Len(n) : i < j \/ j < i \/ i = j
      BY <1>1, <1>8
    <2> QED BY <1>13, <2>1, <2>2
  <1>15. Words(n) \cap ((g + 1) + 1)..MaxGesture = {}
    <2>1. Words(n) \subseteq W
      BY <1>8 DEF Words
    <2>2. Words(t) \cap (g + 1)..MaxGesture = {}
      BY DEF IsText
    <2> QED BY <2>1, <2>2
  <1>16. n \in Seq(Words(n))
    BY <1>8, OwnWords
  <1>17. IsText(n, g + 1)
    BY <1>14, <1>15, <1>16 DEF IsText
  <1> QED BY <1>8, <1>9, <1>10, <1>17

(* The k-th word erased.                                                        *)
LEMMA WordErased ==
    ASSUME NEW t, NEW g \in Nat, IsText(t, g), NEW k \in 1..Len(t), NEW n,
           n = WithoutWord(t, k)
    PROVE  /\ Len(n) = Len(t) - 1
           /\ \A i \in 1..(k - 1) : n[i] = t[i]
           /\ \A i \in k..(Len(t) - 1) : n[i] = t[i + 1]
           /\ Words(n) = Words(t) \ {t[k]}
           /\ IsText(n, g)
  <1> PICK W : W = Words(t)
    OBVIOUS
  <1>w. PICK p, r : p = SubSeq(t, 1, k - 1) /\ r = SubSeq(t, k + 1, Len(t))
    OBVIOUS
  <1>0. n = p \o r
    BY <1>w DEF WithoutWord
  <1>1. Len(t) \in Nat /\ DOMAIN t = 1..Len(t) /\ k \in Nat /\ 1 <= k /\ k <= Len(t)
    BY TextShape
  <1>2. t \in Seq(W)
    BY TextShape
  <1>3. p \in Seq(W) /\ Len(p) = k - 1 /\ \A i \in 1..(k - 1) : p[i] = t[i]
    <2>1. k - 1 \in Nat /\ k - 1 <= Len(t)
      BY <1>1
    <2> QED BY <1>2, <1>w, <2>1, Beginning
  <1>4. r \in Seq(W) /\ Len(r) = Len(t) - k /\ \A i \in (k + 1)..Len(t) : r[i - k] = t[i]
    <2>1. k + 1 \in Nat /\ 1 <= k + 1 /\ k + 1 <= Len(t) + 1
      BY <1>1
    <2>2. /\ r \in Seq(W) /\ Len(r) = Len(t) + 1 - (k + 1)
          /\ \A i \in (k + 1)..Len(t) : r[i + 1 - (k + 1)] = t[i]
      BY <1>2, <1>w, <2>1, Rest
    <2>3. \A i \in (k + 1)..Len(t) : i + 1 - (k + 1) = i - k
      BY <1>1
    <2>4. Len(t) + 1 - (k + 1) = Len(t) - k
      <3>1. Len(t) \in Int /\ k \in Int
        BY <1>1
      <3> QED BY <3>1, Shift
    <2> QED BY <2>2, <2>3, <2>4
  <1>5. /\ n \in Seq(W) /\ Len(n) = Len(t) - 1 /\ \A i \in 1..(k - 1) : n[i] = t[i]
        /\ \A i \in 1..Len(r) : n[(k - 1) + i] = r[i]
    <2>1. /\ n \in Seq(W) /\ Len(n) = Len(p) + Len(r)
          /\ \A i \in 1..Len(p) : n[i] = p[i]
          /\ \A i \in 1..Len(r) : n[Len(p) + i] = r[i]
      <3>1. p \in Seq(W) /\ r \in Seq(W)
        BY <1>3, <1>4
      <3> QED BY <1>0, <3>1, Glued
    <2>2. Len(p) + Len(r) = Len(t) - 1
      BY <1>1, <1>3, <1>4
    <2> QED BY <1>3, <2>1, <2>2
  <1>6. ASSUME NEW i \in k..(Len(t) - 1)
        PROVE  n[i] = t[i + 1]
    <2>1. /\ i - k + 1 \in 1..Len(r) /\ (k - 1) + (i - k + 1) = i
          /\ i + 1 \in (k + 1)..Len(t) /\ (i + 1) - k = i - k + 1
      <3>1. i \in Int /\ k <= i /\ i + 1 <= Len(t) /\ k \in Int
        BY <1>1
      <3>2. (i + 1) - k = i - k + 1 /\ (k - 1) + (i - k + 1) = i
        BY <3>1, Shift
      <3>3. i + 1 \in (k + 1)..Len(t)
        BY <1>1, <3>1
      <3>4. i - k + 1 \in 1..Len(r)
        BY <1>1, <1>4, <3>1
      <3> QED BY <3>2, <3>3, <3>4
    <2>2. n[(k - 1) + (i - k + 1)] = r[i - k + 1]
      BY <1>5, <2>1
    <2> QED BY <1>4, <2>1, <2>2
  <1>7. \A a, b \in 1..Len(t) : t[a] = t[b] => a = b
    BY TextShape
  <1>8. \A i \in 1..Len(n) : \/ i < k /\ i \in 1..Len(t) /\ n[i] = t[i]
                             \/ i >= k /\ i + 1 \in 1..Len(t) /\ n[i] = t[i + 1]
    BY <1>1, <1>5, <1>6
  <1>9. \A i, j \in DOMAIN n : n[i] = n[j] => i = j
    <2>1. DOMAIN n = 1..Len(n) /\ \A i \in 1..Len(n) : i \in Int
      BY <1>5
    <2>2. ASSUME NEW i \in 1..Len(n), NEW j \in 1..Len(n), n[i] = n[j]
          PROVE  i = j
      <3>1. PICK a \in 1..Len(t) :
              /\ n[i] = t[a]
              /\ (i < k /\ a = i) \/ (i >= k /\ a = i + 1)
        <4>1. CASE i < k /\ i \in 1..Len(t) /\ n[i] = t[i]
          BY <4>1
        <4>2. CASE i >= k /\ i + 1 \in 1..Len(t) /\ n[i] = t[i + 1]
          BY <4>2
        <4> QED BY <1>8, <4>1, <4>2
      <3>2. PICK b \in 1..Len(t) :
              /\ n[j] = t[b]
              /\ (j < k /\ b = j) \/ (j >= k /\ b = j + 1)
        <4>1. CASE j < k /\ j \in 1..Len(t) /\ n[j] = t[j]
          BY <4>1
        <4>2. CASE j >= k /\ j + 1 \in 1..Len(t) /\ n[j] = t[j + 1]
          BY <4>2
        <4> QED BY <1>8, <4>1, <4>2
      <3>3. a = b
        BY <1>7, <2>2, <3>1, <3>2
      <3> QED BY <1>1, <2>1, <3>1, <3>2, <3>3
    <2> QED BY <2>1, <2>2
  <1>10. Words(n) = Words(t) \ {t[k]}
    <2>1. \A w : w \in Words(n) <=> \E i \in 1..Len(n) : w = n[i]
      BY <1>5 DEF Words
    <2>2. \A w : w \in Words(t) <=> \E i \in 1..Len(t) : w = t[i]
      BY TextShape
    <2>3. ASSUME NEW i \in 1..Len(n)
          PROVE  n[i] \in Words(t) /\ n[i] # t[k]
      <3>1. PICK a \in 1..Len(t) : n[i] = t[a] /\ a # k
        BY <1>1, <1>8
      <3> QED BY <1>7, <2>2, <3>1
    <2>4. ASSUME NEW a \in 1..Len(t), a # k
          PROVE  t[a] \in Words(n)
      <3>1. CASE a < k
        <4>1. a \in 1..Len(n) /\ n[a] = t[a]
          BY <1>1, <1>5, <3>1
        <4> QED BY <2>1, <4>1
      <3>2. CASE a > k
        <4>1. a - 1 \in 1..Len(n) /\ a - 1 \in k..(Len(t) - 1) /\ (a - 1) + 1 = a
          BY <1>1, <1>5, <3>2
        <4>2. n[a - 1] = t[a]
          BY <1>6, <4>1
        <4> QED BY <2>1, <4>1, <4>2
      <3> QED BY <1>1, <2>4, <3>1, <3>2
    <2>5. \A w : w \in Words(n) => w \in Words(t) /\ w # t[k]
      BY <2>1, <2>3
    <2>6. \A w : w \in Words(t) /\ w # t[k] => w \in Words(n)
      BY <2>2, <2>4
    <2> QED BY <2>5, <2>6
  <1>11. n \in Seq(Words(n))
    BY <1>5, OwnWords
  <1>12. IsText(n, g)
    BY <1>9, <1>10, <1>11 DEF IsText
  <1> QED BY <1>5, <1>6, <1>10, <1>12

LEMMA SameImages ==
    ASSUME NEW f, NEW A, NEW e, NEW B,
           \A m \in A : \E l \in B : f[m] = e[l], \A l \in B : \E m \in A : f[m] = e[l]
    PROVE  {f[m] : m \in A} = {e[m] : m \in B}
  OBVIOUS

(* The words of a phrase are those between its ends, and no others.             *)
LEMMA Phrase ==
    ASSUME NEW t, NEW g, IsText(t, g), NEW ws, IsPhrase(ws, t)
    PROVE  \E i, j \in 1..Len(t) :
                /\ i <= j /\ ws = {t[m] : m \in i..j}
                /\ \A m \in 1..Len(t) : t[m] \in ws <=> i <= m /\ m <= j
  <1>1. Len(t) \in Nat /\ DOMAIN t = 1..Len(t) /\ \A a, b \in 1..Len(t) : t[a] = t[b] => a = b
    BY TextShape
  <1>2. PICK i \in 1..Len(t), j \in 1..Len(t) : i <= j /\ ws = {t[m] : m \in i..j}
    BY <1>1 DEF IsPhrase
  <1>3. \A m \in i..j : m \in 1..Len(t)
    BY <1>1
  <1>4. ASSUME NEW m \in 1..Len(t), t[m] \in ws
        PROVE  i <= m /\ m <= j
    <2>1. PICK l \in i..j : t[m] = t[l]
      BY <1>2, <1>4
    <2>2. m = l
      BY <1>1, <1>3, <2>1
    <2> QED BY <2>1, <2>2
  <1>5. ASSUME NEW m \in 1..Len(t), i <= m, m <= j
        PROVE  t[m] \in ws
    BY <1>2, <1>5
  <1> QED BY <1>2, <1>4, <1>5

(* A word typed within a phrase belongs to it, one at its edge does not.        *)
Grown(ws, t, k, w) ==
    IF k \in 1..(Len(t) - 1) /\ {t[k], t[k + 1]} \subseteq ws THEN ws \cup {w} ELSE ws

(* A phrase with a word typed in or beside it is a phrase of the new text.      *)
LEMMA PhraseTyped ==
    ASSUME NEW t, NEW g \in Nat, IsText(t, g), g < MaxGesture, MaxGesture \in Nat,
           NEW k \in 0..Len(t), NEW ws, IsPhrase(ws, t), NEW n, n = WordAfter(t, k, g + 1)
    PROVE  IsPhrase(Grown(ws, t, k, g + 1), n)
  <1>0. /\ Len(n) = Len(t) + 1
        /\ \A m \in 1..k : n[m] = t[m]
        /\ n[k + 1] = g + 1
        /\ \A m \in (k + 1)..Len(t) : n[m + 1] = t[m]
        /\ IsText(n, g + 1)
    BY WordTyped
  <1>1. Len(t) \in Nat /\ k \in Nat /\ k <= Len(t) /\ DOMAIN n = 1..Len(n)
    BY <1>0, TextShape
  <1>2. PICK i \in 1..Len(t), j \in 1..Len(t) :
            /\ i <= j /\ ws = {t[m] : m \in i..j}
            /\ \A m \in 1..Len(t) : t[m] \in ws <=> i <= m /\ m <= j
    BY Phrase
  <1>3. i \in Int /\ j \in Int /\ 1 <= i /\ i <= j /\ j <= Len(t)
    BY <1>1, <1>2
  <1>4. CASE k < i
    <2>1. ~(k \in 1..(Len(t) - 1) /\ {t[k], t[k + 1]} \subseteq ws)
      <3>1. k \in 1..(Len(t) - 1) => k \in 1..Len(t) /\ ~(i <= k)
        BY <1>1, <1>3, <1>4
      <3> QED BY <1>2, <3>1
    <2>2. \A m \in i..j : n[m + 1] = t[m]
      <3>1. \A m \in i..j : m \in (k + 1)..Len(t)
        BY <1>1, <1>3, <1>4
      <3> QED BY <1>0, <3>1
    <2>3. ws = {n[m] : m \in (i + 1)..(j + 1)}
      <3>1. ASSUME NEW m \in i..j
            PROVE  \E l \in (i + 1)..(j + 1) : t[m] = n[l]
        <4>1. m + 1 \in (i + 1)..(j + 1)
          BY <1>3
        <4> QED BY <2>2, <4>1
      <3>2. ASSUME NEW l \in (i + 1)..(j + 1)
            PROVE  \E m \in i..j : t[m] = n[l]
        <4>1. l - 1 \in i..j /\ (l - 1) + 1 = l
          BY <1>3
        <4>2. n[(l - 1) + 1] = t[l - 1]
          BY <2>2, <4>1
        <4> QED BY <4>1, <4>2
      <3>3. PICK A, B : A = i..j /\ B = (i + 1)..(j + 1)
        OBVIOUS
      <3>4. \A m \in A : \E l \in B : t[m] = n[l]
        BY <3>1, <3>3
      <3>5. \A l \in B : \E m \in A : t[m] = n[l]
        BY <3>2, <3>3
      <3>6. {t[m] : m \in A} = {n[m] : m \in B}
        BY <3>4, <3>5, SameImages
      <3> QED BY <1>2, <3>3, <3>6
    <2>4. i + 1 \in DOMAIN n /\ j + 1 \in DOMAIN n /\ i + 1 <= j + 1
      BY <1>0, <1>1, <1>3
    <2>5. IsPhrase(ws, n)
      BY <2>3, <2>4 DEF IsPhrase
    <2> QED BY <2>1, <2>5 DEF Grown
  <1>5. CASE k >= j
    <2>1. ~(k \in 1..(Len(t) - 1) /\ {t[k], t[k + 1]} \subseteq ws)
      <3>1. k \in 1..(Len(t) - 1) => k + 1 \in 1..Len(t) /\ ~(k + 1 <= j)
        BY <1>1, <1>3, <1>5
      <3> QED BY <1>2, <3>1
    <2>2. \A m \in i..j : n[m] = t[m]
      <3>1. \A m \in i..j : m \in 1..k
        BY <1>1, <1>3, <1>5
      <3> QED BY <1>0, <3>1
    <2>3. ws = {n[m] : m \in i..j}
      BY <1>2, <2>2
    <2>4. i \in DOMAIN n /\ j \in DOMAIN n
      BY <1>0, <1>1, <1>3
    <2>5. IsPhrase(ws, n)
      BY <1>3, <2>3, <2>4 DEF IsPhrase
    <2> QED BY <2>1, <2>5 DEF Grown
  <1>6. CASE i <= k /\ k < j
    <2>1. k \in 1..(Len(t) - 1) /\ {t[k], t[k + 1]} \subseteq ws
      <3>1. k \in 1..Len(t) /\ k + 1 \in 1..Len(t) /\ k <= j /\ i <= k + 1 /\ k + 1 <= j
        BY <1>1, <1>3, <1>6
      <3>2. k \in 1..(Len(t) - 1)
        BY <1>1, <1>3, <1>6
      <3> QED BY <1>2, <1>6, <3>1, <3>2
    <2>2. ASSUME NEW m \in i..j
          PROVE  \E l \in i..(j + 1) : t[m] = n[l]
      <3>1. CASE m <= k
        <4>1. m \in 1..k /\ m \in i..(j + 1)
          BY <1>1, <1>3, <3>1
        <4> QED BY <1>0, <4>1
      <3>2. CASE m > k
        <4>1. m \in (k + 1)..Len(t) /\ m + 1 \in i..(j + 1)
          BY <1>1, <1>3, <3>2
        <4> QED BY <1>0, <4>1
      <3> QED BY <1>1, <1>3, <3>1, <3>2
    <2>3. ASSUME NEW l \in i..(j + 1)
          PROVE  n[l] \in ws \cup {g + 1}
      <3>1. CASE l <= k
        <4>1. l \in 1..k /\ l \in i..j
          BY <1>1, <1>3, <1>6, <3>1
        <4> QED BY <1>0, <1>2, <4>1
      <3>2. CASE l = k + 1
        BY <1>0, <3>2
      <3>3. CASE l > k + 1
        <4>1. l - 1 \in (k + 1)..Len(t) /\ l - 1 \in i..j /\ (l - 1) + 1 = l
          BY <1>1, <1>3, <1>6, <3>3
        <4>2. n[(l - 1) + 1] = t[l - 1]
          BY <1>0, <4>1
        <4> QED BY <1>2, <4>1, <4>2
      <3> QED BY <1>1, <1>3, <3>1, <3>2, <3>3
    <2>4. g + 1 = n[k + 1] /\ k + 1 \in i..(j + 1)
      BY <1>0, <1>1, <1>3, <1>6
    <2>5. ws \cup {g + 1} = {n[m] : m \in i..(j + 1)}
      <3>1. \A w \in ws : \E l \in i..(j + 1) : w = n[l]
        BY <1>2, <2>2, ZenonT(40)
      <3> QED BY <2>3, <2>4, <3>1
    <2>6. i \in DOMAIN n /\ j + 1 \in DOMAIN n /\ i <= j + 1
      BY <1>0, <1>1, <1>3
    <2>7. IsPhrase(ws \cup {g + 1}, n)
      BY <2>5, <2>6 DEF IsPhrase
    <2> QED BY <2>1, <2>7 DEF Grown
  <1> QED BY <1>1, <1>3, <1>4, <1>5, <1>6

(* What is left of a phrase when a word is erased is one.                       *)
LEMMA PhraseErased ==
    ASSUME NEW t, NEW g \in Nat, IsText(t, g), NEW k \in 1..Len(t),
           NEW ws, IsPhrase(ws, t), NEW n, n = WithoutWord(t, k), ws \cap Words(n) # {}
    PROVE  IsPhrase(ws \cap Words(n), n)
  <1>0. /\ Len(n) = Len(t) - 1
        /\ \A m \in 1..(k - 1) : n[m] = t[m]
        /\ \A m \in k..(Len(t) - 1) : n[m] = t[m + 1]
        /\ Words(n) = Words(t) \ {t[k]}
        /\ IsText(n, g)
    BY WordErased, SMTT(30)
  <1>1. Len(t) \in Nat /\ k \in Nat /\ 1 <= k /\ k <= Len(t) /\ DOMAIN n = 1..Len(n)
    <2>1. Len(t) \in Nat /\ DOMAIN n = 1..Len(n)
      BY <1>0, TextShape
    <2> QED BY <2>1
  <1>2. PICK i \in 1..Len(t), j \in 1..Len(t) :
            /\ i <= j /\ ws = {t[m] : m \in i..j}
            /\ \A m \in 1..Len(t) : t[m] \in ws <=> i <= m /\ m <= j
    BY Phrase
  <1>3. i \in Int /\ j \in Int /\ 1 <= i /\ i <= j /\ j <= Len(t)
    BY <1>1, <1>2
  <1>4. ws \cap Words(n) = ws \ {t[k]}
    <2>1. \A w : w \in Words(t) <=> \E m \in 1..Len(t) : w = t[m]
      BY TextShape
    <2>2. \A m \in i..j : m \in 1..Len(t)
      BY <1>1, <1>3
    <2>3. ws \subseteq Words(t)
      BY <1>2, <2>1, <2>2
    <2> QED BY <1>0, <2>3
  <1>5. \A a, b \in 1..Len(t) : t[a] = t[b] => a = b
    BY TextShape
  <1>6. CASE k < i
    <2>1. t[k] \notin ws
      BY <1>1, <1>2, <1>3, <1>6
    <2>2. \A m \in i..j : n[m - 1] = t[m]
      <3>1. ASSUME NEW m \in i..j
            PROVE  n[m - 1] = t[m]
        <4>1. m - 1 \in k..(Len(t) - 1) /\ (m - 1) + 1 = m
          BY <1>1, <1>3, <1>6
        <4> QED BY <1>0, <4>1
      <3> QED BY <3>1
    <2>3. ws = {n[m] : m \in (i - 1)..(j - 1)}
      <3>1. ASSUME NEW m \in i..j
            PROVE  \E l \in (i - 1)..(j - 1) : t[m] = n[l]
        <4>1. m - 1 \in (i - 1)..(j - 1)
          BY <1>3
        <4> QED BY <2>2, <4>1
      <3>2. ASSUME NEW l \in (i - 1)..(j - 1)
            PROVE  \E m \in i..j : t[m] = n[l]
        <4>1. l + 1 \in i..j /\ (l + 1) - 1 = l
          BY <1>3
        <4>2. n[(l + 1) - 1] = t[l + 1]
          BY <2>2, <4>1
        <4> QED BY <4>1, <4>2
      <3>3. PICK A, B : A = i..j /\ B = (i - 1)..(j - 1)
        OBVIOUS
      <3>4. \A m \in A : \E l \in B : t[m] = n[l]
        BY <3>1, <3>3
      <3>5. \A l \in B : \E m \in A : t[m] = n[l]
        BY <3>2, <3>3
      <3>6. {t[m] : m \in A} = {n[m] : m \in B}
        BY <3>4, <3>5, SameImages
      <3> QED BY <1>2, <3>3, <3>6
    <2>4. i - 1 \in DOMAIN n /\ j - 1 \in DOMAIN n /\ i - 1 <= j - 1
      BY <1>0, <1>1, <1>3, <1>6
    <2>5. IsPhrase(ws, n)
      BY <2>3, <2>4 DEF IsPhrase
    <2>6. ws \cap Words(n) = ws
      BY <1>4, <2>1
    <2> QED BY <2>5, <2>6
  <1>7. CASE k > j
    <2>1. t[k] \notin ws
      BY <1>1, <1>2, <1>3, <1>7
    <2>2. \A m \in i..j : n[m] = t[m]
      <3>1. \A m \in i..j : m \in 1..(k - 1)
        BY <1>1, <1>3, <1>7
      <3> QED BY <1>0, <3>1
    <2>3. ws = {n[m] : m \in i..j}
      BY <1>2, <2>2
    <2>4. i \in DOMAIN n /\ j \in DOMAIN n
      BY <1>0, <1>1, <1>3, <1>7
    <2>5. IsPhrase(ws, n)
      BY <1>3, <2>3, <2>4 DEF IsPhrase
    <2>6. ws \cap Words(n) = ws
      BY <1>4, <2>1
    <2> QED BY <2>5, <2>6
  <1>8. CASE i <= k /\ k <= j
    <2>1. i < j
      <3>1. CASE i = j
        <4>1. k = i /\ \A m \in i..j : m = k
          BY <1>1, <1>3, <1>8, <3>1
        <4>2. ws \subseteq {t[k]}
          BY <1>2, <4>1
        <4> QED BY <1>4, <4>2
      <3> QED BY <1>3, <3>1
    <2>2. ASSUME NEW m \in i..j, m # k
          PROVE  \E l \in i..(j - 1) : t[m] = n[l]
      <3>1. CASE m < k
        <4>1. m \in 1..(k - 1) /\ m \in i..(j - 1)
          BY <1>1, <1>3, <1>8, <3>1
        <4> QED BY <1>0, <4>1
      <3>2. CASE m > k
        <4>1. m - 1 \in k..(Len(t) - 1) /\ m - 1 \in i..(j - 1) /\ (m - 1) + 1 = m
          BY <1>1, <1>3, <1>8, <3>2
        <4>2. n[m - 1] = t[(m - 1) + 1]
          BY <1>0, <4>1
        <4> QED BY <4>1, <4>2
      <3> QED BY <1>1, <1>3, <2>2, <3>1, <3>2
    <2>3. ASSUME NEW l \in i..(j - 1)
          PROVE  n[l] \in ws /\ n[l] # t[k]
      <3>1. CASE l < k
        <4>1. l \in 1..(k - 1) /\ l \in i..j /\ l \in 1..Len(t) /\ l # k
          BY <1>1, <1>3, <1>8, <3>1
        <4>2. n[l] = t[l] /\ t[l] # t[k]
          BY <1>0, <1>5, <4>1
        <4> QED BY <1>2, <4>1, <4>2
      <3>2. CASE l >= k
        <4>1. l \in k..(Len(t) - 1) /\ l + 1 \in i..j /\ l + 1 \in 1..Len(t) /\ l + 1 # k
          BY <1>1, <1>3, <1>8, <3>2
        <4>2. n[l] = t[l + 1] /\ t[l + 1] # t[k]
          BY <1>0, <1>5, <4>1
        <4> QED BY <1>2, <4>1, <4>2
      <3> QED BY <1>1, <1>3, <3>1, <3>2
    <2>4. ws \ {t[k]} = {n[m] : m \in i..(j - 1)}
      <3>1. \A w \in ws \ {t[k]} : \E l \in i..(j - 1) : w = n[l]
        <4>1. ASSUME NEW w \in ws \ {t[k]}
              PROVE  \E l \in i..(j - 1) : w = n[l]
          <5>1. PICK m \in i..j : w = t[m]
            BY <1>2
          <5>2. m # k
            BY <5>1
          <5> QED BY <2>2, <5>1, <5>2
        <4> QED BY <4>1
      <3> QED BY <2>3, <3>1
    <2>5. i \in DOMAIN n /\ j - 1 \in DOMAIN n /\ i <= j - 1
      BY <1>0, <1>1, <1>3, <2>1
    <2>6. IsPhrase(ws \ {t[k]}, n)
      BY <2>4, <2>5 DEF IsPhrase
    <2> QED BY <1>4, <2>6
  <1> QED BY <1>1, <1>3, <1>6, <1>7, <1>8

(* The span of a phrase, over its text and over others.                         *)
LEMMA SpanOfPhrase ==
    ASSUME NEW t, NEW g, IsText(t, g), NEW ws, IsPhrase(ws, t)
    PROVE  /\ Covered(t, Span(t, ws)) = ws /\ ws # {}
           /\ \A c, h : IsText(c, h) /\ Covered(c, Span(t, ws)) # {} =>
                    IsPhrase(Covered(c, Span(t, ws)), c)
  <1>1. Len(t) \in Nat /\ DOMAIN t = 1..Len(t)
    BY TextShape
  <1>2. PICK i \in 1..Len(t), j \in 1..Len(t) :
            /\ i <= j /\ ws = {t[m] : m \in i..j}
            /\ \A m \in 1..Len(t) : t[m] \in ws <=> i <= m /\ m <= j
    BY Phrase
  <1>3. i \in Int /\ j \in Int /\ 1 <= i /\ i <= j /\ j <= Len(t)
    BY <1>1, <1>2
  <1> PICK at : at = {m \in DOMAIN t : t[m] \in ws}
    OBVIOUS
  <1>4. at = i..j
    <2>1. \A m : m \in at <=> m \in 1..Len(t) /\ i <= m /\ m <= j
      BY <1>1, <1>2
    <2>2. \A m : m \in i..j <=> m \in 1..Len(t) /\ i <= m /\ m <= j
      BY <1>1, <1>3
    <2> QED BY <2>1, <2>2
  <1>5. Min(at) = i
    <2>1. i \in at /\ \A y \in at : i <= y
      BY <1>3, <1>4
    <2>2. \A x \in at : (\A y \in at : x <= y) => x = i
      BY <1>3, <1>4
    <2> QED BY <2>1, <2>2 DEF Min
  <1>6. Max(at) = j
    <2>1. j \in at /\ \A y \in at : j >= y
      BY <1>3, <1>4
    <2>2. \A x \in at : (\A y \in at : x >= y) => x = j
      BY <1>3, <1>4
    <2> QED BY <2>1, <2>2 DEF Max
  <1>7. Span(t, ws) = <<i - 1, j>>
    BY <1>5, <1>6 DEF Span
  <1> PICK span : span = Span(t, ws)
    OBVIOUS
  <1>8. span[1] + 1 = i /\ span[2] = j
    BY <1>3, <1>7
  <1>9. \A c : Covered(c, span) = IF j <= Len(c) THEN {c[m] : m \in i..j} ELSE {}
    BY <1>8 DEF Covered
  <1>10. Covered(t, span) = ws /\ ws # {}
    <2>1. i \in i..j
      BY <1>3
    <2> QED BY <1>2, <1>3, <1>9, <2>1
  <1>11. ASSUME NEW c, NEW h, IsText(c, h), Covered(c, span) # {}
         PROVE  IsPhrase(Covered(c, span), c)
    <2>1. Len(c) \in Nat /\ DOMAIN c = 1..Len(c)
      BY <1>11, TextShape
    <2>2. j <= Len(c) /\ Covered(c, span) = {c[m] : m \in i..j}
      BY <1>9, <1>11
    <2>3. i \in DOMAIN c /\ j \in DOMAIN c
      BY <1>3, <2>1, <2>2
    <2> QED BY <1>3, <2>2, <2>3 DEF IsPhrase
  <1> QED BY <1>10, <1>11

--------------------------------------------------------------------------------
(* The user.                                                                    *)

(* What was so stays so when there are more ids and more words.                 *)
LEMMA Later ==
    ASSUME NEW g \in Nat, NEW h \in Nat, g <= h, NEW n \in Nat, NEW m \in Nat, n <= m
    PROVE  /\ \A t : IsText(t, g) => IsText(t, h)
           /\ \A b : InPage(b, g, n) => InPage(b, h, m)
           /\ \A d : IsPage(d, g, n) => IsPage(d, h, m)
           /\ \A c : IsContent(c, g, n) => IsContent(c, h, m)
           /\ \A f : Filed(f, n) => Filed(f, m)
  <1>1. 1..n \subseteq 1..m /\ (h + 1)..MaxGesture \subseteq (g + 1)..MaxGesture
    BY AxesAssumption
  <1>2. \A t : IsText(t, g) => IsText(t, h)
    BY <1>1 DEF IsText
  <1>3. \A b : InPage(b, g, n) => InPage(b, h, m)
    BY <1>1, <1>2 DEF InPage
  <1>4. \A d : IsPage(d, g, n) => IsPage(d, h, m)
    BY <1>1, <1>3 DEF IsPage
  <1>5. \A c : IsContent(c, g, n) => IsContent(c, h, m)
    BY <1>1, <1>2 DEF IsContent, IsUnit
  <1>6. \A f : Filed(f, n) => Filed(f, m)
    BY <1>1 DEF Filed
  <1> QED BY <1>2, <1>3, <1>4, <1>5, <1>6

(* Handle h is a name of unit u in the document, or would be after undo.        *)
Bears(h, u) ==
    \/ u \in DOMAIN doc /\ h \in DOMAIN doc[u].names
    \/ u \in DOMAIN deleted /\ h \in DOMAIN deleted[u].names

(* What a gesture does to the document.                                         *)
Gestured(cued) ==
    /\ gestures < MaxGesture /\ gestures' = gestures + 1
    /\ minted' \in Nat /\ minted <= minted'
    /\ IsPage(doc', gestures + 1, minted') /\ IsPage(deleted', gestures + 1, minted')
    /\ retyped' = retyped \cup cued /\ restored \subseteq restored'
    /\ DOMAIN doc \ DOMAIN doc' \subseteq cued
    /\ \A u \in DOMAIN doc' :
            /\ \/ u \in cued
               \/ u \in DOMAIN doc /\ doc'[u].type = doc[u].type
               \/ u > minted /\ doc'[u].type = NoType
            /\ u \in DOMAIN doc \/ u \in restored' \/ u > minted
    /\ \E x : \A h, u : Bears(h, u)' => Bears(h, u) \/ (h > minted /\ u = x)
    /\ Titled(doc) /\ Titled(deleted) => Titled(doc') /\ Titled(deleted')
    /\ status' # "clean"
    /\ UNCHANGED <<server, baseline, sent, sync, merges, faults>>

(* A gesture leaves what is under way as it was: the request, and what it       *)
(* answers.                                                                     *)
LEMMA GestureKeeps ==
    ASSUME Inv, NEW cued, Gestured(cued)
    PROVE  Inv'
  <1>1. /\ gestures \in Nat /\ gestures + 1 \in Nat /\ gestures <= gestures + 1
        /\ gestures + 1 \in 0..MaxGesture
        /\ minted \in Nat /\ minted' \in Nat /\ minted <= minted' /\ gestures' = gestures + 1
    BY AxesAssumption DEF Inv, Stored, Gestured
  <1>2. /\ UNCHANGED <<units, revision, handles, targets, annotations, prior, priorRev>>
        /\ UNCHANGED <<sentNames, sentBraces, sync, faults>>
    BY DEF Gestured, server, baseline, sent
  <1>3. \A n : n \in 1..minted => n \in 1..minted' /\ ~(n > minted)
    BY <1>1
  <1>4. Stored'
    <2>1. IsContent(units, gestures', minted') /\ IsContent(prior, gestures', minted')
      BY <1>1, Later DEF Inv, Stored
    <2>2. Filed(handles, minted') /\ Filed(sentNames, minted')
      BY <1>1, Later DEF Inv, Stored
    <2>3. IsPage(doc', gestures', minted') /\ IsPage(deleted', gestures', minted')
      BY <1>1 DEF Gestured
    <2>4. \A a \in DOMAIN sentBraces : sentBraces[a][1] \in 1..minted'
      BY <1>3 DEF Inv, Stored
    <2> QED BY <1>1, <1>2, <2>1, <2>2, <2>3, <2>4 DEF Inv, Stored
  <1>5. Based'
    BY <1>2 DEF Inv, Based
  <1>6. \A u \in DOMAIN prior : u \in 1..minted
    BY DEF Inv, Stored, IsContent
  <1>7. /\ retyped \subseteq retyped' /\ restored \subseteq restored'
        /\ \A u \in DOMAIN doc : u \in DOMAIN doc' \/ u \in retyped'
        /\ \A u \in 1..minted : u \in DOMAIN doc \/ u \notin DOMAIN doc' \/ u \in restored'
    BY <1>3 DEF Gestured
  <1>8. Ready'
    <2>1. sync.pc \in Saves \cup Clears => SaveReady'
      <3>1. SUFFICES ASSUME SaveReady
                     PROVE  SaveReady'
        BY DEF Inv, Ready
      <3>2. IsContent(sync.body.upserts, gestures', minted')
        BY <1>1, <3>1, Later DEF SaveReady
      <3>3. \A u \in DOMAIN sync.body.upserts :
                /\ u \notin sync.body.deletes
                /\ u \in DOMAIN doc' \/ u \in retyped'
                /\ sync.body.upserts[u].type = IF u \in DOMAIN prior THEN prior[u].type ELSE NoType
        BY <1>7, <3>1 DEF SaveReady
      <3>4. \A u \in sync.body.deletes :
                /\ u \in DOMAIN prior /\ u \in retyped'
                /\ u \notin DOMAIN doc' \/ u \in restored'
                /\ prior[u].type # NoType => sync.pc \in Clears /\ u \in sync.queue
        BY <1>6, <1>7, <3>1 DEF SaveReady
      <3> QED BY <1>2, <3>1, <3>2, <3>3, <3>4 DEF SaveReady
    <2>2. sync.pc = "type" => TypesReady'
      BY <1>2, <1>7 DEF Inv, Ready, TypesReady
    <2>3. sync.pc = "name" => NamesReady'
      BY <1>2, <1>3 DEF Inv, Ready, NamesReady
    <2>4. sync.pc = "braces" => BracesReady'
      BY <1>2, <1>3 DEF Inv, Ready, BracesReady
    <2> QED BY <1>2, <2>1, <2>2, <2>3, <2>4 DEF Inv, Ready
  <1>9. Mine'
    <2>1. DOMAIN prior \ DOMAIN doc' \subseteq retyped'
      BY <1>7 DEF Inv, Mine
    <2>2. ASSUME NEW u \in DOMAIN doc',
                 doc'[u].type # (IF u \in DOMAIN prior THEN prior[u].type ELSE NoType)
          PROVE  u \in retyped'
      <3>1. CASE u \in cued
        BY <3>1 DEF Gestured
      <3>2. CASE u \in DOMAIN doc /\ doc'[u].type = doc[u].type
        BY <1>7, <2>2, <3>2 DEF Inv, Mine
      <3>3. CASE u > minted /\ doc'[u].type = NoType
        <4>1. u \notin DOMAIN prior
          BY <1>3, <1>6, <3>3
        <4> QED BY <2>2, <3>3, <4>1
      <3> QED BY <3>1, <3>2, <3>3 DEF Gestured
    <2> QED BY <1>2, <2>1, <2>2 DEF Mine
  <1>10. Clean'
    BY DEF Gestured, Clean
  <1>11. faults' = 0 => Unlost'
    <2>1. SUFFICES ASSUME Unlost
                   PROVE  Unlost'
      BY <1>2 DEF Inv
    <2>2. \A u \in 1..minted : Gone(u) => Gone(u)'
      BY <1>7 DEF Gone
    <2>3. \A a \in DOMAIN sentBraces :
              \/ Gone(sentBraces[a][1])'
              \/ a \in DOMAIN targets /\ targets[a] = sentBraces[a]
      BY <1>2, <2>1, <2>2 DEF Unlost, Inv, Stored
    <2>4. \A h \in DOMAIN sentNames :
              \/ Gone(sentNames[h].unit)'
              \/ h \in DOMAIN handles /\ handles[h] = sentNames[h]
      BY <1>2, <2>1, <2>2 DEF Unlost, Inv, Stored, Filed
    <2>5. \A h, u : Homed(h, u) => h \in 1..minted /\ u \in 1..minted
      <3>1. ASSUME NEW h, NEW u, u \in DOMAIN doc, h \in DOMAIN doc[u].names
            PROVE  h \in 1..minted /\ u \in 1..minted
        BY <3>1 DEF Inv, Stored, IsPage, InPage
      <3>2. ASSUME NEW h, NEW u, u \in DOMAIN deleted, h \in DOMAIN deleted[u].names
            PROVE  h \in 1..minted /\ u \in 1..minted
        BY <3>2 DEF Inv, Stored, IsPage, InPage
      <3>3. \A h \in DOMAIN handles : h \in 1..minted /\ handles[h].unit \in 1..minted
        BY DEF Inv, Stored, Filed
      <3>4. \A h \in DOMAIN sentNames : h \in 1..minted /\ sentNames[h].unit \in 1..minted
        BY DEF Inv, Stored, Filed
      <3>5. sync.pc = "name" => \A n \in sync.queue : n.handle \in 1..minted /\ n.unit \in 1..minted
        BY <1>6 DEF Inv, Ready, NamesReady
      <3> QED BY <3>1, <3>2, <3>3, <3>4, <3>5 DEF Homed
    <2>6. PICK x : \A h, u : Bears(h, u)' => Bears(h, u) \/ (h > minted /\ u = x)
      BY DEF Gestured
    <2>7. \A h, u : Homed(h, u)' => Homed(h, u) \/ (h > minted /\ u = x)
      BY <1>2, <2>6 DEF Homed, Bears
    <2>8. \A h, u, v \in 1..minted' : Homed(h, u)' /\ Homed(h, v)' => u = v
      <3>1. ASSUME NEW h, NEW u, NEW v, Homed(h, u)', Homed(h, v)'
            PROVE  u = v
        <4>1. CASE Homed(h, u)
          <5>1. h \in 1..minted /\ u \in 1..minted /\ ~(h > minted)
            BY <1>3, <2>5, <4>1
          <5>2. Homed(h, v) /\ v \in 1..minted
            BY <2>5, <2>7, <3>1, <5>1
          <5> QED BY <2>1, <4>1, <5>1, <5>2 DEF Unlost
        <4>2. CASE h > minted /\ u = x
          <5>1. ~Homed(h, v)
            BY <1>3, <2>5, <4>2
          <5> QED BY <2>7, <3>1, <4>2, <5>1
        <4> QED BY <2>7, <3>1, <4>1, <4>2
      <3> QED BY <3>1
    <2>9. Titled(doc') /\ Titled(deleted')
      BY <2>1 DEF Unlost, Gestured
    <2>10. Titled(doc)' /\ Titled(deleted)'
      BY <2>9 DEF Titled
    <2> QED BY <1>2, <2>1, <2>3, <2>4, <2>8, <2>10 DEF Unlost
  <1> QED BY <1>4, <1>5, <1>8, <1>9, <1>10, <1>11 DEF Inv

(* One block of the document becomes b.                                         *)
LEMMA Retouched ==
    ASSUME Inv, NEW u \in DOMAIN doc, NEW b, NEW d, NEW ids \in Nat, NEW cued,
           d = [doc EXCEPT ![u] = b], Edit(d, ids, cued), Forgotten,
           InPage(b, gestures + 1, minted + ids),
           b.type = doc[u].type \/ u \in cued,
           \A h \in DOMAIN b.names : h \in DOMAIN doc[u].names \/ h > minted,
           DOMAIN b.names # {} => b.type # NoType \/ (DOMAIN doc[u].names # {} /\ b.type = doc[u].type)
    PROVE  Gestured(cued)
  <1>1. /\ gestures \in Nat /\ gestures + 1 \in Nat /\ gestures <= gestures + 1
        /\ minted \in Nat /\ minted + ids \in Nat /\ minted <= minted + ids
        /\ IsPage(doc, gestures, minted)
    BY DEF Inv, Stored
  <1>2. /\ DOMAIN d = DOMAIN doc /\ d[u] = b
        /\ \A v \in DOMAIN doc : v # u => d[v] = doc[v]
    OBVIOUS
  <1>3. /\ gestures < MaxGesture /\ doc' = d /\ minted' = minted + ids /\ gestures' = gestures + 1
        /\ retyped' = retyped \cup cued /\ status' # "clean"
        /\ UNCHANGED <<server, baseline, sent, sync, merges, faults>>
    BY DEF Edit
  <1>4. DOMAIN deleted' = {} /\ restored' = restored
    BY DEF Forgotten
  <1>5. IsPage(doc, gestures + 1, minted + ids)
    BY <1>1, Later
  <1>6. IsPage(d, gestures + 1, minted + ids)
    BY <1>2, <1>5 DEF IsPage
  <1>7. IsPage(deleted', gestures + 1, minted + ids)
    BY <1>4 DEF IsPage
  <1>8. \A v \in DOMAIN doc' : v \in DOMAIN doc /\ (v \in cued \/ doc'[v].type = doc[v].type)
    BY <1>2, <1>3
  <1>9. \A h, v : Bears(h, v)' => Bears(h, v) \/ (h > minted /\ v = u)
    BY <1>2, <1>3, <1>4 DEF Bears
  <1>10. Titled(doc) => Titled(doc') /\ Titled(deleted')
    <2>1. Titled(doc) => Titled(d)
      BY <1>2 DEF Titled
    <2>2. Titled(deleted')
      BY <1>4 DEF Titled
    <2> QED BY <1>3, <2>1, <2>2
  <1> QED BY <1>1, <1>2, <1>3, <1>4, <1>6, <1>7, <1>8, <1>9, <1>10 DEF Gestured

Block(text, type, names, braces) ==
    [text |-> text, type |-> type, names |-> names, braces |-> braces]

IsMap(f) == f = [a \in DOMAIN f |-> f[a]]

Within(f, n) == DOMAIN f \subseteq 1..n

Phrases(f, t) == \A a \in DOMAIN f : IsPhrase(f[a], t)

(* What the invariant says of one block.                                        *)
LEMMA BlockFacts ==
    ASSUME Inv, NEW u \in DOMAIN doc
    PROVE  /\ u \in 1..minted /\ minted \in Nat /\ minted + 0 = minted /\ gestures \in Nat
           /\ doc[u] = Block(doc[u].text, doc[u].type, doc[u].names, doc[u].braces)
           /\ IsMap(doc[u].braces)
           /\ IsText(doc[u].text, gestures) /\ IsText(doc[u].text, gestures + 1)
           /\ doc[u].type \in Type \cup {NoType}
           /\ \A a \in DOMAIN doc[u].braces : IsPhrase(doc[u].braces[a], doc[u].text)
           /\ Phrases(doc[u].braces, doc[u].text)
           /\ DOMAIN doc[u].names \subseteq 1..minted /\ DOMAIN doc[u].braces \subseteq 1..minted
           /\ Within(doc[u].names, minted) /\ Within(doc[u].braces, minted)
  <1>1. u \in 1..minted /\ InPage(doc[u], gestures, minted) /\ minted \in Nat /\ gestures \in Nat
    BY DEF Inv, Stored, IsPage
  <1>2. IsText(doc[u].text, gestures + 1)
    BY <1>1, Later DEF InPage
  <1>3. minted + 0 = minted
    BY <1>1
  <1>4. IsBlock(doc[u])
    BY <1>1 DEF InPage
  <1>5. /\ doc[u] = Block(doc[u].text, doc[u].type, doc[u].names, doc[u].braces)
        /\ IsMap(doc[u].braces)
    BY <1>4 DEF IsBlock, Block, IsMap
  <1>6. /\ doc[u].type \in Type \cup {NoType}
        /\ \A a \in DOMAIN doc[u].braces : IsPhrase(doc[u].braces[a], doc[u].text)
    BY <1>4 DEF IsBlock
  <1>7. DOMAIN doc[u].names \subseteq 1..minted /\ DOMAIN doc[u].braces \subseteq 1..minted
    BY <1>1 DEF InPage
  <1>8. IsText(doc[u].text, gestures)
    BY <1>1 DEF InPage
  <1> QED BY <1>1, <1>2, <1>3, <1>5, <1>6, <1>7, <1>8 DEF Within, Phrases

(* Two fields of a block changed.                                               *)
Reworded(z, x, y) == [z EXCEPT !.text = x, !.braces = y]

Recued(z, x, y) == [z EXCEPT !.type = x, !.names = y]

Recopied(z, x, y) == [z EXCEPT !.names = x, !.braces = y]

(* The three ways a gesture changes two fields of a block at once.              *)
LEMMA TwoFields ==
    ASSUME NEW a, NEW b, NEW c, NEW d, NEW z, z = Block(a, b, c, d), NEW x, NEW y
    PROVE  /\ Reworded(z, x, y) = Block(x, b, c, y)
           /\ Recued(z, x, y) = Block(a, x, y, d)
           /\ Recopied(z, x, y) = Block(a, b, x, y)
  <1>1. PICK t, k, n : t = [z EXCEPT !.text = x] /\ k = [z EXCEPT !.type = x] /\ n = [z EXCEPT !.names = x]
    OBVIOUS
  <1>2. t = Block(x, b, c, d) /\ k = Block(a, x, c, d) /\ n = Block(a, b, x, d)
    BY <1>1 DEF Block
  <1>3. [t EXCEPT !.braces = y] = Block(x, b, c, y)
    BY <1>2 DEF Block
  <1>4. [k EXCEPT !.names = y] = Block(a, x, y, d)
    BY <1>2 DEF Block
  <1>5. [n EXCEPT !.braces = y] = Block(a, b, x, y)
    BY <1>2 DEF Block
  <1>6. Reworded(z, x, y) = Block(x, b, c, y)
    BY <1>1, <1>3 DEF Reworded
  <1>7. Recued(z, x, y) = Block(a, x, y, d)
    BY <1>1, <1>4 DEF Recued
  <1>8. Recopied(z, x, y) = Block(a, b, x, y)
    BY <1>1, <1>5 DEF Recopied
  <1> QED BY <1>6, <1>7, <1>8

(* What a block of a page has to be, part by part.                              *)
LEMMA AsBlock ==
    ASSUME NEW t, NEW g, IsText(t, g), NEW y \in Type \cup {NoType}, NEW nm, NEW br, NEW n,
           Within(nm, n), Within(br, n), IsMap(br), Phrases(br, t),
           NEW b, b = Block(t, y, nm, br)
    PROVE  InPage(b, g, n) /\ b.type = y /\ b.names = nm
  <1>1. b.text = t /\ b.type = y /\ b.names = nm /\ b.braces = br
    BY DEF Block
  <1>2. b = [text |-> b.text, type |-> b.type, names |-> b.names, braces |-> b.braces]
    BY <1>1 DEF Block
  <1>3. b.braces = [a \in DOMAIN b.braces |-> b.braces[a]]
    BY <1>1 DEF IsMap
  <1>4. b.text \in Seq(Words(b.text)) /\ \A i, j \in DOMAIN b.text : b.text[i] = b.text[j] => i = j
    BY <1>1 DEF IsText
  <1>5. IsBlock(b)
    BY <1>1, <1>2, <1>3, <1>4 DEF IsBlock, Phrases
  <1> QED BY <1>1, <1>5 DEF InPage, Within

(* Each gesture is Gestured.                                                    *)
LEMMA TypeWordGestured ==
    ASSUME Inv, TypeWord
    PROVE  Gestured({})
  <1>0. PICK u \in DOMAIN doc : \E k \in 0..Len(doc[u].text) :
            /\ Edit([doc EXCEPT ![u] = [@ EXCEPT !.text = WordAfter(doc[u].text, k, gestures + 1),
                                                 !.braces = Around(doc[u], k, gestures + 1)]], 0, {})
            /\ Forgotten
    BY DEF TypeWord
  <1>1. PICK k \in 0..Len(doc[u].text) :
            /\ Edit([doc EXCEPT ![u] = [@ EXCEPT !.text = WordAfter(doc[u].text, k, gestures + 1),
                                                 !.braces = Around(doc[u], k, gestures + 1)]], 0, {})
            /\ Forgotten
    BY <1>0
  <1>s. doc[u] = Block(doc[u].text, doc[u].type, doc[u].names, doc[u].braces)
    BY BlockFacts
  <1>2. PICK t, n, br, b :
            /\ t = doc[u].text /\ n = WordAfter(t, k, gestures + 1)
            /\ br = Around(doc[u], k, gestures + 1)
            /\ b = Block(n, doc[u].type, doc[u].names, br)
    OBVIOUS
  <1>3. [doc[u] EXCEPT !.text = n, !.braces = br] = b
    <2>1. Reworded(doc[u], n, br) = b
      BY <1>2, <1>s, TwoFields
    <2> QED BY <2>1 DEF Reworded
  <1>4. Edit([doc EXCEPT ![u] = b], 0, {})
    <2>1. [doc EXCEPT ![u] = [@ EXCEPT !.text = n, !.braces = br]] = [doc EXCEPT ![u] = b]
      BY <1>3
    <2> QED BY <1>1, <1>2, <2>1
  <1>5. gestures < MaxGesture /\ MaxGesture \in Nat
    BY <1>1, AxesAssumption DEF Edit
  <1>6. IsText(n, gestures + 1)
    BY <1>2, <1>5, BlockFacts, WordTyped
  <1>7. /\ DOMAIN br = DOMAIN doc[u].braces /\ IsMap(br)
        /\ \A a \in DOMAIN br :
              br[a] = Grown(doc[u].braces[a], t, k, gestures + 1)
    BY <1>2 DEF Around, Grown, IsMap
  <1>8. \A a \in DOMAIN br : IsPhrase(br[a], n)
    <2>1. ASSUME NEW a \in DOMAIN br
          PROVE  IsPhrase(br[a], n)
      <3>1. IsPhrase(doc[u].braces[a], t) /\ IsText(t, gestures) /\ gestures \in Nat
        BY <1>2, <1>7, BlockFacts
      <3>2. IsPhrase(Grown(doc[u].braces[a], t, k, gestures + 1), n)
        BY <1>2, <1>5, <3>1, PhraseTyped
      <3> QED BY <1>7, <3>2
    <2> QED BY <2>1
  <1>9. minted + 0 = minted
    BY BlockFacts
  <1>10. InPage(b, gestures + 1, minted) /\ b.type = doc[u].type /\ b.names = doc[u].names
    <2>1. Within(br, minted) /\ Phrases(br, n)
      BY <1>7, <1>8, BlockFacts DEF Within, Phrases
    <2> QED BY <1>2, <1>6, <1>7, <2>1, BlockFacts, AsBlock
  <1> QED BY <1>1, <1>4, <1>9, <1>10, Retouched

LEMMA EraseWordGestured ==
    ASSUME Inv, EraseWord
    PROVE  Gestured({})
  <1>0. PICK u \in DOMAIN doc : \E k \in DOMAIN doc[u].text :
            /\ Edit([doc EXCEPT ![u] = WithText(@, WithoutWord(@.text, k))], 0, {})
            /\ Forgotten
    BY DEF EraseWord
  <1>1. PICK k \in DOMAIN doc[u].text :
            /\ Edit([doc EXCEPT ![u] = WithText(@, WithoutWord(@.text, k))], 0, {})
            /\ Forgotten
    BY <1>0
  <1>s. doc[u] = Block(doc[u].text, doc[u].type, doc[u].names, doc[u].braces)
    BY BlockFacts
  <1>2. PICK t, n, br, b :
            /\ t = doc[u].text /\ n = WithoutWord(t, k) /\ br = Marking(doc[u].braces, n)
            /\ b = Block(n, doc[u].type, doc[u].names, br)
    OBVIOUS
  <1>3. WithText(doc[u], WithoutWord(doc[u].text, k)) = b
    <2>1. Reworded(doc[u], n, br) = b
      BY <1>2, <1>s, TwoFields
    <2>2. WithText(doc[u], WithoutWord(doc[u].text, k)) = [doc[u] EXCEPT !.text = n, !.braces = br]
      BY <1>2 DEF WithText
    <2> QED BY <2>1, <2>2 DEF Reworded
  <1>4. Edit([doc EXCEPT ![u] = b], 0, {})
    <2>1. [doc EXCEPT ![u] = WithText(@, WithoutWord(@.text, k))] = [doc EXCEPT ![u] = b]
      BY <1>3
    <2> QED BY <1>1, <2>1
  <1>5. k \in 1..Len(t) /\ IsText(t, gestures) /\ IsText(t, gestures + 1) /\ gestures + 1 \in Nat
    BY <1>1, <1>2, BlockFacts, TextShape, SMTT(30)
  <1>6. IsText(n, gestures + 1)
    BY <1>2, <1>5, WordErased
  <1>7. /\ DOMAIN br \subseteq DOMAIN doc[u].braces /\ IsMap(br)
        /\ \A a \in DOMAIN br : /\ br[a] = doc[u].braces[a] \cap Words(n)
                                /\ doc[u].braces[a] \cap Words(n) # {}
    BY <1>2 DEF Marking, IsMap
  <1>8. \A a \in DOMAIN br : IsPhrase(br[a], n)
    <2>1. ASSUME NEW a \in DOMAIN br
          PROVE  IsPhrase(br[a], n)
      <3>1. IsPhrase(doc[u].braces[a], t) /\ gestures \in Nat
        BY <1>2, <1>7, BlockFacts
      <3> QED BY <1>2, <1>5, <1>7, <3>1, PhraseErased
    <2> QED BY <2>1
  <1>9. minted + 0 = minted
    BY BlockFacts
  <1>10. InPage(b, gestures + 1, minted) /\ b.type = doc[u].type /\ b.names = doc[u].names
    <2>1. Within(br, minted) /\ Phrases(br, n)
      BY <1>7, <1>8, BlockFacts DEF Within, Phrases
    <2>2. IsMap(br)
      BY <1>7
    <2>3. doc[u].type \in Type \cup {NoType}
      BY BlockFacts
    <2>4. b = Block(n, doc[u].type, doc[u].names, br) /\ Within(doc[u].names, minted)
      BY <1>2, BlockFacts
    <2> QED BY <1>6, <2>1, <2>2, <2>3, <2>4, AsBlock
  <1> QED BY <1>1, <1>4, <1>9, <1>10, Retouched

(* One name or brace more, named by the next id.                                *)
LEMMA OneMore ==
    ASSUME NEW n \in Nat, NEW f, DOMAIN f \subseteq 1..n, NEW v
    PROVE  /\ DOMAIN With(f, n + 1, v) \subseteq 1..(n + 1)
           /\ IsMap(With(f, n + 1, v))
           /\ \A a \in DOMAIN With(f, n + 1, v) :
                    \/ a = n + 1 /\ a > n /\ With(f, n + 1, v)[a] = v
                    \/ a \in DOMAIN f /\ With(f, n + 1, v)[a] = f[a]
  <1>1. DOMAIN With(f, n + 1, v) = DOMAIN f \cup {n + 1}
    BY DEF With
  <1>2. IsMap(With(f, n + 1, v))
    BY DEF With, IsMap
  <1>3. \A a \in 1..n : a \in 1..(n + 1) /\ a # n + 1
    OBVIOUS
  <1>4. n + 1 \in 1..(n + 1) /\ n + 1 > n
    OBVIOUS
  <1>5. \A a \in DOMAIN f \cup {n + 1} : With(f, n + 1, v)[a] = IF a = n + 1 THEN v ELSE f[a]
    BY DEF With
  <1> QED BY <1>1, <1>2, <1>3, <1>4, <1>5

LEMMA CueGestured ==
    ASSUME Inv, Cue
    PROVE  \E cued : Gestured(cued)
  <1>1. PICK u \in DOMAIN doc, t \in Type :
            /\ \/ Edit([doc EXCEPT ![u].type = t], 0, {u})
               \/ Edit([doc EXCEPT ![u].type = t, ![u].names = With(NoNames, minted + 1, "cued")], 1, {u})
            /\ Forgotten
    BY DEF Cue
  <1>s. doc[u] = Block(doc[u].text, doc[u].type, doc[u].names, doc[u].braces)
    BY BlockFacts
  <1>2. PICK nm : nm = With(NoNames, minted + 1, "cued")
    OBVIOUS
  <1>3. t # NoType
    BY FacetsAssumption
  <1>4. DOMAIN NoNames = {}
    BY DEF NoNames
  <1>5. /\ DOMAIN nm \subseteq 1..(minted + 1)
        /\ \A h \in DOMAIN nm : h > minted
    BY <1>2, <1>4, BlockFacts, OneMore
  <1>6. CASE Edit([doc EXCEPT ![u].type = t], 0, {u})
    <2>1. PICK b : b = Block(doc[u].text, t, doc[u].names, doc[u].braces)
      OBVIOUS
    <2>2. [doc EXCEPT ![u].type = t] = [doc EXCEPT ![u] = b]
      <3>1. [doc[u] EXCEPT !.type = t] = b
        BY <2>1, <1>s DEF Block
      <3> QED BY <3>1
    <2>3. minted + 0 = minted
      BY BlockFacts
    <2>4. InPage(b, gestures + 1, minted) /\ b.type = t /\ b.names = doc[u].names
      BY <2>1, BlockFacts, AsBlock
    <2>5. Edit([doc EXCEPT ![u] = b], 0, {u})
      BY <1>6, <2>2
    <2> QED BY <1>1, <1>3, <2>3, <2>4, <2>5, Retouched
  <1>7. CASE Edit([doc EXCEPT ![u].type = t, ![u].names = With(NoNames, minted + 1, "cued")], 1, {u})
    <2>1. PICK b : b = Block(doc[u].text, t, nm, doc[u].braces)
      OBVIOUS
    <2>2. [doc EXCEPT ![u].type = t, ![u].names = nm] = [doc EXCEPT ![u] = b]
      <3>1. Recued(doc[u], t, nm) = b
        BY <2>1, <1>s, TwoFields
      <3>2. [doc[u] EXCEPT !.type = t, !.names = nm] = b
        BY <3>1 DEF Recued
      <3> QED BY <3>2
    <2>3. Within(nm, minted + 1) /\ Within(doc[u].braces, minted + 1)
      BY <1>5, BlockFacts DEF Within
    <2>4. InPage(b, gestures + 1, minted + 1) /\ b.type = t /\ b.names = nm
      BY <2>1, <2>3, BlockFacts, AsBlock
    <2>5. Edit([doc EXCEPT ![u] = b], 1, {u})
      BY <1>2, <1>7, <2>2
    <2> QED BY <1>1, <1>3, <1>5, <2>4, <2>5, Retouched
  <1> QED BY <1>1, <1>6, <1>7

LEMMA PeelGestured ==
    ASSUME Inv, Peel
    PROVE  \E cued : Gestured(cued)
  <1>1. PICK u \in DOMAIN doc :
            /\ Edit([doc EXCEPT ![u].type = NoType, ![u].names = NoNames], 0, {u})
            /\ Forgotten
    BY DEF Peel
  <1>s. doc[u] = Block(doc[u].text, doc[u].type, doc[u].names, doc[u].braces)
    BY BlockFacts
  <1>2. PICK nm : nm = NoNames
    OBVIOUS
  <1>3. DOMAIN nm = {}
    BY <1>2 DEF NoNames
  <1>4. PICK b : b = Block(doc[u].text, NoType, nm, doc[u].braces)
    OBVIOUS
  <1>5. [doc EXCEPT ![u].type = NoType, ![u].names = nm] = [doc EXCEPT ![u] = b]
    <2>1. Recued(doc[u], NoType, nm) = b
      BY <1>4, <1>s, TwoFields
    <2>2. [doc[u] EXCEPT !.type = NoType, !.names = nm] = b
      BY <2>1 DEF Recued
    <2> QED BY <2>2
  <1>6. minted + 0 = minted
    BY BlockFacts
  <1>7. InPage(b, gestures + 1, minted) /\ b.type = NoType /\ b.names = nm
    <2>1. Within(nm, minted)
      BY <1>3 DEF Within
    <2> QED BY <1>4, <2>1, BlockFacts, AsBlock
  <1>8. Edit([doc EXCEPT ![u] = b], 0, {u})
    BY <1>1, <1>2, <1>5
  <1> QED BY <1>1, <1>3, <1>6, <1>7, <1>8, Retouched

(* A block with other names.                                                    *)
LEMMA Renamed ==
    ASSUME Inv, NEW u \in DOMAIN doc, NEW nm, NEW ids \in Nat,
           DOMAIN nm \subseteq 1..(minted + ids),
           \A h \in DOMAIN nm : h \in DOMAIN doc[u].names \/ h > minted,
           DOMAIN nm # {} => doc[u].type # NoType \/ DOMAIN doc[u].names # {},
           Edit([doc EXCEPT ![u].names = nm], ids, {}), Forgotten
    PROVE  Gestured({})
  <1>s. doc[u] = Block(doc[u].text, doc[u].type, doc[u].names, doc[u].braces)
    BY BlockFacts
  <1>1. PICK b : b = Block(doc[u].text, doc[u].type, nm, doc[u].braces)
    OBVIOUS
  <1>2. [doc EXCEPT ![u].names = nm] = [doc EXCEPT ![u] = b]
    <2>1. [doc[u] EXCEPT !.names = nm] = b
      BY <1>1, <1>s DEF Block
    <2> QED BY <2>1
  <1>3. 1..minted \subseteq 1..(minted + ids)
    BY BlockFacts
  <1>4. InPage(b, gestures + 1, minted + ids) /\ b.type = doc[u].type /\ b.names = nm
    <2>1. Within(nm, minted + ids) /\ Within(doc[u].braces, minted + ids)
      BY <1>3, BlockFacts DEF Within
    <2>2. /\ doc[u].type \in Type \cup {NoType} /\ IsText(doc[u].text, gestures + 1)
          /\ IsMap(doc[u].braces) /\ Phrases(doc[u].braces, doc[u].text)
      BY BlockFacts
    <2>3. PICK t, y, br, g, n :
              /\ t = doc[u].text /\ y = doc[u].type /\ br = doc[u].braces
              /\ g = gestures + 1 /\ n = minted + ids
      OBVIOUS
    <2>4. InPage(b, g, n) /\ b.type = y /\ b.names = nm
      BY <1>1, <2>1, <2>2, <2>3, AsBlock
    <2> QED BY <2>3, <2>4
  <1>5. Edit([doc EXCEPT ![u] = b], ids, {})
    BY <1>2
  <1> QED BY <1>4, <1>5, Retouched

LEMMA NameGestured ==
    ASSUME Inv, Name
    PROVE  \E cued : Gestured(cued)
  <1>1. PICK u \in DOMAIN doc :
        /\ doc[u].type # NoType
        /\ \/ Edit([doc EXCEPT ![u].names = With(@, minted + 1, "alias")], 1, {})
           \/ \E h \in DOMAIN doc[u].names :
                \/ Edit([doc EXCEPT ![u].names[h] = "renamed"], 0, {})
                \/ Edit([doc EXCEPT ![u].names = Restrict(@, DOMAIN @ \ {h})], 0, {})
        /\ Forgotten
    BY DEF Name
  <1>2. /\ minted \in Nat /\ minted + 0 = minted
        /\ DOMAIN doc[u].names \subseteq 1..minted
    BY BlockFacts
  <1>3. CASE Edit([doc EXCEPT ![u].names = With(@, minted + 1, "alias")], 1, {})
    <2>1. PICK nm : nm = With(doc[u].names, minted + 1, "alias")
      OBVIOUS
    <2>2. /\ DOMAIN nm \subseteq 1..(minted + 1)
          /\ \A h \in DOMAIN nm : h \in DOMAIN doc[u].names \/ h > minted
      BY <1>2, <2>1, OneMore
    <2>3. Edit([doc EXCEPT ![u].names = nm], 1, {})
      <3>1. [doc EXCEPT ![u].names = With(@, minted + 1, "alias")] = [doc EXCEPT ![u].names = nm]
        BY <2>1
      <3> QED BY <1>3, <3>1
    <2> QED BY <1>1, <2>2, <2>3, Renamed
  <1>4. ASSUME NEW h \in DOMAIN doc[u].names, Edit([doc EXCEPT ![u].names[h] = "renamed"], 0, {})
        PROVE  \E cued : Gestured(cued)
    <2>1. PICK nm : nm = [doc[u].names EXCEPT ![h] = "renamed"]
      OBVIOUS
    <2>2. DOMAIN nm = DOMAIN doc[u].names
      BY <2>1
    <2>3. Edit([doc EXCEPT ![u].names = nm], 0, {})
      <3>1. [doc EXCEPT ![u].names[h] = "renamed"] = [doc EXCEPT ![u].names = nm]
        BY <2>1
      <3> QED BY <1>4, <3>1
    <2> QED BY <1>1, <1>2, <2>2, <2>3, Renamed
  <1>5. ASSUME NEW h \in DOMAIN doc[u].names,
               Edit([doc EXCEPT ![u].names = Restrict(@, DOMAIN @ \ {h})], 0, {})
        PROVE  \E cued : Gestured(cued)
    <2>1. PICK nm : nm = Restrict(doc[u].names, DOMAIN doc[u].names \ {h})
      OBVIOUS
    <2>2. DOMAIN nm \subseteq DOMAIN doc[u].names
      BY <2>1 DEF Restrict
    <2>3. Edit([doc EXCEPT ![u].names = nm], 0, {})
      <3>1. [doc EXCEPT ![u].names = Restrict(@, DOMAIN @ \ {h})] = [doc EXCEPT ![u].names = nm]
        BY <2>1
      <3> QED BY <1>5, <3>1
    <2> QED BY <1>1, <1>2, <2>2, <2>3, Renamed
  <1> QED BY <1>1, <1>3, <1>4, <1>5

(* A block with other braces.                                                   *)
LEMMA Rebraced ==
    ASSUME Inv, NEW u \in DOMAIN doc, NEW br, NEW ids \in Nat,
           DOMAIN br \subseteq 1..(minted + ids), IsMap(br),
           \A a \in DOMAIN br : IsPhrase(br[a], doc[u].text),
           Edit([doc EXCEPT ![u].braces = br], ids, {}), Forgotten
    PROVE  Gestured({})
  <1>s. doc[u] = Block(doc[u].text, doc[u].type, doc[u].names, doc[u].braces)
    BY BlockFacts
  <1>1. PICK b : b = Block(doc[u].text, doc[u].type, doc[u].names, br)
    OBVIOUS
  <1>2. [doc EXCEPT ![u].braces = br] = [doc EXCEPT ![u] = b]
    <2>1. [doc[u] EXCEPT !.braces = br] = b
      BY <1>1, <1>s DEF Block
    <2> QED BY <2>1
  <1>3. 1..minted \subseteq 1..(minted + ids)
    BY BlockFacts
  <1>4. InPage(b, gestures + 1, minted + ids) /\ b.type = doc[u].type /\ b.names = doc[u].names
    <2>1. Within(br, minted + ids) /\ Within(doc[u].names, minted + ids) /\ Phrases(br, doc[u].text)
      BY <1>3, BlockFacts DEF Within, Phrases
    <2>2. /\ doc[u].type \in Type \cup {NoType} /\ IsText(doc[u].text, gestures + 1)
          /\ IsMap(doc[u].braces) /\ Phrases(doc[u].braces, doc[u].text)
      BY BlockFacts
    <2> QED BY <1>1, <2>1, <2>2, AsBlock
  <1>5. Edit([doc EXCEPT ![u] = b], ids, {})
    BY <1>2
  <1> QED BY <1>4, <1>5, Retouched

LEMMA BraceGestured ==
    ASSUME Inv, Brace
    PROVE  \E cued : Gestured(cued)
  <1>1. PICK u \in DOMAIN doc : \E i, j \in DOMAIN doc[u].text :
            /\ i <= j
            /\ Edit([doc EXCEPT ![u].braces = With(@, minted + 1, {doc[u].text[k] : k \in i..j})], 1, {})
            /\ Forgotten
    BY DEF Brace
  <1>2. PICK words :
            /\ IsPhrase(words, doc[u].text)
            /\ Edit([doc EXCEPT ![u].braces = With(@, minted + 1, words)], 1, {})
            /\ Forgotten
    BY <1>1 DEF IsPhrase
  <1>3. PICK br : br = With(doc[u].braces, minted + 1, words)
    OBVIOUS
  <1>4. /\ DOMAIN br \subseteq 1..(minted + 1) /\ IsMap(br)
        /\ \A a \in DOMAIN br : br[a] = words \/ (a \in DOMAIN doc[u].braces /\ br[a] = doc[u].braces[a])
    BY <1>3, BlockFacts, OneMore
  <1>5. \A a \in DOMAIN br : IsPhrase(br[a], doc[u].text)
    BY <1>2, <1>4, BlockFacts
  <1>6. Edit([doc EXCEPT ![u].braces = br], 1, {})
    <2>1. [doc EXCEPT ![u].braces = With(@, minted + 1, words)] = [doc EXCEPT ![u].braces = br]
      BY <1>3
    <2> QED BY <1>2, <2>1
  <1> QED BY <1>2, <1>4, <1>5, <1>6, Rebraced

LEMMA RemoveBraceGestured ==
    ASSUME Inv, RemoveBrace
    PROVE  \E cued : Gestured(cued)
  <1>1. PICK u \in DOMAIN doc : \E a \in DOMAIN doc[u].braces :
            /\ Edit([doc EXCEPT ![u].braces = Restrict(@, DOMAIN @ \ {a})], 0, {})
            /\ Forgotten
    BY DEF RemoveBrace
  <1>2. PICK a \in DOMAIN doc[u].braces :
            /\ Edit([doc EXCEPT ![u].braces = Restrict(@, DOMAIN @ \ {a})], 0, {})
            /\ Forgotten
    BY <1>1
  <1>3. PICK br : br = Restrict(doc[u].braces, DOMAIN doc[u].braces \ {a})
    OBVIOUS
  <1>4. /\ DOMAIN br \subseteq DOMAIN doc[u].braces /\ IsMap(br)
        /\ \A x \in DOMAIN br : br[x] = doc[u].braces[x]
    BY <1>3 DEF Restrict, IsMap
  <1>5. \A x \in DOMAIN br : IsPhrase(br[x], doc[u].text)
    BY <1>4, BlockFacts
  <1>6. DOMAIN br \subseteq 1..(minted + 0)
    BY <1>4, BlockFacts
  <1>7. Edit([doc EXCEPT ![u].braces = br], 0, {})
    <2>1. [doc EXCEPT ![u].braces = Restrict(@, DOMAIN @ \ {a})] = [doc EXCEPT ![u].braces = br]
      BY <1>3
    <2> QED BY <1>2, <2>1
  <1> QED BY <1>2, <1>4, <1>5, <1>6, <1>7, Rebraced

LEMMA DeleteBlockGestured ==
    ASSUME Inv, DeleteBlock
    PROVE  \E cued : Gestured(cued)
  <1>1. PICK u \in DOMAIN doc :
            /\ Edit(Restrict(doc, DOMAIN doc \ {u}), 0, {u})
            /\ deleted' = Restrict(doc, {u})
            /\ restored' = restored
    BY DEF DeleteBlock
  <1>2. /\ gestures < MaxGesture /\ doc' = Restrict(doc, DOMAIN doc \ {u}) /\ minted' = minted + 0
        /\ gestures' = gestures + 1 /\ retyped' = retyped \cup {u} /\ status' # "clean"
        /\ UNCHANGED <<server, baseline, sent, sync, merges, faults>>
    BY <1>1 DEF Edit
  <1>3. /\ DOMAIN doc' = DOMAIN doc \ {u} /\ \A v \in DOMAIN doc' : doc'[v] = doc[v]
        /\ DOMAIN deleted' = {u} /\ deleted'[u] = doc[u]
    BY <1>1, <1>2 DEF Restrict
  <1>4. minted \in Nat /\ minted' = minted /\ gestures \in Nat /\ gestures <= gestures + 1
    BY <1>2, BlockFacts
  <1>5. IsPage(doc, gestures + 1, minted)
    BY <1>4, Later DEF Inv, Stored
  <1>6. IsPage(doc', gestures + 1, minted) /\ IsPage(deleted', gestures + 1, minted)
    BY <1>3, <1>5 DEF IsPage
  <1>7. \A h, v : Bears(h, v)' => Bears(h, v)
    BY <1>3 DEF Bears
  <1>8. Titled(doc) => Titled(doc') /\ Titled(deleted')
    BY <1>3 DEF Titled
  <1> QED BY <1>1, <1>2, <1>3, <1>4, <1>6, <1>7, <1>8 DEF Gestured

LEMMA UndoGestured ==
    ASSUME Inv, Undo
    PROVE  \E cued : Gestured(cued)
  <1>1. /\ gestures < MaxGesture /\ doc' = Joined(doc, deleted) /\ minted' = minted + 0
        /\ gestures' = gestures + 1 /\ retyped' = retyped \cup DOMAIN deleted /\ status' # "clean"
        /\ UNCHANGED <<server, baseline, sent, sync, merges, faults>>
    BY DEF Undo, Edit
  <1>2. DOMAIN deleted' = {} /\ restored' = restored \cup DOMAIN deleted
    BY DEF Undo
  <1>3. /\ DOMAIN doc' = DOMAIN doc \cup DOMAIN deleted
        /\ \A v \in DOMAIN doc : doc'[v] = doc[v]
        /\ \A v \in DOMAIN deleted \ DOMAIN doc : doc'[v] = deleted[v]
    BY <1>1 DEF Joined
  <1>4. minted \in Nat /\ minted' = minted /\ gestures \in Nat /\ gestures <= gestures + 1
    BY <1>1 DEF Inv, Stored
  <1>5. IsPage(doc, gestures + 1, minted) /\ IsPage(deleted, gestures + 1, minted)
    BY <1>4, Later DEF Inv, Stored
  <1>6. IsPage(doc', gestures + 1, minted) /\ IsPage(deleted', gestures + 1, minted)
    BY <1>2, <1>3, <1>5 DEF IsPage
  <1>7. \A h, v : Bears(h, v)' => Bears(h, v)
    BY <1>2, <1>3 DEF Bears
  <1>8. Titled(doc) /\ Titled(deleted) => Titled(doc') /\ Titled(deleted')
    BY <1>2, <1>3 DEF Titled
  <1>9. \A v \in DOMAIN doc' :
            /\ v \in DOMAIN deleted \/ (v \in DOMAIN doc /\ doc'[v].type = doc[v].type)
            /\ v \in DOMAIN doc \/ v \in restored'
    BY <1>2, <1>3
  <1>10. DOMAIN doc \ DOMAIN doc' \subseteq DOMAIN deleted /\ restored \subseteq restored'
    BY <1>2, <1>3
  <1> QED BY <1>1, <1>4, <1>6, <1>7, <1>8, <1>9, <1>10 DEF Gestured

(* A block more, with the next id.                                              *)
LEMMA Added ==
    ASSUME Inv, NEW b, NEW ids \in Nat, 1 <= ids, NEW cued,
           Edit(With(doc, minted + 1, b), ids, cued), Forgotten,
           InPage(b, gestures + 1, minted + ids),
           (cued = {} /\ b.type = NoType) \/ cued = {minted + 1},
           \A h \in DOMAIN b.names : h > minted,
           DOMAIN b.names # {} /\ Titled(doc) => b.type # NoType
    PROVE  Gestured(cued)
  <1>1. /\ gestures < MaxGesture /\ doc' = With(doc, minted + 1, b) /\ minted' = minted + ids
        /\ gestures' = gestures + 1 /\ retyped' = retyped \cup cued /\ status' # "clean"
        /\ UNCHANGED <<server, baseline, sent, sync, merges, faults>>
    BY DEF Edit
  <1>2. DOMAIN deleted' = {} /\ restored' = restored
    BY DEF Forgotten
  <1>3. /\ minted \in Nat /\ minted' \in Nat /\ minted <= minted'
        /\ minted + 1 \in 1..minted' /\ minted + 1 > minted
        /\ gestures \in Nat /\ gestures <= gestures + 1
    BY <1>1 DEF Inv, Stored
  <1>4. IsPage(doc, gestures, minted)
    BY DEF Inv, Stored
  <1>5. minted + 1 \notin DOMAIN doc
    <2>1. minted + 1 \notin 1..minted
      BY <1>3
    <2> QED BY <1>4, <2>1 DEF IsPage
  <1>6. /\ DOMAIN doc' = DOMAIN doc \cup {minted + 1} /\ doc'[minted + 1] = b
        /\ \A v \in DOMAIN doc : doc'[v] = doc[v]
    BY <1>1, <1>5 DEF With
  <1>7. IsPage(doc, gestures + 1, minted')
    <2>1. gestures + 1 \in Nat
      BY <1>3
    <2> QED BY <1>3, <1>4, <2>1, Later
  <1>8. IsPage(doc', gestures + 1, minted') /\ IsPage(deleted', gestures + 1, minted')
    BY <1>1, <1>2, <1>3, <1>6, <1>7 DEF IsPage
  <1>9. \A h, v : Bears(h, v)' => Bears(h, v) \/ (h > minted /\ v = minted + 1)
    BY <1>2, <1>6 DEF Bears
  <1>10. Titled(doc) => Titled(doc') /\ Titled(deleted')
    BY <1>2, <1>6 DEF Titled
  <1>11. \A v \in DOMAIN doc' :
            /\ \/ v \in cued
               \/ v \in DOMAIN doc /\ doc'[v].type = doc[v].type
               \/ v > minted /\ doc'[v].type = NoType
            /\ v \in DOMAIN doc \/ v \in restored' \/ v > minted
    BY <1>3, <1>6
  <1> QED BY <1>1, <1>2, <1>3, <1>6, <1>8, <1>9, <1>10, <1>11 DEF Gestured

LEMMA NewBlockGestured ==
    ASSUME Inv, NewBlock
    PROVE  \E cued : Gestured(cued)
  <1>1. Edit(With(doc, minted + 1, Blank), 1, {}) /\ Forgotten
    BY DEF NewBlock
  <1>2. PICK t, nm, br : t = << >> /\ nm = NoNames /\ br = NoBraces
    OBVIOUS
  <1>3. DOMAIN nm = {} /\ DOMAIN br = {} /\ IsMap(br)
    BY <1>2 DEF NoNames, NoBraces, IsMap
  <1>4. IsText(t, gestures + 1)
    <2>1. DOMAIN t = {}
      BY <1>2
    <2>2. Words(t) = {}
      BY <2>1 DEF Words
    <2>3. t \in Seq(Words(t))
      BY <1>2
    <2> QED BY <2>1, <2>2, <2>3 DEF IsText
  <1>5. Blank = Block(t, NoType, nm, br)
    BY <1>2 DEF Blank, Block
  <1>6. InPage(Blank, gestures + 1, minted + 1) /\ Blank.type = NoType /\ Blank.names = nm
    <2>1. Within(nm, minted + 1) /\ Within(br, minted + 1) /\ Phrases(br, t)
      BY <1>3 DEF Within, Phrases
    <2>2. NoType \in Type \cup {NoType}
      OBVIOUS
    <2> QED BY <1>3, <1>4, <1>5, <2>1, <2>2, AsBlock
  <1> QED BY <1>1, <1>3, <1>6, Added

LEMMA Numbered ==
    ASSUME NEW n \in Nat, NEW N, NEW B, N \subseteq 1..n, B \subseteq 1..n
    PROVE  /\ Cardinality(N) \in Nat /\ Cardinality(B) \in Nat
           /\ \A x : /\ Cardinality({y \in N \cup B : y <= x}) \in Nat
                     /\ Cardinality({y \in N \cup B : y <= x}) <= Cardinality(N) + Cardinality(B)
  <1>1. IsFiniteSet(1..n)
    BY FS_Interval
  <1>2. IsFiniteSet(N) /\ IsFiniteSet(B)
    BY <1>1, FS_Subset
  <1>3. Cardinality(N) \in Nat /\ Cardinality(B) \in Nat /\ Cardinality(N \cap B) \in Nat
    <2>1. IsFiniteSet(N \cap B)
      BY <1>2, FS_Subset
    <2> QED BY <1>2, <2>1, FS_CardinalityType
  <1>4. /\ IsFiniteSet(N \cup B)
        /\ Cardinality(N \cup B) = Cardinality(N) + Cardinality(B) - Cardinality(N \cap B)
    BY <1>2, FS_Union
  <1>5. Cardinality(N \cup B) \in Nat /\ Cardinality(N \cup B) <= Cardinality(N) + Cardinality(B)
    <2>1. Cardinality(N \cup B) \in Nat
      BY <1>4, FS_CardinalityType
    <2> QED BY <1>3, <1>4, <2>1
  <1>6. ASSUME NEW x
        PROVE  /\ Cardinality({y \in N \cup B : y <= x}) \in Nat
               /\ Cardinality({y \in N \cup B : y <= x}) <= Cardinality(N) + Cardinality(B)
    <2>1. PICK S : S = {y \in N \cup B : y <= x}
      OBVIOUS
    <2>2. S \subseteq N \cup B
      BY <2>1
    <2>3. IsFiniteSet(S) /\ Cardinality(S) <= Cardinality(N \cup B)
      BY <1>4, <2>2, FS_Subset
    <2>4. Cardinality(S) \in Nat
      BY <2>3, FS_CardinalityType
    <2>5. Cardinality(S) <= Cardinality(N) + Cardinality(B)
      BY <1>3, <1>5, <2>3, <2>4
    <2> QED BY <2>1, <2>4, <2>5
  <1> QED BY <1>3, <1>6

LEMMA CopyBlockGestured ==
    ASSUME Inv, CopyBlock
    PROVE  \E cued : Gestured(cued)
  <1>1. PICK u \in DOMAIN doc :
            /\ Edit(With(doc, minted + 1, Copied(doc[u])),
                    1 + Cardinality(DOMAIN doc[u].names) + Cardinality(DOMAIN doc[u].braces),
                    {minted + 1})
            /\ Forgotten
    BY DEF CopyBlock
  <1>s. doc[u] = Block(doc[u].text, doc[u].type, doc[u].names, doc[u].braces)
    BY BlockFacts
  <1>2. PICK N, B, ids, new :
            /\ N = DOMAIN doc[u].names /\ B = DOMAIN doc[u].braces
            /\ ids = 1 + Cardinality(N) + Cardinality(B) /\ new = Reminted(N \cup B)
    OBVIOUS
  <1>3. minted \in Nat /\ N \subseteq 1..minted /\ B \subseteq 1..minted
    BY <1>2, BlockFacts
  <1>4. /\ Cardinality(N) \in Nat /\ Cardinality(B) \in Nat
        /\ \A x : /\ Cardinality({y \in N \cup B : y <= x}) \in Nat
                  /\ Cardinality({y \in N \cup B : y <= x}) <= Cardinality(N) + Cardinality(B)
    BY <1>3, Numbered
  <1>5. ids \in Nat /\ 1 <= ids
    BY <1>2, <1>4
  <1>6. \A x \in N \cup B : new[x] \in 1..(minted + ids) /\ new[x] > minted
    <2>1. ASSUME NEW x \in N \cup B
          PROVE  new[x] \in 1..(minted + ids) /\ new[x] > minted
      <3>1. PICK c : c = Cardinality({y \in N \cup B : y <= x})
        OBVIOUS
      <3>2. c \in Nat /\ c <= Cardinality(N) + Cardinality(B)
        BY <1>4, <3>1
      <3>3. new[x] = minted + 1 + c
        BY <1>2, <3>1 DEF Reminted
      <3> QED BY <1>2, <1>3, <1>4, <3>2, <3>3
    <2> QED BY <2>1
  <1>7. PICK nm, br, b :
            /\ nm = [h \in {new[x] : x \in N} |-> doc[u].names[CHOOSE x \in N : new[x] = h]]
            /\ br = [a \in {new[x] : x \in B} |-> doc[u].braces[CHOOSE x \in B : new[x] = a]]
            /\ b = Block(doc[u].text, doc[u].type, nm, br)
    OBVIOUS
  <1>8. Copied(doc[u]) = b
    <2>1. Recopied(doc[u], nm, br) = b
      BY <1>7, <1>s, TwoFields
    <2>2. Copied(doc[u]) = [doc[u] EXCEPT !.names = nm, !.braces = br]
      BY <1>2, <1>7 DEF Copied
    <2> QED BY <2>1, <2>2 DEF Recopied
  <1>9. /\ DOMAIN nm \subseteq 1..(minted + ids) /\ \A h \in DOMAIN nm : h > minted
        /\ DOMAIN nm # {} => DOMAIN doc[u].names # {}
    BY <1>2, <1>6, <1>7
  <1>10. DOMAIN br \subseteq 1..(minted + ids) /\ IsMap(br)
    BY <1>6, <1>7 DEF IsMap
  <1>11. \A a \in DOMAIN br : IsPhrase(br[a], doc[u].text)
    <2>1. ASSUME NEW a \in DOMAIN br
          PROVE  IsPhrase(br[a], doc[u].text)
      <3>1. PICK y : y = CHOOSE x \in B : new[x] = a
        OBVIOUS
      <3>2. y \in B
        BY <1>7, <3>1
      <3>3. br[a] = doc[u].braces[y]
        BY <1>7, <3>1
      <3> QED BY <1>2, <3>2, <3>3, BlockFacts
    <2> QED BY <2>1
  <1>12. /\ InPage(b, gestures + 1, minted + ids) /\ b.type = doc[u].type /\ b.names = nm
    <2>1. Within(nm, minted + ids) /\ Within(br, minted + ids) /\ Phrases(br, doc[u].text)
      BY <1>9, <1>10, <1>11 DEF Within, Phrases
    <2>2. /\ doc[u].type \in Type \cup {NoType} /\ IsText(doc[u].text, gestures + 1)
          /\ IsMap(br) /\ b = Block(doc[u].text, doc[u].type, nm, br)
      BY <1>7, <1>10, BlockFacts
    <2> QED BY <2>1, <2>2, AsBlock
  <1>13. DOMAIN b.names # {} /\ Titled(doc) => b.type # NoType
    BY <1>9, <1>12 DEF Titled
  <1>14. Edit(With(doc, minted + 1, b), ids, {minted + 1})
    BY <1>1, <1>2, <1>8
  <1>15. \A h \in DOMAIN b.names : h > minted
    BY <1>9, <1>12
  <1> QED BY <1>1, <1>5, <1>12, <1>13, <1>14, <1>15, Added

(* So every gesture keeps the invariant.                                        *)
LEMMA Gestures ==
    ASSUME Inv, Gesture
    PROVE  Inv' /\ \E cued : Gestured(cued)
  <1>1. \E cued : Gestured(cued)
    BY TypeWordGestured, EraseWordGestured, CueGestured, PeelGestured, NameGestured,
       BraceGestured, RemoveBraceGestured, DeleteBlockGestured, UndoGestured, NewBlockGestured,
       CopyBlockGestured DEF Gesture
  <1> QED BY <1>1, GestureKeeps

--------------------------------------------------------------------------------
(* How a flush goes on.                                                         *)

(* What is to be sent belongs to the document, or to what was sent.             *)
LEMMA NeedsOf ==
    ASSUME NEW d, NEW g, NEW n, IsPage(d, g, n), NEW c, NEW s, Filed(s, n), NEW b
    PROVE  /\ \A x \in TypeNeeds(d, c) :
                /\ x[1] \in DOMAIN c /\ x[1] \in DOMAIN d /\ d[x[1]].type # c[x[1]].type
                /\ x[2] \in Type \cup {NoType}
           /\ \A x \in NameNeeds(d, c, s) :
                /\ x.unit \in DOMAIN c /\ x.handle \in 1..n
                /\ \/ x.unit \in DOMAIN d /\ x.handle \in DOMAIN d[x.unit].names
                   \/ x.handle \in DOMAIN s /\ s[x.handle].unit = x.unit
           /\ \A x \in Pending(d, c, b).upserts : x.unit \in 1..n /\ x.unit \in DOMAIN c
  <1>1. ASSUME NEW x \in TypeNeeds(d, c)
        PROVE  /\ x[1] \in DOMAIN c /\ x[1] \in DOMAIN d /\ d[x[1]].type # c[x[1]].type
               /\ x[2] \in Type \cup {NoType}
    <2>1. PICK u \in DOMAIN d \cap DOMAIN c : d[u].type # c[u].type /\ x = <<u, d[u].type>>
      BY DEF TypeNeeds
    <2>2. x[1] = u /\ x[2] = d[u].type
      BY <2>1
    <2> QED BY <2>1, <2>2 DEF IsPage, InPage, IsBlock
  <1>2. ASSUME NEW x \in HandlesOf(d)
        PROVE  /\ x.unit \in DOMAIN d /\ x.handle \in DOMAIN d[x.unit].names
               /\ x.handle \in 1..n
    BY DEF HandlesOf, IsPage, InPage
  <1>3. ASSUME NEW x \in NameNeeds(d, c, s)
        PROVE  /\ x.unit \in DOMAIN c /\ x.handle \in 1..n
               /\ \/ x.unit \in DOMAIN d /\ x.handle \in DOMAIN d[x.unit].names
                  \/ x.handle \in DOMAIN s /\ s[x.handle].unit = x.unit
    <2>1. CASE x \in HandlesOf(d) /\ x.unit \in DOMAIN c
      BY <1>2, <2>1
    <2>2. PICK e : e = ""
      OBVIOUS
    <2>3. CASE \E h \in DOMAIN s : /\ x = [handle |-> h, unit |-> s[h].unit, name |-> e]
                                   /\ s[h].unit \in DOMAIN c
      BY <2>3 DEF Filed
    <2>4. \/ x \in HandlesOf(d) /\ x.unit \in DOMAIN c
          \/ \E h \in DOMAIN s : /\ x = [handle |-> h, unit |-> s[h].unit, name |-> e]
                               /\ s[h].unit \in DOMAIN c
      BY <2>2, Zenon DEF NameNeeds
    <2> QED BY <2>1, <2>3, <2>4
  <1>4. \A x \in Drafts(d) : x.unit \in 1..n
    BY DEF Drafts, IsPage
  <1>5. \A x \in Pending(d, c, b).upserts : x.unit \in 1..n /\ x.unit \in DOMAIN c
    BY <1>4 DEF Pending
  <1> QED BY <1>1, <1>3, <1>5

(* A flush that has sent the text: it is over, or has facets to send.           *)
Ended ==
    /\ Ready' /\ Clean'
    /\ sync'.pc \in {"idle", "type", "name", "braces"}
    /\ sync'.pc = "name" =>
        \A n \in sync'.queue :
            \/ n.unit \in DOMAIN doc' /\ n.handle \in DOMAIN doc'[n.unit].names
            \/ n.handle \in DOMAIN sentNames' /\ sentNames'[n.handle].unit = n.unit
    /\ sync'.pc = "idle" /\ status' = "clean" => NameNeeds(doc', prior', sentNames') = {}

(* Who is idle has nothing to send.                                             *)
LEMMA IdleReady ==
    ASSUME sync' = Idle
    PROVE  Ready' /\ sync'.pc = "idle"
  <1>1. /\ sync'.pc = "idle"
        /\ sync' = [pc |-> sync'.pc, body |-> sync'.body, queue |-> sync'.queue,
                    tries |-> sync'.tries, failed |-> sync'.failed]
    BY DEF Idle
  <1> QED BY <1>1 DEF Ready, Saves, Clears

(* Each of the four ways a flush goes on after the text ends in a state it      *)
(* may be in.                                                                   *)
LEMMA SettleEnds ==
    ASSUME NEW failed, Settle(prior', sentNames', sentBraces', failed)
    PROVE  Ended
  <1>1. /\ sync' = Idle
        /\ status' = "clean" => ~Left(prior', sentNames', sentBraces')
    BY DEF Settle
  <1>2. Clean'
    BY <1>1 DEF Clean, Left
  <1>3. status' = "clean" => NameNeeds(doc', prior', sentNames') = {}
    BY <1>1 DEF Left
  <1> QED BY <1>1, <1>2, <1>3, IdleReady DEF Ended

LEMMA BracesEnd ==
    ASSUME IsPage(doc', gestures', minted'), Filed(sentNames', minted'),
           sentBraces' = sentBraces, NEW failed, ToBraces(prior', sentNames', failed)
    PROVE  Ended
  <1>1. PICK p : p = Pending(doc', prior', sentBraces)
    OBVIOUS
  <1>2. CASE NothingPending(p)
    BY <1>1, <1>2, SettleEnds DEF ToBraces
  <1>3. CASE ~NothingPending(p)
    <2>1. sync' = [Idle EXCEPT !.pc = "braces", !.body = p, !.failed = failed]
      BY <1>1, <1>3 DEF ToBraces
    <2>2. /\ sync'.pc = "braces" /\ sync'.body = p
          /\ sync' = [pc |-> sync'.pc, body |-> sync'.body, queue |-> sync'.queue,
                      tries |-> sync'.tries, failed |-> sync'.failed]
      BY <2>1 DEF Idle
    <2>3. p = [upserts |-> p.upserts, deletes |-> p.deletes]
      BY <1>1 DEF Pending
    <2>4. \A x \in p.upserts : x.unit \in 1..minted'
      BY <1>1, NeedsOf
    <2>5. Ready'
      <3>1. BracesReady'
        BY <2>2, <2>3, <2>4 DEF BracesReady
      <3> QED BY <2>2, <3>1 DEF Ready, Saves, Clears
    <2>6. Clean'
      BY <2>2 DEF Clean
    <2> QED BY <2>2, <2>5, <2>6 DEF Ended
  <1> QED BY <1>2, <1>3

LEMMA NamesEnd ==
    ASSUME IsPage(doc', gestures', minted'), Filed(sentNames', minted'),
           sentBraces' = sentBraces, sentNames' = sentNames,
           NEW failed, ToNames(prior', failed)
    PROVE  Ended
  <1>1. PICK needs : needs = NameNeeds(doc', prior', sentNames')
    OBVIOUS
  <1>2. CASE needs = {}
    <2>1. ToBraces(prior', sentNames', failed)
      BY <1>1, <1>2 DEF ToNames
    <2> QED BY <2>1, BracesEnd
  <1>3. CASE needs # {}
    <2>1. sync' = [Idle EXCEPT !.pc = "name", !.queue = needs, !.failed = failed]
      BY <1>1, <1>3 DEF ToNames
    <2>2. /\ sync'.pc = "name" /\ sync'.queue = needs
          /\ sync' = [pc |-> sync'.pc, body |-> sync'.body, queue |-> sync'.queue,
                      tries |-> sync'.tries, failed |-> sync'.failed]
      BY <2>1 DEF Idle
    <2>3. \A x \in needs :
            /\ x.unit \in DOMAIN prior' /\ x.handle \in 1..minted'
            /\ \/ x.unit \in DOMAIN doc' /\ x.handle \in DOMAIN doc'[x.unit].names
               \/ x.handle \in DOMAIN sentNames' /\ sentNames'[x.handle].unit = x.unit
      BY <1>1, NeedsOf
    <2>4. NamesReady'
      BY <2>2, <2>3 DEF NamesReady
    <2>5. Ready'
      BY <2>2, <2>4 DEF Ready, Saves, Clears
    <2>6. Clean'
      BY <2>2 DEF Clean
    <2> QED BY <2>2, <2>3, <2>5, <2>6 DEF Ended
  <1> QED BY <1>2, <1>3

LEMMA TypesEnd ==
    ASSUME IsPage(doc', gestures', minted'), Filed(sentNames', minted'), Mine',
           sentBraces' = sentBraces, sentNames' = sentNames,
           NEW tries, ToTypes(prior', tries)
    PROVE  Ended
  <1>1. PICK needs : needs = TypeNeeds(doc', prior')
    OBVIOUS
  <1>2. CASE needs = {}
    <2>1. ToNames(prior', FALSE)
      BY <1>1, <1>2 DEF ToTypes
    <2> QED BY <2>1, NamesEnd
  <1>3. CASE needs # {}
    <2>1. sync' = [Idle EXCEPT !.pc = "type", !.queue = needs, !.tries = tries]
      BY <1>1, <1>3 DEF ToTypes
    <2>2. /\ sync'.pc = "type" /\ sync'.queue = needs
          /\ sync' = [pc |-> sync'.pc, body |-> sync'.body, queue |-> sync'.queue,
                      tries |-> sync'.tries, failed |-> sync'.failed]
      BY <2>1 DEF Idle
    <2>3. \A x \in needs :
            /\ x[1] \in DOMAIN prior' /\ x[1] \in DOMAIN doc' /\ doc'[x[1]].type # prior'[x[1]].type
            /\ x[2] \in Type \cup {NoType}
      BY <1>1, NeedsOf
    <2>4. \A x \in needs : x[1] \in retyped'
      BY <2>3 DEF Mine
    <2>5. TypesReady'
      BY <2>2, <2>3, <2>4 DEF TypesReady
    <2>6. Ready'
      BY <2>2, <2>5 DEF Ready, Saves, Clears
    <2>7. Clean'
      BY <2>2 DEF Clean
    <2> QED BY <2>2, <2>6, <2>7 DEF Ended
  <1> QED BY <1>2, <1>3

(* A save, with the types to clear first, of a body that fits the new           *)
(* baseline.                                                                    *)
LEMMA SaveStarts ==
    ASSUME NEW body, NEW clear \in Clears, NEW put \in Saves, NEW tries,
           ToSave(body, prior', clear, put, tries),
           body = [upserts |-> body.upserts, deletes |-> body.deletes],
           IsContent(body.upserts, gestures', minted'),
           \A u \in DOMAIN body.upserts :
                /\ u \notin body.deletes
                /\ u \in DOMAIN doc' \/ u \in retyped'
                /\ body.upserts[u].type = IF u \in DOMAIN prior' THEN prior'[u].type ELSE NoType,
           \A u \in body.deletes :
                /\ u \in DOMAIN prior' /\ u \in retyped'
                /\ u \notin DOMAIN doc' \/ u \in restored'
    PROVE  Ready' /\ Clean' /\ sync'.pc \in Saves \cup Clears
  <1>1. PICK typed : typed = Typed(body, prior')
    OBVIOUS
  <1>2. PICK pc : pc = IF typed = {} THEN put ELSE clear
    OBVIOUS
  <1>3. sync' = [Idle EXCEPT !.pc = pc, !.body = body, !.queue = typed, !.tries = tries]
    BY <1>1, <1>2 DEF ToSave
  <1>4. /\ sync'.pc = pc /\ sync'.body = body /\ sync'.queue = typed
        /\ sync' = [pc |-> sync'.pc, body |-> sync'.body, queue |-> sync'.queue,
                    tries |-> sync'.tries, failed |-> sync'.failed]
    BY <1>3 DEF Idle
  <1>5. pc \in Saves \cup Clears /\ (typed # {} => pc \in Clears)
    BY <1>2
  <1>6. pc \notin {"idle", "type", "name", "braces"}
    BY <1>5 DEF Saves, Clears
  <1>7. \A u \in body.deletes : prior'[u].type # NoType => pc \in Clears /\ u \in typed
    BY <1>1, <1>5 DEF Typed
  <1>8. typed \subseteq body.deletes
    BY <1>1 DEF Typed
  <1>9. SaveReady'
    BY <1>4, <1>7, <1>8 DEF SaveReady
  <1>10. Ready'
    BY <1>4, <1>6, <1>9 DEF Ready
  <1>11. Clean'
    BY <1>4, <1>6 DEF Clean
  <1> QED BY <1>4, <1>5, <1>10, <1>11

--------------------------------------------------------------------------------
(* What the requests do on the server.                                          *)

(* A type set, and a delta saved, change a content as they say.                 *)
LEMMA RetypedContent ==
    ASSUME NEW c, NEW g, NEW n, IsContent(c, g, n), NEW u \in DOMAIN c,
           NEW t \in Type \cup {NoType}
    PROVE  /\ IsContent(Retyped(c, u, t), g, n)
           /\ DOMAIN Retyped(c, u, t) = DOMAIN c
           /\ \A v \in DOMAIN c : /\ Retyped(c, u, t)[v].type = IF v = u THEN t ELSE c[v].type
                                  /\ Retyped(c, u, t)[v].text = c[v].text
  <1>1. PICK r : r = Retyped(c, u, t)
    OBVIOUS
  <1>2. c[u] = [text |-> c[u].text, type |-> c[u].type]
    BY DEF IsContent, IsUnit
  <1>3. /\ DOMAIN r = DOMAIN c /\ r[u] = [text |-> c[u].text, type |-> t]
        /\ \A v \in DOMAIN c : v # u => r[v] = c[v]
    <2>1. [c[u] EXCEPT !.type = t] = [text |-> c[u].text, type |-> t]
      BY <1>2
    <2>2. r = [c EXCEPT ![u] = [c[u] EXCEPT !.type = t]]
      BY <1>1 DEF Retyped
    <2> QED BY <2>1, <2>2
  <1>4. r[u].text = c[u].text /\ r[u].type = t /\ r[u] = [text |-> r[u].text, type |-> r[u].type]
    BY <1>3
  <1>5. IsContent(r, g, n)
    <2>1. \A v \in DOMAIN c : v \in 1..n /\ IsUnit(c[v], g)
      BY DEF IsContent
    <2>2. IsUnit(r[u], g)
      BY <1>4, <2>1 DEF IsUnit
    <2> QED BY <1>3, <2>1, <2>2 DEF IsContent
  <1> QED BY <1>1, <1>3, <1>4, <1>5

LEMMA SavedContent ==
    ASSUME NEW c, NEW g, NEW n, IsContent(c, g, n), NEW b, IsContent(b.upserts, g, n)
    PROVE  /\ IsContent(Saved(c, b), g, n)
           /\ DOMAIN Saved(c, b) = (DOMAIN c \ b.deletes) \cup DOMAIN b.upserts
           /\ \A u \in DOMAIN Saved(c, b) :
                    Saved(c, b)[u] = IF u \in DOMAIN b.upserts THEN b.upserts[u] ELSE c[u]
  <1>1. /\ DOMAIN Saved(c, b) = (DOMAIN c \ b.deletes) \cup DOMAIN b.upserts
        /\ \A u \in DOMAIN Saved(c, b) :
                Saved(c, b)[u] = IF u \in DOMAIN b.upserts THEN b.upserts[u] ELSE c[u]
    BY DEF Saved
  <1> QED BY <1>1 DEF IsContent

(* Handles after a deletion and after a name.                                   *)
LEMMA HandlesKept ==
    ASSUME NEW f, NEW n, Filed(f, n)
    PROVE  /\ \A s : /\ Filed(Unbound(f, s), n)
                     /\ \A h \in DOMAIN Unbound(f, s) : h \in DOMAIN f /\ Unbound(f, s)[h] = f[h]
                     /\ \A h \in DOMAIN f : f[h].unit \notin s => h \in DOMAIN Unbound(f, s)
           /\ \A x : x.handle \in 1..n /\ x.unit \in 1..n =>
                /\ Filed(Named(f, x), n)
                /\ \A h \in DOMAIN Named(f, x) :
                        \/ h \in DOMAIN f /\ Named(f, x)[h].unit = f[h].unit
                        \/ h = x.handle /\ Named(f, x)[h].unit = x.unit
  <1>1. ASSUME NEW s
        PROVE  /\ Filed(Unbound(f, s), n)
               /\ \A h \in DOMAIN Unbound(f, s) : h \in DOMAIN f /\ Unbound(f, s)[h] = f[h]
               /\ \A h \in DOMAIN f : f[h].unit \notin s => h \in DOMAIN Unbound(f, s)
    <2>1. /\ DOMAIN Unbound(f, s) = {h \in DOMAIN f : f[h].unit \notin s}
          /\ \A h \in DOMAIN Unbound(f, s) : Unbound(f, s)[h] = f[h]
      BY DEF Unbound, Restrict
    <2> QED BY <2>1 DEF Filed
  <1>2. ASSUME NEW x, x.handle \in 1..n, x.unit \in 1..n
        PROVE  /\ Filed(Named(f, x), n)
               /\ \A h \in DOMAIN Named(f, x) :
                        \/ h \in DOMAIN f /\ Named(f, x)[h].unit = f[h].unit
                        \/ h = x.handle /\ Named(f, x)[h].unit = x.unit
    <2>1. PICK m : m = Named(f, x)
      OBVIOUS
    <2>2. CASE x.name = ""
      <3>1. \A h \in DOMAIN m : h \in DOMAIN f /\ m[h] = f[h]
        BY <2>1, <2>2 DEF Named, Restrict
      <3> QED BY <2>1, <3>1 DEF Filed
    <2>3. CASE x.name # ""
      <3>1. m = [h \in DOMAIN f \cup {x.handle} |->
                    IF h # x.handle THEN f[h]
                    ELSE [unit |-> IF h \in DOMAIN f THEN f[h].unit ELSE x.unit, name |-> x.name]]
        BY <2>1, <2>3 DEF Named
      <3>2. \A h \in DOMAIN m : \/ h \in DOMAIN f /\ m[h] = f[h]
                                \/ /\ h = x.handle /\ m[h] = [unit |-> m[h].unit, name |-> m[h].name]
                                   /\ m[h].unit = IF h \in DOMAIN f THEN f[h].unit ELSE x.unit
        BY <3>1
      <3>3. Filed(m, n)
        BY <1>2, <3>2 DEF Filed
      <3> QED BY <2>1, <3>2, <3>3
    <2> QED BY <2>2, <2>3
  <1> QED BY <1>1, <1>2

(* What the server has after a step.                                            *)
ServerKept ==
    /\ IsContent(units', gestures, minted) /\ Filed(handles', minted)
    /\ revision' \in Nat /\ revision <= revision'
    /\ revision' = revision => units' = units

(* What nobody carries out changes nothing, and what is carried out leaves      *)
(* contents.                                                                    *)
LEMMA Unsent ==
    ASSUME Inv, UNCHANGED server
    PROVE  ServerKept
  <1>1. UNCHANGED <<units, revision, handles>>
    BY DEF server
  <1> QED BY <1>1 DEF Inv, Stored, ServerKept

LEMMA TypeSet ==
    ASSUME Inv, NEW u \in DOMAIN units, NEW t \in Type \cup {NoType}, SetType(u, t)
    PROVE  ServerKept
  <1>1. units' = Retyped(units, u, t) /\ revision' = revision + 1 /\ handles' = handles
    BY DEF SetType, Write
  <1>2. IsContent(units', gestures, minted)
    BY <1>1, RetypedContent DEF Inv, Stored
  <1> QED BY <1>1, <1>2 DEF Inv, Stored, ServerKept

(* The phases of a save are none of the others.                                 *)
LEMMA Phases ==
    /\ \A pc \in Saves \cup Clears :
            pc # "idle" /\ pc # "type" /\ pc # "name" /\ pc # "braces" /\ pc # "conflict"
    /\ Saves \cap Clears = {}
  BY Zenon DEF Saves, Clears

LEMMA CarriedKeeps ==
    ASSUME Inv, CarriedOut
    PROVE  ServerKept
  <1>1. CASE sync.pc \in Clears
    <2>1. PICK u \in sync.queue : u \in DOMAIN units /\ SetType(u, NoType)
      BY <1>1, Phases DEF CarriedOut
    <2> QED BY <2>1, TypeSet
  <1>2. CASE sync.pc \in Saves
    <2>1. Save(sync.body)
      BY <1>2, Phases DEF CarriedOut
    <2>2. /\ units' = Saved(units, sync.body) /\ revision' = revision + 1
          /\ handles' = Unbound(handles, sync.body.deletes)
      BY <2>1 DEF Save, Write
    <2>3. IsContent(sync.body.upserts, gestures, minted)
      BY <1>2 DEF Inv, Ready, SaveReady
    <2>4. IsContent(units', gestures, minted)
      BY <2>2, <2>3, SavedContent DEF Inv, Stored
    <2>5. Filed(handles', minted)
      BY <2>2, HandlesKept DEF Inv, Stored
    <2> QED BY <2>2, <2>4, <2>5 DEF Inv, Stored, ServerKept
  <1>3. CASE sync.pc = "type"
    <2>1. PICK n \in sync.queue : n[1] \in DOMAIN units /\ SetType(n[1], n[2])
      BY <1>3, Phases DEF CarriedOut
    <2>2. n[2] \in Type \cup {NoType}
      BY <1>3 DEF Inv, Ready, TypesReady
    <2> QED BY <2>1, <2>2, TypeSet
  <1>4. CASE sync.pc = "name"
    <2>1. PICK n \in sync.queue : n.unit \in DOMAIN units /\ SetHandle(n)
      BY <1>4, Phases DEF CarriedOut
    <2>2. n.handle \in 1..minted /\ n.unit \in 1..minted
      BY <1>4, <2>1 DEF Inv, Ready, NamesReady, Stored, IsContent
    <2>3. units' = units /\ revision' = revision + 1 /\ handles' = Named(handles, n)
      BY <2>1 DEF SetHandle, Write
    <2>4. Filed(handles', minted)
      BY <2>2, <2>3, HandlesKept DEF Inv, Stored
    <2> QED BY <2>3, <2>4 DEF Inv, Stored, ServerKept
  <1>5. CASE sync.pc = "braces"
    <2>1. UNCHANGED <<units, revision, handles>>
      BY <1>5, Phases DEF CarriedOut, Reconcile
    <2> QED BY <2>1 DEF Inv, Stored, ServerKept
  <1>6. CASE /\ sync.pc \notin Clears \cup Saves
             /\ sync.pc # "type" /\ sync.pc # "name" /\ sync.pc # "braces"
    <2>1. UNCHANGED server
      BY <1>6 DEF CarriedOut
    <2> QED BY <2>1, Unsent
  <1> QED BY <1>1, <1>2, <1>3, <1>4, <1>5, <1>6

--------------------------------------------------------------------------------
(* The steps of a flush: the user does nothing.                                 *)
HandsOff ==
    /\ doc' = doc /\ deleted' = deleted /\ minted' = minted /\ gestures' = gestures
    /\ retyped' = retyped /\ restored' = restored

(* What is about to be named is homed.                                          *)
Naming == sync'.pc = "name" => \A n \in sync'.queue : Homed(n.handle, n.unit)

(* The invariant, part by part, for a step that is not the user's.              *)
LEMMA HandsOffKeeps ==
    ASSUME Inv, HandsOff, ServerKept, faults' \in Nat,
           \/ prior' = prior /\ priorRev' = priorRev
           \/ prior' = units' /\ priorRev' = revision',
           Filed(sentNames', minted), \A a \in DOMAIN sentBraces' : sentBraces'[a][1] \in 1..minted,
           Ready', Clean', Mine', faults' = 0 => Unlost'
    PROVE  Inv'
  <1>1. /\ minted \in Nat /\ gestures \in 0..MaxGesture
        /\ revision \in Nat /\ priorRev \in Nat /\ revision' \in Nat /\ revision <= revision'
        /\ priorRev <= revision
    BY DEF Inv, Stored, Based, ServerKept
  <1>2. Stored'
    <2>1. priorRev' \in Nat /\ IsContent(prior', gestures, minted)
      BY <1>1 DEF Inv, Stored, ServerKept
    <2>2. IsPage(doc, gestures, minted) /\ IsPage(deleted, gestures, minted)
      BY DEF Inv, Stored
    <2>3. IsContent(units', gestures, minted) /\ Filed(handles', minted)
      BY DEF ServerKept
    <2> QED BY <1>1, <2>1, <2>2, <2>3 DEF HandsOff, Stored
  <1>3. Based'
    <2>1. CASE prior' = prior /\ priorRev' = priorRev
      <3>1. priorRev' <= revision'
        BY <1>1, <2>1
      <3>2. priorRev' = revision' => revision' = revision /\ priorRev = revision
        BY <1>1, <2>1
      <3> QED BY <2>1, <3>1, <3>2 DEF Inv, Based, ServerKept
    <2>2. CASE prior' = units' /\ priorRev' = revision'
      BY <1>1, <2>2 DEF Based
    <2> QED BY <2>1, <2>2
  <1> QED BY <1>2, <1>3 DEF Inv

(* What was sent is still there if nothing of it went but what belongs to       *)
(* deleted units.                                                               *)
LEMMA UnlostKeeps ==
    ASSUME Inv, faults = 0, HandsOff, priorRev' = revision', Naming,
           \A a \in DOMAIN sentBraces' :
                \/ Gone(sentBraces'[a][1])
                \/ a \in DOMAIN targets' /\ targets'[a] = sentBraces'[a],
           DOMAIN targets' \subseteq DOMAIN sentBraces',
           \A h \in DOMAIN sentNames' :
                \/ Gone(sentNames'[h].unit)
                \/ h \in DOMAIN handles' /\ handles'[h] = sentNames'[h],
           \A h \in DOMAIN sentNames' : Homed(h, sentNames'[h].unit),
           \A h \in DOMAIN handles' : Homed(h, handles'[h].unit)
    PROVE  Unlost'
  <1>1. Unlost
    BY DEF Inv
  <1>2. \A u : Gone(u)' <=> Gone(u)
    BY DEF Gone, HandsOff
  <1>3. \A h, u : Homed(h, u)' => Homed(h, u)
    <2>1. \A h, u : u \in DOMAIN doc' /\ h \in DOMAIN doc'[u].names => Homed(h, u)
      BY DEF HandsOff, Homed
    <2>2. \A h, u : u \in DOMAIN deleted' /\ h \in DOMAIN deleted'[u].names => Homed(h, u)
      BY DEF HandsOff, Homed
    <2>3. \A h, u : sync'.pc = "name" /\ (\E n \in sync'.queue : n.handle = h /\ n.unit = u) => Homed(h, u)
      BY DEF Naming
    <2>4. \A h, u : h \in DOMAIN handles' /\ handles'[h].unit = u => Homed(h, u)
      OBVIOUS
    <2>5. \A h, u : h \in DOMAIN sentNames' /\ sentNames'[h].unit = u => Homed(h, u)
      OBVIOUS
    <2>6. \A h, u : Homed(h, u)' =>
            \/ u \in DOMAIN doc' /\ h \in DOMAIN doc'[u].names
            \/ u \in DOMAIN deleted' /\ h \in DOMAIN deleted'[u].names
            \/ h \in DOMAIN handles' /\ handles'[h].unit = u
            \/ h \in DOMAIN sentNames' /\ sentNames'[h].unit = u
            \/ sync'.pc = "name" /\ \E n \in sync'.queue : n.handle = h /\ n.unit = u
      BY DEF Homed
    <2> QED BY <2>1, <2>2, <2>3, <2>4, <2>5, <2>6
  <1>4. \A h, u, v \in 1..minted' : Homed(h, u)' /\ Homed(h, v)' => u = v
    BY <1>1, <1>3 DEF Unlost, HandsOff
  <1>5. Titled(doc)' /\ Titled(deleted)'
    BY <1>1 DEF Unlost, HandsOff, Titled
  <1> QED BY <1>2, <1>4, <1>5 DEF Unlost

LEMMA UnlostSame ==
    ASSUME Inv, faults = 0, HandsOff, Naming,
           UNCHANGED <<revision, priorRev, handles, targets, sentNames, sentBraces>>
    PROVE  Unlost'
  <1>1. Unlost
    BY DEF Inv
  <1>2. \A h \in DOMAIN sentNames' : Homed(h, sentNames'[h].unit)
    BY DEF Homed
  <1>3. \A h \in DOMAIN handles' : Homed(h, handles'[h].unit)
    BY DEF Homed
  <1>4. priorRev' = revision'
    BY <1>1 DEF Unlost
  <1>5. /\ \A a \in DOMAIN sentBraces' :
                \/ Gone(sentBraces'[a][1])
                \/ a \in DOMAIN targets' /\ targets'[a] = sentBraces'[a]
        /\ DOMAIN targets' \subseteq DOMAIN sentBraces'
    BY <1>1 DEF Unlost
  <1>6. \A h \in DOMAIN sentNames' :
                \/ Gone(sentNames'[h].unit)
                \/ h \in DOMAIN handles' /\ handles'[h] = sentNames'[h]
    BY <1>1 DEF Unlost
  <1> QED BY <1>2, <1>3, <1>4, <1>5, <1>6, UnlostKeeps

(* A flush that goes on to the names names what is homed.                       *)
LEMMA EndedNaming ==
    ASSUME HandsOff, Ended, \A h \in DOMAIN sentNames' : Homed(h, sentNames'[h].unit)
    PROVE  Naming
  <1>1. \A u \in DOMAIN doc' : \A h \in DOMAIN doc'[u].names : Homed(h, u)
    BY DEF HandsOff, Homed
  <1> QED BY <1>1 DEF Ended, Naming

(* A step of the editor alone.                                                  *)
Local == HandsOff /\ UNCHANGED <<server, baseline, sent, faults>>

(* A step of the editor alone keeps the invariant if what it is about to send   *)
(* is ready.                                                                    *)
LEMMA LocalFacts ==
    ASSUME Inv, Local
    PROVE  /\ IsPage(doc', gestures', minted') /\ Filed(sentNames', minted') /\ Mine'
           /\ prior' = prior /\ sentNames' = sentNames /\ sentBraces' = sentBraces
           /\ \A h \in DOMAIN sentNames' : Homed(h, sentNames'[h].unit)
  <1>1. /\ prior' = prior /\ sentNames' = sentNames /\ sentBraces' = sentBraces
        /\ doc' = doc /\ gestures' = gestures /\ minted' = minted /\ retyped' = retyped
    BY DEF Local, HandsOff, baseline, sent
  <1>2. Mine'
    BY <1>1 DEF Inv, Mine
  <1>3. \A h \in DOMAIN sentNames' : Homed(h, sentNames'[h].unit)
    BY <1>1 DEF Homed
  <1> QED BY <1>1, <1>2, <1>3 DEF Inv, Stored

LEMMA LocalKeeps ==
    ASSUME Inv, Local, Ready', Clean', Naming
    PROVE  Inv'
  <1>1. /\ HandsOff /\ faults' = faults /\ UNCHANGED server
        /\ UNCHANGED <<revision, handles, targets, prior, priorRev, sentNames, sentBraces>>
    BY DEF Local, server, baseline, sent
  <1>2. ServerKept
    BY <1>1, Unsent
  <1>3. Mine'
    BY LocalFacts
  <1>4. faults' = 0 => Unlost'
    BY <1>1, UnlostSame
  <1>5. /\ Filed(sentNames', minted) /\ faults' \in Nat
        /\ \A a \in DOMAIN sentBraces' : sentBraces'[a][1] \in 1..minted
    BY <1>1 DEF Inv, Stored
  <1> QED BY <1>1, <1>2, <1>3, <1>4, <1>5, HandsOffKeeps

LEMMA LocalEnded ==
    ASSUME Inv, Local, Ended
    PROVE  Inv'
  <1>1. Naming
    BY LocalFacts, EndedNaming DEF Local
  <1> QED BY <1>1, LocalKeeps DEF Ended

(* The editor waits for a content, for the user, or for nothing.                *)
LEMMA Waits ==
    ASSUME Inv, Local, NEW s, sync' = s,
           s = [pc |-> s.pc, body |-> s.body, queue |-> s.queue, tries |-> s.tries,
                failed |-> s.failed],
           s.pc \notin Saves \cup Clears \cup {"type", "name", "braces"},
           s.pc = "idle" => status' # "clean"
    PROVE  Inv'
  <1>1. Ready'
    BY DEF Ready
  <1>2. Clean' /\ Naming
    BY DEF Clean, Naming
  <1> QED BY <1>1, <1>2, LocalKeeps

(* What was ready to be sent stays so.                                          *)
LEMMA SyncSame ==
    ASSUME Inv, HandsOff, sync' = sync, prior' = prior
    PROVE  Ready' /\ Naming
  <1>1. SaveReady => SaveReady'
    BY DEF SaveReady, HandsOff
  <1>2. TypesReady => TypesReady'
    BY DEF TypesReady, HandsOff
  <1>3. NamesReady => NamesReady'
    BY DEF NamesReady, HandsOff
  <1>4. BracesReady => BracesReady'
    BY DEF BracesReady, HandsOff
  <1>5. Ready'
    BY <1>1, <1>2, <1>3, <1>4 DEF Inv, Ready
  <1>6. Naming
    BY DEF Naming, Homed
  <1> QED BY <1>5, <1>6

(* A delta is acceptable to the baseline it was made against, and the user's    *)
(* own.                                                                         *)
LEMMA DeltaReady ==
    ASSUME Inv
    PROVE  /\ Delta(doc, prior) = [upserts |-> Delta(doc, prior).upserts,
                                   deletes |-> Delta(doc, prior).deletes]
           /\ IsContent(Delta(doc, prior).upserts, gestures, minted)
           /\ \A u \in DOMAIN Delta(doc, prior).upserts :
                /\ u \in DOMAIN doc
                /\ Delta(doc, prior).upserts[u].text = doc[u].text
                /\ Delta(doc, prior).upserts[u].type = IF u \in DOMAIN prior THEN prior[u].type ELSE NoType
           /\ Delta(doc, prior).deletes = DOMAIN prior \ DOMAIN doc
           /\ Delta(doc, prior).deletes \subseteq retyped
  <1>1. PICK d, up : d = Delta(doc, prior) /\ up = d.upserts
    OBVIOUS
  <1>2. /\ d = [upserts |-> d.upserts, deletes |-> d.deletes]
        /\ d.deletes = DOMAIN prior \ DOMAIN doc
    BY <1>1 DEF Delta
  <1>3. up = [u \in {v \in DOMAIN doc : IsSent(v, prior, doc[v].text)
                        /\ (v \in DOMAIN prior => doc[v].text # prior[v].text)} |->
                [text |-> doc[u].text, type |-> IF u \in DOMAIN prior THEN prior[u].type ELSE NoType]]
    BY <1>1 DEF Delta
  <1>4. \A u \in DOMAIN up :
            /\ u \in DOMAIN doc
            /\ up[u] = [text |-> doc[u].text,
                        type |-> IF u \in DOMAIN prior THEN prior[u].type ELSE NoType]
    BY <1>3
  <1>5. ASSUME NEW u \in DOMAIN up
        PROVE  u \in 1..minted /\ IsUnit(up[u], gestures)
    <2>1. u \in 1..minted /\ IsText(doc[u].text, gestures)
      BY <1>4 DEF Inv, Stored, IsPage, InPage
    <2>2. (IF u \in DOMAIN prior THEN prior[u].type ELSE NoType) \in Type \cup {NoType}
      BY DEF Inv, Stored, IsContent, IsUnit
    <2>3. up[u].text = doc[u].text /\ up[u].type = IF u \in DOMAIN prior THEN prior[u].type ELSE NoType
      BY <1>4
    <2>4. up[u] = [text |-> up[u].text, type |-> up[u].type]
      BY <1>4
    <2> QED BY <2>1, <2>2, <2>3, <2>4 DEF IsUnit
  <1>6. IsContent(up, gestures, minted)
    BY <1>5 DEF IsContent
  <1>7. DOMAIN prior \ DOMAIN doc \subseteq retyped
    BY DEF Inv, Mine
  <1> QED BY <1>1, <1>2, <1>4, <1>6, <1>7

(* The steps of the editor alone, one by one.                                   *)
LEMMA FlushNothingKeeps ==
    ASSUME Inv, FlushNothing
    PROVE  Inv'
  <1>1. Local /\ sync' = sync
    BY DEF FlushNothing, Local, HandsOff, user
  <1>2. HandsOff /\ prior' = prior /\ sentBraces' = sentBraces
    BY <1>1, LocalFacts DEF Local
  <1>3. Ready' /\ Naming
    BY <1>1, <1>2, SyncSame
  <1>4. Clean'
    <2>1. /\ NoDelta(Delta(doc, prior)) /\ NothingPending(Pending(doc, prior, sentBraces))
          /\ status' = "clean" => TypeIntents(doc, prior) = {}
      BY DEF FlushNothing
    <2> QED BY <1>2, <2>1 DEF Clean, HandsOff
  <1> QED BY <1>1, <1>3, <1>4, LocalKeeps

LEMMA FlushSaveKeeps ==
    ASSUME Inv, FlushSave
    PROVE  Inv'
  <1>1. Local /\ ToSave(Delta(doc, prior), prior, "clear", "put", 0)
    BY DEF FlushSave, Local, HandsOff, user
  <1>2. HandsOff /\ prior' = prior
    BY <1>1, LocalFacts DEF Local
  <1>3. PICK body : body = Delta(doc, prior)
    OBVIOUS
  <1>4. /\ body = [upserts |-> body.upserts, deletes |-> body.deletes]
        /\ IsContent(body.upserts, gestures', minted')
        /\ \A u \in DOMAIN body.upserts :
                /\ u \notin body.deletes
                /\ u \in DOMAIN doc' \/ u \in retyped'
                /\ body.upserts[u].type = IF u \in DOMAIN prior' THEN prior'[u].type ELSE NoType
        /\ \A u \in body.deletes :
                /\ u \in DOMAIN prior' /\ u \in retyped'
                /\ u \notin DOMAIN doc' \/ u \in restored'
    BY <1>2, <1>3, DeltaReady DEF HandsOff
  <1>5. "clear" \in Clears /\ "put" \in Saves
    BY DEF Clears, Saves
  <1>6. ToSave(body, prior', "clear", "put", 0)
    BY <1>1, <1>2, <1>3
  <1>7. Ready' /\ Clean' /\ sync'.pc \in Saves \cup Clears
    BY <1>4, <1>5, <1>6, SaveStarts
  <1>8. Naming
    BY <1>7, Phases DEF Naming
  <1> QED BY <1>1, <1>7, <1>8, LocalKeeps

LEMMA FlushFacetsKeeps ==
    ASSUME Inv, FlushFacets
    PROVE  Inv'
  <1>1. Local /\ ToTypes(prior, 0)
    BY DEF FlushFacets, Local, HandsOff, user
  <1>2. ToTypes(prior', 0)
    BY <1>1, LocalFacts
  <1>3. Ended
    BY <1>1, <1>2, LocalFacts, TypesEnd
  <1> QED BY <1>1, <1>3, LocalEnded

LEMMA RetryRefusedKeeps ==
    ASSUME Inv, RetryRefused
    PROVE  Inv'
  <1>1. Local /\ ToNames(prior', TRUE)
    BY DEF RetryRefused, Deferred, Local, HandsOff, user
  <1>2. Ended
    BY <1>1, LocalFacts, NamesEnd
  <1> QED BY <1>1, <1>2, LocalEnded

LEMMA NameRefusedKeeps ==
    ASSUME Inv, NameRefused
    PROVE  Inv'
  <1>1. Local /\ ToBraces(prior, sentNames, TRUE)
    BY DEF NameRefused, Local, HandsOff, user
  <1>2. ToBraces(prior', sentNames', TRUE)
    BY <1>1, LocalFacts
  <1>3. Ended
    BY <1>1, <1>2, LocalFacts, BracesEnd
  <1> QED BY <1>1, <1>3, LocalEnded

LEMMA BracesRefusedKeeps ==
    ASSUME Inv, BracesRefused
    PROVE  Inv'
  <1>1. Local /\ Settle(prior, sentNames, sentBraces, sync.failed)
    BY DEF BracesRefused, Local, HandsOff, user
  <1>2. Settle(prior', sentNames', sentBraces', sync.failed)
    BY <1>1, LocalFacts
  <1>3. Ended
    BY <1>2, SettleEnds
  <1> QED BY <1>1, <1>3, LocalEnded

(* Idle but for its phase.                                                      *)
LEMMA Phased ==
    ASSUME NEW pc, NEW s, s = [Idle EXCEPT !.pc = pc]
    PROVE  /\ s.pc = pc
           /\ s = [pc |-> s.pc, body |-> s.body, queue |-> s.queue, tries |-> s.tries,
                   failed |-> s.failed]
  BY DEF Idle

LEMMA SaveRefusedKeeps ==
    ASSUME Inv, SaveRefused
    PROVE  Inv'
  <1>1. Local /\ sync' = [Idle EXCEPT !.pc = "get"]
    BY DEF SaveRefused, Local, HandsOff, user
  <1>2. "get" \notin Saves \cup Clears \cup {"type", "name", "braces", "idle"}
    BY DEF Saves, Clears
  <1> QED BY <1>1, <1>2, Phased, Waits

LEMMA MergeRefusedKeeps ==
    ASSUME Inv, MergeRefused
    PROVE  Inv'
  <1>1. Local
    BY DEF MergeRefused, Local, HandsOff, user
  <1>2. /\ "get" \notin Saves \cup Clears \cup {"type", "name", "braces", "idle"}
        /\ "conflict" \notin Saves \cup Clears \cup {"type", "name", "braces", "idle"}
        /\ "idle" \notin Saves \cup Clears \cup {"type", "name", "braces"}
    BY DEF Saves, Clears
  <1>3. \/ sync' = Idle /\ status' # "clean"
        \/ sync' = [Idle EXCEPT !.pc = "conflict"]
        \/ sync' = [Idle EXCEPT !.pc = "get"]
    BY DEF MergeRefused, Failing
  <1>4. CASE sync' = Idle /\ status' # "clean"
    <2>1. /\ Idle.pc = "idle"
          /\ Idle = [pc |-> Idle.pc, body |-> Idle.body, queue |-> Idle.queue,
                     tries |-> Idle.tries, failed |-> Idle.failed]
      BY DEF Idle
    <2> QED BY <1>1, <1>2, <1>4, <2>1, Waits
  <1>5. CASE sync' = [Idle EXCEPT !.pc = "conflict"]
    BY <1>1, <1>2, <1>5, Phased, Waits
  <1>6. CASE sync' = [Idle EXCEPT !.pc = "get"]
    BY <1>1, <1>2, <1>6, Phased, Waits
  <1> QED BY <1>3, <1>4, <1>5, <1>6

LEMMA TypeRefusedKeeps ==
    ASSUME Inv, TypeRefused
    PROVE  Inv'
  <1>1. Local /\ sync' = [sync EXCEPT !.pc = "typeGet", !.queue = {}]
    BY DEF TypeRefused, Local, HandsOff, user
  <1>2. "typeGet" \notin Saves \cup Clears \cup {"type", "name", "braces", "idle"}
    BY DEF Saves, Clears
  <1>3. PICK b, q, t, f : sync = [pc |-> sync.pc, body |-> b, queue |-> q, tries |-> t, failed |-> f]
    BY DEF Inv, Ready
  <1>4. PICK w : w = [sync EXCEPT !.pc = "typeGet"]
    OBVIOUS
  <1>5. w = [pc |-> "typeGet", body |-> b, queue |-> q, tries |-> t, failed |-> f]
    BY <1>3, <1>4
  <1>6. PICK s : s = [w EXCEPT !.queue = {}]
    OBVIOUS
  <1>7. s = [pc |-> "typeGet", body |-> b, queue |-> {}, tries |-> t, failed |-> f]
    BY <1>5, <1>6
  <1>8. /\ s.pc = "typeGet"
        /\ s = [pc |-> s.pc, body |-> s.body, queue |-> s.queue, tries |-> s.tries,
                failed |-> s.failed]
    BY <1>7
  <1>9. sync' = s
    BY <1>1, <1>4, <1>6
  <1> QED BY <1>1, <1>2, <1>8, <1>9, Waits

--------------------------------------------------------------------------------
(* An answer is adopted as the baseline.                                        *)
Adopted ==
    /\ HandsOff /\ faults' = faults /\ sentBraces' = sentBraces
    /\ prior' = units' /\ priorRev' = revision'

(* A type of the user's that is set and adopted.                                *)
LEMMA SetFacts ==
    ASSUME Inv, Fresh, NEW u \in DOMAIN units, u \in retyped, NEW t \in Type \cup {NoType},
           SetType(u, t), Adopted
    PROVE  /\ prior = units /\ ServerKept /\ Mine'
           /\ DOMAIN prior' = DOMAIN prior
           /\ \A v \in DOMAIN prior : prior'[v].type = IF v = u THEN t ELSE prior[v].type
           /\ handles' = handles /\ targets' = targets
  <1>1. prior = units
    BY DEF Fresh, Inv, Based
  <1>2. ServerKept
    BY TypeSet
  <1>3. units' = Retyped(units, u, t) /\ handles' = handles /\ targets' = targets
    BY DEF SetType, Write
  <1>4. prior' = Retyped(prior, u, t)
    BY <1>1, <1>3 DEF Adopted
  <1>5. /\ DOMAIN prior' = DOMAIN prior
        /\ \A v \in DOMAIN prior : prior'[v].type = IF v = u THEN t ELSE prior[v].type
    BY <1>1, <1>4, RetypedContent DEF Inv, Stored
  <1>6. Mine'
    BY <1>5 DEF Adopted, HandsOff, Inv, Mine
  <1> QED BY <1>1, <1>2, <1>3, <1>5, <1>6

LEMMA SetKeeps ==
    ASSUME Inv, Fresh, NEW u \in DOMAIN units, u \in retyped, NEW t \in Type \cup {NoType},
           SetType(u, t), Adopted, sentNames' = sentNames, Ready', Clean', Naming
    PROVE  Inv'
  <1>1. /\ HandsOff /\ faults' = faults /\ sentBraces' = sentBraces
        /\ prior' = units' /\ priorRev' = revision'
    BY DEF Adopted
  <1>2. ServerKept /\ Mine' /\ handles' = handles /\ targets' = targets
    BY SetFacts
  <1>3. ASSUME faults = 0
        PROVE  Unlost'
    <2>1. Unlost
      BY <1>3 DEF Inv
    <2>2. /\ \A h \in DOMAIN sentNames' : Homed(h, sentNames'[h].unit)
          /\ \A h \in DOMAIN handles' : Homed(h, handles'[h].unit)
      BY <1>2 DEF Homed
    <2>3. /\ \A a \in DOMAIN sentBraces' :
                  \/ Gone(sentBraces'[a][1])
                  \/ a \in DOMAIN targets' /\ targets'[a] = sentBraces'[a]
          /\ DOMAIN targets' \subseteq DOMAIN sentBraces'
      BY <1>1, <1>2, <2>1 DEF Unlost
    <2>4. \A h \in DOMAIN sentNames' :
                  \/ Gone(sentNames'[h].unit)
                  \/ h \in DOMAIN handles' /\ handles'[h] = sentNames'[h]
      BY <1>2, <2>1 DEF Unlost
    <2> QED BY <1>1, <1>3, <2>2, <2>3, <2>4, UnlostKeeps
  <1>4. /\ Filed(sentNames', minted) /\ faults' \in Nat
        /\ \A a \in DOMAIN sentBraces' : sentBraces'[a][1] \in 1..minted
    BY <1>1 DEF Inv, Stored
  <1> QED BY <1>1, <1>2, <1>3, <1>4, HandsOffKeeps

(* The steps that the server accepts, one by one.                               *)
LEMMA ClearAcceptedKeeps ==
    ASSUME Inv, ClearAccepted
    PROVE  Inv'
  <1>1. /\ sync.pc \in Clears /\ Fresh /\ Adopted /\ sentNames' = sentNames /\ status' = status
    BY DEF ClearAccepted, Adopt, Adopted, HandsOff, user, sent
  <1>2. PICK u \in sync.queue :
            /\ u \in DOMAIN units /\ SetType(u, NoType)
            /\ sync' = [sync EXCEPT !.queue = @ \ {u},
                                    !.pc = IF sync.queue = {u} THEN After(@) ELSE @]
    BY DEF ClearAccepted
  <1>3. SaveReady
    BY <1>1 DEF Inv, Ready
  <1>4. u \in sync.body.deletes /\ u \in retyped
    BY <1>1, <1>3 DEF SaveReady
  <1>5. NoType \in Type \cup {NoType}
    OBVIOUS
  <1>6. /\ DOMAIN prior' = DOMAIN prior
        /\ \A v \in DOMAIN prior : prior'[v].type = IF v = u THEN NoType ELSE prior[v].type
    BY <1>1, <1>2, <1>4, <1>5, SetFacts
  <1>7. PICK pc : pc = IF sync.queue = {u} THEN After(sync.pc) ELSE sync.pc
    OBVIOUS
  <1>8. /\ sync'.pc = pc /\ sync'.queue = sync.queue \ {u} /\ sync'.body = sync.body
        /\ sync' = [pc |-> sync'.pc, body |-> sync'.body, queue |-> sync'.queue,
                    tries |-> sync'.tries, failed |-> sync'.failed]
    <2>1. PICK p, b, q, t, f : sync = [pc |-> p, body |-> b, queue |-> q, tries |-> t, failed |-> f]
      BY DEF Inv, Ready
    <2>2. PICK w : w = [sync EXCEPT !.queue = q \ {u}]
      OBVIOUS
    <2>3. w = [pc |-> p, body |-> b, queue |-> q \ {u}, tries |-> t, failed |-> f]
      BY <2>1, <2>2
    <2>4. PICK s : s = [w EXCEPT !.pc = pc]
      OBVIOUS
    <2>5. s = [pc |-> pc, body |-> b, queue |-> q \ {u}, tries |-> t, failed |-> f]
      BY <2>3, <2>4
    <2>6. sync.queue = q /\ sync.body = b
      BY <2>1
    <2>7. sync' = s
      BY <1>2, <1>7, <2>2, <2>4, <2>6
    <2> QED BY <2>5, <2>6, <2>7
  <1>9. pc \in Saves \cup Clears /\ (sync.queue # {u} => pc = sync.pc)
    <2>1. After(sync.pc) \in Saves
      BY DEF After, Saves
    <2> QED BY <1>1, <1>7, <2>1
  <1>10. /\ doc' = doc /\ minted' = minted /\ gestures' = gestures
         /\ retyped' = retyped /\ restored' = restored
    BY <1>1 DEF Adopted, HandsOff
  <1>11. SaveReady'
    <2>1. \A v \in DOMAIN sync.body.upserts :
            /\ v \notin sync.body.deletes
            /\ v \in DOMAIN doc \/ v \in retyped
            /\ sync.body.upserts[v].type = IF v \in DOMAIN prior' THEN prior'[v].type ELSE NoType
      BY <1>3, <1>4, <1>6 DEF SaveReady
    <2>2. ASSUME NEW v \in sync.body.deletes
          PROVE  /\ v \in DOMAIN prior' /\ v \in retyped
                 /\ v \notin DOMAIN doc \/ v \in restored
                 /\ prior'[v].type # NoType => pc \in Clears /\ v \in sync.queue \ {u}
      <3>1. v \in DOMAIN prior /\ v \in retyped /\ (v \notin DOMAIN doc \/ v \in restored)
        BY <1>3 DEF SaveReady
      <3>2. prior'[v].type # NoType => v # u /\ v \in sync.queue
        BY <1>3, <1>6, <3>1 DEF SaveReady
      <3> QED BY <1>1, <1>6, <1>9, <3>1, <3>2
    <2>3. sync.queue \ {u} \subseteq sync.body.deletes
      BY <1>1, <1>3 DEF SaveReady
    <2>4. /\ sync.body = [upserts |-> sync.body.upserts, deletes |-> sync.body.deletes]
          /\ IsContent(sync.body.upserts, gestures, minted)
      BY <1>3 DEF SaveReady
    <2> QED BY <1>8, <1>10, <2>1, <2>2, <2>3, <2>4 DEF SaveReady
  <1>12. Ready' /\ Clean' /\ Naming
    BY <1>8, <1>9, <1>11, Phases DEF Ready, Clean, Naming
  <1> QED BY <1>1, <1>2, <1>4, <1>5, <1>12, SetKeeps

LEMMA TypeAcceptedKeeps ==
    ASSUME Inv, TypeAccepted
    PROVE  Inv'
  <1>1. PICK need \in sync.queue :
            /\ need[1] \in DOMAIN units
            /\ SetType(need[1], need[2])
            /\ Adopt(units')
            /\ UNCHANGED <<doc, deleted, user, sent, merges, faults>>
            /\ IF sync.queue = {need} THEN ToNames(units', FALSE)
               ELSE sync' = [sync EXCEPT !.queue = @ \ {need}] /\ UNCHANGED status
    BY DEF TypeAccepted
  <1>2. Fresh /\ sync.pc = "type" /\ Adopted /\ sentNames' = sentNames
    BY <1>1 DEF TypeAccepted, Adopt, Adopted, HandsOff, user, sent
  <1>3. \A n \in sync.queue : n[1] \in DOMAIN prior /\ n[1] \in retyped /\ n[2] \in Type \cup {NoType}
    BY <1>2 DEF Inv, Ready, TypesReady
  <1>4. Mine' /\ DOMAIN prior' = DOMAIN prior
    BY <1>1, <1>2, <1>3, SetFacts
  <1>5. Ready' /\ Clean' /\ Naming
    <2>1. CASE sync.queue = {need}
      <3>1. ToNames(prior', FALSE)
        BY <1>1, <1>2, <2>1 DEF Adopted
      <3>2. /\ IsPage(doc', gestures', minted') /\ Filed(sentNames', minted')
            /\ HandsOff /\ sentBraces' = sentBraces
        BY <1>2 DEF Adopted, HandsOff, Inv, Stored
      <3>3. Ended
        BY <1>2, <3>1, <3>2, NamesEnd
      <3>4. \A h \in DOMAIN sentNames' : Homed(h, sentNames'[h].unit)
        BY <1>2 DEF Homed
      <3> QED BY <3>2, <3>3, <3>4, EndedNaming DEF Ended
    <2>2. CASE sync.queue # {need}
      <3>1. sync' = [sync EXCEPT !.queue = @ \ {need}]
        BY <1>1, <2>2
      <3>2. /\ sync'.pc = "type" /\ sync'.queue \subseteq sync.queue
            /\ sync' = [pc |-> sync'.pc, body |-> sync'.body, queue |-> sync'.queue,
                        tries |-> sync'.tries, failed |-> sync'.failed]
        BY <1>2, <3>1 DEF Inv, Ready
      <3>3. TypesReady'
        BY <1>2, <1>3, <1>4, <3>2 DEF TypesReady, Adopted, HandsOff
      <3>4. "type" \notin Saves \cup Clears
        BY DEF Saves, Clears
      <3> QED BY <3>2, <3>3, <3>4 DEF Ready, Clean, Naming
    <2> QED BY <2>1, <2>2
  <1> QED BY <1>1, <1>2, <1>3, <1>5, SetKeeps

LEMMA SaveAcceptedKeeps ==
    ASSUME Inv, SaveAccepted
    PROVE  Inv'
  <1>1. /\ sync.pc \in Saves /\ Fresh /\ MaySave(units, sync.body) /\ Save(sync.body)
        /\ Adopted /\ sentNames' = sentNames
    BY DEF SaveAccepted, Adopt, Adopted, HandsOff, user, sent
  <1>2. \/ \E tries : ToTypes(units', tries)
        \/ sync' = [Idle EXCEPT !.pc = "conflict"]
    BY DEF SaveAccepted
  <1>3. PICK body : body = sync.body
    OBVIOUS
  <1>4. prior = units
    BY <1>1 DEF Fresh, Inv, Based
  <1>5. /\ units' = Saved(units, body) /\ handles' = Unbound(handles, body.deletes)
        /\ targets' = Untargeted(targets, body.deletes)
    BY <1>1, <1>3 DEF Save, Write
  <1>6. /\ DOMAIN prior' = (DOMAIN prior \ body.deletes) \cup DOMAIN body.upserts
        /\ \A u \in DOMAIN prior' :
                prior'[u] = IF u \in DOMAIN body.upserts THEN body.upserts[u] ELSE prior[u]
    <2>1. prior' = Saved(prior, body)
      BY <1>1, <1>4, <1>5 DEF Adopted
    <2> QED BY <2>1 DEF Saved
  <1>7. /\ \A u \in DOMAIN body.upserts :
            /\ u \in DOMAIN doc \/ u \in retyped
            /\ body.upserts[u].type = IF u \in DOMAIN prior THEN prior[u].type ELSE NoType
        /\ \A u \in body.deletes :
            u \in DOMAIN prior /\ u \in retyped /\ (u \notin DOMAIN doc \/ u \in restored)
    BY <1>1, <1>3 DEF Inv, Ready, SaveReady
  <1>8. HandsOff /\ sentBraces' = sentBraces /\ faults' = faults /\ priorRev' = revision'
    BY <1>1 DEF Adopted
  <1>9. Mine'
    <2>1. DOMAIN prior' \ DOMAIN doc \subseteq retyped
      BY <1>6, <1>7 DEF Inv, Mine
    <2>2. ASSUME NEW u \in DOMAIN doc,
                 doc[u].type # (IF u \in DOMAIN prior' THEN prior'[u].type ELSE NoType)
          PROVE  u \in retyped
      <3>1. CASE u \in body.deletes
        BY <1>7, <3>1
      <3>2. CASE u \notin body.deletes
        <4>1. (IF u \in DOMAIN prior' THEN prior'[u].type ELSE NoType) =
                    (IF u \in DOMAIN prior THEN prior[u].type ELSE NoType)
          BY <1>6, <1>7, <3>2
        <4> QED BY <2>2, <4>1 DEF Inv, Mine
      <3> QED BY <3>1, <3>2
    <2> QED BY <1>8, <2>1, <2>2 DEF HandsOff, Mine
  <1>10. IsPage(doc', gestures', minted') /\ Filed(sentNames', minted')
    BY <1>1, <1>8 DEF HandsOff, Inv, Stored
  <1>11. \A h \in DOMAIN sentNames' : Homed(h, sentNames'[h].unit)
    BY <1>1 DEF Homed
  <1>12. Ready' /\ Clean' /\ Naming
    <2>1. ASSUME NEW tries, ToTypes(units', tries)
          PROVE  Ready' /\ Clean' /\ Naming
      <3>1. ToTypes(prior', tries)
        BY <1>1, <2>1 DEF Adopted
      <3>2. Ended
        BY <1>1, <1>8, <1>9, <1>10, <3>1, TypesEnd
      <3> QED BY <1>8, <1>11, <3>2, EndedNaming DEF Ended
    <2>2. CASE sync' = [Idle EXCEPT !.pc = "conflict"]
      <3>1. /\ sync'.pc = "conflict"
            /\ sync' = [pc |-> sync'.pc, body |-> sync'.body, queue |-> sync'.queue,
                        tries |-> sync'.tries, failed |-> sync'.failed]
        BY <2>2, Phased
      <3>2. "conflict" \notin Saves \cup Clears
        BY DEF Saves, Clears
      <3> QED BY <3>1, <3>2 DEF Ready, Clean, Naming
    <2> QED BY <1>2, <2>1, <2>2
  <1>13. ServerKept
    <2>1. CarriedOut
      BY <1>1, Phases DEF CarriedOut
    <2> QED BY <2>1, CarriedKeeps
  <1>14. ASSUME faults = 0
         PROVE  Unlost'
    <2>1. Unlost
      BY <1>14 DEF Inv
    <2>2. /\ DOMAIN targets' = {a \in DOMAIN targets : targets[a][1] \notin body.deletes}
          /\ \A a \in DOMAIN targets' : targets'[a] = targets[a]
      BY <1>5 DEF Untargeted, Restrict
    <2>3. \A u \in body.deletes : Gone(u)
      BY <1>7 DEF Gone
    <2>4. ASSUME NEW a \in DOMAIN sentBraces, ~Gone(sentBraces[a][1])
          PROVE  a \in DOMAIN targets' /\ targets'[a] = sentBraces[a]
      <3>1. a \in DOMAIN targets /\ targets[a] = sentBraces[a]
        BY <2>1, <2>4 DEF Unlost
      <3> QED BY <2>2, <2>3, <2>4, <3>1
    <2>5. /\ \A h \in DOMAIN handles' : h \in DOMAIN handles /\ handles'[h] = handles[h]
          /\ \A h \in DOMAIN handles : handles[h].unit \notin body.deletes => h \in DOMAIN handles'
      BY <1>5, HandlesKept DEF Inv, Stored
    <2>6. ASSUME NEW h \in DOMAIN sentNames, ~Gone(sentNames[h].unit)
          PROVE  h \in DOMAIN handles' /\ handles'[h] = sentNames[h]
      <3>1. h \in DOMAIN handles /\ handles[h] = sentNames[h]
        BY <2>1, <2>6 DEF Unlost
      <3> QED BY <2>3, <2>5, <2>6, <3>1
    <2>7. \A h \in DOMAIN handles' : Homed(h, handles'[h].unit)
      BY <2>5 DEF Homed
    <2>8. DOMAIN targets' \subseteq DOMAIN sentBraces
      BY <2>1, <2>2 DEF Unlost
    <2> QED BY <1>1, <1>8, <1>11, <1>12, <1>14, <2>4, <2>6, <2>7, <2>8, UnlostKeeps
  <1>15. /\ faults' \in Nat /\ Filed(sentNames', minted)
         /\ \A a \in DOMAIN sentBraces' : sentBraces'[a][1] \in 1..minted
    BY <1>1, <1>8 DEF Inv, Stored
  <1>16. prior' = units'
    BY <1>1 DEF Adopted
  <1> QED BY <1>8, <1>9, <1>12, <1>13, <1>14, <1>15, <1>16, HandsOffKeeps

(* Names sent, with those of a need that is sent now.                           *)
SentToo(need) ==
    IF need.name = "" THEN Restrict(sentNames, DOMAIN sentNames \ {need.handle})
    ELSE [h \in DOMAIN sentNames \cup {need.handle} |->
            IF h = need.handle THEN [unit |-> need.unit, name |-> need.name]
            ELSE sentNames[h]]

(* What was sent and what is stored change alike, at the handle of the need     *)
(* only.                                                                        *)
LEMMA SentFacts ==
    ASSUME NEW need, Filed(sentNames, minted), need.handle \in 1..minted, need.unit \in 1..minted
    PROVE  /\ Filed(SentToo(need), minted)
           /\ \A h \in DOMAIN SentToo(need) :
                \/ h = need.handle /\ SentToo(need)[h].unit = need.unit
                \/ h \in DOMAIN sentNames /\ SentToo(need)[h] = sentNames[h]
           /\ \A h \in DOMAIN Named(handles, need) \ {need.handle} : Named(handles, need)[h] = handles[h]
           /\ \A h \in DOMAIN handles : h # need.handle => h \in DOMAIN Named(handles, need)
  <1>1. PICK m, s, x : m = Named(handles, need) /\ s = SentToo(need) /\ x = need.handle
    OBVIOUS
  <1>2. CASE need.name = ""
    <2>1. DOMAIN s = DOMAIN sentNames \ {x} /\ \A h \in DOMAIN s : s[h] = sentNames[h]
      BY <1>1, <1>2 DEF SentToo, Restrict
    <2>2. DOMAIN m = DOMAIN handles \ {x} /\ \A h \in DOMAIN m : m[h] = handles[h]
      BY <1>1, <1>2 DEF Named, Restrict
    <2>3. Filed(s, minted)
      BY <2>1 DEF Filed
    <2> QED BY <1>1, <2>1, <2>2, <2>3
  <1>3. CASE need.name # ""
    <2>1. s = [h \in DOMAIN sentNames \cup {x} |->
                IF h = x THEN [unit |-> need.unit, name |-> need.name] ELSE sentNames[h]]
      BY <1>1, <1>3 DEF SentToo
    <2>2. m = [h \in DOMAIN handles \cup {x} |->
                IF h # x THEN handles[h]
                ELSE [unit |-> IF h \in DOMAIN handles THEN handles[h].unit ELSE need.unit,
                      name |-> need.name]]
      BY <1>1, <1>3 DEF Named
    <2>3. /\ DOMAIN s = DOMAIN sentNames \cup {x}
          /\ s[x] = [unit |-> need.unit, name |-> need.name] /\ s[x].unit = need.unit
          /\ \A h \in DOMAIN s : h # x => h \in DOMAIN sentNames /\ s[h] = sentNames[h]
      BY <2>1
    <2>4. /\ DOMAIN m = DOMAIN handles \cup {x}
          /\ m[x] = [unit |-> IF x \in DOMAIN handles THEN handles[x].unit ELSE need.unit,
                     name |-> need.name]
          /\ \A h \in DOMAIN m : h # x => m[h] = handles[h]
      BY <2>2
    <2>5. s[x] = [unit |-> s[x].unit, name |-> s[x].name]
      BY <2>3
    <2>6. Filed(s, minted)
      BY <1>1, <2>3, <2>5 DEF Filed
    <2> QED BY <1>1, <2>3, <2>4, <2>6
  <1> QED BY <1>2, <1>3

LEMMA SentAlike ==
    ASSUME NEW need, need.handle \in DOMAIN SentToo(need)
    PROVE  /\ SentToo(need)[need.handle] = [unit |-> need.unit, name |-> need.name]
           /\ need.handle \in DOMAIN Named(handles, need)
           /\ Named(handles, need)[need.handle] =
                    [unit |-> IF need.handle \in DOMAIN handles THEN handles[need.handle].unit
                              ELSE need.unit,
                     name |-> need.name]
  <1>1. PICK m, s, x : m = Named(handles, need) /\ s = SentToo(need) /\ x = need.handle
    OBVIOUS
  <1>2. CASE need.name = ""
    <2>1. DOMAIN s = DOMAIN sentNames \ {x} /\ \A h \in DOMAIN s : s[h] = sentNames[h]
      BY <1>1, <1>2 DEF SentToo, Restrict
    <2>2. DOMAIN m = DOMAIN handles \ {x} /\ \A h \in DOMAIN m : m[h] = handles[h]
      BY <1>1, <1>2 DEF Named, Restrict
    <2> QED BY <1>1, <2>1, <2>2
  <1>3. CASE need.name # ""
    <2>1. s = [h \in DOMAIN sentNames \cup {x} |->
                IF h = x THEN [unit |-> need.unit, name |-> need.name] ELSE sentNames[h]]
      BY <1>1, <1>3 DEF SentToo
    <2>2. m = [h \in DOMAIN handles \cup {x} |->
                IF h # x THEN handles[h]
                ELSE [unit |-> IF h \in DOMAIN handles THEN handles[h].unit ELSE need.unit,
                      name |-> need.name]]
      BY <1>1, <1>3 DEF Named
    <2>3. /\ DOMAIN s = DOMAIN sentNames \cup {x}
          /\ s[x] = [unit |-> need.unit, name |-> need.name] /\ s[x].unit = need.unit
          /\ \A h \in DOMAIN s : h # x => h \in DOMAIN sentNames /\ s[h] = sentNames[h]
      BY <2>1
    <2>4. /\ DOMAIN m = DOMAIN handles \cup {x}
          /\ m[x] = [unit |-> IF x \in DOMAIN handles THEN handles[x].unit ELSE need.unit,
                     name |-> need.name]
          /\ \A h \in DOMAIN m : h # x => m[h] = handles[h]
      BY <2>2
    <2> QED BY <1>1, <2>3, <2>4
  <1> QED BY <1>2, <1>3

LEMMA NameAcceptedKeeps ==
    ASSUME Inv, NameAccepted
    PROVE  Inv'
  <1>1. PICK need \in sync.queue :
            /\ need.unit \in DOMAIN units
            /\ SetHandle(need)
            /\ Adopt(units')
            /\ sentNames' = SentToo(need)
            /\ UNCHANGED <<doc, deleted, user, sentBraces, merges, faults>>
            /\ IF sync.queue = {need} THEN ToBraces(units', sentNames', sync.failed)
               ELSE sync' = [sync EXCEPT !.queue = @ \ {need}] /\ UNCHANGED status
    BY Zenon DEF NameAccepted, SentToo
  <1>2. Fresh /\ sync.pc = "name" /\ Adopted
    BY <1>1 DEF NameAccepted, Adopt, Adopted, HandsOff, user
  <1>3. /\ HandsOff /\ sentBraces' = sentBraces /\ faults' = faults
        /\ prior' = units' /\ priorRev' = revision'
    BY <1>2 DEF Adopted
  <1>4. units' = units /\ prior = units /\ handles' = Named(handles, need) /\ targets' = targets
    BY <1>1, <1>2 DEF SetHandle, Write, Fresh, Inv, Based
  <1>5. \A n \in sync.queue : n.unit \in DOMAIN prior /\ n.handle \in 1..minted
    BY <1>2 DEF Inv, Ready, NamesReady
  <1>6. need.handle \in 1..minted /\ need.unit \in 1..minted /\ Filed(sentNames, minted)
    BY <1>5 DEF Inv, Stored, IsContent
  <1>7. Homed(need.handle, need.unit)
    BY <1>2 DEF Homed
  <1>8. /\ Filed(sentNames', minted)
        /\ \A h \in DOMAIN sentNames' : Homed(h, sentNames'[h].unit)
    <2>1. \A h \in DOMAIN sentNames : Homed(h, sentNames[h].unit)
      BY DEF Homed
    <2> QED BY <1>1, <1>6, <1>7, <2>1, SentFacts
  <1>9. Mine'
    BY <1>3, <1>4 DEF HandsOff, Inv, Mine
  <1>10. IsPage(doc', gestures', minted') /\ Filed(sentNames', minted')
    BY <1>3, <1>8 DEF HandsOff, Inv, Stored
  <1>11. Ready' /\ Clean' /\ Naming
    <2>1. CASE sync.queue = {need}
      <3>1. ToBraces(prior', sentNames', sync.failed)
        BY <1>1, <1>3, <2>1
      <3>2. Ended
        BY <1>3, <1>10, <3>1, BracesEnd
      <3> QED BY <1>3, <1>8, <3>2, EndedNaming DEF Ended
    <2>2. CASE sync.queue # {need}
      <3>1. sync' = [sync EXCEPT !.queue = @ \ {need}]
        BY <1>1, <2>2
      <3>2. /\ sync'.pc = "name" /\ sync'.queue \subseteq sync.queue
            /\ sync' = [pc |-> sync'.pc, body |-> sync'.body, queue |-> sync'.queue,
                        tries |-> sync'.tries, failed |-> sync'.failed]
        BY <1>2, <3>1 DEF Inv, Ready
      <3>3. NamesReady'
        BY <1>3, <1>4, <1>5, <3>2 DEF NamesReady, HandsOff
      <3>4. "name" \notin Saves \cup Clears
        BY DEF Saves, Clears
      <3>5. Ready' /\ Clean'
        BY <3>2, <3>3, <3>4 DEF Ready, Clean
      <3>6. Naming
        BY <1>2, <3>2 DEF Naming, Homed
      <3> QED BY <3>5, <3>6
    <2> QED BY <2>1, <2>2
  <1>12. ServerKept
    <2>1. CarriedOut
      BY <1>1, <1>2, Phases DEF CarriedOut
    <2> QED BY <2>1, CarriedKeeps
  <1>13. \A h \in DOMAIN handles' : Homed(h, handles'[h].unit)
    <2>1. \A h \in DOMAIN handles : Homed(h, handles[h].unit)
      BY DEF Homed
    <2>2. \A h \in DOMAIN handles' :
              \/ h \in DOMAIN handles /\ handles'[h].unit = handles[h].unit
              \/ h = need.handle /\ handles'[h].unit = need.unit
      BY <1>4, <1>6, HandlesKept DEF Inv, Stored
    <2> QED BY <1>7, <2>1, <2>2
  <1>14. ASSUME faults = 0
         PROVE  Unlost'
    <2>1. Unlost
      BY <1>14 DEF Inv
    <2>2. ASSUME NEW h \in DOMAIN sentNames', ~Gone(sentNames'[h].unit)
          PROVE  h \in DOMAIN handles' /\ handles'[h] = sentNames'[h]
      <3>1. CASE h = need.handle
        <4>1. need.handle \in DOMAIN handles => handles[need.handle].unit = need.unit
          <5>1. ASSUME need.handle \in DOMAIN handles
                PROVE  handles[need.handle].unit = need.unit
            <6>1. Homed(need.handle, handles[need.handle].unit)
              BY <5>1 DEF Homed
            <6>2. handles[need.handle].unit \in 1..minted
              BY <5>1 DEF Inv, Stored, Filed
            <6> QED BY <1>6, <1>7, <2>1, <6>1, <6>2 DEF Unlost
          <5> QED BY <5>1
        <4>2. /\ h \in DOMAIN handles'
              /\ handles'[h] = [unit |-> IF need.handle \in DOMAIN handles
                                         THEN handles[need.handle].unit ELSE need.unit,
                                name |-> need.name]
              /\ sentNames'[h] = [unit |-> need.unit, name |-> need.name]
          BY <1>1, <1>4, <2>2, <3>1, SentAlike
        <4> QED BY <4>1, <4>2
      <3>2. CASE h # need.handle
        <4>1. h \in DOMAIN sentNames /\ sentNames'[h] = sentNames[h]
          BY <1>1, <1>6, <2>2, <3>2, SentFacts
        <4>2. h \in DOMAIN handles /\ handles[h] = sentNames[h]
          BY <2>1, <2>2, <4>1 DEF Unlost
        <4>3. h \in DOMAIN handles' /\ handles'[h] = handles[h]
          BY <1>4, <1>6, <3>2, <4>2, SentFacts
        <4> QED BY <4>1, <4>2, <4>3
      <3> QED BY <3>1, <3>2
    <2>3. /\ \A a \in DOMAIN sentBraces' :
                  \/ Gone(sentBraces'[a][1])
                  \/ a \in DOMAIN targets' /\ targets'[a] = sentBraces'[a]
          /\ DOMAIN targets' \subseteq DOMAIN sentBraces'
      BY <1>3, <1>4, <2>1 DEF Unlost
    <2> QED BY <1>3, <1>8, <1>11, <1>13, <1>14, <2>2, <2>3, UnlostKeeps
  <1>15. /\ faults' \in Nat
         /\ \A a \in DOMAIN sentBraces' : sentBraces'[a][1] \in 1..minted
    BY <1>3 DEF Inv, Stored
  <1> QED BY <1>3, <1>8, <1>9, <1>11, <1>12, <1>14, <1>15, HandsOffKeeps

LEMMA BracesAcceptedKeeps ==
    ASSUME Inv, BracesAccepted
    PROVE  Inv'
  <1>1. PICK p, put : p = sync.body /\ put = {d.brace : d \in p.upserts}
    OBVIOUS
  <1>2. /\ sync.pc = "braces" /\ HandsOff /\ faults' = faults /\ UNCHANGED baseline
        /\ MayReconcile(units, targets, annotations, p) /\ Reconcile(p)
        /\ sentNames' = sentNames
        /\ sentBraces' = Retargeted(Restrict(sentBraces, DOMAIN sentBraces \ p.deletes),
                                    [p EXCEPT !.deletes = {}])
        /\ Settle(prior, sentNames, sentBraces', sync.failed)
    BY <1>1 DEF BracesAccepted, HandsOff, user
  <1>3. /\ prior' = prior /\ priorRev' = priorRev
        /\ UNCHANGED <<units, revision, handles>> /\ targets' = Retargeted(targets, p)
    BY <1>2 DEF baseline, Reconcile
  <1>4. p = [upserts |-> p.upserts, deletes |-> p.deletes] /\ \A d \in p.upserts : d.unit \in 1..minted
    BY <1>1, <1>2 DEF Inv, Ready, BracesReady
  <1>5. /\ DOMAIN targets' = (DOMAIN targets \ (p.deletes \cap DOMAIN targets)) \cup put
        /\ \A a \in DOMAIN targets' :
                targets'[a] = IF a \notin put THEN targets[a]
                              ELSE LET d == CHOOSE x \in p.upserts : x.brace = a IN <<d.unit, d.span>>
    BY <1>1, <1>3 DEF Retargeted, Removed
  <1>6. PICK q, kept : q = [p EXCEPT !.deletes = {}] /\ kept = Restrict(sentBraces, DOMAIN sentBraces \ p.deletes)
    OBVIOUS
  <1>7. q.upserts = p.upserts /\ q.deletes = {}
    BY <1>4, <1>6
  <1>8. /\ DOMAIN kept = DOMAIN sentBraces \ p.deletes
        /\ \A a \in DOMAIN kept : kept[a] = sentBraces[a]
    BY <1>6 DEF Restrict
  <1>9. /\ DOMAIN sentBraces' = (DOMAIN sentBraces \ p.deletes) \cup put
        /\ \A a \in DOMAIN sentBraces' :
                sentBraces'[a] = IF a \notin put THEN sentBraces[a]
                                 ELSE LET d == CHOOSE x \in p.upserts : x.brace = a IN <<d.unit, d.span>>
    <2>1. sentBraces' = Retargeted(kept, q)
      BY <1>2, <1>6
    <2>2. /\ DOMAIN sentBraces' = (DOMAIN kept \ (q.deletes \cap DOMAIN kept)) \cup put
          /\ \A a \in DOMAIN sentBraces' :
                sentBraces'[a] = IF a \notin put THEN kept[a]
                                 ELSE LET d == CHOOSE x \in p.upserts : x.brace = a IN <<d.unit, d.span>>
      BY <1>1, <1>7, <2>1 DEF Retargeted, Removed
    <2> QED BY <1>7, <1>8, <2>2
  <1>10. \A a \in DOMAIN sentBraces' : sentBraces'[a][1] \in 1..minted
    <2>1. ASSUME NEW a \in DOMAIN sentBraces'
          PROVE  sentBraces'[a][1] \in 1..minted
      <3>1. CASE a \notin put
        BY <1>9, <3>1 DEF Inv, Stored
      <3>2. CASE a \in put
        <4>1. PICK d : d = CHOOSE x \in p.upserts : x.brace = a
          OBVIOUS
        <4>2. d \in p.upserts
          BY <1>1, <3>2, <4>1
        <4>3. sentBraces'[a] = <<d.unit, d.span>>
          BY <1>9, <3>2, <4>1
        <4> QED BY <1>4, <4>2, <4>3
      <3> QED BY <3>1, <3>2
    <2> QED BY <2>1
  <1>11. Mine'
    BY <1>2, <1>3 DEF HandsOff, Inv, Mine
  <1>12. Ended
    BY <1>2, <1>3, SettleEnds
  <1>13. \A h \in DOMAIN sentNames' : Homed(h, sentNames'[h].unit)
    BY <1>2 DEF Homed
  <1>14. Ready' /\ Clean' /\ Naming
    BY <1>2, <1>12, <1>13, EndedNaming DEF Ended
  <1>15. ASSUME faults = 0
         PROVE  Unlost'
    <2>1. Unlost
      BY <1>15 DEF Inv
    <2>2. \A a \in DOMAIN sentBraces' :
              \/ Gone(sentBraces'[a][1])
              \/ a \in DOMAIN targets' /\ targets'[a] = sentBraces'[a]
      <3>1. ASSUME NEW a \in DOMAIN sentBraces', a \notin put, ~Gone(sentBraces'[a][1])
            PROVE  a \in DOMAIN targets' /\ targets'[a] = sentBraces'[a]
        <4>1. a \in DOMAIN sentBraces /\ a \notin p.deletes /\ sentBraces'[a] = sentBraces[a]
          BY <1>9, <3>1
        <4>2. a \in DOMAIN targets /\ targets[a] = sentBraces[a]
          BY <2>1, <3>1, <4>1 DEF Unlost
        <4> QED BY <1>5, <3>1, <4>1, <4>2
      <3>2. ASSUME NEW a \in DOMAIN sentBraces', a \in put
            PROVE  a \in DOMAIN targets' /\ targets'[a] = sentBraces'[a]
        BY <1>5, <1>9, <3>2
      <3> QED BY <3>1, <3>2
    <2>3. DOMAIN targets' \subseteq DOMAIN sentBraces'
      BY <1>5, <1>9, <2>1 DEF Unlost
    <2>4. \A h \in DOMAIN handles' : Homed(h, handles'[h].unit)
      BY <1>3 DEF Homed
    <2>5. \A h \in DOMAIN sentNames' :
              \/ Gone(sentNames'[h].unit)
              \/ h \in DOMAIN handles' /\ handles'[h] = sentNames'[h]
      BY <1>2, <1>3, <2>1 DEF Unlost
    <2>6. priorRev' = revision'
      BY <1>3, <2>1 DEF Unlost
    <2> QED BY <1>2, <1>13, <1>14, <1>15, <2>2, <2>3, <2>4, <2>5, <2>6, UnlostKeeps
  <1>16. ServerKept
    BY <1>3 DEF Inv, Stored, ServerKept
  <1>17. faults' \in Nat /\ Filed(sentNames', minted)
    BY <1>2 DEF Inv, Stored
  <1> QED BY <1>2, <1>3, <1>10, <1>11, <1>14, <1>15, <1>16, <1>17, HandsOffKeeps

(* A request that fails, carried out or not.                                    *)
LEMMA FailKeeps ==
    ASSUME Inv, Fail
    PROVE  Inv'
  <1>1. /\ HandsOff /\ faults' = faults + 1 /\ faults \in Nat
        /\ prior' = prior /\ priorRev' = priorRev
        /\ sentNames' = sentNames /\ sentBraces' = sentBraces
    BY DEF Fail, HandsOff, user, baseline, sent, Inv, Stored
  <1>2. ServerKept
    <2>1. CarriedOut \/ UNCHANGED server
      BY DEF Fail
    <2> QED BY <2>1, CarriedKeeps, Unsent
  <1>3. Mine'
    BY <1>1 DEF HandsOff, Inv, Mine
  <1>4. /\ IsPage(doc', gestures', minted') /\ Filed(sentNames', minted')
        /\ Filed(sentNames', minted)
        /\ \A a \in DOMAIN sentBraces' : sentBraces'[a][1] \in 1..minted
    BY <1>1 DEF HandsOff, Inv, Stored
  <1>5. \/ sync' = Idle /\ status' # "clean"
        \/ ToNames(prior', TRUE)
        \/ ToBraces(prior, sentNames, TRUE)
        \/ Settle(prior, sentNames, sentBraces, sync.failed)
    BY DEF Fail, Deferred, Failing
  <1>6. Ready' /\ Clean'
    <2>1. CASE sync' = Idle /\ status' # "clean"
      BY <2>1, IdleReady DEF Clean
    <2>2. CASE ToNames(prior', TRUE)
      BY <1>1, <1>4, <2>2, NamesEnd DEF Ended
    <2>3. CASE ToBraces(prior, sentNames, TRUE)
      <3>1. ToBraces(prior', sentNames', TRUE)
        BY <1>1, <2>3
      <3> QED BY <1>1, <1>4, <3>1, BracesEnd DEF Ended
    <2>4. CASE Settle(prior, sentNames, sentBraces, sync.failed)
      <3>1. Settle(prior', sentNames', sentBraces', sync.failed)
        BY <1>1, <2>4
      <3> QED BY <3>1, SettleEnds DEF Ended
    <2> QED BY <1>5, <2>1, <2>2, <2>3, <2>4
  <1>7. faults' \in Nat /\ faults' # 0
    BY <1>1
  <1> QED BY <1>1, <1>2, <1>3, <1>4, <1>6, <1>7, HandsOffKeeps

(* The word of the other device at the start of a text.                         *)
LEMMA Prefixed ==
    ASSUME NEW t, NEW g \in Nat, IsText(t, g), Foreign \notin Words(t)
    PROVE  IsText(<<Foreign>> \o t, g)
  <1>1. PICK W, p, n : W = Words(t) \cup {Foreign} /\ p = <<Foreign>> /\ n = p \o t
    OBVIOUS
  <1>2. Len(t) \in Nat /\ DOMAIN t = 1..Len(t) /\ t \in Seq(W)
    BY <1>1, TextShape, MoreWords
  <1>3. p \in Seq(W) /\ Len(p) = 1 /\ p[1] = Foreign
    BY <1>1
  <1>4. /\ n \in Seq(W) /\ Len(n) = Len(p) + Len(t)
        /\ \A i \in 1..Len(p) : n[i] = p[i]
        /\ \A i \in 1..Len(t) : n[Len(p) + i] = t[i]
    BY <1>1, <1>2, <1>3, Glued
  <1>5. n \in Seq(W) /\ Len(n) = 1 + Len(t) /\ DOMAIN n = 1..(1 + Len(t)) /\ n[1] = Foreign
    BY <1>2, <1>3, <1>4
  <1>6. \A i \in 2..(1 + Len(t)) : i - 1 \in 1..Len(t) /\ n[i] = t[i - 1]
    <2>1. ASSUME NEW i \in 2..(1 + Len(t))
          PROVE  i - 1 \in 1..Len(t) /\ n[i] = t[i - 1]
      <3>1. i - 1 \in 1..Len(t) /\ 1 + (i - 1) = i
        BY <1>2
      <3>2. n[1 + (i - 1)] = t[i - 1]
        BY <1>3, <1>4, <3>1
      <3> QED BY <3>1, <3>2
    <2> QED BY <2>1
  <1>7. \A i \in 1..Len(t) : t[i] # Foreign
    BY <1>2 DEF Words
  <1>8. \A i, j \in DOMAIN n : n[i] = n[j] => i = j
    <2>1. ASSUME NEW i \in DOMAIN n, NEW j \in DOMAIN n, n[i] = n[j]
          PROVE  i = j
      <3>1. /\ i = 1 \/ i \in 2..(1 + Len(t))
            /\ j = 1 \/ j \in 2..(1 + Len(t))
        BY <1>2, <1>5
      <3>2. CASE i = 1
        BY <1>5, <1>6, <1>7, <2>1, <3>1, <3>2
      <3>3. CASE j = 1
        BY <1>5, <1>6, <1>7, <2>1, <3>1, <3>3
      <3>4. CASE i \in 2..(1 + Len(t)) /\ j \in 2..(1 + Len(t))
        <4>1. i - 1 = j - 1
          BY <1>2, <1>6, <2>1, <3>4 DEF IsText
        <4> QED BY <3>4, <4>1
      <3> QED BY <3>1, <3>2, <3>3, <3>4
    <2> QED BY <2>1
  <1>9. Words(n) \cap (g + 1)..MaxGesture = {}
    <2>1. Words(n) \subseteq W
      BY <1>5 DEF Words
    <2>2. Foreign \notin (g + 1)..MaxGesture
      BY AxesAssumption
    <2>3. Words(t) \cap (g + 1)..MaxGesture = {}
      BY DEF IsText
    <2> QED BY <1>1, <2>1, <2>2, <2>3
  <1>10. n \in Seq(Words(n))
    BY <1>5, OwnWords
  <1>11. IsText(n, g)
    BY <1>8, <1>9, <1>10 DEF IsText
  <1> QED BY <1>1, <1>11

(* The other device raises the revision: what was read from the old one is no   *)
(* longer the last.                                                             *)
LEMMA OtherDeviceKeeps ==
    ASSUME Inv, OtherDevice
    PROVE  Inv'
  <1>1. /\ HandsOff /\ faults' = faults + 1 /\ faults \in Nat /\ sync.pc # "idle"
        /\ prior' = prior /\ priorRev' = priorRev /\ sync' = sync
        /\ sentNames' = sentNames /\ sentBraces' = sentBraces /\ revision' = revision + 1
    BY DEF OtherDevice, HandsOff, user, baseline, sent, Inv, Stored
  <1>2. PICK u \in DOMAIN units :
        \/ \E t \in Type \cup {NoType} : units' = Retyped(units, u, t) /\ UNCHANGED <<handles, targets>>
        \/ /\ Foreign \notin Words(units[u].text)
           /\ units' = [units EXCEPT ![u].text = <<Foreign>> \o @]
           /\ UNCHANGED <<handles, targets>>
        \/ /\ units' = Restrict(units, DOMAIN units \ {u})
           /\ handles' = Unbound(handles, {u})
    BY DEF OtherDevice
  <1>3. IsContent(units, gestures, minted) /\ Filed(handles, minted) /\ gestures \in Nat
    BY DEF Inv, Stored
  <1>4. IsContent(units', gestures, minted) /\ Filed(handles', minted)
    <2>1. ASSUME NEW t \in Type \cup {NoType}, units' = Retyped(units, u, t), handles' = handles
          PROVE  IsContent(units', gestures, minted) /\ Filed(handles', minted)
      BY <1>3, <2>1, RetypedContent
    <2>2. CASE /\ Foreign \notin Words(units[u].text)
               /\ units' = [units EXCEPT ![u].text = <<Foreign>> \o @]
               /\ handles' = handles
      <3>1. PICK n : n = <<Foreign>> \o units[u].text
        OBVIOUS
      <3>2. IsUnit(units[u], gestures)
        BY <1>3 DEF IsContent
      <3>3. IsText(n, gestures)
        BY <1>3, <2>2, <3>1, <3>2, Prefixed DEF IsUnit
      <3>4. units' = [units EXCEPT ![u].text = n]
        BY <2>2, <3>1
      <3>5. /\ DOMAIN units' = DOMAIN units /\ units'[u] = [text |-> n, type |-> units[u].type]
            /\ \A v \in DOMAIN units : v # u => units'[v] = units[v]
        <4>1. [units[u] EXCEPT !.text = n] = [text |-> n, type |-> units[u].type]
          BY <3>2 DEF IsUnit
        <4> QED BY <3>4, <4>1
      <3>6. IsUnit(units'[u], gestures)
        BY <3>2, <3>3, <3>5 DEF IsUnit
      <3> QED BY <1>3, <2>2, <3>5, <3>6 DEF IsContent
    <2>3. CASE units' = Restrict(units, DOMAIN units \ {u}) /\ handles' = Unbound(handles, {u})
      <3>1. IsContent(units', gestures, minted)
        BY <1>3, <2>3 DEF IsContent, Restrict
      <3> QED BY <1>3, <2>3, <3>1, HandlesKept
    <2> QED BY <1>2, <2>1, <2>2, <2>3
  <1>5. ServerKept
    BY <1>1, <1>4 DEF ServerKept, Inv, Stored
  <1>6. Mine'
    BY <1>1 DEF HandsOff, Inv, Mine
  <1>7. Ready'
    BY <1>1, SyncSame
  <1>8. Clean'
    BY <1>1 DEF Clean
  <1>9. /\ Filed(sentNames', minted) /\ faults' \in Nat /\ faults' # 0
        /\ \A a \in DOMAIN sentBraces' : sentBraces'[a][1] \in 1..minted
    BY <1>1 DEF Inv, Stored
  <1> QED BY <1>1, <1>5, <1>6, <1>7, <1>8, <1>9, HandsOffKeeps

--------------------------------------------------------------------------------
(* A merge.                                                                     *)

(* The drafts are the braces of the document, with their spans.                 *)
LEMMA DraftFacts ==
    ASSUME Inv
    PROVE  /\ \A x \in Drafts(doc) :
                /\ x.unit \in DOMAIN doc /\ x.brace \in DOMAIN doc[x.unit].braces
                /\ x.span = Span(doc[x.unit].text, doc[x.unit].braces[x.brace])
           /\ \A u \in DOMAIN doc : \A a \in DOMAIN doc[u].braces :
                \E x \in Drafts(doc) : x.unit = u /\ x.brace = a
  <1>1. PICK D : D = Drafts(doc)
    OBVIOUS
  <1>2. D = UNION {{[brace |-> a, unit |-> u, span |-> Span(doc[u].text, doc[u].braces[a])] :
                        a \in DOMAIN doc[u].braces} : u \in DOMAIN doc}
    BY <1>1 DEF Drafts
  <1>3. ASSUME NEW x \in D
        PROVE  /\ x.unit \in DOMAIN doc /\ x.brace \in DOMAIN doc[x.unit].braces
               /\ x.span = Span(doc[x.unit].text, doc[x.unit].braces[x.brace])
    <2>1. PICK u \in DOMAIN doc : \E a \in DOMAIN doc[u].braces :
                x = [brace |-> a, unit |-> u, span |-> Span(doc[u].text, doc[u].braces[a])]
      BY <1>2
    <2>2. PICK a \in DOMAIN doc[u].braces :
                x = [brace |-> a, unit |-> u, span |-> Span(doc[u].text, doc[u].braces[a])]
      BY <2>1
    <2> QED BY <2>2
  <1>4. ASSUME NEW u \in DOMAIN doc, NEW a \in DOMAIN doc[u].braces
        PROVE  \E x \in D : x.unit = u /\ x.brace = a
    <2>1. PICK x : x = [brace |-> a, unit |-> u, span |-> Span(doc[u].text, doc[u].braces[a])]
      OBVIOUS
    <2>2. x.unit = u /\ x.brace = a
      BY <2>1
    <2>3. x \in D
      BY <1>2, <2>1
    <2> QED BY <2>2, <2>3
  <1> QED BY <1>1, <1>3, <1>4

(* Spans put over another text mark phrases of it, over the same text the       *)
(* phrases they came from.                                                      *)
LEMMA BracedFacts ==
    ASSUME Inv, NEW u, NEW t, IsText(t, gestures), NEW br, br = Braced(Drafts(doc), u, t)
    PROVE  /\ IsMap(br) /\ Within(br, minted) /\ Phrases(br, t)
           /\ u \in DOMAIN doc /\ t = doc[u].text => br = doc[u].braces
  <1>1. PICK here : here = {d \in Drafts(doc) : d.unit = u /\ Covered(t, d.span) # {}}
    OBVIOUS
  <1>2. br = [a \in {d.brace : d \in here} |-> Covered(t, (CHOOSE d \in here : d.brace = a).span)]
    BY <1>1 DEF Braced
  <1>3. DOMAIN br = {d.brace : d \in here}
    BY <1>2
  <1>4. ASSUME NEW a \in DOMAIN br
        PROVE  /\ u \in DOMAIN doc /\ a \in DOMAIN doc[u].braces
               /\ br[a] = Covered(t, Span(doc[u].text, doc[u].braces[a])) /\ br[a] # {}
    <2>1. PICK d : d = CHOOSE x \in here : x.brace = a
      OBVIOUS
    <2>2. d \in here /\ d.brace = a
      BY <1>3, <2>1
    <2>3. br[a] = Covered(t, d.span)
      BY <1>2, <1>3, <2>1
    <2>4. d \in Drafts(doc) /\ d.unit = u /\ Covered(t, d.span) # {}
      BY <1>1, <2>2
    <2>5. u \in DOMAIN doc /\ a \in DOMAIN doc[u].braces /\ d.span = Span(doc[u].text, doc[u].braces[a])
      BY <2>2, <2>4, DraftFacts
    <2> QED BY <2>3, <2>4, <2>5
  <1>5. IsMap(br)
    BY <1>2 DEF IsMap
  <1>6. Within(br, minted)
    BY <1>4, BlockFacts DEF Within
  <1>7. ASSUME NEW a \in DOMAIN br
        PROVE  IsPhrase(br[a], t)
    <2>1. u \in DOMAIN doc
      BY <1>4
    <2>2. IsText(doc[u].text, gestures) /\ IsPhrase(doc[u].braces[a], doc[u].text)
      BY <1>4, <2>1, BlockFacts
    <2>3. Covered(t, Span(doc[u].text, doc[u].braces[a])) # {} =>
                IsPhrase(Covered(t, Span(doc[u].text, doc[u].braces[a])), t)
      BY <2>2, SpanOfPhrase
    <2> QED BY <1>4, <2>3
  <1>8. ASSUME u \in DOMAIN doc, t = doc[u].text
        PROVE  br = doc[u].braces
    <2>1. ASSUME NEW a \in DOMAIN doc[u].braces
          PROVE  /\ Covered(t, Span(doc[u].text, doc[u].braces[a])) = doc[u].braces[a]
                 /\ a \in DOMAIN br
      <3>1. IsText(doc[u].text, gestures) /\ IsPhrase(doc[u].braces[a], doc[u].text)
        BY <1>8, BlockFacts
      <3>2. /\ Covered(t, Span(doc[u].text, doc[u].braces[a])) = doc[u].braces[a]
            /\ doc[u].braces[a] # {}
        BY <1>8, <3>1, SpanOfPhrase
      <3>3. PICK x \in Drafts(doc) : x.unit = u /\ x.brace = a
        BY <1>8, DraftFacts
      <3>4. x.span = Span(doc[u].text, doc[u].braces[a])
        BY <3>3, DraftFacts
      <3>5. x \in here
        BY <1>1, <3>2, <3>3, <3>4
      <3> QED BY <1>3, <3>2, <3>3, <3>5
    <2>2. DOMAIN br = DOMAIN doc[u].braces
      BY <1>4, <2>1
    <2>3. \A a \in DOMAIN br : br[a] = doc[u].braces[a]
      BY <1>4, <2>1
    <2>4. IsMap(doc[u].braces)
      BY <1>8, BlockFacts
    <2> QED BY <1>5, <2>2, <2>3, <2>4 DEF IsMap
  <1>9. Phrases(br, t)
    BY <1>7 DEF Phrases
  <1> QED BY <1>5, <1>6, <1>8, <1>9

(* The types kept over a merge are those the user chose.                        *)
LEMMA IntentFacts ==
    ASSUME Inv
    PROVE  /\ \A k \in TypeIntents(doc, prior) :
                /\ k[1] \in DOMAIN doc /\ k[2] = doc[k[1]].type /\ k[1] \in retyped
           /\ \A u \in DOMAIN doc : doc[u].type # BaseType(u) =>
                \E k \in TypeIntents(doc, prior) : k[1] = u
  <1>1. ASSUME NEW k \in TypeIntents(doc, prior)
        PROVE  k[1] \in DOMAIN doc /\ k[2] = doc[k[1]].type /\ k[1] \in retyped
    <2>1. PICK u \in DOMAIN doc :
            /\ k = <<u, doc[u].type>>
            /\ \/ u \in DOMAIN prior /\ doc[u].type # prior[u].type
               \/ u \notin DOMAIN prior /\ doc[u].type # NoType
      BY DEF TypeIntents, TypeNeeds
    <2>2. u \in retyped
      BY <2>1 DEF Inv, Mine
    <2> QED BY <2>1, <2>2
  <1>2. ASSUME NEW u \in DOMAIN doc, doc[u].type # BaseType(u)
        PROVE  \E k \in TypeIntents(doc, prior) : k[1] = u
    <2>1. <<u, doc[u].type>> \in TypeIntents(doc, prior)
      BY <1>2 DEF TypeIntents, TypeNeeds, BaseType
    <2> QED BY <2>1
  <1> QED BY <1>1, <1>2

(* What is on the screen after a merge, of a content m.                         *)
LEMMA ReprojectedFacts ==
    ASSUME Inv, NEW m, IsContent(m, gestures, minted), NEW d,
           d = Reprojected(doc, m, TypeIntents(doc, prior))
    PROVE  /\ IsPage(d, gestures, minted)
           /\ DOMAIN d = DOMAIN m
           /\ \A u \in DOMAIN m :
                /\ d[u].type = m[u].type \/ u \in retyped
                /\ u \in DOMAIN doc =>
                    /\ d[u].names = doc[u].names
                    /\ d[u].text = doc[u].text => d[u].braces = doc[u].braces
                    /\ doc[u].type # BaseType(u) => d[u].type = doc[u].type
  <1>1. PICK keep : keep = TypeIntents(doc, prior)
    OBVIOUS
  <1>2. DOMAIN d = DOMAIN m
    BY DEF Reprojected
  <1>3. ASSUME NEW u \in DOMAIN m
        PROVE  /\ u \in 1..minted /\ InPage(d[u], gestures, minted)
               /\ d[u].type = m[u].type \/ u \in retyped
               /\ u \in DOMAIN doc =>
                    /\ d[u].names = doc[u].names
                    /\ d[u].text = doc[u].text => d[u].braces = doc[u].braces
                    /\ doc[u].type # BaseType(u) => d[u].type = doc[u].type
    <2>1. PICK t, y, nm, br :
            /\ t = m[u].text
            /\ y = (IF \E k \in keep : k[1] = u THEN (CHOOSE k \in keep : k[1] = u)[2] ELSE m[u].type)
            /\ nm = (IF u \in DOMAIN doc THEN doc[u].names ELSE NoNames)
            /\ br = Braced(Drafts(doc), u, t)
      OBVIOUS
    <2>2. d[u] = Block(t, y, nm, br)
      BY <1>1, <2>1 DEF Reprojected, Block
    <2>3. u \in 1..minted /\ IsText(t, gestures) /\ m[u].type \in Type \cup {NoType}
      BY <2>1 DEF IsContent, IsUnit
    <2>4. IsMap(br) /\ Within(br, minted) /\ Phrases(br, t)
      BY <2>1, <2>3, BracedFacts
    <2>5. u \in DOMAIN doc /\ t = doc[u].text => br = doc[u].braces
      BY <2>1, <2>3, BracedFacts
    <2>6. Within(nm, minted)
      BY <2>1, BlockFacts DEF NoNames, Within
    <2>7. /\ y \in Type \cup {NoType}
          /\ y = m[u].type \/ u \in retyped
          /\ (\E k \in keep : k[1] = u) => u \in DOMAIN doc /\ y = doc[u].type
      <3>1. CASE \E k \in keep : k[1] = u
        <4>1. PICK k : k = CHOOSE x \in keep : x[1] = u
          OBVIOUS
        <4>2. k \in keep /\ k[1] = u
          BY <3>1, <4>1
        <4>3. y = k[2]
          BY <2>1, <3>1, <4>1
        <4>4. u \in DOMAIN doc /\ y = doc[u].type /\ u \in retyped
          BY <1>1, <4>2, <4>3, IntentFacts
        <4> QED BY <4>4, BlockFacts
      <3>2. CASE ~ \E k \in keep : k[1] = u
        <4>1. y = m[u].type
          BY <2>1, <3>2
        <4> QED BY <2>3, <3>2, <4>1
      <3> QED BY <3>1, <3>2
    <2>8. InPage(d[u], gestures, minted) /\ d[u].type = y /\ d[u].names = nm
      BY <2>2, <2>3, <2>4, <2>6, <2>7, AsBlock
    <2>9. d[u].text = t /\ d[u].braces = br
      BY <2>2 DEF Block
    <2>10. u \in DOMAIN doc /\ doc[u].type # BaseType(u) => y = doc[u].type
      BY <1>1, <2>7, IntentFacts
    <2> QED BY <2>1, <2>3, <2>5, <2>7, <2>8, <2>9, <2>10
  <1>4. IsPage(d, gestures, minted)
    BY <1>2, <1>3 DEF IsPage
  <1> QED BY <1>2, <1>3, <1>4

(* A merge gives units the types of the server, and lacks only what the user    *)
(* deleted.                                                                     *)
LEMMA MergedFacts ==
    ASSUME Inv, NEW mine, mine = Delta(doc, prior), ~Clash(prior, units, mine),
           NEW m, m = Merged(prior, units, mine)
    PROVE  /\ IsContent(m, gestures, minted)
           /\ \A u \in DOMAIN m : m[u].type = IF u \in DOMAIN units THEN units[u].type ELSE NoType
           /\ \A u \in DOMAIN units \ DOMAIN m : u \in retyped
  <1>1. PICK up, del : up = mine.upserts /\ del = mine.deletes
    OBVIOUS
  <1>2. /\ IsContent(up, gestures, minted)
        /\ \A u \in DOMAIN up : up[u].type = IF u \in DOMAIN prior THEN prior[u].type ELSE NoType
        /\ del \subseteq retyped
    BY <1>1, DeltaReady
  <1>3. /\ \A u \in DOMAIN up \ DOMAIN prior : u \notin DOMAIN units
        /\ \A u \in DOMAIN up \cap DOMAIN prior : u \in DOMAIN units
    BY <1>1 DEF Clash
  <1>4. m = [u \in (DOMAIN units \ del) \cup (DOMAIN up \ DOMAIN prior) |->
                IF u \notin DOMAIN up THEN units[u]
                ELSE IF u \in DOMAIN prior THEN [units[u] EXCEPT !.text = up[u].text]
                ELSE up[u]]
    BY <1>1 DEF Merged
  <1>5. \A u \in DOMAIN units : IsUnit(units[u], gestures) /\ u \in 1..minted
    BY DEF Inv, Stored, IsContent
  <1>6. ASSUME NEW u \in DOMAIN m
        PROVE  /\ u \in 1..minted /\ IsUnit(m[u], gestures)
               /\ m[u].type = IF u \in DOMAIN units THEN units[u].type ELSE NoType
    <2>1. CASE u \notin DOMAIN up
      <3>1. u \in DOMAIN units /\ m[u] = units[u]
        BY <1>4, <2>1
      <3> QED BY <1>5, <3>1
    <2>2. CASE u \in DOMAIN up /\ u \in DOMAIN prior
      <3>1. u \in DOMAIN units /\ m[u] = [units[u] EXCEPT !.text = up[u].text]
        BY <1>3, <1>4, <2>2
      <3>2. IsUnit(units[u], gestures)
        BY <1>5, <3>1
      <3>3. m[u] = [text |-> up[u].text, type |-> units[u].type]
        BY <3>1, <3>2 DEF IsUnit
      <3>4. /\ m[u].text = up[u].text /\ m[u].type = units[u].type
            /\ m[u] = [text |-> m[u].text, type |-> m[u].type]
        BY <3>3
      <3>5. IsText(up[u].text, gestures)
        BY <1>2, <2>2 DEF IsContent, IsUnit
      <3>6. IsUnit(m[u], gestures)
        BY <3>2, <3>4, <3>5 DEF IsUnit
      <3> QED BY <1>5, <3>1, <3>4, <3>6
    <2>3. CASE u \in DOMAIN up /\ u \notin DOMAIN prior
      <3>1. m[u] = up[u] /\ u \notin DOMAIN units
        BY <1>3, <1>4, <2>3
      <3> QED BY <1>2, <2>3, <3>1 DEF IsContent
    <2> QED BY <2>1, <2>2, <2>3
  <1>7. IsContent(m, gestures, minted)
    BY <1>6 DEF IsContent
  <1>8. \A u \in DOMAIN units \ DOMAIN m : u \in retyped
    BY <1>2, <1>4
  <1> QED BY <1>6, <1>7, <1>8

(* A merge finds another revision, so there was a fault, and nothing is claimed *)
(* of what was sent.                                                            *)
LEMMA MergeKeeps ==
    ASSUME Inv, Merge
    PROVE  Inv'
  <1>1. PICK mine, merged, rebased :
            /\ mine = Delta(doc, prior) /\ merged = Merged(prior, units, mine)
            /\ rebased = Rebased(merged, units)
    OBVIOUS
  <1>2. /\ revision > priorRev /\ faults' = faults
        /\ UNCHANGED <<units, revision, handles, targets, minted, gestures, retyped, restored>>
        /\ sentNames' = sentNames /\ sentBraces' = sentBraces
    BY DEF Merge, server, user, sent
  <1>3. CASE Clash(prior, units, mine)
    <2>1. Local /\ sync' = [Idle EXCEPT !.pc = "conflict"]
      BY <1>1, <1>3 DEF Merge, Local, HandsOff, user
    <2>2. "conflict" \notin Saves \cup Clears \cup {"type", "name", "braces", "idle"}
      BY DEF Saves, Clears
    <2> QED BY <2>1, <2>2, Phased, Waits
  <1>4. CASE ~Clash(prior, units, mine)
    <2>1. MergeOntoScreen(merged)
      BY <1>1, <1>4 DEF Merge
    <2>2. \/ \E clear \in Clears, put \in Saves : \E tries : ToSave(rebased, units, clear, put, tries)
          \/ \E tries : ToTypes(units, tries)
          \/ sync' = [Idle EXCEPT !.pc = "conflict"]
      <3>1. /\ "mergeClear" \in Clears /\ "mergePut" \in Saves
            /\ "typeClear" \in Clears /\ "typePut" \in Saves
        BY DEF Clears, Saves
      <3>2. \/ ToSave(rebased, units, "mergeClear", "mergePut", 0)
            \/ ToSave(rebased, units, "typeClear", "typePut", sync.tries)
            \/ ToTypes(units, 0)
            \/ ToTypes(units, sync.tries + 1)
            \/ sync' = [Idle EXCEPT !.pc = "conflict"]
        BY <1>1, <1>4 DEF Merge
      <3> QED BY <3>1, <3>2
    <2>3. /\ doc' = Reprojected(doc, merged, TypeIntents(doc, prior)) /\ DOMAIN deleted' = {}
          /\ prior' = units /\ priorRev' = revision
      BY <2>1 DEF MergeOntoScreen
    <2>4. /\ IsContent(merged, gestures, minted)
          /\ \A u \in DOMAIN merged :
                merged[u].type = IF u \in DOMAIN units THEN units[u].type ELSE NoType
          /\ \A u \in DOMAIN units \ DOMAIN merged : u \in retyped
      BY <1>1, <1>4, MergedFacts
    <2>5. /\ IsPage(doc', gestures, minted) /\ DOMAIN doc' = DOMAIN merged
          /\ \A u \in DOMAIN merged : doc'[u].type = merged[u].type \/ u \in retyped
      BY <2>3, <2>4, ReprojectedFacts
    <2>6. Mine'
      BY <1>2, <2>3, <2>4, <2>5 DEF Mine
    <2>7. Stored'
      <3>1. IsPage(deleted', gestures, minted)
        BY <2>3 DEF IsPage
      <3> QED BY <1>2, <2>3, <2>5, <3>1 DEF Inv, Stored
    <2>8. Based'
      <3>1. revision \in Nat
        BY DEF Inv, Stored
      <3> QED BY <1>2, <2>3, <3>1 DEF Based
    <2>9. faults' # 0
      BY <1>2 DEF Inv, Stored, Unlost
    <2>10. IsPage(doc', gestures', minted') /\ Filed(sentNames', minted')
      BY <1>2, <2>5 DEF Inv, Stored
    <2>11. Ready' /\ Clean'
      <3>1. ASSUME NEW clear \in Clears, NEW put \in Saves, NEW tries,
                   ToSave(rebased, units, clear, put, tries)
            PROVE  Ready' /\ Clean'
        <4>1. ToSave(rebased, prior', clear, put, tries)
          BY <2>3, <3>1
        <4>2. rebased = [upserts |-> rebased.upserts, deletes |-> rebased.deletes]
          BY <1>1 DEF Rebased
        <4>3. rebased.deletes = DOMAIN units \ DOMAIN merged
          BY <1>1 DEF Rebased
        <4>4. /\ DOMAIN rebased.upserts \subseteq DOMAIN merged
              /\ \A u \in DOMAIN rebased.upserts : rebased.upserts[u] = merged[u]
          BY <1>1 DEF Rebased, Restrict
        <4>5. IsContent(rebased.upserts, gestures', minted')
          BY <1>2, <2>4, <4>4 DEF IsContent
        <4>6. \A u \in DOMAIN rebased.upserts :
                /\ u \notin rebased.deletes
                /\ u \in DOMAIN doc' \/ u \in retyped'
                /\ rebased.upserts[u].type = IF u \in DOMAIN prior' THEN prior'[u].type ELSE NoType
          BY <2>3, <2>4, <2>5, <4>3, <4>4
        <4>7. \A u \in rebased.deletes :
                /\ u \in DOMAIN prior' /\ u \in retyped'
                /\ u \notin DOMAIN doc' \/ u \in restored'
          BY <1>2, <2>3, <2>4, <2>5, <4>3
        <4> QED BY <4>1, <4>2, <4>5, <4>6, <4>7, SaveStarts
      <3>2. ASSUME NEW tries, ToTypes(units, tries)
            PROVE  Ready' /\ Clean'
        <4>1. ToTypes(prior', tries)
          BY <2>3, <3>2
        <4> QED BY <1>2, <2>6, <2>10, <4>1, TypesEnd DEF Ended
      <3>3. CASE sync' = [Idle EXCEPT !.pc = "conflict"]
        <4>1. /\ sync'.pc = "conflict"
              /\ sync' = [pc |-> sync'.pc, body |-> sync'.body, queue |-> sync'.queue,
                          tries |-> sync'.tries, failed |-> sync'.failed]
          BY <3>3, Phased
        <4>2. "conflict" \notin Saves \cup Clears
          BY DEF Saves, Clears
        <4> QED BY <4>1, <4>2 DEF Ready, Clean
      <3> QED BY <2>2, <3>1, <3>2, <3>3
    <2> QED BY <2>6, <2>7, <2>8, <2>9, <2>11 DEF Inv
  <1> QED BY <1>3, <1>4

--------------------------------------------------------------------------------
(* The day as it is opened.                                                     *)

(* A handle, and a brace, is of one block.                                      *)
LEMMA StartFacts ==
    ASSUME NEW s, IsStart(s)
    PROVE  /\ \A x \in HandlesOf(s) : x.unit \in DOMAIN s /\ x.handle \in DOMAIN s[x.unit].names
           /\ \A u \in DOMAIN s : \A h \in DOMAIN s[u].names :
                h \in {x.handle : x \in HandlesOf(s)}
           /\ \A x, y \in Drafts(s) : x.brace = y.brace => x = y
           /\ \A u \in DOMAIN s : DOMAIN s[u].braces \subseteq DraftIds(s)
  <1>1. \A x \in HandlesOf(s) : x.unit \in DOMAIN s /\ x.handle \in DOMAIN s[x.unit].names
    BY DEF HandlesOf
  <1>2. ASSUME NEW u \in DOMAIN s, NEW h \in DOMAIN s[u].names
        PROVE  h \in {x.handle : x \in HandlesOf(s)}
    <2>1. PICK x : x = [handle |-> h, unit |-> u, name |-> s[u].names[h]]
      OBVIOUS
    <2>2. x \in HandlesOf(s)
      BY <2>1 DEF HandlesOf
    <2>3. x.handle = h
      BY <2>1
    <2> QED BY <2>2, <2>3
  <1>3. ASSUME NEW x \in Drafts(s)
        PROVE  /\ x.unit \in DOMAIN s /\ x.brace \in DOMAIN s[x.unit].braces
               /\ x = [brace |-> x.brace, unit |-> x.unit,
                       span |-> Span(s[x.unit].text, s[x.unit].braces[x.brace])]
    <2>1. PICK u \in DOMAIN s : \E a \in DOMAIN s[u].braces :
            x = [brace |-> a, unit |-> u, span |-> Span(s[u].text, s[u].braces[a])]
      BY DEF Drafts
    <2>2. PICK a \in DOMAIN s[u].braces :
            x = [brace |-> a, unit |-> u, span |-> Span(s[u].text, s[u].braces[a])]
      BY <2>1
    <2> QED BY <2>2
  <1>4. ASSUME NEW x \in Drafts(s), NEW y \in Drafts(s), x.brace = y.brace
        PROVE  x = y
    <2>1. DOMAIN s[x.unit].braces \cap DOMAIN s[y.unit].braces # {}
      BY <1>3, <1>4
    <2>2. x.unit = y.unit
      BY <1>3, <2>1 DEF IsStart
    <2> QED BY <1>3, <1>4, <2>2
  <1>5. ASSUME NEW u \in DOMAIN s, NEW a \in DOMAIN s[u].braces
        PROVE  a \in DraftIds(s)
    <2>1. PICK x : x = [brace |-> a, unit |-> u, span |-> Span(s[u].text, s[u].braces[a])]
      OBVIOUS
    <2>2. x \in Drafts(s)
      BY <2>1 DEF Drafts
    <2>3. x.brace = a
      BY <2>1
    <2> QED BY <2>2, <2>3 DEF DraftIds
  <1> QED BY <1>1, <1>2, <1>4, <1>5

LEMMA InitInv == Init => Inv
  <1> SUFFICES ASSUME Init
               PROVE  Inv
    OBVIOUS
  <1>1. PICK s \in Starts :
            doc = s /\ minted = Max(DOMAIN s \cup DraftIds(s) \cup {h.handle : h \in HandlesOf(s)})
    BY DEF Init
  <1>2. IsStart(s)
    BY AxesAssumption
  <1>3. PICK n \in 1..MaxId : DOMAIN s \cup DraftIds(s) \cup {h.handle : h \in HandlesOf(s)} = 1..n
    BY <1>2 DEF IsStart
  <1>4. minted = n /\ minted \in Nat
    <2>1. n \in Nat /\ n \in 1..n /\ \A x \in 1..n : n >= x
      BY <1>3, AxesAssumption
    <2>2. minted \in 1..n /\ \A x \in 1..n : minted >= x
      BY <1>1, <1>3, <2>1 DEF Max
    <2> QED BY <2>1, <2>2
  <1>5. /\ revision = 0 /\ priorRev = 0 /\ gestures = 0 /\ faults = 0
        /\ deleted = << >> /\ prior = units /\ sentNames = handles /\ sentBraces = targets
        /\ sync = Idle
    BY DEF Init
  <1>6. /\ \A x \in HandlesOf(doc) : x.unit \in DOMAIN doc /\ x.handle \in DOMAIN doc[x.unit].names
        /\ \A u \in DOMAIN doc : \A h \in DOMAIN doc[u].names : h \in {x.handle : x \in HandlesOf(doc)}
        /\ \A x, y \in Drafts(doc) : x.brace = y.brace => x = y
        /\ \A u \in DOMAIN doc : DOMAIN doc[u].braces \subseteq DraftIds(doc)
    BY <1>1, <1>2, StartFacts
  <1>7. /\ DOMAIN doc \subseteq 1..minted /\ DraftIds(doc) \subseteq 1..minted
        /\ {x.handle : x \in HandlesOf(doc)} \subseteq 1..minted
    BY <1>1, <1>3, <1>4
  <1>8. /\ DOMAIN units = DOMAIN doc
        /\ \A u \in DOMAIN doc : units[u] = [text |-> doc[u].text, type |-> doc[u].type]
    BY DEF Init
  <1>9. DOMAIN deleted = {}
    BY <1>5
  <1>10. /\ DOMAIN handles = {x.handle : x \in HandlesOf(doc)}
         /\ \A h \in DOMAIN handles :
                /\ handles[h].unit \in DOMAIN doc /\ h \in DOMAIN doc[handles[h].unit].names
                /\ handles[h] = [unit |-> handles[h].unit, name |-> handles[h].name]
    <2>1. handles = [h \in {x.handle : x \in HandlesOf(doc)} |->
                        LET x == CHOOSE y \in HandlesOf(doc) : y.handle = h
                        IN  [unit |-> x.unit, name |-> x.name]]
      BY DEF Init
    <2>2. DOMAIN handles = {x.handle : x \in HandlesOf(doc)}
      BY <2>1
    <2>3. ASSUME NEW h \in DOMAIN handles
          PROVE  /\ handles[h].unit \in DOMAIN doc /\ h \in DOMAIN doc[handles[h].unit].names
                 /\ handles[h] = [unit |-> handles[h].unit, name |-> handles[h].name]
      <3>1. PICK x : x = CHOOSE y \in HandlesOf(doc) : y.handle = h
        OBVIOUS
      <3>2. \E y \in HandlesOf(doc) : y.handle = h
        BY <2>2
      <3>3. x \in HandlesOf(doc) /\ x.handle = h
        BY <3>1, <3>2
      <3>4. handles[h] = [unit |-> x.unit, name |-> x.name]
        BY <2>1, <2>2, <3>1
      <3> QED BY <1>6, <3>3, <3>4
    <2> QED BY <2>2, <2>3
  <1>11. /\ DOMAIN targets = DraftIds(doc)
         /\ \A x \in Drafts(doc) : targets[x.brace] = <<x.unit, x.span>>
         /\ \A a \in DOMAIN targets : targets[a][1] \in DOMAIN doc
    <2>1. targets = [a \in DraftIds(doc) |->
                        LET d == CHOOSE x \in Drafts(doc) : x.brace = a IN <<d.unit, d.span>>]
      BY DEF Init
    <2>2. DOMAIN targets = DraftIds(doc)
      BY <2>1
    <2>3. ASSUME NEW x \in Drafts(doc)
          PROVE  targets[x.brace] = <<x.unit, x.span>>
      <3>1. x.brace \in DraftIds(doc)
        BY DEF DraftIds
      <3>2. (CHOOSE y \in Drafts(doc) : y.brace = x.brace) = x
        BY <1>6
      <3> QED BY <2>1, <3>1, <3>2
    <2>4. \A x \in Drafts(doc) : x.unit \in DOMAIN doc
      BY DEF Drafts
    <2>5. ASSUME NEW a \in DOMAIN targets
          PROVE  targets[a][1] \in DOMAIN doc
      <3>1. PICK x \in Drafts(doc) : x.brace = a
        BY <2>2 DEF DraftIds
      <3> QED BY <2>3, <2>4, <3>1
    <2> QED BY <2>2, <2>3, <2>5
  <1>12. \A u \in DOMAIN doc : IsBlock(doc[u]) /\ IsText(doc[u].text, 0)
    <2>1. \A u \in DOMAIN doc : IsBlock(doc[u]) /\ Words(doc[u].text) \cap 1..MaxGesture = {}
      BY <1>1, <1>2 DEF IsStart
    <2>2. 0 + 1 = 1
      OBVIOUS
    <2> QED BY <2>1, <2>2 DEF IsBlock, IsText
  <1>13. IsPage(doc, 0, minted)
    BY <1>6, <1>7, <1>12 DEF IsPage, InPage
  <1>14. IsContent(units, 0, minted)
    <2>1. \A u \in DOMAIN doc : doc[u].type \in Type \cup {NoType}
      BY <1>12 DEF IsBlock
    <2>2. \A u \in DOMAIN units : units[u].text = doc[u].text /\ units[u].type = doc[u].type
      BY <1>8
    <2> QED BY <1>7, <1>8, <1>12, <2>1, <2>2 DEF IsContent, IsUnit
  <1>15. Stored
    <2>1. IsPage(deleted, 0, minted)
      BY <1>9 DEF IsPage
    <2>2. Filed(handles, minted)
      BY <1>7, <1>10 DEF Filed
    <2>3. \A a \in DOMAIN targets : targets[a][1] \in 1..minted
      BY <1>7, <1>11
    <2>4. 0 \in 0..MaxGesture
      BY AxesAssumption
    <2> QED BY <1>4, <1>5, <1>13, <1>14, <2>1, <2>2, <2>3, <2>4 DEF Stored
  <1>16. Based
    BY <1>5 DEF Based
  <1>17. Ready
    <2>1. /\ sync.pc = "idle"
          /\ sync = [pc |-> sync.pc, body |-> sync.body, queue |-> sync.queue,
                     tries |-> sync.tries, failed |-> sync.failed]
      BY <1>5 DEF Idle
    <2> QED BY <2>1 DEF Ready, Saves, Clears
  <1>18. Mine
    BY <1>5, <1>8 DEF Mine
  <1>19. Clean
    <2>1. NoDelta(Delta(doc, prior))
      BY <1>5, <1>8 DEF NoDelta, Delta
    <2>2. TypeIntents(doc, prior) = {}
      BY <1>5, <1>8 DEF TypeIntents, TypeNeeds
    <2>3. PICK p : p = Pending(doc, prior, sentBraces)
      OBVIOUS
    <2>4. p.deletes = {}
      BY <1>5, <1>11, <2>3 DEF Pending
    <2>5. p.upserts = {}
      <3>1. \A x \in p.upserts :
                /\ x \in Drafts(doc)
                /\ x.brace \in DOMAIN targets => targets[x.brace] # <<x.unit, x.span>>
        BY <1>5, <2>3 DEF Pending
      <3>2. \A x \in Drafts(doc) : x.brace \in DOMAIN targets
        BY <1>11 DEF DraftIds
      <3>3. ASSUME NEW x \in p.upserts
            PROVE  FALSE
        <4>1. x \in Drafts(doc) /\ x.brace \in DOMAIN targets
          BY <3>1, <3>2
        <4>2. targets[x.brace] = <<x.unit, x.span>>
          BY <1>11, <4>1
        <4> QED BY <3>1, <4>1, <4>2
      <3> QED BY <3>3
    <2>6. NothingPending(Pending(doc, prior, sentBraces))
      BY <2>3, <2>4, <2>5 DEF NothingPending
    <2> QED BY <2>1, <2>2, <2>6 DEF Clean
  <1>20. Unlost
    <2>1. \A h, u : Homed(h, u) => u \in DOMAIN doc /\ h \in DOMAIN doc[u].names
      <3>1. sync.pc = "idle"
        BY <1>5 DEF Idle
      <3> QED BY <1>5, <1>9, <1>10, <3>1 DEF Homed
    <2>2. \A u, v \in DOMAIN doc : \A h : h \in DOMAIN doc[u].names /\ h \in DOMAIN doc[v].names => u = v
      BY <1>1, <1>2 DEF IsStart
    <2>3. Titled(doc) /\ Titled(deleted)
      BY <1>1, <1>2, <1>9 DEF IsStart, Titled
    <2> QED BY <1>5, <2>1, <2>2, <2>3 DEF Unlost
  <1> QED BY <1>15, <1>16, <1>17, <1>18, <1>19, <1>20 DEF Inv

--------------------------------------------------------------------------------
(* The invariant.                                                               *)

LEMMA StutterKeeps ==
    ASSUME Inv, UNCHANGED vars
    PROVE  Inv'
  <1>1. Local /\ sync' = sync /\ status' = status
    BY DEF vars, Local, HandsOff, server, baseline, sent
  <1>2. HandsOff /\ prior' = prior /\ sentBraces' = sentBraces
    BY <1>1, LocalFacts DEF Local
  <1>3. Ready' /\ Naming
    BY <1>1, <1>2, SyncSame
  <1>4. Clean'
    BY <1>1, <1>2 DEF Inv, Clean, HandsOff
  <1> QED BY <1>1, <1>3, <1>4, LocalKeeps

LEMMA NextInv == Inv /\ [Next]_vars => Inv'
  <1> SUFFICES ASSUME Inv, [Next]_vars
               PROVE  Inv'
    OBVIOUS
  <1>1. CASE Gesture
    BY <1>1, Gestures
  <1>2. CASE Sync
    BY <1>2, FlushNothingKeeps, FlushSaveKeeps, FlushFacetsKeeps, ClearAcceptedKeeps,
       SaveAcceptedKeeps, SaveRefusedKeeps, MergeRefusedKeeps, RetryRefusedKeeps, MergeKeeps,
       TypeAcceptedKeeps, TypeRefusedKeeps, NameAcceptedKeeps, NameRefusedKeeps,
       BracesAcceptedKeeps, BracesRefusedKeeps DEF Sync
  <1>3. CASE Fail
    BY <1>3, FailKeeps
  <1>4. CASE OtherDevice
    BY <1>4, OtherDeviceKeeps
  <1>5. CASE UNCHANGED vars
    BY <1>5, StutterKeeps
  <1> QED BY <1>1, <1>2, <1>3, <1>4, <1>5 DEF Next

(* Whatever day is opened and whatever happens, the baseline is a content the   *)
(* server had, what a flush is about to send is acceptable to that baseline and *)
(* the user's own, and without a fault the server has what was sent.            *)
THEOREM AxesInvariant == Spec => []Inv
  BY InitInv, NextInv, PTL DEF Spec

--------------------------------------------------------------------------------
(* What follows.                                                                *)

(* "All saved" holds the text and the types that are on the screen, and without *)
(* a fault the braces, of any document and after any exchange with the server.  *)
THEOREM SavedIsOnServer == Spec => []CleanIsStored
  <1>1. Inv => CleanIsStored
    <2> SUFFICES ASSUME Inv, sync.pc = "idle", status = "clean"
                 PROVE  /\ DOMAIN prior \subseteq DOMAIN doc
                        /\ \A u \in DOMAIN doc :
                            IF u \in DOMAIN prior
                            THEN [text |-> doc[u].text, type |-> doc[u].type] = prior[u]
                            ELSE doc[u].text = << >> /\ doc[u].type = NoType
                        /\ faults = 0 =>
                            /\ \A d \in Drafts(doc) :
                                d.unit \notin restored =>
                                    d.brace \in DOMAIN targets /\ targets[d.brace] = <<d.unit, d.span>>
                            /\ DOMAIN targets \subseteq DraftIds(doc)
      BY DEF CleanIsStored
    <2>1. /\ NoDelta(Delta(doc, prior)) /\ TypeIntents(doc, prior) = {}
          /\ NothingPending(Pending(doc, prior, sentBraces))
      BY DEF Inv, Clean
    <2>2. /\ DOMAIN prior \subseteq DOMAIN doc
          /\ \A u \in DOMAIN doc :
                IF u \in DOMAIN prior THEN doc[u].text = prior[u].text ELSE doc[u].text = << >>
      BY <2>1 DEF NoDelta, Delta, IsSent
    <2>3. \A u \in DOMAIN doc :
                IF u \in DOMAIN prior THEN doc[u].type = prior[u].type ELSE doc[u].type = NoType
      BY <2>1 DEF TypeIntents, TypeNeeds
    <2>4. \A u \in DOMAIN prior : prior[u] = [text |-> prior[u].text, type |-> prior[u].type]
      BY DEF Inv, Stored, IsContent, IsUnit
    <2>5. \A u \in DOMAIN doc :
                IF u \in DOMAIN prior
                THEN [text |-> doc[u].text, type |-> doc[u].type] = prior[u]
                ELSE doc[u].text = << >> /\ doc[u].type = NoType
      BY <2>2, <2>3, <2>4
    <2>6. ASSUME faults = 0
          PROVE  /\ \A d \in Drafts(doc) :
                        d.unit \notin restored =>
                            d.brace \in DOMAIN targets /\ targets[d.brace] = <<d.unit, d.span>>
                 /\ DOMAIN targets \subseteq DraftIds(doc)
      <3>1. PICK p : p = Pending(doc, prior, sentBraces)
        OBVIOUS
      <3>2. p.upserts = {} /\ p.deletes = {}
        BY <2>1, <3>1 DEF NothingPending
      <3>3. DOMAIN sentBraces \subseteq DraftIds(doc)
        BY <3>1, <3>2 DEF Pending
      <3>4. \A d \in Drafts(doc) : d.unit \in DOMAIN prior =>
                d.brace \in DOMAIN sentBraces /\ sentBraces[d.brace] = <<d.unit, d.span>>
        BY <3>1, <3>2 DEF Pending
      <3>5. /\ \A a \in DOMAIN sentBraces :
                    \/ Gone(sentBraces[a][1])
                    \/ a \in DOMAIN targets /\ targets[a] = sentBraces[a]
            /\ DOMAIN targets \subseteq DOMAIN sentBraces
        BY <2>6 DEF Inv, Unlost
      <3>6. ASSUME NEW d \in Drafts(doc), d.unit \notin restored
            PROVE  d.brace \in DOMAIN targets /\ targets[d.brace] = <<d.unit, d.span>>
        <4>1. d.unit \in DOMAIN doc /\ d.brace \in DOMAIN doc[d.unit].braces
          BY DraftFacts
        <4>2. IsPhrase(doc[d.unit].braces[d.brace], doc[d.unit].text)
          BY <4>1, BlockFacts
        <4>3. doc[d.unit].text # << >>
          <5>1. \E i \in DOMAIN doc[d.unit].text : TRUE
            BY <4>2 DEF IsPhrase
          <5> QED BY <5>1
        <4>4. d.unit \in DOMAIN prior
          BY <2>2, <4>1, <4>3
        <4>5. d.brace \in DOMAIN sentBraces /\ sentBraces[d.brace] = <<d.unit, d.span>>
          BY <3>4, <4>4
        <4>6. sentBraces[d.brace][1] = d.unit
          BY <4>5
        <4> QED BY <3>5, <3>6, <4>1, <4>5, <4>6 DEF Gone
      <3> QED BY <3>3, <3>5, <3>6
    <2> QED BY <2>2, <2>5, <2>6
  <1> QED BY <1>1, AxesInvariant, PTL

(* A save, a cleared type, a type and a name made at the server's revision are  *)
(* accepted by it: refusals come from other revisions only.                     *)
THEOREM SameRevisionAccepted == Spec => []CurrentNeverRefused
  <1>1. Inv => CurrentNeverRefused
    <2> SUFFICES ASSUME Inv, Fresh
                 PROVE  /\ sync.pc \in Saves => MaySave(units, sync.body)
                        /\ sync.pc \in Clears => sync.queue \subseteq DOMAIN units
                        /\ sync.pc = "type" => \A n \in sync.queue : n[1] \in DOMAIN units
                        /\ sync.pc = "name" => \A n \in sync.queue : n.unit \in DOMAIN units
      BY DEF CurrentNeverRefused
    <2>1. prior = units
      BY DEF Fresh, Inv, Based
    <2>2. sync.pc \in Saves => MaySave(units, sync.body)
      BY <2>1, Phases DEF MaySave, Inv, Ready, SaveReady
    <2>3. sync.pc \in Clears => sync.queue \subseteq DOMAIN units
      BY <2>1 DEF Inv, Ready, SaveReady
    <2>4. sync.pc = "type" => \A n \in sync.queue : n[1] \in DOMAIN units
      BY <2>1 DEF Inv, Ready, TypesReady
    <2>5. sync.pc = "name" => \A n \in sync.queue : n.unit \in DOMAIN units
      BY <2>1 DEF Inv, Ready, NamesReady
    <2> QED BY <2>2, <2>3, <2>4, <2>5
  <1> QED BY <1>1, AxesInvariant, PTL

(* Who writes no unit changes no type, and who sets a type sets the user's.     *)
LEMMA UnitsSame ==
    ASSUME UNCHANGED units
    PROVE  \A u \in DOMAIN units \cap DOMAIN units' :
                units'[u].type # units[u].type => u \in retyped
  OBVIOUS

LEMMA SetTypeMine ==
    ASSUME Inv, NEW u \in DOMAIN units, u \in retyped, NEW t \in Type \cup {NoType}, SetType(u, t)
    PROVE  \A v \in DOMAIN units \cap DOMAIN units' :
                units'[v].type # units[v].type => v \in retyped
  <1>1. units' = Retyped(units, u, t)
    BY DEF SetType, Write
  <1>2. IsContent(units, gestures, minted)
    BY DEF Inv, Stored
  <1>3. \A v \in DOMAIN units : units'[v].type = IF v = u THEN t ELSE units[v].type
    BY <1>1, <1>2, RetypedContent
  <1> QED BY <1>3

(* Whatever this device sends, it changes the type of a stored unit only if the *)
(* user chose another one there or deleted the unit.                            *)
THEOREM TypesAreMine == Spec => OnlyMyTypes
  <1>1. ASSUME Inv, [Next]_vars, faults' = faults
        PROVE  \A u \in DOMAIN units \cap DOMAIN units' :
                    units'[u].type # units[u].type => u \in retyped
    <2>1. CASE Gesture
      <3>1. UNCHANGED units
        BY <1>1, <2>1, Gestures DEF Gestured, server
      <3> QED BY <3>1, UnitsSame
    <2>2. CASE ClearAccepted
      <3>1. PICK u \in sync.queue : u \in DOMAIN units /\ SetType(u, NoType)
        BY <2>2 DEF ClearAccepted
      <3>2. u \in retyped
        BY <1>1, <2>2 DEF ClearAccepted, Inv, Ready, SaveReady
      <3> QED BY <1>1, <3>1, <3>2, SetTypeMine
    <2>3. CASE TypeAccepted
      <3>1. PICK need \in sync.queue : need[1] \in DOMAIN units /\ SetType(need[1], need[2])
        BY <2>3 DEF TypeAccepted
      <3>2. need[1] \in retyped /\ need[2] \in Type \cup {NoType}
        BY <1>1, <2>3 DEF TypeAccepted, Inv, Ready, TypesReady
      <3> QED BY <1>1, <3>1, <3>2, SetTypeMine
    <2>4. CASE SaveAccepted
      <3>1. units' = Saved(units, sync.body) /\ MaySave(units, sync.body)
        BY <2>4 DEF SaveAccepted, Save, Write
      <3>2. \A u \in DOMAIN units' :
                units'[u] = IF u \in DOMAIN sync.body.upserts THEN sync.body.upserts[u] ELSE units[u]
        BY <3>1 DEF Saved
      <3> QED BY <3>1, <3>2 DEF MaySave
    <2>5. CASE NameAccepted
      <3>1. UNCHANGED units
        BY <2>5 DEF NameAccepted, SetHandle, Write
      <3> QED BY <3>1, UnitsSame
    <2>6. CASE BracesAccepted
      <3>1. UNCHANGED units
        BY <2>6 DEF BracesAccepted, Reconcile
      <3> QED BY <3>1, UnitsSame
    <2>7. CASE \/ FlushNothing \/ FlushSave \/ FlushFacets \/ SaveRefused \/ MergeRefused
               \/ RetryRefused \/ Merge \/ TypeRefused \/ NameRefused \/ BracesRefused
      <3>1. UNCHANGED server
        BY <2>7 DEF FlushNothing, FlushSave, FlushFacets, SaveRefused, MergeRefused, RetryRefused,
           Merge, TypeRefused, NameRefused, BracesRefused
      <3>2. UNCHANGED units
        BY <3>1 DEF server
      <3> QED BY <3>2, UnitsSame
    <2>8. CASE Fail \/ OtherDevice
      <3>1. faults' = faults + 1 /\ faults \in Nat
        BY <1>1, <2>8 DEF Fail, OtherDevice, Inv, Stored
      <3> QED BY <1>1, <3>1
    <2>9. CASE UNCHANGED vars
      BY <2>9, UnitsSame DEF vars
    <2> QED BY <1>1, <2>1, <2>2, <2>3, <2>4, <2>5, <2>6, <2>7, <2>8, <2>9 DEF Next, Sync
  <1>2. Inv /\ [Next]_vars =>
            [faults' = faults =>
                \A u \in DOMAIN units \cap DOMAIN units' :
                    units'[u].type # units[u].type => u \in retyped]_vars
    BY <1>1
  <1> QED BY <1>2, AxesInvariant, PTL DEF Spec, OnlyMyTypes

(* A block that a merge of my changes lacks is not on the server, and I have    *)
(* written nothing into it: otherwise it would be sent, or the merge refused.   *)
LEMMA DroppedFacts ==
    ASSUME NEW mine, mine = Delta(doc, prior), ~Clash(prior, units, mine),
           NEW m, m = Merged(prior, units, mine), NEW u \in DOMAIN doc \ DOMAIN m
    PROVE  u \notin DOMAIN units /\ doc[u].text = BaseText(u)
  <1>1. /\ mine.deletes = DOMAIN prior \ DOMAIN doc
        /\ DOMAIN mine.upserts =
                {v \in DOMAIN doc : IsSent(v, prior, doc[v].text)
                    /\ (v \in DOMAIN prior => doc[v].text # prior[v].text)}
    BY DEF Delta
  <1>2. DOMAIN m = (DOMAIN units \ mine.deletes) \cup (DOMAIN mine.upserts \ DOMAIN prior)
    BY DEF Merged
  <1>3. u \notin DOMAIN units /\ (u \in DOMAIN mine.upserts => u \in DOMAIN prior)
    BY <1>1, <1>2
  <1>4. u \in DOMAIN mine.upserts \cap DOMAIN prior => u \in DOMAIN units
    BY DEF Clash
  <1>5. u \notin DOMAIN mine.upserts
    BY <1>3, <1>4
  <1> QED BY <1>1, <1>3, <1>5 DEF IsSent, BaseText

(* Whatever the server has, a merge leaves names, the types that the user chose *)
(* for stored and new blocks, and the braces of every block whose text it       *)
(* leaves; and it takes off the screen only blocks without text of the user's.  *)
THEOREM MergesKeepFacets == Spec => MergeKeepsFacets
  <1>1. ASSUME Inv, [Next]_vars, gestures' = gestures
        PROVE  \A u \in DOMAIN doc :
                    IF u \in DOMAIN doc'
                    THEN /\ doc'[u].names = doc[u].names
                         /\ doc[u].type # BaseType(u) => doc'[u].type = doc[u].type
                         /\ doc'[u].text = doc[u].text => doc'[u].braces = doc[u].braces
                    ELSE u \notin DOMAIN units /\ doc[u].text = BaseText(u)
    <2>1. CASE Gesture
      <3>1. gestures' = gestures + 1 /\ gestures \in Nat
        BY <1>1, <2>1, Gestures DEF Gestured, Inv, Stored
      <3> QED BY <1>1, <3>1
    <2>2. CASE Merge
      <3>1. PICK mine, merged : mine = Delta(doc, prior) /\ merged = Merged(prior, units, mine)
        OBVIOUS
      <3>2. CASE Clash(prior, units, mine)
        BY <2>2, <3>1, <3>2 DEF Merge
      <3>3. CASE ~Clash(prior, units, mine)
        <4>1. doc' = Reprojected(doc, merged, TypeIntents(doc, prior))
          BY <2>2, <3>1, <3>3 DEF Merge, MergeOntoScreen
        <4>2. IsContent(merged, gestures, minted)
          BY <1>1, <3>1, <3>3, MergedFacts
        <4>3. DOMAIN doc' = DOMAIN merged
          BY <1>1, <4>1, <4>2, ReprojectedFacts
        <4>4. ASSUME NEW u \in DOMAIN doc, u \in DOMAIN doc'
              PROVE  /\ doc'[u].names = doc[u].names
                     /\ doc[u].type # BaseType(u) => doc'[u].type = doc[u].type
                     /\ doc'[u].text = doc[u].text => doc'[u].braces = doc[u].braces
          BY <1>1, <4>1, <4>2, <4>3, <4>4, ReprojectedFacts
        <4>5. ASSUME NEW u \in DOMAIN doc, u \notin DOMAIN doc'
              PROVE  u \notin DOMAIN units /\ doc[u].text = BaseText(u)
          BY <3>1, <3>3, <4>3, <4>5, DroppedFacts
        <4> QED BY <4>4, <4>5
      <3> QED BY <3>2, <3>3
    <2>3. CASE (Sync /\ ~Merge) \/ Fail \/ OtherDevice \/ UNCHANGED vars
      <3>1. doc' = doc
        BY <2>3 DEF Sync, FlushNothing, FlushSave, FlushFacets, ClearAccepted, SaveAccepted,
           SaveRefused, MergeRefused, RetryRefused, TypeAccepted, TypeRefused, NameAccepted,
           NameRefused, BracesAccepted, BracesRefused, Fail, OtherDevice, vars
      <3> QED BY <3>1
    <2> QED BY <1>1, <2>1, <2>2, <2>3 DEF Next
  <1>2. Inv /\ [Next]_vars =>
            [gestures' = gestures =>
                \A u \in DOMAIN doc :
                    IF u \in DOMAIN doc'
                    THEN /\ doc'[u].names = doc[u].names
                         /\ doc[u].type # BaseType(u) => doc'[u].type = doc[u].type
                         /\ doc'[u].text = doc[u].text => doc'[u].braces = doc[u].braces
                    ELSE u \notin DOMAIN units /\ doc[u].text = BaseText(u)]_vars
    BY <1>1
  <1> QED BY <1>2, AxesInvariant, PTL DEF Spec, MergeKeepsFacets

(* A flush that ends with everything saved has nothing left to name.            *)
LEMMA BracesOver ==
    ASSUME NEW c, NEW names, NEW failed, ToBraces(c, names, failed),
           sync'.pc = "idle", status' = "clean"
    PROVE  NameNeeds(doc', c, names) = {}
  <1>1. PICK p : p = Pending(doc', c, sentBraces)
    OBVIOUS
  <1>2. CASE NothingPending(p)
    BY <1>1, <1>2 DEF ToBraces, Settle, Left
  <1>3. CASE ~NothingPending(p)
    <2>1. sync' = [Idle EXCEPT !.pc = "braces", !.body = p, !.failed = failed]
      BY <1>1, <1>3 DEF ToBraces
    <2>2. sync'.pc = "braces"
      BY <2>1 DEF Idle
    <2> QED BY <2>2
  <1> QED BY <1>2, <1>3

LEMMA NamesOver ==
    ASSUME NEW c, NEW failed, ToNames(c, failed), sync'.pc = "idle", status' = "clean"
    PROVE  NameNeeds(doc', c, sentNames) = {}
  <1>1. PICK needs : needs = NameNeeds(doc', c, sentNames)
    OBVIOUS
  <1>2. CASE needs = {}
    BY <1>1, <1>2
  <1>3. CASE needs # {}
    <2>1. sync' = [Idle EXCEPT !.pc = "name", !.queue = needs, !.failed = failed]
      BY <1>1, <1>3 DEF ToNames
    <2>2. sync'.pc = "name"
      BY <2>1 DEF Idle
    <2> QED BY <2>2
  <1> QED BY <1>2, <1>3

LEMMA TypesOver ==
    ASSUME NEW c, NEW tries, ToTypes(c, tries), sync'.pc = "idle", status' = "clean"
    PROVE  NameNeeds(doc', c, sentNames) = {}
  <1>1. PICK needs : needs = TypeNeeds(doc', c)
    OBVIOUS
  <1>2. CASE needs = {}
    <2>1. ToNames(c, FALSE)
      BY <1>1, <1>2 DEF ToTypes
    <2> QED BY <2>1, NamesOver
  <1>3. CASE needs # {}
    <2>1. sync' = [Idle EXCEPT !.pc = "type", !.queue = needs, !.tries = tries]
      BY <1>1, <1>3 DEF ToTypes
    <2>2. sync'.pc = "type"
      BY <2>1 DEF Idle
    <2> QED BY <2>2
  <1> QED BY <1>2, <1>3

(* Every step with which a flush may end.                                       *)
LEMMA Closing ==
    ASSUME Inv, [Next]_vars, sync.pc # "idle", sync'.pc = "idle", status' = "clean", faults' = 0
    PROVE  NameNeeds(doc', prior', sentNames') = {}
  <1>1. faults \in Nat /\ sync = [pc |-> sync.pc, body |-> sync.body, queue |-> sync.queue,
                                  tries |-> sync.tries, failed |-> sync.failed]
    BY DEF Inv, Stored, Ready
  <1>2. CASE Gesture
    <2>1. sync' = sync
      BY <1>2, Gestures DEF Gestured
    <2> QED BY <2>1
  <1>3. CASE FlushNothing \/ FlushSave \/ FlushFacets
    BY <1>3 DEF FlushNothing, FlushSave, FlushFacets
  <1>4. CASE ClearAccepted
    <2>1. PICK u \in sync.queue :
              sync' = [sync EXCEPT !.queue = @ \ {u},
                                   !.pc = IF sync.queue = {u} THEN After(@) ELSE @]
      BY <1>4 DEF ClearAccepted
    <2>2. PICK pc : pc = IF sync.queue = {u} THEN After(sync.pc) ELSE sync.pc
      OBVIOUS
    <2>3. PICK w : w = [sync EXCEPT !.queue = sync.queue \ {u}]
      OBVIOUS
    <2>4. w = [pc |-> sync.pc, body |-> sync.body, queue |-> sync.queue \ {u},
               tries |-> sync.tries, failed |-> sync.failed]
      BY <1>1, <2>3
    <2>5. PICK s : s = [w EXCEPT !.pc = pc]
      OBVIOUS
    <2>6. s.pc = pc
      BY <2>4, <2>5
    <2>7. sync' = s
      BY <2>1, <2>2, <2>3, <2>5
    <2>8. pc # "idle"
      BY <2>2 DEF After
    <2> QED BY <2>6, <2>7, <2>8
  <1>5. CASE SaveAccepted
    <2>1. prior' = units' /\ sentNames' = sentNames
      BY <1>5 DEF SaveAccepted, Adopt, sent
    <2>2. \/ \E tries : ToTypes(units', tries)
          \/ sync' = [Idle EXCEPT !.pc = "conflict"]
      BY <1>5 DEF SaveAccepted
    <2>3. sync' # [Idle EXCEPT !.pc = "conflict"]
      BY Phased
    <2>4. PICK tries : ToTypes(prior', tries)
      BY <2>1, <2>2, <2>3
    <2> QED BY <2>1, <2>4, TypesOver
  <1>6. CASE SaveRefused
    BY <1>6, Phased DEF SaveRefused
  <1>7. CASE MergeRefused
    BY <1>7, Phased DEF MergeRefused, Failing
  <1>8. CASE RetryRefused
    <2>1. ToNames(prior', TRUE) /\ sentNames' = sentNames
      BY <1>8 DEF RetryRefused, Deferred, sent
    <2> QED BY <2>1, NamesOver
  <1>9. CASE Merge
    <2>1. revision > priorRev /\ faults = 0 /\ revision \in Nat
      BY <1>9 DEF Merge, Inv, Stored
    <2> QED BY <2>1 DEF Inv, Unlost
  <1>10. CASE TypeAccepted
    <2>1. PICK need \in sync.queue :
              /\ Adopt(units') /\ sentNames' = sentNames
              /\ IF sync.queue = {need} THEN ToNames(units', FALSE)
                 ELSE sync' = [sync EXCEPT !.queue = @ \ {need}] /\ UNCHANGED status
      BY <1>10 DEF TypeAccepted, sent
    <2>2. CASE sync.queue = {need}
      <3>1. ToNames(prior', FALSE)
        BY <2>1, <2>2 DEF Adopt
      <3> QED BY <2>1, <3>1, NamesOver
    <2>3. CASE sync.queue # {need}
      <3>1. sync' = [sync EXCEPT !.queue = @ \ {need}]
        BY <2>1, <2>3
      <3>2. sync'.pc = sync.pc
        BY <1>1, <3>1
      <3> QED BY <3>2
    <2> QED BY <2>2, <2>3
  <1>11. CASE TypeRefused
    <2>1. sync' = [sync EXCEPT !.pc = "typeGet", !.queue = {}]
      BY <1>11 DEF TypeRefused
    <2>2. PICK w : w = [sync EXCEPT !.pc = "typeGet"]
      OBVIOUS
    <2>3. w = [pc |-> "typeGet", body |-> sync.body, queue |-> sync.queue,
               tries |-> sync.tries, failed |-> sync.failed]
      BY <1>1, <2>2
    <2>4. sync' = [w EXCEPT !.queue = {}]
      BY <2>1, <2>2
    <2>5. sync'.pc = "typeGet"
      BY <2>3, <2>4
    <2> QED BY <2>5
  <1>12. CASE NameAccepted
    <2>1. PICK need \in sync.queue :
              /\ Adopt(units')
              /\ IF sync.queue = {need} THEN ToBraces(units', sentNames', sync.failed)
                 ELSE sync' = [sync EXCEPT !.queue = @ \ {need}] /\ UNCHANGED status
      BY <1>12 DEF NameAccepted
    <2>2. CASE sync.queue = {need}
      <3>1. ToBraces(prior', sentNames', sync.failed)
        BY <2>1, <2>2 DEF Adopt
      <3> QED BY <3>1, BracesOver
    <2>3. CASE sync.queue # {need}
      <3>1. sync' = [sync EXCEPT !.queue = @ \ {need}]
        BY <2>1, <2>3
      <3>2. sync'.pc = sync.pc
        BY <1>1, <3>1
      <3> QED BY <3>2
    <2> QED BY <2>2, <2>3
  <1>13. CASE NameRefused
    <2>1. ToBraces(prior', sentNames', TRUE)
      BY <1>13 DEF NameRefused, baseline, sent
    <2> QED BY <2>1, BracesOver
  <1>14. CASE BracesAccepted
    <2>1. Settle(prior', sentNames', sentBraces', sync.failed)
      BY <1>14 DEF BracesAccepted, baseline
    <2> QED BY <2>1, SettleEnds DEF Ended
  <1>15. CASE BracesRefused
    <2>1. Settle(prior', sentNames', sentBraces', sync.failed)
      BY <1>15 DEF BracesRefused, baseline, sent
    <2> QED BY <2>1, SettleEnds DEF Ended
  <1>16. CASE Fail \/ OtherDevice
    <2>1. faults' = faults + 1
      BY <1>16 DEF Fail, OtherDevice
    <2> QED BY <1>1, <2>1
  <1>17. CASE UNCHANGED vars
    BY <1>17 DEF vars
  <1> QED BY <1>2, <1>3, <1>4, <1>5, <1>6, <1>7, <1>8, <1>9, <1>10, <1>11, <1>12, <1>13, <1>14,
           <1>15, <1>16, <1>17 DEF Next, Sync

(* What the server has of the names, where nothing is left to send.             *)
NamesHeld ==
    \A n \in HandlesOf(doc) :
        n.unit \in restored \/
            (n.handle \in DOMAIN handles /\ handles[n.handle] = [unit |-> n.unit, name |-> n.name])

LEMMA NothingToName ==
    ASSUME Inv, faults = 0, sync.pc = "idle", status = "clean",
           NameNeeds(doc, prior, sentNames) = {}
    PROVE  NamesHeld
  <1>1. SUFFICES ASSUME NEW n \in HandlesOf(doc), n.unit \notin restored
                 PROVE  /\ n.handle \in DOMAIN handles
                        /\ handles[n.handle] = [unit |-> n.unit, name |-> n.name]
    BY DEF NamesHeld
  <1>2. n.unit \in DOMAIN doc /\ n.handle \in DOMAIN doc[n.unit].names
    BY DEF HandlesOf
  <1>3. Unlost
    BY DEF Inv
  <1>4. n.unit \in DOMAIN prior
    <2>1. doc[n.unit].type # NoType
      BY <1>2, <1>3 DEF Unlost, Titled
    <2>2. TypeIntents(doc, prior) = {}
      BY DEF Inv, Clean
    <2> QED BY <1>2, <2>1, <2>2 DEF TypeIntents
  <1>5. n.handle \in DOMAIN sentNames /\ sentNames[n.handle].name = n.name
    <2>1. {h \in HandlesOf(doc) :
                /\ h.unit \in DOMAIN prior
                /\ h.handle \in DOMAIN sentNames => sentNames[h.handle].name # h.name} = {}
      BY Zenon DEF NameNeeds
    <2> QED BY <1>4, <2>1
  <1>6. /\ sentNames[n.handle] = [unit |-> sentNames[n.handle].unit, name |-> sentNames[n.handle].name]
        /\ n.handle \in 1..minted /\ sentNames[n.handle].unit \in 1..minted
    BY <1>5 DEF Inv, Stored, Filed
  <1>7. n.unit \in 1..minted
    BY <1>2, BlockFacts
  <1>8. sentNames[n.handle].unit = n.unit
    BY <1>2, <1>3, <1>5, <1>6, <1>7 DEF Unlost, Homed
  <1>9. ~Gone(n.unit)
    BY <1>1, <1>2 DEF Gone
  <1>10. n.handle \in DOMAIN handles /\ handles[n.handle] = sentNames[n.handle]
    BY <1>3, <1>5, <1>8, <1>9 DEF Unlost
  <1> QED BY <1>5, <1>6, <1>8, <1>10

(* A flush that ends with everything saved has stored every name on the screen  *)
(* with its unit, whatever was named, copied, deleted or brought back before.   *)
THEOREM NamesAreStored == Spec => NamesReachServer
  <1>1. Inv /\ faults = 0 /\ sync.pc = "idle" /\ status = "clean"
            /\ NameNeeds(doc, prior, sentNames) = {} => NamesHeld
    BY NothingToName
  <1>2. (Inv /\ faults = 0 /\ sync.pc = "idle" /\ status = "clean"
            /\ NameNeeds(doc, prior, sentNames) = {} => NamesHeld)'
    BY <1>1, PTL
  <1>3. ASSUME Inv, Inv', [Next]_vars,
               sync.pc # "idle", sync'.pc = "idle", status' = "clean", faults' = 0
        PROVE  NamesHeld'
    <2>1. NameNeeds(doc', prior', sentNames') = {}
      BY <1>3, Closing
    <2> QED BY <1>2, <1>3, <2>1
  <1>4. Inv /\ Inv' /\ [Next]_vars =>
            [sync.pc # "idle" /\ sync'.pc = "idle" /\ status' = "clean" /\ faults' = 0 =>
                \A n \in HandlesOf(doc') :
                    n.unit \in restored' \/
                        (n.handle \in DOMAIN handles' /\ handles'[n.handle] = [unit |-> n.unit, name |-> n.name])]_vars
    BY <1>3 DEF NamesHeld
  <1> QED BY <1>4, AxesInvariant, PTL DEF Spec, NamesReachServer
================================================================================
