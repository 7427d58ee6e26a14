----------------------------- MODULE MergeCasesProofs ----------------------------
(* Whatever the others saved and the user edited since the common baseline,     *)
(* however much: flush and planMerge do what MergeCases asks of them.           *)
EXTENDS MergeCases, MergeProofs

(* A list of units minted before n.                                             *)
MintedBefore(s, n) == IsList(s) /\ \A id \in Ids(s) : id < n

Drifted ==
    /\ changes \in Nat
    /\ MintedBefore(baseline, Minted + changes)
    /\ MintedBefore(server, Minted + changes)
    /\ MintedBefore(doc, Minted + changes)

LEMMA BaselinesAreLists ==
    ASSUME NEW b \in Baselines
    PROVE  MintedBefore(b, Minted)
  <1>1. /\ Minted \in Nat /\ b \in Seq([id : 0..Minted - 1, text : 0..Minted - 1])
        /\ \A i, j \in DOMAIN b : b[i].id = b[j].id => i = j
    BY CasesAssumption
  <1>2. Len(b) \in Nat /\ DOMAIN b = 1..Len(b)
    BY <1>1
  <1>3. \A i \in 1..Len(b) : /\ b[i] \in [id : 0..Minted - 1, text : 0..Minted - 1]
                             /\ b[i] \in Block /\ b[i].id < Minted
    <2>1. \A i \in 1..Len(b) : b[i] \in [id : 0..Minted - 1, text : 0..Minted - 1]
      <3>1. PICK S : S = [id : 0..Minted - 1, text : 0..Minted - 1]
        OBVIOUS
      <3>2. b \in Seq(S)
        BY <1>1, <3>1
      <3>3. \A i \in 1..Len(b) : b[i] \in S
        BY <3>2
      <3> QED BY <3>1, <3>3
    <2>2. \A x \in [id : 0..Minted - 1, text : 0..Minted - 1] : x \in Block /\ x.id < Minted
      BY <1>1 DEF Block
    <2> QED BY <2>1, <2>2
  <1>4. b \in Seq(Block)
    BY <1>1, <1>3
  <1>5. IsList(b)
    BY <1>1, <1>2, <1>4 DEF IsList
  <1>6. \A id \in Ids(b) : id < Minted
    BY <1>3, <1>5, Members
  <1> QED BY <1>5, <1>6 DEF MintedBefore

(* Every gesture makes a list of a list, with at most the one new unit.          *)
LEMMA GesturesKeepLists ==
    ASSUME changes \in Nat, NEW s, MintedBefore(s, Minted + changes), NEW t \in Gestures(s)
    PROVE  MintedBefore(t, Minted + changes + 1)
  <1>1. /\ IsList(s) /\ Len(s) \in Nat /\ DOMAIN s = 1..Len(s)
        /\ \A id \in Ids(s) : id < Minted + changes /\ id \in Int
        /\ \A i \in 1..Len(s) : s[i] \in Block /\ s[i].id \in Ids(s)
    BY Blocks DEF MintedBefore
  <1>2. /\ Minted + changes \in Nat /\ Fresh \in Block
        /\ Fresh.id = Minted + changes /\ Fresh.text = Minted + changes
    BY CasesAssumption DEF Fresh, Block
  <1>3. Fresh.id \notin Ids(s)
    BY <1>1, <1>2
  <1> HIDE DEF Fresh
  <1>4. CASE t \in Rewritten(s)
    <2>1. PICK x \in Int : x = Fresh.text
      BY <1>2
    <2>2. PICK i \in 1..Len(s) : t = [s EXCEPT ![i].text = x]
      BY <1>1, <1>4, <2>1 DEF Rewritten
    <2>3. IsList(t) /\ Ids(t) = Ids(s)
      BY <1>1, <2>2, Retexted
    <2> QED BY <1>1, <1>2, <2>3 DEF MintedBefore
  <1>5. CASE t \in Grown(s)
    <2>1. PICK i \in 1..(Len(s) + 1) : t = InsertAt(s, i, Fresh)
      BY <1>5 DEF Grown
    <2>2. IsList(t) /\ Ids(t) = Ids(s) \cup {Fresh.id}
      BY <1>1, <1>2, <1>3, <2>1, Inserted
    <2> QED BY <1>1, <1>2, <2>2 DEF MintedBefore
  <1>6. CASE t \in Cut(s)
    <2>1. PICK i \in 1..Len(s) : t = RemoveAt(s, i)
      BY <1>1, <1>6 DEF Cut
    <2>2. IsList(t) /\ Ids(t) \subseteq Ids(s)
      BY <1>1, <2>1, Removed
    <2> QED BY <1>1, <1>2, <2>2 DEF MintedBefore
  <1>7. CASE t \in Moved(s)
    <2>1. PICK i \in 1..Len(s), j \in 1..Len(s) : t = InsertAt(RemoveAt(s, i), j, s[i])
      BY <1>1, <1>7 DEF Moved
    <2>2. PICK r : r = RemoveAt(s, i)
      OBVIOUS
    <2>3. IsList(r) /\ Ids(r) = Ids(s) \ {s[i].id} /\ Len(r) = Len(s) - 1
      BY <1>1, <2>2, Removed
    <2>4. j \in 1..(Len(r) + 1) /\ s[i] \in Block /\ s[i].id \notin Ids(r)
      BY <1>1, <2>3
    <2>5. IsList(InsertAt(r, j, s[i])) /\ Ids(InsertAt(r, j, s[i])) = Ids(r) \cup {s[i].id}
      BY <2>3, <2>4, Inserted
    <2>6. IsList(t) /\ Ids(t) \subseteq Ids(s)
      BY <1>1, <2>1, <2>2, <2>3, <2>5
    <2> QED BY <1>1, <1>2, <2>6 DEF MintedBefore
  <1> QED BY <1>4, <1>5, <1>6, <1>7 DEF Gestures

LEMMA DriftedHolds == Spec => []Drifted
  <1>1. Init => Drifted
    BY BaselinesAreLists, CasesAssumption DEF Init, Drifted, MintedBefore
  <1>2. Drifted /\ [Next]_vars => Drifted'
    <2> SUFFICES ASSUME Drifted, [Next]_vars
                 PROVE  Drifted'
      OBVIOUS
    <2>1. CASE UNCHANGED vars
      BY <2>1 DEF vars, Drifted
    <2>2. CASE Next
      <3>1. changes \in Nat /\ changes' = changes + 1 /\ changes' \in Nat
        BY <2>2 DEF Next, Drifted
      <3>2. \A s : MintedBefore(s, Minted + changes) => MintedBefore(s, Minted + changes')
        <4>1. Minted \in Nat
          BY CasesAssumption
        <4>2. ASSUME NEW s, MintedBefore(s, Minted + changes)
              PROVE  MintedBefore(s, Minted + changes')
          <5>1. \A id \in Ids(s) : id \in Int
            BY <4>2, Blocks DEF MintedBefore
          <5> QED BY <3>1, <4>1, <4>2, <5>1 DEF MintedBefore
        <4> QED BY <4>2
      <3>3. \A s : MintedBefore(s, Minted + changes) =>
               \A t \in Gestures(s) : MintedBefore(t, Minted + changes')
        <4>1. Minted + changes + 1 = Minted + changes'
          BY <3>1, CasesAssumption
        <4> QED BY <3>1, <4>1, GesturesKeepLists
      <3>4. CASE OthersSave
        BY <3>1, <3>2, <3>3, <3>4 DEF OthersSave, Drifted
      <3>5. CASE UserEdits
        BY <3>1, <3>2, <3>3, <3>5 DEF UserEdits, Drifted
      <3> QED BY <2>2, <3>4, <3>5 DEF Next
    <2> QED BY <2>1, <2>2
  <1> QED BY <1>1, <1>2, PTL DEF Spec

--------------------------------------------------------------------------------
(* What the properties are about, as facts on the delta and the merge.          *)

LEMMA MineFacts ==
    ASSUME Drifted
    PROVE  /\ IsList(baseline) /\ IsList(server) /\ IsList(doc)
           /\ AreRows(Mine.upserts) /\ Apart(Mine.upserts)
           /\ Mine.upserts \subseteq Rows(doc)
           /\ IdsOf(Mine.upserts) \subseteq Ids(doc)
           /\ Mine.deletes = Ids(baseline) \ Ids(doc)
           /\ Ids(doc) \ Ids(baseline) \subseteq IdsOf(Mine.upserts)
           /\ \A u \in Rows(doc) : u \notin Rows(baseline) => u \in Mine.upserts
           /\ \A u \in Mine.upserts : u.text = TextOf(doc, u.id)
           /\ \A id : id \in IdsOf(Mine.upserts) <=> \E u \in Mine.upserts : id = u.id
           /\ \A id : IEdited(id) => id \in IdsOf(Mine.upserts)
  <1>1. IsList(baseline) /\ IsList(server) /\ IsList(doc)
    BY DEF Drifted, MintedBefore
  <1>2. /\ AreRows(Mine.upserts) /\ Apart(Mine.upserts)
        /\ Mine.upserts \subseteq Rows(doc)
        /\ IdsOf(Mine.upserts) \subseteq Ids(doc)
        /\ Mine.deletes = Ids(baseline) \ Ids(doc)
        /\ Ids(doc) \ Ids(baseline) \subseteq IdsOf(Mine.upserts)
        /\ \A u \in Rows(doc) : u \notin Rows(baseline) => u \in Mine.upserts
    BY <1>1, DeltaFacts DEF Mine
  <1>3. \A u \in Mine.upserts : u.text = TextOf(doc, u.id)
    BY <1>1, <1>2, RowFacts
  <1>4. \A id : id \in IdsOf(Mine.upserts) <=> \E u \in Mine.upserts : id = u.id
    BY DEF IdsOf
  <1>5. ASSUME NEW id, IEdited(id)
        PROVE  id \in IdsOf(Mine.upserts)
    <2>1. id \in Ids(doc) /\ TextOf(doc, id) # TextOf(baseline, id)
      BY <1>5 DEF IEdited
    <2>2. PICK u \in Rows(doc) : u.id = id
      BY <1>1, <2>1, RowFacts
    <2>3. u \notin Rows(baseline)
      BY <1>1, <2>1, <2>2, RowFacts
    <2> QED BY <1>2, <1>4, <2>2, <2>3
  <1> QED BY <1>1, <1>2, <1>3, <1>4, <1>5

LEMMA MergedFacts ==
    ASSUME Drifted, NEW force \in BOOLEAN, Mergeable(force)
    PROVE  IsMergeOf(Merged, baseline, server, Mine)
  <1>1. (IdsOf(Mine.upserts) \ Ids(baseline)) \cap Ids(server) = {}
    BY DEF Mergeable, ConflictReasons
  <1> QED BY <1>1, MineFacts, MergeShape DEF Merged

--------------------------------------------------------------------------------
(* DeltasReachServer always holds: a flush of whatever was edited is accepted    *)
(* by the server it was based on and leaves it with exactly the document, and    *)
(* what a merge puts on the screen is what its rebased delta stores.            *)
THEOREM CasesDeltasReachServer == Spec => []DeltasReachServer
  <1>1. ASSUME Drifted
        PROVE  DeltasReachServer
    <2>1. IsList(baseline) /\ IsList(server) /\ IsList(doc)
      BY <1>1, MineFacts
    <2>2. CoreAccepts(baseline, Mine) /\ Saved(baseline, Mine) = doc
      BY <2>1, DeltaReaches DEF Mine
    <2>3. ASSUME NEW force \in BOOLEAN, Mergeable(force)
          PROVE  CoreAccepts(server, Rebased) /\ Saved(server, Rebased) = Merged
      <3>1. IsList(Merged)
        BY <1>1, <2>3, MergedFacts DEF IsMergeOf
      <3> QED BY <2>1, <3>1, DeltaReaches DEF Rebased
    <2> QED BY <2>2, <2>3 DEF DeltasReachServer
  <1> QED BY <1>1, DriftedHolds, PTL

(* What an unforced merge may do to a unit both sides know.                     *)
LEMMA BothKnow ==
    ASSUME Drifted, Mergeable(FALSE)
    PROVE  /\ IdsOf(Mine.upserts) \cap Ids(baseline) \subseteq Ids(server)
           /\ \A id \in IdsOf(Mine.upserts) \cap Ids(baseline) :
                TextOf(server, id) = TextOf(baseline, id)
  <1>1. /\ (IdsOf(Mine.upserts) \cap Ids(baseline)) \cap Changed(baseline, server) = {}
        /\ (IdsOf(Mine.upserts) \cap Ids(baseline)) \cap Deleted(baseline, server) = {}
    BY DEF Mergeable, ConflictReasons
  <1>2. IsList(baseline) /\ IsList(server)
    BY MineFacts
  <1>3. IdsOf(Mine.upserts) \cap Ids(baseline) \subseteq Ids(server)
    BY <1>1 DEF Deleted
  <1>4. ASSUME NEW id \in IdsOf(Mine.upserts), id \in Ids(baseline)
        PROVE  TextOf(server, id) = TextOf(baseline, id)
    <2>1. id \in Ids(server) /\ id \notin Changed(baseline, server)
      BY <1>1, <1>3, <1>4
    <2>2. PICK u \in Rows(server) : u.id = id
      BY <1>2, <2>1, RowFacts
    <2>3. u \in Rows(baseline)
      BY <1>4, <2>1, <2>2 DEF Changed, IdsOf, SameIn
    <2> QED BY <1>2, <2>2, <2>3, RowFacts
  <1> QED BY <1>3, <1>4

(* MergeIsThreeWay always holds: a merge that is not forced keeps both sides'    *)
(* additions, edits and deletions, decides no text both sides changed, and       *)
(* keeps the server's order.                                                    *)
THEOREM CasesMergeIsThreeWay == Spec => []MergeIsThreeWay
  <1>1. ASSUME Drifted, Mergeable(FALSE)
        PROVE  LET deleted == (Ids(baseline) \ Ids(doc)) \cup (Ids(baseline) \ Ids(server))
               IN  Ids(Merged) = (Ids(doc) \cup Ids(server)) \ deleted
    <2>1. /\ Ids(Merged) = (Ids(server) \ Mine.deletes) \cup IdsOf(Mine.upserts)
      BY <1>1, MergedFacts DEF IsMergeOf
    <2>2. /\ IdsOf(Mine.upserts) \subseteq Ids(doc)
          /\ Mine.deletes = Ids(baseline) \ Ids(doc)
          /\ Ids(doc) \ Ids(baseline) \subseteq IdsOf(Mine.upserts)
      BY <1>1, MineFacts
    <2>3. IdsOf(Mine.upserts) \cap Ids(baseline) \subseteq Ids(server)
      BY <1>1, BothKnow
    <2> QED BY <2>1, <2>2, <2>3
  <1>2. ASSUME Drifted, Mergeable(FALSE), NEW id \in Ids(Merged), id \in Ids(baseline)
        PROVE  /\ ~IEdited(id) => TextOf(Merged, id) = TextOf(server, id)
               /\ IEdited(id) => /\ TextOf(Merged, id) = TextOf(doc, id)
                                 /\ TextOf(server, id) = TextOf(baseline, id)
    <2>1. CASE id \in IdsOf(Mine.upserts)
      <3>1. PICK u \in Mine.upserts : id = u.id
        BY <1>2, <2>1, MineFacts
      <3>2. TextOf(Merged, id) = TextOf(doc, id) /\ id \in Ids(doc)
        BY <1>2, <2>1, <3>1, MineFacts, MergedFacts DEF IsMergeOf
      <3>3. TextOf(server, id) = TextOf(baseline, id)
        BY <1>2, <2>1, BothKnow
      <3> QED BY <1>2, <3>2, <3>3 DEF IEdited
    <2>2. CASE id \notin IdsOf(Mine.upserts)
      <3>1. ~IEdited(id)
        BY <1>2, <2>2, MineFacts
      <3>2. TextOf(Merged, id) = TextOf(server, id)
        BY <1>2, <2>2, MergedFacts DEF IsMergeOf
      <3> QED BY <3>1, <3>2
    <2> QED BY <2>1, <2>2
  <1>3. ASSUME Drifted, Mergeable(FALSE), NEW id \in Ids(Merged), id \notin Ids(server)
        PROVE  TextOf(Merged, id) = TextOf(doc, id)
    <2>1. id \in IdsOf(Mine.upserts)
      BY <1>3, MergedFacts DEF IsMergeOf
    <2>2. PICK u \in Mine.upserts : id = u.id
      BY <1>3, <2>1, MineFacts
    <2> QED BY <1>3, <2>2, MineFacts, MergedFacts DEF IsMergeOf
  <1>4. ASSUME Drifted, Mergeable(FALSE)
        PROVE  /\ Len(Merged) = Cardinality(Ids(Merged))
               /\ DOMAIN Merged = 1..Len(Merged)
    <2>1. IsList(Merged)
      BY <1>4, MergedFacts DEF IsMergeOf
    <2> QED BY <2>1, LengthIsCount, Blocks
  <1>5. ASSUME Drifted, Mergeable(FALSE),
               NEW i \in 1..Len(Merged), NEW j \in 1..Len(Merged),
               i < j, Merged[j].id \in Ids(server)
        PROVE  /\ Merged[i].id \in Ids(server)
               /\ PositionOf(server, Merged[i].id) < PositionOf(server, Merged[j].id)
    BY <1>5, MergedFacts DEF IsMergeOf
  <1>6. ASSUME Drifted
        PROVE  MergeIsThreeWay
    <2> SUFFICES ASSUME Mergeable(FALSE)
                 PROVE  MergeIsThreeWay
      BY DEF MergeIsThreeWay
    <2>1. /\ Len(Merged) = Cardinality(Ids(Merged))
          /\ DOMAIN Merged = 1..Len(Merged)
      BY <1>4, <1>6
    <2>2. /\ Ids(Merged) = (Ids(doc) \cup Ids(server)) \
                ((Ids(baseline) \ Ids(doc)) \cup (Ids(baseline) \ Ids(server)))
      BY <1>1, <1>6
    <2>3. \A id \in Ids(Merged) :
                 /\ id \in Ids(baseline) =>
                        /\ ~IEdited(id) => TextOf(Merged, id) = TextOf(server, id)
                        /\ IEdited(id) =>
                            /\ TextOf(Merged, id) = TextOf(doc, id)
                            /\ TextOf(server, id) = TextOf(baseline, id)
                 /\ id \notin Ids(server) => TextOf(Merged, id) = TextOf(doc, id)
      BY <1>2, <1>3, <1>6
    <2>4. \A i, j \in DOMAIN Merged :
                    i < j /\ Merged[j].id \in Ids(server) =>
                        /\ Merged[i].id \in Ids(server)
                        /\ PositionOf(server, Merged[i].id) < PositionOf(server, Merged[j].id)
      BY <1>5, <1>6, <2>1
    <2> HIDE DEF Merged
    <2> QED BY <2>1, <2>2, <2>3, <2>4 DEF MergeIsThreeWay
  <1> QED BY <1>6, DriftedHolds, PTL

(* KeepMineKeepsMine always holds: under "keep mine" every edit, addition and    *)
(* deletion of mine is in what is merged, and what the others added too.         *)
THEOREM CasesKeepMineKeepsMine == Spec => []KeepMineKeepsMine
  <1>1. ASSUME Drifted
        PROVE  KeepMineKeepsMine
    <2> SUFFICES ASSUME Mergeable(TRUE)
                 PROVE  KeepMineKeepsMine
      BY DEF KeepMineKeepsMine
    <2>1. /\ Ids(Merged) = (Ids(server) \ Mine.deletes) \cup IdsOf(Mine.upserts)
          /\ \A u \in Mine.upserts : TextOf(Merged, u.id) = u.text
      BY <1>1, MergedFacts DEF IsMergeOf
    <2>2. ASSUME NEW id \in Ids(doc), IEdited(id) \/ id \notin Ids(baseline)
          PROVE  id \in Ids(Merged) /\ TextOf(Merged, id) = TextOf(doc, id)
      <3>1. id \in IdsOf(Mine.upserts)
        BY <1>1, <2>2, MineFacts
      <3>2. PICK u \in Mine.upserts : id = u.id
        BY <1>1, <3>1, MineFacts
      <3> QED BY <1>1, <2>1, <3>1, <3>2, MineFacts
    <2>3. Ids(Merged) \cap (Ids(baseline) \ Ids(doc)) = {}
      BY <1>1, <2>1, MineFacts
    <2>4. Ids(server) \ Ids(baseline) \subseteq Ids(Merged)
      BY <1>1, <2>1, MineFacts
    <2> HIDE DEF Merged
    <2> QED BY <2>2, <2>3, <2>4 DEF KeepMineKeepsMine
  <1> QED BY <1>1, DriftedHolds, PTL

================================================================================
