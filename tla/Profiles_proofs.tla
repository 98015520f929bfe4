----------------------------- MODULE Profiles_proofs -----------------------------
(***************************************************************************)
(* ProfilesInv is an invariant of Profiles, for any Workers, submits,       *)
(* readers, page size and rotation keys.  What is hard is the walk: a page  *)
(* is a beginning of what is left in a total order, so a cursor splits the  *)
(* list into what was seen and what is to come.                             *)
(***************************************************************************)
EXTENDS Profiles, Skills_proofs, FiniteSetTheorems, WellFoundedInduction

(* Finite sets in an order *)

LEMMA LeastSubset ==
  ASSUME NEW S, IsFiniteSet(S), NEW T, T \subseteq SUBSET S, T # {}
  PROVE  \E X \in T : \A Y \in T : Y \subseteq X => Y = X
<1>1. T \subseteq FiniteSubsetsOf(S)
  BY FS_FiniteSubsetsOfFinite
<1>2. IsWellFoundedOn(StrictSubsetOrdering(S), FiniteSubsetsOf(S))
  BY FS_StrictSubsetOrderingWellFounded
<1>3. PICK X \in T : \A Y \in T : ~(<<Y, X>> \in StrictSubsetOrdering(S))
  BY <1>1, <1>2, WFMin
<1> QED BY <1>3 DEF StrictSubsetOrdering

LEMMA SmallerSubset ==
  ASSUME NEW S, IsFiniteSet(S), NEW T, T \subseteq S
  PROVE  /\ IsFiniteSet(T)
         /\ Cardinality(T) \in Nat /\ Cardinality(S) \in Nat
         /\ Cardinality(T) <= Cardinality(S)
         /\ T # S => Cardinality(T) < Cardinality(S)
<1>1. IsFiniteSet(T) /\ Cardinality(T) <= Cardinality(S) /\ (Cardinality(T) = Cardinality(S) => T = S)
  BY FS_Subset
<1>2. Cardinality(T) \in Nat /\ Cardinality(S) \in Nat
  BY <1>1, FS_CardinalityType
<1> QED BY <1>1, <1>2

-----------------------------------------------------------------------------
(* The orders of the lists *)

LEMMA PublishedRow ==
  ASSUME ProfilesTypeOK, NEW w \in Published
  PROVE  /\ w \in Workers /\ profile[w] \in Rows
         /\ profile[w].publishedAt \in Nat /\ profile[w].id \in Nat
         /\ profile[w].delivered \in Nat /\ RotationKey[w] \in Nat
<1>1. w \in Workers /\ profile[w] \in Rows
  BY DEF Published, ProfilesTypeOK
<1>2. profile[w].publishedAt \in Instants /\ profile[w].id \in Nat /\ profile[w].delivered \in 0..MaxDelivered
  BY <1>1 DEF Rows
<1> QED BY <1>1, <1>2, ProfileBounds DEF Instants

\* Both orders are strict and total: the id breaks every tie.
LEMMA BeforeIsAnOrder ==
  ASSUME ProfilesTypeOK, IdsAreDistinct, NEW list
  PROVE  /\ \A p, q \in Published : Before(list, p, q) => ~Before(list, q, p)
         /\ \A p, q, s \in Published : Before(list, p, q) /\ Before(list, q, s) => Before(list, p, s)
         /\ \A p, q \in Published : p = q \/ Before(list, p, q) \/ Before(list, q, p)
<1>1. \A p \in Published :
        /\ profile[p].publishedAt \in Nat /\ profile[p].id \in Nat
        /\ profile[p].delivered \in Nat /\ RotationKey[p] \in Nat
  BY PublishedRow
<1>2. \A p, q \in Published : p # q => profile[p].id # profile[q].id
  BY DEF IdsAreDistinct
<1>3. CASE list = "wall"
  BY <1>1, <1>2, <1>3 DEF Before, NewerThan
<1>4. CASE list # "wall"
  BY <1>1, <1>2, <1>4 DEF Before, LessContacted
<1> QED BY <1>3, <1>4

LEMMA PublishedIsFinite == IsFiniteSet(Published)
<1>1. Published \subseteq Workers
  BY DEF Published
<1> QED BY <1>1, SmallerSubset, WorkersAreFinite

\* How many of W come before p.
RankIn(list, W, p) == Cardinality({q \in W : Before(list, q, p)})

LEMMA RanksGrow ==
  ASSUME ProfilesTypeOK, IdsAreDistinct, NEW list,
         NEW W, W \subseteq Published, NEW p \in W, NEW q \in W, Before(list, q, p)
  PROVE  /\ RankIn(list, W, p) \in Nat /\ RankIn(list, W, q) \in Nat
         /\ RankIn(list, W, q) < RankIn(list, W, p)
<1> DEFINE P == {o \in W : Before(list, o, p)}
           Q == {o \in W : Before(list, o, q)}
<1>1. IsFiniteSet(P)
  BY PublishedIsFinite, SmallerSubset
<1>2. Q \subseteq P
  BY BeforeIsAnOrder
<1>3. q \in P /\ q \notin Q
  BY BeforeIsAnOrder
<1>4. Cardinality(Q) \in Nat /\ Cardinality(P) \in Nat /\ Cardinality(Q) < Cardinality(P)
  <2>1. Q # P
    BY <1>3
  <2> HIDE DEF P, Q
  <2> QED BY <1>1, <1>2, <2>1, SmallerSubset
<1> QED BY <1>4 DEF RankIn

LEMMA RankIsNat ==
  ASSUME NEW list, NEW W, W \subseteq Published, NEW p
  PROVE  RankIn(list, W, p) \in Nat
<1>1. {q \in W : Before(list, q, p)} \subseteq Published
  OBVIOUS
<1> QED BY <1>1, PublishedIsFinite, SmallerSubset DEF RankIn

\* LIMIT n answers a beginning of the rows.
LEMMA LimitedIsABeginning ==
  ASSUME ProfilesTypeOK, IdsAreDistinct, NEW list, NEW n \in Nat,
         NEW W, W \subseteq Published,
         NEW p \in Limited(list, W, n), NEW q \in W, Before(list, q, p)
  PROVE  q \in Limited(list, W, n)
<1>1. p \in W /\ RankIn(list, W, p) < n
  BY DEF Limited, RankIn
<1>2. RankIn(list, W, q) < n
  BY <1>1, RanksGrow
<1> QED BY <1>2 DEF Limited, RankIn

\* Some row of a set comes first.
LEMMA FirstExists ==
  ASSUME ProfilesTypeOK, IdsAreDistinct, NEW list, NEW W, W \subseteq Published, W # {}
  PROVE  \E p \in W : \A q \in W : ~Before(list, q, p)
<1> DEFINE Earlier(p) == {q \in W : Before(list, q, p)}
           T == {Earlier(p) : p \in W}
<1>1. PICK X \in T : \A Y \in T : Y \subseteq X => Y = X
  <2>1. T \subseteq SUBSET Published /\ T # {}
    OBVIOUS
  <2> HIDE DEF T
  <2> QED BY <2>1, PublishedIsFinite, LeastSubset
<1>2. PICK p \in W : X = Earlier(p)
  BY <1>1
<1>3. ASSUME NEW q \in W, Before(list, q, p) PROVE FALSE
  <2>1. Earlier(q) \subseteq Earlier(p)
    BY <1>3, BeforeIsAnOrder
  <2>2. q \in Earlier(p) /\ q \notin Earlier(q)
    BY <1>3, BeforeIsAnOrder
  <2> QED BY <1>1, <1>2, <2>1, <2>2
<1> QED BY <1>3

\* And some row comes last: LastOf is one of them.
LEMMA LastExists ==
  ASSUME ProfilesTypeOK, IdsAreDistinct, NEW list, NEW W, W \subseteq Published, W # {}
  PROVE  /\ LastOf(list, W) \in W
         /\ \A q \in W : q = LastOf(list, W) \/ Before(list, q, LastOf(list, W))
<1> DEFINE Later(p) == {q \in W : Before(list, p, q)}
           T == {Later(p) : p \in W}
<1>1. PICK X \in T : \A Y \in T : Y \subseteq X => Y = X
  <2>1. T \subseteq SUBSET Published /\ T # {}
    OBVIOUS
  <2> HIDE DEF T
  <2> QED BY <2>1, PublishedIsFinite, LeastSubset
<1>2. PICK p \in W : X = Later(p)
  BY <1>1
<1>3. ASSUME NEW q \in W, Before(list, p, q) PROVE FALSE
  <2>1. Later(q) \subseteq Later(p)
    BY <1>3, BeforeIsAnOrder
  <2>2. q \in Later(p) /\ q \notin Later(q)
    BY <1>3, BeforeIsAnOrder
  <2> QED BY <1>1, <1>2, <2>1, <2>2
<1>4. \A q \in W \ {p} : Before(list, q, p)
  BY <1>3, BeforeIsAnOrder
<1>5. \E o \in W : \A q \in W \ {o} : Before(list, q, o)
  BY <1>4
<1>6. LastOf(list, W) \in W /\ \A q \in W \ {LastOf(list, W)} : Before(list, q, LastOf(list, W))
  BY <1>5 DEF LastOf
<1> QED BY <1>6

\* When no more rows are answered than fit, all of them were.
LEMMA NothingIsLeft ==
  ASSUME ProfilesTypeOK, IdsAreDistinct, NEW list, NEW n \in Nat,
         NEW W, W \subseteq Published, Cardinality(Limited(list, W, n + 1)) <= n
  PROVE  Limited(list, W, n + 1) = W
<1> DEFINE R == Limited(list, W, n + 1)
<1>1. R \subseteq W
  BY DEF Limited
<1>2. ASSUME R # W PROVE FALSE
  <2>1. W \ R # {} /\ W \ R \subseteq Published
    BY <1>1, <1>2
  <2> HIDE DEF R
  <2>2. PICK p \in W \ R : \A q \in W \ R : ~Before(list, q, p)
    BY <2>1, FirstExists
  <2>3. {q \in W : Before(list, q, p)} \subseteq R
    BY <2>2
  <2>4. ~(Cardinality({q \in W : Before(list, q, p)}) < n + 1)
    BY <2>2 DEF R, Limited
  <2>5. IsFiniteSet(R)
    BY <1>1, PublishedIsFinite, SmallerSubset
  <2>6. /\ Cardinality({q \in W : Before(list, q, p)}) \in Nat /\ Cardinality(R) \in Nat
        /\ Cardinality({q \in W : Before(list, q, p)}) <= Cardinality(R)
    BY <2>3, <2>5, SmallerSubset
  <2>7. Cardinality(R) <= n
    BY DEF R
  <2> QED BY <2>4, <2>6, <2>7
<1> QED BY <1>2

\* The first row of a set is within any limit.
LEMMA LimitedIsNotEmpty ==
  ASSUME ProfilesTypeOK, IdsAreDistinct, NEW list, NEW n \in Nat \ {0},
         NEW W, W \subseteq Published, W # {}
  PROVE  Limited(list, W, n) # {}
<1>1. PICK p \in W : \A q \in W : ~Before(list, q, p)
  BY FirstExists
<1>2. {q \in W : Before(list, q, p)} = {}
  BY <1>1
<1>3. Cardinality({q \in W : Before(list, q, p)}) < n
  BY <1>2, FS_EmptySet
<1> QED BY <1>3 DEF Limited

\* A page is a beginning of what is left; whatever it leaves comes after its last.
LEMMA PageSplits ==
  ASSUME ProfilesTypeOK, IdsAreDistinct, NEW list, NEW W, W \subseteq Published
  PROVE  LET rows == Limited(list, W, PageSize + 1)
             items == PageOf(list, rows)
             last == LastOf(list, items)
         IN
         /\ items \subseteq W
         /\ ~(Cardinality(rows) > PageSize) => items = W
         /\ Cardinality(rows) > PageSize =>
              /\ last \in items
              /\ \A q \in items : q = last \/ Before(list, q, last)
              /\ \A w \in W \ items : Before(list, last, w)
<1> DEFINE rows == Limited(list, W, PageSize + 1)
           items == PageOf(list, rows)
           last == LastOf(list, items)
<1>0. PageSize \in Nat \ {0} /\ PageSize + 1 \in Nat
  BY ProfileBounds
<1>1. rows \subseteq W /\ items \subseteq rows
  BY DEF Limited, PageOf
<1>2. Cardinality(rows) \in Nat
  <2> HIDE DEF rows
  <2> QED BY <1>1, PublishedIsFinite, SmallerSubset
<1>3. ASSUME ~(Cardinality(rows) > PageSize) PROVE items = W
  <2>1. Cardinality(rows) <= PageSize
    <3> HIDE DEF rows
    <3> QED BY <1>0, <1>2, <1>3
  <2>2. rows = W
    BY <1>0, <2>1, NothingIsLeft
  <2> QED BY <2>1, <2>2 DEF PageOf
<1>4. ASSUME Cardinality(rows) > PageSize
      PROVE  /\ last \in items
             /\ \A q \in items : q = last \/ Before(list, q, last)
             /\ \A w \in W \ items : Before(list, last, w)
  <2>1. items = Limited(list, rows, PageSize)
    <3> HIDE DEF rows
    <3> QED BY <1>0, <1>2, <1>4 DEF PageOf
  <2>2. rows # {}
    <3> HIDE DEF rows
    <3> QED BY <1>0, <1>4, FS_EmptySet
  <2>3. items # {} /\ items \subseteq Published
    <3> HIDE DEF rows
    <3> QED BY <1>0, <1>1, <2>1, <2>2, LimitedIsNotEmpty
  <2>4. last \in items /\ \A q \in items : q = last \/ Before(list, q, last)
    <3> HIDE DEF items
    <3> QED BY <2>3, LastExists
  <2>5. ASSUME NEW w \in W \ items PROVE Before(list, last, w)
    <3>1. last \in rows /\ last \in W /\ w # last
      BY <1>1, <2>4
    <3>2. ~Before(list, w, last)
      <4>1. ASSUME Before(list, w, last) PROVE FALSE
        <5>1. w \in rows
          <6> HIDE DEF items, last
          <6> QED BY <1>0, <3>1, <4>1, LimitedIsABeginning
        <5>2. w \in Limited(list, rows, PageSize)
          <6> HIDE DEF rows, last
          <6> QED BY <1>0, <1>1, <2>1, <2>4, <4>1, <5>1, LimitedIsABeginning
        <5> QED BY <2>1, <2>5, <5>2
      <4> QED BY <4>1
    <3> HIDE DEF rows, items, last
    <3> QED BY <3>1, <3>2, BeforeIsAnOrder
  <2> QED BY <2>4, <2>5
<1> HIDE DEF items
<1>5. items \subseteq W
  BY <1>1 DEF items
<1> QED BY <1>3, <1>4, <1>5 DEF items
-----------------------------------------------------------------------------
(* Type correctness *)

LEMMA ProfilesInitInv == Init => ProfilesInv
<1> SUFFICES ASSUME Init PROVE ProfilesInv
  OBVIOUS
<1>0. ProfilesInit /\ SkillsInv
  BY SkillsInitInv DEF Init
<1>1. Published = {}
  BY <1>0 DEF ProfilesInit, Published
<1>2. ProfilesTypeOK
  <2>1. NoJob \in Jobs
    BY ProfileBounds DEF NoJob, Jobs, Instants
  <2>2. NewWalk("wall", {}) \in Walks
    BY DEF NewWalk, Walks, Lists
  <2>3. 0 \in Instants /\ 1 \in Versions
    BY ProfileBounds DEF Instants, Versions
  <2>4. /\ pc \in [Requests -> ProfilePCs] /\ job \in [Requests -> Jobs] /\ reader \in [Readers -> Walks]
    BY <1>0, <2>1, <2>2 DEF ProfilesInit, ProfilePCs
  <2> QED BY <1>0, <2>3, <2>4 DEF ProfilesInit, ProfilesTypeOK, SkillsInv
<1>3. FoundByWhatItSays /\ IdsAreDistinct
  BY <1>1 DEF FoundByWhatItSays, IdsAreDistinct
<1>4. ConsentIsWhatSheRead
  BY <1>0, <1>1 DEF ProfilesInit, ConsentIsWhatSheRead
<1>5. SubmitsAreHers
  BY <1>0 DEF ProfilesInit, SubmitsAreHers, PublishPCs, EditPCs
<1>6. WalksAreSettled
  BY <1>0 DEF ProfilesInit, WalksAreSettled, WalkedUpTo, NewWalk
<1> QED BY <1>0, <1>2, <1>3, <1>4, <1>5, <1>6 DEF ProfilesInv

LEMMA NewRowIsARow ==
  ASSUME ProfilesTypeOK, SubmitsAreHers, NEW r \in Requests, pc[r] # "idle"
  PROVE  NewRow(r) \in Rows /\ NewRow(r) # None
<1>1. /\ job[r].startedAt \in Instants /\ job[r].words \in Words /\ job[r].wanted \in SUBSET Slugs
      /\ lastId + 1 \in Nat
  BY DEF ProfilesTypeOK, Jobs, SubmitsAreHers
<1>2. [words |-> job[r].words, skills |-> job[r].wanted] \in Submissions
  BY <1>1 DEF Submissions
<1>3. 0 \in 0..MaxDelivered
  BY ProfileBounds
<1>4. NewRow(r) \in Rows
  BY <1>1, <1>2, <1>3 DEF NewRow, Rows, SearchTextFor
<1> QED BY <1>4, RowsAreNotNone

LEMMA EditedRowIsARow ==
  ASSUME ProfilesTypeOK, NEW w \in Published, NEW words \in Words, NEW skills \in SUBSET Slugs
  PROVE  /\ EditedRow(w, words, skills) \in Rows /\ EditedRow(w, words, skills) # None
         /\ EditedRow(w, words, skills).publishedAt = profile[w].publishedAt
         /\ EditedRow(w, words, skills).id = profile[w].id
         /\ EditedRow(w, words, skills).delivered = profile[w].delivered
         /\ EditedRow(w, words, skills).words = words
         /\ EditedRow(w, words, skills).searchText = SearchTextFor(words, skills)
<1>1. profile[w] \in Rows
  BY PublishedRow
<1>2. [words |-> words, skills |-> skills] \in Submissions
  BY DEF Submissions
<1>3. EditedRow(w, words, skills) \in Rows
  BY <1>1, <1>2 DEF EditedRow, Rows, SearchTextFor
<1>4. /\ EditedRow(w, words, skills).publishedAt = profile[w].publishedAt
      /\ EditedRow(w, words, skills).id = profile[w].id
      /\ EditedRow(w, words, skills).delivered = profile[w].delivered
      /\ EditedRow(w, words, skills).words = words
      /\ EditedRow(w, words, skills).searchText = SearchTextFor(words, skills)
  BY <1>1 DEF EditedRow, Rows
<1> QED BY <1>3, <1>4, RowsAreNotNone

\* What may happen to the row of somebody who is published: it keeps what the
\* Wall orders by, and all that browse orders by unless an Offer is delivered.
SameOrder(w) ==
  /\ profile'[w] \in Rows /\ profile'[w] # None
  /\ profile'[w].publishedAt = profile[w].publishedAt
  /\ profile'[w].id = profile[w].id

LEMMA FlaggedRow ==
  ASSUME ProfilesTypeOK, NEW w \in Published, NEW p \in BOOLEAN
  PROVE  LET row == [profile[w] EXCEPT !.paused = p] IN
         /\ row \in Rows /\ row # None
         /\ row.publishedAt = profile[w].publishedAt /\ row.id = profile[w].id
         /\ row.delivered = profile[w].delivered
         /\ row.words = profile[w].words /\ row.searchText = profile[w].searchText
<1>1. profile[w] \in Rows
  BY PublishedRow
<1>2. [profile[w] EXCEPT !.paused = p] \in Rows
  BY <1>1 DEF Rows
<1> QED BY <1>1, <1>2, RowsAreNotNone DEF Rows

LEMMA ContactedRow ==
  ASSUME ProfilesTypeOK, NEW w \in Published, profile[w].delivered < MaxDelivered
  PROVE  LET row == [profile[w] EXCEPT !.delivered = profile[w].delivered + 1] IN
         /\ row \in Rows /\ row # None
         /\ row.publishedAt = profile[w].publishedAt /\ row.id = profile[w].id
         /\ row.words = profile[w].words /\ row.searchText = profile[w].searchText
<1>1. profile[w] \in Rows /\ profile[w].delivered \in 0..MaxDelivered
  BY PublishedRow DEF Rows
<1>2. profile[w].delivered + 1 \in 0..MaxDelivered
  BY <1>1, ProfileBounds
<1>3. [profile[w] EXCEPT !.delivered = profile[w].delivered + 1] \in Rows
  BY <1>1, <1>2 DEF Rows
<1> QED BY <1>1, <1>3, RowsAreNotNone DEF Rows

LEMMA ListedArePublished ==
  ASSUME NEW x PROVE Listed(x) \subseteq Published /\ Published \subseteq Workers
BY DEF Listed, VisibleToOthers, Published

\* What a read page does to the walk, in the terms of PageSplits.
LEMMA PageIsOfTheList ==
  ASSUME ProfilesTypeOK, IdsAreDistinct, NEW x \in Readers
  PROVE  LET W == {w \in Listed(x) : After(x, w)}
             list == reader[x].list
             items == PageOf(list, RowsRead(x))
             more == Cardinality(RowsRead(x)) > PageSize
             last == LastOf(list, items)
         IN
         /\ W \subseteq Published /\ items \subseteq W
         /\ ~more => items = W
         /\ more => /\ last \in items
                    /\ \A q \in items : q = last \/ Before(list, q, last)
                    /\ \A w \in W \ items : Before(list, last, w)
<1> DEFINE W == {w \in Listed(x) : After(x, w)}
<1>1. W \subseteq Published
  BY ListedArePublished
<1>2. RowsRead(x) = Limited(reader[x].list, W, PageSize + 1)
  BY DEF RowsRead
<1> HIDE DEF W
<1>3. LET items == PageOf(reader[x].list, RowsRead(x))
          more == Cardinality(RowsRead(x)) > PageSize
          last == LastOf(reader[x].list, items)
      IN
      /\ items \subseteq W
      /\ ~more => items = W
      /\ more => /\ last \in items
                 /\ \A q \in items : q = last \/ Before(reader[x].list, q, last)
                 /\ \A w \in W \ items : Before(reader[x].list, last, w)
  BY <1>1, <1>2, PageSplits
<1> QED BY <1>1, <1>3 DEF W

\* What a page is, told once for the steps below.
LEMMA ReadPageIs ==
  ASSUME ProfilesTypeOK, IdsAreDistinct, NEW x \in Readers, ReadPage(x)
  PROVE  \E items, last, more :
           /\ more \in BOOLEAN
           /\ items \subseteq Published
           /\ \A w \in items : w \in Listed(x) /\ After(x, w)
           /\ ~more => \A w \in Listed(x) : After(x, w) => w \in items
           /\ more => /\ last \in items
                      /\ \A q \in items : q = last \/ Before(reader[x].list, q, last)
                      /\ \A w \in Listed(x) \ items : After(x, w) => Before(reader[x].list, last, w)
           /\ reader' = [reader EXCEPT ![x] =
                [reader[x] EXCEPT
                   !.after = IF more THEN last ELSE reader[x].after,
                   !.seen = reader[x].seen \cup items,
                   !.again = reader[x].again \/ items \cap reader[x].seen # {},
                   !.throughout = reader[x].throughout \cap Listed(x),
                   !.at = IF more THEN "walking" ELSE "end"]]
           /\ reader[x].at # "end"
<1> DEFINE items == PageOf(reader[x].list, RowsRead(x))
           last == LastOf(reader[x].list, items)
           more == Cardinality(RowsRead(x)) > PageSize
<1>1. more \in BOOLEAN
  OBVIOUS
<1>2. /\ items \subseteq {w \in Listed(x) : After(x, w)}
      /\ {w \in Listed(x) : After(x, w)} \subseteq Published
      /\ ~more => items = {w \in Listed(x) : After(x, w)}
      /\ more => /\ last \in items
                 /\ \A q \in items : q = last \/ Before(reader[x].list, q, last)
                 /\ \A w \in {w \in Listed(x) : After(x, w)} \ items : Before(reader[x].list, last, w)
  BY PageIsOfTheList
<1>3. /\ reader[x].at # "end"
      /\ reader' = [reader EXCEPT ![x] =
                [reader[x] EXCEPT
                   !.after = IF more THEN last ELSE reader[x].after,
                   !.seen = reader[x].seen \cup items,
                   !.again = reader[x].again \/ items \cap reader[x].seen # {},
                   !.throughout = reader[x].throughout \cap Listed(x),
                   !.at = IF more THEN "walking" ELSE "end"]]
  BY DEF ReadPage
<1> HIDE DEF items, last, more
<1> WITNESS items, last, more
<1> QED BY <1>1, <1>2, <1>3

\* The same page, field by field.
LEMMA PageTurned ==
  ASSUME ProfilesTypeOK, IdsAreDistinct, NEW x \in Readers, ReadPage(x)
  PROVE  \E items, last, more :
           /\ more \in BOOLEAN
           /\ items \subseteq Published
           /\ \A w \in items : w \in Listed(x) /\ After(x, w)
           /\ ~more => \A w \in Listed(x) : After(x, w) => w \in items
           /\ more => /\ last \in items
                      /\ \A q \in items : q = last \/ Before(reader[x].list, q, last)
                      /\ \A w \in Listed(x) \ items : After(x, w) => Before(reader[x].list, last, w)
           /\ reader[x].at # "end"
           /\ reader' \in [Readers -> Walks]
           /\ \A y \in Readers \ {x} : reader'[y] = reader[y]
           /\ reader'[x].list = reader[x].list
           /\ reader'[x].unmoved = reader[x].unmoved
           /\ reader'[x].after = IF more THEN last ELSE reader[x].after
           /\ reader'[x].seen = reader[x].seen \cup items
           /\ ~reader[x].again /\ items \cap reader[x].seen = {} => ~reader'[x].again
           /\ reader'[x].throughout = reader[x].throughout \cap Listed(x)
           /\ reader'[x].at = IF more THEN "walking" ELSE "end"
<1>1. PICK items, last, more :
           /\ more \in BOOLEAN
           /\ items \subseteq Published
           /\ \A w \in items : w \in Listed(x) /\ After(x, w)
           /\ ~more => \A w \in Listed(x) : After(x, w) => w \in items
           /\ more => /\ last \in items
                      /\ \A q \in items : q = last \/ Before(reader[x].list, q, last)
                      /\ \A w \in Listed(x) \ items : After(x, w) => Before(reader[x].list, last, w)
           /\ reader' = [reader EXCEPT ![x] =
                [reader[x] EXCEPT
                   !.after = IF more THEN last ELSE reader[x].after,
                   !.seen = reader[x].seen \cup items,
                   !.again = reader[x].again \/ items \cap reader[x].seen # {},
                   !.throughout = reader[x].throughout \cap Listed(x),
                   !.at = IF more THEN "walking" ELSE "end"]]
           /\ reader[x].at # "end"
  BY ReadPageIs
<1> DEFINE after == IF more THEN last ELSE reader[x].after
           seen == reader[x].seen \cup items
           again == reader[x].again \/ items \cap reader[x].seen # {}
           throughout == reader[x].throughout \cap Listed(x)
           at == IF more THEN "walking" ELSE "end"
           here == [reader[x] EXCEPT !.after = after, !.seen = seen]
           met == [here EXCEPT !.again = again]
           next == [met EXCEPT !.throughout = throughout, !.at = at]
<1>2. reader[x] \in Walks /\ reader \in [Readers -> Walks]
  BY DEF ProfilesTypeOK
<1>3. items \subseteq Workers
  BY <1>1 DEF Published
<1>4. after \in Workers \cup {None}
  <2>1. reader[x].after \in Workers \cup {None}
    BY <1>2 DEF Walks
  <2> QED BY <1>1, <1>3, <2>1
<1>5. seen \in SUBSET Workers /\ throughout \in SUBSET Workers
  <2>1. reader[x].seen \in SUBSET Workers /\ reader[x].throughout \in SUBSET Workers
    BY <1>2 DEF Walks
  <2> QED BY <1>3, <2>1
<1>6. again \in BOOLEAN
  OBVIOUS
<1>7. at \in {"start", "walking", "end"}
  OBVIOUS
<1>8. /\ next \in Walks
      /\ next.list = reader[x].list /\ next.unmoved = reader[x].unmoved
      /\ next.after = after /\ next.seen = seen /\ next.again = again
      /\ next.throughout = throughout /\ next.at = at
  <2> DEFINE walk == reader[x]
  <2> HIDE DEF after, seen, again, throughout, at, next, met, here
  <2>0. /\ walk \in Walks
        /\ here = [walk EXCEPT !.after = after, !.seen = seen]
        /\ met = [here EXCEPT !.again = again]
        /\ next = [met EXCEPT !.throughout = throughout, !.at = at]
    BY <1>2, Zenon DEF here, met, next
  <2> HIDE DEF walk
  <2>1. /\ here \in Walks
        /\ here.list = walk.list /\ here.unmoved = walk.unmoved /\ here.after = after /\ here.seen = seen
    BY <1>4, <1>5, <2>0 DEF Walks
  <2>2. /\ met \in Walks
        /\ met.list = walk.list /\ met.unmoved = walk.unmoved /\ met.after = after /\ met.seen = seen
    BY <1>6, <2>0, <2>1 DEF Walks
  <2>3. met.again = again
    BY <2>0, <2>1 DEF Walks
  <2>4. /\ next \in Walks
        /\ next.list = walk.list /\ next.unmoved = walk.unmoved /\ next.after = after /\ next.seen = seen
        /\ next.throughout = throughout /\ next.at = at
    BY <1>5, <1>7, <2>0, <2>2 DEF Walks
  <2>5. next.again = met.again
    BY <2>0, <2>2 DEF Walks
  <2> QED BY <2>3, <2>4, <2>5, Zenon DEF walk
<1>9. reader' = [reader EXCEPT ![x] = next]
  BY <1>1, Zenon
<1>10. ~reader[x].again /\ items \cap reader[x].seen = {} => ~again
  OBVIOUS
<1> HIDE DEF next, again
<1>11. reader' \in [Readers -> Walks] /\ reader'[x] = next /\ \A y \in Readers \ {x} : reader'[y] = reader[y]
  BY <1>2, <1>8, <1>9
<1>12. ~reader[x].again /\ items \cap reader[x].seen = {} => ~reader'[x].again
  BY <1>8, <1>10, <1>11, Zenon
<1> HIDE DEF after, seen, throughout, at
<1>13. /\ reader'[x].list = reader[x].list /\ reader'[x].unmoved = reader[x].unmoved
       /\ reader'[x].after = after /\ reader'[x].seen = seen
       /\ reader'[x].throughout = throughout /\ reader'[x].at = at
  BY <1>8, <1>11
<1> WITNESS items, last, more
<1> QED BY <1>1, <1>11, <1>12, <1>13, Zenon DEF after, seen, throughout, at

-----------------------------------------------------------------------------
(* Every step keeps the types *)

\* Whatever happens to the profiles, the vocabulary moves by its own steps.
LEMMA VocabularyMoves == [ProfilesNext]_profileVars => [SkillsNext]_skillVars
<1> SUFFICES ASSUME [ProfilesNext]_profileVars, UNCHANGED skillVars \/ ~SkillsNext PROVE UNCHANGED skillVars
  OBVIOUS
<1>1. ASSUME NEW r \in Requests, Submit(r) PROVE UNCHANGED skillVars
  BY <1>1
  DEF Submit, BeginPublish, BeginEdit, ReadVocabulary, CommitPublish, ReadHeld, ReadChoosable, CommitEdit, GiveUp
<1>2. ASSUME NEW w \in Workers, PauseProfile(w) \/ ResumeProfile(w) \/ Deliver(w) PROVE UNCHANGED skillVars
  BY <1>2 DEF PauseProfile, ResumeProfile, Deliver
<1>3. ASSUME NEW x \in Readers, Read(x) PROVE UNCHANGED skillVars
  BY <1>3 DEF Read, ReadPage, OpenList
<1>4. CASE Tick \/ DeployConsentText
  BY <1>4 DEF Tick, DeployConsentText
<1>5. CASE UNCHANGED profileVars
  BY <1>5 DEF profileVars
<1> QED BY <1>1, <1>2, <1>3, <1>4, <1>5 DEF ProfilesNext

LEMMA ProfilesTypeStep == ProfilesInv /\ [ProfilesNext]_profileVars => ProfilesTypeOK'
<1> SUFFICES ASSUME ProfilesInv, [ProfilesNext]_profileVars PROVE ProfilesTypeOK'
  OBVIOUS
<1>0. ProfilesTypeOK /\ IdsAreDistinct /\ SubmitsAreHers /\ SkillsTypeOK'
  BY VocabularyMoves, SkillsStep DEF ProfilesInv, SkillsInv
<1>a. 0 \in Instants /\ 1 \in Versions
  BY ProfileBounds DEF Instants, Versions
<1>b. NoJob \in Jobs
  BY <1>a DEF NoJob, Jobs
<1>1. CASE Tick
  BY <1>0, <1>1, ProfileBounds DEF Tick, ProfilesTypeOK, profileRows, Instants
<1>2. CASE DeployConsentText
  BY <1>0, <1>2, ProfileBounds DEF DeployConsentText, ProfilesTypeOK, profileRows, Versions
<1>3. ASSUME NEW r \in Requests, GiveUp(r) PROVE ProfilesTypeOK'
  BY <1>0, <1>b, <1>3 DEF GiveUp, Finish, Goto, ProfilesTypeOK, profileRows, ProfilePCs
<1>4. ASSUME NEW r \in Requests, NEW w \in Workers, NEW words \in Words, NEW wanted \in SUBSET Slugs,
             NEW v \in Versions, BeginPublish(r, w, words, wanted, v)
      PROVE  ProfilesTypeOK'
  <2>1. [worker |-> w, words |-> words, wanted |-> wanted, held |-> {},
         version |-> v, startedAt |-> clock] \in Jobs
    BY <1>0 DEF Jobs, ProfilesTypeOK
  <2>2. shown' \in [Workers -> SUBSET Versions]
    BY <1>0, <1>4 DEF BeginPublish, ProfilesTypeOK
  <2> QED BY <1>0, <1>4, <2>1, <2>2 DEF BeginPublish, Goto, ProfilesTypeOK, ProfilePCs, PublishPCs
<1>5. ASSUME NEW r \in Requests, ReadVocabulary(r) \/ ReadChoosable(r) PROVE ProfilesTypeOK'
  BY <1>0, <1>5
  DEF ReadVocabulary, ReadChoosable, Goto, ProfilesTypeOK, profileRows, ProfilePCs, PublishPCs, EditPCs
<1>6. ASSUME NEW r \in Requests, CommitPublish(r) PROVE ProfilesTypeOK'
  <2> DEFINE w == job[r].worker
  <2>1. w \in Workers /\ job[r].wanted \in SUBSET Slugs /\ pc[r] # "idle" /\ job[r].version = version
    BY <1>0, <1>6
    DEF CommitPublish, SubmitsAreHers, ProfilesTypeOK, Jobs, RecordConsent, VersionsAreCurrent
  <2>2. NewRow(r) \in Rows
    BY <1>0, <2>1, NewRowIsARow
  <2>3. profile' \in [Workers -> Rows \cup {None}] /\ held' \in [Workers -> SUBSET Slugs]
    BY <1>0, <1>6, <2>1, <2>2 DEF CommitPublish, ProfilesTypeOK
  <2>4. consent' \in [Workers -> Versions \cup {None}] /\ lastId' \in Nat
    BY <1>0, <1>6, <2>1 DEF CommitPublish, RecordConsent, ProfilesTypeOK
  <2>5. pc' \in [Requests -> ProfilePCs] /\ job' \in [Requests -> Jobs]
    BY <1>0, <1>b, <1>6 DEF CommitPublish, Finish, Goto, ProfilesTypeOK, ProfilePCs
  <2> QED BY <1>0, <1>6, <2>3, <2>4, <2>5 DEF CommitPublish, ProfilesTypeOK
<1>7. ASSUME NEW r \in Requests, NEW w \in Workers, NEW words \in Words, NEW wanted \in SUBSET Slugs,
             BeginEdit(r, w, words, wanted)
      PROVE  ProfilesTypeOK'
  <2>1. [worker |-> w, words |-> words, wanted |-> wanted, held |-> {},
         version |-> None, startedAt |-> clock] \in Jobs
    BY <1>0 DEF Jobs, ProfilesTypeOK
  <2> QED BY <1>0, <1>7, <2>1 DEF BeginEdit, Goto, ProfilesTypeOK, ProfilePCs, EditPCs, profileRows
<1>8. ASSUME NEW r \in Requests, ReadHeld(r) PROVE ProfilesTypeOK'
  <2>1. held[job[r].worker] \in SUBSET Slugs
    BY <1>0, <1>8 DEF ReadHeld, SubmitsAreHers, ProfilesTypeOK
  <2>2. [job[r] EXCEPT !.held = held[job[r].worker]] \in Jobs
    BY <1>0, <2>1 DEF ProfilesTypeOK, Jobs
  <2>3. job' \in [Requests -> Jobs]
    BY <1>0, <1>8, <2>2 DEF ReadHeld, ProfilesTypeOK
  <2> QED BY <1>0, <1>8, <2>3 DEF ReadHeld, Goto, ProfilesTypeOK, ProfilePCs, EditPCs, profileRows
<1>9. ASSUME NEW r \in Requests, CommitEdit(r) PROVE ProfilesTypeOK'
  <2> DEFINE w == job[r].worker
  <2>1. w \in Published /\ job[r].wanted \in SUBSET Slugs /\ job[r].words \in Words
    BY <1>0, <1>9 DEF CommitEdit, SubmitsAreHers, ProfilesTypeOK, Jobs, EditPCs
  <2>2. EditedRow(w, job[r].words, job[r].wanted) \in Rows
    BY <1>0, <2>1, EditedRowIsARow
  <2>3. profile' \in [Workers -> Rows \cup {None}] /\ held' \in [Workers -> SUBSET Slugs]
    BY <1>0, <1>9, <2>1, <2>2 DEF CommitEdit, ProfilesTypeOK
  <2>4. pc' \in [Requests -> ProfilePCs] /\ job' \in [Requests -> Jobs]
    BY <1>0, <1>b, <1>9 DEF CommitEdit, Finish, Goto, ProfilesTypeOK, ProfilePCs
  <2> QED BY <1>0, <1>9, <2>3, <2>4 DEF CommitEdit, ProfilesTypeOK
<1>10. ASSUME NEW w \in Workers, NEW p \in BOOLEAN, w \in Published,
              profile' = [profile EXCEPT ![w] = [profile[w] EXCEPT !.paused = p]],
              UNCHANGED <<clock, version, held, lastId, consent, shown, pc, job, reader>>
       PROVE  ProfilesTypeOK'
  <2>1. [profile[w] EXCEPT !.paused = p] \in Rows
    BY <1>0, <1>10, FlaggedRow
  <2> QED BY <1>0, <1>10, <2>1 DEF ProfilesTypeOK
<1>11. ASSUME NEW w \in Workers, Deliver(w) PROVE ProfilesTypeOK'
  <2>1. [profile[w] EXCEPT !.delivered = profile[w].delivered + 1] \in Rows
    BY <1>0, <1>11, ContactedRow DEF Deliver
  <2>2. profile' \in [Workers -> Rows \cup {None}]
    BY <1>0, <1>11, <2>1 DEF Deliver, ProfilesTypeOK
  <2>3. ASSUME NEW x \in Readers PROVE [reader[x] EXCEPT !.unmoved = reader[x].unmoved \ {w}] \in Walks
    BY <1>0 DEF ProfilesTypeOK, Walks
  <2>4. reader' \in [Readers -> Walks]
    BY <1>0, <1>11, <2>3 DEF Deliver, ProfilesTypeOK
  <2> QED BY <1>0, <1>11, <2>2, <2>4 DEF Deliver, ProfilesTypeOK
<1>12. ASSUME NEW x \in Readers, ReadPage(x) PROVE ProfilesTypeOK'
  <2>1. reader' \in [Readers -> Walks]
    BY <1>0, <1>12, PageTurned
  <2> QED BY <1>0, <1>12, <2>1 DEF ReadPage, ProfilesTypeOK, profileRows
<1>13. ASSUME NEW x \in Readers, NEW list \in Lists, NEW filter \in SUBSET Slugs, OpenList(x, list, filter)
       PROVE  ProfilesTypeOK'
  <2>1. NewWalk(list, filter) \in Walks
    BY DEF NewWalk, Walks
  <2> QED BY <1>0, <1>13, <2>1 DEF OpenList, ProfilesTypeOK, profileRows
<1>14. CASE UNCHANGED <<clock, version, profileRows, pc, job, reader>>
  BY <1>0, <1>14 DEF ProfilesTypeOK, profileRows
<1>15. ASSUME NEW w \in Workers, PauseProfile(w) \/ ResumeProfile(w) PROVE ProfilesTypeOK'
  BY <1>10, <1>15 DEF PauseProfile, ResumeProfile
<1> QED
  BY <1>1, <1>2, <1>3, <1>4, <1>5, <1>6, <1>7, <1>8, <1>9, <1>11, <1>12, <1>13, <1>14, <1>15
  DEF ProfilesNext, Submit, Read, profileVars

-----------------------------------------------------------------------------
(* Every step keeps the rows *)

\* A step that keeps a published profile's id, words and search text.
LEMMA SameRows ==
  ASSUME ProfilesInv, UNCHANGED <<held, lastId>>,
         \A w \in Workers : profile'[w] # None <=> profile[w] # None,
         \A w \in Published : /\ profile'[w].id = profile[w].id
                              /\ profile'[w].words = profile[w].words
                              /\ profile'[w].searchText = profile[w].searchText
  PROVE  FoundByWhatItSays' /\ IdsAreDistinct' /\ Published' = Published
<1>1. Published' = Published
  BY DEF Published
<1>2. FoundByWhatItSays'
  BY <1>1 DEF ProfilesInv, FoundByWhatItSays, SearchTextFor
<1>3. IdsAreDistinct'
  BY <1>1 DEF ProfilesInv, IdsAreDistinct
<1> QED BY <1>1, <1>2, <1>3

\* Publishing adds one profile, after every other id.
LEMMA PublishedOne ==
  ASSUME ProfilesInv, NEW r \in Requests, CommitPublish(r)
  PROVE  /\ job[r].worker \in Workers \ Published
         /\ Published' = Published \cup {job[r].worker}
         /\ profile'[job[r].worker] = NewRow(r)
         /\ \A w \in Workers \ {job[r].worker} :
              profile'[w] = profile[w] /\ held'[w] = held[w] /\ consent'[w] = consent[w]
         /\ held'[job[r].worker] = job[r].wanted
         /\ consent'[job[r].worker] = job[r].version
<1>1. job[r].worker \in Workers \ Published /\ pc[r] # "idle"
  BY DEF ProfilesInv, SubmitsAreHers, CommitPublish
<1>2. NewRow(r) # None
  BY <1>1, NewRowIsARow DEF ProfilesInv
<1>3. /\ profile'[job[r].worker] = NewRow(r)
      /\ \A w \in Workers \ {job[r].worker} :
              profile'[w] = profile[w] /\ held'[w] = held[w] /\ consent'[w] = consent[w]
      /\ held'[job[r].worker] = job[r].wanted
      /\ consent'[job[r].worker] = job[r].version
  BY <1>1 DEF CommitPublish, RecordConsent, ProfilesInv, ProfilesTypeOK
<1> QED BY <1>1, <1>2, <1>3 DEF Published

LEMMA EditedOne ==
  ASSUME ProfilesInv, NEW r \in Requests, CommitEdit(r)
  PROVE  LET w == job[r].worker IN
         /\ w \in Published /\ Published' = Published
         /\ profile'[w] \in Rows
         /\ profile'[w].publishedAt = profile[w].publishedAt
         /\ profile'[w].id = profile[w].id
         /\ profile'[w].delivered = profile[w].delivered
         /\ profile'[w].searchText = SearchTextFor(profile'[w].words, held'[w])
         /\ \A v \in Workers \ {w} : profile'[v] = profile[v] /\ held'[v] = held[v]
<1> DEFINE w == job[r].worker
<1>1. w \in Published /\ w \in Workers /\ job[r].wanted \in SUBSET Slugs /\ job[r].words \in Words
  BY DEF CommitEdit, ProfilesInv, SubmitsAreHers, ProfilesTypeOK, Jobs, EditPCs
<1>2. /\ profile'[w] = EditedRow(w, job[r].words, job[r].wanted)
      /\ held'[w] = job[r].wanted
      /\ \A v \in Workers \ {w} : profile'[v] = profile[v] /\ held'[v] = held[v]
  BY <1>1 DEF CommitEdit, ProfilesInv, ProfilesTypeOK
<1>3. /\ profile'[w] \in Rows /\ profile'[w] # None
      /\ profile'[w].publishedAt = profile[w].publishedAt
      /\ profile'[w].id = profile[w].id
      /\ profile'[w].delivered = profile[w].delivered
      /\ profile'[w].words = job[r].words
      /\ profile'[w].searchText = SearchTextFor(job[r].words, job[r].wanted)
  BY <1>1, <1>2, EditedRowIsARow DEF ProfilesInv
<1>4. Published' = Published
  BY <1>1, <1>2, <1>3 DEF Published
<1> QED BY <1>1, <1>2, <1>3, <1>4

\* Pausing, resuming and an Offer delivered change one row, and keep its place
\* on the Wall and what it says.
LEMMA TouchedOne ==
  ASSUME ProfilesInv, NEW w \in Workers, PauseProfile(w) \/ ResumeProfile(w) \/ Deliver(w)
  PROVE  /\ w \in Published
         /\ SameOrder(w) /\ profile'[w].words = profile[w].words
         /\ profile'[w].searchText = profile[w].searchText
         /\ ~Deliver(w) => profile'[w].delivered = profile[w].delivered
         /\ \A v \in Workers \ {w} : profile'[v] = profile[v]
         /\ UNCHANGED <<held, lastId, consent, shown, pc, job>>
<1>0. ProfilesTypeOK
  BY DEF ProfilesInv
<1>1. ASSUME NEW p \in BOOLEAN, w \in Published,
             profile' = [profile EXCEPT ![w] = [profile[w] EXCEPT !.paused = p]]
      PROVE  /\ SameOrder(w) /\ profile'[w].words = profile[w].words
             /\ profile'[w].searchText = profile[w].searchText
             /\ profile'[w].delivered = profile[w].delivered
             /\ \A v \in Workers \ {w} : profile'[v] = profile[v]
  <2> DEFINE row == [profile[w] EXCEPT !.paused = p]
  <2>1. /\ row \in Rows /\ row # None
        /\ row.publishedAt = profile[w].publishedAt /\ row.id = profile[w].id
        /\ row.delivered = profile[w].delivered
        /\ row.words = profile[w].words /\ row.searchText = profile[w].searchText
    BY <1>0, <1>1, FlaggedRow
  <2>2. profile'[w] = row /\ \A v \in Workers \ {w} : profile'[v] = profile[v]
    BY <1>0, <1>1 DEF ProfilesTypeOK
  <2> HIDE DEF row
  <2> QED BY <2>1, <2>2 DEF SameOrder
<1>2. CASE Deliver(w)
  <2> DEFINE row == [profile[w] EXCEPT !.delivered = profile[w].delivered + 1]
  <2>1. /\ row \in Rows /\ row # None
        /\ row.publishedAt = profile[w].publishedAt /\ row.id = profile[w].id
        /\ row.words = profile[w].words /\ row.searchText = profile[w].searchText
    BY <1>0, <1>2, ContactedRow DEF Deliver
  <2>2. profile'[w] = row /\ \A v \in Workers \ {w} : profile'[v] = profile[v]
    BY <1>0, <1>2 DEF Deliver, ProfilesTypeOK
  <2> HIDE DEF row
  <2>3. w \in Published /\ UNCHANGED <<held, lastId, consent, shown, pc, job>>
    BY <1>2 DEF Deliver
  <2> QED BY <1>2, <2>1, <2>2, <2>3 DEF SameOrder
<1>3. CASE PauseProfile(w) \/ ResumeProfile(w)
  <2>1. /\ w \in Published /\ UNCHANGED <<held, lastId, consent, shown, pc, job>>
        /\ \E p \in BOOLEAN : profile' = [profile EXCEPT ![w] = [profile[w] EXCEPT !.paused = p]]
    BY <1>3 DEF PauseProfile, ResumeProfile
  <2> QED BY <1>1, <2>1
<1> QED BY <1>2, <1>3

LEMMA RowsStep == ProfilesInv /\ [ProfilesNext]_profileVars => FoundByWhatItSays' /\ IdsAreDistinct'
<1> SUFFICES ASSUME ProfilesInv, [ProfilesNext]_profileVars PROVE FoundByWhatItSays' /\ IdsAreDistinct'
  OBVIOUS
<1>1. CASE UNCHANGED <<profile, held, lastId>>
  BY <1>1, SameRows
<1>2. ASSUME NEW w \in Workers, PauseProfile(w) \/ ResumeProfile(w) \/ Deliver(w)
      PROVE  FoundByWhatItSays' /\ IdsAreDistinct'
  <2>1. /\ \A v \in Workers : profile'[v] # None <=> profile[v] # None
        /\ \A v \in Published : /\ profile'[v].id = profile[v].id
                                /\ profile'[v].words = profile[v].words
                                /\ profile'[v].searchText = profile[v].searchText
    BY <1>2, TouchedOne DEF SameOrder, Published
  <2>2. UNCHANGED <<held, lastId>>
    BY <1>2, TouchedOne
  <2> QED BY <2>1, <2>2, SameRows
<1>3. ASSUME NEW r \in Requests, CommitPublish(r) PROVE FoundByWhatItSays' /\ IdsAreDistinct'
  <2> DEFINE w == job[r].worker
  <2>1. NewRow(r).id = lastId + 1 /\ NewRow(r).searchText = SearchTextFor(NewRow(r).words, job[r].wanted)
    BY DEF NewRow
  <2>2. lastId \in Nat /\ lastId' = lastId + 1 /\ \A v \in Published : profile[v].id \in Nat
    BY <1>3, PublishedRow DEF CommitPublish, ProfilesInv, ProfilesTypeOK
  <2>3. IdsAreDistinct'
    <3>1. \A v \in Published : profile[v].id <= lastId /\ v # w /\ v \in Workers /\ profile'[v] = profile[v]
      BY <1>3, PublishedOne DEF ProfilesInv, IdsAreDistinct, Published
    <3>2. Published' = Published \cup {w} /\ profile'[w] = NewRow(r)
      BY <1>3, PublishedOne
    <3>3. \A u, v \in Published : u # v => profile[u].id # profile[v].id
      BY DEF ProfilesInv, IdsAreDistinct
    <3> HIDE DEF w
    <3> QED BY <2>1, <2>2, <3>1, <3>2, <3>3 DEF IdsAreDistinct
  <2>4. FoundByWhatItSays'
    <3>1. ASSUME NEW v \in Published PROVE profile'[v].searchText = SearchTextFor(profile'[v].words, held'[v])
      BY <1>3, PublishedOne DEF ProfilesInv, FoundByWhatItSays, Published, SearchTextFor
    <3>2. profile'[w].searchText = SearchTextFor(profile'[w].words, held'[w])
      BY <1>3, <2>1, PublishedOne
    <3>3. Published' = Published \cup {w}
      BY <1>3, PublishedOne
    <3> HIDE DEF w
    <3> QED BY <3>1, <3>2, <3>3 DEF FoundByWhatItSays, SearchTextFor
  <2> QED BY <2>3, <2>4
<1>4. ASSUME NEW r \in Requests, CommitEdit(r) PROVE FoundByWhatItSays' /\ IdsAreDistinct'
  <2> DEFINE w == job[r].worker
  <2>1. /\ w \in Published /\ Published' = Published
        /\ profile'[w].id = profile[w].id
        /\ profile'[w].searchText = SearchTextFor(profile'[w].words, held'[w])
        /\ \A v \in Published \ {w} : profile'[v] = profile[v] /\ held'[v] = held[v]
    BY <1>4, EditedOne DEF Published
  <2>2. lastId' = lastId
    BY <1>4 DEF CommitEdit
  <2>3. FoundByWhatItSays /\ IdsAreDistinct
    BY DEF ProfilesInv
  <2> HIDE DEF w
  <2>4. FoundByWhatItSays'
    BY <2>1, <2>3 DEF FoundByWhatItSays, SearchTextFor
  <2>5. IdsAreDistinct'
    BY <2>1, <2>2, <2>3 DEF IdsAreDistinct
  <2> QED BY <2>4, <2>5
<1> QED
  BY <1>1, <1>2, <1>3, <1>4
  DEF ProfilesNext, Submit, Read, Tick, DeployConsentText, GiveUp, BeginPublish, ReadVocabulary, BeginEdit,
      ReadHeld, ReadChoosable, ReadPage, OpenList, profileRows, profileVars

-----------------------------------------------------------------------------
(* Consent and submits *)

LEMMA ConsentStep == ProfilesInv /\ [ProfilesNext]_profileVars => ConsentIsWhatSheRead'
<1> SUFFICES ASSUME ProfilesInv, [ProfilesNext]_profileVars, NEW w \in Workers
    PROVE  /\ w \in Published' => consent'[w] \in shown'[w]
           /\ w \notin Published' => consent'[w] = None
  BY DEF ConsentIsWhatSheRead
<1>0. /\ ProfilesTypeOK /\ SubmitsAreHers
      /\ w \in Published => consent[w] \in shown[w]
      /\ w \notin Published => consent[w] = None
  BY DEF ProfilesInv, ConsentIsWhatSheRead
<1> DEFINE Goal == /\ w \in Published' => consent'[w] \in shown'[w]
                   /\ w \notin Published' => consent'[w] = None
<1>1. CASE UNCHANGED <<profile, consent, shown>>
  BY <1>0, <1>1 DEF Published
<1>2. ASSUME NEW r \in Requests, NEW v \in Workers, NEW words \in Words, NEW wanted \in SUBSET Slugs,
             NEW n \in Versions, BeginPublish(r, v, words, wanted, n)
      PROVE  Goal
  BY <1>0, <1>2 DEF BeginPublish, Published, ProfilesTypeOK
<1>3. ASSUME NEW r \in Requests, CommitPublish(r) PROVE Goal
  <2>1. job[r].version \in shown[job[r].worker] /\ shown' = shown
    BY <1>0, <1>3 DEF SubmitsAreHers, CommitPublish, PublishPCs
  <2> QED BY <1>0, <1>3, <2>1, PublishedOne
<1>4. ASSUME NEW r \in Requests, CommitEdit(r) PROVE Goal
  <2>1. UNCHANGED <<consent, shown>> /\ Published' = Published
    BY <1>4, EditedOne DEF CommitEdit
  <2> QED BY <1>0, <2>1
<1>5. ASSUME NEW v \in Workers, PauseProfile(v) \/ ResumeProfile(v) \/ Deliver(v) PROVE Goal
  <2>1. UNCHANGED <<consent, shown>>
    BY <1>5, TouchedOne
  <2>2. w \in Published' <=> w \in Published
    BY <1>5, TouchedOne DEF SameOrder, Published
  <2> QED BY <1>0, <2>1, <2>2
<1> QED
  BY <1>1, <1>2, <1>3, <1>4, <1>5
  DEF ProfilesNext, Submit, Read, Tick, DeployConsentText, GiveUp, ReadVocabulary, BeginEdit,
      ReadHeld, ReadChoosable, ReadPage, OpenList, profileRows, profileVars

LEMMA SubmitsStep == ProfilesInv /\ [ProfilesNext]_profileVars => SubmitsAreHers'
<1> DEFINE Hers(r) ==
      /\ pc[r] # "idle" => job[r].worker \in Workers /\ job[r].words \in Words
      /\ pc[r] \in PublishPCs => job[r].version \in shown[job[r].worker]
      /\ pc[r] \in EditPCs => job[r].worker \in Published
<1> SUFFICES ASSUME ProfilesInv, [ProfilesNext]_profileVars, NEW r \in Requests PROVE Hers(r)'
  BY DEF SubmitsAreHers
<1>0. ProfilesTypeOK /\ Hers(r)
  BY DEF ProfilesInv, SubmitsAreHers
<1> USE DEF PublishPCs, EditPCs
\* Nobody is unpublished, and what was shown stays shown.
<1>1. Published \subseteq Published' /\ \A w \in Workers : shown[w] \subseteq shown'[w]
  <2>1. CASE UNCHANGED <<profile, shown>>
    BY <2>1 DEF Published
  <2>2. ASSUME NEW q \in Requests, NEW w \in Workers, NEW words \in Words, NEW wanted \in SUBSET Slugs,
               NEW n \in Versions, BeginPublish(q, w, words, wanted, n)
        PROVE  Published \subseteq Published' /\ \A v \in Workers : shown[v] \subseteq shown'[v]
    BY <1>0, <2>2 DEF BeginPublish, ProfilesTypeOK, Published
  <2>3. ASSUME NEW q \in Requests, CommitPublish(q)
        PROVE  Published \subseteq Published' /\ \A v \in Workers : shown[v] \subseteq shown'[v]
    <3>1. shown' = shown
      BY <2>3 DEF CommitPublish
    <3> QED BY <2>3, <3>1, PublishedOne
  <2>4. ASSUME NEW q \in Requests, CommitEdit(q)
        PROVE  Published \subseteq Published' /\ \A v \in Workers : shown[v] \subseteq shown'[v]
    <3>1. shown' = shown
      BY <2>4 DEF CommitEdit
    <3> QED BY <2>4, <3>1, EditedOne
  <2>5. ASSUME NEW w \in Workers, PauseProfile(w) \/ ResumeProfile(w) \/ Deliver(w)
        PROVE  Published \subseteq Published' /\ \A v \in Workers : shown[v] \subseteq shown'[v]
    <3>1. shown' = shown
      BY <2>5, TouchedOne
    <3>2. Published \subseteq Published'
      BY <2>5, TouchedOne DEF SameOrder, Published
    <3> QED BY <3>1, <3>2
  <2> QED
    BY <2>1, <2>2, <2>3, <2>4, <2>5
    DEF ProfilesNext, Submit, Read, Tick, DeployConsentText, GiveUp, ReadVocabulary, BeginEdit,
        ReadHeld, ReadChoosable, ReadPage, OpenList, profileRows, profileVars
<1>2. CASE UNCHANGED <<pc, job>>
  BY <1>0, <1>1, <1>2
<1>3. ASSUME NEW q \in Requests, Finish(q) PROVE Hers(r)'
  BY <1>0, <1>1, <1>3 DEF Finish, Goto, ProfilesTypeOK
<1>4. ASSUME NEW q \in Requests, NEW w \in Workers, NEW words \in Words, NEW wanted \in SUBSET Slugs,
             NEW n \in Versions, BeginPublish(q, w, words, wanted, n)
      PROVE  Hers(r)'
  <2>1. CASE r = q
    <3>1. /\ pc'[r] = "publishing" /\ job'[r].worker = w /\ job'[r].words = words
          /\ job'[r].version = n /\ n \in shown'[w]
      BY <1>0, <1>4, <2>1 DEF BeginPublish, Goto, ProfilesTypeOK
    <3> QED BY <3>1
  <2>2. CASE r # q
    <3>1. pc'[r] = pc[r] /\ job'[r] = job[r]
      BY <1>0, <1>4, <2>2 DEF BeginPublish, Goto, ProfilesTypeOK
    <3> QED BY <1>0, <1>1, <3>1
  <2> QED BY <2>1, <2>2
<1>5. ASSUME NEW q \in Requests, NEW w \in Workers, NEW words \in Words, NEW wanted \in SUBSET Slugs,
             BeginEdit(q, w, words, wanted)
      PROVE  Hers(r)'
  <2>1. CASE r = q
    <3>1. pc'[r] = "editing" /\ job'[r].worker = w /\ job'[r].words = words /\ w \in Published
      BY <1>0, <1>5, <2>1 DEF BeginEdit, Goto, ProfilesTypeOK
    <3> QED BY <1>1, <3>1
  <2>2. CASE r # q
    <3>1. pc'[r] = pc[r] /\ job'[r] = job[r]
      BY <1>0, <1>5, <2>2 DEF BeginEdit, Goto, ProfilesTypeOK
    <3> QED BY <1>0, <1>1, <3>1
  <2> QED BY <2>1, <2>2
<1>6. ASSUME NEW q \in Requests, ReadVocabulary(q) \/ ReadChoosable(q) PROVE Hers(r)'
  BY <1>0, <1>1, <1>6 DEF ReadVocabulary, ReadChoosable, Goto, ProfilesTypeOK
<1>7. ASSUME NEW q \in Requests, ReadHeld(q) PROVE Hers(r)'
  <2>1. job'[r].worker = job[r].worker /\ job'[r].words = job[r].words
    BY <1>0, <1>7 DEF ReadHeld, ProfilesTypeOK, Jobs
  <2>2. pc'[r] = pc[r] \/ (pc[r] = "editing" /\ pc'[r] = "owned")
    BY <1>0, <1>7 DEF ReadHeld, Goto, ProfilesTypeOK
  <2>3. job'[r].version = job[r].version
    BY <1>0, <1>7 DEF ReadHeld, ProfilesTypeOK, Jobs
  <2> QED BY <1>0, <1>1, <2>1, <2>2, <2>3
<1>8. ASSUME NEW w \in Workers, PauseProfile(w) \/ ResumeProfile(w) \/ Deliver(w) PROVE UNCHANGED <<pc, job>>
  BY <1>8, TouchedOne
<1> QED
  BY <1>2, <1>3, <1>4, <1>5, <1>6, <1>7, <1>8
  DEF ProfilesNext, Submit, Read, Tick, DeployConsentText, GiveUp, CommitPublish, CommitEdit,
      ReadPage, OpenList, profileRows, profileVars

-----------------------------------------------------------------------------
(* The walks *)

WalkHolds(x) == Settled(x) => ~reader[x].again /\ WalkedUpTo(x)

\* A walk goes on unharmed where the profiles it may have met keep their order.
LEMMA SameWalk ==
  ASSUME ProfilesInv, NEW x \in Readers,
         reader'[x].list = reader[x].list, reader'[x].after = reader[x].after,
         reader'[x].seen = reader[x].seen, reader'[x].throughout = reader[x].throughout,
         reader'[x].at = reader[x].at, reader'[x].again = reader[x].again,
         Settled(x)' => Settled(x),
         Published \subseteq Published',
         \A p, q \in Published : Before(reader[x].list, p, q) => Before(reader[x].list, p, q)'
  PROVE  WalkHolds(x)'
<1> SUFFICES ASSUME Settled(x)' PROVE ~reader'[x].again /\ WalkedUpTo(x)'
  BY DEF WalkHolds
<1>1. ~reader[x].again /\ WalkedUpTo(x)
  BY DEF ProfilesInv, WalksAreSettled
<1>2. ~reader'[x].again
  BY <1>1, Zenon
<1>3. WalkedUpTo(x)'
  <2>1. reader[x].at = "start" => reader[x].seen = {} /\ reader[x].after = None
    BY <1>1 DEF WalkedUpTo
  <2>2. reader[x].at = "end" => reader[x].throughout \subseteq reader[x].seen
    BY <1>1 DEF WalkedUpTo
  <2>3. ASSUME reader[x].at = "walking"
        PROVE  /\ reader[x].after \in Published'
               /\ \A w \in reader[x].seen :
                    w \in Published' /\ (w = reader[x].after \/ Before(reader[x].list, w, reader[x].after)')
               /\ \A w \in reader[x].throughout \ reader[x].seen :
                    w \in Published' /\ Before(reader[x].list, reader[x].after, w)'
    BY <1>1, <2>3 DEF WalkedUpTo
  <2> QED BY <2>1, <2>2, <2>3 DEF WalkedUpTo
<1> QED BY <1>2, <1>3

\* A page takes the walk from one cursor to the next, or to its end.
LEMMA PageKeepsTheWalk ==
  ASSUME ProfilesInv, NEW x \in Readers, ReadPage(x)
  PROVE  WalkHolds(x)'
<1> SUFFICES ASSUME Settled(x)' PROVE ~reader'[x].again /\ WalkedUpTo(x)'
  BY DEF WalkHolds
<1>0. ProfilesTypeOK /\ IdsAreDistinct /\ profile' = profile
  BY DEF ProfilesInv, ReadPage, profileRows
<1>1. PICK items, last, more :
           /\ more \in BOOLEAN
           /\ items \subseteq Published
           /\ \A w \in items : w \in Listed(x) /\ After(x, w)
           /\ ~more => \A w \in Listed(x) : After(x, w) => w \in items
           /\ more => /\ last \in items
                      /\ \A q \in items : q = last \/ Before(reader[x].list, q, last)
                      /\ \A w \in Listed(x) \ items : After(x, w) => Before(reader[x].list, last, w)
           /\ reader[x].at # "end"
           /\ reader' \in [Readers -> Walks]
           /\ \A y \in Readers \ {x} : reader'[y] = reader[y]
           /\ reader'[x].list = reader[x].list
           /\ reader'[x].unmoved = reader[x].unmoved
           /\ reader'[x].after = IF more THEN last ELSE reader[x].after
           /\ reader'[x].seen = reader[x].seen \cup items
           /\ ~reader[x].again /\ items \cap reader[x].seen = {} => ~reader'[x].again
           /\ reader'[x].throughout = reader[x].throughout \cap Listed(x)
           /\ reader'[x].at = IF more THEN "walking" ELSE "end"
  BY <1>0, PageTurned
<1> DEFINE list == reader[x].list
           after == reader[x].after
           seen == reader[x].seen
<1>2. Settled(x)
  BY <1>1 DEF Settled
<1>3. ~reader[x].again /\ WalkedUpTo(x)
  BY <1>2 DEF ProfilesInv, WalksAreSettled
<1>4. reader[x].at \in {"start", "walking"}
  BY <1>0, <1>1 DEF ProfilesTypeOK, Walks
<1>5. Published \subseteq Workers /\ None \notin Published
  BY ProfileNone DEF Published
\* Where the page starts: after everybody seen, before whoever is still to come.
<1>6. \A w \in seen : /\ w \in Published
                      /\ \A i \in Published : After(x, i) => Before(list, w, i)
  <2>1. CASE reader[x].at = "start"
    BY <1>3, <2>1 DEF WalkedUpTo
  <2>2. CASE reader[x].at = "walking"
    <3> SUFFICES ASSUME NEW w \in seen
        PROVE  w \in Published /\ \A i \in Published : After(x, i) => Before(list, w, i)
      OBVIOUS
    <3>1. after \in Published /\ w \in Published /\ (w = after \/ Before(list, w, after))
      BY <1>3, <2>2 DEF WalkedUpTo
    <3>2. \A i \in Published : After(x, i) => Before(list, after, i)
      BY <1>5, <3>1 DEF After
    <3> HIDE DEF list, after, seen
    <3> QED BY <1>0, <3>1, <3>2, BeforeIsAnOrder
  <2> QED BY <1>4, <2>1, <2>2
<1>7. \A w \in reader[x].throughout \ seen : After(x, w)
  <2>1. CASE reader[x].at = "start"
    BY <1>3, <2>1 DEF WalkedUpTo, After
  <2>2. CASE reader[x].at = "walking"
    BY <1>3, <2>2 DEF WalkedUpTo, After
  <2> QED BY <1>4, <2>1, <2>2
<1>8. items \cap seen = {}
  <2> HIDE DEF list, after, seen
  <2> QED BY <1>0, <1>1, <1>6, BeforeIsAnOrder
<1>9. ~reader'[x].again
  BY <1>1, <1>3, <1>8, Zenon
<1>10. CASE ~more
  <2>1. reader'[x].at = "end" /\ reader'[x].throughout \subseteq reader'[x].seen
    BY <1>1, <1>7, <1>10
  <2> QED BY <1>9, <2>1 DEF WalkedUpTo
<1>11. CASE more
  <2>1. last \in items /\ last \in Published /\ After(x, last)
    BY <1>1, <1>11
  <2>2. ASSUME NEW w \in reader'[x].seen
        PROVE  w \in Published /\ (w = last \/ Before(list, w, last))
    <3>1. CASE w \in items
      BY <1>1, <1>11, <3>1
    <3>2. CASE w \in seen
      <4> HIDE DEF list
      <4> QED BY <1>6, <2>1, <3>2
    <3> QED BY <1>1, <2>2, <3>1, <3>2
  <2>3. ASSUME NEW w \in reader'[x].throughout \ reader'[x].seen
        PROVE  w \in Published /\ Before(list, last, w)
    <3>1. w \in Listed(x) \ items /\ w \in reader[x].throughout \ seen
      BY <1>1, <2>3
    <3>2. w \in Published
      BY <3>1, ListedArePublished
    <3> QED BY <1>1, <1>7, <1>11, <3>1, <3>2
  <2>4. reader'[x].list = list /\ reader'[x].after = last /\ reader'[x].at = "walking"
    BY <1>1, <1>11
  <2>5. Published' = Published /\ \A p, q : Before(list, p, q)' <=> Before(list, p, q)
    BY <1>0, <1>1 DEF Published, Before, NewerThan, LessContacted
  <2>6. WalkedUpTo(x)'
    BY <1>1, <2>1, <2>2, <2>3, <2>4, <2>5 DEF WalkedUpTo
  <2> QED BY <1>9, <2>6
<1> QED BY <1>1, <1>10, <1>11

\* A step that leaves the readers alone, and two published profiles in their order.
LEMMA OrderKept ==
  ASSUME ProfilesInv, NEW x \in Readers, reader'[x] = reader[x], Published \subseteq Published',
         \A w \in Published : /\ profile'[w].publishedAt = profile[w].publishedAt
                              /\ profile'[w].id = profile[w].id
                              /\ profile'[w].delivered = profile[w].delivered
  PROVE  WalkHolds(x)'
<1>1. \A p, q \in Published : Before(reader[x].list, p, q) => Before(reader[x].list, p, q)'
  BY DEF Before, NewerThan, LessContacted
<1>2. Settled(x)' => Settled(x)
  BY DEF Settled
<1> QED BY <1>1, <1>2, SameWalk

LEMMA WalksStep == ProfilesInv /\ [ProfilesNext]_profileVars => WalksAreSettled'
<1> SUFFICES ASSUME ProfilesInv, [ProfilesNext]_profileVars, NEW x \in Readers PROVE WalkHolds(x)'
  BY DEF WalksAreSettled, WalkHolds
<1>0. ProfilesTypeOK
  BY DEF ProfilesInv
<1>1. CASE UNCHANGED <<profile, reader>>
  BY <1>1, OrderKept DEF Published
<1>2. ASSUME NEW r \in Requests, CommitPublish(r) PROVE WalkHolds(x)'
  <2>1. reader' = reader
    BY <1>2 DEF CommitPublish
  <2>2. Published \subseteq Published' /\ \A w \in Published : profile'[w] = profile[w]
    BY <1>2, PublishedOne DEF Published
  <2> QED BY <2>1, <2>2, OrderKept
<1>3. ASSUME NEW r \in Requests, CommitEdit(r) PROVE WalkHolds(x)'
  <2>1. reader' = reader
    BY <1>3 DEF CommitEdit
  <2>2. /\ Published \subseteq Published'
        /\ \A w \in Published : /\ profile'[w].publishedAt = profile[w].publishedAt
                                /\ profile'[w].id = profile[w].id
                                /\ profile'[w].delivered = profile[w].delivered
    BY <1>3, EditedOne DEF Published
  <2> QED BY <2>1, <2>2, OrderKept
<1>4. ASSUME NEW w \in Workers, PauseProfile(w) \/ ResumeProfile(w), ~Deliver(w) PROVE WalkHolds(x)'
  <2>1. reader' = reader
    BY <1>4 DEF PauseProfile, ResumeProfile
  <2>2. /\ Published \subseteq Published'
        /\ \A v \in Published : /\ profile'[v].publishedAt = profile[v].publishedAt
                                /\ profile'[v].id = profile[v].id
                                /\ profile'[v].delivered = profile[v].delivered
    BY <1>4, TouchedOne DEF SameOrder, Published
  <2> QED BY <2>1, <2>2, OrderKept
<1>5. ASSUME NEW w \in Workers, Deliver(w) PROVE WalkHolds(x)'
  <2>1. /\ w \in Published /\ Published \subseteq Published'
        /\ \A v \in Published : profile'[v].publishedAt = profile[v].publishedAt /\ profile'[v].id = profile[v].id
    BY <1>5, TouchedOne DEF SameOrder, Published
  <2>2. CASE reader[x].at # "walking"
    <3>1. reader'[x] = reader[x]
      BY <1>0, <1>5, <2>2 DEF Deliver, ProfilesTypeOK
    <3>2. Settled(x)' => ~reader[x].again /\ WalkedUpTo(x)
      BY <3>1 DEF Settled, ProfilesInv, WalksAreSettled
    <3> QED BY <2>2, <3>1, <3>2 DEF WalkHolds, WalkedUpTo
  <2>3. CASE reader[x].at = "walking"
    <3>1. reader'[x] = [reader[x] EXCEPT !.unmoved = reader[x].unmoved \ {w}]
      BY <1>0, <1>5, <2>3 DEF Deliver, ProfilesTypeOK
    <3>2. reader[x] \in Walks
      BY <1>0 DEF ProfilesTypeOK
    <3>3. /\ reader'[x].list = reader[x].list /\ reader'[x].after = reader[x].after
          /\ reader'[x].seen = reader[x].seen /\ reader'[x].throughout = reader[x].throughout
          /\ reader'[x].at = reader[x].at /\ reader'[x].unmoved = reader[x].unmoved \ {w}
      BY <3>1, <3>2 DEF Walks
    <3>4. reader'[x].again = reader[x].again
      BY <3>1, <3>2 DEF Walks
    <3>5. w \in Workers /\ reader'[x].unmoved # Workers
      BY <3>3
    <3>6. CASE reader[x].list # "wall"
      BY <3>3, <3>5, <3>6 DEF WalkHolds, Settled
    <3>7. CASE reader[x].list = "wall"
      <4>1. \A p, q \in Published : Before(reader[x].list, p, q) => Before(reader[x].list, p, q)'
        BY <2>1, <3>3, <3>7 DEF Before, NewerThan
      <4>2. Settled(x)' => Settled(x)
        BY <3>7 DEF Settled
      <4> QED BY <2>1, <3>3, <3>4, <4>1, <4>2, SameWalk
    <3> QED BY <3>6, <3>7
  <2> QED BY <2>2, <2>3
<1>6. ASSUME NEW y \in Readers, ReadPage(y) PROVE WalkHolds(x)'
  <2>1. CASE y = x
    BY <1>6, <2>1, PageKeepsTheWalk
  <2>2. CASE y # x
    <3>1. reader'[x] = reader[x] /\ profile' = profile
      BY <1>0, <1>6, <2>2 DEF ReadPage, profileRows, ProfilesTypeOK
    <3> QED BY <3>1, OrderKept DEF Published
  <2> QED BY <2>1, <2>2
<1>7. ASSUME NEW y \in Readers, NEW list \in Lists, NEW filter \in SUBSET Slugs, OpenList(y, list, filter)
      PROVE  WalkHolds(x)'
  <2>1. CASE y = x
    <3>1. reader'[x] = NewWalk(list, filter)
      BY <1>0, <1>7, <2>1 DEF OpenList, ProfilesTypeOK
    <3>2. reader'[x].at = "start" /\ reader'[x].seen = {} /\ reader'[x].after = None
      BY <3>1 DEF NewWalk
    <3>3. ~reader'[x].again
      BY <3>1 DEF NewWalk
    <3> QED BY <3>2, <3>3 DEF WalkHolds, WalkedUpTo
  <2>2. CASE y # x
    <3>1. reader'[x] = reader[x] /\ profile' = profile
      BY <1>0, <1>7, <2>2 DEF OpenList, profileRows, ProfilesTypeOK
    <3> QED BY <3>1, OrderKept DEF Published
  <2> QED BY <2>1, <2>2
<1> QED
  BY <1>1, <1>2, <1>3, <1>4, <1>5, <1>6, <1>7
  DEF ProfilesNext, Submit, Read, Tick, DeployConsentText, GiveUp, BeginPublish, ReadVocabulary, BeginEdit,
      ReadHeld, ReadChoosable, profileRows, profileVars

LEMMA ProfilesStep == ProfilesInv /\ [ProfilesNext]_profileVars => ProfilesInv'
<1>1. ProfilesInv /\ [ProfilesNext]_profileVars => SkillsInv'
  BY VocabularyMoves, SkillsStep DEF ProfilesInv
<1> QED BY <1>1, ProfilesTypeStep, RowsStep, ConsentStep, SubmitsStep, WalksStep DEF ProfilesInv
-----------------------------------------------------------------------------
(* Theorems *)

\* The inductive invariant: the rows, the submits in flight and every walk, for
\* any Workers, submits and readers (packages/domain/src/profiles).
THEOREM ProfilesInvariant == Spec => []ProfilesInv
BY ProfilesInitInv, ProfilesStep, PTL DEF Spec

\* Every row, submit and walk holds a value it may hold.
THEOREM ProfilesTypeCorrect == Spec => []ProfilesTypeOK
<1>1. ProfilesInv => ProfilesTypeOK
  BY DEF ProfilesInv
<1> QED BY <1>1, ProfilesInvariant, PTL

\* The vocabulary stays true with publishing and editing beside it.
THEOREM PromotedOnceBesideProfiles == Spec => []PromotedHasItsEntry
<1>1. ProfilesInv => PromotedHasItsEntry
  BY DEF ProfilesInv, SkillsInv
<1> QED BY <1>1, ProfilesInvariant, PTL

\* A search finds a profile by what it says now, whichever save came last
\* (profiles/index.ts:209-453).
THEOREM SearchTextIsCurrent == Spec => []FoundByWhatItSays
<1>1. ProfilesInv => FoundByWhatItSays
  BY DEF ProfilesInv
<1> QED BY <1>1, ProfilesInvariant, PTL

\* The consent a profile stands on names a text its Worker was shown
\* (consent/index.ts:76-107).
THEOREM ConsentWasRead == Spec => []ConsentIsWhatSheRead
<1>1. ProfilesInv => ConsentIsWhatSheRead
  BY DEF ProfilesInv
<1> QED BY <1>1, ProfilesInvariant, PTL

\* Walking the Wall misses nobody who was there at each page, and shows nobody
\* twice, whatever the page size (policy/listing.ts:56-66).
THEOREM WallIsWalked == Spec => []WallWalkIsComplete
<1>1. ProfilesInv => WallWalkIsComplete
  BY DEF ProfilesInv, WalksAreSettled, WallWalkIsComplete, Settled, WalkedUpTo
<1> QED BY <1>1, ProfilesInvariant, PTL

\* So does walking browse, whatever the rotation keys, while no Offer is
\* delivered (policy/listing.ts:68-91).
THEOREM BrowseIsWalked == Spec => []BrowseWalkIsComplete
<1>1. ProfilesInv => BrowseWalkIsComplete
  BY DEF ProfilesInv, WalksAreSettled, BrowseWalkIsComplete, Settled, WalkedUpTo
<1> QED BY <1>1, ProfilesInvariant, PTL

\* Beside profiles the vocabulary is what it is alone, so all that is proved of
\* it holds here: nothing in packages/domain/src/profiles writes one of its rows.
THEOREM ProfilesContainTheVocabulary == Spec => SkillsSpec
<1>1. Init => SkillsInit
  BY DEF Init
<1>2. [ProfilesNext]_profileVars => [SkillsNext]_skillVars
  BY VocabularyMoves
<1> QED BY <1>1, <1>2, PTL DEF Spec, SkillsSpec

\* The promise of the vocabulary, kept with publishing and editing beside it.
THEOREM VocabularyIsImplementedBesideProfiles == Spec => VocabularySpec
BY ProfilesContainTheVocabulary, VocabularyIsImplemented

=============================================================================
