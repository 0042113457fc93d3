---------------------------- MODULE Listing_proofs ----------------------------
(***************************************************************************)
(* What a client that pages through a list is promised, for every number   *)
(* of rows and of changes.  The argument is about ranks: the rows of a     *)
(* list have the ranks 0, 1, 2, ... without a gap; a row that leaves or    *)
(* enters shifts the ranks behind it by one, so that one row at most       *)
(* crosses the client's offset.                                            *)
(***************************************************************************)
EXTENDS Listing, FiniteSetTheorems, TLAPS

\* The rows of a list before r, and how many they are.
Before(list, r) == {q \in list : q < r}

RankIn(list, r) == Cardinality(Before(list, r))

\* The rows that a listing was due to show, and has passed without showing them.
Passed(r) == listing.ended \/ Rank(r) < listing.offset

Skipped == {r \in listing.due : Passed(r) /\ listing.shown[r] = 0}

\* The rows shown more than once, and those shown that the next pages show again.
Repeated ==
  {r \in Rows : \/ listing.shown[r] > 1
                \/ r \in Listed /\ listing.shown[r] > 0 /\ Rank(r) >= listing.offset}

\* The inductive invariant.
ListingInv ==
  /\ ListingTypeOK
  /\ listing # None =>
       /\ listing.due \subseteq Listed
       /\ Cardinality(Skipped) <= listing.left
       /\ Cardinality(Repeated) <= listing.entered

-----------------------------------------------------------------------------
(***************************************************************************)
(* Ranks                                                                   *)
(***************************************************************************)

\* Every set of rows is finite.
LEMMA RowsAreFinite ==
  ASSUME NEW list \in SUBSET Rows
  PROVE  IsFiniteSet(list) /\ Cardinality(list) \in Nat
<1>1. IsFiniteSet(Rows)
  BY FS_Interval, ListingBounds DEF Rows
<1> QED BY <1>1, FS_Subset, FS_CardinalityType

\* A smaller set of rows has fewer members.
LEMMA FewerRows ==
  ASSUME NEW list \in SUBSET Rows, NEW fewer \in SUBSET list
  PROVE  Cardinality(fewer) <= Cardinality(list)
BY RowsAreFinite, FS_Subset

\* A set that gains one member at most.
LEMMA OneMoreRow ==
  ASSUME NEW list \in SUBSET Rows, NEW r, NEW more \in SUBSET (list \cup {r})
  PROVE  Cardinality(more) <= Cardinality(list) + 1
<1>1. /\ IsFiniteSet(list \cup {r})
      /\ Cardinality(list \cup {r}) <= Cardinality(list) + 1
      /\ Cardinality(list \cup {r}) \in Nat
  BY RowsAreFinite, FS_AddElement, FS_CardinalityType
<1>2. IsFiniteSet(more) /\ Cardinality(more) <= Cardinality(list \cup {r})
  BY <1>1, FS_Subset
<1>3. Cardinality(more) \in Nat /\ Cardinality(list) \in Nat
  BY <1>2, RowsAreFinite, FS_CardinalityType
<1> QED BY <1>1, <1>2, <1>3

\* A rank is a number.
LEMMA RankType ==
  ASSUME NEW list \in SUBSET Rows, NEW r \in Rows
  PROVE  RankIn(list, r) \in Nat
BY RowsAreFinite DEF RankIn, Before

\* Ranks follow the order of the list.
LEMMA RankOrder ==
  ASSUME NEW list \in SUBSET Rows, NEW q \in list, NEW r \in list, q < r
  PROVE  RankIn(list, q) < RankIn(list, r)
<1>1. q \notin Before(list, q)
  BY DEF Before, Rows
<1>2. Before(list, q) \cup {q} \in SUBSET Before(list, r)
  <2>1. \A p \in list : p < q => p < r
    <3>1. \A p \in list : p \in Int
      BY ListingBounds DEF Rows
    <3> QED BY <3>1
  <2> QED BY <2>1 DEF Before
<1>3. Before(list, q) \in SUBSET Rows /\ Before(list, r) \in SUBSET Rows
  BY DEF Before
<1>4. Cardinality(Before(list, q) \cup {q}) = Cardinality(Before(list, q)) + 1
  BY <1>1, <1>3, RowsAreFinite, FS_AddElement
<1>5. Cardinality(Before(list, q) \cup {q}) <= Cardinality(Before(list, r))
  BY <1>2, <1>3, FewerRows
<1> QED BY <1>3, <1>4, <1>5, RowsAreFinite DEF RankIn

\* No two rows share a rank.
LEMMA RankIsOnes ==
  ASSUME NEW list \in SUBSET Rows, NEW q \in list, NEW r \in list,
         RankIn(list, q) = RankIn(list, r)
  PROVE  q = r
<1>1. q \in Int /\ r \in Int
  BY ListingBounds DEF Rows
<1>2. RankIn(list, q) \in Nat /\ RankIn(list, r) \in Nat
  BY RankType
<1> QED BY <1>1, <1>2, RankOrder

\* A rank is less than the length of the list.
LEMMA RankBound ==
  ASSUME NEW list \in SUBSET Rows, NEW r \in list
  PROVE  RankIn(list, r) \in 0..(Cardinality(list) - 1)
<1>1. Before(list, r) \in SUBSET (list \ {r})
  BY DEF Before, Rows
<1>2. Cardinality(list \ {r}) = Cardinality(list) - 1
  BY RowsAreFinite, FS_RemoveElement
<1>3. RankIn(list, r) <= Cardinality(list) - 1
  BY <1>1, <1>2, FewerRows DEF RankIn
<1> QED BY <1>3, RankType, RowsAreFinite

\* Ranks have no gap: below the length of the list each belongs to a row.
LEMMA RankOfOne ==
  ASSUME NEW list \in SUBSET Rows, NEW k \in 0..(Cardinality(list) - 1)
  PROVE  \E r \in list : RankIn(list, r) = k
<1> DEFINE n == Cardinality(list)
           f == [r \in list |-> RankIn(list, r)]
<1>1. n \in Nat /\ IsFiniteSet(list)
  BY RowsAreFinite
<1>2. IsFiniteSet(0..(n - 1)) /\ Cardinality(0..(n - 1)) = n
  BY <1>1, FS_Interval
<1>3. f \in [list -> 0..(n - 1)]
  BY RankBound
<1>4. \A q, r \in list : f[q] = f[r] => q = r
  BY RankIsOnes
<1>5. f \in Injection(list, 0..(n - 1))
  BY <1>3, <1>4 DEF Injection, IsInjective
<1>6. f \in Surjection(list, 0..(n - 1))
  BY <1>2, <1>5, FS_Injection
<1> QED BY <1>6 DEF Surjection

\* When a row leaves the list, the rows behind it move up by one.
LEMMA RankAfterLeave ==
  ASSUME NEW list \in SUBSET Rows, NEW x \in list, NEW r \in Rows
  PROVE  RankIn(list \ {x}, r) = IF x < r THEN RankIn(list, r) - 1 ELSE RankIn(list, r)
<1>1. Before(list, r) \in SUBSET Rows
  BY DEF Before
<1>2. Before(list \ {x}, r) = Before(list, r) \ {x}
  BY DEF Before
<1>3. x \in Before(list, r) <=> x < r
  BY DEF Before
<1>4. Cardinality(Before(list, r) \ {x}) =
        IF x \in Before(list, r) THEN Cardinality(Before(list, r)) - 1
                               ELSE Cardinality(Before(list, r))
  BY <1>1, RowsAreFinite, FS_RemoveElement
<1> QED BY <1>2, <1>3, <1>4 DEF RankIn

\* When one enters it, they move down by one.
LEMMA RankAfterEnter ==
  ASSUME NEW list \in SUBSET Rows, NEW x \in Rows \ list, NEW r \in Rows
  PROVE  RankIn(list \cup {x}, r) = IF x < r THEN RankIn(list, r) + 1 ELSE RankIn(list, r)
<1>1. (list \cup {x}) \ {x} = list
  OBVIOUS
<1>2. RankIn(list, r) =
        IF x < r THEN RankIn(list \cup {x}, r) - 1 ELSE RankIn(list \cup {x}, r)
  BY <1>1, RankAfterLeave
<1> QED BY <1>2, RankType

\* A page that is not full is the last one.
LEMMA ShortPageIsLast ==
  ASSUME NEW list \in SUBSET Rows, NEW offset \in Nat, NEW limit \in Nat,
         NEW page, page = {r \in list : RankIn(list, r) \in offset..(offset + limit - 1)},
         Cardinality(page) < limit,
         NEW r \in list
  PROVE  RankIn(list, r) < offset + limit
<1> DEFINE ranks == offset..(offset + limit - 1)
           f == [q \in page |-> RankIn(list, q)]
<1> SUFFICES ASSUME RankIn(list, r) >= offset + limit
             PROVE  FALSE
  BY RankType
<1>1. page \in SUBSET Rows /\ IsFiniteSet(page)
  BY RowsAreFinite
<1>2. \A k \in ranks : \E q \in page : RankIn(list, q) = k
  <2> TAKE k \in ranks
  <2>1. RankIn(list, r) \in 0..(Cardinality(list) - 1) /\ Cardinality(list) \in Nat
    BY RankBound, RowsAreFinite
  <2>2. k \in 0..(Cardinality(list) - 1)
    BY <2>1
  <2>3. PICK q \in list : RankIn(list, q) = k
    BY <2>2, RankOfOne
  <2> QED BY <2>3
<1>3. f \in Surjection(page, ranks)
  BY <1>2 DEF Surjection
<1>4. Cardinality(ranks) <= Cardinality(page)
  BY <1>1, <1>3, FS_Surjection
<1>5. Cardinality(ranks) = limit
  BY FS_Interval
<1>6. Cardinality(page) \in Nat
  BY <1>1, RowsAreFinite
<1> QED BY <1>4, <1>5, <1>6

-----------------------------------------------------------------------------
(***************************************************************************)
(* The requests of others                                                  *)
(***************************************************************************)

\* The rows of the list, and their ranks in it.
LEMMA ListedRanks ==
  /\ Listed \in SUBSET Rows
  /\ \A r : Rank(r) = RankIn(Listed, r)
  /\ \A r : Rank(r)' = RankIn(Listed', r)
BY DEF Listed, Rank, RankIn, Before

\* Skipped and Repeated are sets of rows.
LEMMA CountedRows ==
  ASSUME ListingTypeOK, listing # None
  PROVE  Skipped \in SUBSET Rows /\ Repeated \in SUBSET Rows
BY DEF ListingTypeOK, Progress, Skipped, Repeated

\* A step after which the list is as before.
LEMMA SameList ==
  ASSUME ListingInv, ListingTypeOK', Listed' = Listed, UNCHANGED listing
  PROVE  ListingInv'
<1>1. \A r : Rank(r)' = Rank(r)
  BY ListedRanks
<1>2. listing # None => Skipped' = Skipped /\ Repeated' = Repeated
  BY <1>1 DEF Skipped, Passed, Repeated
<1> QED BY <1>2 DEF ListingInv

\* A row leaves the list: one row that was next moves before the offset.
LEMMA LeaveInv ==
  ASSUME ListingInv, ListingTypeOK', NEW x \in Listed, Listed' = Listed \ {x}, Leave(x)
  PROVE  ListingInv'
<1> SUFFICES ASSUME listing # None
             PROVE  /\ listing'.due \subseteq Listed'
                    /\ Cardinality(Skipped') <= listing'.left
                    /\ Cardinality(Repeated') <= listing'.entered
  BY DEF ListingInv, Leave
<1>1. /\ listing \in Progress
      /\ listing.due \subseteq Listed
      /\ Cardinality(Skipped) <= listing.left
      /\ Cardinality(Repeated) <= listing.entered
      /\ Skipped \in SUBSET Rows
      /\ Repeated \in SUBSET Rows
  BY CountedRows DEF ListingInv, ListingTypeOK
<1>2. /\ listing'.offset = listing.offset
      /\ listing'.shown = listing.shown
      /\ listing'.ended = listing.ended
      /\ listing'.entered = listing.entered
      /\ listing'.left = listing.left + 1
      /\ listing'.due = listing.due \ {x}
      /\ listing.offset \in Nat
  BY <1>1 DEF Leave, Progress
<1>3. \A r \in Listed' :
        /\ r \in Listed
        /\ Rank(r) \in Nat
        /\ Rank(r)' \in Nat
        /\ Rank(r)' \in {Rank(r), Rank(r) - 1}
  BY ListedRanks, RankType, RankAfterLeave
<1>4. PICK y : \A r \in Listed : Rank(r) = listing.offset => r = y
  <2>1. CASE \E r \in Listed : Rank(r) = listing.offset
    BY <2>1, ListedRanks, RankIsOnes
  <2> QED BY <2>1
<1>5. Skipped' \in SUBSET (Skipped \cup {y})
  <2> SUFFICES ASSUME NEW r \in Skipped', r # y
               PROVE  r \in Skipped
    OBVIOUS
  <2>1. r \in listing.due /\ r \in Listed' /\ listing.shown[r] = 0 /\ Passed(r)'
    BY <1>1, <1>2 DEF Skipped
  <2>2. Passed(r)
    BY <1>2, <1>3, <1>4, <2>1 DEF Passed
  <2> QED BY <2>1, <2>2 DEF Skipped
<1>6. Repeated' \in SUBSET Repeated
  BY <1>2, <1>3 DEF Repeated
<1>7. Cardinality(Skipped') <= Cardinality(Skipped) + 1
  BY <1>1, <1>5, OneMoreRow
<1>8. Cardinality(Repeated') <= Cardinality(Repeated)
  BY <1>1, <1>6, FewerRows
<1>9. /\ Cardinality(Skipped) \in Nat /\ Cardinality(Skipped') \in Nat
      /\ Cardinality(Repeated) \in Nat /\ Cardinality(Repeated') \in Nat
      /\ listing.left \in Nat /\ listing.entered \in Nat
  <2>1. Skipped' \in SUBSET Rows /\ Repeated' \in SUBSET Rows
    BY <1>1, <1>2, <1>6 DEF Skipped, Progress
  <2> QED BY <1>1, <2>1, RowsAreFinite DEF Progress
<1> QED BY <1>1, <1>2, <1>7, <1>8, <1>9

\* A row enters the list: one row that the client has been shown moves behind the
\* offset, or the new one is behind it and may have been shown before.
LEMMA EnterInv ==
  ASSUME ListingInv, ListingTypeOK', NEW x \in Rows \ Listed, Listed' = Listed \cup {x},
         Enter(x)
  PROVE  ListingInv'
<1> SUFFICES ASSUME listing # None
             PROVE  /\ listing'.due \subseteq Listed'
                    /\ Cardinality(Skipped') <= listing'.left
                    /\ Cardinality(Repeated') <= listing'.entered
  BY DEF ListingInv, Enter
<1>1. /\ listing \in Progress
      /\ listing.due \subseteq Listed
      /\ Cardinality(Skipped) <= listing.left
      /\ Cardinality(Repeated) <= listing.entered
      /\ Skipped \in SUBSET Rows
      /\ Repeated \in SUBSET Rows
  BY CountedRows DEF ListingInv, ListingTypeOK
<1>2. /\ listing'.offset = listing.offset
      /\ listing'.shown = listing.shown
      /\ listing'.ended = listing.ended
      /\ listing'.left = listing.left
      /\ listing'.entered = listing.entered + 1
      /\ listing'.due = listing.due
      /\ listing.offset \in Nat
  BY <1>1 DEF Enter, Progress
<1>3. /\ Listed' \in SUBSET Rows
      /\ \A r \in Rows :
           /\ Rank(r) \in Nat
           /\ Rank(r)' \in Nat
           /\ Rank(r)' = IF x < r THEN Rank(r) + 1 ELSE Rank(r)
  BY ListedRanks, RankType, RankAfterEnter
<1>4. PICK y : \A r \in Listed : Rank(r) = listing.offset - 1 => r = y
  <2>1. CASE \E r \in Listed : Rank(r) = listing.offset - 1
    BY <2>1, ListedRanks, RankIsOnes
  <2> QED BY <2>1
<1>5. Skipped' \in SUBSET Skipped
  BY <1>1, <1>2, <1>3 DEF Skipped, Passed, Listed
<1>6. \E z : Repeated' \in SUBSET (Repeated \cup {z})
  <2>1. \A r \in Repeated' \ Repeated :
          r \in Rows /\ r \in Listed' /\ Rank(r)' >= listing.offset
            /\ (r \in Listed => Rank(r) < listing.offset)
    BY <1>2, <1>3 DEF Repeated
  <2>2. \A r \in Repeated' \ Repeated : r # x => r \in Listed /\ x < r /\ r = y
    BY <1>2, <1>3, <1>4, <2>1
  <2>3. CASE Rank(x)' < listing.offset
    <3>1. \A r \in Repeated' \ Repeated : r = y
      BY <1>2, <1>3, <2>1, <2>2, <2>3
    <3> QED BY <3>1
  <2>4. CASE Rank(x)' >= listing.offset
    <3>1. \A r \in Repeated' \ Repeated : r # x => Rank(x)' < Rank(r)'
      BY <1>3, <2>1, <2>2, ListedRanks, RankOrder
    <3>2. \A r \in Repeated' \ Repeated : r # x => Rank(r)' = listing.offset
      BY <1>2, <1>3, <2>1, <2>2
    <3>3. \A r \in Repeated' \ Repeated : r = x
      BY <1>2, <1>3, <2>4, <3>1, <3>2
    <3> QED BY <3>3
  <2> QED BY <1>2, <1>3, <2>3, <2>4
<1>7. Cardinality(Skipped') <= Cardinality(Skipped)
  BY <1>1, <1>5, FewerRows
<1>8. Cardinality(Repeated') <= Cardinality(Repeated) + 1
  BY <1>1, <1>6, OneMoreRow
<1>9. /\ Cardinality(Skipped) \in Nat /\ Cardinality(Skipped') \in Nat
      /\ Cardinality(Repeated) \in Nat /\ Cardinality(Repeated') \in Nat
      /\ listing.left \in Nat /\ listing.entered \in Nat
  <2>1. Skipped' \in SUBSET Rows /\ Repeated' \in SUBSET Rows
    BY <1>1, <1>5 DEF Repeated
  <2> QED BY <1>1, <2>1, RowsAreFinite DEF Progress
<1> QED BY <1>1, <1>2, <1>7, <1>8, <1>9

-----------------------------------------------------------------------------
(***************************************************************************)
(* The client                                                              *)
(***************************************************************************)

\* A listing begins before every row of the list.
LEMMA BeginInv ==
  ASSUME ListingInv, NEW limit \in 1..MaxRow, Begin(limit)
  PROVE  ListingInv'
<1>1. ListingTypeOK'
  BY ListingBounds DEF ListingInv, ListingTypeOK, Begin, Progress, Listed, Rows
<1>2. Listed' = Listed
  BY DEF Begin, Listed, Committed
<1>3. /\ listing'.due = Listed
      /\ listing'.offset = 0
      /\ listing'.shown = [r \in Rows |-> 0]
      /\ listing'.left = 0
      /\ listing'.entered = 0
      /\ ~listing'.ended
  BY DEF Begin
<1>4. Skipped' = {}
  <2>1. \A r \in Listed : Rank(r)' \in Nat
    BY <1>2, ListedRanks, RankType
  <2>2. \A r \in Listed : ~Passed(r)'
    BY <1>3, <2>1 DEF Passed
  <2> QED BY <1>3, <2>2 DEF Skipped
<1>5. Repeated' = {}
  BY <1>3 DEF Repeated
<1> QED BY <1>1, <1>2, <1>3, <1>4, <1>5, FS_EmptySet DEF ListingInv

\* A page shows the rows between the old offset and the new one.
LEMMA ReadInv ==
  ASSUME ListingInv, ReadPage
  PROVE  ListingInv'
<1>1. /\ listing \in Progress
      /\ ~listing.ended
      /\ listing.due \subseteq Listed
      /\ Cardinality(Skipped) <= listing.left
      /\ Cardinality(Repeated) <= listing.entered
      /\ Skipped \in SUBSET Rows
      /\ Repeated \in SUBSET Rows
  BY CountedRows DEF ListingInv, ListingTypeOK, ReadPage
<1> DEFINE offset == listing.offset
           limit == listing.limit
<1>2. offset \in Nat /\ limit \in Nat /\ limit > 0
  BY <1>1, ListingBounds DEF Progress
<1>3. PICK page :
        /\ page = {r \in Listed : Rank(r) \in offset..(offset + limit - 1)}
        /\ listing' = [listing EXCEPT
             !.offset = @ + listing.limit,
             !.shown  = [r \in Rows |-> IF r \in page THEN @[r] + 1 ELSE @[r]],
             !.ended  = Cardinality(page) < listing.limit]
        /\ UNCHANGED <<query, rows>>
  BY DEF ReadPage, Pages
<1>4. /\ listing'.due = listing.due
      /\ listing'.left = listing.left
      /\ listing'.entered = listing.entered
      /\ listing'.offset = offset + limit
      /\ listing'.shown = [r \in Rows |-> IF r \in page THEN listing.shown[r] + 1
                                          ELSE listing.shown[r]]
      /\ listing'.ended = (Cardinality(page) < limit)
  BY <1>1, <1>3 DEF Progress
<1>5. ListingTypeOK'
  <2>1. PICK shown \in [Rows -> Nat], ended \in BOOLEAN :
          listing' = [listing EXCEPT !.offset = offset + limit, !.shown = shown,
                                     !.ended = ended]
    <3>1. [r \in Rows |-> IF r \in page THEN listing.shown[r] + 1 ELSE listing.shown[r]]
            \in [Rows -> Nat]
      BY <1>1 DEF Progress
    <3>2. (Cardinality(page) < limit) \in BOOLEAN
      OBVIOUS
    <3> QED BY <1>3, <3>1, <3>2, Zenon
  <2>2. offset + limit \in Nat
    BY <1>2
  <2> HIDE DEF offset, limit
  <2>3. listing' \in Progress
    BY <1>1, <2>1, <2>2 DEF Progress
  <2> QED BY <1>3, <2>3 DEF ListingInv, ListingTypeOK
<1>6. Listed' = Listed /\ \A r : Rank(r)' = Rank(r)
  BY <1>3, ListedRanks DEF Listed, Committed
<1>7. \A r \in Listed : r \in Rows /\ Rank(r) \in Nat
  BY ListedRanks, RankType
<1>8. \A r \in Rows : listing.shown[r] \in Nat
  BY <1>1 DEF Progress
<1>9. Skipped' \in SUBSET Skipped
  <2> SUFFICES ASSUME NEW r \in Skipped'
               PROVE  r \in Skipped
    OBVIOUS
  <2>1. r \in listing.due /\ r \in Listed /\ r \in Rows /\ listing'.shown[r] = 0
    BY <1>1, <1>4, <1>7 DEF Skipped
  <2>2. r \notin page /\ listing.shown[r] = 0
    BY <1>4, <1>8, <2>1
  <2>3. Rank(r) < offset + limit
    <3>1. CASE Cardinality(page) < limit
      BY <1>2, <1>3, <2>1, <3>1, ListedRanks, ShortPageIsLast
    <3>2. CASE ~(Cardinality(page) < limit)
      BY <1>4, <1>6, <3>2 DEF Skipped, Passed
    <3> QED BY <3>1, <3>2
  <2> QED BY <1>2, <1>3, <1>7, <2>1, <2>2, <2>3 DEF Skipped, Passed
<1>10. Repeated' \in SUBSET Repeated
  <2> SUFFICES ASSUME NEW r \in Repeated'
               PROVE  r \in Repeated
    OBVIOUS
  <2>1. r \in Rows /\ listing'.shown[r] = IF r \in page THEN listing.shown[r] + 1
                                         ELSE listing.shown[r]
    BY <1>4 DEF Repeated
  <2>2. CASE r \in page
    BY <1>2, <1>3, <1>4, <1>6, <1>7, <1>8, <2>1, <2>2 DEF Repeated
  <2>3. CASE r \notin page
    BY <1>2, <1>4, <1>6, <1>7, <1>8, <2>1, <2>3 DEF Repeated
  <2> QED BY <2>2, <2>3
<1>11. Cardinality(Skipped') <= Cardinality(Skipped)
  BY <1>1, <1>9, FewerRows
<1>12. Cardinality(Repeated') <= Cardinality(Repeated)
  BY <1>1, <1>10, FewerRows
<1>13. /\ Cardinality(Skipped) \in Nat /\ Cardinality(Skipped') \in Nat
       /\ Cardinality(Repeated) \in Nat /\ Cardinality(Repeated') \in Nat
       /\ listing.left \in Nat /\ listing.entered \in Nat
  <2>1. Skipped' \in SUBSET Rows /\ Repeated' \in SUBSET Rows
    BY <1>1, <1>9, <1>10
  <2> QED BY <1>1, <2>1, RowsAreFinite DEF Progress
<1> QED BY <1>1, <1>4, <1>5, <1>6, <1>11, <1>12, <1>13 DEF ListingInv

-----------------------------------------------------------------------------
(***************************************************************************)
(* The theorems                                                            *)
(***************************************************************************)

\* Nothing is listed at first.
LEMMA ListingInitInv == ListingInit => ListingInv
BY DEF ListingInit, ListingInv, ListingTypeOK, Row

\* A step that writes one row keeps the types.
LEMMA RowStepType ==
  ASSUME ListingTypeOK, NEW r \in Rows, NEW row \in Row,
         rows' = [rows EXCEPT ![r] = row],
         Enter(r) \/ Leave(r) \/ UNCHANGED listing,
         UNCHANGED query
  PROVE  ListingTypeOK'
<1>1. rows' \in [Rows -> Row] /\ query' \in Query
  BY DEF ListingTypeOK
<1>2. CASE listing = None \/ UNCHANGED listing
  BY <1>1, <1>2 DEF ListingTypeOK, Enter, Leave
<1>3. CASE listing # None
  <2>1. listing \in Progress
    BY <1>3 DEF ListingTypeOK
  <2>2. Enter(r) => listing' \in Progress
    BY <1>3, <2>1 DEF Enter, Progress
  <2>3. Leave(r) => listing' \in Progress
    <3>1. listing.due \ {r} \in SUBSET Rows /\ listing.left + 1 \in Nat
      BY <2>1 DEF Progress
    <3>2. PICK due \in SUBSET Rows : due = listing.due \ {r}
      BY <3>1
    <3> QED BY <1>3, <2>1, <3>1, <3>2 DEF Leave, Progress
  <2> QED BY <1>1, <2>1, <2>2, <2>3 DEF ListingTypeOK
<1> QED BY <1>2, <1>3

\* The list after one row is written.
LEMMA RowStepList ==
  ASSUME ListingTypeOK, NEW r \in Rows, NEW row,
         rows' = [rows EXCEPT ![r] = row]
  PROVE  Listed' = IF row.place = "committed" /\ row.match
                   THEN Listed \cup {r} ELSE Listed \ {r}
<1>1. \A q \in Rows : rows'[q] = IF q = r THEN row ELSE rows[q]
  BY DEF ListingTypeOK
<1>2. CASE row.place = "committed" /\ row.match
  BY <1>1, <1>2 DEF Listed, Committed
<1>3. CASE ~(row.place = "committed" /\ row.match)
  BY <1>1, <1>3 DEF Listed, Committed
<1> QED BY <1>2, <1>3

\* Every request of others keeps the invariant.
LEMMA OthersInv ==
  ASSUME ListingInv, NEW r \in Rows,
         \/ \E value \in BOOLEAN : Insert(r, value)
         \/ CommitInsert(r)
         \/ RollbackInsert(r)
         \/ Change(r)
         \/ Delete(r)
  PROVE  ListingInv'
<1>1. ListingTypeOK /\ rows[r] \in Row
  BY DEF ListingInv, ListingTypeOK
<1>2. r \in Listed <=> rows[r].place = "committed" /\ rows[r].match
  BY DEF Listed, Committed
<1>3. CASE \E value \in BOOLEAN : Insert(r, value)
  <2>1. PICK value \in BOOLEAN : Insert(r, value)
    BY <1>3
  <2> DEFINE row == [place |-> "inserted", match |-> Matches(value)]
  <2>2. row \in Row
    BY DEF Row, Matches
  <2>3. ListingTypeOK'
    BY <1>1, <2>1, <2>2, RowStepType DEF Insert
  <2>4. Listed' = Listed \ {r} /\ r \notin Listed
    BY <1>1, <1>2, <2>1, RowStepList DEF Insert
  <2> QED BY <2>1, <2>3, <2>4, SameList DEF Insert
<1>4. CASE CommitInsert(r)
  <2> DEFINE row == [rows[r] EXCEPT !.place = "committed"]
  <2>1. row \in Row /\ row.place = "committed" /\ row.match = rows[r].match
    BY <1>1 DEF Row
  <2>2. ListingTypeOK'
    BY <1>1, <1>4, <2>1, RowStepType DEF CommitInsert
  <2>3. Listed' = IF row.place = "committed" /\ row.match
                  THEN Listed \cup {r} ELSE Listed \ {r}
    BY <1>1, <1>4, RowStepList DEF CommitInsert
  <2>4. CASE rows[r].match
    BY <1>2, <1>4, <2>1, <2>2, <2>3, <2>4, EnterInv DEF CommitInsert
  <2>5. CASE ~rows[r].match
    BY <1>2, <1>4, <2>1, <2>2, <2>3, <2>5, SameList DEF CommitInsert
  <2> QED BY <2>4, <2>5
<1>5. CASE RollbackInsert(r)
  <2> DEFINE row == [rows[r] EXCEPT !.place = "gone"]
  <2>1. row \in Row /\ row.place = "gone"
    BY <1>1 DEF Row
  <2>2. ListingTypeOK'
    BY <1>1, <1>5, <2>1, RowStepType DEF RollbackInsert
  <2>3. Listed' = Listed \ {r} /\ r \notin Listed
    BY <1>1, <1>2, <1>5, <2>1, RowStepList DEF RollbackInsert
  <2> QED BY <1>5, <2>2, <2>3, SameList DEF RollbackInsert
<1>6. CASE Change(r)
  <2> DEFINE row == [rows[r] EXCEPT !.match = ~@]
  <2>1. row \in Row /\ row.place = "committed" /\ row.match = ~rows[r].match
    BY <1>1, <1>6 DEF Row, Change, Committed
  <2>2. ListingTypeOK'
    BY <1>1, <1>6, <2>1, RowStepType DEF Change
  <2>3. Listed' = IF row.place = "committed" /\ row.match
                  THEN Listed \cup {r} ELSE Listed \ {r}
    BY <1>1, <1>6, RowStepList DEF Change
  <2>4. CASE rows[r].match
    BY <1>2, <1>6, <2>1, <2>2, <2>3, <2>4, LeaveInv DEF Change, Committed
  <2>5. CASE ~rows[r].match
    BY <1>2, <1>6, <2>1, <2>2, <2>3, <2>5, EnterInv DEF Change
  <2> QED BY <2>4, <2>5
<1>7. CASE Delete(r)
  <2> DEFINE row == [rows[r] EXCEPT !.place = "gone"]
  <2>1. row \in Row /\ row.place = "gone"
    BY <1>1 DEF Row
  <2>2. ListingTypeOK'
    BY <1>1, <1>7, <2>1, RowStepType DEF Delete
  <2>3. Listed' = Listed \ {r}
    BY <1>1, <1>7, <2>1, RowStepList DEF Delete
  <2>4. CASE rows[r].match
    BY <1>2, <1>7, <2>2, <2>3, <2>4, LeaveInv DEF Delete, Committed
  <2>5. CASE ~rows[r].match
    BY <1>2, <1>7, <2>2, <2>3, <2>5, SameList DEF Delete
  <2> QED BY <2>4, <2>5
<1> QED BY <1>3, <1>4, <1>5, <1>6, <1>7

\* Every step keeps the invariant.
LEMMA ListingNextInv ==
  ASSUME ListingInv, [ListingNext]_listingVars
  PROVE  ListingInv'
<1>1. CASE UNCHANGED listingVars
  <2>1. ListingTypeOK' /\ Listed' = Listed
    BY <1>1 DEF listingVars, ListingInv, ListingTypeOK, Listed, Committed
  <2> QED BY <1>1, <2>1, SameList DEF listingVars
<1>2. CASE Forget
  BY <1>2 DEF Forget, ListingInv, ListingTypeOK
<1> QED BY <1>1, <1>2, OthersInv, BeginInv, ReadInv DEF ListingNext

\* The inductive invariant holds in every state.
LEMMA ListingInvariant == ListingSpec => []ListingInv
<1>1. ListingInv /\ [ListingNext]_listingVars => ListingInv'
  BY ListingNextInv
<1> QED BY <1>1, ListingInitInv, PTL DEF ListingSpec

\* The listing is what a client's progress can be.
THEOREM ListingTypeCorrect == ListingSpec => []ListingTypeOK
<1>1. ListingInv => ListingTypeOK
  BY DEF ListingInv
<1> QED BY <1>1, ListingInvariant, PTL

\* Of the rows that were listed all along, a client misses no more than have left the
\* list meanwhile: none, where rows are neither changed nor deleted.
THEOREM FewAreSkipped == ListingSpec => []FewRowsSkipped
<1>1. ListingInv => FewRowsSkipped
  BY DEF ListingInv, FewRowsSkipped, Skipped, Passed
<1> QED BY <1>1, ListingInvariant, PTL

\* A client sees no more rows twice than have entered the list meanwhile.
THEOREM FewAreRepeated == ListingSpec => []FewRowsRepeated
<1>1. ListingInv => FewRowsRepeated
  <2> SUFFICES ASSUME ListingInv, listing # None
               PROVE  Cardinality({r \in Rows : listing.shown[r] > 1}) <= listing.entered
    BY DEF FewRowsRepeated
  <2> DEFINE again == {r \in Rows : listing.shown[r] > 1}
  <2>1. Repeated \in SUBSET Rows /\ Cardinality(Repeated) <= listing.entered
    BY CountedRows DEF ListingInv
  <2>2. again \in SUBSET Repeated
    BY DEF Repeated
  <2>3. Cardinality(again) <= Cardinality(Repeated)
    BY <2>1, <2>2, FewerRows
  <2>4. Cardinality(again) \in Nat /\ Cardinality(Repeated) \in Nat /\ listing.entered \in Nat
    BY <2>1, <2>2, RowsAreFinite DEF ListingInv, ListingTypeOK, Progress
  <2> QED BY <2>1, <2>3, <2>4
<1> QED BY <1>1, ListingInvariant, PTL

=============================================================================
