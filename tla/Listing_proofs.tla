--------------------------- MODULE Listing_proofs ---------------------------
(***************************************************************************)
(* Listing for any set of requests, limit and filter: pages never repeat   *)
(* a request and cursors only move on; without a filter a walk misses      *)
(* nothing that was there all the while.                                   *)
(***************************************************************************)
EXTENDS Listing, FiniteSetTheorems, WellFoundedInduction, TLAPS

RowsFinite == IsFiniteSet(DOMAIN requests)

CursorStands == walk = "next" => cursor \in DOMAIN requests

\* What the walk was given lies at the cursor or before it.
GivenBefore ==
  \A i \in Ids : returned[i] >= 1 =>
    /\ i \in DOMAIN requests
    /\ walk = "next" => i = cursor \/ Before(i, cursor)

\* What it was not given lies behind the cursor.
RestBehind ==
  Filter = None /\ walk = "next" =>
    \A i \in steady : returned[i] >= 1 \/ Before(cursor, i)

Inv ==
  /\ TypeOK
  /\ RowsFinite
  /\ CursorStands
  /\ GivenBefore
  /\ NoRepeat
  /\ RestBehind
  /\ Filter = None => WalkComplete

-----------------------------------------------------------------------------
(* The order of the rows.                                                  *)

\* A finite set has a minimal element in any strict order.
LEMMA MinimalElement ==
  ASSUME NEW S, IsFiniteSet(S), S # {}, NEW R,
         \A i \in S : <<i, i>> \notin R,
         \A i, j, k \in S : <<i, j>> \in R /\ <<j, k>> \in R => <<i, k>> \in R
  PROVE  \E m \in S : \A j \in S : <<j, m>> \notin R
<1>. DEFINE Below(i) == {j \in S : <<j, i>> \in R}
            T == {Below(i) : i \in S}
<1>1. T \subseteq SUBSET S /\ T # {}
  <2>1. PICK i \in S : TRUE
    OBVIOUS
  <2>2. Below(i) \in T
    BY <2>1
  <2>3. \A k \in S : Below(k) \in SUBSET S
    OBVIOUS
  <2>4. T \subseteq SUBSET S
    <3>. HIDE DEF Below
    <3>. QED BY <2>3
  <2>. QED BY <2>2, <2>4
<1>2. IsWellFoundedOn(StrictSubsetOrdering(S), SUBSET S)
  BY FS_StrictSubsetOrderingWellFounded, FS_FiniteSubsetsOfFinite
<1>3. PICK B \in T : \A C \in T : <<C, B>> \notin StrictSubsetOrdering(S)
  <2>. HIDE DEF T
  <2>. QED BY <1>1, <1>2, WFMin
<1>4. PICK m \in S : B = Below(m)
  OBVIOUS
<1>5. SUFFICES ASSUME NEW j \in S, <<j, m>> \in R PROVE FALSE
  OBVIOUS
<1>6. Below(j) \subseteq Below(m) /\ Below(j) # Below(m)
  <2>1. \A k \in S : <<k, j>> \in R => <<k, m>> \in R
    BY <1>5
  <2>2. j \in Below(m) /\ j \notin Below(j)
    BY <1>5
  <2>. QED BY <2>1, <2>2
<1>7. <<Below(j), Below(m)>> \in StrictSubsetOrdering(S)
  <2>1. Below(j) \in SUBSET S /\ Below(m) \in SUBSET S
    OBVIOUS
  <2>. QED BY <1>6, <2>1 DEF StrictSubsetOrdering
<1>. QED BY <1>3, <1>4, <1>7

\* Rows are in a strict total order: no two have one id.
LEMMA BeforeOrder ==
  ASSUME TypeOK
  PROVE  /\ \A i \in DOMAIN requests : ~Before(i, i)
         /\ \A i, j \in DOMAIN requests : i = j \/ Before(i, j) \/ Before(j, i)
         /\ \A i, j, k \in DOMAIN requests : Before(i, j) /\ Before(j, k) => Before(i, k)
<1>1. \A i \in DOMAIN requests : i \in Nat /\ requests[i].createdAt \in Nat
  BY NumbersAssumption DEF TypeOK
<1>. QED BY <1>1 DEF Before

LEMMA FirstRow ==
  ASSUME TypeOK, NEW S, S \subseteq DOMAIN requests, IsFiniteSet(S), S # {}
  PROVE  \E m \in S : \A j \in S : ~Before(j, m)
<1>. DEFINE R == {e \in S \X S : Before(e[1], e[2])}
<1>1. \A i, j \in S : <<i, j>> \in R <=> Before(i, j)
  OBVIOUS
<1>. HIDE DEF R
<1>2. \A i \in S : <<i, i>> \notin R
  BY <1>1, BeforeOrder
<1>3. \A i, j, k \in S : <<i, j>> \in R /\ <<j, k>> \in R => <<i, k>> \in R
  BY <1>1, BeforeOrder
<1>4. \E m \in S : \A j \in S : <<j, m>> \notin R
  BY <1>2, <1>3, MinimalElement
<1>. QED BY <1>1, <1>4

\* LastOf finds the last.
LEMMA LastRow ==
  ASSUME TypeOK, NEW S, S \subseteq DOMAIN requests, IsFiniteSet(S), S # {}
  PROVE  LastOf(S) \in S /\ \A j \in S : j = LastOf(S) \/ Before(j, LastOf(S))
<1>. DEFINE R == {e \in S \X S : Before(e[2], e[1])}
<1>1. \A i, j \in S : <<i, j>> \in R <=> Before(j, i)
  OBVIOUS
<1>. HIDE DEF R
<1>2. \A i \in S : <<i, i>> \notin R
  BY <1>1, BeforeOrder
<1>3. \A i, j, k \in S : <<i, j>> \in R /\ <<j, k>> \in R => <<i, k>> \in R
  BY <1>1, BeforeOrder
<1>4. \E m \in S : \A j \in S : <<j, m>> \notin R
  BY <1>2, <1>3, MinimalElement
<1>5. \E m \in S : \A j \in S : m = j \/ Before(j, m)
  BY <1>1, <1>4, BeforeOrder
<1>. QED BY <1>5 DEF LastOf

\* The rows before one of the rows of S.
LEMMA RowsBefore ==
  ASSUME NEW S, IsFiniteSet(S), NEW i \in S
  PROVE  LET D == {j \in S : Before(j, i)}
         IN  IsFiniteSet(D) /\ Cardinality(D) \in Nat /\ Cardinality(D) <= Cardinality(S)
<1>. DEFINE D == {j \in S : Before(j, i)}
<1>1. D \in SUBSET S
  OBVIOUS
<1>2. IsFiniteSet(D) /\ Cardinality(D) <= Cardinality(S)
  BY <1>1, FS_Subset
<1>. QED BY <1>2, FS_CardinalityType

\* The first n rows come before the others.
LEMMA FirstBeforeRest ==
  ASSUME TypeOK, NEW S, S \subseteq DOMAIN requests, IsFiniteSet(S), NEW n \in Nat,
         NEW i \in First(S, n), NEW j \in S \ First(S, n)
  PROVE  Before(i, j)
<1>. DEFINE D(k) == {l \in S : Before(l, k)}
<1>1. i \in S /\ Cardinality(D(i)) < n /\ ~(Cardinality(D(j)) < n)
  BY DEF First
<1>2. SUFFICES ASSUME Before(j, i) PROVE FALSE
  BY <1>1, BeforeOrder
<1>3. D(j) \in SUBSET D(i)
  BY <1>1, <1>2, BeforeOrder
<1>4. IsFiniteSet(D(i)) /\ Cardinality(D(i)) \in Nat /\ Cardinality(D(j)) \in Nat
  BY <1>1, RowsBefore
<1>5. Cardinality(D(j)) <= Cardinality(D(i))
  BY <1>3, <1>4, FS_Subset
<1>. QED BY <1>1, <1>4, <1>5

\* If rows are left over, there are n first ones.
LEMMA FirstFull ==
  ASSUME TypeOK, NEW S, S \subseteq DOMAIN requests, IsFiniteSet(S), NEW n \in Nat,
         First(S, n) # S
  PROVE  Cardinality(First(S, n)) \in Nat /\ n <= Cardinality(First(S, n))
<1>. DEFINE U == S \ First(S, n)
<1>1. First(S, n) \in SUBSET S
  BY DEF First
<1>2. IsFiniteSet(First(S, n)) /\ Cardinality(First(S, n)) \in Nat
  BY <1>1, FS_Subset, FS_CardinalityType
<1>3. U \in SUBSET S /\ U # {} /\ IsFiniteSet(U)
  BY <1>1, FS_Subset
<1>4. PICK m \in U : \A j \in U : ~Before(j, m)
  <2>. HIDE DEF U
  <2>. QED BY <1>3, FirstRow
<1>. DEFINE D == {j \in S : Before(j, m)}
<1>5. D \in SUBSET First(S, n)
  BY <1>4
<1>6. ~(Cardinality(D) < n)
  BY <1>4 DEF First
<1>7. Cardinality(D) \in Nat
  BY <1>4, RowsBefore
<1>8. Cardinality(D) <= Cardinality(First(S, n))
  BY <1>2, <1>5, FS_Subset
<1>. QED BY <1>2, <1>6, <1>7, <1>8

\* No more than n rows are all among the first n.
LEMMA FirstAll ==
  ASSUME TypeOK, NEW S, S \subseteq DOMAIN requests, IsFiniteSet(S), NEW n \in Nat,
         Cardinality(S) <= n
  PROVE  First(S, n) = S
<1>. SUFFICES ASSUME NEW i \in S PROVE i \in First(S, n)
  BY DEF First
<1>. DEFINE D == {j \in S : Before(j, i)}
<1>1. D \in SUBSET S /\ D # S
  BY BeforeOrder
<1>2. Cardinality(D) \in Nat /\ Cardinality(D) <= Cardinality(S) /\ Cardinality(D) # Cardinality(S)
  BY <1>1, RowsBefore, FS_Subset
<1>3. Cardinality(S) \in Nat
  BY FS_CardinalityType
<1>. QED BY <1>2, <1>3 DEF First

-----------------------------------------------------------------------------
(* A page.                                                                 *)

\* The rows from a cursor on lie behind it; without a filter they are all that do.
LEMMA FromBehind ==
  ASSUME TypeOK, RowsFinite, NEW cur \in DOMAIN requests
  PROVE  /\ From(cur) \subseteq DOMAIN requests /\ IsFiniteSet(From(cur))
         /\ \A i \in From(cur) : Before(cur, i)
         /\ Filter = None => \A i \in DOMAIN requests : Before(cur, i) => i \in From(cur)
<1>. DEFINE S == {i \in Matching : i = cur \/ Before(cur, i)}
<1>1. cur # None
  BY NumbersAssumption, NoneAssumption DEF TypeOK
<1>2. From(cur) = S \ First(S, 1)
  BY <1>1 DEF From
<1>3. S \subseteq DOMAIN requests /\ IsFiniteSet(S)
  <2>1. S \in SUBSET DOMAIN requests
    BY DEF Matching
  <2>. QED BY <2>1, FS_Subset DEF RowsFinite
<1>4. From(cur) \subseteq DOMAIN requests /\ IsFiniteSet(From(cur))
  <2>1. From(cur) \in SUBSET S
    BY <1>2
  <2>. QED BY <1>3, <2>1, FS_Subset
<1>5. ASSUME cur \in S PROVE cur \in First(S, 1)
  <2>1. {j \in S : Before(j, cur)} = {}
    BY BeforeOrder, <1>3
  <2>. QED BY <1>5, <2>1, FS_EmptySet DEF First
<1>6. \A i \in From(cur) : Before(cur, i)
  BY <1>2, <1>5
<1>7. ASSUME Filter = None, NEW i \in DOMAIN requests, Before(cur, i) PROVE i \in From(cur)
  <2>1. i \in S /\ cur \in S
    BY <1>7 DEF Matching, Matches
  <2>. DEFINE D == {j \in S : Before(j, i)}
  <2>2. IsFiniteSet(D) /\ Cardinality(D) \in Nat
    BY <1>3, <2>1, RowsBefore
  <2>3. D # {}
    BY <1>7, <2>1
  <2>4. ~(Cardinality(D) < 1)
    BY <2>2, <2>3, FS_EmptySet
  <2>. QED BY <1>2, <2>1, <2>4 DEF First
<1>. QED BY <1>4, <1>6, <1>7

\* What a page takes of the rows from its cursor on: all, or those up to the next
\* cursor.
LEMMA PageOf ==
  ASSUME TypeOK, NEW S, S \subseteq DOMAIN requests, IsFiniteSet(S)
  PROVE  LET rows == First(S, Limit + 1) IN
         /\ Items(rows) \subseteq S
         /\ ~HasMore(rows) => Items(rows) = S
         /\ HasMore(rows) =>
              /\ LastOf(Items(rows)) \in Items(rows)
              /\ \A i \in Items(rows) : i = LastOf(Items(rows)) \/ Before(i, LastOf(Items(rows)))
              /\ \A i \in S \ Items(rows) : Before(LastOf(Items(rows)), i)
<1>. DEFINE rows == First(S, Limit + 1)
            items == Items(rows)
<1>0. Limit \in Nat /\ Limit + 1 \in Nat /\ 1 <= Limit
  BY NumbersAssumption
<1>1. rows \in SUBSET S /\ IsFiniteSet(rows) /\ Cardinality(rows) \in Nat
  <2>1. rows \in SUBSET S
    BY DEF First
  <2>. QED BY <2>1, FS_Subset, FS_CardinalityType
<1>2. items = First(rows, Limit) /\ items \in SUBSET rows
  BY DEF Items, First
<1>3. IsFiniteSet(items)
  BY <1>1, <1>2, FS_Subset
<1>4. HasMore(rows) <=> Cardinality(rows) > Limit
  BY DEF HasMore
<1>. HIDE DEF rows, items
<1>5. ASSUME ~HasMore(rows) PROVE items = S
  <2>1. Cardinality(rows) <= Limit
    BY <1>0, <1>1, <1>4, <1>5
  <2>2. items = rows
    BY <1>0, <1>1, <1>2, <2>1, FirstAll
  <2>3. rows = S
    BY <1>0, <1>1, <2>1, FirstFull DEF rows
  <2>. QED BY <2>2, <2>3
<1>6. ASSUME HasMore(rows)
      PROVE  /\ LastOf(items) \in items
             /\ \A i \in items : i = LastOf(items) \/ Before(i, LastOf(items))
             /\ \A i \in S \ items : Before(LastOf(items), i)
  <2>1. items # {}
    <3>1. CASE items = rows
      <4>1. Cardinality(items) # 0
        BY <1>0, <1>1, <1>4, <1>6, <3>1
      <4>. QED BY <4>1, FS_EmptySet
    <3>2. CASE items # rows
      <4>1. rows \subseteq DOMAIN requests
        BY <1>1
      <4>2. Limit <= Cardinality(items) /\ Cardinality(items) \in Nat
        BY <1>0, <1>1, <1>2, <3>2, <4>1, FirstFull
      <4>3. Cardinality(items) # 0
        BY <1>0, <4>2
      <4>. QED BY <4>3, FS_EmptySet
    <3>. QED BY <3>1, <3>2
  <2>2. /\ LastOf(items) \in items
        /\ \A i \in items : i = LastOf(items) \/ Before(i, LastOf(items))
    BY <1>1, <1>2, <1>3, <2>1, LastRow
  <2>3. ASSUME NEW i \in rows \ items PROVE Before(LastOf(items), i)
    BY <1>0, <1>1, <1>2, <2>2, FirstBeforeRest
  <2>4. ASSUME NEW i \in S \ rows PROVE Before(LastOf(items), i)
    BY <1>0, <1>1, <1>2, <2>2, FirstBeforeRest DEF rows
  <2>. QED BY <2>2, <2>3, <2>4
<1>7. items \subseteq S
  BY <1>1, <1>2
<1>. QED BY <1>5, <1>6, <1>7 DEF rows, items

-----------------------------------------------------------------------------
(* The invariant.                                                          *)

LEMMA InitInv == Init => Inv
<1>. SUFFICES ASSUME Init PROVE Inv
  OBVIOUS
<1>1. TypeOK
  BY NumbersAssumption DEF Init, TypeOK
<1>2. RowsFinite
  BY FS_EmptySet DEF Init, RowsFinite
<1>3. CursorStands /\ GivenBefore /\ NoRepeat /\ RestBehind /\ WalkComplete
  BY DEF Init, CursorStands, GivenBefore, NoRepeat, RestBehind, WalkComplete
<1>. QED BY <1>1, <1>2, <1>3 DEF Inv

\* What is given, and where the walk goes, when a page is made of the rows S.
LEMMA RespondEffect ==
  ASSUME TypeOK, NEW S, S \subseteq DOMAIN requests, IsFiniteSet(S),
         NEW before \in [Ids -> Nat], Respond(First(S, Limit + 1), before)
  PROVE  LET items == Items(First(S, Limit + 1)) IN
         /\ returned' \in [Ids -> Nat]
         /\ \A i \in Ids : returned'[i] = before[i] + (IF i \in items THEN 1 ELSE 0)
         /\ items \subseteq S
         /\ UNCHANGED <<now, requests>>
         /\ \/ /\ walk' = "done" /\ cursor' = None
               /\ items = S
            \/ /\ walk' = "next" /\ cursor' \in items
               /\ \A i \in items : i = cursor' \/ Before(i, cursor')
               /\ \A i \in S \ items : Before(cursor', i)
<1>. DEFINE rows == First(S, Limit + 1)
            items == Items(rows)
<1>1. /\ items \subseteq S
      /\ ~HasMore(rows) => items = S
      /\ HasMore(rows) =>
           /\ LastOf(items) \in items
           /\ \A i \in items : i = LastOf(items) \/ Before(i, LastOf(items))
           /\ \A i \in S \ items : Before(LastOf(items), i)
  BY PageOf
<1>2. /\ returned' = [i \in Ids |-> before[i] + (IF i \in items THEN 1 ELSE 0)]
      /\ walk' = IF HasMore(rows) THEN "next" ELSE "done"
      /\ cursor' = IF HasMore(rows) THEN LastOf(items) ELSE None
      /\ UNCHANGED <<now, requests>>
  BY DEF Respond
<1>. HIDE DEF rows, items
<1>3. returned' \in [Ids -> Nat]
      /\ \A i \in Ids : returned'[i] = before[i] + (IF i \in items THEN 1 ELSE 0)
  BY <1>2
<1>4. \/ walk' = "done" /\ cursor' = None /\ items = S
      \/ /\ walk' = "next" /\ cursor' \in items
         /\ \A i \in items : i = cursor' \/ Before(i, cursor')
         /\ \A i \in S \ items : Before(cursor', i)
  BY <1>1, <1>2
<1>. QED BY <1>1, <1>2, <1>3, <1>4 DEF rows, items

\* Rows keep their place.
LEMMA NextInv == Inv /\ [Next]_vars => Inv'
<1>. SUFFICES ASSUME Inv, [Next]_vars
              PROVE  Inv'
  OBVIOUS
<1>0. /\ TypeOK /\ RowsFinite /\ CursorStands /\ GivenBefore /\ NoRepeat /\ RestBehind
      /\ Filter = None => WalkComplete
  BY DEF Inv
<1>1. CASE Tick \/ UNCHANGED vars
  <2>1. TypeOK'
    BY <1>0, <1>1, NumbersAssumption DEF Tick, vars, TypeOK
  <2>. QED BY <1>0, <1>1, <2>1
           DEF Tick, vars, Inv, RowsFinite, CursorStands, GivenBefore, NoRepeat, RestBehind,
               WalkComplete, Before
<1>2. ASSUME NEW i \in Ids, NEW t \in 0..MaxTime, Create(i, t)
      PROVE  Inv'
  <2>1. /\ DOMAIN requests' = DOMAIN requests \cup {i}
        /\ \A j \in DOMAIN requests : requests'[j] = requests[j]
        /\ UNCHANGED <<now, walk, cursor, returned, steady>>
    BY <1>2 DEF Create
  <2>2. TypeOK'
    BY <1>0, <1>2 DEF Create, TypeOK, Status, Rank
  <2>3. RowsFinite'
    BY <1>0, <2>1, FS_AddElement DEF RowsFinite
  <2>4. \A j, k \in DOMAIN requests : Before(j, k)' <=> Before(j, k)
    BY <2>1 DEF Before
  <2>5. CursorStands' /\ NoRepeat' /\ (Filter = None => WalkComplete')
    BY <1>0, <2>1 DEF CursorStands, NoRepeat, WalkComplete
  <2>6. GivenBefore'
    BY <1>0, <2>1, <2>4 DEF GivenBefore, CursorStands
  <2>7. RestBehind'
    BY <1>0, <2>1, <2>4 DEF RestBehind, CursorStands, TypeOK
  <2>. QED BY <2>2, <2>3, <2>5, <2>6, <2>7 DEF Inv
<1>3. ASSUME NEW i \in Ids, NEW s \in Status, ChangeStatus(i, s)
      PROVE  Inv'
  <2>1. /\ DOMAIN requests' = DOMAIN requests
        /\ \A j \in DOMAIN requests : requests'[j].createdAt = requests[j].createdAt
        /\ steady' \subseteq steady
        /\ UNCHANGED <<now, walk, cursor, returned>>
    BY <1>0, <1>3 DEF ChangeStatus, TypeOK
  <2>2. TypeOK'
    BY <1>0, <1>3, <2>1 DEF ChangeStatus, TypeOK
  <2>3. \A j, k \in DOMAIN requests : Before(j, k)' <=> Before(j, k)
    BY <2>1 DEF Before
  <2>4. RowsFinite' /\ CursorStands' /\ NoRepeat' /\ (Filter = None => WalkComplete')
    BY <1>0, <2>1 DEF RowsFinite, CursorStands, NoRepeat, WalkComplete
  <2>5. GivenBefore'
    BY <1>0, <2>1, <2>3 DEF GivenBefore, CursorStands
  <2>6. RestBehind'
    BY <1>0, <2>1, <2>3 DEF RestBehind, CursorStands, TypeOK
  <2>. QED BY <2>2, <2>4, <2>5, <2>6 DEF Inv
<1>4. CASE FirstPage
  <2>. DEFINE S == From(None)
              items == Items(First(S, Limit + 1))
  <2>1. S = Matching /\ S \subseteq DOMAIN requests /\ IsFiniteSet(S)
    <3>1. Matching \in SUBSET DOMAIN requests
      BY DEF Matching
    <3>. QED BY <1>0, <3>1, FS_Subset DEF From, RowsFinite
  <2>2. Respond(First(S, Limit + 1), [i \in Ids |-> 0]) /\ steady' = S
    BY <1>4, <2>1 DEF FirstPage, Rows
  <2>. HIDE DEF S
  <2>3. /\ returned' \in [Ids -> Nat]
        /\ \A i \in Ids : returned'[i] = (IF i \in items THEN 1 ELSE 0)
        /\ items \subseteq S
        /\ UNCHANGED <<now, requests>>
        /\ \/ walk' = "done" /\ cursor' = None /\ items = S
           \/ /\ walk' = "next" /\ cursor' \in items
              /\ \A i \in items : i = cursor' \/ Before(i, cursor')
              /\ \A i \in S \ items : Before(cursor', i)
    <3>1. [i \in Ids |-> 0] \in [Ids -> Nat] /\ \A i \in Ids : [j \in Ids |-> 0][i] = 0
      OBVIOUS
    <3>. QED BY <1>0, <2>1, <2>2, <3>1, RespondEffect
  <2>. HIDE DEF items
  <2>4. S \subseteq Ids
    BY <1>0, <2>1 DEF TypeOK
  <2>5. TypeOK'
    BY <1>0, <2>1, <2>2, <2>3 DEF TypeOK
  <2>6. RowsFinite' /\ CursorStands' /\ NoRepeat'
    BY <1>0, <2>1, <2>3 DEF RowsFinite, CursorStands, NoRepeat
  <2>7. GivenBefore'
    BY <2>1, <2>3 DEF GivenBefore, Before
  <2>8. RestBehind' /\ WalkComplete'
    BY <2>2, <2>3, <2>4 DEF RestBehind, WalkComplete, Before
  <2>. QED BY <2>5, <2>6, <2>7, <2>8 DEF Inv
<1>5. CASE NextPage
  <2>. DEFINE S == From(cursor)
              items == Items(First(S, Limit + 1))
  <2>1. cursor \in DOMAIN requests /\ walk = "next"
    BY <1>0, <1>5 DEF NextPage, CursorStands
  <2>2. /\ S \subseteq DOMAIN requests /\ IsFiniteSet(S)
        /\ \A i \in S : Before(cursor, i)
        /\ Filter = None => \A i \in DOMAIN requests : Before(cursor, i) => i \in S
    BY <1>0, <2>1, FromBehind
  <2>3. Respond(First(S, Limit + 1), returned) /\ steady' = steady
    BY <1>5 DEF NextPage, Rows
  <2>. HIDE DEF S
  <2>4. /\ returned' \in [Ids -> Nat]
        /\ \A i \in Ids : returned'[i] = returned[i] + (IF i \in items THEN 1 ELSE 0)
        /\ items \subseteq S
        /\ UNCHANGED <<now, requests>>
        /\ \/ walk' = "done" /\ cursor' = None /\ items = S
           \/ /\ walk' = "next" /\ cursor' \in items
              /\ \A i \in items : i = cursor' \/ Before(i, cursor')
              /\ \A i \in S \ items : Before(cursor', i)
    <3>1. returned \in [Ids -> Nat]
      BY <1>0 DEF TypeOK
    <3>. QED BY <1>0, <2>2, <2>3, <3>1, RespondEffect
  <2>. HIDE DEF items
  <2>5. TypeOK'
    BY <1>0, <2>2, <2>3, <2>4 DEF TypeOK
  <2>6. S \subseteq Ids /\ steady \subseteq DOMAIN requests /\ DOMAIN requests \subseteq Ids
        /\ \A i \in Ids : returned[i] \in Nat
    BY <1>0, <2>2 DEF TypeOK
  <2>7. \A i \in S : returned[i] = 0
    <3>. SUFFICES ASSUME NEW i \in S, returned[i] >= 1 PROVE FALSE
      BY <2>6
    <3>1. i = cursor \/ Before(i, cursor)
      BY <1>0, <2>1, <2>6 DEF GivenBefore
    <3>. QED BY <1>0, <2>1, <2>2, <3>1, BeforeOrder
  <2>8. RowsFinite' /\ CursorStands'
    BY <1>0, <2>2, <2>4 DEF RowsFinite, CursorStands
  <2>9. NoRepeat'
    BY <1>0, <2>4, <2>6, <2>7 DEF NoRepeat
  <2>10. GivenBefore'
    <3>1. ASSUME NEW i \in Ids, i \in items
          PROVE  i \in DOMAIN requests /\ (walk' = "next" => i = cursor' \/ Before(i, cursor'))
      BY <2>2, <2>4, <3>1
    <3>2. ASSUME NEW i \in Ids, i \notin items, returned'[i] >= 1
          PROVE  i \in DOMAIN requests /\ (walk' = "next" => i = cursor' \/ Before(i, cursor'))
      <4>1. i \in DOMAIN requests /\ (i = cursor \/ Before(i, cursor))
        BY <1>0, <2>1, <2>4, <2>6, <3>2 DEF GivenBefore
      <4>2. walk' = "next" => cursor' \in DOMAIN requests /\ Before(cursor, cursor')
        BY <2>2, <2>4
      <4>. QED BY <1>0, <2>1, <4>1, <4>2, BeforeOrder
    <3>. QED BY <2>4, <3>1, <3>2 DEF GivenBefore, Before
  <2>11. ASSUME Filter = None, NEW i \in steady
         PROVE  returned[i] >= 1 \/ i \in S
    BY <1>0, <2>1, <2>2, <2>6, <2>11 DEF RestBehind
  <2>12. RestBehind'
    <3>. SUFFICES ASSUME Filter = None, walk' = "next", NEW i \in steady
                  PROVE  returned'[i] >= 1 \/ Before(cursor', i)
      BY <2>3, <2>4 DEF RestBehind, Before
    <3>. QED BY <2>4, <2>6, <2>11
  <2>13. Filter = None => WalkComplete'
    <3>. SUFFICES ASSUME Filter = None, walk' = "done", NEW i \in steady
                  PROVE  returned'[i] >= 1
      BY <2>3 DEF WalkComplete
    <3>. QED BY <2>4, <2>6, <2>11
  <2>. QED BY <2>5, <2>8, <2>9, <2>10, <2>12, <2>13 DEF Inv
<1>. QED BY <1>1, <1>2, <1>3, <1>4, <1>5 DEF Next

LEMMA Invariance == Spec => []Inv
<1>. QED BY InitInv, NextInv, PTL DEF Spec

-----------------------------------------------------------------------------

\* The variables of Listing keep their types.
THEOREM TypeCorrect == Spec => []TypeOK
<1>1. Inv => TypeOK
  BY DEF Inv
<1>. QED BY <1>1, Invariance, PTL

\* No request is shown twice in a walk, whatever is created or changes status between
\* its pages, whatever the filter.
THEOREM PagesDisjoint == Spec => []NoRepeat
<1>1. Inv => NoRepeat
  BY DEF Inv
<1>. QED BY <1>1, Invariance, PTL

\* Without a filter, which is what pagination.util.ts promises for any, a walk that
\* ends was given every request that was there all the while.
THEOREM UnfilteredWalkComplete ==
  ASSUME Filter = None
  PROVE  Spec => []WalkComplete
<1>1. Inv => WalkComplete
  BY DEF Inv
<1>. QED BY <1>1, Invariance, PTL

\* Every next page ends behind the page before, whatever the filter.
THEOREM WalkAdvances == Spec => CursorAdvances
<1>1. ASSUME Inv, NextPage, walk' = "next"
      PROVE  Before(cursor, cursor')
  <2>1. TypeOK /\ RowsFinite /\ cursor \in DOMAIN requests /\ returned \in [Ids -> Nat]
    BY <1>1 DEF Inv, TypeOK, NextPage, CursorStands
  <2>2. Respond(First(From(cursor), Limit + 1), returned)
    BY <1>1 DEF NextPage, Rows
  <2>3. cursor' \in From(cursor)
    BY <1>1, <2>1, <2>2, FromBehind, RespondEffect
  <2>. QED BY <2>1, <2>3, FromBehind
<1>2. Inv => [NextPage /\ walk' = "next" => Before(cursor, cursor')]_vars
  BY <1>1
<1>. QED BY <1>2, Invariance, PTL DEF CursorAdvances

=============================================================================
