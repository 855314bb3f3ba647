-------------------------- MODULE DichotomyProofs --------------------------
(***************************************************************************)
(* The binary search of Dichotomy is right for every sorted vector and     *)
(* every value: it returns exactly the places of the value and stays       *)
(* inside of the vector.                                                   *)
(***************************************************************************)
EXTENDS Dichotomy, TLAPS

-----------------------------------------------------------------------------
SearchType ==
  /\ vec \in Seq(Int)
  /\ value \in Int
  /\ many \in BOOLEAN
  /\ at \in {"idle", "called", "halve", "left", "right", "done"}
  /\ l \in Nat /\ r \in Nat
  /\ fromPos \in Nat /\ toPos \in Nat
  /\ found \in BOOLEAN

\* In the loop, all places are between the bounds.
HalveInv ==
  at = "halve" =>
    /\ l \in 0 .. Size - 1
    /\ r \in l + 1 .. Size
    /\ \A i \in Places : l <= i /\ i < r

\* On the way to the left, everything passed is a place.
LeftInv ==
  at = "left" =>
    /\ many /\ found
    /\ toPos \in Places
    /\ fromPos \in 0 .. toPos
    /\ fromPos + 1 .. toPos \subseteq Places

\* On the way to the right, the first place is known.
RightInv ==
  at = "right" =>
    /\ many /\ found
    /\ fromPos \in Places
    /\ toPos \in fromPos .. Size
    /\ fromPos .. toPos - 1 \subseteq Places
    /\ \A i \in Places : fromPos <= i

SearchInv ==
  /\ SearchType
  /\ at # "idle" => Sorted(vec)
  /\ HalveInv
  /\ LeftInv
  /\ RightInv
  /\ FindsExactlyThePlaces
  /\ SearchStaysInside

-----------------------------------------------------------------------------
\* Items at positions inside of a sorted vector are numbers in order.
LEMMA ItemsAreSorted ==
  ASSUME vec \in Seq(Int), Sorted(vec),
         NEW i \in 0 .. Size - 1, NEW j \in 0 .. Size - 1, i <= j
  PROVE  Item(i) \in Int /\ Item(j) \in Int /\ Item(i) <= Item(j)
  BY DEF Sorted, Item, Size

\* A caller may start a search from any state when its vector is sorted.
THEOREM CallStartsSearch ==
  ASSUME SearchInv, NEW v \in Seq(Int), Sorted(v), NEW x \in Int, NEW all \in BOOLEAN,
         Call(v, x, all)
  PROVE  SearchInv'
<1>1. SearchType' /\ Sorted(vec') /\ at' = "called"
  BY DEF SearchInv, SearchType, Call, Sorted
<1>2. QED
  BY <1>1 DEF SearchInv, HalveInv, LeftInv, RightInv, FindsExactlyThePlaces,
              SearchStaysInside, Sorted

-----------------------------------------------------------------------------
LEMMA BeginKeepsInv ==
  ASSUME SearchInv, Begin
  PROVE  SearchInv'
<1>1. UNCHANGED <<vec, value, many>> /\ at = "called"
  BY DEF Begin
<1>2. Sorted(vec)' /\ Size' = Size /\ Size \in Nat
  BY <1>1 DEF SearchInv, SearchType, Size
<1>3. SearchType'
  <2>1. vec' \in Seq(Int) /\ value' \in Int /\ many' \in BOOLEAN
    BY <1>1 DEF SearchInv, SearchType
  <2>2. at' \in {"idle", "called", "halve", "left", "right", "done"} /\ found' \in BOOLEAN
    BY DEF SearchInv, SearchType, Begin
  <2>3. l' \in Nat /\ r' \in Nat /\ fromPos' \in Nat /\ toPos' \in Nat
    BY <1>2 DEF SearchInv, SearchType, Begin
  <2>4. QED
    BY <2>1, <2>2, <2>3 DEF SearchType
<1>4. CASE vec = <<>>
  <2>1. at' = "done" /\ found' = FALSE /\ (many => fromPos' = 0 /\ toPos' = 0)
    BY <1>4 DEF Begin
  <2>2. Places' = {}
    BY <1>1, <1>4 DEF Places, Size
  <2>3. many' => Places' = fromPos' .. toPos' - 1
    BY <1>1, <2>1, <2>2
  <2>4. FindsExactlyThePlaces'
    BY <2>1, <2>2, <2>3 DEF FindsExactlyThePlaces
  <2>5. SearchStaysInside'
    BY <1>1, <2>1 DEF SearchStaysInside
  <2>6. QED
    BY <1>2, <1>3, <2>1, <2>4, <2>5 DEF SearchInv, HalveInv, LeftInv, RightInv
<1>5. CASE vec # <<>>
  <2>1. at' = "halve" /\ l' = 0 /\ r' = Size /\ Size > 0
    BY <1>5 DEF Begin, SearchInv, SearchType, Size
  <2>2. \A i \in Places' : 0 <= i /\ i < Size
    BY <1>2 DEF Places
  <2>3. HalveInv'
    BY <1>2, <2>1, <2>2 DEF HalveInv
  <2>4. QED
    BY <1>2, <1>3, <2>1, <2>3
       DEF SearchInv, LeftInv, RightInv, FindsExactlyThePlaces, SearchStaysInside, HalveInv
<1>6. QED
  BY <1>4, <1>5

\* What follows once the value is met at position c.
LEMMA HitKeepsInv ==
  ASSUME SearchInv, at = "halve", NEW c \in 0 .. Size - 1, Item(c) = value, Hit(c),
         UNCHANGED <<vec, value, many, l, r>>
  PROVE  SearchInv'
<1>1. SearchType' /\ Sorted(vec)' /\ found'
  BY DEF SearchInv, SearchType, Hit, Sorted, Size
<1>2. c \in Places' /\ fromPos' = c /\ Size' = Size /\ Size \in Nat /\ Item(c)' = value'
  BY DEF SearchInv, SearchType, Hit, Places, Size, Item
<1>3. CASE many
  <2>1. at' = "left" /\ toPos' = c /\ many'
    BY <1>3 DEF Hit
  <2>2. LeftInv'
    BY <1>1, <1>2, <2>1 DEF LeftInv
  <2>3. QED
    BY <1>1, <1>2, <2>1, <2>2 DEF SearchInv, HalveInv, RightInv, FindsExactlyThePlaces,
                                  SearchStaysInside
<1>4. CASE ~ many
  <2>1. at' = "done" /\ ~ many'
    BY <1>4 DEF Hit
  <2>2. QED
    BY <1>1, <1>2, <2>1 DEF SearchInv, HalveInv, LeftInv, RightInv, FindsExactlyThePlaces,
                            SearchStaysInside
<1>5. QED
  BY <1>3, <1>4

LEMMA HalveKeepsInv ==
  ASSUME SearchInv, Halve
  PROVE  SearchInv'
<1> DEFINE c == (l + r) \div 2
<1>1. /\ vec \in Seq(Int) /\ Sorted(vec) /\ value \in Int /\ Size \in Nat
      /\ l \in 0 .. Size - 1 /\ r \in l + 1 .. Size /\ l + 1 < r /\ at = "halve"
  BY DEF SearchInv, SearchType, HalveInv, Halve, GoesOn, Size
<1>2. c \in l + 1 .. r - 1
  BY <1>1
<1>3. c \in 0 .. Size - 1
  BY <1>1, <1>2
<1>4. UNCHANGED <<vec, value, many>>
  BY DEF Halve
<1>5. Size' = Size /\ Places' = Places
  BY <1>4 DEF Size, Places, Item
<1> HIDE DEF c
<1>6. CASE Item(c) = value /\ Hit(c) /\ UNCHANGED <<l, r>>
  BY <1>1, <1>3, <1>4, <1>6, HitKeepsInv
<1>7. CASE Item(c) > value /\ r' = c /\ UNCHANGED <<at, l, fromPos, toPos, found>>
  <2>1. \A i \in Places : i < c
    <3> SUFFICES ASSUME NEW i \in Places, ~ (i < c) PROVE FALSE
      OBVIOUS
    <3>1. i \in 0 .. Size - 1 /\ c <= i /\ Item(i) = value
      BY <1>1, <1>3 DEF Places
    <3>2. QED
      BY <1>1, <1>3, <1>7, <3>1, ItemsAreSorted
  <2>2. HalveInv'
    BY <1>1, <1>2, <1>5, <1>7, <2>1 DEF HalveInv, SearchInv
  <2>3. SearchType' /\ Sorted(vec)'
    BY <1>1, <1>3, <1>4, <1>7 DEF SearchInv, SearchType, Sorted
  <2>4. QED
    BY <1>1, <1>7, <2>2, <2>3 DEF SearchInv, HalveInv, LeftInv, RightInv,
                                  FindsExactlyThePlaces, SearchStaysInside
<1>8. CASE Item(c) < value /\ l' = c /\ UNCHANGED <<at, r, fromPos, toPos, found>>
  <2>1. \A i \in Places : c < i
    <3> SUFFICES ASSUME NEW i \in Places, ~ (c < i) PROVE FALSE
      OBVIOUS
    <3>1. i \in 0 .. Size - 1 /\ i <= c /\ Item(i) = value
      BY <1>1, <1>3 DEF Places
    <3>2. QED
      BY <1>1, <1>3, <1>8, <3>1, ItemsAreSorted
  <2>2. HalveInv'
    BY <1>1, <1>2, <1>3, <1>5, <1>8, <2>1 DEF HalveInv, SearchInv, Places
  <2>3. SearchType' /\ Sorted(vec)'
    BY <1>1, <1>3, <1>4, <1>8 DEF SearchInv, SearchType, Sorted
  <2>4. QED
    BY <1>1, <1>8, <2>2, <2>3 DEF SearchInv, HalveInv, LeftInv, RightInv,
                                  FindsExactlyThePlaces, SearchStaysInside
<1>9. QED
  BY <1>4, <1>6, <1>7, <1>8 DEF Halve, c

LEMMA SettleKeepsInv ==
  ASSUME SearchInv, Settle
  PROVE  SearchInv'
<1>1. /\ vec \in Seq(Int) /\ value \in Int /\ Size \in Nat /\ at = "halve"
      /\ l \in 0 .. Size - 1 /\ r = l + 1 /\ \A i \in Places : l <= i /\ i < r
  BY DEF SearchInv, SearchType, HalveInv, Settle, GoesOn, Size
<1>2. UNCHANGED <<vec, value, many, l, r>>
  BY DEF Settle
<1>3. CASE Item(l) = value
  BY <1>1, <1>2, <1>3, HitKeepsInv DEF Settle
<1>4. CASE Item(l) # value
  <2>1. Places' = {}
    <3> SUFFICES ASSUME NEW i \in Places PROVE FALSE
      BY <1>2 DEF Places, Size, Item
    <3>1. i = l
      BY <1>1 DEF Places
    <3>2. QED
      BY <1>4, <3>1 DEF Places
  <2>2. NotFound
    BY <1>4 DEF Settle
  <2>3. at' = "done" /\ found' = FALSE /\ (many' => fromPos' = 0 /\ toPos' = 0)
    BY <1>2, <2>2 DEF NotFound
  <2>4. fromPos' \in Nat /\ toPos' \in Nat
    BY <2>2 DEF SearchInv, SearchType, NotFound
  <2>5. SearchType' /\ Sorted(vec)'
    BY <1>1, <1>2, <2>3, <2>4 DEF SearchInv, SearchType
  <2>6. FindsExactlyThePlaces'
    <3>1. many' => Places' = fromPos' .. toPos' - 1
      BY <2>1, <2>3
    <3>2. QED
      BY <2>1, <2>3, <3>1 DEF FindsExactlyThePlaces
  <2>7. SearchStaysInside'
    BY <2>3 DEF SearchStaysInside
  <2>8. QED
    BY <2>3, <2>5, <2>6, <2>7 DEF SearchInv, HalveInv, LeftInv, RightInv
<1>5. QED
  BY <1>3, <1>4

-----------------------------------------------------------------------------
LEMMA StepLeftKeepsInv ==
  ASSUME SearchInv, StepLeft
  PROVE  SearchInv'
<1>1. /\ vec \in Seq(Int) /\ Size \in Nat /\ toPos \in Places
      /\ fromPos \in 1 .. toPos /\ fromPos \in Places /\ toPos \in 0 .. Size - 1
      /\ fromPos + 1 .. toPos \subseteq Places
  BY DEF SearchInv, SearchType, LeftInv, StepLeft, Places, Size
<1>2. UNCHANGED <<vec, value, many, at, l, r, toPos, found>> /\ fromPos' = fromPos - 1 /\ at = "left"
  BY DEF StepLeft
<1>3. Size' = Size /\ Places' = Places
  BY <1>2 DEF Size, Places, Item
<1>4. SearchType' /\ Sorted(vec)'
  BY <1>1, <1>2 DEF SearchInv, SearchType, Sorted
<1>5. fromPos' + 1 .. toPos' \subseteq Places'
  BY <1>1, <1>2, <1>3
<1>6. LeftInv'
  BY <1>1, <1>2, <1>3, <1>5 DEF LeftInv, SearchInv
<1>7. QED
  BY <1>1, <1>2, <1>3, <1>4, <1>6 DEF SearchInv, HalveInv, RightInv, FindsExactlyThePlaces,
                                      SearchStaysInside

LEMMA StopLeftKeepsInv ==
  ASSUME SearchInv, StopLeft
  PROVE  SearchInv'
<1>1. /\ vec \in Seq(Int) /\ Sorted(vec) /\ value \in Int /\ Size \in Nat
      /\ many /\ found /\ at = "left"
      /\ toPos \in Places /\ toPos \in 0 .. Size - 1 /\ Item(toPos) = value
      /\ fromPos \in 0 .. toPos /\ fromPos + 1 .. toPos \subseteq Places
  BY DEF SearchInv, SearchType, LeftInv, StopLeft, Places, Size
<1>2. UNCHANGED <<vec, value, many, l, r, toPos, found>> /\ at' = "right"
  BY DEF StopLeft
<1>3. Size' = Size /\ Places' = Places
  BY <1>2 DEF Size, Places, Item
<1>4. /\ fromPos' \in Places
      /\ fromPos' \in 0 .. toPos
      /\ fromPos' .. toPos - 1 \subseteq Places
      /\ \A i \in Places : fromPos' <= i
  <2>1. CASE Item(fromPos) = value
    <3>1. fromPos = 0 /\ fromPos' = 0
      BY <1>1, <2>1 DEF StopLeft
    <3>2. fromPos \in Places
      BY <1>1, <2>1 DEF Places
    <3>3. QED
      BY <1>1, <3>1, <3>2 DEF Places
  <2>2. CASE Item(fromPos) # value
    <3>1. fromPos < toPos /\ fromPos' = fromPos + 1
      BY <1>1, <2>2 DEF StopLeft
    <3>2. \A i \in Places : fromPos < i
      <4> SUFFICES ASSUME NEW i \in Places, ~ (fromPos < i) PROVE FALSE
        OBVIOUS
      <4>1. i \in 0 .. Size - 1 /\ i <= fromPos /\ Item(i) = value /\ fromPos \in 0 .. Size - 1
        BY <1>1 DEF Places
      <4>2. Item(i) <= Item(fromPos) /\ Item(fromPos) \in Int
        BY <1>1, <4>1, ItemsAreSorted
      <4>3. Item(fromPos) <= Item(toPos)
        BY <1>1, <4>1, ItemsAreSorted
      <4>4. QED
        BY <1>1, <2>2, <4>1, <4>2, <4>3
    <3>3. QED
      BY <1>1, <3>1, <3>2 DEF Places
  <2>3. QED
    BY <2>1, <2>2
<1>5. SearchType' /\ Sorted(vec)'
  BY <1>1, <1>2, <1>4 DEF SearchInv, SearchType, Sorted
<1>6. RightInv'
  BY <1>1, <1>2, <1>3, <1>4 DEF RightInv
<1>7. fromPos' \in 0 .. Size' - 1 /\ Item(fromPos)' = value' /\ toPos' \in 0 .. Size'
  BY <1>1, <1>2, <1>3, <1>4 DEF Places, Item
<1>8. SearchStaysInside' /\ FindsExactlyThePlaces'
  BY <1>2, <1>7 DEF SearchStaysInside, FindsExactlyThePlaces
<1>9. QED
  BY <1>2, <1>5, <1>6, <1>8 DEF SearchInv, HalveInv, LeftInv

LEMMA StepRightKeepsInv ==
  ASSUME SearchInv, StepRight
  PROVE  SearchInv'
<1>1. /\ vec \in Seq(Int) /\ Size \in Nat /\ many /\ found /\ at = "right"
      /\ fromPos \in Places /\ fromPos \in 0 .. Size - 1 /\ Item(fromPos) = value
      /\ toPos \in fromPos .. Size - 1 /\ toPos \in Places
      /\ fromPos .. toPos - 1 \subseteq Places
      /\ \A i \in Places : fromPos <= i
  BY DEF SearchInv, SearchType, RightInv, StepRight, Places, Size
<1>2. UNCHANGED <<vec, value, many, at, l, r, fromPos, found>> /\ toPos' = toPos + 1
  BY DEF StepRight
<1>3. Size' = Size /\ Places' = Places /\ Item(fromPos)' = Item(fromPos)
  BY <1>2 DEF Size, Places, Item
<1>4. SearchType' /\ Sorted(vec)'
  BY <1>1, <1>2 DEF SearchInv, SearchType, Sorted
<1>5. fromPos' .. toPos' - 1 \subseteq Places'
  BY <1>1, <1>2, <1>3
<1>6. RightInv'
  BY <1>1, <1>2, <1>3, <1>5 DEF RightInv
<1>7. QED
  BY <1>1, <1>2, <1>3, <1>4, <1>6 DEF SearchInv, HalveInv, LeftInv, FindsExactlyThePlaces,
                                      SearchStaysInside

LEMMA StopRightKeepsInv ==
  ASSUME SearchInv, StopRight
  PROVE  SearchInv'
<1>1. /\ vec \in Seq(Int) /\ Sorted(vec) /\ value \in Int /\ Size \in Nat
      /\ many /\ found /\ at = "right"
      /\ fromPos \in Places /\ fromPos \in 0 .. Size - 1 /\ Item(fromPos) = value
      /\ toPos \in fromPos .. Size
      /\ fromPos .. toPos - 1 \subseteq Places
      /\ \A i \in Places : fromPos <= i
  BY DEF SearchInv, SearchType, RightInv, StopRight, Places, Size
<1>2. UNCHANGED <<vec, value, many, l, r, fromPos, toPos, found>> /\ at' = "done"
  BY DEF StopRight
<1>3. Size' = Size /\ Places' = Places
  BY <1>2 DEF Size, Places, Item
<1>4. \A i \in Places : i < toPos
  <2> SUFFICES ASSUME NEW i \in Places, ~ (i < toPos) PROVE FALSE
    OBVIOUS
  <2>1. i \in 0 .. Size - 1 /\ Item(i) = value /\ toPos <= i /\ toPos \in 0 .. Size - 1
    BY <1>1 DEF Places
  <2>2. Item(toPos) # value
    BY <1>1, <2>1 DEF StopRight
  <2>3. Item(fromPos) <= Item(toPos) /\ Item(toPos) \in Int
    BY <1>1, <2>1, ItemsAreSorted
  <2>4. Item(toPos) <= Item(i)
    BY <1>1, <2>1, ItemsAreSorted
  <2>5. QED
    BY <1>1, <2>1, <2>2, <2>3, <2>4
<1>5. Places \subseteq fromPos .. toPos - 1
  BY <1>1, <1>4 DEF Places
<1>6. Places = fromPos .. toPos - 1
  BY <1>1, <1>5
<1>7. SearchType' /\ Sorted(vec)'
  BY <1>1, <1>2 DEF SearchInv, SearchType, Sorted
<1>8. found' = TRUE /\ Places' # {} /\ many'
  BY <1>1, <1>2, <1>3 DEF SearchInv, SearchType
<1>9. FindsExactlyThePlaces'
  BY <1>2, <1>3, <1>6, <1>8 DEF FindsExactlyThePlaces
<1>10. SearchStaysInside'
  BY <1>1, <1>2 DEF SearchStaysInside
<1>11. QED
  BY <1>2, <1>7, <1>9, <1>10 DEF SearchInv, HalveInv, LeftInv, RightInv

-----------------------------------------------------------------------------
\* Every step of a search keeps the invariant, whoever called it.
THEOREM SearchKeepsInv ==
  ASSUME SearchInv, Search
  PROVE  SearchInv'
  BY BeginKeepsInv, HalveKeepsInv, SettleKeepsInv, StepLeftKeepsInv, StopLeftKeepsInv,
     StepRightKeepsInv, StopRightKeepsInv DEF Search

LEMMA InvInductive == SearchSpec => []SearchInv
<1>1. SearchInit => SearchInv
  <2> SUFFICES ASSUME SearchInit PROVE SearchInv
    OBVIOUS
  <2>1. SearchType /\ Sorted(vec) /\ at = "called"
    BY DEF SearchInit, SearchType
  <2>2. QED
    BY <2>1 DEF SearchInv, HalveInv, LeftInv, RightInv, FindsExactlyThePlaces, SearchStaysInside
<1>2. SearchInv /\ [Search]_searchVars => SearchInv'
  <2> SUFFICES ASSUME SearchInv, UNCHANGED searchVars PROVE SearchInv'
    BY SearchKeepsInv
  <2>1. QED
    BY DEF searchVars, SearchInv, SearchType, Sorted, HalveInv, LeftInv, RightInv,
           FindsExactlyThePlaces, SearchStaysInside, Places, Size, Item
<1>3. QED
  BY <1>1, <1>2, PTL DEF SearchSpec

\* findSingle() and findMultiple() return exactly the places of a value.
THEOREM SearchIsRight == SearchSpec => []FindsExactlyThePlaces
<1>1. SearchInv => FindsExactlyThePlaces
  BY DEF SearchInv
<1>2. QED
  BY <1>1, InvInductive, PTL

\* The asserts of utils.h hold in every search of a sorted vector.
THEOREM SearchIsSafe == SearchSpec => []SearchStaysInside
<1>1. SearchInv => SearchStaysInside
  BY DEF SearchInv
<1>2. QED
  BY <1>1, InvInductive, PTL

=============================================================================
