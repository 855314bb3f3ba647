------------------------------ MODULE Dichotomy ------------------------------
(***************************************************************************)
(* The binary search of src/lib/deepsolver/utils.h, which every query of   *)
(* the package scope goes through: findSingle() finds some position of a   *)
(* value, findMultiple() the range of all of them.  Positions are counted  *)
(* from 0 and unsigned, as in the code; the end of a range is the position *)
(* behind it.                                                              *)
(*                                                                         *)
(* A caller starts a search with Call and reads fromPos, toPos and found   *)
(* when at = "done".  Both functions leave their loop in the same way, so  *)
(* they share its steps; "many" tells them apart.                          *)
(***************************************************************************)
EXTENDS Integers, Sequences

VARIABLES
  vec,      \* the vector searched
  value,    \* the value looked for
  many,     \* findMultiple() or findSingle()
  at,       \* the place in the function
  l, r,     \* the bounds of the search
  fromPos,  \* pos of findSingle()
  toPos,    \* findSingle() leaves it alone
  found     \* what the function returned

searchVars == <<vec, value, many, at, l, r, fromPos, toPos, found>>

-----------------------------------------------------------------------------
Size == Len(vec)

Item(i) == vec[i + 1]

Sorted(v) == \A i, j \in 1 .. Len(v) : i <= j => v[i] <= v[j]

Call(v, x, all) ==
  /\ vec' = v
  /\ value' = x
  /\ many' = all
  /\ at' = "called"
  /\ UNCHANGED <<l, r, fromPos, toPos, found>>

\* The value is not there; findMultiple() sets its positions all the same.
NotFound ==
  /\ found' = FALSE
  /\ at' = "done"
  /\ IF many
     THEN fromPos' = 0 /\ toPos' = 0
     ELSE UNCHANGED <<fromPos, toPos>>

\* The value is at position i.
Hit(i) ==
  /\ found' = TRUE
  /\ fromPos' = i
  /\ IF many
     THEN toPos' = i /\ at' = "left"
     ELSE at' = "done" /\ UNCHANGED toPos

Begin ==
  /\ at = "called"
  /\ IF vec = <<>>
     THEN /\ found' = FALSE
          /\ fromPos' = 0
          /\ toPos' = IF many THEN 0 ELSE toPos
          /\ at' = "done"
          /\ UNCHANGED <<l, r>>
     ELSE /\ l' = 0
          /\ r' = Size
          /\ at' = "halve"
          /\ UNCHANGED <<fromPos, toPos, found>>
  /\ UNCHANGED <<vec, value, many>>

\* Mutant of GoesOn: the loop goes on until nothing is left.
GoesOn_UntilEmpty == l < r

\* The condition of the loop.
GoesOn == l + 1 < r

\* One turn of the loop: the middle is the value, is behind it or before it.
Halve ==
  /\ at = "halve"
  /\ GoesOn
  /\ LET c == (l + r) \div 2 IN
       \/ /\ Item(c) = value
          /\ Hit(c)
          /\ UNCHANGED <<l, r>>
       \/ /\ Item(c) > value
          /\ r' = c
          /\ UNCHANGED <<at, l, fromPos, toPos, found>>
       \/ /\ Item(c) < value
          /\ l' = c
          /\ UNCHANGED <<at, r, fromPos, toPos, found>>
  /\ UNCHANGED <<vec, value, many>>

\* One position is left.
Settle ==
  /\ at = "halve"
  /\ ~ GoesOn
  /\ IF Item(l) = value THEN Hit(l) ELSE NotFound
  /\ UNCHANGED <<vec, value, many, l, r>>

\* Mutant of StepLeft: adjustBounds() steps below position 0.
StepLeft_NoFloor ==
  /\ at = "left"
  /\ Item(fromPos) = value
  /\ fromPos' = fromPos - 1
  /\ UNCHANGED <<vec, value, many, at, l, r, toPos, found>>

\* adjustBounds(): the first position that has the value ...
StepLeft ==
  /\ at = "left"
  /\ fromPos > 0
  /\ Item(fromPos) = value
  /\ fromPos' = fromPos - 1
  /\ UNCHANGED <<vec, value, many, at, l, r, toPos, found>>

\* Mutant of StopLeft: the step too far is not taken back.
StopLeft_KeepsOvershoot ==
  /\ at = "left"
  /\ fromPos > 0 => Item(fromPos) # value
  /\ at' = "right"
  /\ UNCHANGED <<vec, value, many, l, r, fromPos, toPos, found>>

StopLeft ==
  /\ at = "left"
  /\ fromPos > 0 => Item(fromPos) # value
  /\ fromPos' = IF Item(fromPos) # value THEN fromPos + 1 ELSE fromPos
  /\ at' = "right"
  /\ UNCHANGED <<vec, value, many, l, r, toPos, found>>

\* ... and the first one behind that has not.
StepRight ==
  /\ at = "right"
  /\ toPos < Size
  /\ Item(toPos) = value
  /\ toPos' = toPos + 1
  /\ UNCHANGED <<vec, value, many, at, l, r, fromPos, found>>

StopRight ==
  /\ at = "right"
  /\ toPos < Size => Item(toPos) # value
  /\ at' = "done"
  /\ UNCHANGED <<vec, value, many, l, r, fromPos, toPos, found>>

Search ==
  \/ Begin
  \/ Halve
  \/ Settle
  \/ StepLeft
  \/ StopLeft
  \/ StepRight
  \/ StopRight

-----------------------------------------------------------------------------
\* A single search of any sorted vector.
SearchInit ==
  /\ vec \in Seq(Int)
  /\ Sorted(vec)
  /\ value \in Int
  /\ many \in BOOLEAN
  /\ at = "called"
  /\ l = 0 /\ r = 0
  /\ fromPos \in Nat /\ toPos \in Nat
  /\ found = FALSE

SearchSpec == SearchInit /\ [][Search]_searchVars

-----------------------------------------------------------------------------
\* The positions of the value.
Places == {i \in 0 .. Size - 1 : Item(i) = value}

\* What findSingle() and findMultiple() return: whether the value is there,
\* one of its places, the range of exactly all of them.  Callers iterate over
\* the range and take what is outside of it for other names.
FindsExactlyThePlaces ==
  at = "done" =>
    /\ found = (Places # {})
    /\ ~ many /\ found => fromPos \in Places
    /\ many => Places = fromPos .. toPos - 1

\* The asserts of the loop (utils.h:51, :62, :85, :100) and of adjustBounds()
\* (:120-132): no unsigned position runs below 0 or out of the vector.
SearchStaysInside ==
  /\ at = "halve" => l \in 0 .. Size - 1 /\ r \in l + 1 .. Size
  /\ at = "left" => fromPos \in 0 .. Size - 1 /\ toPos \in 0 .. Size - 1
  /\ at = "right" => fromPos \in 0 .. Size - 1 /\ toPos \in 0 .. Size /\ Item(fromPos) = value
  /\ at = "done" /\ many => fromPos <= toPos

=============================================================================
