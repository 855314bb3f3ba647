------------------------------ MODULE Symbols ------------------------------
(***************************************************************************)
(* Texts are sequences of symbols, a symbol being a character or a word no *)
(* character of which is treated differently from another.                 *)
(***************************************************************************)
EXTENDS Integers, Sequences

Blank == " "
IsBlank(l) == \A i \in DOMAIN l : l[i] = Blank

Trim(l) ==
  IF IsBlank(l) THEN <<>>
  ELSE LET chars == {i \in DOMAIN l : l[i] # Blank} IN
       SubSeq(l, CHOOSE i \in chars : \A j \in chars : i <= j, CHOOSE i \in chars : \A j \in chars : j <= i)

\* The place of the first symbol c, behind the end if there is none.
FirstOf(l, c) ==
  IF \E i \in DOMAIN l : l[i] = c THEN CHOOSE i \in DOMAIN l : l[i] = c /\ \A j \in 1 .. i - 1 : l[j] # c
  ELSE Len(l) + 1

\* The parts of l between the symbols c.
RECURSIVE Parts(_, _)
Parts(l, c) ==
  LET i == FirstOf(l, c) IN
  IF i > Len(l) THEN <<l>> ELSE <<SubSeq(l, 1, i - 1)>> \o Parts(SubSeq(l, i + 1, Len(l)), c)

\* l with each symbol in the domain of `by' replaced by what it stands for.
RECURSIVE Substitute(_, _)
Substitute(l, by) ==
  IF l = <<>> THEN <<>>
  ELSE (IF l[1] \in DOMAIN by THEN by[l[1]] ELSE <<l[1]>>) \o Substitute(Tail(l), by)
=============================================================================
