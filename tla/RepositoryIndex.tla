--------------------------- MODULE RepositoryIndex ---------------------------
(***************************************************************************)
(* What the documentation of the index promises to those who read it       *)
(* (admin.tex, ds-patch and ds-provides): the list of packages a client    *)
(* can load is a released one, and from one release to the next either the *)
(* set of packages changes and the provides of those that stay are as they *)
(* were, or the provides change and the set of packages is as it was.      *)
(* While a program works, or after it was interrupted, there may be none.  *)
(***************************************************************************)
CONSTANTS
  Packages, \* packages a list may name
  Names     \* names they may provide

VARIABLES
  offered, \* the list a client can load now: a set of at most one list
  last     \* the list released last: a set of at most one list

listVars == <<offered, last>>

IsPackageList(new) ==
  DOMAIN new \subseteq Packages /\ \A p \in DOMAIN new : new[p] \subseteq Names

Init == offered = {} /\ last = {}

SameSections(old, new) == \A p \in DOMAIN old \cap DOMAIN new : old[p] = new[p]

SamePackages(old, new) == DOMAIN old = DOMAIN new

Withdraw ==
  /\ offered # {}
  /\ offered' = {}
  /\ UNCHANGED last

Restore ==
  /\ offered = {}
  /\ offered' = last
  /\ UNCHANGED last

Release ==
  /\ offered = {}
  /\ \E new \in offered' :
       /\ IsPackageList(new)
       /\ \A old \in last : SameSections(old, new) \/ SamePackages(old, new)
       /\ offered' = {new}
       /\ last' = {new}

Next == Withdraw \/ Restore \/ Release

Spec == Init /\ [][Next]_listVars
=============================================================================
