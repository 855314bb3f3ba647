--------------------------- MODULE MCPackageData ---------------------------
(***************************************************************************)
(* Two repositories for PackageData: one that is empty at first, and one   *)
(* that has a package of the other as well.  Both are remote, or both are  *)
(* downloaded to the same file, or the first is local.                     *)
(***************************************************************************)
EXTENDS PackageData

MCRepos == <<"base", "extra">>

MCPublished == [base |-> <<<<>>, <<"app">>>>, extra |-> <<<<"app", "lib">>>>]

MCLayouts ==
  {[temp |-> [base |-> "t1", extra |-> "t2"], local |-> {}],
   [temp |-> [base |-> "t1", extra |-> "t1"], local |-> {}],
   [temp |-> [base |-> "t1", extra |-> "t2"], local |-> {"base"}]}

MCAsked == <<{"app"}, {"lib"}>>
=============================================================================
