---------------------------- MODULE MCRepository ----------------------------
(***************************************************************************)
(* A small component for Repository: "app" requires a name and a file that *)
(* "lib" provides, the source package "src" requires another name.         *)
(***************************************************************************)
EXTENDS Repository

MCPackages == {"app", "lib", "src"}

MCSourcePackages == {"src"}

MCProvides == [app |-> {"app"}, lib |-> {"lib", "dev"}, src |-> {}]

MCFiles == [app |-> {}, lib |-> {"bin"}, src |-> {}]

MCRefs == [app |-> {"lib", "bin"}, lib |-> {}, src |-> {"dev"}]

MCFileDirs == {"bin"}

MCSelections == {{}, {"app"}, {"lib"}, {"app", "lib", "src"}}

MCExternalRefs == {{}, {"app"}}
=============================================================================
