---------------------------- MODULE MCDsInstall ----------------------------
(***************************************************************************)
(* The starts of MCStartup, and tasks for two versions of a package,       *)
(* another build of the later one with the same file name, and a second    *)
(* package.                                                                *)
(***************************************************************************)
EXTENDS DsInstall, MCStartup

MCTasks == {<<"n">>, <<"--dry-run", "n">>, <<"n", "--urls">>, <<"--files", "n">>}

MCDsStarts ==
  MCStarts \union [program : {"install"}, words : MCTasks \union {<<"--sat", "n">>}, files : {<<>>},
                   index : {NoIndex}, place : {"absent"}]

MCPkgs == {"n1", "n2", "n2b", "m1"}

MCName == [n1 |-> "n", n2 |-> "n", n2b |-> "n", m1 |-> "m"]

MCVer == [n1 |-> 1, n2 |-> 2, n2b |-> 2, m1 |-> 1]

MCBase == [n1 |-> "n-1.rpm", n2 |-> "n-2.rpm", n2b |-> "n-2.rpm", m1 |-> "m-1.rpm"]

MCSystems == {{}, {"n1"}, {"n1", "m1"}, {"n2"}, {"n1", "n2b"}, {"n2b"}}

MCUrlFiles ==
  LET remote == [p \in MCPkgs |-> "remote"] IN
  {remote, [remote EXCEPT !["n2"] = "local"], [remote EXCEPT !["m1"] = "noBase"],
   [p \in {"m1"} |-> "remote"], NoMap}
=============================================================================
