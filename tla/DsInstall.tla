----------------------------- MODULE DsInstall -----------------------------
(***************************************************************************)
(* The whole of ds-install but for the solver: the command line, the       *)
(* configuration, and, when something is to be installed, what is done     *)
(* with the answer to it.                                                  *)
(***************************************************************************)
EXTENDS Startup, Transaction

CONSTANT Tasks   \* bound: the command lines that are worked out for every
                 \* system; with others nothing is installed or to be done

dsInstallVars == <<startupVars, vars>>

\* doMainWork(): what the keys make of the task, the first of them here.
ModeTyped ==
  CASE Pressed("--urls") -> "urls"
    [] Pressed("--dry-run") -> "dry-run"
    [] Pressed("--files") -> "files"
    [] OTHER -> "changes"

DsInstallInit ==
  /\ StartupInit
  /\ mode = ModeTyped
  /\ IF words \in Tasks THEN TRUE
     ELSE /\ system = {} /\ answer = [install |-> {}, remove |-> {}, system |-> {}]
          /\ urlFile = NoMap /\ cache = EmptyCache
  /\ TransactionInit

\* What is behind transaction() begins when the files are read, something is
\* to be installed, and not only the equation is wanted.
IsTransaction ==
  program = "install" /\ stage = "ready" /\ Saying("item") # {} /\ ~ Pressed("--sat")

DsInstallNext ==
  \/ /\ StartupNext /\ mode' = ModeTyped'
     /\ UNCHANGED <<fetchVars, taskVars, urlFile, urls, files, elements, result, system, pc, answer, alone>>
  \/ IsTransaction /\ UNCHANGED startupVars /\ TransactionNext

DsInstallSpec == DsInstallInit /\ [][DsInstallNext]_dsInstallVars
=============================================================================
