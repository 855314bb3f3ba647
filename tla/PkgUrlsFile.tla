---------------------------- MODULE PkgUrlsFile ----------------------------
(***************************************************************************)
(* The file of package URLs (class PkgUrlsFile): a line per package of     *)
(* the repositories, written by ds-update and read by ds-install.  A line  *)
(* is a pair of a package (its name, epoch, version, release and build     *)
(* time, which the code compares as one prefix) and a URL.  A writer keeps *)
(* its own position in the file, as the stream of the code does.           *)
(***************************************************************************)
EXTENDS Naturals, Sequences

CONSTANTS
  NoUrl,  \* the empty string a package without a line keeps
  Hole    \* zeros between the end of a file and the position of a writer

\* What is in the file after a write of one entry at a position; a position
\* behind the end leaves a hole.
WriteAt(file, pos, entry) ==
  [i \in 1 .. (IF pos > Len(file) THEN pos ELSE Len(file)) |->
    IF i = pos THEN entry ELSE IF i <= Len(file) THEN file[i] ELSE Hole]

LineOf(pkg, url) == [pkg |-> pkg, url |-> url]

\* The lines readUrls() takes for a package: they begin with its data, and
\* something follows.
LinesFor(file, pkg) ==
  {i \in DOMAIN file : file[i] # Hole /\ file[i].pkg = pkg /\ file[i].url # NoUrl}

\* readUrls() for one package: the last line wins.
UrlIn(file, pkg) ==
  LET found == LinesFor(file, pkg) IN
  IF found = {} THEN NoUrl
  ELSE file[CHOOSE i \in found : \A j \in found : j <= i].url
=============================================================================
