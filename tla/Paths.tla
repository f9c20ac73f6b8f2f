-------------------------------- MODULE Paths --------------------------------
(***************************************************************************)
(* The paths of the commands (src/cmd/tinytiles/build.go, where            *)
(* src/pbf_build_native.go has the same functions): how they are compared, *)
(* by which an output is kept from replacing an input, and where the       *)
(* operating system finds them.  A path is a sequence of names below one   *)
(* directory.                                                              *)
(***************************************************************************)
EXTENDS Sequences, SequencesExt

CONSTANTS
  Existing,     \* the files and directories, without links in their paths, before the command
  File,         \* of the regular files among them: their identity, which hard links share
  Link          \* symbolic links: the path, without links in it, that they name

\* A link may dangle, and what it names may come to exist.
ASSUME PathsAssumption ==
  /\ \A path \in Existing : path \in Seq(STRING) /\ Prefixes(path) \subseteq Existing
  /\ DOMAIN File \subseteq Existing
  /\ \A l \in DOMAIN Link :
       /\ l \in Seq(STRING) /\ l # <<>> /\ l \notin Existing /\ Front(l) \in Existing
       /\ Link[l] \in Seq(STRING) /\ Prefixes(Link[l]) \cap DOMAIN Link = {}

\* From a directory to what a name in it stands for, with these links followed.
Hop(dir, name, links) ==
  LET path == Append(dir, name) IN IF path \in links THEN Link[path] ELSE path

Follow(path, links) ==
  LET at[i \in 0..Len(path)] == IF i = 0 THEN <<>> ELSE Hop(at[i - 1], path[i], links)
  IN  at[Len(path)]

\* Where the operating system finds or creates the path.
Real(path) == Follow(path, DOMAIN Link)

\* The path with the links followed that lead somewhere: a dangling link, and
\* what comes after it, stay as they are.
Resolved(path, there) == Follow(path, {l \in DOMAIN Link : Link[l] \in there})

\* Fault: a link is compared by its name.
Canonical_Unresolved(path) == path

\* canonicalExistingPath, which is called before the command changes anything.
Canonical(path) == Resolved(path, Existing)

Parent(path) == IF path = <<>> THEN <<>> ELSE Front(path)

\* The path itself, should it be a link.
Located(path) == IF path = <<>> THEN <<>> ELSE Append(Real(Front(path)), Last(path))

\* requireRegularFile, and os.SameFile.
RegularFile(path) == Real(path) \in DOMAIN File

SameFile(a, b) == RegularFile(a) /\ RegularFile(b) /\ File[Real(a)] = File[Real(b)]

\* The comparisons give up below a regular file.
Comparable(path) == \A p \in Prefixes(Real(path)) : p \in DOMAIN File => p = Real(path)

SamePath(a, b) == Canonical(a) = Canonical(b)

\* pathWithin: child is parent or below it.
PathWithin(child, parent) == IsPrefix(Canonical(parent), Canonical(child))

\* rejectOverlappingBuildPaths, rejectPBFBuildPathOverlap, and the path checks
\* of validateImportPaths.
Overlap(a, b) == SamePath(a, b) \/ PathWithin(a, b) \/ PathWithin(b, a)
=============================================================================
