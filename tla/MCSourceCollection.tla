-------------------------- MODULE MCSourceCollection --------------------------
(***************************************************************************)
(* SourceCollection for model checking: commits of a root directory with   *)
(* two entries and two directories below each other, the last of which is  *)
(* too deep.                                                               *)
(***************************************************************************)
EXTENDS SourceCollection

Entry(path, name, kind, size, marks) ==
  [path |-> path, name |-> name, kind |-> kind, size |-> size, marks |-> marks]

\* A package file and what lies beside it: its lock, a file that is clean or not, small
\* or large, or something that is not looked into.
Package == Entry(1, "package.json", "file", 1, {})
Beside ==
  {Entry(2, "package-lock.json", "file", 1, {}), Entry(2, "main", "file", 3, {})}
  \cup {Entry(2, "main", "file", 1, marks) : marks \in {{}, {"secret"}, {"html"}}}
  \cup {Entry(2, "thing", kind, 1, {}) : kind \in {"link", "archive", "excluded", "skipped"}}

\* What the directory below holds.
Below == {Entry(3, "package.json", "file", 1, {}), Entry(3, "lib", "file", 2, {"execution"}),
          Entry(3, "lib", "file", 2, {}), Entry(3, "module", "submodule", 1, {})}

More == Entry(4, "more", "file", 1, {"execution"})
Tree(name) == Entry(0, name, "tree", 0, {})
Contents ==
  {[root |-> <<Package, b>> \o sub, lib |-> <<w>> \o deep, deep |-> <<Entry(5, "x", "file", 1, {"secret"})>>] :
     b \in Beside, w \in Below, sub \in {<<>>, <<Tree("lib")>>},
     deep \in {<<>>, <<More>>, <<Tree("deep")>>, <<More, Tree("deep")>>}}

SomePolicies == {{"secret"}, {"secret", "html", "lockfile"}, {"unknown"}}

=============================================================================
