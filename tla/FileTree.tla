------------------------------ MODULE FileTree ------------------------------
(***************************************************************************)
(* The tree of files that can be filtered, folded and ticked:              *)
(* packages/ui/src/components/FileTree.tsx.  A path is the sequence of its *)
(* names.  A node of the tree is the path of a file or of a folder, so the *)
(* nodes that buildTree makes of a list of files are the prefixes of their *)
(* paths.  The operators need no recursion: a path says what it lies in.   *)
(***************************************************************************)
EXTENDS Naturals, SequencesExt, FiniteSets

NoQuery == "no query"

\* buildTree
TreeNodes(files) == UNION {{SubSeq(p, 1, k) : k \in 1 .. Len(p)} : p \in files}

FilesUnder(node, files) == {p \in files : IsPrefix(node, p)}

IsFolder(node, files) == \E p \in files : IsStrictPrefix(node, p)

\* The query is one of the names: what matters is that the path of a node holds the names of
\* the folders it lies in.
Matches(node, query) == query = NoQuery \/ query \in Range(node)

\* A bug for comparison: a folder that does not match takes its files with it.
FilterTreeByNode(files, query) ==
  {n \in TreeNodes(files) : \A k \in 1 .. Len(n) : Matches(SubSeq(n, 1, k), query)}

\* filterTree keeps a node that matches or has a descendant that does.
FilterTree(files, query) ==
  {n \in TreeNodes(files) :
     \E m \in TreeNodes(files) : IsPrefix(n, m) /\ Matches(m, query)}

\* Rows: a search opens all folders.
IsOpen(node, expanded, query) == query # NoQuery \/ node \in expanded

TreeRows(files, expanded, query) ==
  {n \in FilterTree(files, query) :
     \A k \in 1 .. Len(n) - 1 : IsOpen(SubSeq(n, 1, k), expanded, query)}

\* The box of a row counts all files of a folder, those that the filter hides included.
BoxOf(node, files, selected) ==
  LET under == FilesUnder(node, files) IN
  IF under \subseteq selected THEN "checked"
  ELSE IF under \cap selected # {} THEN "partial" ELSE "unchecked"

\* toggleSelectedPaths for a click on the box or the name of a row.
ToggleRow(node, files, selected) ==
  IF BoxOf(node, files, selected) = "checked" THEN selected \ FilesUnder(node, files)
                                              ELSE selected \cup FilesUnder(node, files)
=============================================================================
