------------------------------- MODULE Shelf -------------------------------
(***************************************************************************)
(* What the artifact catalog promises: a set of immutable artifacts, each  *)
(* with at most one alias, where publication and deletion are atomic.      *)
(* README.md, "Core guarantees"; the docstring of Catalog.delete.          *)
(***************************************************************************)
CONSTANTS Artifacts, Contents, Aliases, Absent, NoAlias

VARIABLES
  contents,   \* what each artifact consists of
  names       \* the alias of each artifact

Init ==
  /\ contents = [a \in Artifacts |-> Absent]
  /\ names = [a \in Artifacts |-> NoAlias]

\* Aliases no other artifact has.
FreeFor(a) == {x \in Aliases : \A b \in Artifacts \ {a} : names[b] # x} \cup {NoAlias}

\* An artifact may come back under the alias it had.
Publish(a) ==
  /\ contents[a] = Absent
  /\ \E c \in Contents : contents' = [contents EXCEPT ![a] = c]
  /\ \E x \in FreeFor(a) : names' = [names EXCEPT ![a] = x]

Remove(a) ==
  /\ contents[a] # Absent
  /\ contents' = [contents EXCEPT ![a] = Absent]
  /\ names' = [names EXCEPT ![a] = NoAlias]

Rename(a) ==
  /\ contents[a] # Absent
  /\ \E x \in FreeFor(a) : names' = [names EXCEPT ![a] = x]
  /\ UNCHANGED contents

Next == \E a \in Artifacts : Publish(a) \/ Remove(a) \/ Rename(a)

Spec == Init /\ [][Next]_<<contents, names>>
=============================================================================
