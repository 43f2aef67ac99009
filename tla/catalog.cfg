\* A server and two import processes, with two kills or failures of SQLite.
SPECIFICATION Spec
CONSTANTS
  first = first
  second = second
  other = other
  Artifacts = {1, 2}
  Imported = {1}
  Contents = {first, second, other}
  ContentsOf <- MCContentsOf
  DigestOf <- MCDigestOf
  Aliases = {x}
  Importers = {i1, i2}
  MaxOps = 3
  MaxFaults = 2
SYMMETRY ImporterSymmetry
INVARIANTS
  AliasesAreUnique
  IndexIsHealed
PROPERTIES
  ImplementsShelf
\* The system stops when the bounds on operations and faults are used up.
CHECK_DEADLOCK FALSE
