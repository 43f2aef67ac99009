--------------------------- MODULE MCTaskManager ---------------------------
(* Instances of TaskManager for TLC.                                        *)
EXTENDS TaskManager, TLC

\* One provider of each flow: a repository of ModelScope and a generic HTTP download.
MCSources    == {"modelscope-cn", "http"}
MCHttp       == {"http"}
MCModelScope == {"modelscope-cn"}
MCOddHub     == [t \in Tasks |-> IF t % 2 = 1 THEN "modelscope-cn" ELSE "http"]
MCAllHub     == [t \in Tasks |-> "modelscope-cn"]
MCAllHttp    == [t \in Tasks |-> "http"]

RunSymmetry == Permutations(Runs)
=============================================================================
