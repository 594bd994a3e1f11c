------------------------------ MODULE MC_VmDb -------------------------------
(***************************************************************************)
(* Processes and threads for the runs of VmDb.                             *)
(***************************************************************************)
EXTENDS VmDb

One       == {"p"}
Two       == {"p", "q"}
AllInOne  == [t \in {"t", "u"} |-> "p"]
OneEach   == [t \in {"t", "u"} |-> IF t = "t" THEN "p" ELSE "q"]
OneSets   == [t \in {"t", "u"} |-> IF t = "t" THEN {"target", "reinit"} ELSE {"get"}]
BothSet   == [t \in {"t", "u"} |-> {"target"}]
MixedUse == [t \in {"t", "u"} |-> IF t = "t" THEN {"set", "target"} ELSE {"get", "reinit"}]
=============================================================================
