--------------------------- MODULE MC_MediaAccess ---------------------------
(***************************************************************************)
(* A platform with a double density cage of two sub-ports and an SFP cage  *)
(* behind one multiplexer and one module select group.                     *)
(***************************************************************************)
EXTENDS MediaAccess, TLC

MCPort ==
  [dd0 |-> [kind |-> "dd", first |-> 0, cage |-> "A", mux |-> "mux", mod |-> "mod", mw |-> 4000, wires |-> {}],
   dd1 |-> [kind |-> "dd", first |-> 4, cage |-> "A", mux |-> "mux", mod |-> "mod", mw |-> 4000, wires |-> {}],
   sfp |-> [kind |-> "sfp", first |-> 0, cage |-> "B", mux |-> "mux", mod |-> "mod", mw |-> 2500,
            wires |-> {"led"}]]
MCFacts ==
  [plain  |-> {"tx", "cdrtx", "soft"},
   hungry |-> {"soft"},
   slim   |-> {"tx"},
   flat   |-> {"flat"},
   double |-> {"dd", "ver3", "tx"},
   adapted |-> {"sfp", "flat", "options", "softtx"},
   copper |-> {"options", "softtx", "extmod"},
   tuned  |-> {"tunable", "bywave", "tunes", "ddm", "extcal", "alarm"}]
MCPower == [plain |-> 4000, hungry |-> 5000, slim |-> 1500, flat |-> 1500, double |-> 1500, adapted |-> 1500, copper |-> 1500, tuned |-> 1500]
OneThread == CHOOSE t \in Threads : TRUE
Bench(a, b) == [fits |-> [A |-> a, B |-> b], crew |-> {OneThread}, ports |-> Ports, pulls |-> TRUE]
Busy(a, b, ps) == [fits |-> [A |-> a, B |-> b], crew |-> Threads, ports |-> ps, pulls |-> FALSE]
(* Modules exchanged under one thread; two threads on the two sub-ports of *)
(* one module, and on two cages.                                           *)
MCScenes == {Bench({"plain", "hungry", "flat"}, {}), Bench({"adapted"}, {}), Bench({}, {"copper"}), Bench({}, {"tuned"}),
             Busy({"double"}, {}, {"dd0", "dd1"}), Busy({"slim"}, {"tuned"}, {"dd0", "sfp"})}
MCGenericPages == {Invalid, Ignore, 0, 3}
MCSymmetry == Permutations(Threads)
=============================================================================
