---------------------------- MODULE MCProbeMain ----------------------------
(* ProbeMain with two readings of the box: a busy one with two interfaces, *)
(* and one where only /proc/meminfo opens and shows no MemAvailable, whose *)
(* text is longer.                                                         *)
EXTENDS ProbeMain

MCBoxes ==
    {[stat |-> <<4, 0, 3, 2, 1, 0, 0>>, meminfo |-> <<8, 6>>, df |-> <<7>>,
      dev  |-> <<[rx |-> 6, tx |-> 5], [rx |-> 3, tx |-> 1]>>,
      left |-> [rx |-> 0, tx |-> 0]],
     [stat |-> <<>>, meminfo |-> <<8>>, df |-> <<>>, dev |-> <<>>,
      left |-> [rx |-> 100, tx |-> 9]]}
=============================================================================
