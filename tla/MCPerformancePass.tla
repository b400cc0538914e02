-------------------------- MODULE MCPerformancePass --------------------------
(***************************************************************************)
(* PerformancePass on small instances.  Nothing tells one symbol from      *)
(* another, so a run starts from one order of their closes: the first      *)
(* symbol has the most recent ones.  (TLC's symmetry sets would not do:    *)
(* the run checks a liveness property.)                                    *)
(***************************************************************************)
EXTENDS PerformancePass

First == CHOOSE s \in Symbols : TRUE
Rank(s) == 2 * price[s][FirstDay] + price[s][FirstDay - 1]
InOrder == \A s \in Symbols : Rank(s) <= Rank(First)

MCInit == Init /\ InOrder

MCFairSpec == MCInit /\ [][Next]_vars /\ Fairness
=============================================================================
