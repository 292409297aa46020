--------------------------- MODULE MCFineCombine ---------------------------
(* Small workloads: on one rank, two slices of token 0 and one of token 1,  *)
(* every CTA executing a task; on two ranks, one token each with a slice    *)
(* from every rank, executed by CTA 0.                                      *)
EXTENDS FineCombine

OneRank(places) ==
  [ranks |-> 1, warps |-> 2, tokens |-> 2,
   rowsOf |-> [k \in Tasks |-> IF k = "k2" THEN {<<0, 0>>, <<0, 1>>}
                                           ELSE {<<0, 0>>}],
   placements |-> places]
TwoRanks ==
  [ranks |-> 2, warps |-> 1, tokens |-> 1,
   rowsOf |-> [k \in Tasks |-> {<<0, 0>>, <<1, 0>>}],
   placements |-> { [k \in Tasks |-> <<IF k = "k1" THEN 0 ELSE 1, 0>>] }]

\* Every CTA executes a task.
BothBusy == { [k \in Tasks |-> <<0, IF k = "k1" THEN 0 ELSE 1>>],
              [k \in Tasks |-> <<0, IF k = "k1" THEN 1 ELSE 0>>] }
BusySetups == { OneRank(BothBusy), TwoRanks }

\* CTA 0 executes all tasks of the launch, CTA 1 none.
IdleSetups == { OneRank({ [k \in Tasks |-> <<0, 0>>] }) }
=============================================================================
