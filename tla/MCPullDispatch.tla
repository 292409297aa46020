--------------------------- MODULE MCPullDispatch ---------------------------
(* Crossed: the rows go to ranks and experts in turn.  Bunched: all rows go *)
(* to the last expert of rank 0.  Nothing: no tokens.                       *)
EXTENDS PullDispatch

Crossed(ranks, experts, rows) ==
  [i \in 0 .. rows - 1 |-> <<i % ranks, (i + 1) % experts>>]
Bunched(experts, rows) == [i \in 0 .. rows - 1 |-> <<0, experts - 1>>]
Nothing(rows) == [i \in 0 .. rows - 1 |-> NoExpert]

\* One rank, two launches of every mix of routings; the arrivals of the CTAs in
\* the high words, the broadcast left to CTA 0, and the fine-grained combine.
Launches ==
  [ranks |-> 1, experts |-> 2, rows |-> 3, launches |-> 2,
   routings |-> {Crossed(1, 2, 3), Bunched(2, 3), Nothing(3)},
   lean |-> FALSE, bcast |-> FALSE, fine |-> TRUE, single |-> TRUE, lanes |-> 2]
\* Ranks that pull from each other, lean counts broadcast by all CTAs, and the
\* cleanup behind NVLink barrier #2.
TwoRanks ==
  [ranks |-> 2, experts |-> 1, rows |-> 2, launches |-> 1,
   routings |-> {Crossed(2, 1, 2)},
   lean |-> TRUE, bcast |-> TRUE, fine |-> FALSE, single |-> FALSE, lanes |-> 1]
\* An expert with more blocks than a warp has lanes, behind another one: both
\* warps clear its counts.
ManyBlocks ==
  [ranks |-> 1, experts |-> 2, rows |-> 4, launches |-> 2,
   routings |-> {[i \in 0 .. 3 |-> IF i = 0 THEN <<0, 0>> ELSE <<0, 1>>]},
   lean |-> TRUE, bcast |-> TRUE, fine |-> TRUE, single |-> FALSE, lanes |-> 1]
MCSetups == {Launches, TwoRanks, ManyBlocks}

\* One row: only one of the CTAs has something to pull.
IdleSetups ==
  {[ranks |-> 1, experts |-> 1, rows |-> 1, launches |-> 1,
    routings |-> {Crossed(1, 1, 1)},
    lean |-> TRUE, bcast |-> TRUE, fine |-> FALSE, single |-> TRUE, lanes |-> 1]}

\* All numbers of rows of up to four ranks, up to four rows each.
AllSearches == UNION { [0 .. ranks - 1 -> 0 .. 4] : ranks \in 1 .. 4 }
=============================================================================
