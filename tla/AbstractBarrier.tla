-------------------------- MODULE AbstractBarrier --------------------------
(***************************************************************************)
(* What a reusable barrier promises to a fixed set of parties: a party     *)
(* that has arrived for the k-th time is released only once every party    *)
(* has arrived k times, and once they all have it is eventually released.  *)
(* GridSync (CTAs of one GPU) and NvlinkBarrier (the SM 0s of all ranks)   *)
(* are shown to implement it.                                              *)
(***************************************************************************)
EXTENDS Naturals

CONSTANTS Parties,    \* who synchronises
          MaxRounds   \* bound on the number of arrivals of a party

VARIABLES arrived,    \* arrived[p]: how often p has entered the barrier
          left        \* left[p]:    how often p has been released

vars == <<arrived, left>>

Init == /\ arrived \in [Parties -> {0}]
        /\ left \in [Parties -> {0}]

Arrive(p) == /\ arrived[p] = left[p]
             /\ arrived[p] < MaxRounds
             /\ arrived' = [arrived EXCEPT ![p] = @ + 1]
             /\ UNCHANGED left

Leave(p) == /\ left[p] < arrived[p]
            /\ \A q \in Parties : arrived[p] <= arrived[q]
            /\ left' = [left EXCEPT ![p] = @ + 1]
            /\ UNCHANGED arrived

Next == \E p \in Parties : Arrive(p) \/ Leave(p)

Safe == Init /\ [][Next]_vars

Spec == Safe /\ \A p \in Parties : WF_vars(Leave(p))
=============================================================================
