----------------------------- MODULE MCJitCache -----------------------------
(***************************************************************************)
(* Two processes on two nodes build the same kernel, the first of them     *)
(* twice; the second also dumps the assembly.  Two faults: enough to kill  *)
(* a process again after its restart, or to strike one process between     *)
(* the fault and the recovery of the other.                                *)
(***************************************************************************)
EXTENDS JitCache, TLC

CONSTANTS p1, p2, n1, n2, k1

MCNodeOf == p1 :> n1 @@ p2 :> n2
MCCalls == p1 :> <<k1, k1>> @@ p2 :> <<k1>>
=============================================================================
