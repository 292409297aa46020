--------------------------- MODULE MCNvlinkBarrier ---------------------------
(* The call sites of one launch of the fused kernel, with and without the   *)
(* fast epilogue: before the dispatch pull, before the combine reduction,   *)
(* after the workspace cleanup.                                             *)
EXTENDS NvlinkBarrier

Full(fast) == [prologue |-> TRUE, epilogue |-> TRUE, fast |-> fast]
AfterClean == [prologue |-> TRUE, epilogue |-> FALSE, fast |-> FALSE]

FastSites == <<Full(TRUE), Full(TRUE), AfterClean>>

\* Fine-grained combine drops the second barrier; without the distributed
\* expert broadcast CTA 0 alone publishes, and the first has no prologue.
NoPrologueSites ==
  <<[prologue |-> FALSE, epilogue |-> TRUE, fast |-> FALSE], AfterClean>>

\* Four launches wrap the done count.  The later setups start from the words
\* that earlier launches left, of each sign.  Rank 0 may stall in its only
\* launch: the peer's CTAs are then in an epilogue's grid_sync, or spin on the
\* done word, when their CTA 0 times out.
MCSetups ==
  {[sites |-> FastSites, launches |-> 4, before |-> 0, done |-> 0,
    mayStall |-> {}, timeouts |-> FALSE],
   [sites |-> NoPrologueSites, launches |-> 2, before |-> 1, done |-> 0,
    mayStall |-> {}, timeouts |-> FALSE],
   [sites |-> NoPrologueSites, launches |-> 1, before |-> 2, done |-> 0,
    mayStall |-> {0}, timeouts |-> TRUE],
   [sites |-> FastSites, launches |-> 1, before |-> 11, done |-> 6,
    mayStall |-> {0}, timeouts |-> TRUE]}
=============================================================================
