----------------------------- MODULE KernelSteps -----------------------------
(***************************************************************************)
(* The vocabulary of the kernels' programs: what one step of an actor of   *)
(* KernelMachine may do.                                                   *)
(***************************************************************************)
EXTENDS Integers, Sequences, SequencesExt, TLC

\* The parts of a step, all optional.
Nop == [wait   |-> {},   \* <<m-barrier, parity>>: try_wait.parity passes
        drain  |-> {},   \* <<queue, n>>: at most n groups still in flight
        until  |-> {},   \* <<counter, value>>: spin until it has the value
        least  |-> {},   \* <<counter, value>>: spin until it has reached it
        read   |-> {},   \* <<cell, tag>>: reads the cell, takes it to hold tag
        write  |-> {},   \* <<cell, tag>>
        load   |-> {},   \* <<cell, tag, m-barrier, sources>>: TMA copy into the
                         \* cell, from sources of <<cell, tag>> if they are modelled
        arrive |-> {},   \* <<m-barrier, n>>: arrive, expecting n more copies
        issue  |-> <<>>, \* groups: [queue, read, write, arrive]
        poll   |-> <<>>, \* <<c, d, skip>>: spin until counter c or d is
                         \* positive; unless c is, skip the next steps
        add    |-> {},   \* <<counter, n>>: atomic add
        ticket |-> <<>>] \* <<counter, n, skip>>: atomic add of 1; unless it
                         \* was the n-th, skip the next steps

\* A group that reads and writes the given <<cell, tag>>, then arrives.
Group(queue, reads, writes, arrivals) ==
  [queue |-> queue, read |-> reads, write |-> writes, arrive |-> arrivals]

\* The first element of the cells of global memory, where a CTA would be.
Gmem == -1

\* What a copy in flight still reads.
SourcesOf(copy) == IF Len(copy) = 4 THEN copy[4] ELSE {}

\* Every cell a step mentions.
CellsOf(s) ==
  { x[1] : x \in s.read \cup s.write \cup s.load \cup UNION { SourcesOf(y) : y \in s.load } }
  \cup UNION { { x[1] : x \in s.issue[j].read \cup s.issue[j].write } : j \in DOMAIN s.issue }

\* A kernel for KernelMachine.  The functions are as given; combined with the
\* empty one, TLC computes them once.
Kernel(bars, prog, counters, results) ==
  LET steps == [a \in DOMAIN prog |-> prog[a] \o <<>>] @@ <<>>
  IN  [bars |-> bars @@ <<>>,
       prog |-> steps,
       counters |-> counters @@ <<>>,
       results |-> results @@ <<>>,
       cells |-> UNION { UNION { CellsOf(steps[a][i]) : i \in DOMAIN steps[a] }
                           : a \in DOMAIN steps }
                 \cup (DOMAIN results \ DOMAIN counters)]
=============================================================================
