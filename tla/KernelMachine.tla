---------------------------- MODULE KernelMachine ----------------------------
(***************************************************************************)
(* What the warp-specialised kernels run on.  A kernel is a set of actors  *)
(* (a loader thread, a warpgroup, an MMA issuing thread, ...), each with   *)
(* the sequence of steps its control flow takes on one problem.  Between   *)
(* them are buffers in shared, tensor or global memory (cells), m-barriers *)
(* waited on by the parity of a phase, counters in global memory, and      *)
(* three asynchronous engines: TMA copies that land at some later moment   *)
(* and are announced to an m-barrier in bytes, and in-order groups of      *)
(* tensor core instructions or of TMA stores that read their operands      *)
(* until they retire.  A cell holds the tag of what was written into it.   *)
(*                                                                         *)
(* A step waits, then reads, writes, starts copies, arrives and issues a   *)
(* group.  It may be delayed between the wait and the rest: what it is     *)
(* about to read must stay in place for as long as it is ready.            *)
(* Which steps a kernel takes is the subject of the modules named after    *)
(* the kernels.                                                            *)
(***************************************************************************)
EXTENDS Integers, Sequences, FiniteSets, KernelSteps

CONSTANT Kernels \* name -> [bars |-> m-barrier -> arrivals it is initialised for,
                 \*          prog |-> actor -> sequence of steps,
                 \*          counters |-> counter -> initial value,
                 \*          results |-> cell or counter -> what it must hold at the end,
                 \*          cells |-> the cells it mentions]
                 \* Cells, m-barriers and actors are tuples that start with
                 \* their CTA, for global memory Gmem, then a name;
                 \* tags are tuples that start with a name.

Writing == <<"writing">> \* content of a cell somebody is writing
Unset == <<"unset">> \* content of a cell nobody has written
Queues == {"mma", "store"}

VARIABLES
  kernel, \* the kernel this behaviour is about
  at,     \* at[actor]: its next step
  bar,    \* bar[b]: [phase, pending, bytes]: arrivals and copies to come
  cell,   \* cell[c]: the tag it holds
  flying, \* <<cell, tag, m-barrier, sources>>: copies in flight
  groups, \* groups[actor][queue]: groups in flight, oldest first
  count   \* count[c]: the value of a counter in global memory

vars == <<kernel, at, bar, cell, flying, groups, count>>

\* The kernels, computed once.
Table == Kernels

Actors(k) == DOMAIN Table[k].prog

Init ==
  /\ kernel \in DOMAIN Table
  /\ at = [a \in Actors(kernel) |-> 1]
  /\ bar = [b \in DOMAIN Table[kernel].bars |->
              [phase |-> 0, pending |-> Table[kernel].bars[b], bytes |-> 0]]
  /\ cell = [c \in Table[kernel].cells |-> Unset]
  /\ flying = {}
  /\ groups = [a \in Actors(kernel) |-> [q \in Queues |-> <<>>]]
  /\ count = Table[kernel].counters

-----------------------------------------------------------------------------
\* mbarrier.try_wait.parity: the phase of this parity is complete.
Passed(b, parity) == bar[b].phase # parity

\* A phase ends with the last arrival and the last byte.
Completed(b, st) ==
  IF st.pending = 0 /\ st.bytes = 0
    THEN [phase |-> 1 - st.phase, pending |-> Table[kernel].bars[b], bytes |-> 0]
    ELSE st

\* The m-barriers after the arrivals in `arrivals`, of <<m-barrier, n>>.
Arrived(arrivals) ==
  [b \in DOMAIN bar |->
     IF \E x \in arrivals : x[1] = b
       THEN LET x == CHOOSE y \in arrivals : y[1] = b
            IN  Completed(b, [bar[b] EXCEPT !.pending = @ - 1, !.bytes = @ + x[2]])
       ELSE bar[b]]

HasNext(a) == at[a] <= Len(Table[kernel].prog[a])
NextStep(a) == Table[kernel].prog[a][at[a]]

Ready(a) ==
  /\ HasNext(a)
  /\ \A x \in NextStep(a).wait : Passed(x[1], x[2])
  /\ \A x \in NextStep(a).drain : Len(groups[a][x[1]]) <= x[2]
  /\ \A x \in NextStep(a).until : count[x[1]] = x[2]
  /\ \A x \in NextStep(a).least : count[x[1]] >= x[2]
  /\ LET x == NextStep(a).poll IN x # <<>> => (count[x[1]] > 0 \/ count[x[2]] > 0)

\* The cells the asynchronous engines write from now on.
Claimed(s) == { x[1] : x \in s.load }
              \cup UNION { { x[1] : x \in s.issue[j].write } : j \in DOMAIN s.issue }

Step(a) ==
  LET s == NextStep(a)
      skipped == IF s.ticket # <<>> /\ count[s.ticket[1]] # s.ticket[2] - 1 THEN s.ticket[3]
                 ELSE IF s.poll # <<>> /\ count[s.poll[1]] = 0 THEN s.poll[3] ELSE 0
      claimed == Claimed(s)
      plain == { x[1] : x \in s.write }
      added == { x[1] : x \in s.add } \cup (IF s.ticket = <<>> THEN {} ELSE {s.ticket[1]})
  IN  /\ Ready(a)
      /\ at' = [at EXCEPT ![a] = @ + 1 + skipped]
      /\ cell' = IF claimed \cup plain = {} THEN cell
                 ELSE [c \in DOMAIN cell |->
                         IF c \in claimed THEN Writing
                         ELSE IF c \in plain THEN (CHOOSE x \in s.write : x[1] = c)[2]
                         ELSE cell[c]]
      /\ flying' = flying \cup s.load
      /\ bar' = IF s.arrive = {} THEN bar ELSE Arrived(s.arrive)
      /\ groups' = IF s.issue = <<>> THEN groups
                   ELSE [groups EXCEPT ![a] =
                           [q \in Queues |->
                              @[q] \o SelectSeq(s.issue, LAMBDA g : g.queue = q)]]
      /\ count' = IF added = {} THEN count
                  ELSE [c \in DOMAIN count |->
                          IF c \notin added THEN count[c]
                          ELSE IF s.ticket # <<>> /\ s.ticket[1] = c THEN count[c] + 1
                          ELSE count[c] + (CHOOSE x \in s.add : x[1] = c)[2]]
      /\ UNCHANGED kernel

\* The bytes of a copy have landed.
Land ==
  \E x \in flying :
    /\ flying' = flying \ {x}
    /\ cell' = [cell EXCEPT ![x[1]] = x[2]]
    /\ bar' = [bar EXCEPT ![x[3]] = Completed(x[3], [@ EXCEPT !.bytes = @ - 1])]
    /\ UNCHANGED <<kernel, at, groups, count>>

\* The oldest group of a queue is finished: its results are there, unless a
\* later one accumulates into the same cell, and its commit arrives.
Retire(a, q) ==
  /\ groups[a][q] # <<>>
  /\ LET g == Head(groups[a][q])
         later == Tail(groups[a][q])
         again == { c \in { x[1] : x \in g.write } :
                      \E j \in DOMAIN later : \E x \in later[j].write : x[1] = c }
     IN  /\ cell' = [c \in DOMAIN cell |->
                       IF c \notin again /\ \E x \in g.write : x[1] = c
                         THEN (CHOOSE x \in g.write : x[1] = c)[2]
                         ELSE cell[c]]
         /\ bar' = Arrived({ <<b, 0>> : b \in g.arrive })
  /\ groups' = [groups EXCEPT ![a][q] = Tail(@)]
  /\ UNCHANGED <<kernel, at, flying, count>>

Done == /\ \A a \in DOMAIN at : ~HasNext(a)
        /\ flying = {}
        /\ \A a \in DOMAIN at : \A q \in Queues : groups[a][q] = <<>>
Finished == Done /\ UNCHANGED vars

Next == \/ \E a \in DOMAIN at : Step(a) \/ \E q \in Queues : Retire(a, q)
        \/ Land
        \/ Finished

Spec == Init /\ [][Next]_vars

\* A step of Next, which always changes something, can be taken.
CanMove == \/ flying # {}
           \/ \E a \in DOMAIN at : Ready(a) \/ \E q \in Queues : groups[a][q] # <<>>

\* The warps of a resident CTA keep running, copies land and groups retire.
\* No step is ever undone, so the system runs as long as it can move.  This is
\* WF_vars(Next), in a form in which Next is not evaluated again.
FairSpec == Spec /\ ([]<>~CanMove \/ []<><<TRUE>>_vars)
-----------------------------------------------------------------------------
\* The operands of a group in flight, an MMA or a TMA store, stay in place
\* from its issue until it retires, and the source of a copy until it lands.
OperandsHold ==
  /\ \A a \in DOMAIN at : \A q \in Queues : \A j \in 1 .. Len(groups[a][q]) :
       \A x \in groups[a][q][j].read : cell[x[1]] = x[2]
  /\ \A copy \in flying : \A x \in SourcesOf(copy) : cell[x[1]] = x[2]

\* What an actor reads itself (scales, accumulators, staged results) is what
\* its iteration is about, for as long as it may take to read it.
ReadsRight ==
  \A a \in DOMAIN at : Ready(a) => \A x \in NextStep(a).read : cell[x[1]] = x[2]

\* Shared memory of a CTA that has exited is gone: no peer of its cluster
\* arrives at, copies into or commits to it any more.
Exited(cta) == /\ \E a \in DOMAIN at : a[1] = cta
               /\ \A a \in DOMAIN at : a[1] = cta => ~HasNext(a)
PeersAlive ==
  /\ \A a \in DOMAIN at : Ready(a) =>
       \A x \in NextStep(a).arrive : ~Exited(x[1][1])
  /\ \A x \in flying : ~Exited(x[1][1])
  /\ \A a \in DOMAIN at : \A q \in Queues : \A j \in 1 .. Len(groups[a][q]) :
       \A b \in groups[a][q][j].arrive : ~Exited(b[1])

\* At the end every result of the problem has been written, by one tile of the
\* schedule of one CTA.
ResultsRight ==
  Done => \A c \in DOMAIN Table[kernel].results :
            (IF c \in DOMAIN count THEN count[c] ELSE cell[c]) = Table[kernel].results[c]

\* Every actor gets through its work.
KernelsEnd == <>Done
=============================================================================
