---------------------------- MODULE RouterFrontend ----------------------------
(***************************************************************************)
(* The kernels before the MegaMoE: router logits, quantised activations    *)
(* and the top-k of every token in one launch.  CTAs of different roles    *)
(* meet in global memory, in three ways.                                   *)
(*                                                                         *)
(* ticket  router CTAs store partial logits and take a ticket; a CTA per   *)
(*         token waits for all tickets, and the last one resets them.      *)
(* last    router CTAs store one key per token and expert and take a       *)
(*         ticket without a fence; the CTA with the last ticket selects,   *)
(*         waiting for the keys themselves, of which none is zero.         *)
(* poll    a merger CTA waits for the keys, with no ticket at all.         *)
(*                                                                         *)
(* All of it must be zero again for the next launch, which is ordered      *)
(* behind this one: a counter that is stored 0 here loses what all its     *)
(* adders have added by then.  The CTAs are co-resident.  A problem has    *)
(*   routers: router CTAs, of which each has one group of experts          *)
(*   tokens:  m, one for poll                                              *)
(***************************************************************************)
EXTENDS KernelSteps

Routers(p) == 0 .. p.routers - 1
Tokens(p) == 0 .. p.tokens - 1

Ticket == <<Gmem, "ticket", 0>>
TokensDone == <<Gmem, "ticket", 1>>
Stored(r) == <<r, "stored">>            \* the CTA has issued its stores
LastHere == <<Gmem, "s_last">>          \* s_last of the last CTA is known to it
KeySet(t, r) == <<Gmem, "key_set", t, r>> \* the key is visible, hence not zero

Partial(t, r) == <<Gmem, "logits", t, r>>
KeyAt(t, r) == <<Gmem, "key", t, r>>
Quantised(t) == <<Gmem, "x", t>>
TopK(t) == <<Gmem, "topk", t>>

Logits(t, r) == <<"logits", t, r>>
Key(t, r) == <<"key", t, r>>
Zeroed == <<"zero">>
Row(t) == <<"row", t>>
Selected(t) == <<"selected", t>>

Outputs(p) == [x \in { Quantised(t) : t \in Tokens(p) } |-> Row(x[3])]
              @@ [x \in { TopK(t) : t \in Tokens(p) } |-> Selected(x[3])]

-----------------------------------------------------------------------------
\* A router CTA: its logits, a fence, its ticket.
RouterCta(p, r) ==
  <<[write |-> { <<Partial(t, r), Logits(t, r)>> : t \in Tokens(p) }] @@ Nop,
    [add |-> {<<Ticket, 1>>}] @@ Nop>>

\* Fault: one ticket is not waited for.
TokenCta_Early(p, t) ==
  <<[write |-> {<<Quantised(t), Row(t)>>}] @@ Nop,
    [least |-> {<<Ticket, p.routers - 1>>},
     read |-> { <<Partial(t, r), Logits(t, r)>> : r \in Routers(p) },
     write |-> {<<TopK(t), Selected(t)>>}] @@ Nop>>
\* A token's CTA: quantise, wait for all routers, select; the last one to be
\* done resets its own count first, then the tickets.
TokenCta(p, t) ==
  <<[write |-> {<<Quantised(t), Row(t)>>}] @@ Nop,
    [least |-> {<<Ticket, p.routers>>},
     read |-> { <<Partial(t, r), Logits(t, r)>> : r \in Routers(p) },
     write |-> {<<TopK(t), Selected(t)>>}] @@ Nop,
    [ticket |-> <<TokensDone, p.tokens, 2>>] @@ Nop,
    [add |-> {<<TokensDone, -p.tokens>>}] @@ Nop,
    [add |-> {<<Ticket, -p.routers>>}] @@ Nop>>
TicketRouter(p) ==
  Kernel(<<>>,
    [a \in { <<r, "router">> : r \in Routers(p) } \cup { <<p.routers + t, "token", t>> : t \in Tokens(p) } |->
       IF a[2] = "router" THEN RouterCta(p, a[1]) ELSE TokenCta(p, a[3])],
    [c \in {Ticket, TokensDone} |-> 0],
    Outputs(p) @@ [c \in {Ticket, TokensDone} |-> 0])

-----------------------------------------------------------------------------
\* The keys of a CTA become visible one by one, at any time after their stores.
Memory(p, r) ==
  [j \in 1 .. p.tokens |->
     [until |-> {<<Stored(r), 1>>}, write |-> {<<KeyAt(j - 1, r), Key(j - 1, r)>>},
      add |-> {<<KeySet(j - 1, r), 1>>}] @@ Nop]

\* A token's keys are read again while one is zero, and zeroed when selected.
Select(p, t) ==
  <<[least |-> { <<KeySet(t, r), 1>> : r \in Routers(p) },
     read |-> { <<KeyAt(t, r), Key(t, r)>> : r \in Routers(p) },
     write |-> {<<TopK(t), Selected(t)>>}] @@ Nop,
    [write |-> { <<KeyAt(t, r), Zeroed>> : r \in Routers(p) },
     add |-> { <<KeySet(t, r), -1>> : r \in Routers(p) }] @@ Nop>>
\* A router CTA: stores, and thread 0's ticket.  With the last one the CTA's
\* warps select, one token each; thread 0 clears the ticket after the token of
\* its own warp, whatever the others have done.
CompactCta(p, r) ==
  <<[add |-> {<<Stored(r), 1>>}] @@ Nop,
    [ticket |-> <<Ticket, p.routers, 4>>] @@ Nop,
    [add |-> {<<LastHere, 1>>}] @@ Nop>>
  \o Select(p, 0)
  \o <<[add |-> {<<Ticket, -p.routers>>}] @@ Nop>>
\* Another warp of whichever CTA was last.
OtherWarp(p, t) == <<[until |-> {<<LastHere, 1>>}] @@ Nop>> \o Select(p, t)
\* The spare CTA quantises all rows.
SpareCta(p) == <<[write |-> { <<Quantised(t), Row(t)>> : t \in Tokens(p) }] @@ Nop>>

KeyCounters(p) == { KeySet(t, r) : t \in Tokens(p), r \in Routers(p) }
LastArriverRouter(p) ==
  Kernel(<<>>,
    [a \in UNION { {<<r, "router">>, <<r, "memory">>} : r \in Routers(p) } \cup {<<p.routers, "spare">>}
           \cup { <<p.routers, "warp", t>> : t \in Tokens(p) \ {0} } |->
       CASE a[2] = "router" -> CompactCta(p, a[1])
         [] a[2] = "warp" -> OtherWarp(p, a[3])
         [] a[2] = "memory" -> Memory(p, a[1])
         [] a[2] = "spare" -> SpareCta(p)],
    [c \in {Ticket, LastHere} \cup KeyCounters(p) \cup { Stored(r) : r \in Routers(p) } |-> 0],
    Outputs(p) @@ [c \in {Ticket} \cup KeyCounters(p) |-> 0])

\* GEMV CTAs publish keys, one warp more of them quantises; block 0 merges.
PollingRouter(p) ==
  Kernel(<<>>,
    [a \in UNION { {<<r, "gemv">>, <<r, "memory">>} : r \in Routers(p) }
           \cup {<<p.routers, "quantise">>, <<p.routers, "merge">>} |->
       CASE a[2] = "gemv" -> <<[add |-> {<<Stored(a[1]), 1>>}] @@ Nop>>
         [] a[2] = "memory" -> Memory(p, a[1])
         [] a[2] = "quantise" -> SpareCta(p)
         [] a[2] = "merge" -> Select(p, 0)],
    [c \in KeyCounters(p) \cup { Stored(r) : r \in Routers(p) } |-> 0],
    Outputs(p) @@ [c \in KeyCounters(p) |-> 0])
=============================================================================
