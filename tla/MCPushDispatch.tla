--------------------------- MODULE MCPushDispatch ---------------------------
(* A rank of a launch has either two rows, each pushed by a CTA of its own, *)
(* one to each rank, or no token at all.                                   *)
EXTENDS PushDispatch

Spread == [i \in Rows |-> IF i = 0 THEN <<0, 0>> ELSE <<1, 0>>]
NoTokens == [i \in Rows |-> NoExpert]
MCRoutings == {Spread, NoTokens}
=============================================================================
