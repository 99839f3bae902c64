------------------------ MODULE MCSubscriptionCursor ------------------------
(* One subscription of a channel with few messages. *)
EXTENDS SubscriptionCursor

ASSUME CursorAssumption

MCMedia == 1..MaxId
MCAds == {2}
=============================================================================
