---------------------------- MODULE MCChannelJobs ----------------------------
(* One job with two items. *)
EXTENDS ChannelJobs

CONSTANTS ja, i1, i2

MCJobOf == [i \in Items |-> ja]
==============================================================================
