------------------------- MODULE MCDownloadTaskQueue -------------------------
(* A group with two files and a group with one, of which the first is in a *)
(* pausable scope; room for one group record.      *)
EXTENDS DownloadTaskQueue

CONSTANTS a1, a2, b1, ga, gb, chat

MCGroupOf == [t \in Tasks |-> IF t = b1 THEN gb ELSE ga]
MCScopeGroups == [s \in Scopes |-> {ga}]
==============================================================================
