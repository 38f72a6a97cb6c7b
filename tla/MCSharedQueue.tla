---------------------------- MODULE MCSharedQueue ----------------------------
(* A queue of capacity 2 shared by callers that push two kinds of value, four *)
(* pushes in all: the queue fills, empties, is closed full and is reopened.   *)
EXTENDS SharedQueue
=============================================================================
