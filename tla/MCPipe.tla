------------------------------- MODULE MCPipe -------------------------------
(* Pipe for TLC: a process with one thread creates the pipe and forks one    *)
(* that has two.                                                           *)
EXTENDS Pipe, TLC

CONSTANTS parent, child, p1, c1, c2, x, y

MCProc   == p1 :> parent @@ c1 :> child @@ c2 :> child
MCLeader == parent :> p1 @@ child :> c1
MCData   == {<<>>, <<x>>, <<y, x, y>>}
=============================================================================
