---------------------------- MODULE MCButlerTurns ----------------------------
(* Butler has one scope, the empty string (butlerScope, butlerRunKey).      *)
EXTENDS ButlerTurns

MCScope == {Blank}
MCScopeOf == [t \in Thread |-> Blank]
=============================================================================
