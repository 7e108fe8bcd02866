---------------------------- MODULE MCCodemapTurns ----------------------------
(* Two projects: p1 has two chats to mint, p2 one.                           *)
EXTENDS CodemapTurns

CONSTANTS p1, p2, t1, t2, t3

MCScopeOf == [t \in Thread |-> IF t = t3 THEN p2 ELSE p1]
=============================================================================
