\* Two threads and two requests: every pair of handlers interleaves, on the same
\* thread and on different ones.  One fault: a crash, or one failed write.
CONSTANTS
  t1 = t1  t2 = t2
  c1 = c1
  r1 = r1  r2 = r2
  Thread = {t1, t2}
  Scope <- MCScope
  ScopeOf <- MCScopeOf
  Card = {c1}
  Request = {r1, r2}
  MaxTurns = 2
  MaxFaults = 1
SPECIFICATION FairSpec
INVARIANTS TypeOK SlotHasOneHolder RunOwnsItsTurn PendingCardOnLastTurn ExecutedAtMostOnce
PROPERTIES RefinesSerialChat SlotComesFree
