\* Two projects (p1 with two chats, p2 with one), two requests, one fault.
CONSTANTS
  p1 = p1  p2 = p2
  t1 = t1  t2 = t2  t3 = t3
  r1 = r1  r2 = r2
  Thread = {t1, t2, t3}
  Scope = {p1, p2}
  ScopeOf <- MCScopeOf
  Card = {}
  Request = {r1, r2}
  MaxTurns = 2
  MaxFaults = 1
SPECIFICATION FairSpec
INVARIANTS TypeOK SlotHasOneHolder RunOwnsItsTurn BusyThreadIsBlocked
PROPERTIES RefinesSerialChat SlotComesFree
