\* A retry's check goes stale while another turn of the thread runs.
CONSTANTS
  t1 = t1  t2 = t2
  c1 = c1
  r1 = r1  r2 = r2
  Thread = {t1, t2}
  Scope <- MCScope
  ScopeOf <- MCScopeOf
  Card = {c1}
  Request = {r1, r2}
  MaxTurns = 2
  MaxFaults = 0
SPECIFICATION Spec
PROPERTY AnswersSurvive
