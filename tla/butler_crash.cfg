\* A crash, or a failed write of the outcome, leaves a bare placeholder.
CONSTANTS
  t1 = t1  t2 = t2
  c1 = c1
  r1 = r1  r2 = r2
  Thread = {t1, t2}
  Scope <- MCScope
  ScopeOf <- MCScopeOf
  Card = {c1}
  Request = {r1, r2}
  MaxTurns = 2
  MaxFaults = 1
SPECIFICATION Spec
INVARIANT UnansweredIsRetryable
