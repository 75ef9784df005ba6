CONSTANTS
  User = {u1, u2}
  Collector = {c1, c2}
  Worker = {w1, w2}
  MaxCodes = 2
  Account = {a1}
  Caller = {w1, w2}
  MaxPairs = 3
  MaxDrawn = 1
  None = None
  Null = Null

SPECIFICATION AccountsSpec
SYMMETRY Symmetry

INVARIANTS
  InviteHeldOnce
  InviteStaysUsable
  OneCollectorPerUser
  OneSuccessor
  LogoutEndsSession
  HandoffOpensOneSession

PROPERTIES
  LinkIsFinal

\* Pairs of tokens and codes are bounded: every worker may be idle for good.
CHECK_DEADLOCK FALSE
