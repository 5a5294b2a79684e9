SPECIFICATION Spec
CONSTANTS
  Users = {u1, u2}
  Desktop = {u1}
  TwoTabs = {t1, t2}
  OneTab = t3
  Tabs <- TabsOfUsers
  Topics = {}
  Senders = {p1}
  Statuses = {"online", "offline"}
  None = None
SYMMETRY Symmetry
INVARIANT TypeOK
INVARIANT NoGhosts
INVARIANT NobodyIsPassedOver
PROPERTY PresenceIsHonest
PROPERTY SilencedByOwnTab
CHECK_DEADLOCK FALSE
