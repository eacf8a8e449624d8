SPECIFICATION Spec
CONSTANTS
  User = {"ann", "bo"}
  Workspace = {"w1", "w2"}
  SessionId = {s1, s2}
  TokenId = {t1}
  Request = {r1}
  InitialMember <- MCInitialMember
  Asked <- MCAsked
  NoMember = NoMember
  NoSession = NoSession
  NoToken = NoToken
  Idle = Idle
  MaxVersion = 2
  MaxEdits = 1
  MaxFaults = 2
CONSTRAINT FewAtATime
SYMMETRY Interchangeable
CHECK_DEADLOCK FALSE
INVARIANTS
  RotationEndsSessions
  OneResetPerToken
  AnsweredRevocationsHold
