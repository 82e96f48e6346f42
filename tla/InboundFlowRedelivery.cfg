CONSTANTS
  m1 = m1
  m2 = m2
  m3 = m3
  s1 = s1
  NoMsg = NoMsg
  NoUser = NoUser
  Users = {u1}
  Msgs = {m1, m2, m3}
  Senders = {s1}
  SenderOf <- OneSender
  Workers = {w1}
  Hooks = {h1, h2}
  MaxJobs = 1
  Faults = {"db"}
SPECIFICATION Spec
SYMMETRY MsgSymmetry
INVARIANTS
  AckedIsKept
  InboxBound
PROPERTIES
  HelpSilencesAi
