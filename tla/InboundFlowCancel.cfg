CONSTANTS
  m1 = m1
  m2 = m2
  m3 = m3
  s1 = s1
  NoMsg = NoMsg
  NoUser = NoUser
  Users = {u1}
  Msgs = {m1, m2}
  Senders = {s1}
  SenderOf <- OneSender
  Workers = {w1, w2}
  Hooks = {h1}
  MaxJobs = 2
  Faults = {"db", "cancel"}
SPECIFICATION Spec
SYMMETRY MsgSymmetry
INVARIANTS
  FlowInv
  HumanExcludesAi
PROPERTIES
  NeverRequeued
