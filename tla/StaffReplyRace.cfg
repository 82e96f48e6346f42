CONSTANTS
  NoUser = NoUser
  NoSender = NoSender
  NoRequest = NoRequest
  Senders = {s1}
  ChatIds = {1}
  ReceiptIds = {1, 2}
  Users = {u1, u2}
  Requests = {q1, q2}
  Desks = {d1, d2, d3}
  MaxReplies = 1
  Faults = {"provider"}
SPECIFICATION FairSpec
INVARIANTS
  BlockMatchesReceipts
  OneSendPerRequest
PROPERTIES
  SendsSettle
