CONSTANTS
  NoUser = NoUser
  NoSender = NoSender
  NoRequest = NoRequest
  Senders = {s1, s2}
  ChatIds = {1, 2}
  ReceiptIds = {1, 2}
  Users = {u1}
  Requests = {q1, q2}
  Desks = {d1, d2}
  MaxReplies = 1
  Faults = {"provider", "purge"}
SPECIFICATION Spec
INVARIANTS
  SentToOwner
