SPECIFICATION PartsSpec
CONSTANTS
  Calls = {l1, l2}
  Usernames = {"ana", "eva"}
  Registered = {"ana"}
  Cookies = {k1}
  UsernameLimit = 1
  PeerLimit = 2
  HashSlots = 1
  Nobody = Nobody
  Changers = {r1, r2}
  Staff = {u1, u2, u3}
  NoRole = NoRole
  Chats = {h1, h2}
  Futures = {x1, x2}
  Slots = 2
  MaxRounds = 2
  MaxCalls = 2
  Peers = {p1, p2, p3}
  Capacity = 2
  MaxKeys = 2
  MaxBytes = 2
  LastTick = 2
  NoEntry = NoEntry
  Customers = {c1}
  Reviewers = {s1, s2}
  Questions = {"q1", "q2"}
  Contained <- MCContained
  Texts = {"b"}
  SourceFaq <- MCSourceFaq
  FaqIds = {1, 2}
  GapIds = {1}
  MaxShown = 2
  NoRow = NoRow
  Tables = {1, 2}
  AuditIds = {1, 2, 3}
  Threads = {1, 2, 3}
  PageSize = 1
  MaxOffset = 3
  LastTime = 2
  NoThread = NoThread
  PriceKeys = {k1, k2}
  Fields = {"unit", "price_mxn"}
  FileIssues = {"invalid_size", "branch_mismatch"}
  MaxRows = 3
  Blank = Blank
  NoIssue = NoIssue
  Batches = {b1, b2}
  MessageIds = {m1, m2, m3}
  MaxEntries = 2
  NoMessage = NoMessage
  Processes = {p1, p2}
  Paths = {f1, f2}
  NoFile = NoFile
  Numbers = {n1, n2}
  Words = {w1, w2}
  Workfiles = {f1, f2}
  Empty = Empty
CHECK_DEADLOCK FALSE
INVARIANTS
  PartsTypeOK GuessesBounded OwnerRemains SlotsAccounted CallsAnswered RateBounded WalkTellsAll WholeOrNothing NoSecondAttempt ReportedIsWhole
PROPERTIES
  RoleChangesAreTold MessageEnds EvictsOldest AnswersAreApproved SubmitsWhatWasReviewed
