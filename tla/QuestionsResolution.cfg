SPECIFICATION QuestionsSpec
CONSTANTS
  Customers = {c1}
  Reviewers = {s1, s2}
  Questions = {"q1", "q2"}
  Contained <- MCContained
  Texts = {"a", "b"}
  SourceFaq <- MCSourceFaq
  FaqIds = {1, 2}
  GapIds = {1, 2}
  MaxShown = 2
  NoRow = NoRow
CHECK_DEADLOCK FALSE
PROPERTIES
  ResolvesWithActiveFaq
