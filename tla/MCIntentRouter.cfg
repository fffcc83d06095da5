SPECIFICATION Spec
CONSTANTS
  a = a
  b = b
  Agents = {a, b}
  Segments = {"sys", "x", "up"}
  Subscriptions <- AllSubscriptions
  Messages <- AllMessages
  None = None
  max_dead_letters = 2
  MaxPublished = 3
INVARIANTS
  TypeOK ReachesAudience
PROPERTIES
  NothingVanishes AnswersMatch
