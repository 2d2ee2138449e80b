SPECIFICATION FairSpec
CONSTANTS
  Reviewers = {v1, v2}
  Resumers = {w1, w2}
  Timeout = 2
  AnswerTTL = 2
  Fallback = "approved"
  MaxRedeliveries = 1
INVARIANTS ReviewWindow AcceptedBounded
PROPERTIES OutcomeIsFreshAnswer ReviewEnds OutcomeStands
