SPECIFICATION Spec
CONSTANTS
  Reviewers = {v1, v2}
  Resumers = {w1, w2}
  Timeout = 2
  AnswerTTL = 2
  Fallback = "approved"
  MaxRedeliveries = 0
INVARIANT RejectionHolds
