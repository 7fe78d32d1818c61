\* Two queries, for start's and for the one that a message begins before it.
SPECIFICATION InterviewSpec
CONSTANTS
  Query = {q1, q2}
  NoQuery = NoQuery
  Round = {r1}
  MaxAnswers = 1
INVARIANTS OneQueryPerSession
