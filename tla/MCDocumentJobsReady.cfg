SPECIFICATION DocSpec
CONSTANTS
  j1 = j1
  v1 = v1
  v2 = v2
  ra = ra
  rb = rb
  q1 = q1
  q2 = q2
  NoResult = NoResult
  Jobs = {j1}
  Versions = {v1, v2}
  Results = {ra}
  ResultJob <- MCResultJob
  Sources <- MCSources
  Questions = {}
  QuestionJob <- MCQuestionJob
  MaxRevision = 1
  MaxVersion = 5
  MaxAttempts = 0
INVARIANT ReadyIsCurrent
CHECK_DEADLOCK FALSE
