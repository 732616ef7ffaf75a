SPECIFICATION DocSpec
CONSTANTS
  j1 = j1
  v1 = v1
  v2 = v2
  ra = ra
  rb = rb
  q1 = q1
  q2 = q2
  NoResult = NoResult
  Jobs = {j1}
  Versions = {v1, v2}
  Results = {ra, rb}
  ResultJob <- MCResultJob
  Sources <- MCSources
  Questions = {q1, q2}
  QuestionJob <- MCQuestionJob
  MaxRevision = 2
  MaxVersion = 6
  MaxAttempts = 2
INVARIANTS
  DocTypeOK
  RunningAttemptsCurrent
  OpenQuestionIsCurrent
PROPERTIES
  AwardOnJudgedRow
CHECK_DEADLOCK FALSE
