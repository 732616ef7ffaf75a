SPECIFICATION ContinuitySpec
CONSTANTS
  a = a
  b = b
  c = c
  Tasks = {a, b, c}
  Plans <- MCPlans
  Sessions = {s1, s2}
  Transitions <- MCTransitions
  NoTask = NoTask
  NoSession = NoSession
INVARIANTS
  PlanningIsAdditive
