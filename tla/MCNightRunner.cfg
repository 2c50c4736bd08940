CONSTANTS
  Queue <- MCQueue
  Executed <- MCExecuted
SPECIFICATION Spec
INVARIANTS PlanKeepsItsLimits TerminatedGroupIsKilled OutcomeIsTheFirstCause
PROPERTY EveryCallAnswers
CHECK_DEADLOCK FALSE
