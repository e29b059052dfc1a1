SPECIFICATION FairSpec
CONSTANTS
  Routine = {"ACCEPT", "REVISE", "ESCALATE"}
  Escalated = {"REPLAN", "BLOCK"}
  Focused = {"CONTINUE", "BLOCK"}
  Modes = {"background"}
  MaxRevisions = 1
  MaxNoProgress = 1
  ReviewAfter = 2
  MaxRecoveries = 1
  Overlap = FALSE
  MaxWakes = 3
  MaxTroubles = 2
INVARIANTS TypeOK RunnableIsClaimable SettledAgrees AcceptedUnlessEdited
PROPERTIES TurnsLedgered ResultKept WakeEnds
CHECK_DEADLOCK FALSE
