SPECIFICATION FairSpec
CONSTANTS
  Routine = {"ESCALATE"}
  Escalated = {"REPLAN"}
  Focused = {"CONTINUE"}
  Modes = {"foreground"}
  MaxRevisions = 1
  MaxNoProgress = 1
  ReviewAfter = 2
  MaxRecoveries = 1
  Overlap = FALSE
  MaxWakes = 1
  MaxTroubles = 0
PROPERTY ReplanImplemented
CHECK_DEADLOCK FALSE
