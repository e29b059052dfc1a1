SPECIFICATION FairSpec
CONSTANTS
  Routine = {"ACCEPT"}
  Escalated = {"BLOCK"}
  Focused = {"CONTINUE"}
  Modes = {"background"}
  MaxRevisions = 1
  MaxNoProgress = 1
  ReviewAfter = 2
  MaxRecoveries = 1
  Overlap = FALSE
  MaxWakes = 2
  MaxTroubles = 1
INVARIANT AcceptedAsSeen
CHECK_DEADLOCK FALSE
