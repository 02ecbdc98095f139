\* Two batches of two runs and two deletions of their project.
SPECIFICATION FairSpec
CONSTANTS
  Submissions <- TwoSubmissions
  Deletions <- TwoDeletions
  Batch = 2
  Project = Project
  NoOne = NoOne
INVARIANTS
  DeletionIsComplete
  AnsweredIsEnqueued
PROPERTIES
  EveryRequestEnds
CHECK_DEADLOCK FALSE
