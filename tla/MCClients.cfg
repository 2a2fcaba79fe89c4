CONSTANTS
  r1 = r1
  r2 = r2
  r3 = r3
  l1 = l1
  l2 = l2
  None = None
  Request = {r1, r2, r3}
  Session <- MCSession
  Load = {l1, l2}
  MaxActivations = 3
  ChannelSize = 2
  BatchSize = 2
  Retained = 3
  Limit = 2
  MaxFailures = 1
  MaxConcurrent = 1
  Scenario <- MCScenario
CHECK_DEADLOCK FALSE
SPECIFICATION DesktopSpec
INVARIANTS
  NoStrandedChild
  FeedsAreComplete
  SlotsAreCounted
  AnswersMeetTheirRequest
PROPERTIES
  EveryPromptShown
  LoadLeasesEnd
  AuthorizingEnds
