CONSTANTS
  m1 = m1
  m2 = m2
  x1 = x1
  NoMessage = NoMessage
  D1 = 6
  D2 = 7
  Message = {m1, m2}
  Requested <- MCRequested
  Deadline <- MCDeadline
  Xpc = {x1}
  MaxPending = 1
  Margin = 3
  MinInteractive = 1
  PromptCap = 3
  Slack = 1
  MainSlack = 3
  MaxNow = 8
SPECIFICATION LiveSpec
CHECK_DEADLOCK FALSE
INVARIANTS
  ClientOutlivesResponses
  AnsweredInTime
PROPERTIES
  ContractSpec
  PromptInsideDeadline
  EveryMessageAnswered
