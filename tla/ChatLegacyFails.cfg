SPECIFICATION Spec
CONSTANTS
  Requests = {r1, r2}
  Users = {u1, u2}
  NoUser = NoUser
  Conversations = {v1}
  Keys = {k1, k2}
  Modes = {FALSE}
  HistoryLimit = 2
  SummaryTrigger = 2
  SummaryWindow = 10
  MaxFaults = 1
PROPERTY ChatAnswers
CHECK_DEADLOCK FALSE
