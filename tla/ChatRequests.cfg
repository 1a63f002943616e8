SPECIFICATION Spec
CONSTANTS
  Requests = {r1, r2, r3}
  Users = {u1, u2}
  NoUser = NoUser
  Conversations = {v1}
  Keys = {k1, k2}
  Modes = {TRUE, FALSE}
  HistoryLimit = 2
  SummaryTrigger = 2
  SummaryWindow = 10
  MaxFaults = 1
SYMMETRY Symmetry
INVARIANT OnlyOwnerWrites
INVARIANT CounterIsUncovered
 
INVARIANT AnsweredIsBilled
INVARIANT BilledOncePerKey
CHECK_DEADLOCK FALSE
