SPECIFICATION FairSpec
CONSTANTS
  MaxMessage = 3
  Anonymous <- NoMessage
  Garbled <- LastMessage
  H = 2
  MaxPings = 1
  MaxFaults = 1
CHECK_DEADLOCK FALSE
INVARIANTS TypeOK NoLoss OnceWithinHistory HistoryAgrees
PROPERTY EventuallyStored
