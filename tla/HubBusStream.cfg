\* One subscriber that may fail, stall or leave, no panes: the message stream, and
\* what returns and ends whatever the peer does.
SPECIFICATION HubSpec
CONSTANTS
  NoPane = NoPane
  NoCell = NoCell
  Subs = {s1}
  Publishers = {a1}
  Panes = {}
  Rows = {r1}
  Cells = {0}
  Reliable = {}
  Silent = {}
  Leaving = {s1}
  Closable = {}
  Ends = TRUE
  FifoMax = 2
  BytesMax = 3
  NFinals = 2
  MaxEvents = 1
  MaxRequests = 2
INVARIANTS SubscribersHearAll
PROPERTIES ImplementsMessageStream StreamMoves
CHECK_DEADLOCK FALSE
