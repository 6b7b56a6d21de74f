\* One connection of each transport: the client stalls, comes back and leaves at any
\* point while the hub publishes, kills and finalizes and the reader and pinger write.
\* One client's turns: instruction, signs, polls, answer.
SPECIFICATION EitherSpec
CONSTANTS
  Kinds = {"socket", "stream", "ws"}
  FifoMax = 1
  MaxEvents = 2
  MaxSent = 1
  GridMode = TRUE
  MaxTurns = 2
  MaxSends = 2
INVARIANTS NothingFollowsATornMessage HeldWhileInUse EveryoneLetsGo  NobodyIsKeptWaiting
 
CHECK_DEADLOCK FALSE
