SPECIFICATION FairSpec
CONSTANTS
  Applies = {a1, a2, a3}
  Initial = Initial
  CountMod = 8
INVARIANTS
  AnsweredInOrder
  LaterRequestWins
  CountersMeet
PROPERTY EveryQueuedIsAnswered
