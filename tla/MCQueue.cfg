\* Bindings and consumers through everything that may happen to an open queue.
CONSTANTS
  Key = {k1}
  Sub = {s1, s2}
  None = None
  Options <- EachOption
  Faults <- WhileOpen
  MaxCalls = 3
  MaxLosses = 2
SPECIFICATION FairSpec
INVARIANTS TypeOK ListenersAgree OneConsumerEach 
PROPERTY BindIsAnswered
CHECK_DEADLOCK FALSE
