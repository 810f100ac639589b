SPECIFICATION FairSpec
CONSTANTS
  Size = 4
  IdxMod = 8
  MaxSlots = 2
  MaxChain = 3
  MaxStrange = 1
  Commands = {a}
  None = None
INVARIANTS RingIntact EveryChainOnce AnswersMatch NoLostKick
PROPERTIES BatchEnds
CHECK_DEADLOCK FALSE
