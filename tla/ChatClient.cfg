\* Two accounts on one connection, and a fault.
SPECIFICATION FairSpec
CONSTANTS
  Users = {"u", "v"}
  MaxFaults = 2
CONSTRAINT InStep
INVARIANTS OneAnswerPerWait RequestsSpeakForSession
PROPERTY EveryWaitEnds
