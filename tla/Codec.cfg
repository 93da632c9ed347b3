\* Three frames cut anywhere, and the tail of a frame that was lost.  When all
\* has been sent and decoded nothing is left to do.
SPECIFICATION Spec
CONSTANTS
  Bodies <- SomeBodies
  Tails <- SomeTails
  MaxFrames = 3
INVARIANT FramesInOrder
CHECK_DEADLOCK FALSE
