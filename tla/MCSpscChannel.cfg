SPECIFICATION ChannelFairSpec
CONSTANTS
  max_frames = 3
  SeqMod = 9
  Words = 2
  EMPTY = EMPTY
  MaxSent = 12
PROPERTIES
  IsFifo
  WaitingFrameIsRead
