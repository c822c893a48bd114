CONSTANTS
  Groups = {g1, g2, g3}
  Bufs = {b1, b2}
  SimBuf = SimBuf
  NoGroup = NoGroup
  NoBuf = NoBuf
  Dsps = {dsp1, dsp2}
  SendModes = {0, 1}
  JudgeModes = {0, 1}
  Enabled = {"ui"}
SPECIFICATION FairSpec
INVARIANT RefCountExact
INVARIANT BufferAccounted
PROPERTY FrameReturned
