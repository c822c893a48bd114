CONSTANTS
  Groups = {g1, g2, g3, g4}
  Bufs = {b1, b2}
  SimBuf = SimBuf
  NoGroup = NoGroup
  NoBuf = NoBuf
  Dsps = {dsp1, dsp2}
  SendModes = {0, 2}
  JudgeModes = {0}
  Enabled = {"switchBusy"}
SPECIFICATION Spec
INVARIANT NoUseAfterRelease
