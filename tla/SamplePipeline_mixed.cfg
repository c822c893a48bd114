CONSTANTS
  Groups = {g1, g2, g3, g4, g5}
  Bufs = {b1}
  SimBuf = SimBuf
  NoGroup = NoGroup
  NoBuf = NoBuf
  Dsps = {dsp1, dsp2}
  SendModes = {0, 2}
  JudgeModes = {0, 4}
  Enabled = {"sim", "overclock", "reset", "switch", "ui"}
SPECIFICATION Spec
SYMMETRY Symmetry
INVARIANT TypeOK
INVARIANT NoUseAfterRelease
INVARIANT PoolNeverEmpty
