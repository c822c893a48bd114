CONSTANTS
  Samples = {s1, s2}
  NoSample = NoSample
  Dsp1 = Dsp1
  Dsp2 = Dsp2
  NoDsp = NoDsp
  Setters = {net}
  MaxUpdates = 1
  CountModulus = 8
  SimEnabled = TRUE
  DspMayFail = FALSE
SPECIFICATION Spec
INVARIANT RefusalJustified
