CONSTANTS
  Samples = {s1, s2}
  NoSample = NoSample
  Dsp1 = Dsp1
  Dsp2 = Dsp2
  NoDsp = NoDsp
  Setters = {net}
  MaxUpdates = 2
  CountModulus = 8
  SimEnabled = FALSE
  DspMayFail = FALSE
SPECIFICATION FairSpec
PROPERTY UpdateTakesEffect
PROPERTY SampleProcessed
