CONSTANTS
  Samples = {s1, s2, s3}
  NoSample = NoSample
  Dsp1 = Dsp1
  Dsp2 = Dsp2
  NoDsp = NoDsp
  Setters = {net}
  MaxUpdates = 1
  CountModulus = 4
  SimEnabled = TRUE
  DspMayFail = TRUE
SPECIFICATION Spec
SYMMETRY SampleSymmetry
INVARIANT TypeOK
INVARIANT OneHolder
INVARIANT SampleOnce
\* A process killed by a use of freed memory stops.
CHECK_DEADLOCK FALSE
