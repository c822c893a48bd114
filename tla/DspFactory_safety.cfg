CONSTANTS
  Samples = {s1, s2, s3, s4}
  NoSample = NoSample
  Dsp1 = Dsp1
  Dsp2 = Dsp2
  NoDsp = NoDsp
  Setters = {net, ui}
  MaxUpdates = 2
  CountModulus = 8
  SimEnabled = FALSE
  DspMayFail = FALSE
SPECIFICATION Spec
SYMMETRY SampleSymmetry
INVARIANT OneHolder
INVARIANT SampleOnce
INVARIANT ParamsCurrent
INVARIANT PendingExact
PROPERTY JobStable
PROPERTY ProvidesService
