---------------------------- MODULE MCDspFactory ----------------------------
(* DspFactory on four groups, two setters and a few parameter updates.     *)
EXTENDS DspService, TLC

\* Groups are interchangeable: no definition of DspFactory names one.  Used by
\* the runs without temporal properties.
SampleSymmetry == Permutations(Samples)
=============================================================================
