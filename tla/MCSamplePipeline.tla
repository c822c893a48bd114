-------------------------- MODULE MCSamplePipeline --------------------------
(* SamplePipeline on one or two camera buffers.                            *)
EXTENDS SamplePipeline

\* Groups are interchangeable, and so are the DSPs and the buffers: no
\* definition of SamplePipeline names one.  (Init takes the groups in some fixed
\* order, as the array of create_sample_factory is.)  Used by the runs without
\* temporal properties.
Symmetry ==
  Permutations(Groups) \cup Permutations(Bufs) \cup Permutations(Dsps)
=============================================================================
