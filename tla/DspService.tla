----------------------------- MODULE DspService -----------------------------
(***************************************************************************)
(* DspFactory keeps the promise of SampleService.  A sample waits from the *)
(* moment image_capture_tsk has posted it until image_process_tsk, with a  *)
(* DSP in hand, takes it off g_img_not_process; from then on it is with    *)
(* that DSP, until VIDDEC2_process has returned.                           *)
(***************************************************************************)
EXTENDS DspFactory

WaitingSamples ==
  (IF proc_pc \in {"produce", "assign", "uncount"} THEN <<proc_sample>> ELSE <<>>)
    \o mbx_dsp

\* The DSPs that have a sample, or are about to be told that they have.
Engaged == {d \in Dsps : \/ proc_pc = "post" /\ proc_dsp = d
                         \/ sem_img_ready[d] > 0
                         \/ dsp_pc[d] = "process"}

SamplesAtWork ==
  [s \in {sample_image_group[d] : d \in Engaged} |->
     dsp_params[CHOOSE d \in Engaged : sample_image_group[d] = s]]

Service ==
  INSTANCE SampleService WITH
    Limit <- 3, Engines <- 2, queue <- WaitingSamples, work <- SamplesAtWork

\* The pool implements the service: samples reach the DSPs in the order of their
\* capture, never more than three wait and two are at work, none is dropped or
\* doubled, and no parameter update reaches a DSP that is judging
\* (video_context.c:409-423, 629-652, dsp_context.c:42-118, dsp.c:538-615).
ProvidesService == Service!ServiceSpec
=============================================================================
