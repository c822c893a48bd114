--------------------------- MODULE SamplePipeline ---------------------------
(***************************************************************************)
(* Where a picture of one camera goes, and who counts it.                  *)
(*                                                                         *)
(* image_capture_tsk takes a struct SampleImageGroup from the pool of      *)
(* sample_factory.c and a filled buffer from the V4L2 driver, sets the     *)
(* buffer's r_count to 3 (UI, DSP, network) and hands the group to the     *)
(* show, send and DSP mailboxes.  Each consumer calls                      *)
(* video_context_release once; the last call gives the buffer back to the  *)
(* driver and the group to its pool.  Simulated pictures (image_sim_tsk)   *)
(* and samples the camera was too slow for (sig_handler in fpga.c) use the *)
(* same groups with buffers of their own, which the driver must never get. *)
(*                                                                         *)
(* The two DSPs appear as Dsps takers of mbx_dsp; module DspFactory has    *)
(* their scheduling.  Reading a mailbox and acting on the message is one   *)
(* action: no other thread can tell the two apart, for no mailbox is ever  *)
(* full.  A thread reads a mode once per decision.                         *)
(***************************************************************************)
EXTENDS Integers, Sequences, FiniteSets, SequencesExt

CONSTANTS
  Groups,        \* the groups of create_sample_factory
  Bufs,          \* the camera's V4L2 buffers
  SimBuf,        \* g_net_recv_img_buf[0]
  NoGroup, NoBuf,
  Dsps,          \* the DSPs that take samples from mbx_dsp
  SendModes,     \* values of ImageSendMode.mode the operator sets
  JudgeModes,    \* values of SampleJudgeMode.mode the operator sets
  Enabled        \* which of Inputs happen

\* sim          a picture to simulate arrives when the last one is done with
\* simOverlap   ... arrives at any time
\* overclock    the FPGA reports a sample the camera missed
\* reset        the FPGA's counter reads 0: the frame was taken during a reset
\* switch       the operator changes a mode while nothing is in flight
\* switchBusy   ... at any time
\* ui           the UI process connects and disconnects
Inputs == {"sim", "simOverlap", "overclock", "reset", "switch", "switchBusy",
           "ui"}

AllBufs == Bufs \cup {SimBuf}
Threads == {"capture", "sim", "overclock"} \cup Dsps

ASSUME SamplePipelineAssumption ==
  /\ IsFiniteSet(Groups) /\ IsFiniteSet(Bufs) /\ IsFiniteSet(Dsps)
  /\ NoGroup \notin Groups /\ NoBuf \notin AllBufs
  /\ SimBuf \notin Bufs
  /\ Dsps \cap {"capture", "sim", "overclock"} = {}
  /\ SendModes \subseteq 0 .. 2 /\ JudgeModes \subseteq Nat
  /\ SendModes # {} /\ JudgeModes # {}
  /\ Enabled \subseteq Inputs

VARIABLES
  idle_groups,               \* g_list of sample_factory.c
  image, image_source,       \* of each group
  r_count, driver,           \* of each buffer; the V4L2 buffers queued
  mbx_show, mbx_send, mbx_dsp, mbx_ui,
  pc, holds,                 \* of each thread: where it is, its local pointer
  send_mode, judge_mode,
  g_ui_socket_state, g_ui_img_ability

poolVars == <<idle_groups, image, image_source, r_count, driver>>
mbxVars  == <<mbx_show, mbx_send, mbx_dsp, mbx_ui>>
modeVars == <<send_mode, judge_mode>>
uiVars   == <<g_ui_socket_state, g_ui_img_ability>>
vars == <<poolVars, mbxVars, pc, holds, modeVars, uiVars>>

\* create_sample_factory does not initialize what it mallocs: image_source is
\* zero or it is not.  Every buffer starts in the driver's queue.
Init ==
  /\ idle_groups = SetToSeq(Groups)
  /\ image = [g \in Groups |-> NoBuf]
  /\ \E v \in {0, 1} : image_source = [g \in Groups |-> v]
  /\ r_count = [b \in AllBufs |-> 0] /\ driver = Bufs
  /\ mbx_show = <<>> /\ mbx_send = <<>> /\ mbx_dsp = <<>> /\ mbx_ui = <<>>
  /\ pc = [t \in Threads |-> "idle"] /\ holds = [t \in Threads |-> NoGroup]
  /\ send_mode \in SendModes /\ judge_mode \in JudgeModes
  /\ g_ui_socket_state = 0 /\ g_ui_img_ability = 1

-----------------------------------------------------------------------------
(* sample_factory.c and video_context_release                              *)

\* A thread that finds the list empty returns with the list's mutex locked, and
\* no group moves any more; invariant PoolNeverEmpty says it never happens.
SampleFactoryProduce(g) ==
  /\ idle_groups # <<>>
  /\ g = Head(idle_groups)
  /\ idle_groups' = Tail(idle_groups)

SampleFactoryRecycle(g) == idle_groups' = Append(idle_groups, g)

\* n calls of video_context_release(g) by one thread.  The buffer's mutex is
\* held from the decrement to the end of the recycling.  The pointer image[g]
\* stays in the code, but is assigned before it is read again; image_source[g]
\* stays and is read.
ReleaseTimes(g, n) ==
  LET b == image[g] IN
  /\ r_count' = [r_count EXCEPT ![b] = @ - n]
  /\ \/ /\ r_count[b] # n
        /\ UNCHANGED <<driver, idle_groups, image>>
     \/ /\ r_count[b] = n
        /\ driver' = IF image_source[g] = 0 THEN driver \cup {b} ELSE driver
        /\ SampleFactoryRecycle(g)
        /\ image' = [image EXCEPT ![g] = NoBuf]
  /\ UNCHANGED image_source

Release(g) == ReleaseTimes(g, 1)

Goto(t, label, g) ==
  /\ pc' = [pc EXCEPT ![t] = label]
  /\ holds' = [holds EXCEPT ![t] = g]

-----------------------------------------------------------------------------
(* image_capture_tsk                                                       *)

CaptureProduce ==
  /\ pc["capture"] = "idle"
  /\ \E g \in Groups :
       SampleFactoryProduce(g) /\ Goto("capture", "request", g)
  /\ UNCHANGED <<image, image_source, r_count, driver, mbxVars, modeVars, uiVars>>

CaptureRequestTwo(b) ==
  LET g == holds["capture"] IN
  /\ pc["capture"] = "request"
  /\ b \in driver
  /\ driver' = driver \ {b}
  /\ image' = [image EXCEPT ![g] = b]
  /\ r_count' = [r_count EXCEPT ![b] = 2]
  /\ Goto("capture", "count", g)
  /\ UNCHANGED <<idle_groups, image_source, mbxVars, modeVars, uiVars>>

\* video_request_img_buf blocks until the driver has filled a buffer.
CaptureRequest(b) ==
  LET g == holds["capture"] IN
  /\ pc["capture"] = "request"
  /\ b \in driver
  /\ driver' = driver \ {b}
  /\ image' = [image EXCEPT ![g] = b]
  /\ r_count' = [r_count EXCEPT ![b] = 3]
  /\ Goto("capture", "count", g)
  /\ UNCHANGED <<idle_groups, image_source, mbxVars, modeVars, uiVars>>

\* sample_count_sum came back 0: the frame is void, all three references go.
CaptureReset ==
  /\ "reset" \in Enabled
  /\ pc["capture"] = "count"
  /\ ReleaseTimes(holds["capture"], 3)
  /\ Goto("capture", "idle", NoGroup)
  /\ UNCHANGED <<mbxVars, modeVars, uiVars>>

CaptureShowUnmarked ==
  LET g == holds["capture"] IN
  /\ pc["capture"] = "count"
  /\ mbx_show' = Append(mbx_show, g)
  /\ Goto("capture", "net", g)
  /\ UNCHANGED <<poolVars, mbx_send, mbx_dsp, mbx_ui, modeVars, uiVars>>

CaptureShow ==
  LET g == holds["capture"] IN
  /\ pc["capture"] = "count"
  /\ image_source' = [image_source EXCEPT ![g] = 0]
  /\ mbx_show' = Append(mbx_show, g)
  /\ Goto("capture", "net", g)
  /\ UNCHANGED <<idle_groups, image, r_count, driver, mbx_send, mbx_dsp, mbx_ui,
                 modeVars, uiVars>>

\* The network's reference: send it on, drop it, or (send mode 2) let it go
\* along with the sample to the DSP, unless the sample takes another way.
NetBranch(g, otherWay) ==
  \/ /\ send_mode = 1
     /\ mbx_send' = Append(mbx_send, g)
     /\ UNCHANGED poolVars
  \/ /\ send_mode = 0 \/ (send_mode = 2 /\ otherWay)
     /\ Release(g)
     /\ UNCHANGED mbx_send
  \/ /\ send_mode = 2 /\ ~otherWay
     /\ UNCHANGED <<mbx_send, poolVars>>

CaptureNet ==
  LET g == holds["capture"] IN
  /\ pc["capture"] = "net"
  /\ NetBranch(g, judge_mode # 0)
  /\ Goto("capture", "judge", g)
  /\ UNCHANGED <<mbx_show, mbx_dsp, mbx_ui, modeVars, uiVars>>

\* Judge mode 0 offers the group to the DSPs or, when they are busy or being
\* updated, reports it unprocessed; modes 1 to 3 report it; no other mode does.
CaptureJudge ==
  LET g == holds["capture"] IN
  /\ pc["capture"] = "judge"
  /\ \/ /\ judge_mode = 0
        /\ mbx_dsp' = Append(mbx_dsp, g)
        /\ UNCHANGED poolVars
     \/ /\ judge_mode \in 0 .. 3
        /\ Release(g)
        /\ UNCHANGED mbx_dsp
     \/ /\ judge_mode \notin 0 .. 3
        /\ UNCHANGED <<mbx_dsp, poolVars>>
  /\ Goto("capture", "idle", NoGroup)
  /\ UNCHANGED <<mbx_show, mbx_send, mbx_ui, modeVars, uiVars>>

CaptureTask ==
  \/ CaptureProduce \/ (\E b \in driver : CaptureRequest(b))
  \/ CaptureReset \/ CaptureShow \/ CaptureNet \/ CaptureJudge

-----------------------------------------------------------------------------
(* image_show_tsk with send_ui_image_info, ui_send_tsk, image_send_tsk     *)

ShowTask ==
  /\ mbx_show # <<>>
  /\ mbx_show' = Tail(mbx_show)
  /\ \/ /\ g_ui_socket_state = 1 /\ g_ui_img_ability = 1
        /\ g_ui_img_ability' = 0
        /\ mbx_ui' = Append(mbx_ui, Head(mbx_show))
        /\ UNCHANGED poolVars
     \/ /\ g_ui_socket_state = 0 \/ g_ui_img_ability = 0
        /\ Release(Head(mbx_show))
        /\ UNCHANGED <<mbx_ui, g_ui_img_ability>>
  /\ UNCHANGED <<mbx_send, mbx_dsp, pc, holds, modeVars, g_ui_socket_state>>

UiSendTaskKeep ==
  /\ mbx_ui # <<>>
  /\ mbx_ui' = Tail(mbx_ui)
  /\ UNCHANGED <<poolVars, mbx_show, mbx_send, mbx_dsp, pc, holds, modeVars,
                 uiVars>>

\* Sent, failed or disconnected, the message is recycled, and with it the
\* reference: msg_factory_recycle calls msg->release(msg->resource).
UiSendTask ==
  /\ mbx_ui # <<>>
  /\ mbx_ui' = Tail(mbx_ui)
  /\ Release(Head(mbx_ui))
  /\ UNCHANGED <<mbx_show, mbx_send, mbx_dsp, pc, holds, modeVars, uiVars>>

\* send_image_info copies the picture or drops it; it releases once either way.
ImageSendTask ==
  /\ mbx_send # <<>>
  /\ mbx_send' = Tail(mbx_send)
  /\ Release(Head(mbx_send))
  /\ UNCHANGED <<mbx_show, mbx_dsp, mbx_ui, pc, holds, modeVars, uiVars>>

-----------------------------------------------------------------------------
(* image_process_tsk and the DSP threads                                   *)

DspTake(d) ==
  /\ pc[d] = "idle"
  /\ mbx_dsp # <<>>
  /\ mbx_dsp' = Tail(mbx_dsp)
  /\ Goto(d, "process", Head(mbx_dsp))
  /\ UNCHANGED <<poolVars, mbx_show, mbx_send, mbx_ui, modeVars, uiVars>>

\* send_sample_info(group, video_context_release): one release on every path
DspReport(d) ==
  /\ pc[d] = "process"
  /\ Release(holds[d])
  /\ Goto(d, "upload", holds[d])
  /\ UNCHANGED <<mbxVars, modeVars, uiVars>>

DspUploadAlways(d) ==
  /\ pc[d] = "upload"
  /\ \/ /\ send_mode = 2
        /\ mbx_send' = Append(mbx_send, holds[d])
        /\ UNCHANGED poolVars
     \/ /\ Release(holds[d])
        /\ UNCHANGED mbx_send
  /\ Goto(d, "idle", NoGroup)
  /\ UNCHANGED <<mbx_show, mbx_dsp, mbx_ui, modeVars, uiVars>>

\* In send mode 2 the network's reference came along; the DSP's
\* img_upload_flag says whether to send the picture or to drop it.
DspUpload(d) ==
  /\ pc[d] = "upload"
  /\ \/ /\ send_mode = 2
        /\ mbx_send' = Append(mbx_send, holds[d])
        /\ UNCHANGED poolVars
     \/ /\ send_mode = 2
        /\ Release(holds[d])
        /\ UNCHANGED mbx_send
     \/ /\ send_mode # 2
        /\ UNCHANGED <<mbx_send, poolVars>>
  /\ Goto(d, "idle", NoGroup)
  /\ UNCHANGED <<mbx_show, mbx_dsp, mbx_ui, modeVars, uiVars>>

DspTask(d) == DspTake(d) \/ DspReport(d) \/ DspUpload(d)

-----------------------------------------------------------------------------
(* image_sim_tsk                                                           *)

SimDone ==
  /\ r_count[SimBuf] = 0
  /\ pc["sim"] = "idle"

SimOfferUnmarked ==
  /\ "simOverlap" \in Enabled \/ ("sim" \in Enabled /\ SimDone)
  /\ pc["sim"] = "idle"
  /\ \E g \in Groups :
       /\ SampleFactoryProduce(g)
       /\ image' = [image EXCEPT ![g] = SimBuf]
       /\ mbx_dsp' = Append(mbx_dsp, g)
       /\ Goto("sim", "net", g)
  /\ r_count' = [r_count EXCEPT ![SimBuf] = 2]
  /\ UNCHANGED <<image_source, driver, mbx_show, mbx_send, mbx_ui, modeVars,
                 uiVars>>

\* Posted to the DSPs without asking, with two references: DSP and network.
SimOffer ==
  /\ "simOverlap" \in Enabled \/ ("sim" \in Enabled /\ SimDone)
  /\ pc["sim"] = "idle"
  /\ \E g \in Groups :
       /\ SampleFactoryProduce(g)
       /\ image' = [image EXCEPT ![g] = SimBuf]
       /\ image_source' = [image_source EXCEPT ![g] = 1]
       /\ mbx_dsp' = Append(mbx_dsp, g)
       /\ Goto("sim", "net", g)
  /\ r_count' = [r_count EXCEPT ![SimBuf] = 2]
  /\ UNCHANGED <<driver, mbx_show, mbx_send, mbx_ui, modeVars, uiVars>>

SimNet ==
  /\ pc["sim"] = "net"
  /\ NetBranch(holds["sim"], FALSE)
  /\ Goto("sim", "idle", NoGroup)
  /\ UNCHANGED <<mbx_show, mbx_dsp, mbx_ui, modeVars, uiVars>>

-----------------------------------------------------------------------------
(* sig_handler, when the FPGA reports a sample without a picture           *)

OverclockProduce ==
  /\ "overclock" \in Enabled
  /\ pc["overclock"] = "idle"
  /\ \E g \in Groups :
       SampleFactoryProduce(g) /\ Goto("overclock", "report", g)
  /\ UNCHANGED <<image, image_source, r_count, driver, mbxVars, modeVars, uiVars>>

OverclockReportKeep ==
  LET g == holds["overclock"] IN
  /\ pc["overclock"] = "report"
  /\ image_source' = [image_source EXCEPT ![g] = 1]
  /\ Goto("overclock", "idle", NoGroup)
  /\ UNCHANGED <<idle_groups, image, r_count, driver, mbxVars, modeVars, uiVars>>

\* An entry of g_overclock_img_buf with one reference, which send_sample_info
\* releases before it returns: all that is left is a group with image_source 1.
OverclockReport ==
  LET g == holds["overclock"] IN
  /\ pc["overclock"] = "report"
  /\ image_source' = [image_source EXCEPT ![g] = 1]
  /\ SampleFactoryRecycle(g)
  /\ Goto("overclock", "idle", NoGroup)
  /\ UNCHANGED <<image, r_count, driver, mbxVars, modeVars, uiVars>>

-----------------------------------------------------------------------------
(* The operator (sc_set_img_send_mode, sc_set_sample_judge_mode) and the UI *)

Quiet ==
  /\ mbx_show = <<>> /\ mbx_send = <<>> /\ mbx_dsp = <<>> /\ mbx_ui = <<>>
  /\ \A t \in Threads \ {"capture"} : pc[t] = "idle"
  /\ pc["capture"] \in {"idle", "request"}

MaySwitch == "switchBusy" \in Enabled \/ ("switch" \in Enabled /\ Quiet)

ScSetImgSendMode(m) ==
  /\ MaySwitch
  /\ m # send_mode
  /\ send_mode' = m
  /\ UNCHANGED <<poolVars, mbxVars, pc, holds, judge_mode, uiVars>>

ScSetSampleJudgeMode(m) ==
  /\ MaySwitch
  /\ m # judge_mode
  /\ judge_mode' = m
  /\ UNCHANGED <<poolVars, mbxVars, pc, holds, send_mode, uiVars>>

\* ui_connect_tsk connects; ui_recv_tsk notices that the UI process is gone.
UiConnectOrLose ==
  /\ "ui" \in Enabled
  /\ g_ui_socket_state' = 1 - g_ui_socket_state
  /\ UNCHANGED <<poolVars, mbxVars, pc, holds, modeVars, g_ui_img_ability>>

\* Command 0x45530B01: the UI has drawn the last picture.
UiPictureDrawn ==
  /\ g_ui_socket_state = 1 /\ g_ui_img_ability = 0
  /\ g_ui_img_ability' = 1
  /\ UNCHANGED <<poolVars, mbxVars, pc, holds, modeVars, g_ui_socket_state>>

-----------------------------------------------------------------------------
Next ==
  \/ CaptureTask \/ ShowTask \/ UiSendTask \/ ImageSendTask
  \/ \E d \in Dsps : DspTask(d)
  \/ SimOffer \/ SimNet
  \/ OverclockProduce \/ OverclockReport
  \/ \E m \in SendModes : ScSetImgSendMode(m)
  \/ \E m \in JudgeModes : ScSetSampleJudgeMode(m)
  \/ UiConnectOrLose \/ UiPictureDrawn

\* Every thread that can run does; sends to the UI time out after a second.
Fairness ==
  /\ WF_vars(CaptureShow) /\ WF_vars(CaptureNet) /\ WF_vars(CaptureJudge)
  /\ WF_vars(ShowTask) /\ WF_vars(UiSendTask) /\ WF_vars(ImageSendTask)
  /\ \A d \in Dsps : WF_vars(DspTask(d))

Spec == Init /\ [][Next]_vars
FairSpec == Spec /\ Fairness
-----------------------------------------------------------------------------
(* Properties                                                              *)

Pcs == {"idle", "request", "count", "net", "judge", "process", "upload",
        "report"}

\* Every variable of the pipeline keeps to its C type, and no buffer but the
\* camera's is ever queued to the camera.
TypeOK ==
  /\ idle_groups \in Seq(Groups)
  /\ image \in [Groups -> AllBufs \cup {NoBuf}]
  /\ image_source \in [Groups -> {0, 1}]
  /\ r_count \in [AllBufs -> 0 .. 3] /\ driver \subseteq Bufs
  /\ mbx_show \in Seq(Groups) /\ mbx_send \in Seq(Groups)
  /\ mbx_dsp \in Seq(Groups) /\ mbx_ui \in Seq(Groups)
  /\ pc \in [Threads -> Pcs] /\ holds \in [Threads -> Groups \cup {NoGroup}]
  /\ send_mode \in SendModes /\ judge_mode \in JudgeModes
  /\ g_ui_socket_state \in {0, 1} /\ g_ui_img_ability \in {0, 1}

\* The references to group g that are still to be released, by where they are.
\* In send mode 2 the network's reference travels with the DSP's.
Count(b) == IF b THEN 1 ELSE 0
In(g, mbx) == Cardinality({i \in DOMAIN mbx : mbx[i] = g})
At(g, t, label) == Count(pc[t] = label /\ holds[t] = g)
LateNet == Count(send_mode = 2)
CaptureOwes(g) ==
  3 * At(g, "capture", "count") + 2 * At(g, "capture", "net")
    + (1 + Count(send_mode = 2 /\ judge_mode = 0)) * At(g, "capture", "judge")
DspsOwe(g) ==
  (1 + LateNet) * (In(g, mbx_dsp)
       + Cardinality({d \in Dsps : pc[d] = "process" /\ holds[d] = g}))
    + LateNet * Cardinality({d \in Dsps : pc[d] = "upload" /\ holds[d] = g})
Owed(g) ==
  CaptureOwes(g) + DspsOwe(g) + (1 - LateNet) * At(g, "sim", "net")
    + In(g, mbx_show) + In(g, mbx_ui) + In(g, mbx_send)

\* v4l2.h:19 calls r_count the application's references to the picture: it is
\* the number of releases that are still to come.
RefCountExact ==
  \A g \in Groups :
    Owed(g) > 0 => image[g] \in AllBufs /\ r_count[image[g]] = Owed(g)

\* Nothing is given back while it is in use: a group with references is not in
\* the pool, its buffer is neither the camera's to overwrite nor another
\* group's, and enough is left of r_count for the references to come.
NoUseAfterRelease ==
  \A g \in Groups :
    Owed(g) > 0 =>
      /\ g \notin Range(idle_groups)
      /\ image[g] \in AllBufs \ driver
      /\ r_count[image[g]] >= Owed(g)
      /\ \A h \in Groups \ {g} : Owed(h) > 0 => image[h] # image[g]

\* sample_factory_produce never finds its list empty (when it does, it returns
\* with the list's mutex locked, sample_factory.c:24-27), whatever is lost to
\* modes that nobody releases for.
PoolNeverEmpty == idle_groups # <<>>

\* sample_factory.h:40 "0: a picture of the VP, qbuf releases it": a buffer
\* nobody refers to is in the driver's queue, and only such a buffer.
BufferAccounted == \A b \in Bufs : b \in driver <=> r_count[b] = 0

\* The camera gets every buffer back, whatever the UI does.
FrameReturned == \A b \in Bufs : b \notin driver ~> b \in driver
=============================================================================
