----------------------------- MODULE DspFactory -----------------------------
(***************************************************************************)
(* The two-DSP resource pool of image/dsp.c and the threads that use it:   *)
(*                                                                         *)
(*   image_capture_tsk       offers a sample to the DSPs, or refuses it    *)
(*   image_sim_tsk           offers a simulated sample, unconditionally    *)
(*   image_process_tsk       takes an idle DSP for each offered sample     *)
(*   dsp1/dsp2_process_tsk   run the algorithm, give the DSP back          *)
(*   dsps_update_params_tsk  takes both DSPs and loads new parameters      *)
(*   sc_set_algo_params      runs in the net and the UI receive threads    *)
(*                                                                         *)
(* One action is what a thread does between two points where another       *)
(* thread can tell the difference: a critical section, a semaphore call, a *)
(* write to a shared variable.  Image data and results are left out.  A    *)
(* local pointer that is assigned before it is read again goes back to     *)
(* NoSample or NoDsp, so that states that differ in nothing else are one.  *)
(***************************************************************************)
EXTENDS Integers, Sequences, Functions

CONSTANTS
  Samples,       \* sample image groups that can be offered to the DSPs
  NoSample,      \* "no group assigned yet"
  Dsp1, Dsp2,    \* the two struct DSP
  NoDsp,         \* a NULL struct DSP pointer
  Setters,       \* threads that call sc_set_algo_params
  MaxUpdates,    \* bound: parameter updates received in one behaviour
  CountModulus,  \* g_img_not_process is a __u32: 2^32 in the code
  SimEnabled,    \* is image_sim_tsk ever triggered?
  DspMayFail     \* may VIDDEC2_process return an error?

Dsps == {Dsp1, Dsp2}

ASSUME DspFactoryAssumption ==
  /\ NoSample \notin Samples
  /\ Dsp1 # Dsp2 /\ NoDsp \notin Dsps
  /\ MaxUpdates \in Nat
  /\ CountModulus \in Nat /\ CountModulus > 3
  /\ SimEnabled \in BOOLEAN /\ DspMayFail \in BOOLEAN

VARIABLES
  \* the factory
  idle_list, busy_list,
  cond_wait,          \* threads inside pthread_cond_wait(&cond)
  \* struct DSP
  sample_image_group, \* pArgsInfo->sample_image_group
  sem_img_ready,
  dsp_params,         \* the parameter set the codec was last given
  freed,              \* DSPs whose struct was freed by disconnect_from_dsp
  dsp_pc,
  \* offering samples
  mbx_dsp, g_img_not_process,
  cap_pc, cap_sample,
  offered,            \* groups whose DSP reference is held by somebody
  \* image_process_tsk
  proc_pc, proc_sample, proc_dsp,
  \* parameters
  algo_params,        \* contents of the mapped algo_params.dat
  copying,            \* per setter: the update being copied in, 0 if none
  clash,              \* setters whose copy overlapped another one
  updates,            \* updates received so far (bounded by MaxUpdates)
  sem_params_update,  \* g_sem_algo_params_update
  update,             \* g_algo_params_config.update
  upd_pc, upd_p1, upd_p2,
  halted              \* the process was killed by a use of freed memory

factoryVars == <<idle_list, busy_list, cond_wait>>
dspVars     == <<sample_image_group, sem_img_ready, dsp_params, freed, dsp_pc>>
offerVars   == <<mbx_dsp, g_img_not_process, cap_pc, cap_sample, offered>>
procVars    == <<proc_pc, proc_sample, proc_dsp>>
memVars     == <<algo_params, copying, clash, updates, sem_params_update>>
updVars     == <<update, upd_pc, upd_p1, upd_p2>>
vars == <<factoryVars, dspVars, offerVars, procVars, memVars, updVars, halted>>

\* create_dsp_factory connects both DSPs with the parameters on file (update 0).
Init ==
  /\ idle_list = <<Dsp1, Dsp2>> /\ busy_list = {} /\ cond_wait = {}
  /\ sample_image_group = [d \in Dsps |-> NoSample]
  /\ sem_img_ready = [d \in Dsps |-> 0]
  /\ dsp_params = [d \in Dsps |-> 0]
  /\ freed = {} /\ dsp_pc = [d \in Dsps |-> "wait"]
  /\ mbx_dsp = <<>> /\ g_img_not_process = 0
  /\ cap_pc = "check" /\ cap_sample = NoSample /\ offered = {}
  /\ proc_pc = "pend" /\ proc_sample = NoSample /\ proc_dsp = NoDsp
  /\ algo_params = 0 /\ copying = [t \in Setters |-> 0] /\ clash = {}
  /\ updates = 0 /\ sem_params_update = 0
  /\ update = 0 /\ upd_pc = "wait" /\ upd_p1 = NoDsp /\ upd_p2 = NoDsp
  /\ halted = FALSE

-----------------------------------------------------------------------------
(* dsp_factory_produce and dsp_factory_recycle, called by thread t.        *)

DspFactoryProducePeek(t) ==
  /\ t \notin cond_wait
  /\ idle_list # <<>>
  /\ busy_list' = busy_list \cup {Head(idle_list)}
  /\ UNCHANGED <<idle_list, cond_wait>>

DspFactoryProduce(t) ==
  /\ t \notin cond_wait
  /\ idle_list # <<>>
  /\ idle_list' = Tail(idle_list)
  /\ busy_list' = busy_list \cup {Head(idle_list)}
  /\ UNCHANGED cond_wait

DspFactoryWait(t) ==
  /\ t \notin cond_wait
  /\ idle_list = <<>>
  /\ cond_wait' = cond_wait \cup {t}
  /\ UNCHANGED <<idle_list, busy_list>>

\* pthread_cond_signal wakes one waiter, if there is one.
CondSignal ==
  \/ cond_wait = {} /\ UNCHANGED cond_wait
  \/ \E t \in cond_wait : cond_wait' = cond_wait \ {t}

DspFactoryRecycleNoSignal(d) ==
  /\ busy_list' = busy_list \ {d}
  /\ idle_list' = Append(idle_list, d)
  /\ UNCHANGED cond_wait

DspFactoryRecycle(d) ==
  /\ busy_list' = busy_list \ {d}
  /\ idle_list' = Append(idle_list, d)
  /\ CondSignal

\* POSIX lets pthread_cond_wait return without a signal; both callers loop.
SpuriousWakeup ==
  /\ \E t \in cond_wait : cond_wait' = cond_wait \ {t}
  /\ UNCHANGED <<idle_list, busy_list, dspVars, offerVars, procVars, memVars,
                 updVars, halted>>

-----------------------------------------------------------------------------
(* Offering a sample: image_capture_tsk in judge mode 0, image_sim_tsk.    *)

\* ++ and -- on a __u32
U32Inc(x) == IF x = CountModulus - 1 THEN 0 ELSE x + 1
U32Dec(x) == IF x = 0 THEN CountModulus - 1 ELSE x - 1

\* image_capture_tsk is between its pthread_mutex_lock(&g_mutex) and unlock.
CaptureHoldsMutex == cap_pc = "post"

\* The test under g_mutex.  A refused sample is judged "not processed" and
\* leaves nothing behind in this module's state.
CaptureCheck(s) ==
  /\ cap_pc = "check"
  /\ s \notin offered
  /\ g_img_not_process <= 2
  /\ update = 0
  /\ cap_pc' = "post" /\ cap_sample' = s
  /\ offered' = offered \cup {s}
  /\ UNCHANGED <<factoryVars, dspVars, mbx_dsp, g_img_not_process, procVars,
                 memVars, updVars, halted>>

CapturePostUncounted ==
  /\ cap_pc = "post"
  /\ mbx_dsp' = Append(mbx_dsp, cap_sample)
  /\ cap_pc' = "check" /\ cap_sample' = NoSample
  /\ UNCHANGED <<factoryVars, dspVars, g_img_not_process, offered,
                 procVars, memVars, updVars, halted>>

CapturePost ==
  /\ cap_pc = "post"
  /\ g_img_not_process' = U32Inc(g_img_not_process)
  /\ mbx_dsp' = Append(mbx_dsp, cap_sample)
  /\ cap_pc' = "check" /\ cap_sample' = NoSample
  /\ UNCHANGED <<factoryVars, dspVars, offered, procVars, memVars,
                 updVars, halted>>

\* image_sim_tsk looks at neither g_img_not_process nor update, and does not
\* count the sample it posts.
SimPost(s) ==
  /\ SimEnabled
  /\ s \notin offered
  /\ offered' = offered \cup {s}
  /\ mbx_dsp' = Append(mbx_dsp, s)
  /\ UNCHANGED <<factoryVars, dspVars, g_img_not_process, cap_pc, cap_sample,
                 procVars, memVars, updVars, halted>>

-----------------------------------------------------------------------------
(* image_process_tsk                                                       *)

ProcessPend ==
  /\ proc_pc = "pend"
  /\ mbx_dsp # <<>>
  /\ proc_sample' = Head(mbx_dsp)
  /\ mbx_dsp' = Tail(mbx_dsp)
  /\ proc_pc' = "produce"
  /\ UNCHANGED <<factoryVars, dspVars, g_img_not_process, cap_pc, cap_sample,
                 offered, proc_dsp, memVars, updVars, halted>>

ProcessProduce ==
  /\ proc_pc = "produce"
  /\ \/ /\ DspFactoryProduce("process")
        /\ proc_dsp' = Head(idle_list)
        /\ proc_pc' = "assign"
     \/ /\ DspFactoryWait("process")
        /\ UNCHANGED <<proc_dsp, proc_pc>>
  /\ UNCHANGED <<dspVars, offerVars, proc_sample, memVars, updVars, halted>>

ProcessAssign ==
  /\ proc_pc = "assign"
  /\ sample_image_group' = [sample_image_group EXCEPT ![proc_dsp] = proc_sample]
  /\ proc_pc' = "uncount"
  /\ UNCHANGED <<factoryVars, sem_img_ready, dsp_params, freed, dsp_pc,
                 offerVars, proc_sample, proc_dsp, memVars, updVars, halted>>

ProcessUncountUnwrapped ==
  /\ proc_pc = "uncount"
  /\ ~CaptureHoldsMutex
  /\ g_img_not_process' = g_img_not_process - 1
  /\ proc_pc' = "post"
  /\ UNCHANGED <<factoryVars, dspVars, mbx_dsp, cap_pc, cap_sample, offered,
                 proc_sample, proc_dsp, memVars, updVars, halted>>

ProcessUncount ==
  /\ proc_pc = "uncount"
  /\ ~CaptureHoldsMutex
  /\ g_img_not_process' = U32Dec(g_img_not_process)
  /\ proc_pc' = "post"
  /\ UNCHANGED <<factoryVars, dspVars, mbx_dsp, cap_pc, cap_sample, offered,
                 proc_sample, proc_dsp, memVars, updVars, halted>>

ProcessPost ==
  /\ proc_pc = "post"
  /\ sem_img_ready' = [sem_img_ready EXCEPT ![proc_dsp] = @ + 1]
  /\ proc_pc' = "pend" /\ proc_sample' = NoSample /\ proc_dsp' = NoDsp
  /\ UNCHANGED <<factoryVars, sample_image_group, dsp_params, freed, dsp_pc,
                 offerVars, memVars, updVars, halted>>

ProcessTask ==
  \/ ProcessPend \/ ProcessProduce \/ ProcessAssign
  \/ ProcessUncount \/ ProcessPost

-----------------------------------------------------------------------------
(* dsp1_process_tsk and dsp2_process_tsk                                   *)

\* What a reader of algo_params.dat sees now: while a memcpy into it is
\* running, a part of each of two updates.
Partial == MaxUpdates + 1
Copying == \E t \in Setters : copying[t] # 0
ReadParams == IF Copying THEN Partial ELSE algo_params

DspStart(d) ==
  /\ dsp_pc[d] = "wait"
  /\ sem_img_ready[d] > 0
  /\ sem_img_ready' = [sem_img_ready EXCEPT ![d] = @ - 1]
  /\ dsp_pc' = [dsp_pc EXCEPT ![d] = "process"]
  /\ UNCHANGED <<factoryVars, sample_image_group, dsp_params, freed, offerVars,
                 procVars, memVars, updVars, halted>>

\* VIDDEC2_process returns; the result goes out and the group's DSP reference
\* is handed on or released.
DspFinish(d) ==
  /\ dsp_pc[d] = "process"
  /\ offered' = offered \ {sample_image_group[d]}
  /\ \/ dsp_pc' = [dsp_pc EXCEPT ![d] = "recycle"]
     \/ DspMayFail /\ dsp_pc' = [dsp_pc EXCEPT ![d] = "reset"]
  /\ UNCHANGED <<factoryVars, sample_image_group, sem_img_ready, dsp_params,
                 freed, mbx_dsp, g_img_not_process, cap_pc, cap_sample,
                 procVars, memVars, updVars, halted>>

\* disconnect_from_dspN frees the struct this thread and the lists point to;
\* connect_to_dspN allocates another one and its result is dropped.  malloc
\* may happen to return the block just freed, with fresh contents.
DspReset(d) ==
  /\ dsp_pc[d] = "reset"
  /\ \/ freed' = freed \cup {d} /\ UNCHANGED <<sem_img_ready, dsp_params>>
     \/ /\ UNCHANGED freed
        /\ sem_img_ready' = [sem_img_ready EXCEPT ![d] = 0]
        /\ dsp_params' = [dsp_params EXCEPT ![d] = ReadParams]
  /\ dsp_pc' = [dsp_pc EXCEPT ![d] = "recycle"]
  /\ UNCHANGED <<factoryVars, sample_image_group, offerVars, procVars, memVars,
                 updVars, halted>>

DspRecycle(d) ==
  /\ dsp_pc[d] = "recycle"
  /\ DspFactoryRecycle(d)
  /\ dsp_pc' = [dsp_pc EXCEPT ![d] = "wait"]
  /\ UNCHANGED <<sample_image_group, sem_img_ready, dsp_params, freed,
                 offerVars, procVars, memVars, updVars, halted>>

DspTask(d) == DspStart(d) \/ DspFinish(d) \/ DspReset(d) \/ DspRecycle(d)

\* Freed or uninitialized memory may keep its old contents (the actions above
\* go on as before) or the next use of it kills the process.
UseAfterFree ==
  /\ freed # {} \/ \E d \in Dsps : dsp_pc[d] = "reset"
  /\ halted' = TRUE
  /\ UNCHANGED <<factoryVars, dspVars, offerVars, procVars, memVars, updVars>>

-----------------------------------------------------------------------------
(* sc_set_algo_params in thread t: memcpy into the mapping, then sem_post. *)

SetParamsBegin(t) ==
  /\ copying[t] = 0
  /\ updates < MaxUpdates
  /\ updates' = updates + 1
  /\ copying' = [copying EXCEPT ![t] = updates + 1]
  /\ clash' = IF Copying
              THEN clash \cup {t} \cup {u \in Setters : copying[u] # 0}
              ELSE clash
  /\ UNCHANGED <<factoryVars, dspVars, offerVars, procVars, algo_params,
                 sem_params_update, updVars, halted>>

SetParamsEndNoPost(t) ==
  /\ copying[t] # 0
  /\ algo_params' = copying[t]
  /\ copying' = [copying EXCEPT ![t] = 0]
  /\ clash' = clash \ {t}
  /\ UNCHANGED <<factoryVars, dspVars, offerVars, procVars, updates,
                 sem_params_update, updVars, halted>>

\* Two overlapping copies leave some mixture, written -copying[t], behind.
SetParamsEnd(t) ==
  /\ copying[t] # 0
  /\ \/ algo_params' = copying[t]
     \/ t \in clash /\ algo_params' = -copying[t]
  /\ copying' = [copying EXCEPT ![t] = 0]
  /\ clash' = clash \ {t}
  /\ sem_params_update' = sem_params_update + 1
  /\ UNCHANGED <<factoryVars, dspVars, offerVars, procVars, updates, updVars,
                 halted>>

-----------------------------------------------------------------------------
(* dsps_update_params_tsk and dsp_factory_rectify                          *)

UpdateWait ==
  /\ upd_pc = "wait"
  /\ sem_params_update > 0
  /\ sem_params_update' = sem_params_update - 1
  /\ upd_pc' = "flag"
  /\ UNCHANGED <<factoryVars, dspVars, offerVars, procVars, algo_params,
                 copying, clash, updates, update, upd_p1, upd_p2, halted>>

UpdateFlag ==
  /\ upd_pc = "flag"
  /\ update' = 1
  /\ upd_pc' = "poll"
  /\ UNCHANGED <<factoryVars, dspVars, offerVars, procVars, memVars, upd_p1,
                 upd_p2, halted>>

\* is_dsps_idle, called every millisecond until it says yes
UpdatePoll ==
  /\ upd_pc = "poll"
  /\ busy_list = {}
  /\ upd_pc' = "produce1"
  /\ UNCHANGED <<factoryVars, dspVars, offerVars, procVars, memVars, update,
                 upd_p1, upd_p2, halted>>

UpdateProduce1 ==
  /\ upd_pc = "produce1"
  /\ \/ /\ DspFactoryProduce("update")
        /\ upd_p1' = Head(idle_list)
        /\ upd_pc' = "set1"
     \/ /\ DspFactoryWait("update")
        /\ UNCHANGED <<upd_p1, upd_pc>>
  /\ UNCHANGED <<dspVars, offerVars, procVars, memVars, update, upd_p2, halted>>

\* dspN_set_algo_params: memcpy out of the mapping, then VIDDEC2_control.
\* While upd_pc is "set1" the call is running on upd_p1.
UpdateSet1 ==
  /\ upd_pc = "set1"
  /\ dsp_params' = [dsp_params EXCEPT ![upd_p1] = ReadParams]
  /\ upd_pc' = "produce2"
  /\ UNCHANGED <<factoryVars, sample_image_group, sem_img_ready, freed, dsp_pc,
                 offerVars, procVars, memVars, update, upd_p1, upd_p2, halted>>

UpdateProduce2 ==
  /\ upd_pc = "produce2"
  /\ \/ /\ DspFactoryProduce("update")
        /\ upd_p2' = Head(idle_list)
        /\ upd_pc' = "set2"
     \/ /\ DspFactoryWait("update")
        /\ UNCHANGED <<upd_p2, upd_pc>>
  /\ UNCHANGED <<dspVars, offerVars, procVars, memVars, update, upd_p1, halted>>

UpdateSet2 ==
  /\ upd_pc = "set2"
  /\ dsp_params' = [dsp_params EXCEPT ![upd_p2] = ReadParams]
  /\ upd_pc' = "recycle1"
  /\ UNCHANGED <<factoryVars, sample_image_group, sem_img_ready, freed, dsp_pc,
                 offerVars, procVars, memVars, update, upd_p1, upd_p2, halted>>

UpdateRecycle1 ==
  /\ upd_pc = "recycle1"
  /\ DspFactoryRecycle(upd_p1)
  /\ upd_pc' = "recycle2"
  /\ UNCHANGED <<dspVars, offerVars, procVars, memVars, update, upd_p1, upd_p2,
                 halted>>

UpdateRecycleFirstAgain ==
  /\ upd_pc = "recycle2"
  /\ DspFactoryRecycle(upd_p1)
  /\ upd_pc' = "clear"
  /\ UNCHANGED <<dspVars, offerVars, procVars, memVars, update, upd_p1, upd_p2,
                 halted>>

UpdateRecycle2 ==
  /\ upd_pc = "recycle2"
  /\ DspFactoryRecycle(upd_p2)
  /\ upd_pc' = "clear"
  /\ UNCHANGED <<dspVars, offerVars, procVars, memVars, update, upd_p1, upd_p2,
                 halted>>

UpdateClear ==
  /\ upd_pc = "clear"
  /\ update' = 0
  /\ upd_pc' = "wait" /\ upd_p1' = NoDsp /\ upd_p2' = NoDsp
  /\ UNCHANGED <<factoryVars, dspVars, offerVars, procVars, memVars,
                 halted>>

UpdateTask ==
  \/ UpdateWait \/ UpdateFlag \/ UpdatePoll \/ UpdateProduce1 \/ UpdateSet1
  \/ UpdateProduce2 \/ UpdateSet2 \/ UpdateRecycle1 \/ UpdateRecycle2
  \/ UpdateClear

-----------------------------------------------------------------------------
Next ==
  /\ ~halted
  /\ \/ SpuriousWakeup
     \/ \E s \in Samples : CaptureCheck(s) \/ SimPost(s)
     \/ CapturePost
     \/ ProcessTask
     \/ \E d \in Dsps : DspTask(d)
     \/ UseAfterFree
     \/ \E t \in Setters : SetParamsBegin(t) \/ SetParamsEnd(t)
     \/ UpdateTask

\* Threads that can run are eventually scheduled and VIDDEC2_process returns.
\* Nothing makes a sample or a parameter update arrive.
Fairness ==
  /\ WF_vars(CapturePost)
  /\ WF_vars(ProcessTask)
  /\ \A d \in Dsps : WF_vars(DspTask(d))
  /\ \A t \in Setters : WF_vars(SetParamsEnd(t))
  /\ WF_vars(UpdateTask)

Spec == Init /\ [][Next]_vars
FairSpec == Spec /\ Fairness
-----------------------------------------------------------------------------
(* Properties                                                              *)

ParamSets == (-MaxUpdates) .. (MaxUpdates + 1)
ProcessPcs == {"pend", "produce", "assign", "uncount", "post"}
UpdatePcs == {"wait", "flag", "poll", "produce1", "set1", "produce2", "set2",
              "recycle1", "recycle2", "clear"}

\* Every variable of the pool and its threads keeps to its C type.
TypeOK ==
  /\ idle_list \in Seq(Dsps) /\ busy_list \subseteq Dsps
  /\ cond_wait \subseteq {"process", "update"}
  /\ sample_image_group \in [Dsps -> Samples \cup {NoSample}]
  /\ sem_img_ready \in [Dsps -> Nat]
  /\ dsp_params \in [Dsps -> ParamSets]
  /\ freed \subseteq Dsps
  /\ dsp_pc \in [Dsps -> {"wait", "process", "reset", "recycle"}]
  /\ mbx_dsp \in Seq(Samples)
  /\ g_img_not_process \in 0 .. (CountModulus - 1)
  /\ cap_pc \in {"check", "post"} /\ cap_sample \in Samples \cup {NoSample}
  /\ offered \subseteq Samples
  /\ proc_pc \in ProcessPcs
  /\ proc_sample \in Samples \cup {NoSample}
  /\ proc_dsp \in Dsps \cup {NoDsp}
  /\ algo_params \in ParamSets
  /\ copying \in [Setters -> 0 .. MaxUpdates] /\ clash \subseteq Setters
  /\ updates \in 0 .. MaxUpdates /\ sem_params_update \in Nat
  /\ update \in {0, 1} /\ upd_pc \in UpdatePcs
  /\ upd_p1 \in Dsps \cup {NoDsp} /\ upd_p2 \in Dsps \cup {NoDsp}
  /\ halted \in BOOLEAN

\* Who holds DSP d?
HeldByFactory(d) == d \in Range(idle_list)
HeldByProcess(d) == proc_pc \in {"assign", "uncount", "post"} /\ proc_dsp = d
HeldByUpdate1(d) ==
  upd_pc \in {"set1", "produce2", "set2", "recycle1"} /\ upd_p1 = d
HeldByUpdate2(d) == upd_pc \in {"set2", "recycle1", "recycle2"} /\ upd_p2 = d
HeldByTask(d) == sem_img_ready[d] > 0 \/ dsp_pc[d] # "wait"

Count(b) == IF b THEN 1 ELSE 0
Holders(d) ==
  Count(HeldByFactory(d)) + Count(HeldByProcess(d)) + Count(HeldByUpdate1(d))
    + Count(HeldByUpdate2(d)) + Count(HeldByTask(d))

\* Each DSP has exactly one holder: it is never handed to image_process_tsk
\* while dsp_factory_rectify is loading its parameters or its own task is
\* still computing, it is never in the idle list twice, and no path through
\* the threads loses it (dsp.c:538-615).
OneHolder ==
  /\ IsInjective(idle_list)
  /\ \A d \in Dsps : Holders(d) = 1 /\ (d \in busy_list <=> ~HeldByFactory(d))

\* The group pointer handed to a DSP stays put until its task has reported on
\* the group: dsp1_process_tsk reads it again after the VIDDEC2_process call
\* (dsp_context.c:53-60).
JobStable ==
  [][\A d \in Dsps :
       sem_img_ready[d] > 0 \/ dsp_pc[d] = "process"
         => sample_image_group'[d] = sample_image_group[d]]_vars

\* Where the DSP reference of group s is.
DspHolds(d, s) ==
  /\ sem_img_ready[d] > 0 \/ dsp_pc[d] = "process"
  /\ sample_image_group[d] = s
SamplePlaces(s) ==
  Count(cap_pc = "post" /\ cap_sample = s) + Count(s \in Range(mbx_dsp))
    + Count(proc_pc # "pend" /\ proc_sample = s)
    + Count(DspHolds(Dsp1, s)) + Count(DspHolds(Dsp2, s))

\* A group offered to the DSPs is in exactly one place until a DSP has reported
\* on it: none is lost between the mailbox and the two DSPs, none is processed
\* twice (video_context.c:409-423, 629-652).
SampleOnce ==
  /\ IsInjective(mbx_dsp)
  /\ \A s \in Samples : SamplePlaces(s) = Count(s \in offered)

\* Once no update is pending, both DSPs work with what algo_params.dat holds,
\* although the mapping is read without a lock while two threads write to it
\* (sys_conf.c:461-468, dsp_context.c:202-213).
ParamsCurrent ==
  sem_params_update = 0 /\ upd_pc = "wait" /\ ~Copying
    => \A d \in Dsps : dsp_params[d] = algo_params

Pending == Len(mbx_dsp) + Count(proc_pc \in {"produce", "assign", "uncount"})

\* g_img_not_process is the number of samples waiting for a DSP, and the test
\* in image_capture_tsk keeps that number at three or less
\* (video_context.c:416-422, 646-648).
PendingExact == g_img_not_process = Pending /\ Pending <= 3

\* The comment at video_context.c:411-414: only when three or more samples are
\* unprocessed (or an update runs) is the DSP not asked.
RefusalJustified == g_img_not_process > 2 => Pending >= 3

\* "dsp1 reset %d times" (dsp.c:369): after a reset the factory hands out a
\* DSP that exists.
FactoryHoldsLiveDsps == Range(idle_list) \cap freed = {}

\* An update that starts to arrive is eventually loaded into both DSPs, however
\* the samples in flight and the condition variable's waiters interleave
\* (dsp.c:562-615).
UpdateTakesEffect ==
  Copying ~> (~Copying /\ sem_params_update = 0 /\ upd_pc = "wait"
                /\ \A d \in Dsps : dsp_params[d] = algo_params)

\* A sample accepted for the DSPs is eventually reported on, even if a parameter
\* update takes both DSPs away in between.
SampleProcessed == \A s \in Samples : s \in offered ~> s \notin offered
=============================================================================
