-------------------------- MODULE DspServiceProofs --------------------------
(* The pool of DSPs implements SampleService: every step of its threads is  *)
(* the acceptance, the start or the report of a sample, or changes nothing  *)
(* of the service.  Simulated samples are left aside: image_sim_tsk neither *)
(* counts nor limits what it posts, so there is no limit to implement.      *)
EXTENDS DspService, DspFactoryProofs, FiniteSetTheorems

-----------------------------------------------------------------------------
(* A DSP with work to do has been given a sample.                          *)

HasJob(d) == sem_img_ready[d] > 0 \/ dsp_pc[d] = "process"

Assigned == \A d \in Dsps : HasJob(d) => sample_image_group[d] \in Samples

\* At the start no DSP has a sample.
LEMMA AssignedInit == Init => Assigned
BY DEF Init, Assigned, HasJob, Dsps

\* dsp_factory_produce, image_process_tsk and dsp_factory_recycle keep the pointer
\* of a DSP at work pointing to a sample.
LEMMA AssignedNext ==
  TypeInv /\ HolderInv /\ SampleInv /\ Assigned /\ [Next]_vars => Assigned'
<1> USE DEF vars, factoryVars, dspVars, offerVars, procVars, memVars, updVars
<1> SUFFICES ASSUME TypeInv, HolderInv, SampleInv, Assigned, [Next]_vars PROVE Assigned'
  OBVIOUS
<1>t. TypeOK /\ PointersSet
  BY DEF TypeInv
<1>f. ASSUME sample_image_group' = sample_image_group,
             \A d \in Dsps : HasJob(d)' => HasJob(d)
      PROVE  Assigned'
  BY <1>f DEF Assigned
<1>1. CASE UNCHANGED <<sem_img_ready, dsp_pc, sample_image_group>>
  BY <1>1, <1>f DEF HasJob
<1>2. CASE ProcessAssign
  <2>1. proc_sample \in Samples /\ proc_dsp \in Dsps
    BY <1>2, <1>t DEF ProcessAssign, PointersSet
  <2>2. \A d \in Dsps : sample_image_group'[d] \in {proc_sample, sample_image_group[d]}
    BY <1>2, <1>t DEF ProcessAssign, TypeOK
  <2>3. QED
    BY <1>2, <2>1, <2>2 DEF ProcessAssign, Assigned, HasJob
<1>3. CASE ProcessPost
  <2>1. proc_dsp \in Dsps /\ proc_sample \in Samples
        /\ sample_image_group[proc_dsp] = proc_sample
    BY <1>3, <1>t DEF ProcessPost, PointersSet, SampleInv, Prepared
  <2>2. \A d \in Dsps : d # proc_dsp => (HasJob(d)' <=> HasJob(d))
    BY <1>3, <1>t DEF ProcessPost, TypeOK, HasJob
  <2>3. QED
    BY <1>3, <2>1, <2>2 DEF ProcessPost, Assigned
<1>4. ASSUME NEW d \in Dsps, DspTask(d) PROVE Assigned'
  <2>1. CASE DspStart(d)
    BY <2>1, <1>t, <1>f DEF DspStart, TypeOK, HasJob
  <2>2. CASE DspFinish(d)
    BY <2>2, <1>t, <1>f DEF DspFinish, TypeOK, HasJob
  <2>3. CASE DspReset(d)
    BY <2>3, <1>t, <1>f DEF DspReset, TypeOK, HasJob
  <2>4. CASE DspRecycle(d)
    BY <2>4, <1>t, <1>f DEF DspRecycle, TypeOK, HasJob
  <2>5. QED
    BY <1>4, <2>1, <2>2, <2>3, <2>4 DEF DspTask
<1>5. CASE SpuriousWakeup \/ UseAfterFree \/ CapturePost
           \/ \E s \in Samples : CaptureCheck(s) \/ SimPost(s)
  BY <1>5, <1>1 DEF SpuriousWakeup, UseAfterFree, CapturePost, CaptureCheck, SimPost
<1>6. CASE ProcessPend \/ ProcessProduce \/ ProcessUncount
  BY <1>6, <1>1 DEF ProcessPend, ProcessProduce, ProcessUncount
<1>7. CASE UpdateTask \/ \E t \in Setters : SetParamsBegin(t) \/ SetParamsEnd(t)
  BY <1>7, <1>1 DEF SetParamsBegin, SetParamsEnd, UpdateTask, UpdateWait, UpdateFlag,
     UpdatePoll, UpdateProduce1, UpdateSet1, UpdateProduce2, UpdateSet2,
     UpdateRecycle1, UpdateRecycle2, UpdateClear
<1>8. QED
  BY <1>1, <1>2, <1>3, <1>4, <1>5, <1>6, <1>7 DEF Next, ProcessTask

-----------------------------------------------------------------------------
(* What the mapping says in a reachable state.                             *)

PoolInv == TypeInv /\ HolderInv /\ PendingInv /\ SampleInv /\ Assigned

\* Two DSPs never have the same sample.
LEMMA EngagedOnce ==
  PoolInv => \A d \in Engaged :
               /\ d \in Dsps /\ sample_image_group[d] \in Samples
               /\ \A e \in Engaged : sample_image_group[e] = sample_image_group[d] => e = d
<1> SUFFICES ASSUME PoolInv PROVE \A d \in Engaged :
               /\ d \in Dsps /\ sample_image_group[d] \in Samples
               /\ \A e \in Engaged : sample_image_group[e] = sample_image_group[d] => e = d
  OBVIOUS
<1>1. ASSUME NEW d \in Engaged
      PROVE  d \in Dsps /\ sample_image_group[d] \in Samples
  BY DEF PoolInv, Engaged, Assigned, HasJob, TypeInv, PointersSet, SampleInv, Prepared
<1>2. ASSUME NEW s \in Samples PROVE SamplePlaces(s) <= 1
  BY DEF PoolInv, SampleInv, SampleOnce, Count
<1>3. ASSUME NEW d \in Engaged
      PROVE  \/ DspHolds(d, sample_image_group[d])
             \/ proc_pc # "pend" /\ proc_sample = sample_image_group[d] /\ proc_dsp = d
  BY DEF PoolInv, Engaged, DspHolds, SampleInv, Prepared
<1>4. ASSUME NEW d \in Engaged, NEW e \in Engaged, d # e,
             sample_image_group[e] = sample_image_group[d]
      PROVE  FALSE
  <2> DEFINE s == sample_image_group[d]
  <2>1. s \in Samples /\ d \in Dsps /\ e \in Dsps /\ SamplePlaces(s) <= 1
    BY <1>1, <1>2
  <2>2. /\ DspHolds(d, s) \/ (proc_pc # "pend" /\ proc_sample = s /\ proc_dsp = d)
        /\ DspHolds(e, s) \/ (proc_pc # "pend" /\ proc_sample = s /\ proc_dsp = e)
    BY <1>3, <1>4
  <2>3. (d = Dsp1 /\ e = Dsp2) \/ (d = Dsp2 /\ e = Dsp1)
    BY <2>1, <1>4 DEF Dsps
  <2> HIDE DEF s
  <2>4. QED
    BY <2>1, <2>2, <2>3, <1>4 DEF SamplePlaces, Count
<1>5. QED
  BY <1>1, <1>4

\* Each sample at work has the parameters of its DSP.
LEMMA WorkIs ==
  PoolInv => /\ DOMAIN SamplesAtWork = {sample_image_group[d] : d \in Engaged}
             /\ \A d \in Engaged : SamplesAtWork[sample_image_group[d]] = dsp_params[d]
<1> SUFFICES ASSUME PoolInv, NEW d \in Engaged
             PROVE  SamplesAtWork[sample_image_group[d]] = dsp_params[d]
  BY DEF SamplesAtWork
<1> DEFINE e == CHOOSE e \in Engaged : sample_image_group[e] = sample_image_group[d]
<1>1. e \in Engaged /\ sample_image_group[e] = sample_image_group[d]
  OBVIOUS
<1>2. e = d
  BY <1>1, EngagedOnce
<1>3. SamplesAtWork[sample_image_group[d]] = dsp_params[e]
  BY DEF SamplesAtWork
<1>4. QED
  BY <1>2, <1>3

\* The same of the state after a step.
LEMMA WorkIsNext ==
  PoolInv' => /\ (DOMAIN SamplesAtWork = {sample_image_group[d] : d \in Engaged})'
              /\ (\A d \in Engaged : SamplesAtWork[sample_image_group[d]] = dsp_params[d])'
BY WorkIs, PTL

\* The pool's invariant in the next state, read as: two DSPs at work have two
\* samples.
LEMMA EngagedOnceNext ==
  PoolInv' => (\A d \in Engaged :
               /\ d \in Dsps /\ sample_image_group[d] \in Samples
               /\ \A e \in Engaged : sample_image_group[e] = sample_image_group[d] => e = d)'
BY EngagedOnce, PTL

\* A step that leaves the engaged DSPs, their samples and their parameters alone
\* leaves the work alone.
LEMMA WorkFrame ==
  ASSUME PoolInv, PoolInv', Engaged' = Engaged,
         \A d \in Engaged : /\ sample_image_group'[d] = sample_image_group[d]
                            /\ dsp_params'[d] = dsp_params[d]
  PROVE  SamplesAtWork' = SamplesAtWork
<1>1. DOMAIN SamplesAtWork' = DOMAIN SamplesAtWork
  BY WorkIs, WorkIsNext
<1>2. ASSUME NEW s \in DOMAIN SamplesAtWork PROVE SamplesAtWork'[s] = SamplesAtWork[s]
  BY WorkIs, WorkIsNext
<1>3. SamplesAtWork = [s \in DOMAIN SamplesAtWork |-> SamplesAtWork[s]]
      /\ SamplesAtWork' = [s \in DOMAIN SamplesAtWork' |-> SamplesAtWork'[s]]
  BY DEF SamplesAtWork
<1>4. QED
  BY <1>1, <1>2, <1>3

\* The queue's length is the number image_capture_tsk tests, and its elements
\* are the samples in the mailbox and the one image_process_tsk has taken out.
LEMMA QueueIs ==
  ASSUME PoolInv
  PROVE  /\ WaitingSamples \in Seq(Samples) /\ Len(WaitingSamples) = Pending
         /\ \A s \in Samples :
              s \in Range(WaitingSamples) =>
                \/ s \in Range(mbx_dsp)
                \/ proc_pc # "pend" /\ proc_sample = s
<1>1. mbx_dsp \in Seq(Samples) /\ (proc_pc # "pend" => proc_sample \in Samples)
  BY DEF PoolInv, TypeInv, TypeOK, PointersSet
<1>2. CASE proc_pc \notin {"produce", "assign", "uncount"}
  <2>1. WaitingSamples = mbx_dsp
    BY <1>1, <1>2 DEF WaitingSamples
  <2>2. QED
    BY <1>1, <1>2, <2>1 DEF Pending, Count
<1>3. CASE proc_pc \in {"produce", "assign", "uncount"}
  <2>1. WaitingSamples = <<proc_sample>> \o mbx_dsp /\ proc_sample \in Samples
        /\ proc_pc # "pend"
    BY <1>1, <1>3 DEF WaitingSamples
  <2>2. WaitingSamples \in Seq(Samples) /\ Len(WaitingSamples) = Len(mbx_dsp) + 1
    BY <1>1, <2>1
  <2>3. ASSUME NEW i \in DOMAIN WaitingSamples
        PROVE  WaitingSamples[i] = proc_sample \/ WaitingSamples[i] \in Range(mbx_dsp)
    <3>1. CASE i = 1
      BY <1>1, <2>1, <3>1
    <3>2. CASE i # 1
      <4>1. i - 1 \in DOMAIN mbx_dsp /\ WaitingSamples[i] = mbx_dsp[i - 1]
        BY <1>1, <2>1, <2>2, <3>2
      <4>2. QED
        BY <4>1 DEF Range
    <3>3. QED
      BY <3>1, <3>2
  <2>4. QED
    BY <1>1, <1>3, <2>1, <2>2, <2>3 DEF Pending, Count, Range
<1>4. QED
  BY <1>2, <1>3

-----------------------------------------------------------------------------
(* The three steps of the service.                                         *)

ServiceVars == <<WaitingSamples, SamplesAtWork>>

\* image_capture_tsk posts: the sample is new, and there is room for it.
LEMMA PostAccepts ==
  ASSUME PoolInv, PoolInv', CapturePost
  PROVE  Service!Accept(cap_sample) /\ cap_sample \in Samples
<1>1. cap_pc = "post" /\ cap_sample \in Samples /\ mbx_dsp \in Seq(Samples)
      /\ (proc_pc # "pend" => proc_sample \in Samples)
  BY DEF CapturePost, PoolInv, TypeInv, TypeOK, PointersSet
<1>2. /\ cap_sample \notin Range(mbx_dsp)
      /\ ~(proc_pc # "pend" /\ proc_sample = cap_sample)
      /\ \A d \in Dsps : ~DspHolds(d, cap_sample)
  BY <1>1 DEF PoolInv, SampleInv, SampleOnce, SamplePlaces, Count, Dsps
<1>3. cap_sample \notin Range(WaitingSamples)
  BY <1>1, <1>2, QueueIs
<1>4. cap_sample \notin DOMAIN SamplesAtWork
  <2>1. ASSUME NEW d \in Engaged PROVE sample_image_group[d] # cap_sample
    BY <1>2 DEF Engaged, DspHolds, PoolInv, SampleInv, Prepared
  <2>2. QED
    BY <2>1, WorkIs
<1>5. Len(WaitingSamples) < 3
  BY <1>1, QueueIs, SMTT(30) DEF PoolInv, PendingInv, PendingExact, TypeInv, TypeOK
<1>6. WaitingSamples' = Append(WaitingSamples, cap_sample)
  BY <1>1 DEF CapturePost, WaitingSamples, procVars
<1>7. SamplesAtWork' = SamplesAtWork
  BY DEF CapturePost, dspVars, procVars, SamplesAtWork, Engaged
<1>8. QED
  BY <1>1, <1>3, <1>4, <1>5, <1>6, <1>7 DEF Service!Accept, Service!Range, Range

\* image_process_tsk has a DSP and takes the oldest sample off the count: the
\* sample's work starts, with the parameters that DSP has.
LEMMA UncountStarts ==
  ASSUME PoolInv, PoolInv', ProcessUncount
  PROVE  Service!Start(dsp_params[proc_dsp]) /\ dsp_params[proc_dsp] \in ParamSets
<1>1. /\ proc_pc = "uncount" /\ proc_pc' = "post"
      /\ proc_dsp \in Dsps /\ proc_sample \in Samples /\ mbx_dsp \in Seq(Samples)
      /\ dsp_params[proc_dsp] \in ParamSets
      /\ sample_image_group[proc_dsp] = proc_sample
      /\ UNCHANGED <<mbx_dsp, proc_dsp, proc_sample, sem_img_ready, dsp_pc,
                     sample_image_group, dsp_params>>
  BY DEF ProcessUncount, PoolInv, TypeInv, TypeOK, PointersSet, SampleInv, Prepared,
     factoryVars, dspVars
<1>2. ~HeldByTask(proc_dsp)
  <2>1. HeldByProcess(proc_dsp)
    BY <1>1 DEF HeldByProcess
  <2>2. QED
    BY <1>1, <2>1 DEF PoolInv, HolderInv, OneHolder, Holders, Count
<1>3. proc_dsp \notin Engaged /\ Engaged' = Engaged \cup {proc_dsp}
  BY <1>1, <1>2 DEF Engaged, HeldByTask
<1>4. /\ WaitingSamples = <<proc_sample>> \o mbx_dsp
      /\ WaitingSamples # <<>>
      /\ Head(WaitingSamples) = proc_sample
      /\ Tail(WaitingSamples) = mbx_dsp
  BY <1>1 DEF WaitingSamples
<1>5. WaitingSamples' = mbx_dsp
  BY <1>1 DEF WaitingSamples
<1>6. Cardinality(DOMAIN SamplesAtWork) < 2
  <2>1. PICK x : Dsps \ {proc_dsp} \subseteq {x}
    BY <1>1 DEF Dsps
  <2>2. Engaged \subseteq {x}
    BY <1>3, <2>1, EngagedOnce
  <2>3. DOMAIN SamplesAtWork \subseteq {sample_image_group[x]}
    BY <2>2, WorkIs
  <2>4. /\ IsFiniteSet({sample_image_group[x]})
        /\ Cardinality({sample_image_group[x]}) = 1
    BY FS_Singleton
  <2>5. /\ Cardinality(DOMAIN SamplesAtWork) \in Nat
        /\ Cardinality(DOMAIN SamplesAtWork) <= Cardinality({sample_image_group[x]})
    BY <2>3, <2>4, FS_Subset, FS_CardinalityType
  <2>6. QED
    BY <2>4, <2>5
<1>7. proc_sample \notin DOMAIN SamplesAtWork
  <2>1. proc_dsp \in Engaged' /\ Engaged \subseteq Engaged'
    BY <1>3
  <2>2. \A d \in Engaged : sample_image_group[d] # proc_sample
    BY <1>1, <1>3, <2>1, EngagedOnceNext
  <2>3. QED
    BY <2>2, WorkIs
<1>8. SamplesAtWork' =
        [s \in DOMAIN SamplesAtWork \cup {proc_sample} |->
           IF s \in DOMAIN SamplesAtWork THEN SamplesAtWork[s] ELSE dsp_params[proc_dsp]]
  <2>1. DOMAIN SamplesAtWork' = DOMAIN SamplesAtWork \cup {proc_sample}
    BY <1>1, <1>3, WorkIs, WorkIsNext
  <2>2. ASSUME NEW s \in DOMAIN SamplesAtWork PROVE SamplesAtWork'[s] = SamplesAtWork[s]
    <3>1. PICK d \in Engaged : s = sample_image_group[d]
      BY WorkIs
    <3>2. QED
      BY <3>1, <1>1, <1>3, WorkIs, WorkIsNext
  <2>3. SamplesAtWork'[proc_sample] = dsp_params[proc_dsp]
    BY <1>1, <1>3, WorkIsNext
  <2>4. SamplesAtWork' = [s \in DOMAIN SamplesAtWork' |-> SamplesAtWork'[s]]
    BY DEF SamplesAtWork
  <2>5. QED
    BY <1>7, <2>1, <2>2, <2>3, <2>4
<1>9. QED
  BY <1>1, <1>4, <1>5, <1>6, <1>8 DEF Service!Start, Service!Cardinality, Cardinality

\* VIDDEC2_process returns, with or without success: the sample is reported.
LEMMA FinishReports ==
  ASSUME PoolInv, PoolInv', NEW d \in Dsps, DspFinish(d)
  PROVE  Service!Report(sample_image_group[d]) /\ sample_image_group[d] \in Samples
<1>1. /\ dsp_pc[d] = "process" /\ dsp_pc'[d] # "process"
      /\ \A e \in Dsps : e # d => dsp_pc'[e] = dsp_pc[e]
      /\ UNCHANGED <<mbx_dsp, proc_pc, proc_dsp, proc_sample, sem_img_ready,
                     sample_image_group, dsp_params>>
  BY DEF DspFinish, PoolInv, TypeInv, TypeOK, procVars
<1>2. sem_img_ready[d] = 0 /\ ~HeldByProcess(d)
  <2>1. sem_img_ready[d] \in Nat /\ sem_img_ready[d] <= 1 /\ sem_img_ready[d] # 1
    BY <1>1 DEF PoolInv, HolderInv, ReadyOnce, TypeInv, TypeOK
  <2>2. sem_img_ready[d] = 0 /\ HeldByTask(d)
    BY <1>1, <2>1 DEF HeldByTask
  <2>3. QED
    BY <2>2 DEF PoolInv, HolderInv, OneHolder, Holders, Count
<1>3. d \in Engaged /\ Engaged' = Engaged \ {d}
  BY <1>1, <1>2 DEF Engaged, HeldByProcess
<1>4. sample_image_group[d] \in Samples
  BY <1>3, EngagedOnce
<1>5. WaitingSamples' = WaitingSamples
  BY <1>1 DEF WaitingSamples
<1>6. SamplesAtWork' =
        Restrict(SamplesAtWork, DOMAIN SamplesAtWork \ {sample_image_group[d]})
  <2>1. DOMAIN SamplesAtWork' = DOMAIN SamplesAtWork \ {sample_image_group[d]}
    BY <1>1, <1>3, EngagedOnce, WorkIs, WorkIsNext
  <2>2. ASSUME NEW s \in DOMAIN SamplesAtWork' PROVE SamplesAtWork'[s] = SamplesAtWork[s]
    <3>1. PICK e \in Engaged' : s = sample_image_group'[e]
      BY WorkIsNext
    <3>2. QED
      BY <3>1, <1>1, <1>3, WorkIs, WorkIsNext
  <2>3. SamplesAtWork' = [s \in DOMAIN SamplesAtWork' |-> SamplesAtWork'[s]]
    BY DEF SamplesAtWork
  <2>4. QED
    BY <2>1, <2>2, <2>3 DEF Restrict
<1>7. sample_image_group[d] \in DOMAIN SamplesAtWork
  BY <1>3, WorkIs
<1>8. QED
  BY <1>4, <1>5, <1>6, <1>7 DEF Service!Report, Service!Restrict, Restrict

-----------------------------------------------------------------------------
(* Every other step changes nothing of the service.                        *)

\* A step that touches neither the mailbox, image_process_tsk nor the DSPs'
\* samples and parameters.
LEMMA QuietStep ==
  ASSUME UNCHANGED <<mbx_dsp, proc_pc, proc_sample, proc_dsp, sem_img_ready, dsp_pc,
                     sample_image_group, dsp_params>>
  PROVE  UNCHANGED ServiceVars
BY DEF ServiceVars, WaitingSamples, SamplesAtWork, Engaged

\* image_process_tsk takes a sample out of the mailbox, waits for a DSP, prepares
\* the one it gets and wakes its task: the sample keeps its turn until it is
\* taken off the count, and its DSP is engaged from then on.
LEMMA ProcessQuiet ==
  ASSUME PoolInv, PoolInv',
         ProcessPend \/ ProcessProduce \/ ProcessAssign \/ ProcessPost
  PROVE  UNCHANGED ServiceVars
<1>t. mbx_dsp \in Seq(Samples) /\ TypeOK /\ PointersSet
  BY DEF PoolInv, TypeInv, TypeOK
<1>1. CASE ProcessPend
  <2>1. WaitingSamples' = WaitingSamples
    BY <1>1, <1>t DEF ProcessPend, WaitingSamples
  <2>2. SamplesAtWork' = SamplesAtWork
    BY <1>1 DEF ProcessPend, dspVars, SamplesAtWork, Engaged
  <2>3. QED
    BY <2>1, <2>2 DEF ServiceVars
<1>2. CASE ProcessProduce
  <2>1. WaitingSamples' = WaitingSamples
    BY <1>2 DEF ProcessProduce, offerVars, WaitingSamples
  <2>2. proc_pc # "post" /\ proc_pc' # "post"
    BY <1>2 DEF ProcessProduce
  <2>3. SamplesAtWork' = SamplesAtWork
    <3>1. UNCHANGED <<sem_img_ready, dsp_pc, sample_image_group, dsp_params>>
      BY <1>2 DEF ProcessProduce, dspVars
    <3>2. Engaged' = Engaged
      BY <2>2, <3>1 DEF Engaged
    <3>3. QED
      BY <3>1, <3>2, WorkFrame
  <2>4. QED
    BY <2>1, <2>3 DEF ServiceVars
<1>3. CASE ProcessAssign
  <2>1. WaitingSamples' = WaitingSamples
    BY <1>3 DEF ProcessAssign, offerVars, WaitingSamples
  <2>2. proc_dsp \in Dsps /\ ~HeldByTask(proc_dsp)
    <3>1. proc_dsp \in Dsps /\ HeldByProcess(proc_dsp)
      BY <1>3, <1>t DEF ProcessAssign, PointersSet, HeldByProcess
    <3>2. QED
      BY <3>1 DEF PoolInv, HolderInv, OneHolder, Holders, Count
  <2>3. proc_dsp \notin Engaged /\ Engaged' = Engaged
    BY <1>3, <2>2 DEF ProcessAssign, Engaged, HeldByTask
  <2>4. \A d \in Dsps : d # proc_dsp => sample_image_group'[d] = sample_image_group[d]
    BY <1>3, <1>t DEF ProcessAssign, TypeOK
  <2>5. SamplesAtWork' = SamplesAtWork
    BY <1>3, <2>3, <2>4, EngagedOnce, WorkFrame DEF ProcessAssign
  <2>6. QED
    BY <2>1, <2>5 DEF ServiceVars
<1>4. CASE ProcessPost
  <2>1. WaitingSamples' = WaitingSamples
    BY <1>4 DEF ProcessPost, offerVars, WaitingSamples
  <2>2. proc_dsp \in Dsps /\ sem_img_ready[proc_dsp] \in Nat
        /\ \A d \in Dsps : sem_img_ready'[d] = IF d = proc_dsp THEN sem_img_ready[d] + 1
                                                             ELSE sem_img_ready[d]
    BY <1>4, <1>t DEF ProcessPost, TypeOK, PointersSet
  <2>3. Engaged' = Engaged
    BY <1>4, <2>2 DEF ProcessPost, Engaged
  <2>4. SamplesAtWork' = SamplesAtWork
    BY <1>4, <2>3, WorkFrame DEF ProcessPost
  <2>5. QED
    BY <2>1, <2>4 DEF ServiceVars
<1>5. QED
  BY <1>1, <1>2, <1>3, <1>4

\* A DSP's task begins, or gives the DSP back, or it is connected anew: none of
\* this changes which samples are at work.
LEMMA DspQuiet ==
  ASSUME PoolInv, PoolInv', NEW d \in Dsps,
         DspStart(d) \/ DspReset(d) \/ DspRecycle(d)
  PROVE  UNCHANGED ServiceVars
<1>t. /\ sem_img_ready \in [Dsps -> Nat] /\ DOMAIN dsp_pc = Dsps /\ DOMAIN dsp_params = Dsps
      /\ sem_img_ready[d] <= 1 /\ (sem_img_ready[d] = 1 => dsp_pc[d] = "wait")
  BY DEF PoolInv, TypeInv, TypeOK, HolderInv, ReadyOnce
<1>1. WaitingSamples' = WaitingSamples
  BY DEF DspStart, DspReset, DspRecycle, offerVars, procVars, WaitingSamples
<1>2. CASE DspStart(d)
  <2>1. Engaged' = Engaged
    BY <1>2, <1>t DEF DspStart, procVars, Engaged
  <2>2. QED
    BY <1>1, <1>2, <2>1, WorkFrame DEF DspStart, ServiceVars
<1>3. CASE DspReset(d)
  <2>1. sem_img_ready[d] = 0 /\ dsp_pc[d] = "reset"
    BY <1>3, <1>t DEF DspReset
  <2>2. ~HeldByProcess(d)
    BY <2>1 DEF PoolInv, HolderInv, OneHolder, Holders, Count, HeldByTask
  <2>3. d \notin Engaged
    BY <2>1, <2>2 DEF Engaged, HeldByProcess
  <2>4. \A e \in Dsps : /\ sem_img_ready'[e] = sem_img_ready[e]
                        /\ dsp_pc'[e] = IF e = d THEN "recycle" ELSE dsp_pc[e]
                        /\ e # d => dsp_params'[e] = dsp_params[e]
    BY <1>3, <1>t, <2>1 DEF DspReset
  <2>5. Engaged' = Engaged
    BY <1>3, <2>1, <2>4 DEF DspReset, procVars, Engaged
  <2>6. QED
    BY <1>1, <1>3, <2>3, <2>4, <2>5, EngagedOnce, WorkFrame DEF DspReset, ServiceVars
<1>4. CASE DspRecycle(d)
  <2>1. Engaged' = Engaged
    BY <1>4, <1>t DEF DspRecycle, procVars, Engaged
  <2>2. QED
    BY <1>1, <1>4, <2>1, WorkFrame DEF DspRecycle, ServiceVars
<1>5. QED
  BY <1>2, <1>3, <1>4

\* dsp_factory_rectify loads parameters only into a DSP it holds, which has no
\* sample: the work in progress keeps its own.
LEMMA UpdateQuiet ==
  ASSUME PoolInv, PoolInv', UpdateTask
  PROVE  UNCHANGED ServiceVars
<1>t. TypeOK /\ PointersSet
  BY DEF PoolInv, TypeInv
<1>f. ASSUME NEW d \in Dsps, HeldByUpdate1(d) \/ HeldByUpdate2(d),
             dsp_params' = [dsp_params EXCEPT ![d] = ReadParams],
             UNCHANGED <<mbx_dsp, proc_pc, proc_sample, proc_dsp, sem_img_ready, dsp_pc,
                         sample_image_group>>
      PROVE  UNCHANGED ServiceVars
  <2>1. ~HeldByTask(d) /\ ~HeldByProcess(d)
    BY <1>f DEF PoolInv, HolderInv, OneHolder, Holders, Count
  <2>2. d \notin Engaged
    BY <2>1 DEF Engaged, HeldByTask, HeldByProcess
  <2>3. Engaged' = Engaged /\ WaitingSamples' = WaitingSamples
    BY <1>f DEF Engaged, WaitingSamples
  <2>4. \A e \in Dsps : e # d => dsp_params'[e] = dsp_params[e]
    BY <1>f, <1>t DEF TypeOK
  <2>5. QED
    BY <1>f, <2>2, <2>3, <2>4, EngagedOnce, WorkFrame DEF ServiceVars
<1>1. CASE UpdateSet1
  <2>1. upd_p1 \in Dsps /\ HeldByUpdate1(upd_p1)
    BY <1>1, <1>t DEF UpdateSet1, PointersSet, HeldByUpdate1
  <2>2. QED
    BY <1>1, <1>f, <2>1 DEF UpdateSet1, offerVars, procVars
<1>2. CASE UpdateSet2
  <2>1. upd_p2 \in Dsps /\ HeldByUpdate2(upd_p2)
    BY <1>2, <1>t DEF UpdateSet2, PointersSet, HeldByUpdate2
  <2>2. QED
    BY <1>2, <1>f, <2>1 DEF UpdateSet2, offerVars, procVars
<1>3. CASE ~UpdateSet1 /\ ~UpdateSet2
  BY <1>3, QuietStep DEF UpdateTask, UpdateWait, UpdateFlag, UpdatePoll, UpdateProduce1,
     UpdateProduce2, UpdateRecycle1, UpdateRecycle2, UpdateClear, dspVars, offerVars,
     procVars
<1>4. QED
  BY <1>1, <1>2, <1>3

-----------------------------------------------------------------------------
\* The pool starts as the service does: nothing waits and nothing is at work.
LEMMA ServiceStarts == Init => Service!ServiceInit
<1> SUFFICES ASSUME Init PROVE WaitingSamples = <<>> /\ SamplesAtWork = [s \in {} |-> 0]
  BY DEF Service!ServiceInit
<1>1. WaitingSamples = <<>>
  BY DEF Init, WaitingSamples
<1>2. Engaged = {}
  BY DEF Init, Engaged
<1>3. DOMAIN SamplesAtWork = {} /\ SamplesAtWork = [s \in DOMAIN SamplesAtWork |-> SamplesAtWork[s]]
  BY <1>2 DEF SamplesAtWork
<1>4. QED
  BY <1>1, <1>3

\* One step per action of the pool: it is one of the service's, or none of them.
LEMMA ServiceSteps ==
  ASSUME ~SimEnabled
  PROVE  PoolInv /\ PoolInv' /\ [Next]_vars => [Service!ServiceNext]_(Service!serviceVars)
<1> SUFFICES ASSUME PoolInv, PoolInv', [Next]_vars
             PROVE  Service!ServiceNext \/ UNCHANGED ServiceVars
  BY DEF Service!serviceVars, ServiceVars
<1>1. CASE CapturePost
  BY <1>1, PostAccepts DEF Service!ServiceNext
<1>2. CASE ProcessUncount
  BY <1>2, UncountStarts DEF Service!ServiceNext
<1>3. ASSUME NEW d \in Dsps, DspFinish(d) PROVE Service!ServiceNext
  BY <1>3, FinishReports DEF Service!ServiceNext
<1>4. CASE ProcessPend \/ ProcessProduce \/ ProcessAssign \/ ProcessPost
  BY <1>4, ProcessQuiet
<1>5. ASSUME NEW d \in Dsps, DspStart(d) \/ DspReset(d) \/ DspRecycle(d)
      PROVE  UNCHANGED ServiceVars
  BY <1>5, DspQuiet
<1>6. CASE UpdateTask
  BY <1>6, UpdateQuiet
<1>7. CASE SpuriousWakeup \/ UseAfterFree
           \/ (\E s \in Samples : CaptureCheck(s) \/ SimPost(s))
           \/ (\E t \in Setters : SetParamsBegin(t) \/ SetParamsEnd(t))
  BY <1>7, QuietStep DEF SpuriousWakeup, UseAfterFree, CaptureCheck, SimPost,
     SetParamsBegin, SetParamsEnd, dspVars, offerVars, procVars
<1>8. CASE UNCHANGED vars
  BY <1>8, QuietStep DEF vars, dspVars, offerVars, procVars
<1>9. QED
  BY <1>1, <1>2, <1>3, <1>4, <1>5, <1>6, <1>7, <1>8 DEF Next, ProcessTask, DspTask

\* Without simulated samples the pool implements the service, for any number of
\* sample groups, setters and updates, with or without DSP failures: a sample is
\* accepted, started and reported exactly once and in turn, and keeps its
\* parameters while a DSP judges it (video_context.c:409-423, 629-652,
\* dsp_context.c:42-118, dsp.c:538-615).
THEOREM PoolProvidesService ==
  ASSUME ~SimEnabled PROVE Spec => ProvidesService
<1>1. Init => PoolInv
  BY TypeInit, HolderInit, PendingInit, SampleInit, AssignedInit DEF PoolInv
<1>2. PoolInv /\ [Next]_vars => PoolInv'
  BY TypeNext, HolderNext, PendingNext, SampleNext, AssignedNext DEF PoolInv
<1>3. PoolInv /\ PoolInv' /\ [Next]_vars => [Service!ServiceNext]_(Service!serviceVars)
  BY ServiceSteps
<1>4. QED
  BY <1>1, <1>2, <1>3, ServiceStarts, PTL DEF Spec, ProvidesService, Service!ServiceSpec
=============================================================================
