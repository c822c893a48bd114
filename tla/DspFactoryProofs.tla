-------------------------- MODULE DspFactoryProofs --------------------------
(* Proofs about DspFactory: type correctness, one holder per DSP, a stable *)
(* job, parameters that end up current, and the exact g_img_not_process.   *)
EXTENDS DspFactory, ListFacts

-----------------------------------------------------------------------------
(* Type correctness.  Which local pointers are set depends on where their  *)
(* thread is.                                                              *)

PointersSet ==
  /\ cap_pc = "post" => cap_sample \in Samples
  /\ proc_pc # "pend" => proc_sample \in Samples
  /\ proc_pc \in {"assign", "uncount", "post"} => proc_dsp \in Dsps
  /\ upd_pc \in {"set1", "produce2", "set2", "recycle1", "recycle2"}
       => upd_p1 \in Dsps
  /\ upd_pc \in {"set2", "recycle1", "recycle2"} => upd_p2 \in Dsps

TypeInv == TypeOK /\ PointersSet

\* A thread that gets a DSP from the factory gets an element of the idle list.
LEMMA ProduceType ==
  ASSUME TypeOK, NEW t, DspFactoryProduce(t)
  PROVE  /\ idle_list' \in Seq(Dsps) /\ busy_list' \subseteq Dsps
         /\ cond_wait' \subseteq {"process", "update"}
         /\ Head(idle_list) \in Dsps
BY TailFacts DEF TypeOK, DspFactoryProduce

\* Waiting changes nothing but the set of waiters.
LEMMA WaitType ==
  ASSUME TypeOK, NEW t \in {"process", "update"}, DspFactoryWait(t)
  PROVE  /\ idle_list' \in Seq(Dsps) /\ busy_list' \subseteq Dsps
         /\ cond_wait' \subseteq {"process", "update"}
BY DEF TypeOK, DspFactoryWait

\* Giving a DSP back keeps the lists lists of DSPs.
LEMMA RecycleType ==
  ASSUME TypeOK, NEW d \in Dsps, DspFactoryRecycle(d)
  PROVE  /\ idle_list' \in Seq(Dsps) /\ busy_list' \subseteq Dsps
         /\ cond_wait' \subseteq {"process", "update"}
BY AppendFacts DEF TypeOK, DspFactoryRecycle, CondSignal

\* What a codec reads from the mapping is a parameter set.
LEMMA ReadParamsType ==
  ASSUME TypeOK PROVE ReadParams \in ParamSets
BY DspFactoryAssumption DEF TypeOK, ReadParams, Partial, ParamSets

\* At start-up every variable has its type.
LEMMA TypeInit == Init => TypeInv
<1> SUFFICES ASSUME Init PROVE TypeInv
  OBVIOUS
<1>1. idle_list \in Seq(Dsps)
  BY DEF Init, Dsps
<1>2. mbx_dsp \in Seq(Samples)
  BY DEF Init
<1>3. 0 \in ParamSets /\ 0 \in 0 .. MaxUpdates /\ 0 \in 0 .. (CountModulus - 1)
  BY DspFactoryAssumption DEF ParamSets
<1>4. QED
  BY <1>1, <1>2, <1>3 DEF Init, TypeInv, TypeOK, PointersSet, ProcessPcs, UpdatePcs

\* Each step of a thread keeps the types.
LEMMA TypeNext == TypeInv /\ [Next]_vars => TypeInv'
<1> USE DspFactoryAssumption
<1> USE DEF vars, factoryVars, dspVars, offerVars, procVars, memVars, updVars
<1> SUFFICES ASSUME TypeInv, [Next]_vars PROVE TypeInv'
  OBVIOUS
<1> USE DEF TypeInv, PointersSet
<1>1. CASE SpuriousWakeup
  BY <1>1 DEF SpuriousWakeup, TypeOK
<1>2. ASSUME NEW s \in Samples, CaptureCheck(s) PROVE TypeInv'
  BY <1>2 DEF CaptureCheck, TypeOK
<1>3. ASSUME NEW s \in Samples, SimPost(s) PROVE TypeInv'
  BY <1>3, AppendFacts DEF SimPost, TypeOK
<1>4. CASE CapturePost
  BY <1>4, AppendFacts DEF CapturePost, TypeOK, U32Inc
<1>5. CASE ProcessPend
  BY <1>5, TailFacts DEF ProcessPend, TypeOK, ProcessPcs
<1>6. CASE ProcessProduce
  BY <1>6, ProduceType, WaitType DEF ProcessProduce, TypeOK, ProcessPcs
<1>7. CASE ProcessAssign
  BY <1>7 DEF ProcessAssign, TypeOK, ProcessPcs
<1>8. CASE ProcessUncount
  BY <1>8 DEF ProcessUncount, TypeOK, ProcessPcs, U32Dec
<1>9. CASE ProcessPost
  BY <1>9 DEF ProcessPost, TypeOK, ProcessPcs
<1>10. ASSUME NEW d \in Dsps, DspStart(d) PROVE TypeInv'
  BY <1>10 DEF DspStart, TypeOK
<1>11. ASSUME NEW d \in Dsps, DspFinish(d) PROVE TypeInv'
  BY <1>11, ZenonT(30) DEF DspFinish, TypeOK
<1>12. ASSUME NEW d \in Dsps, DspReset(d) PROVE TypeInv'
  <2>1. ReadParams \in ParamSets
    BY ReadParamsType
  <2>2. /\ freed' \subseteq Dsps
        /\ sem_img_ready' \in [Dsps -> Nat]
        /\ dsp_params' \in [Dsps -> ParamSets]
        /\ dsp_pc' \in [Dsps -> {"wait", "process", "reset", "recycle"}]
    BY <1>12, <2>1 DEF DspReset, TypeOK
  <2>3. QED
    BY <1>12, <2>2 DEF DspReset, TypeOK
<1>13. ASSUME NEW d \in Dsps, DspRecycle(d) PROVE TypeInv'
  BY <1>13, RecycleType DEF DspRecycle, TypeOK
<1>14. CASE UseAfterFree
  BY <1>14 DEF UseAfterFree, TypeOK
<1>15. ASSUME NEW t \in Setters, SetParamsBegin(t) PROVE TypeInv'
  BY <1>15 DEF SetParamsBegin, TypeOK
<1>16. ASSUME NEW t \in Setters, SetParamsEnd(t) PROVE TypeInv'
  BY <1>16, SMTT(30) DEF SetParamsEnd, TypeOK, ParamSets
<1>17. CASE UpdateWait
  BY <1>17 DEF UpdateWait, TypeOK, UpdatePcs
<1>18. CASE UpdateFlag
  BY <1>18 DEF UpdateFlag, TypeOK, UpdatePcs
<1>19. CASE UpdatePoll
  BY <1>19 DEF UpdatePoll, TypeOK, UpdatePcs
<1>20. CASE UpdateProduce1
  BY <1>20, ProduceType, WaitType DEF UpdateProduce1, TypeOK, UpdatePcs
<1>21. CASE UpdateSet1
  BY <1>21, ReadParamsType DEF UpdateSet1, TypeOK, UpdatePcs
<1>22. CASE UpdateProduce2
  BY <1>22, ProduceType, WaitType DEF UpdateProduce2, TypeOK, UpdatePcs
<1>23. CASE UpdateSet2
  BY <1>23, ReadParamsType DEF UpdateSet2, TypeOK, UpdatePcs
<1>24. CASE UpdateRecycle1
  BY <1>24, RecycleType DEF UpdateRecycle1, TypeOK, UpdatePcs
<1>25. CASE UpdateRecycle2
  BY <1>25, RecycleType DEF UpdateRecycle2, TypeOK, UpdatePcs
<1>26. CASE UpdateClear
  BY <1>26 DEF UpdateClear, TypeOK, UpdatePcs
<1>27. CASE UNCHANGED vars
  BY <1>27 DEF TypeOK
<1>28. QED
  BY <1>1, <1>2, <1>3, <1>4, <1>5, <1>6, <1>7, <1>8, <1>9, <1>10, <1>11, <1>12,
     <1>13, <1>14, <1>15, <1>16, <1>17, <1>18, <1>19, <1>20, <1>21, <1>22,
     <1>23, <1>24, <1>25, <1>26, <1>27
     DEF Next, ProcessTask, DspTask, UpdateTask

\* Every variable keeps to its type, for any number of groups, setters and
\* updates, with or without simulation and DSP failures.
THEOREM TypeCorrect == Spec => []TypeOK
<1>1. TypeInv => TypeOK
  BY DEF TypeInv
<1>2. QED
  BY <1>1, TypeInit, TypeNext, PTL DEF Spec

-----------------------------------------------------------------------------
(* One holder per DSP.  sem_img_ready is a hand-over, not a queue: it is    *)
(* posted only while the DSP's task waits.                                  *)

ReadyOnce ==
  \A d \in Dsps : /\ sem_img_ready[d] <= 1
                  /\ sem_img_ready[d] = 1 => dsp_pc[d] = "wait"

HolderInv == OneHolder /\ ReadyOnce

\* dsp_factory_produce moves the head of the idle list, and nothing else, to
\* its caller.
LEMMA ProduceHolder ==
  ASSUME TypeOK, OneHolder, NEW t, DspFactoryProduce(t)
  PROVE  /\ IsInjective(idle_list)'
         /\ Head(idle_list) \in Dsps
         /\ HeldByFactory(Head(idle_list))
         /\ \A d \in Dsps : /\ HeldByFactory(d)' <=> HeldByFactory(d) /\ d # Head(idle_list)
                            /\ d \in busy_list' <=> ~HeldByFactory(d)'
BY TailFacts DEF TypeOK, OneHolder, DspFactoryProduce, HeldByFactory

\* dsp_factory_recycle of a DSP that is out of the factory brings it back.
LEMMA RecycleHolder ==
  ASSUME TypeOK, OneHolder, NEW c \in Dsps, ~HeldByFactory(c), DspFactoryRecycle(c)
  PROVE  /\ IsInjective(idle_list)'
         /\ \A d \in Dsps : /\ HeldByFactory(d)' <=> HeldByFactory(d) \/ d = c
                            /\ d \in busy_list' <=> ~HeldByFactory(d)'
BY AppendFacts DEF TypeOK, OneHolder, DspFactoryRecycle, HeldByFactory

\* At start-up the pool holds both DSPs and no thread holds any.
LEMMA HolderInit == Init => HolderInv
<1> SUFFICES ASSUME Init PROVE HolderInv
  OBVIOUS
<1>1. IsInjective(idle_list) /\ Range(idle_list) = Dsps
  <2>1. idle_list = <<Dsp1, Dsp2>> /\ Dsp1 # Dsp2
    BY DspFactoryAssumption DEF Init
  <2>2. QED
    BY <2>1 DEF IsInjective, Range, Dsps
<1>2. QED
  BY <1>1 DEF Init, HolderInv, OneHolder, ReadyOnce, Holders, Count, HeldByFactory,
     HeldByProcess, HeldByUpdate1, HeldByUpdate2, HeldByTask

\* A DSP changes hands only in dsp_factory_consume, the hand-over and its report.
LEMMA HolderNext == TypeInv /\ HolderInv /\ [Next]_vars => HolderInv'
<1> USE DEF vars, factoryVars, dspVars, offerVars, procVars, memVars, updVars
<1> SUFFICES ASSUME TypeInv, HolderInv, [Next]_vars PROVE HolderInv'
  OBVIOUS
<1> USE DEF HolderInv, ReadyOnce
<1>t. TypeOK /\ PointersSet
  BY DEF TypeInv
<1>f. ASSUME UNCHANGED <<idle_list, busy_list, sem_img_ready, dsp_pc, proc_pc,
                         proc_dsp, upd_pc, upd_p1, upd_p2>>
      PROVE  HolderInv'
  BY <1>f DEF OneHolder, Holders, Count, HeldByFactory, HeldByProcess,
     HeldByUpdate1, HeldByUpdate2, HeldByTask
<1>1. CASE SpuriousWakeup
  BY <1>1, <1>f DEF SpuriousWakeup
<1>2. ASSUME NEW s \in Samples, CaptureCheck(s) PROVE HolderInv'
  BY <1>2, <1>f DEF CaptureCheck
<1>3. ASSUME NEW s \in Samples, SimPost(s) PROVE HolderInv'
  BY <1>3, <1>f DEF SimPost
<1>4. CASE CapturePost
  BY <1>4, <1>f DEF CapturePost
<1>5. CASE ProcessPend
  BY <1>5, <1>t DEF ProcessPend, OneHolder, Holders, Count, HeldByFactory,
     HeldByProcess, HeldByUpdate1, HeldByUpdate2, HeldByTask
<1>6. CASE ProcessProduce
  <2>1. CASE DspFactoryProduce("process") /\ proc_dsp' = Head(idle_list) /\ proc_pc' = "assign"
    <3>1. \A d \in Dsps : HeldByProcess(d)' <=> d = Head(idle_list)
      BY <2>1, <1>6, <1>t, ProduceHolder DEF ProcessProduce, HeldByProcess
    <3>2. \A d \in Dsps : ~HeldByProcess(d)
      BY <1>6 DEF ProcessProduce, HeldByProcess
    <3>3. \A d \in Dsps : /\ HeldByUpdate1(d)' <=> HeldByUpdate1(d)
                          /\ HeldByUpdate2(d)' <=> HeldByUpdate2(d)
                          /\ HeldByTask(d)' <=> HeldByTask(d)
      BY <2>1, <1>6 DEF ProcessProduce, HeldByUpdate1, HeldByUpdate2, HeldByTask
    <3>4. UNCHANGED <<sem_img_ready, dsp_pc>>
      BY <1>6 DEF ProcessProduce
    <3>5. /\ IsInjective(idle_list)'
          /\ HeldByFactory(Head(idle_list))
          /\ \A d \in Dsps : /\ HeldByFactory(d)' <=> HeldByFactory(d) /\ d # Head(idle_list)
                             /\ d \in busy_list' <=> ~HeldByFactory(d)'
      BY <2>1, <1>t, ProduceHolder
    <3>6. ASSUME NEW d \in Dsps PROVE Holders(d)' = 1
      <4>1. Holders(d) = 1
        BY DEF OneHolder
      <4>2. QED
        BY <4>1, <3>1, <3>2, <3>3, <3>5 DEF Holders, Count
    <3>7. ReadyOnce'
      BY <3>4
    <3>8. QED
      BY <3>5, <3>6, <3>7 DEF OneHolder
  <2>2. CASE DspFactoryWait("process") /\ UNCHANGED <<proc_dsp, proc_pc>>
    BY <2>2, <1>6, <1>f DEF ProcessProduce, DspFactoryWait
  <2>3. QED
    BY <2>1, <2>2, <1>6 DEF ProcessProduce
<1>7. CASE ProcessAssign
  BY <1>7, <1>t DEF ProcessAssign, OneHolder, Holders, Count, HeldByFactory,
     HeldByProcess, HeldByUpdate1, HeldByUpdate2, HeldByTask
<1>8. CASE ProcessUncount
  BY <1>8, <1>t DEF ProcessUncount, OneHolder, Holders, Count, HeldByFactory,
     HeldByProcess, HeldByUpdate1, HeldByUpdate2, HeldByTask
<1>9. CASE ProcessPost
  BY <1>9, <1>t DEF ProcessPost, PointersSet, TypeOK, OneHolder, Holders, Count,
     HeldByFactory, HeldByProcess, HeldByUpdate1, HeldByUpdate2, HeldByTask
<1>d. ASSUME UNCHANGED <<idle_list, busy_list, proc_pc, proc_dsp, upd_pc, upd_p1, upd_p2>>,
             \A d \in Dsps : HeldByTask(d)' <=> HeldByTask(d),
             ReadyOnce'
      PROVE  HolderInv'
  BY <1>d DEF OneHolder, Holders, Count, HeldByFactory, HeldByProcess,
     HeldByUpdate1, HeldByUpdate2
<1>10. ASSUME NEW d \in Dsps, DspStart(d) PROVE HolderInv'
  <2>1. \A e \in Dsps : HeldByTask(e)' <=> HeldByTask(e)
    BY <1>10, <1>t DEF DspStart, TypeOK, HeldByTask
  <2>2. ReadyOnce'
    BY <1>10, <1>t DEF DspStart, TypeOK
  <2>3. QED
    BY <1>10, <1>d, <2>1, <2>2 DEF DspStart
<1>11. ASSUME NEW d \in Dsps, DspFinish(d) PROVE HolderInv'
  <2>1. \A e \in Dsps : HeldByTask(e)' <=> HeldByTask(e)
    BY <1>11, <1>t DEF DspFinish, TypeOK, HeldByTask
  <2>2. ReadyOnce'
    BY <1>11, <1>t DEF DspFinish, TypeOK
  <2>3. QED
    BY <1>11, <1>d, <2>1, <2>2 DEF DspFinish
<1>12. ASSUME NEW d \in Dsps, DspReset(d) PROVE HolderInv'
  <2>1. \A e \in Dsps : HeldByTask(e)' <=> HeldByTask(e)
    BY <1>12, <1>t DEF DspReset, TypeOK, HeldByTask
  <2>2. ReadyOnce'
    BY <1>12, <1>t DEF DspReset, TypeOK
  <2>3. QED
    BY <1>12, <1>d, <2>1, <2>2 DEF DspReset
<1>13. ASSUME NEW d \in Dsps, DspRecycle(d) PROVE HolderInv'
  <2>1. HeldByTask(d) /\ ~HeldByFactory(d) /\ sem_img_ready[d] = 0
    <3>1. HeldByTask(d) /\ sem_img_ready[d] \in Nat /\ ~(sem_img_ready[d] = 1)
      BY <1>13, <1>t DEF DspRecycle, TypeOK, HeldByTask
    <3>2. ~HeldByFactory(d)
      BY <3>1 DEF OneHolder, Holders, Count
    <3>3. sem_img_ready[d] <= 1
      BY DEF ReadyOnce
    <3>4. QED
      BY <3>1, <3>2, <3>3
  <2>2. QED
    <3>1. \A e \in Dsps : HeldByTask(e)' <=> HeldByTask(e) /\ e # d
      BY <1>13, <2>1, <1>t DEF DspRecycle, HeldByTask, TypeOK
    <3>2. \A e \in Dsps : /\ HeldByProcess(e)' <=> HeldByProcess(e)
                          /\ HeldByUpdate1(e)' <=> HeldByUpdate1(e)
                          /\ HeldByUpdate2(e)' <=> HeldByUpdate2(e)
      BY <1>13, <1>t DEF DspRecycle, HeldByProcess, HeldByUpdate1, HeldByUpdate2, TypeOK
    <3>3. DspFactoryRecycle(d) /\ sem_img_ready' = sem_img_ready
      BY <1>13 DEF DspRecycle
    <3>4. ReadyOnce'
      BY <1>13, <2>1, <1>t DEF DspRecycle, TypeOK
    <3>5. /\ IsInjective(idle_list)'
          /\ \A e \in Dsps : /\ HeldByFactory(e)' <=> HeldByFactory(e) \/ e = d
                             /\ e \in busy_list' <=> ~HeldByFactory(e)'
      BY <1>t, <2>1, <3>3, RecycleHolder
    <3>6. ASSUME NEW e \in Dsps PROVE Holders(e)' = 1
      <4>1. Holders(e) = 1
        BY DEF OneHolder
      <4>2. QED
        BY <4>1, <2>1, <3>1, <3>2, <3>5 DEF Holders, Count
    <3>7. QED
      BY <3>4, <3>5, <3>6 DEF OneHolder
<1>14. CASE UseAfterFree
  BY <1>14, <1>f DEF UseAfterFree
<1>15. ASSUME NEW t \in Setters, SetParamsBegin(t) PROVE HolderInv'
  BY <1>15, <1>f DEF SetParamsBegin
<1>16. ASSUME NEW t \in Setters, SetParamsEnd(t) PROVE HolderInv'
  BY <1>16, <1>f DEF SetParamsEnd
<1>u. ASSUME UNCHANGED <<idle_list, busy_list, sem_img_ready, dsp_pc, proc_pc, proc_dsp>>,
             \A d \in Dsps : /\ HeldByUpdate1(d)' = HeldByUpdate1(d)
                             /\ HeldByUpdate2(d)' = HeldByUpdate2(d)
      PROVE  HolderInv'
  BY <1>u DEF OneHolder, Holders, Count, HeldByFactory, HeldByProcess, HeldByTask
<1>17. CASE UpdateWait
  BY <1>17, <1>u DEF UpdateWait, HeldByUpdate1, HeldByUpdate2
<1>18. CASE UpdateFlag
  BY <1>18, <1>u DEF UpdateFlag, HeldByUpdate1, HeldByUpdate2
<1>19. CASE UpdatePoll
  BY <1>19, <1>u DEF UpdatePoll, HeldByUpdate1, HeldByUpdate2
<1>20. CASE UpdateProduce1
  <2>1. CASE DspFactoryProduce("update") /\ upd_p1' = Head(idle_list) /\ upd_pc' = "set1"
    <3>1. \A d \in Dsps : HeldByUpdate1(d)' <=> d = Head(idle_list)
      BY <2>1, <1>20, <1>t, ProduceHolder DEF UpdateProduce1, HeldByUpdate1
    <3>2. \A d \in Dsps : ~HeldByUpdate1(d)
      BY <1>20 DEF UpdateProduce1, HeldByUpdate1
    <3>3. \A d \in Dsps : /\ HeldByProcess(d)' <=> HeldByProcess(d)
                          /\ HeldByUpdate2(d)' <=> HeldByUpdate2(d)
                          /\ HeldByTask(d)' <=> HeldByTask(d)
      BY <2>1, <1>20 DEF UpdateProduce1, HeldByProcess, HeldByUpdate2, HeldByTask
    <3>4. UNCHANGED <<sem_img_ready, dsp_pc>>
      BY <1>20 DEF UpdateProduce1
    <3>5. /\ IsInjective(idle_list)'
          /\ HeldByFactory(Head(idle_list))
          /\ \A d \in Dsps : /\ HeldByFactory(d)' <=> HeldByFactory(d) /\ d # Head(idle_list)
                             /\ d \in busy_list' <=> ~HeldByFactory(d)'
      BY <2>1, <1>t, ProduceHolder
    <3>6. ASSUME NEW d \in Dsps PROVE Holders(d)' = 1
      <4>1. Holders(d) = 1
        BY DEF OneHolder
      <4>2. QED
        BY <4>1, <3>1, <3>2, <3>3, <3>5 DEF Holders, Count
    <3>7. ReadyOnce'
      BY <3>4
    <3>8. QED
      BY <3>5, <3>6, <3>7 DEF OneHolder
  <2>2. CASE DspFactoryWait("update") /\ UNCHANGED <<upd_p1, upd_pc>>
    BY <2>2, <1>20, <1>f DEF UpdateProduce1, DspFactoryWait
  <2>3. QED
    BY <2>1, <2>2, <1>20 DEF UpdateProduce1
<1>21. CASE UpdateSet1
  BY <1>21, <1>u DEF UpdateSet1, HeldByUpdate1, HeldByUpdate2
<1>22. CASE UpdateProduce2
  <2>1. CASE DspFactoryProduce("update") /\ upd_p2' = Head(idle_list) /\ upd_pc' = "set2"
    <3>1. \A d \in Dsps : HeldByUpdate2(d)' <=> d = Head(idle_list)
      BY <2>1, <1>22, <1>t, ProduceHolder DEF UpdateProduce2, HeldByUpdate2
    <3>2. \A d \in Dsps : ~HeldByUpdate2(d)
      BY <1>22 DEF UpdateProduce2, HeldByUpdate2
    <3>3. \A d \in Dsps : /\ HeldByProcess(d)' <=> HeldByProcess(d)
                          /\ HeldByUpdate1(d)' <=> HeldByUpdate1(d)
                          /\ HeldByTask(d)' <=> HeldByTask(d)
      BY <2>1, <1>22 DEF UpdateProduce2, HeldByProcess, HeldByUpdate1, HeldByTask
    <3>4. UNCHANGED <<sem_img_ready, dsp_pc>>
      BY <1>22 DEF UpdateProduce2
    <3>5. /\ IsInjective(idle_list)'
          /\ HeldByFactory(Head(idle_list))
          /\ \A d \in Dsps : /\ HeldByFactory(d)' <=> HeldByFactory(d) /\ d # Head(idle_list)
                             /\ d \in busy_list' <=> ~HeldByFactory(d)'
      BY <2>1, <1>t, ProduceHolder
    <3>6. ASSUME NEW d \in Dsps PROVE Holders(d)' = 1
      <4>1. Holders(d) = 1
        BY DEF OneHolder
      <4>2. QED
        BY <4>1, <3>1, <3>2, <3>3, <3>5 DEF Holders, Count
    <3>7. ReadyOnce'
      BY <3>4
    <3>8. QED
      BY <3>5, <3>6, <3>7 DEF OneHolder
  <2>2. CASE DspFactoryWait("update") /\ UNCHANGED <<upd_p2, upd_pc>>
    BY <2>2, <1>22, <1>f DEF UpdateProduce2, DspFactoryWait
  <2>3. QED
    BY <2>1, <2>2, <1>22 DEF UpdateProduce2
<1>23. CASE UpdateSet2
  BY <1>23, <1>u DEF UpdateSet2, HeldByUpdate1, HeldByUpdate2
<1>24. CASE UpdateRecycle1
  <2>1. upd_p1 \in Dsps /\ HeldByUpdate1(upd_p1) /\ ~HeldByFactory(upd_p1)
    BY <1>24, <1>t DEF UpdateRecycle1, PointersSet, OneHolder, Holders, Count, HeldByUpdate1
  <2>2. QED
    <3>1. \A e \in Dsps : HeldByUpdate1(e)' <=> HeldByUpdate1(e) /\ e # upd_p1
      BY <1>24, <2>1, <1>t DEF UpdateRecycle1, HeldByUpdate1, TypeOK
    <3>2. \A e \in Dsps : /\ HeldByProcess(e)' <=> HeldByProcess(e)
                          /\ HeldByUpdate2(e)' <=> HeldByUpdate2(e)
                          /\ HeldByTask(e)' <=> HeldByTask(e)
      BY <1>24, <1>t DEF UpdateRecycle1, HeldByProcess, HeldByUpdate2, HeldByTask, TypeOK
    <3>3. DspFactoryRecycle(upd_p1) /\ sem_img_ready' = sem_img_ready
      BY <1>24 DEF UpdateRecycle1
    <3>4. ReadyOnce'
      BY <1>24, <2>1, <1>t DEF UpdateRecycle1, TypeOK
    <3>5. /\ IsInjective(idle_list)'
          /\ \A e \in Dsps : /\ HeldByFactory(e)' <=> HeldByFactory(e) \/ e = upd_p1
                             /\ e \in busy_list' <=> ~HeldByFactory(e)'
      BY <1>t, <2>1, <3>3, RecycleHolder
    <3>6. ASSUME NEW e \in Dsps PROVE Holders(e)' = 1
      <4>1. Holders(e) = 1
        BY DEF OneHolder
      <4>2. QED
        BY <4>1, <2>1, <3>1, <3>2, <3>5 DEF Holders, Count
    <3>7. QED
      BY <3>4, <3>5, <3>6 DEF OneHolder
<1>25. CASE UpdateRecycle2
  <2>1. upd_p2 \in Dsps /\ HeldByUpdate2(upd_p2) /\ ~HeldByFactory(upd_p2)
    BY <1>25, <1>t DEF UpdateRecycle2, PointersSet, OneHolder, Holders, Count, HeldByUpdate2
  <2>2. QED
    <3>1. \A e \in Dsps : HeldByUpdate2(e)' <=> HeldByUpdate2(e) /\ e # upd_p2
      BY <1>25, <2>1, <1>t DEF UpdateRecycle2, HeldByUpdate2, TypeOK
    <3>2. \A e \in Dsps : /\ HeldByProcess(e)' <=> HeldByProcess(e)
                          /\ HeldByUpdate1(e)' <=> HeldByUpdate1(e)
                          /\ HeldByTask(e)' <=> HeldByTask(e)
      BY <1>25, <1>t DEF UpdateRecycle2, HeldByProcess, HeldByUpdate1, HeldByTask, TypeOK
    <3>3. DspFactoryRecycle(upd_p2) /\ sem_img_ready' = sem_img_ready
      BY <1>25 DEF UpdateRecycle2
    <3>4. ReadyOnce'
      BY <1>25, <2>1, <1>t DEF UpdateRecycle2, TypeOK
    <3>5. /\ IsInjective(idle_list)'
          /\ \A e \in Dsps : /\ HeldByFactory(e)' <=> HeldByFactory(e) \/ e = upd_p2
                             /\ e \in busy_list' <=> ~HeldByFactory(e)'
      BY <1>t, <2>1, <3>3, RecycleHolder
    <3>6. ASSUME NEW e \in Dsps PROVE Holders(e)' = 1
      <4>1. Holders(e) = 1
        BY DEF OneHolder
      <4>2. QED
        BY <4>1, <2>1, <3>1, <3>2, <3>5 DEF Holders, Count
    <3>7. QED
      BY <3>4, <3>5, <3>6 DEF OneHolder
<1>26. CASE UpdateClear
  BY <1>26, <1>u DEF UpdateClear, HeldByUpdate1, HeldByUpdate2
<1>27. CASE UNCHANGED vars
  BY <1>27, <1>f
<1>28. QED
  BY <1>1, <1>2, <1>3, <1>4, <1>5, <1>6, <1>7, <1>8, <1>9, <1>10, <1>11, <1>12,
     <1>13, <1>14, <1>15, <1>16, <1>17, <1>18, <1>19, <1>20, <1>21, <1>22,
     <1>23, <1>24, <1>25, <1>26, <1>27
     DEF Next, ProcessTask, DspTask, UpdateTask

\* Each DSP always has exactly one holder: the factory, image_process_tsk,
\* dsp_factory_rectify or the DSP's own task.
THEOREM DspHasOneHolder == Spec => []OneHolder
<1>1. HolderInv => OneHolder
  BY DEF HolderInv
<1>2. QED
  BY <1>1, TypeInit, TypeNext, HolderInit, HolderNext, PTL DEF Spec

-----------------------------------------------------------------------------
(* The job of a DSP.  Only ProcessAssign writes sample_image_group, and it *)
(* writes that of the DSP image_process_tsk holds.                         *)

\* The group pointer of a DSP does not move while its task needs it.
THEOREM JobsAreStable == Spec => JobStable
<1> DEFINE Stable ==
      \A d \in Dsps : sem_img_ready[d] > 0 \/ dsp_pc[d] = "process"
                        => sample_image_group'[d] = sample_image_group[d]
<1>1. TypeInv /\ HolderInv /\ [Next]_vars => [Stable]_vars
  <2> SUFFICES ASSUME TypeInv, HolderInv, Next PROVE Stable
    OBVIOUS
  <2>1. CASE sample_image_group' = sample_image_group
    BY <2>1
  <2>2. CASE ProcessAssign
    <3>1. HeldByProcess(proc_dsp) /\ proc_dsp \in Dsps
      BY <2>2 DEF ProcessAssign, HeldByProcess, TypeInv, PointersSet
    <3>2. ~HeldByTask(proc_dsp)
      BY <3>1 DEF HolderInv, OneHolder, Holders, Count
    <3>3. QED
      BY <2>2, <3>2 DEF ProcessAssign, HeldByTask, TypeInv, TypeOK
  <2>3. QED
    BY <2>1, <2>2 DEF Next, factoryVars, dspVars, offerVars, procVars, memVars,
       updVars, SpuriousWakeup, CaptureCheck, SimPost, CapturePost, ProcessTask,
       ProcessPend, ProcessProduce, ProcessUncount, ProcessPost, DspTask, DspStart,
       DspFinish, DspReset, DspRecycle, UseAfterFree, SetParamsBegin, SetParamsEnd,
       UpdateTask, UpdateWait, UpdateFlag, UpdatePoll, UpdateProduce1, UpdateSet1,
       UpdateProduce2, UpdateSet2, UpdateRecycle1, UpdateRecycle2, UpdateClear
<1>2. QED
  BY <1>1, TypeInit, TypeNext, HolderInit, HolderNext, PTL DEF Spec, JobStable

-----------------------------------------------------------------------------
(* Parameters.  A DSP that lacks the current set will get it: a setter is  *)
(* still copying, an update is announced, or the running update has not    *)
(* come to this DSP yet.                                                   *)

StillToSet(d) ==
  \/ upd_pc \in {"flag", "poll", "produce1", "set1"}
  \/ upd_pc \in {"produce2", "set2"} /\ d # upd_p1

ParamsInv ==
  \A d \in Dsps :
    dsp_params[d] = algo_params \/ Copying \/ sem_params_update > 0 \/ StillToSet(d)

\* At start-up both DSPs have the parameters of the file.
LEMMA ParamsInit == Init => ParamsInv
BY DEF Init, ParamsInv

\* A step leaves a DSP that is not up to date with an update pending or a setter under way.
LEMMA ParamsNext ==
  TypeInv /\ HolderInv /\ ParamsInv /\ [Next]_vars => ParamsInv'
<1> USE DEF vars, factoryVars, dspVars, offerVars, procVars, memVars, updVars
<1> SUFFICES ASSUME TypeInv, HolderInv, ParamsInv, [Next]_vars PROVE ParamsInv'
  OBVIOUS
<1>t. TypeOK /\ PointersSet
  BY DEF TypeInv
<1>f. ASSUME UNCHANGED <<dsp_params, algo_params, copying, sem_params_update,
                         upd_pc, upd_p1>>
      PROVE  ParamsInv'
  BY <1>f DEF ParamsInv, Copying, StillToSet
<1>1. CASE SpuriousWakeup
  BY <1>1, <1>f DEF SpuriousWakeup
<1>2. ASSUME NEW s \in Samples, CaptureCheck(s) \/ SimPost(s) PROVE ParamsInv'
  BY <1>2, <1>f DEF CaptureCheck, SimPost
<1>3. CASE CapturePost
  BY <1>3, <1>f DEF CapturePost
<1>4. CASE ProcessTask
  BY <1>4, <1>f DEF ProcessTask, ProcessPend, ProcessProduce, ProcessAssign,
     ProcessUncount, ProcessPost
<1>5. ASSUME NEW d \in Dsps, DspStart(d) \/ DspFinish(d) \/ DspRecycle(d)
      PROVE  ParamsInv'
  BY <1>5, <1>f DEF DspStart, DspFinish, DspRecycle
<1>6. ASSUME NEW d \in Dsps, DspReset(d) PROVE ParamsInv'
  BY <1>6, <1>t DEF DspReset, ParamsInv, ReadParams, Copying, StillToSet, TypeOK
<1>7. CASE UseAfterFree
  BY <1>7, <1>f DEF UseAfterFree
<1>8. ASSUME NEW t \in Setters, SetParamsBegin(t) PROVE ParamsInv'
  <2>1. Copying'
    BY <1>8, <1>t DEF SetParamsBegin, Copying, TypeOK
  <2>2. QED
    BY <2>1 DEF ParamsInv
<1>9. ASSUME NEW t \in Setters, SetParamsEnd(t) PROVE ParamsInv'
  BY <1>9, <1>t DEF SetParamsEnd, ParamsInv, TypeOK
<1>10. CASE UpdateWait
  BY <1>10 DEF UpdateWait, ParamsInv, StillToSet
<1>11. CASE UpdateFlag \/ UpdatePoll \/ UpdateProduce1
  BY <1>11 DEF UpdateFlag, UpdatePoll, UpdateProduce1, ParamsInv, Copying, StillToSet
<1>12. CASE UpdateSet1
  BY <1>12, <1>t DEF UpdateSet1, ParamsInv, Copying, ReadParams, StillToSet,
     TypeOK, PointersSet
<1>13. CASE UpdateProduce2
  BY <1>13 DEF UpdateProduce2, ParamsInv, Copying, StillToSet
<1>14. CASE UpdateSet2
  <2>1. HeldByUpdate1(upd_p1) /\ HeldByUpdate2(upd_p2) /\ upd_p1 \in Dsps /\ upd_p2 \in Dsps
    BY <1>14, <1>t DEF UpdateSet2, PointersSet, HeldByUpdate1, HeldByUpdate2
  <2>2. upd_p1 # upd_p2
    BY <2>1 DEF HolderInv, OneHolder, Holders, Count
  <2>3. \A d \in Dsps : d = upd_p1 \/ d = upd_p2
    BY <2>1, <2>2 DEF Dsps
  <2>4. QED
    BY <1>14, <1>t, <2>1, <2>2, <2>3
       DEF UpdateSet2, ParamsInv, Copying, ReadParams, StillToSet, TypeOK
<1>15. CASE UpdateRecycle1 \/ UpdateRecycle2 \/ UpdateClear
  BY <1>15 DEF UpdateRecycle1, UpdateRecycle2, UpdateClear, ParamsInv, Copying,
     StillToSet
<1>16. CASE UNCHANGED vars
  BY <1>16, <1>f
<1>17. QED
  BY <1>1, <1>2, <1>3, <1>4, <1>5, <1>6, <1>7, <1>8, <1>9, <1>10, <1>11, <1>12,
     <1>13, <1>14, <1>15, <1>16 DEF Next, DspTask, UpdateTask

\* Once no update is pending, both DSPs hold what algo_params.dat holds.
THEOREM ParamsEndUpCurrent == Spec => []ParamsCurrent
<1>1. TypeInv /\ ParamsInv => ParamsCurrent
  BY DEF TypeInv, ParamsInv, ParamsCurrent, StillToSet
<1>2. QED
  BY <1>1, TypeInit, TypeNext, HolderInit, HolderNext, ParamsInit, ParamsNext, PTL
     DEF Spec

-----------------------------------------------------------------------------
(* g_img_not_process.  The counter goes up before the post and down after  *)
(* the DSP was found, both under g_mutex.                                  *)

PendingInv ==
  PendingExact /\ (cap_pc = "post" => g_img_not_process <= 2)

\* At start-up no sample waits and the counter is zero.
LEMMA PendingInit == Init => PendingInv
BY DEF Init, PendingInv, PendingExact, Pending, Count

\* Each step moves the counter and the samples waiting together.
LEMMA PendingNext ==
  ASSUME ~SimEnabled
  PROVE  TypeInv /\ PendingInv /\ [Next]_vars => PendingInv'
<1> USE DspFactoryAssumption
<1> USE DEF vars, factoryVars, dspVars, offerVars, procVars, memVars, updVars
<1> SUFFICES ASSUME TypeInv, PendingInv, [Next]_vars PROVE PendingInv'
  OBVIOUS
<1> USE DEF PendingInv, PendingExact, Pending, Count
<1>t. mbx_dsp \in Seq(Samples) /\ Len(mbx_dsp) \in Nat /\ g_img_not_process \in Nat
      /\ (cap_pc = "post" => cap_sample \in Samples)
  BY DEF TypeInv, TypeOK, PointersSet
<1>f. ASSUME UNCHANGED <<mbx_dsp, g_img_not_process, cap_pc, proc_pc>>
      PROVE  PendingInv'
  BY <1>f
<1>1. CASE SpuriousWakeup \/ UseAfterFree \/ UpdateTask
  BY <1>1, <1>f DEF SpuriousWakeup, UseAfterFree, UpdateTask, UpdateWait, UpdateFlag,
     UpdatePoll, UpdateProduce1, UpdateSet1, UpdateProduce2, UpdateSet2,
     UpdateRecycle1, UpdateRecycle2, UpdateClear
<1>2. ASSUME NEW s \in Samples, CaptureCheck(s) PROVE PendingInv'
  BY <1>2, <1>t DEF CaptureCheck
<1>3. ASSUME NEW s \in Samples, SimPost(s) PROVE PendingInv'
  BY <1>3 DEF SimPost
<1>4. CASE CapturePost
  <2>1. Len(mbx_dsp') = Len(mbx_dsp) + 1
    BY <1>4, <1>t, AppendFacts DEF CapturePost
  <2>2. g_img_not_process' = g_img_not_process + 1
    BY <1>4, <1>t DEF CapturePost, U32Inc
  <2>3. QED
    BY <1>4, <1>t, <2>1, <2>2 DEF CapturePost
<1>5. CASE ProcessPend
  <2>1. Len(mbx_dsp') = Len(mbx_dsp) - 1
    BY <1>5, <1>t, TailFacts DEF ProcessPend
  <2>2. QED
    BY <1>5, <1>t, <2>1 DEF ProcessPend
<1>6. CASE ProcessProduce \/ ProcessAssign \/ ProcessPost
  BY <1>6, <1>t DEF ProcessProduce, ProcessAssign, ProcessPost
<1>7. CASE ProcessUncount
  <2>1. g_img_not_process' = g_img_not_process - 1
    BY <1>7, <1>t DEF ProcessUncount, U32Dec
  <2>2. QED
    BY <1>7, <1>t, <2>1 DEF ProcessUncount, CaptureHoldsMutex
<1>8. ASSUME NEW d \in Dsps, DspTask(d) PROVE PendingInv'
  BY <1>8, <1>f DEF DspTask, DspStart, DspFinish, DspReset, DspRecycle
<1>9. ASSUME NEW t \in Setters, SetParamsBegin(t) \/ SetParamsEnd(t) PROVE PendingInv'
  BY <1>9, <1>f DEF SetParamsBegin, SetParamsEnd
<1>10. CASE UNCHANGED vars
  BY <1>10, <1>f
<1>11. QED
  BY <1>1, <1>2, <1>3, <1>4, <1>5, <1>6, <1>7, <1>8, <1>9, <1>10
     DEF Next, ProcessTask

\* Without simulated samples the counter is exact, never wraps and never
\* exceeds three.
THEOREM PendingIsExact ==
  ASSUME ~SimEnabled PROVE Spec => []PendingExact
<1>1. PendingInv => PendingExact
  BY DEF PendingInv
<1>2. TypeInv /\ PendingInv /\ [Next]_vars => PendingInv'
  BY PendingNext
<1>3. QED
  BY <1>1, <1>2, TypeInit, TypeNext, PendingInit, PTL DEF Spec

-----------------------------------------------------------------------------
(* One place per sample.  The group pointer of the DSP image_process_tsk    *)
(* has prepared is the sample it holds, so that sem_post hands over exactly *)
(* that sample.                                                             *)

Prepared ==
  proc_pc \in {"uncount", "post"} => sample_image_group[proc_dsp] = proc_sample

SampleInv == SampleOnce /\ Prepared

\* At start-up no sample is anywhere.
LEMMA SampleInit == Init => SampleInv
<1> SUFFICES ASSUME Init PROVE SampleInv
  OBVIOUS
<1>1. Range(mbx_dsp) = {} /\ IsInjective(mbx_dsp)
  BY DEF Init, Range, IsInjective
<1>2. ASSUME NEW s \in Samples PROVE SamplePlaces(s) = Count(s \in offered)
  BY <1>1 DEF Init, SamplePlaces, Count, DspHolds, Dsps
<1>3. Prepared
  BY DEF Init, Prepared
<1>4. QED
  BY <1>1, <1>2, <1>3 DEF SampleInv, SampleOnce

\* Each step takes a sample from at most one place to one other.
LEMMA SampleNext ==
  TypeInv /\ HolderInv /\ SampleInv /\ [Next]_vars => SampleInv'
<1> USE DspFactoryAssumption
<1> USE DEF vars, factoryVars, dspVars, offerVars, procVars, memVars, updVars
<1> SUFFICES ASSUME TypeInv, HolderInv, SampleInv, [Next]_vars PROVE SampleInv'
  OBVIOUS
<1>t. TypeOK /\ PointersSet
  BY DEF TypeInv
<1>d. Dsp1 \in Dsps /\ Dsp2 \in Dsps /\ Dsp1 # Dsp2 /\ Dsps = {Dsp1, Dsp2}
  BY DEF Dsps
<1>s. ASSUME NEW s \in Samples PROVE SamplePlaces(s) = Count(s \in offered)
  BY DEF SampleInv, SampleOnce
<1>j. IsInjective(mbx_dsp) /\ Prepared
  BY DEF SampleInv, SampleOnce
<1>f. ASSUME UNCHANGED <<mbx_dsp, cap_pc, cap_sample, offered, proc_pc, proc_sample,
                         proc_dsp, sem_img_ready, dsp_pc, sample_image_group>>
      PROVE  SampleInv'
  BY <1>f DEF SampleInv, SampleOnce, SamplePlaces, Count, DspHolds, Prepared
<1>1. CASE SpuriousWakeup
  BY <1>1, <1>f DEF SpuriousWakeup
<1>2. ASSUME NEW c \in Samples, CaptureCheck(c) PROVE SampleInv'
  <2>1. UNCHANGED <<mbx_dsp, proc_pc, proc_sample, proc_dsp, sem_img_ready, dsp_pc,
                    sample_image_group>>
    BY <1>2 DEF CaptureCheck
  <2>2. ASSUME NEW s \in Samples PROVE SamplePlaces(s)' = Count(s \in offered)'
    BY <1>2, <1>s, <2>1 DEF CaptureCheck, SamplePlaces, Count, DspHolds
  <2>3. QED
    BY <1>j, <2>1, <2>2 DEF SampleInv, SampleOnce, Prepared
<1>3. ASSUME NEW c \in Samples, SimPost(c) PROVE SampleInv'
  <2>1. UNCHANGED <<cap_pc, cap_sample, proc_pc, proc_sample, proc_dsp, sem_img_ready,
                    dsp_pc, sample_image_group>>
    BY <1>3 DEF SimPost
  <2>2. c \notin Range(mbx_dsp)
    BY <1>3, <1>s DEF SimPost, SamplePlaces, Count
  <2>3. IsInjective(mbx_dsp') /\ Range(mbx_dsp') = Range(mbx_dsp) \cup {c}
    BY <1>3, <1>t, <1>j, <2>2, AppendFacts DEF SimPost, TypeOK
  <2>4. ASSUME NEW s \in Samples PROVE SamplePlaces(s)' = Count(s \in offered)'
    BY <1>3, <1>s, <2>1, <2>2, <2>3 DEF SimPost, SamplePlaces, Count, DspHolds
  <2>5. QED
    BY <1>j, <2>1, <2>3, <2>4 DEF SampleInv, SampleOnce, Prepared
<1>4. CASE CapturePost
  <2>1. UNCHANGED <<offered, proc_pc, proc_sample, proc_dsp, sem_img_ready, dsp_pc,
                    sample_image_group>>
    BY <1>4 DEF CapturePost
  <2>2. cap_sample \in Samples /\ cap_sample \notin Range(mbx_dsp)
    <3>1. cap_sample \in Samples /\ cap_pc = "post"
      BY <1>4, <1>t DEF CapturePost, PointersSet
    <3>2. QED
      BY <3>1, <1>s DEF SamplePlaces, Count
  <2>3. IsInjective(mbx_dsp') /\ Range(mbx_dsp') = Range(mbx_dsp) \cup {cap_sample}
    BY <1>4, <1>t, <1>j, <2>2, AppendFacts DEF CapturePost, TypeOK
  <2>4. ASSUME NEW s \in Samples PROVE SamplePlaces(s)' = Count(s \in offered)'
    BY <1>4, <1>s, <2>1, <2>2, <2>3 DEF CapturePost, SamplePlaces, Count, DspHolds
  <2>5. QED
    BY <1>j, <2>1, <2>3, <2>4 DEF SampleInv, SampleOnce, Prepared
<1>5. CASE ProcessPend
  <2>1. UNCHANGED <<cap_pc, cap_sample, offered, proc_dsp, sem_img_ready, dsp_pc,
                    sample_image_group>>
    BY <1>5 DEF ProcessPend
  <2>2. /\ IsInjective(mbx_dsp') /\ Range(mbx_dsp') = Range(mbx_dsp) \ {Head(mbx_dsp)}
        /\ Head(mbx_dsp) \in Range(mbx_dsp)
    BY <1>5, <1>t, <1>j, TailFacts DEF ProcessPend, TypeOK
  <2>3. ASSUME NEW s \in Samples PROVE SamplePlaces(s)' = Count(s \in offered)'
    BY <1>5, <1>s, <2>1, <2>2 DEF ProcessPend, SamplePlaces, Count, DspHolds
  <2>4. QED
    BY <1>5, <2>2, <2>3 DEF ProcessPend, SampleInv, SampleOnce, Prepared
<1>6. CASE ProcessProduce
  <2>1. UNCHANGED <<mbx_dsp, cap_pc, cap_sample, offered, proc_sample, sem_img_ready,
                    dsp_pc, sample_image_group>>
        /\ proc_pc # "pend" /\ proc_pc' \in {"produce", "assign"}
    BY <1>6 DEF ProcessProduce
  <2>2. ASSUME NEW s \in Samples PROVE SamplePlaces(s)' = Count(s \in offered)'
    BY <1>s, <2>1 DEF SamplePlaces, Count, DspHolds
  <2>3. QED
    BY <1>j, <2>1, <2>2 DEF SampleInv, SampleOnce, Prepared
<1>7. CASE ProcessAssign
  <2>1. UNCHANGED <<mbx_dsp, cap_pc, cap_sample, offered, proc_sample, proc_dsp,
                    sem_img_ready, dsp_pc>>
        /\ proc_pc = "assign" /\ proc_pc' = "uncount"
    BY <1>7 DEF ProcessAssign
  <2>2. proc_dsp \in Dsps /\ ~HeldByTask(proc_dsp)
    <3>1. proc_dsp \in Dsps /\ HeldByProcess(proc_dsp)
      BY <2>1, <1>t DEF PointersSet, HeldByProcess
    <3>2. QED
      BY <3>1 DEF HolderInv, OneHolder, Holders, Count
  <2>3. \A d \in Dsps : d # proc_dsp => sample_image_group'[d] = sample_image_group[d]
    BY <1>7, <1>t DEF ProcessAssign, TypeOK
  <2>4. ASSUME NEW d \in Dsps, NEW s \in Samples PROVE DspHolds(d, s)' <=> DspHolds(d, s)
    BY <2>1, <2>2, <2>3 DEF DspHolds, HeldByTask
  <2>5. ASSUME NEW s \in Samples PROVE SamplePlaces(s)' = Count(s \in offered)'
    BY <1>d, <1>s, <2>1, <2>4 DEF SamplePlaces, Count
  <2>6. Prepared'
    BY <1>7, <2>2, <1>t DEF ProcessAssign, Prepared, TypeOK
  <2>7. QED
    BY <1>j, <2>1, <2>5, <2>6 DEF SampleInv, SampleOnce
<1>8. CASE ProcessUncount
  <2>1. UNCHANGED <<mbx_dsp, cap_pc, cap_sample, offered, proc_sample, proc_dsp,
                    sem_img_ready, dsp_pc, sample_image_group>>
        /\ proc_pc = "uncount" /\ proc_pc' = "post"
    BY <1>8 DEF ProcessUncount
  <2>2. ASSUME NEW s \in Samples PROVE SamplePlaces(s)' = Count(s \in offered)'
    BY <1>s, <2>1 DEF SamplePlaces, Count, DspHolds
  <2>3. QED
    BY <1>j, <2>1, <2>2 DEF SampleInv, SampleOnce, Prepared
<1>9. CASE ProcessPost
  <2>1. UNCHANGED <<mbx_dsp, cap_pc, cap_sample, offered, dsp_pc, sample_image_group>>
        /\ proc_pc = "post" /\ proc_pc' = "pend"
    BY <1>9 DEF ProcessPost
  <2>2. proc_dsp \in Dsps /\ ~HeldByTask(proc_dsp)
    <3>1. proc_dsp \in Dsps /\ HeldByProcess(proc_dsp)
      BY <2>1, <1>t DEF PointersSet, HeldByProcess
    <3>2. QED
      BY <3>1 DEF HolderInv, OneHolder, Holders, Count
  <2>3. sample_image_group[proc_dsp] = proc_sample
    BY <1>j, <2>1 DEF Prepared
  <2>4. sem_img_ready'[proc_dsp] > 0
        /\ \A d \in Dsps : d # proc_dsp => sem_img_ready'[d] = sem_img_ready[d]
    BY <1>9, <1>t, <2>2 DEF ProcessPost, TypeOK
  <2>5. ASSUME NEW d \in Dsps, NEW s \in Samples
        PROVE  DspHolds(d, s)' <=> DspHolds(d, s) \/ (d = proc_dsp /\ proc_sample = s)
    BY <2>1, <2>2, <2>3, <2>4 DEF DspHolds
  <2>6. ASSUME NEW s \in Samples PROVE ~DspHolds(proc_dsp, s)
    BY <2>2 DEF DspHolds, HeldByTask
  <2>7. ASSUME NEW s \in Samples PROVE SamplePlaces(s)' = Count(s \in offered)'
    BY <1>d, <1>s, <2>1, <2>2, <2>5, <2>6 DEF SamplePlaces, Count
  <2>8. QED
    BY <1>j, <2>1, <2>7 DEF SampleInv, SampleOnce, Prepared
\* A step of a DSP's task that keeps the sample it works on.
<1>k. ASSUME UNCHANGED <<mbx_dsp, cap_pc, cap_sample, offered, proc_pc, proc_sample,
                         proc_dsp, sample_image_group>>,
             \A d \in Dsps : (sem_img_ready[d] > 0 \/ dsp_pc[d] = "process")'
                               <=> (sem_img_ready[d] > 0 \/ dsp_pc[d] = "process")
      PROVE  SampleInv'
  <2>1. ASSUME NEW s \in Samples PROVE SamplePlaces(s)' = Count(s \in offered)'
    BY <1>d, <1>k, <1>s DEF SamplePlaces, Count, DspHolds
  <2>2. QED
    BY <1>j, <1>k, <2>1 DEF SampleInv, SampleOnce, Prepared
<1>10. ASSUME NEW d \in Dsps, DspStart(d) PROVE SampleInv'
  BY <1>10, <1>t, <1>k DEF DspStart, TypeOK, HolderInv, ReadyOnce
<1>11. ASSUME NEW d \in Dsps, DspFinish(d) PROVE SampleInv'
  <2>1. UNCHANGED <<mbx_dsp, cap_pc, cap_sample, proc_pc, proc_sample, proc_dsp,
                    sem_img_ready, sample_image_group>>
        /\ dsp_pc[d] = "process" /\ offered' = offered \ {sample_image_group[d]}
    BY <1>11 DEF DspFinish
  <2>2. ~(sem_img_ready[d] > 0)
    BY <2>1, <1>t DEF HolderInv, ReadyOnce, TypeOK
  <2>3. /\ dsp_pc'[d] # "process"
        /\ \A e \in Dsps : e # d => dsp_pc'[e] = dsp_pc[e]
    BY <1>11, <1>t DEF DspFinish, TypeOK
  <2>4. ASSUME NEW e \in Dsps, NEW s \in Samples
        PROVE  DspHolds(e, s)' <=> DspHolds(e, s) /\ e # d
    BY <2>1, <2>2, <2>3 DEF DspHolds
  <2>5. ASSUME NEW s \in Samples
        PROVE  DspHolds(d, s) <=> s = sample_image_group[d]
    BY <2>1 DEF DspHolds
  <2>6. ASSUME NEW s \in Samples PROVE SamplePlaces(s)' = Count(s \in offered)'
    BY <1>d, <1>s, <2>1, <2>4, <2>5 DEF SamplePlaces, Count
  <2>7. QED
    BY <1>j, <2>1, <2>6 DEF SampleInv, SampleOnce, Prepared
<1>12. ASSUME NEW d \in Dsps, DspReset(d) PROVE SampleInv'
  BY <1>12, <1>t, <1>k DEF DspReset, TypeOK, HolderInv, ReadyOnce
<1>13. ASSUME NEW d \in Dsps, DspRecycle(d) PROVE SampleInv'
  BY <1>13, <1>t, <1>k DEF DspRecycle, TypeOK
<1>14. CASE UseAfterFree
  BY <1>14, <1>f DEF UseAfterFree
<1>15. ASSUME NEW t \in Setters, SetParamsBegin(t) \/ SetParamsEnd(t) PROVE SampleInv'
  BY <1>15, <1>f DEF SetParamsBegin, SetParamsEnd
<1>16. CASE UpdateTask
  BY <1>16, <1>f DEF UpdateTask, UpdateWait, UpdateFlag, UpdatePoll, UpdateProduce1,
     UpdateSet1, UpdateProduce2, UpdateSet2, UpdateRecycle1, UpdateRecycle2, UpdateClear
<1>17. CASE UNCHANGED vars
  BY <1>17, <1>f
<1>18. QED
  BY <1>1, <1>2, <1>3, <1>4, <1>5, <1>6, <1>7, <1>8, <1>9, <1>10, <1>11, <1>12,
     <1>13, <1>14, <1>15, <1>16, <1>17
     DEF Next, ProcessTask, DspTask

\* A sample accepted for the DSPs is in exactly one place until a DSP has
\* reported on it, also with simulated samples and failing DSP calls.
THEOREM SamplesHaveOnePlace == Spec => []SampleOnce
<1>1. SampleInv => SampleOnce
  BY DEF SampleInv
<1>2. QED
  BY <1>1, TypeInit, TypeNext, HolderInit, HolderNext, SampleInit, SampleNext, PTL
     DEF Spec
=============================================================================
