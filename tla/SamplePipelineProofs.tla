------------------------ MODULE SamplePipelineProofs ------------------------
(* Proofs about the references to a picture.  The releases that are still  *)
(* to come (Owed) are the elements of four mailboxes and the local pointers *)
(* of the threads; each step moves some of them, and a release takes them  *)
(* away from r_count.  The theorems assume what the passing runs assume of *)
(* the inputs: a picture to simulate arrives when the last one is done     *)
(* with, and a mode changes while nothing is in flight.                    *)
EXTENDS SamplePipeline, ListFacts

Calm == Enabled \cap {"simOverlap", "switchBusy"} = {}

-----------------------------------------------------------------------------
(* The invariant.                                                          *)

Live(g) == image[g] # NoBuf

\* A thread has taken g from the pool and not given it a picture.
Taken(g) ==
  \/ pc["capture"] = "request" /\ holds["capture"] = g
  \/ pc["overclock"] = "report" /\ holds["overclock"] = g

ThreadInv ==
  /\ pc["capture"] \in {"idle", "request", "count", "net", "judge"}
  /\ pc["sim"] \in {"idle", "net"} /\ pc["overclock"] \in {"idle", "report"}
  /\ \A d \in Dsps : pc[d] \in {"idle", "process", "upload"}
  /\ \A t \in Threads : pc[t] # "idle" => holds[t] \in Groups

\* A group is in the pool, or has a picture, or a thread is about to give it one.
PoolInv ==
  /\ IsInjective(idle_groups)
  /\ \A g \in Groups : g \in Range(idle_groups) <=> ~Live(g) /\ ~Taken(g)
  /\ \A g \in Groups : Taken(g) => ~Live(g)
  /\ pc["capture"] = "request" /\ pc["overclock"] = "report" =>
       holds["capture"] # holds["overclock"]

\* A picture belongs to one group, is not the camera's, and has at least as many
\* references as are still to be released.
CountInv ==
  /\ \A g \in Groups : Live(g) =>
       /\ image[g] \in AllBufs \ driver
       /\ r_count[image[g]] >= 1 /\ r_count[image[g]] >= Owed(g)
  /\ \A g, h \in Groups : Live(g) /\ image[g] = image[h] => g = h
  /\ \A g \in Groups : ~Live(g) => Owed(g) = 0

\* Only the camera's buffers may go back to the camera.
SourceInv ==
  /\ \A g \in Groups : image[g] = SimBuf => image_source[g] = 1
  /\ pc["capture"] = "count" => image[holds["capture"]] \in Bufs

PipelineInv == TypeOK /\ ThreadInv /\ PoolInv /\ CountInv /\ SourceInv

-----------------------------------------------------------------------------
(* What is still to be released, as a sum of the places it is in.          *)

DspsAt(g, label) == {d \in Dsps : pc[d] = label /\ holds[d] = g}

\* The DSPs at work on a group are finitely many.
LEMMA DspSets ==
  ASSUME NEW g, NEW label
  PROVE  IsFiniteSet(DspsAt(g, label)) /\ Cardinality(DspsAt(g, label)) \in Nat
<1>1. DspsAt(g, label) \in SUBSET Dsps /\ IsFiniteSet(Dsps)
  BY SamplePipelineAssumption DEF DspsAt
<1>2. QED
  BY <1>1, FS_Subset, FS_CardinalityType

\* In(g, m) is a number of elements in the sense of ListFacts.
LEMMA InIsCount == \A g, m : In(g, m) = CountIn(m, {g})
<1> SUFFICES ASSUME NEW g, NEW m PROVE In(g, m) = CountIn(m, {g})
  OBVIOUS
<1>1. {i \in DOMAIN m : m[i] = g} = {i \in DOMAIN m : m[i] \in {g}}
  OBVIOUS
<1>2. QED
  BY <1>1 DEF In, CountIn

\* What Append and Tail do to the places of a group in a mailbox.
LEMMA InFacts ==
  ASSUME NEW m \in Seq(Groups)
  PROVE  /\ \A g : In(g, m) \in Nat
         /\ \A g, h \in Groups : In(g, Append(m, h)) = In(g, m) + (IF g = h THEN 1 ELSE 0)
         /\ m # <<>> => \A g : In(g, Tail(m)) = In(g, m) - (IF g = Head(m) THEN 1 ELSE 0)
<1>1. ASSUME NEW g PROVE In(g, m) \in Nat
  BY CountType, InIsCount
<1>2. ASSUME NEW g \in Groups, NEW h \in Groups
      PROVE  In(g, Append(m, h)) = In(g, m) + (IF g = h THEN 1 ELSE 0)
  <2>1. CountIn(Append(m, h), {g}) = CountIn(m, {g}) + (IF h \in {g} THEN 1 ELSE 0)
    BY CountAppended
  <2>2. QED
    BY <2>1, InIsCount
<1>3. ASSUME m # <<>>, NEW g
      PROVE  In(g, Tail(m)) = In(g, m) - (IF g = Head(m) THEN 1 ELSE 0)
  <2>1. CountIn(m, {g}) = CountIn(Tail(m), {g}) + (IF Head(m) \in {g} THEN 1 ELSE 0)
    BY <1>3, CountTail
  <2>2. In(g, m) = In(g, Tail(m)) + (IF Head(m) \in {g} THEN 1 ELSE 0)
    BY <2>1, InIsCount
  <2>3. Tail(m) \in Seq(Groups)
    BY <1>3
  <2>4. CountIn(Tail(m), {g}) \in Nat
    BY <2>3, CountType
  <2>5. In(g, Tail(m)) \in Nat
    BY <2>4, InIsCount
  <2>6. QED
    BY <2>2, <2>5, <1>1
<1>4. QED
  BY <1>1, <1>2, <1>3

Adds(m, n, x) == n = Append(m, x)
Takes(m, n, x) == m # <<>> /\ n = Tail(m) /\ x = Head(m)

\* The same, for a mailbox before and after a step.
LEMMA InAdds ==
  ASSUME NEW m \in Seq(Groups), NEW x \in Groups, NEW n, Adds(m, n, x)
  PROVE  n \in Seq(Groups) /\ \A h \in Groups : In(h, n) = In(h, m) + (IF h = x THEN 1 ELSE 0)
BY InFacts DEF Adds

\* A group taken from a mailbox is in it once less.
LEMMA InTakes ==
  ASSUME NEW m \in Seq(Groups), NEW n, NEW x, Takes(m, n, x)
  PROVE  /\ n \in Seq(Groups) /\ x \in Groups
         /\ In(x, m) >= 1
         /\ \A h \in Groups : In(h, n) = In(h, m) - (IF h = x THEN 1 ELSE 0)
<1>1. n \in Seq(Groups) /\ x \in Groups
  BY DEF Takes
<1>2. \A h \in Groups : In(h, n) = In(h, m) - (IF h = x THEN 1 ELSE 0)
  BY InFacts DEF Takes
<1>3. In(x, n) \in Nat /\ In(x, m) \in Nat
  BY <1>1, InFacts
<1>4. In(x, n) = In(x, m) - 1
  BY <1>1, <1>2
<1>5. QED
  BY <1>1, <1>2, <1>3, <1>4

InBoxes(g) == In(g, mbx_show) + In(g, mbx_ui) + In(g, mbx_send)

CaptureHas(g) ==
  IF holds["capture"] # g THEN 0
  ELSE CASE pc["capture"] = "count" -> 3 [] pc["capture"] = "net" -> 2
         [] pc["capture"] = "judge" -> IF send_mode = 2 /\ judge_mode = 0 THEN 2 ELSE 1
         [] OTHER -> 0

SimHas(g) == IF pc["sim"] = "net" /\ holds["sim"] = g THEN 1 ELSE 0

Parts(g) ==
  /\ InBoxes(g) \in Nat /\ In(g, mbx_dsp) \in Nat
  /\ Cardinality(DspsAt(g, "process")) \in Nat /\ Cardinality(DspsAt(g, "upload")) \in Nat
  /\ send_mode = 2 =>
       Owed(g) = CaptureHas(g) + 2 * In(g, mbx_dsp) + 2 * Cardinality(DspsAt(g, "process"))
                 + Cardinality(DspsAt(g, "upload")) + InBoxes(g)
  /\ send_mode # 2 =>
       Owed(g) = CaptureHas(g) + In(g, mbx_dsp) + Cardinality(DspsAt(g, "process"))
                 + SimHas(g) + InBoxes(g)

BoxTypes ==
  /\ mbx_show \in Seq(Groups) /\ mbx_send \in Seq(Groups)
  /\ mbx_dsp \in Seq(Groups) /\ mbx_ui \in Seq(Groups)

PartsAll == \A g \in Groups : Parts(g)

\* Owed(g) is that sum.
LEMMA OwedParts == BoxTypes => PartsAll
<1> SUFFICES ASSUME BoxTypes, NEW g \in Groups PROVE Parts(g)
  BY DEF PartsAll
<1> DEFINE P == Cardinality({d \in Dsps : pc[d] = "process" /\ holds[d] = g})
           U == Cardinality({d \in Dsps : pc[d] = "upload" /\ holds[d] = g})
<1>1. P \in Nat /\ U \in Nat /\ P = Cardinality(DspsAt(g, "process"))
      /\ U = Cardinality(DspsAt(g, "upload"))
  BY DspSets DEF DspsAt
<1>2. /\ In(g, mbx_show) \in Nat /\ In(g, mbx_ui) \in Nat /\ In(g, mbx_send) \in Nat
      /\ In(g, mbx_dsp) \in Nat
  BY InFacts DEF BoxTypes
<1>3. CaptureOwes(g) = CaptureHas(g) /\ CaptureHas(g) \in Nat
  BY DEF CaptureOwes, CaptureHas, At, Count
<1> HIDE DEF P, U
<1>4. DspsOwe(g) = IF send_mode = 2 THEN 2 * (In(g, mbx_dsp) + P) + U ELSE In(g, mbx_dsp) + P
  <2>1. DspsOwe(g) = (1 + LateNet) * (In(g, mbx_dsp) + P) + LateNet * U
    BY DEF DspsOwe, P, U
  <2>2. CASE send_mode = 2
    <3>1. LateNet = 1
      BY <2>2 DEF LateNet, Count
    <3>2. DspsOwe(g) = (1 + 1) * (In(g, mbx_dsp) + P) + 1 * U
      BY <2>1, <3>1
    <3>3. QED
      BY <2>2, <3>2, <1>1, <1>2
  <2>3. CASE send_mode # 2
    <3>1. LateNet = 0
      BY <2>3 DEF LateNet, Count
    <3>2. DspsOwe(g) = (1 + 0) * (In(g, mbx_dsp) + P) + 0 * U
      BY <2>1, <3>1
    <3>3. QED
      BY <2>3, <3>2, <1>1, <1>2
  <2>4. QED
    BY <2>2, <2>3
<1>5. (1 - LateNet) * At(g, "sim", "net") = IF send_mode = 2 THEN 0 ELSE SimHas(g)
  BY DEF LateNet, Count, At, SimHas
<1>6. SimHas(g) \in {0, 1}
  BY DEF SimHas
<1>7. Owed(g) = CaptureHas(g) + DspsOwe(g) + (IF send_mode = 2 THEN 0 ELSE SimHas(g))
                + In(g, mbx_show) + In(g, mbx_ui) + In(g, mbx_send)
  BY <1>3, <1>5 DEF Owed
<1>8. QED
  BY <1>1, <1>2, <1>3, <1>4, <1>6, <1>7 DEF Parts, InBoxes

OwedNat ==
  \A g \in Groups :
    /\ Owed(g) \in Nat
    /\ pc["capture"] = "count" /\ holds["capture"] = g => Owed(g) >= 3

\* The sum is a natural number, and it is three while capture_tsk has not yet
\* shown the picture.
LEMMA OwedType == BoxTypes => OwedNat
<1> SUFFICES ASSUME BoxTypes, NEW g \in Groups
             PROVE  /\ Owed(g) \in Nat
                    /\ pc["capture"] = "count" /\ holds["capture"] = g => Owed(g) >= 3
  BY DEF OwedNat
<1>1. Parts(g)
  BY OwedParts DEF PartsAll
<1>2. CaptureHas(g) \in Nat /\ SimHas(g) \in Nat
      /\ (pc["capture"] = "count" /\ holds["capture"] = g => CaptureHas(g) = 3)
  BY DEF CaptureHas, SimHas
<1>3. CASE send_mode = 2
  BY <1>1, <1>2, <1>3 DEF Parts
<1>4. CASE send_mode # 2
  BY <1>1, <1>2, <1>4 DEF Parts
<1>5. QED
  BY <1>3, <1>4

\* A step of one DSP takes it from one place and puts it in another.
LEMMA DspMoves ==
  ASSUME TypeOK, NEW d \in Dsps, NEW l \in Pcs, NEW x \in Groups \cup {NoGroup},
         Goto(d, l, x), NEW h, NEW L
  PROVE  Cardinality(DspsAt(h, L))' =
           Cardinality(DspsAt(h, L)) - (IF pc[d] = L /\ holds[d] = h THEN 1 ELSE 0)
             + (IF l = L /\ x = h THEN 1 ELSE 0)
<1> DEFINE A == DspsAt(h, L)
           B == {e \in Dsps : pc'[e] = L /\ holds'[e] = h}
<1>1. /\ pc'[d] = l /\ holds'[d] = x
      /\ \A e \in Dsps : e # d => pc'[e] = pc[e] /\ holds'[e] = holds[e]
  BY DEF TypeOK, Goto, Threads
<1>2. IsFiniteSet(A) /\ Cardinality(A) \in Nat /\ IsFiniteSet(B)
  <2>1. IsFiniteSet(Dsps) /\ B \in SUBSET Dsps
    BY SamplePipelineAssumption
  <2>2. QED
    BY <2>1, DspSets, FS_Subset
<1>3. Cardinality(B) \in Nat
  BY <1>2, FS_CardinalityType
<1>4. A \ {d} = B \ {d}
  BY <1>1 DEF DspsAt
<1>5. (d \in A <=> pc[d] = L /\ holds[d] = h) /\ (d \in B <=> l = L /\ x = h)
  BY <1>1 DEF DspsAt
<1>6. /\ Cardinality(A \ {d}) = IF d \in A THEN Cardinality(A) - 1 ELSE Cardinality(A)
      /\ Cardinality(B \ {d}) = IF d \in B THEN Cardinality(B) - 1 ELSE Cardinality(B)
  BY <1>2, FS_RemoveElement
<1>7. Cardinality(DspsAt(h, L))' = Cardinality(B)
  BY DEF DspsAt
<1> HIDE DEF A, B
<1>8. Cardinality(B) = Cardinality(A) - (IF d \in A THEN 1 ELSE 0) + (IF d \in B THEN 1 ELSE 0)
  BY <1>2, <1>3, <1>4, <1>6
<1>9. QED
  BY <1>5, <1>7, <1>8 DEF A

\* A step of another thread leaves the DSPs where they are.
LEMMA OthersMove ==
  ASSUME TypeOK, NEW t \in {"capture", "sim", "overclock"}, NEW l, NEW x, Goto(t, l, x)
  PROVE  /\ pc'[t] = l /\ holds'[t] = x
         /\ \A u \in Threads : u # t => pc'[u] = pc[u] /\ holds'[u] = holds[u]
         /\ \A h, L : DspsAt(h, L)' = DspsAt(h, L)
<1>1. /\ pc'[t] = l /\ holds'[t] = x
      /\ \A u \in Threads : u # t => pc'[u] = pc[u] /\ holds'[u] = holds[u]
  BY DEF TypeOK, Goto, Threads
<1>2. \A d \in Dsps : d \in Threads /\ d # t
  BY SamplePipelineAssumption DEF Threads
<1>3. ASSUME NEW h, NEW L PROVE DspsAt(h, L)' = DspsAt(h, L)
  BY <1>1, <1>2 DEF DspsAt
<1>4. QED
  BY <1>1, <1>3

-----------------------------------------------------------------------------
(* What keeps the pool's part of the invariant.                            *)

\* No thread takes a group from the pool, and capture_tsk gives no picture.
Steady ==
  /\ pc'["capture"] = "request" <=> pc["capture"] = "request"
  /\ pc'["capture"] \in {"request", "count"} =>
       pc["capture"] = pc'["capture"] /\ holds'["capture"] = holds["capture"]
  /\ pc'["overclock"] = pc["overclock"] /\ holds'["overclock"] = holds["overclock"]

PoolTypes ==
  /\ idle_groups \in Seq(Groups)
  /\ image \in [Groups -> AllBufs \cup {NoBuf}]
  /\ image_source \in [Groups -> {0, 1}]
  /\ r_count \in [AllBufs -> 0 .. 3] /\ driver \subseteq Bufs

\* A step that only moves references from one place to another.
LEMMA Kept ==
  ASSUME PipelineInv, Steady, BoxTypes', ThreadInv', UNCHANGED <<idle_groups, image, r_count, driver>>,
         \A h \in Groups : Owed(h)' <= Owed(h),
         \A h \in Groups : image[h] = SimBuf => image_source'[h] = 1
  PROVE  PoolInv' /\ CountInv' /\ SourceInv'
<1>1. BoxTypes
  BY DEF PipelineInv, TypeOK, BoxTypes
<1>2. \A h \in Groups : Owed(h) \in Nat
  BY <1>1, OwedType DEF OwedNat
<1>a. OwedNat'
  BY OwedType, PTL
<1>3. \A h \in Groups : Owed(h)' \in Nat
  BY <1>a DEF OwedNat
<1>4. \A h : Taken(h)' <=> Taken(h)
  BY DEF Steady, Taken
<1>5. PoolInv'
  BY <1>4 DEF PipelineInv, PoolInv, Steady, Live
<1>6. CountInv'
  <2>1. ASSUME NEW h \in Groups, Live(h)
        PROVE  /\ image'[h] \in AllBufs \ driver'
               /\ r_count'[image'[h]] >= 1 /\ r_count'[image'[h]] >= Owed(h)'
    <3>1. image[h] \in AllBufs \ driver /\ r_count[image[h]] >= 1
          /\ r_count[image[h]] >= Owed(h) /\ r_count[image[h]] \in Nat
      <4>1. image[h] \in AllBufs \ driver /\ r_count[image[h]] >= 1 /\ r_count[image[h]] >= Owed(h)
        BY <2>1 DEF PipelineInv, CountInv
      <4>2. r_count \in [AllBufs -> 0 .. 3]
        BY DEF PipelineInv, TypeOK
      <4>3. QED
        BY <4>1, <4>2
    <3>2. QED
      BY <3>1, <1>2, <1>3
  <2>2. ASSUME NEW h \in Groups, ~Live(h) PROVE Owed(h)' = 0
    <3>1. Owed(h) = 0
      BY <2>2 DEF PipelineInv, CountInv
    <3>2. QED
      BY <3>1, <1>3
  <2>3. \A g, h \in Groups : Live(g) /\ image[g] = image[h] => g = h
    BY DEF PipelineInv, CountInv
  <2>4. QED
    BY <2>1, <2>2, <2>3 DEF CountInv, Live
<1>7. SourceInv'
  BY DEF PipelineInv, SourceInv, Steady
<1>8. QED
  BY <1>5, <1>6, <1>7

\* Releases take references that are still to be released, and give back what
\* nobody holds any more.
LEMMA Released ==
  ASSUME PipelineInv, Steady, BoxTypes', ThreadInv',
         NEW g \in Groups, NEW n \in 1 .. 3, ReleaseTimes(g, n), Owed(g) >= n,
         \A h \in Groups : Owed(h)' <= Owed(h) - (IF h = g THEN n ELSE 0)
  PROVE  PoolTypes' /\ PoolInv' /\ CountInv' /\ SourceInv'
<1> DEFINE b == image[g]
<1>1. BoxTypes /\ PoolTypes
  BY DEF PipelineInv, TypeOK, BoxTypes, PoolTypes
<1>2. \A h \in Groups : Owed(h) \in Nat
  BY <1>1, OwedType DEF OwedNat
<1>a. OwedNat'
  BY OwedType, PTL
<1>3. \A h \in Groups : Owed(h)' \in Nat
  BY <1>a DEF OwedNat
<1>4. Live(g)
  BY <1>2 DEF PipelineInv, CountInv
<1>5. b \in AllBufs \ driver /\ r_count[b] \in 0 .. 3 /\ r_count[b] >= Owed(g)
  BY <1>4, <1>1 DEF PipelineInv, CountInv, PoolTypes
<1>6. \A h : Taken(h)' <=> Taken(h)
  BY DEF Steady, Taken
<1>7. r_count[b] - n \in 0 .. 3 /\ r_count[b] - n >= Owed(g)'
  BY <1>2, <1>3, <1>5
<1>8. r_count' \in [AllBufs -> 0 .. 3] /\ r_count'[b] = r_count[b] - n
      /\ \A c \in AllBufs : c # b => r_count'[c] = r_count[c]
  BY <1>1, <1>5, <1>7 DEF ReleaseTimes, PoolTypes
<1>9. \A h \in Groups : Live(h) /\ h # g => image[h] # b
  BY <1>4 DEF PipelineInv, CountInv
<1>10. \A h \in Groups : Live(h) => image[h] \in AllBufs \ driver
         /\ r_count[image[h]] >= 1 /\ r_count[image[h]] >= Owed(h) /\ r_count[image[h]] \in Nat
  BY <1>1 DEF PipelineInv, CountInv, PoolTypes
<1>11. \A h \in Groups : h # g => Owed(h)' <= Owed(h)
  BY <1>2
<1>12. \A h \in Groups : ~Live(h) => Owed(h) = 0
  BY DEF PipelineInv, CountInv
<1> HIDE DEF b
<1>13. CASE r_count[b] # n
  <2>1. UNCHANGED <<driver, idle_groups, image, image_source>>
    BY <1>13 DEF ReleaseTimes, b
  <2>2. PoolTypes'
    BY <2>1, <1>1, <1>8 DEF PoolTypes
  <2>3. PoolInv'
    BY <2>1, <1>6 DEF PipelineInv, PoolInv, Steady, Live
  <2>4. ASSUME NEW h \in Groups, Live(h)
        PROVE  /\ image'[h] \in AllBufs \ driver'
               /\ r_count'[image'[h]] >= 1 /\ r_count'[image'[h]] >= Owed(h)'
    <3>1. CASE h = g
      BY <3>1, <2>1, <1>5, <1>7, <1>8, <1>13 DEF b
    <3>2. CASE h # g
      <4>1. r_count'[image[h]] = r_count[image[h]]
        BY <3>2, <2>4, <1>8, <1>9, <1>10
      <4>2. QED
        BY <4>1, <3>2, <2>1, <2>4, <1>2, <1>3, <1>10, <1>11
    <3>3. QED
      BY <3>1, <3>2
  <2>5. ASSUME NEW h \in Groups, ~Live(h) PROVE Owed(h)' = 0
    BY <2>5, <1>3, <1>4, <1>11, <1>12
  <2>6. CountInv'
    BY <2>1, <2>4, <2>5 DEF PipelineInv, CountInv, Live
  <2>7. SourceInv'
    BY <2>1 DEF PipelineInv, SourceInv, Steady
  <2>8. QED
    BY <2>2, <2>3, <2>6, <2>7
<1>14. CASE r_count[b] = n
  <2>1. /\ driver' = (IF image_source[g] = 0 THEN driver \cup {b} ELSE driver)
        /\ idle_groups' = Append(idle_groups, g)
        /\ image' = [image EXCEPT ![g] = NoBuf]
        /\ UNCHANGED image_source
    BY <1>14 DEF ReleaseTimes, SampleFactoryRecycle, b
  <2>2. image'[g] = NoBuf /\ \A h \in Groups : h # g => image'[h] = image[h]
    BY <2>1, <1>1 DEF PoolTypes
  <2>3. idle_groups \in Seq(Groups) /\ g \notin Range(idle_groups)
        /\ IsInjective(idle_groups)
    BY <1>4 DEF PipelineInv, PoolInv, TypeOK
  <2>4. /\ idle_groups' \in Seq(Groups) /\ IsInjective(idle_groups')
        /\ Range(idle_groups') = Range(idle_groups) \cup {g}
    BY <2>1, <2>3, AppendFacts
  <2>5. driver' \subseteq Bufs /\ driver' \subseteq driver \cup {b}
    <3>1. image_source[g] = 0 => b \in Bufs
      BY <1>5 DEF PipelineInv, SourceInv, AllBufs, b
    <3>2. QED
      BY <3>1, <2>1, <1>1 DEF PoolTypes
  <2>6. PoolTypes'
    BY <2>1, <2>4, <2>5, <1>1, <1>8 DEF PoolTypes
  <2>7. \A h \in Groups : Live(h)' <=> (Live(h) /\ h # g)
    BY <2>2 DEF Live
  <2>8. ~Taken(g)
    BY <1>4 DEF PipelineInv, PoolInv
  <2>9. PoolInv'
    <3>1. \A h \in Groups : h \in Range(idle_groups') <=> ~Live(h)' /\ ~Taken(h)'
      BY <2>4, <2>7, <2>8, <1>6 DEF PipelineInv, PoolInv
    <3>2. \A h \in Groups : Taken(h)' => ~Live(h)'
      BY <2>7, <1>6 DEF PipelineInv, PoolInv
    <3>3. QED
      BY <3>1, <3>2, <2>4 DEF PipelineInv, PoolInv, Steady
  <2>10. ASSUME NEW h \in Groups, Live(h), h # g
         PROVE  /\ image'[h] \in AllBufs \ driver'
                /\ r_count'[image'[h]] >= 1 /\ r_count'[image'[h]] >= Owed(h)'
    <3>1. r_count'[image[h]] = r_count[image[h]] /\ image[h] # b /\ image'[h] = image[h]
      BY <2>10, <2>2, <1>8, <1>9, <1>10
    <3>2. QED
      BY <3>1, <2>5, <2>10, <1>2, <1>3, <1>10, <1>11
  <2>11. ASSUME NEW h \in Groups, ~Live(h)' PROVE Owed(h)' = 0
    <3>1. CASE h = g
      BY <3>1, <1>3, <1>7, <1>14
    <3>2. CASE h # g
      BY <3>2, <2>7, <2>11, <1>3, <1>11, <1>12
    <3>3. QED
      BY <3>1, <3>2
  <2>12. ASSUME NEW h \in Groups, NEW k \in Groups, Live(h)', image'[h] = image'[k]
         PROVE  h = k
    BY <2>2, <2>7, <2>12 DEF PipelineInv, CountInv, Live
  <2>13. CountInv'
    BY <2>7, <2>10, <2>11, <2>12 DEF CountInv
  <2>14. SourceInv'
    <3>1. \A h \in Groups : image'[h] = SimBuf => image_source'[h] = 1
      <4>1. NoBuf # SimBuf
        BY SamplePipelineAssumption DEF AllBufs
      <4>2. QED
        BY <4>1, <2>1, <2>2 DEF PipelineInv, SourceInv
    <3>2. ASSUME pc'["capture"] = "count" PROVE image'[holds'["capture"]] \in Bufs
      <4>1. pc["capture"] = "count" /\ holds'["capture"] = holds["capture"]
        BY <3>2 DEF Steady
      <4>2. image[holds["capture"]] \in Bufs
        BY <4>1 DEF PipelineInv, SourceInv
      <4>3. holds["capture"] \in Groups
        BY <4>1 DEF PipelineInv, ThreadInv, Threads
      <4>4. \A h \in Groups : pc'["capture"] = "count" /\ holds'["capture"] = h => Owed(h)' >= 3
        BY <1>a DEF OwedNat
      <4>5. holds["capture"] # g
        BY <4>1, <4>3, <4>4, <2>2, <2>11, <3>2 DEF Live
      <4>6. QED
        BY <4>1, <4>2, <4>3, <4>5, <2>2
    <3>3. QED
      BY <3>1, <3>2 DEF SourceInv
  <2>15. QED
    BY <2>6, <2>9, <2>13, <2>14
<1>15. QED
  BY <1>13, <1>14

-----------------------------------------------------------------------------
(* What each step does to the references.                                  *)

RestTypes ==
  /\ BoxTypes
  /\ pc \in [Threads -> Pcs] /\ holds \in [Threads -> Groups \cup {NoGroup}]
  /\ send_mode \in SendModes /\ judge_mode \in JudgeModes
  /\ g_ui_socket_state \in {0, 1} /\ g_ui_img_ability \in {0, 1}

\* Either references move, or n of group g are released; none is forgotten.
Balances ==
  \/ /\ UNCHANGED <<idle_groups, image, r_count, driver>>
     /\ \A h \in Groups : image[h] = SimBuf => image_source'[h] = 1
     /\ \A h \in Groups : Owed(h)' = Owed(h)
  \/ \E g \in Groups, n \in 1 .. 3 :
       /\ ReleaseTimes(g, n) /\ Owed(g) >= n
       /\ \A h \in Groups : Owed(h)' = Owed(h) - (IF h = g THEN n ELSE 0)

\* The same, but references may be forgotten.
Settles ==
  \/ /\ UNCHANGED <<idle_groups, image, r_count, driver>>
     /\ \A h \in Groups : image[h] = SimBuf => image_source'[h] = 1
     /\ \A h \in Groups : Owed(h)' <= Owed(h)
  \/ \E g \in Groups, n \in 1 .. 3 :
       /\ ReleaseTimes(g, n) /\ Owed(g) >= n
       /\ \A h \in Groups : Owed(h)' <= Owed(h) - (IF h = g THEN n ELSE 0)

\* A step that forgets no reference is one of those that may forget some.
LEMMA BalancesSettles ==
  ASSUME PipelineInv, BoxTypes', Balances PROVE Settles
<1>1. BoxTypes
  BY DEF PipelineInv, TypeOK, BoxTypes
<1>2. OwedNat
  BY <1>1, OwedType
<1>3. OwedNat'
  BY OwedType, PTL
<1>4. \A h \in Groups : Owed(h) \in Nat /\ Owed(h)' \in Nat
  BY <1>2, <1>3 DEF OwedNat
<1>5. \A h \in Groups : Owed(h)' = Owed(h) => Owed(h)' <= Owed(h)
  BY <1>4
<1>6. \A h, g \in Groups, n \in 1 .. 3 :
        Owed(h)' = Owed(h) - (IF h = g THEN n ELSE 0)
          => Owed(h)' <= Owed(h) - (IF h = g THEN n ELSE 0)
  BY <1>4
<1>7. CASE /\ UNCHANGED <<idle_groups, image, r_count, driver>>
           /\ \A h \in Groups : image[h] = SimBuf => image_source'[h] = 1
           /\ \A h \in Groups : Owed(h)' = Owed(h)
  BY <1>5, <1>7 DEF Settles
<1>8. ASSUME NEW g \in Groups, NEW n \in 1 .. 3, ReleaseTimes(g, n), Owed(g) >= n,
             \A h \in Groups : Owed(h)' = Owed(h) - (IF h = g THEN n ELSE 0)
      PROVE  Settles
  <2>1. \A h \in Groups : Owed(h)' <= Owed(h) - (IF h = g THEN n ELSE 0)
    BY <1>6, <1>8
  <2>2. QED
    BY <2>1, <1>8 DEF Settles
<1>9. QED
  BY <1>7, <1>8 DEF Balances

\* Such a step keeps the invariant.
LEMMA SettlesKeeps ==
  ASSUME PipelineInv, Steady, RestTypes', ThreadInv', image_source' \in [Groups -> {0, 1}],
         Settles
  PROVE  PipelineInv'
<1>1. BoxTypes'
  BY DEF RestTypes
<1>2. PoolTypes
  BY DEF PipelineInv, TypeOK, PoolTypes
<1>3. CASE /\ UNCHANGED <<idle_groups, image, r_count, driver>>
           /\ \A h \in Groups : image[h] = SimBuf => image_source'[h] = 1
           /\ \A h \in Groups : Owed(h)' <= Owed(h)
  <2>1. PoolInv' /\ CountInv' /\ SourceInv'
    BY <1>1, <1>3, Kept
  <2>2. PoolTypes'
    BY <1>2, <1>3 DEF PoolTypes
  <2>3. QED
    BY <2>1, <2>2 DEF PipelineInv, TypeOK, RestTypes, PoolTypes, BoxTypes
<1>4. ASSUME NEW g \in Groups, NEW n \in 1 .. 3, ReleaseTimes(g, n), Owed(g) >= n,
             \A h \in Groups : Owed(h)' <= Owed(h) - (IF h = g THEN n ELSE 0)
      PROVE  PipelineInv'
  <2>1. PoolTypes' /\ PoolInv' /\ CountInv' /\ SourceInv'
    BY <1>1, <1>4, Released
  <2>2. QED
    BY <2>1 DEF PipelineInv, TypeOK, RestTypes, PoolTypes, BoxTypes
<1>5. QED
  BY <1>3, <1>4 DEF Settles

\* A thread keeps to its labels.
LEMMA GotoTypes ==
  ASSUME TypeOK, ThreadInv, NEW t \in Threads, NEW l \in Pcs, NEW x \in Groups \cup {NoGroup},
         Goto(t, l, x), l # "idle" => x \in Groups,
         t = "capture" => l \in {"idle", "request", "count", "net", "judge"},
         t = "sim" => l \in {"idle", "net"},
         t = "overclock" => l \in {"idle", "report"},
         t \in Dsps => l \in {"idle", "process", "upload"}
  PROVE  /\ pc' \in [Threads -> Pcs] /\ holds' \in [Threads -> Groups \cup {NoGroup}]
         /\ ThreadInv'
<1>1. pc' \in [Threads -> Pcs] /\ holds' \in [Threads -> Groups \cup {NoGroup}]
  BY DEF TypeOK, Goto
<1>2. /\ pc'[t] = l /\ holds'[t] = x
      /\ \A u \in Threads : u # t => pc'[u] = pc[u] /\ holds'[u] = holds[u]
  BY DEF TypeOK, Goto
<1>3. \A u \in Threads : pc'[u] # "idle" => holds'[u] \in Groups
  BY <1>2 DEF ThreadInv
<1>4. \A d \in Dsps : pc'[d] \in {"idle", "process", "upload"}
  BY <1>2 DEF ThreadInv, Threads
<1>5. /\ pc'["capture"] \in {"idle", "request", "count", "net", "judge"}
      /\ pc'["sim"] \in {"idle", "net"} /\ pc'["overclock"] \in {"idle", "report"}
  BY <1>2 DEF ThreadInv, Threads
<1>6. QED
  BY <1>1, <1>3, <1>4, <1>5 DEF ThreadInv

\* What a step of references comes to: the premises of SettlesKeeps.
Step ==
  /\ Steady /\ RestTypes' /\ ThreadInv' /\ image_source' \in [Groups -> {0, 1}]
  /\ Balances

\* Both sums, before and after a step.
LEMMA BothParts ==
  ASSUME PipelineInv, BoxTypes', NEW h \in Groups
  PROVE  Parts(h) /\ Parts(h)'
<1>1. BoxTypes
  BY DEF PipelineInv, TypeOK, BoxTypes
<1>2. PartsAll
  BY <1>1, OwedParts
<1>3. PartsAll'
  BY OwedParts, PTL
<1>4. QED
  BY <1>2, <1>3 DEF PartsAll

\* The picture goes to the UI: one of capture_tsk's three references is in
\* mbx_show.
LEMMA CaptureShowStep ==
  ASSUME PipelineInv, CaptureShow PROVE Step
<1> DEFINE g == holds["capture"]
<1>1. g \in Groups /\ pc["capture"] = "count"
  BY DEF PipelineInv, ThreadInv, CaptureShow, Threads
<1>2. BoxTypes'
  BY <1>1 DEF PipelineInv, TypeOK, BoxTypes, CaptureShow
<1>3. Goto("capture", "net", g)
  BY DEF CaptureShow
<1>4. /\ pc' \in [Threads -> Pcs] /\ holds' \in [Threads -> Groups \cup {NoGroup}]
      /\ ThreadInv'
  BY <1>1, <1>3, GotoTypes, SamplePipelineAssumption DEF PipelineInv, Threads, Pcs
<1>5. /\ pc'["capture"] = "net" /\ holds'["capture"] = g
      /\ \A u \in Threads : u # "capture" => pc'[u] = pc[u] /\ holds'[u] = holds[u]
      /\ \A h, L : DspsAt(h, L)' = DspsAt(h, L)
  BY <1>3, OthersMove DEF PipelineInv
<1>6. RestTypes'
  BY <1>2, <1>4 DEF RestTypes, PipelineInv, TypeOK, CaptureShow, modeVars, uiVars
<1>7. Steady
  BY <1>1, <1>5 DEF Steady, Threads
<1>8. image_source' \in [Groups -> {0, 1}]
  BY <1>1 DEF PipelineInv, TypeOK, CaptureShow
<1>9. ASSUME NEW h \in Groups PROVE Owed(h)' = Owed(h)
  <2>1. Parts(h) /\ Parts(h)'
    BY <1>2, BothParts
  <2>0. Adds(mbx_show, mbx_show', g) /\ mbx_show \in Seq(Groups)
    BY DEF CaptureShow, PipelineInv, TypeOK, Adds
  <2>c. In(h, mbx_show) \in Nat /\ In(h, mbx_ui) \in Nat /\ In(h, mbx_send) \in Nat
    BY InFacts DEF PipelineInv, TypeOK
  <2>a. In(h, mbx_show)' = In(h, mbx_show) + (IF h = g THEN 1 ELSE 0)
    BY <1>1, <2>0, InAdds
  <2>b. In(h, mbx_ui)' = In(h, mbx_ui) /\ In(h, mbx_send)' = In(h, mbx_send)
    BY DEF CaptureShow
  <2>2. InBoxes(h)' = InBoxes(h) + (IF h = g THEN 1 ELSE 0)
    BY <2>a, <2>b, <2>c DEF InBoxes
  <2>3. CaptureHas(h)' = CaptureHas(h) - (IF h = g THEN 1 ELSE 0) /\ SimHas(h)' = SimHas(h)
        /\ CaptureHas(h) \in Nat /\ SimHas(h) \in Nat
    BY <1>1, <1>5 DEF CaptureHas, SimHas, Threads
  <2>4. send_mode' = send_mode /\ In(h, mbx_dsp)' = In(h, mbx_dsp)
    BY DEF CaptureShow, modeVars
  <2>5. CASE send_mode = 2
    BY <2>1, <2>2, <2>3, <2>4, <2>5, <1>5 DEF Parts
  <2>6. CASE send_mode # 2
    BY <2>1, <2>2, <2>3, <2>4, <2>6, <1>5 DEF Parts
  <2>7. QED
    BY <2>5, <2>6
<1>10. \A h \in Groups : image[h] = SimBuf => image_source'[h] = 1
  <2>1. image[g] # SimBuf
    BY <1>1, SamplePipelineAssumption DEF PipelineInv, SourceInv
  <2>2. \A h \in Groups : h # g => image_source'[h] = image_source[h]
    BY <1>1 DEF PipelineInv, TypeOK, CaptureShow
  <2>3. QED
    BY <2>1, <2>2 DEF PipelineInv, SourceInv
<1>11. Balances
  <2>1. UNCHANGED <<idle_groups, image, r_count, driver>>
    BY DEF CaptureShow
  <2>2. QED
    BY <2>1, <1>9, <1>10 DEF Balances
<1>12. QED
  BY <1>4, <1>6, <1>7, <1>8, <1>11 DEF Step

\* The network's reference goes to mbx_send, or it is released, or it stays with
\* the sample for the DSP.
LEMMA CaptureNetStep ==
  ASSUME PipelineInv, CaptureNet PROVE Step
<1> DEFINE g == holds["capture"]
<1>1. g \in Groups /\ pc["capture"] = "net"
  BY DEF PipelineInv, ThreadInv, CaptureNet, Threads
<1>2. /\ UNCHANGED <<mbx_show, mbx_dsp, mbx_ui, modeVars, uiVars>>
      /\ Goto("capture", "judge", g) /\ NetBranch(g, judge_mode # 0)
  BY DEF CaptureNet
<1>3. Adds(mbx_send, mbx_send', g) \/ mbx_send' = mbx_send
  BY <1>2 DEF NetBranch, Adds
<1>4. BoxTypes'
  <2>1. mbx_send \in Seq(Groups)
    BY DEF PipelineInv, TypeOK
  <2>2. mbx_send' \in Seq(Groups)
    BY <1>1, <1>3, <2>1, InAdds
  <2>3. QED
    BY <1>2, <2>2 DEF PipelineInv, TypeOK, BoxTypes
<1>5. /\ pc' \in [Threads -> Pcs] /\ holds' \in [Threads -> Groups \cup {NoGroup}]
      /\ ThreadInv'
  BY <1>1, <1>2, GotoTypes, SamplePipelineAssumption DEF PipelineInv, Threads, Pcs
<1>6. /\ pc'["capture"] = "judge" /\ holds'["capture"] = g
      /\ \A u \in Threads : u # "capture" => pc'[u] = pc[u] /\ holds'[u] = holds[u]
      /\ \A h, L : DspsAt(h, L)' = DspsAt(h, L)
  BY <1>2, OthersMove DEF PipelineInv
<1>7. RestTypes'
  BY <1>2, <1>4, <1>5 DEF RestTypes, PipelineInv, TypeOK, modeVars, uiVars
<1>8. Steady
  BY <1>1, <1>6 DEF Steady, Threads
<1>9. image_source' = image_source /\ image_source \in [Groups -> {0, 1}]
  BY <1>2 DEF NetBranch, Release, ReleaseTimes, poolVars, PipelineInv, TypeOK
<1>10. send_mode \in 0 .. 2 /\ judge_mode' = judge_mode /\ send_mode' = send_mode
  BY <1>2, SamplePipelineAssumption DEF PipelineInv, TypeOK, modeVars
<1>11. ASSUME NEW h \in Groups
       PROVE  /\ Parts(h) /\ Parts(h)' /\ In(h, mbx_dsp)' = In(h, mbx_dsp)
              /\ SimHas(h)' = SimHas(h) /\ SimHas(h) \in Nat
              /\ CaptureHas(h) \in Nat /\ (h = g => CaptureHas(h) = 2)
              /\ CaptureHas(h)' = CaptureHas(h)
                   - (IF h = g /\ ~(send_mode = 2 /\ judge_mode = 0) THEN 1 ELSE 0)
  <2>1. Parts(h) /\ Parts(h)'
    BY <1>4, BothParts
  <2>2. CaptureHas(h)' = (IF h # g THEN 0 ELSE IF send_mode = 2 /\ judge_mode = 0 THEN 2 ELSE 1)
        /\ CaptureHas(h) = (IF h # g THEN 0 ELSE 2)
    BY <1>1, <1>6, <1>10 DEF CaptureHas
  <2>3. SimHas(h)' = SimHas(h) /\ SimHas(h) \in Nat
    BY <1>6 DEF SimHas, Threads
  <2>4. In(h, mbx_dsp)' = In(h, mbx_dsp)
    BY <1>2
  <2>5. QED
    BY <2>1, <2>2, <2>3, <2>4
<1>12. \A h \in Groups : image[h] = SimBuf => image_source'[h] = 1
  BY <1>9 DEF PipelineInv, SourceInv
<1>13. ASSUME send_mode = 1 PROVE Balances
  <2>1. Adds(mbx_send, mbx_send', g) /\ UNCHANGED <<idle_groups, image, r_count, driver>>
        /\ mbx_send \in Seq(Groups)
    BY <1>2, <1>13 DEF NetBranch, Adds, poolVars, PipelineInv, TypeOK
  <2>2. ASSUME NEW h \in Groups PROVE Owed(h)' = Owed(h)
    <3>1. In(h, mbx_send)' = In(h, mbx_send) + (IF h = g THEN 1 ELSE 0)
      BY <1>1, <2>1, InAdds
    <3>2. In(h, mbx_ui)' = In(h, mbx_ui) /\ In(h, mbx_show)' = In(h, mbx_show)
      BY <1>2
    <3>3. In(h, mbx_show) \in Nat /\ In(h, mbx_ui) \in Nat /\ In(h, mbx_send) \in Nat
      BY InFacts DEF PipelineInv, TypeOK
    <3>4. InBoxes(h)' = InBoxes(h) + (IF h = g THEN 1 ELSE 0)
      BY <3>1, <3>2, <3>3 DEF InBoxes
    <3>5. CaptureHas(h)' = CaptureHas(h) - (IF h = g THEN 1 ELSE 0)
      BY <1>11, <1>13
    <3>6. QED
      BY <3>4, <3>5, <1>6, <1>10, <1>11, <1>13 DEF Parts
  <2>3. QED
    BY <2>1, <2>2, <1>12 DEF Balances
<1>14. ASSUME send_mode # 1 PROVE Balances
  <2>1. \A h \in Groups : InBoxes(h)' = InBoxes(h)
    BY <1>2, <1>14 DEF NetBranch, InBoxes
  <2>2. CASE send_mode = 2 /\ judge_mode = 0
    <3>1. UNCHANGED <<idle_groups, image, r_count, driver>>
      BY <1>2, <2>2 DEF NetBranch, poolVars
    <3>2. ASSUME NEW h \in Groups PROVE Owed(h)' = Owed(h)
      BY <1>6, <1>10, <1>11, <2>1, <2>2 DEF Parts
    <3>3. QED
      BY <3>1, <3>2, <1>12 DEF Balances
  <2>3. CASE ~(send_mode = 2 /\ judge_mode = 0)
    <3>1. ReleaseTimes(g, 1)
      BY <1>2, <1>14, <2>3 DEF NetBranch, Release
    <3>2. ASSUME NEW h \in Groups
          PROVE  Owed(h)' = Owed(h) - (IF h = g THEN 1 ELSE 0) /\ (h = g => Owed(h) >= 1)
      <4>1. CaptureHas(h)' = CaptureHas(h) - (IF h = g THEN 1 ELSE 0)
        BY <1>11, <2>3
      <4>2. CASE send_mode = 2
        BY <4>1, <4>2, <1>6, <1>10, <1>11, <2>1 DEF Parts
      <4>3. CASE send_mode # 2
        BY <4>1, <4>3, <1>6, <1>10, <1>11, <2>1 DEF Parts
      <4>4. QED
        BY <4>2, <4>3
    <3>3. Owed(g) >= 1
      BY <3>2, <1>1
    <3>4. QED
      BY <3>1, <3>2, <3>3, <1>1 DEF Balances
  <2>4. QED
    BY <2>2, <2>3
<1>15. QED
  BY <1>5, <1>7, <1>8, <1>9, <1>13, <1>14 DEF Step

\* The consumers of the show, send and UI mailboxes have no local pointer: only
\* the mailboxes tell what they do to a group.
LEMMA BoxStep ==
  ASSUME PipelineInv, BoxTypes', UNCHANGED <<mbx_dsp, pc, holds, modeVars, g_ui_socket_state>>,
         g_ui_img_ability' \in {0, 1}
  PROVE  /\ Steady /\ RestTypes' /\ ThreadInv'
         /\ \A h \in Groups : /\ Owed(h)' - Owed(h) = InBoxes(h)' - InBoxes(h)
                             /\ Owed(h) >= InBoxes(h) /\ Owed(h) \in Nat /\ Owed(h)' \in Nat
<1>1. Steady
  BY DEF Steady, PipelineInv, ThreadInv
<1>2. RestTypes'
  BY DEF RestTypes, PipelineInv, TypeOK, modeVars
<1>3. ThreadInv'
  BY DEF PipelineInv, ThreadInv
<1>4. ASSUME NEW h \in Groups
      PROVE  /\ Owed(h)' - Owed(h) = InBoxes(h)' - InBoxes(h)
             /\ Owed(h) >= InBoxes(h) /\ Owed(h) \in Nat /\ Owed(h)' \in Nat
  <2>1. Parts(h) /\ Parts(h)'
    BY BothParts
  <2>2. CaptureHas(h)' = CaptureHas(h) /\ SimHas(h)' = SimHas(h)
        /\ CaptureHas(h) \in Nat /\ SimHas(h) \in Nat
    BY DEF CaptureHas, SimHas, modeVars
  <2>3. /\ In(h, mbx_dsp)' = In(h, mbx_dsp) /\ send_mode' = send_mode
        /\ Cardinality(DspsAt(h, "process"))' = Cardinality(DspsAt(h, "process"))
        /\ Cardinality(DspsAt(h, "upload"))' = Cardinality(DspsAt(h, "upload"))
    BY DEF modeVars, DspsAt
  <2>4. CASE send_mode = 2
    BY <2>1, <2>2, <2>3, <2>4 DEF Parts
  <2>5. CASE send_mode # 2
    BY <2>1, <2>2, <2>3, <2>5 DEF Parts
  <2>6. QED
    BY <2>4, <2>5
<1>5. QED
  BY <1>1, <1>2, <1>3, <1>4

\* image_show_tsk hands the picture to the UI or releases it.
LEMMA ShowStep ==
  ASSUME PipelineInv, ShowTask PROVE Step
<1> DEFINE g == Head(mbx_show)
<1>1. /\ Takes(mbx_show, mbx_show', g) /\ mbx_show \in Seq(Groups) /\ mbx_ui \in Seq(Groups)
      /\ UNCHANGED <<mbx_send, mbx_dsp, pc, holds, modeVars, g_ui_socket_state>>
  BY DEF ShowTask, Takes, PipelineInv, TypeOK
<1>2. \/ /\ UNCHANGED poolVars /\ Adds(mbx_ui, mbx_ui', g) /\ g_ui_img_ability' = 0
      \/ /\ ReleaseTimes(g, 1) /\ UNCHANGED <<mbx_ui, g_ui_img_ability>>
  BY DEF ShowTask, Adds, Release
<1> HIDE DEF g
<1>3. /\ mbx_show' \in Seq(Groups) /\ g \in Groups /\ In(g, mbx_show) >= 1
      /\ \A h \in Groups : In(h, mbx_show)' = In(h, mbx_show) - (IF h = g THEN 1 ELSE 0)
  BY <1>1, InTakes
<1>4. mbx_ui' \in Seq(Groups)
      /\ (Adds(mbx_ui, mbx_ui', g) =>
            \A h \in Groups : In(h, mbx_ui)' = In(h, mbx_ui) + (IF h = g THEN 1 ELSE 0))
  BY <1>1, <1>2, <1>3, InAdds
<1>5. BoxTypes'
  BY <1>1, <1>3, <1>4 DEF BoxTypes, PipelineInv, TypeOK
<1>6. g_ui_img_ability' \in {0, 1}
  BY <1>2 DEF PipelineInv, TypeOK
<1>7. /\ Steady /\ RestTypes' /\ ThreadInv'
      /\ \A h \in Groups : /\ Owed(h)' - Owed(h) = InBoxes(h)' - InBoxes(h)
                          /\ Owed(h) >= InBoxes(h) /\ Owed(h) \in Nat /\ Owed(h)' \in Nat
  BY <1>1, <1>5, <1>6, BoxStep
<1>8. image_source' = image_source /\ image_source \in [Groups -> {0, 1}]
  BY <1>2 DEF ReleaseTimes, poolVars, PipelineInv, TypeOK
<1>9. \A h \in Groups : /\ In(h, mbx_show) \in Nat /\ In(h, mbx_ui) \in Nat
                       /\ In(h, mbx_send) \in Nat /\ In(h, mbx_send)' = In(h, mbx_send)
  BY <1>1, InFacts DEF PipelineInv, TypeOK
<1>10. ASSUME UNCHANGED poolVars, Adds(mbx_ui, mbx_ui', g) PROVE Balances
  <2>0. \A h \in Groups : In(h, mbx_ui)' = In(h, mbx_ui) + (IF h = g THEN 1 ELSE 0)
    BY <1>4, <1>10
  <2>1. ASSUME NEW h \in Groups PROVE InBoxes(h)' = InBoxes(h)
    <3>1. /\ In(h, mbx_show) \in Nat /\ In(h, mbx_ui) \in Nat
          /\ In(h, mbx_send) \in Nat /\ In(h, mbx_send)' = In(h, mbx_send)
      BY <1>9
    <3>2. CASE h = g
      BY <3>1, <3>2, <1>3, <2>0 DEF InBoxes
    <3>3. CASE h # g
      BY <3>1, <3>3, <1>3, <2>0 DEF InBoxes
    <3>4. QED
      BY <3>2, <3>3
  <2>2. \A h \in Groups : Owed(h)' = Owed(h)
    BY <1>7, <1>9, <2>1 DEF InBoxes
  <2>3. \A h \in Groups : image[h] = SimBuf => image_source'[h] = 1
    BY <1>8 DEF PipelineInv, SourceInv
  <2>4. QED
    BY <2>2, <2>3, <1>10 DEF Balances, poolVars
<1>11. ASSUME ReleaseTimes(g, 1), UNCHANGED mbx_ui PROVE Balances
  <2>1. \A h \in Groups : In(h, mbx_ui)' = In(h, mbx_ui)
    BY <1>11
  <2>2. \A h \in Groups : InBoxes(h)' = InBoxes(h) - (IF h = g THEN 1 ELSE 0)
    BY <1>3, <2>1, <1>9 DEF InBoxes
  <2>3. \A h \in Groups : Owed(h)' = Owed(h) - (IF h = g THEN 1 ELSE 0)
    BY <1>7, <1>9, <2>2 DEF InBoxes
  <2>4. Owed(g) >= 1
    BY <1>3, <1>7, <1>9 DEF InBoxes
  <2>5. QED
    BY <2>3, <2>4, <1>3, <1>11 DEF Balances
<1>12. QED
  BY <1>2, <1>7, <1>8, <1>10, <1>11 DEF Step

\* A message to the UI is recycled, and with it the UI's reference.
LEMMA UiSendStep ==
  ASSUME PipelineInv, UiSendTask PROVE Step
<1> DEFINE g == Head(mbx_ui)
<1>1. /\ Takes(mbx_ui, mbx_ui', g) /\ mbx_ui \in Seq(Groups) /\ ReleaseTimes(g, 1)
      /\ UNCHANGED <<mbx_show, mbx_send, mbx_dsp, pc, holds, modeVars, uiVars>>
  BY DEF UiSendTask, Takes, PipelineInv, TypeOK, Release
<1> HIDE DEF g
<1>2. /\ mbx_ui' \in Seq(Groups) /\ g \in Groups /\ In(g, mbx_ui) >= 1
      /\ \A h \in Groups : In(h, mbx_ui)' = In(h, mbx_ui) - (IF h = g THEN 1 ELSE 0)
  BY <1>1, InTakes
<1>3. BoxTypes'
  BY <1>1, <1>2 DEF BoxTypes, PipelineInv, TypeOK
<1>4. g_ui_img_ability' \in {0, 1} /\ g_ui_socket_state' = g_ui_socket_state
  BY <1>1 DEF PipelineInv, TypeOK, uiVars
<1>5. /\ Steady /\ RestTypes' /\ ThreadInv'
      /\ \A h \in Groups : /\ Owed(h)' - Owed(h) = InBoxes(h)' - InBoxes(h)
                          /\ Owed(h) >= InBoxes(h) /\ Owed(h) \in Nat /\ Owed(h)' \in Nat
  BY <1>1, <1>3, <1>4, BoxStep
<1>6. image_source' = image_source /\ image_source \in [Groups -> {0, 1}]
  BY <1>1 DEF ReleaseTimes, PipelineInv, TypeOK
<1>7. \A h \in Groups : /\ In(h, mbx_show) \in Nat /\ In(h, mbx_ui) \in Nat
                       /\ In(h, mbx_send) \in Nat /\ In(h, mbx_send)' = In(h, mbx_send)
                       /\ In(h, mbx_show)' = In(h, mbx_show)
  BY <1>1, InFacts DEF PipelineInv, TypeOK
<1>8. \A h \in Groups : InBoxes(h)' = InBoxes(h) - (IF h = g THEN 1 ELSE 0)
  BY <1>2, <1>7 DEF InBoxes
<1>9. \A h \in Groups : Owed(h)' = Owed(h) - (IF h = g THEN 1 ELSE 0)
  BY <1>5, <1>7, <1>8 DEF InBoxes
<1>10. Owed(g) >= 1
  BY <1>2, <1>5, <1>7 DEF InBoxes
<1>11. QED
  BY <1>1, <1>2, <1>5, <1>6, <1>9, <1>10 DEF Step, Balances

\* image_send_tsk releases the network's reference.
LEMMA ImageSendStep ==
  ASSUME PipelineInv, ImageSendTask PROVE Step
<1> DEFINE g == Head(mbx_send)
<1>1. /\ Takes(mbx_send, mbx_send', g) /\ mbx_send \in Seq(Groups) /\ ReleaseTimes(g, 1)
      /\ UNCHANGED <<mbx_show, mbx_ui, mbx_dsp, pc, holds, modeVars, uiVars>>
  BY DEF ImageSendTask, Takes, PipelineInv, TypeOK, Release
<1> HIDE DEF g
<1>2. /\ mbx_send' \in Seq(Groups) /\ g \in Groups /\ In(g, mbx_send) >= 1
      /\ \A h \in Groups : In(h, mbx_send)' = In(h, mbx_send) - (IF h = g THEN 1 ELSE 0)
  BY <1>1, InTakes
<1>3. BoxTypes'
  BY <1>1, <1>2 DEF BoxTypes, PipelineInv, TypeOK
<1>4. g_ui_img_ability' \in {0, 1} /\ g_ui_socket_state' = g_ui_socket_state
  BY <1>1 DEF PipelineInv, TypeOK, uiVars
<1>5. /\ Steady /\ RestTypes' /\ ThreadInv'
      /\ \A h \in Groups : /\ Owed(h)' - Owed(h) = InBoxes(h)' - InBoxes(h)
                          /\ Owed(h) >= InBoxes(h) /\ Owed(h) \in Nat /\ Owed(h)' \in Nat
  BY <1>1, <1>3, <1>4, BoxStep
<1>6. image_source' = image_source /\ image_source \in [Groups -> {0, 1}]
  BY <1>1 DEF ReleaseTimes, PipelineInv, TypeOK
<1>7. \A h \in Groups : /\ In(h, mbx_show) \in Nat /\ In(h, mbx_ui) \in Nat
                       /\ In(h, mbx_send) \in Nat /\ In(h, mbx_ui)' = In(h, mbx_ui)
                       /\ In(h, mbx_show)' = In(h, mbx_show)
  BY <1>1, InFacts DEF PipelineInv, TypeOK
<1>8. \A h \in Groups : InBoxes(h)' = InBoxes(h) - (IF h = g THEN 1 ELSE 0)
  BY <1>2, <1>7 DEF InBoxes
<1>9. \A h \in Groups : Owed(h)' = Owed(h) - (IF h = g THEN 1 ELSE 0)
  BY <1>5, <1>7, <1>8 DEF InBoxes
<1>10. Owed(g) >= 1
  BY <1>2, <1>5, <1>7 DEF InBoxes
<1>11. QED
  BY <1>1, <1>2, <1>5, <1>6, <1>9, <1>10 DEF Step, Balances

\* A sample taken during a reset: all three references go at once.
LEMMA CaptureResetStep ==
  ASSUME PipelineInv, CaptureReset PROVE Step
<1> DEFINE g == holds["capture"]
<1>1. g \in Groups /\ pc["capture"] = "count" /\ NoGroup \in Groups \cup {NoGroup}
  BY DEF PipelineInv, ThreadInv, CaptureReset, Threads
<1>2. /\ UNCHANGED <<mbxVars, modeVars, uiVars>>
      /\ Goto("capture", "idle", NoGroup) /\ ReleaseTimes(g, 3)
  BY DEF CaptureReset
<1>3. BoxTypes'
  BY <1>2 DEF PipelineInv, TypeOK, BoxTypes, mbxVars
<1>4. /\ pc' \in [Threads -> Pcs] /\ holds' \in [Threads -> Groups \cup {NoGroup}]
      /\ ThreadInv'
  BY <1>1, <1>2, GotoTypes, SamplePipelineAssumption DEF PipelineInv, Threads, Pcs
<1>5. /\ pc'["capture"] = "idle"
      /\ \A u \in Threads : u # "capture" => pc'[u] = pc[u] /\ holds'[u] = holds[u]
      /\ \A h, L : DspsAt(h, L)' = DspsAt(h, L)
  BY <1>2, OthersMove DEF PipelineInv
<1>6. RestTypes'
  BY <1>2, <1>3, <1>4 DEF RestTypes, PipelineInv, TypeOK, modeVars, uiVars
<1>7. Steady
  BY <1>1, <1>5 DEF Steady, Threads
<1>8. image_source' = image_source /\ image_source \in [Groups -> {0, 1}]
  BY <1>2 DEF ReleaseTimes, PipelineInv, TypeOK
<1>9. ASSUME NEW h \in Groups
      PROVE  Owed(h)' = Owed(h) - (IF h = g THEN 3 ELSE 0) /\ (h = g => Owed(h) >= 3)
  <2>1. Parts(h) /\ Parts(h)'
    BY <1>3, BothParts
  <2>2. /\ CaptureHas(h) = (IF h = g THEN 3 ELSE 0) /\ CaptureHas(h)' = 0
        /\ SimHas(h)' = SimHas(h) /\ SimHas(h) \in Nat
    BY <1>1, <1>5 DEF CaptureHas, SimHas, Threads
  <2>3. /\ send_mode' = send_mode /\ In(h, mbx_dsp)' = In(h, mbx_dsp) /\ InBoxes(h)' = InBoxes(h)
    BY <1>2 DEF modeVars, mbxVars, InBoxes
  <2>4. CASE send_mode = 2
    BY <2>1, <2>2, <2>3, <2>4, <1>5 DEF Parts
  <2>5. CASE send_mode # 2
    BY <2>1, <2>2, <2>3, <2>5, <1>5 DEF Parts
  <2>6. QED
    BY <2>4, <2>5
<1>10. Owed(g) >= 3
  BY <1>1, <1>9
<1>11. Balances
  BY <1>1, <1>2, <1>9, <1>10 DEF Balances
<1>12. QED
  BY <1>4, <1>6, <1>7, <1>8, <1>11 DEF Step

\* Judge modes without a report and, in send mode 2, samples the DSPs do not take
\* forget references; no other mode does.
NothingForgotten ==
  /\ JudgeModes \subseteq 0 .. 3
  /\ ~(2 \in SendModes /\ 0 \in JudgeModes)

\* The DSP's reference goes to mbx_dsp or is released.
LEMMA CaptureJudgeStep ==
  ASSUME PipelineInv, CaptureJudge
  PROVE  /\ Steady /\ RestTypes' /\ ThreadInv' /\ image_source' \in [Groups -> {0, 1}]
         /\ Settles
         /\ NothingForgotten => Balances
<1> DEFINE g == holds["capture"]
           both == send_mode = 2 /\ judge_mode = 0
<1>1. g \in Groups /\ pc["capture"] = "judge" /\ NoGroup \in Groups \cup {NoGroup}
  BY DEF PipelineInv, ThreadInv, CaptureJudge, Threads
<1>2. /\ UNCHANGED <<mbx_show, mbx_send, mbx_ui, modeVars, uiVars>>
      /\ Goto("capture", "idle", NoGroup)
  BY DEF CaptureJudge
<1>3. \/ judge_mode = 0 /\ Adds(mbx_dsp, mbx_dsp', g) /\ UNCHANGED poolVars
      \/ judge_mode \in 0 .. 3 /\ ReleaseTimes(g, 1) /\ UNCHANGED mbx_dsp
      \/ judge_mode \notin 0 .. 3 /\ UNCHANGED <<mbx_dsp, poolVars>>
  BY DEF CaptureJudge, Adds, Release
<1>4. mbx_dsp \in Seq(Groups) /\ mbx_dsp' \in Seq(Groups)
      /\ (Adds(mbx_dsp, mbx_dsp', g) =>
            \A h \in Groups : In(h, mbx_dsp)' = In(h, mbx_dsp) + (IF h = g THEN 1 ELSE 0))
  <2>1. mbx_dsp \in Seq(Groups)
    BY DEF PipelineInv, TypeOK
  <2>2. QED
    BY <1>1, <1>3, <2>1, InAdds
<1>5. BoxTypes'
  BY <1>2, <1>4 DEF PipelineInv, TypeOK, BoxTypes
<1>6. /\ pc' \in [Threads -> Pcs] /\ holds' \in [Threads -> Groups \cup {NoGroup}]
      /\ ThreadInv'
  BY <1>1, <1>2, GotoTypes, SamplePipelineAssumption DEF PipelineInv, Threads, Pcs
<1>7. /\ pc'["capture"] = "idle"
      /\ \A u \in Threads : u # "capture" => pc'[u] = pc[u] /\ holds'[u] = holds[u]
      /\ \A h, L : DspsAt(h, L)' = DspsAt(h, L)
  BY <1>2, OthersMove DEF PipelineInv
<1>8. RestTypes'
  BY <1>2, <1>5, <1>6 DEF RestTypes, PipelineInv, TypeOK, modeVars, uiVars
<1>9. Steady
  BY <1>1, <1>7 DEF Steady, Threads
<1>10. image_source' = image_source /\ image_source \in [Groups -> {0, 1}]
  BY <1>3 DEF ReleaseTimes, poolVars, PipelineInv, TypeOK
<1>11. \A h \in Groups : image[h] = SimBuf => image_source'[h] = 1
  BY <1>10 DEF PipelineInv, SourceInv

\* what the step takes from capture_tsk and gives to mbx_dsp
<1>12. ASSUME NEW h \in Groups
       PROVE  /\ Owed(h) \in Nat /\ Owed(h)' \in Nat /\ (h = g => Owed(h) >= 1)
              /\ In(h, mbx_dsp) \in Nat /\ In(h, mbx_dsp)' \in Nat
              /\ Owed(h)' - Owed(h) =
                   (IF send_mode = 2 THEN 2 * (In(h, mbx_dsp)' - In(h, mbx_dsp))
                                     ELSE In(h, mbx_dsp)' - In(h, mbx_dsp))
                   - (IF h # g THEN 0 ELSE IF both THEN 2 ELSE 1)
  <2>1. Parts(h) /\ Parts(h)'
    BY <1>5, BothParts
  <2>2. /\ CaptureHas(h) = (IF h # g THEN 0 ELSE IF both THEN 2 ELSE 1) /\ CaptureHas(h)' = 0
        /\ SimHas(h)' = SimHas(h) /\ SimHas(h) \in Nat
    BY <1>1, <1>7 DEF CaptureHas, SimHas, Threads
  <2>3. send_mode' = send_mode /\ InBoxes(h)' = InBoxes(h)
    BY <1>2 DEF modeVars, InBoxes
  <2> HIDE DEF both
  <2>4. CASE send_mode = 2
    BY <2>1, <2>2, <2>3, <2>4, <1>7 DEF Parts
  <2>5. CASE send_mode # 2
    BY <2>1, <2>2, <2>3, <2>5, <1>7 DEF Parts
  <2>6. QED
    BY <2>4, <2>5
<1>13. Owed(g) >= 1
  BY <1>1, <1>12
<1>14. ASSUME judge_mode = 0, Adds(mbx_dsp, mbx_dsp', g), UNCHANGED poolVars
       PROVE  Balances
  <2>1. \A h \in Groups : In(h, mbx_dsp)' = In(h, mbx_dsp) + (IF h = g THEN 1 ELSE 0)
    BY <1>4, <1>14
  <2>2. \A h \in Groups : Owed(h)' = Owed(h)
    BY <1>12, <1>14, <2>1, SMTT(30)
  <2>3. QED
    BY <1>11, <1>14, <2>2 DEF Balances, poolVars
<1>15. ASSUME judge_mode \in 0 .. 3, ReleaseTimes(g, 1), UNCHANGED mbx_dsp
       PROVE  Settles /\ (NothingForgotten => Balances)
  <2>1. \A h \in Groups : In(h, mbx_dsp)' = In(h, mbx_dsp)
    BY <1>15
  <2>2. \A h \in Groups : Owed(h)' <= Owed(h) - (IF h = g THEN 1 ELSE 0)
    BY <1>12, <2>1
  <2>3. NothingForgotten => ~both
    BY DEF NothingForgotten, PipelineInv, TypeOK
  <2>4. NothingForgotten => \A h \in Groups : Owed(h)' = Owed(h) - (IF h = g THEN 1 ELSE 0)
    BY <1>12, <2>1, <2>3
  <2>5. Settles
    BY <1>1, <1>13, <1>15, <2>2 DEF Settles
  <2>6. NothingForgotten => Balances
    BY <1>1, <1>13, <1>15, <2>4 DEF Balances
  <2>7. QED
    BY <2>5, <2>6
<1>16. ASSUME judge_mode \notin 0 .. 3, UNCHANGED <<mbx_dsp, poolVars>>
       PROVE  Settles /\ ~NothingForgotten
  <2>1. \A h \in Groups : In(h, mbx_dsp)' = In(h, mbx_dsp)
    BY <1>16
  <2>2. \A h \in Groups : Owed(h)' <= Owed(h)
    BY <1>12, <2>1
  <2>3. Settles
    BY <1>11, <1>16, <2>2 DEF Settles, poolVars
  <2>4. QED
    BY <1>16, <2>3 DEF NothingForgotten, PipelineInv, TypeOK
<1>17. Settles /\ (NothingForgotten => Balances)
  BY <1>3, <1>5, <1>14, <1>15, <1>16, BalancesSettles
<1>18. QED
  BY <1>6, <1>8, <1>9, <1>10, <1>17

\* What a step of a DSP does to the threads.
LEMMA DspFrame ==
  ASSUME PipelineInv, NEW d \in Dsps, NEW l \in {"idle", "process", "upload"},
         NEW x \in Groups \cup {NoGroup}, Goto(d, l, x), l # "idle" => x \in Groups,
         BoxTypes', UNCHANGED <<modeVars, uiVars>>
  PROVE  /\ Steady /\ RestTypes' /\ ThreadInv'
         /\ \A h \in Groups : /\ Parts(h) /\ Parts(h)'
                             /\ CaptureHas(h)' = CaptureHas(h) /\ CaptureHas(h) \in Nat
                             /\ SimHas(h)' = SimHas(h) /\ SimHas(h) \in Nat
<1>1. d \in Threads /\ d \notin {"capture", "sim", "overclock"} /\ l \in Pcs
  BY SamplePipelineAssumption DEF Threads, Pcs
<1>2. /\ pc' \in [Threads -> Pcs] /\ holds' \in [Threads -> Groups \cup {NoGroup}]
      /\ ThreadInv'
  BY <1>1, GotoTypes DEF PipelineInv
<1>3. \A u \in {"capture", "sim", "overclock"} : pc'[u] = pc[u] /\ holds'[u] = holds[u]
  BY <1>1 DEF PipelineInv, TypeOK, Goto, Threads
<1>4. RestTypes'
  BY <1>2 DEF RestTypes, PipelineInv, TypeOK, modeVars, uiVars
<1>5. Steady
  BY <1>3 DEF Steady, PipelineInv, ThreadInv
<1>6. ASSUME NEW h \in Groups
      PROVE  /\ Parts(h) /\ Parts(h)'
             /\ CaptureHas(h)' = CaptureHas(h) /\ CaptureHas(h) \in Nat
             /\ SimHas(h)' = SimHas(h) /\ SimHas(h) \in Nat
  <2>1. Parts(h) /\ Parts(h)'
    BY BothParts
  <2>2. CaptureHas(h)' = CaptureHas(h) /\ CaptureHas(h) \in Nat
        /\ SimHas(h)' = SimHas(h) /\ SimHas(h) \in Nat
    BY <1>3 DEF CaptureHas, SimHas, modeVars
  <2>3. QED
    BY <2>1, <2>2
<1>7. QED
  BY <1>2, <1>4, <1>5, <1>6

\* The sample goes from the mailbox to a DSP, with the references it has.
LEMMA DspTakeStep ==
  ASSUME PipelineInv, NEW d \in Dsps, DspTake(d) PROVE Step
<1> DEFINE g == Head(mbx_dsp)
<1>1. /\ Takes(mbx_dsp, mbx_dsp', g) /\ mbx_dsp \in Seq(Groups) /\ pc[d] = "idle"
      /\ Goto(d, "process", g)
      /\ UNCHANGED <<poolVars, mbx_show, mbx_send, mbx_ui, modeVars, uiVars>>
  BY DEF DspTake, Takes, PipelineInv, TypeOK
<1> HIDE DEF g
<1>2. /\ mbx_dsp' \in Seq(Groups) /\ g \in Groups
      /\ \A h \in Groups : In(h, mbx_dsp)' = In(h, mbx_dsp) - (IF h = g THEN 1 ELSE 0)
  BY <1>1, InTakes
<1>3. BoxTypes'
  BY <1>1, <1>2 DEF BoxTypes, PipelineInv, TypeOK
<1>4. /\ Steady /\ RestTypes' /\ ThreadInv'
      /\ \A h \in Groups : /\ Parts(h) /\ Parts(h)'
                          /\ CaptureHas(h)' = CaptureHas(h) /\ CaptureHas(h) \in Nat
                          /\ SimHas(h)' = SimHas(h) /\ SimHas(h) \in Nat
  BY <1>1, <1>2, <1>3, DspFrame
<1>5. image_source' = image_source /\ image_source \in [Groups -> {0, 1}]
  BY <1>1 DEF poolVars, PipelineInv, TypeOK
<1>6. ASSUME NEW h \in Groups PROVE Owed(h)' = Owed(h)
  <2>1. /\ Cardinality(DspsAt(h, "process"))' =
             Cardinality(DspsAt(h, "process")) - (IF pc[d] = "process" /\ holds[d] = h THEN 1 ELSE 0)
               + (IF "process" = "process" /\ g = h THEN 1 ELSE 0)
        /\ Cardinality(DspsAt(h, "upload"))' =
             Cardinality(DspsAt(h, "upload")) - (IF pc[d] = "upload" /\ holds[d] = h THEN 1 ELSE 0)
               + (IF "process" = "upload" /\ g = h THEN 1 ELSE 0)
    <3>1. TypeOK /\ g \in Groups \cup {NoGroup} /\ "process" \in Pcs
      BY <1>2 DEF PipelineInv, Pcs
    <3>2. QED
      BY <3>1, <1>1, DspMoves
  <2>2. Parts(h) /\ Parts(h)' /\ In(h, mbx_dsp)' = In(h, mbx_dsp) - (IF h = g THEN 1 ELSE 0)
        /\ CaptureHas(h)' = CaptureHas(h) /\ CaptureHas(h) \in Nat
        /\ SimHas(h)' = SimHas(h) /\ SimHas(h) \in Nat
    BY <1>2, <1>4
  <2>3. Cardinality(DspsAt(h, "process")) \in Nat /\ Cardinality(DspsAt(h, "upload")) \in Nat
    BY DspSets
  <2>4. /\ Cardinality(DspsAt(h, "process"))' =
             Cardinality(DspsAt(h, "process")) + (IF h = g THEN 1 ELSE 0)
        /\ Cardinality(DspsAt(h, "upload"))' = Cardinality(DspsAt(h, "upload"))
    BY <1>1, <2>1, <2>3
  <2>5. send_mode' = send_mode /\ InBoxes(h)' = InBoxes(h)
    BY <1>1 DEF modeVars, InBoxes
  <2>6. CASE send_mode = 2
    BY <2>2, <2>3, <2>4, <2>5, <2>6 DEF Parts
  <2>7. CASE send_mode # 2
    BY <2>2, <2>3, <2>4, <2>5, <2>7 DEF Parts
  <2>8. QED
    BY <2>6, <2>7
<1>7. \A h \in Groups : image[h] = SimBuf => image_source'[h] = 1
  BY <1>5 DEF PipelineInv, SourceInv
<1>8. UNCHANGED <<idle_groups, image, r_count, driver>>
  BY <1>1 DEF poolVars
<1>9. QED
  BY <1>4, <1>5, <1>6, <1>7, <1>8 DEF Step, Balances

\* The DSP's reference is released; the network's stays with it in send mode 2.
LEMMA DspReportStep ==
  ASSUME PipelineInv, NEW d \in Dsps, DspReport(d) PROVE Step
<1> DEFINE g == holds[d]
<1>1. /\ pc[d] = "process" /\ ReleaseTimes(g, 1) /\ Goto(d, "upload", g)
      /\ UNCHANGED <<mbxVars, modeVars, uiVars>>
  BY DEF DspReport, Release
<1>2. g \in Groups
  BY <1>1 DEF PipelineInv, ThreadInv, Threads
<1>3. BoxTypes'
  BY <1>1 DEF BoxTypes, PipelineInv, TypeOK, mbxVars
<1>4. /\ Steady /\ RestTypes' /\ ThreadInv'
      /\ \A h \in Groups : /\ Parts(h) /\ Parts(h)'
                          /\ CaptureHas(h)' = CaptureHas(h) /\ CaptureHas(h) \in Nat
                          /\ SimHas(h)' = SimHas(h) /\ SimHas(h) \in Nat
  BY <1>1, <1>2, <1>3, DspFrame
<1>5. image_source' = image_source /\ image_source \in [Groups -> {0, 1}]
  BY <1>1 DEF ReleaseTimes, PipelineInv, TypeOK
<1>6. ASSUME NEW h \in Groups
      PROVE  Owed(h)' = Owed(h) - (IF h = g THEN 1 ELSE 0) /\ (h = g => Owed(h) >= 1)
  <2>1. /\ Cardinality(DspsAt(h, "process"))' =
             Cardinality(DspsAt(h, "process")) - (IF pc[d] = "process" /\ holds[d] = h THEN 1 ELSE 0)
               + (IF "upload" = "process" /\ g = h THEN 1 ELSE 0)
        /\ Cardinality(DspsAt(h, "upload"))' =
             Cardinality(DspsAt(h, "upload")) - (IF pc[d] = "upload" /\ holds[d] = h THEN 1 ELSE 0)
               + (IF "upload" = "upload" /\ g = h THEN 1 ELSE 0)
    <3>1. TypeOK /\ g \in Groups \cup {NoGroup} /\ "upload" \in Pcs
      BY <1>2 DEF PipelineInv, Pcs
    <3>2. QED
      BY <3>1, <1>1, DspMoves
  <2>2. Parts(h) /\ Parts(h)'
        /\ CaptureHas(h)' = CaptureHas(h) /\ CaptureHas(h) \in Nat
        /\ SimHas(h)' = SimHas(h) /\ SimHas(h) \in Nat
    BY <1>4
  <2>3. Cardinality(DspsAt(h, "process")) \in Nat /\ Cardinality(DspsAt(h, "upload")) \in Nat
        /\ Cardinality(DspsAt(h, "process"))' \in Nat
    BY <2>2 DEF Parts
  <2>4. /\ Cardinality(DspsAt(h, "process"))' =
             Cardinality(DspsAt(h, "process")) - (IF h = g THEN 1 ELSE 0)
        /\ Cardinality(DspsAt(h, "upload"))' =
             Cardinality(DspsAt(h, "upload")) + (IF h = g THEN 1 ELSE 0)
    BY <1>1, <2>1, <2>3
  <2>5. send_mode' = send_mode /\ InBoxes(h)' = InBoxes(h) /\ In(h, mbx_dsp)' = In(h, mbx_dsp)
    BY <1>1 DEF modeVars, mbxVars, InBoxes
  <2>6. CASE send_mode = 2
    BY <2>2, <2>3, <2>4, <2>5, <2>6 DEF Parts
  <2>7. CASE send_mode # 2
    BY <2>2, <2>3, <2>4, <2>5, <2>7 DEF Parts
  <2>8. QED
    BY <2>6, <2>7
<1>7. Owed(g) >= 1
  BY <1>2, <1>6
<1>8. QED
  BY <1>1, <1>2, <1>4, <1>5, <1>6, <1>7 DEF Step, Balances

\* In send mode 2 the network's reference goes to mbx_send or is released.
LEMMA DspUploadStep ==
  ASSUME PipelineInv, NEW d \in Dsps, DspUpload(d) PROVE Step
<1> DEFINE g == holds[d]
<1>1. /\ pc[d] = "upload" /\ Goto(d, "idle", NoGroup)
      /\ UNCHANGED <<mbx_show, mbx_dsp, mbx_ui, modeVars, uiVars>>
  BY DEF DspUpload
<1>2. \/ send_mode = 2 /\ Adds(mbx_send, mbx_send', g) /\ UNCHANGED poolVars
      \/ send_mode = 2 /\ ReleaseTimes(g, 1) /\ UNCHANGED mbx_send
      \/ send_mode # 2 /\ UNCHANGED <<mbx_send, poolVars>>
  BY DEF DspUpload, Adds, Release
<1>3. g \in Groups /\ g # NoGroup
  BY <1>1, SamplePipelineAssumption DEF PipelineInv, ThreadInv, Threads
<1>4. mbx_send \in Seq(Groups) /\ mbx_send' \in Seq(Groups)
      /\ (Adds(mbx_send, mbx_send', g) =>
            \A h \in Groups : In(h, mbx_send)' = In(h, mbx_send) + (IF h = g THEN 1 ELSE 0))
  <2>1. mbx_send \in Seq(Groups)
    BY DEF PipelineInv, TypeOK
  <2>2. QED
    BY <1>2, <1>3, <2>1, InAdds
<1>5. BoxTypes'
  BY <1>1, <1>4 DEF PipelineInv, TypeOK, BoxTypes
<1>6. /\ Steady /\ RestTypes' /\ ThreadInv'
      /\ \A h \in Groups : /\ Parts(h) /\ Parts(h)'
                          /\ CaptureHas(h)' = CaptureHas(h) /\ CaptureHas(h) \in Nat
                          /\ SimHas(h)' = SimHas(h) /\ SimHas(h) \in Nat
  <2>1. NoGroup \in Groups \cup {NoGroup} /\ UNCHANGED <<modeVars, uiVars>>
    BY <1>1
  <2>2. QED
    BY <2>1, <1>1, <1>5, DspFrame
<1>7. image_source' = image_source /\ image_source \in [Groups -> {0, 1}]
  BY <1>2 DEF ReleaseTimes, poolVars, PipelineInv, TypeOK
<1>8. \A h \in Groups : image[h] = SimBuf => image_source'[h] = 1
  BY <1>7 DEF PipelineInv, SourceInv
<1>9. send_mode' = send_mode
  BY <1>1 DEF modeVars

\* what the step takes from the DSP and gives to mbx_send
<1>10. ASSUME NEW h \in Groups
       PROVE  /\ Owed(h) \in Nat /\ Owed(h)' \in Nat
              /\ In(h, mbx_send) \in Nat /\ In(h, mbx_send)' \in Nat
              /\ send_mode = 2 /\ h = g => Owed(h) >= 1
              /\ send_mode = 2 => Owed(h)' - Owed(h) = (In(h, mbx_send)' - In(h, mbx_send))
                                                       - (IF h = g THEN 1 ELSE 0)
              /\ send_mode # 2 /\ mbx_send' = mbx_send => Owed(h)' = Owed(h)
  <2>1. /\ Cardinality(DspsAt(h, "process"))' =
             Cardinality(DspsAt(h, "process")) - (IF pc[d] = "process" /\ holds[d] = h THEN 1 ELSE 0)
               + (IF "idle" = "process" /\ NoGroup = h THEN 1 ELSE 0)
        /\ Cardinality(DspsAt(h, "upload"))' =
             Cardinality(DspsAt(h, "upload")) - (IF pc[d] = "upload" /\ holds[d] = h THEN 1 ELSE 0)
               + (IF "idle" = "upload" /\ NoGroup = h THEN 1 ELSE 0)
    <3>1. TypeOK /\ NoGroup \in Groups \cup {NoGroup} /\ "idle" \in Pcs
      BY DEF PipelineInv, Pcs
    <3>2. QED
      BY <3>1, <1>1, DspMoves
  <2>2. Parts(h) /\ Parts(h)'
        /\ CaptureHas(h)' = CaptureHas(h) /\ CaptureHas(h) \in Nat
        /\ SimHas(h)' = SimHas(h) /\ SimHas(h) \in Nat
    BY <1>6
  <2>3. Cardinality(DspsAt(h, "process")) \in Nat /\ Cardinality(DspsAt(h, "upload")) \in Nat
        /\ Cardinality(DspsAt(h, "upload"))' \in Nat
    BY <2>2 DEF Parts
  <2>4. /\ Cardinality(DspsAt(h, "process"))' = Cardinality(DspsAt(h, "process"))
        /\ Cardinality(DspsAt(h, "upload"))' =
             Cardinality(DspsAt(h, "upload")) - (IF h = g THEN 1 ELSE 0)
    BY <1>1, <2>1, <2>3
  <2>5. In(h, mbx_dsp)' = In(h, mbx_dsp)
    BY <1>1
  <2>6. /\ In(h, mbx_show)' = In(h, mbx_show) /\ In(h, mbx_ui)' = In(h, mbx_ui)
        /\ In(h, mbx_show) \in Nat /\ In(h, mbx_ui) \in Nat
    BY <1>1, InFacts DEF PipelineInv, TypeOK
  <2>7. In(h, mbx_send) \in Nat /\ In(h, mbx_send)' \in Nat
    BY <1>4, InFacts
  <2>8. InBoxes(h)' - InBoxes(h) = In(h, mbx_send)' - In(h, mbx_send)
        /\ (mbx_send' = mbx_send => InBoxes(h)' = InBoxes(h))
    BY <2>6, <2>7 DEF InBoxes
  <2>9. CASE send_mode = 2
    BY <2>2, <2>3, <2>4, <2>5, <2>7, <2>8, <2>9, <1>9 DEF Parts
  <2>10. CASE send_mode # 2
    BY <2>2, <2>3, <2>4, <2>5, <2>7, <2>8, <2>10, <1>9 DEF Parts
  <2>11. QED
    BY <2>9, <2>10
<1>11. ASSUME send_mode = 2, Adds(mbx_send, mbx_send', g), UNCHANGED poolVars
       PROVE  Balances
  <2>1. \A h \in Groups : In(h, mbx_send)' = In(h, mbx_send) + (IF h = g THEN 1 ELSE 0)
    BY <1>4, <1>11
  <2>2. ASSUME NEW h \in Groups PROVE Owed(h)' = Owed(h)
    <3>1. In(h, mbx_send)' = In(h, mbx_send) + (IF h = g THEN 1 ELSE 0)
      BY <2>1
    <3>2. /\ Owed(h) \in Nat /\ Owed(h)' \in Nat /\ In(h, mbx_send) \in Nat
          /\ Owed(h)' - Owed(h) = (In(h, mbx_send)' - In(h, mbx_send)) - (IF h = g THEN 1 ELSE 0)
      BY <1>10, <1>11
    <3>3. QED
      BY <3>1, <3>2
  <2>3. QED
    BY <1>8, <1>11, <2>2 DEF Balances, poolVars
<1>12. ASSUME send_mode = 2, ReleaseTimes(g, 1), UNCHANGED mbx_send
       PROVE  Balances
  <2>1. \A h \in Groups : In(h, mbx_send)' = In(h, mbx_send)
    BY <1>12
  <2>2. \A h \in Groups : Owed(h)' = Owed(h) - (IF h = g THEN 1 ELSE 0)
    BY <1>10, <1>12, <2>1
  <2>3. Owed(g) >= 1
    BY <1>3, <1>10, <1>12
  <2>4. QED
    BY <1>3, <1>12, <2>2, <2>3 DEF Balances
<1>13. ASSUME send_mode # 2, UNCHANGED <<mbx_send, poolVars>> PROVE Balances
  <2>1. \A h \in Groups : Owed(h)' = Owed(h)
    BY <1>10, <1>13
  <2>2. QED
    BY <1>8, <1>13, <2>1 DEF Balances, poolVars
<1>14. QED
  BY <1>2, <1>6, <1>7, <1>11, <1>12, <1>13 DEF Step

\* The network's reference to a simulated picture: as for capture_tsk, but in send
\* mode 2 it always goes with the sample.
LEMMA SimNetStep ==
  ASSUME PipelineInv, SimNet PROVE Step
<1> DEFINE g == holds["sim"]
<1>1. g \in Groups /\ pc["sim"] = "net" /\ g # NoGroup
  BY SamplePipelineAssumption DEF PipelineInv, ThreadInv, SimNet, Threads
<1>2. /\ UNCHANGED <<mbx_show, mbx_dsp, mbx_ui, modeVars, uiVars>>
      /\ Goto("sim", "idle", NoGroup) /\ NetBranch(g, FALSE)
  BY DEF SimNet
<1>3. \/ send_mode = 1 /\ Adds(mbx_send, mbx_send', g) /\ UNCHANGED poolVars
      \/ send_mode = 0 /\ ReleaseTimes(g, 1) /\ UNCHANGED mbx_send
      \/ send_mode = 2 /\ UNCHANGED <<mbx_send, poolVars>>
  BY <1>2 DEF NetBranch, Adds, Release
<1>4. mbx_send \in Seq(Groups) /\ mbx_send' \in Seq(Groups)
      /\ (Adds(mbx_send, mbx_send', g) =>
            \A h \in Groups : In(h, mbx_send)' = In(h, mbx_send) + (IF h = g THEN 1 ELSE 0))
  <2>1. mbx_send \in Seq(Groups)
    BY DEF PipelineInv, TypeOK
  <2>2. QED
    BY <1>1, <1>3, <2>1, InAdds
<1>5. BoxTypes'
  BY <1>2, <1>4 DEF PipelineInv, TypeOK, BoxTypes
<1>6. /\ pc' \in [Threads -> Pcs] /\ holds' \in [Threads -> Groups \cup {NoGroup}]
      /\ ThreadInv'
  <2>1. NoGroup \in Groups \cup {NoGroup}
    OBVIOUS
  <2>2. QED
    BY <2>1, <1>2, GotoTypes, SamplePipelineAssumption DEF PipelineInv, Threads, Pcs
<1>7. /\ pc'["sim"] = "idle"
      /\ \A u \in Threads : u # "sim" => pc'[u] = pc[u] /\ holds'[u] = holds[u]
      /\ \A h, L : DspsAt(h, L)' = DspsAt(h, L)
  BY <1>2, OthersMove DEF PipelineInv
<1>8. RestTypes'
  BY <1>2, <1>5, <1>6 DEF RestTypes, PipelineInv, TypeOK, modeVars, uiVars
<1>9. Steady
  BY <1>7 DEF Steady, Threads
<1>10. image_source' = image_source /\ image_source \in [Groups -> {0, 1}]
  BY <1>3 DEF ReleaseTimes, poolVars, PipelineInv, TypeOK
<1>11. \A h \in Groups : image[h] = SimBuf => image_source'[h] = 1
  BY <1>10 DEF PipelineInv, SourceInv
<1>12. send_mode' = send_mode
  BY <1>2 DEF modeVars
<1>13. ASSUME NEW h \in Groups
       PROVE  /\ Owed(h) \in Nat /\ Owed(h)' \in Nat
              /\ In(h, mbx_send) \in Nat /\ In(h, mbx_send)' \in Nat
              /\ send_mode # 2 /\ h = g => Owed(h) >= 1
              /\ send_mode # 2 => Owed(h)' - Owed(h) = (In(h, mbx_send)' - In(h, mbx_send))
                                                       - (IF h = g THEN 1 ELSE 0)
              /\ send_mode = 2 /\ mbx_send' = mbx_send => Owed(h)' = Owed(h)
  <2>1. Parts(h) /\ Parts(h)'
    BY <1>5, BothParts
  <2>2. /\ CaptureHas(h)' = CaptureHas(h) /\ CaptureHas(h) \in Nat
        /\ SimHas(h) = (IF h = g THEN 1 ELSE 0) /\ SimHas(h)' = 0
    BY <1>1, <1>2, <1>7 DEF CaptureHas, SimHas, Threads, modeVars
  <2>3. In(h, mbx_dsp)' = In(h, mbx_dsp)
    BY <1>2
  <2>4. /\ In(h, mbx_show)' = In(h, mbx_show) /\ In(h, mbx_ui)' = In(h, mbx_ui)
        /\ In(h, mbx_show) \in Nat /\ In(h, mbx_ui) \in Nat
    BY <1>2, InFacts DEF PipelineInv, TypeOK
  <2>5. In(h, mbx_send) \in Nat /\ In(h, mbx_send)' \in Nat
    BY <1>4, InFacts
  <2>6. InBoxes(h)' - InBoxes(h) = In(h, mbx_send)' - In(h, mbx_send)
        /\ (mbx_send' = mbx_send => InBoxes(h)' = InBoxes(h))
    BY <2>4, <2>5 DEF InBoxes
  <2>7. CASE send_mode = 2
    BY <2>1, <2>2, <2>3, <2>5, <2>6, <2>7, <1>7, <1>12 DEF Parts
  <2>8. CASE send_mode # 2
    BY <2>1, <2>2, <2>3, <2>5, <2>6, <2>8, <1>7, <1>12 DEF Parts
  <2>9. QED
    BY <2>7, <2>8
<1>14. ASSUME send_mode = 1, Adds(mbx_send, mbx_send', g), UNCHANGED poolVars
       PROVE  Balances
  <2>1. ASSUME NEW h \in Groups PROVE Owed(h)' = Owed(h)
    <3>1. In(h, mbx_send)' = In(h, mbx_send) + (IF h = g THEN 1 ELSE 0)
      BY <1>4, <1>14
    <3>2. /\ Owed(h) \in Nat /\ Owed(h)' \in Nat /\ In(h, mbx_send) \in Nat
          /\ Owed(h)' - Owed(h) = (In(h, mbx_send)' - In(h, mbx_send)) - (IF h = g THEN 1 ELSE 0)
      BY <1>13, <1>14
    <3>3. QED
      BY <3>1, <3>2
  <2>2. QED
    BY <1>11, <1>14, <2>1 DEF Balances, poolVars
<1>15. ASSUME send_mode = 0, ReleaseTimes(g, 1), UNCHANGED mbx_send
       PROVE  Balances
  <2>1. \A h \in Groups : In(h, mbx_send)' = In(h, mbx_send)
    BY <1>15
  <2>2. \A h \in Groups : Owed(h)' = Owed(h) - (IF h = g THEN 1 ELSE 0)
    BY <1>13, <1>15, <2>1
  <2>3. Owed(g) >= 1
    BY <1>1, <1>13, <1>15
  <2>4. QED
    BY <1>1, <1>15, <2>2, <2>3 DEF Balances
<1>16. ASSUME send_mode = 2, UNCHANGED <<mbx_send, poolVars>> PROVE Balances
  <2>1. \A h \in Groups : Owed(h)' = Owed(h)
    BY <1>13, <1>16
  <2>2. QED
    BY <1>11, <1>16, <2>1 DEF Balances, poolVars
<1>17. QED
  BY <1>3, <1>6, <1>8, <1>9, <1>10, <1>14, <1>15, <1>16 DEF Step

-----------------------------------------------------------------------------
(* The steps that take a group from the pool or give it a picture.         *)

\* A group taken from the pool is nobody's.
LEMMA Produced ==
  ASSUME PipelineInv, NEW g \in Groups, SampleFactoryProduce(g)
  PROVE  /\ idle_groups' \in Seq(Groups) /\ IsInjective(idle_groups')
         /\ Range(idle_groups') = Range(idle_groups) \ {g}
         /\ ~Live(g) /\ ~Taken(g) /\ Owed(g) = 0
<1>1. idle_groups \in Seq(Groups) /\ idle_groups # <<>> /\ g = Head(idle_groups)
      /\ idle_groups' = Tail(idle_groups) /\ IsInjective(idle_groups)
  BY DEF SampleFactoryProduce, PipelineInv, TypeOK, PoolInv
<1>2. /\ idle_groups' \in Seq(Groups) /\ IsInjective(idle_groups')
      /\ Range(idle_groups') = Range(idle_groups) \ {g} /\ g \in Range(idle_groups)
  BY <1>1, TailFacts
<1>3. ~Live(g) /\ ~Taken(g)
  BY <1>2 DEF PipelineInv, PoolInv
<1>4. Owed(g) = 0
  BY <1>3 DEF PipelineInv, CountInv
<1>5. QED
  BY <1>2, <1>3, <1>4

\* The change of the sum, while the DSPs and the mailboxes they do not read stay
\* as they are.
LEMMA PartsChange ==
  ASSUME NEW h, Parts(h), Parts(h)', send_mode' = send_mode, InBoxes(h)' = InBoxes(h),
         \A k, L : DspsAt(k, L)' = DspsAt(k, L),
         CaptureHas(h) \in Nat, CaptureHas(h)' \in Nat, SimHas(h) \in Nat, SimHas(h)' \in Nat
  PROVE  /\ Owed(h) \in Nat /\ Owed(h)' \in Nat
         /\ In(h, mbx_dsp) \in Nat /\ In(h, mbx_dsp)' \in Nat
         /\ Owed(h)' - Owed(h) =
              (CaptureHas(h)' - CaptureHas(h))
              + (IF send_mode = 2 THEN 2 * (In(h, mbx_dsp)' - In(h, mbx_dsp))
                 ELSE (In(h, mbx_dsp)' - In(h, mbx_dsp)) + (SimHas(h)' - SimHas(h)))
<1> DEFINE P == Cardinality(DspsAt(h, "process"))
           U == Cardinality(DspsAt(h, "upload"))
           q == In(h, mbx_dsp)
           p == In(h, mbx_dsp)'
           o == Owed(h)
           n == Owed(h)'
           c == CaptureHas(h)
           d == CaptureHas(h)'
           s == SimHas(h)
           r == SimHas(h)'
           b == InBoxes(h)
<1>1. /\ P \in Nat /\ U \in Nat /\ q \in Nat /\ p \in Nat /\ b \in Nat
      /\ c \in Nat /\ d \in Nat /\ s \in Nat /\ r \in Nat
  BY DEF Parts
<1>2. send_mode = 2 => /\ o = c + 2 * q + 2 * P + U + b
                       /\ n = d + 2 * p + 2 * P + U + b
  BY DEF Parts
<1>3. send_mode # 2 => /\ o = c + q + P + s + b
                       /\ n = d + p + P + r + b
  BY DEF Parts
<1> SUFFICES /\ o \in Nat /\ n \in Nat /\ q \in Nat /\ p \in Nat
             /\ n - o = (d - c) + (IF send_mode = 2 THEN 2 * (p - q) ELSE (p - q) + (r - s))
  OBVIOUS
<1> HIDE DEF P, U, q, p, o, n, c, d, s, r, b
<1>4. QED
  BY <1>1, <1>2, <1>3

\* What a step of capture_tsk, image_sim_tsk or sig_handler does to the threads,
\* when only mbx_dsp changes.
LEMMA ThreadFrame ==
  ASSUME PipelineInv, NEW t \in {"capture", "sim", "overclock"}, NEW l \in Pcs,
         NEW x \in Groups \cup {NoGroup}, Goto(t, l, x), l # "idle" => x \in Groups,
         t = "capture" => l \in {"idle", "request", "count", "net", "judge"},
         t = "sim" => l \in {"idle", "net"},
         t = "overclock" => l \in {"idle", "report"},
         mbx_dsp' \in Seq(Groups), UNCHANGED <<mbx_show, mbx_send, mbx_ui, modeVars, uiVars>>
  PROVE  /\ RestTypes' /\ ThreadInv'
         /\ pc'[t] = l /\ holds'[t] = x
         /\ \A u \in Threads : u # t => pc'[u] = pc[u] /\ holds'[u] = holds[u]
         /\ \A h \in Groups :
              /\ Owed(h) \in Nat /\ Owed(h)' \in Nat
              /\ In(h, mbx_dsp) \in Nat /\ In(h, mbx_dsp)' \in Nat
              /\ Owed(h)' - Owed(h) =
                   (CaptureHas(h)' - CaptureHas(h))
                   + (IF send_mode = 2 THEN 2 * (In(h, mbx_dsp)' - In(h, mbx_dsp))
                      ELSE (In(h, mbx_dsp)' - In(h, mbx_dsp)) + (SimHas(h)' - SimHas(h)))
<1>1. BoxTypes'
  BY DEF PipelineInv, TypeOK, BoxTypes
<1>2. /\ pc' \in [Threads -> Pcs] /\ holds' \in [Threads -> Groups \cup {NoGroup}]
      /\ ThreadInv'
  BY GotoTypes, SamplePipelineAssumption DEF PipelineInv, Threads
<1>3. /\ pc'[t] = l /\ holds'[t] = x
      /\ \A u \in Threads : u # t => pc'[u] = pc[u] /\ holds'[u] = holds[u]
      /\ \A h, L : DspsAt(h, L)' = DspsAt(h, L)
  BY OthersMove DEF PipelineInv
<1>4. RestTypes'
  BY <1>1, <1>2 DEF RestTypes, PipelineInv, TypeOK, modeVars, uiVars
<1>5. ASSUME NEW h \in Groups
      PROVE  /\ Owed(h) \in Nat /\ Owed(h)' \in Nat
             /\ In(h, mbx_dsp) \in Nat /\ In(h, mbx_dsp)' \in Nat
             /\ Owed(h)' - Owed(h) =
                  (CaptureHas(h)' - CaptureHas(h))
                  + (IF send_mode = 2 THEN 2 * (In(h, mbx_dsp)' - In(h, mbx_dsp))
                     ELSE (In(h, mbx_dsp)' - In(h, mbx_dsp)) + (SimHas(h)' - SimHas(h)))
  <2>1. Parts(h) /\ Parts(h)'
    BY <1>1, BothParts
  <2>2. CaptureHas(h) \in Nat /\ CaptureHas(h)' \in Nat /\ SimHas(h) \in Nat /\ SimHas(h)' \in Nat
    BY DEF CaptureHas, SimHas
  <2>3. send_mode' = send_mode /\ InBoxes(h)' = InBoxes(h)
    BY DEF modeVars, InBoxes
  <2>4. QED
    BY <1>3, <2>1, <2>2, <2>3, PartsChange
<1>6. QED
  BY <1>2, <1>3, <1>4, <1>5

\* image_capture_tsk and sig_handler take a group.
LEMMA ProduceStep ==
  ASSUME PipelineInv, CaptureProduce \/ OverclockProduce
  PROVE  PipelineInv' /\ \A h \in Groups : Owed(h)' = Owed(h)
<1> DEFINE Taker(t, l, g) ==
      /\ pc[t] = "idle" /\ Goto(t, l, g) /\ SampleFactoryProduce(g)
      /\ UNCHANGED <<image, image_source, r_count, driver, mbxVars, modeVars, uiVars>>
      /\ (t = "capture" /\ l = "request") \/ (t = "overclock" /\ l = "report")
<1>1. PICK t \in {"capture", "overclock"}, l \in {"request", "report"}, g \in Groups : Taker(t, l, g)
  <2>1. ASSUME CaptureProduce PROVE \E g \in Groups : Taker("capture", "request", g)
    <3>1. PICK g \in Groups : SampleFactoryProduce(g) /\ Goto("capture", "request", g)
      BY <2>1 DEF CaptureProduce
    <3>2. Taker("capture", "request", g)
      BY <2>1, <3>1 DEF CaptureProduce
    <3> HIDE DEF Taker
    <3>3. QED
      BY <3>2
  <2>2. ASSUME OverclockProduce PROVE \E g \in Groups : Taker("overclock", "report", g)
    BY <2>2 DEF OverclockProduce
  <2> HIDE DEF Taker
  <2>3. QED
    BY <2>1, <2>2, Zenon
<1>2. /\ idle_groups' \in Seq(Groups) /\ IsInjective(idle_groups')
      /\ Range(idle_groups') = Range(idle_groups) \ {g}
      /\ ~Live(g) /\ ~Taken(g) /\ Owed(g) = 0
  BY <1>1, Produced
<1>3. /\ l \in Pcs /\ g \in Groups \cup {NoGroup} /\ mbx_dsp' \in Seq(Groups)
      /\ UNCHANGED <<mbx_show, mbx_send, mbx_ui, modeVars, uiVars>>
  BY <1>1 DEF Pcs, mbxVars, PipelineInv, TypeOK
<1>4. /\ RestTypes' /\ ThreadInv'
      /\ pc'[t] = l /\ holds'[t] = g
      /\ \A u \in Threads : u # t => pc'[u] = pc[u] /\ holds'[u] = holds[u]
      /\ \A h \in Groups :
           /\ Owed(h) \in Nat /\ Owed(h)' \in Nat
           /\ In(h, mbx_dsp) \in Nat /\ In(h, mbx_dsp)' \in Nat
           /\ Owed(h)' - Owed(h) =
                (CaptureHas(h)' - CaptureHas(h))
                + (IF send_mode = 2 THEN 2 * (In(h, mbx_dsp)' - In(h, mbx_dsp))
                   ELSE (In(h, mbx_dsp)' - In(h, mbx_dsp)) + (SimHas(h)' - SimHas(h)))
  <2>1. /\ Goto(t, l, g) /\ t \in {"capture", "sim", "overclock"}
        /\ t = "capture" => l \in {"idle", "request", "count", "net", "judge"}
        /\ t = "sim" => l \in {"idle", "net"}
        /\ t = "overclock" => l \in {"idle", "report"}
    BY <1>1
  <2>2. QED
    BY <1>3, <2>1, ThreadFrame
<1>5. ASSUME NEW h \in Groups PROVE Owed(h)' = Owed(h)
  <2>1. CaptureHas(h)' = CaptureHas(h) /\ SimHas(h)' = SimHas(h)
        /\ CaptureHas(h) \in Nat /\ SimHas(h) \in Nat
    BY <1>1, <1>3, <1>4 DEF CaptureHas, SimHas, Threads, modeVars
  <2>2. In(h, mbx_dsp)' = In(h, mbx_dsp) /\ In(h, mbx_dsp) \in Nat
    BY <1>1, <1>4 DEF mbxVars
  <2>3. QED
    BY <2>1, <2>2, <1>4
<1>6. \A h \in Groups : Taken(h)' <=> (Taken(h) \/ h = g)
  BY <1>1, <1>4 DEF Taken, Threads
<1>7. PoolInv'
  <2>1. \A h \in Groups : Live(h)' <=> Live(h)
    BY <1>1 DEF Live
  <2>2. \A h \in Groups : h \in Range(idle_groups') <=> ~Live(h)' /\ ~Taken(h)'
    BY <1>2, <1>6, <2>1 DEF PipelineInv, PoolInv
  <2>3. \A h \in Groups : Taken(h)' => ~Live(h)'
    BY <1>2, <1>6, <2>1 DEF PipelineInv, PoolInv
  <2>4. pc'["capture"] = "request" /\ pc'["overclock"] = "report"
          => holds'["capture"] # holds'["overclock"]
    BY <1>1, <1>2, <1>4 DEF Taken, Threads
  <2>5. QED
    BY <1>2, <2>2, <2>3, <2>4 DEF PoolInv
<1>8. CountInv'
  BY <1>1, <1>5 DEF PipelineInv, CountInv, Live
<1>9. SourceInv'
  BY <1>1, <1>4 DEF PipelineInv, SourceInv, Threads
<1>10. PoolTypes'
  BY <1>1, <1>2 DEF PoolTypes, PipelineInv, TypeOK
<1>11. QED
  BY <1>4, <1>5, <1>7, <1>8, <1>9, <1>10 DEF PipelineInv, TypeOK, PoolTypes, RestTypes, BoxTypes

\* capture_tsk gives its group a buffer the driver has filled, with three
\* references.
LEMMA CaptureRequestStep ==
  ASSUME PipelineInv, NEW b \in driver, CaptureRequest(b)
  PROVE  /\ PipelineInv'
         /\ \A h \in Groups : Owed(h)' = IF h = holds["capture"] THEN 3 ELSE Owed(h)
<1> DEFINE g == holds["capture"]
<1>1. g \in Groups /\ pc["capture"] = "request" /\ g # NoGroup
  BY SamplePipelineAssumption DEF PipelineInv, ThreadInv, CaptureRequest, Threads
<1>2. /\ b \in Bufs /\ driver \subseteq Bufs /\ b # SimBuf /\ b # NoBuf /\ b \in AllBufs
      /\ SimBuf # NoBuf
  BY SamplePipelineAssumption DEF PipelineInv, TypeOK, AllBufs
<1>3. /\ Goto("capture", "count", g) /\ mbx_dsp' = mbx_dsp /\ mbx_dsp \in Seq(Groups)
      /\ UNCHANGED <<mbx_show, mbx_send, mbx_ui, modeVars, uiVars>>
      /\ UNCHANGED <<idle_groups, image_source>> /\ driver' = driver \ {b}
      /\ image' = [image EXCEPT ![g] = b] /\ r_count' = [r_count EXCEPT ![b] = 3]
  BY DEF CaptureRequest, mbxVars, PipelineInv, TypeOK
<1>4. Taken(g) /\ ~Live(g)
  BY <1>1 DEF Taken, PipelineInv, PoolInv
<1>5. Owed(g) = 0
  BY <1>1, <1>4 DEF PipelineInv, CountInv
<1>6. /\ RestTypes' /\ ThreadInv'
      /\ pc'["capture"] = "count" /\ holds'["capture"] = g
      /\ \A u \in Threads : u # "capture" => pc'[u] = pc[u] /\ holds'[u] = holds[u]
      /\ \A h \in Groups :
           /\ Owed(h) \in Nat /\ Owed(h)' \in Nat
           /\ In(h, mbx_dsp) \in Nat /\ In(h, mbx_dsp)' \in Nat
           /\ Owed(h)' - Owed(h) =
                (CaptureHas(h)' - CaptureHas(h))
                + (IF send_mode = 2 THEN 2 * (In(h, mbx_dsp)' - In(h, mbx_dsp))
                   ELSE (In(h, mbx_dsp)' - In(h, mbx_dsp)) + (SimHas(h)' - SimHas(h)))
  <2>1. "count" \in Pcs /\ g \in Groups \cup {NoGroup} /\ mbx_dsp' \in Seq(Groups)
    BY <1>1, <1>3 DEF Pcs
  <2>2. QED
    BY <1>1, <1>3, <2>1, ThreadFrame
<1>7. ASSUME NEW h \in Groups PROVE Owed(h)' = IF h = g THEN 3 ELSE Owed(h)
  <2>1. /\ CaptureHas(h)' = (IF h = g THEN 3 ELSE 0) /\ CaptureHas(h) = 0
        /\ SimHas(h)' = SimHas(h) /\ SimHas(h) \in Nat
    BY <1>1, <1>6 DEF CaptureHas, SimHas, Threads
  <2>2. In(h, mbx_dsp)' = In(h, mbx_dsp) /\ In(h, mbx_dsp) \in Nat
    BY <1>3, <1>6
  <2>3. Owed(h)' - Owed(h) = (IF h = g THEN 3 ELSE 0)
    BY <2>1, <2>2, <1>6
  <2>4. QED
    BY <2>3, <1>5, <1>6
<1>8. image'[g] = b /\ \A h \in Groups : h # g => image'[h] = image[h]
  BY <1>1, <1>3 DEF PipelineInv, TypeOK
<1>9. \A h \in Groups : Live(h)' <=> (Live(h) \/ h = g)
  BY <1>2, <1>8 DEF Live
<1>10. \A h \in Groups : Taken(h)' <=> (Taken(h) /\ h # g)
  <2>1. pc["overclock"] = "report" => holds["overclock"] # g
    BY <1>1 DEF PipelineInv, PoolInv
  <2>2. QED
    BY <1>1, <1>6, <2>1 DEF Taken, Threads
<1>11. PoolInv'
  <2>1. \A h \in Groups : h \in Range(idle_groups) <=> ~Live(h) /\ ~Taken(h)
    BY DEF PipelineInv, PoolInv
  <2>2. \A h \in Groups : h \in Range(idle_groups') <=> ~Live(h)' /\ ~Taken(h)'
    BY <1>1, <1>3, <1>4, <1>9, <1>10, <2>1
  <2>3. \A h \in Groups : Taken(h)' => ~Live(h)'
    BY <1>9, <1>10 DEF PipelineInv, PoolInv
  <2>4. IsInjective(idle_groups')
    BY <1>3 DEF PipelineInv, PoolInv
  <2>5. QED
    BY <1>6, <2>2, <2>3, <2>4 DEF PoolInv
<1>12. \A h \in Groups : Live(h) => image[h] # b /\ image[h] \in AllBufs \ driver
         /\ r_count[image[h]] >= 1 /\ r_count[image[h]] >= Owed(h)
  BY DEF PipelineInv, CountInv
<1>13. r_count' \in [AllBufs -> 0 .. 3] /\ r_count'[b] = 3
       /\ \A c \in AllBufs : c # b => r_count'[c] = r_count[c]
  BY <1>2, <1>3 DEF PipelineInv, TypeOK
<1>14. CountInv'
  <2>1. ASSUME NEW h \in Groups, Live(h)'
        PROVE  /\ image'[h] \in AllBufs \ driver'
               /\ r_count'[image'[h]] >= 1 /\ r_count'[image'[h]] >= Owed(h)'
    <3>1. CASE h = g
      BY <3>1, <1>2, <1>3, <1>7, <1>8, <1>13
    <3>2. CASE h # g
      <4>1. Live(h) /\ image'[h] = image[h] /\ Owed(h)' = Owed(h)
        BY <2>1, <3>2, <1>7, <1>8, <1>9
      <4>2. QED
        BY <4>1, <1>3, <1>12, <1>13
    <3>3. QED
      BY <3>1, <3>2
  <2>2. ASSUME NEW h \in Groups, NEW k \in Groups, Live(h)', image'[h] = image'[k] PROVE h = k
    <3>1. \A i, j \in Groups : Live(i) /\ image[i] = image[j] => i = j
      BY DEF PipelineInv, CountInv
    <3>2. Live(k)'
      BY <2>2 DEF Live
    <3>3. QED
      BY <2>2, <3>1, <3>2, <1>8, <1>9, <1>12
  <2>3. ASSUME NEW h \in Groups, ~Live(h)' PROVE Owed(h)' = 0
    BY <2>3, <1>7, <1>9 DEF PipelineInv, CountInv
  <2>4. QED
    BY <2>1, <2>2, <2>3 DEF CountInv
<1>15. SourceInv'
  BY <1>2, <1>3, <1>6, <1>8 DEF PipelineInv, SourceInv
<1>16. PoolTypes'
  BY <1>1, <1>2, <1>3, <1>13 DEF PoolTypes, PipelineInv, TypeOK
<1>17. QED
  BY <1>6, <1>7, <1>11, <1>14, <1>15, <1>16 DEF PipelineInv, TypeOK, PoolTypes, RestTypes, BoxTypes

\* sig_handler gives its group back: all that is left is image_source.
LEMMA OverclockReportStep ==
  ASSUME PipelineInv, OverclockReport
  PROVE  PipelineInv' /\ \A h \in Groups : Owed(h)' = Owed(h)
<1> DEFINE g == holds["overclock"]
<1>1. g \in Groups /\ pc["overclock"] = "report"
  BY DEF PipelineInv, ThreadInv, OverclockReport, Threads
<1>2. /\ Goto("overclock", "idle", NoGroup) /\ mbx_dsp' = mbx_dsp /\ mbx_dsp \in Seq(Groups)
      /\ UNCHANGED <<mbx_show, mbx_send, mbx_ui, modeVars, uiVars>>
      /\ UNCHANGED <<image, r_count, driver>>
      /\ idle_groups' = Append(idle_groups, g)
      /\ image_source' = [image_source EXCEPT ![g] = 1]
  BY DEF OverclockReport, SampleFactoryRecycle, mbxVars, PipelineInv, TypeOK
<1>3. Taken(g) /\ ~Live(g)
  BY <1>1 DEF Taken, PipelineInv, PoolInv
<1>4. /\ idle_groups \in Seq(Groups) /\ IsInjective(idle_groups) /\ g \notin Range(idle_groups)
  BY <1>1, <1>3 DEF PipelineInv, TypeOK, PoolInv
<1>5. /\ idle_groups' \in Seq(Groups) /\ IsInjective(idle_groups')
      /\ Range(idle_groups') = Range(idle_groups) \cup {g}
  BY <1>1, <1>2, <1>4, AppendFacts
<1>6. /\ RestTypes' /\ ThreadInv'
      /\ pc'["overclock"] = "idle" /\ holds'["overclock"] = NoGroup
      /\ \A u \in Threads : u # "overclock" => pc'[u] = pc[u] /\ holds'[u] = holds[u]
      /\ \A h \in Groups :
           /\ Owed(h) \in Nat /\ Owed(h)' \in Nat
           /\ In(h, mbx_dsp) \in Nat /\ In(h, mbx_dsp)' \in Nat
           /\ Owed(h)' - Owed(h) =
                (CaptureHas(h)' - CaptureHas(h))
                + (IF send_mode = 2 THEN 2 * (In(h, mbx_dsp)' - In(h, mbx_dsp))
                   ELSE (In(h, mbx_dsp)' - In(h, mbx_dsp)) + (SimHas(h)' - SimHas(h)))
  <2>1. "idle" \in Pcs /\ NoGroup \in Groups \cup {NoGroup} /\ mbx_dsp' \in Seq(Groups)
    BY <1>2 DEF Pcs
  <2>2. QED
    BY <1>2, <2>1, ThreadFrame
<1>7. ASSUME NEW h \in Groups PROVE Owed(h)' = Owed(h)
  <2>1. /\ CaptureHas(h)' = CaptureHas(h) /\ CaptureHas(h) \in Nat
        /\ SimHas(h)' = SimHas(h) /\ SimHas(h) \in Nat
    BY <1>2, <1>6 DEF CaptureHas, SimHas, Threads, modeVars
  <2>2. In(h, mbx_dsp)' = In(h, mbx_dsp) /\ In(h, mbx_dsp) \in Nat
    BY <1>2, <1>6
  <2>3. Owed(h)' - Owed(h) = 0
    BY <2>1, <2>2, <1>6
  <2>4. Owed(h) \in Nat /\ Owed(h)' \in Nat
    BY <1>6
  <2>5. QED
    BY <2>3, <2>4
<1>8. \A h \in Groups : Taken(h)' <=> (Taken(h) /\ h # g)
  <2>1. pc["capture"] = "request" => holds["capture"] # g
    BY <1>1 DEF PipelineInv, PoolInv
  <2>2. QED
    BY <1>1, <1>6, <2>1 DEF Taken, Threads
<1>9. PoolInv'
  <2>1. \A h \in Groups : h \in Range(idle_groups) <=> ~Live(h) /\ ~Taken(h)
    BY DEF PipelineInv, PoolInv
  <2>2. \A h \in Groups : Live(h)' <=> Live(h)
    BY <1>2 DEF Live
  <2>3. \A h \in Groups : h \in Range(idle_groups') <=> ~Live(h)' /\ ~Taken(h)'
    BY <1>3, <1>5, <1>8, <2>1, <2>2
  <2>4. \A h \in Groups : Taken(h)' => ~Live(h)'
    BY <1>8, <2>2 DEF PipelineInv, PoolInv
  <2>5. QED
    BY <1>5, <1>6, <2>3, <2>4 DEF PoolInv
<1>10. CountInv'
  BY <1>2, <1>7 DEF PipelineInv, CountInv, Live
<1>11. image_source' \in [Groups -> {0, 1}]
       /\ image_source'[g] = 1 /\ \A h \in Groups : h # g => image_source'[h] = image_source[h]
  BY <1>1, <1>2 DEF PipelineInv, TypeOK
<1>12. SourceInv'
  BY <1>2, <1>6, <1>11 DEF PipelineInv, SourceInv, Threads
<1>13. PoolTypes'
  BY <1>2, <1>5, <1>11 DEF PoolTypes, PipelineInv, TypeOK
<1>14. QED
  BY <1>6, <1>7, <1>9, <1>10, <1>12, <1>13 DEF PipelineInv, TypeOK, PoolTypes, RestTypes, BoxTypes

\* A simulated picture is offered with two references, once the last one is done
\* with.
LEMMA SimOfferStep ==
  ASSUME Calm, PipelineInv, SimOffer
  PROVE  /\ PipelineInv'
         /\ r_count[SimBuf] = 0 /\ r_count' = [r_count EXCEPT ![SimBuf] = 2]
         /\ UNCHANGED driver
         /\ \E g \in Groups :
              /\ image' = [image EXCEPT ![g] = SimBuf]
              /\ image_source' = [image_source EXCEPT ![g] = 1]
              /\ \A h \in Groups : Owed(h)' = IF h = g THEN 2 ELSE Owed(h)
<1>1. PICK g \in Groups :
        /\ SampleFactoryProduce(g)
        /\ image' = [image EXCEPT ![g] = SimBuf]
        /\ image_source' = [image_source EXCEPT ![g] = 1]
        /\ mbx_dsp' = Append(mbx_dsp, g)
        /\ Goto("sim", "net", g)
  BY DEF SimOffer
<1>2. /\ r_count[SimBuf] = 0 /\ pc["sim"] = "idle" /\ r_count' = [r_count EXCEPT ![SimBuf] = 2]
      /\ UNCHANGED <<driver, mbx_show, mbx_send, mbx_ui, modeVars, uiVars>>
  BY DEF SimOffer, SimDone, Calm
<1>3. SimBuf \in AllBufs \ driver /\ NoBuf # SimBuf
  BY SamplePipelineAssumption DEF AllBufs, PipelineInv, TypeOK
<1>4. /\ idle_groups' \in Seq(Groups) /\ IsInjective(idle_groups')
      /\ Range(idle_groups') = Range(idle_groups) \ {g}
      /\ ~Live(g) /\ ~Taken(g) /\ Owed(g) = 0
  BY <1>1, Produced
<1>5. Adds(mbx_dsp, mbx_dsp', g) /\ mbx_dsp \in Seq(Groups)
  BY <1>1 DEF Adds, PipelineInv, TypeOK
<1>6. /\ mbx_dsp' \in Seq(Groups)
      /\ \A h \in Groups : In(h, mbx_dsp)' = In(h, mbx_dsp) + (IF h = g THEN 1 ELSE 0)
  BY <1>5, InAdds
<1>7. /\ RestTypes' /\ ThreadInv'
      /\ pc'["sim"] = "net" /\ holds'["sim"] = g
      /\ \A u \in Threads : u # "sim" => pc'[u] = pc[u] /\ holds'[u] = holds[u]
      /\ \A h \in Groups :
           /\ Owed(h) \in Nat /\ Owed(h)' \in Nat
           /\ In(h, mbx_dsp) \in Nat /\ In(h, mbx_dsp)' \in Nat
           /\ Owed(h)' - Owed(h) =
                (CaptureHas(h)' - CaptureHas(h))
                + (IF send_mode = 2 THEN 2 * (In(h, mbx_dsp)' - In(h, mbx_dsp))
                   ELSE (In(h, mbx_dsp)' - In(h, mbx_dsp)) + (SimHas(h)' - SimHas(h)))
  <2>1. "net" \in Pcs /\ g \in Groups \cup {NoGroup} /\ Goto("sim", "net", g)
    BY <1>1 DEF Pcs
  <2>2. QED
    BY <1>2, <1>6, <2>1, ThreadFrame
<1>8. ASSUME NEW h \in Groups PROVE Owed(h)' = IF h = g THEN 2 ELSE Owed(h)
  <2>1. /\ CaptureHas(h)' = CaptureHas(h) /\ CaptureHas(h) \in Nat
        /\ SimHas(h)' = (IF h = g THEN 1 ELSE 0) /\ SimHas(h) = 0
    BY <1>2, <1>7 DEF CaptureHas, SimHas, Threads, modeVars
  <2>2. In(h, mbx_dsp)' - In(h, mbx_dsp) = (IF h = g THEN 1 ELSE 0)
    BY <1>6, <1>7
  <2>3. Owed(h)' - Owed(h) = (IF h = g THEN 2 ELSE 0)
    BY <2>1, <2>2, <1>7
  <2>4. Owed(h) \in Nat /\ Owed(h)' \in Nat
    BY <1>7
  <2>5. QED
    BY <2>3, <2>4, <1>4
<1>9. image'[g] = SimBuf /\ \A h \in Groups : h # g => image'[h] = image[h]
  BY <1>1 DEF PipelineInv, TypeOK
<1>10. \A h \in Groups : Live(h)' <=> (Live(h) \/ h = g)
  BY <1>3, <1>9 DEF Live
<1>11. \A h \in Groups : Taken(h)' <=> Taken(h)
  BY <1>7 DEF Taken, Threads
<1>12. PoolInv'
  <2>1. \A h \in Groups : h \in Range(idle_groups') <=> ~Live(h)' /\ ~Taken(h)'
    BY <1>4, <1>10, <1>11 DEF PipelineInv, PoolInv
  <2>2. \A h \in Groups : Taken(h)' => ~Live(h)'
    BY <1>4, <1>10, <1>11 DEF PipelineInv, PoolInv
  <2>3. pc'["capture"] = "request" /\ pc'["overclock"] = "report"
          => holds'["capture"] # holds'["overclock"]
    BY <1>7 DEF PipelineInv, PoolInv, Threads
  <2>4. QED
    BY <1>4, <2>1, <2>2, <2>3 DEF PoolInv
<1>13. \A h \in Groups : Live(h) => image[h] # SimBuf /\ image[h] \in AllBufs \ driver
         /\ r_count[image[h]] >= 1 /\ r_count[image[h]] >= Owed(h)
  BY <1>2 DEF PipelineInv, CountInv
<1>14. r_count' \in [AllBufs -> 0 .. 3] /\ r_count'[SimBuf] = 2
       /\ \A c \in AllBufs : c # SimBuf => r_count'[c] = r_count[c]
  BY <1>2, <1>3 DEF PipelineInv, TypeOK
<1>15. CountInv'
  <2>1. ASSUME NEW h \in Groups, Live(h)'
        PROVE  /\ image'[h] \in AllBufs \ driver'
               /\ r_count'[image'[h]] >= 1 /\ r_count'[image'[h]] >= Owed(h)'
    <3>1. CASE h = g
      BY <3>1, <1>2, <1>3, <1>8, <1>9, <1>14
    <3>2. CASE h # g
      <4>1. Live(h) /\ image'[h] = image[h] /\ Owed(h)' = Owed(h)
        BY <2>1, <3>2, <1>8, <1>9, <1>10
      <4>2. QED
        BY <4>1, <1>2, <1>13, <1>14
    <3>3. QED
      BY <3>1, <3>2
  <2>2. ASSUME NEW h \in Groups, NEW k \in Groups, Live(h)', image'[h] = image'[k] PROVE h = k
    <3>1. \A i, j \in Groups : Live(i) /\ image[i] = image[j] => i = j
      BY DEF PipelineInv, CountInv
    <3>2. Live(k)'
      BY <2>2 DEF Live
    <3>3. QED
      BY <2>2, <3>1, <3>2, <1>9, <1>10, <1>13
  <2>3. ASSUME NEW h \in Groups, ~Live(h)' PROVE Owed(h)' = 0
    BY <2>3, <1>8, <1>10 DEF PipelineInv, CountInv
  <2>4. QED
    BY <2>1, <2>2, <2>3 DEF CountInv
<1>16. image_source' \in [Groups -> {0, 1}]
       /\ image_source'[g] = 1 /\ \A h \in Groups : h # g => image_source'[h] = image_source[h]
  BY <1>1 DEF PipelineInv, TypeOK
<1>17. SourceInv'
  <2>1. \A h \in Groups : image'[h] = SimBuf => image_source'[h] = 1
    BY <1>9, <1>16 DEF PipelineInv, SourceInv
  <2>2. ASSUME pc'["capture"] = "count" PROVE image'[holds'["capture"]] \in Bufs
    <3>1. pc["capture"] = "count" /\ holds'["capture"] = holds["capture"]
          /\ holds["capture"] \in Groups
      BY <2>2, <1>7 DEF PipelineInv, ThreadInv, Threads
    <3>2. image[holds["capture"]] \in Bufs
      BY <3>1 DEF PipelineInv, SourceInv
    <3>3. holds["capture"] # g
      BY <3>2, <1>4, SamplePipelineAssumption DEF Live, AllBufs
    <3>4. QED
      BY <3>1, <3>2, <3>3, <1>9
  <2>3. QED
    BY <2>1, <2>2 DEF SourceInv
<1>18. PoolTypes'
  <2>1. image' \in [Groups -> AllBufs \cup {NoBuf}]
    BY <1>1, <1>3 DEF PipelineInv, TypeOK
  <2>2. QED
    BY <2>1, <1>2, <1>4, <1>14, <1>16 DEF PoolTypes, PipelineInv, TypeOK
<1>19. PipelineInv'
  BY <1>7, <1>12, <1>15, <1>17, <1>18 DEF PipelineInv, TypeOK, PoolTypes, RestTypes, BoxTypes
<1>20. QED
  BY <1>1, <1>2, <1>8, <1>19

-----------------------------------------------------------------------------
(* The operator and the UI process: nothing moves.                         *)

\* A step that touches neither mailboxes, threads nor modes owes what it owed.
LEMMA SameOwed ==
  ASSUME UNCHANGED <<mbxVars, pc, holds, modeVars>>
  PROVE  \A h : Owed(h)' = Owed(h)
BY DEF Owed, CaptureOwes, DspsOwe, LateNet, At, Count, In, mbxVars, modeVars

NothingOwed == Quiet => \A h \in Groups : Owed(h) = 0

\* While nothing is in flight nothing is to be released, whatever the modes are.
LEMMA QuietOwes ==
  BoxTypes => NothingOwed
<1> SUFFICES ASSUME BoxTypes, Quiet, NEW h \in Groups PROVE Owed(h) = 0
  BY DEF NothingOwed
<1>1. Parts(h)
  BY OwedParts DEF PartsAll
<1>2. In(h, <<>>) = 0
  <2>1. CountIn(<<>>, {h}) = 0
    <3>1. <<>> \in Seq(Groups)
      OBVIOUS
    <3>2. QED
      BY <3>1, CountType
  <2>2. QED
    BY <2>1, InIsCount
<1>3. InBoxes(h) = 0 /\ In(h, mbx_dsp) = 0
  BY <1>2 DEF InBoxes, Quiet
<1>4. DspsAt(h, "process") = {} /\ DspsAt(h, "upload") = {}
  BY SamplePipelineAssumption DEF DspsAt, Quiet, Threads
<1>5. Cardinality(DspsAt(h, "process")) = 0 /\ Cardinality(DspsAt(h, "upload")) = 0
  BY <1>4, FS_EmptySet
<1>6. CaptureHas(h) = 0 /\ SimHas(h) = 0
  BY DEF CaptureHas, SimHas, Quiet, Threads
<1>7. CASE send_mode = 2
  BY <1>1, <1>3, <1>5, <1>6, <1>7 DEF Parts
<1>8. CASE send_mode # 2
  BY <1>1, <1>3, <1>5, <1>6, <1>8 DEF Parts
<1>9. QED
  BY <1>7, <1>8

Operator ==
  \/ \E m \in SendModes : ScSetImgSendMode(m)
  \/ \E m \in JudgeModes : ScSetSampleJudgeMode(m)
  \/ UiConnectOrLose \/ UiPictureDrawn

\* A mode changes while nothing is in flight, so no reference changes its way.
LEMMA OperatorStep ==
  ASSUME Calm, PipelineInv, Operator \/ UNCHANGED vars
  PROVE  Step
<1>1. BoxTypes' /\ UNCHANGED <<poolVars, mbxVars, pc, holds>>
  BY DEF Operator, ScSetImgSendMode, ScSetSampleJudgeMode, UiConnectOrLose, UiPictureDrawn, vars,
         PipelineInv, TypeOK, BoxTypes, mbxVars
<1>2. RestTypes'
  BY <1>1 DEF Operator, ScSetImgSendMode, ScSetSampleJudgeMode, UiConnectOrLose, UiPictureDrawn,
         vars, PipelineInv, TypeOK, RestTypes, modeVars, uiVars
<1>3. ThreadInv' /\ Steady
  BY <1>1 DEF PipelineInv, ThreadInv, Steady
<1>4. image_source' \in [Groups -> {0, 1}] /\ UNCHANGED <<idle_groups, image, r_count, driver>>
      /\ \A h \in Groups : image[h] = SimBuf => image_source'[h] = 1
  BY <1>1 DEF poolVars, PipelineInv, TypeOK, SourceInv
<1>5. CASE UNCHANGED modeVars
  <2>1. \A h \in Groups : Owed(h)' = Owed(h)
    BY <1>1, <1>5, SameOwed
  <2>2. QED
    BY <1>2, <1>3, <1>4, <2>1 DEF Step, Balances
<1>6. CASE ~(UNCHANGED modeVars)
  <2>1. Quiet
    BY <1>6 DEF Operator, ScSetImgSendMode, ScSetSampleJudgeMode, UiConnectOrLose, UiPictureDrawn,
           vars, MaySwitch, Calm
  <2>2. Quiet'
    BY <1>1, <2>1 DEF Quiet, mbxVars
  <2>3. BoxTypes
    BY DEF PipelineInv, TypeOK, BoxTypes
  <2>4. NothingOwed
    BY <2>3, QuietOwes
  <2>5. NothingOwed'
    BY <1>1, QuietOwes, PTL
  <2>6. \A h \in Groups : Owed(h)' = Owed(h)
    BY <2>1, <2>2, <2>4, <2>5 DEF NothingOwed
  <2>7. QED
    BY <1>2, <1>3, <1>4, <2>6 DEF Step, Balances
<1>7. QED
  BY <1>5, <1>6

-----------------------------------------------------------------------------
(* The invariant holds.                                                    *)

\* create_sample_factory puts every group in the list, once.
LEMMA AllIdle ==
  /\ SetToSeq(Groups) \in Seq(Groups)
  /\ IsInjective(SetToSeq(Groups))
  /\ Range(SetToSeq(Groups)) = Groups
<1> DEFINE N == Cardinality(Groups)
           q == SetToSeq(Groups)
<1>1. N \in Nat /\ ExistsBijection(1 .. N, Groups) /\ IsFiniteSet(Groups)
  <2>1. IsFiniteSet(Groups)
    BY SamplePipelineAssumption
  <2>2. QED
    BY <2>1, FS_CardinalityType
<1>2. \E f \in [1 .. N -> Groups] : IsInjective(f)
  BY <1>1 DEF ExistsBijection, Bijection, Injection
<1>3. q \in [1 .. N -> Groups] /\ IsInjective(q)
  BY <1>2 DEF SetToSeq
<1>4. q \in Injection(1 .. N, Groups)
  BY <1>3 DEF Injection
<1>5. Cardinality(1 .. N) = N
  BY <1>1, FS_Interval
<1> HIDE DEF q
<1>6. q \in Surjection(1 .. N, Groups)
  BY <1>1, <1>4, <1>5, FS_Injection
<1>7. Range(q) = Groups
  <2>1. \A g \in Groups : \E i \in 1 .. N : q[i] = g
    BY <1>6 DEF Surjection
  <2>2. DOMAIN q = 1 .. N /\ \A i \in 1 .. N : q[i] \in Groups
    BY <1>3
  <2>3. QED
    BY <2>1, <2>2 DEF Range
<1>8. q \in Seq(Groups)
  BY <1>1, <1>3
<1>9. QED
  BY <1>3, <1>7, <1>8 DEF q

\* At the start every group is in the pool and none has a reference to come.
LEMMA PipelineStarts == Init => PipelineInv /\ \A g \in Groups : ~Live(g)
<1> SUFFICES ASSUME Init PROVE PipelineInv /\ \A g \in Groups : ~Live(g)
  OBVIOUS
<1>1. TypeOK
  <2>1. idle_groups \in Seq(Groups)
    BY AllIdle DEF Init
  <2>2. \A x : x = <<>> => x \in Seq(Groups)
    OBVIOUS
  <2>3. mbx_show \in Seq(Groups) /\ mbx_send \in Seq(Groups) /\ mbx_dsp \in Seq(Groups)
        /\ mbx_ui \in Seq(Groups)
    BY <2>2 DEF Init
  <2>4. QED
    BY <2>1, <2>3 DEF Init, TypeOK, Pcs
<1>2. ThreadInv
  BY DEF Init, ThreadInv, Threads
<1>3. \A g : ~Taken(g)
  BY DEF Init, Taken, Threads
<1>4. \A g \in Groups : ~Live(g)
  BY DEF Init, Live
<1>5. PoolInv
  BY <1>2, <1>3, <1>4, AllIdle DEF Init, PoolInv, Threads
<1>6. Quiet
  BY DEF Quiet, Init, Threads
<1>7. \A g \in Groups : Owed(g) = 0
  <2>1. BoxTypes
    BY <1>1 DEF TypeOK, BoxTypes
  <2>2. QED
    BY <1>6, <2>1, QuietOwes DEF NothingOwed
<1>8. CountInv
  BY <1>4, <1>7 DEF CountInv
<1>9. SourceInv
  BY SamplePipelineAssumption DEF Init, SourceInv, AllBufs, Threads
<1>10. QED
  BY <1>1, <1>2, <1>4, <1>5, <1>8, <1>9 DEF PipelineInv

\* Steps that only hand a picture on or release it.
Handles ==
  \/ CaptureNet \/ ShowTask \/ UiSendTask \/ ImageSendTask
  \/ \E d \in Dsps : DspTask(d)
  \/ SimNet \/ Operator \/ UNCHANGED vars

\* The threads that take a group from their mailbox and release it.
LEMMA HandlesStep ==
  ASSUME Calm, PipelineInv, Handles PROVE Step
<1>1. ASSUME NEW d \in Dsps, DspTask(d) PROVE Step
  BY <1>1, DspTakeStep, DspReportStep, DspUploadStep DEF DspTask
<1>2. QED
  BY <1>1, CaptureNetStep, ShowStep, UiSendStep, ImageSendStep, SimNetStep, OperatorStep DEF Handles

\* Every step is one of these.
LEMMA NextCases ==
  ASSUME [Next]_vars
  PROVE  \/ CaptureProduce \/ OverclockProduce \/ OverclockReport \/ SimOffer
         \/ \E b \in driver : CaptureRequest(b)
         \/ CaptureReset \/ CaptureShow \/ CaptureJudge
         \/ Handles
BY DEF Next, CaptureTask, Handles, Operator

\* Each step of each thread keeps the invariant.
LEMMA PipelineKept ==
  ASSUME Calm, PipelineInv, [Next]_vars PROVE PipelineInv'
<1>1. CASE CaptureProduce \/ OverclockProduce
  BY <1>1, ProduceStep
<1>2. CASE OverclockReport
  BY <1>2, OverclockReportStep
<1>3. CASE SimOffer
  BY <1>3, SimOfferStep
<1>4. CASE \E b \in driver : CaptureRequest(b)
  BY <1>4, CaptureRequestStep
<1>5. ASSUME Step PROVE PipelineInv'
  <2>1. BoxTypes'
    BY <1>5 DEF Step, RestTypes
  <2>2. Settles
    BY <1>5, <2>1, BalancesSettles DEF Step
  <2>3. QED
    BY <1>5, <2>2, SettlesKeeps DEF Step
<1>6. CASE CaptureJudge
  BY <1>6, CaptureJudgeStep, SettlesKeeps
<1>7. CASE CaptureReset
  BY <1>5, <1>7, CaptureResetStep
<1>8. CASE CaptureShow
  BY <1>5, <1>8, CaptureShowStep
<1>9. CASE Handles
  BY <1>5, <1>9, HandlesStep
<1>10. QED
  BY <1>1, <1>2, <1>3, <1>4, <1>6, <1>7, <1>8, <1>9, NextCases

\* A group's references never exceed its buffer's count, and no two groups share
\* a buffer, while pictures to simulate come one at a time and modes change at
\* rest (image_capture_tsk, image_show_tsk, image_send_tsk, video_context_release).
THEOREM PipelineInvariant ==
  ASSUME Calm PROVE Spec => []PipelineInv
<1>1. Init => PipelineInv
  BY PipelineStarts
<1>2. PipelineInv /\ [Next]_vars => PipelineInv'
  BY PipelineKept
<1>3. QED
  BY <1>1, <1>2, PTL DEF Spec

\* Every variable keeps its type; no buffer but the camera's is queued to the
\* camera (the image_source test of video_context_release).
THEOREM PipelineTypes ==
  ASSUME Calm PROVE Spec => []TypeOK
<1>1. PipelineInv => TypeOK
  BY DEF PipelineInv
<1>2. QED
  BY <1>1, PipelineInvariant, PTL

\* A group with references to come is out of the pool, and its buffer is neither
\* the camera's nor another group's (video_context_release).
THEOREM NothingReleasedInUse ==
  ASSUME Calm PROVE Spec => []NoUseAfterRelease
<1>1. ASSUME PipelineInv PROVE NoUseAfterRelease
  <2> SUFFICES ASSUME NEW g \in Groups, Owed(g) > 0
               PROVE  /\ g \notin Range(idle_groups)
                      /\ image[g] \in AllBufs \ driver
                      /\ r_count[image[g]] >= Owed(g)
                      /\ \A h \in Groups \ {g} : Owed(h) > 0 => image[h] # image[g]
    BY DEF NoUseAfterRelease
  <2>1. \A h \in Groups : Owed(h) > 0 => Live(h)
    BY <1>1 DEF PipelineInv, CountInv
  <2>2. g \notin Range(idle_groups)
    BY <1>1, <2>1 DEF PipelineInv, PoolInv
  <2>3. image[g] \in AllBufs \ driver /\ r_count[image[g]] >= Owed(g)
    BY <1>1, <2>1 DEF PipelineInv, CountInv
  <2>4. \A h \in Groups \ {g} : Owed(h) > 0 => image[h] # image[g]
    BY <1>1, <2>1 DEF PipelineInv, CountInv
  <2>5. QED
    BY <2>2, <2>3, <2>4
<1>2. QED
  BY <1>1, PipelineInvariant, PTL

\* With four groups more than the camera has buffers, sample_factory_produce never
\* finds its list empty, whatever is forgotten: every group that is out has a
\* buffer of its own, or a thread is about to give it one (32 groups,
\* video_context.c:713).
THEOREM GroupsSuffice ==
  ASSUME Calm, Cardinality(Groups) >= Cardinality(Bufs) + 4
  PROVE  Spec => []PoolNeverEmpty
<1>1. ASSUME PipelineInv PROVE PoolNeverEmpty
  <2> SUFFICES ASSUME idle_groups = <<>> PROVE FALSE
    BY DEF PoolNeverEmpty
  <2> DEFINE Out == {g \in Groups : Live(g)}
             A == Out \cup {holds["capture"]}
             B == A \cup {holds["overclock"]}
             f == [g \in Out |-> image[g]]
  <2>1. IsFiniteSet(Bufs) /\ IsFiniteSet(Groups) /\ SimBuf \notin Bufs
    BY SamplePipelineAssumption
  <2>2. IsFiniteSet(AllBufs) /\ Cardinality(AllBufs) = Cardinality(Bufs) + 1
        /\ Cardinality(Bufs) \in Nat /\ Cardinality(Groups) \in Nat
    BY <2>1, FS_AddElement, FS_CardinalityType DEF AllBufs
  <2>3. f \in Injection(Out, AllBufs)
    <3>1. \A g \in Out : image[g] \in AllBufs
      BY <1>1 DEF PipelineInv, CountInv
    <3>2. \A g, h \in Out : image[g] = image[h] => g = h
      BY <1>1 DEF PipelineInv, CountInv
    <3>3. QED
      BY <3>1, <3>2 DEF Injection, IsInjective
  <2>4. IsFiniteSet(Out) /\ Cardinality(Out) <= Cardinality(AllBufs)
    BY <2>2, <2>3, FS_Injection
  <2>5. Cardinality(Out) \in Nat
    BY <2>4, FS_CardinalityType
  <2> HIDE DEF Out
  <2>a. ASSUME NEW S, NEW x, IsFiniteSet(S)
        PROVE  /\ IsFiniteSet(S \cup {x}) /\ Cardinality(S \cup {x}) \in Nat
               /\ Cardinality(S \cup {x}) <= Cardinality(S) + 1
    <3>1. /\ IsFiniteSet(S \cup {x})
          /\ Cardinality(S \cup {x}) = IF x \in S THEN Cardinality(S) ELSE Cardinality(S) + 1
      BY <2>a, FS_AddElement
    <3>2. Cardinality(S) \in Nat
      BY <2>a, FS_CardinalityType
    <3>3. QED
      BY <3>1, <3>2
  <2>6. IsFiniteSet(A) /\ Cardinality(A) \in Nat /\ Cardinality(A) <= Cardinality(Out) + 1
    BY <2>4, <2>a
  <2> HIDE DEF A
  <2>7. IsFiniteSet(B) /\ Cardinality(B) \in Nat /\ Cardinality(B) <= Cardinality(A) + 1
    BY <2>6, <2>a
  <2>8. Groups \in SUBSET B
    <3>1. Range(idle_groups) = {}
      BY DEF Range
    <3>2. \A g \in Groups : Live(g) \/ Taken(g)
      BY <1>1, <3>1 DEF PipelineInv, PoolInv
    <3>3. QED
      BY <3>2 DEF A, Out, Taken
  <2>9. Cardinality(Groups) <= Cardinality(B)
    BY <2>7, <2>8, FS_Subset
  <2>10. QED
    BY <2>2, <2>4, <2>5, <2>6, <2>7, <2>9
<1>2. QED
  BY <1>1, PipelineInvariant, PTL

-----------------------------------------------------------------------------
(* The count is exact, if nothing is forgotten.                            *)

ExactInv == \A g \in Groups : Live(g) => r_count[image[g]] = Owed(g)

\* What a release does to the buffers of the groups that keep theirs.
LEMMA ReleaseFrame ==
  ASSUME PipelineInv, NEW g \in Groups, NEW n \in 1 .. 3, ReleaseTimes(g, n), Owed(g) >= n
  PROVE  /\ Live(g) /\ r_count[image[g]] \in n .. 3
         /\ r_count' = [r_count EXCEPT ![image[g]] = @ - n]
         /\ \A h \in Groups : h # g /\ Live(h) => image[h] # image[g]
         /\ \A h \in Groups : h # g => image'[h] = image[h]
         /\ Live(g)' => image'[g] = image[g] /\ r_count[image[g]] # n
         /\ image_source' = image_source
         /\ r_count[image[g]] # n => driver' = driver
         /\ r_count[image[g]] = n =>
              driver' = IF image_source[g] = 0 THEN driver \cup {image[g]} ELSE driver
<1>1. BoxTypes
  BY DEF PipelineInv, TypeOK, BoxTypes
<1>2. Owed(g) \in Nat
  BY <1>1, OwedType DEF OwedNat
<1>3. Live(g)
  BY <1>2 DEF PipelineInv, CountInv
<1>4. r_count[image[g]] \in 0 .. 3 /\ r_count[image[g]] >= Owed(g)
  BY <1>3 DEF PipelineInv, CountInv, TypeOK
<1>5. r_count[image[g]] \in n .. 3
  BY <1>2, <1>4
<1>6. \A h \in Groups : h # g /\ Live(h) => image[h] # image[g]
  BY DEF PipelineInv, CountInv
<1>7. /\ r_count' = [r_count EXCEPT ![image[g]] = @ - n] /\ image_source' = image_source
      /\ r_count[image[g]] # n => driver' = driver /\ image' = image
      /\ r_count[image[g]] = n =>
           /\ driver' = (IF image_source[g] = 0 THEN driver \cup {image[g]} ELSE driver)
           /\ image' = [image EXCEPT ![g] = NoBuf]
  BY DEF ReleaseTimes
<1>8. /\ \A h \in Groups : h # g => image'[h] = image[h]
      /\ Live(g)' => image'[g] = image[g] /\ r_count[image[g]] # n
  BY <1>7 DEF PipelineInv, TypeOK, Live
<1>9. QED
  BY <1>3, <1>5, <1>6, <1>7, <1>8

\* A step that balances keeps the counts exact when nothing is forgotten.
LEMMA ExactStep ==
  ASSUME PipelineInv, ExactInv, Balances PROVE ExactInv'
<1>1. CASE /\ UNCHANGED <<idle_groups, image, r_count, driver>>
           /\ \A h \in Groups : image[h] = SimBuf => image_source'[h] = 1
           /\ \A h \in Groups : Owed(h)' = Owed(h)
  BY <1>1 DEF ExactInv, Live
<1>2. ASSUME NEW g \in Groups, NEW n \in 1 .. 3, ReleaseTimes(g, n), Owed(g) >= n,
             \A h \in Groups : Owed(h)' = Owed(h) - (IF h = g THEN n ELSE 0)
      PROVE  ExactInv'
  <2>1. /\ Live(g) /\ r_count[image[g]] \in n .. 3
        /\ r_count' = [r_count EXCEPT ![image[g]] = @ - n]
        /\ \A h \in Groups : h # g /\ Live(h) => image[h] # image[g]
        /\ \A h \in Groups : h # g => image'[h] = image[h]
        /\ Live(g)' => image'[g] = image[g] /\ r_count[image[g]] # n
    BY <1>2, ReleaseFrame
  <2>2. \A h \in Groups : Live(h) => image[h] \in AllBufs
    BY DEF PipelineInv, CountInv
  <2>3. r_count \in [AllBufs -> 0 .. 3]
    BY DEF PipelineInv, TypeOK
  <2>4. ASSUME NEW h \in Groups, Live(h)' PROVE r_count'[image'[h]] = Owed(h)'
    <3>1. CASE h = g
      <4>1. r_count'[image'[g]] = r_count[image[g]] - n
        BY <2>1, <2>2, <2>3, <2>4, <3>1
      <4>2. QED
        BY <4>1, <3>1, <1>2, <2>1 DEF ExactInv
    <3>2. CASE h # g
      <4>1. Live(h) /\ image'[h] = image[h] /\ r_count'[image[h]] = r_count[image[h]]
        BY <2>1, <2>2, <2>3, <2>4, <3>2 DEF Live
      <4>2. Owed(h) \in Nat
        <5>1. BoxTypes
          BY DEF PipelineInv, TypeOK, BoxTypes
        <5>2. QED
          BY <5>1, OwedType DEF OwedNat
      <4>3. QED
        BY <4>1, <4>2, <3>2, <1>2 DEF ExactInv
    <3>3. QED
      BY <3>1, <3>2
  <2>5. QED
    BY <2>4 DEF ExactInv
<1>3. QED
  BY <1>1, <1>2 DEF Balances

\* Each step of each thread keeps the counts exact.
LEMMA ExactKept ==
  ASSUME Calm, NothingForgotten, PipelineInv, ExactInv, [Next]_vars PROVE ExactInv'
<1>1. CASE CaptureProduce \/ OverclockProduce \/ OverclockReport
  <2>1. \A h \in Groups : Owed(h)' = Owed(h)
    BY <1>1, ProduceStep, OverclockReportStep
  <2>2. UNCHANGED <<image, r_count>>
    BY <1>1 DEF CaptureProduce, OverclockProduce, OverclockReport
  <2>3. QED
    BY <2>1, <2>2 DEF ExactInv, Live
<1>2. CASE SimOffer
  <2>1. PICK g \in Groups :
          /\ image' = [image EXCEPT ![g] = SimBuf]
          /\ \A h \in Groups : Owed(h)' = IF h = g THEN 2 ELSE Owed(h)
    BY <1>2, SimOfferStep
  <2>2. r_count[SimBuf] = 0 /\ r_count' = [r_count EXCEPT ![SimBuf] = 2]
    BY <1>2, SimOfferStep
  <2>3. \A h \in Groups : Live(h) => image[h] \in AllBufs /\ image[h] # SimBuf
    BY <2>2 DEF PipelineInv, CountInv
  <2>4. r_count'[SimBuf] = 2 /\ \A c \in AllBufs : c # SimBuf => r_count'[c] = r_count[c]
    BY <2>2 DEF PipelineInv, TypeOK, AllBufs
  <2>5. image'[g] = SimBuf /\ \A h \in Groups : h # g => image'[h] = image[h]
    BY <2>1 DEF PipelineInv, TypeOK
  <2>6. QED
    BY <2>1, <2>3, <2>4, <2>5 DEF ExactInv, Live
<1>3. ASSUME NEW b \in driver, CaptureRequest(b) PROVE ExactInv'
  <2> DEFINE g == holds["capture"]
  <2>1. /\ image' = [image EXCEPT ![g] = b] /\ r_count' = [r_count EXCEPT ![b] = 3]
        /\ g \in Groups
    BY <1>3 DEF CaptureRequest, PipelineInv, ThreadInv, Threads
  <2>2. \A h \in Groups : Owed(h)' = IF h = g THEN 3 ELSE Owed(h)
    BY <1>3, CaptureRequestStep
  <2>3. \A h \in Groups : Live(h) => image[h] \in AllBufs /\ image[h] # b
    BY DEF PipelineInv, CountInv
  <2>4. r_count'[b] = 3 /\ \A c \in AllBufs : c # b => r_count'[c] = r_count[c]
    BY <2>1 DEF PipelineInv, TypeOK, AllBufs
  <2>5. image'[g] = b /\ \A h \in Groups : h # g => image'[h] = image[h]
    BY <2>1 DEF PipelineInv, TypeOK
  <2>6. QED
    BY <2>2, <2>3, <2>4, <2>5 DEF ExactInv, Live
<1>4. CASE CaptureJudge
  BY <1>4, CaptureJudgeStep, ExactStep
<1>5. CASE CaptureReset
  BY <1>5, CaptureResetStep, ExactStep DEF Step
<1>6. CASE CaptureShow
  BY <1>6, CaptureShowStep, ExactStep DEF Step
<1>7. CASE Handles
  BY <1>7, HandlesStep, ExactStep DEF Step
<1>8. QED
  BY <1>1, <1>2, <1>3, <1>4, <1>5, <1>6, <1>7, NextCases

\* r_count is the number of releases to come (v4l2.h:19), in the modes that
\* release for every reference.
THEOREM RefCountsAreExact ==
  ASSUME Calm, NothingForgotten PROVE Spec => []RefCountExact
<1>1. Init => PipelineInv /\ ExactInv
  BY PipelineStarts DEF ExactInv
<1>2. PipelineInv /\ ExactInv /\ [Next]_vars => PipelineInv' /\ ExactInv'
  BY PipelineKept, ExactKept
<1>3. ASSUME PipelineInv, ExactInv PROVE RefCountExact
  <2>1. \A g \in Groups : Owed(g) > 0 => Live(g)
    BY <1>3 DEF PipelineInv, CountInv
  <2>2. QED
    BY <1>3, <2>1 DEF RefCountExact, PipelineInv, CountInv, ExactInv
<1>4. QED
  BY <1>1, <1>2, <1>3, PTL DEF Spec

-----------------------------------------------------------------------------
(* A buffer without references is the camera's, if no frame is void.       *)

ReturnInv ==
  /\ \A b \in Bufs : b \in driver <=> r_count[b] = 0
  /\ \A g \in Groups :
       image[g] \in Bufs /\ ~(pc["capture"] = "count" /\ holds["capture"] = g)
         => image_source[g] = 0

\* A picture that is given back has been shown, so its group is marked as the
\* camera's.
LEMMA ReturnStep ==
  ASSUME PipelineInv, ReturnInv, Settles, BoxTypes', UNCHANGED image_source,
         pc["capture"] = "count" =>
           pc'["capture"] = "count" /\ holds'["capture"] = holds["capture"]
  PROVE  ReturnInv'
<1>1. CASE /\ UNCHANGED <<idle_groups, image, r_count, driver>>
           /\ \A h \in Groups : image[h] = SimBuf => image_source'[h] = 1
           /\ \A h \in Groups : Owed(h)' <= Owed(h)
  BY <1>1 DEF ReturnInv
<1>2. ASSUME NEW g \in Groups, NEW n \in 1 .. 3, ReleaseTimes(g, n), Owed(g) >= n,
             \A h \in Groups : Owed(h)' <= Owed(h) - (IF h = g THEN n ELSE 0)
      PROVE  ReturnInv'
  <2> DEFINE c == image[g]
  <2>1. /\ Live(g) /\ r_count[c] \in n .. 3
        /\ r_count' = [r_count EXCEPT ![c] = @ - n]
        /\ \A h \in Groups : h # g => image'[h] = image[h]
        /\ Live(g)' => image'[g] = image[g] /\ r_count[c] # n
        /\ r_count[c] # n => driver' = driver
        /\ r_count[c] = n => driver' = IF image_source[g] = 0 THEN driver \cup {c} ELSE driver
    BY <1>2, ReleaseFrame
  <2>2. c \in AllBufs \ driver /\ r_count[c] >= Owed(g) /\ r_count \in [AllBufs -> 0 .. 3]
    BY <2>1 DEF PipelineInv, CountInv, TypeOK
  <2>3. OwedNat /\ OwedNat'
    <3>1. BoxTypes
      BY DEF PipelineInv, TypeOK, BoxTypes
    <3>2. OwedNat'
      BY OwedType, PTL
    <3>3. QED
      BY <3>1, <3>2, OwedType
  <2>4. ASSUME r_count[c] = n, c \in Bufs PROVE image_source[g] = 0
    <3>1. Owed(g)' <= Owed(g) - n /\ Owed(g) \in Nat /\ Owed(g)' \in Nat
      BY <1>2, <2>3 DEF OwedNat
    <3>2. Owed(g)' = 0
      BY <2>2, <2>4, <3>1
    <3>3. ~(pc'["capture"] = "count" /\ holds'["capture"] = g)
      BY <2>3, <3>2 DEF OwedNat
    <3>4. QED
      BY <2>4, <3>3 DEF ReturnInv
  <2>5. r_count'[c] = r_count[c] - n /\ \A b \in AllBufs : b # c => r_count'[b] = r_count[b]
    BY <2>1, <2>2
  <2> HIDE DEF c
  <2>6. ASSUME NEW b \in Bufs PROVE b \in driver' <=> r_count'[b] = 0
    <3>1. b \in AllBufs /\ (b \in driver <=> r_count[b] = 0)
      BY DEF ReturnInv, AllBufs
    <3>2. CASE b # c
      BY <3>1, <3>2, <2>1, <2>5
    <3>3. CASE b = c /\ r_count[c] = n
      BY <3>3, <2>1, <2>4, <2>5
    <3>4. CASE b = c /\ r_count[c] # n
      BY <3>4, <2>1, <2>2, <2>5
    <3>5. QED
      BY <3>2, <3>3, <3>4
  <2>7. ASSUME NEW h \in Groups, image'[h] \in Bufs,
               ~(pc'["capture"] = "count" /\ holds'["capture"] = h)
        PROVE  image_source'[h] = 0
    <3>1. NoBuf \notin Bufs
      BY SamplePipelineAssumption DEF AllBufs
    <3>2. image'[h] = image[h]
      BY <2>1, <2>7, <3>1 DEF Live
    <3>3. QED
      BY <2>7, <3>2 DEF ReturnInv
  <2>8. QED
    BY <2>6, <2>7 DEF ReturnInv
<1>3. QED
  BY <1>1, <1>2 DEF Settles

\* None of these steps marks a group or moves capture_tsk off a picture it has
\* not shown.
LEMMA HandlesFrame ==
  ASSUME PipelineInv, Handles \/ CaptureJudge
  PROVE  /\ UNCHANGED image_source
         /\ pc["capture"] = "count" =>
              pc'["capture"] = "count" /\ holds'["capture"] = holds["capture"]
<1> DEFINE Stays == pc["capture"] = "count" =>
              pc'["capture"] = "count" /\ holds'["capture"] = holds["capture"]
<1>1. UNCHANGED poolVars \/ (\E g, n : ReleaseTimes(g, n)) => UNCHANGED image_source
  BY DEF poolVars, ReleaseTimes
<1>2. CASE CaptureNet \/ CaptureJudge
  <2>1. UNCHANGED poolVars \/ \E g, n : ReleaseTimes(g, n)
    BY <1>2 DEF CaptureNet, CaptureJudge, NetBranch, Release, poolVars
  <2>2. Stays
    BY <1>2 DEF CaptureNet, CaptureJudge
  <2>3. QED
    BY <1>1, <2>1, <2>2
<1>3. CASE ShowTask \/ UiSendTask \/ ImageSendTask
  <2>1. UNCHANGED poolVars \/ \E g, n : ReleaseTimes(g, n)
    BY <1>3 DEF ShowTask, UiSendTask, ImageSendTask, Release
  <2>2. Stays
    BY <1>3 DEF ShowTask, UiSendTask, ImageSendTask
  <2>3. QED
    BY <1>1, <2>1, <2>2
<1>4. ASSUME NEW d \in Dsps, DspTask(d) PROVE UNCHANGED image_source /\ Stays
  <2>1. UNCHANGED poolVars \/ \E g, n : ReleaseTimes(g, n)
    BY <1>4 DEF DspTask, DspTake, DspReport, DspUpload, Release, poolVars
  <2>2. d # "capture"
    BY SamplePipelineAssumption
  <2>3. Stays
    BY <1>4, <2>2 DEF DspTask, DspTake, DspReport, DspUpload, Goto, PipelineInv, TypeOK, Threads
  <2>4. QED
    BY <1>1, <2>1, <2>3
<1>5. CASE SimNet
  <2>1. UNCHANGED poolVars \/ \E g, n : ReleaseTimes(g, n)
    BY <1>5 DEF SimNet, NetBranch, Release, poolVars
  <2>2. Stays
    BY <1>5 DEF SimNet, Goto, PipelineInv, TypeOK, Threads
  <2>3. QED
    BY <1>1, <2>1, <2>2
<1>6. CASE Operator \/ UNCHANGED vars
  BY <1>6 DEF Operator, ScSetImgSendMode, ScSetSampleJudgeMode, UiConnectOrLose, UiPictureDrawn,
         vars, poolVars
<1>7. QED
  BY <1>2, <1>3, <1>4, <1>5, <1>6 DEF Handles

\* Each step of each thread keeps every buffer with the camera or with a group.
LEMMA ReturnKept ==
  ASSUME Calm, "reset" \notin Enabled, PipelineInv, ReturnInv, [Next]_vars PROVE ReturnInv'
<1>1. CASE CaptureProduce \/ OverclockProduce
  <2>1. UNCHANGED <<image, image_source, r_count, driver>>
    BY <1>1 DEF CaptureProduce, OverclockProduce
  <2>2. pc["capture"] = "count" =>
          pc'["capture"] = "count" /\ holds'["capture"] = holds["capture"]
    BY <1>1 DEF CaptureProduce, OverclockProduce, Goto, PipelineInv, TypeOK, Threads
  <2>3. QED
    BY <2>1, <2>2 DEF ReturnInv
<1>2. CASE OverclockReport
  <2> DEFINE g == holds["overclock"]
  <2>1. /\ UNCHANGED <<image, r_count, driver>> /\ Taken(g) /\ g \in Groups
        /\ image_source' = [image_source EXCEPT ![g] = 1]
    BY <1>2 DEF OverclockReport, Taken, PipelineInv, ThreadInv, Threads
  <2>2. image[g] \notin Bufs
    BY <2>1, SamplePipelineAssumption DEF PipelineInv, PoolInv, Live, AllBufs
  <2>3. pc'["capture"] = pc["capture"] /\ holds'["capture"] = holds["capture"]
    BY <1>2 DEF OverclockReport, Goto, PipelineInv, TypeOK, Threads
  <2>4. \A h \in Groups : h # g => image_source'[h] = image_source[h]
    BY <2>1 DEF PipelineInv, TypeOK
  <2>5. QED
    BY <2>1, <2>2, <2>3, <2>4 DEF ReturnInv
<1>3. CASE SimOffer
  <2>1. PICK g \in Groups :
          /\ image' = [image EXCEPT ![g] = SimBuf]
          /\ image_source' = [image_source EXCEPT ![g] = 1]
    BY <1>3, SimOfferStep
  <2>2. r_count' = [r_count EXCEPT ![SimBuf] = 2] /\ UNCHANGED driver
    BY <1>3, SimOfferStep
  <2>3. SimBuf \notin Bufs
    BY SamplePipelineAssumption
  <2>4. \A b \in Bufs : r_count'[b] = r_count[b]
    BY <2>2, <2>3 DEF PipelineInv, TypeOK, AllBufs
  <2>5. /\ image'[g] = SimBuf
        /\ \A h \in Groups : h # g => image'[h] = image[h] /\ image_source'[h] = image_source[h]
    BY <2>1 DEF PipelineInv, TypeOK
  <2>6. pc'["capture"] = pc["capture"] /\ holds'["capture"] = holds["capture"]
    BY <1>3 DEF SimOffer, Goto, PipelineInv, TypeOK, Threads
  <2>7. QED
    BY <2>2, <2>3, <2>4, <2>5, <2>6 DEF ReturnInv
<1>4. ASSUME NEW b \in driver, CaptureRequest(b) PROVE ReturnInv'
  <2> DEFINE g == holds["capture"]
  <2>1. /\ image' = [image EXCEPT ![g] = b] /\ r_count' = [r_count EXCEPT ![b] = 3]
        /\ g \in Groups /\ driver' = driver \ {b} /\ UNCHANGED image_source
        /\ pc["capture"] = "request" /\ Goto("capture", "count", g)
    BY <1>4 DEF CaptureRequest, PipelineInv, ThreadInv, Threads
  <2>2. r_count'[b] = 3 /\ \A c \in Bufs : c # b => r_count'[c] = r_count[c]
    BY <2>1 DEF PipelineInv, TypeOK, AllBufs
  <2>3. \A h \in Groups : h # g => image'[h] = image[h]
    BY <2>1 DEF PipelineInv, TypeOK
  <2>4. pc'["capture"] = "count" /\ holds'["capture"] = g
    BY <2>1 DEF Goto, PipelineInv, TypeOK, Threads
  <2>5. QED
    BY <2>1, <2>2, <2>3, <2>4 DEF ReturnInv
<1>5. CASE CaptureShow
  <2> DEFINE g == holds["capture"]
  <2>1. /\ UNCHANGED <<image, r_count, driver>> /\ g \in Groups
        /\ image_source' = [image_source EXCEPT ![g] = 0] /\ pc["capture"] = "count"
    BY <1>5 DEF CaptureShow, PipelineInv, ThreadInv, Threads
  <2>2. image_source'[g] = 0 /\ \A h \in Groups : h # g => image_source'[h] = image_source[h]
    BY <2>1 DEF PipelineInv, TypeOK
  <2>3. QED
    BY <2>1, <2>2 DEF ReturnInv
<1>6. CASE CaptureJudge
  <2>1. Settles /\ BoxTypes'
    BY <1>6, CaptureJudgeStep DEF RestTypes
  <2>2. QED
    BY <1>6, <2>1, HandlesFrame, ReturnStep
<1>7. CASE Handles
  <2>1. Balances /\ BoxTypes'
    BY <1>7, HandlesStep DEF Step, RestTypes
  <2>2. Settles
    BY <2>1, BalancesSettles
  <2>3. QED
    BY <1>7, <2>1, <2>2, HandlesFrame, ReturnStep
<1>8. ~CaptureReset
  BY DEF CaptureReset
<1>9. QED
  BY <1>1, <1>2, <1>3, <1>4, <1>5, <1>6, <1>7, <1>8, NextCases

\* A buffer is in the driver's queue exactly while nobody refers to it
\* (sample_factory.h:40), whatever modes forget references: a frame taken during a
\* reset of the FPGA's counter, which leaves image_source as it was, is excluded.
THEOREM BuffersAreAccounted ==
  ASSUME Calm, "reset" \notin Enabled PROVE Spec => []BufferAccounted
<1>1. Init => PipelineInv /\ ReturnInv
  <2>1. ASSUME Init PROVE ReturnInv
    <3>1. \A g \in Groups : image[g] \notin Bufs
      BY <2>1, SamplePipelineAssumption DEF Init, AllBufs
    <3>2. \A b \in Bufs : r_count[b] = 0 /\ b \in driver
      BY <2>1 DEF Init, AllBufs
    <3>3. QED
      BY <3>1, <3>2 DEF ReturnInv
  <2>2. QED
    BY <2>1, PipelineStarts
<1>2. PipelineInv /\ ReturnInv /\ [Next]_vars => PipelineInv' /\ ReturnInv'
  BY PipelineKept, ReturnKept
<1>3. ReturnInv => BufferAccounted
  BY DEF ReturnInv, BufferAccounted
<1>4. QED
  BY <1>1, <1>2, <1>3, PTL DEF Spec
=============================================================================
