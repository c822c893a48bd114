--------------------------- MODULE MessagesProofs ---------------------------
(* The numbers of the samples, the samples of two cameras and the order of   *)
(* the answers of a camera, for any numbers of triggers, resets, samples,    *)
(* groups, buffers, cameras and commands and any size of count_array and of  *)
(* the ring of answers.                                                      *)
EXTENDS UplinkProofs, WellFoundedInduction

(***************************************************************************)
(* Numbers.  Between the last picture numbered and the last trigger the    *)
(* handler has seen are overclocked samples, all in count_array, and at    *)
(* most one picture.                                                       *)
(***************************************************************************)

NumberTypes ==
  /\ triggers \in 0 .. MaxTriggers /\ overclocked \in 0 .. MaxTriggers
  /\ frames \in Seq(1 .. MaxTriggers)
  /\ sample_count_shoot \in Nat /\ sample_count_sum \in Nat
  /\ count_array \in [0 .. MAX_COUNT_ARRAY - 1 -> [valid : BOOLEAN, count : 0 .. MaxTriggers]]
  /\ sample_count_index \in 0 .. MAX_COUNT_ARRAY - 1
  /\ capture \in [at : {"idle", "test", "read", "find", "plain", "skip"},
                  trigger : 0 .. MaxTriggers]
  /\ zeroing \in BOOLEAN /\ zeroed \in 0 .. MaxZeroed /\ excused \in BOOLEAN

Handled == IF overclocked # 0 THEN triggers - 1 ELSE triggers
Noted(n) == \E i \in Valid : count_array[i].count = n

\* The picture is numbered next, or after the overclocked samples before it.
PictureNext ==
  \/ /\ sample_count_sum = NextPicture - 1
     /\ \/ sample_count_shoot + 1 = NextPicture
        \/ sample_count_shoot < NextPicture /\ Handled = NextPicture
  \/ sample_count_shoot + 1 = NextPicture /\ sample_count_sum = Handled /\ Handled > NextPicture

Numbered ==
  /\ \A i \in Valid : count_array[i].count <= Handled /\ (Busy => count_array[i].count # NextPicture)
  /\ capture.at # "skip" =>
       \A n \in sample_count_shoot + 1 .. Handled : Noted(n) \/ (Busy /\ n = NextPicture)
  /\ ~Busy => sample_count_shoot <= sample_count_sum /\ sample_count_sum \in {Handled, triggers}
  /\ Busy => NextPicture \in 1 .. Handled
  /\ Busy /\ capture.at \in {"idle", "test"} => PictureNext
  /\ capture.at = "read" => sample_count_shoot = NextPicture
  /\ capture.at = "find" => PictureNext /\ sample_count_shoot < sample_count_sum
  /\ capture.at = "plain" => sample_count_shoot + 1 = NextPicture /\ sample_count_sum = Handled
  /\ capture.at = "skip" => sample_count_sum = NextPicture - 1 /\ Handled = NextPicture

NumberInv ==
  /\ NumberTypes
  /\ ~excused =>
       /\ numbered.trigger = numbered.count
       /\ overclocked # 0 => overclocked = triggers
       /\ Len(frames) <= 1 /\ (frames # <<>> => capture.at = "idle")
       /\ IF zeroing THEN ~Busy /\ overclocked = 0 /\ triggers = 0 /\ Valid = {}
          ELSE Numbered

(***************************************************************************)
(* Two cameras.  The references to a group that are to be released of each *)
(* picture: not handed out yet, owed by a thread, or, of the second        *)
(* picture, about to be released.                                          *)
(***************************************************************************)

\* What image_capture_tsk has still to hand out.
LeftAt(c, at) ==
  IF at = "ui" THEN 3 ELSE IF at = "net" THEN 2 ELSE IF at = "dsp" THEN 1
  ELSE IF at = "count2" /\ c = 1 THEN 3 ELSE 0
Left(c, g) == IF shooting.group = g THEN LeftAt(c, shooting.at) ELSE 0

Total(f) == f["ui"] + f["net"] + f["dsp"] + f["capture"]
OwedByAll(g) == Total([r \in Releasers |-> CountIn(owed[r], {g})])
Between(r, g) == IF releasing[r].at = "second" /\ releasing[r].group = g THEN 1 ELSE 0
BetweenAll(g) == Total([r \in Releasers |-> Between(r, g)])
References(c, g) == Left(c, g) + OwedByAll(g) + (IF c = 2 THEN BetweenAll(g) ELSE 0)

\* A thread has still to test the counts of g.
ToTest(g) == \E r \in Releasers : releasing[r].at # "idle" /\ releasing[r].group = g

\* The groups whose picture by camera c is taken and not counted.
Requests(c) ==
  {g \in Groups :
     shooting.group = g
     /\ IF c = 1 THEN shooting.at \in {"second", "count1"} ELSE shooting.at \in {"count1", "count2"}}
Tested == {g \in Groups : ToTest(g)}
Pictures(c) == [g \in Groups |-> images[g][c]]
Refs(c) == [g \in Groups |-> References(c, g)]

Shooting == {"first", "second", "count1", "count2"}
HandingOut == {"ui", "net", "dsp"}

PairTypes ==
  /\ idle_groups \in Seq(Groups)
  /\ images \in [Groups -> [Cams -> Buffers \cup {NoBuffer}]]
  /\ queued \in [Cams -> SUBSET Buffers] /\ r_count \in [Cams -> [Buffers -> Int]]
  /\ pairs \in 0 .. MaxPairs /\ forgotten \in SUBSET Groups /\ raced \in BOOLEAN
  /\ shooting \in [at : Shooting \cup HandingOut, group : Groups] \cup {Unoccupied}
  /\ owed \in [Releasers -> Seq(Groups)]
  /\ releasing \in [Releasers -> [at : {"second", "test"}, group : Groups] \cup {Unoccupied}]

\* Only groups with both pictures are released.
HasPicture(c, g) == images[g][c] \in Buffers
PairPictures ==
  /\ shooting.at \in {"second", "count1", "count2"} \cup HandingOut => HasPicture(1, shooting.group)
  /\ shooting.at \in {"count1", "count2"} \cup HandingOut => HasPicture(2, shooting.group)
  /\ \A r \in Releasers, c \in Cams :
       /\ releasing[r].at # "idle" => HasPicture(c, releasing[r].group)
       /\ \A i \in DOMAIN owed[r] : HasPicture(c, owed[r][i])

\* The pictures of one camera.  One that is taken is out of the driver's queue
\* and belongs to one group; its count is that of the references to it.
Counted(pic, qd, rc, rf, rq, tt) ==
  /\ \A b \in Buffers : rc[b] \in 0 .. 3
  /\ \A b \in qd : rc[b] = 0
  /\ \A g \in Groups : g \in rq \/ rf[g] > 0 => pic[g] \notin qd
  /\ \A g, h \in Groups : (g \in rq \/ rf[g] > 0) /\ (h \in rq \/ rf[h] > 0) /\ g # h => pic[g] # pic[h]
  /\ \A g \in rq : rc[pic[g]] = 0
  /\ \A g \in Groups : rf[g] > 0 \/ g \in tt => rc[pic[g]] = rf[g]
PictureCounts ==
  \A c \in Cams : Counted(Pictures(c), queued[c], r_count[c], Refs(c), Requests(c), Tested)

\* A group that is being filled is released by nobody, and of those who have
\* released the second picture one at most finds it was the last.
GroupTurns ==
  /\ shooting.at \in Shooting => OwedByAll(shooting.group) = 0 /\ ~ToTest(shooting.group)
  /\ \A g \in Groups : References(2, g) = 0 =>
       \A q, r \in Releasers :
         releasing[q] = [at |-> "test", group |-> g] /\ releasing[r] = [at |-> "test", group |-> g] => q = r

Busily(g) == (shooting.at # "idle" /\ shooting.group = g) \/ ToTest(g) \/ OwedByAll(g) > 0
GroupPlaces ==
  \A g \in Groups : CountIn(idle_groups, {g}) + (IF Busily(g) THEN 1 ELSE 0)
                       + (IF g \in forgotten THEN 1 ELSE 0) = 1

PairSafe == PictureCounts /\ GroupTurns /\ GroupPlaces
PairInv == PairTypes /\ PairPictures /\ (~raced => PairSafe)
-----------------------------------------------------------------------------
(* which steps there are *)

\* A step of the program numbers samples or changes nothing of the numbers, and
\* likewise for the samples of two cameras.
LEMMA EachOtherMove ==
  [Next]_vars => /\ NumbersStep \/ UNCHANGED numberVars
                 /\ PairsCapture \/ PairsRelease \/ UNCHANGED pairVars
<1> SUFFICES ASSUME [Next]_vars
             PROVE  /\ NumbersStep \/ UNCHANGED numberVars
                    /\ PairsCapture \/ PairsRelease \/ UNCHANGED pairVars
  OBVIOUS
<1>1. CASE UNCHANGED vars \/ Faults
  BY <1>1 DEF vars, Faults
<1>2. CASE Numbers
  BY <1>2 DEF Numbers
<1>3. CASE Pairs
  BY <1>3 DEF Pairs
<1>4. CASE Links \/ Picture \/ Upload \/ NetSend \/ UiSend
  BY <1>4 DEF Links, Picture, Upload, NetSend, UiSend, UplinkOnly
<1>5. CASE \E r \in Reporters : Check(r) \/ Report(r)
  BY <1>5 DEF Check, Report, UplinkOnly
<1>6. CASE CameraCommand \/ \E c \in Cameras : CameraThread(c) \/ Camera(c)
  BY <1>6 DEF CameraCommand, CameraThread, Camera, CameraOnly
<1>7. CASE RejectProcess \/ RejectReader \/ Accept \/ Write \/ Read
  BY <1>7 DEF RejectProcess, RejectReader, Accept, Write, Read, RejectOnly
<1>8. CASE \/ \E x \in Resetters : BeginReset(x) \/ Reset(x)
           \/ \E j \in Judges : BeginResult(j) \/ Judge(j)
  BY <1>8 DEF BeginReset, Reset, BeginResult, Judge, RejectOnly
<1>9. QED
  BY <1>1, <1>2, <1>3, <1>4, <1>5, <1>6, <1>7, <1>8 DEF Next

-----------------------------------------------------------------------------
(* numbers *)

\* At the start nothing has been triggered.
LEMMA NumbersStart == NumbersInit => NumberInv
<1> SUFFICES ASSUME NumbersInit PROVE NumberInv
  OBVIOUS
<1>1. MaxTriggers \in Nat /\ MaxZeroed \in Nat /\ MAX_COUNT_ARRAY \in Nat \ {0}
  BY SampleNumbersAssumption
<1>2. /\ triggers = 0 /\ frames = <<>> /\ overclocked = 0 /\ sample_count_shoot = 0
      /\ sample_count_sum = 0 /\ sample_count_index = 0 /\ zeroing = FALSE /\ zeroed = 0
      /\ excused = FALSE /\ capture = [at |-> "idle", trigger |-> 0]
      /\ numbered = [trigger |-> 0, count |-> 0]
      /\ count_array = [i \in 0 .. MAX_COUNT_ARRAY - 1 |-> Unused]
  BY DEF NumbersInit, Capturing
<1>3. Unused \in [valid : BOOLEAN, count : 0 .. MaxTriggers] /\ ~Unused.valid
  BY <1>1 DEF Unused
<1>4. frames \in Seq(1 .. MaxTriggers)
  BY <1>2
<1>5. zeroing \in BOOLEAN /\ excused \in BOOLEAN
  BY <1>2, Zenon
<1>6. NumberTypes
  BY <1>1, <1>2, <1>3, <1>4, <1>5 DEF NumberTypes
<1>7. Valid = {}
  BY <1>2, <1>3 DEF Valid
<1>8. ~Busy /\ Handled = 0 /\ Len(frames) = 0
  BY <1>2 DEF Busy, Handled
<1>9. Numbered
  BY <1>2, <1>7, <1>8 DEF Numbered
<1>10. QED
  BY <1>2, <1>6, <1>8, <1>9 DEF NumberInv

\* Each step of the FPGA, the handler, capture and the reset keeps the types.
LEMMA NumberTypesKept == NumberTypes /\ NumbersStep => NumberTypes'
<1> SUFFICES ASSUME NumberTypes, NumbersStep PROVE NumberTypes'
  OBVIOUS
<1>1. /\ MaxTriggers \in Nat /\ MaxZeroed \in Nat /\ MAX_COUNT_ARRAY \in Nat \ {0}
      /\ triggers \in 0 .. MaxTriggers
  BY SampleNumbersAssumption DEF NumberTypes
<1>2. /\ sample_count_shoot' \in Nat /\ sample_count_sum' \in Nat
      /\ triggers' \in 0 .. MaxTriggers /\ overclocked' \in 0 .. MaxTriggers
      /\ zeroed' \in 0 .. MaxZeroed
  <2> DEFINE Counts == /\ sample_count_shoot \in Nat /\ sample_count_sum \in Nat
                       /\ triggers \in 0 .. MaxTriggers /\ overclocked \in 0 .. MaxTriggers
                       /\ zeroed \in 0 .. MaxZeroed
  <2>1. Counts
    BY DEF NumberTypes
  <2>2. CASE Shoot
    BY <1>1, <2>1, <2>2 DEF Shoot
  <2>3. CASE Overclock
    BY <1>1, <2>1, <2>3 DEF Overclock
  <2>4. CASE NumberOverclocked
    BY <1>1, <2>1, <2>4 DEF NumberOverclocked
  <2>5. CASE CaptureFrame
    BY <2>1, <2>5 DEF CaptureFrame
  <2>6. CASE TestCounts
    BY <2>1, <2>6 DEF TestCounts
  <2>7. CASE ReadCount
    BY <1>1, <2>1, <2>7 DEF ReadCount
  <2>8. CASE FindCount
    BY <2>1, <2>8 DEF FindCount
  <2>9. CASE NumberNext \/ NumberPast
    BY <2>1, <2>9 DEF NumberNext, NumberPast
  <2>10. CASE fpga_reset \/ sample_count_reset
    BY <1>1, <2>1, <2>10 DEF fpga_reset, sample_count_reset
  <2>11. QED
    BY <2>2, <2>3, <2>4, <2>5, <2>6, <2>7, <2>8, <2>9, <2>10 DEF NumbersStep, CaptureStep
<1>3. frames' \in Seq(1 .. MaxTriggers)
  <2>1. CASE Shoot
    BY <1>1, <2>1 DEF NumberTypes, Shoot
  <2>2. CASE CaptureFrame
    BY <2>2 DEF NumberTypes, CaptureFrame
  <2>3. CASE ~Shoot /\ ~CaptureFrame
    BY <2>3 DEF NumberTypes, NumbersStep, Overclock, NumberOverclocked, CaptureStep, TestCounts,
                ReadCount, FindCount, NumberNext, NumberPast, fpga_reset, sample_count_reset
  <2>4. QED
    BY <2>1, <2>2, <2>3
<1>4. /\ sample_count_index' \in 0 .. MAX_COUNT_ARRAY - 1
      /\ count_array' \in [0 .. MAX_COUNT_ARRAY - 1 -> [valid : BOOLEAN, count : 0 .. MaxTriggers]]
  <2>1. CASE NumberOverclocked
    <3>1. (sample_count_index + 1) % MAX_COUNT_ARRAY \in 0 .. MAX_COUNT_ARRAY - 1
      BY <1>1 DEF NumberTypes
    <3>2. [valid |-> TRUE, count |-> triggers] \in [valid : BOOLEAN, count : 0 .. MaxTriggers]
      BY <1>1
    <3>3. QED
      BY <2>1, <3>1, <3>2 DEF NumberTypes, NumberOverclocked
  <2>2. CASE FindCount
    BY <2>2 DEF NumberTypes, FindCount
  <2>3. CASE ~NumberOverclocked /\ ~FindCount
    BY <2>3 DEF NumberTypes, NumbersStep, Shoot, Overclock, CaptureStep, CaptureFrame, TestCounts,
                ReadCount, NumberNext, NumberPast, fpga_reset, sample_count_reset
  <2>4. QED
    BY <2>1, <2>2, <2>3
<1>5. capture' \in [at : {"idle", "test", "read", "find", "plain", "skip"}, trigger : 0 .. MaxTriggers]
  <2>1. CASE CaptureFrame
    <3>1. Head(frames) \in 0 .. MaxTriggers
      BY <1>1, <2>1 DEF NumberTypes, CaptureFrame
    <3>2. QED
      BY <2>1, <3>1 DEF CaptureFrame, Capturing
  <2>2. CASE TestCounts \/ ReadCount \/ FindCount \/ NumberNext \/ NumberPast
    <3>1. \/ capture' = [at |-> "idle", trigger |-> 0]
          \/ \E a \in {"read", "find", "plain", "skip"} : capture' = [capture EXCEPT !.at = a]
      BY <2>2 DEF TestCounts, ReadCount, FindCount, NumberNext, NumberPast, Capturing
    <3>2. capture \in [at : {"idle", "test", "read", "find", "plain", "skip"}, trigger : 0 .. MaxTriggers]
      BY DEF NumberTypes
    <3>3. 0 \in 0 .. MaxTriggers
      BY <1>1
    <3>4. QED
      BY <3>1, <3>2, <3>3
  <2>3. CASE ~CaptureStep
    BY <2>3 DEF NumberTypes, NumbersStep, Shoot, Overclock, NumberOverclocked, fpga_reset,
                sample_count_reset
  <2>4. QED
    BY <2>1, <2>2, <2>3 DEF CaptureStep
<1>6. zeroing' \in BOOLEAN /\ excused' \in BOOLEAN
  <2>1. zeroing \in BOOLEAN /\ excused \in BOOLEAN
    BY DEF NumberTypes
  <2>2. zeroing' = zeroing \/ zeroing' = TRUE \/ zeroing' = FALSE
    BY DEF NumbersStep, Shoot, Overclock, NumberOverclocked, CaptureStep, CaptureFrame,
           TestCounts, ReadCount, FindCount, NumberNext, NumberPast, fpga_reset, sample_count_reset
  <2>3. excused' \in BOOLEAN
    BY <2>1, Zenon DEF NumbersStep, Shoot, Overclock, NumberOverclocked, CaptureStep, CaptureFrame,
           TestCounts, ReadCount, FindCount, NumberNext, NumberPast, fpga_reset, sample_count_reset
  <2>4. QED
    BY <2>1, <2>2, <2>3, Zenon
<1>7. QED
  BY <1>2, <1>3, <1>4, <1>5, <1>6 DEF NumberTypes

\* What the handler has seen, and the picture that waits, are triggers.
LEMMA HandledType ==
  ASSUME NumberTypes
  PROVE  /\ triggers \in Nat /\ Handled \in Int /\ Handled <= triggers
         /\ sample_count_shoot \in Nat /\ sample_count_sum \in Nat
         /\ Busy => NextPicture \in Nat
         /\ \A i \in Valid : i \in DOMAIN count_array /\ count_array[i].count \in Nat
BY SampleNumbersAssumption DEF NumberTypes, Handled, Busy, NextPicture, Valid

\* A trigger: of a picture when all samples so far have been handled, or of an
\* overclocked sample.
LEMMA TriggerNumbers ==
  ASSUME NumberInv, NumberTypes', ~excused', Shoot \/ Overclock
  PROVE  NumberInv'
<1>1. NumberTypes /\ ~excused /\ ~zeroing /\ overclocked = 0
  BY DEF NumberInv, Shoot, Overclock
<1>2. /\ numbered.trigger = numbered.count /\ Len(frames) <= 1
      /\ (frames # <<>> => capture.at = "idle") /\ Numbered
  BY <1>1 DEF NumberInv
<1>3. /\ triggers \in Nat /\ Handled = triggers
      /\ sample_count_shoot \in Nat /\ sample_count_sum \in Nat
      /\ \A i \in Valid : count_array[i].count \in Nat /\ count_array[i].count <= triggers
  BY <1>1, <1>2, HandledType DEF Handled, Numbered
<1>4. UNCHANGED <<Valid, sample_count_shoot, sample_count_sum, count_array, capture, numbered,
                  zeroing>>
  BY DEF Shoot, Overclock, Valid
<1>5. CASE Shoot
  <2> DEFINE n == triggers + 1
  <2>1. ~Busy /\ frames = <<>> /\ capture.at = "idle" /\ frames' = Append(frames, n) /\ triggers' = n
    BY <1>1, <1>5 DEF Shoot, Busy
  <2>2. Len(frames') = 1 /\ Head(frames') = n /\ frames' # <<>>
    BY <2>1
  <2>3. Busy' /\ NextPicture' = n /\ Handled' = n /\ overclocked' = 0
    BY <1>1, <1>4, <1>5, <2>1, <2>2 DEF Busy, NextPicture, Handled, Shoot
  <2>4. sample_count_shoot <= sample_count_sum /\ sample_count_sum = triggers
    BY <1>2, <1>3, <2>1 DEF Numbered
  <2>5. PictureNext'
    BY <1>3, <1>4, <2>3, <2>4 DEF PictureNext
  <2>6. \A k \in sample_count_shoot + 1 .. triggers : Noted(k)
    BY <1>2, <1>3, <2>1 DEF Numbered
  <2>7. \A k \in sample_count_shoot' + 1 .. n : Noted(k)' \/ k = n
    BY <1>3, <1>4, <2>6 DEF Noted
  <2>8. Numbered'
    BY <1>3, <1>4, <2>1, <2>3, <2>5, <2>7 DEF Numbered
  <2>9. QED
    BY <1>1, <1>2, <1>4, <2>1, <2>2, <2>3, <2>8 DEF NumberInv
<1>6. CASE Overclock
  <2>1. triggers' = triggers + 1 /\ overclocked' = triggers + 1 /\ frames' = frames
    BY <1>6 DEF Overclock
  <2>2. Handled' = Handled /\ Busy' = Busy /\ NextPicture' = NextPicture
    BY <1>3, <1>4, <2>1 DEF Handled, Busy, NextPicture
  <2>3. \A k : Noted(k)' = Noted(k)
    BY <1>4 DEF Noted
  <2>4. PictureNext' = PictureNext
    BY <1>4, <2>2 DEF PictureNext
  <2>5. ~Busy => sample_count_sum = Handled
    BY <1>2, <1>3 DEF Numbered
  <2>6. Numbered'
    BY <1>2, <1>3, <1>4, <2>2, <2>3, <2>4, <2>5 DEF Numbered
  <2>7. QED
    BY <1>1, <1>2, <1>4, <2>1, <2>6 DEF NumberInv
<1>7. QED
  BY <1>5, <1>6

\* sig_handler numbers an overclocked sample by the FPGA's count, and leaves it in
\* the place of a number that is no longer needed.
LEMMA HandlerNumbers ==
  ASSUME NumberInv, NumberTypes', ~excused', NumberOverclocked
  PROVE  NumberInv'
<1> DEFINE T == triggers
           j == sample_count_index
<1>1. NumberTypes /\ ~excused /\ overclocked # 0 /\ overclocked' = 0
  BY DEF NumberInv, NumberOverclocked
<1>2. /\ overclocked = T /\ Len(frames) <= 1 /\ ~zeroing
      /\ (frames # <<>> => capture.at = "idle") /\ Numbered
  BY <1>1 DEF NumberInv
<1>3. /\ T \in Nat \ {0} /\ Handled = T - 1 /\ Handled' = T /\ triggers' = T
      /\ sample_count_shoot \in Nat /\ sample_count_sum' = T /\ sample_count_shoot' = sample_count_shoot
      /\ capture' = capture /\ frames' = frames /\ zeroing' = zeroing
      /\ numbered' = [trigger |-> T, count |-> T]
  BY <1>1, <1>2, HandledType DEF Handled, NumberOverclocked
<1>4. /\ capture.at \notin {"find", "plain", "skip"}
      /\ ~(Busy /\ NextPicture > sample_count_shoot + 1)
      /\ ~(count_array[j].valid /\ count_array[j].count > sample_count_shoot)
  BY <1>1 DEF NumberOverclocked
<1>5. Busy' = Busy /\ NextPicture' = NextPicture /\ (Busy => NextPicture \in 1 .. T - 1)
  BY <1>2, <1>3 DEF Busy, NextPicture, Numbered
<1>6. /\ j \in DOMAIN count_array /\ DOMAIN count_array' = DOMAIN count_array
      /\ count_array'[j] = [valid |-> TRUE, count |-> T]
      /\ \A i \in DOMAIN count_array \ {j} : count_array'[i] = count_array[i]
  BY <1>1 DEF NumberTypes, NumberOverclocked
<1>7. /\ Valid' = Valid \cup {j} /\ count_array'[j].count = T
      /\ \A i \in Valid \ {j} : count_array'[i].count = count_array[i].count
  BY <1>6 DEF Valid
<1>8. \A i \in Valid' : count_array'[i].count <= T /\ (Busy => count_array'[i].count # NextPicture)
  <2>1. \A i \in Valid : count_array[i].count <= T - 1 /\ count_array[i].count \in Nat
                         /\ (Busy => count_array[i].count # NextPicture)
    BY <1>1, <1>2, <1>3, HandledType DEF Numbered
  <2>2. QED
    BY <1>3, <1>5, <1>7, <2>1
<1>9. \A n \in sample_count_shoot + 1 .. T : Noted(n)' \/ (Busy /\ n = NextPicture)
  <2>1. Noted(T)'
    BY <1>3, <1>7 DEF Noted
  <2>2. ASSUME NEW n \in sample_count_shoot + 1 .. T - 1
        PROVE  Noted(n)' \/ (Busy /\ n = NextPicture)
    <3>1. CASE Noted(n)
      <4>1. PICK i \in Valid : count_array[i].count = n
        BY <3>1 DEF Noted
      <4>2. i # j
        BY <1>3, <1>4, <2>2, <4>1 DEF Valid
      <4>3. QED
        BY <1>7, <4>1, <4>2 DEF Noted
    <3>2. QED
      BY <1>2, <1>3, <1>4, <2>2, <3>1 DEF Numbered
  <2>3. QED
    BY <1>3, <2>1, <2>2
<1>10. Busy /\ capture.at \in {"idle", "test"} => PictureNext'
  BY <1>2, <1>3, <1>4, <1>5, HandledType, <1>1 DEF Numbered, PictureNext
<1>11. Numbered'
  BY <1>2, <1>3, <1>4, <1>5, <1>8, <1>9, <1>10 DEF Numbered
<1>12. QED
  BY <1>1, <1>2, <1>3, <1>11 DEF NumberInv

\* Numbers have a smallest one.
LEMMA SmallestOf ==
  ASSUME NEW T, T \subseteq Nat, T # {} PROVE \E k \in T : \A l \in T : k <= l
<1>1. IsWellFoundedOn(OpToRel(<, Nat), Nat)
  BY NatLessThanWellFounded
<1> DEFINE R == OpToRel(<, Nat)
<1>2. \E k \in T : \A l \in T : <<l, k>> \notin R
  <2> HIDE DEF R
  <2>1. IsWellFoundedOn(R, Nat)
    BY <1>1 DEF R
  <2>2. QED
    BY <2>1, WFMin
<1>3. PICK k \in T : \A l \in T : <<l, k>> \notin R
  BY <1>2
<1>4. ASSUME NEW l \in T PROVE k <= l
  <2>1. <<l, k>> \in Nat \X Nat
    OBVIOUS
  <2>2. ~(l < k)
    BY <1>3, <2>1 DEF OpToRel
  <2>3. QED
    BY <2>2
<1>5. QED
  BY <1>4

\* image_capture_tsk numbers a picture next, or after the samples it skips.
LEMMA CaptureNumbers ==
  ASSUME NumberInv, NumberTypes', ~excused', CaptureStep
  PROVE  NumberInv'
<1> DEFINE X == NextPicture
           S == sample_count_shoot
           M == sample_count_sum
<1>1. NumberTypes /\ ~excused /\ Busy
      /\ UNCHANGED <<triggers, overclocked, zeroing, sample_count_index>> /\ Handled' = Handled
  BY DEF NumberInv, CaptureStep, CaptureFrame, TestCounts, ReadCount, FindCount, NumberNext,
         NumberPast, Busy, Handled
<1>2. /\ numbered.trigger = numbered.count /\ Len(frames) <= 1 /\ ~zeroing
      /\ overclocked # 0 => overclocked = triggers
      /\ (frames # <<>> => capture.at = "idle") /\ Numbered
  BY <1>1 DEF NumberInv
<1>3. /\ triggers \in Nat /\ Handled \in Int /\ Handled <= triggers /\ S \in Nat /\ M \in Nat
      /\ X \in Nat /\ X \in 1 .. Handled
      /\ \A i \in Valid : /\ i \in DOMAIN count_array /\ count_array[i].count \in Nat
                          /\ count_array[i].count <= Handled /\ count_array[i].count # X
  BY <1>1, <1>2, HandledType DEF Numbered
<1>4. Handled \in {triggers, triggers - 1} /\ (Handled = triggers - 1 => overclocked # 0)
  BY <1>3 DEF Handled
<1>5. CASE CaptureFrame
  <2>1. capture' = [at |-> "test", trigger |-> X] /\ frames' = <<>> /\ Len(frames') = 0
        /\ capture.at = "idle"
    <3>1. capture.at = "idle" /\ frames # <<>> /\ frames' = Tail(frames)
          /\ capture' = [at |-> "test", trigger |-> Head(frames)]
      BY <1>5 DEF CaptureFrame, Capturing
    <3>2. frames \in Seq(1 .. MaxTriggers)
      BY <1>1 DEF NumberTypes
    <3>3. Tail(frames) = <<>> /\ Len(Tail(frames)) = 0
      <4>1. /\ Tail(frames) \in Seq(1 .. MaxTriggers) /\ Len(Tail(frames)) = Len(frames) - 1
            /\ Len(frames) \in Nat
        BY <3>1, <3>2, TailFacts
      <4>2. Len(Tail(frames)) <= 0 /\ Len(Tail(frames)) \in Nat
        BY <1>2, <4>1
      <4>3. QED
        BY <4>1, <4>2
    <3>4. X = Head(frames)
      BY <3>1 DEF NextPicture
    <3>5. QED
      BY <3>1, <3>3, <3>4
  <2>2. UNCHANGED <<sample_count_shoot, sample_count_sum, count_array, numbered>>
    BY <1>5 DEF CaptureFrame
  <2>3. Busy' /\ NextPicture' = X /\ Valid' = Valid /\ \A n : Noted(n)' = Noted(n)
    BY <2>1, <2>2 DEF Busy, NextPicture, Valid, Noted
  <2>4. PictureNext'
    BY <1>1, <1>2, <2>1, <2>2, <2>3 DEF PictureNext, Numbered
  <2>5. Numbered'
    BY <1>1, <1>2, <2>1, <2>2, <2>3, <2>4 DEF Numbered
  <2>6. QED
    BY <1>1, <1>2, <2>1, <2>2, <2>5 DEF NumberInv
<1>6. ASSUME capture.at \in {"test", "read", "find", "plain", "skip"}
      PROVE  X = capture.trigger /\ frames = <<>> /\ Len(frames) = 0
  BY <1>1, <1>2, <1>6 DEF NextPicture, NumberTypes
<1>7. CASE TestCounts
  <2>1. capture.at = "test" /\ PictureNext /\ X = capture.trigger /\ frames = <<>> /\ frames' = <<>>
    BY <1>1, <1>2, <1>6, <1>7 DEF TestCounts, Numbered
  <2>2. S <= M
    BY <1>3, <2>1 DEF PictureNext
  <2>3. UNCHANGED <<sample_count_sum, count_array, numbered>> /\ capture'.trigger = X
        /\ \/ S = M /\ sample_count_shoot' = S + 1 /\ capture'.at = "read"
           \/ S < M /\ sample_count_shoot' = S /\ capture'.at = "find"
    BY <1>1, <1>3, <1>7, <2>1, <2>2 DEF TestCounts, NumberTypes
  <2>4. Busy' /\ NextPicture' = X /\ Valid' = Valid /\ \A n : Noted(n)' = Noted(n)
    BY <2>3 DEF Busy, NextPicture, Valid, Noted
  <2>5. capture'.at = "read" => sample_count_shoot' = X
    BY <1>3, <2>1, <2>3 DEF PictureNext
  <2>6. capture'.at = "find" => PictureNext'
    BY <1>1, <2>1, <2>3, <2>4 DEF PictureNext
  <2>7. \A n \in sample_count_shoot' + 1 .. Handled : n \in S + 1 .. Handled
    BY <1>3, <2>3
  <2>8. Numbered'
    BY <1>1, <1>2, <1>3, <2>1, <2>3, <2>4, <2>5, <2>6, <2>7 DEF Numbered
  <2>9. QED
    BY <1>1, <1>2, <2>1, <2>3, <2>8 DEF NumberInv
<1>8. CASE ReadCount
  <2>1. S = X /\ X = capture.trigger /\ frames = <<>> /\ frames' = <<>> /\ triggers # 0 /\ capture.at = "read"
    BY <1>2, <1>3, <1>6, <1>8 DEF ReadCount, Numbered
  <2>2. /\ capture' = [at |-> "idle", trigger |-> 0] /\ sample_count_sum' = triggers
        /\ numbered' = [trigger |-> X, count |-> X]
        /\ UNCHANGED <<sample_count_shoot, count_array>>
    BY <1>8, <2>1 DEF ReadCount, Number, Capturing
  <2>3. ~Busy' /\ Valid' = Valid /\ \A n : Noted(n)' = Noted(n)
    BY <2>1, <2>2 DEF Busy, Valid, Noted
  <2>4. Numbered'
    BY <1>1, <1>2, <1>3, <2>1, <2>2, <2>3 DEF Numbered
  <2>5. QED
    BY <1>1, <1>2, <2>1, <2>2, <2>4 DEF NumberInv
<1>9. CASE FindCount
  <2> DEFINE hits == {i \in Valid : count_array[i].count = S + 1}
  <2>1. /\ capture.at = "find" /\ PictureNext /\ S < M /\ X = capture.trigger /\ frames = <<>>
        /\ UNCHANGED <<frames, sample_count_shoot, sample_count_sum, numbered>>
        /\ capture'.trigger = X
        /\ capture'.at = IF hits = {} THEN "plain" ELSE "skip"
    BY <1>1, <1>2, <1>6, <1>9 DEF FindCount, Numbered, NumberTypes
  <2>2. Busy' /\ NextPicture' = X
    BY <2>1 DEF Busy, NextPicture
  <2>3. CASE hits = {}
    <3>1. count_array' = count_array /\ capture'.at = "plain"
      BY <1>9, <2>1, <2>3 DEF FindCount
    <3>2. Valid' = Valid /\ \A n : Noted(n)' = Noted(n)
      BY <3>1 DEF Valid, Noted
    <3>3. ~Noted(S + 1)
      BY <2>3 DEF Noted
    <3>4. S + 1 = X /\ M = Handled
      <4>1. S + 1 <= Handled
        BY <1>3, <2>1 DEF PictureNext
      <4>2. S + 1 = X
        BY <1>2, <1>3, <2>1, <3>3, <4>1 DEF Numbered
      <4>3. QED
        BY <1>3, <2>1, <4>2 DEF PictureNext
    <3>5. Numbered'
      BY <1>1, <1>2, <1>3, <2>1, <2>2, <3>1, <3>2, <3>4 DEF Numbered
    <3>6. QED
      BY <1>1, <1>2, <2>1, <3>1, <3>5 DEF NumberInv
  <2>4. CASE hits # {}
    <3>1. \E k \in DOMAIN count_array : count_array' = [count_array EXCEPT ![k].valid = FALSE]
      <4>1. \E k \in hits : \A l \in hits : k <= l
        <5>1. hits \subseteq Nat
          BY <1>1 DEF NumberTypes, Valid
        <5>2. QED
          BY <2>4, <5>1, SmallestOf
      <4>2. (CHOOSE k \in hits : \A l \in hits : k <= l) \in hits
        BY <4>1
      <4>3. QED
        BY <1>9, <2>4, <4>2 DEF FindCount, Valid
    <3>2. /\ Valid' \subseteq Valid /\ \A i \in Valid' : count_array'[i].count = count_array[i].count
      <4>1. PICK k \in DOMAIN count_array : count_array' = [count_array EXCEPT ![k].valid = FALSE]
        BY <3>1
      <4>2. \E C : count_array \in [0 .. MAX_COUNT_ARRAY - 1 -> [valid : BOOLEAN, count : C]]
        BY <1>1 DEF NumberTypes
      <4>3. /\ DOMAIN count_array' = DOMAIN count_array
            /\ \A i \in DOMAIN count_array : count_array'[i].count = count_array[i].count
                                          /\ (count_array'[i].valid => count_array[i].valid)
        BY <4>1, <4>2
      <4>4. DOMAIN count_array = 0 .. MAX_COUNT_ARRAY - 1
        BY <4>2
      <4>5. QED
        BY <4>3, <4>4 DEF Valid
    <3>3. S + 1 # X /\ capture'.at = "skip"
      BY <1>3, <2>1, <2>4
    <3>4. M = X - 1 /\ Handled = X
      BY <1>3, <2>1, <3>3 DEF PictureNext
    <3>5. Numbered'
      BY <1>1, <1>3, <2>1, <2>2, <3>2, <3>3, <3>4 DEF Numbered
    <3>6. QED
      BY <1>1, <1>2, <2>1, <3>3, <3>5 DEF NumberInv
  <2>5. QED
    BY <2>3, <2>4
<1>10. CASE NumberNext
  <2>1. /\ S + 1 = X /\ M = Handled /\ X = capture.trigger /\ frames = <<>> /\ frames' = <<>>
        /\ capture' = [at |-> "idle", trigger |-> 0] /\ sample_count_shoot' = M
        /\ numbered' = [trigger |-> X, count |-> X] /\ UNCHANGED <<sample_count_sum, count_array>>
    BY <1>2, <1>6, <1>10 DEF NumberNext, Number, Capturing, Numbered
  <2>2. ~Busy' /\ Valid' = Valid
    BY <2>1 DEF Busy, Valid
  <2>3. Numbered'
    BY <1>1, <1>2, <1>3, <2>1, <2>2 DEF Numbered
  <2>4. QED
    BY <1>1, <1>2, <2>1, <2>3 DEF NumberInv
<1>11. CASE NumberPast
  <2>1. /\ M + 1 = X /\ X = Handled /\ X = capture.trigger /\ frames = <<>> /\ frames' = <<>>
        /\ capture' = [at |-> "idle", trigger |-> 0] /\ sample_count_shoot' = X
        /\ sample_count_sum' = X
        /\ numbered' = [trigger |-> X, count |-> X] /\ UNCHANGED count_array
    BY <1>2, <1>3, <1>6, <1>11 DEF NumberPast, Number, Capturing, Numbered
  <2>2. ~Busy' /\ Valid' = Valid
    BY <2>1 DEF Busy, Valid
  <2>3. Numbered'
    BY <1>1, <1>2, <1>3, <2>1, <2>2 DEF Numbered
  <2>4. QED
    BY <1>1, <1>2, <2>1, <2>3 DEF NumberInv
<1>12. QED
  BY <1>5, <1>7, <1>8, <1>9, <1>10, <1>11 DEF CaptureStep

\* A reset, of the FPGA's count and then of the others, begins from a clean state.
LEMMA ResetNumbers ==
  ASSUME NumberInv, NumberTypes', ~excused', fpga_reset \/ sample_count_reset
  PROVE  NumberInv'
<1>1. NumberTypes /\ ~excused /\ UNCHANGED <<frames, capture, overclocked, count_array, numbered>>
  <2>1. NumberTypes
    BY DEF NumberInv
  <2>2. ~excused
    BY Zenon DEF fpga_reset, sample_count_reset
  <2>3. UNCHANGED <<frames, capture, overclocked, count_array, numbered>>
    BY DEF fpga_reset, sample_count_reset
  <2>4. QED
    BY <2>1, <2>2, <2>3
<1>2. Busy' = Busy /\ Valid' = Valid
  BY <1>1 DEF Busy, Valid
<1>3. CASE fpga_reset
  <2>1. ~Busy /\ overclocked = 0 /\ Valid = {} /\ triggers' = 0 /\ zeroing'
    BY <1>3 DEF fpga_reset
  <2>2. QED
    BY <1>1, <1>2, <2>1 DEF NumberInv
<1>4. CASE sample_count_reset
  <2>1. /\ ~Busy /\ overclocked = 0 /\ triggers = 0 /\ Valid = {} /\ triggers' = 0 /\ ~zeroing'
        /\ sample_count_shoot' = 0 /\ sample_count_sum' = 0
    BY <1>1, <1>4 DEF NumberInv, sample_count_reset
  <2>2. Handled' = 0 /\ capture'.at = "idle"
    BY <1>1, <2>1 DEF Handled, Busy
  <2>3. Numbered'
    BY <1>2, <2>1, <2>2 DEF Numbered
  <2>4. QED
    BY <1>1, <2>1, <2>3 DEF NumberInv
<1>5. QED
  BY <1>3, <1>4

\* Each step keeps the numbers in order.
LEMMA NumbersKept == NumberInv /\ (NumbersStep \/ UNCHANGED numberVars) => NumberInv'
<1> SUFFICES ASSUME NumberInv, NumbersStep \/ UNCHANGED numberVars PROVE NumberInv'
  OBVIOUS
<1>1. CASE UNCHANGED numberVars
  BY <1>1 DEF numberVars, NumberInv, NumberTypes, Numbered, Handled, Noted, PictureNext, Busy,
              NextPicture, Valid
<1>2. CASE NumbersStep
  <2>1. NumberTypes'
    BY <1>2, NumberTypesKept DEF NumberInv
  <2>2. CASE excused'
    BY <2>1, <2>2 DEF NumberInv
  <2>3. CASE ~excused'
    BY <1>2, <2>1, <2>3, TriggerNumbers, HandlerNumbers, CaptureNumbers, ResetNumbers DEF NumbersStep
  <2>4. QED
    BY <2>2, <2>3
<1>3. QED
  BY <1>1, <1>2
-----------------------------------------------------------------------------
(* two cameras *)

\* What one thread has changes what all have together.
LEMMA TotalMoves ==
  ASSUME NEW f \in [Releasers -> Nat], NEW h \in [Releasers -> Nat], NEW r \in Releasers,
         \A q \in Releasers \ {r} : h[q] = f[q]
  PROVE  /\ Total(f) \in Nat /\ Total(h) \in Nat /\ f[r] <= Total(f)
         /\ Total(h) = Total(f) - f[r] + h[r]
         /\ Total(f) = 0 <=> \A q \in Releasers : f[q] = 0
<1>1. /\ f["ui"] \in Nat /\ f["net"] \in Nat /\ f["dsp"] \in Nat /\ f["capture"] \in Nat
      /\ h["ui"] \in Nat /\ h["net"] \in Nat /\ h["dsp"] \in Nat /\ h["capture"] \in Nat
  BY DEF Releasers
<1>2. Total(f) = 0 <=> \A q \in Releasers : f[q] = 0
  <2>1. Total(f) = 0 <=> f["ui"] = 0 /\ f["net"] = 0 /\ f["dsp"] = 0 /\ f["capture"] = 0
    <3> DEFINE a == f["ui"]
               b == f["net"]
               c == f["dsp"]
               d == f["capture"]
    <3>1. a \in Nat /\ b \in Nat /\ c \in Nat /\ d \in Nat /\ Total(f) = a + b + c + d
      BY <1>1 DEF Total
    <3> HIDE DEF a, b, c, d
    <3>2. Total(f) = 0 <=> a = 0 /\ b = 0 /\ c = 0 /\ d = 0
      BY <3>1
    <3>3. QED
      BY <3>2, Zenon DEF a, b, c, d
  <2>2. QED
    BY <2>1, Zenon DEF Releasers
<1>3. r \in {"ui", "net", "dsp", "capture"}
  BY DEF Releasers
<1>4. f[r] <= Total(f) /\ Total(h) = Total(f) - f[r] + h[r]
  <2>1. CASE r = "ui"
    BY <1>1, <2>1 DEF Total, Releasers
  <2>2. CASE r = "net"
    BY <1>1, <2>2 DEF Total, Releasers
  <2>3. CASE r = "dsp"
    BY <1>1, <2>3 DEF Total, Releasers
  <2>4. CASE r = "capture"
    BY <1>1, <2>4 DEF Total, Releasers
  <2>5. QED
    BY <1>3, <2>1, <2>2, <2>3, <2>4
<1>5. Total(f) \in Nat /\ Total(h) \in Nat
  BY <1>1 DEF Total
<1>6. QED
  BY <1>2, <1>4, <1>5

\* A list counts what is in it.
LEMMA CountZero ==
  ASSUME NEW S, NEW q \in Seq(S), NEW g
  PROVE  /\ CountIn(q, {g}) \in Nat /\ CountIn(q, {g}) <= Len(q)
         /\ CountIn(q, {g}) = 0 <=> \A i \in DOMAIN q : q[i] # g
<1>1. /\ IsFiniteSet({i \in DOMAIN q : q[i] \in {g}}) /\ CountIn(q, {g}) \in Nat
      /\ CountIn(q, {g}) <= Len(q)
  BY CountType
<1>2. CountIn(q, {g}) = 0 <=> {i \in DOMAIN q : q[i] \in {g}} = {}
  BY <1>1, FS_EmptySet DEF CountIn
<1>3. QED
  BY <1>1, <1>2

\* A group is owed by the threads whose list it is in, and is between its two
\* pictures with those that have released the first.
LEMMA PairSums ==
  ASSUME PairTypes, NEW g
  PROVE  /\ OwedByAll(g) \in Nat /\ BetweenAll(g) \in Nat
         /\ OwedByAll(g) = 0 <=> \A r \in Releasers : CountIn(owed[r], {g}) = 0
         /\ BetweenAll(g) = 0 <=> \A r \in Releasers : Between(r, g) = 0
         /\ \A r \in Releasers : /\ CountIn(owed[r], {g}) \in Nat
                                 /\ CountIn(owed[r], {g}) <= OwedByAll(g)
                                 /\ Between(r, g) <= BetweenAll(g)
<1> DEFINE f == [r \in Releasers |-> CountIn(owed[r], {g})]
           h == [r \in Releasers |-> Between(r, g)]
<1>1. f \in [Releasers -> Nat]
  BY CountZero DEF PairTypes
<1>2. h \in [Releasers -> Nat]
  BY DEF Between
<1>3. OwedByAll(g) = Total(f) /\ BetweenAll(g) = Total(h)
  BY DEF OwedByAll, BetweenAll
<1>4. /\ \A r \in Releasers : f[r] = CountIn(owed[r], {g}) /\ f[r] \in Nat
      /\ \A r \in Releasers : h[r] = Between(r, g)
  BY <1>1
<1> HIDE DEF f, h
<1>5. "ui" \in Releasers
  BY DEF Releasers
<1>6. /\ Total(f) \in Nat /\ (Total(f) = 0 <=> \A q \in Releasers : f[q] = 0)
      /\ \A r \in Releasers : f[r] <= Total(f)
  BY <1>1, <1>5, TotalMoves
<1>7. /\ Total(h) \in Nat /\ (Total(h) = 0 <=> \A q \in Releasers : h[q] = 0)
      /\ \A r \in Releasers : h[r] <= Total(h)
  BY <1>2, <1>5, TotalMoves
<1>8. QED
  BY <1>3, <1>4, <1>6, <1>7

OwedBecomes(r, s) == owed' = [owed EXCEPT ![r] = s]
ReleasingBecomes(r, v) == releasing' = [releasing EXCEPT ![r] = v]

\* One thread gets or gives up groups to release.
LEMMA OwedChanges ==
  ASSUME PairTypes, NEW r \in Releasers, NEW s \in Seq(Groups), OwedBecomes(r, s), NEW g
  PROVE  OwedByAll(g)' = OwedByAll(g) - CountIn(owed[r], {g}) + CountIn(s, {g})
<1> DEFINE f == [q \in Releasers |-> CountIn(owed[q], {g})]
           h == [q \in Releasers |-> IF q = r THEN CountIn(s, {g}) ELSE CountIn(owed[q], {g})]
<1>1. f \in [Releasers -> Nat] /\ h \in [Releasers -> Nat]
  BY CountZero DEF PairTypes
<1>2. OwedByAll(g) = Total(f) /\ f[r] = CountIn(owed[r], {g}) /\ h[r] = CountIn(s, {g})
  BY DEF OwedByAll
<1>3. OwedByAll(g)' = Total(h)
  <2>1. \A q \in Releasers : owed'[q] = IF q = r THEN s ELSE owed[q]
    BY DEF OwedBecomes, PairTypes
  <2>2. [q \in Releasers |-> CountIn(owed'[q], {g})] = h
    BY <2>1
  <2>3. OwedByAll(g)' = Total([q \in Releasers |-> CountIn(owed'[q], {g})])
    BY Zenon DEF OwedByAll, Total, CountIn
  <2>4. QED
    BY <2>2, <2>3
<1>4. \A q \in Releasers \ {r} : h[q] = f[q]
  OBVIOUS
<1> HIDE DEF f, h
<1>5. Total(h) = Total(f) - f[r] + h[r]
  BY <1>1, <1>4, TotalMoves
<1>6. QED
  BY <1>2, <1>3, <1>5

\* One thread goes on in video_context_release.
LEMMA BetweenChanges ==
  ASSUME PairTypes, NEW r \in Releasers, NEW v, ReleasingBecomes(r, v), NEW g
  PROVE  BetweenAll(g)'
           = BetweenAll(g) - Between(r, g) + (IF v.at = "second" /\ v.group = g THEN 1 ELSE 0)
<1> DEFINE n == IF v.at = "second" /\ v.group = g THEN 1 ELSE 0
           f == [q \in Releasers |-> Between(q, g)]
           h == [q \in Releasers |-> IF q = r THEN n ELSE Between(q, g)]
<1>1. f \in [Releasers -> Nat] /\ h \in [Releasers -> Nat]
  BY DEF Between
<1>2. BetweenAll(g) = Total(f) /\ f[r] = Between(r, g) /\ h[r] = n
  BY DEF BetweenAll
<1>3. BetweenAll(g)' = Total(h)
  <2>1. \A q \in Releasers : releasing'[q] = IF q = r THEN v ELSE releasing[q]
    BY DEF ReleasingBecomes, PairTypes
  <2>2. \A q \in Releasers : Between(q, g)' = IF q = r THEN n ELSE Between(q, g)
    BY <2>1 DEF Between
  <2>3. [q \in Releasers |-> Between(q, g)'] = h
    BY <2>2
  <2>4. BetweenAll(g)' = Total([q \in Releasers |-> Between(q, g)'])
    BY Zenon DEF BetweenAll, Total
  <2>5. QED
    BY <2>3, <2>4
<1>4. \A q \in Releasers \ {r} : h[q] = f[q]
  OBVIOUS
<1> HIDE DEF f, h
<1>5. Total(h) = Total(f) - f[r] + h[r]
  BY <1>1, <1>4, TotalMoves
<1>6. QED
  BY <1>2, <1>3, <1>5

\* and stays in it, or comes out.
LEMMA TestChanges ==
  ASSUME PairTypes, NEW r \in Releasers, NEW v, ReleasingBecomes(r, v), NEW g
  PROVE  /\ ToTest(g)' <=> \/ v.at # "idle" /\ v.group = g
                           \/ \E q \in Releasers \ {r} : releasing[q].at # "idle" /\ releasing[q].group = g
         /\ releasing'[r] = v /\ \A q \in Releasers \ {r} : releasing'[q] = releasing[q]
<1>1. \A q \in Releasers : releasing'[q] = IF q = r THEN v ELSE releasing[q]
  BY DEF ReleasingBecomes, PairTypes
<1>2. QED
  BY <1>1 DEF ToTest

\* Capture goes on with its group.
LEMMA ShootingMoves ==
  ASSUME PairTypes, shooting.at # "idle", NEW at \in Shooting \cup HandingOut
  PROVE  /\ shooting.group \in Groups /\ shooting.at \in Shooting \cup HandingOut
         /\ [shooting EXCEPT !.at = at] = [at |-> at, group |-> shooting.group]
         /\ [at |-> at, group |-> shooting.group] \in [at : Shooting \cup HandingOut, group : Groups]
<1>1. shooting \in [at : Shooting \cup HandingOut, group : Groups]
  BY DEF PairTypes, Unoccupied
<1>2. QED
  BY <1>1

\* A list of groups gets one more, or three of the same.
LEMMA OwesLists ==
  ASSUME PairTypes, NEW r \in Releasers, NEW g \in Groups
  PROVE  /\ owed[r] \o <<g>> \in Seq(Groups)
         /\ \A h : CountIn(owed[r] \o <<g>>, {h}) = CountIn(owed[r], {h}) + (IF g = h THEN 1 ELSE 0)
         /\ owed[r] = <<>> =>
              /\ owed[r] \o [i \in 1 .. 3 |-> g] \in Seq(Groups)
              /\ \A h : CountIn(owed[r] \o [i \in 1 .. 3 |-> g], {h}) = IF g = h THEN 3 ELSE 0
              /\ \A i \in DOMAIN (owed[r] \o [k \in 1 .. 3 |-> g]) : (owed[r] \o [k \in 1 .. 3 |-> g])[i] = g
         /\ \A i \in DOMAIN (owed[r] \o <<g>>) :
              \/ (owed[r] \o <<g>>)[i] = g
              \/ i \in DOMAIN owed[r] /\ (owed[r] \o <<g>>)[i] = owed[r][i]
<1>1. owed[r] \in Seq(Groups)
  BY DEF PairTypes
<1>2. owed[r] \o <<g>> = Append(owed[r], g)
  BY <1>1
<1>3. Append(owed[r], g) \in Seq(Groups)
  BY <1>1
<1>4. \A h : CountIn(Append(owed[r], g), {h}) = CountIn(owed[r], {h}) + (IF g = h THEN 1 ELSE 0)
  <2>1. \A h : CountIn(Append(owed[r], g), {h}) = CountIn(owed[r], {h}) + (IF g \in {h} THEN 1 ELSE 0)
    BY <1>1, CountAppended
  <2>2. QED
    BY <2>1
<1>5. \A i \in DOMAIN Append(owed[r], g) :
        \/ Append(owed[r], g)[i] = g
        \/ i \in DOMAIN owed[r] /\ Append(owed[r], g)[i] = owed[r][i]
  BY <1>1
<1>6. ASSUME owed[r] = <<>>
      PROVE  LET s == owed[r] \o [i \in 1 .. 3 |-> g]
             IN  /\ s \in Seq(Groups) /\ \A i \in DOMAIN s : s[i] = g
                 /\ \A h : CountIn(s, {h}) = IF g = h THEN 3 ELSE 0
  <2> DEFINE t == [i \in 1 .. 3 |-> g]
  <2>1. t \in Seq(Groups)
    <3>1. t \in [1 .. 3 -> Groups] /\ 3 \in Nat
      OBVIOUS
    <3>2. QED
      BY <3>1
  <2>2. DOMAIN t = 1 .. 3 /\ \A i \in 1 .. 3 : t[i] = g
    OBVIOUS
  <2> HIDE DEF t
  <2>3. <<>> \o t = t
    BY <2>1
  <2>4. ASSUME NEW h PROVE CountIn(t, {h}) = IF g = h THEN 3 ELSE 0
    <3>1. CASE g = h
      <4>1. {i \in DOMAIN t : t[i] \in {h}} = 1 .. 3
        BY <2>2, <3>1
      <4>2. Cardinality(1 .. 3) = 3
        <5>1. \A a, b \in Int : a <= b => Cardinality(a .. b) = b - a + 1
          BY FS_Interval
        <5>2. 1 \in Int /\ 3 \in Int /\ 1 <= 3 /\ 3 - 1 + 1 = 3
          OBVIOUS
        <5>3. QED
          BY <5>1, <5>2, Zenon
      <4>3. QED
        BY <3>1, <4>1, <4>2 DEF CountIn
    <3>2. CASE g # h
      <4>1. {i \in DOMAIN t : t[i] \in {h}} = {}
        BY <2>2, <3>2
      <4>2. QED
        BY <3>2, <4>1, FS_EmptySet DEF CountIn
    <3>3. QED
      BY <3>1, <3>2
  <2>5. owed[r] \o t = t
    BY <1>6, <2>3
  <2>6. QED
    BY <2>1, <2>2, <2>4, <2>5 DEF t
<1>7. QED
  BY <1>2, <1>3, <1>4, <1>5, <1>6

\* A picture that is taken or released leaves the types of buffers as they are.
LEMMA PictureTypes ==
  ASSUME PairTypes, NEW c \in Cams, NEW b, NEW n \in Int
  PROVE  /\ [r_count EXCEPT ![c][b] = n] \in [Cams -> [Buffers -> Int]]
         /\ [r_count EXCEPT ![c][b] = @ - 1] \in [Cams -> [Buffers -> Int]]
         /\ [queued EXCEPT ![c] = @ \ {b}] \in [Cams -> SUBSET Buffers]
         /\ b \in Buffers => [queued EXCEPT ![c] = @ \cup {b}] \in [Cams -> SUBSET Buffers]
<1>1. r_count \in [Cams -> [Buffers -> Int]] /\ queued \in [Cams -> SUBSET Buffers]
  BY DEF PairTypes
<1>2. r_count[c] \in [Buffers -> Int] /\ queued[c] \in SUBSET Buffers
  BY <1>1
<1>3. [r_count[c] EXCEPT ![b] = n] \in [Buffers -> Int]
  BY <1>2
<1>4. [r_count[c] EXCEPT ![b] = @ - 1] \in [Buffers -> Int]
  <2>1. \A d \in Buffers : r_count[c][d] - 1 \in Int
    BY <1>2
  <2>2. QED
    BY <1>2, <2>1
<1>5. QED
  BY <1>1, <1>2, <1>3, <1>4

\* What each step changes of the samples of two cameras has its type.
LEMMA PairTypesKept == PairTypes /\ PairPictures /\ (PairsCapture \/ PairsRelease) => PairTypes'
<1> SUFFICES ASSUME PairTypes, PairPictures, PairsCapture \/ PairsRelease PROVE PairTypes'
  OBVIOUS
<1>0. /\ idle_groups \in Seq(Groups) /\ images \in [Groups -> [Cams -> Buffers \cup {NoBuffer}]]
      /\ queued \in [Cams -> SUBSET Buffers] /\ r_count \in [Cams -> [Buffers -> Int]]
      /\ pairs \in 0 .. MaxPairs /\ forgotten \in SUBSET Groups /\ raced \in BOOLEAN
      /\ shooting \in [at : Shooting \cup HandingOut, group : Groups] \cup {Unoccupied}
      /\ owed \in [Releasers -> Seq(Groups)]
      /\ releasing \in [Releasers -> [at : {"second", "test"}, group : Groups] \cup {Unoccupied}]
  BY DEF PairTypes
<1>a. MaxPairs \in Nat /\ {"first", "second", "count1", "count2"} \subseteq Shooting
      /\ {"ui", "net", "dsp"} \subseteq HandingOut /\ {1, 2} \subseteq Cams /\ "capture" \in Releasers
      /\ {"ui", "net", "dsp"} \subseteq Releasers
  BY TwoCamerasAssumption DEF Shooting, HandingOut, Cams, Releasers
<1>b. ASSUME shooting.at # "idle", NEW at \in Shooting \cup HandingOut, ShootingNext(at)
      PROVE  shooting' \in [at : Shooting \cup HandingOut, group : Groups] \cup {Unoccupied}
  BY <1>b, ShootingMoves DEF ShootingNext
<1>c. ASSUME NEW r \in Releasers, NEW s \in Seq(Groups), owed' = [owed EXCEPT ![r] = s]
      PROVE  owed' \in [Releasers -> Seq(Groups)]
  BY <1>0, <1>c
<1>d. shooting.at # "idle" => shooting.group \in Groups
  BY <1>0 DEF Unoccupied
<1>1. CASE PairProduce
  <2>1. Head(idle_groups) \in Groups /\ Tail(idle_groups) \in Seq(Groups)
    BY <1>0, <1>1, TailFacts DEF PairProduce
  <2>2. shooting' \in [at : Shooting \cup HandingOut, group : Groups] /\ idle_groups' \in Seq(Groups)
        /\ pairs' \in 0 .. MaxPairs
    BY <1>0, <1>1, <1>a, <2>1 DEF PairProduce
  <2>3. UNCHANGED <<images, r_count, queued, owed, releasing, forgotten, raced>>
    BY <1>1 DEF PairProduce
  <2>4. QED
    BY <1>0, <2>2, <2>3 DEF PairTypes
<1>2. ASSUME NEW b \in Buffers, PairFirst(b) \/ PairSecond(b) PROVE PairTypes'
  <2>1. PICK c \in Cams, at \in Shooting :
          /\ shooting.at # "idle" /\ ShootingNext(at)
          /\ queued' = [queued EXCEPT ![c] = @ \ {b}]
          /\ images' = [images EXCEPT ![shooting.group][c] = b]
    BY <1>2, <1>a DEF PairFirst, PairSecond, PairRequest, ShootingAt
  <2>2. images' \in [Groups -> [Cams -> Buffers \cup {NoBuffer}]]
    <3>1. [images[shooting.group] EXCEPT ![c] = b] \in [Cams -> Buffers \cup {NoBuffer}]
      BY <1>0, <1>d, <2>1
    <3>2. QED
      BY <1>0, <2>1, <3>1
  <2>3. queued' \in [Cams -> SUBSET Buffers]
    BY <2>1, PictureTypes
  <2>4. UNCHANGED <<idle_groups, r_count, owed, releasing, pairs, forgotten, raced>>
    BY <1>2 DEF PairFirst, PairSecond
  <2>5. shooting' \in [at : Shooting \cup HandingOut, group : Groups] \cup {Unoccupied}
    BY <1>b, <2>1
  <2>6. QED
    BY <1>0, <2>2, <2>3, <2>4, <2>5 DEF PairTypes
<1>3. CASE PairForget
  <2>1. images[shooting.group][1] \in Buffers /\ shooting.group \in Groups
    BY <1>3, <1>d DEF PairForget, ShootingAt, PairPictures, HasPicture
  <2>2. queued' \in [Cams -> SUBSET Buffers]
    BY <1>3, <1>a, <2>1, PictureTypes DEF PairForget
  <2>3. forgotten' \in SUBSET Groups /\ shooting' = Unoccupied
        /\ UNCHANGED <<idle_groups, images, r_count, owed, releasing, pairs, raced>>
    BY <1>0, <1>3, <2>1 DEF PairForget
  <2>4. QED
    BY <1>0, <2>2, <2>3 DEF PairTypes
<1>4. CASE PairCount1 \/ PairCount2
  <2>1. PICK c \in Cams, at \in Shooting \cup HandingOut :
          /\ shooting.at # "idle" /\ ShootingNext(at)
          /\ r_count' = [r_count EXCEPT ![c][images[shooting.group][c]] = 3]
    BY <1>4, <1>a DEF PairCount1, PairCount2, ShootingAt, CountThree
  <2>2. r_count' \in [Cams -> [Buffers -> Int]]
    <3>1. \A b : [r_count EXCEPT ![c][b] = 3] \in [Cams -> [Buffers -> Int]]
      <4>1. 3 \in Int
        OBVIOUS
      <4>2. QED
        BY <4>1, PictureTypes
    <3>2. QED
      BY <2>1, <3>1
  <2>3. raced' \in BOOLEAN
    BY <1>0, <1>4, Zenon DEF PairCount1, PairCount2, CountThree, Testing
  <2>4. UNCHANGED <<idle_groups, images, queued, owed, releasing, pairs, forgotten>>
    BY <1>4 DEF PairCount1, PairCount2, CountThree
  <2>5. shooting' \in [at : Shooting \cup HandingOut, group : Groups] \cup {Unoccupied}
    BY <1>b, <2>1
  <2>6. QED
    BY <1>0, <2>2, <2>3, <2>4, <2>5 DEF PairTypes
<1>5. CASE PairDrop \/ PairHandOut
  <2>1. shooting.at # "idle" /\ shooting.group \in Groups
        /\ UNCHANGED <<idle_groups, images, r_count, queued, releasing, pairs, forgotten, raced>>
    BY <1>5, <1>d DEF PairDrop, PairHandOut, ShootingAt
  <2>2. shooting' \in [at : Shooting \cup HandingOut, group : Groups] \cup {Unoccupied}
    <3>1. shooting' = Unoccupied \/ ShootingNext("net") \/ ShootingNext("dsp")
      BY <1>5 DEF PairDrop, PairHandOut
    <3>2. QED
      BY <1>a, <1>b, <2>1, <3>1
  <2>3. owed' \in [Releasers -> Seq(Groups)]
    <3>1. CASE PairDrop
      <4>1. owed["capture"] = <<>> /\ owed' = [owed EXCEPT !["capture"] = @ \o [i \in 1 .. 3 |-> shooting.group]]
        BY <3>1 DEF PairDrop, ShootingAt, Owes
      <4>2. owed["capture"] \o [i \in 1 .. 3 |-> shooting.group] \in Seq(Groups)
        BY <1>a, <2>1, <4>1, OwesLists
      <4>3. QED
        BY <1>a, <1>c, <4>1, <4>2
    <3>2. CASE PairHandOut
      <4>1. PICK r \in Releasers : owed' = [owed EXCEPT ![r] = @ \o <<shooting.group>>]
        BY <1>a, <3>2 DEF PairHandOut, Owes
      <4>2. owed[r] \o <<shooting.group>> \in Seq(Groups)
        BY <2>1, OwesLists
      <4>3. QED
        BY <1>c, <4>1, <4>2
    <3>3. QED
      BY <1>5, <3>1, <3>2
  <2>4. QED
    BY <1>0, <2>1, <2>2, <2>3 DEF PairTypes
<1>6. ASSUME NEW r \in Releasers, ReleaseFirst(r) PROVE PairTypes'
  <2> DEFINE g == Head(owed[r])
  <2>1. /\ owed[r] \in Seq(Groups) /\ owed[r] # <<>> /\ g \in Groups /\ Tail(owed[r]) \in Seq(Groups)
        /\ 1 \in DOMAIN owed[r] /\ g = owed[r][1]
    BY <1>0, <1>6, TailFacts DEF ReleaseFirst
  <2>2. HasPicture(1, g)
    BY <1>a, <2>1 DEF PairPictures
  <2>3. /\ r_count' = [r_count EXCEPT ![1][images[g][1]] = @ - 1]
        /\ queued' = queued \/ queued' = [queued EXCEPT ![1] = @ \cup {images[g][1]}]
        /\ owed' = [owed EXCEPT ![r] = Tail(owed[r])]
        /\ releasing' = [releasing EXCEPT ![r] = [at |-> "second", group |-> g]]
        /\ UNCHANGED <<idle_groups, images, shooting, pairs, forgotten, raced>>
    BY <1>6 DEF ReleaseFirst, ReleasePicture
  <2> HIDE DEF g
  <2>4. r_count' \in [Cams -> [Buffers -> Int]] /\ queued' \in [Cams -> SUBSET Buffers]
    <3> DEFINE b == images[g][1]
    <3>1. b \in Buffers /\ 1 \in Cams /\ 0 \in Int
      BY <1>a, <2>2 DEF HasPicture
    <3>2. /\ [r_count EXCEPT ![1][b] = @ - 1] \in [Cams -> [Buffers -> Int]]
          /\ [queued EXCEPT ![1] = @ \cup {b}] \in [Cams -> SUBSET Buffers]
      BY <3>1, PictureTypes
    <3>3. QED
      BY <1>0, <2>3, <3>2
  <2>5. owed' \in [Releasers -> Seq(Groups)]
    BY <1>c, <2>1, <2>3
  <2>6. releasing' \in [Releasers -> [at : {"second", "test"}, group : Groups] \cup {Unoccupied}]
    BY <1>0, <2>1, <2>3
  <2>7. QED
    BY <1>0, <2>3, <2>4, <2>5, <2>6 DEF PairTypes
<1>7. ASSUME NEW r \in Releasers, ReleaseSecond(r) PROVE PairTypes'
  <2> DEFINE g == releasing[r].group
  <2>1. releasing[r] \in [at : {"second", "test"}, group : Groups] /\ releasing[r].at # "idle"
    BY <1>0, <1>7 DEF ReleaseSecond, Unoccupied
  <2>2. HasPicture(2, g)
    BY <1>a, <2>1 DEF PairPictures
  <2>3. /\ r_count' = [r_count EXCEPT ![2][images[g][2]] = @ - 1]
        /\ queued' = queued \/ queued' = [queued EXCEPT ![2] = @ \cup {images[g][2]}]
        /\ releasing' = [releasing EXCEPT ![r].at = "test"]
        /\ UNCHANGED <<idle_groups, images, shooting, owed, pairs, forgotten>>
    BY <1>7 DEF ReleaseSecond, ReleasePicture
  <2> HIDE DEF g
  <2>4. r_count' \in [Cams -> [Buffers -> Int]] /\ queued' \in [Cams -> SUBSET Buffers]
    <3> DEFINE b == images[g][2]
    <3>1. b \in Buffers /\ 2 \in Cams /\ 0 \in Int
      BY <1>a, <2>2 DEF HasPicture
    <3>2. /\ [r_count EXCEPT ![2][b] = @ - 1] \in [Cams -> [Buffers -> Int]]
          /\ [queued EXCEPT ![2] = @ \cup {b}] \in [Cams -> SUBSET Buffers]
      BY <3>1, PictureTypes
    <3>3. QED
      BY <1>0, <2>3, <3>2
  <2>5. releasing' \in [Releasers -> [at : {"second", "test"}, group : Groups] \cup {Unoccupied}]
    <3>1. [releasing[r] EXCEPT !.at = "test"] \in [at : {"second", "test"}, group : Groups]
      BY <2>1
    <3>2. QED
      BY <1>0, <2>3, <3>1
  <2>6. raced' \in BOOLEAN
    BY <1>0, <1>7, Zenon DEF ReleaseSecond
  <2>7. QED
    BY <1>0, <2>3, <2>4, <2>5, <2>6 DEF PairTypes
<1>8. ASSUME NEW r \in Releasers, RecycleGroup(r) PROVE PairTypes'
  <2>1. releasing[r].group \in Groups
    BY <1>0, <1>8 DEF RecycleGroup, Unoccupied
  <2>2. idle_groups' = idle_groups \/ idle_groups' = Append(idle_groups, releasing[r].group)
    BY <1>8 DEF RecycleGroup
  <2>3. idle_groups' \in Seq(Groups)
    <3>1. Append(idle_groups, releasing[r].group) \in Seq(Groups)
      BY <1>0, <2>1
    <3>2. QED
      BY <1>0, <2>2, <3>1
  <2>4. releasing' \in [Releasers -> [at : {"second", "test"}, group : Groups] \cup {Unoccupied}]
    BY <1>0, <1>8 DEF RecycleGroup
  <2>5. UNCHANGED <<images, r_count, queued, shooting, owed, pairs, forgotten, raced>>
    BY <1>8 DEF RecycleGroup
  <2>6. QED
    BY <1>0, <2>3, <2>4, <2>5 DEF PairTypes
<1>9. QED
  BY <1>1, <1>2, <1>3, <1>4, <1>5, <1>6, <1>7, <1>8 DEF PairsCapture, PairsRelease

\* Pictures are only exchanged for others, and a group is handed out when it has both.
LEMMA PairPicturesKept ==
  PairTypes /\ PairPictures /\ (PairsCapture \/ PairsRelease) => PairPictures'
<1> SUFFICES ASSUME PairTypes, PairPictures, PairsCapture \/ PairsRelease PROVE PairPictures'
  OBVIOUS
<1> DEFINE S == shooting.group
<1>0. /\ images \in [Groups -> [Cams -> Buffers \cup {NoBuffer}]]
      /\ shooting \in [at : Shooting \cup HandingOut, group : Groups] \cup {Unoccupied}
      /\ owed \in [Releasers -> Seq(Groups)]
      /\ releasing \in [Releasers -> [at : {"second", "test"}, group : Groups] \cup {Unoccupied}]
  BY DEF PairTypes
<1>a. /\ Cams = {1, 2} /\ "capture" \in Releasers /\ HandingOut = {"ui", "net", "dsp"}
      /\ {"ui", "net", "dsp"} \subseteq Releasers /\ Unoccupied.at = "idle"
  BY DEF Cams, Releasers, HandingOut, Unoccupied
<1>b. shooting.at # "idle" => S \in Groups
  BY <1>0 DEF Unoccupied
<1>c. ASSUME shooting.at # "idle", NEW at \in Shooting \cup HandingOut, ShootingNext(at)
      PROVE  shooting'.at = at /\ shooting'.group = S
  BY <1>c, ShootingMoves DEF ShootingNext
<1>d. /\ shooting.at \in {"second", "count1", "count2", "ui", "net", "dsp"} => HasPicture(1, S)
      /\ shooting.at \in {"count1", "count2", "ui", "net", "dsp"} => HasPicture(2, S)
      /\ \A r \in Releasers, c \in Cams :
           /\ releasing[r].at # "idle" => HasPicture(c, releasing[r].group)
           /\ \A i \in DOMAIN owed[r] : HasPicture(c, owed[r][i])
  BY <1>a DEF PairPictures
<1>e. ASSUME /\ shooting'.at \in {"second", "count1", "count2", "ui", "net", "dsp"}
                  => HasPicture(1, shooting.group)'
             /\ shooting'.at \in {"count1", "count2", "ui", "net", "dsp"}
                  => HasPicture(2, shooting.group)',
             \A r \in Releasers, c \in Cams :
               /\ releasing'[r].at # "idle" => images'[releasing'[r].group][c] \in Buffers
               /\ \A i \in DOMAIN owed'[r] : images'[owed'[r][i]][c] \in Buffers
      PROVE  PairPictures'
  BY <1>a, <1>e DEF PairPictures, HasPicture
<1>1. CASE PairProduce
  <2>1. shooting'.at = "first" /\ UNCHANGED <<images, owed, releasing>>
    BY <1>1 DEF PairProduce
  <2>2. QED
    BY <1>d, <1>e, <2>1 DEF HasPicture
<1>2. ASSUME NEW b \in Buffers, PairFirst(b) \/ PairSecond(b) PROVE PairPictures'
  <2>1. PICK k \in Cams :
          /\ shooting.at = (IF k = 1 THEN "first" ELSE "second")
          /\ ShootingNext(IF k = 1 THEN "second" ELSE "count1")
          /\ images' = [images EXCEPT ![S][k] = b]
          /\ UNCHANGED <<owed, releasing>>
    BY <1>2, <1>a DEF PairFirst, PairSecond, PairRequest, ShootingAt
  <2>2. /\ S \in Groups /\ shooting.at # "idle" /\ shooting'.group = S
        /\ shooting'.at = IF k = 1 THEN "second" ELSE "count1"
    <3>1. shooting.at # "idle" /\ (IF k = 1 THEN "second" ELSE "count1") \in Shooting \cup HandingOut
      BY <2>1 DEF Shooting
    <3>2. QED
      BY <1>b, <1>c, <2>1, <3>1
  <2>3. images'[S][k] = b /\ \A g \in Groups, c \in Cams :
          images'[g][c] = IF g = S /\ c = k THEN b ELSE images[g][c]
    BY <1>0, <2>1, <2>2
  <2>4. \A r \in Releasers, c \in Cams :
          /\ releasing[r].at # "idle" => images'[releasing[r].group][c] \in Buffers
          /\ \A i \in DOMAIN owed[r] : images'[owed[r][i]][c] \in Buffers
    <3>1. \A r \in Releasers : releasing[r].at # "idle" => releasing[r].group \in Groups
      BY <1>0 DEF Unoccupied
    <3>2. \A r \in Releasers : \A i \in DOMAIN owed[r] : owed[r][i] \in Groups
      BY <1>0
    <3>3. QED
      BY <1>d, <2>3, <3>1, <3>2 DEF HasPicture
  <2>5. QED
    BY <1>a, <1>d, <1>e, <2>1, <2>2, <2>3, <2>4 DEF HasPicture
<1>3. CASE PairForget
  <2>1. shooting'.at = "idle" /\ UNCHANGED <<images, owed, releasing>>
    BY <1>3, <1>a DEF PairForget
  <2>2. QED
    BY <1>d, <1>e, <2>1 DEF HasPicture
<1>4. CASE PairCount1 \/ PairCount2
  <2>1. /\ shooting.at \in {"count1", "count2"}
        /\ ShootingNext("count2") \/ ShootingNext("ui")
        /\ UNCHANGED <<images, owed, releasing>>
    BY <1>4 DEF PairCount1, PairCount2, ShootingAt, CountThree
  <2>2. shooting'.group = S
    <3>1. {"count2", "ui"} \subseteq Shooting \cup HandingOut
      BY DEF Shooting, HandingOut
    <3>2. QED
      BY <1>c, <2>1, <3>1
  <2>3. QED
    BY <1>d, <1>e, <2>1, <2>2 DEF HasPicture
<1>5. CASE PairDrop \/ PairHandOut
  <2>1. /\ shooting.at \in {"ui", "net", "dsp"} /\ S \in Groups
        /\ shooting'.at = "idle" \/ ShootingNext("net") \/ ShootingNext("dsp")
        /\ UNCHANGED <<images, releasing>>
    BY <1>5, <1>a, <1>b DEF PairDrop, PairHandOut, ShootingAt
  <2>2. shooting'.at = "idle" \/ shooting'.group = S
    <3>1. {"net", "dsp"} \subseteq Shooting \cup HandingOut
      BY DEF HandingOut
    <3>2. QED
      BY <1>c, <2>1, <3>1
  <2>3. ASSUME NEW r \in Releasers, NEW i \in DOMAIN owed'[r]
        PROVE  owed'[r][i] = S \/ (i \in DOMAIN owed[r] /\ owed'[r][i] = owed[r][i])
    <3>1. CASE PairDrop
      <4>1. owed["capture"] = <<>>
            /\ owed' = [owed EXCEPT !["capture"] = @ \o [k \in 1 .. 3 |-> S]]
        BY <3>1 DEF PairDrop, ShootingAt, Owes
      <4>2. \A k \in DOMAIN (owed["capture"] \o [n \in 1 .. 3 |-> S]) :
              (owed["capture"] \o [n \in 1 .. 3 |-> S])[k] = S
        BY <1>a, <2>1, <4>1, OwesLists
      <4>3. r # "capture" => owed'[r] = owed[r]
        BY <1>0, <4>1
      <4>4. owed'["capture"] = owed["capture"] \o [k \in 1 .. 3 |-> S]
        BY <1>0, <1>a, <4>1
      <4>5. QED
        BY <2>3, <4>2, <4>3, <4>4
    <3>2. CASE PairHandOut
      <4>1. PICK q \in Releasers : owed' = [owed EXCEPT ![q] = @ \o <<S>>]
        BY <1>a, <3>2 DEF PairHandOut, Owes
      <4>2. \A k \in DOMAIN (owed[q] \o <<S>>) :
              \/ (owed[q] \o <<S>>)[k] = S
              \/ k \in DOMAIN owed[q] /\ (owed[q] \o <<S>>)[k] = owed[q][k]
        BY <2>1, OwesLists
      <4>3. r # q => owed'[r] = owed[r]
        BY <1>0, <4>1
      <4>4. owed'[q] = owed[q] \o <<S>>
        BY <1>0, <4>1
      <4>5. QED
        BY <2>3, <4>2, <4>3, <4>4
    <3>3. QED
      BY <1>5, <3>1, <3>2
  <2>4. QED
    BY <1>a, <1>d, <1>e, <2>1, <2>2, <2>3 DEF HasPicture
<1>6. ASSUME NEW r \in Releasers, ReleaseFirst(r) PROVE PairPictures'
  <2>1. /\ owed[r] \in Seq(Groups) /\ owed[r] # <<>> /\ 1 \in DOMAIN owed[r]
        /\ Head(owed[r]) = owed[r][1]
        /\ \A i \in DOMAIN Tail(owed[r]) : i + 1 \in DOMAIN owed[r] /\ Tail(owed[r])[i] = owed[r][i + 1]
    BY <1>0, <1>6 DEF ReleaseFirst
  <2>2. /\ owed' = [owed EXCEPT ![r] = Tail(owed[r])]
        /\ releasing' = [releasing EXCEPT ![r] = [at |-> "second", group |-> Head(owed[r])]]
        /\ UNCHANGED <<images, shooting>>
    BY <1>6 DEF ReleaseFirst
  <2>3. \A q \in Releasers : owed'[q] = IF q = r THEN Tail(owed[r]) ELSE owed[q]
    BY <1>0, <2>2
  <2>4. \A q \in Releasers :
          releasing'[q] = IF q = r THEN [at |-> "second", group |-> owed[r][1]] ELSE releasing[q]
    BY <1>0, <2>1, <2>2
  <2>5. \A q \in Releasers, c \in Cams :
          releasing'[q].at # "idle" => images[releasing'[q].group][c] \in Buffers
    BY <1>d, <2>1, <2>4 DEF HasPicture
  <2>6. \A q \in Releasers, c \in Cams : \A i \in DOMAIN owed'[q] : images[owed'[q][i]][c] \in Buffers
    <3> SUFFICES ASSUME NEW q \in Releasers, NEW c \in Cams, NEW i \in DOMAIN owed'[q]
                 PROVE  images[owed'[q][i]][c] \in Buffers
      OBVIOUS
    <3>1. \E k \in DOMAIN owed[q] : owed'[q][i] = owed[q][k]
      <4>1. CASE q = r
        <5>1. owed'[q] = Tail(owed[r])
          BY <2>3, <4>1
        <5>2. QED
          BY <2>1, <4>1, <5>1
      <4>2. CASE q # r
        BY <2>3, <4>2
      <4>3. QED
        BY <4>1, <4>2
    <3>2. QED
      BY <1>d, <3>1 DEF HasPicture
  <2>7. images' = images /\ shooting' = shooting
    BY <2>2
  <2>8. QED
    BY <1>d, <1>e, <2>5, <2>6, <2>7 DEF HasPicture
<1>7. ASSUME NEW r \in Releasers, ReleaseSecond(r) \/ RecycleGroup(r) PROVE PairPictures'
  <2>1. UNCHANGED <<images, shooting, owed>>
    BY <1>7 DEF ReleaseSecond, RecycleGroup
  <2>2. \A q \in Releasers :
          releasing'[q].at # "idle" => /\ releasing[q].at # "idle"
                                       /\ releasing'[q].group = releasing[q].group
    <3>1. CASE RecycleGroup(r)
      BY <1>0, <1>a, <3>1 DEF RecycleGroup
    <3>2. CASE ReleaseSecond(r)
      BY <1>0, <3>2 DEF ReleaseSecond, Unoccupied
    <3>3. QED
      BY <1>7, <3>1, <3>2
  <2>3. QED
    BY <1>d, <1>e, <2>1, <2>2 DEF HasPicture
<1>8. QED
  BY <1>1, <1>2, <1>3, <1>4, <1>5, <1>6, <1>7 DEF PairsCapture, PairsRelease

PicturesOf(pic, qd, rc, rf, rq, tt) ==
  /\ qd \in SUBSET Buffers /\ rc \in [Buffers -> Int] /\ rf \in [Groups -> Nat]
  /\ rq \in SUBSET Groups /\ tt \in SUBSET Groups
  /\ \A g \in Groups : g \in rq \/ g \in tt \/ rf[g] > 0 => pic[g] \in Buffers

\* A buffer is taken from the driver's queue for a group nobody refers to.
LEMMA TakenCounted ==
  ASSUME NEW pic \in [Groups -> Buffers \cup {NoBuffer}], NEW qd, NEW rc, NEW rf, NEW rq, NEW tt,
         Counted(pic, qd, rc, rf, rq, tt), PicturesOf(pic, qd, rc, rf, rq, tt),
         NEW g \in Groups, NEW b \in qd, rf[g] = 0, g \notin tt
  PROVE  Counted([pic EXCEPT ![g] = b], qd \ {b}, rc, rf, rq \cup {g}, tt)
<1> DEFINE p == [pic EXCEPT ![g] = b]
<1>1. p[g] = b /\ \A h \in Groups \ {g} : p[h] = pic[h]
  OBVIOUS
<1> HIDE DEF p
<1>2. QED
  BY <1>1 DEF Counted, PicturesOf

\* It is counted when nobody still looks at its last count.
LEMMA ThreeCounted ==
  ASSUME NEW pic, NEW qd, NEW rc, NEW rf, NEW rq, NEW tt,
         Counted(pic, qd, rc, rf, rq, tt), PicturesOf(pic, qd, rc, rf, rq, tt),
         NEW g \in rq, rf[g] = 0, g \notin tt, \A h \in tt : pic[h] # pic[g]
  PROVE  Counted(pic, qd, [rc EXCEPT ![pic[g]] = 3], [rf EXCEPT ![g] = 3], rq \ {g}, tt)
<1> DEFINE r == [rc EXCEPT ![pic[g]] = 3]
           f == [rf EXCEPT ![g] = 3]
<1>1. r[pic[g]] = 3 /\ (\A b \in Buffers \ {pic[g]} : r[b] = rc[b]) /\ pic[g] \in Buffers /\ g \in Groups
  BY DEF PicturesOf
<1>2. f[g] = 3 /\ \A h \in Groups \ {g} : f[h] = rf[h]
  BY <1>1 DEF PicturesOf
<1> HIDE DEF r, f
<1>3. QED
  BY <1>1, <1>2 DEF Counted, PicturesOf

\* It goes back as it was taken.
LEMMA ForgottenCounted ==
  ASSUME NEW pic, NEW qd, NEW rc, NEW rf, NEW rq, NEW tt,
         Counted(pic, qd, rc, rf, rq, tt), PicturesOf(pic, qd, rc, rf, rq, tt),
         NEW g \in rq, rf[g] = 0
  PROVE  Counted(pic, qd \cup {pic[g]}, rc, rf, rq \ {g}, tt)
BY DEF Counted, PicturesOf

\* One reference is given up; the last one takes the picture back to the camera.
LEMMA ReleasedCounted ==
  ASSUME NEW pic, NEW qd, NEW rc, NEW rf, NEW rq, NEW tt,
         Counted(pic, qd, rc, rf, rq, tt), PicturesOf(pic, qd, rc, rf, rq, tt),
         NEW g \in Groups, rf[g] > 0, g \notin rq
  PROVE  Counted(pic, IF rc[pic[g]] = 1 THEN qd \cup {pic[g]} ELSE qd,
                 [rc EXCEPT ![pic[g]] = @ - 1], [rf EXCEPT ![g] = @ - 1], rq, tt \cup {g})
<1> DEFINE r == [rc EXCEPT ![pic[g]] = @ - 1]
           f == [rf EXCEPT ![g] = @ - 1]
           q == IF rc[pic[g]] = 1 THEN qd \cup {pic[g]} ELSE qd
<1>0. rf \in [Groups -> Nat] /\ rf[g] \in Nat /\ rc \in [Buffers -> Int] /\ pic[g] \in Buffers
  BY DEF PicturesOf
<1>1. rc[pic[g]] = rf[g]
  BY DEF Counted
<1>2. /\ r[pic[g]] = rf[g] - 1 /\ (\A b \in Buffers \ {pic[g]} : r[b] = rc[b])
      /\ f[g] = rf[g] - 1 /\ \A h \in Groups \ {g} : f[h] = rf[h]
  BY <1>0, <1>1
<1>3. q = IF rf[g] = 1 THEN qd \cup {pic[g]} ELSE qd
  BY <1>1
<1> HIDE DEF r, f, q
<1>4. \A h \in Groups : (rf[h] > 0 \/ h \in tt \/ h \in rq) /\ h # g => pic[h] # pic[g] /\ pic[h] \in Buffers
  <2>1. ASSUME NEW h \in Groups, h # g, rf[h] > 0 \/ h \in rq PROVE pic[h] # pic[g] /\ pic[h] \in Buffers
    BY <2>1 DEF Counted, PicturesOf
  <2>2. ASSUME NEW h \in Groups, h # g, h \in tt PROVE pic[h] # pic[g] /\ pic[h] \in Buffers
    <3>1. pic[h] \in Buffers /\ rc[pic[h]] = rf[h] /\ rf[h] \in Nat
      BY <1>0, <2>2 DEF Counted, PicturesOf
    <3>2. QED
      BY <1>0, <1>1, <2>1, <2>2, <3>1
  <2>3. QED
    BY <2>1, <2>2
<1>5. \A b \in q : r[b] = 0
  BY <1>0, <1>1, <1>2, <1>3 DEF Counted, PicturesOf
<1>6. \A h \in Groups : h \in rq \/ f[h] > 0 => pic[h] \notin q
  BY <1>0, <1>2, <1>3, <1>4 DEF Counted
<1>7. \A h, k \in Groups : (h \in rq \/ f[h] > 0) /\ (k \in rq \/ f[k] > 0) /\ h # k => pic[h] # pic[k]
  BY <1>0, <1>2 DEF Counted
<1>8. \A h \in rq : r[pic[h]] = 0
  BY <1>2, <1>4 DEF Counted, PicturesOf
<1>9. \A h \in Groups : f[h] > 0 \/ h \in tt \cup {g} => r[pic[h]] = f[h]
  BY <1>0, <1>2, <1>4 DEF Counted, PicturesOf
<1>10. \A b \in Buffers : r[b] \in 0 .. 3
  <2>1. \A b \in Buffers : rc[b] \in 0 .. 3
    BY DEF Counted
  <2>2. rf[g] - 1 \in 0 .. 3
    BY <1>0, <1>1, <2>1
  <2>3. QED
    BY <1>2, <2>1, <2>2
<1>11. QED
  BY <1>5, <1>6, <1>7, <1>8, <1>9, <1>10 DEF Counted, r, f, q

\* A group to which somebody refers may be tested; others need not be.
LEMMA TestedCounted ==
  ASSUME NEW pic, NEW qd, NEW rc, NEW rf, NEW rq, NEW tt, NEW t,
         Counted(pic, qd, rc, rf, rq, tt), \A g \in t : g \in tt \/ rf[g] > 0, t \subseteq Groups
  PROVE  Counted(pic, qd, rc, rf, rq, t)
BY DEF Counted

\* What is referred to has a picture, and it is known which.
LEMMA PictureFacts ==
  ASSUME PairTypes, PairPictures, NEW c \in Cams
  PROVE  /\ PicturesOf(Pictures(c), queued[c], r_count[c], Refs(c), Requests(c), Tested)
         /\ Pictures(c) \in [Groups -> Buffers \cup {NoBuffer}]
         /\ \A g \in Groups : References(c, g) \in Nat /\ Left(c, g) \in Nat
<1>1. \A g : Left(c, g) \in Nat
  BY DEF Left, LeftAt
<1>2. \A g : OwedByAll(g) \in Nat /\ BetweenAll(g) \in Nat
  BY PairSums
<1>3. \A g : References(c, g) \in Nat
  BY <1>1, <1>2 DEF References
<1>4. Refs(c) \in [Groups -> Nat] /\ \A g \in Groups : Refs(c)[g] = References(c, g)
  BY <1>3 DEF Refs
<1>5. Requests(c) \in SUBSET Groups /\ Tested \in SUBSET Groups
  BY DEF Requests, Tested
<1>6. Pictures(c) \in [Groups -> Buffers \cup {NoBuffer}] /\ \A g \in Groups : Pictures(c)[g] = images[g][c]
  BY DEF Pictures, PairTypes
<1>7. queued[c] \in SUBSET Buffers /\ r_count[c] \in [Buffers -> Int]
  BY DEF PairTypes
<1>8. ASSUME NEW g \in Groups, g \in Requests(c) \/ g \in Tested PROVE HasPicture(c, g)
  <2>1. CASE g \in Requests(c)
    BY <2>1 DEF Requests, PairPictures, Cams
  <2>2. CASE g \in Tested
    BY <2>2 DEF Tested, ToTest, PairPictures
  <2>3. QED
    BY <1>8, <2>1, <2>2
<1>9. ASSUME NEW g \in Groups, References(c, g) > 0 PROVE HasPicture(c, g)
  <2>1. Left(c, g) > 0 \/ OwedByAll(g) # 0 \/ BetweenAll(g) # 0
    BY <1>1, <1>2, <1>9 DEF References
  <2>2. CASE Left(c, g) > 0
    BY <2>2 DEF Left, LeftAt, PairPictures, HandingOut, Cams
  <2>3. CASE OwedByAll(g) # 0
    <3>1. PICK r \in Releasers : CountIn(owed[r], {g}) # 0
      BY <2>3, PairSums
    <3>2. owed[r] \in Seq(Groups)
      BY DEF PairTypes
    <3>3. \E i \in DOMAIN owed[r] : owed[r][i] = g
      BY <3>1, <3>2, CountZero
    <3>4. QED
      BY <3>3 DEF PairPictures
  <2>4. CASE BetweenAll(g) # 0
    <3>1. PICK r \in Releasers : Between(r, g) # 0
      BY <2>4, PairSums
    <3>2. releasing[r].at = "second" /\ releasing[r].group = g
      BY <3>1 DEF Between
    <3>3. QED
      BY <3>2 DEF PairPictures
  <2>5. QED
    BY <2>1, <2>2, <2>3, <2>4
<1>10. QED
  BY <1>1, <1>3, <1>4, <1>5, <1>6, <1>7, <1>8, <1>9 DEF PicturesOf, HasPicture

\* A group that is being filled is not referred to.
LEMMA FilledAlone ==
  ASSUME PairTypes, GroupTurns, shooting.at \in Shooting
  PROVE  /\ OwedByAll(shooting.group) = 0 /\ ~ToTest(shooting.group)
         /\ BetweenAll(shooting.group) = 0 /\ shooting.group \in Groups
<1>1. shooting.group \in Groups
  BY DEF PairTypes, Unoccupied, Shooting
<1>2. OwedByAll(shooting.group) = 0 /\ ~ToTest(shooting.group)
  BY DEF GroupTurns
<1>3. \A r \in Releasers : Between(r, shooting.group) = 0
  BY <1>2 DEF ToTest, Between
<1>4. QED
  BY <1>1, <1>2, <1>3, PairSums

\* Capture takes the first group of the pool, which nobody refers to.
LEMMA ProduceSafe ==
  ASSUME PairTypes, PairSafe, PairProduce
  PROVE  PairSafe'
<1> DEFINE h == Head(idle_groups)
<1>1. /\ idle_groups \in Seq(Groups) /\ idle_groups # <<>> /\ h \in Groups
      /\ shooting.at = "idle" /\ shooting'.at = "first" /\ shooting'.group = h
      /\ idle_groups' = Tail(idle_groups)
      /\ UNCHANGED <<images, r_count, queued, owed, releasing, forgotten>>
  BY DEF PairTypes, PairProduce, ShootingAt
<1>2. /\ \A g : OwedByAll(g)' = OwedByAll(g) /\ BetweenAll(g)' = BetweenAll(g) /\ ToTest(g)' = ToTest(g)
      /\ \A c \in Cams, g \in Groups : Left(c, g) = 0 /\ Left(c, g)' = 0
      /\ \A c \in Cams : Requests(c) = {} /\ Requests(c)' = {}
  <2>1. \A g : OwedByAll(g)' = OwedByAll(g) /\ BetweenAll(g)' = BetweenAll(g) /\ ToTest(g)' = ToTest(g)
    BY <1>1 DEF OwedByAll, BetweenAll, Between, ToTest
  <2>2. \A c \in Cams, g \in Groups : Left(c, g) = 0 /\ Left(c, g)' = 0
    BY <1>1 DEF Left, LeftAt
  <2>3. \A c \in Cams : Requests(c) = {} /\ Requests(c)' = {}
    BY <1>1 DEF Requests
  <2>4. QED
    BY <2>1, <2>2, <2>3
<1>3. \A c \in Cams, g \in Groups : References(c, g)' = References(c, g)
  BY <1>2 DEF References
<1>4. PictureCounts'
  <2>1. \A c \in Cams : Refs(c)' = Refs(c)
    BY <1>3 DEF Refs
  <2>2. Tested' = Tested
    BY <1>2 DEF Tested
  <2>3. \A c \in Cams : Pictures(c)' = Pictures(c) /\ queued'[c] = queued[c] /\ r_count'[c] = r_count[c]
    BY <1>1 DEF Pictures
  <2>4. ASSUME NEW c \in Cams
        PROVE  Counted(Pictures(c)', queued'[c], r_count'[c], Refs(c)', Requests(c)', Tested')
    <3>1. Counted(Pictures(c), queued[c], r_count[c], Refs(c), Requests(c), Tested)
      BY DEF PairSafe, PictureCounts
    <3>2. QED
      BY <1>2, <2>1, <2>2, <2>3, <3>1
  <2>5. QED
    BY <2>4 DEF PictureCounts
<1>5. CountIn(idle_groups, {h}) > 0
  <2>1. 1 \in DOMAIN idle_groups /\ idle_groups[1] \in {h}
    BY <1>1
  <2>2. QED
    BY <1>1, <2>1, CountType
<1>6. ~Busily(h)
  <2>1. CountIn(idle_groups, {h}) + (IF Busily(h) THEN 1 ELSE 0) + (IF h \in forgotten THEN 1 ELSE 0) = 1
    BY <1>1 DEF PairSafe, GroupPlaces
  <2>2. CountIn(idle_groups, {h}) \in Nat
    BY <1>1, CountZero
  <2>3. QED
    BY <1>5, <2>1, <2>2
<1>7. OwedByAll(h) = 0 /\ ~ToTest(h)
  <2>1. OwedByAll(h) \in Nat
    BY PairSums
  <2>2. QED
    BY <1>6, <2>1 DEF Busily
<1> HIDE DEF h
<1>8. GroupTurns'
  <2>1. shooting'.at \in Shooting => OwedByAll(shooting.group)' = 0 /\ ~ToTest(shooting.group)'
    BY <1>1, <1>2, <1>7 DEF OwedByAll, ToTest, Shooting
  <2>2. \A g \in Groups : References(2, g)' = 0 =>
          \A q, r \in Releasers :
            releasing'[q] = [at |-> "test", group |-> g] /\ releasing'[r] = [at |-> "test", group |-> g] => q = r
    BY <1>1, <1>3 DEF PairSafe, GroupTurns, Cams
  <2>3. QED
    BY <2>1, <2>2 DEF GroupTurns
<1>9. GroupPlaces'
  <2>1. ASSUME NEW g \in Groups
        PROVE  CountIn(idle_groups', {g}) + (IF Busily(g)' THEN 1 ELSE 0)
                 + (IF g \in forgotten' THEN 1 ELSE 0) = 1
    <3>1. CountIn(idle_groups, {g}) = CountIn(idle_groups', {g}) + (IF h \in {g} THEN 1 ELSE 0)
      BY <1>1, CountTail DEF h
    <3>2. Busily(g)' <=> (Busily(g) \/ g = h)
      BY <1>1, <1>2 DEF Busily
    <3>3. CountIn(idle_groups, {g}) + (IF Busily(g) THEN 1 ELSE 0) + (IF g \in forgotten THEN 1 ELSE 0) = 1
      BY DEF PairSafe, GroupPlaces
    <3>4. idle_groups' \in Seq(Groups) /\ forgotten' = forgotten
      BY <1>1
    <3>5. CountIn(idle_groups', {g}) \in Nat
      BY <3>4, CountZero
    <3>6. QED
      BY <1>6, <3>1, <3>2, <3>3, <3>4, <3>5
  <2>2. QED
    BY <2>1 DEF GroupPlaces, CountIn
<1>10. QED
  BY <1>4, <1>8, <1>9 DEF PairSafe

SameOwners == owed' = owed /\ releasing' = releasing

\* Capture alone changes nothing of what the releasing threads have.
LEMMA OwnersStay ==
  ASSUME SameOwners
  PROVE  /\ \A g : OwedByAll(g)' = OwedByAll(g) /\ BetweenAll(g)' = BetweenAll(g) /\ (ToTest(g)' <=> ToTest(g))
         /\ Tested' = Tested
<1>1. \A g : OwedByAll(g)' = OwedByAll(g) /\ BetweenAll(g)' = BetweenAll(g) /\ (ToTest(g)' <=> ToTest(g))
  BY DEF SameOwners, OwedByAll, BetweenAll, Between, ToTest
<1>2. QED
  BY <1>1 DEF Tested

\* Capture takes a buffer of one camera for the group it fills.
LEMMA RequestSafe ==
  ASSUME PairTypes, PairPictures, PairSafe, NEW b \in Buffers, PairFirst(b) \/ PairSecond(b)
  PROVE  PairSafe'
<1> DEFINE S == shooting.group
<1>1. PICK k \in Cams :
        /\ shooting.at = (IF k = 1 THEN "first" ELSE "second")
        /\ ShootingNext(IF k = 1 THEN "second" ELSE "count1")
        /\ b \in queued[k] /\ queued' = [queued EXCEPT ![k] = queued[k] \ {b}]
        /\ images' = [images EXCEPT ![S][k] = b]
        /\ UNCHANGED <<idle_groups, r_count, owed, releasing, forgotten>>
  BY DEF PairFirst, PairSecond, PairRequest, ShootingAt, Cams
<1>2. /\ S \in Groups /\ OwedByAll(S) = 0 /\ BetweenAll(S) = 0 /\ ~ToTest(S)
  BY <1>1, FilledAlone DEF PairSafe, Shooting
<1>3. shooting'.at = (IF k = 1 THEN "second" ELSE "count1") /\ shooting'.group = S
  <2>1. shooting.at # "idle" /\ (IF k = 1 THEN "second" ELSE "count1") \in Shooting \cup HandingOut
    BY <1>1 DEF Shooting
  <2>2. QED
    BY <1>1, <2>1, ShootingMoves DEF ShootingNext
<1>4. SameOwners
  BY <1>1 DEF SameOwners
<1>5. \A c \in Cams, g \in Groups : Left(c, g) = 0 /\ Left(c, g)' = 0
  BY <1>1, <1>3 DEF Left, LeftAt
<1>6. \A c \in Cams, g \in Groups : References(c, g)' = References(c, g)
  BY <1>4, <1>5, OwnersStay DEF References
<1>7. Requests(k)' = Requests(k) \cup {S} /\ \A c \in Cams \ {k} : Requests(c)' = Requests(c)
  BY <1>1, <1>2, <1>3 DEF Requests, Cams
<1>8. PictureCounts'
  <2>1. \A c \in Cams : Refs(c)' = Refs(c)
    BY <1>6 DEF Refs
  <2>2. \A c \in Cams : r_count'[c] = r_count[c] /\ queued'[c] = IF c = k THEN queued[k] \ {b} ELSE queued[c]
    BY <1>1 DEF PairTypes
  <2>3. \A g \in Groups, c \in Cams : images'[g][c] = IF g = S /\ c = k THEN b ELSE images[g][c]
    BY <1>1, <1>2 DEF PairTypes
  <2>4. \A c \in Cams \ {k} : Pictures(c)' = Pictures(c)
    BY <2>3 DEF Pictures
  <2>5. Pictures(k)' = [Pictures(k) EXCEPT ![S] = b]
    BY <2>3, <1>2 DEF Pictures
  <2>6. Tested' = Tested
    BY <1>4, OwnersStay
  <2>7. ASSUME NEW c \in Cams
        PROVE  Counted(Pictures(c)', queued'[c], r_count'[c], Refs(c)', Requests(c)', Tested')
    <3>1. Counted(Pictures(c), queued[c], r_count[c], Refs(c), Requests(c), Tested)
      BY DEF PairSafe, PictureCounts
    <3>2. CASE c # k
      BY <1>7, <2>1, <2>2, <2>4, <2>6, <3>1, <3>2
    <3>3. CASE c = k
      <4>1. Refs(c)[S] = 0 /\ S \notin Tested
        BY <1>2, <1>5 DEF Refs, References, Tested
      <4>2. /\ PicturesOf(Pictures(c), queued[c], r_count[c], Refs(c), Requests(c), Tested)
            /\ Pictures(c) \in [Groups -> Buffers \cup {NoBuffer}]
        BY PictureFacts
      <4>3. Counted([Pictures(c) EXCEPT ![S] = b], queued[c] \ {b}, r_count[c], Refs(c), Requests(c) \cup {S}, Tested)
        BY <1>1, <1>2, <3>1, <3>3, <4>1, <4>2, TakenCounted
      <4>4. QED
        BY <1>7, <2>1, <2>2, <2>5, <2>6, <3>3, <4>3
    <3>4. QED
      BY <3>2, <3>3
  <2>8. QED
    BY <2>7 DEF PictureCounts
<1> HIDE DEF S
<1>9. GroupTurns'
  <2>1. shooting'.at \in Shooting => OwedByAll(shooting.group)' = 0 /\ ~ToTest(shooting.group)'
    BY <1>1, <1>2, <1>3 DEF OwedByAll, ToTest
  <2>2. \A g \in Groups : References(2, g)' = 0 =>
          \A q, r \in Releasers :
            releasing'[q] = [at |-> "test", group |-> g] /\ releasing'[r] = [at |-> "test", group |-> g] => q = r
    BY <1>1, <1>6 DEF PairSafe, GroupTurns, Cams
  <2>3. QED
    BY <2>1, <2>2 DEF GroupTurns
<1>10. GroupPlaces'
  <2>1. \A g \in Groups : Busily(g)' <=> Busily(g)
    BY <1>1, <1>3, <1>4, OwnersStay DEF Busily, S
  <2>2. QED
    BY <1>1, <2>1 DEF PairSafe, GroupPlaces, CountIn
<1>11. QED
  BY <1>8, <1>9, <1>10 DEF PairSafe

\* A reset makes capture leave its group when it has the first picture.
LEMMA ForgetSafe ==
  ASSUME PairTypes, PairPictures, PairSafe, PairForget
  PROVE  PairSafe'
<1> DEFINE S == shooting.group
<1>1. /\ shooting.at = "second" /\ shooting'.at = "idle" /\ forgotten' = forgotten \cup {S}
      /\ queued' = [queued EXCEPT ![1] = queued[1] \cup {images[S][1]}]
      /\ UNCHANGED <<idle_groups, images, r_count, owed, releasing>>
  BY DEF PairForget, ShootingAt, Unoccupied
<1>2. /\ S \in Groups /\ OwedByAll(S) = 0 /\ BetweenAll(S) = 0 /\ ~ToTest(S)
  BY <1>1, FilledAlone DEF PairSafe, Shooting
<1>3. SameOwners
  BY <1>1 DEF SameOwners
<1>4. \A c \in Cams, g \in Groups : Left(c, g) = 0 /\ Left(c, g)' = 0
  BY <1>1 DEF Left, LeftAt
<1>5. \A c \in Cams, g \in Groups : References(c, g)' = References(c, g)
  BY <1>3, <1>4, OwnersStay DEF References
<1>6. /\ Requests(1) = {S} /\ Requests(1)' = Requests(1) \ {S} /\ 1 \in Cams /\ 2 \in Cams
      /\ Requests(2)' = Requests(2)
  BY <1>1, <1>2 DEF Requests, Cams
<1>7. PictureCounts'
  <2>1. \A c \in Cams : Refs(c)' = Refs(c) /\ Pictures(c)' = Pictures(c) /\ r_count'[c] = r_count[c]
    BY <1>1, <1>5 DEF Refs, Pictures
  <2>2. queued'[1] = queued[1] \cup {Pictures(1)[S]} /\ queued'[2] = queued[2]
    BY <1>1, <1>2 DEF PairTypes, Pictures, Cams
  <2>3. Tested' = Tested
    BY <1>3, OwnersStay
  <2>4. ASSUME NEW c \in Cams
        PROVE  Counted(Pictures(c)', queued'[c], r_count'[c], Refs(c)', Requests(c)', Tested')
    <3>1. Counted(Pictures(c), queued[c], r_count[c], Refs(c), Requests(c), Tested)
      BY DEF PairSafe, PictureCounts
    <3>2. CASE c = 2
      BY <1>6, <2>1, <2>2, <2>3, <3>1, <3>2
    <3>3. CASE c = 1
      <4>1. Refs(c)[S] = 0
        BY <1>2, <1>4 DEF Refs, References
      <4>2. PicturesOf(Pictures(c), queued[c], r_count[c], Refs(c), Requests(c), Tested)
        BY PictureFacts
      <4>3. Counted(Pictures(c), queued[c] \cup {Pictures(c)[S]}, r_count[c], Refs(c), Requests(c) \ {S}, Tested)
        BY <1>6, <3>1, <3>3, <4>1, <4>2, ForgottenCounted
      <4>4. QED
        BY <1>6, <2>1, <2>2, <2>3, <3>3, <4>3
    <3>4. QED
      BY <3>2, <3>3 DEF Cams
  <2>5. QED
    BY <2>4 DEF PictureCounts
<1> HIDE DEF S
<1>8. GroupTurns'
  <2>1. \A g \in Groups : References(2, g)' = 0 =>
          \A q, r \in Releasers :
            releasing'[q] = [at |-> "test", group |-> g] /\ releasing'[r] = [at |-> "test", group |-> g] => q = r
    BY <1>1, <1>5, <1>6 DEF PairSafe, GroupTurns
  <2>2. QED
    BY <1>1, <2>1 DEF GroupTurns, Shooting
<1>9. GroupPlaces'
  <2>1. \A g \in Groups : g = S => Busily(g) /\ ~Busily(g)'
    BY <1>1, <1>2, <1>3, OwnersStay DEF Busily, S
  <2>2. \A g \in Groups \ {S} : Busily(g)' <=> Busily(g)
    BY <1>1, <1>3, OwnersStay DEF Busily, S
  <2>3. ASSUME NEW g \in Groups
        PROVE  CountIn(idle_groups', {g}) + (IF Busily(g)' THEN 1 ELSE 0)
                 + (IF g \in forgotten' THEN 1 ELSE 0) = 1
    <3>1. CountIn(idle_groups, {g}) + (IF Busily(g) THEN 1 ELSE 0) + (IF g \in forgotten THEN 1 ELSE 0) = 1
      BY DEF PairSafe, GroupPlaces
    <3>2. CountIn(idle_groups', {g}) = CountIn(idle_groups, {g}) /\ CountIn(idle_groups, {g}) \in Nat
      BY <1>1, CountZero DEF PairTypes
    <3>3. g \in forgotten' <=> g \in forgotten \/ g = S
      BY <1>1
    <3>4. QED
      BY <2>1, <2>2, <3>1, <3>2, <3>3
  <2>4. QED
    BY <2>3 DEF GroupPlaces, CountIn
<1>10. QED
  BY <1>7, <1>8, <1>9 DEF PairSafe

\* Capture counts three references to a picture that no release still looks at.
LEMMA CountSafe ==
  ASSUME PairTypes, PairPictures, PairSafe, ~raced', PairCount1 \/ PairCount2
  PROVE  PairSafe'
<1> DEFINE S == shooting.group
<1>1. PICK k \in Cams :
        /\ shooting.at = (IF k = 1 THEN "count1" ELSE "count2")
        /\ ShootingNext(IF k = 1 THEN "count2" ELSE "ui")
        /\ r_count' = [r_count EXCEPT ![k][images[S][k]] = 3]
        /\ ~Testing(k, images[S][k])
        /\ UNCHANGED <<idle_groups, images, queued, owed, releasing, forgotten>>
  <2>1. CASE PairCount1
    <3>1. r_count' = [r_count EXCEPT ![1][images[S][1]] = 3] /\ ~Testing(1, images[S][1])
      BY <2>1 DEF PairCount1, CountThree
    <3>2. QED
      BY <2>1, <3>1 DEF PairCount1, CountThree, ShootingAt, Cams
  <2>2. CASE PairCount2
    <3>1. r_count' = [r_count EXCEPT ![2][images[S][2]] = 3] /\ ~Testing(2, images[S][2])
      BY <2>2 DEF PairCount2, CountThree
    <3>2. QED
      BY <2>2, <3>1 DEF PairCount2, CountThree, ShootingAt, Cams
  <2>3. QED
    BY <2>1, <2>2
<1>2. /\ S \in Groups /\ OwedByAll(S) = 0 /\ BetweenAll(S) = 0 /\ ~ToTest(S)
  BY <1>1, FilledAlone DEF PairSafe, Shooting
<1>3. shooting'.at = (IF k = 1 THEN "count2" ELSE "ui") /\ shooting'.group = S
  <2>1. shooting.at # "idle" /\ (IF k = 1 THEN "count2" ELSE "ui") \in Shooting \cup HandingOut
    BY <1>1 DEF Shooting, HandingOut
  <2>2. QED
    BY <1>1, <2>1, ShootingMoves DEF ShootingNext
<1>4. SameOwners
  BY <1>1 DEF SameOwners
<1>5. /\ \A c \in Cams \ {k}, g \in Groups : Left(c, g)' = Left(c, g)
      /\ \A g \in Groups : Left(k, g) = 0 /\ Left(k, g)' = IF g = S THEN 3 ELSE 0
  <2>1. CASE k = 1
    BY <1>1, <1>3, <2>1 DEF Left, LeftAt, Cams
  <2>2. CASE k = 2
    BY <1>1, <1>3, <2>2 DEF Left, LeftAt, Cams
  <2>3. QED
    BY <2>1, <2>2 DEF Cams
<1>6. /\ \A c \in Cams \ {k}, g \in Groups : References(c, g)' = References(c, g)
      /\ \A g \in Groups \ {S} : References(k, g)' = References(k, g)
      /\ References(k, S) = 0 /\ \A g \in Groups : g = S => References(k, g)' = 3
  <2>1. \A c \in Cams \ {k}, g \in Groups : References(c, g)' = References(c, g)
    BY <1>4, <1>5, OwnersStay DEF References
  <2>2. \A g \in Groups \ {S} : References(k, g)' = References(k, g)
    BY <1>4, <1>5, OwnersStay DEF References
  <2>3. References(k, S) = 0
    BY <1>2, <1>5 DEF References
  <2>4. \A g \in Groups : g = S => References(k, g)' = 3
    BY <1>2, <1>4, <1>5, OwnersStay DEF References
  <2>5. QED
    BY <2>1, <2>2, <2>3, <2>4
<1>7. /\ S \in Requests(k) /\ Requests(k)' = Requests(k) \ {S}
      /\ \A c \in Cams \ {k} : Requests(c)' = Requests(c)
  BY <1>1, <1>2, <1>3 DEF Requests, Cams
<1>8. PictureCounts'
  <2>1. \A c \in Cams \ {k} : Refs(c)' = Refs(c)
    BY <1>6 DEF Refs
  <2>2. Refs(k)' = [Refs(k) EXCEPT ![S] = 3]
    BY <1>6 DEF Refs
  <2>3. \A c \in Cams : queued'[c] = queued[c] /\ Pictures(c)' = Pictures(c)
    BY <1>1 DEF Pictures
  <2>4. /\ \A c \in Cams \ {k} : r_count'[c] = r_count[c]
        /\ r_count'[k] = [r_count[k] EXCEPT ![Pictures(k)[S]] = 3]
    BY <1>1, <1>2 DEF PairTypes, Pictures
  <2>5. Tested' = Tested
    BY <1>4, OwnersStay
  <2>6. ASSUME NEW c \in Cams
        PROVE  Counted(Pictures(c)', queued'[c], r_count'[c], Refs(c)', Requests(c)', Tested')
    <3>1. Counted(Pictures(c), queued[c], r_count[c], Refs(c), Requests(c), Tested)
      BY DEF PairSafe, PictureCounts
    <3>2. CASE c # k
      BY <1>7, <2>1, <2>3, <2>4, <2>5, <3>1, <3>2
    <3>3. CASE c = k
      <4>1. Refs(c)[S] = 0 /\ S \notin Tested
        BY <1>2, <1>6, <3>3 DEF Refs, Tested
      <4>2. PicturesOf(Pictures(c), queued[c], r_count[c], Refs(c), Requests(c), Tested)
        BY PictureFacts
      <4>3. ASSUME NEW h \in Tested PROVE Pictures(c)[h] # Pictures(c)[S]
        <5>1. PICK r \in Releasers : releasing[r].at # "idle" /\ releasing[r].group = h
          BY DEF Tested, ToTest
        <5>2. releasing[r].at \in {"second", "test"}
          BY <5>1 DEF PairTypes, Unoccupied
        <5>3. images[h][k] # images[S][k]
          BY <1>1, <5>1, <5>2 DEF Testing
        <5>4. h \in Groups
          BY DEF Tested
        <5>5. QED
          BY <1>2, <3>3, <5>3, <5>4 DEF Pictures
      <4>4. Counted(Pictures(c), queued[c], [r_count[c] EXCEPT ![Pictures(c)[S]] = 3],
                    [Refs(c) EXCEPT ![S] = 3], Requests(c) \ {S}, Tested)
        BY <1>7, <3>1, <3>3, <4>1, <4>2, <4>3, ThreeCounted
      <4>5. QED
        BY <1>7, <2>2, <2>3, <2>4, <2>5, <3>3, <4>4
    <3>4. QED
      BY <3>2, <3>3
  <2>7. QED
    BY <2>6 DEF PictureCounts
<1>9. GroupTurns'
  <2>1. shooting'.at \in Shooting => OwedByAll(shooting.group)' = 0 /\ ~ToTest(shooting.group)'
    BY <1>1, <1>2, <1>3 DEF OwedByAll, ToTest
  <2>2. \A g \in Groups : References(2, g)' = 0 => References(2, g) = 0
    BY <1>6 DEF Cams
  <2>3. \A g \in Groups : References(2, g)' = 0 =>
          \A q, r \in Releasers :
            releasing'[q] = [at |-> "test", group |-> g] /\ releasing'[r] = [at |-> "test", group |-> g] => q = r
    BY <1>1, <2>2 DEF PairSafe, GroupTurns
  <2>4. QED
    BY <2>1, <2>3 DEF GroupTurns
<1>10. GroupPlaces'
  <2>1. \A g \in Groups : Busily(g)' <=> Busily(g)
    BY <1>1, <1>3, <1>4, OwnersStay DEF Busily
  <2>2. QED
    BY <1>1, <2>1 DEF PairSafe, GroupPlaces, CountIn
<1>11. QED
  BY <1>8, <1>9, <1>10 DEF PairSafe

\* Capture hands out one reference to its group, or drops all three.
LEMMA HandOutSafe ==
  ASSUME PairTypes, PairPictures, PairSafe, PairDrop \/ PairHandOut
  PROVE  PairSafe'
<1> DEFINE S == shooting.group
<1>0. /\ owed \in [Releasers -> Seq(Groups)] /\ shooting.at # "idle" /\ S \in Groups
      /\ shooting.at \in HandingOut
  BY DEF PairDrop, PairHandOut, ShootingAt, HandingOut, PairTypes, Unoccupied
<1>1. PICK n \in {1, 3}, r \in Releasers, s \in Seq(Groups), at \in {"net", "dsp", "idle"} :
        /\ OwedBecomes(r, s)
        /\ \A h : CountIn(s, {h}) = CountIn(owed[r], {h}) + (IF S = h THEN n ELSE 0)
        /\ shooting'.at = at /\ (at # "idle" => shooting'.group = S)
        /\ LeftAt(1, at) = LeftAt(1, shooting.at) - n /\ LeftAt(2, at) = LeftAt(2, shooting.at) - n
  <2>1. CASE PairDrop
    <3>1. /\ shooting.at = "ui" /\ owed["capture"] = <<>> /\ shooting'.at = "idle"
          /\ owed' = [owed EXCEPT !["capture"] = @ \o [i \in 1 .. 3 |-> S]]
      BY <2>1 DEF PairDrop, ShootingAt, Owes, Unoccupied
    <3>2. "capture" \in Releasers
      BY DEF Releasers
    <3> DEFINE s == owed["capture"] \o [i \in 1 .. 3 |-> S]
    <3>3. s \in Seq(Groups) /\ \A h : CountIn(s, {h}) = IF S = h THEN 3 ELSE 0
      BY <1>0, <3>1, <3>2, OwesLists
    <3>4. \A h : CountIn(owed["capture"], {h}) = 0
      <4>1. owed["capture"] \in Seq(Groups) /\ DOMAIN owed["capture"] = {}
        BY <1>0, <3>1, <3>2
      <4>2. QED
        BY <4>1, CountZero
    <3>5. OwedBecomes("capture", s)
      BY <3>1 DEF OwedBecomes
    <3>6. LeftAt(1, "idle") = LeftAt(1, "ui") - 3 /\ LeftAt(2, "idle") = LeftAt(2, "ui") - 3
      BY DEF LeftAt
    <3> HIDE DEF s
    <3>7. ASSUME NEW h
          PROVE  CountIn(s, {h}) = CountIn(owed["capture"], {h}) + (IF S = h THEN 3 ELSE 0)
      <4>1. CountIn(s, {h}) = (IF S = h THEN 3 ELSE 0) /\ CountIn(owed["capture"], {h}) = 0
        BY <3>3, <3>4
      <4>2. QED
        BY <4>1
    <3>8. QED
      BY <3>1, <3>2, <3>3, <3>5, <3>6, <3>7
  <2>2. CASE PairHandOut
    <3>1. PICK r \in Releasers, at \in {"net", "dsp", "idle"} :
            /\ OwedBecomes(r, owed[r] \o <<S>>)
            /\ IF at = "idle" THEN shooting' = Unoccupied ELSE ShootingNext(at)
            /\ shooting.at = IF at = "net" THEN "ui" ELSE IF at = "dsp" THEN "net" ELSE "dsp"
      BY <2>2 DEF PairHandOut, ShootingAt, Owes, OwedBecomes, Releasers
    <3>2. shooting'.at = at /\ (at # "idle" => shooting'.group = S)
      <4>1. CASE at = "idle"
        BY <3>1, <4>1 DEF Unoccupied
      <4>2. CASE at # "idle"
        <5>1. at \in Shooting \cup HandingOut
          BY <4>2 DEF HandingOut
        <5>2. [shooting EXCEPT !.at = at] = [at |-> at, group |-> S]
          BY <1>0, <5>1, ShootingMoves
        <5>3. shooting' = [at |-> at, group |-> S]
          BY <3>1, <4>2, <5>2 DEF ShootingNext
        <5>4. QED
          BY <5>3
      <4>3. QED
        BY <4>1, <4>2
    <3>3. /\ owed[r] \o <<S>> \in Seq(Groups)
          /\ \A h : CountIn(owed[r] \o <<S>>, {h}) = CountIn(owed[r], {h}) + (IF S = h THEN 1 ELSE 0)
      BY <1>0, OwesLists
    <3>4. LeftAt(1, at) = LeftAt(1, shooting.at) - 1 /\ LeftAt(2, at) = LeftAt(2, shooting.at) - 1
      BY <3>1 DEF LeftAt
    <3>5. QED
      BY <3>1, <3>2, <3>3, <3>4
  <2>3. QED
    BY <2>1, <2>2
<1>2. UNCHANGED <<idle_groups, images, r_count, queued, releasing, forgotten>>
  BY DEF PairDrop, PairHandOut
<1>3. \A g : OwedByAll(g)' = OwedByAll(g) + (IF S = g THEN n ELSE 0)
  <2>1. ASSUME NEW g PROVE OwedByAll(g)' = OwedByAll(g) + (IF S = g THEN n ELSE 0)
    <3>1. OwedByAll(g)' = OwedByAll(g) - CountIn(owed[r], {g}) + CountIn(s, {g})
      BY <1>1, OwedChanges
    <3>2. CountIn(owed[r], {g}) \in Nat /\ OwedByAll(g) \in Nat
      BY PairSums
    <3>3. CountIn(s, {g}) = CountIn(owed[r], {g}) + (IF S = g THEN n ELSE 0)
      BY <1>1
    <3>4. QED
      BY <3>1, <3>2, <3>3
  <2>2. QED
    BY <2>1
<1>4. \A g : BetweenAll(g)' = BetweenAll(g) /\ (ToTest(g)' <=> ToTest(g))
  BY <1>2 DEF BetweenAll, Between, ToTest
<1>5. \A c \in Cams, g \in Groups : Left(c, g)' = Left(c, g) - (IF S = g THEN n ELSE 0)
  <2>1. \A c \in Cams : LeftAt(c, shooting'.at) = LeftAt(c, shooting.at) - n
    BY <1>1 DEF Cams
  <2>2. \A c \in Cams, g \in Groups : Left(c, g)' = IF shooting'.group = g THEN LeftAt(c, shooting'.at) ELSE 0
    BY DEF Left, LeftAt
  <2>3. \A c \in Cams : LeftAt(c, "idle") = 0 /\ LeftAt(c, shooting.at) \in Nat
    BY DEF LeftAt
  <2>4. QED
    BY <1>1, <2>1, <2>2, <2>3 DEF Left
<1>6. \A c \in Cams, g \in Groups : References(c, g)' = References(c, g)
  <2>1. ASSUME NEW c \in Cams, NEW g \in Groups PROVE References(c, g)' = References(c, g)
    <3>1. OwedByAll(g) \in Nat /\ BetweenAll(g) \in Nat /\ Left(c, g) \in Nat
      BY PairSums, PictureFacts
    <3>2. Left(c, g)' = Left(c, g) - (IF S = g THEN n ELSE 0) /\ OwedByAll(g)' = OwedByAll(g) + (IF S = g THEN n ELSE 0)
      BY <1>3, <1>5
    <3>3. Left(c, g)' + OwedByAll(g)' = Left(c, g) + OwedByAll(g)
      BY <3>1, <3>2
    <3>4. QED
      BY <1>4, <3>3 DEF References
  <2>2. QED
    BY <2>1
<1>7. \A c \in Cams : Requests(c) = {} /\ Requests(c)' = {}
  BY <1>0, <1>1 DEF Requests, HandingOut
<1>8. PictureCounts'
  <2>1. \A c \in Cams : /\ Refs(c)' = Refs(c) /\ Pictures(c)' = Pictures(c)
                        /\ queued'[c] = queued[c] /\ r_count'[c] = r_count[c]
    BY <1>2, <1>6 DEF Refs, Pictures
  <2>2. Tested' = Tested
    BY <1>4 DEF Tested
  <2>3. ASSUME NEW c \in Cams
        PROVE  Counted(Pictures(c)', queued'[c], r_count'[c], Refs(c)', Requests(c)', Tested')
    <3>1. Counted(Pictures(c), queued[c], r_count[c], Refs(c), Requests(c), Tested)
      BY DEF PairSafe, PictureCounts
    <3>2. QED
      BY <1>7, <2>1, <2>2, <3>1
  <2>4. QED
    BY <2>3 DEF PictureCounts
<1>9. GroupTurns'
  <2>1. shooting'.at \notin Shooting
    BY <1>1 DEF Shooting
  <2>2. \A g \in Groups : References(2, g)' = 0 =>
          \A q, p \in Releasers :
            releasing'[q] = [at |-> "test", group |-> g] /\ releasing'[p] = [at |-> "test", group |-> g] => q = p
    BY <1>2, <1>6 DEF PairSafe, GroupTurns, Cams
  <2>3. QED
    BY <2>1, <2>2 DEF GroupTurns
<1>10. GroupPlaces'
  <2>1. \A g \in Groups : Busily(g)' <=> Busily(g)
    <3>1. \A g : OwedByAll(g) \in Nat
      BY PairSums
    <3>2. \A g \in Groups : g = S => Busily(g) /\ Busily(g)'
      <4>1. \A g \in Groups : g = S => OwedByAll(g)' > 0
        BY <1>3, <3>1
      <4>2. QED
        BY <1>0, <4>1 DEF Busily
    <3>3. \A g \in Groups : g # S => (Busily(g)' <=> Busily(g))
      <4>1. \A g \in Groups : g # S => OwedByAll(g)' = OwedByAll(g)
        BY <1>3, <3>1
      <4>2. QED
        BY <1>1, <1>4, <4>1 DEF Busily
    <3>4. QED
      BY <3>2, <3>3
  <2>2. QED
    BY <1>2, <2>1 DEF PairSafe, GroupPlaces, CountIn
<1>11. QED
  BY <1>8, <1>9, <1>10 DEF PairSafe

\* A release is of one camera.
LEMMA ReleaseOfOne ==
  ASSUME NEW rc \in [Cams -> [Buffers -> Int]], NEW qd \in [Cams -> SUBSET Buffers],
         NEW k \in Cams, NEW b
  PROVE  LET n == [rc EXCEPT ![k][b] = @ - 1]
             q == IF rc[k][b] = 1 THEN [qd EXCEPT ![k] = @ \cup {b}] ELSE qd
         IN  /\ n[k] = [rc[k] EXCEPT ![b] = @ - 1]
             /\ q[k] = IF rc[k][b] = 1 THEN qd[k] \cup {b} ELSE qd[k]
             /\ \A c \in Cams \ {k} : n[c] = rc[c] /\ q[c] = qd[c]
<1> DEFINE n == [rc EXCEPT ![k][b] = @ - 1]
           q == IF rc[k][b] = 1 THEN [qd EXCEPT ![k] = @ \cup {b}] ELSE qd
<1>1. n[k] = [rc[k] EXCEPT ![b] = @ - 1] /\ \A c \in Cams \ {k} : n[c] = rc[c]
  OBVIOUS
<1>2. CASE rc[k][b] = 1
  <2>1. q = [qd EXCEPT ![k] = @ \cup {b}]
    BY <1>2
  <2>2. q[k] = qd[k] \cup {b} /\ \A c \in Cams \ {k} : q[c] = qd[c]
    BY <2>1
  <2>3. QED
    BY <1>1, <1>2, <2>2
<1>3. CASE rc[k][b] # 1
  BY <1>1, <1>3
<1>4. QED
  BY <1>2, <1>3

\* A thread releases the first picture of the first group it owes.
LEMMA FirstSafe ==
  ASSUME PairTypes, PairPictures, PairSafe, NEW r \in Releasers, ReleaseFirst(r)
  PROVE  PairSafe'
<1>1. PICK g : g = Head(owed[r])
  OBVIOUS
<1>2. /\ owed \in [Releasers -> Seq(Groups)] /\ owed[r] \in Seq(Groups) /\ owed[r] # <<>> /\ g \in Groups
      /\ releasing[r].at = "idle" /\ Tail(owed[r]) \in Seq(Groups)
  BY <1>1 DEF ReleaseFirst, PairTypes
<1>3. /\ r_count' = [r_count EXCEPT ![1][images[g][1]] = @ - 1]
      /\ queued' = IF r_count[1][images[g][1]] = 1 THEN [queued EXCEPT ![1] = @ \cup {images[g][1]}]
                   ELSE queued
      /\ OwedBecomes(r, Tail(owed[r])) /\ ReleasingBecomes(r, [at |-> "second", group |-> g])
      /\ UNCHANGED <<idle_groups, images, shooting, forgotten>>
  BY <1>1 DEF ReleaseFirst, ReleasePicture, OwedBecomes, ReleasingBecomes
<1>4. \A h : OwedByAll(h)' = OwedByAll(h) - (IF g = h THEN 1 ELSE 0)
  <2>1. ASSUME NEW h PROVE OwedByAll(h)' = OwedByAll(h) - (IF g = h THEN 1 ELSE 0)
    <3>1. OwedByAll(h)' = OwedByAll(h) - CountIn(owed[r], {h}) + CountIn(Tail(owed[r]), {h})
      BY <1>2, <1>3, OwedChanges
    <3>2. CountIn(owed[r], {h}) = CountIn(Tail(owed[r]), {h}) + (IF Head(owed[r]) \in {h} THEN 1 ELSE 0)
      BY <1>2, CountTail
    <3>3. OwedByAll(h) \in Nat /\ CountIn(Tail(owed[r]), {h}) \in Nat
      BY <1>2, PairSums, CountZero
    <3>4. QED
      BY <1>1, <3>1, <3>2, <3>3
  <2>2. QED
    BY <2>1
<1>5. \A h : BetweenAll(h)' = BetweenAll(h) + (IF g = h THEN 1 ELSE 0)
  <2>1. ASSUME NEW h PROVE BetweenAll(h)' = BetweenAll(h) + (IF g = h THEN 1 ELSE 0)
    <3> DEFINE v == [at |-> "second", group |-> g]
    <3>1. BetweenAll(h)' = BetweenAll(h) - Between(r, h) + (IF v.at = "second" /\ v.group = h THEN 1 ELSE 0)
      BY <1>3, BetweenChanges
    <3>2. Between(r, h) = 0 /\ BetweenAll(h) \in Nat
      BY <1>2, PairSums DEF Between
    <3>3. QED
      BY <3>1, <3>2
  <2>2. QED
    BY <2>1
<1>6. /\ \A h : ToTest(h)' <=> ToTest(h) \/ h = g
      /\ \A q \in Releasers : \A h : releasing'[q] = [at |-> "test", group |-> h]
                                   => releasing[q] = [at |-> "test", group |-> h]
  <2> DEFINE v == [at |-> "second", group |-> g]
  <2>1. /\ \A h : ToTest(h)' <=> \/ v.at # "idle" /\ v.group = h
                                 \/ \E q \in Releasers \ {r} : releasing[q].at # "idle" /\ releasing[q].group = h
        /\ releasing'[r] = v /\ \A q \in Releasers \ {r} : releasing'[q] = releasing[q]
    BY <1>3, TestChanges
  <2>2. \A h : ToTest(h) <=> \E q \in Releasers \ {r} : releasing[q].at # "idle" /\ releasing[q].group = h
    BY <1>2 DEF ToTest
  <2>3. \A h : ToTest(h)' <=> ToTest(h) \/ h = g
    BY <2>1, <2>2
  <2>4. \A q \in Releasers : \A h : releasing'[q] = [at |-> "test", group |-> h]
                                 => releasing[q] = [at |-> "test", group |-> h]
    BY <2>1
  <2>5. QED
    BY <2>3, <2>4
<1>7. \A c \in Cams, h \in Groups : Left(c, h)' = Left(c, h) /\ Left(c, h) \in Nat
  BY <1>3, PictureFacts DEF Left, LeftAt
<1>8. OwedByAll(g) > 0
  <2>1. CountIn(owed[r], {g}) > 0
    <3>1. 1 \in DOMAIN owed[r] /\ owed[r][1] \in {g}
      BY <1>1, <1>2
    <3>2. QED
      BY <1>2, <3>1, CountType
  <2>2. CountIn(owed[r], {g}) \in Nat /\ CountIn(owed[r], {g}) <= OwedByAll(g) /\ OwedByAll(g) \in Nat
    BY PairSums
  <2>3. QED
    BY <2>1, <2>2
<1>9. /\ \A h \in Groups : References(2, h)' = References(2, h)
      /\ \A h \in Groups : References(1, h)' = References(1, h) - (IF g = h THEN 1 ELSE 0)
      /\ References(1, g) > 0 /\ References(2, g) > 0
  <2>1. \A h : OwedByAll(h) \in Nat /\ BetweenAll(h) \in Nat
    BY PairSums
  <2>2. \A h \in Groups : References(1, h)' = References(1, h) - (IF g = h THEN 1 ELSE 0)
    BY <1>4, <1>7, <2>1 DEF References, Cams
  <2>3. ASSUME NEW h \in Groups PROVE References(2, h)' = References(2, h)
    <3>1. /\ OwedByAll(h)' = OwedByAll(h) - (IF g = h THEN 1 ELSE 0)
          /\ BetweenAll(h)' = BetweenAll(h) + (IF g = h THEN 1 ELSE 0)
          /\ Left(2, h)' = Left(2, h) /\ Left(2, h) \in Nat
      BY <1>4, <1>5, <1>7 DEF Cams
    <3>2. Left(2, h)' + OwedByAll(h)' + BetweenAll(h)' = Left(2, h) + OwedByAll(h) + BetweenAll(h)
      BY <2>1, <3>1
    <3>3. QED
      BY <3>2 DEF References
  <2>4. References(1, g) > 0 /\ References(2, g) > 0
    BY <1>2, <1>7, <1>8, <2>1 DEF References, Cams
  <2>5. QED
    BY <2>2, <2>3, <2>4
<1>10. shooting.at \in Shooting => g # shooting.group
  <2>1. shooting.at \in Shooting => OwedByAll(shooting.group) = 0
    BY DEF PairSafe, GroupTurns
  <2>2. QED
    BY <1>8, <2>1
<1>11. PictureCounts'
  <2>1. \A c \in Cams : Requests(c)' = Requests(c) /\ Pictures(c)' = Pictures(c)
    BY <1>3 DEF Requests, Pictures
  <2>2. Tested' = Tested \cup {g}
    BY <1>2, <1>6 DEF Tested
  <2>3. Refs(1)' = [Refs(1) EXCEPT ![g] = @ - 1] /\ Refs(2)' = Refs(2)
    <3>1. Refs(2)' = Refs(2)
      BY <1>9 DEF Refs
    <3>2. \A h \in Groups : References(1, h) \in Nat
      BY PictureFacts DEF Cams
    <3>3. \A h \in Groups : References(1, h)' = IF h = g THEN References(1, h) - 1 ELSE References(1, h)
      BY <1>9, <3>2
    <3>4. Refs(1)' = [h \in Groups |-> IF h = g THEN References(1, h) - 1 ELSE References(1, h)]
      BY <3>3 DEF Refs
    <3>5. [Refs(1) EXCEPT ![g] = @ - 1] = [h \in Groups |-> IF h = g THEN References(1, h) - 1 ELSE References(1, h)]
      BY <1>2 DEF Refs
    <3>6. QED
      BY <3>1, <3>4, <3>5
  <2>4. /\ r_count'[2] = r_count[2] /\ queued'[2] = queued[2]
        /\ r_count'[1] = [r_count[1] EXCEPT ![Pictures(1)[g]] = @ - 1]
        /\ queued'[1] = IF r_count[1][Pictures(1)[g]] = 1 THEN queued[1] \cup {Pictures(1)[g]} ELSE queued[1]
    <3>1. 1 \in Cams /\ 2 \in Cams /\ Pictures(1)[g] = images[g][1]
      BY <1>2 DEF Cams, Pictures
    <3>2. r_count \in [Cams -> [Buffers -> Int]] /\ queued \in [Cams -> SUBSET Buffers]
      BY DEF PairTypes
    <3> DEFINE b == images[g][1]
               n == [r_count EXCEPT ![1][b] = @ - 1]
               q == IF r_count[1][b] = 1 THEN [queued EXCEPT ![1] = @ \cup {b}] ELSE queued
    <3>3. /\ n[1] = [r_count[1] EXCEPT ![b] = @ - 1]
          /\ q[1] = IF r_count[1][b] = 1 THEN queued[1] \cup {b} ELSE queued[1]
          /\ n[2] = r_count[2] /\ q[2] = queued[2]
      BY <3>1, <3>2, ReleaseOfOne
    <3>4. r_count' = n /\ queued' = q
      BY <1>3
    <3> HIDE DEF n, q
    <3>5. QED
      BY <3>1, <3>3, <3>4
  <2>5. ASSUME NEW c \in Cams
        PROVE  Counted(Pictures(c)', queued'[c], r_count'[c], Refs(c)', Requests(c)', Tested')
    <3>1. /\ Counted(Pictures(c), queued[c], r_count[c], Refs(c), Requests(c), Tested)
          /\ PicturesOf(Pictures(c), queued[c], r_count[c], Refs(c), Requests(c), Tested)
      BY PictureFacts DEF PairSafe, PictureCounts
    <3>2. Refs(c)[g] > 0
      BY <1>2, <1>9 DEF Refs, Cams
    <3>3. CASE c = 1
      <4>1. g \notin Requests(c)
        BY <1>10, <3>3 DEF Requests, Shooting
      <4>2. Counted(Pictures(c),
                    IF r_count[c][Pictures(c)[g]] = 1 THEN queued[c] \cup {Pictures(c)[g]} ELSE queued[c],
                    [r_count[c] EXCEPT ![Pictures(c)[g]] = @ - 1], [Refs(c) EXCEPT ![g] = @ - 1],
                    Requests(c), Tested \cup {g})
        BY <1>2, <3>1, <3>2, <4>1, ReleasedCounted
      <4>3. QED
        BY <2>1, <2>2, <2>3, <2>4, <3>3, <4>2
    <3>4. CASE c = 2
      <4>1. Tested \cup {g} \subseteq Groups /\ \A h \in Tested \cup {g} : h \in Tested \/ Refs(c)[h] > 0
        BY <1>2, <3>2 DEF Tested
      <4>2. Counted(Pictures(c), queued[c], r_count[c], Refs(c), Requests(c), Tested \cup {g})
        BY <3>1, <4>1, TestedCounted
      <4>3. QED
        BY <2>1, <2>2, <2>3, <2>4, <3>4, <4>2
    <3>5. QED
      BY <3>3, <3>4 DEF Cams
  <2>6. QED
    BY <2>5 DEF PictureCounts
<1>12. GroupTurns'
  <2>1. \A S \in Groups : shooting'.at \in Shooting /\ S = shooting.group => OwedByAll(S)' = 0 /\ ~ToTest(S)'
    BY <1>3, <1>4, <1>6, <1>10 DEF PairSafe, GroupTurns
  <2>2. shooting'.at \in Shooting => shooting.group \in Groups /\ shooting' = shooting
    BY <1>3 DEF PairTypes, Shooting, Unoccupied
  <2>3. shooting'.at \in Shooting => OwedByAll(shooting.group)' = 0 /\ ~ToTest(shooting.group)'
    BY <2>1, <2>2 DEF OwedByAll, ToTest
  <2>4. \A h \in Groups : References(2, h)' = 0 =>
          \A q, p \in Releasers :
            releasing'[q] = [at |-> "test", group |-> h] /\ releasing'[p] = [at |-> "test", group |-> h] => q = p
    BY <1>6, <1>9 DEF PairSafe, GroupTurns
  <2>5. QED
    BY <2>3, <2>4 DEF GroupTurns
<1>13. GroupPlaces'
  <2>1. \A h \in Groups : Busily(h)' <=> Busily(h)
    <3>1. \A h \in Groups : h = g => Busily(h) /\ Busily(h)'
      BY <1>6, <1>8 DEF Busily
    <3>2. \A h \in Groups : h # g => OwedByAll(h)' = OwedByAll(h) /\ (ToTest(h)' <=> ToTest(h))
      <4>1. \A h : OwedByAll(h) \in Nat
        BY PairSums
      <4>2. QED
        BY <1>4, <1>6, <4>1
    <3>3. \A h \in Groups : h # g => (Busily(h)' <=> Busily(h))
      BY <1>3, <3>2 DEF Busily
    <3>4. QED
      BY <3>1, <3>3
  <2>2. QED
    BY <1>3, <2>1 DEF PairSafe, GroupPlaces, CountIn
<1>14. QED
  BY <1>11, <1>12, <1>13 DEF PairSafe

\* It releases the second, and goes on to the test.
LEMMA SecondSafe ==
  ASSUME PairTypes, PairPictures, PairSafe, ~raced', NEW r \in Releasers, ReleaseSecond(r)
  PROVE  PairSafe'
<1>1. PICK g : g = releasing[r].group
  OBVIOUS
<1>2. g \in Groups /\ releasing[r] = [at |-> "second", group |-> g] /\ ToTest(g)
  BY <1>1 DEF ReleaseSecond, PairTypes, Unoccupied, ToTest
<1>3. /\ r_count' = [r_count EXCEPT ![2][images[g][2]] = @ - 1]
      /\ queued' = IF r_count[2][images[g][2]] = 1 THEN [queued EXCEPT ![2] = @ \cup {images[g][2]}]
                   ELSE queued
      /\ UNCHANGED <<idle_groups, images, shooting, owed, forgotten>>
  BY <1>1 DEF ReleaseSecond, ReleasePicture
<1>4. ReleasingBecomes(r, [at |-> "test", group |-> g])
  <2>1. [releasing[r] EXCEPT !.at = "test"] = [at |-> "test", group |-> g]
    BY <1>2
  <2>2. QED
    BY <2>1 DEF ReleaseSecond, ReleasingBecomes
<1>5. r_count[2][images[g][2]] = 1 =>
        \A q \in Releasers \ {r} : releasing[q] # [at |-> "test", group |-> g]
  BY <1>1 DEF ReleaseSecond
<1>6. \A h : OwedByAll(h)' = OwedByAll(h)
  BY <1>3 DEF OwedByAll
<1>7. \A h : BetweenAll(h)' = BetweenAll(h) - (IF g = h THEN 1 ELSE 0)
  <2>1. ASSUME NEW h PROVE BetweenAll(h)' = BetweenAll(h) - (IF g = h THEN 1 ELSE 0)
    <3> DEFINE v == [at |-> "test", group |-> g]
    <3>1. BetweenAll(h)' = BetweenAll(h) - Between(r, h) + (IF v.at = "second" /\ v.group = h THEN 1 ELSE 0)
      BY <1>4, BetweenChanges
    <3>2. Between(r, h) = (IF g = h THEN 1 ELSE 0)
      BY <1>2 DEF Between
    <3>3. BetweenAll(h) \in Nat
      BY PairSums
    <3>4. QED
      BY <3>1, <3>2, <3>3
  <2>2. QED
    BY <2>1
<1>8. /\ \A h : ToTest(h)' <=> ToTest(h)
      /\ releasing'[r] = [at |-> "test", group |-> g] /\ \A q \in Releasers \ {r} : releasing'[q] = releasing[q]
  <2> DEFINE v == [at |-> "test", group |-> g]
  <2>1. /\ \A h : ToTest(h)' <=> \/ v.at # "idle" /\ v.group = h
                                 \/ \E q \in Releasers \ {r} : releasing[q].at # "idle" /\ releasing[q].group = h
        /\ releasing'[r] = v /\ \A q \in Releasers \ {r} : releasing'[q] = releasing[q]
    BY <1>4, TestChanges
  <2>2. QED
    BY <1>2, <2>1 DEF ToTest
<1>9. \A c \in Cams, h \in Groups : Left(c, h)' = Left(c, h) /\ Left(c, h) \in Nat
  BY <1>3, PictureFacts DEF Left, LeftAt
<1>10. BetweenAll(g) > 0
  <2>1. Between(r, g) = 1
    BY <1>2 DEF Between
  <2>2. Between(r, g) <= BetweenAll(g) /\ BetweenAll(g) \in Nat
    BY PairSums
  <2>3. QED
    BY <2>1, <2>2
<1>11. /\ \A h \in Groups : References(1, h)' = References(1, h)
       /\ \A h \in Groups : References(2, h)' = References(2, h) - (IF g = h THEN 1 ELSE 0)
       /\ References(2, g) > 0
  <2>1. \A h : OwedByAll(h) \in Nat /\ BetweenAll(h) \in Nat
    BY PairSums
  <2>2. \A h \in Groups : References(1, h)' = References(1, h)
    BY <1>6, <1>9 DEF References, Cams
  <2>3. \A h \in Groups : References(2, h)' = References(2, h) - (IF g = h THEN 1 ELSE 0)
    BY <1>6, <1>7, <1>9, <2>1 DEF References, Cams
  <2>4. References(2, g) > 0
    BY <1>2, <1>9, <1>10, <2>1 DEF References, Cams
  <2>5. QED
    BY <2>2, <2>3, <2>4
<1>12. shooting.at \in Shooting => g # shooting.group
  BY <1>2 DEF PairSafe, GroupTurns
<1>13. r_count[2][images[g][2]] = References(2, g)
  <2>1. Counted(Pictures(2), queued[2], r_count[2], Refs(2), Requests(2), Tested)
    BY DEF PairSafe, PictureCounts, Cams
  <2>2. g \in Tested
    BY <1>2 DEF Tested
  <2>3. r_count[2][Pictures(2)[g]] = Refs(2)[g]
    BY <1>2, <2>1, <2>2 DEF Counted
  <2>4. QED
    BY <1>2, <2>3 DEF Pictures, Refs
<1>14. PictureCounts'
  <2>1. \A c \in Cams : Requests(c)' = Requests(c) /\ Pictures(c)' = Pictures(c)
    BY <1>3 DEF Requests, Pictures
  <2>2. Tested' = Tested /\ Tested = Tested \cup {g}
    BY <1>2, <1>8 DEF Tested
  <2>3. Refs(2)' = [Refs(2) EXCEPT ![g] = @ - 1] /\ Refs(1)' = Refs(1)
    <3>1. Refs(1)' = Refs(1)
      BY <1>11 DEF Refs
    <3>2. \A h \in Groups : References(2, h) \in Nat
      BY PictureFacts DEF Cams
    <3>3. \A h \in Groups : References(2, h)' = IF h = g THEN References(2, h) - 1 ELSE References(2, h)
      BY <1>11, <3>2
    <3>4. Refs(2)' = [h \in Groups |-> IF h = g THEN References(2, h) - 1 ELSE References(2, h)]
      BY <3>3 DEF Refs
    <3>5. [Refs(2) EXCEPT ![g] = @ - 1] = [h \in Groups |-> IF h = g THEN References(2, h) - 1 ELSE References(2, h)]
      BY <1>2 DEF Refs
    <3>6. QED
      BY <3>1, <3>4, <3>5
  <2>4. /\ r_count'[1] = r_count[1] /\ queued'[1] = queued[1]
        /\ r_count'[2] = [r_count[2] EXCEPT ![Pictures(2)[g]] = @ - 1]
        /\ queued'[2] = IF r_count[2][Pictures(2)[g]] = 1 THEN queued[2] \cup {Pictures(2)[g]} ELSE queued[2]
    <3>1. 1 \in Cams /\ 2 \in Cams /\ Pictures(2)[g] = images[g][2]
      BY <1>2 DEF Cams, Pictures
    <3>2. r_count \in [Cams -> [Buffers -> Int]] /\ queued \in [Cams -> SUBSET Buffers]
      BY DEF PairTypes
    <3> DEFINE b == images[g][2]
               n == [r_count EXCEPT ![2][b] = @ - 1]
               q == IF r_count[2][b] = 1 THEN [queued EXCEPT ![2] = @ \cup {b}] ELSE queued
    <3>3. /\ n[2] = [r_count[2] EXCEPT ![b] = @ - 1]
          /\ q[2] = IF r_count[2][b] = 1 THEN queued[2] \cup {b} ELSE queued[2]
          /\ n[1] = r_count[1] /\ q[1] = queued[1]
      BY <3>1, <3>2, ReleaseOfOne
    <3>4. r_count' = n /\ queued' = q
      BY <1>3
    <3> HIDE DEF n, q
    <3>5. QED
      BY <3>1, <3>3, <3>4
  <2>5. ASSUME NEW c \in Cams
        PROVE  Counted(Pictures(c)', queued'[c], r_count'[c], Refs(c)', Requests(c)', Tested')
    <3>1. /\ Counted(Pictures(c), queued[c], r_count[c], Refs(c), Requests(c), Tested)
          /\ PicturesOf(Pictures(c), queued[c], r_count[c], Refs(c), Requests(c), Tested)
      BY PictureFacts DEF PairSafe, PictureCounts
    <3>2. CASE c = 1
      BY <2>1, <2>2, <2>3, <2>4, <3>1, <3>2
    <3>3. CASE c = 2
      <4>1. g \notin Requests(c)
        BY <1>12, <3>3 DEF Requests, Shooting
      <4>2. Refs(c)[g] > 0
        BY <1>2, <1>11, <3>3 DEF Refs
      <4>3. Counted(Pictures(c),
                    IF r_count[c][Pictures(c)[g]] = 1 THEN queued[c] \cup {Pictures(c)[g]} ELSE queued[c],
                    [r_count[c] EXCEPT ![Pictures(c)[g]] = @ - 1], [Refs(c) EXCEPT ![g] = @ - 1],
                    Requests(c), Tested \cup {g})
        BY <1>2, <3>1, <4>1, <4>2, ReleasedCounted
      <4>4. QED
        BY <2>1, <2>2, <2>3, <2>4, <3>3, <4>3
    <3>4. QED
      BY <3>2, <3>3 DEF Cams
  <2>6. QED
    BY <2>5 DEF PictureCounts
<1>15. GroupTurns'
  <2>1. shooting'.at \in Shooting => OwedByAll(shooting.group)' = 0 /\ ~ToTest(shooting.group)'
    <3>1. \A S : shooting'.at \in Shooting /\ S = shooting.group => OwedByAll(S)' = 0 /\ ~ToTest(S)'
      BY <1>3, <1>6, <1>8 DEF PairSafe, GroupTurns
    <3>2. shooting' = shooting
      BY <1>3
    <3>3. QED
      BY <3>1, <3>2 DEF OwedByAll, ToTest
  <2>2. ASSUME NEW h \in Groups, References(2, h)' = 0, NEW q \in Releasers, NEW p \in Releasers,
               releasing'[q] = [at |-> "test", group |-> h], releasing'[p] = [at |-> "test", group |-> h]
        PROVE  q = p
    <3>1. CASE h = g
      <4>1. References(2, g) = 1
        <5>1. References(2, g) - 1 = 0 /\ References(2, g) \in Nat
          BY <1>2, <1>11, <2>2, <3>1, PictureFacts DEF Cams
        <5>2. QED
          BY <5>1
      <4>2. \A x \in Releasers \ {r} : releasing[x] # [at |-> "test", group |-> g]
        BY <1>5, <1>13, <4>1
      <4>3. QED
        BY <1>8, <2>2, <3>1, <4>2
    <3>2. CASE h # g
      <4>1. References(2, h) = 0
        <5>1. References(2, h)' = References(2, h) - 0 /\ References(2, h) \in Nat
          BY <1>11, <3>2, PictureFacts DEF Cams
        <5>2. QED
          BY <2>2, <5>1
      <4>2. releasing[q] = [at |-> "test", group |-> h] /\ releasing[p] = [at |-> "test", group |-> h]
        BY <1>8, <2>2, <3>2
      <4>3. QED
        BY <4>1, <4>2 DEF PairSafe, GroupTurns
    <3>3. QED
      BY <3>1, <3>2
  <2>3. QED
    BY <2>1, <2>2 DEF GroupTurns
<1>16. GroupPlaces'
  <2>1. \A h \in Groups : Busily(h)' <=> Busily(h)
    BY <1>3, <1>6, <1>8 DEF Busily
  <2>2. QED
    BY <1>3, <2>1 DEF PairSafe, GroupPlaces, CountIn
<1>17. QED
  BY <1>14, <1>15, <1>16 DEF PairSafe

\* It tests the counts of both, and the group goes back when nobody refers to it.
LEMMA RecycleSafe ==
  ASSUME PairTypes, PairPictures, PairSafe, NEW r \in Releasers, RecycleGroup(r)
  PROVE  PairSafe'
<1>1. PICK g : g = releasing[r].group
  OBVIOUS
<1>2. g \in Groups /\ releasing[r] = [at |-> "test", group |-> g] /\ ToTest(g)
  BY <1>1 DEF RecycleGroup, PairTypes, Unoccupied, ToTest
<1>3. /\ idle_groups' = (IF \A c \in Cams : r_count[c][images[g][c]] = 0
                         THEN Append(idle_groups, g) ELSE idle_groups)
      /\ ReleasingBecomes(r, Unoccupied)
      /\ UNCHANGED <<images, r_count, queued, shooting, owed, forgotten>>
  BY <1>1 DEF RecycleGroup, ReleasingBecomes
<1>4. \A h : OwedByAll(h)' = OwedByAll(h)
  BY <1>3 DEF OwedByAll
<1>5. \A h : BetweenAll(h)' = BetweenAll(h)
  <2>1. ASSUME NEW h PROVE BetweenAll(h)' = BetweenAll(h)
    <3> DEFINE v == Unoccupied
    <3>1. BetweenAll(h)' = BetweenAll(h) - Between(r, h) + (IF v.at = "second" /\ v.group = h THEN 1 ELSE 0)
      BY <1>3, BetweenChanges
    <3>2. Between(r, h) = 0 /\ v.at # "second"
      BY <1>2 DEF Between, Unoccupied
    <3>3. BetweenAll(h) \in Nat
      BY PairSums
    <3>4. QED
      BY <3>1, <3>2, <3>3
  <2>2. QED
    BY <2>1
<1>6. /\ \A h : ToTest(h)' <=> \E q \in Releasers \ {r} : releasing[q].at # "idle" /\ releasing[q].group = h
      /\ \A h : ToTest(h)' => ToTest(h)
      /\ \A q \in Releasers : \A h : releasing'[q] = [at |-> "test", group |-> h]
                                   => releasing[q] = [at |-> "test", group |-> h]
  <2> DEFINE v == Unoccupied
  <2>1. /\ \A h : ToTest(h)' <=> \/ v.at # "idle" /\ v.group = h
                                 \/ \E q \in Releasers \ {r} : releasing[q].at # "idle" /\ releasing[q].group = h
        /\ releasing'[r] = v /\ \A q \in Releasers \ {r} : releasing'[q] = releasing[q]
    BY <1>3, TestChanges
  <2>2. v.at = "idle" /\ \A h : v # [at |-> "test", group |-> h]
    BY DEF Unoccupied
  <2> HIDE DEF v
  <2>3. \A h : ToTest(h)' <=> \E q \in Releasers \ {r} : releasing[q].at # "idle" /\ releasing[q].group = h
    BY <2>1, <2>2
  <2>4. \A h : ToTest(h)' => ToTest(h)
    BY <2>3 DEF ToTest
  <2>5. QED
    BY <2>1, <2>2, <2>3, <2>4
<1>7. \A c \in Cams, h \in Groups : Left(c, h)' = Left(c, h) /\ Left(c, h) \in Nat
  BY <1>3, PictureFacts DEF Left, LeftAt
<1>8. \A c \in Cams, h \in Groups : References(c, h)' = References(c, h)
  BY <1>4, <1>5, <1>7 DEF References
<1>9. \A c \in Cams : r_count[c][images[g][c]] = References(c, g)
  <2>1. ASSUME NEW c \in Cams PROVE r_count[c][images[g][c]] = References(c, g)
    <3>1. Counted(Pictures(c), queued[c], r_count[c], Refs(c), Requests(c), Tested)
      BY DEF PairSafe, PictureCounts
    <3>2. g \in Tested
      BY <1>2 DEF Tested
    <3>3. r_count[c][Pictures(c)[g]] = Refs(c)[g]
      BY <1>2, <3>1, <3>2 DEF Counted
    <3>4. QED
      BY <1>2, <3>3 DEF Pictures, Refs
  <2>2. QED
    BY <2>1
<1>10. PictureCounts'
  <2>1. \A c \in Cams : /\ Requests(c)' = Requests(c) /\ Pictures(c)' = Pictures(c) /\ Refs(c)' = Refs(c)
                        /\ queued'[c] = queued[c] /\ r_count'[c] = r_count[c]
    BY <1>3, <1>8 DEF Requests, Pictures, Refs
  <2>2. Tested' \subseteq Tested /\ Tested' \subseteq Groups
    BY <1>6 DEF Tested
  <2>3. ASSUME NEW c \in Cams
        PROVE  Counted(Pictures(c)', queued'[c], r_count'[c], Refs(c)', Requests(c)', Tested')
    <3>1. Counted(Pictures(c), queued[c], r_count[c], Refs(c), Requests(c), Tested)
      BY DEF PairSafe, PictureCounts
    <3>2. PICK t : t = Tested'
      OBVIOUS
    <3>3. Counted(Pictures(c), queued[c], r_count[c], Refs(c), Requests(c), t)
      BY <2>2, <3>1, <3>2, TestedCounted
    <3>4. QED
      BY <2>1, <3>2, <3>3
  <2>4. QED
    BY <2>3 DEF PictureCounts
<1>11. GroupTurns'
  <2>1. shooting'.at \in Shooting => OwedByAll(shooting.group)' = 0 /\ ~ToTest(shooting.group)'
    <3>1. \A S : shooting'.at \in Shooting /\ S = shooting.group => OwedByAll(S)' = 0 /\ ~ToTest(S)'
      BY <1>3, <1>4, <1>6 DEF PairSafe, GroupTurns
    <3>2. shooting' = shooting
      BY <1>3
    <3>3. QED
      BY <3>1, <3>2 DEF OwedByAll, ToTest
  <2>2. \A h \in Groups : References(2, h)' = 0 =>
          \A q, p \in Releasers :
            releasing'[q] = [at |-> "test", group |-> h] /\ releasing'[p] = [at |-> "test", group |-> h] => q = p
    BY <1>6, <1>8 DEF PairSafe, GroupTurns, Cams
  <2>3. QED
    BY <2>1, <2>2 DEF GroupTurns
<1>12. GroupPlaces'
  <2>1. \A h \in Groups : h # g => (Busily(h)' <=> Busily(h))
    <3>1. \A h : h # g => (ToTest(h)' <=> ToTest(h))
      BY <1>2, <1>6 DEF ToTest
    <3>2. QED
      BY <1>3, <1>4, <3>1 DEF Busily
  <2>2. Busily(g)
    BY <1>2 DEF Busily
  <2>3. \A h \in Groups : h = g => (Busily(h)' <=> ~(\A c \in Cams : r_count[c][images[g][c]] = 0))
    <3>0. /\ OwedByAll(g) \in Nat /\ BetweenAll(g) \in Nat /\ \A c \in Cams : Left(c, g) \in Nat
          /\ \A q \in Releasers : Between(q, g) <= BetweenAll(g)
      BY <1>2, <1>7, PairSums
    <3>1. CASE \A c \in Cams : r_count[c][images[g][c]] = 0
      <4>1. References(1, g) = 0 /\ References(2, g) = 0
        BY <1>9, <3>1 DEF Cams
      <4>2. OwedByAll(g) = 0 /\ BetweenAll(g) = 0 /\ Left(1, g) = 0
        <5>1. 1 \in Cams /\ 2 \in Cams
          BY DEF Cams
        <5>2. References(1, g) = Left(1, g) + OwedByAll(g)
          <6>1. Left(1, g) + OwedByAll(g) \in Nat /\ References(1, g) = Left(1, g) + OwedByAll(g) + 0
            BY <3>0, <5>1 DEF References
          <6>2. QED
            BY <6>1
        <5>3. References(2, g) = Left(2, g) + OwedByAll(g) + BetweenAll(g)
          BY DEF References
        <5>4. QED
          BY <3>0, <4>1, <5>1, <5>2, <5>3
      <4>3. ~(shooting.at # "idle" /\ shooting.group = g)
        <5>1. shooting.at \in Shooting => shooting.group # g
          BY <1>2 DEF PairSafe, GroupTurns
        <5>2. shooting.at \in HandingOut => shooting.group # g
          BY <4>2 DEF Left, LeftAt, HandingOut
        <5>3. shooting.at \in Shooting \cup HandingOut \cup {"idle"}
          BY DEF PairTypes, Unoccupied
        <5>4. QED
          BY <5>1, <5>2, <5>3
      <4>4. \A h : h = g => ~ToTest(h)'
        <5>1. ASSUME NEW q \in Releasers \ {r}, releasing[q].at # "idle", releasing[q].group = g PROVE FALSE
          <6>1. releasing[q] \in [at : {"second", "test"}, group : Groups]
            BY <5>1 DEF PairTypes, Unoccupied
          <6>2. releasing[q].at # "second"
            <7>1. Between(q, g) = 0
              <8>1. Between(q, g) <= 0 /\ Between(q, g) \in {0, 1}
                BY <3>0, <4>2 DEF Between
              <8>2. QED
                BY <8>1
            <7>2. QED
              BY <5>1, <7>1 DEF Between
          <6>3. releasing[q] = [at |-> "test", group |-> g]
            BY <5>1, <6>1, <6>2
          <6>4. QED
            BY <1>2, <4>1, <6>3 DEF PairSafe, GroupTurns
        <5>2. QED
          BY <1>6, <5>1
      <4>5. \A h \in Groups : h = g => ~Busily(h)'
        BY <1>3, <1>4, <4>2, <4>3, <4>4 DEF Busily
      <4>6. QED
        BY <3>1, <4>5
    <3>2. CASE ~(\A c \in Cams : r_count[c][images[g][c]] = 0)
      <4>1. PICK c \in Cams : References(c, g) # 0
        BY <1>9, <3>2
      <4>2. Left(c, g) # 0 \/ OwedByAll(g) # 0 \/ BetweenAll(g) # 0
        BY <3>0, <4>1 DEF References
      <4>3. CASE Left(c, g) # 0
        <5>1. shooting.at # "idle" /\ shooting.group = g
          BY <4>3 DEF Left, LeftAt
        <5>2. QED
          BY <1>3, <3>2, <5>1 DEF Busily
      <4>4. CASE OwedByAll(g) # 0
        <5>1. \A h : h = g => OwedByAll(h)' > 0
          BY <1>4, <3>0, <4>4
        <5>2. QED
          BY <3>2, <5>1 DEF Busily
      <4>5. CASE BetweenAll(g) # 0
        <5>1. PICK q \in Releasers : Between(q, g) # 0
          BY <4>5, PairSums
        <5>2. releasing[q].at = "second" /\ releasing[q].group = g
          BY <5>1 DEF Between
        <5>3. q # r
          BY <1>2, <5>2
        <5>4. \A h : h = g => ToTest(h)'
          BY <1>6, <5>2, <5>3
        <5>5. QED
          BY <3>2, <5>4 DEF Busily
      <4>6. QED
        BY <4>2, <4>3, <4>4, <4>5
    <3>3. QED
      BY <3>1, <3>2
  <2>4. ASSUME NEW h \in Groups
        PROVE  CountIn(idle_groups', {h}) + (IF Busily(h)' THEN 1 ELSE 0)
                 + (IF h \in forgotten' THEN 1 ELSE 0) = 1
    <3>1. CountIn(idle_groups, {h}) + (IF Busily(h) THEN 1 ELSE 0) + (IF h \in forgotten THEN 1 ELSE 0) = 1
      BY DEF PairSafe, GroupPlaces
    <3>2. idle_groups \in Seq(Groups) /\ CountIn(idle_groups, {h}) \in Nat
      BY CountZero DEF PairTypes
    <3>3. CountIn(Append(idle_groups, g), {h}) = CountIn(idle_groups, {h}) + (IF g \in {h} THEN 1 ELSE 0)
      BY <1>2, <3>2, CountAppended
    <3>4. forgotten' = forgotten
      BY <1>3
    <3>5. CASE \A c \in Cams : r_count[c][images[g][c]] = 0
      <4>1. idle_groups' = Append(idle_groups, g)
        BY <1>3, <3>5
      <4>2. (h = g => ~Busily(h)') /\ (h # g => (Busily(h)' <=> Busily(h)))
        BY <2>1, <2>3, <3>5
      <4>3. QED
        BY <2>2, <3>1, <3>2, <3>3, <3>4, <4>1, <4>2
    <3>6. CASE ~(\A c \in Cams : r_count[c][images[g][c]] = 0)
      <4>1. idle_groups' = idle_groups
        BY <1>3, <3>6
      <4>2. Busily(h)' <=> Busily(h)
        BY <2>1, <2>2, <2>3, <3>6
      <4>3. QED
        BY <3>1, <3>4, <4>1, <4>2
    <3>7. QED
      BY <3>5, <3>6
  <2>5. QED
    BY <2>4 DEF GroupPlaces, CountIn
<1>13. QED
  BY <1>10, <1>11, <1>12 DEF PairSafe

\* Each step keeps the samples of two cameras in order.
LEMMA PairsKept == PairInv /\ (PairsCapture \/ PairsRelease \/ UNCHANGED pairVars) => PairInv'
<1> SUFFICES ASSUME PairInv, PairsCapture \/ PairsRelease \/ UNCHANGED pairVars PROVE PairInv'
  OBVIOUS
<1>1. PairTypes /\ PairPictures /\ (~raced => PairSafe)
  BY DEF PairInv
<1>2. CASE UNCHANGED pairVars
  <2>1. UNCHANGED <<idle_groups, images, r_count, queued, shooting, owed, releasing, pairs, forgotten, raced>>
    BY <1>2 DEF pairVars
  <2>2. PairTypes' /\ PairPictures'
    BY <1>1, <2>1 DEF PairTypes, PairPictures, HasPicture
  <2>3. ASSUME PairSafe PROVE PairSafe'
    <3>1. /\ \A g : OwedByAll(g)' = OwedByAll(g) /\ BetweenAll(g)' = BetweenAll(g) /\ (ToTest(g)' <=> ToTest(g))
          /\ Tested' = Tested
      BY <2>1, OwnersStay DEF SameOwners
    <3>2. \A c \in Cams, g \in Groups : References(c, g)' = References(c, g)
      BY <2>1, <3>1 DEF References, Left, LeftAt
    <3>3. \A c \in Cams : /\ Requests(c)' = Requests(c) /\ Pictures(c)' = Pictures(c) /\ Refs(c)' = Refs(c)
                          /\ queued'[c] = queued[c] /\ r_count'[c] = r_count[c]
      BY <2>1, <3>2 DEF Requests, Pictures, Refs
    <3>4. PictureCounts'
      BY <2>3, <3>1, <3>3 DEF PairSafe, PictureCounts
    <3>5. GroupTurns'
      <4>1. shooting'.at \in Shooting => OwedByAll(shooting.group)' = 0 /\ ~ToTest(shooting.group)'
        BY <2>1, <2>3 DEF PairSafe, GroupTurns, OwedByAll, ToTest
      <4>2. QED
        BY <2>1, <2>3, <3>2, <4>1 DEF PairSafe, GroupTurns, Cams
    <3>6. GroupPlaces'
      BY <2>1, <2>3, <3>1 DEF PairSafe, GroupPlaces, CountIn, Busily
    <3>7. QED
      BY <3>4, <3>5, <3>6 DEF PairSafe
  <2>4. QED
    BY <1>1, <2>1, <2>2, <2>3 DEF PairInv
<1>3. CASE PairsCapture \/ PairsRelease
  <2>1. PairTypes' /\ PairPictures'
    BY <1>1, <1>3, PairTypesKept, PairPicturesKept
  <2>2. ASSUME ~raced' PROVE PairSafe'
    <3>1. ~raced
      BY <1>3, <2>2 DEF PairsCapture, PairsRelease, PairProduce, PairForget, PairCount1, PairCount2, CountThree,
        PairDrop, PairHandOut, PairFirst, PairSecond, ReleaseFirst, ReleaseSecond, RecycleGroup
    <3>2. PairSafe
      BY <1>1, <3>1
    <3>3. CASE PairsCapture
      BY <1>1, <2>2, <3>2, <3>3, ProduceSafe, ForgetSafe, CountSafe, HandOutSafe, RequestSafe DEF PairsCapture
    <3>4. CASE PairsRelease
      BY <1>1, <2>2, <3>2, <3>4, FirstSafe, SecondSafe, RecycleSafe DEF PairsRelease
    <3>5. QED
      BY <1>3, <3>3, <3>4
  <2>3. QED
    BY <2>1, <2>2 DEF PairInv
<1>4. QED
  BY <1>2, <1>3

Below(g) == {h \in Groups : h < g}

\* As many groups are below a group as its place among them says, and each place is taken.
LEMMA GroupRanks ==
  LET N == Cardinality(Groups)
  IN  /\ N \in Nat
      /\ \A g \in Groups : Cardinality(Below(g)) \in 0 .. N - 1
      /\ \A g, h \in Groups : Cardinality(Below(g)) = Cardinality(Below(h)) => g = h
      /\ \A i \in 0 .. N - 1 : \E g \in Groups : Cardinality(Below(g)) = i
<1> DEFINE N == Cardinality(Groups)
           R(g) == Cardinality(Below(g))
<1>1. Groups \subseteq Nat /\ IsFiniteSet(Groups) /\ N \in Nat
  BY TwoCamerasAssumption, FS_CardinalityType
<1>2. \A g \in Groups : Below(g) \in SUBSET Groups /\ g \notin Below(g)
  BY <1>1 DEF Below
<1>3. \A g \in Groups : IsFiniteSet(Below(g)) /\ R(g) \in Nat
  <2> SUFFICES ASSUME NEW g \in Groups PROVE IsFiniteSet(Below(g)) /\ R(g) \in Nat
    OBVIOUS
  <2>1. IsFiniteSet(Below(g))
    BY <1>1, <1>2, FS_Subset
  <2>2. QED
    BY <2>1, FS_CardinalityType
\* What contains another set and one more is larger.
<1>4. ASSUME NEW S, NEW g \in Groups, IsFiniteSet(S), Below(g) \subseteq S, g \in S
      PROVE  R(g) < Cardinality(S)
  <2>1. /\ IsFiniteSet(Below(g)) /\ Cardinality(Below(g)) <= Cardinality(S)
        /\ (Cardinality(S) = Cardinality(Below(g)) => S = Below(g))
    BY <1>4, FS_Subset
  <2>2. S # Below(g)
    BY <1>2, <1>4
  <2>3. Cardinality(S) \in Nat /\ R(g) \in Nat
    BY <1>3, <1>4, FS_CardinalityType
  <2>4. QED
    BY <2>1, <2>2, <2>3
<1>5. \A g \in Groups : R(g) \in 0 .. N - 1
  <2> SUFFICES ASSUME NEW g \in Groups PROVE R(g) \in 0 .. N - 1
    OBVIOUS
  <2>1. R(g) < N
    BY <1>1, <1>2, <1>4
  <2>2. QED
    BY <1>1, <1>3, <2>1
<1>6. ASSUME NEW g \in Groups, NEW h \in Groups, g < h PROVE R(g) < R(h)
  <2>1. Below(g) \subseteq Below(h) /\ g \in Below(h)
    <3>1. g \in Nat /\ h \in Nat /\ \A k \in Groups : k \in Nat
      BY <1>1
    <3>2. \A k \in Groups : k < g => k < h
      BY <1>6, <3>1
    <3>3. QED
      BY <1>6, <3>2 DEF Below
  <2>2. QED
    BY <1>3, <1>4, <2>1
<1>7. \A g, h \in Groups : R(g) = R(h) => g = h
  <2> SUFFICES ASSUME NEW g \in Groups, NEW h \in Groups, R(g) = R(h), g # h PROVE FALSE
    OBVIOUS
  <2>1. g < h \/ h < g
    BY <1>1
  <2>2. R(g) \in Nat /\ R(h) \in Nat
    BY <1>3
  <2>3. (g < h => R(g) < R(h)) /\ (h < g => R(h) < R(g))
    BY <1>6
  <2> HIDE DEF R
  <2>4. QED
    BY <2>1, <2>2, <2>3
<1> DEFINE I == {R(g) : g \in Groups}
           f == [g \in Groups |-> R(g)]
<1>8. f \in Bijection(Groups, I)
  <2>1. f \in [Groups -> I] /\ \A g \in Groups : f[g] = R(g)
    OBVIOUS
  <2>2. \A g, h \in Groups : f[g] = f[h] => g = h
    BY <1>7, <2>1
  <2>3. \A i \in I : \E g \in Groups : f[g] = i
    BY <2>1
  <2> HIDE DEF f, I
  <2>4. f \in Injection(Groups, I)
    BY <2>1, <2>2 DEF Injection, IsInjective
  <2>5. f \in Surjection(Groups, I)
    BY <2>1, <2>3 DEF Surjection
  <2>6. QED
    BY <2>4, <2>5 DEF Bijection
<1> HIDE DEF f
<1>9. Cardinality(I) = N
  BY <1>1, <1>8, FS_Bijection DEF ExistsBijection
<1>10. I \in SUBSET (0 .. N - 1)
  BY <1>5
<1>11. IsFiniteSet(0 .. N - 1) /\ Cardinality(0 .. N - 1) = N
  <2>1. 0 \in Int /\ N - 1 \in Int
    BY <1>1
  <2>2. IsFiniteSet(0 .. N - 1) /\ Cardinality(0 .. N - 1) = IF 0 > N - 1 THEN 0 ELSE (N - 1) - 0 + 1
    BY <2>1, FS_Interval
  <2>3. (IF 0 > N - 1 THEN 0 ELSE (N - 1) - 0 + 1) = N
    BY <1>1
  <2>4. QED
    BY <2>2, <2>3
<1>12. I = 0 .. N - 1
  BY <1>9, <1>10, <1>11, FS_Subset
<1>13. \A i \in 0 .. N - 1 : \E g \in Groups : R(g) = i
  BY <1>12
<1>14. QED
  BY <1>1, <1>5, <1>7, <1>13

\* At the start the pool holds each group once.
LEMMA PairsStart == PairsInit => PairInv
<1> SUFFICES ASSUME PairsInit PROVE PairInv
  OBVIOUS
<1> DEFINE N == Cardinality(Groups)
           At(i) == CHOOSE g \in Groups : Cardinality(Below(g)) = i - 1
<1>1. /\ idle_groups = [i \in 1 .. N |-> At(i)]
      /\ images = [g \in Groups |-> [c \in Cams |-> NoBuffer]]
      /\ r_count = [c \in Cams |-> [b \in Buffers |-> 0]] /\ queued = [c \in Cams |-> Buffers]
      /\ shooting = Unoccupied /\ pairs = 0 /\ forgotten = {} /\ raced = FALSE
      /\ owed = [r \in Releasers |-> <<>>] /\ releasing = [r \in Releasers |-> Unoccupied]
  BY Zenon DEF PairsInit, Below
<1>2. \A i \in 1 .. N : At(i) \in Groups /\ Cardinality(Below(At(i))) = i - 1
  <2> SUFFICES ASSUME NEW i \in 1 .. N PROVE At(i) \in Groups /\ Cardinality(Below(At(i))) = i - 1
    OBVIOUS
  <2>1. N \in Nat /\ i - 1 \in 0 .. N - 1
    BY GroupRanks
  <2>2. \E g \in Groups : Cardinality(Below(g)) = i - 1
    BY <2>1, GroupRanks
  <2>3. QED
    BY <2>2
<1> HIDE DEF At
<1>3. idle_groups \in Seq(Groups) /\ DOMAIN idle_groups = 1 .. N /\ \A i \in 1 .. N : idle_groups[i] = At(i)
  <2>1. N \in Nat
    BY GroupRanks
  <2>2. idle_groups \in [1 .. N -> Groups] /\ \A i \in 1 .. N : idle_groups[i] = At(i)
    BY <1>1, <1>2
  <2> HIDE DEF N
  <2>3. idle_groups \in Seq(Groups) /\ DOMAIN idle_groups = 1 .. N
    BY <2>1, <2>2
  <2>4. QED
    BY <2>2, <2>3
<1>4. Unoccupied.at = "idle"
  BY DEF Unoccupied
<1>5. PairTypes
  <2>1. MaxPairs \in Nat
    BY TwoCamerasAssumption
  <2>2. owed \in [Releasers -> Seq(Groups)] /\ releasing \in [Releasers -> [at : {"second", "test"}, group : Groups] \cup {Unoccupied}]
    BY <1>1
  <2>3. raced \in BOOLEAN
    BY <1>1, Zenon
  <2>4. /\ images \in [Groups -> [Cams -> Buffers \cup {NoBuffer}]]
        /\ queued \in [Cams -> SUBSET Buffers] /\ r_count \in [Cams -> [Buffers -> Int]]
    BY <1>1
  <2>5. pairs \in 0 .. MaxPairs /\ forgotten \in SUBSET Groups
    BY <1>1, <2>1
  <2>6. QED
    BY <1>1, <1>3, <2>2, <2>3, <2>4, <2>5 DEF PairTypes
<1>6. PairPictures
  BY <1>1, <1>4 DEF PairPictures, HandingOut
<1>7. /\ \A g : OwedByAll(g) = 0 /\ BetweenAll(g) = 0 /\ ~ToTest(g)
      /\ \A c \in Cams : (\A g \in Groups : References(c, g) = 0) /\ Requests(c) = {}
  <2>1. \A r \in Releasers : releasing[r].at = "idle" /\ owed[r] = <<>>
    BY <1>1, <1>4
  <2>2. \A g : ~ToTest(g)
    BY <2>1 DEF ToTest
  <2>3. \A g : BetweenAll(g) = 0
    <3>1. \A g, r \in Releasers : Between(r, g) = 0
      BY <2>1 DEF Between
    <3>2. QED
      BY <1>5, <2>1, PairSums DEF Between
  <2>4. \A g : OwedByAll(g) = 0
    <3>1. \A g : \A r \in Releasers : CountIn(owed[r], {g}) = 0
      <4>1. \A r \in Releasers : owed[r] \in Seq(Groups) /\ DOMAIN owed[r] = {}
        BY <1>5, <2>1 DEF PairTypes
      <4>2. QED
        BY <4>1, CountZero
    <3>2. QED
      BY <1>5, <3>1, PairSums
  <2>5. \A c \in Cams, g \in Groups : Left(c, g) = 0
    BY <1>1, <1>4 DEF Left, LeftAt
  <2>6. \A c \in Cams, g \in Groups : References(c, g) = 0
    BY <2>3, <2>4, <2>5 DEF References
  <2>7. \A c \in Cams : Requests(c) = {}
    BY <1>1, <1>4 DEF Requests
  <2>8. QED
    BY <2>2, <2>3, <2>4, <2>6, <2>7
<1>8. PictureCounts
  <2>1. Tested = {}
    BY <1>7 DEF Tested
  <2>2. \A c \in Cams, g \in Groups : Refs(c)[g] = 0
    BY <1>7 DEF Refs
  <2>3. \A c \in Cams, b \in Buffers : r_count[c][b] = 0 /\ queued[c] = Buffers
    BY <1>1
  <2>4. \A c \in Cams : Requests(c) = {}
    BY <1>7
  <2>5. ASSUME NEW c \in Cams
        PROVE  Counted(Pictures(c), queued[c], r_count[c], Refs(c), Requests(c), Tested)
    <3>1. queued[c] = Buffers
      BY <1>1
    <3>2. QED
      BY <2>1, <2>2, <2>3, <2>4, <3>1 DEF Counted
  <2>6. QED
    BY <2>5 DEF PictureCounts
<1>9. GroupTurns
  <2>1. shooting.at \notin Shooting
    BY <1>1, <1>4 DEF Shooting
  <2>2. \A q \in Releasers : \A g : releasing[q] # [at |-> "test", group |-> g]
    BY <1>1 DEF Unoccupied
  <2>3. QED
    BY <2>1, <2>2 DEF GroupTurns
<1>10. GroupPlaces
  <2> SUFFICES ASSUME NEW g \in Groups
               PROVE  CountIn(idle_groups, {g}) + (IF Busily(g) THEN 1 ELSE 0)
                        + (IF g \in forgotten THEN 1 ELSE 0) = 1
    BY DEF GroupPlaces
  <2>1. ~Busily(g) /\ g \notin forgotten
    BY <1>1, <1>4, <1>7 DEF Busily
  <2>2. PICK k : k = Cardinality(Below(g)) + 1
    OBVIOUS
  <2>3. k \in 1 .. N /\ k - 1 = Cardinality(Below(g)) /\ N \in Nat
    BY <2>2, GroupRanks
  <2>4. \A i \in 1 .. N : At(i) = g <=> i = k
    <3>1. ASSUME NEW i \in 1 .. N, At(i) = g PROVE i = k
      BY <1>2, <2>3, <3>1
    <3>2. At(k) = g
      <4>1. At(k) \in Groups /\ Cardinality(Below(At(k))) = k - 1
        BY <1>2, <2>3
      <4>2. QED
        BY <2>3, <4>1, GroupRanks
    <3>3. QED
      BY <3>1, <3>2
  <2>5. {i \in DOMAIN idle_groups : idle_groups[i] \in {g}} = {k}
    BY <1>3, <2>3, <2>4
  <2>6. CountIn(idle_groups, {g}) = 1
    BY <2>5, FS_Singleton DEF CountIn
  <2>7. QED
    BY <2>1, <2>6
<1>11. QED
  BY <1>5, <1>6, <1>8, <1>9, <1>10 DEF PairInv, PairSafe

\* Each group of two pictures is in its pool once, or in use, or was taken out by a
\* reset, and a picture the driver has again has no reference, unless a release was
\* overtaken (video_context_release, image_capture_tsk).
THEOREM PairsReturn == Spec => []GroupsAccounted
<1>1. Init => PairInv
  BY PairsStart DEF Init
<1>2. PairInv /\ [Next]_vars => PairInv'
  BY EachOtherMove, PairsKept
<1>3. PairInv => GroupsAccounted
  <2> SUFFICES ASSUME PairInv, ~raced
               PROVE  /\ \A c \in Cams, b \in Buffers : b \in queued[c] => r_count[c][b] = 0
                      /\ \A g \in Groups : InPool(g) + (IF InUseBy(g) THEN 1 ELSE 0)
                                              + (IF g \in forgotten THEN 1 ELSE 0) = 1
    BY DEF GroupsAccounted
  <2>1. PairTypes /\ PairSafe
    BY DEF PairInv
  <2>2. \A c \in Cams, b \in Buffers : b \in queued[c] => r_count[c][b] = 0
    BY <2>1 DEF PairSafe, PictureCounts, Counted
  <2>3. ASSUME NEW g \in Groups PROVE InUseBy(g) <=> Busily(g)
    <3>1. OwedByAll(g) > 0 <=> \E r \in Releasers : CountIn(owed[r], {g}) # 0
      <4>1. /\ OwedByAll(g) \in Nat
            /\ (OwedByAll(g) = 0 <=> \A r \in Releasers : CountIn(owed[r], {g}) = 0)
        BY <2>1, PairSums
      <4>2. OwedByAll(g) > 0 <=> OwedByAll(g) # 0
        BY <4>1
      <4>3. QED
        BY <4>1, <4>2
    <3>2. \A r \in Releasers : CountIn(owed[r], {g}) # 0 <=> \E i \in DOMAIN owed[r] : owed[r][i] = g
      <4>1. \A r \in Releasers : owed[r] \in Seq(Groups)
        BY <2>1 DEF PairTypes
      <4>2. QED
        BY <4>1, CountZero
    <3>3. QED
      BY <3>1, <3>2 DEF InUseBy, Busily, ToTest
  <2>4. ASSUME NEW g \in Groups
        PROVE  InPool(g) + (IF InUseBy(g) THEN 1 ELSE 0) + (IF g \in forgotten THEN 1 ELSE 0) = 1
    <3>1. {i \in DOMAIN idle_groups : idle_groups[i] = g} = {i \in DOMAIN idle_groups : idle_groups[i] \in {g}}
      OBVIOUS
    <3>2. InPool(g) = CountIn(idle_groups, {g})
      BY <3>1 DEF InPool, CountIn
    <3>3. CountIn(idle_groups, {g}) + (IF Busily(g) THEN 1 ELSE 0) + (IF g \in forgotten THEN 1 ELSE 0) = 1
      BY <2>1 DEF PairSafe, GroupPlaces
    <3>4. QED
      BY <2>3, <3>2, <3>3
  <2>5. QED
    BY <2>2, <2>4
<1>4. QED
  BY <1>1, <1>2, <1>3, PTL DEF Spec

\* A sample has the number of its trigger, as long as what NumberIsTrigger lists
\* does not happen (sig_handler, image_capture_tsk, sc_system_reset).
THEOREM NumbersAreTriggers == Spec => []NumberIsTrigger
<1>1. Init => NumberInv
  BY NumbersStart DEF Init
<1>2. NumberInv /\ [Next]_vars => NumberInv'
  BY EachOtherMove, NumbersKept
<1>3. NumberInv => NumberIsTrigger
  BY DEF NumberInv, NumberIsTrigger
<1>4. QED
  BY <1>1, <1>2, <1>3, PTL DEF Spec

(***************************************************************************)
(* Answers.  The commands to a camera are numbered.  Those that wait have  *)
(* the last numbers; then comes the one its thread holds, then those the   *)
(* camera has still to answer, the answers in the FIFO, and the answers on *)
(* their way to the PC.                                                    *)
(* Of one camera: n commands so far, q its mailbox, l its thread, d and x  *)
(* what is due and what is in the FIFO, p the ring with its index k, and W *)
(* the answers on their way.                                               *)
(***************************************************************************)

SentOf(n, q, l) == n - Len(q) - HeldCommand(l.at)

CommandsInOrder(n, q, l) ==
  /\ SentOf(n, q, l) \in Nat
  /\ \A i \in 1 .. Len(q) : q[i].id = n - Len(q) + i
  /\ l.at \in {"check", "send"} => l.id = SentOf(n, q, l) + 1

Rising(s, last) ==
  /\ \A i \in 1 .. Len(s) : s[i].id \in 1 .. last
  /\ \A i, j \in 1 .. Len(s) : i < j => s[i].id < s[j].id

Before(x, d) == \A i \in 1 .. Len(x), j \in 1 .. Len(d) : x[i].id < d[j].id
AllBefore(W, s) == \A m \in W, j \in 1 .. Len(s) : m.id < s[j].id

\* How many commands ago entry e was given for an answer, when k is the next.
Behind(k, e) == IF e < k THEN k - e ELSE k + AnswerRing - e

\* When the index moves on, round the end, every entry but the one it leaves is one
\* further behind it.
LEMMA BehindMoves ==
  ASSUME NEW k \in 0 .. AnswerRing - 1, NEW e \in 0 .. AnswerRing - 1, e # k,
         NEW j, j = IF k + 1 = AnswerRing THEN 0 ELSE k + 1
  PROVE  Behind(j, e) = Behind(k, e) + 1
<1>1. AnswerRing \in Nat
  BY CameraLinkAssumption
<1>2. CASE k + 1 = AnswerRing
  <2>1. j = 0 /\ e < k
    BY <1>1, <1>2
  <2>2. QED
    BY <1>1, <1>2, <2>1 DEF Behind
<1>3. CASE k + 1 # AnswerRing
  <2>1. j = k + 1
    BY <1>3
  <2>2. QED
    BY <1>1, <2>1 DEF Behind
<1>4. QED
  BY <1>2, <1>3

\* An answer is in its entry until the ring has come round.
InEntry(m, p, k, l, sent) ==
  /\ m.id <= sent /\ m.ref \in 0 .. AnswerRing - 1
  /\ sent - m.id < AnswerRing =>
       /\ p[m.ref] = m.id /\ sent - m.id >= Behind(k, m.ref) - 1
       /\ l.at = "recv" => m.ref # l.ref

CameraState(n, q, l, d, x, p, k, W) ==
  /\ CommandsInOrder(n, q, l)
  /\ Rising(d, SentOf(n, q, l)) /\ Rising(x, SentOf(n, q, l)) /\ Before(x, d)
  /\ AllBefore(W, d) /\ AllBefore(W, x)
  /\ l.at = "recv" => Behind(k, l.ref) = 1
  /\ \A m \in W : InEntry(m, p, k, l, SentOf(n, q, l))

\* The answers of a camera on their way, and their order.
AnswersFrom(c) == {m \in OnTheWay : m.kind = CameraBox(c)}
InOrder(q, K) ==
  \A i, j \in 1 .. Len(q) : i < j /\ q[i].kind = K /\ q[j].kind = K => q[i].id < q[j].id
Follow(m, q, K) == m.kind = K => \A i \in 1 .. Len(q) : q[i].kind = K => m.id < q[i].id
NetOrder(K) == InOrder(box["net"], K) /\ Follow(sending["net"], box["net"], K)

Protocols == protocol \in [Cameras -> [0 .. AnswerRing - 1 -> 0 .. MaxCommands]]

CameraInv(c) ==
  /\ CameraState(commands[c], box[CameraBox(c)], lvds[c], due[c], rxfifo[c], protocol[c],
                 protocolindex[c], AnswersFrom(c))
  /\ NetOrder(CameraBox(c))

AnswerInv == Protocols /\ \A c \in Cameras : CameraInv(c)
-----------------------------------------------------------------------------
(* the steps of one camera, on values *)

Answer == [id : Nat, kind : {"query", "temperature"}]
ThreadPlace == [at : {"pend", "check", "send", "recv"}, id : Nat, ref : 0 .. AnswerRing - 1,
                kind : {"none", "query", "temperature"}]

CameraValues(n, q, l, d, x, p, k, W) ==
  /\ n \in Nat /\ q \in Seq(CameraMessages) /\ l \in ThreadPlace
  /\ d \in Seq(Answer) /\ x \in Seq(Answer)
  /\ p \in [0 .. AnswerRing - 1 -> 0 .. MaxCommands] /\ k \in 0 .. AnswerRing - 1
  /\ W \subseteq NetMessages

\* The messages in these sets have natural numbers, and sequences of them lengths.
LEMMA ValueTypes ==
  ASSUME NEW n, NEW q, NEW l, NEW d, NEW x, NEW p, NEW k, NEW W,
         CameraValues(n, q, l, d, x, p, k, W)
  PROVE  /\ n \in Nat /\ Len(q) \in Nat /\ Len(d) \in Nat /\ Len(x) \in Nat
         /\ \A i \in 1 .. Len(q) : q[i].id \in Nat
         /\ l.id \in Nat /\ l.ref \in Nat /\ l.ref < AnswerRing /\ k \in Nat /\ k < AnswerRing
         /\ l.at \in {"pend", "check", "send", "recv"} /\ AnswerRing \in Nat /\ AnswerRing > 0
         /\ \A i \in 1 .. Len(d) : d[i] \in Answer /\ d[i].id \in Nat
         /\ \A i \in 1 .. Len(x) : x[i] \in Answer /\ x[i].id \in Nat
         /\ \A m \in W : m.id \in Nat /\ m.ref \in Nat
         /\ HeldCommand(l.at) \in {0, 1}
<1>1. n \in Nat /\ Len(q) \in Nat /\ Len(d) \in Nat /\ Len(x) \in Nat
  BY DEF CameraValues
<1>2. \A i \in 1 .. Len(q) : q[i].id \in Nat
  <2>1. \A i \in 1 .. Len(q) : q[i] \in CameraMessages
    BY DEF CameraValues
  <2>2. \A m \in CameraMessages : m.id \in Nat
    BY DEF CameraMessages
  <2>3. QED
    BY <2>1, <2>2
<1>3. l.id \in Nat /\ l.ref \in Nat /\ l.ref < AnswerRing /\ k \in Nat /\ k < AnswerRing
      /\ l.at \in {"pend", "check", "send", "recv"} /\ AnswerRing \in Nat /\ AnswerRing > 0
  BY CameraLinkAssumption DEF CameraValues, ThreadPlace
<1>4. \A i \in 1 .. Len(d) : d[i] \in Answer
  <2>1. d \in Seq(Answer)
    BY DEF CameraValues
  <2>2. QED
    BY <2>1
<1>5. \A i \in 1 .. Len(x) : x[i] \in Answer
  <2>1. x \in Seq(Answer)
    BY DEF CameraValues
  <2>2. QED
    BY <2>1
<1>6. \A a \in Answer : a.id \in Nat
  BY DEF Answer
<1>7. \A m \in W : m.id \in Nat /\ m.ref \in Nat
  <2>1. \A m \in NetMessages : m.id \in Nat /\ m.ref \in Nat
    BY DEF NetMessages
  <2>2. QED
    BY <2>1 DEF CameraValues
<1>8. HeldCommand(l.at) \in {0, 1}
  BY DEF HeldCommand
<1>9. QED
  BY <1>1, <1>2, <1>3, <1>4, <1>5, <1>6, <1>7, <1>8

\* A new command gets the next number, behind those that wait.
LEMMA StateCommanded ==
  ASSUME NEW n, NEW q, NEW l, NEW d, NEW x, NEW p, NEW k, NEW W,
         CameraValues(n, q, l, d, x, p, k, W), CameraState(n, q, l, d, x, p, k, W),
         NEW r, NEW m, InsertedAt(r, q, Len(q), m), m.id = n + 1
  PROVE  CameraState(n + 1, r, l, d, x, p, k, W)
<1>1. n \in Nat /\ Len(q) \in Nat /\ HeldCommand(l.at) \in {0, 1}
      /\ \A i \in 1 .. Len(q) : q[i].id \in Nat
  BY ValueTypes
<1>2. Len(r) = Len(q) + 1 /\ \A i \in 1 .. Len(q) + 1 : r[i] = IF i <= Len(q) THEN q[i] ELSE m
  <2>1. \A i \in 1 .. Len(q) + 1 : i <= Len(q) \/ i = Len(q) + 1
    BY <1>1
  <2>2. Len(r) = Len(q) + 1
        /\ \A i \in 1 .. Len(q) + 1 : r[i] = IF i <= Len(q) THEN q[i]
                                             ELSE IF i = Len(q) + 1 THEN m ELSE q[i - 1]
    BY DEF InsertedAt
  <2>3. QED
    BY <2>1, <2>2
<1>3. SentOf(n + 1, r, l) = SentOf(n, q, l)
  BY <1>1, <1>2 DEF SentOf
<1>4. CommandsInOrder(n, q, l)
  BY DEF CameraState
<1>5. \A i \in 1 .. Len(r) : r[i].id = (n + 1) - Len(r) + i
  <2> SUFFICES ASSUME NEW i \in 1 .. Len(r) PROVE r[i].id = (n + 1) - Len(r) + i
    OBVIOUS
  <2>1. CASE i <= Len(q)
    <3>1. i \in 1 .. Len(q) /\ r[i] = q[i]
      BY <1>1, <1>2, <2>1
    <3>2. q[i].id = n - Len(q) + i
      BY <1>4, <3>1 DEF CommandsInOrder
    <3>3. QED
      BY <1>1, <1>2, <3>1, <3>2
  <2>2. CASE i = Len(q) + 1
    BY <1>1, <1>2, <2>2
  <2>3. QED
    BY <1>1, <1>2, <2>1, <2>2
<1>6. CommandsInOrder(n + 1, r, l)
  BY <1>3, <1>4, <1>5 DEF CommandsInOrder
<1>7. QED
  BY <1>3, <1>6 DEF CameraState

\* The thread takes the first command that waits.
LEMMA StatePended ==
  ASSUME NEW n, NEW q, NEW l, NEW d, NEW x, NEW p, NEW k, NEW W,
         CameraValues(n, q, l, d, x, p, k, W), CameraState(n, q, l, d, x, p, k, W),
         l.at = "pend", q # <<>>, NEW v, v.at = "check", v.id = Head(q).id
  PROVE  CameraState(n, Tail(q), v, d, x, p, k, W)
<1>1. n \in Nat /\ Len(q) \in Nat /\ \A i \in 1 .. Len(q) : q[i].id \in Nat
  BY ValueTypes
<1>2. q \in Seq(CameraMessages)
  BY DEF CameraValues
<1>3. Len(Tail(q)) = Len(q) - 1 /\ Len(q) > 0 /\ Head(q) = q[1]
      /\ \A i \in 1 .. Len(q) - 1 : Tail(q)[i] = q[i + 1]
  BY <1>2
<1>4. HeldCommand(l.at) = 0 /\ HeldCommand(v.at) = 1
  BY DEF HeldCommand
<1>5. SentOf(n, Tail(q), v) = SentOf(n, q, l) /\ SentOf(n, q, l) = n - Len(q)
  BY <1>1, <1>3, <1>4 DEF SentOf
<1>6. CommandsInOrder(n, q, l)
  BY DEF CameraState
<1>7. \A i \in 1 .. Len(q) : q[i].id = n - Len(q) + i
  BY <1>6 DEF CommandsInOrder
<1>8. \A i \in 1 .. Len(Tail(q)) : Tail(q)[i].id = n - Len(Tail(q)) + i
  <2> SUFFICES ASSUME NEW i \in 1 .. Len(q) - 1 PROVE Tail(q)[i].id = n - (Len(q) - 1) + i
    BY <1>3
  <2>1. i + 1 \in 1 .. Len(q) /\ Tail(q)[i] = q[i + 1]
    BY <1>1, <1>3
  <2>2. q[i + 1].id = n - Len(q) + (i + 1)
    BY <1>7, <2>1
  <2>3. QED
    BY <1>1, <2>1, <2>2
<1>9. v.id = SentOf(n, Tail(q), v) + 1
  <2>1. 1 \in 1 .. Len(q)
    BY <1>1, <1>3
  <2>2. q[1].id = n - Len(q) + 1
    BY <1>7, <2>1
  <2>3. QED
    BY <1>1, <1>3, <1>5, <2>2
<1>10. SentOf(n, q, l) \in Nat
  BY <1>6 DEF CommandsInOrder
<1>11. CommandsInOrder(n, Tail(q), v)
  BY <1>5, <1>8, <1>9, <1>10 DEF CommandsInOrder
<1>12. \A m \in W : InEntry(m, p, k, v, SentOf(n, q, l))
  BY DEF CameraState, InEntry
<1>13. QED
  BY <1>5, <1>11, <1>12 DEF CameraState

\* Answers that came too late are dropped before the next command is sent.
LEMMA StateChecked ==
  ASSUME NEW n, NEW q, NEW l, NEW d, NEW x, NEW p, NEW k, NEW W,
         CameraValues(n, q, l, d, x, p, k, W), CameraState(n, q, l, d, x, p, k, W),
         l.at = "check", NEW v, v.at = "send", v.id = l.id
  PROVE  CameraState(n, q, v, d, <<>>, p, k, W)
<1>1. HeldCommand(l.at) = HeldCommand(v.at)
  BY DEF HeldCommand
<1>2. SentOf(n, q, v) = SentOf(n, q, l)
  BY <1>1 DEF SentOf
<1>3. CommandsInOrder(n, q, v)
  BY <1>2 DEF CameraState, CommandsInOrder
<1>4. \A m \in W : InEntry(m, p, k, v, SentOf(n, q, l))
  BY DEF CameraState, InEntry
<1>5. 1 .. Len(<<>>) = {}
  OBVIOUS
<1>6. Rising(<<>>, SentOf(n, q, l)) /\ Before(<<>>, d) /\ AllBefore(W, <<>>)
  BY <1>5 DEF Rising, Before, AllBefore
<1>7. QED
  BY <1>2, <1>3, <1>4, <1>6 DEF CameraState

\* No entry is further behind than the ring is long.
LEMMA BehindType ==
  ASSUME NEW k \in 0 .. AnswerRing - 1, NEW e \in 0 .. AnswerRing - 1
  PROVE  Behind(k, e) \in 1 .. AnswerRing
<1>1. AnswerRing \in Nat /\ k \in Nat /\ e \in Nat /\ k < AnswerRing /\ e < AnswerRing
  BY CameraLinkAssumption
<1>2. CASE e < k
  BY <1>1, <1>2 DEF Behind
<1>3. CASE ~(e < k)
  BY <1>1, <1>3 DEF Behind
<1>4. QED
  BY <1>2, <1>3

\* Of a command that is sent the camera owes the answer, and the entry that is
\* given for it is the one furthest behind.
LEMMA StateSent ==
  ASSUME NEW n, NEW q, NEW l, NEW d, NEW x, NEW p, NEW k, NEW W,
         CameraValues(n, q, l, d, x, p, k, W), CameraState(n, q, l, d, x, p, k, W),
         l.at = "send", NEW v, v.at = "recv", v.ref = k,
         NEW a \in Answer, a.id = l.id,
         NEW j, j = IF k + 1 = AnswerRing THEN 0 ELSE k + 1
  PROVE  CameraState(n, q, v, Append(d, a), x, p, j, W)
<1> DEFINE s == SentOf(n, q, l)
           e == Append(d, a)
<1>1. /\ n \in Nat /\ Len(q) \in Nat /\ Len(d) \in Nat /\ l.id \in Nat
      /\ k \in Nat /\ k < AnswerRing /\ AnswerRing \in Nat /\ AnswerRing > 0
      /\ \A i \in 1 .. Len(d) : d[i].id \in Nat
      /\ \A m \in W : m.id \in Nat /\ m.ref \in Nat
  BY ValueTypes
<1>2. HeldCommand(l.at) = 1 /\ HeldCommand(v.at) = 0
  BY DEF HeldCommand
<1>3. SentOf(n, q, v) = s + 1
  BY <1>1, <1>2 DEF SentOf
<1>4. s \in Nat /\ l.id = s + 1 /\ \A i \in 1 .. Len(q) : q[i].id = n - Len(q) + i
  BY DEF CameraState, CommandsInOrder
<1>5. Rising(d, s) /\ AllBefore(W, d) /\ \A m \in W : InEntry(m, p, k, l, s)
  BY DEF CameraState
<1>6. Rising(x, s) /\ Before(x, d) /\ AllBefore(W, x)
  BY DEF CameraState
<1> HIDE DEF s
<1>7. Len(e) = Len(d) + 1
      /\ \A i \in 1 .. Len(e) : (i \in 1 .. Len(d) /\ e[i] = d[i]) \/ (i = Len(d) + 1 /\ e[i] = a)
  <2>1. d \in Seq(Answer)
    BY DEF CameraValues
  <2>2. QED
    BY <2>1
<1> HIDE DEF e
<1>8. Rising(e, s + 1)
  <2>1. \A i \in 1 .. Len(e) : e[i].id \in 1 .. s + 1
    <3> SUFFICES ASSUME NEW i \in 1 .. Len(e) PROVE e[i].id \in 1 .. s + 1
      OBVIOUS
    <3>1. CASE i \in 1 .. Len(d) /\ e[i] = d[i]
      <4>1. d[i].id \in 1 .. s
        BY <1>5, <3>1 DEF Rising
      <4>2. QED
        BY <1>4, <3>1, <4>1
    <3>2. CASE e[i] = a
      BY <1>4, <3>2
    <3>3. QED
      BY <1>7, <3>1, <3>2
  <2>2. \A i, h \in 1 .. Len(e) : i < h => e[i].id < e[h].id
    <3> SUFFICES ASSUME NEW i \in 1 .. Len(e), NEW h \in 1 .. Len(e), i < h PROVE e[i].id < e[h].id
      OBVIOUS
    <3>1. i \in 1 .. Len(d) /\ e[i] = d[i] /\ d[i].id \in 1 .. s
      <4>1. i \in 1 .. Len(d) /\ e[i] = d[i]
        BY <1>1, <1>7
      <4>2. QED
        BY <1>5, <4>1 DEF Rising
    <3>2. CASE h \in 1 .. Len(d) /\ e[h] = d[h]
      BY <1>5, <3>1, <3>2 DEF Rising
    <3>3. CASE e[h] = a
      BY <1>4, <3>1, <3>3
    <3>4. QED
      BY <1>7, <3>2, <3>3
  <2>3. QED
    BY <2>1, <2>2 DEF Rising
<1>9. AllBefore(W, e)
  <2> SUFFICES ASSUME NEW m \in W, NEW i \in 1 .. Len(e) PROVE m.id < e[i].id
    BY DEF AllBefore
  <2>1. m.id \in Nat /\ m.id <= s
    BY <1>1, <1>5 DEF InEntry
  <2>2. CASE i \in 1 .. Len(d) /\ e[i] = d[i]
    BY <1>5, <2>2 DEF AllBefore
  <2>3. CASE e[i] = a
    BY <1>4, <2>1, <2>3
  <2>4. QED
    BY <1>7, <2>2, <2>3
<1>10. Rising(x, s + 1) /\ Before(x, e)
  <2>1. \A i \in 1 .. Len(x) : x[i].id \in 1 .. s
    BY <1>6 DEF Rising
  <2>2. Rising(x, s + 1)
    BY <1>4, <1>6, <2>1 DEF Rising
  <2>3. ASSUME NEW i \in 1 .. Len(x), NEW h \in 1 .. Len(e) PROVE x[i].id < e[h].id
    <3>1. CASE h \in 1 .. Len(d) /\ e[h] = d[h]
      BY <1>6, <3>1 DEF Before
    <3>2. CASE e[h] = a
      BY <1>4, <2>1, <3>2
    <3>3. QED
      BY <1>7, <3>1, <3>2
  <2>4. QED
    BY <2>2, <2>3 DEF Before
<1>11. j \in 0 .. AnswerRing - 1 /\ k \in 0 .. AnswerRing - 1 /\ Behind(j, k) = 1
  <2>1. k \in Nat /\ k < AnswerRing /\ AnswerRing \in Nat
    BY <1>1
  <2>2. QED
    BY <2>1 DEF Behind
<1>12. \A m \in W : InEntry(m, p, j, v, s + 1)
  <2> SUFFICES ASSUME NEW m \in W PROVE InEntry(m, p, j, v, s + 1)
    OBVIOUS
  <2>1. m.id \in Nat /\ m.id <= s /\ m.ref \in 0 .. AnswerRing - 1
    BY <1>1, <1>5 DEF InEntry
  <2>2. CASE (s + 1) - m.id < AnswerRing
    <3>1. p[m.ref] = m.id /\ s - m.id >= Behind(k, m.ref) - 1
      <4>1. s - m.id < AnswerRing
        BY <1>1, <1>4, <2>1, <2>2
      <4>2. InEntry(m, p, k, l, s)
        BY <1>5
      <4>3. QED
        BY <4>1, <4>2 DEF InEntry
    <3>2. m.ref # k
      <4>1. Behind(k, k) = AnswerRing
        BY <1>1 DEF Behind
      <4>2. QED
        BY <1>1, <1>4, <2>1, <2>2, <3>1, <4>1
    <3>3. (s + 1) - m.id >= Behind(j, m.ref) - 1
      <4>1. Behind(j, m.ref) = Behind(k, m.ref) + 1
        BY <1>11, <2>1, <3>2, BehindMoves
      <4>2. Behind(j, m.ref) \in 1 .. AnswerRing /\ Behind(k, m.ref) \in 1 .. AnswerRing
        BY <1>11, <2>1, BehindType
      <4>3. s \in Nat /\ m.id \in Nat /\ s - m.id >= Behind(k, m.ref) - 1
        BY <1>4, <2>1, <3>1
      <4>4. QED
        BY <4>1, <4>2, <4>3
    <3>4. m.id <= s + 1
      BY <1>4, <2>1
    <3>5. QED
      BY <2>1, <3>1, <3>2, <3>3, <3>4 DEF InEntry
  <2>3. CASE ~((s + 1) - m.id < AnswerRing)
    <3>1. m.id <= s + 1
      BY <1>4, <2>1
    <3>2. QED
      BY <2>1, <2>3, <3>1 DEF InEntry
  <2>4. QED
    BY <2>2, <2>3
<1>13. CommandsInOrder(n, q, v)
  BY <1>3, <1>4 DEF CommandsInOrder
<1>14. QED
  BY <1>3, <1>8, <1>9, <1>10, <1>11, <1>12, <1>13, <1>6 DEF CameraState, e

\* The camera answers the command it has had for longest.
LEMMA StateAnswering ==
  ASSUME NEW n, NEW q, NEW l, NEW d, NEW x, NEW p, NEW k, NEW W,
         CameraValues(n, q, l, d, x, p, k, W), CameraState(n, q, l, d, x, p, k, W), d # <<>>
  PROVE  CameraState(n, q, l, Tail(d), Append(x, Head(d)), p, k, W)
<1> DEFINE s == SentOf(n, q, l)
           t == Tail(d)
           y == Append(x, Head(d))
<1>1. Len(d) \in Nat /\ Len(x) \in Nat /\ d \in Seq(Answer) /\ x \in Seq(Answer)
      /\ (\A i \in 1 .. Len(d) : d[i].id \in Nat) /\ \A i \in 1 .. Len(x) : x[i].id \in Nat
  <2>1. d \in Seq(Answer) /\ x \in Seq(Answer)
    BY DEF CameraValues
  <2>2. Len(d) \in Nat /\ Len(x) \in Nat
    BY <2>1
  <2>3. (\A i \in 1 .. Len(d) : d[i].id \in Nat) /\ \A i \in 1 .. Len(x) : x[i].id \in Nat
    BY ValueTypes
  <2>4. QED
    BY <2>1, <2>2, <2>3
<1>2. Rising(d, s) /\ Rising(x, s) /\ Before(x, d) /\ AllBefore(W, d) /\ AllBefore(W, x)
  BY DEF CameraState
<1>3. Len(d) > 0 /\ Head(d) = d[1] /\ d[1] \in Answer /\ Len(t) = Len(d) - 1
      /\ \A i \in 1 .. Len(t) : i + 1 \in 1 .. Len(d) /\ t[i] = d[i + 1]
  BY <1>1
<1>4. Len(y) = Len(x) + 1
      /\ \A i \in 1 .. Len(y) : (i \in 1 .. Len(x) /\ y[i] = x[i]) \/ (i = Len(x) + 1 /\ y[i] = d[1])
  BY <1>1, <1>3
<1>5. 1 \in 1 .. Len(d)
  BY <1>1, <1>3
<1> HIDE DEF s, t, y
<1>6. Rising(t, s)
  <2>1. \A i \in 1 .. Len(t) : t[i].id \in 1 .. s
    BY <1>2, <1>3 DEF Rising
  <2>2. \A i, j \in 1 .. Len(t) : i < j => t[i].id < t[j].id
    <3> SUFFICES ASSUME NEW i \in 1 .. Len(t), NEW j \in 1 .. Len(t), i < j PROVE t[i].id < t[j].id
      OBVIOUS
    <3>1. i + 1 < j + 1
      OBVIOUS
    <3>2. QED
      BY <1>2, <1>3, <3>1 DEF Rising
  <2>3. QED
    BY <2>1, <2>2 DEF Rising
<1>7. Rising(y, s)
  <2>1. \A i \in 1 .. Len(y) : y[i].id \in 1 .. s
    BY <1>2, <1>4, <1>5 DEF Rising
  <2>2. \A i, j \in 1 .. Len(y) : i < j => y[i].id < y[j].id
    <3> SUFFICES ASSUME NEW i \in 1 .. Len(y), NEW j \in 1 .. Len(y), i < j PROVE y[i].id < y[j].id
      OBVIOUS
    <3>1. i \in 1 .. Len(x) /\ y[i] = x[i]
      BY <1>1, <1>4
    <3>2. CASE j \in 1 .. Len(x) /\ y[j] = x[j]
      BY <1>2, <3>1, <3>2 DEF Rising
    <3>3. CASE y[j] = d[1]
      BY <1>2, <1>5, <3>1, <3>3 DEF Before
    <3>4. QED
      BY <1>4, <3>2, <3>3
  <2>3. QED
    BY <2>1, <2>2 DEF Rising
<1>8. Before(y, t)
  <2> SUFFICES ASSUME NEW i \in 1 .. Len(y), NEW j \in 1 .. Len(t) PROVE y[i].id < t[j].id
    BY DEF Before
  <2>1. j + 1 \in 1 .. Len(d) /\ t[j] = d[j + 1] /\ 1 < j + 1
    BY <1>3
  <2>2. CASE i \in 1 .. Len(x) /\ y[i] = x[i]
    BY <1>2, <2>1, <2>2 DEF Before
  <2>3. CASE y[i] = d[1]
    BY <1>2, <1>5, <2>1, <2>3 DEF Rising
  <2>4. QED
    BY <1>4, <2>2, <2>3
<1>9. AllBefore(W, t) /\ AllBefore(W, y)
  BY <1>2, <1>3, <1>4, <1>5 DEF AllBefore
<1>10. QED
  BY <1>6, <1>7, <1>8, <1>9 DEF CameraState, s, t, y

\* The wait is over without an answer.
LEMMA StateLate ==
  ASSUME NEW n, NEW q, NEW l, NEW d, NEW x, NEW p, NEW k, NEW W,
         CameraState(n, q, l, d, x, p, k, W), l.at = "recv", NEW v, v.at = "pend"
  PROVE  CameraState(n, q, v, d, x, p, k, W)
<1>1. HeldCommand(l.at) = HeldCommand(v.at)
  BY DEF HeldCommand
<1>2. SentOf(n, q, v) = SentOf(n, q, l)
  BY <1>1 DEF SentOf
<1>3. CommandsInOrder(n, q, v)
  BY <1>2 DEF CameraState, CommandsInOrder
<1>4. \A m \in W : InEntry(m, p, k, v, SentOf(n, q, l))
  BY DEF CameraState, InEntry
<1>5. QED
  BY <1>2, <1>3, <1>4 DEF CameraState

\* Answer a is written to entry e of p, and r is what it becomes; and of those in U
\* only a, in e, may be new.
Written(p, r, e, a) == r[e] = a /\ \A f \in 0 .. AnswerRing - 1 : f # e => r[f] = p[f]
Joined(W, U, e, a) == \A m \in U : m \in W \/ (m.id = a /\ m.ref = e)

\* The first answer in the FIFO is written to the entry that was given, in which
\* no answer is that is on its way; it may join those.
LEMMA StateAnswered ==
  ASSUME NEW n, NEW q, NEW l, NEW d, NEW x, NEW p, NEW k, NEW W,
         CameraValues(n, q, l, d, x, p, k, W), CameraState(n, q, l, d, x, p, k, W),
         l.at = "recv", x # <<>>, NEW v, v.at = "pend",
         NEW r, Written(p, r, l.ref, Head(x).id), NEW U, Joined(W, U, l.ref, Head(x).id)
  PROVE  CameraState(n, q, v, d, <<>>, r, k, U)
<1> DEFINE s == SentOf(n, q, l)
<1>1. /\ HeldCommand(l.at) = HeldCommand(v.at) /\ l.ref \in 0 .. AnswerRing - 1
      /\ \A i \in 1 .. Len(x) : x[i].id \in Nat
      /\ \A m \in W : m.id \in Nat
  <2>1. HeldCommand(l.at) = HeldCommand(v.at)
    BY DEF HeldCommand
  <2>2. l.ref \in 0 .. AnswerRing - 1
    BY DEF CameraValues, ThreadPlace
  <2>3. (\A i \in 1 .. Len(x) : x[i].id \in Nat) /\ \A m \in W : m.id \in Nat
    BY ValueTypes
  <2>4. QED
    BY <2>1, <2>2, <2>3
<1>2. SentOf(n, q, v) = s
  BY <1>1 DEF SentOf
<1>3. CommandsInOrder(n, q, v)
  BY <1>2 DEF CameraState, CommandsInOrder
<1>4. /\ s \in Nat /\ Rising(d, s) /\ Rising(x, s) /\ Before(x, d) /\ AllBefore(W, d)
      /\ Behind(k, l.ref) = 1 /\ \A m \in W : InEntry(m, p, k, l, s)
  BY DEF CameraState, CommandsInOrder
<1> HIDE DEF s
<1>5. 1 \in 1 .. Len(x) /\ Head(x) = x[1]
  BY DEF CameraValues
<1>6. Head(x).id \in Nat /\ Head(x).id <= s
  BY <1>1, <1>4, <1>5 DEF Rising
<1>7. AllBefore(U, d)
  BY <1>4, <1>5 DEF AllBefore, Before, Joined
<1>8. \A m \in U : InEntry(m, r, k, v, s)
  <2> SUFFICES ASSUME NEW m \in U PROVE InEntry(m, r, k, v, s)
    OBVIOUS
  <2>1. CASE m \in W
    <3>1. InEntry(m, p, k, l, s)
      BY <1>4, <2>1
    <3>2. CASE s - m.id < AnswerRing
      <4>1. m.ref # l.ref /\ p[m.ref] = m.id /\ m.ref \in 0 .. AnswerRing - 1
        BY <3>1, <3>2 DEF InEntry
      <4>2. r[m.ref] = m.id
        BY <4>1 DEF Written
      <4>3. QED
        BY <3>1, <4>2 DEF InEntry
    <3>3. QED
      BY <3>1, <3>2 DEF InEntry
  <2>2. CASE m.id = Head(x).id /\ m.ref = l.ref
    <3>1. r[m.ref] = m.id /\ m.id <= s /\ m.ref \in 0 .. AnswerRing - 1
      BY <1>1, <1>6, <2>2 DEF Written
    <3>2. Behind(k, m.ref) = 1 /\ s - m.id >= 1 - 1
      BY <1>4, <1>6, <2>2
    <3>3. v.at # "recv"
      OBVIOUS
    <3>4. QED
      BY <3>1, <3>2, <3>3 DEF InEntry
  <2>3. QED
    BY <2>1, <2>2 DEF Joined
<1>9. Rising(<<>>, s) /\ Before(<<>>, d) /\ AllBefore(U, <<>>)
  <2>1. 1 .. Len(<<>>) = {}
    OBVIOUS
  <2>2. QED
    BY <2>1 DEF Rising, Before, AllBefore
<1>10. QED
  BY <1>2, <1>3, <1>4, <1>7, <1>8, <1>9 DEF CameraState

\* Answers that are sent are on their way no longer.
LEMMA StateFewer ==
  ASSUME NEW n, NEW q, NEW l, NEW d, NEW x, NEW p, NEW k, NEW W,
         CameraState(n, q, l, d, x, p, k, W), NEW U, U \subseteq W
  PROVE  CameraState(n, q, l, d, x, p, k, U)
BY DEF CameraState, AllBefore

\* Commands start at one, with nothing due and nothing on its way.
LEMMA StateStarts ==
  ASSUME NEW l, l.at = "pend", NEW p, NEW k
  PROVE  CameraState(0, <<>>, l, <<>>, <<>>, p, k, {})
<1>1. HeldCommand(l.at) = 0 /\ Len(<<>>) = 0 /\ 1 .. Len(<<>>) = {}
  BY DEF HeldCommand
<1>2. SentOf(0, <<>>, l) = 0
  BY <1>1 DEF SentOf
<1>3. QED
  BY <1>1, <1>2 DEF CameraState, CommandsInOrder, Rising, Before, AllBefore
-----------------------------------------------------------------------------
(* the answers in net's mailbox *)

\* The order survives a message of another kind anywhere, and a last one.
LEMMA OrderInserted ==
  ASSUME NEW q \in Seq(NetMessages), NEW K, InOrder(q, K), NEW k \in 0 .. Len(q), NEW m, NEW r,
         InsertedAt(r, q, k, m),
         m.kind # K \/ (k = Len(q) /\ \A i \in 1 .. Len(q) : q[i].kind = K => q[i].id < m.id)
  PROVE  InOrder(r, K)
<1>1. Len(q) \in Nat /\ k \in Nat /\ k <= Len(q) /\ Len(r) = Len(q) + 1
  BY DEF InsertedAt
<1>2. \A i \in 1 .. Len(q) + 1 :
        \/ i <= k /\ i \in 1 .. Len(q) /\ r[i] = q[i]
        \/ i = k + 1 /\ r[i] = m
        \/ i > k + 1 /\ i - 1 \in 1 .. Len(q) /\ r[i] = q[i - 1]
  BY <1>1 DEF InsertedAt
<1>3. SUFFICES ASSUME NEW i \in 1 .. Len(q) + 1, NEW j \in 1 .. Len(q) + 1, i < j,
                      r[i].kind = K, r[j].kind = K
               PROVE  r[i].id < r[j].id
  BY <1>1 DEF InOrder
<1>4. CASE m.kind # K
  <2>1. \/ i <= k /\ i \in 1 .. Len(q) /\ r[i] = q[i]
        \/ i > k + 1 /\ i - 1 \in 1 .. Len(q) /\ r[i] = q[i - 1]
    BY <1>2, <1>3, <1>4
  <2>2. \/ j <= k /\ j \in 1 .. Len(q) /\ r[j] = q[j]
        \/ j > k + 1 /\ j - 1 \in 1 .. Len(q) /\ r[j] = q[j - 1]
    BY <1>2, <1>3, <1>4
  <2>3. PICK a \in 1 .. Len(q) : ((a = i /\ i <= k) \/ (a = i - 1 /\ i > k + 1)) /\ r[i] = q[a]
    BY <2>1
  <2>4. PICK b \in 1 .. Len(q) : r[j] = q[b] /\ a < b
    <3>1. CASE j <= k /\ j \in 1 .. Len(q) /\ r[j] = q[j]
      <4>1. a = i /\ a < j
        BY <1>1, <1>3, <2>3, <3>1
      <4>2. QED
        BY <3>1, <4>1
    <3>2. CASE j > k + 1 /\ j - 1 \in 1 .. Len(q) /\ r[j] = q[j - 1]
      <4>1. CASE i <= k
        <5>1. a = i /\ a < j - 1
          BY <1>1, <1>3, <2>3, <3>2, <4>1
        <5>2. QED
          BY <3>2, <5>1
      <4>2. CASE i > k + 1
        <5>1. a = i - 1 /\ a < j - 1
          BY <1>1, <1>3, <2>3, <3>2, <4>2
        <5>2. QED
          BY <3>2, <5>1
      <4>3. QED
        BY <2>1, <4>1, <4>2
    <3>3. QED
      BY <2>2, <3>1, <3>2
  <2>5. QED
    BY <1>3, <2>3, <2>4 DEF InOrder
<1>5. CASE k = Len(q) /\ \A h \in 1 .. Len(q) : q[h].kind = K => q[h].id < m.id
  <2>1. i \in 1 .. Len(q) /\ r[i] = q[i]
    BY <1>1, <1>2, <1>3, <1>5
  <2>2. CASE j \in 1 .. Len(q) /\ r[j] = q[j]
    BY <1>3, <2>1, <2>2 DEF InOrder
  <2>3. CASE r[j] = m
    BY <1>3, <1>5, <2>1, <2>3
  <2>4. QED
    BY <1>1, <1>2, <1>5, <2>2, <2>3
<1>6. QED
  BY <1>4, <1>5

\* A message that is taken goes before those that stay.
LEMMA OrderTail ==
  ASSUME NEW q \in Seq(NetMessages), q # <<>>, NEW K, InOrder(q, K)
  PROVE  InOrder(Tail(q), K) /\ Follow(Head(q), Tail(q), K)
<1>1. Len(q) \in Nat /\ Len(q) > 0 /\ Head(q) = q[1] /\ Len(Tail(q)) = Len(q) - 1
      /\ \A i \in 1 .. Len(q) - 1 : Tail(q)[i] = q[i + 1]
  OBVIOUS
<1>2. ASSUME NEW i \in 1 .. Len(q) - 1, NEW j \in 1 .. Len(q) - 1, i < j,
             Tail(q)[i].kind = K, Tail(q)[j].kind = K
      PROVE  Tail(q)[i].id < Tail(q)[j].id
  <2>1. i + 1 \in 1 .. Len(q) /\ j + 1 \in 1 .. Len(q) /\ i + 1 < j + 1
    BY <1>1, <1>2
  <2>2. QED
    BY <1>1, <1>2, <2>1 DEF InOrder
<1>3. ASSUME NEW i \in 1 .. Len(q) - 1, q[1].kind = K, Tail(q)[i].kind = K
      PROVE  q[1].id < Tail(q)[i].id
  <2>1. i + 1 \in 1 .. Len(q) /\ 1 \in 1 .. Len(q) /\ 1 < i + 1
    BY <1>1
  <2>2. QED
    BY <1>1, <1>3, <2>1 DEF InOrder
<1>4. QED
  BY <1>1, <1>2, <1>3 DEF InOrder, Follow

\* A message of the least priority goes to the end of the mailbox.
LEMMA QueuedLast ==
  ASSUME Sized, NEW b \in Mailboxes, NEW S, box[b] \in Seq(S), NEW m \in S, Queued(b, m),
         \A i \in DOMAIN box[b] : box[b][i].prio >= m.prio
  PROVE  InsertedAt(box'[b], box[b], Len(box[b]), m)
<1> DEFINE A == {i \in DOMAIN box[b] : box[b][i].prio >= m.prio}
<1>1. InsertedAt(box'[b], box[b], Cardinality(A), m)
  BY QueuedBox
<1>2. A = 1 .. Len(box[b]) /\ Len(box[b]) \in Nat
  <2>1. A = DOMAIN box[b]
    OBVIOUS
  <2>2. DOMAIN box[b] = 1 .. Len(box[b]) /\ Len(box[b]) \in Nat
    OBVIOUS
  <2>3. QED
    BY <2>1, <2>2
<1> HIDE DEF A
<1>3. Cardinality(A) = Len(box[b])
  <2>1. Cardinality(1 .. Len(box[b])) = Len(box[b])
    BY <1>2, FS_Interval
  <2>2. QED
    BY <1>2, <2>1
<1>4. QED
  BY <1>1, <1>3 DEF A

\* Nothing happens to the answers of one kind but that some are sent.
NetQuiet(K) ==
  \/ UNCHANGED <<box["net"], sending["net"]>>
  \/ SenderPends("net") \/ SenderRecycles("net")
  \/ \E m \in NetMessages : m.kind # K /\ Queued("net", m) /\ UNCHANGED sending["net"]

\* Then the answers of that kind are in the order they were, and there are no more
\* of them.
LEMMA QuietNet ==
  ASSUME MailTypes, NEW c \in Cameras, NetQuiet(CameraBox(c)), NetOrder(CameraBox(c))
  PROVE  NetOrder(CameraBox(c))' /\ AnswersFrom(c)' \subseteq AnswersFrom(c)
<1> DEFINE K == CameraBox(c)
           q == box["net"]
<1>1. "net" \in Mailboxes /\ q \in Seq(NetMessages) /\ Sized /\ DOMAIN sending = {"net", "ui"}
  BY BoxNames DEF MailTypes, Boxes
<1>2. InOrder(q, K) /\ Follow(sending["net"], q, K)
  BY DEF NetOrder
<1>3. SUFFICES /\ InOrder(box'["net"], K) /\ Follow(sending'["net"], box'["net"], K)
               /\ \A m \in OnTheWay' : m.kind = K => m \in OnTheWay
  BY DEF NetOrder, AnswersFrom
<1>4. K \in Mailboxes \ {"net", "ui", "local"} /\ K # "none"
  BY CameraLinkAssumption
<1> HIDE DEF K
<1>5. CASE UNCHANGED <<box["net"], sending["net"]>>
  <2>1. OnTheWay' = OnTheWay
    BY <1>5, OnTheWayMoves
  <2>2. QED
    BY <1>2, <1>5, <2>1
<1>6. CASE SenderPends("net")
  <2>1. OnTheWay' \subseteq OnTheWay
    BY <1>6, OnTheWayMoves
  <2>2. q # <<>> /\ Pending("net") /\ Received("net")
    BY <1>6 DEF SenderPends, Pending
  <2>3. box'["net"] = Tail(q)
    BY <1>1, <2>2, ReceivedBox
  <2>4. sending'["net"] = Head(q)
    BY <1>1, <1>6 DEF SenderPends
  <2>5. InOrder(Tail(q), K) /\ Follow(Head(q), Tail(q), K)
    BY <1>1, <1>2, <2>2, OrderTail
  <2>6. QED
    BY <2>1, <2>3, <2>4, <2>5
<1>7. CASE SenderRecycles("net")
  <2>1. OnTheWay' \subseteq OnTheWay
    BY <1>7, OnTheWayMoves
  <2>2. box'["net"] = q
    BY <1>7 DEF SenderRecycles
  <2>3. sending'["net"].kind # K
    BY <1>1, <1>4, <1>7 DEF SenderRecycles, Nothing, Message
  <2>4. QED
    BY <1>2, <2>1, <2>2, <2>3 DEF Follow
<1>8. ASSUME NEW m \in NetMessages, m.kind # K, Queued("net", m), UNCHANGED sending["net"]
      PROVE  /\ InOrder(box'["net"], K) /\ Follow(sending'["net"], box'["net"], K)
             /\ \A w \in OnTheWay' : w.kind = K => w \in OnTheWay
  <2>1. OnTheWay' = OnTheWay \cup {m}
    BY <1>8, OnTheWayMoves
  <2>2. PICK k \in 0 .. Len(q) : InsertedAt(box'["net"], q, k, m)
    <3> DEFINE A == {i \in DOMAIN box["net"] : box["net"][i].prio >= m.prio}
    <3>1. InsertedAt(box'["net"], box["net"], Cardinality(A), m) /\ Cardinality(A) \in 0 .. Len(box["net"])
      BY <1>1, <1>8, QueuedBox
    <3> HIDE DEF A
    <3>2. QED
      BY <3>1 DEF q
  <2>3. InOrder(box'["net"], K)
    BY <1>1, <1>2, <1>8, <2>2, OrderInserted
  <2>4. Follow(sending["net"], box'["net"], K)
    <3> SUFFICES ASSUME sending["net"].kind = K, NEW i \in 1 .. Len(box'["net"]), box'["net"][i].kind = K
                 PROVE  sending["net"].id < box'["net"][i].id
      BY DEF Follow
    <3>1. \E j \in 1 .. Len(q) : box'["net"][i] = q[j]
      <4>1. Len(q) \in Nat /\ Len(box'["net"]) = Len(q) + 1
            /\ box'["net"][i] = IF i <= k THEN q[i] ELSE IF i = k + 1 THEN m ELSE q[i - 1]
        BY <1>1, <2>2 DEF InsertedAt
      <4>2. i # k + 1
        BY <1>8, <4>1
      <4>3. CASE i <= k
        BY <4>1, <4>3
      <4>4. CASE i > k + 1
        <5>1. i - 1 \in 1 .. Len(q) /\ box'["net"][i] = q[i - 1]
          BY <4>1, <4>4
        <5>2. QED
          BY <5>1
      <4>5. QED
        BY <4>1, <4>2, <4>3, <4>4
    <3>2. QED
      BY <1>2, <3>1 DEF Follow
  <2>5. QED
    BY <1>8, <2>1, <2>3, <2>4
<1>9. QED
  BY <1>5, <1>6, <1>7, <1>8 DEF NetQuiet, K

\* An answer that is posted comes after those on their way.
LEMMA AnswerQueued ==
  ASSUME MailTypes, NEW c \in Cameras, NetOrder(CameraBox(c)), NEW m \in NetMessages,
         m.kind = CameraBox(c), Queued("net", m), UNCHANGED sending["net"],
         \A w \in AnswersFrom(c) : w.id < m.id
  PROVE  NetOrder(CameraBox(c))' /\ AnswersFrom(c)' = AnswersFrom(c) \cup {m}
<1> DEFINE K == CameraBox(c)
           q == box["net"]
<1>1. "net" \in Mailboxes /\ q \in Seq(NetMessages) /\ Sized /\ Len(q) \in Nat
  BY BoxNames DEF MailTypes, Boxes
<1>2. InOrder(q, K) /\ Follow(sending["net"], q, K)
  BY DEF NetOrder
<1>3. OnTheWay' = OnTheWay \cup {m}
  BY OnTheWayMoves
<1>4. K \notin {"none", "sample", "picture", "upload", "feedback"}
  BY CameraLinkAssumption
<1>5. m.prio = 1 /\ \A w \in NetMessages : w.prio >= 1
  BY <1>4 DEF NetMessages
<1>6. InsertedAt(box'["net"], q, Len(q), m)
  <2>1. \A i \in DOMAIN q : q[i] \in NetMessages
    BY <1>1
  <2>2. \A i \in DOMAIN q : q[i].prio >= m.prio
    BY <1>5, <2>1
  <2>3. QED
    BY <1>1, <2>2, QueuedLast
<1>7. \A i \in 1 .. Len(q) : q[i].kind = K => q[i].id < m.id
  BY <1>1 DEF AnswersFrom, OnTheWay
<1>8. InOrder(box'["net"], K)
  <2>1. Len(q) \in 0 .. Len(q)
    BY <1>1
  <2>2. QED
    BY <1>1, <1>2, <1>6, <1>7, <2>1, OrderInserted
<1>9. Follow(sending'["net"], box'["net"], K)
  <2> SUFFICES ASSUME sending["net"].kind = K, NEW i \in 1 .. Len(box'["net"]), box'["net"][i].kind = K
               PROVE  sending["net"].id < box'["net"][i].id
    BY DEF Follow
  <2>1. Len(box'["net"]) = Len(q) + 1 /\ ((i \in 1 .. Len(q) /\ box'["net"][i] = q[i]) \/ box'["net"][i] = m)
    BY <1>1, <1>6 DEF InsertedAt
  <2>2. CASE i \in 1 .. Len(q) /\ box'["net"][i] = q[i]
    BY <1>2, <2>2 DEF Follow
  <2>3. CASE box'["net"][i] = m
    <3>1. sending["net"] # Nothing
      BY <1>4 DEF Nothing, Message
    <3>2. sending["net"] \in AnswersFrom(c)
      BY <3>1 DEF AnswersFrom, OnTheWay
    <3>3. QED
      BY <2>3, <3>2
  <2>4. QED
    BY <2>1, <2>2, <2>3
<1>10. QED
  BY <1>3, <1>8, <1>9 DEF NetOrder, AnswersFrom
-----------------------------------------------------------------------------
(* steps *)

\* Camera c, its thread and its mailbox stay as they are.
CameraRests(c) ==
  /\ commands'[c] = commands[c] /\ box'[CameraBox(c)] = box[CameraBox(c)]
  /\ lvds'[c] = lvds[c] /\ due'[c] = due[c] /\ rxfifo'[c] = rxfifo[c]
  /\ protocol'[c] = protocol[c] /\ protocolindex'[c] = protocolindex[c]

\* The values of a camera have the types the lemmas above are about.
LEMMA ValuesOf ==
  ASSUME MailTypes, CommandTypes, Protocols, NEW c \in Cameras
  PROVE  /\ CameraValues(commands[c], box[CameraBox(c)], lvds[c], due[c], rxfifo[c], protocol[c],
                         protocolindex[c], AnswersFrom(c))
         /\ lvds \in [Cameras -> ThreadPlace] /\ due \in [Cameras -> Seq(Answer)]
         /\ rxfifo \in [Cameras -> Seq(Answer)] /\ protocolindex \in [Cameras -> 0 .. AnswerRing - 1]
         /\ DOMAIN commands = Cameras /\ DOMAIN protocol = Cameras
<1>1. /\ lvds \in [Cameras -> ThreadPlace] /\ due \in [Cameras -> Seq(Answer)]
      /\ rxfifo \in [Cameras -> Seq(Answer)]
  BY DEF CommandTypes, ThreadPlace, Answer
<1>2. commands \in [Cameras -> 0 .. MaxCommands] /\ protocolindex \in [Cameras -> 0 .. AnswerRing - 1]
  BY DEF CommandTypes
<1>3. protocol \in [Cameras -> [0 .. AnswerRing - 1 -> 0 .. MaxCommands]]
  BY DEF Protocols
<1>4. box[CameraBox(c)] \in Seq(CameraMessages)
  BY DEF MailTypes, Boxes
<1>5. AnswersFrom(c) \subseteq NetMessages
  <2>1. box["net"] \in Seq(NetMessages) /\ sending["net"] \in NetMessages \cup {Nothing}
    BY DEF MailTypes, Boxes
  <2>2. QED
    BY <2>1 DEF AnswersFrom, OnTheWay
<1>6. commands[c] \in Nat
  BY <1>2, CameraLinkAssumption
<1>7. QED
  BY <1>1, <1>2, <1>3, <1>4, <1>5, <1>6 DEF CameraValues

\* What a step makes of a camera's values, and leaves of the answers, is enough.
LEMMA CameraMoved ==
  ASSUME MailTypes, NEW c \in Cameras, CameraInv(c), NetQuiet(CameraBox(c)),
         CameraState(commands'[c], box'[CameraBox(c)], lvds'[c], due'[c], rxfifo'[c], protocol'[c],
                     protocolindex'[c], AnswersFrom(c))
  PROVE  CameraInv(c)'
<1>1. NetOrder(CameraBox(c))' /\ AnswersFrom(c)' \subseteq AnswersFrom(c)
  BY QuietNet DEF CameraInv
<1>2. CameraState(commands'[c], box'[CameraBox(c)], lvds'[c], due'[c], rxfifo'[c], protocol'[c],
                  protocolindex'[c], AnswersFrom(c)')
  BY <1>1, StateFewer
<1>3. QED
  BY <1>1, <1>2 DEF CameraInv

\* The cameras that do not move.
LEMMA CamerasRest ==
  ASSUME MailTypes, AnswerInv,
         NEW S \in SUBSET Cameras, \A d \in S : CameraRests(d) /\ NetQuiet(CameraBox(d))
  PROVE  \A d \in S : CameraInv(d)'
<1> SUFFICES ASSUME NEW d \in S PROVE CameraInv(d)'
  OBVIOUS
<1>1. d \in Cameras /\ CameraInv(d) /\ CameraRests(d) /\ NetQuiet(CameraBox(d))
  BY DEF AnswerInv
<1>2. CameraState(commands[d], box[CameraBox(d)], lvds[d], due[d], rxfifo[d], protocol[d],
                  protocolindex[d], AnswersFrom(d))
  BY <1>1 DEF CameraInv
<1>3. CameraState(commands'[d], box'[CameraBox(d)], lvds'[d], due'[d], rxfifo'[d], protocol'[d],
                  protocolindex'[d], AnswersFrom(d))
  BY <1>1, <1>2 DEF CameraRests
<1>4. QED
  BY <1>1, <1>3, CameraMoved

\* Other mailboxes than the cameras'.
LEMMA CameraBoxesSame ==
  ASSUME Boxes, NEW b \in {"net", "ui", "local"},
         Received(b) \/ (\E m : Queued(b, m)) \/ UNCHANGED box
  PROVE  \A c \in Cameras : box'[CameraBox(c)] = box[CameraBox(c)]
<1>1. \A c \in Cameras : CameraBox(c) \in DOMAIN box /\ CameraBox(c) # b
  BY CameraLinkAssumption DEF Boxes, Sized
<1>2. CASE Received(b)
  BY <1>1, <1>2 DEF Received
<1>3. CASE \E m : Queued(b, m)
  BY <1>1, <1>3 DEF Queued
<1>4. QED
  BY <1>2, <1>3

\* The threads of the other parts post no answers and no commands.
LEMMA OthersQuiet ==
  ASSUME Typed, MessagesPlaced,
         UplinkMoves \/ (RejectMoves /\ UNCHANGED upVars) \/ UNCHANGED <<poolVars, upVars>>,
         NEW c \in Cameras
  PROVE  box'[CameraBox(c)] = box[CameraBox(c)] /\ NetQuiet(CameraBox(c))
<1> DEFINE K == CameraBox(c)
<1> USE DEF poolVars
<1>a. Boxes /\ DOMAIN sending = {"net", "ui"}
  BY DEF Typed, MailTypes
<1>b. K \in Mailboxes \ {"net", "ui", "local"} /\ K \notin {"sample", "picture", "upload", "feedback"}
      /\ {"net", "ui", "local"} \subseteq Mailboxes
  BY CameraLinkAssumption, BoxNames
<1>c. ASSUME NEW b \in {"net", "ui", "local"}, Received(b) \/ (\E m : Queued(b, m)) \/ UNCHANGED box
      PROVE  box'[K] = box[K]
  BY <1>a, <1>c, CameraBoxesSame
<1>d. ASSUME NEW b \in Mailboxes \ {"net"}, Received(b) \/ \E m : Queued(b, m)
      PROVE  UNCHANGED box["net"]
  BY <1>a, <1>d, NetBoxSame
<1> HIDE DEF K
<1>e. ASSUME UNCHANGED <<box["net"], sending["net"]>> PROVE NetQuiet(K)
  BY <1>e DEF NetQuiet
<1>f. ASSUME NEW m \in NetMessages, m.kind \in {"sample", "picture", "upload"}, Queued("net", m),
             UNCHANGED sending["net"]
      PROVE  NetQuiet(K) /\ box'[K] = box[K]
  <2>1. m.kind # K
    BY <1>b, <1>f
  <2>2. QED
    BY <1>c, <1>f, <2>1 DEF NetQuiet
<1>g. /\ Message("upload", 1, 0, 0) \in NetMessages /\ Message("upload", 1, 0, 0).kind = "upload"
      /\ \A r \in Nat, i \in Nat :
           /\ Message("sample", 5, r, i) \in NetMessages /\ Message("sample", 5, r, i).kind = "sample"
           /\ Message("picture", 3, r, i) \in NetMessages /\ Message("picture", 3, r, i).kind = "picture"
  BY DEF Message, NetMessages
<1>h. SUFFICES box'[K] = box[K] /\ NetQuiet(K)
  BY DEF K
<1>1. CASE UplinkMoves
  <2>1. CASE LinkChanges \/ UiLinkChanges \/ PictureCheck \/ PictureClaim \/ PictureCopy
             \/ PictureProduce
             \/ (\E r \in Reporters : SampleCheck(r) \/ SampleClaim(r) \/ SampleCopy(r)
                                      \/ SampleAddress(r) \/ SampleWrap(r) \/ SampleProduce(r))
    <3>1. UNCHANGED <<box, sending>>
      BY <2>1 DEF LinkChanges, UiLinkChanges, PictureCheck, PictureClaim, PictureCopy, SampleCheck,
                  SampleClaim, SampleCopy, SampleAddress, SampleWrap, SampleProduce, PictureProduce
    <3>2. QED
      BY <1>c, <1>e, <3>1
  <2>2. ASSUME NEW r \in Reporters, SamplePost(r) PROVE NetQuiet(K) /\ box'[K] = box[K]
    <3>1. Queued("net", Message("sample", 5, reports[r].ref, reports[r].id)) /\ UNCHANGED sending
      BY <2>2, PostsQueue DEF SamplePost
    <3>2. reports[r].ref \in Nat /\ reports[r].id \in Nat
      BY ReportNumbers DEF Typed
    <3>3. QED
      BY <1>f, <1>g, <3>1, <3>2
  <2>3. CASE PicturePost
    <3>1. Queued("net", Message("picture", 3, 0, pictures)) /\ UNCHANGED sending
      BY <2>3, PostsQueue DEF PicturePost
    <3>2. pictures \in Nat
      BY UplinkAssumption DEF Typed, ReportTypes
    <3>3. QED
      BY <1>f, <1>g, <3>1, <3>2
  <2>4. CASE CheckedUpload \/ UncheckedUpload
    <3>1. UNCHANGED sending /\ (UNCHANGED box \/ Queued("net", Message("upload", 1, 0, 0)))
      BY <2>4 DEF CheckedUpload, UncheckedUpload, Posted, upVars
    <3>2. QED
      BY <1>c, <1>e, <1>f, <1>g, <3>1
  <2>5. CASE UiUpload
    <3>1. UNCHANGED sending /\ \E m : Queued("ui", m)
      BY <2>5 DEF UiUpload, Posted, upVars
    <3>2. QED
      BY <1>b, <1>c, <1>d, <1>e, <3>1
  <2>6. CASE SenderPends("net") \/ SenderRecycles("net")
    <3>1. Received("net") \/ UNCHANGED box
      BY <2>6 DEF SenderPends, SenderRecycles
    <3>2. QED
      BY <1>c, <2>6, <3>1 DEF NetQuiet
  <2>7. CASE SenderPends("ui") \/ SenderRecycles("ui")
    <3>1. Received("ui") \/ UNCHANGED box
      BY <2>7 DEF SenderPends, SenderRecycles
    <3>2. UNCHANGED sending["net"]
      BY <1>a, <2>7 DEF SenderPends, SenderRecycles
    <3>3. QED
      BY <1>b, <1>c, <1>d, <1>e, <3>1, <3>2
  <2>8. QED
    BY <1>1, <2>1, <2>2, <2>3, <2>4, <2>5, <2>6, <2>7 DEF UplinkMoves, ReportStep, PictureStep
<1>2. CASE RejectMoves /\ UNCHANGED upVars
  <2>1. UNCHANGED box \/ Received("local") \/ \E m : Queued("local", m)
    BY <1>2 DEF RejectMoves, RejectStarts, RejectDies, RejectReads, LocalAccepts, LocalWrites,
              LocalDrops, LocalPends, LocalDone, LocalWakes, LocalReceives, LocalCloses,
              send_handshake_cmd, ResetBegins, send_reset_cmd, ResetEnds,
              get_sample_result_array, FillResult, PostResult, Posted
  <2>2. UNCHANGED sending
    BY <1>2 DEF upVars
  <2>3. QED
    BY <1>b, <1>c, <1>d, <1>e, <2>1, <2>2
<1>3. CASE UNCHANGED <<poolVars, upVars>>
  <2>1. UNCHANGED <<box, sending>>
    BY <1>3 DEF upVars
  <2>2. QED
    BY <1>c, <1>e, <2>1
<1>4. QED
  BY <1>1, <1>2, <1>3

OnlyCamera(c) == \A d \in Cameras \ {c} : CameraRests(d) /\ NetQuiet(CameraBox(d))

\* When camera c alone has moved, the invariant holds if it does for that camera.
LEMMA OneCamera ==
  ASSUME MailTypes, AnswerInv, NEW c \in Cameras, OnlyCamera(c), CameraInv(c)', Protocols'
  PROVE  AnswerInv'
<1>1. \A d \in Cameras \ {c} : CameraInv(d)'
  BY CamerasRest DEF OnlyCamera
<1>2. QED
  BY <1>1 DEF AnswerInv

\* The mailboxes of the other cameras are others.
LEMMA CameraBoxesDiffer ==
  ASSUME NEW c \in Cameras, NEW d \in Cameras \ {c}
  PROVE  CameraBox(d) # CameraBox(c) /\ CameraBox(d) \in Mailboxes /\ "net" \in Mailboxes
BY BoxNames, CameraLinkAssumption

\* A command of the PC or for the temperature.
LEMMA AnswersCommanded ==
  ASSUME MailTypes, CommandTypes, AnswerInv, UNCHANGED upVars,
         NEW c \in Cameras, NEW kind \in {"query", "temperature"}, Command(c, kind)
  PROVE  AnswerInv'
<1> DEFINE b == CameraBox(c)
           m == Message(kind, 0, c, commands[c] + 1)
<1>1. CameraInv(c) /\ Protocols
  BY DEF AnswerInv
<1>2. b \in Mailboxes /\ b # "net" /\ "net" \in Mailboxes /\ box[b] \in Seq(CameraMessages) /\ Sized
  BY BoxNames DEF MailTypes, Boxes
<1>3. commands[c] \in Nat /\ commands \in [Cameras -> 0 .. MaxCommands]
  BY CameraLinkAssumption DEF CommandTypes
<1>4. m \in CameraMessages /\ m.prio = 0 /\ m.id = commands[c] + 1
  BY <1>3, CameraLinkAssumption DEF Message, CameraMessages
<1>5. Queued(b, m)
  BY DEF Command, Posted
<1>6. UNCHANGED <<sending, lvds, due, rxfifo, protocol, protocolindex>>
      /\ commands'[c] = commands[c] + 1
      /\ \A d \in Cameras \ {c} : commands'[d] = commands[d]
  BY <1>3 DEF Command, upVars
<1> HIDE DEF m
<1>7. \A i \in DOMAIN box[b] : box[b][i].prio >= m.prio
  <2>1. \A i \in DOMAIN box[b] : box[b][i] \in CameraMessages
    BY <1>2
  <2>2. \A w \in CameraMessages : w.prio = 0
    BY DEF CameraMessages
  <2>3. QED
    BY <1>4, <2>1, <2>2
<1>8. InsertedAt(box'[b], box[b], Len(box[b]), m)
  BY <1>2, <1>4, <1>5, <1>7, QueuedLast
<1>9. \A d \in Mailboxes \ {b} : box'[d] = box[d]
  BY <1>2, <1>4, <1>5, QueuedBox
<1>10. NetQuiet(b)
  BY <1>2, <1>6, <1>9 DEF NetQuiet
<1>11. CameraState(commands[c] + 1, box'[b], lvds[c], due[c], rxfifo[c], protocol[c], protocolindex[c],
                   AnswersFrom(c))
  <2>1. CameraValues(commands[c], box[b], lvds[c], due[c], rxfifo[c], protocol[c], protocolindex[c],
                     AnswersFrom(c))
    BY <1>1, ValuesOf
  <2>2. CameraState(commands[c], box[b], lvds[c], due[c], rxfifo[c], protocol[c], protocolindex[c],
                    AnswersFrom(c))
    BY <1>1 DEF CameraInv
  <2> HIDE DEF b
  <2>3. QED
    BY <1>4, <1>8, <2>1, <2>2, StateCommanded
<1>12. CameraInv(c)'
  BY <1>1, <1>6, <1>10, <1>11, CameraMoved
<1>13. OnlyCamera(c)
  BY <1>2, <1>6, <1>9, CameraBoxesDiffer DEF OnlyCamera, CameraRests, NetQuiet
<1>14. Protocols'
  BY <1>1, <1>6 DEF Protocols
<1>15. QED
  BY <1>12, <1>13, <1>14, OneCamera

\* The thread of the camera receives it.
LEMMA AnswersPended ==
  ASSUME MailTypes, CommandTypes, AnswerInv, NEW c \in Cameras, CameraPends(c)
  PROVE  AnswerInv'
<1> DEFINE b == CameraBox(c)
           v == [at |-> "check", id |-> Head(box[b]).id, kind |-> Head(box[b]).kind, ref |-> 0]
<1>1. CameraInv(c) /\ Protocols
  BY DEF AnswerInv
<1>2. b \in Mailboxes /\ b # "net" /\ "net" \in Mailboxes /\ box[b] \in Seq(CameraMessages) /\ Sized
      /\ lvds \in [Cameras -> ThreadPlace]
  BY <1>1, BoxNames, ValuesOf DEF MailTypes, Boxes
<1>3. lvds[c].at = "pend" /\ Pending(b) /\ Received(b) /\ box[b] # <<>>
  BY DEF CameraPends, Pending
<1>4. UNCHANGED <<sending, commands, due, rxfifo, protocol, protocolindex>>
  BY DEF CameraPends, upVars
<1>5. lvds'[c] = v /\ \A d \in Cameras \ {c} : lvds'[d] = lvds[d]
  BY <1>2 DEF CameraPends
<1>6. v.at = "check" /\ v.id = Head(box[b]).id
  OBVIOUS
<1> HIDE DEF v
<1>7. box'[b] = Tail(box[b]) /\ \A d \in Mailboxes \ {b} : box'[d] = box[d]
  BY <1>2, <1>3, ReceivedBox
<1>8. NetQuiet(b)
  BY <1>2, <1>4, <1>7 DEF NetQuiet
<1>9. CameraState(commands[c], Tail(box[b]), v, due[c], rxfifo[c], protocol[c], protocolindex[c],
                  AnswersFrom(c))
  <2>1. CameraValues(commands[c], box[b], lvds[c], due[c], rxfifo[c], protocol[c], protocolindex[c],
                     AnswersFrom(c))
    BY <1>1, ValuesOf
  <2>2. CameraState(commands[c], box[b], lvds[c], due[c], rxfifo[c], protocol[c], protocolindex[c],
                    AnswersFrom(c))
    BY <1>1 DEF CameraInv
  <2> HIDE DEF b
  <2>3. QED
    BY <1>3, <1>6, <2>1, <2>2, StatePended
<1>10. CameraInv(c)'
  BY <1>1, <1>4, <1>5, <1>7, <1>8, <1>9, CameraMoved
<1>11. OnlyCamera(c)
  BY <1>2, <1>4, <1>5, <1>7, CameraBoxesDiffer DEF OnlyCamera, CameraRests, NetQuiet
<1>12. Protocols'
  BY <1>1, <1>4 DEF Protocols
<1>13. QED
  BY <1>10, <1>11, <1>12, OneCamera

\* It empties the FIFO, sends, or gives up; or the camera answers.  None of these
\* touches a mailbox.
LEMMA AnswersSameBoxes ==
  ASSUME MailTypes, CommandTypes, AnswerInv, UNCHANGED box, UNCHANGED upVars, NEW c \in Cameras,
         CameraChecks(c) \/ CameraSends(c) \/ CameraAnswers(c)
  PROVE  AnswerInv'
<1> DEFINE b == CameraBox(c)
           l == lvds[c]
           k == protocolindex[c]
<1>1. CameraInv(c) /\ Protocols /\ UNCHANGED <<box, sending>>
  BY DEF AnswerInv, upVars
<1>2. /\ CameraValues(commands[c], box[b], l, due[c], rxfifo[c], protocol[c], k, AnswersFrom(c))
      /\ lvds \in [Cameras -> ThreadPlace] /\ due \in [Cameras -> Seq(Answer)]
      /\ rxfifo \in [Cameras -> Seq(Answer)] /\ protocolindex \in [Cameras -> 0 .. AnswerRing - 1]
  BY <1>1, ValuesOf
<1>3. CameraState(commands[c], box[b], l, due[c], rxfifo[c], protocol[c], k, AnswersFrom(c))
  BY <1>1 DEF CameraInv
<1>4. \A d \in Cameras : NetQuiet(CameraBox(d))
  BY <1>1 DEF NetQuiet
<1>5. CASE CameraChecks(c)
  <2> DEFINE v == [l EXCEPT !.at = "send"]
  <2>1. l \in ThreadPlace
    BY <1>2
  <2>2. l.at = "check" /\ v.at = "send" /\ v.id = l.id
    BY <1>5, <2>1 DEF CameraChecks, ThreadPlace
  <2>3. UNCHANGED <<commands, due, protocol, protocolindex>>
    BY <1>5 DEF CameraChecks
  <2>4. /\ lvds'[c] = v /\ rxfifo'[c] = <<>>
        /\ \A d \in Cameras \ {c} : lvds'[d] = lvds[d] /\ rxfifo'[d] = rxfifo[d]
    BY <1>2, <1>5 DEF CameraChecks
  <2> HIDE DEF v, b, k, l
  <2>5. CameraState(commands[c], box[b], v, due[c], <<>>, protocol[c], k, AnswersFrom(c))
    BY <1>2, <1>3, <2>2, StateChecked
  <2>6. CameraInv(c)'
    BY <1>1, <1>4, <2>3, <2>4, <2>5, CameraMoved DEF b, k
  <2>7. OnlyCamera(c)
    BY <1>1, <1>4, <2>3, <2>4 DEF OnlyCamera, CameraRests
  <2>8. Protocols'
    BY <1>1, <2>3 DEF Protocols
  <2>9. QED
    BY <2>6, <2>7, <2>8, OneCamera
<1>6. CASE CameraSends(c)
  <2> DEFINE v == [l EXCEPT !.at = "recv", !.ref = k]
             a == [id |-> l.id, kind |-> l.kind]
             j == (k + 1) % AnswerRing
  <2>1. l \in ThreadPlace /\ k \in 0 .. AnswerRing - 1 /\ AnswerRing \in Nat \ {0}
    BY <1>2, CameraLinkAssumption
  <2>2. l.at = "send" /\ v.at = "recv" /\ v.ref = k
    BY <1>6, <2>1 DEF CameraSends, ThreadPlace
  <2>3. a \in Answer /\ a.id = l.id
    <3>1. l.kind # "none"
      BY <1>6 DEF CameraSends, CommandTypes
    <3>2. QED
      BY <2>1, <3>1 DEF ThreadPlace, Answer
  <2>4. UNCHANGED <<commands, rxfifo, protocol>>
    BY <1>6 DEF CameraSends
  <2>5. /\ lvds'[c] = v /\ due'[c] = Append(due[c], a) /\ protocolindex'[c] = j
        /\ \A d \in Cameras \ {c} : lvds'[d] = lvds[d] /\ due'[d] = due[d]
                                    /\ protocolindex'[d] = protocolindex[d]
    BY <1>2, <1>6 DEF CameraSends
  <2>6. j = IF k + 1 = AnswerRing THEN 0 ELSE k + 1
    <3> HIDE DEF k
    <3>1. CASE k + 1 = AnswerRing
      BY <2>1, <3>1
    <3>2. CASE k + 1 # AnswerRing
      <4>1. k + 1 \in 0 .. AnswerRing - 1
        BY <2>1, <3>2
      <4>2. QED
        BY <2>1, <3>2, <4>1
    <3>3. QED
      BY <3>1, <3>2
  <2> HIDE DEF v, b, k, l, a, j
  <2>7. CameraState(commands[c], box[b], v, Append(due[c], a), rxfifo[c], protocol[c], j, AnswersFrom(c))
    BY <1>2, <1>3, <2>2, <2>3, <2>6, StateSent
  <2>8. CameraInv(c)'
    BY <1>1, <1>4, <2>4, <2>5, <2>7, CameraMoved DEF b
  <2>9. OnlyCamera(c)
    BY <1>1, <1>4, <2>4, <2>5 DEF OnlyCamera, CameraRests
  <2>10. Protocols'
    BY <1>1, <2>4 DEF Protocols
  <2>11. QED
    BY <2>8, <2>9, <2>10, OneCamera
<1>7. CASE CameraAnswers(c)
  <2>1. UNCHANGED <<commands, lvds, protocol, protocolindex>> /\ due[c] # <<>>
    BY <1>7 DEF CameraAnswers
  <2>2. /\ due'[c] = Tail(due[c]) /\ rxfifo'[c] = Append(rxfifo[c], Head(due[c]))
        /\ \A d \in Cameras \ {c} : due'[d] = due[d] /\ rxfifo'[d] = rxfifo[d]
    BY <1>2, <1>7 DEF CameraAnswers
  <2> HIDE DEF b, k, l
  <2>3. CameraState(commands[c], box[b], l, Tail(due[c]), Append(rxfifo[c], Head(due[c])), protocol[c],
                    k, AnswersFrom(c))
    BY <1>2, <1>3, <2>1, StateAnswering
  <2>4. CameraInv(c)'
    BY <1>1, <1>4, <2>1, <2>2, <2>3, CameraMoved DEF b, k, l
  <2>5. OnlyCamera(c)
    BY <1>1, <1>4, <2>1, <2>2 DEF OnlyCamera, CameraRests
  <2>6. Protocols'
    BY <1>1, <2>1 DEF Protocols
  <2>7. QED
    BY <2>4, <2>5, <2>6, OneCamera
<1>8. QED
  BY <1>5, <1>6, <1>7

\* A failure is reported to the PC, as no camera's answer.
LEMMA FeedbackQuiet ==
  ASSUME MailTypes, Feedback \/ UNCHANGED <<free, box>>, UNCHANGED sending, NEW c \in Cameras
  PROVE  NetQuiet(CameraBox(c)) /\ box'[CameraBox(c)] = box[CameraBox(c)]
<1> DEFINE m == Message("feedback", 1, 0, 0)
<1>1. m \in NetMessages /\ m.kind = "feedback" /\ CameraBox(c) # "feedback"
  BY CameraLinkAssumption DEF Message, NetMessages
<1>2. UNCHANGED box \/ Queued("net", m)
  BY DEF Feedback, Posted
<1> HIDE DEF m
<1>3. Boxes
  BY DEF MailTypes
<1>4. box'[CameraBox(c)] = box[CameraBox(c)]
  BY <1>2, <1>3, CameraBoxesSame
<1>5. CASE UNCHANGED box
  BY <1>4, <1>5 DEF NetQuiet
<1>6. CASE Queued("net", m)
  BY <1>1, <1>4, <1>6 DEF NetQuiet
<1>7. QED
  BY <1>2, <1>5, <1>6

\* The wait is over without an answer.
LEMMA AnswersLate ==
  ASSUME MailTypes, CommandTypes, AnswerInv, NEW c \in Cameras, AnswerLate(c)
  PROVE  AnswerInv'
<1>1. CameraInv(c) /\ Protocols /\ lvds \in [Cameras -> ThreadPlace]
  BY ValuesOf DEF AnswerInv
<1>2. CameraState(commands[c], box[CameraBox(c)], lvds[c], due[c], rxfifo[c], protocol[c],
                  protocolindex[c], AnswersFrom(c))
  BY <1>1 DEF CameraInv
<1>3. UNCHANGED <<sending, commands, due, rxfifo, protocol, protocolindex>> /\ lvds[c].at = "recv"
  BY DEF AnswerLate, upVars
<1>4. lvds'[c] = Resting /\ \A d \in Cameras \ {c} : lvds'[d] = lvds[d]
  BY <1>1 DEF AnswerLate
<1>5. \A d \in Cameras : NetQuiet(CameraBox(d)) /\ box'[CameraBox(d)] = box[CameraBox(d)]
  BY <1>3, FeedbackQuiet DEF AnswerLate
<1>6. Resting.at = "pend"
  BY DEF Resting
<1>7. CameraState(commands[c], box[CameraBox(c)], Resting, due[c], rxfifo[c], protocol[c],
                  protocolindex[c], AnswersFrom(c))
  BY <1>2, <1>3, <1>6, StateLate
<1>8. CameraInv(c)'
  BY <1>1, <1>3, <1>4, <1>5, <1>7, CameraMoved
<1>9. OnlyCamera(c)
  BY <1>3, <1>4, <1>5 DEF OnlyCamera, CameraRests
<1>10. Protocols'
  BY <1>1, <1>3 DEF Protocols
<1>11. QED
  BY <1>8, <1>9, <1>10, OneCamera

\* What an answer that is read makes of its camera: the entry is written, and the
\* answer may join those on their way.
LEMMA AnswerWritten ==
  ASSUME MailTypes, CommandTypes, AnswerInv, NEW c \in Cameras, Answered(c)
  PROVE  /\ UNCHANGED <<sending, commands, due, protocolindex>> /\ Protocols'
         /\ \A d \in Cameras \ {c} :
              lvds'[d] = lvds[d] /\ rxfifo'[d] = rxfifo[d] /\ protocol'[d] = protocol[d]
         /\ \A U : Joined(AnswersFrom(c), U, lvds[c].ref, Head(rxfifo[c]).id) =>
              CameraState(commands'[c], box[CameraBox(c)], lvds'[c], due'[c], rxfifo'[c], protocol'[c],
                          protocolindex'[c], U)
         /\ lvds[c].ref \in Nat /\ Head(rxfifo[c]).id \in Nat
         /\ \A w \in AnswersFrom(c) : w.id < Head(rxfifo[c]).id
<1> DEFINE l == lvds[c]
           x == rxfifo[c]
           p == protocol[c]
           r == [p EXCEPT ![l.ref] = Head(x).id]
<1>1. CameraInv(c) /\ Protocols
  BY DEF AnswerInv
<1>2. /\ CameraValues(commands[c], box[CameraBox(c)], l, due[c], x, p, protocolindex[c], AnswersFrom(c))
      /\ lvds \in [Cameras -> ThreadPlace] /\ rxfifo \in [Cameras -> Seq(Answer)]
      /\ DOMAIN protocol = Cameras
  BY <1>1, ValuesOf
<1>3. CameraState(commands[c], box[CameraBox(c)], l, due[c], x, p, protocolindex[c], AnswersFrom(c))
  BY <1>1 DEF CameraInv
<1>4. l.at = "recv" /\ x # <<>> /\ UNCHANGED <<sending, commands, due, protocolindex>>
  BY DEF Answered, upVars
<1>5. /\ lvds'[c] = Resting /\ rxfifo'[c] = <<>> /\ protocol'[c] = r
      /\ \A d \in Cameras \ {c} :
           lvds'[d] = lvds[d] /\ rxfifo'[d] = rxfifo[d] /\ protocol'[d] = protocol[d]
  BY <1>2 DEF Answered
<1>6. p \in [0 .. AnswerRing - 1 -> 0 .. MaxCommands] /\ l.ref \in 0 .. AnswerRing - 1
  BY <1>2 DEF CameraValues, ThreadPlace
<1>7. Written(p, r, l.ref, Head(x).id)
  BY <1>6 DEF Written
<1>8. Head(x).id \in 0 .. MaxCommands /\ Head(x).id \in Nat
  <2>1. 1 \in 1 .. Len(x) /\ Head(x) = x[1]
    BY <1>2, <1>4
  <2>2. Head(x).id \in 1 .. SentOf(commands[c], box[CameraBox(c)], l)
    BY <1>3, <2>1 DEF CameraState, Rising
  <2>3. SentOf(commands[c], box[CameraBox(c)], l) <= commands[c]
        /\ SentOf(commands[c], box[CameraBox(c)], l) \in Nat
    <3>1. /\ commands[c] \in Nat /\ Len(box[CameraBox(c)]) \in Nat /\ HeldCommand(l.at) \in {0, 1}
      BY <1>2, ValueTypes
    <3>2. SentOf(commands[c], box[CameraBox(c)], l) \in Nat
      BY <1>3 DEF CameraState, CommandsInOrder
    <3>3. QED
      BY <3>1, <3>2 DEF SentOf
  <2>4. commands[c] <= MaxCommands /\ MaxCommands \in Nat /\ commands[c] \in Nat
    BY CameraLinkAssumption DEF CommandTypes
  <2> HIDE DEF x, l
  <2>5. QED
    BY <2>2, <2>3, <2>4
<1>9. Protocols'
  <2>1. r \in [0 .. AnswerRing - 1 -> 0 .. MaxCommands]
    BY <1>6, <1>8
  <2>2. protocol' = [protocol EXCEPT ![c] = r]
    BY DEF Answered
  <2> HIDE DEF r
  <2>3. QED
    BY <1>1, <2>1, <2>2 DEF Protocols
<1>10. Resting.at = "pend" /\ l.ref \in Nat
  BY <1>6, CameraLinkAssumption DEF Resting
<1>11. \A w \in AnswersFrom(c) : w.id < Head(x).id
  <2>1. 1 \in 1 .. Len(x) /\ Head(x) = x[1]
    BY <1>2, <1>4
  <2>2. QED
    BY <1>3, <2>1 DEF CameraState, AllBefore
<1> HIDE DEF r, p, x, l
<1>12. ASSUME NEW U, Joined(AnswersFrom(c), U, l.ref, Head(x).id)
       PROVE  CameraState(commands[c], box[CameraBox(c)], Resting, due[c], <<>>, r, protocolindex[c], U)
  BY <1>2, <1>3, <1>4, <1>7, <1>10, <1>12, StateAnswered
<1>13. QED
  BY <1>4, <1>5, <1>8, <1>9, <1>10, <1>11, <1>12 DEF x, l

\* A temperature is stored, an answer with a wrong checksum reported.
LEMMA AnswersStored ==
  ASSUME MailTypes, CommandTypes, AnswerInv, NEW c \in Cameras, Answered(c),
         Feedback \/ UNCHANGED <<free, box>>
  PROVE  AnswerInv'
<1>1. CameraInv(c)
  BY DEF AnswerInv
<1>2. /\ UNCHANGED <<sending, commands, due, protocolindex>> /\ Protocols'
      /\ \A d \in Cameras \ {c} :
           lvds'[d] = lvds[d] /\ rxfifo'[d] = rxfifo[d] /\ protocol'[d] = protocol[d]
      /\ CameraState(commands'[c], box[CameraBox(c)], lvds'[c], due'[c], rxfifo'[c], protocol'[c],
                     protocolindex'[c], AnswersFrom(c))
  BY AnswerWritten DEF Joined
<1>3. \A d \in Cameras : NetQuiet(CameraBox(d)) /\ box'[CameraBox(d)] = box[CameraBox(d)]
  BY <1>2, FeedbackQuiet
<1>4. CameraInv(c)'
  BY <1>1, <1>2, <1>3, CameraMoved
<1>5. OnlyCamera(c)
  BY <1>2, <1>3 DEF OnlyCamera, CameraRests
<1>6. QED
  BY <1>2, <1>4, <1>5, OneCamera

\* Any other answer is posted to the PC, behind those that are on their way.
LEMMA AnswersForwarded ==
  ASSUME MailTypes, CommandTypes, AnswerInv, NEW c \in Cameras, AnswerForwarded(c)
  PROVE  AnswerInv'
<1> DEFINE m == Message(CameraBox(c), 1, lvds[c].ref, Head(rxfifo[c]).id)
<1>1. Answered(c) /\ (UNCHANGED <<free, box>> \/ Queued("net", m))
  BY DEF AnswerForwarded, Posted
<1>2. CASE UNCHANGED <<free, box>>
  BY <1>1, <1>2, AnswersStored
<1>3. CASE Queued("net", m)
  <2>1. CameraInv(c) /\ NetOrder(CameraBox(c))
    BY DEF AnswerInv, CameraInv
  <2>2. /\ UNCHANGED <<sending, commands, due, protocolindex>> /\ Protocols'
        /\ \A d \in Cameras \ {c} :
             lvds'[d] = lvds[d] /\ rxfifo'[d] = rxfifo[d] /\ protocol'[d] = protocol[d]
        /\ lvds[c].ref \in Nat /\ Head(rxfifo[c]).id \in Nat
        /\ \A w \in AnswersFrom(c) : w.id < Head(rxfifo[c]).id
    BY <1>1, AnswerWritten
  <2>3. m \in NetMessages /\ m.kind = CameraBox(c) /\ m.id = Head(rxfifo[c]).id /\ m.ref = lvds[c].ref
    BY <2>2 DEF Message, NetMessages
  <2>4. CameraState(commands'[c], box[CameraBox(c)], lvds'[c], due'[c], rxfifo'[c], protocol'[c],
                    protocolindex'[c], AnswersFrom(c) \cup {m})
    <3> HIDE DEF m
    <3> DEFINE U == AnswersFrom(c) \cup {m}
    <3>1. Joined(AnswersFrom(c), U, lvds[c].ref, Head(rxfifo[c]).id)
      BY <2>3 DEF Joined
    <3> HIDE DEF U
    <3>2. CameraState(commands'[c], box[CameraBox(c)], lvds'[c], due'[c], rxfifo'[c], protocol'[c],
                      protocolindex'[c], U)
      BY <1>1, <3>1, AnswerWritten
    <3>3. QED
      BY <3>2 DEF U
  <2> HIDE DEF m
  <2>5. NetOrder(CameraBox(c))' /\ AnswersFrom(c)' = AnswersFrom(c) \cup {m}
    BY <1>3, <2>1, <2>2, <2>3, AnswerQueued
  <2>6. \A d \in Cameras : box'[CameraBox(d)] = box[CameraBox(d)]
    <3>1. Boxes
      BY DEF MailTypes
    <3>2. QED
      BY <1>3, <3>1, CameraBoxesSame
  <2>7. CameraInv(c)'
    <3>1. CameraState(commands'[c], box'[CameraBox(c)], lvds'[c], due'[c], rxfifo'[c], protocol'[c],
                      protocolindex'[c], AnswersFrom(c)')
      BY <2>4, <2>5, <2>6
    <3>2. QED
      BY <2>5, <3>1 DEF CameraInv
  <2>8. \A d \in Cameras \ {c} : NetQuiet(CameraBox(d))
    BY <1>3, <2>2, <2>3, CameraBoxesDiffer DEF NetQuiet
  <2>9. OnlyCamera(c)
    BY <2>2, <2>6, <2>8 DEF OnlyCamera, CameraRests
  <2>10. QED
    BY <2>2, <2>7, <2>9, OneCamera
<1>4. QED
  BY <1>1, <1>2, <1>3
-----------------------------------------------------------------------------
\* At the start there are no commands.
LEMMA AnswersStart == Init => AnswerInv
<1> SUFFICES ASSUME Init PROVE AnswerInv
  OBVIOUS
<1>1. CameraInit /\ UplinkInit /\ CreateFactories
  BY DEF Init
<1>2. Protocols
  BY <1>1, CameraLinkAssumption DEF CameraInit, Protocols
<1>3. /\ box["net"] = <<>> /\ sending["net"] = Nothing
      /\ \A c \in Cameras : box[CameraBox(c)] = <<>>
  BY <1>1, BoxNames DEF CreateFactories, UplinkInit
<1>4. ASSUME NEW c \in Cameras PROVE CameraInv(c)
  <2>1. AnswersFrom(c) = {}
    BY <1>3 DEF AnswersFrom, OnTheWay
  <2>2. /\ commands[c] = 0 /\ lvds[c] = Resting /\ due[c] = <<>> /\ rxfifo[c] = <<>>
        /\ Resting.at = "pend"
    BY <1>1 DEF CameraInit, Resting
  <2>3. CameraState(0, <<>>, Resting, <<>>, <<>>, protocol[c], protocolindex[c], {})
    BY <2>2, StateStarts
  <2>4. NetOrder(CameraBox(c))
    <3>1. 1 .. Len(<<>>) = {}
      OBVIOUS
    <3>2. QED
      BY <1>3, <3>1 DEF NetOrder, InOrder, Follow
  <2>5. QED
    BY <1>3, <2>1, <2>2, <2>3, <2>4 DEF CameraInv
<1>5. QED
  BY <1>2, <1>4 DEF AnswerInv

\* Each step is one of a camera, its thread, or one that leaves all of this but
\* for messages that are sent.
LEMMA AnswersKept ==
  ASSUME Typed, MessagesPlaced, AnswerInv, SystemMoves
  PROVE  AnswerInv'
<1>a. MailTypes /\ CommandTypes
  BY DEF Typed
<1>1. ASSUME UplinkMoves \/ (RejectMoves /\ UNCHANGED upVars) \/ UNCHANGED <<poolVars, upVars>>,
             UNCHANGED camVars
      PROVE  AnswerInv'
  <2>1. \A c \in Cameras : box'[CameraBox(c)] = box[CameraBox(c)] /\ NetQuiet(CameraBox(c))
    BY <1>1, OthersQuiet
  <2>2. \A c \in Cameras : CameraRests(c)
    BY <1>1, <2>1 DEF camVars, CameraRests
  <2>3. \A c \in Cameras : CameraInv(c)'
    BY <1>a, <2>1, <2>2, CamerasRest
  <2>4. Protocols'
    BY <1>1 DEF AnswerInv, Protocols, camVars
  <2>5. QED
    BY <2>3, <2>4 DEF AnswerInv
<1>2. CASE CameraMoves /\ UNCHANGED <<upVars, rejectVars>>
  <2>1. CASE CommandDropped
    BY <1>1, <2>1 DEF CommandDropped
  <2>2. ASSUME NEW c \in Cameras, Command(c, "query") \/ Command(c, "temperature") PROVE AnswerInv'
    BY <1>2, <1>a, <2>2, AnswersCommanded
  <2>3. ASSUME NEW c \in Cameras, CameraPends(c) PROVE AnswerInv'
    BY <1>a, <2>3, AnswersPended
  <2>4. ASSUME NEW c \in Cameras, CameraChecks(c) \/ CameraSends(c) \/ CameraAnswers(c) PROVE AnswerInv'
    <3>1. UNCHANGED box
      BY <2>4 DEF CameraChecks, CameraSends, CameraAnswers, poolVars
    <3>2. QED
      BY <1>2, <1>a, <2>4, <3>1, AnswersSameBoxes
  <2>5. ASSUME NEW c \in Cameras, AnswerBad(c) \/ AnswerStored(c) PROVE AnswerInv'
    BY <1>a, <2>5, AnswersStored DEF AnswerBad, AnswerStored
  <2>6. ASSUME NEW c \in Cameras, AnswerForwarded(c) PROVE AnswerInv'
    BY <1>a, <2>6, AnswersForwarded
  <2>7. ASSUME NEW c \in Cameras, AnswerLate(c) PROVE AnswerInv'
    BY <1>a, <2>7, AnswersLate
  <2>8. QED
    BY <1>2, <2>1, <2>2, <2>3, <2>4, <2>5, <2>6, <2>7 DEF CameraMoves, CameraStep
<1>3. QED
  BY <1>1, <1>2 DEF SystemMoves

AnswersInv == UplinkInv /\ AnswerInv

\* In any state of the invariant the answers are in order and in their entries.
LEMMA OrderFollows ==
  ASSUME UplinkInv, AnswerInv PROVE AnswersInOrder
<1>1. Typed
  BY PoolInvTyped DEF UplinkInv
<1> DEFINE q == box["net"]
           e == sending["net"]
<1>2. q \in Seq(NetMessages) /\ Len(q) \in Nat /\ MailTypes /\ CommandTypes /\ Protocols
  BY <1>1 DEF Typed, MailTypes, Boxes, AnswerInv
<1>3. \A i \in DOMAIN Outgoing :
        i \in Nat /\ ((i = 1 /\ Outgoing[i] = e) \/ (i - 1 \in 1 .. Len(q) /\ Outgoing[i] = q[i - 1]))
  <2>1. e \in NetMessages \cup {Nothing}
    BY <1>2 DEF MailTypes
  <2>2. q \in Seq(NetMessages \cup {Nothing})
    BY <1>2
  <2> HIDE DEF q, e
  <2>3. Outgoing = <<e>> \o q
    BY DEF Outgoing, q, e
  <2>4. QED
    BY <2>1, <2>2, <2>3
<1> HIDE DEF q, e
<1>4. SUFFICES ASSUME NEW c \in Cameras
      PROVE  /\ \A i, j \in AnswersOf(c) : i < j => Outgoing[i].id < Outgoing[j].id
             /\ \A i \in AnswersOf(c) :
                  commands[c] - Outgoing[i].id < AnswerRing => protocol[c][Outgoing[i].ref] = Outgoing[i].id
  BY DEF AnswersInOrder
<1>5. CameraInv(c)
  BY DEF AnswerInv
<1>6. ASSUME NEW i \in AnswersOf(c), NEW j \in AnswersOf(c), i < j
      PROVE  Outgoing[i].id < Outgoing[j].id
  <2>1. InOrder(q, CameraBox(c)) /\ Follow(e, q, CameraBox(c))
    BY <1>5 DEF CameraInv, NetOrder, q, e
  <2>2. i \in DOMAIN Outgoing /\ j \in DOMAIN Outgoing
        /\ Outgoing[i].kind = CameraBox(c) /\ Outgoing[j].kind = CameraBox(c)
    BY DEF AnswersOf
  <2>3. j - 1 \in 1 .. Len(q) /\ Outgoing[j] = q[j - 1]
    <3>1. i \in Nat /\ i >= 1 /\ j \in Nat
      BY <1>2, <1>3, <2>2
    <3>2. j # 1
      BY <1>6, <3>1
    <3>3. QED
      BY <1>3, <2>2, <3>2
  <2>4. CASE Outgoing[i] = e
    BY <2>1, <2>2, <2>3, <2>4 DEF Follow
  <2>5. CASE i - 1 \in 1 .. Len(q) /\ Outgoing[i] = q[i - 1]
    <3>1. i - 1 < j - 1
      BY <1>3, <1>6, <2>2
    <3>2. QED
      BY <2>1, <2>2, <2>3, <2>5, <3>1 DEF InOrder
  <2>6. QED
    BY <1>3, <2>2, <2>4, <2>5
<1>7. ASSUME NEW i \in AnswersOf(c), commands[c] - Outgoing[i].id < AnswerRing
      PROVE  protocol[c][Outgoing[i].ref] = Outgoing[i].id
  <2> DEFINE m == Outgoing[i]
             s == SentOf(commands[c], box[CameraBox(c)], lvds[c])
  <2>1. i \in DOMAIN Outgoing /\ m.kind = CameraBox(c)
    BY DEF AnswersOf
  <2>2. m = e \/ \E j \in DOMAIN q : m = q[j]
    BY <1>2, <1>3, <2>1
  <2>3. m # Nothing
    BY <2>1, CameraLinkAssumption DEF Nothing, Message
  <2> HIDE DEF m
  <2>4. m \in AnswersFrom(c)
    BY <2>1, <2>2, <2>3 DEF AnswersFrom, OnTheWay, q, e
  <2>5. InEntry(m, protocol[c], protocolindex[c], lvds[c], s)
    BY <1>5, <2>4 DEF CameraInv, CameraState
  <2>6. /\ commands[c] \in Nat /\ Len(box[CameraBox(c)]) \in Nat /\ HeldCommand(lvds[c].at) \in {0, 1}
        /\ m.id \in Nat /\ AnswerRing \in Nat
    <3>1. CameraValues(commands[c], box[CameraBox(c)], lvds[c], due[c], rxfifo[c], protocol[c],
                       protocolindex[c], AnswersFrom(c))
      BY <1>2, ValuesOf
    <3>2. QED
      BY <2>4, <3>1, ValueTypes
  <2>7. s - m.id < AnswerRing
    <3>1. s = commands[c] - Len(box[CameraBox(c)]) - HeldCommand(lvds[c].at)
      BY DEF SentOf
    <3>2. commands[c] - m.id < AnswerRing
      BY <1>7 DEF m
    <3> HIDE DEF s
    <3>3. QED
      BY <2>6, <3>1, <3>2
  <2> HIDE DEF s
  <2>8. QED
    BY <2>5, <2>7 DEF InEntry, m
<1>8. QED
  BY <1>6, <1>7

\* The answers of a camera reach the PC in the order of its commands, and as the
\* camera gave them while cam1_protocol has not come round to their entry
\* (lvds1_communicate_tsk, net_send_tsk).
THEOREM AnswersStayInOrder == Spec => []AnswersInOrder
<1>1. Init => AnswersInv
  BY UplinkStarting, AnswersStart DEF AnswersInv
<1>2. AnswersInv /\ [Next]_vars => AnswersInv'
  <2> SUFFICES ASSUME AnswersInv, [Next]_vars PROVE AnswersInv'
    OBVIOUS
  <2>1. UplinkInv /\ AnswerInv
    BY DEF AnswersInv
  <2>2. UplinkInv'
    BY <2>1, UplinkKept
  <2>3. Typed /\ MessagesPlaced
    BY <2>1, PoolInvTyped DEF UplinkInv
  <2>4. SystemMoves
    BY EachSystemMove
  <2>5. AnswerInv'
    BY <2>1, <2>3, <2>4, AnswersKept
  <2>6. QED
    BY <2>2, <2>5 DEF AnswersInv
<1>3. AnswersInv => AnswersInOrder
  BY OrderFollows DEF AnswersInv
<1>4. QED
  BY <1>1, <1>2, <1>3, PTL DEF Spec

-----------------------------------------------------------------------------
(* the types *)

\* The pools are never more than full, for what is not in them has a place.
LEMMA PoolTyped == PoolInv => PoolTypeOK(Kinds)
<1> SUFFICES ASSUME PoolInv PROVE PoolTypeOK(Kinds)
  OBVIOUS
<1>1. Typed /\ MessagesPlaced /\ BuffersAccounted
  BY PoolInvTyped
<1>2. PoolTypes /\ ReportTypes /\ MailTypes /\ CommandTypes /\ Boxes
  BY <1>1 DEF Typed, MailTypes
<1>3. free \in Nat /\ bufs \in Nat /\ MSG_NUM_MAX \in Nat /\ BufNum \in Nat
  BY <1>2, MessagePoolAssumption DEF PoolTypes
<1>4. free <= MSG_NUM_MAX
  <2>1. Waiting \in Nat
    BY <1>2, WaitingFinite DEF Boxes
  <2>2. Cardinality(Reporting) \in Nat /\ Cardinality(Sending) \in Nat
    BY HoldersFinite
  <2>3. Picturing \in Nat /\ LocalHolds \in Nat
    BY DEF Picturing, LocalHolds
  <2>4. free + Waiting + Cardinality(Reporting) + Picturing + Cardinality(Sending) + LocalHolds
          = MSG_NUM_MAX
    BY <1>1 DEF MessagesPlaced
  <2>5. QED
    BY <1>3, <2>1, <2>2, <2>3, <2>4
<1>5. bufs <= BufNum
  <2>1. Commanded \in Nat
    BY <1>2, CommandsFinite
  <2>2. Cardinality(Commanding) \in Nat
    BY <1>2, CommandsFinite
  <2>3. bufs + Commanded + Cardinality(Commanding) = BufNum
    BY <1>1 DEF BuffersAccounted, Commanded, Commanding
  <2>4. QED
    BY <1>3, <2>1, <2>2, <2>3
<1>6. DOMAIN box = Mailboxes
      /\ \A b \in Mailboxes : box[b] \in Seq([kind : Kinds, prio : {0, 1, 3, 5}, ref : Nat, id : Nat])
  BY <1>2 DEF Boxes, Sized, AnyMessages
<1>7. free \in 0 .. MSG_NUM_MAX /\ bufs \in 0 .. BufNum
  BY <1>3, <1>4, <1>5
<1>8. QED
  BY <1>6, <1>7, Zenon DEF PoolTypeOK

\* There are never more claims than samples.
LEMMA UplinkTyped == ReportTypes /\ ClaimInv => UplinkTypeOK
<1> SUFFICES ASSUME ReportTypes, ClaimInv PROVE UplinkTypeOK
  OBVIOUS
<1>1. sample_send_process <= samples
  <2>1. Cardinality(Claiming) \in Nat
    BY FinitelyMany, FS_Subset, FS_CardinalityType DEF Claiming
  <2>2. sample_send_process \in Nat /\ samples \in Nat
    BY UplinkAssumption DEF ReportTypes
  <2>3. sample_send_process + Cardinality(Claiming) <= samples
    BY DEF ClaimInv
  <2>4. QED
    BY <2>1, <2>2, <2>3
<1>2. sample_send_process \in 0 .. MaxSamples
  BY <1>1, UplinkAssumption DEF ReportTypes
<1>3. QED
  BY <1>2 DEF ReportTypes, UplinkTypeOK

\* Only commands that were sent are to be answered.
LEMMA CameraTyped == CommandTypes /\ MailTypes /\ AnswerInv => CameraTypeOK
<1> SUFFICES ASSUME CommandTypes, MailTypes, AnswerInv, NEW c \in Cameras
             PROVE  /\ commands[c] \in 0 .. MaxCommands
                    /\ lvds[c].at \in {"pend", "check", "send", "recv"}
                    /\ {due[c], rxfifo[c]} \subseteq Seq([id : 1 .. MaxCommands, kind : {"query", "temperature"}])
                    /\ protocol[c] \in [0 .. AnswerRing - 1 -> 0 .. MaxCommands]
                    /\ protocolindex[c] \in 0 .. AnswerRing - 1
  BY DEF CameraTypeOK
<1> DEFINE q == box[CameraBox(c)]
           s == SentOf(commands[c], q, lvds[c])
<1>1. /\ commands[c] \in 0 .. MaxCommands /\ lvds[c].at \in {"pend", "check", "send", "recv"}
      /\ protocolindex[c] \in 0 .. AnswerRing - 1
      /\ due[c] \in Seq(Answer) /\ rxfifo[c] \in Seq(Answer)
  BY DEF CommandTypes, Answer
<1>2. protocol[c] \in [0 .. AnswerRing - 1 -> 0 .. MaxCommands]
  BY DEF AnswerInv, Protocols
<1>3. Rising(due[c], s) /\ Rising(rxfifo[c], s)
  BY DEF AnswerInv, CameraInv, CameraState
<1>4. s \in Nat /\ s <= MaxCommands
  <2>1. s \in Nat
    BY DEF AnswerInv, CameraInv, CameraState, CommandsInOrder
  <2>2. s = commands[c] - Len(q) - HeldCommand(lvds[c].at)
    BY DEF SentOf
  <2>3. Len(q) \in Nat
    BY DEF MailTypes, Boxes
  <2>4. HeldCommand(lvds[c].at) \in {0, 1}
    BY DEF HeldCommand
  <2> HIDE DEF s, q
  <2>5. QED
    BY <1>1, <2>1, <2>2, <2>3, <2>4, CameraLinkAssumption
<1> HIDE DEF s
<1>5. ASSUME NEW x \in Seq(Answer), Rising(x, s)
      PROVE  x \in Seq([id : 1 .. MaxCommands, kind : {"query", "temperature"}])
  <2>1. \A i \in 1 .. Len(x) : x[i] \in [id : 1 .. MaxCommands, kind : {"query", "temperature"}]
    <3> SUFFICES ASSUME NEW i \in 1 .. Len(x)
                 PROVE  x[i] \in [id : 1 .. MaxCommands, kind : {"query", "temperature"}]
      OBVIOUS
    <3>1. x[i].id \in 1 .. s
      BY <1>5 DEF Rising
    <3>2. x[i].id \in 1 .. MaxCommands
      BY <1>4, <3>1, CameraLinkAssumption
    <3>3. x[i] \in Answer
      OBVIOUS
    <3>4. QED
      BY <3>2, <3>3 DEF Answer
  <2>2. Len(x) \in Nat /\ x = [i \in 1 .. Len(x) |-> x[i]]
    OBVIOUS
  <2>3. x \in [1 .. Len(x) -> [id : 1 .. MaxCommands, kind : {"query", "temperature"}]]
    BY <2>1, <2>2
  <2>4. x \in UNION {[1 .. n -> [id : 1 .. MaxCommands, kind : {"query", "temperature"}]] : n \in Nat}
    BY <2>2, <2>3, Zenon
  <2>5. QED
    BY <2>4, SeqDef, Zenon
<1>6. QED
  BY <1>1, <1>2, <1>3, <1>5

\* No more resets wait than were begun, and the connection was made by a start of
\* the reject process.
LEMMA RejectTyped == RejectInv => RejectTypeOK
<1> SUFFICES ASSUME RejectInv PROVE RejectTypeOK
  OBVIOUS
<1>1. RejectTypes /\ ConnectionInv /\ ResetInv
  BY DEF RejectInv
<1>2. /\ sem_connect \in Nat /\ sem_reject_reset \in Nat /\ lostResets \in Nat
      /\ rejects \in 0 .. MaxRejects /\ resets \in 0 .. MaxResets
      /\ MaxRejects \in Nat /\ MaxResets \in Nat
  BY <1>1, RejectLinkAssumption DEF RejectTypes
<1>3. sem_connect \in 0 .. MaxRejects
  <2>1. sem_connect + (IF local_recv = "read" THEN 1 ELSE 0) = (IF connect_status THEN 1 ELSE 0)
    BY <1>1 DEF ConnectionInv, OneRejectConnection
  <2>2. sem_connect <= 1 /\ (sem_connect = 1 => connect_status)
    BY <1>2, <2>1
  <2>3. connect_status => rejects > 0
    BY <1>1 DEF ConnectionInv
  <2>4. QED
    BY <1>2, <2>2, <2>3
<1>4. sem_reject_reset <= MaxResets /\ lostResets <= MaxResets
  <2> DEFINE N == Cardinality({x \in Resetters : resetting[x] # "idle"})
  <2>1. N \in Nat /\ Cardinality(Waiters) \in Nat /\ Cardinality(Waiters) <= N
    <3>1. IsFiniteSet({x \in Resetters : resetting[x] # "idle"})
      BY RejectLinkAssumption, FS_Subset
    <3>2. Waiters \subseteq {x \in Resetters : resetting[x] # "idle"}
      BY DEF Waiters
    <3>3. QED
      BY <3>1, <3>2, FS_Subset, FS_CardinalityType
  <2>2. N <= resets
    BY <1>1 DEF ResetInv
  <2>3. Cardinality(Waiters) = ResetsIn(box["local"]) + IsReset(local_msg) + Commands(toReject)
                               + Commands(answers) + sem_reject_reset + lostResets
    BY <1>1, ResetsArePlaced DEF ResetInv, ResetsPlaced
  <2>4. /\ ResetsIn(box["local"]) \in Nat /\ Commands(toReject) \in Nat
        /\ Commands(answers) \in Nat /\ IsReset(local_msg) \in {0, 1}
    BY <1>1, ResetCounts DEF IsReset
  <2> HIDE DEF N
  <2>5. QED
    BY <1>2, <2>1, <2>2, <2>3, <2>4
<1>5. sem_reject_reset \in 0 .. MaxResets /\ lostResets \in 0 .. MaxResets
  BY <1>2, <1>4
<1>6. \A j \in Judges : judging[j].at \in {"idle", "fill", "post"}
  BY <1>1 DEF RejectTypes
<1>7. QED
  BY <1>1, <1>3, <1>5, <1>6 DEF RejectTypes, RejectTypeOK

\* The numbers of the samples have their types in their invariant.
LEMMA NumbersTyped == NumberInv => NumbersTypeOK
BY DEF NumberInv, NumberTypes, NumbersTypeOK

\* Those of the two cameras bound the counts only until two threads race.
LEMMA PairsTyped == PairInv => PairsTypeOK
<1> SUFFICES ASSUME PairInv PROVE PairsTypeOK
  OBVIOUS
<1>1. PairTypes /\ (~raced => PictureCounts)
  BY DEF PairInv, PairSafe
<1>2. \A c \in Cams : r_count[c] \in [Buffers -> Int] /\ queued[c] \subseteq Buffers
  BY <1>1 DEF PairTypes
<1>3. ASSUME ~raced, NEW c \in Cams PROVE r_count[c] \in [Buffers -> 0 .. 3]
  <2>1. \A b \in Buffers : r_count[c][b] \in 0 .. 3
    BY <1>1, <1>3 DEF PictureCounts, Counted
  <2>2. QED
    BY <1>2, <2>1
<1>4. QED
  BY <1>1, <1>2, <1>3 DEF PairTypes, PairsTypeOK

TypeInv ==
  /\ UplinkInv /\ AnswerInv /\ NumberInv /\ PairInv
  /\ work \in Work /\ halted \in BOOLEAN

\* No step changes what a behaviour is about; a step may halt the threads.
LEMMA WorkKept ==
  work \in Work /\ halted \in BOOLEAN /\ [Next]_vars => work' \in Work /\ halted' \in BOOLEAN
<1> SUFFICES ASSUME work \in Work, halted \in BOOLEAN, [Next]_vars
             PROVE  work' \in Work /\ halted' \in BOOLEAN
  OBVIOUS
<1>1. CASE UNCHANGED <<work, halted>>
  BY <1>1
<1>2. CASE Faults
  BY <1>2 DEF Faults
<1>3. CASE UNCHANGED vars
  BY <1>3 DEF vars
<1>4. CASE Links \/ Picture \/ Upload \/ NetSend \/ UiSend
  BY <1>1, <1>4 DEF Links, Picture, Upload, NetSend, UiSend, During
<1>5. CASE \E r \in Reporters : Check(r) \/ Report(r)
  BY <1>1, <1>5 DEF Check, Report, During
<1>6. CASE CameraCommand \/ \E c \in Cameras : CameraThread(c) \/ Camera(c)
  BY <1>1, <1>6 DEF CameraCommand, CameraThread, Camera, During
<1>7. CASE RejectProcess \/ RejectReader \/ Accept \/ Write \/ Read
  BY <1>1, <1>7 DEF RejectProcess, RejectReader, Accept, Write, Read, During
<1>8. CASE \E x \in Resetters : BeginReset(x) \/ Reset(x)
  BY <1>1, <1>8 DEF BeginReset, Reset, During
<1>9. CASE \E j \in Judges : BeginResult(j) \/ Judge(j)
  BY <1>1, <1>9 DEF BeginResult, Judge, During
<1>10. CASE Numbers \/ Pairs
  BY <1>1, <1>10 DEF Numbers, Pairs, During
<1>11. QED
  BY <1>2, <1>3, <1>4, <1>5, <1>6, <1>7, <1>8, <1>9, <1>10 DEF Next

\* Every variable has its type: no pool, semaphore or count exceeds what there is
\* of it, a camera is asked for no answer but to a command sent, and a picture has
\* three references at most until a release is overtaken (msg_factory_produce,
\* buf_factory_produce, sem_post, video_context_release).
THEOREM MessagesTypes == Spec => []TypeOK
<1>1. Init => TypeInv
  <2>1. Init => work \in Work /\ halted \in BOOLEAN /\ NumbersInit /\ PairsInit
    BY DEF Init
  <2>2. QED
    BY <2>1, UplinkStarting, AnswersStart, NumbersStart, PairsStart DEF TypeInv
<1>2. TypeInv /\ [Next]_vars => TypeInv'
  <2> SUFFICES ASSUME TypeInv, [Next]_vars PROVE TypeInv'
    OBVIOUS
  <2>1. UplinkInv /\ AnswerInv /\ NumberInv /\ PairInv /\ work \in Work /\ halted \in BOOLEAN
    BY DEF TypeInv
  <2>2. UplinkInv'
    BY <2>1, UplinkKept
  <2>3. Typed /\ MessagesPlaced
    BY <2>1, PoolInvTyped DEF UplinkInv
  <2>4. AnswerInv'
    BY <2>1, <2>3, EachSystemMove, AnswersKept
  <2>5. NumberInv' /\ PairInv'
    BY <2>1, EachOtherMove, NumbersKept, PairsKept
  <2>6. work' \in Work /\ halted' \in BOOLEAN
    BY <2>1, WorkKept
  <2>7. QED
    BY <2>2, <2>4, <2>5, <2>6 DEF TypeInv
<1>3. TypeInv => TypeOK
  <2> SUFFICES ASSUME TypeInv PROVE TypeOK
    OBVIOUS
  <2>1. UplinkInv /\ AnswerInv /\ NumberInv /\ PairInv /\ work \in Work /\ halted \in BOOLEAN
    BY DEF TypeInv
  <2>2. PoolInv /\ ClaimInv
    BY <2>1 DEF UplinkInv
  <2>3. RejectInv /\ MailTypes /\ ReportTypes /\ CommandTypes
    BY <2>2 DEF PoolInv
  <2>4. QED
    BY <2>1, <2>2, <2>3, PoolTyped, UplinkTyped, CameraTyped, RejectTyped, NumbersTyped, PairsTyped
       DEF TypeOK
<1>4. QED
  BY <1>1, <1>2, <1>3, PTL DEF Spec
=============================================================================
