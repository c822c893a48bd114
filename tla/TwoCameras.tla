----------------------------- MODULE TwoCameras -----------------------------
(***************************************************************************)
(* A sample with two cameras: one struct SampleImageGroup with a picture   *)
(* of each.  Every picture has its own r_count under its own mutex, so     *)
(* that video_context_release takes three steps: it releases the first     *)
(* picture, then the second, and then, with no mutex, reads both counts    *)
(* to see whether the group may go back to its pool.  SamplePipeline has   *)
(* the modes and mailboxes that decide who releases; here each of the      *)
(* three references goes to its thread, or capture releases it itself.     *)
(***************************************************************************)
EXTENDS Integers, Sequences, FiniteSets

CONSTANTS
  Groups, Buffers,           \* of create_sample_factory; of each camera
  NoBuffer,
  MaxPairs, MaxForgotten     \* bounds: samples; groups lost during resets

Cams == {1, 2}
Releasers == {"ui", "net", "dsp", "capture"}

ASSUME TwoCamerasAssumption ==
  /\ Groups \subseteq Nat /\ IsFiniteSet(Groups) /\ NoBuffer \notin Buffers
  /\ MaxPairs \in Nat /\ MaxForgotten < Cardinality(Groups)

VARIABLES
  idle_groups,               \* the pool
  images,                    \* images[g][c]
  r_count, queued,           \* of each camera's buffers; those the driver has
  shooting,                  \* where image_capture_tsk is, and its group
  owed,                      \* the groups each thread still has to release
  releasing,                 \* where it is in video_context_release
  pairs,                     \* samples so far
  forgotten,                 \* groups that a reset has taken out of the pool
  raced                      \* a release was overtaken (see GroupsAccounted)

pairVars == <<idle_groups, images, r_count, queued, shooting, owed, releasing,
              pairs, forgotten, raced>>

PairsTypeOK ==
  /\ idle_groups \in Seq(Groups)
  /\ images \in [Groups -> [Cams -> Buffers \cup {NoBuffer}]]
  /\ \A c \in Cams : queued[c] \subseteq Buffers /\ r_count[c] \in [Buffers -> Int]
  \* A group that went back twice may be counted down twice, below zero.
  /\ ~raced => \A c \in Cams : r_count[c] \in [Buffers -> 0 .. 3]
  /\ pairs \in 0 .. MaxPairs /\ forgotten \subseteq Groups /\ raced \in BOOLEAN

Unoccupied == [at |-> "idle", group |-> 0]

\* The list holds the groups in the order of the array they are in.
PairsInit ==
  /\ idle_groups = [i \in 1 .. Cardinality(Groups) |-> CHOOSE g \in Groups :
                      Cardinality({h \in Groups : h < g}) = i - 1]
  /\ images = [g \in Groups |-> [c \in Cams |-> NoBuffer]]
  /\ r_count = [c \in Cams |-> [b \in Buffers |-> 0]]
  /\ queued = [c \in Cams |-> Buffers]
  /\ shooting = Unoccupied /\ pairs = 0 /\ forgotten = {} /\ raced = FALSE
  /\ owed = [r \in Releasers |-> <<>>]
  /\ releasing = [r \in Releasers |-> Unoccupied]

-----------------------------------------------------------------------------
(* image_capture_tsk *)

\* Capture goes on when it has made its own releases.
ShootingAt(at) ==
  /\ shooting.at = at
  /\ owed["capture"] = <<>> /\ releasing["capture"].at = "idle"
ShootingNext(at) == shooting' = [shooting EXCEPT !.at = at]

PairProduce ==
  /\ ShootingAt("idle") /\ idle_groups # <<>> /\ pairs < MaxPairs
  /\ pairs' = pairs + 1
  /\ shooting' = [at |-> "first", group |-> Head(idle_groups)]
  /\ idle_groups' = Tail(idle_groups)
  /\ UNCHANGED <<images, r_count, queued, owed, releasing, forgotten, raced>>

\* video_request_img_buf
PairRequest(c, b) ==
  /\ b \in queued[c] /\ queued' = [queued EXCEPT ![c] = @ \ {b}]
  /\ images' = [images EXCEPT ![shooting.group][c] = b]

PairFirst(b) ==
  /\ ShootingAt("first") /\ PairRequest(1, b) /\ ShootingNext("second")
  /\ UNCHANGED <<idle_groups, r_count, owed, releasing, pairs, forgotten, raced>>

\* During a reset, with a delay between the cameras, the first picture goes
\* straight back and the loop begins again with another group.
PairForget ==
  /\ ShootingAt("second") /\ Cardinality(forgotten) < MaxForgotten
  /\ LET g == shooting.group IN
       /\ queued' = [queued EXCEPT ![1] = @ \cup {images[g][1]}]
       /\ forgotten' = forgotten \cup {g}
  /\ shooting' = Unoccupied
  /\ UNCHANGED <<idle_groups, images, r_count, owed, releasing, pairs, raced>>

PairSecond(b) ==
  /\ ShootingAt("second") /\ PairRequest(2, b) /\ ShootingNext("count1")
  /\ UNCHANGED <<idle_groups, r_count, owed, releasing, pairs, forgotten, raced>>

\* A release that has still to read this count will find it.
Testing(c, b) ==
  \E r \in Releasers :
    /\ releasing[r].at \in {"second", "test"}
    /\ images[releasing[r].group][c] = b

CountThree(c) ==
  LET b == images[shooting.group][c] IN
  /\ r_count' = [r_count EXCEPT ![c][b] = 3]
  /\ raced' = (raced \/ Testing(c, b))
  /\ UNCHANGED <<idle_groups, images, queued, owed, releasing, pairs, forgotten>>

PairCount1 == ShootingAt("count1") /\ CountThree(1) /\ ShootingNext("count2")
PairCount2 == ShootingAt("count2") /\ CountThree(2) /\ ShootingNext("ui")

Owes(r, gs) == owed' = [owed EXCEPT ![r] = @ \o gs]

\* A picture of before a reset: three releases in a row.
PairDrop ==
  /\ ShootingAt("ui") /\ shooting' = Unoccupied
  /\ Owes("capture", [i \in 1 .. 3 |-> shooting.group])
  /\ UNCHANGED <<idle_groups, images, r_count, queued, releasing, pairs, forgotten, raced>>

\* The three references, in the order in which they are handed out.
PairHandOut ==
  /\ \/ ShootingAt("ui") /\ ShootingNext("net") /\ Owes("ui", <<shooting.group>>)
     \/ /\ ShootingAt("net") /\ ShootingNext("dsp")
        /\ \E r \in {"net", "capture"} : Owes(r, <<shooting.group>>)
     \/ /\ ShootingAt("dsp") /\ shooting' = Unoccupied
        /\ \E r \in {"dsp", "capture"} : Owes(r, <<shooting.group>>)
  /\ UNCHANGED <<idle_groups, images, r_count, queued, releasing, pairs, forgotten, raced>>

-----------------------------------------------------------------------------
(* video_context_release *)

\* One picture, under its mutex.
ReleasePicture(c, g) ==
  LET b == images[g][c] IN
  /\ r_count' = [r_count EXCEPT ![c][b] = @ - 1]
  /\ queued' = IF r_count[c][b] = 1 THEN [queued EXCEPT ![c] = @ \cup {b}] ELSE queued

ReleaseFirst(r) ==
  /\ releasing[r].at = "idle" /\ owed[r] # <<>>
  /\ ReleasePicture(1, Head(owed[r])) /\ owed' = [owed EXCEPT ![r] = Tail(@)]
  /\ releasing' = [releasing EXCEPT ![r] = [at |-> "second", group |-> Head(owed[r])]]
  /\ UNCHANGED <<idle_groups, images, shooting, pairs, forgotten, raced>>

ReleaseSecond(r) ==
  LET g == releasing[r].group IN
  /\ releasing[r].at = "second" /\ ReleasePicture(2, g)
  /\ releasing' = [releasing EXCEPT ![r].at = "test"]
  /\ raced' = (raced \/ /\ r_count[2][images[g][2]] = 1
                        /\ \E q \in Releasers \ {r} :
                             releasing[q] = [at |-> "test", group |-> g])
  /\ UNCHANGED <<idle_groups, images, shooting, owed, pairs, forgotten>>

RecycleGroupEither(r) ==
  LET g == releasing[r].group IN
  /\ releasing[r].at = "test"
  /\ idle_groups' = IF \E c \in Cams : r_count[c][images[g][c]] = 0
                    THEN Append(idle_groups, g) ELSE idle_groups
  /\ releasing' = [releasing EXCEPT ![r] = Unoccupied]
  /\ UNCHANGED <<images, r_count, queued, shooting, owed, pairs, forgotten, raced>>

RecycleGroup(r) ==
  LET g == releasing[r].group IN
  /\ releasing[r].at = "test"
  /\ idle_groups' = IF \A c \in Cams : r_count[c][images[g][c]] = 0
                    THEN Append(idle_groups, g) ELSE idle_groups
  /\ releasing' = [releasing EXCEPT ![r] = Unoccupied]
  /\ UNCHANGED <<images, r_count, queued, shooting, owed, pairs, forgotten, raced>>

PairsCapture ==
  \/ PairProduce \/ PairForget \/ PairCount1 \/ PairCount2 \/ PairDrop \/ PairHandOut
  \/ \E b \in Buffers : PairFirst(b) \/ PairSecond(b)

PairsRelease == \E r \in Releasers : ReleaseFirst(r) \/ ReleaseSecond(r) \/ RecycleGroup(r)

-----------------------------------------------------------------------------
(* property *)

InPool(g) == Cardinality({i \in DOMAIN idle_groups : idle_groups[i] = g})

InUseBy(g) ==
  \/ shooting.at # "idle" /\ shooting.group = g
  \/ \E r \in Releasers : \/ releasing[r].at # "idle" /\ releasing[r].group = g
                          \/ \E i \in DOMAIN owed[r] : owed[r][i] = g

\* A group of two pictures is in its pool once, or in use, or was forgotten by a
\* reset: it goes back when the last of three threads has released both pictures,
\* in whatever order they do, and only then; and so does each picture.  Except
\* that the last test is made without a mutex: when two threads reach it together
\* both put the group back, and when the camera has filled one of the pictures
\* again before it, nobody does.
GroupsAccounted ==
  ~raced =>
    /\ \A c \in Cams, b \in Buffers : b \in queued[c] => r_count[c][b] = 0
    /\ \A g \in Groups : InPool(g) + (IF InUseBy(g) THEN 1 ELSE 0)
                            + (IF g \in forgotten THEN 1 ELSE 0) = 1
=============================================================================
