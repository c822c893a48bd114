---------------------------- MODULE RejectProofs ----------------------------
(* What the runs of Messages show of the reject process, for any number of  *)
(* judges, resetters, messages and entries of the ring.  The inductive      *)
(* invariant has one part per question: the types; whose the connection is; *)
(* where a reset command or its answer is; which entries of the ring are    *)
(* spoken for; and what a reset lets through.  Only the actions of          *)
(* RejectLink change what the parts speak of: the other threads use other   *)
(* mailboxes.                                                               *)
EXTENDS Messages, ListFacts

Sized == DOMAIN box = Mailboxes

LocalMessages == [kind : {"greeting", "reset", "result"}, prio : {0}, ref : Entries,
                  id : 0 .. MaxResults]

\* What the proofs need to know of the types.
RejectTypes ==
  /\ Sized
  /\ box["local"] \in Seq(LocalMessages) /\ local_msg \in LocalMessages \cup {None}
  /\ backlog \in Seq({"up", "closed"}) /\ peer \in {"none", "up", "closed"}
  /\ alive \in BOOLEAN /\ connect_status \in BOOLEAN /\ greet \in BOOLEAN
  /\ local_recv \in {"wait", "read"}
  /\ sem_connect \in Nat /\ sem_reject_reset \in Nat /\ lostResets \in Nat
  /\ toReject \in Seq({"greeting", "reset", "result"}) /\ Len(toReject) <= SocketRoom
  /\ answers \in Seq({"version", "reset"})
  /\ resetting \in [Resetters -> {"idle", "begun", "wait"}]
  /\ g_sys_reset_flag \in BOOLEAN /\ twoResets \in BOOLEAN /\ overrun \in BOOLEAN
  /\ judging \in [Judges -> [at : {"idle", "fill", "post"}, id : 0 .. MaxResults, ref : Entries]]
  /\ sample_result \in [Entries -> 0 .. MaxResults] /\ sample_result_index \in Entries
  /\ results \in 0 .. MaxResults /\ late \in [Judges -> Nat]
  /\ rejects \in 0 .. MaxRejects /\ resets \in 0 .. MaxResets

\* A reject process that lives has the newest connection.
ConnectionInv ==
  /\ OneRejectConnection
  /\ alive => IF backlog = <<>> THEN peer = "up" ELSE backlog[Len(backlog)] = "up"
  /\ alive \/ connect_status \/ backlog # <<>> => rejects > 0

\* No more resets are under way than have begun.
ResetInv ==
  /\ ResetAccounted
  /\ Cardinality({x \in Resetters : resetting[x] # "idle"}) <= resets

\* Results on their way to the reject process.
Unsent == {m \in Range(box["local"]) \cup {local_msg} : m.kind = "result"}
Active(j) == judging[j].at # "idle"

\* Until an entry is given out twice, each has one result at most, and holds it once
\* it has been filled in.
EntryInv ==
  /\ \A m \in Unsent : m.id \in 1 .. MaxResults
  /\ \A j \in Judges : Active(j) => judging[j].id \in 1 .. MaxResults
  /\ ~overrun =>
       /\ \A m \in Unsent : sample_result[m.ref] = m.id
       /\ \A j \in Judges : Active(j) => \A m \in Unsent : m.ref # judging[j].ref
       /\ \A j, k \in Judges : Active(j) /\ Active(k) /\ j # k
                                  => judging[j].ref # judging[k].ref
       /\ \A j \in Judges : judging[j].at = "post"
                              => sample_result[judging[j].ref] = judging[j].id

\* One reset at a time keeps its flag to its end; a judge that is past its test of
\* the flag has not posted since the reset began.
LateInv ==
  ~twoResets =>
    /\ \A x, y \in Resetters : resetting[x] # "idle" /\ resetting[y] # "idle" => x = y
    /\ Resetting => g_sys_reset_flag
    /\ \A j \in Judges : late[j] <= 1
    /\ Resetting => \A j \in Judges : judging[j].at = "post" => late[j] = 0

RejectInv == RejectTypes /\ ConnectionInv /\ ResetInv /\ EntryInv /\ LateInv
-----------------------------------------------------------------------------
(* mailboxes *)

LocalKinds(kinds) == {m \in LocalMessages : m.kind \in kinds}

\* A message that is queued is in its mailbox, once, behind those of at least its
\* priority; the other mailboxes stay as they are.
LEMMA QueuedBox ==
  ASSUME Sized, NEW b \in Mailboxes, NEW S, box[b] \in Seq(S), NEW m \in S, Queued(b, m)
  PROVE  /\ Sized' /\ \A d \in Mailboxes \ {b} : box'[d] = box[d]
         /\ box'[b] \in Seq(S)
         /\ InsertedAt(box'[b], box[b],
                       Cardinality({i \in DOMAIN box[b] : box[b][i].prio >= m.prio}), m)
         /\ Cardinality({i \in DOMAIN box[b] : box[b][i].prio >= m.prio}) \in 0 .. Len(box[b])
         /\ Range(box'[b]) = Range(box[b]) \cup {m}
         /\ \A K : CountIn(box'[b], K) = CountIn(box[b], K) + (IF m \in K THEN 1 ELSE 0)
<1> DEFINE q == box[b]
           A == {i \in DOMAIN q : q[i].prio >= m.prio}
           k == Cardinality(A)
           r == SubSeq(q, 1, k) \o <<m>> \o SubSeq(q, k + 1, Len(q))
<1>1. DOMAIN box = Mailboxes /\ b \in DOMAIN box
  BY DEF Sized
<1>2. box' = [box EXCEPT ![b] = r]
  BY DEF Queued
<1>3. q \in Seq(S) /\ Len(q) \in Nat /\ DOMAIN q = 1 .. Len(q)
  OBVIOUS
<1>4. k \in 0 .. Len(q)
  <2>1. IsFiniteSet(1 .. Len(q)) /\ Cardinality(1 .. Len(q)) = Len(q)
    BY <1>3, FS_Interval
  <2>2. A \in SUBSET (1 .. Len(q))
    BY <1>3
  <2>3. IsFiniteSet(A) /\ Cardinality(A) <= Len(q) /\ Cardinality(A) \in Nat
    BY <2>1, <2>2, FS_Subset, FS_CardinalityType
  <2>4. QED
    BY <1>3, <2>3
<1> HIDE DEF q, A, k
<1>5. r \in Seq(S) /\ InsertedAt(r, q, k, m)
  BY <1>3, <1>4, QueuedFacts
<1> HIDE DEF r
<1>6. Range(r) = Range(q) \cup {m}
  BY <1>3, <1>4, <1>5, RangeInserted
<1>7. \A K : CountIn(r, K) = CountIn(q, K) + (IF m \in K THEN 1 ELSE 0)
  BY <1>3, <1>4, <1>5, CountInserted
<1>8. box'[b] = r /\ DOMAIN box' = DOMAIN box /\ \A d \in Mailboxes \ {b} : box'[d] = box[d]
  BY <1>1, <1>2
<1>9. Sized'
  BY <1>1, <1>8 DEF Sized
<1>10. QED
  BY <1>4, <1>5, <1>6, <1>7, <1>8, <1>9 DEF q, k, A

\* A message that is received is the head of its mailbox.
LEMMA ReceivedBox ==
  ASSUME Sized, NEW b \in Mailboxes, NEW S, box[b] \in Seq(S), Pending(b), Received(b)
  PROVE  /\ Sized' /\ \A d \in Mailboxes \ {b} : box'[d] = box[d]
         /\ box'[b] = Tail(box[b]) /\ box'[b] \in Seq(S) /\ Head(box[b]) \in S
         /\ Range(box[b]) = Range(box'[b]) \cup {Head(box[b])}
         /\ \A K : CountIn(box[b], K)
                     = CountIn(box'[b], K) + (IF Head(box[b]) \in K THEN 1 ELSE 0)
<1> DEFINE q == box[b]
<1>1. DOMAIN box = Mailboxes /\ b \in DOMAIN box
  BY DEF Sized
<1>2. q \in Seq(S) /\ q # <<>> /\ Tail(q) \in Seq(S) /\ Head(q) \in S
  BY DEF Pending
<1>3. box' = [box EXCEPT ![b] = Tail(q)]
  BY DEF Received
<1> HIDE DEF q
<1>4. Range(q) = Range(Tail(q)) \cup {Head(q)}
  BY <1>2, RangeTail
<1>5. \A K : CountIn(q, K) = CountIn(Tail(q), K) + (IF Head(q) \in K THEN 1 ELSE 0)
  BY <1>2, CountTail
<1>6. box'[b] = Tail(q) /\ DOMAIN box' = DOMAIN box
      /\ \A d \in Mailboxes \ {b} : box'[d] = box[d]
  BY <1>1, <1>3
<1>7. QED
  BY <1>1, <1>2, <1>4, <1>5, <1>6 DEF q, Sized

-----------------------------------------------------------------------------
(* which steps there are *)

RejectMoves ==
  \/ RejectStarts \/ RejectDies \/ RejectReads
  \/ LocalAccepts \/ send_handshake_cmd \/ LocalPends \/ LocalWrites \/ LocalDrops
  \/ LocalWakes \/ LocalReceives \/ LocalCloses
  \/ \E x \in Resetters : ResetBegins(x) \/ send_reset_cmd(x) \/ ResetEnds(x)
  \/ \E j \in Judges : get_sample_result_array(j) \/ FillResult(j) \/ PostResult(j)

\* The other threads use other mailboxes.
RejectFrame == UNCHANGED <<rejectVars, box["local"]>> /\ Sized'

\* The mailboxes but the one of local_send_tsk.
Elsewhere == {"net", "ui"} \cup {CameraBox(c) : c \in Cameras}

\* A step that queues or receives in another mailbox leaves that of local_send_tsk.
LEMMA ElsewhereFrame ==
  ASSUME Sized, NEW b \in Elsewhere,
         \/ Received(b) \/ \E m : Queued(b, m)
         \/ UNCHANGED box
  PROVE  UNCHANGED box["local"] /\ Sized'
<1>1. b \in Mailboxes /\ b # "local"
  BY CameraLinkAssumption, UplinkAssumption DEF Elsewhere
<1>2. "local" \in DOMAIN box /\ DOMAIN box = Mailboxes
  BY RejectLinkAssumption DEF Sized
<1>3. CASE Received(b)
  BY <1>1, <1>2, <1>3 DEF Received, Sized
<1>4. CASE \E m : Queued(b, m)
  BY <1>1, <1>2, <1>4 DEF Queued, Sized
<1>5. CASE UNCHANGED box
  BY <1>5 DEF Sized
<1>6. QED
  BY <1>3, <1>4, <1>5

\* The reports to the PC leave the reject process' mailbox alone.
LEMMA UplinkFrame ==
  ASSUME Sized, UNCHANGED rejectVars,
         \/ LinkChanges \/ UiLinkChanges \/ PictureCheck \/ PictureStep
         \/ CheckedUpload \/ UncheckedUpload \/ UiUpload
         \/ \E b \in {"net", "ui"} : SenderPends(b) \/ SenderRecycles(b)
         \/ \E r \in Reporters : SampleCheck(r) \/ ReportStep(r)
  PROVE  RejectFrame
<1>1. SUFFICES UNCHANGED box["local"] /\ Sized'
  BY DEF RejectFrame
<1>2. ASSUME UNCHANGED box PROVE UNCHANGED box["local"] /\ Sized'
  BY <1>2, ElsewhereFrame DEF Elsewhere
<1>3. ASSUME NEW b \in {"net", "ui"}, Received(b) \/ \E m : Queued(b, m)
      PROVE  UNCHANGED box["local"] /\ Sized'
  BY <1>3, ElsewhereFrame DEF Elsewhere
<1>4. CASE LinkChanges \/ UiLinkChanges \/ PictureCheck
  BY <1>2, <1>4 DEF LinkChanges, UiLinkChanges, PictureCheck, poolVars
<1>5. CASE PictureStep
  <2>1. UNCHANGED box \/ TimedPost("net", Message("picture", 3, 0, pictures))
    BY <1>5 DEF PictureStep, PictureClaim, PictureProduce, PictureCopy, PicturePost, poolVars
  <2>2. QED
    BY <1>2, <1>3, <2>1 DEF TimedPost
<1>6. CASE CheckedUpload \/ UncheckedUpload \/ UiUpload
  BY <1>2, <1>3, <1>6 DEF CheckedUpload, UncheckedUpload, UiUpload, Posted
<1>7. CASE \E b \in {"net", "ui"} : SenderPends(b) \/ SenderRecycles(b)
  BY <1>2, <1>3, <1>7 DEF SenderPends, SenderRecycles
<1>8. CASE \E r \in Reporters : SampleCheck(r) \/ ReportStep(r)
  <2>1. UNCHANGED box \/ \E m : TimedPost("net", m)
    BY <1>8 DEF SampleCheck, ReportStep, SampleClaim, SampleProduce, SampleCopy,
                SampleAddress, SampleWrap, SamplePost, poolVars
  <2>2. QED
    BY <1>2, <1>3, <2>1 DEF TimedPost
<1>9. QED
  BY <1>4, <1>5, <1>6, <1>7, <1>8

\* So do the camera commands.
LEMMA CameraFrame ==
  ASSUME Sized, UNCHANGED rejectVars,
         \/ CommandDropped
         \/ \E c \in Cameras : \/ PcCommand(c) \/ query_temp(c)
                               \/ CameraStep(c) \/ CameraAnswers(c)
  PROVE  RejectFrame
<1>1. SUFFICES UNCHANGED box["local"] /\ Sized'
  BY DEF RejectFrame
<1>2. ASSUME UNCHANGED box PROVE UNCHANGED box["local"] /\ Sized'
  BY <1>2, ElsewhereFrame DEF Elsewhere
<1>3. ASSUME NEW b \in Elsewhere, Received(b) \/ \E m : Queued(b, m)
      PROVE  UNCHANGED box["local"] /\ Sized'
  BY <1>3, ElsewhereFrame
<1>4. "net" \in Elsewhere /\ \A c \in Cameras : CameraBox(c) \in Elsewhere
  BY DEF Elsewhere
<1>5. CASE CommandDropped
  BY <1>2, <1>5 DEF CommandDropped, poolVars
<1>6. ASSUME NEW c \in Cameras, PcCommand(c) \/ query_temp(c)
      PROVE  UNCHANGED box["local"] /\ Sized'
  BY <1>3, <1>4, <1>6 DEF PcCommand, query_temp, Command, Posted
<1>7. ASSUME Feedback PROVE UNCHANGED box["local"] /\ Sized'
  BY <1>2, <1>3, <1>4, <1>7 DEF Feedback, Posted
<1>8. ASSUME NEW c \in Cameras, CameraStep(c) \/ CameraAnswers(c)
      PROVE  UNCHANGED box["local"] /\ Sized'
  <2>1. CASE CameraPends(c)
    BY <1>3, <1>4, <2>1 DEF CameraPends
  <2>2. CASE CameraChecks(c) \/ CameraSends(c) \/ AnswerStored(c) \/ CameraAnswers(c)
    BY <1>2, <2>2 DEF CameraChecks, CameraSends, AnswerStored, CameraAnswers, poolVars
  <2>3. CASE AnswerBad(c) \/ AnswerLate(c)
    BY <1>7, <2>3 DEF AnswerBad, AnswerLate
  <2>4. CASE AnswerForwarded(c)
    BY <1>2, <1>3, <1>4, <2>4 DEF AnswerForwarded, Posted
  <2>5. QED
    BY <1>8, <2>1, <2>2, <2>3, <2>4 DEF CameraStep
<1>9. QED
  BY <1>5, <1>6, <1>8

\* A step of the program is one of the reject link's or leaves it alone.
LEMMA EachMove == Sized /\ [Next]_vars => RejectMoves \/ RejectFrame
<1> SUFFICES ASSUME Sized, [Next]_vars PROVE RejectMoves \/ RejectFrame
  OBVIOUS
<1>1. ASSUME UNCHANGED <<rejectVars, poolVars>> PROVE RejectFrame
  BY <1>1 DEF RejectFrame, poolVars, Sized
<1>2. CASE UNCHANGED vars \/ Numbers \/ Pairs \/ Faults
  BY <1>1, <1>2 DEF vars, Numbers, Pairs, Faults
<1>3. CASE Links \/ Picture \/ Upload \/ NetSend \/ UiSend
  <2>1. UNCHANGED rejectVars
    BY <1>3 DEF Links, Picture, Upload, NetSend, UiSend, UplinkOnly
  <2>2. QED
    BY <1>3, <2>1, UplinkFrame DEF Links, Picture, Upload, NetSend, UiSend
<1>4. CASE \E r \in Reporters : Check(r) \/ Report(r)
  <2>1. UNCHANGED rejectVars
    BY <1>4 DEF Check, Report, UplinkOnly
  <2>2. QED
    BY <1>4, <2>1, UplinkFrame DEF Check, Report
<1>5. CASE CameraCommand \/ \E c \in Cameras : CameraThread(c) \/ Camera(c)
  <2>1. UNCHANGED rejectVars
    BY <1>5 DEF CameraCommand, CameraThread, Camera, CameraOnly
  <2>2. QED
    BY <1>5, <2>1, CameraFrame DEF CameraCommand, CameraThread, Camera
<1>6. CASE RejectProcess \/ RejectReader \/ Accept \/ Write \/ Read
  BY <1>6 DEF RejectProcess, RejectReader, Accept, Write, Read, RejectMoves
<1>7. CASE \E x \in Resetters : BeginReset(x) \/ Reset(x)
  BY <1>7 DEF BeginReset, Reset, ResetStep, RejectMoves
<1>8. CASE \E j \in Judges : BeginResult(j) \/ Judge(j)
  BY <1>8 DEF BeginResult, Judge, JudgeStep, RejectMoves
<1>9. QED
  BY <1>2, <1>3, <1>4, <1>5, <1>6, <1>7, <1>8 DEF Next
-----------------------------------------------------------------------------
(* types *)

\* The local socket starts without a client, with empty queues.
LEMMA RejectTypesStart == Init => RejectTypes
<1> SUFFICES ASSUME Init PROVE RejectTypes
  OBVIOUS
<1>1. RejectStart(Rejects[work], Results[work], ResetsOf[work]) /\ CreateFactories /\ work \in Work
  BY DEF Init
<1>2. 0 \in Entries /\ "local" \in Mailboxes /\ {MaxRejects, MaxResults, MaxResets} \subseteq Nat
      /\ SocketRoom \in Nat
  BY RejectLinkAssumption DEF Entries
<1>3. Sized /\ box["local"] = <<>>
  BY <1>1, <1>2 DEF CreateFactories, Sized
<1>4. Rejects[work] \in 0 .. MaxRejects /\ Results[work] \in 0 .. MaxResults
      /\ ResetsOf[work] \in 0 .. MaxResets
  BY <1>1, MessagesAssumption
<1>5. rejects \in 0 .. MaxRejects /\ results \in 0 .. MaxResults /\ resets \in 0 .. MaxResets
  <2>1. /\ rejects = MaxRejects - Rejects[work] /\ results = MaxResults - Results[work]
        /\ resets = MaxResets - ResetsOf[work]
    BY <1>1 DEF RejectStart
  <2>2. MaxRejects \in Nat /\ MaxResults \in Nat /\ MaxResets \in Nat
    BY <1>2
  <2>3. QED
    BY <1>4, <2>1, <2>2
<1>6. /\ local_msg = None /\ backlog = <<>> /\ peer = "none" /\ local_recv = "wait"
      /\ alive = FALSE /\ connect_status = FALSE /\ greet = FALSE
      /\ g_sys_reset_flag = FALSE /\ twoResets = FALSE /\ overrun = FALSE
      /\ sem_connect = 0 /\ sem_reject_reset = 0 /\ lostResets = 0
      /\ toReject = <<>> /\ answers = <<>> /\ sample_result_index = 0
      /\ resetting = [x \in Resetters |-> "idle"]
      /\ judging = [j \in Judges |-> [at |-> "idle", id |-> 0, ref |-> 0]]
      /\ sample_result = [i \in Entries |-> 0] /\ late = [j \in Judges |-> 0]
  BY <1>1 DEF RejectStart
<1>7. (\A S : <<>> \in Seq(S)) /\ Len(<<>>) = 0
  OBVIOUS
<1>8. resetting \in [Resetters -> {"idle", "begun", "wait"}]
  BY <1>6
<1>9. judging \in [Judges -> [at : {"idle", "fill", "post"}, id : 0 .. MaxResults, ref : Entries]]
  <2>1. [at |-> "idle", id |-> 0, ref |-> 0]
          \in [at : {"idle", "fill", "post"}, id : 0 .. MaxResults, ref : Entries]
    BY <1>2
  <2>2. QED
    BY <1>6, <2>1
<1>10. sample_result \in [Entries -> 0 .. MaxResults] /\ late \in [Judges -> Nat]
  BY <1>2, <1>6
<1>11. alive \in BOOLEAN /\ connect_status \in BOOLEAN /\ greet \in BOOLEAN
       /\ g_sys_reset_flag \in BOOLEAN /\ twoResets \in BOOLEAN /\ overrun \in BOOLEAN
  BY <1>6, Zenon
<1>12. /\ box["local"] \in Seq(LocalMessages) /\ backlog \in Seq({"up", "closed"})
       /\ toReject \in Seq({"greeting", "reset", "result"}) /\ answers \in Seq({"version", "reset"})
       /\ Len(toReject) <= SocketRoom
  BY <1>2, <1>3, <1>6, <1>7
<1>13. /\ sem_connect \in Nat /\ sem_reject_reset \in Nat /\ lostResets \in Nat
       /\ local_msg \in LocalMessages \cup {None} /\ sample_result_index \in Entries
       /\ peer \in {"none", "up", "closed"} /\ local_recv \in {"wait", "read"}
  BY <1>2, <1>6
<1>14. QED
  BY <1>3, <1>5, <1>8, <1>9, <1>10, <1>11, <1>12, <1>13, Zenon DEF RejectTypes

\* What becomes of the mailbox of local_send_tsk.
LEMMA PostedLocal ==
  ASSUME RejectTypes, NEW m \in LocalMessages, Posted("local", m)
  PROVE  /\ Sized' /\ box'["local"] \in Seq(LocalMessages)
         /\ Range(box'["local"]) = Range(box["local"]) \cup {m}
         /\ \A K : CountIn(box'["local"], K) = CountIn(box["local"], K) + (IF m \in K THEN 1 ELSE 0)
BY QueuedBox, RejectLinkAssumption DEF RejectTypes, Posted

\* local_send_tsk moves one message from its mailbox to its hand.
LEMMA PendedLocal ==
  ASSUME RejectTypes, LocalPends
  PROVE  /\ Sized' /\ box'["local"] \in Seq(LocalMessages) /\ local_msg' \in LocalMessages
         /\ Range(box["local"]) = Range(box'["local"]) \cup {local_msg'}
         /\ \A K : CountIn(box["local"], K)
                     = CountIn(box'["local"], K) + (IF local_msg' \in K THEN 1 ELSE 0)
BY ReceivedBox, RejectLinkAssumption DEF RejectTypes, LocalPends

\* A judge that moves on keeps its result and its entry.
LEMMA JudgeMoves ==
  ASSUME NEW f \in [Judges -> [at : {"idle", "fill", "post"}, id : 0 .. MaxResults, ref : Entries]],
         NEW j \in Judges, NEW a \in {"idle", "fill", "post"}
  PROVE  [f EXCEPT ![j].at = a]
           \in [Judges -> [at : {"idle", "fill", "post"}, id : 0 .. MaxResults, ref : Entries]]
OBVIOUS

\* Each step keeps the types of the link's variables and of its mailbox.
LEMMA RejectTypesKept == RejectTypes /\ (RejectMoves \/ RejectFrame) => RejectTypes'
<1> SUFFICES ASSUME RejectTypes, RejectMoves \/ RejectFrame PROVE RejectTypes'
  OBVIOUS
<1> USE RejectLinkAssumption
<1> USE DEF RejectTypes, poolVars, rejectVars, peerVars, localVars, resetVars, judgeVars
<1>0. ASSUME UNCHANGED box PROVE Sized' /\ box'["local"] = box["local"]
  BY <1>0 DEF Sized
<1>a. 0 \in Entries
  BY DEF Entries
<1>1. CASE RejectFrame
  BY <1>1 DEF RejectFrame
<1>2. CASE RejectStarts
  <2>1. backlog' \in Seq({"up", "closed"})
    BY <1>2 DEF RejectStarts
  <2>2. QED
    BY <1>2, <1>0, <2>1 DEF RejectStarts
<1>3. CASE RejectDies
  <2>1. backlog' \in Seq({"up", "closed"})
    <3>1. ASSUME backlog # <<>>
          PROVE  [backlog EXCEPT ![Len(backlog)] = "closed"] \in Seq({"up", "closed"})
      <4>1. Len(backlog) \in 1 .. Len(backlog)
        BY <3>1
      <4>2. QED
        BY <4>1, ExceptSeq
    <3>2. QED
      BY <1>3, <3>1 DEF RejectDies
  <2>2. IsFiniteSet(DOMAIN toReject)
    <3>1. DOMAIN toReject = 1 .. Len(toReject) /\ Len(toReject) \in Nat
      OBVIOUS
    <3>2. QED
      BY <3>1, FS_Interval
  <2>3. Resets(toReject) \in Nat
    BY <2>2, FS_Subset, FS_CardinalityType DEF Resets
  <2>4. toReject' \in Seq({"greeting", "reset", "result"}) /\ Len(toReject') <= SocketRoom
        /\ lostResets' \in Nat
    <3>1. <<>> \in Seq({"greeting", "reset", "result"}) /\ Len(<<>>) = 0
      OBVIOUS
    <3>2. QED
      BY <1>3, <2>3, <3>1 DEF RejectDies
  <2>5. QED
    BY <1>3, <1>0, <2>1, <2>4 DEF RejectDies
<1>4. CASE RejectReads
  <2>1. /\ toReject' \in Seq({"greeting", "reset", "result"}) /\ Len(toReject') <= SocketRoom
        /\ answers' \in Seq({"version", "reset"})
    <3>1. toReject # <<>> /\ toReject' = Tail(toReject)
          /\ \/ answers' = answers
             \/ \E a \in {"version", "reset"} : answers' = Append(answers, a)
      BY <1>4 DEF RejectReads
    <3>2. Tail(toReject) \in Seq({"greeting", "reset", "result"}) /\ Len(Tail(toReject)) <= SocketRoom
      BY <1>0, <3>1
    <3>3. \A a \in {"version", "reset"} : Append(answers, a) \in Seq({"version", "reset"})
      BY <1>0
    <3>4. QED
      BY <1>0, <3>1, <3>2, <3>3
  <2>2. QED
    BY <1>4, <1>0, <2>1 DEF RejectReads
<1>5. CASE LocalAccepts
  <2>1. backlog' \in Seq({"up", "closed"}) /\ peer' \in {"up", "closed"}
    BY <1>5 DEF LocalAccepts
  <2>2. QED
    BY <1>5, <1>0, <2>1 DEF LocalAccepts
<1>6. CASE send_handshake_cmd
  <2>1. Message("greeting", 0, 0, 0) \in LocalMessages
    BY <1>a DEF Message, LocalMessages
  <2>2. Sized' /\ box'["local"] \in Seq(LocalMessages)
    BY <1>6, <2>1, PostedLocal DEF send_handshake_cmd
  <2>3. QED
    BY <1>6, <2>2 DEF send_handshake_cmd
<1>7. CASE LocalPends
  <2>1. /\ Sized' /\ box'["local"] \in Seq(LocalMessages)
        /\ local_msg' \in LocalMessages \cup {None}
    BY <1>7, PendedLocal
  <2>2. QED
    BY <1>7, <2>1 DEF LocalPends
<1>8. CASE LocalWrites
  <2>1. local_msg.kind \in {"greeting", "reset", "result"}
    BY <1>8 DEF LocalWrites, LocalMessages
  <2>2. toReject' \in Seq({"greeting", "reset", "result"}) /\ Len(toReject') <= SocketRoom
    BY <1>8, <2>1 DEF LocalWrites
  <2>3. QED
    BY <1>8, <1>0, <2>2 DEF LocalWrites, LocalDone
<1>9. CASE LocalDrops
  BY <1>9, <1>0 DEF LocalDrops, LocalDone
<1>10. CASE LocalWakes
  BY <1>10, <1>0 DEF LocalWakes
<1>11. CASE LocalReceives
  <2>1. answers' \in Seq({"version", "reset"})
    BY <1>11 DEF LocalReceives
  <2>2. QED
    BY <1>11, <1>0, <2>1 DEF LocalReceives
<1>12. CASE LocalCloses
  BY <1>12, <1>0 DEF LocalCloses
<1>13. ASSUME NEW x \in Resetters, ResetBegins(x) PROVE RejectTypes'
  <2>1. late' \in [Judges -> Nat] /\ resetting' \in [Resetters -> {"idle", "begun", "wait"}]
        /\ resets' \in 0 .. MaxResets
    BY <1>13 DEF ResetBegins
  <2>2. twoResets' \in BOOLEAN /\ g_sys_reset_flag' \in BOOLEAN
    BY <1>13, Zenon DEF ResetBegins, Resetting
  <2>3. QED
    BY <1>13, <1>0, <2>1, <2>2 DEF ResetBegins
<1>14. ASSUME NEW x \in Resetters, send_reset_cmd(x) PROVE RejectTypes'
  <2>1. Message("reset", 0, 0, 0) \in LocalMessages
    BY <1>a DEF Message, LocalMessages
  <2>2. Sized' /\ box'["local"] \in Seq(LocalMessages)
    BY <1>14, <2>1, PostedLocal DEF send_reset_cmd
  <2>3. QED
    BY <1>14, <2>2 DEF send_reset_cmd
<1>15. ASSUME NEW x \in Resetters, ResetEnds(x) PROVE RejectTypes'
  <2>1. resetting' \in [Resetters -> {"idle", "begun", "wait"}]
    BY <1>15 DEF ResetEnds
  <2>2. sem_reject_reset' \in Nat
    BY <1>15 DEF ResetEnds
  <2>3. g_sys_reset_flag' \in BOOLEAN
    BY <1>15, Zenon DEF ResetEnds
  <2>4. QED
    BY <1>15, <1>0, <2>1, <2>2, <2>3 DEF ResetEnds
<1>16. ASSUME NEW j \in Judges, get_sample_result_array(j) PROVE RejectTypes'
  <2>1. (sample_result_index + 1) % SAMPLE_ARRAY_MAX \in Entries
    BY DEF Entries
  <2>2. results' \in 0 .. MaxResults /\ sample_result_index' \in Entries
    BY <1>16, <2>1 DEF get_sample_result_array
  <2>3. judging' \in [Judges -> [at : {"idle", "fill", "post"}, id : 0 .. MaxResults, ref : Entries]]
    BY <1>16, <2>1 DEF get_sample_result_array
  <2>4. overrun' \in BOOLEAN
    BY <1>16, Zenon DEF get_sample_result_array
  <2>5. QED
    BY <1>16, <1>0, <2>2, <2>3, <2>4 DEF get_sample_result_array
<1>17. ASSUME NEW j \in Judges, FillResult(j) PROVE RejectTypes'
  <2>1. judging' \in [Judges -> [at : {"idle", "fill", "post"}, id : 0 .. MaxResults, ref : Entries]]
    <3>1. PICK a \in {"idle", "fill", "post"} : judging' = [judging EXCEPT ![j].at = a]
      BY <1>17 DEF FillResult
    <3> HIDE DEF RejectTypes
    <3>2. judging \in [Judges -> [at : {"idle", "fill", "post"}, id : 0 .. MaxResults, ref : Entries]]
      BY DEF RejectTypes
    <3> QED
      BY <3>1, <3>2, JudgeMoves
  <2>2. sample_result' \in [Entries -> 0 .. MaxResults]
    <3>1. sample_result' = [sample_result EXCEPT ![judging[j].ref] = judging[j].id]
      BY <1>17, Zenon DEF FillResult
    <3>2. judging[j].id \in 0 .. MaxResults /\ sample_result \in [Entries -> 0 .. MaxResults]
      OBVIOUS
    <3> HIDE DEF RejectTypes
    <3> QED
      BY <3>1, <3>2
  <2>3. UNCHANGED <<poolVars, peerVars, localVars, resetVars, sample_result_index, results,
                    late, overrun>>
    BY <1>17, Zenon DEF FillResult
  <2>4. Sized' /\ box'["local"] = box["local"]
    BY <1>0, <2>3
  <2>5. rejects' \in 0 .. MaxRejects /\ resets' \in 0 .. MaxResets
    BY <2>3
  <2>6. UNCHANGED <<peerVars, localVars, resetVars, sample_result_index, results, late, overrun>>
    BY <2>3
  <2>7. QED
    BY <2>1, <2>2, <2>4, <2>5, <2>6, SMTT(30)
<1>18. ASSUME NEW j \in Judges, PostResult(j) PROVE RejectTypes'
  <2>1. Message("result", 0, judging[j].ref, judging[j].id) \in LocalMessages
    BY <1>a DEF Message, LocalMessages
  <2>2. Sized' /\ box'["local"] \in Seq(LocalMessages)
    BY <1>18, <2>1, PostedLocal DEF PostResult
  <2>3. judging' \in [Judges -> [at : {"idle", "fill", "post"}, id : 0 .. MaxResults, ref : Entries]]
    <3>1. judging' = [judging EXCEPT ![j].at = "idle"]
      BY <1>18, Zenon DEF PostResult
    <3> QED
      BY <3>1, JudgeMoves
  <2>4. late' \in [Judges -> Nat]
    <3>1. late' = late \/ late' = [late EXCEPT ![j] = @ + 1]
      BY <1>18, Zenon DEF PostResult
    <3>2. late \in [Judges -> Nat] /\ late[j] + 1 \in Nat
      OBVIOUS
    <3> QED
      BY <3>1, <3>2
  <2>5. UNCHANGED <<peerVars, localVars, resetVars, sample_result, sample_result_index, results,
                    overrun>>
    BY <1>18, Zenon DEF PostResult
  <2>6. rejects' \in 0 .. MaxRejects /\ resets' \in 0 .. MaxResets
    BY <2>5
  <2>7. QED
    BY <2>2, <2>3, <2>4, <2>5, <2>6, SMTT(30)
<1>19. QED
  BY <1>1, <1>2, <1>3, <1>4, <1>5, <1>6, <1>7, <1>8, <1>9, <1>10, <1>11, <1>12, <1>13, <1>14,
     <1>15, <1>16, <1>17, <1>18 DEF RejectMoves
-----------------------------------------------------------------------------
(* whose the connection is *)

\* At the start local_connect_tsk is about to accept.
LEMMA ConnectionStarts == Init => ConnectionInv
<1> SUFFICES ASSUME Init PROVE ConnectionInv
  OBVIOUS
<1>1. RejectStart(Rejects[work], Results[work], ResetsOf[work])
  BY DEF Init
<1>2. /\ sem_connect = 0 /\ local_recv = "wait" /\ connect_status = FALSE /\ peer = "none"
      /\ alive = FALSE /\ backlog = <<>>
  BY <1>1 DEF RejectStart
<1>3. QED
  BY <1>2 DEF ConnectionInv, OneRejectConnection

\* Each step keeps the three threads of the local socket agreed on one client.
LEMMA ConnectionKept ==
  RejectTypes /\ ConnectionInv /\ (RejectMoves \/ RejectFrame) => ConnectionInv'
<1> SUFFICES ASSUME RejectTypes, ConnectionInv, RejectMoves \/ RejectFrame
             PROVE  ConnectionInv'
  OBVIOUS
<1> USE DEF ConnectionInv, OneRejectConnection
<1>1. /\ sem_connect \in Nat /\ connect_status \in BOOLEAN /\ alive \in BOOLEAN
      /\ local_recv \in {"wait", "read"} /\ peer \in {"none", "up", "closed"}
      /\ backlog \in Seq({"up", "closed"}) /\ rejects \in Nat
  BY RejectLinkAssumption DEF RejectTypes
<1>2. CASE UNCHANGED <<sem_connect, local_recv, connect_status, peer, alive, backlog, rejects>>
  BY <1>2
<1>3. CASE RejectFrame \/ RejectReads \/ send_handshake_cmd \/ LocalPends \/ LocalWrites
           \/ LocalDrops \/ LocalReceives
           \/ (\E x \in Resetters : ResetBegins(x) \/ send_reset_cmd(x) \/ ResetEnds(x))
           \/ (\E j \in Judges : get_sample_result_array(j) \/ FillResult(j) \/ PostResult(j))
  BY <1>2, <1>3
     DEF RejectFrame, RejectReads, send_handshake_cmd, LocalPends, LocalWrites, LocalDrops,
         LocalReceives, LocalDone, ResetBegins, send_reset_cmd, ResetEnds,
         get_sample_result_array, FillResult, PostResult,
         rejectVars, peerVars, localVars, resetVars, judgeVars
<1>4. CASE RejectStarts
  <2>1. Len(backlog') = Len(backlog) + 1 /\ backlog' # <<>> /\ backlog'[Len(backlog')] = "up"
    BY <1>1, <1>4 DEF RejectStarts
  <2>2. rejects' = rejects + 1
    BY <1>4 DEF RejectStarts
  <2>3. UNCHANGED <<peer, sem_connect, local_recv, connect_status>>
    BY <1>4 DEF RejectStarts, localVars
  <2>4. QED
    BY <1>1, <2>1, <2>2, <2>3
<1>5. CASE RejectDies
  <2>1. CASE backlog # <<>>
    BY <1>1, <1>5, <2>1 DEF RejectDies, localVars
  <2>2. CASE backlog = <<>>
    BY <1>1, <1>5, <2>2 DEF RejectDies, localVars
  <2>3. QED
    BY <2>1, <2>2
<1>6. CASE LocalAccepts
  <2>1. backlog # <<>> /\ backlog' = Tail(backlog) /\ peer' = Head(backlog)
        /\ connect_status' = TRUE /\ sem_connect' = sem_connect + 1
        /\ ~connect_status /\ UNCHANGED <<alive, rejects, local_recv>>
    BY <1>6 DEF LocalAccepts
  <2>2. Head(backlog) = backlog[1] /\ Head(backlog) \in {"up", "closed"}
        /\ Len(Tail(backlog)) = Len(backlog) - 1 /\ Len(backlog) \in Nat \ {0}
        /\ \A i \in 1 .. Len(backlog) - 1 : Tail(backlog)[i] = backlog[i + 1]
    BY <1>1, <2>1
  <2>3. alive => IF backlog' = <<>> THEN peer' = "up" ELSE backlog'[Len(backlog')] = "up"
    <3>1. CASE Len(backlog) = 1
      BY <1>1, <2>1, <2>2, <3>1
    <3>2. CASE Len(backlog) > 1
      <4>1. Len(backlog) - 1 \in 1 .. Len(backlog) - 1 /\ (Len(backlog) - 1) + 1 = Len(backlog)
        BY <2>2, <3>2
      <4>2. Tail(backlog)[Len(backlog) - 1] = backlog[Len(backlog)]
        BY <2>2, <4>1
      <4>3. Tail(backlog) # <<>>
        <5>1. Len(Tail(backlog)) # 0
          BY <2>2, <3>2
        <5>2. Len(<<>>) = 0
          OBVIOUS
        <5>3. QED
          BY <5>1, <5>2, Zenon
      <4>4. QED
        BY <1>1, <2>1, <2>2, <4>2, <4>3
    <3>3. QED
      BY <2>2, <3>1, <3>2
  <2>4. OneRejectConnection'
    BY <1>1, <2>1, <2>2
  <2>5. QED
    BY <1>1, <2>1, <2>3, <2>4
<1>7. CASE LocalWakes
  BY <1>1, <1>7 DEF LocalWakes, peerVars
<1>8. CASE LocalCloses
  BY <1>1, <1>8 DEF LocalCloses
<1>9. QED
  BY <1>3, <1>4, <1>5, <1>6, <1>7, <1>8 DEF RejectMoves

-----------------------------------------------------------------------------
(* where a reset is *)

Commands(s) == CountIn(s, {"reset"})
ResetsIn(q) == CountIn(q, LocalKinds({"reset"}))
IsReset(m) == IF m.kind = "reset" THEN 1 ELSE 0
Waiters == {x \in Resetters : resetting[x] = "wait"}

\* The counts of the model are those of ListFacts.
LEMMA ResetCounts ==
  RejectTypes =>
    /\ Cardinality(InBox("local", {"reset"})) = ResetsIn(box["local"])
    /\ Resets(toReject) = Commands(toReject) /\ Resets(answers) = Commands(answers)
    /\ \A m \in LocalMessages : m \in LocalKinds({"reset"}) <=> m.kind = "reset"
    /\ ResetsIn(box["local"]) \in Nat /\ Commands(toReject) \in Nat /\ Commands(answers) \in Nat
<1> SUFFICES ASSUME RejectTypes
             PROVE  /\ Cardinality(InBox("local", {"reset"})) = ResetsIn(box["local"])
                    /\ Resets(toReject) = Commands(toReject) /\ Resets(answers) = Commands(answers)
                    /\ \A m \in LocalMessages : m \in LocalKinds({"reset"}) <=> m.kind = "reset"
                    /\ ResetsIn(box["local"]) \in Nat /\ Commands(toReject) \in Nat
                    /\ Commands(answers) \in Nat
  OBVIOUS
<1>1. \A m \in LocalMessages : m \in LocalKinds({"reset"}) <=> m.kind = "reset"
  BY DEF LocalKinds
<1>2. box["local"] \in Seq(LocalMessages) /\ toReject \in Seq({"greeting", "reset", "result"})
      /\ answers \in Seq({"version", "reset"})
  BY DEF RejectTypes
<1>3. InBox("local", {"reset"})
        = {i \in DOMAIN box["local"] : box["local"][i] \in LocalKinds({"reset"})}
  BY <1>1, <1>2 DEF InBox, LocalKinds
<1>4. Cardinality(InBox("local", {"reset"})) = ResetsIn(box["local"])
  BY <1>3 DEF ResetsIn, CountIn
<1>5. Resets(toReject) = Commands(toReject) /\ Resets(answers) = Commands(answers)
  <2>1. \A s : {i \in DOMAIN s : s[i] = "reset"} = {i \in DOMAIN s : s[i] \in {"reset"}}
    OBVIOUS
  <2>2. QED
    BY <2>1 DEF Resets, Commands, CountIn
<1>6. ResetsIn(box["local"]) \in Nat /\ Commands(toReject) \in Nat /\ Commands(answers) \in Nat
  BY <1>2, CountType DEF ResetsIn, Commands
<1>7. QED
  BY <1>1, <1>4, <1>5, <1>6

ResetsPlaced ==
  Cardinality(Waiters) = ResetsIn(box["local"]) + IsReset(local_msg) + Commands(toReject)
                         + Commands(answers) + sem_reject_reset + lostResets

\* The count of the property, written as a sum over places.
LEMMA ResetsArePlaced == RejectTypes => (ResetAccounted <=> ResetsPlaced)
BY ResetCounts DEF ResetAccounted, ResetsPlaced, IsReset, Waiters

\* At the start no reset is under way.
LEMMA ResetStarts == Init => ResetInv
<1> SUFFICES ASSUME Init PROVE ResetInv
  OBVIOUS
<1>1. RejectTypes
  BY RejectTypesStart
<1>2. RejectStart(Rejects[work], Results[work], ResetsOf[work]) /\ CreateFactories
  BY DEF Init
<1>3. /\ local_msg = None /\ sem_reject_reset = 0 /\ lostResets = 0
      /\ toReject = <<>> /\ answers = <<>> /\ resetting = [x \in Resetters |-> "idle"]
      /\ box["local"] = <<>>
  BY <1>2, RejectLinkAssumption DEF RejectStart, CreateFactories
<1>4. /\ Cardinality(Waiters) = 0 /\ Cardinality({x \in Resetters : resetting[x] # "idle"}) = 0
  <2>1. Waiters = {} /\ {x \in Resetters : resetting[x] # "idle"} = {}
    BY <1>3 DEF Waiters
  <2>2. QED
    BY <2>1, FS_EmptySet
<1>5. ResetsIn(<<>>) = 0 /\ Commands(<<>>) = 0
  <2>1. \A K : CountIn(<<>>, K) = 0
    <3>1. \A K : {i \in DOMAIN <<>> : <<>>[i] \in K} = {}
      OBVIOUS
    <3>2. QED
      BY <3>1, FS_EmptySet DEF CountIn
  <2>2. QED
    BY <2>1 DEF ResetsIn, Commands
<1>6. IsReset(None) = 0
  BY DEF IsReset, None, Message
<1>7. ResetsPlaced
  BY <1>3, <1>4, <1>5, <1>6 DEF ResetsPlaced
<1>8. resets \in Nat
  BY <1>1, RejectLinkAssumption DEF RejectTypes
<1>9. QED
  BY <1>1, <1>4, <1>7, <1>8, ResetsArePlaced DEF ResetInv

\* One command moves on, or a wait begins or ends; the sums stay equal.
LEMMA ResetsKept == RejectTypes /\ ResetsPlaced /\ (RejectMoves \/ RejectFrame) => ResetsPlaced'
<1> SUFFICES ASSUME RejectTypes, ResetsPlaced, RejectMoves \/ RejectFrame PROVE ResetsPlaced'
  OBVIOUS
<1> DEFINE W == Cardinality(Waiters)
           A == ResetsIn(box["local"])
           L == IsReset(local_msg)
           T == Commands(toReject)
           V == Commands(answers)
<1>1. IsFiniteSet(Resetters) /\ IsFiniteSet(Waiters) /\ W \in Nat
  <2>1. Waiters \in SUBSET Resetters
    BY DEF Waiters
  <2>2. QED
    BY <2>1, RejectLinkAssumption, FS_Subset, FS_CardinalityType
<1>2. /\ A \in Nat /\ L \in {0, 1} /\ T \in Nat /\ V \in Nat /\ sem_reject_reset \in Nat
      /\ lostResets \in Nat
  BY ResetCounts DEF RejectTypes, IsReset
<1>3. W = A + L + T + V + sem_reject_reset + lostResets
  BY DEF ResetsPlaced
<1>4. IsReset(None) = 0
  BY DEF IsReset, None, Message
<1>a. /\ toReject \in Seq({"greeting", "reset", "result"}) /\ answers \in Seq({"version", "reset"})
      /\ resetting \in [Resetters -> {"idle", "begun", "wait"}]
      /\ local_msg \in LocalMessages \cup {None} /\ 0 \in Entries
  BY RejectLinkAssumption DEF RejectTypes, Entries
<1> HIDE DEF W, A, L, T, V
<1>5. SUFFICES W' = A' + L' + T' + V' + sem_reject_reset' + lostResets'
  BY DEF ResetsPlaced, W, A, L, T, V
<1>6. ASSUME UNCHANGED box["local"] PROVE A' = A
  BY <1>6 DEF A, ResetsIn, LocalKinds, LocalMessages, Entries
<1>7. ASSUME UNCHANGED resetting PROVE W' = W
  BY <1>7 DEF W, Waiters
<1>8. ASSUME UNCHANGED local_msg PROVE L' = L
  BY <1>8 DEF L
<1>9. ASSUME UNCHANGED toReject PROVE T' = T
  BY <1>9 DEF T
<1>10. ASSUME UNCHANGED answers PROVE V' = V
  BY <1>10 DEF V
<1>11. ASSUME NEW m \in LocalMessages, Posted("local", m)
       PROVE  A' = A + IsReset(m)
  <2>1. CountIn(box'["local"], LocalKinds({"reset"}))
          = CountIn(box["local"], LocalKinds({"reset"})) + (IF m \in LocalKinds({"reset"}) THEN 1 ELSE 0)
    BY <1>11, PostedLocal
  <2>2. QED
    BY <2>1 DEF A, ResetsIn, IsReset, LocalKinds, LocalMessages, Entries
<1> USE DEF poolVars, peerVars, localVars, resetVars, judgeVars
<1>12. CASE RejectFrame \/ RejectStarts \/ LocalAccepts \/ LocalWakes \/ LocalCloses
            \/ \E j \in Judges : get_sample_result_array(j) \/ FillResult(j)
  <2>1. UNCHANGED <<box["local"], resetting, local_msg, toReject, answers, sem_reject_reset,
                    lostResets>>
    BY <1>12 DEF RejectFrame, rejectVars, RejectStarts, LocalAccepts, LocalWakes, LocalCloses,
                 get_sample_result_array, FillResult
  <2>2. QED
    BY <2>1, <1>3, <1>6, <1>7, <1>8, <1>9, <1>10
<1>13. CASE RejectDies
  <2>1. UNCHANGED <<box["local"], resetting, local_msg, answers, sem_reject_reset>>
    BY <1>13 DEF RejectDies
  <2>2. A' = A /\ W' = W /\ L' = L /\ V' = V /\ sem_reject_reset' = sem_reject_reset
    BY <2>1, <1>6, <1>7, <1>8, <1>10
  <2>3. CASE backlog # <<>>
    <3>1. T' = T /\ lostResets' = lostResets
      BY <1>9, <1>13, <2>3 DEF RejectDies
    <3>2. QED
      BY <2>2, <3>1, <1>3
  <2>4. CASE backlog = <<>>
    <3>1. toReject' = <<>> /\ lostResets' = lostResets + T
      BY <1>13, <2>4, ResetCounts DEF RejectDies, T
    <3>2. Commands(<<>>) = 0
      <4>1. <<>> \in Seq({"reset"})
        OBVIOUS
      <4>2. QED
        BY <4>1, CountType DEF Commands
    <3>3. T' = 0
      BY <3>1, <3>2 DEF T
    <3>4. QED
      BY <2>2, <3>1, <3>3, <1>2, <1>3
  <2>5. QED
    BY <2>3, <2>4
<1>14. CASE RejectReads
  <2>1. /\ UNCHANGED <<box["local"], resetting, local_msg, sem_reject_reset, lostResets>>
        /\ toReject # <<>> /\ toReject' = Tail(toReject)
    BY <1>14 DEF RejectReads
  <2> DEFINE h == IF Head(toReject) = "reset" THEN 1 ELSE 0
  <2>2. T = T' + h
    <3>1. CountIn(toReject, {"reset"})
            = CountIn(Tail(toReject), {"reset"}) + (IF Head(toReject) \in {"reset"} THEN 1 ELSE 0)
      BY <1>a, <2>1, CountTail
    <3>2. QED
      BY <2>1, <3>1 DEF T, Commands
  <2>3. V' = V + h
    <3>1. ASSUME NEW x \in {"version", "reset"}
          PROVE  CountIn(Append(answers, x), {"reset"})
                   = CountIn(answers, {"reset"}) + (IF x \in {"reset"} THEN 1 ELSE 0)
      BY <1>a, CountAppended
    <3>2. CASE Head(toReject) = "reset"
      <4>1. answers' = Append(answers, "reset")
        BY <1>14, <3>2 DEF RejectReads
      <4>2. QED
        BY <3>1, <3>2, <4>1 DEF V, Commands
    <3>3. CASE Head(toReject) = "greeting"
      <4>1. answers' = Append(answers, "version")
        BY <1>14, <3>3 DEF RejectReads
      <4>2. QED
        BY <3>1, <3>3, <4>1, <1>2 DEF V, Commands
    <3>4. CASE Head(toReject) \notin {"reset", "greeting"}
      <4>1. answers' = answers
        BY <1>14, <3>4 DEF RejectReads
      <4>2. QED
        BY <3>4, <4>1, <1>2, <1>10
    <3>5. QED
      BY <3>2, <3>3, <3>4
  <2>4. T' \in Nat
    <3>1. Tail(toReject) \in Seq({"greeting", "reset", "result"})
      BY <1>a, <2>1
    <3>2. QED
      BY <2>1, <3>1, CountType DEF T, Commands
  <2>5. h \in {0, 1}
    OBVIOUS
  <2> HIDE DEF h
  <2>6. QED
    BY <2>1, <2>2, <2>3, <2>4, <2>5, <1>2, <1>3, <1>6, <1>7, <1>8
<1>15. CASE send_handshake_cmd
  <2>1. Message("greeting", 0, 0, 0) \in LocalMessages /\ IsReset(Message("greeting", 0, 0, 0)) = 0
    BY <1>a, RejectLinkAssumption DEF Message, LocalMessages, IsReset
  <2>2. A' = A + 0
    BY <1>11, <1>15, <2>1 DEF send_handshake_cmd
  <2>3. UNCHANGED <<resetting, local_msg, toReject, answers, sem_reject_reset, lostResets>>
    BY <1>15 DEF send_handshake_cmd
  <2>4. QED
    BY <2>2, <2>3, <1>2, <1>3, <1>7, <1>8, <1>9, <1>10
<1>16. CASE LocalPends
  <2>1. A = A' + L'
    <3>1. CountIn(box["local"], LocalKinds({"reset"}))
            = CountIn(box'["local"], LocalKinds({"reset"}))
              + (IF local_msg' \in LocalKinds({"reset"}) THEN 1 ELSE 0)
      BY <1>16, PendedLocal
    <3>2. local_msg' \in LocalMessages
      BY <1>16, PendedLocal
    <3>3. QED
      BY <3>1, <3>2 DEF A, L, ResetsIn, IsReset, LocalKinds, LocalMessages, Entries
  <2>2. L = 0
    BY <1>4, <1>16 DEF L, LocalPends
  <2>3. UNCHANGED <<resetting, toReject, answers, sem_reject_reset, lostResets>>
    BY <1>16 DEF LocalPends
  <2>4. A' \in Nat
    <3>1. box'["local"] \in Seq(LocalMessages)
      BY <1>16, PendedLocal
    <3>2. QED
      BY <3>1, CountType DEF A, ResetsIn, LocalKinds, LocalMessages, Entries
  <2>5. L' \in {0, 1}
    BY DEF L, IsReset
  <2>6. QED
    BY <2>1, <2>2, <2>3, <2>4, <2>5, <1>2, <1>3, <1>7, <1>9, <1>10
<1>17. CASE LocalWrites
  <2>1. /\ UNCHANGED <<box["local"], resetting, answers, sem_reject_reset, lostResets>>
        /\ local_msg' = None /\ toReject' = Append(toReject, local_msg.kind)
        /\ local_msg \in LocalMessages
    BY <1>17, <1>a DEF LocalWrites, LocalDone
  <2>2. L' = 0
    BY <1>4, <2>1 DEF L
  <2>3. T' = T + L
    <3>1. local_msg.kind \in {"greeting", "reset", "result"}
      BY <2>1 DEF LocalMessages
    <3>2. CountIn(Append(toReject, local_msg.kind), {"reset"})
            = CountIn(toReject, {"reset"}) + (IF local_msg.kind \in {"reset"} THEN 1 ELSE 0)
      BY <1>a, <3>1, CountAppended
    <3>3. QED
      BY <2>1, <3>2 DEF T, Commands, L, IsReset
  <2>4. QED
    BY <2>1, <2>2, <2>3, <1>2, <1>3, <1>6, <1>7, <1>10
<1>18. CASE LocalDrops
  <2>1. /\ UNCHANGED <<box["local"], resetting, answers, sem_reject_reset, toReject>>
        /\ local_msg' = None /\ lostResets' = lostResets + L
    BY <1>18 DEF LocalDrops, LocalDone, L, IsReset
  <2>2. L' = 0
    BY <1>4, <2>1 DEF L
  <2>3. QED
    BY <2>1, <2>2, <1>2, <1>3, <1>6, <1>7, <1>9, <1>10
<1>19. CASE LocalReceives
  <2> DEFINE h == IF Head(answers) = "reset" THEN 1 ELSE 0
  <2>1. /\ UNCHANGED <<box["local"], resetting, local_msg, toReject, lostResets>>
        /\ answers # <<>> /\ answers' = Tail(answers)
        /\ sem_reject_reset' = sem_reject_reset + h
    BY <1>19 DEF LocalReceives
  <2>2. V = V' + h
    <3>1. CountIn(answers, {"reset"})
            = CountIn(Tail(answers), {"reset"}) + (IF Head(answers) \in {"reset"} THEN 1 ELSE 0)
      BY <1>a, <2>1, CountTail
    <3>2. QED
      BY <2>1, <3>1 DEF V, Commands
  <2>3. V' \in Nat
    <3>1. Tail(answers) \in Seq({"version", "reset"})
      BY <1>a, <2>1
    <3>2. QED
      BY <2>1, <3>1, CountType DEF V, Commands
  <2>4. h \in {0, 1}
    OBVIOUS
  <2> HIDE DEF h
  <2>5. QED
    BY <2>1, <2>2, <2>3, <2>4, <1>2, <1>3, <1>6, <1>7, <1>8, <1>9
<1>20. ASSUME NEW x \in Resetters, ResetBegins(x)
       PROVE  W' = A' + L' + T' + V' + sem_reject_reset' + lostResets'
  <2>1. UNCHANGED <<box["local"], local_msg, toReject, answers, sem_reject_reset, lostResets>>
    BY <1>20 DEF ResetBegins
  <2>2. Waiters' = Waiters
    BY <1>20, <1>a DEF ResetBegins, Waiters
  <2>3. QED
    BY <2>1, <2>2, <1>3, <1>6, <1>8, <1>9, <1>10 DEF W
<1>21. ASSUME NEW x \in Resetters, send_reset_cmd(x)
       PROVE  W' = A' + L' + T' + V' + sem_reject_reset' + lostResets'
  <2>1. UNCHANGED <<local_msg, toReject, answers, sem_reject_reset, lostResets>>
    BY <1>21 DEF send_reset_cmd
  <2>2. Waiters' = Waiters \cup {x} /\ x \notin Waiters
    BY <1>21, <1>a DEF send_reset_cmd, Waiters
  <2>3. W' = W + 1
    BY <1>1, <2>2, FS_AddElement DEF W
  <2>4. Message("reset", 0, 0, 0) \in LocalMessages /\ IsReset(Message("reset", 0, 0, 0)) = 1
    BY <1>a, RejectLinkAssumption DEF Message, LocalMessages, IsReset
  <2>5. A' = A + 1
    BY <1>11, <1>21, <2>4 DEF send_reset_cmd
  <2>6. QED
    BY <2>1, <2>3, <2>5, <1>1, <1>2, <1>3, <1>8, <1>9, <1>10
<1>22. ASSUME NEW x \in Resetters, ResetEnds(x)
       PROVE  W' = A' + L' + T' + V' + sem_reject_reset' + lostResets'
  <2>1. UNCHANGED <<box["local"], local_msg, toReject, answers, lostResets>>
        /\ sem_reject_reset' = sem_reject_reset - 1 /\ sem_reject_reset > 0
    BY <1>22 DEF ResetEnds
  <2>2. Waiters' = Waiters \ {x} /\ x \in Waiters
    BY <1>22, <1>a DEF ResetEnds, Waiters
  <2>3. W' = W - 1
    BY <1>1, <2>2, FS_RemoveElement DEF W
  <2>4. QED
    BY <2>1, <2>3, <1>1, <1>2, <1>3, <1>6, <1>8, <1>9, <1>10
<1>23. ASSUME NEW j \in Judges, PostResult(j)
       PROVE  W' = A' + L' + T' + V' + sem_reject_reset' + lostResets'
  <2> DEFINE m == Message("result", 0, judging[j].ref, judging[j].id)
  <2>1. m \in LocalMessages /\ IsReset(m) = 0
    BY DEF RejectTypes, Message, LocalMessages, IsReset
  <2>2. A' = A + 0
    BY <1>11, <1>23, <2>1 DEF PostResult
  <2>3. UNCHANGED <<resetting, local_msg, toReject, answers, sem_reject_reset, lostResets>>
    BY <1>23 DEF PostResult
  <2>4. QED
    BY <2>2, <2>3, <1>2, <1>3, <1>7, <1>8, <1>9, <1>10
<1>24. QED
  BY <1>12, <1>13, <1>14, <1>15, <1>16, <1>17, <1>18, <1>19, <1>20, <1>21, <1>22, <1>23
     DEF RejectMoves

\* Each step moves a reset, its command or its answer from one place to another.
LEMMA ResetKept ==
  RejectTypes /\ RejectTypes' /\ ResetInv /\ (RejectMoves \/ RejectFrame) => ResetInv'
<1> SUFFICES ASSUME RejectTypes, RejectTypes', ResetInv, RejectMoves \/ RejectFrame
             PROVE  ResetInv'
  OBVIOUS
<1> DEFINE B == {x \in Resetters : resetting[x] # "idle"}
           P == RejectTypes => (ResetAccounted <=> ResetsPlaced)
<1>1. P'
  BY ResetsArePlaced, PTL
<1>2. ResetAccounted'
  BY <1>1, ResetsKept, ResetsArePlaced DEF ResetInv
<1>3. IsFiniteSet(B) /\ Cardinality(B) \in Nat /\ Cardinality(B) <= resets /\ resets \in Nat
  <2>1. B \in SUBSET Resetters
    OBVIOUS
  <2>2. IsFiniteSet(B) /\ Cardinality(B) \in Nat
    BY <2>1, RejectLinkAssumption, FS_Subset, FS_CardinalityType
  <2>3. resets \in Nat
    BY RejectLinkAssumption DEF RejectTypes
  <2>4. Cardinality(B) <= resets
    BY DEF ResetInv
  <2>5. QED
    BY <2>2, <2>3, <2>4, Zenon
<1>a. resetting \in [Resetters -> {"idle", "begun", "wait"}]
  BY DEF RejectTypes
<1>4. CASE UNCHANGED <<resetting, resets>>
  BY <1>2, <1>3, <1>4 DEF ResetInv
<1>5. ASSUME NEW x \in Resetters, ResetBegins(x) PROVE ResetInv'
  <2>1. B' = B \cup {x} /\ x \notin B /\ resets' = resets + 1
    BY <1>5, <1>a DEF ResetBegins
  <2>2. Cardinality(B') = Cardinality(B) + 1
    BY <1>3, <2>1, FS_AddElement
  <2>3. QED
    BY <1>2, <1>3, <2>1, <2>2 DEF ResetInv
<1>6. ASSUME NEW x \in Resetters, send_reset_cmd(x) PROVE ResetInv'
  <2>1. B' = B /\ resets' = resets
    BY <1>6, <1>a DEF send_reset_cmd
  <2>2. QED
    BY <1>2, <1>3, <2>1 DEF ResetInv
<1>7. ASSUME NEW x \in Resetters, ResetEnds(x) PROVE ResetInv'
  <2>1. B' = B \ {x} /\ x \in B /\ resets' = resets
    BY <1>7, <1>a DEF ResetEnds
  <2>2. Cardinality(B') = Cardinality(B) - 1
    BY <1>3, <2>1, FS_RemoveElement
  <2>3. QED
    BY <1>2, <1>3, <2>1, <2>2 DEF ResetInv
<1>8. RejectFrame \/ UNCHANGED <<resetting, resets>> \/ (\E x \in Resetters : ResetBegins(x) \/ send_reset_cmd(x) \/ ResetEnds(x))
  BY DEF RejectMoves, RejectStarts, RejectDies, RejectReads, LocalAccepts, send_handshake_cmd,
         LocalPends, LocalWrites, LocalDrops, LocalDone, LocalWakes, LocalReceives, LocalCloses,
         get_sample_result_array, FillResult, PostResult, resetVars
<1>9. RejectFrame => UNCHANGED <<resetting, resets>>
  BY DEF RejectFrame, rejectVars, resetVars
<1>10. QED
  BY <1>4, <1>5, <1>6, <1>7, <1>8, <1>9

-----------------------------------------------------------------------------
(* what is left of a reset, and what passes it *)

\* At the start no result is late.
LEMMA LateStarts == Init => LateInv
<1> SUFFICES ASSUME Init PROVE LateInv
  OBVIOUS
<1>1. RejectStart(Rejects[work], Results[work], ResetsOf[work])
  BY DEF Init
<1>2. resetting = [x \in Resetters |-> "idle"] /\ late = [j \in Judges |-> 0]
  BY <1>1 DEF RejectStart
<1>3. QED
  BY <1>2 DEF LateInv, Resetting

\* Each step keeps that a judge posts at most one more result once the flag is
\* set, while one reset at a time is under way.
LEMMA LateKept == RejectTypes /\ LateInv /\ (RejectMoves \/ RejectFrame) => LateInv'
<1> SUFFICES ASSUME RejectTypes, LateInv, RejectMoves \/ RejectFrame PROVE LateInv'
  OBVIOUS
<1> USE DEF Resetting
<1>1. /\ resetting \in [Resetters -> {"idle", "begun", "wait"}]
      /\ judging \in [Judges -> [at : {"idle", "fill", "post"}, id : 0 .. MaxResults, ref : Entries]]
      /\ late \in [Judges -> Nat]
  BY DEF RejectTypes
<1>2. CASE UNCHANGED <<twoResets, resetting, g_sys_reset_flag, late, judging>>
  BY <1>2 DEF LateInv
<1>3. ASSUME NEW x \in Resetters, ResetBegins(x) PROVE LateInv'
  <2>1. CASE Resetting
    BY <1>3, <2>1 DEF ResetBegins, LateInv
  <2>2. CASE ~Resetting
    <3>1. late' = [j \in Judges |-> 0] /\ g_sys_reset_flag' = TRUE
          /\ resetting' = [resetting EXCEPT ![x] = "begun"]
      BY <1>3, <2>2 DEF ResetBegins
    <3>2. \A y \in Resetters : resetting'[y] # "idle" => y = x
      BY <1>1, <2>2, <3>1
    <3>3. QED
      BY <3>1, <3>2 DEF LateInv
  <2>3. QED
    BY <2>1, <2>2
<1>4. ASSUME NEW x \in Resetters, send_reset_cmd(x) PROVE LateInv'
  <2>1. /\ \A y \in Resetters : resetting'[y] # "idle" <=> resetting[y] # "idle"
        /\ UNCHANGED <<twoResets, g_sys_reset_flag, late, judging>>
    BY <1>1, <1>4 DEF send_reset_cmd, judgeVars
  <2>2. QED
    BY <2>1 DEF LateInv
<1>5. ASSUME NEW x \in Resetters, ResetEnds(x) PROVE LateInv'
  <2>1. /\ resetting[x] # "idle" /\ resetting' = [resetting EXCEPT ![x] = "idle"]
        /\ UNCHANGED <<twoResets, late, judging>>
    BY <1>5 DEF ResetEnds, judgeVars
  <2>2. ~twoResets => \A y \in Resetters : resetting'[y] = "idle"
    BY <1>1, <2>1 DEF LateInv
  <2>3. QED
    BY <2>1, <2>2 DEF LateInv
<1>6. ASSUME NEW j \in Judges, get_sample_result_array(j) PROVE LateInv'
  <2>1. \A k \in Judges : judging'[k].at = "post" => judging[k].at = "post"
    BY <1>1, <1>6 DEF get_sample_result_array
  <2>2. UNCHANGED <<twoResets, resetting, g_sys_reset_flag, late>>
    BY <1>6 DEF get_sample_result_array, resetVars
  <2>3. QED
    BY <2>1, <2>2 DEF LateInv
<1>7. ASSUME NEW j \in Judges, FillResult(j) PROVE LateInv'
  <2>1. \A k \in Judges : judging'[k].at = "post" => judging[k].at = "post" \/ ~g_sys_reset_flag
    BY <1>1, <1>7 DEF FillResult
  <2>2. UNCHANGED <<twoResets, resetting, g_sys_reset_flag, late>>
    BY <1>7 DEF FillResult, resetVars
  <2>3. QED
    BY <2>1, <2>2 DEF LateInv
<1>8. ASSUME NEW j \in Judges, PostResult(j) PROVE LateInv'
  <2>1. /\ judging[j].at = "post" /\ judging'[j].at = "idle"
        /\ \A k \in Judges \ {j} : judging'[k] = judging[k]
    BY <1>1, <1>8 DEF PostResult
  <2>2. UNCHANGED <<twoResets, resetting, g_sys_reset_flag>>
    BY <1>8 DEF PostResult, resetVars
  <2>3. CASE Resetting
    <3>1. late' = [late EXCEPT ![j] = @ + 1]
      BY <1>8, <2>3 DEF PostResult
    <3>2. late'[j] = late[j] + 1 /\ \A k \in Judges \ {j} : late'[k] = late[k]
      BY <1>1, <3>1
    <3>3. ~twoResets => late'[j] = 1
      BY <2>1, <2>3, <3>2 DEF LateInv
    <3>4. QED
      BY <2>1, <2>2, <2>3, <3>2, <3>3 DEF LateInv
  <2>4. CASE ~Resetting
    <3>1. late' = late
      BY <1>8, <2>4 DEF PostResult
    <3>2. QED
      BY <2>1, <2>2, <2>4, <3>1 DEF LateInv
  <2>5. QED
    BY <2>3, <2>4
<1>9. QED
  BY <1>2, <1>3, <1>4, <1>5, <1>6, <1>7, <1>8
     DEF RejectFrame, rejectVars, resetVars, judgeVars, RejectMoves, RejectStarts, RejectDies,
         RejectReads, LocalAccepts, send_handshake_cmd, LocalPends, LocalWrites, LocalDrops,
         LocalDone, LocalWakes, LocalReceives, LocalCloses
-----------------------------------------------------------------------------
(* which entries are spoken for *)

\* The two ways of writing the results that are not sent yet.
LEMMA UnsentResults ==
  Unsent = {box["local"][i] : i \in InBox("local", {"result"})}
           \cup (IF local_msg.kind = "result" THEN {local_msg} ELSE {})
BY DEF Unsent, InBox, Range

\* Whatever is on its way, or with a judge, keeps its entry.
LEMMA UsedEntries ==
  /\ \A m \in Unsent : <<m.ref, m.id>> \in InUse
  /\ \A j \in Judges : Active(j) => <<judging[j].ref, judging[j].id>> \in InUse
<1>1. ASSUME NEW m \in Unsent PROVE <<m.ref, m.id>> \in InUse
  <2>1. CASE m \in {box["local"][i] : i \in InBox("local", {"result"})}
    BY <2>1 DEF InUse
  <2>2. CASE local_msg.kind = "result" /\ m = local_msg
    BY <2>2 DEF InUse
  <2>3. QED
    BY <2>1, <2>2, UnsentResults
<1>2. ASSUME NEW j \in Judges, Active(j) PROVE <<judging[j].ref, judging[j].id>> \in InUse
  BY <1>2 DEF InUse, Active
<1>3. QED
  BY <1>1, <1>2

\* At the start no entry of sample_result is in use.
LEMMA EntryStarts == Init => EntryInv
<1> SUFFICES ASSUME Init PROVE EntryInv
  OBVIOUS
<1>1. RejectStart(Rejects[work], Results[work], ResetsOf[work]) /\ CreateFactories
  BY DEF Init
<1>2. /\ local_msg = None /\ judging = [j \in Judges |-> [at |-> "idle", id |-> 0, ref |-> 0]]
      /\ box["local"] = <<>>
  BY <1>1, RejectLinkAssumption DEF RejectStart, CreateFactories
<1>3. None.kind # "result"
  BY DEF None, Message
<1>4. Range(<<>>) = {}
  BY DEF Range
<1>5. Unsent = {}
  BY <1>2, <1>3, <1>4 DEF Unsent
<1>6. \A j \in Judges : judging[j].at = "idle"
  BY <1>2
<1>7. QED
  BY <1>5, <1>6 DEF EntryInv, Active

\* Each step keeps the entries between the oldest result on its way and the index
\* untouched.
LEMMA EntryKept == RejectTypes /\ EntryInv /\ (RejectMoves \/ RejectFrame) => EntryInv'
<1> SUFFICES ASSUME RejectTypes, EntryInv, RejectMoves \/ RejectFrame PROVE EntryInv'
  OBVIOUS
<1> USE DEF Active
<1>1. /\ judging \in [Judges -> [at : {"idle", "fill", "post"}, id : 0 .. MaxResults, ref : Entries]]
      /\ sample_result \in [Entries -> 0 .. MaxResults]
      /\ local_msg \in LocalMessages \cup {None} /\ 0 \in Entries
      /\ MaxResults \in Nat /\ results \in 0 .. MaxResults
  BY RejectLinkAssumption DEF RejectTypes, Entries
<1>2. \A m \in Unsent : m.ref \in Entries
  <2>1. box["local"] \in Seq(LocalMessages)
    BY DEF RejectTypes
  <2>2. Range(box["local"]) \subseteq LocalMessages
    BY <2>1 DEF Range
  <2>3. \A m \in LocalMessages : m.ref \in Entries
    BY DEF LocalMessages
  <2>4. None.ref \in Entries
    BY <1>1 DEF None, Message
  <2>5. QED
    BY <1>1, <2>2, <2>3, <2>4 DEF Unsent
<1>3. ASSUME Unsent' \subseteq Unsent, UNCHANGED <<judging, sample_result, overrun>>
      PROVE  EntryInv'
  BY <1>3 DEF EntryInv
<1>4. ASSUME NEW m \in LocalMessages, Posted("local", m), UNCHANGED local_msg, m.kind # "result"
      PROVE  Unsent' = Unsent
  BY <1>4, PostedLocal DEF Unsent
<1>5. ASSUME UNCHANGED box["local"], local_msg' = local_msg \/ local_msg' = None
      PROVE  Unsent' \subseteq Unsent
  BY <1>5 DEF Unsent, None, Message
<1> USE DEF poolVars, peerVars, localVars, resetVars, judgeVars
<1>6. CASE RejectFrame \/ RejectStarts \/ RejectDies \/ RejectReads \/ LocalAccepts
           \/ LocalWrites \/ LocalDrops \/ LocalWakes \/ LocalReceives \/ LocalCloses
           \/ \E x \in Resetters : ResetBegins(x) \/ ResetEnds(x)
  <2>1. /\ UNCHANGED <<box["local"], judging, sample_result, overrun>>
        /\ local_msg' = local_msg \/ local_msg' = None
    BY <1>6 DEF RejectFrame, rejectVars, RejectStarts, RejectDies, RejectReads, LocalAccepts,
                LocalWrites, LocalDrops, LocalDone, LocalWakes, LocalReceives, LocalCloses,
                ResetBegins, ResetEnds
  <2>2. QED
    BY <2>1, <1>3, <1>5
<1>7. CASE send_handshake_cmd
  <2>1. Message("greeting", 0, 0, 0) \in LocalMessages /\ Message("greeting", 0, 0, 0).kind # "result"
    BY <1>1 DEF Message, LocalMessages
  <2>2. QED
    BY <1>3, <1>4, <1>7, <2>1 DEF send_handshake_cmd
<1>8. ASSUME NEW x \in Resetters, send_reset_cmd(x) PROVE EntryInv'
  <2>1. Message("reset", 0, 0, 0) \in LocalMessages /\ Message("reset", 0, 0, 0).kind # "result"
    BY <1>1 DEF Message, LocalMessages
  <2>2. QED
    BY <1>3, <1>4, <1>8, <2>1 DEF send_reset_cmd
<1>9. CASE LocalPends
  <2>1. Range(box["local"]) = Range(box'["local"]) \cup {local_msg'}
    BY <1>9, PendedLocal
  <2>2. Unsent' \subseteq Unsent
    BY <2>1 DEF Unsent
  <2>3. QED
    BY <1>3, <1>9, <2>2 DEF LocalPends
<1>10. ASSUME NEW j \in Judges, get_sample_result_array(j) PROVE EntryInv'
  <2> DEFINE next == (sample_result_index + 1) % SAMPLE_ARRAY_MAX
  <2>1. /\ results < MaxResults /\ judging[j].at = "idle"
        /\ judging' = [judging EXCEPT ![j] = [at |-> "fill", id |-> results + 1, ref |-> next]]
        /\ overrun' = (overrun \/ \E n \in 1 .. MaxResults : <<next, n>> \in InUse)
        /\ UNCHANGED <<sample_result, box, local_msg>>
    BY <1>10 DEF get_sample_result_array
  <2> HIDE DEF next
  <2>2. Unsent' = Unsent
    BY <2>1 DEF Unsent
  <2>3. /\ judging'[j] = [at |-> "fill", id |-> results + 1, ref |-> next]
        /\ \A k \in Judges \ {j} : judging'[k] = judging[k]
    BY <1>1, <2>1
  <2>4. results + 1 \in 1 .. MaxResults
    BY <1>1, <2>1
  <2>5. ASSUME ~overrun'
        PROVE  /\ ~overrun
               /\ \A m \in Unsent : m.ref # next
               /\ \A k \in Judges : Active(k) => judging[k].ref # next
    <3>1. ~overrun /\ \A n \in 1 .. MaxResults : <<next, n>> \notin InUse
      BY <2>1, <2>5
    <3>2. QED
      BY <3>1, UsedEntries DEF EntryInv
  <2>6. /\ \A m \in Unsent' : m.id \in 1 .. MaxResults
        /\ \A k \in Judges : judging'[k].at # "idle" => judging'[k].id \in 1 .. MaxResults
    BY <2>2, <2>3, <2>4 DEF EntryInv
  <2>7. ASSUME ~overrun'
        PROVE  /\ \A m \in Unsent' : sample_result'[m.ref] = m.id
               /\ \A k \in Judges : judging'[k].at # "idle" => \A m \in Unsent' : m.ref # judging'[k].ref
               /\ \A k, l \in Judges : judging'[k].at # "idle" /\ judging'[l].at # "idle" /\ k # l
                                          => judging'[k].ref # judging'[l].ref
               /\ \A k \in Judges : judging'[k].at = "post"
                                      => sample_result'[judging'[k].ref] = judging'[k].id
    <3>1. ~overrun
      BY <2>5, <2>7
    <3>2. \A m \in Unsent' : sample_result'[m.ref] = m.id
      BY <2>1, <2>2, <3>1 DEF EntryInv
    <3>3. ASSUME NEW k \in Judges, judging'[k].at # "idle", NEW m \in Unsent'
          PROVE  m.ref # judging'[k].ref
      BY <2>2, <2>3, <2>5, <2>7, <3>1, <3>3 DEF EntryInv
    <3>4. ASSUME NEW k \in Judges, NEW l \in Judges, judging'[k].at # "idle",
                 judging'[l].at # "idle", k # l
          PROVE  judging'[k].ref # judging'[l].ref
      <4>1. CASE k = j
        BY <2>3, <2>5, <2>7, <3>4, <4>1
      <4>2. CASE l = j
        BY <2>3, <2>5, <2>7, <3>4, <4>2
      <4>3. CASE k # j /\ l # j
        BY <2>3, <3>1, <3>4, <4>3 DEF EntryInv
      <4>4. QED
        BY <4>1, <4>2, <4>3
    <3>5. ASSUME NEW k \in Judges, judging'[k].at = "post"
          PROVE  sample_result'[judging'[k].ref] = judging'[k].id
      BY <2>1, <2>3, <3>1, <3>5 DEF EntryInv
    <3>6. QED
      BY <3>2, <3>3, <3>4, <3>5
  <2>8. QED
    BY <2>6, <2>7 DEF EntryInv
<1>11. ASSUME NEW j \in Judges, FillResult(j) PROVE EntryInv'
  <2>1. /\ judging[j].at = "fill" /\ judging'[j].at \in {"idle", "post"}
        /\ judging'[j].id = judging[j].id /\ judging'[j].ref = judging[j].ref
        /\ \A k \in Judges \ {j} : judging'[k] = judging[k]
    BY <1>1, <1>11 DEF FillResult
  <2>2. /\ sample_result' = [sample_result EXCEPT ![judging[j].ref] = judging[j].id]
        /\ UNCHANGED <<overrun, box, local_msg>>
    BY <1>11 DEF FillResult
  <2>3. Unsent' = Unsent
    BY <2>2 DEF Unsent
  <2>4. /\ judging[j].ref \in Entries /\ sample_result'[judging[j].ref] = judging[j].id
        /\ \A e \in Entries : e # judging[j].ref => sample_result'[e] = sample_result[e]
    BY <1>1, <2>2
  <2>5. /\ \A m \in Unsent' : m.id \in 1 .. MaxResults
        /\ \A k \in Judges : judging'[k].at # "idle" => judging'[k].id \in 1 .. MaxResults
    BY <2>1, <2>3 DEF EntryInv
  <2>6. ASSUME ~overrun
        PROVE  /\ \A m \in Unsent' : sample_result'[m.ref] = m.id
               /\ \A k \in Judges : judging'[k].at # "idle" => \A m \in Unsent' : m.ref # judging'[k].ref
               /\ \A k, l \in Judges : judging'[k].at # "idle" /\ judging'[l].at # "idle" /\ k # l
                                          => judging'[k].ref # judging'[l].ref
               /\ \A k \in Judges : judging'[k].at = "post"
                                      => sample_result'[judging'[k].ref] = judging'[k].id
    <3>1. \A m \in Unsent' : sample_result'[m.ref] = m.id
      BY <1>2, <2>1, <2>3, <2>4, <2>6 DEF EntryInv
    <3>2. \A k \in Judges : judging'[k].at # "idle" => judging[k].at # "idle"
                                                       /\ judging'[k].ref = judging[k].ref
                                                       /\ judging'[k].id = judging[k].id
      BY <2>1
    <3>3. ASSUME NEW k \in Judges, judging'[k].at = "post"
          PROVE  sample_result'[judging'[k].ref] = judging'[k].id
      <4>1. CASE k = j
        BY <2>1, <2>4, <4>1
      <4>2. CASE k # j
        <5>1. judging[k].at = "post" /\ judging[k].ref \in Entries /\ judging[k].ref # judging[j].ref
          BY <1>1, <2>1, <2>6, <3>3, <4>2 DEF EntryInv
        <5>2. QED
          BY <2>1, <2>4, <2>6, <4>2, <5>1 DEF EntryInv
      <4>3. QED
        BY <4>1, <4>2
    <3>4. QED
      BY <2>3, <2>6, <3>1, <3>2, <3>3 DEF EntryInv
  <2>7. QED
    BY <2>2, <2>5, <2>6 DEF EntryInv
<1>12. ASSUME NEW j \in Judges, PostResult(j) PROVE EntryInv'
  <2> DEFINE x == Message("result", 0, judging[j].ref, judging[j].id)
  <2>1. /\ judging[j].at = "post" /\ judging'[j].at = "idle"
        /\ \A k \in Judges \ {j} : judging'[k] = judging[k]
        /\ UNCHANGED <<overrun, sample_result, local_msg>>
    BY <1>1, <1>12 DEF PostResult
  <2>2. x \in LocalMessages /\ x.ref = judging[j].ref /\ x.id = judging[j].id
    BY <1>1 DEF Message, LocalMessages
  <2>3. Range(box'["local"]) = Range(box["local"]) \cup {x}
    BY <1>12, <2>2, PostedLocal DEF PostResult
  <2> HIDE DEF x
  <2>4. \A m \in Unsent' : m \in Unsent \/ m = x
    BY <2>1, <2>3 DEF Unsent
  <2>5. QED
    BY <2>1, <2>2, <2>4 DEF EntryInv
<1>13. QED
  BY <1>6, <1>7, <1>8, <1>9, <1>10, <1>11, <1>12 DEF RejectMoves

-----------------------------------------------------------------------------
(* the invariant *)

\* All parts hold at the start.
LEMMA RejectStarting == Init => RejectInv
BY RejectTypesStart, ConnectionStarts, ResetStarts, EntryStarts, LateStarts DEF RejectInv

\* And each part is kept, by the lemma of its name.
LEMMA RejectKept == RejectInv /\ [Next]_vars => RejectInv'
BY EachMove, RejectTypesKept, ConnectionKept, ResetKept, EntryKept, LateKept
   DEF RejectInv, RejectTypes

\* The reject link keeps its invariant for any number of judges, of threads that
\* reset, of messages and of entries of the ring.
THEOREM RejectInvariant == Spec => []RejectInv
BY RejectStarting, RejectKept, PTL DEF Spec

\* The three local threads agree on the connection, however often the reject
\* process dies and comes back.
THEOREM LocalThreadsAgree == Spec => []OneRejectConnection
<1>1. RejectInv => OneRejectConnection
  BY DEF RejectInv, ConnectionInv
<1>2. QED
  BY <1>1, RejectInvariant, PTL

\* Every reset that waits has one command or answer on the way, unless it was lost
\* with the connection: none ends on the answer of another (sc_system_reset and
\* local_cmd_analyze).
THEOREM ResetsAreAccounted == Spec => []ResetAccounted
<1>1. RejectInv => ResetAccounted
  BY DEF RejectInv, ResetInv
<1>2. QED
  BY <1>1, RejectInvariant, PTL

\* Until an entry of the ring is given out while its result is still to be sent,
\* every result goes out as it was filled in (get_sample_result_array and
\* send_sample_reault).
THEOREM ResultsAreIntact == Spec => []ResultIntact
<1>1. RejectInv => ResultIntact
  BY UnsentResults DEF RejectInv, EntryInv, ResultIntact
<1>2. QED
  BY <1>1, RejectInvariant, PTL

\* A reset lets through at most one result of each judge, unless two resets are
\* under way at once (sc_system_reset and the test of g_sys_reset_flag).
THEOREM ResetStopsResults == Spec => []LateOncePerJudge
<1>1. RejectInv => LateOncePerJudge
  BY DEF RejectInv, LateInv, LateOncePerJudge
<1>2. QED
  BY <1>1, RejectInvariant, PTL
=============================================================================
