---------------------------- MODULE UplinkProofs ----------------------------
(* What the runs of Messages show of the pools and of the reports to the PC,  *)
(* for any number of messages, buffers, reporters, cameras and entries of the *)
(* rings.  First every message and buffer has one place, so that no mailbox   *)
(* is ever full; then every report is counted; then the samples on their way  *)
(* have consecutive entries of the ring, the oldest furthest behind the index,*)
(* and there is room for the next, and their numbers rise.                    *)
EXTENDS RejectProofs

NetMessages ==
  [kind : {"sample"}, prio : {5}, ref : Nat, id : Nat]
  \cup [kind : {"picture"}, prio : {3}, ref : Nat, id : Nat]
  \cup [kind : {"upload", "feedback"} \cup {CameraBox(c) : c \in Cameras}, prio : {1},
        ref : Nat, id : Nat]
UiMessages == [kind : {"upload"}, prio : {0}, ref : Nat, id : Nat]
CameraMessages == [kind : {"query", "temperature"}, prio : {0}, ref : Nat, id : Nat]
AnyMessages == [kind : Kinds, prio : {0, 1, 3, 5}, ref : Nat, id : Nat]

\* What is in the mailboxes, and what the threads that send hold.
Boxes ==
  /\ Sized /\ \A b \in Mailboxes : box[b] \in Seq(AnyMessages)
  /\ box["net"] \in Seq(NetMessages) /\ box["ui"] \in Seq(UiMessages)
  /\ box["local"] \in Seq(LocalMessages)
  /\ \A c \in Cameras : box[CameraBox(c)] \in Seq(CameraMessages)

MailTypes ==
  /\ Boxes /\ sending \in [{"net", "ui"} -> NetMessages \cup UiMessages \cup {Nothing}]
  /\ sending["net"] \in NetMessages \cup {Nothing}
  /\ sending["ui"] \in UiMessages \cup {Nothing}

PoolTypes == free \in Nat /\ bufs \in Nat

ReportTypes ==
  /\ g_conn_state \in BOOLEAN /\ g_ui_socket_state \in BOOLEAN
  /\ g_sample_ability \in BOOLEAN /\ g_img_ability \in BOOLEAN /\ overlap \in BOOLEAN
  /\ sample_send_process \in Nat /\ lost \in Nat
  /\ samples \in 0 .. MaxSamples /\ pictures \in 0 .. MaxPictures
  /\ sample_info_array \in [0 .. SAMPLE_INFO_ARRAY_MAX -> 0 .. MaxSamples]
  /\ sample_info_array_index \in 0 .. SAMPLE_INFO_ARRAY_MAX
  /\ g_net_send_img_buf \in 0 .. MaxPictures
  /\ reports \in [Reporters -> [at : {"idle", "claim", "produce", "copy", "address", "wrap", "post"},
                                id : 0 .. MaxSamples, ref : 0 .. SAMPLE_INFO_ARRAY_MAX]]
  /\ picture \in {"idle", "claim", "produce", "copy", "post"}

CommandTypes ==
  /\ commands \in [Cameras -> 0 .. MaxCommands]
  /\ lvds \in [Cameras -> [at : {"pend", "check", "send", "recv"}, id : Nat, ref : 0 .. AnswerRing - 1,
                           kind : {"none", "query", "temperature"}]]
  /\ due \in [Cameras -> Seq([id : Nat, kind : {"query", "temperature"}])]
  /\ rxfifo \in [Cameras -> Seq([id : Nat, kind : {"query", "temperature"}])]
  /\ protocolindex \in [Cameras -> 0 .. AnswerRing - 1]
  /\ \A c \in Cameras : lvds[c].at # "pend" => lvds[c].kind # "none"

\* Every report is counted, and no more are counted than there have been samples.
Claiming == {r \in Reporters : reports[r].at = "claim"}
ClaimInv ==
  ClaimsExact /\ sample_send_process + Cardinality(Claiming) <= samples

\* One picture at a time, from its claim to the release of its message.
PictureInv ==
  /\ Cardinality(InBox("net", {"picture"}))
       + (IF sending["net"].kind = "picture" THEN 1 ELSE 0)
       + (IF picture \in {"produce", "copy", "post"} THEN 1 ELSE 0)
       + (IF g_img_ability THEN 1 ELSE 0) = 1
  /\ picture = "claim" => g_img_ability
  /\ picture = "post" => g_net_send_img_buf = pictures
  /\ \A m \in OnTheWay : m.kind = "picture" => g_net_send_img_buf = m.id

\* The entry that is written next, and how far behind it an entry is.
Cursor == IF sample_info_array_index = SAMPLE_INFO_ARRAY_MAX THEN 0 ELSE sample_info_array_index
Age(c, e) == IF e < c THEN c - e ELSE c + SAMPLE_INFO_ARRAY_MAX - e

\* The entry of a sample holds it, that many entries behind the cursor.
Kept(m, a, c, age) ==
  m.ref < SAMPLE_INFO_ARRAY_MAX /\ a[m.ref] = m.id /\ Age(c, m.ref) = age

Queue(k) == Cardinality(InBox("net", {k}))
Addressed == {r \in Reporters : reports[r].at \in {"wrap", "post"}}
Taken == IF Addressed = {} THEN 0 ELSE 1

\* Samples go out before everything else.
SamplesFirst ==
  \A i \in DOMAIN box["net"] : box["net"][i].kind = "sample" <=> i <= Queue("sample")

\* One report at a time has room in the ring.
OneReport ==
  /\ \A q, r \in Reporters : reports[q].at # "idle" /\ reports[r].at # "idle" => q = r
  /\ sample_send_process <= SAMPLE_INFO_ARRAY_MAX
  /\ Claiming # {} => sample_send_process < SAMPLE_INFO_ARRAY_MAX
  /\ (\A r \in Reporters : reports[r].at # "wrap") => sample_info_array_index < SAMPLE_INFO_ARRAY_MAX

\* Each sample is one entry further behind than the next to be sent.
RingOrder ==
  /\ \A r \in Reporters :
       /\ reports[r].at = "address" => sample_info_array[sample_info_array_index] = reports[r].id
       /\ r \in Addressed => Kept(reports[r], sample_info_array, Cursor, 1)
  /\ \A i \in 1 .. Queue("sample") :
       Kept(box["net"][i], sample_info_array, Cursor, Queue("sample") - i + 1 + Taken)
  /\ sending["net"].kind = "sample" =>
       Kept(sending["net"], sample_info_array, Cursor, Queue("sample") + 1 + Taken)

RingInv == SamplesFirst /\ (~overlap => OneReport /\ RingOrder)

PoolInv ==
  RejectInv /\ MailTypes /\ PoolTypes /\ ReportTypes /\ CommandTypes /\ PoolsAccounted

UplinkInv == PoolInv /\ ClaimInv /\ PictureInv /\ RingInv
-----------------------------------------------------------------------------
(* which steps there are *)

UplinkMoves ==
  \/ LinkChanges \/ UiLinkChanges
  \/ \E r \in Reporters : SampleCheck(r) \/ ReportStep(r)
  \/ PictureCheck \/ PictureStep
  \/ CheckedUpload \/ UncheckedUpload \/ UiUpload
  \/ \E b \in {"net", "ui"} : SenderPends(b) \/ SenderRecycles(b)

CameraMoves ==
  \/ CommandDropped
  \/ \E c \in Cameras : \/ Command(c, "query") \/ Command(c, "temperature")
                        \/ CameraStep(c) \/ CameraAnswers(c)

\* Each thread changes the variables of its own part, and the pools.
SystemMoves ==
  \/ UplinkMoves /\ UNCHANGED <<camVars, rejectVars>>
  \/ CameraMoves /\ UNCHANGED <<upVars, rejectVars>>
  \/ RejectMoves /\ UNCHANGED <<upVars, camVars>>
  \/ UNCHANGED <<poolVars, upVars, camVars, rejectVars>>

\* A step of the program is one of one part, and the other parts stay.
LEMMA EachSystemMove == [Next]_vars => SystemMoves
<1> SUFFICES ASSUME [Next]_vars PROVE SystemMoves
  OBVIOUS
<1>1. CASE UNCHANGED vars \/ Numbers \/ Pairs \/ Faults
  BY <1>1 DEF vars, Numbers, Pairs, Faults, SystemMoves
<1>2. CASE Links \/ Picture \/ Upload \/ NetSend \/ UiSend
  BY <1>2 DEF Links, Picture, Upload, NetSend, UiSend, UplinkOnly, UplinkMoves, SystemMoves
<1>3. CASE \E r \in Reporters : Check(r) \/ Report(r)
  BY <1>3 DEF Check, Report, UplinkOnly, UplinkMoves, SystemMoves
<1>4. CASE CameraCommand \/ \E c \in Cameras : CameraThread(c) \/ Camera(c)
  <2>1. CameraMoves /\ UNCHANGED rejectVars
    BY <1>4 DEF CameraCommand, CameraThread, Camera, CameraOnly, PcCommand, query_temp, CameraMoves
  <2>2. UNCHANGED upVars
    BY <2>1 DEF CameraMoves, CommandDropped, Command, CameraStep, CameraPends, CameraChecks,
                CameraSends, AnswerBad, AnswerStored, AnswerForwarded, Answered, AnswerLate,
                CameraAnswers
  <2>3. QED
    BY <2>1, <2>2 DEF SystemMoves
<1>5. CASE RejectProcess \/ RejectReader \/ Accept \/ Write \/ Read
  BY <1>5 DEF RejectProcess, RejectReader, Accept, Write, Read, RejectOnly, RejectMoves, SystemMoves
<1>6. CASE \E x \in Resetters : BeginReset(x) \/ Reset(x)
  BY <1>6 DEF BeginReset, Reset, ResetStep, RejectOnly, RejectMoves, SystemMoves
<1>7. CASE \E j \in Judges : BeginResult(j) \/ Judge(j)
  BY <1>7 DEF BeginResult, Judge, JudgeStep, RejectOnly, RejectMoves, SystemMoves
<1>8. QED
  BY <1>1, <1>2, <1>3, <1>4, <1>5, <1>6, <1>7 DEF Next

-----------------------------------------------------------------------------
(* what is in the mailboxes *)

\* Every mailbox is one of these or stays empty, and they are different.
LEMMA BoxNames ==
  /\ {"net", "ui", "local"} \subseteq Mailboxes
  /\ \A c \in Cameras : CameraBox(c) \in Mailboxes \ {"net", "ui", "local"}
BY UplinkAssumption, RejectLinkAssumption, CameraLinkAssumption

\* A message of any kind fits a variable for messages.
LEMMA MessageSets ==
  /\ NetMessages \subseteq AnyMessages /\ UiMessages \subseteq AnyMessages
  /\ LocalMessages \subseteq AnyMessages /\ CameraMessages \subseteq AnyMessages
<1>3. Entries \subseteq Nat /\ 0 .. MaxResults \subseteq Nat
  BY RejectLinkAssumption DEF Entries
<1>4. NetMessages \subseteq AnyMessages
  BY DEF NetMessages, AnyMessages, Kinds
<1>5. UiMessages \subseteq AnyMessages /\ CameraMessages \subseteq AnyMessages
  BY DEF UiMessages, CameraMessages, AnyMessages, Kinds
<1>6. LocalMessages \subseteq AnyMessages
  BY <1>3 DEF LocalMessages, AnyMessages, Kinds
<1>7. QED
  BY <1>4, <1>5, <1>6

\* Each mailbox takes the messages it is for.
Fits(b, m) ==
  /\ m \in AnyMessages
  /\ b = "net" => m \in NetMessages
  /\ b = "ui" => m \in UiMessages
  /\ b = "local" => m \in LocalMessages
  /\ \A c \in Cameras : b = CameraBox(c) => m \in CameraMessages

\* Posting a message that belongs in a mailbox keeps what is in the mailboxes.
LEMMA BoxesQueued ==
  ASSUME Boxes, NEW b \in Mailboxes, NEW m, Fits(b, m), Queued(b, m)
  PROVE  Boxes'
<1>1. Sized' /\ \A d \in Mailboxes \ {b} : box'[d] = box[d]
  BY QueuedBox DEF Boxes, Fits
<1>2. ASSUME NEW S, box[b] \in Seq(S), m \in S PROVE box'[b] \in Seq(S)
  BY <1>2, QueuedBox DEF Boxes
<1>3. \A d \in Mailboxes : box'[d] \in Seq(AnyMessages)
  BY <1>1, <1>2 DEF Boxes, Fits
<1>4. box'["net"] \in Seq(NetMessages)
  BY <1>1, <1>2, BoxNames DEF Boxes, Fits
<1>5. box'["ui"] \in Seq(UiMessages)
  BY <1>1, <1>2, BoxNames DEF Boxes, Fits
<1>6. box'["local"] \in Seq(LocalMessages)
  BY <1>1, <1>2, BoxNames DEF Boxes, Fits
<1>7. \A c \in Cameras : box'[CameraBox(c)] \in Seq(CameraMessages)
  BY <1>1, <1>2, BoxNames DEF Boxes, Fits
<1>8. QED
  BY <1>1, <1>3, <1>4, <1>5, <1>6, <1>7
     DEF Boxes, NetMessages, UiMessages, LocalMessages, CameraMessages, AnyMessages, Entries

\* Taking one out does too, and gives a message that belongs there.
LEMMA BoxesReceived ==
  ASSUME Boxes, NEW b \in Mailboxes, Pending(b), Received(b)
  PROVE  Boxes' /\ Fits(b, Head(box[b]))
<1>1. Sized' /\ \A d \in Mailboxes \ {b} : box'[d] = box[d]
  BY ReceivedBox DEF Boxes
<1>2. ASSUME NEW S, box[b] \in Seq(S) PROVE box'[b] \in Seq(S) /\ Head(box[b]) \in S
  BY <1>2, ReceivedBox DEF Boxes
<1>3. \A d \in Mailboxes : box'[d] \in Seq(AnyMessages)
  BY <1>1, <1>2 DEF Boxes
<1>4. box'["net"] \in Seq(NetMessages)
  BY <1>1, <1>2, BoxNames DEF Boxes
<1>5. box'["ui"] \in Seq(UiMessages)
  BY <1>1, <1>2, BoxNames DEF Boxes
<1>6. box'["local"] \in Seq(LocalMessages)
  BY <1>1, <1>2, BoxNames DEF Boxes
<1>7. \A c \in Cameras : box'[CameraBox(c)] \in Seq(CameraMessages)
  BY <1>1, <1>2, BoxNames DEF Boxes
<1>8. Boxes'
  BY <1>1, <1>3, <1>4, <1>5, <1>6, <1>7
     DEF Boxes, NetMessages, UiMessages, LocalMessages, CameraMessages, AnyMessages, Entries
<1>9. Fits(b, Head(box[b]))
  BY <1>2 DEF Boxes, Fits
<1>10. QED
  BY <1>8, <1>9

\* Nothing else changes what is in the mailboxes.
LEMMA BoxesSame ==
  ASSUME Boxes, UNCHANGED box PROVE Boxes'
BY DEF Boxes, Sized, NetMessages, UiMessages, LocalMessages, CameraMessages, AnyMessages, Entries
-----------------------------------------------------------------------------
(* types *)

\* At the start the pools are full, the mailboxes empty and the threads idle.
LEMMA TypesStart == Init => MailTypes /\ PoolTypes /\ ReportTypes /\ CommandTypes
<1> SUFFICES ASSUME Init PROVE MailTypes /\ PoolTypes /\ ReportTypes /\ CommandTypes
  OBVIOUS
<1>1. CreateFactories /\ UplinkInit /\ CameraInit
  BY DEF Init
<1>2. \A S : <<>> \in Seq(S)
  OBVIOUS
<1>3. MailTypes
  <2>1. DOMAIN box = Mailboxes /\ \A b \in Mailboxes : box[b] = <<>>
    BY <1>1 DEF CreateFactories
  <2>2. Boxes
    BY <1>2, <2>1, BoxNames DEF Boxes, Sized
  <2>3. sending = [b \in {"net", "ui"} |-> Nothing]
    BY <1>1 DEF UplinkInit
  <2>4. QED
    BY <2>2, <2>3 DEF MailTypes
<1>4. PoolTypes
  BY <1>1, MessagePoolAssumption DEF CreateFactories, PoolTypes
<1>5. ReportTypes
  <2>1. /\ sample_info_array \in [0 .. SAMPLE_INFO_ARRAY_MAX -> 0 .. MaxSamples]
        /\ reports \in [Reporters -> [at : {"idle", "claim", "produce", "copy", "address", "wrap",
                                             "post"},
                                      id : 0 .. MaxSamples, ref : 0 .. SAMPLE_INFO_ARRAY_MAX]]
    BY <1>1, UplinkAssumption DEF UplinkInit
  <2>2. /\ g_conn_state \in BOOLEAN /\ g_ui_socket_state \in BOOLEAN
        /\ g_sample_ability \in BOOLEAN /\ g_img_ability \in BOOLEAN /\ overlap \in BOOLEAN
    BY <1>1, Zenon DEF UplinkInit
  <2>3. /\ sample_send_process \in Nat /\ lost \in Nat
        /\ samples \in 0 .. MaxSamples /\ pictures \in 0 .. MaxPictures
        /\ sample_info_array_index \in 0 .. SAMPLE_INFO_ARRAY_MAX
        /\ g_net_send_img_buf \in 0 .. MaxPictures
        /\ picture \in {"idle", "claim", "produce", "copy", "post"}
    BY <1>1, UplinkAssumption DEF UplinkInit
  <2>4. QED
    BY <2>1, <2>2, <2>3 DEF ReportTypes
<1>6. CommandTypes
  <2>1. 0 \in 0 .. MaxCommands /\ 0 \in 0 .. AnswerRing - 1
    BY CameraLinkAssumption
  <2>2. commands \in [Cameras -> 0 .. MaxCommands] /\ protocolindex \in [Cameras -> 0 .. AnswerRing - 1]
    BY <1>1, <2>1 DEF CameraInit
  <2>3. Resting \in [at : {"pend", "check", "send", "recv"}, id : Nat, ref : 0 .. AnswerRing - 1,
                     kind : {"none", "query", "temperature"}]
    BY <2>1 DEF Resting
  <2>4. lvds = [c \in Cameras |-> Resting] /\ due = [c \in Cameras |-> <<>>]
        /\ rxfifo = [c \in Cameras |-> <<>>]
    BY <1>1 DEF CameraInit
  <2>5. \A c \in Cameras : lvds[c].at = "pend"
    BY <2>4 DEF Resting
  <2>6. QED
    BY <1>2, <2>2, <2>3, <2>4, <2>5 DEF CommandTypes
<1>7. QED
  BY <1>3, <1>4, <1>5, <1>6

\* What is posted fits its mailbox.
LEMMA PostedFits ==
  /\ \A r \in Nat, i \in Nat : /\ Fits("net", Message("sample", 5, r, i))
                               /\ Fits("net", Message("picture", 3, r, i))
                               /\ \A c \in Cameras : Fits("net", Message(CameraBox(c), 1, r, i))
  /\ Fits("net", Message("upload", 1, 0, 0)) /\ Fits("net", Message("feedback", 1, 0, 0))
  /\ Fits("ui", Message("upload", 0, 0, 0))
  /\ \A m \in LocalMessages : Fits("local", m)
  /\ \A c \in Cameras, k \in {"query", "temperature"}, i \in Nat :
       Fits(CameraBox(c), Message(k, 0, c, i))
<1>1. "net" # "ui" /\ "net" # "local" /\ "ui" # "local"
  OBVIOUS
<1>2. \A m \in NetMessages : Fits("net", m)
  BY <1>1, MessageSets, BoxNames DEF Fits
<1>3. \A m \in UiMessages : Fits("ui", m)
  BY <1>1, MessageSets, BoxNames DEF Fits
<1>4. \A m \in LocalMessages : Fits("local", m)
  BY <1>1, MessageSets, BoxNames DEF Fits
<1>5. \A m \in CameraMessages, c \in Cameras : Fits(CameraBox(c), m)
  BY <1>1, MessageSets, BoxNames DEF Fits
<1>6. \A r \in Nat, i \in Nat : /\ Message("sample", 5, r, i) \in NetMessages
                                /\ Message("picture", 3, r, i) \in NetMessages
                                /\ \A c \in Cameras : Message(CameraBox(c), 1, r, i) \in NetMessages
  BY DEF Message, NetMessages
<1>7. /\ Message("upload", 1, 0, 0) \in NetMessages /\ Message("feedback", 1, 0, 0) \in NetMessages
      /\ Message("upload", 0, 0, 0) \in UiMessages
  BY DEF Message, NetMessages, UiMessages
<1>8. \A c \in Cameras, k \in {"query", "temperature"}, i \in Nat :
        Message(k, 0, c, i) \in CameraMessages
  BY CameraLinkAssumption DEF Message, CameraMessages
<1>9. QED
  BY <1>2, <1>3, <1>4, <1>5, <1>6, <1>7, <1>8

\* Whatever a report finds when it posts, its message is queued or released.
LEMMA TimedPostCases ==
  ASSUME NEW b, NEW m, TimedPost(b, m)
  PROVE  \/ Room(b) /\ Queued(b, m) /\ UNCHANGED <<free, claims, g_img_ability>>
         \/ ~Room(b) /\ Recycled /\ Finish(m) /\ UNCHANGED box
BY DEF TimedPost

\* The release functions of reports and pictures change two flags and a count.
LEMMA FinishTypes ==
  ASSUME NEW m, Finish(m), g_sample_ability \in BOOLEAN, g_img_ability \in BOOLEAN,
         sample_send_process \in Nat
  PROVE  g_sample_ability' \in BOOLEAN /\ g_img_ability' \in BOOLEAN /\ sample_send_process' \in Nat
<1>1. g_img_ability' = TRUE \/ g_img_ability' = g_img_ability
  BY DEF Finish, allow_send_image
<1>2. UNCHANGED claims \/ allow_send_sample
  BY DEF Finish
<1>3. sample_send_process' \in Nat
  BY <1>2 DEF allow_send_sample, claims
<1>4. g_sample_ability' \in BOOLEAN
  <2>1. CASE UNCHANGED claims
    BY <2>1 DEF claims
  <2>2. CASE allow_send_sample
    <3>1. \/ g_sample_ability' = g_sample_ability
          \/ g_sample_ability' = (g_sample_ability \/ sample_send_process - 1 < SAMPLE_INFO_ARRAY_MAX)
      BY <2>2 DEF allow_send_sample, claims
    <3>2. QED
      BY <3>1, Zenon
  <2>3. QED
    BY <1>2, <2>1, <2>2
<1>5. g_img_ability' \in BOOLEAN
  BY <1>1, Zenon
<1>6. QED
  BY <1>3, <1>4, <1>5

\* Each step of a report keeps the types of messages, rings and flags.
LEMMA UplinkTypesKept ==
  ASSUME MailTypes, ReportTypes, UplinkMoves
  PROVE  MailTypes' /\ ReportTypes'
<1> USE UplinkAssumption
<1> USE DEF poolVars, conns, claims, ring, image, ghosts
<1>a. /\ "net" \in Mailboxes /\ "ui" \in Mailboxes /\ Boxes
  BY BoxNames DEF MailTypes
<1>b. /\ sending \in [{"net", "ui"} -> NetMessages \cup UiMessages \cup {Nothing}]
      /\ sending["net"] \in NetMessages \cup {Nothing} /\ sending["ui"] \in UiMessages \cup {Nothing}
  BY DEF MailTypes
<1>c. ASSUME Boxes', UNCHANGED sending PROVE MailTypes'
  BY <1>c, <1>b DEF MailTypes, NetMessages, UiMessages
<1>d. ASSUME NEW b \in Mailboxes, NEW m, Fits(b, m), Queued(b, m) PROVE Boxes'
  BY <1>a, <1>d, BoxesQueued
<1>e. ASSUME UNCHANGED box PROVE Boxes'
  BY <1>a, <1>e, BoxesSame
<1> DEFINE ReportSet == [at : {"idle", "claim", "produce", "copy", "address", "wrap", "post"},
                         id : 0 .. MaxSamples, ref : 0 .. SAMPLE_INFO_ARRAY_MAX]
<1>f. /\ reports \in [Reporters -> ReportSet]
      /\ sample_info_array \in [0 .. SAMPLE_INFO_ARRAY_MAX -> 0 .. MaxSamples]
      /\ sample_info_array_index \in 0 .. SAMPLE_INFO_ARRAY_MAX /\ SAMPLE_INFO_ARRAY_MAX \in Nat
      /\ samples \in 0 .. MaxSamples /\ MaxSamples \in Nat
      /\ sample_send_process \in Nat /\ lost \in Nat
      /\ g_sample_ability \in BOOLEAN /\ g_img_ability \in BOOLEAN /\ overlap \in BOOLEAN
      /\ g_conn_state \in BOOLEAN /\ g_ui_socket_state \in BOOLEAN
      /\ pictures \in 0 .. MaxPictures /\ g_net_send_img_buf \in 0 .. MaxPictures
      /\ picture \in {"idle", "claim", "produce", "copy", "post"}
  BY DEF ReportTypes
<1>g. ASSUME NEW r \in Reporters,
             NEW at \in {"idle", "claim", "produce", "copy", "address", "wrap", "post"}
      PROVE  Goes(r, at) => reports' \in [Reporters -> ReportSet]
  <2> SUFFICES ASSUME Goes(r, at) PROVE reports' \in [Reporters -> ReportSet]
    OBVIOUS
  <2>1. reports[r] \in ReportSet
    BY <1>f
  <2>2. [reports[r] EXCEPT !.at = at] \in ReportSet
    BY <2>1
  <2>3. reports' = [reports EXCEPT ![r] = [reports[r] EXCEPT !.at = at]]
    BY DEF Goes
  <2> HIDE DEF ReportSet
  <2>4. QED
    BY <1>f, <2>2, <2>3
<1>1. CASE LinkChanges \/ UiLinkChanges
  BY <1>1, <1>c, <1>e, <1>f DEF LinkChanges, UiLinkChanges, ReportTypes
<1>2. ASSUME NEW r \in Reporters, SampleCheck(r) PROVE MailTypes' /\ ReportTypes'
  <2>1. samples' \in 0 .. MaxSamples /\ samples + 1 \in 0 .. MaxSamples
    BY <1>2, <1>f DEF SampleCheck
  <2>2. reports' \in [Reporters -> ReportSet]
    <3>1. [at |-> "claim", id |-> samples + 1, ref |-> 0] \in ReportSet
      BY <2>1, <1>f
    <3>2. \/ reports' = reports
          \/ reports' = [reports EXCEPT ![r] = [at |-> "claim", id |-> samples + 1, ref |-> 0]]
      BY <1>2 DEF SampleCheck
    <3> HIDE DEF ReportSet
    <3>3. QED
      BY <3>1, <3>2, <1>f
  <2>3. overlap' \in BOOLEAN
    <3>1. \/ overlap' = overlap
          \/ overlap' = (overlap \/ \E q \in Reporters \ {r} : reports[q].at # "idle")
      BY <1>2 DEF SampleCheck
    <3>2. QED
      BY <3>1, <1>f, Zenon
  <2>4. QED
    BY <1>2, <1>c, <1>e, <1>f, <2>1, <2>2, <2>3 DEF SampleCheck, ReportTypes
<1>3. ASSUME NEW r \in Reporters, SampleClaim(r) PROVE MailTypes' /\ ReportTypes'
  <2>1. reports' \in [Reporters -> ReportSet]
    BY <1>3, <1>g DEF SampleClaim
  <2>2. g_sample_ability' \in BOOLEAN
    <3>1. g_sample_ability' = (g_sample_ability /\ sample_send_process + 1 < SAMPLE_INFO_ARRAY_MAX)
      BY <1>3 DEF SampleClaim
    <3>2. QED
      BY <3>1, <1>f, Zenon
  <2>3. QED
    BY <1>3, <1>c, <1>e, <1>f, <2>1, <2>2 DEF SampleClaim, ReportTypes
<1>4. ASSUME NEW r \in Reporters, SampleProduce(r) PROVE MailTypes' /\ ReportTypes'
  <2>1. reports' \in [Reporters -> ReportSet] /\ lost' \in Nat
    BY <1>4, <1>f, <1>g DEF SampleProduce
  <2>2. QED
    BY <1>4, <1>c, <1>e, <1>f, <2>1 DEF SampleProduce, ReportTypes
<1>5. ASSUME NEW r \in Reporters, SampleCopy(r) PROVE MailTypes' /\ ReportTypes'
  <2>1. reports' \in [Reporters -> ReportSet]
    BY <1>5, <1>g DEF SampleCopy
  <2>2. sample_info_array' \in [0 .. SAMPLE_INFO_ARRAY_MAX -> 0 .. MaxSamples]
    BY <1>5, <1>f DEF SampleCopy
  <2>3. QED
    BY <1>5, <1>c, <1>e, <1>f, <2>1, <2>2 DEF SampleCopy, ReportTypes
<1>6. ASSUME NEW r \in Reporters, SampleAddress(r) PROVE MailTypes' /\ ReportTypes'
  <2>1. reports' \in [Reporters -> ReportSet]
    <3> DEFINE e == [reports[r] EXCEPT !.at = "wrap", !.ref = sample_info_array_index]
    <3>1. reports' = [reports EXCEPT ![r] = e]
      BY <1>6, <1>f DEF SampleAddress
    <3>2. e \in ReportSet
      BY <1>f
    <3> HIDE DEF e
    <3>3. QED
      BY <1>f, <3>1, <3>2
  <2>2. sample_info_array_index' \in 0 .. SAMPLE_INFO_ARRAY_MAX
    <3>1. sample_info_array_index' =
           IF sample_info_array_index < SAMPLE_INFO_ARRAY_MAX
           THEN sample_info_array_index + 1 ELSE sample_info_array_index
      BY <1>6 DEF SampleAddress
    <3>2. sample_info_array_index \in 0 .. SAMPLE_INFO_ARRAY_MAX /\ SAMPLE_INFO_ARRAY_MAX \in Nat
      BY <1>f
    <3>3. QED
      BY <3>1, <3>2
  <2>3. QED
    BY <1>6, <1>c, <1>e, <1>f, <2>1, <2>2 DEF SampleAddress, ReportTypes
<1>7. ASSUME NEW r \in Reporters, SampleWrap(r) PROVE MailTypes' /\ ReportTypes'
  <2>1. reports' \in [Reporters -> ReportSet]
    BY <1>7, <1>g DEF SampleWrap
  <2>2. sample_info_array_index' \in 0 .. SAMPLE_INFO_ARRAY_MAX
    <3>1. sample_info_array_index' =
           IF sample_info_array_index >= SAMPLE_INFO_ARRAY_MAX THEN 0
           ELSE sample_info_array_index
      BY <1>7 DEF SampleWrap
    <3>2. sample_info_array_index \in 0 .. SAMPLE_INFO_ARRAY_MAX /\ SAMPLE_INFO_ARRAY_MAX \in Nat
      BY <1>f
    <3>3. QED
      BY <3>1, <3>2
  <2>3. QED
    BY <1>7, <1>c, <1>e, <1>f, <2>1, <2>2 DEF SampleWrap, ReportTypes
<1>8. ASSUME NEW r \in Reporters, SamplePost(r) PROVE MailTypes' /\ ReportTypes'
  <2> DEFINE m == Message("sample", 5, reports[r].ref, reports[r].id)
  <2>1. reports' \in [Reporters -> ReportSet]
    BY <1>8, <1>g DEF SamplePost
  <2>2. Fits("net", m)
    BY <1>f, PostedFits
  <2>3. TimedPost("net", m) /\ UNCHANGED <<conns, ring, image, sending, ghosts>>
    BY <1>8 DEF SamplePost
  <2> HIDE DEF m
  <2>4. Boxes' /\ g_sample_ability' \in BOOLEAN /\ g_img_ability' \in BOOLEAN
        /\ sample_send_process' \in Nat
    <3>1. CASE Queued("net", m) /\ UNCHANGED <<free, claims, g_img_ability>>
      BY <3>1, <2>2, <1>a, <1>d, <1>f
    <3>2. CASE Finish(m) /\ UNCHANGED box
      BY <3>2, <1>e, <1>f, FinishTypes
    <3>3. QED
      BY <2>3, <3>1, <3>2, TimedPostCases
  <2>5. QED
    BY <1>c, <1>f, <2>1, <2>3, <2>4 DEF ReportTypes
<1>9. CASE PictureCheck \/ PictureClaim \/ PictureProduce \/ PictureCopy
  <2>1. UNCHANGED <<box, sending>>
    BY <1>9 DEF PictureCheck, PictureClaim, PictureProduce, PictureCopy
  <2>2. UNCHANGED <<conns, claims, ring, reports, ghosts>>
    BY <1>9 DEF PictureCheck, PictureClaim, PictureProduce, PictureCopy
  <2>3. picture' \in {"idle", "claim", "produce", "copy", "post"} /\ pictures' \in 0 .. MaxPictures
        /\ g_net_send_img_buf' \in 0 .. MaxPictures
    BY <1>9, <1>f, SMTT(30) DEF PictureCheck, PictureClaim, PictureProduce, PictureCopy
  <2>4. g_img_ability' \in BOOLEAN
    BY <1>9, <1>f, Zenon DEF PictureCheck, PictureClaim, PictureProduce, PictureCopy, allow_send_image
  <2>5. QED
    BY <1>c, <1>e, <1>f, <2>1, <2>2, <2>3, <2>4 DEF ReportTypes
<1>10. CASE PicturePost
  <2> DEFINE m == Message("picture", 3, 0, pictures)
  <2>1. Fits("net", m)
    BY <1>f, PostedFits
  <2>2. TimedPost("net", m) /\ picture' = "idle"
        /\ UNCHANGED <<conns, ring, g_net_send_img_buf, pictures, reports, sending, ghosts>>
    BY <1>10 DEF PicturePost
  <2> HIDE DEF m
  <2>3. Boxes' /\ g_sample_ability' \in BOOLEAN /\ g_img_ability' \in BOOLEAN
        /\ sample_send_process' \in Nat
    <3>1. CASE Queued("net", m) /\ UNCHANGED <<free, claims, g_img_ability>>
      BY <3>1, <2>1, <1>a, <1>d, <1>f
    <3>2. CASE Finish(m) /\ UNCHANGED box
      BY <3>2, <1>e, <1>f, FinishTypes
    <3>3. QED
      BY <2>2, <3>1, <3>2, TimedPostCases
  <2>4. QED
    BY <1>c, <1>f, <2>2, <2>3 DEF ReportTypes
<1>11. CASE CheckedUpload \/ UncheckedUpload \/ UiUpload
  <2>1. Boxes'
    BY <1>11, <1>a, <1>d, <1>e, PostedFits DEF CheckedUpload, UncheckedUpload, UiUpload, Posted
  <2>2. UNCHANGED upVars
    BY <1>11 DEF CheckedUpload, UncheckedUpload, UiUpload
  <2>3. QED
    BY <1>c, <1>f, <2>1, <2>2 DEF upVars, ReportTypes
<1>12. ASSUME NEW b \in {"net", "ui"}, SenderPends(b) PROVE MailTypes' /\ ReportTypes'
  <2>1. Boxes' /\ Fits(b, Head(box[b]))
    BY <1>12, <1>a, BoxesReceived DEF SenderPends
  <2>2. sending' = [sending EXCEPT ![b] = Head(box[b])]
    BY <1>12 DEF SenderPends
  <2>3. sending'["net"] \in NetMessages \cup {Nothing} /\ sending'["ui"] \in UiMessages \cup {Nothing}
        /\ sending' \in [{"net", "ui"} -> NetMessages \cup UiMessages \cup {Nothing}]
    BY <1>b, <2>1, <2>2 DEF Fits
  <2>4. MailTypes'
    BY <2>1, <2>3 DEF MailTypes, NetMessages, UiMessages
  <2>5. QED
    BY <1>12, <1>f, <2>4 DEF SenderPends, ReportTypes
<1>13. ASSUME NEW b \in {"net", "ui"}, SenderRecycles(b) PROVE MailTypes' /\ ReportTypes'
  <2>1. /\ Finish(sending[b]) /\ sending' = [sending EXCEPT ![b] = Nothing]
        /\ UNCHANGED <<box, conns, ring, image, reports, ghosts>>
    BY <1>13 DEF SenderRecycles
  <2>2. sending'["net"] \in NetMessages \cup {Nothing} /\ sending'["ui"] \in UiMessages \cup {Nothing}
        /\ sending' \in [{"net", "ui"} -> NetMessages \cup UiMessages \cup {Nothing}]
    BY <1>b, <2>1
  <2>3. MailTypes'
    BY <1>e, <2>1, <2>2 DEF MailTypes, NetMessages, UiMessages
  <2>4. g_sample_ability' \in BOOLEAN /\ g_img_ability' \in BOOLEAN /\ sample_send_process' \in Nat
    BY <1>f, <2>1, FinishTypes
  <2>5. QED
    BY <1>f, <2>1, <2>3, <2>4 DEF ReportTypes
<1>14. QED
  BY <1>1, <1>2, <1>3, <1>4, <1>5, <1>6, <1>7, <1>8, <1>9, <1>10, <1>11, <1>12, <1>13
     DEF UplinkMoves, ReportStep, PictureStep

\* The other threads leave what net_send_tsk and ui_send_tsk hold.
LEMMA SendingFrame ==
  ASSUME MailTypes, Boxes', UNCHANGED sending PROVE MailTypes'
BY DEF MailTypes, NetMessages, UiMessages

\* A command that cannot be carried out is answered through net's mailbox.
LEMMA FeedbackBoxes ==
  ASSUME Boxes, Feedback PROVE Boxes'
<1>1. CASE Posted("net", Message("feedback", 1, 0, 0))
  BY <1>1, BoxesQueued, PostedFits, BoxNames DEF Posted
<1>2. CASE UNCHANGED box
  BY <1>2, BoxesSame
<1>3. QED
  BY <1>1, <1>2 DEF Feedback

\* Each step of a command keeps the types of messages, FIFOs and camera threads.
LEMMA CameraTypesKept ==
  ASSUME MailTypes, CommandTypes, CameraMoves, UNCHANGED upVars
  PROVE  MailTypes' /\ CommandTypes'
<1> USE CameraLinkAssumption
<1> USE DEF poolVars
<1> DEFINE Command2 == [id : Nat, kind : {"query", "temperature"}]
           Place == [at : {"pend", "check", "send", "recv"}, id : Nat, ref : 0 .. AnswerRing - 1,
                     kind : {"none", "query", "temperature"}]
<1>a. Boxes /\ UNCHANGED sending
  BY DEF MailTypes, upVars
<1>b. SUFFICES Boxes' /\ CommandTypes'
  BY <1>a, SendingFrame
<1>c. /\ commands \in [Cameras -> 0 .. MaxCommands] /\ lvds \in [Cameras -> Place]
      /\ due \in [Cameras -> Seq(Command2)] /\ rxfifo \in [Cameras -> Seq(Command2)]
      /\ protocolindex \in [Cameras -> 0 .. AnswerRing - 1]
  BY DEF CommandTypes
<1>k. \A c \in Cameras : lvds[c].at # "pend" => lvds[c].kind # "none"
  BY DEF CommandTypes
<1>d. /\ AnswerRing \in Nat \ {0} /\ MaxCommands \in Nat
      /\ \A c \in Cameras : CameraBox(c) \in Mailboxes
  BY BoxNames
<1>e. ASSUME NEW c \in Cameras, NEW p \in Place, lvds' = [lvds EXCEPT ![c] = p],
             p.at # "pend" => p.kind # "none"
      PROVE  /\ lvds' \in [Cameras -> Place]
             /\ \A d \in Cameras : lvds'[d].at # "pend" => lvds'[d].kind # "none"
  <2> HIDE DEF Place
  <2>1. lvds'[c] = p /\ \A d \in Cameras \ {c} : lvds'[d] = lvds[d]
    BY <1>c, <1>e
  <2>2. lvds' \in [Cameras -> Place]
    BY <1>c, <1>e
  <2>3. QED
    BY <1>k, <1>e, <2>1, <2>2
<1>1. CASE CommandDropped
  BY <1>1, <1>a, <1>c, <1>k, BoxesSame DEF CommandDropped, camVars, CommandTypes
<1>2. ASSUME NEW c \in Cameras, NEW k \in {"query", "temperature"}, Command(c, k)
      PROVE  Boxes' /\ CommandTypes'
  <2>1. commands[c] + 1 \in 0 .. MaxCommands /\ commands' = [commands EXCEPT ![c] = @ + 1]
    BY <1>2, <1>c, <1>d DEF Command
  <2>2. Fits(CameraBox(c), Message(k, 0, c, commands[c] + 1))
    BY <1>d, <2>1, PostedFits
  <2>3. Boxes'
    BY <1>2, <1>a, <1>d, <2>2, BoxesQueued DEF Command, Posted
  <2>4. commands' \in [Cameras -> 0 .. MaxCommands]
    BY <1>c, <2>1
  <2>5. QED
    BY <1>2, <1>c, <1>k, <2>3, <2>4 DEF Command, CommandTypes
<1>3. ASSUME NEW c \in Cameras, CameraPends(c) PROVE Boxes' /\ CommandTypes'
  <2> DEFINE m == Head(box[CameraBox(c)])
  <2>1. Boxes' /\ Fits(CameraBox(c), m)
    BY <1>3, <1>a, <1>d, BoxesReceived DEF CameraPends
  <2>2. m.id \in Nat /\ m.kind \in {"query", "temperature"}
    BY <2>1 DEF Fits, CameraMessages
  <2>3. lvds' = [lvds EXCEPT ![c] = [at |-> "check", id |-> m.id, kind |-> m.kind, ref |-> 0]]
    BY <1>3 DEF CameraPends
  <2> HIDE DEF m
  <2>4. [at |-> "check", id |-> m.id, kind |-> m.kind, ref |-> 0] \in Place
    BY <1>d, <2>2
  <2>5. /\ lvds' \in [Cameras -> Place]
        /\ \A d \in Cameras : lvds'[d].at # "pend" => lvds'[d].kind # "none"
    BY <1>e, <2>2, <2>3, <2>4
  <2>6. QED
    BY <1>3, <1>c, <2>1, <2>5 DEF CameraPends, CommandTypes
<1>4. ASSUME NEW c \in Cameras, CameraChecks(c) PROVE Boxes' /\ CommandTypes'
  <2>1. /\ lvds' \in [Cameras -> Place]
        /\ \A d \in Cameras : lvds'[d].at # "pend" => lvds'[d].kind # "none"
    <3>1. lvds[c] \in Place /\ lvds[c].kind # "none"
      BY <1>4, <1>c, <1>k DEF CameraChecks
    <3>2. [lvds[c] EXCEPT !.at = "send"] \in Place /\ [lvds[c] EXCEPT !.at = "send"].kind # "none"
      BY <3>1
    <3>3. lvds' = [lvds EXCEPT ![c] = [lvds[c] EXCEPT !.at = "send"]]
      BY <1>4 DEF CameraChecks
    <3>4. QED
      BY <1>e, <3>2, <3>3
  <2>2. <<>> \in Seq(Command2)
    OBVIOUS
  <2>3. rxfifo' \in [Cameras -> Seq(Command2)]
    BY <1>4, <1>c, <2>2 DEF CameraChecks
  <2>4. Boxes'
    BY <1>4, <1>a, BoxesSame DEF CameraChecks
  <2>5. QED
    BY <1>4, <1>c, <2>1, <2>3, <2>4 DEF CameraChecks, CommandTypes
<1>5. ASSUME NEW c \in Cameras, CameraSends(c) PROVE Boxes' /\ CommandTypes'
  <2>a. lvds[c] \in Place /\ lvds[c].kind \in {"query", "temperature"}
        /\ protocolindex[c] \in 0 .. AnswerRing - 1
    BY <1>5, <1>c, <1>k DEF CameraSends
  <2>1. /\ lvds' \in [Cameras -> Place]
        /\ \A d \in Cameras : lvds'[d].at # "pend" => lvds'[d].kind # "none"
    <3> DEFINE p == [lvds[c] EXCEPT !.at = "recv", !.ref = protocolindex[c]]
    <3>1. p \in Place /\ p.kind # "none"
      BY <2>a
    <3>2. lvds' = [lvds EXCEPT ![c] = p]
      BY <1>5, <1>c DEF CameraSends
    <3> HIDE DEF p
    <3>3. QED
      BY <1>e, <3>1, <3>2
  <2>2. protocolindex' \in [Cameras -> 0 .. AnswerRing - 1]
    <3>1. (protocolindex[c] + 1) % AnswerRing \in 0 .. AnswerRing - 1
      BY <1>c, <1>d
    <3>2. QED
      BY <1>5, <1>c, <3>1 DEF CameraSends
  <2>3. due' \in [Cameras -> Seq(Command2)]
    <3>1. [id |-> lvds[c].id, kind |-> lvds[c].kind] \in Command2
      BY <2>a
    <3> HIDE DEF Command2
    <3>2. Append(due[c], [id |-> lvds[c].id, kind |-> lvds[c].kind]) \in Seq(Command2)
      BY <1>c, <3>1
    <3>3. QED
      BY <1>5, <1>c, <3>2 DEF CameraSends
  <2>4. Boxes'
    BY <1>5, <1>a, BoxesSame DEF CameraSends
  <2>5. QED
    BY <1>5, <1>c, <2>1, <2>2, <2>3, <2>4 DEF CameraSends, CommandTypes
<1>6. ASSUME NEW c \in Cameras, lvds' = [lvds EXCEPT ![c] = Resting],
             rxfifo' = rxfifo \/ rxfifo' = [rxfifo EXCEPT ![c] = <<>>],
             UNCHANGED <<commands, due, protocolindex>>
      PROVE  CommandTypes'
  <2>1. Resting \in Place
    BY <1>d DEF Resting
  <2>2. <<>> \in Seq(Command2)
    OBVIOUS
  <2>3. /\ lvds' \in [Cameras -> Place]
        /\ \A d \in Cameras : lvds'[d].at # "pend" => lvds'[d].kind # "none"
    BY <1>e, <1>6, <2>1 DEF Resting
  <2>4. rxfifo' \in [Cameras -> Seq(Command2)]
    BY <1>6, <1>c, <2>2
  <2>5. QED
    BY <1>6, <1>c, <2>3, <2>4 DEF CommandTypes
<1>7. ASSUME NEW c \in Cameras, AnswerBad(c) \/ AnswerStored(c) \/ AnswerForwarded(c) \/ AnswerLate(c)
      PROVE  Boxes' /\ CommandTypes'
  <2>1. CommandTypes'
    BY <1>6, <1>7 DEF AnswerBad, AnswerStored, AnswerForwarded, Answered, AnswerLate
  <2>2. CASE AnswerBad(c) \/ AnswerLate(c)
    BY <1>a, <2>1, <2>2, FeedbackBoxes DEF AnswerBad, AnswerLate
  <2>3. CASE AnswerStored(c)
    BY <1>a, <2>1, <2>3, BoxesSame DEF AnswerStored
  <2>4. CASE AnswerForwarded(c)
    <3>1. Head(rxfifo[c]).id \in Nat /\ lvds[c].ref \in Nat
      <4>1. lvds[c] \in Place /\ rxfifo[c] \in Seq(Command2) /\ rxfifo[c] # <<>>
        BY <1>c, <2>4 DEF AnswerForwarded, Answered
      <4>2. lvds[c].ref \in 0 .. AnswerRing - 1
        BY <4>1
      <4>3. Head(rxfifo[c]) \in Command2
        <5> HIDE DEF Command2
        <5>1. QED
          BY <4>1
      <4>4. Head(rxfifo[c]).id \in Nat
        BY <4>3
      <4>5. QED
        BY <1>d, <4>2, <4>4
    <3>2. Fits("net", Message(CameraBox(c), 1, lvds[c].ref, Head(rxfifo[c]).id))
      BY <3>1, PostedFits
    <3>3. Boxes'
      BY <1>a, <2>4, <3>2, BoxesQueued, BoxesSame, BoxNames DEF AnswerForwarded, Posted
    <3>4. QED
      BY <2>1, <3>3
  <2>5. QED
    BY <1>7, <2>2, <2>3, <2>4
<1>8. ASSUME NEW c \in Cameras, CameraAnswers(c) PROVE Boxes' /\ CommandTypes'
  <2>1. due[c] # <<>> /\ due[c] \in Seq(Command2) /\ rxfifo[c] \in Seq(Command2)
    BY <1>8, <1>c DEF CameraAnswers
  <2> HIDE DEF Command2
  <2>2. Append(rxfifo[c], Head(due[c])) \in Seq(Command2) /\ Tail(due[c]) \in Seq(Command2)
    BY <2>1
  <2>3. rxfifo' \in [Cameras -> Seq(Command2)] /\ due' \in [Cameras -> Seq(Command2)]
    BY <1>8, <1>c, <2>2 DEF CameraAnswers
  <2>4. Boxes'
    BY <1>8, <1>a, BoxesSame DEF CameraAnswers
  <2>5. QED
    BY <1>8, <1>c, <1>k, <2>3, <2>4 DEF CameraAnswers, CommandTypes, Command2
<1>9. QED
  BY <1>1, <1>2, <1>3, <1>4, <1>5, <1>7, <1>8 DEF CameraMoves, CameraStep

\* The reject link posts to and takes from its own mailbox only.
LEMMA RejectBoxesKept ==
  ASSUME RejectTypes, Boxes, RejectMoves
  PROVE  Boxes'
<1> USE DEF poolVars
<1>a. /\ "local" \in Mailboxes /\ 0 \in Entries
      /\ judging \in [Judges -> [at : {"idle", "fill", "post"}, id : 0 .. MaxResults, ref : Entries]]
  BY BoxNames, RejectLinkAssumption DEF Entries, RejectTypes
<1>1. ASSUME NEW m \in LocalMessages, Posted("local", m) PROVE Boxes'
  BY <1>1, <1>a, BoxesQueued, PostedFits DEF Posted
<1>2. CASE UNCHANGED box
  BY <1>2, BoxesSame
<1>3. CASE LocalPends
  BY <1>3, <1>a, BoxesReceived DEF LocalPends
<1>4. CASE send_handshake_cmd
  <2>1. Message("greeting", 0, 0, 0) \in LocalMessages
    BY <1>a, RejectLinkAssumption DEF Message, LocalMessages
  <2>2. QED
    BY <1>1, <1>4, <2>1 DEF send_handshake_cmd
<1>5. ASSUME NEW x \in Resetters, send_reset_cmd(x) PROVE Boxes'
  <2>1. Message("reset", 0, 0, 0) \in LocalMessages
    BY <1>a, RejectLinkAssumption DEF Message, LocalMessages
  <2>2. QED
    BY <1>1, <1>5, <2>1 DEF send_reset_cmd
<1>6. ASSUME NEW j \in Judges, PostResult(j) PROVE Boxes'
  <2>1. Message("result", 0, judging[j].ref, judging[j].id) \in LocalMessages
    BY <1>a DEF Message, LocalMessages
  <2>2. QED
    BY <1>1, <1>6, <2>1 DEF PostResult
<1>7. QED
  BY <1>2, <1>3, <1>4, <1>5, <1>6
     DEF RejectMoves, RejectStarts, RejectDies, RejectReads, LocalAccepts, LocalWrites, LocalDrops,
         LocalDone, LocalWakes, LocalReceives, LocalCloses, ResetBegins, ResetEnds,
         get_sample_result_array, FillResult

\* The pools never go below zero: producing tests for it.
LEMMA PoolTypesKept == PoolTypes /\ SystemMoves => PoolTypes'
<1> SUFFICES ASSUME PoolTypes, SystemMoves PROVE PoolTypes'
  OBVIOUS
<1> USE DEF PoolTypes, poolVars, Empty, Produced, Recycled, BufProduced, BufRecycled, Posted
<1>1. CASE UplinkMoves
  <2>1. ASSUME NEW b, NEW m, TimedPost(b, m), UNCHANGED bufs PROVE PoolTypes'
    BY <2>1, TimedPostCases
  <2>2. CASE LinkChanges \/ UiLinkChanges \/ PictureCheck \/ PictureClaim \/ PictureCopy
             \/ (\E r \in Reporters : SampleCheck(r) \/ SampleClaim(r) \/ SampleCopy(r)
                                      \/ SampleAddress(r) \/ SampleWrap(r))
    BY <2>2 DEF LinkChanges, UiLinkChanges, PictureCheck, PictureClaim, PictureCopy, SampleCheck,
                SampleClaim, SampleCopy, SampleAddress, SampleWrap
  <2>3. CASE PicturePost \/ \E r \in Reporters : SamplePost(r)
    BY <2>1, <2>3 DEF PicturePost, SamplePost
  <2>4. CASE PictureProduce \/ \E r \in Reporters : SampleProduce(r)
    BY <2>4 DEF PictureProduce, SampleProduce
  <2>5. CASE CheckedUpload \/ UncheckedUpload \/ UiUpload
    BY <2>5 DEF CheckedUpload, UncheckedUpload, UiUpload
  <2>6. CASE \E b \in {"net", "ui"} : SenderPends(b) \/ SenderRecycles(b)
    BY <2>6 DEF SenderPends, SenderRecycles
  <2>7. QED
    BY <1>1, <2>2, <2>3, <2>4, <2>5, <2>6 DEF UplinkMoves, ReportStep, PictureStep
<1>2. CASE CameraMoves
  <2>1. Feedback => free' \in Nat
    BY DEF Feedback
  <2>2. CASE CommandDropped
    BY <2>2 DEF CommandDropped
  <2>3. ASSUME NEW c \in Cameras, NEW k, Command(c, k) PROVE PoolTypes'
    BY <2>3 DEF Command
  <2>4. ASSUME NEW c \in Cameras, CameraStep(c) \/ CameraAnswers(c) PROVE PoolTypes'
    BY <2>1, <2>4 DEF CameraStep, CameraPends, CameraChecks, CameraSends, AnswerBad, AnswerStored,
                      AnswerForwarded, Answered, AnswerLate, CameraAnswers
  <2>5. QED
    BY <1>2, <2>2, <2>3, <2>4 DEF CameraMoves
<1>3. CASE RejectMoves
  BY <1>3 DEF RejectMoves, RejectStarts, RejectDies, RejectReads, LocalAccepts, LocalWrites,
              LocalDrops, LocalPends, LocalDone, LocalWakes, LocalReceives, LocalCloses,
              send_handshake_cmd, ResetBegins, send_reset_cmd, ResetEnds,
              get_sample_result_array, FillResult, PostResult
<1>4. CASE UNCHANGED poolVars
  BY <1>4
<1>5. QED
  BY <1>1, <1>2, <1>3, <1>4 DEF SystemMoves

Typed == RejectTypes /\ MailTypes /\ PoolTypes /\ ReportTypes /\ CommandTypes

\* The types are an invariant of every step.
LEMMA TypedKept ==
  Typed /\ RejectTypes' /\ SystemMoves => Typed'
<1> SUFFICES ASSUME Typed, RejectTypes', SystemMoves PROVE Typed'
  OBVIOUS
<1>1. PoolTypes'
  BY PoolTypesKept DEF Typed
<1>2. UNCHANGED camVars => CommandTypes'
  BY DEF Typed, CommandTypes, camVars
<1>3. UNCHANGED upVars => ReportTypes'
  BY DEF Typed, ReportTypes, upVars, conns, claims, ring, image, ghosts
<1>4. UNCHANGED upVars => UNCHANGED sending
  BY DEF upVars
<1>5. CASE UplinkMoves /\ UNCHANGED <<camVars, rejectVars>>
  BY <1>1, <1>2, <1>5, UplinkTypesKept DEF Typed
<1>6. CASE CameraMoves /\ UNCHANGED <<upVars, rejectVars>>
  BY <1>1, <1>3, <1>6, CameraTypesKept DEF Typed
<1>7. CASE RejectMoves /\ UNCHANGED <<upVars, camVars>>
  BY <1>1, <1>2, <1>3, <1>4, <1>7, RejectBoxesKept, SendingFrame DEF Typed, MailTypes
<1>8. CASE UNCHANGED <<poolVars, upVars, camVars, rejectVars>>
  BY <1>1, <1>2, <1>3, <1>4, <1>8, BoxesSame, SendingFrame DEF Typed, MailTypes, poolVars
<1>9. QED
  BY <1>5, <1>6, <1>7, <1>8 DEF SystemMoves
-----------------------------------------------------------------------------
(* the pools *)

\* Who holds a message outside the pool and the mailboxes.
Reporting == {r \in Reporters : reports[r].at \in {"copy", "address", "wrap", "post"}}
Sending == {b \in {"net", "ui"} : sending[b] # Nothing}
Picturing == IF picture \in {"copy", "post"} THEN 1 ELSE 0
LocalHolds == IF local_msg # None THEN 1 ELSE 0

MessagesPlaced ==
  free + Waiting + Cardinality(Reporting) + Picturing + Cardinality(Sending) + LocalHolds
    = MSG_NUM_MAX

\* Mailboxes are finite and so is what is in them.
LEMMA WaitingFinite ==
  ASSUME Boxes
  PROVE  /\ Waiting \in Nat /\ Waiting = Cardinality(Places(Mailboxes, box))
         /\ \A b \in Mailboxes : Len(box[b]) <= Waiting
         /\ \A b \in Mailboxes : DOMAIN box[b] = 1 .. Len(box[b]) /\ Len(box[b]) \in Nat
<1>1. \A b \in Mailboxes : DOMAIN box[b] = 1 .. Len(box[b]) /\ Len(box[b]) \in Nat
  BY DEF Boxes
<1>2. \A b \in Mailboxes : \E n \in Nat : DOMAIN box[b] = 1 .. n
  BY <1>1
<1>3. IsFiniteSet(Mailboxes)
  BY MessagePoolAssumption
<1>4. Waiting = Cardinality(Places(Mailboxes, box))
  BY DEF Waiting, Places
<1>5. /\ Cardinality(Places(Mailboxes, box)) \in Nat
      /\ \A b \in Mailboxes, n \in Nat :
           DOMAIN box[b] = 1 .. n => n <= Cardinality(Places(Mailboxes, box))
  BY <1>2, <1>3, PlacesFinite
<1>6. QED
  BY <1>1, <1>4, <1>5

\* A post adds one message to those that wait.
LEMMA WaitingQueued ==
  ASSUME Boxes, NEW b \in Mailboxes, NEW m \in AnyMessages, Queued(b, m)
  PROVE  Waiting' = Waiting + 1
<1>1. /\ \A d \in Mailboxes \ {b} : box'[d] = box[d]
      /\ Len(box'[b]) = Len(box[b]) + 1 /\ box'[b] \in Seq(AnyMessages)
  BY QueuedBox DEF Boxes, InsertedAt
<1>2. /\ DOMAIN box[b] = 1 .. Len(box[b]) /\ Len(box[b]) \in Nat
      /\ DOMAIN box'[b] = 1 .. (Len(box[b]) + 1)
      /\ \A d \in Mailboxes : \E n \in Nat : DOMAIN box[d] = 1 .. n
  BY <1>1, WaitingFinite
<1>3. Cardinality(Places(Mailboxes, box')) = Cardinality(Places(Mailboxes, box)) + 1
  BY <1>1, <1>2, PlacesMore, MessagePoolAssumption
<1>4. Waiting' = Cardinality(Places(Mailboxes, box'))
  BY DEF Waiting, Places
<1>5. QED
  BY <1>3, <1>4, WaitingFinite

\* A pend takes one of them away.
LEMMA WaitingReceived ==
  ASSUME Boxes, Boxes', NEW b \in Mailboxes, Pending(b), Received(b)
  PROVE  Waiting = Waiting' + 1
<1>1. /\ \A d \in Mailboxes \ {b} : box'[d] = box[d]
      /\ box'[b] = Tail(box[b]) /\ box[b] \in Seq(AnyMessages) /\ box[b] # <<>>
      /\ \A d \in Mailboxes : box'[d] \in Seq(AnyMessages)
  BY ReceivedBox DEF Boxes, Pending
<1>2. Len(box'[b]) + 1 = Len(box[b]) /\ Len(box'[b]) \in Nat
  BY <1>1
<1>3. /\ DOMAIN box'[b] = 1 .. Len(box'[b]) /\ DOMAIN box[b] = 1 .. (Len(box'[b]) + 1)
      /\ \A d \in Mailboxes : \E n \in Nat : DOMAIN box'[d] = 1 .. n
  BY <1>1, <1>2
<1>4. Cardinality(Places(Mailboxes, box)) = Cardinality(Places(Mailboxes, box')) + 1
  <2> DEFINE G == box'
             n == Len(G[b])
  <2>1. IsFiniteSet(Mailboxes) /\ n \in Nat /\ DOMAIN G[b] = 1 .. n /\ DOMAIN box[b] = 1 .. (n + 1)
        /\ (\A d \in Mailboxes : \E k \in Nat : DOMAIN G[d] = 1 .. k)
        /\ \A d \in Mailboxes \ {b} : DOMAIN box[d] = DOMAIN G[d]
    BY <1>1, <1>2, <1>3, MessagePoolAssumption
  <2> HIDE DEF G, n
  <2>2. Cardinality(Places(Mailboxes, box)) = Cardinality(Places(Mailboxes, G)) + 1
    BY <2>1, PlacesMore
  <2>3. QED
    BY <2>2 DEF G
<1>5. Waiting' = Cardinality(Places(Mailboxes, box'))
  BY DEF Waiting, Places
<1>6. QED
  BY <1>4, <1>5, WaitingFinite

\* Nothing else changes how many wait.
LEMMA WaitingSame ==
  ASSUME UNCHANGED box PROVE Waiting' = Waiting
BY DEF Waiting

\* Finitely many threads hold a message.
LEMMA HoldersFinite ==
  /\ IsFiniteSet(Reporting) /\ Cardinality(Reporting) \in Nat
  /\ IsFiniteSet(Sending) /\ Cardinality(Sending) \in Nat
<1>1. Reporting \in SUBSET Reporters /\ IsFiniteSet(Reporters)
  BY UplinkAssumption DEF Reporting
<1>2. Sending \in SUBSET {"net", "ui"} /\ IsFiniteSet({"net", "ui"})
  <2>1. IsFiniteSet({"net"}) /\ {"net", "ui"} = {"net"} \cup {"ui"}
    BY FS_Singleton
  <2>2. QED
    BY <2>1, FS_AddElement DEF Sending
<1>3. QED
  BY <1>1, <1>2, FS_Subset, FS_CardinalityType

\* A message is none of the marks for no message.
LEMMA RealMessages ==
  /\ \A m \in NetMessages \cup UiMessages : m # Nothing
  /\ \A m \in LocalMessages : m # None
<1>1. Nothing.kind = "none" /\ None.kind = "none"
  BY DEF Nothing, None, Message
<1>2. \A m \in NetMessages \cup UiMessages : m.kind # "none"
  BY CameraLinkAssumption DEF NetMessages, UiMessages
<1>3. \A m \in LocalMessages : m.kind # "none"
  BY DEF LocalMessages
<1>4. QED
  BY <1>1, <1>2, <1>3

\* How a step of one reporter changes who reports.
Held(at) == IF at \in {"copy", "address", "wrap", "post"} THEN 1 ELSE 0

\* There are finitely many reporters and finitely many cameras.
LEMMA FinitelyMany == IsFiniteSet(Reporters) /\ IsFiniteSet(Cameras)
  BY UplinkAssumption, CameraLinkAssumption

\* The numbers of a report are natural numbers.
LEMMA ReportNumbers ==
  ASSUME ReportTypes, NEW r \in Reporters PROVE reports[r].ref \in Nat /\ reports[r].id \in Nat
<1>1. reports[r] \in [at : {"idle", "claim", "produce", "copy", "address", "wrap", "post"},
                      id : 0 .. MaxSamples, ref : 0 .. SAMPLE_INFO_ARRAY_MAX]
  BY DEF ReportTypes
<1>2. 0 .. MaxSamples \subseteq Nat /\ 0 .. SAMPLE_INFO_ARRAY_MAX \subseteq Nat
  BY UplinkAssumption
<1>3. QED
  BY <1>1, <1>2

\* Who stands where changes by the one reporter that moves.
LEMMA ReportersStand ==
  ASSUME NEW r \in Reporters, NEW v, reports'[r] = v, OnlyMoves(Reporters, reports, reports', r),
         NEW K
  PROVE  /\ Cardinality(Standing(Reporters, reports', K)) + StandsIn(reports[r], K)
              = Cardinality(Standing(Reporters, reports, K)) + StandsIn(v, K)
         /\ Cardinality(Standing(Reporters, reports', K)) \in Nat
BY FinitelyMany, StandingMoves

\* The same for the one camera thread that moves.
LEMMA CamerasStand ==
  ASSUME NEW c \in Cameras, NEW p, lvds'[c] = p, OnlyMoves(Cameras, lvds, lvds', c), NEW K
  PROVE  Cardinality(Standing(Cameras, lvds', K)) + StandsIn(lvds[c], K)
           = Cardinality(Standing(Cameras, lvds, K)) + StandsIn(p, K)
BY FinitelyMany, StandingMoves

\* Reporter r moves on to v.
Becomes(r, v) == reports' = [reports EXCEPT ![r] = v]

\* A reporter that moves on changes the number of those that hold a message by
\* what it holds itself.
LEMMA ReporterMoves ==
  ASSUME ReportTypes, NEW r \in Reporters, NEW v, Becomes(r, v)
  PROVE  Cardinality(Reporting') + Held(reports[r].at) = Cardinality(Reporting) + Held(v.at)
<1> DEFINE K == {"copy", "address", "wrap", "post"}
<1>1. reports'[r] = v /\ OnlyMoves(Reporters, reports, reports', r)
  BY DEF ReportTypes, OnlyMoves, Becomes
<1>2. Reporting = Standing(Reporters, reports, K) /\ Reporting' = Standing(Reporters, reports', K)
  BY DEF Reporting, Standing
<1>3. Held(reports[r].at) = StandsIn(reports[r], K) /\ Held(v.at) = StandsIn(v, K)
  BY DEF Held, StandsIn
<1> HIDE DEF K
<1>4. Cardinality(Standing(Reporters, reports', K)) + StandsIn(reports[r], K)
        = Cardinality(Standing(Reporters, reports, K)) + StandsIn(v, K)
  BY <1>1, ReportersStand
<1>5. QED
  BY <1>1, <1>2, <1>3, <1>4

\* The same for a step that only moves it on.
LEMMA ReporterGoes ==
  ASSUME ReportTypes, NEW r \in Reporters, NEW at, Goes(r, at)
  PROVE  Cardinality(Reporting') + Held(reports[r].at) = Cardinality(Reporting) + Held(at)
<1> DEFINE v == [reports[r] EXCEPT !.at = at]
<1>1. Becomes(r, v)
  BY DEF Goes, Becomes
<1>2. v.at = at
  BY DEF ReportTypes
<1> HIDE DEF v
<1>3. QED
  BY <1>1, <1>2, ReporterMoves

\* The same for a thread that sends.
LEMMA SenderMoves ==
  ASSUME MailTypes, NEW b \in {"net", "ui"}, NEW v, sending' = [sending EXCEPT ![b] = v],
         (v = Nothing) # (sending[b] = Nothing)
  PROVE  Cardinality(Sending') = Cardinality(Sending) + (IF v = Nothing THEN -1 ELSE 1)
<1>1. DOMAIN sending = {"net", "ui"}
  BY DEF MailTypes
<1>2. IsFiniteSet(Sending) /\ Cardinality(Sending) \in Nat
  BY HoldersFinite
<1>3. CASE v = Nothing
  <2>1. b \in Sending /\ Sending' = Sending \ {b}
    BY <1>1, <1>3 DEF Sending
  <2>2. QED
    BY <1>2, <1>3, <2>1, FS_RemoveElement
<1>4. CASE v # Nothing
  <2>1. b \notin Sending /\ Sending' = Sending \cup {b}
    BY <1>1, <1>4 DEF Sending
  <2>2. QED
    BY <1>2, <1>4, <2>1, FS_AddElement
<1>5. QED
  BY <1>3, <1>4

\* A thread that posts takes a message from the pool into a mailbox.
LEMMA PostedPlaces ==
  ASSUME Typed, NEW b \in Mailboxes, NEW m \in AnyMessages, Posted(b, m)
  PROVE  free' + Waiting' = free + Waiting
<1>1. Boxes /\ free \in Nat
  BY DEF Typed, MailTypes, PoolTypes
<1>2. free' = free - 1 /\ Queued(b, m)
  BY DEF Posted, Produced
<1>3. Waiting' = Waiting + 1 /\ Waiting \in Nat
  BY <1>1, <1>2, WaitingQueued, WaitingFinite
<1>4. QED
  BY <1>1, <1>2, <1>3

\* A report or a picture that is posted leaves its thread, for the mailbox or the
\* pool.
LEMMA TimedPostPlaces ==
  ASSUME Typed, NEW b \in Mailboxes, NEW m \in AnyMessages, TimedPost(b, m)
  PROVE  free' + Waiting' = free + Waiting + 1
<1>1. Boxes /\ free \in Nat
  BY DEF Typed, MailTypes, PoolTypes
<1>2. Waiting \in Nat
  BY <1>1, WaitingFinite
<1>3. CASE Queued(b, m) /\ UNCHANGED <<free, claims, g_img_ability>>
  BY <1>1, <1>2, <1>3, WaitingQueued
<1>4. CASE Recycled /\ UNCHANGED box
  BY <1>1, <1>2, <1>4, WaitingSame DEF Recycled
<1>5. QED
  BY <1>3, <1>4, TimedPostCases

Reported == Cardinality(Reporting)
Sent == Cardinality(Sending)

\* Every message a thread that uploads takes or gives goes somewhere.
LEMMA UplinkPlaces ==
  ASSUME Typed, Typed', MessagesPlaced, UplinkMoves, UNCHANGED rejectVars
  PROVE  MessagesPlaced'
<1> USE DEF poolVars, conns, claims, ring, image, ghosts
<1>a. /\ free \in Nat /\ Boxes /\ ReportTypes /\ MailTypes
      /\ MSG_NUM_MAX \in Nat
  BY MessagePoolAssumption DEF Typed, PoolTypes, MailTypes
<1>b. Waiting \in Nat /\ Reported \in Nat /\ Sent \in Nat /\ Picturing \in {0, 1} /\ LocalHolds \in {0, 1}
  BY <1>a, WaitingFinite, HoldersFinite DEF Picturing, LocalHolds, Reported, Sent
<1>c. Reported' \in Nat /\ Sent' \in Nat
  <2>1. Reported \in Nat /\ Sent \in Nat
    BY HoldersFinite DEF Reported, Sent
  <2>2. (IsFiniteSet(Reporting) /\ Cardinality(Reporting) \in Nat
         /\ IsFiniteSet(Sending) /\ Cardinality(Sending) \in Nat)'
    BY HoldersFinite, PTL
  <2>3. QED
    BY <2>2 DEF Reported, Sent
<1>d. LocalHolds' = LocalHolds
  BY DEF LocalHolds, rejectVars, localVars
<1>e. Waiting' \in Nat
  <2>1. (Boxes => Waiting \in Nat)'
    BY WaitingFinite, PTL
  <2>2. QED
    BY <2>1 DEF Typed, MailTypes
<1>m. free' \in Nat /\ Picturing' \in Nat
  BY DEF Typed, PoolTypes, Picturing
\* The numbers after the step.
<1>n. PICK f \in Nat, w \in Nat, n \in Nat, p \in Nat, k \in Nat :
        free' = f /\ Waiting' = w /\ Reported' = n /\ Picturing' = p /\ Sent' = k
  BY <1>c, <1>e, <1>m
<1>f. UNCHANGED reports => Reported' = Reported
  BY DEF Reporting, Reported
<1>g. UNCHANGED sending => Sent' = Sent
  BY DEF Sending, Sent
<1>h. UNCHANGED picture => Picturing' = Picturing
  BY DEF Picturing
<1>i. UNCHANGED box => Waiting' = Waiting
  BY WaitingSame
<1>j. ASSUME NEW r \in Reporters, NEW at, Goes(r, at) PROVE Reported' + Held(reports[r].at) = Reported + Held(at)
  BY <1>a, <1>j, ReporterGoes DEF Reported
<1>k. "net" \in Mailboxes /\ "ui" \in Mailboxes
  BY BoxNames
<1>l. SUFFICES free' + Waiting' + Reported' + Picturing' + Sent' = free + Waiting + Reported + Picturing + Sent
  <2>1. free + Waiting + Reported + Picturing + Sent + LocalHolds = MSG_NUM_MAX
    BY DEF MessagesPlaced, Reported, Sent
  <2>2. Picturing' \in {0, 1}
    BY DEF Picturing
  <2>3. ASSUME free' + Waiting' + Reported' + Picturing' + Sent' = free + Waiting + Reported + Picturing + Sent
        PROVE  free' + Waiting' + Reported' + Picturing' + Sent' + LocalHolds' = MSG_NUM_MAX
    BY <1>d, <2>1, <2>3
  <2>4. QED
    BY <2>3 DEF MessagesPlaced, Reported, Sent
<1>1. CASE LinkChanges \/ UiLinkChanges
  BY <1>1, <1>f, <1>g, <1>h, <1>i DEF LinkChanges, UiLinkChanges
<1>2. ASSUME NEW r \in Reporters, SampleCheck(r)
      PROVE  free' + Waiting' + Reported' + Picturing' + Sent' = free + Waiting + Reported + Picturing + Sent
  <2>1. Reported' = Reported
    <3> DEFINE v == [at |-> "claim", id |-> samples + 1, ref |-> 0]
    <3>1. reports' = reports \/ Becomes(r, v)
      BY <1>2 DEF SampleCheck, Becomes
    <3>2. Held(v.at) = 0 /\ Held(reports[r].at) = 0
      BY <1>2 DEF SampleCheck, Held
    <3> HIDE DEF v
    <3>3. ASSUME Becomes(r, v)
          PROVE Reported' + Held(reports[r].at) = Reported + Held(v.at)
      BY <1>a, <3>3, ReporterMoves DEF Reported
    <3>4. QED
      BY <1>b, <1>n, <1>f, <3>1, <3>2, <3>3
  <2>2. QED
    BY <1>2, <2>1, <1>g, <1>h, <1>i DEF SampleCheck
<1>3. ASSUME NEW r \in Reporters, SampleClaim(r) \/ SampleCopy(r) \/ SampleWrap(r)
      PROVE  free' + Waiting' + Reported' + Picturing' + Sent' = free + Waiting + Reported + Picturing + Sent
  <2>1. \E at : Goes(r, at) /\ Held(at) = Held(reports[r].at) /\ Held(at) \in Nat
    BY <1>3 DEF SampleClaim, SampleCopy, SampleWrap, Held
  <2>2. Reported' = Reported
    BY <2>1, <1>b, <1>n, <1>j
  <2>3. QED
    BY <1>3, <2>2, <1>g, <1>h, <1>i DEF SampleClaim, SampleCopy, SampleWrap
<1>4. ASSUME NEW r \in Reporters, SampleAddress(r)
      PROVE  free' + Waiting' + Reported' + Picturing' + Sent' = free + Waiting + Reported + Picturing + Sent
  <2>1. Reported' = Reported
    <3> DEFINE v == [reports[r] EXCEPT !.at = "wrap", !.ref = sample_info_array_index]
    <3>1. Becomes(r, v)
      BY <1>4 DEF SampleAddress, Becomes
    <3>2. v.at = "wrap"
      BY <1>a DEF ReportTypes
    <3>3. Held(v.at) = 1 /\ Held(reports[r].at) = 1
      BY <1>4, <3>2 DEF SampleAddress, Held
    <3> HIDE DEF v
    <3>4. Reported' + Held(reports[r].at) = Reported + Held(v.at)
      BY <1>a, <3>1, ReporterMoves DEF Reported
    <3>5. QED
      BY <1>b, <1>n, <3>3, <3>4
  <2>2. QED
    BY <1>4, <2>1, <1>g, <1>h, <1>i DEF SampleAddress
<1>5. ASSUME NEW r \in Reporters, SampleProduce(r)
      PROVE  free' + Waiting' + Reported' + Picturing' + Sent' = free + Waiting + Reported + Picturing + Sent
  <2>1. Held(reports[r].at) = 0 /\ Held("idle") = 0 /\ Held("copy") = 1
    BY <1>5 DEF SampleProduce, Held
  <2>2. \/ Goes(r, "idle") /\ UNCHANGED free
        \/ Goes(r, "copy") /\ free' = free - 1
    BY <1>5 DEF SampleProduce, Produced
  <2>3. free' + Reported' = free + Reported
    BY <2>1, <2>2, <1>a, <1>b, <1>n, <1>j
  <2>4. UNCHANGED <<box, picture, sending>>
    BY <1>5 DEF SampleProduce
  <2>5. QED
    BY <2>3, <2>4, <1>a, <1>b, <1>n, <1>g, <1>h, <1>i
<1>6. ASSUME NEW r \in Reporters, SamplePost(r)
      PROVE  free' + Waiting' + Reported' + Picturing' + Sent' = free + Waiting + Reported + Picturing + Sent
  <2> DEFINE m == Message("sample", 5, reports[r].ref, reports[r].id)
  <2>1. m \in AnyMessages
    <3>1. reports[r].ref \in Nat /\ reports[r].id \in Nat
      BY <1>a, ReportNumbers
    <3>2. QED
      BY <3>1, PostedFits DEF Fits
  <2>2. TimedPost("net", m) /\ UNCHANGED <<picture, sending>> /\ Goes(r, "idle")
    BY <1>6 DEF SamplePost
  <2> HIDE DEF m
  <2>3. free' + Waiting' = free + Waiting + 1
    BY <1>k, <2>1, <2>2, TimedPostPlaces
  <2>4. Reported' + 1 = Reported
    <3>1. Held(reports[r].at) = 1 /\ Held("idle") = 0
      BY <1>6 DEF SamplePost, Held
    <3>2. QED
      BY <1>b, <1>n, <1>j, <2>2, <3>1
  <2>5. QED
    BY <2>2, <2>3, <2>4, <1>a, <1>b, <1>n, <1>g, <1>h
<1>7. CASE PictureCheck \/ PictureClaim \/ PictureCopy
  <2>1. Picturing' = Picturing
    BY <1>7 DEF PictureCheck, PictureClaim, PictureCopy, Picturing
  <2>2. QED
    BY <1>7, <2>1, <1>f, <1>g, <1>i DEF PictureCheck, PictureClaim, PictureCopy
<1>8. CASE PictureProduce
  <2>1. free' + Picturing' = free + Picturing
    BY <1>8, <1>a DEF PictureProduce, Picturing, Produced
  <2>2. UNCHANGED <<box, reports, sending>>
    BY <1>8 DEF PictureProduce, Picturing
  <2>3. QED
    BY <2>1, <2>2, <1>a, <1>b, <1>n, <1>f, <1>g, <1>i
<1>9. CASE PicturePost
  <2> DEFINE m == Message("picture", 3, 0, pictures)
  <2>1. m \in AnyMessages
    <3>1. pictures \in Nat
      BY <1>a, UplinkAssumption DEF ReportTypes
    <3>2. QED
      BY <3>1, PostedFits DEF Fits
  <2>2. TimedPost("net", m) /\ UNCHANGED <<reports, sending>>
    BY <1>9 DEF PicturePost
  <2> HIDE DEF m
  <2>3. free' + Waiting' = free + Waiting + 1
    BY <1>k, <2>1, <2>2, TimedPostPlaces
  <2>4. Picturing = 1 /\ Picturing' = 0
    BY <1>9 DEF PicturePost, Picturing
  <2>5. QED
    BY <2>2, <2>3, <2>4, <1>a, <1>b, <1>n, <1>f, <1>g
<1>10. CASE CheckedUpload \/ UncheckedUpload \/ UiUpload
  <2>1. Message("upload", 1, 0, 0) \in AnyMessages /\ Message("upload", 0, 0, 0) \in AnyMessages
    BY PostedFits DEF Fits
  <2>2. free' + Waiting' = free + Waiting
    <3>1. \/ UNCHANGED <<free, box>>
          \/ Posted("net", Message("upload", 1, 0, 0))
          \/ Posted("ui", Message("upload", 0, 0, 0))
      BY <1>10 DEF CheckedUpload, UncheckedUpload, UiUpload
    <3>2. QED
      BY <1>a, <1>b, <1>i, <1>k, <2>1, <3>1, PostedPlaces
  <2>3. UNCHANGED <<picture, sending, reports>>
    BY <1>10 DEF CheckedUpload, UncheckedUpload, UiUpload, upVars
  <2>4. QED
    BY <2>2, <2>3, <1>a, <1>b, <1>n, <1>f, <1>g, <1>h
<1>11. ASSUME NEW b \in {"net", "ui"}, SenderPends(b)
       PROVE  free' + Waiting' + Reported' + Picturing' + Sent' = free + Waiting + Reported + Picturing + Sent
  <2>1. Waiting = Waiting' + 1
    BY <1>11, <1>a, <1>k, WaitingReceived DEF SenderPends, Typed, MailTypes
  <2>2. Head(box[b]) # Nothing
    <3>1. Fits(b, Head(box[b]))
      BY <1>11, <1>a, <1>k, BoxesReceived DEF SenderPends
    <3>2. Head(box[b]) \in NetMessages \cup UiMessages
      BY <3>1 DEF Fits
    <3>3. QED
      BY <3>2, RealMessages
  <2>3. Sent' = Sent + 1
    <3>1. sending[b] = Nothing /\ sending' = [sending EXCEPT ![b] = Head(box[b])]
      BY <1>11 DEF SenderPends
    <3>2. QED
      BY <1>a, <2>2, <3>1, SenderMoves DEF Sent
  <2>4. UNCHANGED <<free, reports, picture>>
    BY <1>11 DEF SenderPends
  <2>5. QED
    BY <2>1, <2>3, <2>4, <1>a, <1>b, <1>n, <1>f, <1>h
<1>12. ASSUME NEW b \in {"net", "ui"}, SenderRecycles(b)
       PROVE  free' + Waiting' + Reported' + Picturing' + Sent' = free + Waiting + Reported + Picturing + Sent
  <2>1. Sent' = Sent - 1
    <3>1. sending[b] # Nothing /\ sending' = [sending EXCEPT ![b] = Nothing]
      BY <1>12 DEF SenderRecycles
    <3>2. Sent' = Sent + (IF Nothing = Nothing THEN -1 ELSE 1)
      BY <1>a, <3>1, SenderMoves DEF Sent
    <3>3. QED
      BY <1>b, <3>2
  <2>2. UNCHANGED <<box, reports, picture>> /\ free' = free + 1
    BY <1>12 DEF SenderRecycles, Recycled
  <2>3. QED
    BY <2>1, <2>2, <1>a, <1>b, <1>f, <1>h, <1>i
<1>13. QED
  BY <1>1, <1>2, <1>3, <1>4, <1>5, <1>6, <1>7, <1>8, <1>9, <1>10, <1>11, <1>12
     DEF UplinkMoves, ReportStep, PictureStep

\* An answer to the PC takes its message out of the pool.
LEMMA FeedbackPlaces ==
  ASSUME Typed, Feedback PROVE free' + Waiting' = free + Waiting
<1>1. Message("feedback", 1, 0, 0) \in AnyMessages /\ "net" \in Mailboxes
  BY PostedFits, BoxNames DEF Fits
<1>2. CASE Posted("net", Message("feedback", 1, 0, 0))
  BY <1>1, <1>2, PostedPlaces
<1>3. CASE UNCHANGED <<free, box>>
  BY <1>3, WaitingSame
<1>4. QED
  BY <1>2, <1>3 DEF Feedback

\* A command moves its message from the pool to a mailbox and back.
LEMMA CameraPlaces ==
  ASSUME Typed, CameraMoves PROVE free' + Waiting' = free + Waiting
<1> USE DEF poolVars
<1>a. free \in Nat /\ Boxes /\ CommandTypes
  BY DEF Typed, PoolTypes, MailTypes
<1>b. UNCHANGED <<free, box>> => free' + Waiting' = free + Waiting
  BY WaitingSame
<1>1. CASE CommandDropped
  BY <1>1, <1>b DEF CommandDropped
<1>2. ASSUME NEW c \in Cameras, NEW k \in {"query", "temperature"}, Command(c, k)
      PROVE  free' + Waiting' = free + Waiting
  <2>1. commands[c] + 1 \in Nat
    BY <1>a, CameraLinkAssumption DEF CommandTypes
  <2>2. Message(k, 0, c, commands[c] + 1) \in AnyMessages /\ CameraBox(c) \in Mailboxes
    BY <2>1, PostedFits, BoxNames DEF Fits
  <2>3. QED
    BY <1>2, <2>2, PostedPlaces DEF Command
<1>3. ASSUME NEW c \in Cameras, CameraPends(c) PROVE free' + Waiting' = free + Waiting
  <2>1. CameraBox(c) \in Mailboxes /\ Pending(CameraBox(c)) /\ Received(CameraBox(c)) /\ free' = free + 1
    BY <1>3, BoxNames DEF CameraPends, Recycled
  <2>2. Boxes'
    BY <1>a, <2>1, BoxesReceived
  <2>3. Waiting = Waiting' + 1
    BY <1>a, <2>1, <2>2, WaitingReceived
  <2>4. Waiting' \in Nat
    <3>1. (Boxes => Waiting \in Nat)'
      BY WaitingFinite, PTL
    <3>2. QED
      BY <2>2, <3>1
  <2>5. QED
    BY <1>a, <2>1, <2>3, <2>4
<1>4. ASSUME NEW c \in Cameras, CameraChecks(c) \/ CameraSends(c) \/ AnswerStored(c) \/ CameraAnswers(c)
      PROVE  free' + Waiting' = free + Waiting
  BY <1>4, <1>b DEF CameraChecks, CameraSends, AnswerStored, CameraAnswers
<1>5. ASSUME NEW c \in Cameras, AnswerBad(c) \/ AnswerLate(c) PROVE free' + Waiting' = free + Waiting
  BY <1>5, FeedbackPlaces DEF AnswerBad, AnswerLate
<1>6. ASSUME NEW c \in Cameras, AnswerForwarded(c) PROVE free' + Waiting' = free + Waiting
  <2> DEFINE m == Message(CameraBox(c), 1, lvds[c].ref, Head(rxfifo[c]).id)
  <2>1. lvds[c].ref \in Nat
    BY <1>a, CameraLinkAssumption DEF CommandTypes
  <2>2. Head(rxfifo[c]).id \in Nat
    <3> DEFINE Answer == [id : Nat, kind : {"query", "temperature"}]
    <3>1. rxfifo[c] \in Seq(Answer) /\ rxfifo[c] # <<>>
      BY <1>6, <1>a DEF CommandTypes, AnswerForwarded, Answered
    <3>2. Head(rxfifo[c]) \in Answer
      <4> HIDE DEF Answer
      <4>1. QED
        BY <3>1
    <3>3. QED
      BY <3>2
  <2>3. m \in AnyMessages /\ "net" \in Mailboxes
    BY <2>1, <2>2, PostedFits, BoxNames DEF Fits
  <2>4. Posted("net", m) \/ UNCHANGED <<free, box>>
    BY <1>6 DEF AnswerForwarded
  <2> HIDE DEF m
  <2>5. QED
    BY <1>b, <2>3, <2>4, PostedPlaces
<1>7. QED
  BY <1>1, <1>2, <1>3, <1>4, <1>5, <1>6 DEF CameraMoves, CameraStep

\* A result or a reset moves its message to the mailbox, into the hand of
\* local_send_tsk, and back.
LEMMA RejectPlaces ==
  ASSUME Typed, Typed', RejectMoves
  PROVE  free' + Waiting' + LocalHolds' = free + Waiting + LocalHolds
<1> USE DEF poolVars
<1>a. free \in Nat /\ free' \in Nat /\ Boxes /\ RejectTypes /\ Boxes'
  BY DEF Typed, PoolTypes, MailTypes
<1>b. /\ "local" \in Mailboxes /\ 0 \in Entries
      /\ judging \in [Judges -> [at : {"idle", "fill", "post"}, id : 0 .. MaxResults, ref : Entries]]
  BY <1>a, BoxNames, RejectLinkAssumption DEF Entries, RejectTypes
<1>c. Waiting \in Nat /\ LocalHolds \in {0, 1} /\ LocalHolds' \in {0, 1}
  BY <1>a, WaitingFinite DEF LocalHolds
<1>d. Waiting' \in Nat
  <2>1. (Boxes => Waiting \in Nat)'
    BY WaitingFinite, PTL
  <2>2. QED
    BY <1>a, <2>1
<1>e. UNCHANGED box => Waiting' = Waiting
  BY WaitingSame
<1>f. UNCHANGED local_msg => LocalHolds' = LocalHolds
  BY DEF LocalHolds
<1>1. ASSUME UNCHANGED <<free, box, local_msg>>
      PROVE  free' + Waiting' + LocalHolds' = free + Waiting + LocalHolds
  BY <1>1, <1>e, <1>f
<1>2. ASSUME NEW m \in LocalMessages, Posted("local", m), UNCHANGED local_msg
      PROVE  free' + Waiting' + LocalHolds' = free + Waiting + LocalHolds
  <2>1. free' + Waiting' = free + Waiting
    BY <1>2, <1>b, MessageSets, PostedPlaces
  <2>2. QED
    BY <1>2, <1>f, <2>1
<1>3. CASE LocalPends
  <2>1. Waiting = Waiting' + 1
    BY <1>3, <1>a, <1>b, WaitingReceived DEF LocalPends
  <2>2. local_msg' # None /\ local_msg = None /\ free' = free
    <3>1. Head(box["local"]) \in LocalMessages
      <4>1. Fits("local", Head(box["local"]))
        BY <1>3, <1>a, <1>b, BoxesReceived DEF LocalPends
      <4>2. QED
        BY <4>1 DEF Fits
    <3>2. QED
      BY <1>3, <3>1, RealMessages DEF LocalPends
  <2>3. LocalHolds' = 1 /\ LocalHolds = 0
    BY <2>2 DEF LocalHolds
  <2>4. QED
    BY <1>a, <1>d, <2>1, <2>2, <2>3
<1>4. CASE LocalWrites \/ LocalDrops
  <2>1. free' = free + 1 /\ local_msg # None /\ local_msg' = None /\ UNCHANGED box
    BY <1>4 DEF LocalWrites, LocalDrops, LocalDone, Recycled
  <2>2. LocalHolds = 1 /\ LocalHolds' = 0
    BY <2>1 DEF LocalHolds
  <2>3. QED
    BY <1>a, <1>c, <1>e, <2>1, <2>2
<1>5. CASE send_handshake_cmd
  <2>1. Message("greeting", 0, 0, 0) \in LocalMessages
    BY <1>b, RejectLinkAssumption DEF Message, LocalMessages
  <2>2. QED
    BY <1>2, <1>5, <2>1 DEF send_handshake_cmd
<1>6. ASSUME NEW x \in Resetters, send_reset_cmd(x)
      PROVE  free' + Waiting' + LocalHolds' = free + Waiting + LocalHolds
  <2>1. Message("reset", 0, 0, 0) \in LocalMessages
    BY <1>b, RejectLinkAssumption DEF Message, LocalMessages
  <2>2. QED
    BY <1>2, <1>6, <2>1 DEF send_reset_cmd, localVars
<1>7. ASSUME NEW j \in Judges, PostResult(j)
      PROVE  free' + Waiting' + LocalHolds' = free + Waiting + LocalHolds
  <2>1. Message("result", 0, judging[j].ref, judging[j].id) \in LocalMessages
    BY <1>b DEF Message, LocalMessages
  <2>2. QED
    BY <1>2, <1>7, <2>1 DEF PostResult, localVars
<1>8. QED
  BY <1>1, <1>3, <1>4, <1>5, <1>6, <1>7
     DEF RejectMoves, RejectStarts, RejectDies, RejectReads, LocalAccepts, LocalWakes, LocalReceives,
         LocalCloses, ResetBegins, ResetEnds, get_sample_result_array, FillResult, localVars

\* No step loses a message or counts one twice.
LEMMA MessagesPlacedKept ==
  Typed /\ Typed' /\ MessagesPlaced /\ SystemMoves => MessagesPlaced'
<1> SUFFICES ASSUME Typed, Typed', MessagesPlaced, SystemMoves PROVE MessagesPlaced'
  OBVIOUS
<1>1. CASE UplinkMoves /\ UNCHANGED <<camVars, rejectVars>>
  BY <1>1, UplinkPlaces
<1>a. ASSUME UNCHANGED upVars
      PROVE  Reported' = Reported /\ Picturing' = Picturing /\ Sent' = Sent
  BY <1>a DEF upVars, image, Reporting, Picturing, Sending, Reported, Sent
<1>b. ASSUME UNCHANGED rejectVars PROVE LocalHolds' = LocalHolds
  BY <1>b DEF rejectVars, localVars, LocalHolds
<1>c. /\ free \in Nat /\ Waiting \in Nat /\ Reported \in Nat
      /\ Sent \in Nat /\ Picturing \in Nat /\ LocalHolds \in Nat
  BY WaitingFinite, HoldersFinite DEF Typed, PoolTypes, MailTypes, Picturing, LocalHolds,
     Reported, Sent
\* The numbers after the step.
<1>e. PICK f \in Nat, w \in Nat, h \in Nat : free' = f /\ Waiting' = w /\ LocalHolds' = h
  <2>1. (Boxes => Waiting \in Nat)'
    BY WaitingFinite, PTL
  <2>2. free' \in Nat /\ Waiting' \in Nat /\ LocalHolds' \in Nat
    BY <2>1 DEF Typed, PoolTypes, MailTypes, LocalHolds
  <2>3. QED
    BY <2>2
<1>d. ASSUME UNCHANGED upVars, free' + Waiting' + LocalHolds' = free + Waiting + LocalHolds
      PROVE  MessagesPlaced'
  <2>1. free + Waiting + Reported + Picturing + Sent + LocalHolds
          = MSG_NUM_MAX
    BY DEF MessagesPlaced, Reported, Sent
  <2>2. free' + Waiting' + Reported + Picturing + Sent + LocalHolds'
          = MSG_NUM_MAX
    BY <1>c, <1>d, <1>e, <2>1
  <2>3. QED
    BY <1>a, <1>d, <2>2 DEF MessagesPlaced, Reported, Sent
<1>2. CASE CameraMoves /\ UNCHANGED <<upVars, rejectVars>>
  <2>1. free' + Waiting' = free + Waiting
    BY <1>2, CameraPlaces
  <2>2. QED
    BY <1>2, <1>b, <1>d, <2>1
<1>3. CASE RejectMoves /\ UNCHANGED <<upVars, camVars>>
  BY <1>3, <1>d, RejectPlaces
<1>4. CASE UNCHANGED <<poolVars, upVars, camVars, rejectVars>>
  BY <1>4, <1>b, <1>d, WaitingSame DEF poolVars
<1>5. QED
  BY <1>1, <1>2, <1>3, <1>4 DEF SystemMoves

\* At the start every message is in the pool.
LEMMA MessagesPlacedStart == Init => MessagesPlaced
<1> SUFFICES ASSUME Init PROVE MessagesPlaced
  OBVIOUS
<1>1. /\ free = MSG_NUM_MAX /\ box = [b \in Mailboxes |-> <<>>] /\ local_msg = None
      /\ reports = [r \in Reporters |-> [at |-> "idle", id |-> 0, ref |-> 0]]
      /\ picture = "idle" /\ sending = [b \in {"net", "ui"} |-> Nothing]
  BY DEF Init, CreateFactories, UplinkInit, RejectStart
<1>2. Reporting = {} /\ Sending = {} /\ Picturing = 0 /\ LocalHolds = 0
  BY <1>1 DEF Reporting, Sending, Picturing, LocalHolds
<1>3. Waiting = 0
  <2>1. \A b \in Mailboxes : DOMAIN box[b] = {}
    BY <1>1
  <2>2. UNION {{b} \X DOMAIN box[b] : b \in Mailboxes} = {}
    BY <2>1
  <2>3. QED
    BY <2>2, FS_EmptySet DEF Waiting
<1>4. QED
  BY <1>1, <1>2, <1>3, FS_EmptySet, MessagePoolAssumption DEF MessagesPlaced

\* The mailboxes of the cameras' threads, and the threads that hold a command.
CameraBoxes == [c \in Cameras |-> box[CameraBox(c)]]
Commanded == Cardinality(UNION {{c} \X DOMAIN box[CameraBox(c)] : c \in Cameras})
Commanding == {c \in Cameras : lvds[c].at \in {"check", "send"}}

\* The commands that wait are the places in the mailboxes of the cameras.
LEMMA CommandedPlaces ==
  Commanded = Cardinality(Places(Cameras, CameraBoxes))
<1>1. \A c \in Cameras : DOMAIN CameraBoxes[c] = DOMAIN box[CameraBox(c)]
  BY DEF CameraBoxes
<1>2. {{c} \X DOMAIN box[CameraBox(c)] : c \in Cameras} = {{c} \X DOMAIN CameraBoxes[c] : c \in Cameras}
  BY <1>1
<1>3. QED
  BY <1>2 DEF Commanded, Places

\* There are finitely many of them.
LEMMA CommandsFinite ==
  ASSUME Boxes
  PROVE  /\ Commanded \in Nat /\ Cardinality(Commanding) \in Nat /\ IsFiniteSet(Commanding)
         /\ \A c \in Cameras : /\ DOMAIN CameraBoxes[c] = 1 .. Len(box[CameraBox(c)])
                               /\ Len(box[CameraBox(c)]) \in Nat
<1>1. IsFiniteSet(Cameras) /\ Commanding \in SUBSET Cameras
  BY CameraLinkAssumption DEF Commanding
<1>2. IsFiniteSet(Commanding) /\ Cardinality(Commanding) \in Nat
  BY <1>1, FS_Subset, FS_CardinalityType
<1>3. \A c \in Cameras : /\ DOMAIN CameraBoxes[c] = 1 .. Len(box[CameraBox(c)])
                         /\ Len(box[CameraBox(c)]) \in Nat
  BY DEF Boxes, CameraBoxes
<1>4. \A c \in Cameras : \E n \in Nat : DOMAIN CameraBoxes[c] = 1 .. n
  BY <1>3
<1>5. Cardinality(Places(Cameras, CameraBoxes)) \in Nat
  BY <1>1, <1>4, PlacesFinite
<1>6. QED
  BY <1>2, <1>3, <1>5, CommandedPlaces

\* A step of another mailbox leaves those of the cameras.
LEMMA OtherBoxes ==
  ASSUME Boxes, NEW b \in {"net", "ui", "local"},
         Received(b) \/ (\E m : Queued(b, m)) \/ UNCHANGED box
  PROVE  Commanded' = Commanded
<1>1. \A c \in Cameras : CameraBox(c) \in DOMAIN box /\ CameraBox(c) # b
  BY CameraLinkAssumption DEF Boxes, Sized
<1>2. \A c \in Cameras : box'[CameraBox(c)] = box[CameraBox(c)]
  <2>1. CASE Received(b)
    BY <1>1, <2>1 DEF Received
  <2>2. CASE \E m : Queued(b, m)
    BY <1>1, <2>2 DEF Queued
  <2>3. QED
    BY <2>1, <2>2
<1>3. {{c} \X DOMAIN box'[CameraBox(c)] : c \in Cameras}
        = {{c} \X DOMAIN box[CameraBox(c)] : c \in Cameras}
  BY <1>2
<1>4. QED
  BY <1>3 DEF Commanded

\* The threads that do not talk to a camera leave buffers and commands.
LEMMA OtherThreads ==
  ASSUME Typed, UplinkMoves \/ RejectMoves
  PROVE  Commanded' = Commanded /\ bufs' = bufs
<1> USE DEF poolVars
<1>a. Boxes
  BY DEF Typed, MailTypes
<1>b. ASSUME NEW b \in {"net", "ui", "local"}, Received(b) \/ (\E m : Queued(b, m)) \/ UNCHANGED box
      PROVE  Commanded' = Commanded
  BY <1>a, <1>b, OtherBoxes
<1>c. ASSUME NEW m, TimedPost("net", m) PROVE Commanded' = Commanded
  BY <1>b, <1>c, TimedPostCases
<1>1. CASE UplinkMoves
  <2>1. CASE LinkChanges \/ UiLinkChanges \/ PictureCheck \/ PictureClaim \/ PictureCopy
             \/ PictureProduce
             \/ (\E r \in Reporters : SampleCheck(r) \/ SampleClaim(r) \/ SampleCopy(r)
                                      \/ SampleAddress(r) \/ SampleWrap(r) \/ SampleProduce(r))
    BY <2>1, <1>b DEF LinkChanges, UiLinkChanges, PictureCheck, PictureClaim, PictureCopy, SampleCheck,
                SampleClaim, SampleCopy, SampleAddress, SampleWrap, SampleProduce, PictureProduce
  <2>2. CASE PicturePost \/ \E r \in Reporters : SamplePost(r)
    BY <2>2, <1>c DEF PicturePost, SamplePost
  <2>3. CASE CheckedUpload \/ UncheckedUpload \/ UiUpload
    BY <2>3, <1>b DEF CheckedUpload, UncheckedUpload, UiUpload, Posted
  <2>4. CASE \E b \in {"net", "ui"} : SenderPends(b) \/ SenderRecycles(b)
    BY <2>4, <1>b DEF SenderPends, SenderRecycles
  <2>5. QED
    BY <1>1, <2>1, <2>2, <2>3, <2>4 DEF UplinkMoves, ReportStep, PictureStep
<1>2. CASE RejectMoves
  BY <1>2, <1>b DEF RejectMoves, RejectStarts, RejectDies, RejectReads, LocalAccepts, LocalWrites,
              LocalDrops, LocalPends, LocalDone, LocalWakes, LocalReceives, LocalCloses,
              send_handshake_cmd, ResetBegins, send_reset_cmd, ResetEnds,
              get_sample_result_array, FillResult, PostResult, Posted
<1>3. QED
  BY <1>1, <1>2

\* How a step of one camera's thread changes who holds a command.
HeldCommand(at) == IF at \in {"check", "send"} THEN 1 ELSE 0

\* A camera thread that moves on changes the number of those that hold a buffer
\* by what it holds itself.
LEMMA CameraGoes ==
  ASSUME CommandTypes, NEW c \in Cameras, NEW p, lvds' = [lvds EXCEPT ![c] = p]
  PROVE  Cardinality(Commanding') + HeldCommand(lvds[c].at)
           = Cardinality(Commanding) + HeldCommand(p.at)
<1> DEFINE K == {"check", "send"}
<1>1. lvds'[c] = p /\ OnlyMoves(Cameras, lvds, lvds', c)
  BY DEF CommandTypes, OnlyMoves
<1>2. Commanding = Standing(Cameras, lvds, K) /\ Commanding' = Standing(Cameras, lvds', K)
  BY DEF Commanding, Standing
<1>3. HeldCommand(lvds[c].at) = StandsIn(lvds[c], K) /\ HeldCommand(p.at) = StandsIn(p, K)
  BY DEF HeldCommand, StandsIn
<1> HIDE DEF K
<1>4. Cardinality(Standing(Cameras, lvds', K)) + StandsIn(lvds[c], K)
        = Cardinality(Standing(Cameras, lvds, K)) + StandsIn(p, K)
  BY <1>1, CamerasStand
<1>5. QED
  BY <1>1, <1>2, <1>3, <1>4

\* A command more, or one less, in the mailbox of a camera's thread.
LEMMA CommandQueued ==
  ASSUME Boxes, NEW c \in Cameras, NEW m \in AnyMessages, Queued(CameraBox(c), m)
  PROVE  Commanded' = Commanded + 1
<1> DEFINE b == CameraBox(c)
<1>1. /\ \A d \in Mailboxes \ {b} : box'[d] = box[d]
      /\ Len(box'[b]) = Len(box[b]) + 1 /\ box'[b] \in Seq(AnyMessages) /\ box[b] \in Seq(AnyMessages)
  BY QueuedBox, BoxNames DEF Boxes, InsertedAt
<1>2. \A d \in Cameras \ {c} : CameraBox(d) \in Mailboxes \ {b}
  BY CameraLinkAssumption
<1>3. /\ DOMAIN CameraBoxes[c] = 1 .. Len(box[b]) /\ Len(box[b]) \in Nat
      /\ DOMAIN CameraBoxes'[c] = 1 .. (Len(box[b]) + 1)
      /\ \A d \in Cameras \ {c} : DOMAIN CameraBoxes'[d] = DOMAIN CameraBoxes[d]
  BY <1>1, <1>2 DEF CameraBoxes
<1>4. \A d \in Cameras : \E n \in Nat : DOMAIN CameraBoxes[d] = 1 .. n
  BY CommandsFinite
<1>5. Cardinality(Places(Cameras, CameraBoxes')) = Cardinality(Places(Cameras, CameraBoxes)) + 1
  <2> HIDE DEF b
  <2> DEFINE G == CameraBoxes'
  <2>1. DOMAIN G[c] = 1 .. (Len(box[b]) + 1)
        /\ \A d \in Cameras \ {c} : DOMAIN G[d] = DOMAIN CameraBoxes[d]
    BY <1>3
  <2> HIDE DEF G
  <2>2. IsFiniteSet(Cameras)
    BY CameraLinkAssumption
  <2>3. Cardinality(Places(Cameras, G)) = Cardinality(Places(Cameras, CameraBoxes)) + 1
    BY <1>3, <1>4, <2>1, <2>2, PlacesMore
  <2>4. QED
    BY <2>3 DEF G
<1>6. (Commanded = Cardinality(Places(Cameras, CameraBoxes)))'
  BY CommandedPlaces, PTL
<1>7. Commanded' = Cardinality(Places(Cameras, CameraBoxes'))
  BY <1>6 DEF Places
<1>8. QED
  BY <1>5, <1>7, CommandedPlaces

\* A camera thread takes one command from its mailbox.
LEMMA CommandReceived ==
  ASSUME Boxes, Boxes', NEW c \in Cameras, Pending(CameraBox(c)), Received(CameraBox(c))
  PROVE  Commanded = Commanded' + 1
<1> DEFINE b == CameraBox(c)
<1>1. /\ \A d \in Mailboxes \ {b} : box'[d] = box[d]
      /\ box'[b] = Tail(box[b]) /\ box[b] \in Seq(AnyMessages) /\ box[b] # <<>>
      /\ \A d \in Mailboxes : box'[d] \in Seq(AnyMessages)
  BY ReceivedBox, BoxNames DEF Boxes, Pending
<1>2. Len(box[b]) = Len(box'[b]) + 1 /\ Len(box'[b]) \in Nat
  BY <1>1
<1>3. \A d \in Cameras : CameraBox(d) \in Mailboxes /\ (d # c => CameraBox(d) \in Mailboxes \ {b})
  BY CameraLinkAssumption
<1>4. Cardinality(Places(Cameras, CameraBoxes)) = Cardinality(Places(Cameras, CameraBoxes')) + 1
  <2> DEFINE G == CameraBoxes'
             n == Len(box'[b])
  <2>1. n \in Nat /\ DOMAIN G[c] = 1 .. n /\ DOMAIN CameraBoxes[c] = 1 .. (n + 1)
    <3>1. G[c] = box'[b] /\ CameraBoxes[c] = box[b]
      BY DEF CameraBoxes
    <3>2. box'[b] \in Seq(AnyMessages) /\ box[b] \in Seq(AnyMessages)
      BY <1>1, <1>3
    <3>3. DOMAIN box'[b] = 1 .. Len(box'[b]) /\ DOMAIN box[b] = 1 .. Len(box[b])
      BY <3>2
    <3>4. QED
      BY <1>2, <3>1, <3>3
  <2>2. \A d \in Cameras : \E k \in Nat : DOMAIN G[d] = 1 .. k
    <3>1. \A d \in Cameras : G[d] \in Seq(AnyMessages)
      BY <1>1, <1>3 DEF CameraBoxes
    <3> HIDE DEF G
    <3>2. QED
      BY <3>1
  <2>3. \A d \in Cameras \ {c} : DOMAIN CameraBoxes[d] = DOMAIN G[d]
    BY <1>1, <1>3 DEF CameraBoxes
  <2>4. IsFiniteSet(Cameras)
    BY CameraLinkAssumption
  <2> HIDE DEF G, n, b
  <2>5. Cardinality(Places(Cameras, CameraBoxes)) = Cardinality(Places(Cameras, G)) + 1
    BY <2>1, <2>2, <2>3, <2>4, PlacesMore
  <2>6. QED
    BY <2>5 DEF G
<1>5. (Commanded = Cardinality(Places(Cameras, CameraBoxes)))'
  BY CommandedPlaces, PTL
<1>6. Commanded' = Cardinality(Places(Cameras, CameraBoxes'))
  BY <1>5 DEF Places
<1>7. QED
  BY <1>4, <1>6, CommandedPlaces

\* No step loses a buffer or gives one back twice.
LEMMA BuffersKept ==
  Typed /\ Typed' /\ BuffersAccounted /\ SystemMoves => BuffersAccounted'
<1> SUFFICES ASSUME Typed, Typed', BuffersAccounted, SystemMoves PROVE BuffersAccounted'
  OBVIOUS
<1> USE DEF poolVars
<1>a. /\ bufs \in Nat /\ bufs' \in Nat /\ Boxes /\ Boxes' /\ CommandTypes
      /\ Commanded \in Nat /\ Cardinality(Commanding) \in Nat
  BY CommandsFinite DEF Typed, PoolTypes, MailTypes
<1>b. Commanded' \in Nat /\ Cardinality(Commanding') \in Nat
  <2>1. (Boxes => Commanded \in Nat /\ Cardinality(Commanding) \in Nat)'
    BY CommandsFinite, PTL
  <2>2. QED
    BY <1>a, <2>1
<1>c. bufs + Commanded + Cardinality(Commanding) = BufNum
  BY DEF BuffersAccounted, Commanded, Commanding
<1>d. SUFFICES bufs' + Commanded' + Cardinality(Commanding')
                 = bufs + Commanded + Cardinality(Commanding)
  BY <1>c DEF BuffersAccounted, Commanded, Commanding
<1>e. UNCHANGED lvds => Commanding' = Commanding
  BY DEF Commanding
<1>f. UNCHANGED box => Commanded' = Commanded
  BY DEF Commanded
<1>1. CASE (UplinkMoves /\ UNCHANGED <<camVars, rejectVars>>) \/ (RejectMoves /\ UNCHANGED <<upVars, camVars>>)
  BY <1>1, <1>e, OtherThreads DEF camVars
<1>2. CASE UNCHANGED <<poolVars, upVars, camVars, rejectVars>>
  BY <1>2, <1>e, <1>f DEF camVars
<1>3. CASE CameraMoves
  <2>1. CASE CommandDropped
    BY <2>1, <1>e, <1>f DEF CommandDropped, camVars
  <2>2. ASSUME NEW c \in Cameras, NEW k \in {"query", "temperature"}, Command(c, k)
        PROVE  bufs' + Commanded' + Cardinality(Commanding')
                 = bufs + Commanded + Cardinality(Commanding)
    <3>1. Message(k, 0, c, commands[c] + 1) \in AnyMessages
      <4>1. commands[c] + 1 \in Nat
        BY <1>a, CameraLinkAssumption DEF CommandTypes
      <4>2. QED
        BY <4>1, PostedFits DEF Fits
    <3>2. Commanded' = Commanded + 1
      BY <2>2, <1>a, <3>1, CommandQueued DEF Command, Posted
    <3>3. bufs' = bufs - 1 /\ UNCHANGED lvds
      BY <2>2 DEF Command, BufProduced
    <3>4. QED
      BY <1>a, <1>e, <3>2, <3>3
  <2>3. ASSUME NEW c \in Cameras, CameraPends(c)
        PROVE  bufs' + Commanded' + Cardinality(Commanding')
                 = bufs + Commanded + Cardinality(Commanding)
    <3>1. Commanded = Commanded' + 1 /\ UNCHANGED bufs
      BY <2>3, <1>a, CommandReceived DEF CameraPends
    <3>2. Cardinality(Commanding') = Cardinality(Commanding) + 1
      <4> DEFINE m == Head(box[CameraBox(c)])
                 p == [at |-> "check", id |-> m.id, kind |-> m.kind, ref |-> 0]
      <4>1. lvds' = [lvds EXCEPT ![c] = p]
        BY <2>3 DEF CameraPends
      <4>2. HeldCommand(p.at) = 1 /\ HeldCommand(lvds[c].at) = 0
        BY <2>3 DEF CameraPends, HeldCommand
      <4> HIDE DEF p
      <4>3. Cardinality(Commanding') + HeldCommand(lvds[c].at)
              = Cardinality(Commanding) + HeldCommand(p.at)
        BY <1>a, <4>1, CameraGoes
      <4>4. QED
        BY <1>a, <1>b, <4>2, <4>3
    <3>3. QED
      BY <1>a, <1>b, <3>1, <3>2
  <2>4. ASSUME NEW c \in Cameras, CameraChecks(c)
        PROVE  bufs' + Commanded' + Cardinality(Commanding')
                 = bufs + Commanded + Cardinality(Commanding)
    <3> DEFINE p == [lvds[c] EXCEPT !.at = "send"]
    <3>1. lvds' = [lvds EXCEPT ![c] = p] /\ UNCHANGED <<bufs, box>>
      BY <2>4 DEF CameraChecks
    <3>2. p.at = "send" /\ lvds[c].at = "check"
      BY <2>4, <1>a DEF CameraChecks, CommandTypes
    <3> HIDE DEF p
    <3>3. Cardinality(Commanding') + 1 = Cardinality(Commanding) + 1
      BY <1>a, <3>1, <3>2, CameraGoes DEF HeldCommand
    <3>4. QED
      BY <1>a, <1>b, <1>f, <3>1, <3>3
  <2>5. ASSUME NEW c \in Cameras, CameraSends(c)
        PROVE  bufs' + Commanded' + Cardinality(Commanding')
                 = bufs + Commanded + Cardinality(Commanding)
    <3> DEFINE p == [lvds[c] EXCEPT !.at = "recv", !.ref = protocolindex[c]]
    <3>1. lvds' = [lvds EXCEPT ![c] = p] /\ bufs' = bufs + 1 /\ UNCHANGED box
      BY <2>5 DEF CameraSends, BufRecycled
    <3>2. p.at = "recv" /\ lvds[c].at = "send"
      BY <2>5, <1>a DEF CameraSends, CommandTypes
    <3> HIDE DEF p
    <3>3. Cardinality(Commanding') + 1 = Cardinality(Commanding) + 0
      BY <1>a, <3>1, <3>2, CameraGoes DEF HeldCommand
    <3>4. QED
      BY <1>a, <1>b, <1>f, <3>1, <3>3
  <2>6. ASSUME NEW c \in Cameras,
               AnswerBad(c) \/ AnswerStored(c) \/ AnswerForwarded(c) \/ AnswerLate(c)
        PROVE  bufs' + Commanded' + Cardinality(Commanding')
                 = bufs + Commanded + Cardinality(Commanding)
    <3>1. lvds' = [lvds EXCEPT ![c] = Resting] /\ lvds[c].at = "recv" /\ UNCHANGED bufs
      BY <2>6 DEF AnswerBad, AnswerStored, AnswerForwarded, AnswerLate, Answered
    <3>2. HeldCommand(Resting.at) = 0 /\ HeldCommand(lvds[c].at) = 0
      BY <3>1 DEF Resting, HeldCommand
    <3>3. Cardinality(Commanding') + HeldCommand(lvds[c].at)
            = Cardinality(Commanding) + HeldCommand(Resting.at)
      BY <1>a, <3>1, CameraGoes
    <3>4. Commanded' = Commanded
      BY <2>6, <1>a, <1>f, OtherBoxes
         DEF AnswerBad, AnswerStored, AnswerForwarded, AnswerLate, Feedback, Posted
    <3>5. QED
      BY <1>a, <1>b, <3>1, <3>2, <3>3, <3>4
  <2>7. ASSUME NEW c \in Cameras, CameraAnswers(c)
        PROVE  bufs' + Commanded' + Cardinality(Commanding')
                 = bufs + Commanded + Cardinality(Commanding)
    BY <2>7, <1>e, <1>f DEF CameraAnswers
  <2>8. QED
    BY <1>3, <2>1, <2>2, <2>3, <2>4, <2>5, <2>6, <2>7 DEF CameraMoves, CameraStep
<1>4. QED
  BY <1>1, <1>2, <1>3 DEF SystemMoves

\* At the start every buffer is in its pool.
LEMMA BuffersStart == Init => BuffersAccounted
<1> SUFFICES ASSUME Init PROVE BuffersAccounted
  OBVIOUS
<1>1. bufs = BufNum /\ box = [b \in Mailboxes |-> <<>>] /\ lvds = [c \in Cameras |-> Resting]
  BY DEF Init, CreateFactories, CameraInit
<1>2. Commanding = {}
  BY <1>1 DEF Commanding, Resting
<1>3. \A c \in Cameras : DOMAIN box[CameraBox(c)] = {}
  BY <1>1, BoxNames
<1>4. UNION {{c} \X DOMAIN box[CameraBox(c)] : c \in Cameras} = {}
  BY <1>3
<1>5. Commanded = 0
  BY <1>4, FS_EmptySet DEF Commanded
<1>6. Cardinality(Commanding) = 0
  BY <1>2, FS_EmptySet
<1>7. bufs + Commanded + Cardinality(Commanding) = BufNum
  BY <1>1, <1>5, <1>6, MessagePoolAssumption
<1>8. QED
  BY <1>7 DEF BuffersAccounted, Commanded, Commanding

\* The places of the messages, as PoolsAccounted adds them up.
LEMMA PlacesAdded ==
  Typed => (PoolsAccounted <=> MessagesPlaced /\ BuffersAccounted)
<1> SUFFICES ASSUME Typed PROVE PoolsAccounted <=> MessagesPlaced /\ BuffersAccounted
  OBVIOUS
<1>1. /\ free \in Nat /\ Waiting \in Nat /\ Cardinality(Reporting) \in Nat
      /\ Cardinality(Sending) \in Nat /\ Picturing \in Nat /\ LocalHolds \in Nat
  BY WaitingFinite, HoldersFinite DEF Typed, PoolTypes, MailTypes, Picturing, LocalHolds
<1>2. UplinkHolds = Cardinality(Reporting) + Picturing + Cardinality(Sending)
  BY DEF UplinkHolds, Reporting, Picturing, Sending
<1>3. PoolsAccounted <=> /\ free + Waiting + UplinkHolds + LocalHolds = MSG_NUM_MAX
                         /\ BuffersAccounted
  BY DEF PoolsAccounted, LocalHolds
<1>4. free + Waiting + UplinkHolds + LocalHolds
        = free + Waiting + Cardinality(Reporting) + Picturing + Cardinality(Sending) + LocalHolds
  BY <1>1, <1>2
<1>5. QED
  BY <1>3, <1>4 DEF MessagesPlaced

\* The invariant in the parts that the lemmas above are about.
LEMMA PoolInvTyped == PoolInv <=> RejectInv /\ Typed /\ MessagesPlaced /\ BuffersAccounted
BY PlacesAdded DEF PoolInv, Typed, RejectInv

\* Every message and buffer has its place at the start.
LEMMA PoolStarting == Init => PoolInv
BY RejectStarting, TypesStart, MessagesPlacedStart, BuffersStart, PoolInvTyped DEF Typed, RejectInv

\* And in each step, by the lemma for the part that moves.
LEMMA PoolKept == PoolInv /\ [Next]_vars => PoolInv'
<1> SUFFICES ASSUME PoolInv, [Next]_vars PROVE PoolInv'
  OBVIOUS
<1>1. RejectInv' /\ SystemMoves
  BY RejectKept, EachSystemMove DEF PoolInv
<1>2. RejectTypes'
  BY <1>1 DEF RejectInv
<1>3. Typed /\ MessagesPlaced /\ BuffersAccounted
  BY PoolInvTyped
<1>4. Typed'
  BY <1>1, <1>2, <1>3, TypedKept
<1>5. MessagesPlaced' /\ BuffersAccounted'
  BY <1>1, <1>3, <1>4, MessagesPlacedKept, BuffersKept
<1>6. (PoolInv <=> RejectInv /\ Typed /\ MessagesPlaced /\ BuffersAccounted)'
  BY PoolInvTyped, PTL
<1>7. QED
  BY <1>1, <1>4, <1>5, <1>6

\* The pools and the mailboxes keep their invariant for any number of messages,
\* buffers, cameras, reporters and judges.
THEOREM PoolInvariant == Spec => []PoolInv
BY PoolStarting, PoolKept, PTL DEF Spec

\* Every message of msg_factory and every buffer of buf_factory is in one place:
\* none is lost and none recycled twice, whichever thread reports, answers, uploads
\* or drops what it was given.
THEOREM NothingIsLost == Spec => []PoolsAccounted
<1>1. PoolInv => PoolsAccounted
  BY DEF PoolInv
<1>2. QED
  BY <1>1, PoolInvariant, PTL

\* A thread that holds a message finds room in every mailbox: no timed post fails
\* (mailbox_timedpost, whose deadline has always passed) and none waits.
LEMMA RoomForEach ==
  ASSUME Typed, MessagesPlaced, Cardinality(Reporting) > 0 \/ Picturing = 1 \/ free > 0
  PROVE  \A b \in Mailboxes : Room(b)
<1>1. /\ free \in Nat /\ Waiting \in Nat /\ Cardinality(Reporting) \in Nat
      /\ Cardinality(Sending) \in Nat /\ Picturing \in Nat /\ LocalHolds \in Nat
      /\ \A b \in Mailboxes : Len(box[b]) <= Waiting /\ Len(box[b]) \in Nat
  BY WaitingFinite, HoldersFinite DEF Typed, PoolTypes, MailTypes, Picturing, LocalHolds
<1>2. free + Waiting + Cardinality(Reporting) + Picturing + Cardinality(Sending) + LocalHolds
        = MSG_NUM_MAX
  BY DEF MessagesPlaced
<1>3. Waiting < MSG_NUM_MAX
  BY <1>1, <1>2
<1>4. MSG_NUM_MAX \in Nat
  BY MessagePoolAssumption
<1>5. QED
  BY <1>1, <1>3, <1>4 DEF Room

\* A report, or a thread that has just taken a message, finds room in every mailbox:
\* no mailbox_timedpost gives its message up, though its deadline has always passed,
\* and no mq_send waits with a message in hand.
PostsHaveRoom ==
  ~Empty \/ picture = "post" \/ (\E r \in Reporters : reports[r].at = "post")
    => \A b \in Mailboxes : Room(b)

\* Posts never fail, for any number of messages, mailboxes and threads
\* (mailbox_post, mailbox_timedpost, msg_factory_produce).
THEOREM PostsFindRoom == Spec => []PostsHaveRoom
<1>1. PoolInv => PostsHaveRoom
  <2> SUFFICES ASSUME PoolInv,
                      ~Empty \/ picture = "post" \/ \E r \in Reporters : reports[r].at = "post"
               PROVE  \A b \in Mailboxes : Room(b)
    BY DEF PostsHaveRoom
  <2>1. Typed /\ MessagesPlaced
    BY PoolInvTyped
  <2>2. CASE ~Empty
    <3>1. free > 0
      BY <2>1, <2>2 DEF Empty, Typed, PoolTypes
    <3>2. QED
      BY <2>1, <3>1, RoomForEach
  <2>3. CASE picture = "post"
    BY <2>1, <2>3, RoomForEach DEF Picturing
  <2>4. CASE \E r \in Reporters : reports[r].at = "post"
    <3>1. Reporting # {} /\ Reporting \in SUBSET Reporters
      BY <2>4 DEF Reporting
    <3>2. IsFiniteSet(Reporting)
      BY <3>1, UplinkAssumption, FS_Subset
    <3>3. Cardinality(Reporting) \in Nat /\ Cardinality(Reporting) # 0
      BY <3>1, <3>2, FS_EmptySet, FS_CardinalityType
    <3>4. QED
      BY <2>1, <3>3, RoomForEach
  <2>5. QED
    BY <2>2, <2>3, <2>4
<1>2. QED
  BY <1>1, PoolInvariant, PTL
-----------------------------------------------------------------------------
(* what the reports to the PC depend on *)

\* A step that leaves the reports, and what net_send_tsk holds, may post something
\* else to the PC.
OtherMove ==
  /\ UNCHANGED <<claims, ring, g_img_ability, image, reports, sending["net"], ghosts>>
  /\ \/ UNCHANGED box["net"]
     \/ \E m \in NetMessages : m.kind \notin {"sample", "picture"} /\ m.prio = 1 /\ Queued("net", m)

NetMoves ==
  \/ \E r \in Reporters : SampleCheck(r) \/ ReportStep(r)
  \/ PictureCheck \/ PictureStep
  \/ SenderPends("net") \/ SenderRecycles("net")
  \/ OtherMove

\* A step of another mailbox leaves that of net_send_tsk.
LEMMA NetBoxSame ==
  ASSUME Boxes, NEW b \in Mailboxes \ {"net"}, Received(b) \/ \E m : Queued(b, m)
  PROVE  UNCHANGED box["net"]
<1>1. "net" \in DOMAIN box /\ b # "net"
  BY BoxNames DEF Boxes, Sized
<1>2. CASE Received(b)
  BY <1>1, <1>2 DEF Received
<1>3. CASE \E m : Queued(b, m)
  BY <1>1, <1>3 DEF Queued
<1>4. QED
  BY <1>2, <1>3

\* A step of the program, as what it does to net's mailbox.
LEMMA EachNetMove == Typed /\ SystemMoves => NetMoves
<1> SUFFICES ASSUME Typed, SystemMoves PROVE NetMoves
  OBVIOUS
<1> USE DEF poolVars
<1>a. Boxes /\ CommandTypes /\ sending["ui"] \in UiMessages \cup {Nothing}
      /\ DOMAIN sending = {"net", "ui"}
  BY DEF Typed, MailTypes
<1>b. /\ {"net", "ui", "local"} \subseteq Mailboxes
      /\ \A c \in Cameras : CameraBox(c) \in Mailboxes \ {"net", "ui", "local"}
  BY BoxNames
<1>c. ASSUME NEW b \in Mailboxes \ {"net"}, Received(b) \/ \E m : Queued(b, m)
      PROVE  UNCHANGED box["net"]
  BY <1>a, <1>c, NetBoxSame
<1>d. ASSUME UNCHANGED upVars, UNCHANGED box["net"] PROVE NetMoves
  BY <1>d DEF NetMoves, OtherMove, upVars
<1>e. ASSUME UNCHANGED upVars, NEW m \in NetMessages, m.kind \notin {"sample", "picture"}, m.prio = 1,
             Queued("net", m)
      PROVE  NetMoves
  BY <1>e DEF NetMoves, OtherMove, upVars
<1>f. /\ Message("upload", 1, 0, 0) \in NetMessages /\ Message("feedback", 1, 0, 0) \in NetMessages
      /\ Message("upload", 1, 0, 0).kind \notin {"sample", "picture"}
      /\ Message("upload", 1, 0, 0).prio = 1
      /\ Message("feedback", 1, 0, 0).kind \notin {"sample", "picture"}
      /\ Message("feedback", 1, 0, 0).prio = 1
  BY DEF Message, NetMessages
<1>1. CASE UplinkMoves
  <2>1. CASE LinkChanges \/ UiLinkChanges
    BY <2>1 DEF LinkChanges, UiLinkChanges, NetMoves, OtherMove
  <2>2. CASE CheckedUpload \/ UncheckedUpload
    BY <2>2, <1>d, <1>e, <1>f DEF CheckedUpload, UncheckedUpload, Posted
  <2>3. CASE UiUpload
    BY <2>3, <1>b, <1>c, <1>d DEF UiUpload, Posted
  <2>4. CASE SenderPends("ui")
    <3>1. UNCHANGED box["net"]
      BY <2>4, <1>b, <1>c DEF SenderPends
    <3>2. UNCHANGED sending["net"]
      BY <2>4, <1>a DEF SenderPends
    <3>3. QED
      BY <2>4, <3>1, <3>2 DEF SenderPends, NetMoves, OtherMove
  <2>5. CASE SenderRecycles("ui")
    <3>1. sending["ui"].kind \notin {"sample", "picture"}
      BY <1>a DEF UiMessages, Nothing, Message
    <3>2. UNCHANGED <<claims, g_img_ability>>
      BY <2>5, <3>1 DEF SenderRecycles, Finish
    <3>3. UNCHANGED sending["net"]
      BY <2>5, <1>a DEF SenderRecycles
    <3>4. QED
      BY <2>5, <3>2, <3>3 DEF SenderRecycles, NetMoves, OtherMove
  <2>6. QED
    BY <1>1, <2>1, <2>2, <2>3, <2>4, <2>5 DEF UplinkMoves, NetMoves
<1>2. CASE CameraMoves /\ UNCHANGED <<upVars, rejectVars>>
  <2>1. CASE CommandDropped
    BY <2>1, <1>d DEF CommandDropped
  <2>2. ASSUME NEW c \in Cameras, NEW k, Command(c, k) PROVE NetMoves
    BY <2>2, <1>2, <1>b, <1>c, <1>d DEF Command, Posted
  <2>3. ASSUME NEW c \in Cameras, CameraPends(c) PROVE NetMoves
    BY <2>3, <1>2, <1>b, <1>c, <1>d DEF CameraPends
  <2>4. ASSUME NEW c \in Cameras, CameraChecks(c) \/ CameraSends(c) \/ AnswerStored(c) \/ CameraAnswers(c)
        PROVE  NetMoves
    BY <2>4, <1>2, <1>d DEF CameraChecks, CameraSends, AnswerStored, CameraAnswers
  <2>5. ASSUME Feedback PROVE NetMoves
    BY <2>5, <1>2, <1>d, <1>e, <1>f DEF Feedback, Posted
  <2>6. ASSUME NEW c \in Cameras, AnswerForwarded(c) PROVE NetMoves
    <3> DEFINE m == Message(CameraBox(c), 1, lvds[c].ref, Head(rxfifo[c]).id)
    <3>1. lvds[c].ref \in Nat /\ Head(rxfifo[c]).id \in Nat
      <4> DEFINE Answer == [id : Nat, kind : {"query", "temperature"}]
      <4>1. rxfifo[c] \in Seq(Answer) /\ rxfifo[c] # <<>> /\ lvds[c].ref \in Nat
        BY <2>6, <1>a, CameraLinkAssumption DEF CommandTypes, AnswerForwarded, Answered
      <4>2. Head(rxfifo[c]) \in Answer
        <5> HIDE DEF Answer
        <5>1. QED
          BY <4>1
      <4>3. QED
        BY <4>1, <4>2
    <3>2. m \in NetMessages /\ m.kind = CameraBox(c) /\ m.prio = 1
      BY <3>1 DEF Message, NetMessages
    <3>3. CameraBox(c) \notin {"sample", "picture"}
      BY CameraLinkAssumption
    <3>4. Queued("net", m) \/ UNCHANGED box
      BY <2>6 DEF AnswerForwarded, Posted
    <3> HIDE DEF m
    <3>5. QED
      BY <1>2, <1>d, <1>e, <3>2, <3>3, <3>4
  <2>7. QED
    BY <1>2, <2>1, <2>2, <2>3, <2>4, <2>5, <2>6 DEF CameraMoves, CameraStep, AnswerBad, AnswerLate
<1>3. CASE RejectMoves /\ UNCHANGED <<upVars, camVars>>
  <2>1. UNCHANGED box \/ Received("local") \/ \E m : Queued("local", m)
    BY <1>3 DEF RejectMoves, RejectStarts, RejectDies, RejectReads, LocalAccepts, LocalWrites,
              LocalDrops, LocalPends, LocalDone, LocalWakes, LocalReceives, LocalCloses,
              send_handshake_cmd, ResetBegins, send_reset_cmd, ResetEnds,
              get_sample_result_array, FillResult, PostResult, Posted
  <2>2. UNCHANGED box["net"]
    BY <2>1, <1>b, <1>c
  <2>3. QED
    BY <1>3, <1>d, <2>2
<1>4. CASE UNCHANGED <<poolVars, upVars, camVars, rejectVars>>
  BY <1>4, <1>d
<1>5. QED
  BY <1>1, <1>2, <1>3, <1>4 DEF SystemMoves

\* A thread that posts a report or a picture finds room.
LEMMA PostsQueue ==
  ASSUME Typed, MessagesPlaced
  PROVE  /\ \A r \in Reporters :
              SamplePost(r) => /\ Queued("net", Message("sample", 5, reports[r].ref, reports[r].id))
                               /\ UNCHANGED <<claims, g_img_ability>>
         /\ PicturePost => Queued("net", Message("picture", 3, 0, pictures))
                           /\ UNCHANGED <<claims, g_img_ability>>
<1>1. ASSUME NEW m, TimedPost("net", m), Room("net")
      PROVE  Queued("net", m) /\ UNCHANGED <<claims, g_img_ability>>
  BY <1>1 DEF TimedPost
<1>2. "net" \in Mailboxes
  BY BoxNames
<1>3. ASSUME NEW r \in Reporters, SamplePost(r) PROVE Room("net")
  <2>1. r \in Reporting
    BY <1>3 DEF SamplePost, Reporting
  <2>2. Cardinality(Reporting) > 0
    <3>1. IsFiniteSet(Reporting) /\ Cardinality(Reporting) \in Nat /\ Reporting # {}
      BY <2>1, HoldersFinite
    <3>2. Cardinality(Reporting) # 0
      BY <3>1, FS_EmptySet
    <3>3. QED
      BY <3>1, <3>2
  <2>3. QED
    BY <1>2, <2>2, RoomForEach
<1>4. ASSUME PicturePost PROVE Room("net")
  <2>1. Picturing = 1
    BY <1>4 DEF PicturePost, Picturing
  <2>2. QED
    BY <1>2, <2>1, RoomForEach
<1>5. QED
  BY <1>1, <1>3, <1>4 DEF SamplePost, PicturePost
-----------------------------------------------------------------------------
(* how many messages of one kind net_send_tsk has to send *)

OfKind(k) == {m \in AnyMessages : m.kind = k}

\* The messages of a kind that wait are the places of its messages in the queue.
LEMMA QueueCounts ==
  ASSUME Boxes, NEW k
  PROVE  Queue(k) = CountIn(box["net"], OfKind(k)) /\ Queue(k) \in Nat
         /\ Queue(k) <= Len(box["net"])
<1>1. box["net"] \in Seq(AnyMessages)
  BY BoxNames DEF Boxes
<1>2. \A i \in DOMAIN box["net"] : box["net"][i] \in AnyMessages
  BY <1>1
<1>3. InBox("net", {k}) = {i \in DOMAIN box["net"] : box["net"][i] \in OfKind(k)}
  BY <1>2 DEF InBox, OfKind
<1>4. CountIn(box["net"], OfKind(k)) \in Nat /\ CountIn(box["net"], OfKind(k)) <= Len(box["net"])
  BY <1>1, CountType
<1>5. QED
  BY <1>3, <1>4 DEF Queue, CountIn

\* The numbers of samples and of pictures that wait.
LEMMA QueueTypes == Boxes => Queue("sample") \in Nat /\ Queue("picture") \in Nat
  BY QueueCounts

\* A post to net's mailbox adds one message of its kind.
LEMMA QueueGrows ==
  ASSUME Boxes, Boxes', NEW m \in NetMessages, Queued("net", m), NEW k
  PROVE  Queue(k)' = Queue(k) + (IF m.kind = k THEN 1 ELSE 0)
<1>1. "net" \in Mailboxes /\ m \in AnyMessages /\ box["net"] \in Seq(AnyMessages) /\ Sized
  BY BoxNames, MessageSets DEF Boxes
<1>2. CountIn(box'["net"], OfKind(k)) = CountIn(box["net"], OfKind(k)) + (IF m \in OfKind(k) THEN 1 ELSE 0)
  BY <1>1, QueuedBox
<1>3. m \in OfKind(k) <=> m.kind = k
  BY <1>1 DEF OfKind
<1>4. Queue(k) = CountIn(box["net"], OfKind(k))
  BY QueueCounts
<1>5. Queue(k)' = CountIn(box'["net"], OfKind(k))
  <2>1. (Boxes => Queue(k) = CountIn(box["net"], OfKind(k)))'
    BY QueueCounts, PTL
  <2>2. QED
    BY <2>1 DEF CountIn
<1>6. QED
  BY <1>2, <1>3, <1>4, <1>5

\* A pend takes the first one away.
LEMMA QueueShrinks ==
  ASSUME Boxes, Boxes', Pending("net"), Received("net"), NEW k
  PROVE  Queue(k) = Queue(k)' + (IF Head(box["net"]).kind = k THEN 1 ELSE 0)
<1> DEFINE m == Head(box["net"])
<1>1. "net" \in Mailboxes /\ box["net"] \in Seq(AnyMessages) /\ Sized
  BY BoxNames DEF Boxes
<1>2. m \in AnyMessages
      /\ CountIn(box["net"], OfKind(k)) = CountIn(box'["net"], OfKind(k)) + (IF m \in OfKind(k) THEN 1 ELSE 0)
  BY <1>1, ReceivedBox
<1>3. m \in OfKind(k) <=> m.kind = k
  BY <1>2 DEF OfKind
<1>4. Queue(k) = CountIn(box["net"], OfKind(k))
  BY QueueCounts
<1>5. Queue(k)' = CountIn(box'["net"], OfKind(k))
  <2>1. (Boxes => Queue(k) = CountIn(box["net"], OfKind(k)))'
    BY QueueCounts, PTL
  <2>2. QED
    BY <2>1 DEF CountIn
<1> HIDE DEF m
<1>6. Queue(k) = Queue(k)' + (IF m.kind = k THEN 1 ELSE 0)
  BY <1>2, <1>3, <1>4, <1>5
<1>7. QED
  BY <1>6 DEF m
-----------------------------------------------------------------------------
(* every report is counted *)

Sends(k) == IF sending["net"].kind = k THEN 1 ELSE 0
Underway == {"produce", "copy", "address", "wrap", "post"}
Claimed == Standing(Reporters, reports, Underway)

ClaimPlaced ==
  /\ sample_send_process = lost + Queue("sample") + Cardinality(Claimed) + Sends("sample")
  /\ g_sample_ability <=> sample_send_process < SAMPLE_INFO_ARRAY_MAX
  /\ sample_send_process + Cardinality(Claiming) <= samples

\* The claims, written as a sum over places.
LEMMA ClaimsPlaced == ReportTypes => (ClaimInv <=> ClaimPlaced)
<1>1. ReportTypes => {r \in Reporters : reports[r].at \notin {"idle", "claim"}} = Claimed
  BY DEF ReportTypes, Claimed, Standing, Underway
<1>2. QED
  BY <1>1 DEF ClaimInv, ClaimPlaced, ClaimsExact, Queue, Sends

\* Finitely many threads have claims.
LEMMA ReportersFinite ==
  Cardinality(Claimed) \in Nat /\ Cardinality(Claiming) \in Nat /\ IsFiniteSet(Claiming)
<1>1. IsFiniteSet(Reporters) /\ Claimed \in SUBSET Reporters /\ Claiming \in SUBSET Reporters
  BY UplinkAssumption DEF Claimed, Claiming, Standing
<1>2. QED
  BY <1>1, FS_Subset, FS_CardinalityType

\* How a step of one reporter changes who has claimed and who is about to.
LEMMA ReporterSteps ==
  ASSUME ReportTypes, NEW r \in Reporters, NEW v, Becomes(r, v)
  PROVE  /\ Cardinality(Claimed') + StandsIn(reports[r], Underway)
              = Cardinality(Claimed) + StandsIn(v, Underway)
         /\ Cardinality(Claiming') + StandsIn(reports[r], {"claim"})
              = Cardinality(Claiming) + StandsIn(v, {"claim"})
         /\ Cardinality(Claimed') \in Nat /\ Cardinality(Claiming') \in Nat
<1> DEFINE K == {"claim"}
<1>1. reports'[r] = v /\ OnlyMoves(Reporters, reports, reports', r)
  BY DEF ReportTypes, OnlyMoves, Becomes
<1>2. Claiming = Standing(Reporters, reports, K) /\ Claiming' = Standing(Reporters, reports', K)
  BY DEF Claiming, Standing
<1> HIDE DEF K
<1>3. /\ Cardinality(Standing(Reporters, reports', K)) + StandsIn(reports[r], K)
           = Cardinality(Standing(Reporters, reports, K)) + StandsIn(v, K)
      /\ Cardinality(Standing(Reporters, reports', K)) \in Nat
  BY <1>1, ReportersStand
<1>4. /\ Cardinality(Standing(Reporters, reports', Underway)) + StandsIn(reports[r], Underway)
           = Cardinality(Standing(Reporters, reports, Underway)) + StandsIn(v, Underway)
      /\ Cardinality(Standing(Reporters, reports', Underway)) \in Nat
  BY <1>1, ReportersStand
<1>5. Claimed' = Standing(Reporters, reports', Underway)
  BY DEF Claimed, Underway
<1>6. QED
  BY <1>1, <1>2, <1>3, <1>4, <1>5 DEF Claimed, K

\* The same for a step from one place to another.
LEMMA ReporterLeaves ==
  ASSUME ReportTypes, NEW r \in Reporters, NEW at, Goes(r, at)
  PROVE  /\ Cardinality(Claimed') + (IF reports[r].at \in Underway THEN 1 ELSE 0)
              = Cardinality(Claimed) + (IF at \in Underway THEN 1 ELSE 0)
         /\ Cardinality(Claiming') + (IF reports[r].at = "claim" THEN 1 ELSE 0)
              = Cardinality(Claiming) + (IF at = "claim" THEN 1 ELSE 0)
         /\ Cardinality(Claimed') \in Nat /\ Cardinality(Claiming') \in Nat
<1> DEFINE v == [reports[r] EXCEPT !.at = at]
<1>1. Becomes(r, v)
  BY DEF Goes, Becomes
<1>2. v.at = at
  BY DEF ReportTypes
<1> HIDE DEF v
<1>3. /\ Cardinality(Claimed') + StandsIn(reports[r], Underway)
           = Cardinality(Claimed) + StandsIn(v, Underway)
      /\ Cardinality(Claiming') + StandsIn(reports[r], {"claim"})
           = Cardinality(Claiming) + StandsIn(v, {"claim"})
      /\ Cardinality(Claimed') \in Nat /\ Cardinality(Claiming') \in Nat
  BY <1>1, ReporterSteps
<1>4. /\ StandsIn(reports[r], Underway) = IF reports[r].at \in Underway THEN 1 ELSE 0
      /\ StandsIn(v, Underway) = IF at \in Underway THEN 1 ELSE 0
      /\ StandsIn(reports[r], {"claim"}) = IF reports[r].at = "claim" THEN 1 ELSE 0
      /\ StandsIn(v, {"claim"}) = IF at = "claim" THEN 1 ELSE 0
  BY <1>2 DEF StandsIn
<1>5. QED
  BY <1>3, <1>4

\* At the start nothing is claimed.
LEMMA ClaimStarts == Init => ClaimInv
<1> SUFFICES ASSUME Init PROVE ClaimInv
  OBVIOUS
<1>1. /\ box = [b \in Mailboxes |-> <<>>] /\ sample_send_process = 0 /\ lost = 0 /\ samples = 0
      /\ g_sample_ability = TRUE /\ sending = [b \in {"net", "ui"} |-> Nothing]
      /\ reports = [r \in Reporters |-> [at |-> "idle", id |-> 0, ref |-> 0]]
  BY DEF Init, CreateFactories, UplinkInit
<1>2. Claimed = {} /\ Claiming = {} /\ Sends("sample") = 0
  BY <1>1 DEF Claimed, Standing, Underway, Claiming, Sends, Nothing, Message
<1>3. Queue("sample") = 0
  <2>1. InBox("net", {"sample"}) = {}
    BY <1>1, BoxNames DEF InBox
  <2>2. QED
    BY <2>1, FS_EmptySet DEF Queue
<1>4. ClaimPlaced
  BY <1>1, <1>2, <1>3, FS_EmptySet, UplinkAssumption DEF ClaimPlaced
<1>5. QED
  BY <1>4, TypesStart, ClaimsPlaced

\* A report is counted from its claim to the release of its message.
LEMMA ClaimKept ==
  ASSUME Typed, Typed', MessagesPlaced, ClaimInv, NetMoves PROVE ClaimInv'
<1> USE DEF poolVars, conns, claims, ring, image, ghosts
<1>a. /\ Boxes /\ Boxes' /\ ReportTypes /\ ReportTypes' /\ MailTypes
  BY DEF Typed, MailTypes
<1>b. SUFFICES ClaimPlaced'
  <2>1. (ReportTypes => (ClaimInv <=> ClaimPlaced))'
    BY ClaimsPlaced, PTL
  <2>2. QED
    BY <1>a, <2>1
<1>c. ClaimPlaced
  BY <1>a, ClaimsPlaced
<1>d. /\ Queue("sample") \in Nat /\ Cardinality(Claimed) \in Nat /\ Cardinality(Claiming) \in Nat
      /\ Sends("sample") \in {0, 1} /\ sample_send_process \in Nat /\ lost \in Nat /\ samples \in Nat
      /\ SAMPLE_INFO_ARRAY_MAX \in Nat
  <2>1. Queue("sample") \in Nat /\ Sends("sample") \in {0, 1}
    BY <1>a, QueueTypes DEF Sends
  <2>2. sample_send_process \in Nat /\ lost \in Nat /\ samples \in Nat /\ SAMPLE_INFO_ARRAY_MAX \in Nat
    BY <1>a, UplinkAssumption DEF ReportTypes
  <2>3. QED
    BY <2>1, <2>2, ReportersFinite
<1>e. Queue("sample")' \in Nat /\ Sends("sample")' \in {0, 1}
  <2>1. (Boxes => Queue("sample") \in Nat /\ Queue("picture") \in Nat)'
    BY QueueTypes, PTL
  <2>2. QED
    BY <1>a, <2>1 DEF Sends
<1>f. UNCHANGED reports => Claimed' = Claimed /\ Claiming' = Claiming
  BY DEF Claimed, Claiming
<1>g. UNCHANGED sending["net"] => Sends("sample")' = Sends("sample")
  BY DEF Sends
<1>h. UNCHANGED box["net"] => Queue("sample")' = Queue("sample")
  BY DEF Queue, InBox
<1>i. g_sample_ability <=> sample_send_process < SAMPLE_INFO_ARRAY_MAX
  BY <1>c DEF ClaimPlaced
<1>1. ASSUME NEW r \in Reporters, SampleCheck(r) PROVE ClaimPlaced'
  <2>1. /\ UNCHANGED <<box, sending, claims, lost>> /\ samples' = samples + 1
        /\ reports[r].at = "idle"
    BY <1>1 DEF SampleCheck
  <2>2. Cardinality(Claimed') = Cardinality(Claimed)
        /\ Cardinality(Claiming') \in {Cardinality(Claiming), Cardinality(Claiming) + 1}
    <3> DEFINE v == [at |-> "claim", id |-> samples + 1, ref |-> 0]
    <3>1. reports' = reports \/ Becomes(r, v)
      BY <1>1 DEF SampleCheck, Becomes
    <3>2. /\ StandsIn(v, Underway) = 0 /\ StandsIn(v, {"claim"}) = 1
          /\ StandsIn(reports[r], Underway) = 0 /\ StandsIn(reports[r], {"claim"}) = 0
      BY <2>1 DEF StandsIn, Underway
    <3> HIDE DEF v
    <3>3. ASSUME Becomes(r, v)
          PROVE  Cardinality(Claimed') = Cardinality(Claimed)
                 /\ Cardinality(Claiming') = Cardinality(Claiming) + 1
      BY <1>a, <1>d, <3>2, <3>3, ReporterSteps
    <3>4. QED
      BY <1>f, <3>1, <3>3
  <2>3. QED
    BY <1>c, <1>d, <1>g, <1>h, <2>1, <2>2 DEF ClaimPlaced
<1>2. ASSUME NEW r \in Reporters, SampleClaim(r) PROVE ClaimPlaced'
  <2>1. /\ UNCHANGED <<box, sending, lost, samples>> /\ reports[r].at = "claim" /\ Goes(r, "produce")
        /\ sample_send_process' = sample_send_process + 1
        /\ g_sample_ability' = (g_sample_ability /\ sample_send_process + 1 < SAMPLE_INFO_ARRAY_MAX)
    BY <1>2 DEF SampleClaim
  <2>2. Cardinality(Claimed') = Cardinality(Claimed) + 1
        /\ Cardinality(Claiming') + 1 = Cardinality(Claiming)
    BY <1>a, <1>d, <2>1, ReporterLeaves DEF Underway
  <2>3. g_sample_ability' <=> sample_send_process' < SAMPLE_INFO_ARRAY_MAX
    <3>1. sample_send_process + 1 < SAMPLE_INFO_ARRAY_MAX => sample_send_process < SAMPLE_INFO_ARRAY_MAX
      BY <1>d
    <3>2. QED
      BY <1>i, <2>1, <3>1, Zenon
  <2>4. sample_send_process' = lost' + Queue("sample")' + Cardinality(Claimed)' + Sends("sample")'
    BY <1>c, <1>d, <1>g, <1>h, <2>1, <2>2 DEF ClaimPlaced
  <2>5. sample_send_process' + Cardinality(Claiming)' <= samples'
    <3>1. Cardinality(Claiming') \in Nat
      BY <1>a, <2>1, ReporterLeaves
    <3>2. QED
      BY <1>c, <1>d, <2>1, <2>2, <3>1 DEF ClaimPlaced
  <2>6. QED
    BY <2>3, <2>4, <2>5 DEF ClaimPlaced
<1>3. ASSUME NEW r \in Reporters, SampleProduce(r) PROVE ClaimPlaced'
  <2>1. /\ UNCHANGED <<box, sending, claims, samples>> /\ reports[r].at = "produce"
        /\ \/ Goes(r, "idle") /\ lost' = lost + 1
           \/ Goes(r, "copy") /\ lost' = lost
    BY <1>3 DEF SampleProduce
  <2>2. Cardinality(Claimed') + lost' = Cardinality(Claimed) + lost
        /\ Cardinality(Claiming') = Cardinality(Claiming)
        /\ Cardinality(Claimed') \in Nat /\ lost' \in Nat
    <3>1. CASE Goes(r, "idle") /\ lost' = lost + 1
      BY <1>a, <1>d, <2>1, <3>1, ReporterLeaves DEF Underway
    <3>2. CASE Goes(r, "copy") /\ lost' = lost
      BY <1>a, <1>d, <2>1, <3>2, ReporterLeaves DEF Underway
    <3>3. QED
      BY <2>1, <3>1, <3>2
  <2>3. QED
    BY <1>c, <1>d, <1>g, <1>h, <2>1, <2>2 DEF ClaimPlaced
<1>4. ASSUME NEW r \in Reporters, SampleCopy(r) \/ SampleAddress(r) \/ SampleWrap(r) PROVE ClaimPlaced'
  <2>1. /\ UNCHANGED <<box, sending, claims, samples, lost>>
        /\ reports[r].at \in {"copy", "address", "wrap"}
    BY <1>4 DEF SampleCopy, SampleAddress, SampleWrap
  <2>2. \E v : Becomes(r, v) /\ v.at \in {"address", "wrap", "post"}
    <3>1. \A at : [reports[r] EXCEPT !.at = at].at = at
      BY <1>a DEF ReportTypes
    <3>2. [reports[r] EXCEPT !.at = "wrap", !.ref = sample_info_array_index].at = "wrap"
      BY <1>a DEF ReportTypes
    <3>3. \/ \E at \in {"address", "post"} : reports' = [reports EXCEPT ![r] = [reports[r] EXCEPT !.at = at]]
          \/ reports' = [reports EXCEPT ![r] = [reports[r] EXCEPT !.at = "wrap", !.ref = sample_info_array_index]]
      BY <1>4 DEF SampleCopy, SampleAddress, SampleWrap, Goes
    <3>4. QED
      BY <3>1, <3>2, <3>3 DEF Becomes
  <2>3. Cardinality(Claimed') = Cardinality(Claimed) /\ Cardinality(Claiming') = Cardinality(Claiming)
    <3>1. PICK v : Becomes(r, v) /\ v.at \in {"address", "wrap", "post"}
      BY <2>2
    <3>2. /\ StandsIn(v, Underway) = 1 /\ StandsIn(v, {"claim"}) = 0
          /\ StandsIn(reports[r], Underway) = 1 /\ StandsIn(reports[r], {"claim"}) = 0
      BY <2>1, <3>1 DEF StandsIn, Underway
    <3>3. QED
      BY <1>a, <1>d, <3>1, <3>2, ReporterSteps
  <2>4. QED
    BY <1>c, <1>d, <1>g, <1>h, <2>1, <2>3 DEF ClaimPlaced
<1>5. ASSUME NEW r \in Reporters, SamplePost(r) PROVE ClaimPlaced'
  <2> DEFINE m == Message("sample", 5, reports[r].ref, reports[r].id)
  <2>1. /\ Queued("net", m) /\ UNCHANGED claims /\ Goes(r, "idle") /\ reports[r].at = "post"
        /\ UNCHANGED <<sending, samples, lost>>
    BY <1>5, PostsQueue DEF SamplePost
  <2>2. m \in NetMessages /\ m.kind = "sample"
    <3>1. reports[r].ref \in Nat /\ reports[r].id \in Nat
      BY <1>a, ReportNumbers
    <3>2. QED
      BY <3>1 DEF Message, NetMessages
  <2> HIDE DEF m
  <2>3. Queue("sample")' = Queue("sample") + 1
    BY <1>a, <2>1, <2>2, QueueGrows
  <2>4. Cardinality(Claimed') + 1 = Cardinality(Claimed) /\ Cardinality(Claiming') = Cardinality(Claiming)
        /\ Cardinality(Claimed') \in Nat
    BY <1>a, <1>d, <2>1, ReporterLeaves DEF Underway
  <2>5. QED
    BY <1>c, <1>d, <1>g, <2>1, <2>3, <2>4 DEF ClaimPlaced
<1>6. ASSUME UNCHANGED <<claims, reports, samples, lost>>,
             Queue("sample")' + Sends("sample")' = Queue("sample") + Sends("sample")
      PROVE  ClaimPlaced'
  BY <1>6, <1>c, <1>d, <1>e, <1>f DEF ClaimPlaced
<1>7. CASE PictureCheck \/ PictureClaim \/ PictureProduce \/ PictureCopy
  BY <1>6, <1>7, <1>g, <1>h DEF PictureCheck, PictureClaim, PictureProduce, PictureCopy
<1>8. CASE PicturePost
  <2> DEFINE m == Message("picture", 3, 0, pictures)
  <2>1. Queued("net", m) /\ UNCHANGED <<claims, reports, samples, lost, sending>>
    BY <1>8, PostsQueue DEF PicturePost
  <2>2. m \in NetMessages /\ m.kind # "sample"
    <3>1. pictures \in Nat
      BY <1>a, UplinkAssumption DEF ReportTypes
    <3>2. QED
      BY <3>1 DEF Message, NetMessages
  <2> HIDE DEF m
  <2>3. Queue("sample")' = Queue("sample") + 0
    BY <1>a, <2>1, <2>2, QueueGrows
  <2>4. QED
    BY <1>6, <1>d, <1>g, <2>1, <2>3
<1>9. CASE OtherMove
  <2>1. Queue("sample")' = Queue("sample")
    <3>1. ASSUME NEW m \in NetMessages, m.kind \notin {"sample", "picture"}, Queued("net", m)
          PROVE  Queue("sample")' = Queue("sample")
      <4>1. Queue("sample")' = Queue("sample") + 0
        BY <1>a, <3>1, QueueGrows
      <4>2. QED
        BY <1>d, <4>1
    <3>2. QED
      BY <1>9, <1>h, <3>1 DEF OtherMove
  <2>2. QED
    BY <1>6, <1>9, <1>g, <2>1 DEF OtherMove
<1>10. CASE SenderPends("net")
  <2>1. Queue("sample") = Queue("sample")' + (IF Head(box["net"]).kind = "sample" THEN 1 ELSE 0)
    BY <1>10, <1>a, QueueShrinks DEF SenderPends
  <2>2. sending["net"] = Nothing /\ sending'["net"] = Head(box["net"])
    BY <1>10, <1>a DEF SenderPends, MailTypes
  <2>3. Sends("sample") = 0 /\ Sends("sample")' = IF Head(box["net"]).kind = "sample" THEN 1 ELSE 0
    BY <2>2 DEF Sends, Nothing, Message
  <2>4. Queue("sample")' + Sends("sample")' = Queue("sample") + Sends("sample")
    BY <1>d, <1>e, <2>1, <2>3
  <2>5. QED
    BY <1>6, <1>10, <2>4 DEF SenderPends
<1>11. CASE SenderRecycles("net")
  <2>1. Finish(sending["net"]) /\ UNCHANGED <<box, reports, samples, lost>> /\ sending'["net"] = Nothing
    BY <1>11, <1>a DEF SenderRecycles, MailTypes
  <2>2. Sends("sample")' = 0
    BY <2>1 DEF Sends, Nothing, Message
  <2>3. CASE sending["net"].kind # "sample"
    <3>1. Sends("sample") = 0 /\ UNCHANGED claims
      BY <2>1, <2>3 DEF Sends, Finish
    <3>2. QED
      BY <1>6, <1>h, <2>1, <2>2, <3>1
  <2>4. CASE sending["net"].kind = "sample"
    <3>1. Sends("sample") = 1
      BY <2>4 DEF Sends
    <3>2. sample_send_process # 0
      BY <1>c, <1>d, <3>1 DEF ClaimPlaced
    <3>3. /\ sample_send_process' = sample_send_process - 1
          /\ g_sample_ability' = (g_sample_ability \/ sample_send_process - 1 < SAMPLE_INFO_ARRAY_MAX)
      BY <2>1, <2>4, <3>2 DEF Finish, allow_send_sample
    <3>4. g_sample_ability' <=> sample_send_process' < SAMPLE_INFO_ARRAY_MAX
      <4>1. sample_send_process < SAMPLE_INFO_ARRAY_MAX => sample_send_process - 1 < SAMPLE_INFO_ARRAY_MAX
        BY <1>d
      <4>2. QED
        BY <1>i, <3>3, <4>1, Zenon
    <3>5. QED
      BY <1>c, <1>d, <1>f, <1>h, <2>1, <2>2, <3>1, <3>3, <3>4 DEF ClaimPlaced
  <2>5. QED
    BY <2>3, <2>4
<1>12. QED
  BY <1>1, <1>2, <1>3, <1>4, <1>5, <1>7, <1>8, <1>9, <1>10, <1>11
     DEF NetMoves, ReportStep, PictureStep
-----------------------------------------------------------------------------
(* one picture at a time *)

\* What is on its way to the PC, after a step of net_send_tsk or of a thread that
\* posts.
LEMMA OnTheWayMoves ==
  ASSUME MailTypes
  PROVE  /\ \A m \in NetMessages : Queued("net", m) /\ UNCHANGED sending["net"]
                                      => OnTheWay' = OnTheWay \cup {m}
         /\ SenderPends("net") \/ SenderRecycles("net") => OnTheWay' \subseteq OnTheWay
         /\ UNCHANGED <<box["net"], sending["net"]>> => OnTheWay' = OnTheWay
<1>a. Boxes /\ "net" \in Mailboxes /\ box["net"] \in Seq(NetMessages) /\ Sized
      /\ DOMAIN sending = {"net", "ui"}
  BY BoxNames DEF MailTypes, Boxes
<1>b. OnTheWay = Range(box["net"]) \cup ({sending["net"]} \ {Nothing})
      /\ OnTheWay' = Range(box'["net"]) \cup ({sending'["net"]} \ {Nothing})
  BY DEF OnTheWay, Range
<1>1. ASSUME NEW m \in NetMessages, Queued("net", m), UNCHANGED sending["net"]
      PROVE  OnTheWay' = OnTheWay \cup {m}
  <2>1. Range(box'["net"]) = Range(box["net"]) \cup {m}
    BY <1>1, <1>a, QueuedBox
  <2>2. QED
    BY <1>1, <1>b, <2>1
<1>2. ASSUME SenderPends("net") PROVE OnTheWay' \subseteq OnTheWay
  <2>1. Range(box["net"]) = Range(box'["net"]) \cup {Head(box["net"])}
    BY <1>2, <1>a, ReceivedBox DEF SenderPends
  <2>2. sending'["net"] = Head(box["net"])
    BY <1>2, <1>a DEF SenderPends
  <2>3. QED
    BY <1>b, <2>1, <2>2
<1>3. ASSUME SenderRecycles("net") PROVE OnTheWay' \subseteq OnTheWay
  <2>1. sending'["net"] = Nothing /\ UNCHANGED box
    BY <1>3, <1>a DEF SenderRecycles
  <2>2. QED
    BY <1>b, <2>1
<1>4. UNCHANGED <<box["net"], sending["net"]>> => OnTheWay' = OnTheWay
  BY <1>b
<1>5. QED
  BY <1>1, <1>2, <1>3, <1>4

Drawing == IF picture \in {"produce", "copy", "post"} THEN 1 ELSE 0
Able == IF g_img_ability THEN 1 ELSE 0

PicturePlaced ==
  /\ Queue("picture") + Sends("picture") + Drawing + Able = 1
  /\ picture = "claim" => g_img_ability
  /\ picture = "post" => g_net_send_img_buf = pictures
  /\ \A m \in OnTheWay : m.kind = "picture" => g_net_send_img_buf = m.id

\* The picture, written as a sum over places.
LEMMA PicturesPlaced == PictureInv <=> PicturePlaced
BY DEF PictureInv, PicturePlaced, Queue, Sends, Drawing, Able

\* At the start no picture is on its way.
LEMMA PictureStarts == Init => PictureInv
<1> SUFFICES ASSUME Init PROVE PictureInv
  OBVIOUS
<1>1. /\ box = [b \in Mailboxes |-> <<>>] /\ picture = "idle" /\ g_img_ability = TRUE
      /\ sending = [b \in {"net", "ui"} |-> Nothing]
  BY DEF Init, CreateFactories, UplinkInit
<1>2. Drawing = 0 /\ Able = 1 /\ Sends("picture") = 0
  BY <1>1 DEF Drawing, Able, Sends, Nothing, Message
<1>3. Queue("picture") = 0
  <2>1. InBox("net", {"picture"}) = {}
    BY <1>1, BoxNames DEF InBox
  <2>2. QED
    BY <2>1, FS_EmptySet DEF Queue
<1>4. OnTheWay = {}
  BY <1>1, BoxNames DEF OnTheWay
<1>5. PicturePlaced
  BY <1>1, <1>2, <1>3, <1>4 DEF PicturePlaced
<1>6. QED
  BY <1>5, PicturesPlaced

\* While a picture is on its way none is drawn.
LEMMA PictureKept ==
  ASSUME Typed, Typed', MessagesPlaced, PictureInv, NetMoves PROVE PictureInv'
<1> USE DEF poolVars, conns, claims, ring, image, ghosts
<1>a. /\ Boxes /\ Boxes' /\ ReportTypes /\ ReportTypes' /\ MailTypes
  BY DEF Typed, MailTypes
<1>b. SUFFICES PicturePlaced'
  <2>1. (PictureInv <=> PicturePlaced)'
    BY PicturesPlaced, PTL
  <2>2. QED
    BY <2>1
<1>c. PicturePlaced
  BY PicturesPlaced
<1>d. /\ Queue("picture") \in Nat /\ Sends("picture") \in {0, 1} /\ Drawing \in {0, 1}
      /\ Able \in {0, 1}
  BY <1>a, QueueCounts DEF Sends, Drawing, Able
<1>e. Queue("picture")' \in Nat /\ Sends("picture")' \in {0, 1}
  <2>1. (Boxes => Queue("sample") \in Nat /\ Queue("picture") \in Nat)'
    BY QueueTypes, PTL
  <2>2. QED
    BY <1>a, <2>1 DEF Sends
<1>f. UNCHANGED sending["net"] => Sends("picture")' = Sends("picture")
  BY DEF Sends
<1>g. UNCHANGED box["net"] => Queue("picture")' = Queue("picture")
  BY DEF Queue, InBox
<1>h. UNCHANGED picture => Drawing' = Drawing
  BY DEF Drawing
<1>i. UNCHANGED g_img_ability => Able' = Able
  BY DEF Able
<1>1. ASSUME UNCHANGED <<picture, pictures, g_img_ability, g_net_send_img_buf>>,
             Queue("picture")' + Sends("picture")' = Queue("picture") + Sends("picture"),
             \A m \in OnTheWay' : m \in OnTheWay \/ m.kind # "picture"
      PROVE  PicturePlaced'
  BY <1>1, <1>c, <1>d, <1>e, <1>h, <1>i DEF PicturePlaced
<1>2. ASSUME UNCHANGED <<picture, pictures, g_img_ability, g_net_send_img_buf, sending>>,
             NEW m \in NetMessages, m.kind # "picture", Queued("net", m)
      PROVE  PicturePlaced'
  <2>1. Queue("picture")' = Queue("picture") + 0
    BY <1>2, <1>a, QueueGrows
  <2>2. OnTheWay' = OnTheWay \cup {m}
    BY <1>2, <1>a, OnTheWayMoves
  <2>3. QED
    BY <1>1, <1>2, <1>d, <1>f, <2>1, <2>2
<1>3. ASSUME NEW r \in Reporters, SampleCheck(r) \/ ReportStep(r) PROVE PicturePlaced'
  <2>1. CASE SamplePost(r)
    <3> DEFINE m == Message("sample", 5, reports[r].ref, reports[r].id)
    <3>1. m \in NetMessages /\ m.kind # "picture"
      <4>1. reports[r].ref \in Nat /\ reports[r].id \in Nat
        BY <1>a, ReportNumbers
      <4>2. QED
        BY <4>1 DEF Message, NetMessages
    <3>2. /\ Queued("net", m)
          /\ UNCHANGED <<picture, pictures, g_img_ability, g_net_send_img_buf, sending>>
      BY <2>1, PostsQueue DEF SamplePost
    <3> HIDE DEF m
    <3>3. QED
      BY <1>2, <3>1, <3>2
  <2>2. CASE UNCHANGED <<picture, pictures, g_img_ability, g_net_send_img_buf, sending, box>>
    BY <1>1, <1>a, <1>f, <1>g, <2>2, OnTheWayMoves
  <2>3. QED
    BY <1>3, <2>1, <2>2 DEF SampleCheck, ReportStep, SampleClaim, SampleProduce, SampleCopy,
                            SampleAddress, SampleWrap
<1>4. CASE PictureCheck \/ PictureClaim \/ PictureProduce \/ PictureCopy
  <2>1. UNCHANGED <<box, sending>>
    BY <1>4 DEF PictureCheck, PictureClaim, PictureProduce, PictureCopy
  <2>2. OnTheWay' = OnTheWay /\ Queue("picture")' = Queue("picture")
        /\ Sends("picture")' = Sends("picture")
    BY <1>a, <1>f, <1>g, <2>1, OnTheWayMoves
  <2>3. CASE PictureCheck
    <3>1. /\ picture = "idle" /\ UNCHANGED <<g_img_ability, g_net_send_img_buf>>
          /\ picture' \in {"idle", "claim"} /\ (picture' = "claim" => g_img_ability)
      BY <2>3 DEF PictureCheck
    <3>2. Drawing' = Drawing
      BY <3>1 DEF Drawing
    <3>3. QED
      BY <1>c, <1>i, <2>2, <3>1, <3>2 DEF PicturePlaced
  <2>4. CASE PictureClaim
    <3>1. /\ picture = "claim" /\ picture' = "produce" /\ g_img_ability' = FALSE
          /\ UNCHANGED g_net_send_img_buf
      BY <2>4 DEF PictureClaim
    <3>2. Drawing = 0 /\ Drawing' = 1 /\ Able' = 0 /\ Able = 1
      BY <1>c, <3>1 DEF Drawing, Able, PicturePlaced
    <3>3. QED
      BY <1>c, <1>d, <2>2, <3>1, <3>2 DEF PicturePlaced
  <2>5. CASE PictureProduce
    <3>1. /\ picture = "produce" /\ UNCHANGED g_net_send_img_buf
          /\ \/ picture' = "idle" /\ g_img_ability' = TRUE
             \/ picture' = "copy" /\ UNCHANGED g_img_ability
      BY <2>5 DEF PictureProduce, allow_send_image
    <3>2. Drawing = 1 /\ Able = 0
      <4>1. Drawing = 1
        BY <3>1 DEF Drawing
      <4>2. QED
        BY <1>c, <1>d, <4>1 DEF PicturePlaced
    <3>3. (Drawing' = 0 /\ Able' = 1) \/ (Drawing' = 1 /\ Able' = 0)
      BY <1>i, <3>1, <3>2 DEF Drawing, Able
    <3>4. Queue("picture") = 0 /\ Sends("picture") = 0
      BY <1>c, <1>d, <3>2 DEF PicturePlaced
    <3>5. Queue("picture")' + Sends("picture")' + Drawing' + Able' = 1
      <4>1. CASE Drawing' = 0 /\ Able' = 1
        BY <2>2, <3>4, <4>1
      <4>2. CASE Drawing' = 1 /\ Able' = 0
        BY <2>2, <3>4, <4>2
      <4>3. QED
        BY <3>3, <4>1, <4>2
    <3>6. QED
      BY <1>c, <2>2, <3>1, <3>5 DEF PicturePlaced
  <2>6. CASE PictureCopy
    <3>1. /\ picture = "copy" /\ picture' = "post" /\ g_net_send_img_buf' = pictures
          /\ UNCHANGED <<pictures, g_img_ability>>
      BY <2>6 DEF PictureCopy
    <3>2. Drawing = 1 /\ Drawing' = 1
      BY <3>1 DEF Drawing
    <3>3. Queue("picture") = 0 /\ Sends("picture") = 0
      BY <1>c, <1>d, <3>2 DEF PicturePlaced
    <3>4. \A m \in OnTheWay : m.kind # "picture"
      <4>1. box["net"] \in Seq(AnyMessages) /\ box["net"] \in Seq(NetMessages)
        BY <1>a, BoxNames DEF Boxes
      <4>2. CountIn(box["net"], OfKind("picture")) = 0
        BY <1>a, <3>3, QueueCounts
      <4>3. \A i \in DOMAIN box["net"] : box["net"][i] \notin OfKind("picture")
        <5>1. \A i \in DOMAIN box["net"] :
                box["net"][i] \in OfKind("picture") => CountIn(box["net"], OfKind("picture")) > 0
          BY <4>1, CountType
        <5>2. QED
          BY <4>2, <5>1
      <4>4. \A i \in DOMAIN box["net"] : box["net"][i] \in AnyMessages
        BY <4>1
      <4>5. sending["net"].kind # "picture"
        BY <3>3 DEF Sends
      <4>6. QED
        BY <4>3, <4>4, <4>5 DEF OnTheWay, OfKind
    <3>5. QED
      BY <1>c, <1>i, <2>2, <3>1, <3>2, <3>4 DEF PicturePlaced
  <2>7. QED
    BY <1>4, <2>3, <2>4, <2>5, <2>6
<1>5. CASE PicturePost
  <2> DEFINE m == Message("picture", 3, 0, pictures)
  <2>1. /\ Queued("net", m) /\ picture = "post" /\ picture' = "idle"
        /\ UNCHANGED <<pictures, g_img_ability, g_net_send_img_buf, sending>>
    BY <1>5, PostsQueue DEF PicturePost
  <2>2. m \in NetMessages /\ m.kind = "picture" /\ m.id = pictures
    <3>1. pictures \in Nat
      BY <1>a, UplinkAssumption DEF ReportTypes
    <3>2. QED
      BY <3>1 DEF Message, NetMessages
  <2> HIDE DEF m
  <2>3. Queue("picture")' = Queue("picture") + 1 /\ OnTheWay' = OnTheWay \cup {m}
    BY <1>a, <2>1, <2>2, QueueGrows, OnTheWayMoves
  <2>4. Drawing = 1 /\ Drawing' = 0
    BY <2>1 DEF Drawing
  <2>5. Queue("picture")' + Sends("picture")' + Drawing' + Able' = 1
    BY <1>c, <1>d, <1>f, <1>i, <2>1, <2>3, <2>4 DEF PicturePlaced
  <2>6. QED
    BY <1>c, <2>1, <2>2, <2>3, <2>5 DEF PicturePlaced
<1>6. CASE OtherMove
  <2>1. ASSUME NEW m \in NetMessages, m.kind \notin {"sample", "picture"}, Queued("net", m)
        PROVE  Queue("picture")' = Queue("picture") /\ OnTheWay' = OnTheWay \cup {m}
    <3>1. Queue("picture")' = Queue("picture") + 0
      BY <1>a, <2>1, QueueGrows
    <3>2. UNCHANGED sending["net"]
      BY <1>6 DEF OtherMove
    <3>3. QED
      BY <1>a, <1>d, <2>1, <3>1, <3>2, OnTheWayMoves
  <2>2. Queue("picture")' = Queue("picture") /\ \A m \in OnTheWay' : m \in OnTheWay \/ m.kind # "picture"
    BY <1>6, <1>a, <1>g, <2>1, OnTheWayMoves DEF OtherMove
  <2>3. QED
    BY <1>1, <1>6, <1>f, <2>2 DEF OtherMove
<1>7. CASE SenderPends("net")
  <2>1. Queue("picture") = Queue("picture")' + (IF Head(box["net"]).kind = "picture" THEN 1 ELSE 0)
    BY <1>7, <1>a, QueueShrinks DEF SenderPends
  <2>2. sending["net"] = Nothing /\ sending'["net"] = Head(box["net"])
    BY <1>7, <1>a DEF SenderPends, MailTypes
  <2>3. Sends("picture") = 0 /\ Sends("picture")' = IF Head(box["net"]).kind = "picture" THEN 1 ELSE 0
    BY <2>2 DEF Sends, Nothing, Message
  <2>4. Queue("picture")' + Sends("picture")' = Queue("picture") + Sends("picture")
    BY <1>d, <1>e, <2>1, <2>3
  <2>5. OnTheWay' \subseteq OnTheWay
    BY <1>7, <1>a, OnTheWayMoves
  <2>6. QED
    BY <1>1, <1>7, <2>4, <2>5 DEF SenderPends
<1>8. CASE SenderRecycles("net")
  <2>1. /\ Finish(sending["net"]) /\ UNCHANGED <<box, picture, pictures, g_net_send_img_buf>>
        /\ sending'["net"] = Nothing
    BY <1>8, <1>a DEF SenderRecycles, MailTypes
  <2>2. Sends("picture")' = 0 /\ OnTheWay' \subseteq OnTheWay /\ Queue("picture")' = Queue("picture")
    BY <1>8, <1>a, <1>g, <2>1, OnTheWayMoves DEF Sends, Nothing, Message
  <2>3. CASE sending["net"].kind # "picture"
    <3>1. Sends("picture") = 0 /\ UNCHANGED g_img_ability
      BY <2>1, <2>3 DEF Sends, Finish
    <3>2. QED
      BY <1>1, <2>1, <2>2, <3>1
  <2>4. CASE sending["net"].kind = "picture"
    <3>1. Sends("picture") = 1 /\ g_img_ability' = TRUE
      BY <2>1, <2>4 DEF Sends, Finish, allow_send_image
    <3>2. Able' = 1 /\ Able = 0
      BY <1>c, <1>d, <3>1 DEF Able, PicturePlaced
    <3>3. Queue("picture")' + Sends("picture")' + Drawing' + Able' = 1
      BY <1>c, <1>d, <1>h, <2>1, <2>2, <3>1, <3>2 DEF PicturePlaced
    <3>4. QED
      BY <1>c, <2>1, <2>2, <3>1, <3>3 DEF PicturePlaced
  <2>5. QED
    BY <2>3, <2>4
<1>9. QED
  BY <1>3, <1>4, <1>5, <1>6, <1>7, <1>8 DEF NetMoves, PictureStep
-----------------------------------------------------------------------------
(* the ring of samples *)

\* What is queued changes the samples in the mailbox only at their end.
LEMMA SampleQueued ==
  ASSUME Boxes, Boxes', SamplesFirst, NEW m \in NetMessages, Queued("net", m), m.kind = "sample"
  PROVE  /\ SamplesFirst' /\ Queue("sample")' = Queue("sample") + 1
         /\ \A i \in 1 .. Queue("sample") : box'["net"][i] = box["net"][i]
         /\ box'["net"][Queue("sample") + 1] = m
<1> DEFINE q == box["net"]
           n == Queue("sample")
           A == {i \in DOMAIN q : q[i].prio >= m.prio}
           k == Cardinality(A)
<1>a. "net" \in Mailboxes /\ q \in Seq(NetMessages) /\ Sized /\ m.prio = 5
  <2>1. "net" \in Mailboxes /\ q \in Seq(NetMessages) /\ Sized
    BY BoxNames DEF Boxes
  <2>2. \A x \in NetMessages : x.kind = "sample" => x.prio = 5
    BY CameraLinkAssumption DEF NetMessages
  <2>3. QED
    BY <2>1, <2>2
<1>b. n \in Nat /\ n <= Len(q) /\ DOMAIN q = 1 .. Len(q)
  BY <1>a, QueueCounts
<1>c. \A i \in DOMAIN q : q[i].kind = "sample" <=> i <= n
  BY DEF SamplesFirst
<1>d. \A i \in DOMAIN q : q[i].kind = "sample" <=> q[i].prio >= 5
  <2>1. \A x \in NetMessages : x.kind = "sample" <=> x.prio >= 5
    BY CameraLinkAssumption DEF NetMessages
  <2>2. QED
    BY <1>a, <2>1
<1>e. A = 1 .. n
  BY <1>a, <1>b, <1>c, <1>d
<1>f. k = n
  <2>1. \A i \in Nat : Cardinality(1 .. i) = i
    BY FS_Interval
  <2>2. QED
    BY <1>b, <1>e, <2>1
<1>g. InsertedAt(box'["net"], q, k, m) /\ box'["net"] \in Seq(NetMessages)
  BY <1>a, QueuedBox
<1>h. n' = n + 1
  <2>1. n' = n + (IF m.kind = "sample" THEN 1 ELSE 0)
    BY QueueGrows
  <2>2. QED
    BY <1>b, <2>1
<1>i. /\ DOMAIN box'["net"] = 1 .. (Len(q) + 1)
      /\ \A i \in 1 .. (Len(q) + 1) :
           box'["net"][i] = IF i <= n THEN q[i] ELSE IF i = n + 1 THEN m ELSE q[i - 1]
  BY <1>a, <1>b, <1>f, <1>g, SMTT(30) DEF InsertedAt
<1> HIDE DEF q, k, A
<1>1. \A i \in DOMAIN box'["net"] : box'["net"][i].kind = "sample" <=> i <= n + 1
  <2> SUFFICES ASSUME NEW i \in 1 .. (Len(q) + 1)
               PROVE  box'["net"][i].kind = "sample" <=> i <= n + 1
    BY <1>i
  <2>1. Len(q) \in Nat
    BY <1>a
  <2> HIDE DEF n
  <2>2. CASE i <= n
    BY <1>b, <1>c, <1>i, <2>1, <2>2
  <2>3. CASE i = n + 1
    BY <1>b, <1>i, <2>1, <2>3
  <2>4. CASE i > n + 1
    <3>1. i - 1 \in DOMAIN q /\ ~(i - 1 <= n) /\ box'["net"][i] = q[i - 1]
      BY <1>b, <1>i, <2>1, <2>4
    <3>2. QED
      BY <1>b, <1>c, <2>1, <2>4, <3>1
  <2>5. QED
    BY <1>b, <2>1, <2>2, <2>3, <2>4
<1>2. SamplesFirst'
  BY <1>1, <1>h DEF SamplesFirst
<1>3. /\ \A i \in 1 .. n : box'["net"][i] = q[i]
      /\ box'["net"][n + 1] = m
  <2>1. Len(q) \in Nat
    BY <1>a
  <2> HIDE DEF n
  <2>2. QED
    BY <1>b, <1>i, <2>1
<1>4. QED
  BY <1>2, <1>3, <1>h DEF q

\* Anything else is queued behind them.
LEMMA OtherQueued ==
  ASSUME Boxes, Boxes', SamplesFirst, NEW m \in NetMessages, Queued("net", m), m.kind # "sample"
  PROVE  /\ SamplesFirst' /\ Queue("sample")' = Queue("sample")
         /\ \A i \in 1 .. Queue("sample") : box'["net"][i] = box["net"][i]
<1> DEFINE q == box["net"]
           n == Queue("sample")
           A == {i \in DOMAIN q : q[i].prio >= m.prio}
           k == Cardinality(A)
<1>a. "net" \in Mailboxes /\ q \in Seq(NetMessages) /\ Sized
      /\ m.prio \in 1 .. 3
  BY BoxNames DEF Boxes, NetMessages
<1>b. n \in Nat /\ n <= Len(q) /\ DOMAIN q = 1 .. Len(q)
  BY <1>a, QueueCounts
<1>c. \A i \in DOMAIN q : q[i].kind = "sample" <=> i <= n
  BY DEF SamplesFirst
<1>d. \A i \in DOMAIN q : q[i].kind = "sample" => q[i].prio >= m.prio
  <2>1. \A x \in NetMessages : x.kind = "sample" => x.prio = 5
    BY CameraLinkAssumption DEF NetMessages
  <2>2. QED
    BY <1>a, <2>1
<1>e. 1 .. n \in SUBSET A /\ A \in SUBSET (1 .. Len(q))
  BY <1>a, <1>b, <1>c, <1>d
<1>f. k \in Nat /\ n <= k /\ k <= Len(q)
  <2>1. IsFiniteSet(1 .. Len(q)) /\ Cardinality(1 .. Len(q)) = Len(q) /\ Cardinality(1 .. n) = n
    BY <1>b, FS_Interval
  <2>2. IsFiniteSet(A) /\ k <= Len(q)
    BY <1>e, <2>1, FS_Subset
  <2>3. Cardinality(1 .. n) <= k
    BY <1>e, <2>2, FS_Subset
  <2>4. QED
    BY <2>1, <2>2, <2>3, FS_CardinalityType
<1>g. InsertedAt(box'["net"], q, k, m) /\ box'["net"] \in Seq(NetMessages)
  BY <1>a, QueuedBox
<1>h. n' = n
  <2>1. n' = n + (IF m.kind = "sample" THEN 1 ELSE 0)
    BY QueueGrows
  <2>2. QED
    BY <1>b, <2>1
<1>i. /\ DOMAIN box'["net"] = 1 .. (Len(q) + 1)
      /\ \A i \in 1 .. (Len(q) + 1) :
           box'["net"][i] = IF i <= k THEN q[i] ELSE IF i = k + 1 THEN m ELSE q[i - 1]
  BY <1>a, <1>b, <1>g DEF InsertedAt
<1>j. Len(q) \in Nat
  BY <1>a
<1> HIDE DEF q, k, A
<1>1. \A i \in DOMAIN box'["net"] : box'["net"][i].kind = "sample" <=> i <= n
  <2> SUFFICES ASSUME NEW i \in 1 .. (Len(q) + 1)
               PROVE  box'["net"][i].kind = "sample" <=> i <= n
    BY <1>i
  <2> HIDE DEF n
  <2>2. CASE i <= k
    BY <1>b, <1>c, <1>f, <1>i, <1>j, <2>2
  <2>3. CASE i = k + 1
    BY <1>b, <1>f, <1>i, <1>j, <2>3
  <2>4. CASE i > k + 1
    <3>1. i - 1 \in DOMAIN q /\ ~(i - 1 <= n) /\ box'["net"][i] = q[i - 1]
      BY <1>b, <1>f, <1>i, <1>j, <2>4
    <3>2. QED
      BY <1>b, <1>c, <1>f, <1>j, <2>4, <3>1
  <2>5. QED
    BY <1>f, <1>j, <2>2, <2>3, <2>4
<1>2. SamplesFirst'
  BY <1>1, <1>h DEF SamplesFirst
<1>3. \A i \in 1 .. n : box'["net"][i] = q[i]
  <2> HIDE DEF n
  <2>1. QED
    BY <1>b, <1>f, <1>i, <1>j
<1>4. QED
  BY <1>2, <1>3, <1>h DEF q

\* net_send_tsk takes the first sample, if there is one.
LEMMA SampleReceived ==
  ASSUME Boxes, Boxes', SamplesFirst, Pending("net"), Received("net")
  PROVE  /\ SamplesFirst' /\ Queue("sample")' \in Nat
         /\ \A i \in 1 .. Queue("sample")' : box'["net"][i] = box["net"][i + 1]
         /\ Head(box["net"]) = box["net"][1]
         /\ IF Head(box["net"]).kind = "sample" THEN Queue("sample") = Queue("sample")' + 1
            ELSE Queue("sample") = 0 /\ Queue("sample")' = 0
<1> DEFINE q == box["net"]
           n == Queue("sample")
<1>a. "net" \in Mailboxes /\ q \in Seq(NetMessages) /\ Sized /\ q # <<>>
  BY BoxNames DEF Boxes, Pending
<1>b. n \in Nat /\ n <= Len(q) /\ DOMAIN q = 1 .. Len(q) /\ Len(q) \in Nat /\ Len(q) > 0
  BY <1>a, QueueCounts
<1>c. \A i \in DOMAIN q : q[i].kind = "sample" <=> i <= n
  BY DEF SamplesFirst
<1>d. box'["net"] = Tail(q)
  BY <1>a, ReceivedBox
<1>e. n = n' + (IF Head(q).kind = "sample" THEN 1 ELSE 0)
  BY QueueShrinks
<1>f. PICK w \in Nat : n' = w
  <2>1. (Boxes => Queue("sample") \in Nat /\ Queue("picture") \in Nat)'
    BY QueueTypes, PTL
  <2>2. n' \in Nat
    BY <2>1
  <2>3. QED
    BY <2>2
<1>g. Head(q) = q[1] /\ DOMAIN Tail(q) = 1 .. (Len(q) - 1)
      /\ \A i \in 1 .. (Len(q) - 1) : Tail(q)[i] = q[i + 1]
  BY <1>a, <1>b
<1> HIDE DEF q, n
<1>h. IF Head(q).kind = "sample" THEN n = n' + 1 ELSE n = 0 /\ n' = 0
  BY <1>b, <1>c, <1>e, <1>f, <1>g
<1>1. \A i \in DOMAIN Tail(q) : Tail(q)[i].kind = "sample" <=> i <= n'
  <2> SUFFICES ASSUME NEW i \in 1 .. (Len(q) - 1) PROVE Tail(q)[i].kind = "sample" <=> i <= n'
    BY <1>g
  <2>1. Tail(q)[i] = q[i + 1] /\ i + 1 \in DOMAIN q
    BY <1>b, <1>g
  <2>2. Tail(q)[i].kind = "sample" <=> i + 1 <= n
    BY <1>c, <2>1
  <2>3. QED
    BY <1>b, <1>f, <1>h, <2>2
<1>2. SamplesFirst'
  BY <1>1, <1>d DEF SamplesFirst, n
<1>3. \A i \in 1 .. n' : Tail(q)[i] = q[i + 1]
  BY <1>b, <1>f, <1>g, <1>h
<1>4. QED
  BY <1>2, <1>3, <1>d, <1>f, <1>g, <1>h DEF q, n

\* What does not touch net's mailbox leaves the samples first.
LEMMA SamplesSame ==
  ASSUME SamplesFirst, UNCHANGED box["net"]
  PROVE  SamplesFirst' /\ Queue("sample")' = Queue("sample")
BY DEF SamplesFirst, Queue, InBox

\* One entry is the furthest behind: the one that is written next.
LEMMA OldestEntry ==
  ASSUME NEW c \in 0 .. SAMPLE_INFO_ARRAY_MAX - 1, NEW e \in 0 .. SAMPLE_INFO_ARRAY_MAX - 1
  PROVE  Age(c, e) \in 1 .. SAMPLE_INFO_ARRAY_MAX /\ (Age(c, e) = SAMPLE_INFO_ARRAY_MAX <=> e = c)
BY UplinkAssumption DEF Age

\* The index moves on by one, round the end: the entry just written is one behind,
\* and every other one further than before.
LEMMA AgesMove ==
  ASSUME NEW c \in 0 .. SAMPLE_INFO_ARRAY_MAX - 1, NEW d,
         d = IF c + 1 = SAMPLE_INFO_ARRAY_MAX THEN 0 ELSE c + 1
  PROVE  /\ Age(d, c) = 1
         /\ \A e \in 0 .. SAMPLE_INFO_ARRAY_MAX - 1 : e # c => Age(d, e) = Age(c, e) + 1
<1>1. SAMPLE_INFO_ARRAY_MAX \in Nat \ {0}
  BY UplinkAssumption
<1>2. CASE c + 1 = SAMPLE_INFO_ARRAY_MAX
  BY <1>1, <1>2 DEF Age
<1>3. CASE c + 1 # SAMPLE_INFO_ARRAY_MAX
  BY <1>1, <1>3 DEF Age
<1>4. QED
  BY <1>2, <1>3

\* The samples in the mailbox and the one net_send_tsk holds.
LEMMA SampleTypes ==
  ASSUME Typed
  PROVE  /\ Queue("sample") \in Nat /\ Sends("sample") \in {0, 1} /\ Taken \in {0, 1}
         /\ \A i \in 1 .. Queue("sample") : box["net"][i] \in NetMessages /\ box["net"][i].ref \in Nat
         /\ sending["net"].ref \in Nat
         /\ \A r \in Reporters : reports[r].ref \in Nat /\ reports[r].id \in Nat
<1>1. /\ Boxes /\ box["net"] \in Seq(NetMessages) /\ sending["net"] \in NetMessages \cup {Nothing}
      /\ ReportTypes
  BY DEF Typed, MailTypes, Boxes
<1>2. Queue("sample") \in Nat /\ Queue("sample") <= Len(box["net"]) /\ Len(box["net"]) \in Nat
  BY <1>1, QueueCounts
<1>3. \A m \in NetMessages \cup {Nothing} : m.ref \in Nat
  BY DEF NetMessages, Nothing, Message
<1>4. \A i \in 1 .. Queue("sample") : box["net"][i] \in NetMessages
  BY <1>1, <1>2
<1>5. \A r \in Reporters : reports[r].ref \in Nat /\ reports[r].id \in Nat
  BY <1>1, UplinkAssumption DEF ReportTypes
<1>6. QED
  BY <1>1, <1>2, <1>3, <1>4, <1>5 DEF Sends, Taken

\* A report that has been claimed finds an entry that no sample on its way needs.
LEMMA RoomInRing ==
  ASSUME Typed, ClaimInv, OneReport, RingOrder, NEW r \in Reporters,
         reports[r].at \in {"copy", "address"}
  PROVE  /\ sample_info_array_index \in 0 .. SAMPLE_INFO_ARRAY_MAX - 1
         /\ Cursor = sample_info_array_index /\ Addressed = {}
         /\ \A i \in 1 .. Queue("sample") : box["net"][i].ref # sample_info_array_index
         /\ sending["net"].kind = "sample" => sending["net"].ref # sample_info_array_index
<1>1. /\ Queue("sample") \in Nat /\ Sends("sample") \in {0, 1}
      /\ (\A i \in 1 .. Queue("sample") : box["net"][i].ref \in Nat) /\ sending["net"].ref \in Nat
  BY SampleTypes
<1>2. /\ sample_info_array_index \in 0 .. SAMPLE_INFO_ARRAY_MAX /\ SAMPLE_INFO_ARRAY_MAX \in Nat \ {0}
      /\ sample_send_process \in Nat /\ lost \in Nat /\ ReportTypes
  BY UplinkAssumption DEF Typed, ReportTypes
<1>3. \A q \in Reporters : q # r => reports[q].at = "idle"
  BY DEF OneReport
<1>4. Addressed = {} /\ \A q \in Reporters : reports[q].at # "wrap"
  BY <1>3 DEF Addressed
<1>5. sample_info_array_index \in 0 .. SAMPLE_INFO_ARRAY_MAX - 1 /\ Cursor = sample_info_array_index
  BY <1>2, <1>4 DEF OneReport, Cursor
<1>6. Queue("sample") + Sends("sample") < SAMPLE_INFO_ARRAY_MAX
  <2>1. ClaimPlaced
    BY <1>2, ClaimsPlaced
  <2>2. Cardinality(Claimed) \in Nat /\ Cardinality(Claimed) # 0
    <3>1. r \in Claimed /\ Claimed \in SUBSET Reporters
      BY DEF Claimed, Standing, Underway
    <3>2. IsFiniteSet(Claimed)
      BY <3>1, UplinkAssumption, FS_Subset
    <3>3. QED
      BY <3>1, <3>2, FS_EmptySet, FS_CardinalityType
  <2>3. sample_send_process <= SAMPLE_INFO_ARRAY_MAX
    BY DEF OneReport
  <2>4. sample_send_process = lost + Queue("sample") + Cardinality(Claimed) + Sends("sample")
    BY <2>1 DEF ClaimPlaced
  <2>5. QED
    BY <1>1, <1>2, <2>2, <2>3, <2>4
<1>7. Taken = 0
  BY <1>4 DEF Taken
<1>8. ASSUME NEW i \in 1 .. Queue("sample") PROVE box["net"][i].ref # sample_info_array_index
  <2> DEFINE e == box["net"][i].ref
  <2>1. e \in 0 .. SAMPLE_INFO_ARRAY_MAX - 1
        /\ Age(Cursor, e) = Queue("sample") - i + 1 + Taken
    BY <1>1, <1>2 DEF RingOrder, Kept
  <2> HIDE DEF e
  <2>2. Age(Cursor, e) # SAMPLE_INFO_ARRAY_MAX
    BY <1>1, <1>2, <1>6, <1>7, <2>1
  <2>3. e # sample_info_array_index
    BY <1>5, <2>1, <2>2, OldestEntry
  <2>4. QED
    BY <2>3 DEF e
<1>9. ASSUME sending["net"].kind = "sample" PROVE sending["net"].ref # sample_info_array_index
  <2> DEFINE e == sending["net"].ref
  <2>1. e \in 0 .. SAMPLE_INFO_ARRAY_MAX - 1 /\ Age(Cursor, e) = Queue("sample") + 1 + Taken
    BY <1>1, <1>2, <1>9 DEF RingOrder, Kept
  <2>2. Sends("sample") = 1
    BY <1>9 DEF Sends
  <2> HIDE DEF e
  <2>3. Age(Cursor, e) # SAMPLE_INFO_ARRAY_MAX
    BY <1>1, <1>2, <1>6, <1>7, <2>1, <2>2
  <2>4. e # sample_info_array_index
    BY <1>5, <2>1, <2>3, OldestEntry
  <2>5. QED
    BY <2>4 DEF e
<1>10. QED
  BY <1>4, <1>5, <1>8, <1>9

\* A step that leaves ring, reporters and waiting samples alone keeps the order.
LEMMA RingFrame ==
  ASSUME RingOrder, UNCHANGED <<ring, reports, sending["net"]>>,
         Queue("sample")' = Queue("sample"),
         \A i \in 1 .. Queue("sample") : box'["net"][i] = box["net"][i]
  PROVE  RingOrder'
BY DEF RingOrder, Kept, Cursor, Addressed, Taken, ring

\* The end of a report leaves room for the next.
LEMMA OneFrame ==
  ASSUME OneReport, UNCHANGED <<reports, sample_info_array_index>>,
         sample_send_process \in Nat, sample_send_process' \in Nat,
         sample_send_process' <= sample_send_process
  PROVE  OneReport'
<1>1. SAMPLE_INFO_ARRAY_MAX \in Nat
  BY UplinkAssumption
<1>2. Claiming' = Claiming
  BY DEF Claiming
<1>3. QED
  BY <1>1, <1>2 DEF OneReport

\* A reporter that has no entry, before and after its step, leaves the order.
LEMMA ReporterFrame ==
  ASSUME RingOrder, NEW r \in Reporters, \A q \in Reporters \ {r} : reports'[q] = reports[q],
         reports[r].at \notin {"wrap", "post"}, reports'[r].at \notin {"address", "wrap", "post"},
         UNCHANGED <<ring, sending["net"], box["net"]>>
  PROVE  RingOrder'
<1>1. Addressed' = Addressed
  BY DEF Addressed
<1>2. Taken' = Taken /\ Cursor' = Cursor /\ Queue("sample")' = Queue("sample")
  BY <1>1 DEF Taken, Cursor, ring, Queue, InBox
<1>3. \A q \in Reporters :
        /\ reports'[q].at = "address" => sample_info_array'[sample_info_array_index'] = reports'[q].id
        /\ q \in Addressed' => Kept(reports'[q], sample_info_array', Cursor', 1)
  <2> SUFFICES ASSUME NEW q \in Reporters
               PROVE  /\ reports'[q].at = "address"
                           => sample_info_array'[sample_info_array_index'] = reports'[q].id
                      /\ q \in Addressed' => Kept(reports'[q], sample_info_array', Cursor', 1)
    OBVIOUS
  <2>1. CASE q = r
    BY <2>1 DEF Addressed
  <2>2. CASE q # r
    <3>1. reports'[q] = reports[q] /\ UNCHANGED <<sample_info_array, sample_info_array_index>>
      BY <2>2 DEF ring
    <3>2. QED
      BY <1>1, <1>2, <3>1 DEF RingOrder
  <2>3. QED
    BY <2>1, <2>2
<1>4. UNCHANGED <<sample_info_array, box["net"], sending["net"]>>
  BY DEF ring
<1>5. QED
  BY <1>2, <1>3, <1>4 DEF RingOrder

\* At the start the ring is not in use.
LEMMA RingStarts == Init => RingInv
<1> SUFFICES ASSUME Init PROVE RingInv
  OBVIOUS
<1>1. /\ box = [b \in Mailboxes |-> <<>>] /\ sample_send_process = 0
      /\ sample_info_array_index = 0
      /\ sending = [b \in {"net", "ui"} |-> Nothing]
      /\ reports = [r \in Reporters |-> [at |-> "idle", id |-> 0, ref |-> 0]]
  BY DEF Init, CreateFactories, UplinkInit
<1>2. DOMAIN box["net"] = {}
  BY <1>1, BoxNames
<1>3. Queue("sample") = 0
  <2>1. InBox("net", {"sample"}) = {}
    BY <1>2 DEF InBox
  <2>2. QED
    BY <2>1, FS_EmptySet DEF Queue
<1>4. SamplesFirst
  BY <1>2 DEF SamplesFirst
<1>5. OneReport
  BY <1>1, UplinkAssumption DEF OneReport, Claiming
<1>6. RingOrder
  BY <1>1, <1>3 DEF RingOrder, Addressed, Nothing, Message
<1>7. QED
  BY <1>4, <1>5, <1>6 DEF RingInv

\* An entry is written again only when its sample has been sent.
LEMMA RingKept ==
  ASSUME Typed, Typed', MessagesPlaced, ClaimInv, RingInv, NetMoves PROVE RingInv'
<1> USE DEF poolVars, conns, claims, ring, image, ghosts
<1> DEFINE n == Queue("sample")
           M == SAMPLE_INFO_ARRAY_MAX
<1>a. /\ Boxes /\ Boxes' /\ ReportTypes /\ ReportTypes' /\ MailTypes /\ MailTypes'
  BY DEF Typed, MailTypes
<1>b. /\ n \in Nat /\ Taken \in {0, 1} /\ Sends("sample") \in {0, 1}
      /\ sample_send_process \in Nat /\ sample_send_process' \in Nat
      /\ sample_info_array_index \in 0 .. M /\ sample_info_array_index' \in 0 .. M
      /\ M \in Nat \ {0} /\ DOMAIN sending = {"net", "ui"} /\ DOMAIN reports = Reporters
      /\ DOMAIN sample_info_array = 0 .. M
  BY <1>a, SampleTypes, UplinkAssumption DEF ReportTypes, MailTypes
<1>c. SamplesFirst /\ ClaimPlaced
  BY <1>a, ClaimsPlaced DEF RingInv
<1>d. ~overlap => OneReport /\ RingOrder
  BY DEF RingInv
<1>e. SUFFICES SamplesFirst' /\ (~overlap' => OneReport' /\ RingOrder')
  BY DEF RingInv
<1>1. ASSUME NEW r \in Reporters, SampleCheck(r)
      PROVE  SamplesFirst' /\ (~overlap' => OneReport' /\ RingOrder')
  <2>1. /\ UNCHANGED <<box, sending, claims, ring>> /\ reports[r].at = "idle"
        /\ \/ UNCHANGED <<reports, overlap>>
           \/ /\ reports' = [reports EXCEPT ![r] = [at |-> "claim", id |-> samples + 1, ref |-> 0]]
              /\ overlap' = (overlap \/ \E q \in Reporters \ {r} : reports[q].at # "idle")
              /\ g_sample_ability
    BY <1>1 DEF SampleCheck
  <2>2. SamplesFirst' /\ Queue("sample")' = Queue("sample")
    BY <1>c, <2>1, SamplesSame
  <2>3. CASE UNCHANGED <<reports, overlap>>
    BY <1>b, <1>d, <2>1, <2>2, <2>3, RingFrame, OneFrame
  <2>4. ASSUME reports' = [reports EXCEPT ![r] = [at |-> "claim", id |-> samples + 1, ref |-> 0]],
               overlap' = (overlap \/ \E q \in Reporters \ {r} : reports[q].at # "idle"),
               g_sample_ability, ~overlap'
        PROVE  OneReport' /\ RingOrder'
    <3>1. OneReport /\ RingOrder /\ \A q \in Reporters \ {r} : reports[q].at = "idle"
      BY <1>d, <2>4
    <3>2. reports'[r].at = "claim" /\ \A q \in Reporters \ {r} : reports'[q] = reports[q]
      BY <1>b, <2>4
    <3>3. RingOrder'
      BY <2>1, <3>1, <3>2, ReporterFrame
    <3>4. sample_send_process < SAMPLE_INFO_ARRAY_MAX
      BY <1>c, <2>4 DEF ClaimPlaced
    <3>5. sample_info_array_index < SAMPLE_INFO_ARRAY_MAX
      BY <2>1, <3>1 DEF OneReport
    <3>6. OneReport'
      BY <2>1, <3>1, <3>2, <3>4, <3>5 DEF OneReport
    <3>7. QED
      BY <3>3, <3>6
  <2>5. QED
    BY <2>1, <2>2, <2>3, <2>4
<1>2. ASSUME NEW r \in Reporters, reports[r].at # "idle", ~overlap
      PROVE  OneReport /\ RingOrder /\ \A q \in Reporters \ {r} : reports[q].at = "idle"
  BY <1>2, <1>d DEF OneReport
<1>3. ASSUME NEW r \in Reporters, SampleClaim(r)
      PROVE  SamplesFirst' /\ (~overlap' => OneReport' /\ RingOrder')
  <2>1. /\ UNCHANGED <<box, sending, ring, overlap>> /\ reports[r].at = "claim"
        /\ reports'[r].at = "produce" /\ \A q \in Reporters \ {r} : reports'[q] = reports[q]
        /\ sample_send_process' = sample_send_process + 1
    BY <1>3, <1>a, <1>b DEF SampleClaim, Goes, ReportTypes
  <2>2. SamplesFirst'
    BY <1>c, <2>1, SamplesSame
  <2>3. ASSUME ~overlap PROVE OneReport' /\ RingOrder'
    <3>1. OneReport /\ RingOrder /\ \A q \in Reporters \ {r} : reports[q].at = "idle"
      BY <1>2, <2>1, <2>3
    <3>2. RingOrder'
      BY <2>1, <3>1, ReporterFrame
    <3>3. sample_send_process < SAMPLE_INFO_ARRAY_MAX /\ sample_info_array_index < SAMPLE_INFO_ARRAY_MAX
      <4>1. r \in Claiming
        BY <2>1 DEF Claiming
      <4>2. \A q \in Reporters : reports[q].at # "wrap"
        BY <2>1, <3>1
      <4>3. QED
        BY <3>1, <4>1, <4>2 DEF OneReport
    <3>4. Claiming' = {}
      BY <2>1, <3>1 DEF Claiming
    <3>5. sample_send_process' <= SAMPLE_INFO_ARRAY_MAX
      BY <1>b, <2>1, <3>3
    <3>6. OneReport'
      BY <2>1, <3>1, <3>3, <3>4, <3>5 DEF OneReport
    <3>7. QED
      BY <3>2, <3>6
  <2>4. QED
    BY <2>1, <2>2, <2>3
<1>4. ASSUME NEW r \in Reporters, SampleProduce(r)
      PROVE  SamplesFirst' /\ (~overlap' => OneReport' /\ RingOrder')
  <2>1. /\ UNCHANGED <<box, sending, ring, overlap, claims>> /\ reports[r].at = "produce"
        /\ reports'[r].at \in {"idle", "copy"} /\ \A q \in Reporters \ {r} : reports'[q] = reports[q]
    BY <1>4, <1>a, <1>b, SMTT(30) DEF SampleProduce, Goes, ReportTypes
  <2>2. SamplesFirst'
    BY <1>c, <2>1, SamplesSame
  <2>3. ASSUME ~overlap PROVE OneReport' /\ RingOrder'
    <3>1. OneReport /\ RingOrder /\ \A q \in Reporters \ {r} : reports[q].at = "idle"
      BY <1>2, <2>1, <2>3
    <3>2. RingOrder'
      BY <2>1, <3>1, ReporterFrame
    <3>3. Claiming' = {} /\ \A q \in Reporters : reports[q].at # "wrap"
      BY <2>1, <3>1 DEF Claiming
    <3>4. OneReport'
      BY <2>1, <3>1, <3>3 DEF OneReport
    <3>5. QED
      BY <3>2, <3>4
  <2>4. QED
    BY <2>1, <2>2, <2>3
<1>5. ASSUME NEW r \in Reporters, SampleCopy(r)
      PROVE  SamplesFirst' /\ (~overlap' => OneReport' /\ RingOrder')
  <2>1. /\ UNCHANGED <<box, sending, sample_info_array_index, overlap, claims>> /\ reports[r].at = "copy"
        /\ reports'[r].at = "address" /\ reports'[r].id = reports[r].id
        /\ \A q \in Reporters \ {r} : reports'[q] = reports[q]
    BY <1>5, <1>a, <1>b DEF SampleCopy, Goes, ReportTypes
  <2>2. SamplesFirst' /\ Queue("sample")' = Queue("sample")
    BY <1>c, <2>1, SamplesSame
  <2>3. ASSUME ~overlap PROVE OneReport' /\ RingOrder'
    <3>1. OneReport /\ RingOrder /\ \A q \in Reporters \ {r} : reports[q].at = "idle"
      BY <1>2, <2>1, <2>3
    <3>2. /\ Addressed = {}
          /\ \A i \in 1 .. Queue("sample") : box["net"][i].ref # sample_info_array_index
          /\ sending["net"].kind = "sample" => sending["net"].ref # sample_info_array_index
      BY <2>1, <3>1, RoomInRing
    <3>3. /\ sample_info_array'[sample_info_array_index] = reports[r].id
          /\ \A e : e \in DOMAIN sample_info_array /\ e # sample_info_array_index
                      => sample_info_array'[e] = sample_info_array[e]
      BY <1>5, <1>b DEF SampleCopy
    <3>4. Addressed' = {} /\ Taken' = Taken /\ Cursor' = Cursor
      BY <2>1, <3>1, <3>2 DEF Addressed, Taken, Cursor
    <3>5. ASSUME NEW m, m.ref \in Nat, m.ref # sample_info_array_index,
                 NEW age, Kept(m, sample_info_array, Cursor, age)
          PROVE  Kept(m, sample_info_array', Cursor', age)
      BY <3>3, <3>4, <3>5, <1>b DEF Kept
    <3>6. \A i \in 1 .. n :
            Kept(box["net"][i], sample_info_array', Cursor', n - i + 1 + Taken)
      <4> HIDE DEF n
      <4> SUFFICES ASSUME NEW i \in 1 .. n
                   PROVE  Kept(box["net"][i], sample_info_array', Cursor', n - i + 1 + Taken)
        OBVIOUS
      <4>1. box["net"][i].ref \in Nat
        BY SampleTypes DEF n
      <4>2. Kept(box["net"][i], sample_info_array, Cursor, n - i + 1 + Taken)
        BY <3>1 DEF RingOrder, n
      <4>3. QED
        BY <3>2, <3>5, <4>1, <4>2 DEF n
    <3>7. sending["net"].kind = "sample" =>
            Kept(sending["net"], sample_info_array', Cursor', n + 1 + Taken)
      <4>1. sending["net"].ref \in Nat
        BY SampleTypes
      <4>2. QED
        BY <3>1, <3>2, <3>5, <4>1 DEF RingOrder
    <3>8. \A q \in Reporters : reports'[q].at = "address" => q = r
      BY <2>1, <3>1
    <3>9. RingOrder'
      BY <2>1, <2>2, <3>3, <3>4, <3>6, <3>7, <3>8 DEF RingOrder
    <3>10. Claiming' = {} /\ \A q \in Reporters : reports[q].at # "wrap"
      BY <2>1, <3>1 DEF Claiming
    <3>11. OneReport'
      BY <2>1, <3>1, <3>10 DEF OneReport
    <3>12. QED
      BY <3>9, <3>11
  <2>4. QED
    BY <2>1, <2>2, <2>3
<1>6. ASSUME NEW r \in Reporters, SampleAddress(r)
      PROVE  SamplesFirst' /\ (~overlap' => OneReport' /\ RingOrder')
  <2>1. /\ UNCHANGED <<box, sending, sample_info_array, overlap, claims>> /\ reports[r].at = "address"
        /\ reports'[r].at = "wrap" /\ reports'[r].id = reports[r].id
        /\ reports'[r].ref = sample_info_array_index
        /\ \A q \in Reporters \ {r} : reports'[q] = reports[q]
    <3>1. reports' = [reports EXCEPT ![r] = [reports[r] EXCEPT !.at = "wrap", !.ref = sample_info_array_index]]
      BY <1>6, <1>b DEF SampleAddress
    <3>2. reports'[r] = [reports[r] EXCEPT !.at = "wrap", !.ref = sample_info_array_index]
      BY <3>1, <1>b
    <3>3. reports[r] \in [at : {"idle", "claim", "produce", "copy", "address", "wrap", "post"},
                          id : 0 .. MaxSamples, ref : 0 .. SAMPLE_INFO_ARRAY_MAX]
      BY <1>a DEF ReportTypes
    <3>4. QED
      BY <1>6, <1>b, <3>1, <3>2, <3>3 DEF SampleAddress
  <2>2. SamplesFirst' /\ Queue("sample")' = Queue("sample")
    BY <1>c, <2>1, SamplesSame
  <2>3. ASSUME ~overlap PROVE OneReport' /\ RingOrder'
    <3>1. OneReport /\ RingOrder /\ \A q \in Reporters \ {r} : reports[q].at = "idle"
      BY <1>2, <2>1, <2>3
    <3>2. /\ Addressed = {} /\ sample_info_array_index \in 0 .. M - 1
          /\ Cursor = sample_info_array_index
          /\ \A i \in 1 .. Queue("sample") : box["net"][i].ref # sample_info_array_index
          /\ sending["net"].kind = "sample" => sending["net"].ref # sample_info_array_index
      BY <2>1, <3>1, RoomInRing
    <3>3. Addressed' = {r} /\ Taken = 0 /\ Taken' = 1
      BY <2>1, <3>1, <3>2 DEF Addressed, Taken
    <3>4. sample_info_array_index' = sample_info_array_index + 1
      BY <1>6, <3>2, <1>b DEF SampleAddress
    <3>5. Cursor' = IF Cursor + 1 = M THEN 0 ELSE Cursor + 1
      BY <3>2, <3>4 DEF Cursor
    <3>6. /\ Age(Cursor', Cursor) = 1
          /\ \A e \in 0 .. M - 1 : e # Cursor => Age(Cursor', e) = Age(Cursor, e) + 1
      BY <3>2, <3>5, AgesMove
    <3>7. ASSUME NEW m, m.ref \in Nat, m.ref # sample_info_array_index,
                 NEW age \in Nat, Kept(m, sample_info_array, Cursor, age)
          PROVE  Kept(m, sample_info_array', Cursor', age + 1)
      <4>1. m.ref \in 0 .. M - 1 /\ sample_info_array[m.ref] = m.id /\ Age(Cursor, m.ref) = age
        BY <3>7, <1>b DEF Kept
      <4>2. Age(Cursor', m.ref) = age + 1
        BY <3>2, <3>6, <3>7, <4>1
      <4>3. m.ref < SAMPLE_INFO_ARRAY_MAX /\ sample_info_array' = sample_info_array
        BY <3>7, <2>1 DEF Kept
      <4>4. QED
        BY <4>1, <4>2, <4>3 DEF Kept
    <3>8. \A i \in 1 .. n :
            Kept(box["net"][i], sample_info_array', Cursor', n - i + 1 + Taken')
      <4> HIDE DEF n
      <4> SUFFICES ASSUME NEW i \in 1 .. n
                   PROVE  Kept(box["net"][i], sample_info_array', Cursor', n - i + 1 + Taken')
        OBVIOUS
      <4>1. box["net"][i].ref \in Nat /\ n - i + 1 + Taken \in Nat
            /\ n - i + 1 + Taken' = n - i + 1 + Taken + 1
        BY <1>b, <3>3, SampleTypes DEF n
      <4>2. Kept(box["net"][i], sample_info_array, Cursor, n - i + 1 + Taken)
        BY <3>1 DEF RingOrder, n
      <4>3. QED
        BY <3>2, <3>7, <4>1, <4>2 DEF n
    <3>9. sending["net"].kind = "sample" =>
            Kept(sending["net"], sample_info_array', Cursor', n + 1 + Taken')
      <4>1. sending["net"].ref \in Nat /\ n + 1 + Taken \in Nat
            /\ n + 1 + Taken' = n + 1 + Taken + 1
        BY <1>b, <3>3, SampleTypes
      <4>2. QED
        BY <3>1, <3>2, <3>7, <4>1 DEF RingOrder
    <3>10. Kept(reports'[r], sample_info_array', Cursor', 1)
      <4>1. sample_info_array[sample_info_array_index] = reports[r].id
        BY <2>1, <3>1 DEF RingOrder
      <4>2. QED
        BY <1>b, <2>1, <3>2, <3>6, <4>1 DEF Kept
    <3>11. \A q \in Reporters : reports'[q].at # "address"
      BY <2>1, <3>1
    <3>12. RingOrder'
      BY <2>1, <2>2, <3>3, <3>8, <3>9, <3>10, <3>11 DEF RingOrder
    <3>13. Claiming' = {}
      BY <2>1, <3>1 DEF Claiming
    <3>14. OneReport'
      BY <2>1, <3>1, <3>13 DEF OneReport
    <3>15. QED
      BY <3>12, <3>14
  <2>4. QED
    BY <2>1, <2>2, <2>3
<1>7. ASSUME NEW r \in Reporters, SampleWrap(r)
      PROVE  SamplesFirst' /\ (~overlap' => OneReport' /\ RingOrder')
  <2>1. /\ UNCHANGED <<box, sending, sample_info_array, overlap, claims>> /\ reports[r].at = "wrap"
        /\ reports'[r].at = "post" /\ reports'[r].id = reports[r].id /\ reports'[r].ref = reports[r].ref
        /\ \A q \in Reporters \ {r} : reports'[q] = reports[q]
        /\ sample_info_array_index' = IF sample_info_array_index >= M THEN 0 ELSE sample_info_array_index
    BY <1>7, <1>a, <1>b DEF SampleWrap, Goes, ReportTypes
  <2>2. SamplesFirst' /\ Queue("sample")' = Queue("sample")
    BY <1>c, <2>1, SamplesSame
  <2>3. ASSUME ~overlap PROVE OneReport' /\ RingOrder'
    <3>1. OneReport /\ RingOrder /\ \A q \in Reporters \ {r} : reports[q].at = "idle"
      BY <1>2, <2>1, <2>3
    <3>2. sample_info_array_index' < SAMPLE_INFO_ARRAY_MAX /\ Cursor' = Cursor
      BY <1>b, <2>1 DEF Cursor
    <3>3. Addressed' = Addressed /\ Taken' = Taken /\ r \in Addressed
      BY <2>1 DEF Addressed, Taken
    <3>4. \A q \in Reporters : reports'[q].at # "address" /\ (q \in Addressed' => q = r)
      BY <2>1, <3>1 DEF Addressed
    <3>5. Kept(reports'[r], sample_info_array', Cursor', 1)
      <4>1. Kept(reports[r], sample_info_array, Cursor, 1)
        BY <3>1, <3>3 DEF RingOrder
      <4>2. QED
        BY <2>1, <3>2, <4>1 DEF Kept
    <3>6. RingOrder'
      BY <2>1, <2>2, <3>1, <3>2, <3>3, <3>4, <3>5 DEF RingOrder
    <3>7. Claiming' = {}
      BY <2>1, <3>1 DEF Claiming
    <3>8. OneReport'
      BY <2>1, <3>1, <3>2, <3>7 DEF OneReport
    <3>9. QED
      BY <3>6, <3>8
  <2>4. QED
    BY <2>1, <2>2, <2>3
<1>8. ASSUME NEW r \in Reporters, SamplePost(r)
      PROVE  SamplesFirst' /\ (~overlap' => OneReport' /\ RingOrder')
  <2> DEFINE m == Message("sample", 5, reports[r].ref, reports[r].id)
  <2>1. /\ UNCHANGED <<sending, ring, overlap, claims>> /\ reports[r].at = "post"
        /\ reports'[r].at = "idle" /\ \A q \in Reporters \ {r} : reports'[q] = reports[q]
        /\ Queued("net", m)
    <3>1. Queued("net", m) /\ UNCHANGED claims
      BY <1>8, PostsQueue
    <3>2. UNCHANGED <<sending, ring, overlap>> /\ reports[r].at = "post" /\ Goes(r, "idle")
      BY <1>8 DEF SamplePost
    <3>3. reports'[r].at = "idle" /\ \A q \in Reporters \ {r} : reports'[q] = reports[q]
      BY <1>a, <3>2 DEF Goes, ReportTypes
    <3>4. QED
      BY <3>1, <3>2, <3>3
  <2>2. m \in NetMessages /\ m.kind = "sample" /\ m.ref = reports[r].ref /\ m.id = reports[r].id
    <3>1. reports[r].ref \in Nat /\ reports[r].id \in Nat
      BY SampleTypes
    <3>2. QED
      BY <3>1 DEF Message, NetMessages
  <2> HIDE DEF m
  <2>3. /\ SamplesFirst' /\ Queue("sample")' = Queue("sample") + 1
        /\ \A i \in 1 .. Queue("sample") : box'["net"][i] = box["net"][i]
        /\ box'["net"][Queue("sample") + 1] = m
    BY <1>a, <1>c, <2>1, <2>2, SampleQueued
  <2>4. ASSUME ~overlap PROVE OneReport' /\ RingOrder'
    <3>1. OneReport /\ RingOrder /\ \A q \in Reporters \ {r} : reports[q].at = "idle"
      BY <1>2, <2>1, <2>4
    <3>2. /\ Addressed' = {} /\ r \in Addressed /\ Taken = 1 /\ Taken' = 0 /\ Cursor' = Cursor
          /\ UNCHANGED sample_info_array
      BY <2>1, <3>1 DEF Addressed, Taken, Cursor
    <3>3. Kept(m, sample_info_array, Cursor, 1)
      <4>1. Kept(reports[r], sample_info_array, Cursor, 1)
        BY <3>1, <3>2 DEF RingOrder
      <4>2. QED
        BY <2>2, <4>1 DEF Kept
    <3>4. \A i \in 1 .. n + 1 :
            Kept(box'["net"][i], sample_info_array, Cursor, n + 1 - i + 1 + 0)
      <4> HIDE DEF n
      <4> SUFFICES ASSUME NEW i \in 1 .. n + 1
                   PROVE  Kept(box'["net"][i], sample_info_array, Cursor, n + 1 - i + 1 + 0)
        OBVIOUS
      <4>1. CASE i = n + 1
        <5>1. n + 1 - i + 1 + 0 = 1
          BY <1>b, <4>1
        <5>2. QED
          BY <2>3, <3>3, <4>1, <5>1 DEF n
      <4>2. CASE i # n + 1
        <5>1. i \in 1 .. n /\ n + 1 - i + 1 + 0 = n - i + 1 + Taken
          BY <1>b, <3>2, <4>2
        <5>2. QED
          BY <2>3, <3>1, <5>1 DEF RingOrder, n
      <4>3. QED
        BY <4>1, <4>2
    <3>5. sending["net"].kind = "sample" =>
            Kept(sending["net"], sample_info_array, Cursor, n + 1 + 1 + 0)
      <4>1. n + 1 + 1 + 0 = n + 1 + Taken
        BY <1>b, <3>2
      <4>2. QED
        BY <3>1, <4>1 DEF RingOrder
    <3>6. \A q \in Reporters : reports'[q].at = "idle"
      BY <2>1, <3>1
    <3>7. RingOrder'
      <4>1. \A i \in 1 .. Queue("sample")' :
              Kept(box'["net"][i], sample_info_array', Cursor', Queue("sample")' - i + 1 + Taken')
        <5>1. Queue("sample")' = n + 1 /\ Taken' = 0 /\ Cursor' = Cursor
              /\ sample_info_array' = sample_info_array
          BY <2>3, <3>2
        <5> HIDE DEF n
        <5>2. SUFFICES ASSUME NEW i \in 1 .. n + 1
                       PROVE  Kept(box'["net"][i], sample_info_array', Cursor',
                                   Queue("sample")' - i + 1 + Taken')
          BY <5>1
        <5>3. Queue("sample")' - i + 1 + Taken' = n + 1 - i + 1 + 0
          BY <1>b, <5>1
        <5>4. QED
          BY <3>4, <5>1, <5>3
      <4>2. sending'["net"].kind = "sample" =>
              Kept(sending'["net"], sample_info_array', Cursor', Queue("sample")' + 1 + Taken')
        BY <2>1, <2>3, <3>2, <3>5
      <4>3. \A q \in Reporters :
              /\ reports'[q].at = "address" => sample_info_array'[sample_info_array_index'] = reports'[q].id
              /\ q \in Addressed' => Kept(reports'[q], sample_info_array', Cursor', 1)
        BY <3>2, <3>6
      <4>4. QED
        BY <4>1, <4>2, <4>3 DEF RingOrder
    <3>8. Claiming' = {} /\ \A q \in Reporters : reports[q].at # "wrap"
      BY <2>1, <3>1, <3>6 DEF Claiming
    <3>9. OneReport'
      BY <2>1, <3>1, <3>6, <3>8 DEF OneReport
    <3>10. QED
      BY <3>7, <3>9
  <2>5. QED
    BY <2>1, <2>3, <2>4
<1>9. ASSUME UNCHANGED <<ring, reports, sending["net"], overlap, claims>>, UNCHANGED box["net"]
      PROVE  SamplesFirst' /\ (~overlap' => OneReport' /\ RingOrder')
  <2>1. SamplesFirst' /\ Queue("sample")' = Queue("sample")
    BY <1>c, <1>9, SamplesSame
  <2>2. QED
    BY <1>b, <1>d, <1>9, <2>1, RingFrame, OneFrame
<1>10. ASSUME UNCHANGED <<ring, reports, sending["net"], overlap, claims>>,
              NEW m \in NetMessages, m.kind # "sample", Queued("net", m)
      PROVE  SamplesFirst' /\ (~overlap' => OneReport' /\ RingOrder')
  <2>1. /\ SamplesFirst' /\ Queue("sample")' = Queue("sample")
        /\ \A i \in 1 .. Queue("sample") : box'["net"][i] = box["net"][i]
    BY <1>a, <1>c, <1>10, OtherQueued
  <2>2. QED
    BY <1>b, <1>d, <1>10, <2>1, RingFrame, OneFrame
<1>11. CASE PictureCheck \/ PictureClaim \/ PictureProduce \/ PictureCopy
  BY <1>9, <1>11 DEF PictureCheck, PictureClaim, PictureProduce, PictureCopy
<1>12. CASE PicturePost
  <2> DEFINE m == Message("picture", 3, 0, pictures)
  <2>1. Queued("net", m) /\ UNCHANGED <<ring, reports, sending, overlap, claims>>
    BY <1>12, PostsQueue DEF PicturePost
  <2>2. m \in NetMessages /\ m.kind # "sample"
    <3>1. pictures \in Nat
      BY <1>a, UplinkAssumption DEF ReportTypes
    <3>2. QED
      BY <3>1 DEF Message, NetMessages
  <2> HIDE DEF m
  <2>3. QED
    BY <1>10, <2>1, <2>2
<1>13. CASE OtherMove
  <2>1. UNCHANGED <<ring, reports, sending["net"], overlap, claims>>
    BY <1>13 DEF OtherMove
  <2>2. ASSUME NEW m \in NetMessages, m.kind \notin {"sample", "picture"}, Queued("net", m)
        PROVE  SamplesFirst' /\ (~overlap' => OneReport' /\ RingOrder')
    BY <1>10, <2>1, <2>2
  <2>3. QED
    BY <1>9, <1>13, <2>1, <2>2 DEF OtherMove
<1>14. CASE SenderPends("net")
  <2>1. /\ sending["net"] = Nothing /\ sending'["net"] = Head(box["net"])
        /\ UNCHANGED <<ring, reports, overlap, claims>>
    BY <1>14, <1>b DEF SenderPends
  <2>2. /\ SamplesFirst' /\ Queue("sample")' \in Nat
        /\ \A i \in 1 .. Queue("sample")' : box'["net"][i] = box["net"][i + 1]
        /\ Head(box["net"]) = box["net"][1]
        /\ IF Head(box["net"]).kind = "sample" THEN Queue("sample") = Queue("sample")' + 1
           ELSE Queue("sample") = 0 /\ Queue("sample")' = 0
    BY <1>14, <1>a, <1>c, SampleReceived DEF SenderPends
  <2>3. ASSUME ~overlap PROVE OneReport' /\ RingOrder'
    <3>1. OneReport /\ RingOrder
      BY <1>d, <2>3
    <3>2. OneReport'
      BY <1>b, <2>1, <3>1, OneFrame
    <3>3. Addressed' = Addressed /\ Taken' = Taken /\ Cursor' = Cursor
      BY <2>1 DEF Addressed, Taken, Cursor
    <3> PICK k \in Nat : n' = k
      BY <2>2
    <3>4. \A i \in 1 .. k : Kept(box'["net"][i], sample_info_array, Cursor, k - i + 1 + Taken)
      <4> SUFFICES ASSUME NEW i \in 1 .. k
                   PROVE  Kept(box'["net"][i], sample_info_array, Cursor, k - i + 1 + Taken)
        OBVIOUS
      <4>1. n = k + 1
        BY <2>2
      <4>2. box'["net"][i] = box["net"][i + 1]
        BY <2>2
      <4> HIDE DEF n
      <4>3. i + 1 \in 1 .. n /\ k - i + 1 + Taken = n - (i + 1) + 1 + Taken
        BY <1>b, <4>1
      <4>4. Kept(box["net"][i + 1], sample_info_array, Cursor, n - (i + 1) + 1 + Taken)
        BY <3>1, <4>3 DEF RingOrder, n
      <4>5. QED
        BY <4>2, <4>3, <4>4
    <3>5. sending'["net"].kind = "sample" =>
            Kept(sending'["net"], sample_info_array, Cursor, k + 1 + Taken)
      <4> SUFFICES ASSUME sending'["net"].kind = "sample"
                   PROVE  Kept(sending'["net"], sample_info_array, Cursor, k + 1 + Taken)
        OBVIOUS
      <4>1. n = k + 1 /\ sending'["net"] = box["net"][1]
        BY <2>1, <2>2
      <4> HIDE DEF n
      <4>2. 1 \in 1 .. n /\ k + 1 + Taken = n - 1 + 1 + Taken
        BY <1>b, <4>1
      <4>3. Kept(box["net"][1], sample_info_array, Cursor, n - 1 + 1 + Taken)
        BY <3>1, <4>2 DEF RingOrder, n
      <4>4. QED
        BY <4>1, <4>2, <4>3
    <3>6. RingOrder'
      BY <2>1, <3>1, <3>3, <3>4, <3>5 DEF RingOrder
    <3>7. QED
      BY <3>2, <3>6
  <2>4. QED
    BY <2>1, <2>2, <2>3
<1>15. CASE SenderRecycles("net")
  <2>1. /\ Finish(sending["net"]) /\ UNCHANGED <<box, ring, reports, overlap>>
        /\ sending'["net"] = Nothing
    BY <1>15, <1>b DEF SenderRecycles
  <2>2. SamplesFirst' /\ Queue("sample")' = Queue("sample")
    BY <1>c, <2>1, SamplesSame
  <2>3. sample_send_process' <= sample_send_process
    BY <1>b, <2>1 DEF Finish, allow_send_sample
  <2>4. ASSUME ~overlap PROVE OneReport' /\ RingOrder'
    <3>1. OneReport /\ RingOrder
      BY <1>d, <2>4
    <3>2. OneReport'
      BY <1>b, <2>1, <2>3, <3>1, OneFrame
    <3>3. Addressed' = Addressed /\ Taken' = Taken /\ Cursor' = Cursor
      BY <2>1 DEF Addressed, Taken, Cursor
    <3>4. sending'["net"].kind # "sample"
      BY <2>1 DEF Nothing, Message
    <3>5. RingOrder'
      BY <2>1, <2>2, <3>1, <3>3, <3>4 DEF RingOrder
    <3>6. QED
      BY <3>2, <3>5
  <2>5. QED
    BY <2>1, <2>2, <2>4
<1>16. QED
  BY <1>1, <1>3, <1>4, <1>5, <1>6, <1>7, <1>8, <1>11, <1>12, <1>13, <1>14, <1>15
     DEF NetMoves, ReportStep, PictureStep

-----------------------------------------------------------------------------
(* the invariant of the reports *)

\* All parts hold at the start.
LEMMA UplinkStarting == Init => UplinkInv
BY PoolStarting, ClaimStarts, PictureStarts, RingStarts DEF UplinkInv

\* And each part is kept, by the lemma of its name.
LEMMA UplinkKept == UplinkInv /\ [Next]_vars => UplinkInv'
<1> SUFFICES ASSUME UplinkInv, [Next]_vars PROVE UplinkInv'
  OBVIOUS
<1>1. PoolInv /\ PoolInv'
  BY PoolKept DEF UplinkInv
<1>2. Typed /\ MessagesPlaced
  BY <1>1, PoolInvTyped
<1>3. Typed'
  <2>1. (PoolInv <=> RejectInv /\ Typed /\ MessagesPlaced /\ BuffersAccounted)'
    BY PoolInvTyped, PTL
  <2>2. QED
    BY <1>1, <2>1
<1>4. NetMoves
  BY <1>2, EachSystemMove, EachNetMove
<1>5. ClaimInv' /\ PictureInv' /\ RingInv'
  BY <1>2, <1>3, <1>4, ClaimKept, PictureKept, RingKept DEF UplinkInv
<1>6. QED
  BY <1>1, <1>5 DEF UplinkInv

\* The reports and pictures keep their invariant for any number of reporters and of
\* entries of the ring.
THEOREM UplinkInvariant == Spec => []UplinkInv
BY UplinkStarting, UplinkKept, PTL DEF Spec

\* sample_send_process counts every report from its claim to the release of its
\* message, and the ability to report agrees with it (NET_UL(0x45530101) and
\* allow_send_sample).
THEOREM ReportsAreCounted == Spec => []ClaimsExact
<1>1. UplinkInv => ClaimsExact
  BY DEF UplinkInv, ClaimInv
<1>2. QED
  BY <1>1, UplinkInvariant, PTL

\* What is on its way to the PC is what was reported: the picture buffer is not
\* written while its message is out, nor, as long as no two threads report at once,
\* an entry of the ring of samples (get_sample_info_array, allow_send_image).
THEOREM ReportsAreIntact == Spec => []UploadsIntact
<1>1. UplinkInv => UploadsIntact
  <2> SUFFICES ASSUME UplinkInv, NEW m \in OnTheWay
               PROVE  /\ m.kind = "sample" /\ ~overlap =>
                           m.ref < SAMPLE_INFO_ARRAY_MAX /\ sample_info_array[m.ref] = m.id
                      /\ m.kind = "picture" => g_net_send_img_buf = m.id
    BY DEF UploadsIntact
  <2>1. m.kind = "picture" => g_net_send_img_buf = m.id
    BY DEF UplinkInv, PictureInv
  <2>2. ASSUME m.kind = "sample", ~overlap
        PROVE  m.ref < SAMPLE_INFO_ARRAY_MAX /\ sample_info_array[m.ref] = m.id
    <3>1. SamplesFirst /\ RingOrder
      BY <2>2 DEF UplinkInv, RingInv
    <3>2. CASE m = sending["net"]
      BY <2>2, <3>1, <3>2 DEF RingOrder, Kept
    <3>3. CASE \E i \in DOMAIN box["net"] : m = box["net"][i]
      <4>1. PICK i \in DOMAIN box["net"] : m = box["net"][i]
        BY <3>3
      <4>2. i <= Queue("sample")
        BY <2>2, <3>1, <4>1 DEF SamplesFirst
      <4>3. i \in 1 .. Queue("sample")
        <5>1. box["net"] \in Seq(NetMessages) /\ Boxes
          BY DEF UplinkInv, PoolInv, MailTypes, Boxes
        <5>2. i \in Nat /\ i >= 1 /\ Queue("sample") \in Nat
          BY <4>1, <5>1, QueueCounts
        <5>3. QED
          BY <4>2, <5>2
      <4>4. QED
        BY <3>1, <4>1, <4>3 DEF RingOrder, Kept
    <3>4. QED
      BY <3>2, <3>3 DEF OnTheWay
  <2>3. QED
    BY <2>1, <2>2
<1>2. QED
  BY <1>1, UplinkInvariant, PTL

-----------------------------------------------------------------------------
(* the order of the reports *)

\* The first k messages of q have rising numbers, behind that of a sample s that
\* is being sent; all of them are less than id.
Ascending(q, k, s) ==
  /\ \A i, j \in 1 .. k : i < j => q[i].id < q[j].id
  /\ s.kind = "sample" => \A i \in 1 .. k : s.id < q[i].id
Older(q, k, s, id) ==
  /\ \A i \in 1 .. k : q[i].id < id
  /\ s.kind = "sample" => s.id < id

\* Samples on their way are in the order of their numbers, and older than those
\* still being reported.
SamplesRise ==
  /\ Ascending(box["net"], Queue("sample"), sending["net"])
  /\ Older(box["net"], Queue("sample"), sending["net"], samples + 1)
  /\ \A r \in Reporters :
       reports[r].at # "idle" =>
         /\ reports[r].id <= samples
         /\ Older(box["net"], Queue("sample"), sending["net"], reports[r].id)

OrderInv == UplinkInv /\ (~overlap => SamplesRise)

\* The PC is sent the samples in the order in which they were taken, as long as no
\* two threads report at once: no sample that waits is older than one before it, or
\* than the one net_send_tsk has in hand.
SamplesInOrder ==
  ~overlap =>
    \A i \in InBox("net", {"sample"}) :
      /\ \A j \in InBox("net", {"sample"}) : i < j => box["net"][i].id < box["net"][j].id
      /\ sending["net"].kind = "sample" => sending["net"].id < box["net"][i].id

\* Only the samples of a queue matter.
LEMMA OrderSame ==
  ASSUME NEW q, NEW p, NEW k \in Nat, NEW s, \A i \in 1 .. k : p[i] = q[i]
  PROVE  /\ Ascending(q, k, s) => Ascending(p, k, s)
         /\ \A id : Older(q, k, s, id) => Older(p, k, s, id)
BY DEF Ascending, Older

\* A number above one that all samples are below.
LEMMA OlderGrows ==
  ASSUME NEW q, NEW k \in Nat, NEW s, NEW a \in Nat, NEW b \in Nat, a <= b,
         \A i \in 1 .. k : q[i].id \in Nat, s.id \in Nat, Older(q, k, s, a)
  PROVE  Older(q, k, s, b)
BY DEF Older

\* A newer sample at the end.
LEMMA OrderAppended ==
  ASSUME NEW q, NEW p, NEW k \in Nat, NEW s, \A i \in 1 .. k : p[i] = q[i] /\ q[i].id \in Nat,
         s.id \in Nat, p[k + 1].id \in Nat, Ascending(q, k, s), Older(q, k, s, p[k + 1].id)
  PROVE  /\ Ascending(p, k + 1, s)
         /\ \A id \in Nat : p[k + 1].id < id => Older(p, k + 1, s, id)
<1>1. \A i \in 1 .. k + 1 : i \in 1 .. k \/ i = k + 1
  OBVIOUS
<1>2. \A i, j \in 1 .. k + 1 : i < j => p[i].id < p[j].id
  BY <1>1 DEF Ascending, Older
<1>3. s.kind = "sample" => \A i \in 1 .. k + 1 : s.id < p[i].id
  BY <1>1 DEF Ascending, Older
<1>4. ASSUME NEW id \in Nat, p[k + 1].id < id PROVE Older(p, k + 1, s, id)
  BY <1>1, <1>4 DEF Older
<1>5. QED
  BY <1>2, <1>3, <1>4 DEF Ascending

\* The first sample is taken for sending.
LEMMA OrderTaken ==
  ASSUME NEW q, NEW p, NEW k \in Nat, NEW s, \A i \in 1 .. k : p[i] = q[i + 1],
         Ascending(q, k + 1, s)
  PROVE  /\ Ascending(p, k, q[1])
         /\ \A id : Older(q, k + 1, s, id) => Older(p, k, q[1], id)
<1>1. \A i \in 1 .. k : i + 1 \in 1 .. k + 1 /\ 1 < i + 1
  OBVIOUS
<1>2. 1 \in 1 .. k + 1
  OBVIOUS
<1>3. \A i, j \in 1 .. k : i < j => i + 1 < j + 1
  OBVIOUS
<1>4. Ascending(p, k, q[1])
  BY <1>1, <1>2, <1>3 DEF Ascending
<1>5. ASSUME NEW id, Older(q, k + 1, s, id) PROVE Older(p, k, q[1], id)
  BY <1>1, <1>2, <1>5 DEF Older
<1>6. QED
  BY <1>4, <1>5

\* Without samples everything is in order, but for the one that is sent.
LEMMA OrderEmpty ==
  ASSUME NEW q, NEW s, s.kind # "sample"
  PROVE  Ascending(q, 0, s) /\ \A id : Older(q, 0, s, id)
BY DEF Ascending, Older

\* The one that is sent may go.
LEMMA OrderSent ==
  ASSUME NEW q, NEW k, NEW s, NEW t, t.kind # "sample"
  PROVE  /\ Ascending(q, k, s) => Ascending(q, k, t)
         /\ \A id : Older(q, k, s, id) => Older(q, k, t, id)
BY DEF Ascending, Older

\* A step that leaves the samples on their way, and at most takes a new one.
LEMMA RiseFrame ==
  ASSUME Typed, SamplesRise, UNCHANGED sending["net"], Queue("sample")' = Queue("sample"),
         \A i \in 1 .. Queue("sample") : box'["net"][i] = box["net"][i],
         \/ samples' = samples
         \/ samples' = samples + 1,
         \A r \in Reporters : reports'[r].at # "idle" =>
           \/ reports[r].at # "idle" /\ reports'[r].id = reports[r].id
           \/ reports'[r].id = samples + 1 /\ samples' = samples + 1
  PROVE  SamplesRise'
<1> DEFINE q == box["net"]
           p == box'["net"]
           k == Queue("sample")
           s == sending["net"]
<1>1. /\ k \in Nat /\ samples \in Nat /\ s.id \in Nat
      /\ \A i \in 1 .. k : q[i].id \in Nat
      /\ \A r \in Reporters : reports[r].id \in Nat
  <2>1. k \in Nat /\ (\A i \in 1 .. k : q[i] \in NetMessages)
        /\ (\A r \in Reporters : reports[r].id \in Nat)
    BY SampleTypes
  <2>2. s \in NetMessages \cup {Nothing} /\ samples \in Nat
    BY UplinkAssumption DEF Typed, MailTypes, ReportTypes
  <2>3. \A m \in NetMessages \cup {Nothing} : m.id \in Nat
    BY DEF NetMessages, Nothing, Message
  <2>4. QED
    BY <2>1, <2>2, <2>3
<1>2. /\ Ascending(q, k, s) /\ Older(q, k, s, samples + 1)
      /\ \A r \in Reporters : reports[r].at # "idle" =>
           reports[r].id <= samples /\ Older(q, k, s, reports[r].id)
  BY DEF SamplesRise
<1>3. sending'["net"] = s /\ Queue("sample")' = k /\ \A i \in 1 .. k : p[i] = q[i]
  OBVIOUS
<1> HIDE DEF q, p, k, s
<1>4. /\ Ascending(p, k, s)
      /\ \A id : Older(q, k, s, id) => Older(p, k, s, id)
  BY <1>1, <1>2, <1>3, OrderSame
<1>5. Older(p, k, s, samples + 1)
  BY <1>2, <1>4
<1>6. Older(p, k, s, samples' + 1)
  <2>1. Older(q, k, s, samples + 1 + 1)
    BY <1>1, <1>2, OlderGrows
  <2>2. Older(p, k, s, samples + 1 + 1)
    BY <1>4, <2>1
  <2>3. QED
    BY <1>5, <2>2
<1>7. \A r \in Reporters : reports'[r].at # "idle" =>
        reports'[r].id <= samples' /\ Older(p, k, s, reports'[r].id)
  <2> SUFFICES ASSUME NEW r \in Reporters, reports'[r].at # "idle"
               PROVE  reports'[r].id <= samples' /\ Older(p, k, s, reports'[r].id)
    OBVIOUS
  <2>1. CASE reports[r].at # "idle" /\ reports'[r].id = reports[r].id
    <3>1. reports[r].id <= samples /\ Older(p, k, s, reports[r].id)
      BY <1>2, <1>4, <2>1
    <3>2. reports[r].id <= samples + 1
      BY <1>1, <3>1
    <3>3. QED
      BY <2>1, <3>1, <3>2
  <2>2. CASE reports'[r].id = samples + 1 /\ samples' = samples + 1
    BY <1>1, <1>5, <2>2
  <2>3. QED
    BY <2>1, <2>2
<1>8. QED
  BY <1>3, <1>4, <1>6, <1>7 DEF SamplesRise, p

\* The samples keep their order: a new one has the last number, and a report ends
\* behind all that were posted before it.
LEMMA RiseKept ==
  ASSUME Typed, Typed', MessagesPlaced, RingInv, ~overlap => SamplesRise, NetMoves
  PROVE  ~overlap' => SamplesRise'
<1> USE DEF poolVars, conns, claims, ring, image, ghosts
<1> DEFINE k == Queue("sample")
           s == sending["net"]
<1>a. /\ Boxes /\ Boxes' /\ ReportTypes /\ MailTypes
      /\ DOMAIN sending = {"net", "ui"} /\ DOMAIN reports = Reporters
  BY DEF Typed, MailTypes, ReportTypes
<1>b. /\ k \in Nat /\ samples \in Nat /\ s.id \in Nat
      /\ \A i \in 1 .. k : box["net"][i].id \in Nat
      /\ \A r \in Reporters : reports[r].id \in Nat
  <2>1. k \in Nat /\ (\A i \in 1 .. k : box["net"][i] \in NetMessages)
        /\ (\A r \in Reporters : reports[r].id \in Nat)
    BY SampleTypes
  <2>2. s \in NetMessages \cup {Nothing} /\ samples \in Nat
    BY <1>a, UplinkAssumption DEF MailTypes, ReportTypes
  <2>3. \A m \in NetMessages \cup {Nothing} : m.id \in Nat
    BY DEF NetMessages, Nothing, Message
  <2>4. QED
    BY <2>1, <2>2, <2>3
<1>c. SamplesFirst /\ (~overlap => OneReport)
  BY DEF RingInv
<1>d. ASSUME SamplesRise, UNCHANGED <<samples, sending["net"]>>,
             \A r \in Reporters : reports'[r].at # "idle" =>
               reports[r].at # "idle" /\ reports'[r].id = reports[r].id,
             \/ UNCHANGED box["net"]
             \/ \E m \in NetMessages : m.kind # "sample" /\ Queued("net", m)
      PROVE  SamplesRise'
  <2>1. Queue("sample")' = k /\ \A i \in 1 .. k : box'["net"][i] = box["net"][i]
    <3>1. CASE UNCHANGED box["net"]
      BY <1>c, <3>1, SamplesSame
    <3>2. CASE \E m \in NetMessages : m.kind # "sample" /\ Queued("net", m)
      <4>1. PICK m \in NetMessages : m.kind # "sample" /\ Queued("net", m)
        BY <3>2
      <4>2. QED
        BY <1>a, <1>c, <4>1, OtherQueued
    <3>3. QED
      BY <1>d, <3>1, <3>2
  <2>2. QED
    BY <1>d, <2>1, RiseFrame
<1>1. ASSUME NEW r \in Reporters, SampleCheck(r) PROVE ~overlap' => SamplesRise'
  <2>1. /\ UNCHANGED <<box, sending>> /\ samples' = samples + 1 /\ (overlap => overlap')
        /\ \/ UNCHANGED reports
           \/ reports' = [reports EXCEPT ![r] = [at |-> "claim", id |-> samples + 1, ref |-> 0]]
    BY <1>1 DEF SampleCheck
  <2>2. \A q \in Reporters : reports'[q].at # "idle" =>
          \/ reports[q].at # "idle" /\ reports'[q].id = reports[q].id
          \/ reports'[q].id = samples + 1 /\ samples' = samples + 1
    BY <1>a, <2>1
  <2>3. Queue("sample")' = Queue("sample")
    BY <1>c, <2>1, SamplesSame
  <2>4. ASSUME SamplesRise PROVE SamplesRise'
    BY <2>1, <2>2, <2>3, <2>4, RiseFrame
  <2>5. QED
    BY <2>1, <2>4
<1>2. ASSUME NEW r \in Reporters,
             SampleClaim(r) \/ SampleProduce(r) \/ SampleCopy(r) \/ SampleAddress(r) \/ SampleWrap(r)
      PROVE  ~overlap' => SamplesRise'
  <2>1. /\ UNCHANGED <<box, sending, samples, overlap>> /\ reports[r].at # "idle"
        /\ \A q \in Reporters \ {r} : reports'[q] = reports[q]
    BY <1>2, <1>a DEF SampleClaim, SampleProduce, Produced, Empty, SampleCopy, SampleAddress,
                      SampleWrap, Goes
  <2>2. reports'[r].id = reports[r].id
    <3>1. reports[r] \in [at : {"idle", "claim", "produce", "copy", "address", "wrap", "post"},
                          id : 0 .. MaxSamples, ref : 0 .. SAMPLE_INFO_ARRAY_MAX]
      BY <1>a DEF ReportTypes
    <3>2. CASE SampleAddress(r)
      <4>1. reports'[r] = [reports[r] EXCEPT !.at = "wrap", !.ref = sample_info_array_index]
        BY <1>a, <3>2 DEF SampleAddress
      <4>2. QED
        BY <3>1, <4>1
    <3>3. ASSUME NEW at, Goes(r, at) PROVE reports'[r].id = reports[r].id
      BY <1>a, <3>1, <3>3 DEF Goes
    <3>4. QED
      BY <1>2, <3>2, <3>3 DEF SampleClaim, SampleProduce, SampleCopy, SampleWrap
  <2>3. \A q \in Reporters : reports'[q].at # "idle" =>
          reports[q].at # "idle" /\ reports'[q].id = reports[q].id
    BY <2>1, <2>2
  <2>4. QED
    BY <1>d, <2>1, <2>3
<1>3. ASSUME NEW r \in Reporters, SamplePost(r) PROVE ~overlap' => SamplesRise'
  <2> DEFINE m == Message("sample", 5, reports[r].ref, reports[r].id)
  <2>1. /\ UNCHANGED <<sending, samples, overlap>> /\ reports[r].at = "post"
        /\ reports'[r].at = "idle" /\ \A q \in Reporters \ {r} : reports'[q] = reports[q]
        /\ Queued("net", m)
    <3>1. Queued("net", m)
      BY <1>3, PostsQueue
    <3>2. UNCHANGED <<sending, samples, overlap>> /\ reports[r].at = "post" /\ Goes(r, "idle")
      BY <1>3 DEF SamplePost
    <3>3. reports'[r].at = "idle" /\ \A q \in Reporters \ {r} : reports'[q] = reports[q]
      BY <1>a, <3>2 DEF Goes, ReportTypes
    <3>4. QED
      BY <3>1, <3>2, <3>3
  <2>2. m \in NetMessages /\ m.kind = "sample" /\ m.id = reports[r].id
    <3>1. reports[r].ref \in Nat /\ reports[r].id \in Nat
      BY SampleTypes
    <3>2. QED
      BY <3>1 DEF Message, NetMessages
  <2> HIDE DEF m
  <2>3. /\ Queue("sample")' = k + 1 /\ box'["net"][k + 1] = m
        /\ \A i \in 1 .. k : box'["net"][i] = box["net"][i]
    BY <1>a, <1>c, <2>1, <2>2, SampleQueued
  <2>4. ASSUME ~overlap PROVE SamplesRise'
    <3>1. /\ Ascending(box["net"], k, s) /\ reports[r].id <= samples
          /\ Older(box["net"], k, s, reports[r].id)
      BY <2>1, <2>4 DEF SamplesRise
    <3>2. \A q \in Reporters : reports'[q].at = "idle"
      BY <1>c, <2>1, <2>4 DEF OneReport
    <3>3. box'["net"][k + 1].id = reports[r].id /\ reports[r].id < samples + 1
          /\ reports[r].id \in Nat /\ samples + 1 \in Nat
      BY <1>b, <2>2, <2>3, <3>1
    <3> HIDE DEF k, s
    <3>4. /\ Ascending(box'["net"], k + 1, s)
          /\ \A id \in Nat : box'["net"][k + 1].id < id => Older(box'["net"], k + 1, s, id)
      BY <1>b, <2>3, <3>1, <3>3, OrderAppended
    <3>5. Older(box'["net"], k + 1, s, samples + 1)
      BY <3>3, <3>4
    <3>6. sending'["net"] = s /\ samples' = samples
      BY <2>1 DEF s
    <3>7. QED
      BY <2>3, <3>2, <3>4, <3>5, <3>6 DEF SamplesRise
  <2>5. QED
    BY <2>1, <2>4
<1>4. ASSUME UNCHANGED <<reports, sending["net"], samples, overlap>>,
             \/ UNCHANGED box["net"]
             \/ \E m \in NetMessages : m.kind # "sample" /\ Queued("net", m)
      PROVE  ~overlap' => SamplesRise'
  BY <1>d, <1>4
<1>5. CASE PictureCheck \/ PictureClaim \/ PictureProduce \/ PictureCopy
  BY <1>4, <1>5 DEF PictureCheck, PictureClaim, PictureProduce, PictureCopy
<1>6. CASE PicturePost
  <2> DEFINE m == Message("picture", 3, 0, pictures)
  <2>1. Queued("net", m) /\ UNCHANGED <<reports, sending, samples, overlap>>
    BY <1>6, PostsQueue DEF PicturePost
  <2>2. m \in NetMessages /\ m.kind # "sample"
    <3>1. pictures \in Nat
      BY <1>a, UplinkAssumption DEF ReportTypes
    <3>2. QED
      BY <3>1 DEF Message, NetMessages
  <2> HIDE DEF m
  <2>3. QED
    BY <1>4, <2>1, <2>2
<1>7. CASE OtherMove
  <2>1. UNCHANGED <<reports, sending["net"], samples, overlap>>
    BY <1>7 DEF OtherMove
  <2>2. \/ UNCHANGED box["net"]
        \/ \E m \in NetMessages : m.kind # "sample" /\ Queued("net", m)
    BY <1>7 DEF OtherMove
  <2>3. QED
    BY <1>4, <2>1, <2>2
<1>8. CASE SenderPends("net")
  <2>1. /\ s = Nothing /\ sending'["net"] = Head(box["net"])
        /\ UNCHANGED <<reports, samples, overlap>>
    BY <1>8, <1>a DEF SenderPends
  <2>2. /\ Queue("sample")' \in Nat
        /\ \A i \in 1 .. Queue("sample")' : box'["net"][i] = box["net"][i + 1]
        /\ Head(box["net"]) = box["net"][1]
        /\ IF Head(box["net"]).kind = "sample" THEN k = Queue("sample")' + 1
           ELSE k = 0 /\ Queue("sample")' = 0
    BY <1>8, <1>a, <1>c, SampleReceived DEF SenderPends
  <2>3. ASSUME ~overlap PROVE SamplesRise'
    <3>1. /\ Ascending(box["net"], k, s) /\ Older(box["net"], k, s, samples + 1)
          /\ \A r \in Reporters : reports[r].at # "idle" =>
               reports[r].id <= samples /\ Older(box["net"], k, s, reports[r].id)
      BY <2>3 DEF SamplesRise
    <3> DEFINE t == sending'["net"]
    <3>2. PICK h \in Nat : Queue("sample")' = h
      BY <2>2
    <3>3. /\ Ascending(box'["net"], h, t)
          /\ \A id : Older(box["net"], k, s, id) => Older(box'["net"], h, t, id)
      <4>1. CASE t.kind = "sample"
        <5>1. k = h + 1 /\ t = box["net"][1] /\ \A i \in 1 .. h : box'["net"][i] = box["net"][i + 1]
          BY <2>1, <2>2, <3>2, <4>1
        <5> HIDE DEF k, s, t
        <5>2. Ascending(box["net"], h + 1, s)
          BY <3>1, <5>1
        <5>3. /\ Ascending(box'["net"], h, box["net"][1])
              /\ \A id : Older(box["net"], h + 1, s, id) => Older(box'["net"], h, box["net"][1], id)
          BY <5>1, <5>2, OrderTaken
        <5>4. QED
          BY <5>1, <5>3
      <4>2. CASE t.kind # "sample"
        <5>1. h = 0
          BY <2>1, <2>2, <3>2, <4>2
        <5>2. QED
          BY <4>2, <5>1, OrderEmpty
      <4>3. QED
        BY <4>1, <4>2
    <3> HIDE DEF k, s, t
    <3>4. /\ Older(box'["net"], h, t, samples + 1)
          /\ \A r \in Reporters : reports[r].at # "idle" =>
               reports[r].id <= samples /\ Older(box'["net"], h, t, reports[r].id)
      BY <3>1, <3>3
    <3>5. reports' = reports /\ samples' = samples /\ sending'["net"] = t
      BY <2>1 DEF t
    <3>6. QED
      BY <3>2, <3>3, <3>4, <3>5 DEF SamplesRise
  <2>4. QED
    BY <2>1, <2>3
<1>9. CASE SenderRecycles("net")
  <2>1. /\ UNCHANGED <<box, reports, samples, overlap>> /\ sending'["net"] = Nothing
    BY <1>9, <1>a DEF SenderRecycles
  <2>2. Queue("sample")' = k
    BY <1>c, <2>1, SamplesSame
  <2>3. Nothing.kind # "sample"
    BY DEF Nothing, Message
  <2>4. ASSUME ~overlap PROVE SamplesRise'
    <3>1. /\ Ascending(box["net"], k, s) /\ Older(box["net"], k, s, samples + 1)
          /\ \A r \in Reporters : reports[r].at # "idle" =>
               reports[r].id <= samples /\ Older(box["net"], k, s, reports[r].id)
      BY <2>4 DEF SamplesRise
    <3> HIDE DEF k, s
    <3>2. /\ Ascending(box["net"], k, Nothing)
          /\ \A id : Older(box["net"], k, s, id) => Older(box["net"], k, Nothing, id)
      BY <2>3, <3>1, OrderSent
    <3>3. QED
      BY <2>1, <2>2, <3>1, <3>2 DEF SamplesRise
  <2>5. QED
    BY <2>1, <2>4
<1>10. QED
  BY <1>1, <1>2, <1>3, <1>5, <1>6, <1>7, <1>8, <1>9 DEF NetMoves, ReportStep, PictureStep

\* The samples go out in their order, for any number of reporters and entries of
\* the ring (NET_UL(0x45530101), net_send_tsk): the queue lets a sample overtake
\* everything but samples.
THEOREM ReportsGoInOrder == Spec => []SamplesInOrder
<1>1. Init => OrderInv
  <2> SUFFICES ASSUME Init PROVE SamplesRise
    BY UplinkStarting DEF OrderInv
  <2>1. /\ box = [b \in Mailboxes |-> <<>>] /\ samples = 0
        /\ sending = [b \in {"net", "ui"} |-> Nothing]
        /\ reports = [r \in Reporters |-> [at |-> "idle", id |-> 0, ref |-> 0]]
    BY DEF Init, CreateFactories, UplinkInit
  <2>2. Queue("sample") = 0
    <3>1. DOMAIN box["net"] = {}
      BY <2>1, BoxNames
    <3>2. InBox("net", {"sample"}) = {}
      BY <3>1 DEF InBox
    <3>3. QED
      BY <3>2, FS_EmptySet DEF Queue
  <2>3. sending["net"].kind # "sample" /\ \A r \in Reporters : reports[r].at = "idle"
    BY <2>1 DEF Nothing, Message
  <2>4. /\ Ascending(box["net"], 0, sending["net"])
        /\ \A id : Older(box["net"], 0, sending["net"], id)
    BY <2>3, OrderEmpty
  <2>5. QED
    BY <2>2, <2>3, <2>4 DEF SamplesRise
<1>2. OrderInv /\ [Next]_vars => OrderInv'
  <2> SUFFICES ASSUME OrderInv, [Next]_vars PROVE OrderInv'
    OBVIOUS
  <2>1. UplinkInv /\ UplinkInv' /\ (~overlap => SamplesRise)
    BY UplinkKept DEF OrderInv
  <2>2. Typed /\ MessagesPlaced /\ RingInv
    BY <2>1, PoolInvTyped DEF UplinkInv
  <2>3. Typed'
    <3>1. (PoolInv <=> RejectInv /\ Typed /\ MessagesPlaced /\ BuffersAccounted)'
      BY PoolInvTyped, PTL
    <3>2. QED
      BY <2>1, <3>1 DEF UplinkInv
  <2>4. NetMoves
    BY <2>2, EachSystemMove, EachNetMove
  <2>5. ~overlap' => SamplesRise'
    BY <2>1, <2>2, <2>3, <2>4, RiseKept
  <2>6. QED
    BY <2>1, <2>5 DEF OrderInv
<1>3. OrderInv => SamplesInOrder
  <2> SUFFICES ASSUME OrderInv, ~overlap, NEW i \in InBox("net", {"sample"})
               PROVE  /\ \A j \in InBox("net", {"sample"}) : i < j => box["net"][i].id < box["net"][j].id
                      /\ sending["net"].kind = "sample" => sending["net"].id < box["net"][i].id
    BY DEF SamplesInOrder
  <2>1. SamplesFirst /\ Boxes /\ SamplesRise
    BY DEF OrderInv, UplinkInv, RingInv, PoolInv, MailTypes
  <2>2. \A j \in InBox("net", {"sample"}) : j \in 1 .. Queue("sample")
    <3>1. Queue("sample") \in Nat /\ DOMAIN box["net"] = 1 .. Len(box["net"])
          /\ Len(box["net"]) \in Nat
      BY <2>1, QueueCounts DEF Boxes
    <3>2. \A j \in InBox("net", {"sample"}) : j \in DOMAIN box["net"] /\ box["net"][j].kind = "sample"
      BY DEF InBox
    <3>3. QED
      BY <2>1, <3>1, <3>2 DEF SamplesFirst
  <2>3. Ascending(box["net"], Queue("sample"), sending["net"])
    BY <2>1 DEF SamplesRise
  <2>4. QED
    BY <2>2, <2>3 DEF Ascending
<1>4. QED
  BY <1>1, <1>2, <1>3, PTL DEF Spec
=============================================================================
