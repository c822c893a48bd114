----------------------------- MODULE Messages -----------------------------
(***************************************************************************)
(* The threads that exchange messages, over one pool of messages, one pool *)
(* of buffers and one set of mailboxes: reports to the PC (Uplink),        *)
(* commands to the cameras (CameraLink), results and resets for the reject *)
(* process (RejectLink), the numbers of the samples (SampleNumbers), and   *)
(* the samples of two cameras (TwoCameras), whose releases are the last    *)
(* thing a message does.                                                   *)
(* What each behaviour is about is chosen at the start; the statistics and *)
(* the other uploads draw from the pool in all of them.                    *)
(***************************************************************************)
EXTENDS CameraLink, RejectLink, SampleNumbers, TwoCameras

CONSTANTS
  Work,          \* what the behaviours are about
  Rejects,       \* Rejects[w]: bound on the starts of the reject process in w
  Results,       \* Results[w]: on the results
  ResetsOf       \* ResetsOf[w]: and on the resets

ASSUME MessagesAssumption ==
  /\ Work \subseteq {"samples", "pictures", "cameras", "results", "resets",
                      "results and resets", "numbers", "two cameras"}
  /\ \A w \in Work : Rejects[w] \in 0 .. MaxRejects /\ Results[w] \in 0 .. MaxResults
                      /\ ResetsOf[w] \in 0 .. MaxResets

VARIABLES
  work,          \* what the behaviour is about
  halted         \* a thread wrote through NULL, or found no buffer

vars == <<poolVars, upVars, camVars, rejectVars, numberVars, pairVars, work, halted>>

Kinds ==
  {"sample", "picture", "upload", "feedback", "query", "temperature",
   "greeting", "reset", "result"} \cup {CameraBox(c) : c \in Cameras}

TypeOK ==
  /\ PoolTypeOK(Kinds) /\ UplinkTypeOK /\ CameraTypeOK /\ RejectTypeOK /\ NumbersTypeOK
  /\ PairsTypeOK
  /\ work \in Work /\ halted \in BOOLEAN

Init ==
  /\ work \in Work /\ halted = FALSE
  /\ CreateFactories /\ UplinkInit /\ CameraInit /\ NumbersInit
  /\ PairsInit
  /\ RejectStart(Rejects[work], Results[work], ResetsOf[work])

During(kinds) == ~halted /\ work \in kinds /\ UNCHANGED <<work, halted>>

-----------------------------------------------------------------------------
UplinkOnly == UNCHANGED <<camVars, rejectVars, numberVars, pairVars>>

Links ==
  /\ UplinkOnly
  /\ \/ During({"samples", "pictures"}) /\ LinkChanges
     \/ During({"pictures"}) /\ UiLinkChanges

Check(r) == During({"samples"}) /\ SampleCheck(r) /\ UplinkOnly
Report(r) == During({"samples"}) /\ ReportStep(r) /\ UplinkOnly

Picture ==
  /\ During({"pictures"}) /\ UplinkOnly
  /\ PictureCheck \/ PictureStep

Upload ==
  /\ During({"samples", "pictures", "cameras"}) /\ UplinkOnly
  /\ \/ CheckedUpload
     \/ work = "pictures" /\ (UncheckedUpload \/ UiUpload)

NetSend ==
  /\ During({"samples", "pictures", "cameras"}) /\ UplinkOnly
  /\ SenderPends("net") \/ SenderRecycles("net")

UiSend ==
  /\ During({"pictures"}) /\ UplinkOnly
  /\ SenderPends("ui") \/ SenderRecycles("ui")

-----------------------------------------------------------------------------
CameraOnly == UNCHANGED <<rejectVars, numberVars, pairVars>>

CameraCommand ==
  /\ During({"cameras"}) /\ CameraOnly
  /\ \/ \E c \in Cameras : PcCommand(c) \/ query_temp(c)
     \/ CommandDropped

CameraThread(c) == During({"cameras"}) /\ CameraStep(c) /\ CameraOnly
Camera(c) == During({"cameras"}) /\ CameraAnswers(c) /\ CameraOnly

-----------------------------------------------------------------------------
Rejecting == {"results", "resets", "results and resets"}
RejectOnly == UNCHANGED <<upVars, camVars, numberVars, pairVars>>

RejectProcess ==
  /\ During(Rejecting) /\ RejectOnly
  /\ RejectStarts \/ RejectDies

RejectReader == During(Rejecting) /\ RejectReads /\ RejectOnly
Accept == During(Rejecting) /\ (LocalAccepts \/ send_handshake_cmd) /\ RejectOnly
Write == During(Rejecting) /\ (LocalPends \/ LocalWrites \/ LocalDrops) /\ RejectOnly
Read == During(Rejecting) /\ (LocalWakes \/ LocalReceives \/ LocalCloses) /\ RejectOnly
BeginReset(x) == During(Rejecting) /\ ResetBegins(x) /\ RejectOnly
Reset(x) == During(Rejecting) /\ ResetStep(x) /\ RejectOnly
BeginResult(j) == During(Rejecting) /\ get_sample_result_array(j) /\ RejectOnly
Judge(j) == During(Rejecting) /\ JudgeStep(j) /\ RejectOnly

-----------------------------------------------------------------------------
Numbers == During({"numbers"}) /\ NumbersStep
           /\ UNCHANGED <<poolVars, upVars, camVars, rejectVars, pairVars>>

Pairs == During({"two cameras"}) /\ (PairsCapture \/ PairsRelease)
         /\ UNCHANGED <<poolVars, upVars, camVars, rejectVars, numberVars>>

Faults ==
  /\ ~halted /\ halted' = TRUE
  /\ \/ work = "pictures" /\ UploadFaults
     \/ work = "cameras" /\ (CommandFaults \/ AnswerFaults)
     \/ work \in Rejecting /\ LocalFaults
  /\ UNCHANGED <<poolVars, upVars, camVars, rejectVars, numberVars, pairVars, work>>

Next ==
  \/ Links \/ Picture \/ Upload \/ NetSend \/ UiSend
  \/ \E r \in Reporters : Check(r) \/ Report(r)
  \/ CameraCommand \/ \E c \in Cameras : CameraThread(c) \/ Camera(c)
  \/ RejectProcess \/ RejectReader \/ Accept \/ Write \/ Read
  \/ \E x \in Resetters : BeginReset(x) \/ Reset(x)
  \/ \E j \in Judges : BeginResult(j) \/ Judge(j)
  \/ Numbers \/ Pairs \/ Faults

\* The threads of the board run, send() and write() return in the end, and the
\* reject process reads as long as it lives.  Among threads whose work is bounded
\* it is enough that one that can run does.  Nothing makes a sample, a command or
\* a reset happen, and nothing starts the reject process.
Fairness ==
  /\ WF_vars(NetSend) /\ WF_vars(\E r \in Reporters : Report(r))
  /\ WF_vars(RejectReader) /\ WF_vars(Accept \/ Write \/ Read)
  /\ WF_vars(\E x \in Resetters : Reset(x))

Spec == Init /\ [][Next]_vars /\ Fairness

-----------------------------------------------------------------------------
(* properties of the composition *)

\* Every message is free, in one mailbox, or held by one thread; so is every
\* buffer.  As a mailbox takes as many messages as there are, none ever refuses
\* a message.
PoolsAccounted ==
  /\ free + Waiting + UplinkHolds + (IF local_msg # None THEN 1 ELSE 0) = MSG_NUM_MAX
  /\ BuffersAccounted

\* The ability to report samples comes back, unless the messages ran out for as
\* many reports as the ring has entries.
AbilityReturns ==
  ~g_sample_ability ~> (g_sample_ability \/ lost >= SAMPLE_INFO_ARRAY_MAX \/ halted)

\* A reset ends, and a time comes when none waits, unless a command or an answer
\* was lost with the connection.
ResetReturns ==
  (\E x \in Resetters : resetting[x] = "wait")
    ~> ((\A x \in Resetters : resetting[x] # "wait") \/ lostResets > 0 \/ halted)
=============================================================================
