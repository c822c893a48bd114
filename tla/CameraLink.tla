---------------------------- MODULE CameraLink ----------------------------
(***************************************************************************)
(* Commands to the cameras.  net_recv_tsk (for the PC) and upstate_tsk     *)
(* (every second, for the temperature) put a command into a buffer and     *)
(* post a message to the camera's thread.  The thread sends the command    *)
(* over LVDS, waits at most 500 ms for an answer, and posts the answer to  *)
(* the PC from a ring of answers.  The two threads of lvds_context.c are   *)
(* the same but for the registers and the rings they use.                  *)
(*                                                                         *)
(* The camera itself answers each command once, in order, at any time: an  *)
(* answer may come after the wait has ended.                               *)
(***************************************************************************)
EXTENDS Uplink

CONSTANTS
  Cameras,
  CameraBox(_),       \* the mailbox of a camera's thread
  AnswerRing,         \* entries of cam1_protocol and cam2_protocol
  MaxCommands         \* bound: commands to one camera

ASSUME CameraLinkAssumption ==
  /\ IsFiniteSet(Cameras) /\ Cameras \subseteq Nat
  /\ \A c \in Cameras : CameraBox(c) \in Mailboxes \ {"net", "ui", "local"}
  /\ \A c, d \in Cameras : CameraBox(c) = CameraBox(d) => c = d
  \* An answer carries the name of the mailbox, which is no other kind of message.
  /\ \A c \in Cameras : CameraBox(c) \notin {"none", "sample", "picture", "upload", "feedback"}
  /\ AnswerRing \in Nat \ {0} /\ MaxCommands \in Nat

VARIABLES
  commands,           \* how many there have been for each camera
  lvds,               \* where each camera's thread is, and its command
  due,                \* commands each camera has not answered yet
  rxfifo,             \* answers in the receive FIFO of the FPGA
  protocol,           \* the rings: the answer each entry holds
  protocolindex

camVars == <<commands, lvds, due, rxfifo, protocol, protocolindex>>

Resting == [at |-> "pend", id |-> 0, kind |-> "none", ref |-> 0]

CameraTypeOK ==
  \A c \in Cameras :
    /\ commands[c] \in 0 .. MaxCommands
    /\ lvds[c].at \in {"pend", "check", "send", "recv"}
    /\ {due[c], rxfifo[c]} \subseteq Seq([id : 1 .. MaxCommands, kind : {"query", "temperature"}])
    /\ protocol[c] \in [0 .. AnswerRing - 1 -> 0 .. MaxCommands]
    /\ protocolindex[c] \in 0 .. AnswerRing - 1

CameraInit ==
  /\ commands = [c \in Cameras |-> 0]
  /\ lvds = [c \in Cameras |-> Resting]
  /\ due = [c \in Cameras |-> <<>>] /\ rxfifo = [c \in Cameras |-> <<>>]
  /\ protocol = [c \in Cameras |-> [i \in 0 .. AnswerRing - 1 |-> 0]]
  /\ protocolindex = [c \in Cameras |-> 0]

-----------------------------------------------------------------------------
(* commands *)

\* net_recv_tsk and query_temp: a buffer, a message, the mailbox.
Command(c, kind) ==
  /\ commands[c] < MaxCommands /\ bufs > 0 /\ ~Empty
  /\ commands' = [commands EXCEPT ![c] = @ + 1]
  /\ BufProduced /\ Posted(CameraBox(c), Message(kind, 0, c, commands[c] + 1))
  /\ UNCHANGED <<upVars, lvds, due, rxfifo, protocol, protocolindex>>

PcCommand(c) == g_conn_state /\ Command(c, "query")
query_temp(c) == Command(c, "temperature")

\* A command of the PC for a camera that does not exist, or whose rest never
\* comes: its buffer goes straight back.
CommandDropped == g_conn_state /\ bufs > 0 /\ UNCHANGED <<poolVars, upVars, camVars>>

\* buf_factory_produce ends the process when there is no buffer; without a
\* message the thread writes through NULL.
CommandFaults == (bufs = 0 \/ Empty) /\ \E c \in Cameras : commands[c] < MaxCommands

-----------------------------------------------------------------------------
(* lvds1_communicate_tsk and lvds2_communicate_tsk *)

\* The message is recycled at once; its buffer stays.
CameraPends(c) ==
  /\ lvds[c].at = "pend" /\ Pending(CameraBox(c)) /\ Received(CameraBox(c)) /\ Recycled
  /\ LET m == Head(box[CameraBox(c)]) IN
       lvds' = [lvds EXCEPT ![c] = [at |-> "check", id |-> m.id, kind |-> m.kind, ref |-> 0]]
  /\ UNCHANGED <<bufs, upVars, commands, due, rxfifo, protocol, protocolindex>>

\* fpga_check_lvds1_rxfifo drops what came after the last wait.
CameraChecks(c) ==
  /\ lvds[c].at = "check"
  /\ lvds' = [lvds EXCEPT ![c].at = "send"]
  /\ rxfifo' = [rxfifo EXCEPT ![c] = <<>>]
  /\ UNCHANGED <<poolVars, upVars, commands, due, protocol, protocolindex>>

CameraSendsPastRing(c) ==
  /\ lvds[c].at = "send" /\ BufRecycled
  /\ due' = [due EXCEPT ![c] = Append(@, [id |-> lvds[c].id, kind |-> lvds[c].kind])]
  /\ lvds' = [lvds EXCEPT ![c].at = "recv", ![c].ref = protocolindex[c]]
  /\ protocolindex' = [protocolindex EXCEPT ![c] = @ + 1]
  /\ UNCHANGED <<free, box, upVars, commands, rxfifo, protocol>>

CameraSendsSameEntry(c) ==
  /\ lvds[c].at = "send" /\ BufRecycled
  /\ due' = [due EXCEPT ![c] = Append(@, [id |-> lvds[c].id, kind |-> lvds[c].kind])]
  /\ lvds' = [lvds EXCEPT ![c].at = "recv", ![c].ref = protocolindex[c]]
  /\ UNCHANGED <<free, box, upVars, commands, rxfifo, protocol, protocolindex>>

\* fpga_lvds1_send; the buffer goes back, and sc_get_cam1_protocol gives an entry
\* of the ring for the answer.
CameraSends(c) ==
  /\ lvds[c].at = "send" /\ BufRecycled
  /\ due' = [due EXCEPT ![c] = Append(@, [id |-> lvds[c].id, kind |-> lvds[c].kind])]
  /\ lvds' = [lvds EXCEPT ![c].at = "recv", ![c].ref = protocolindex[c]]
  /\ protocolindex' = [protocolindex EXCEPT ![c] = (@ + 1) % AnswerRing]
  /\ UNCHANGED <<free, box, upVars, commands, rxfifo, protocol>>

\* send_feedback_info, with the kind of failure
Feedback ==
  IF g_conn_state /\ ~Empty THEN Posted("net", Message("feedback", 1, 0, 0))
  ELSE UNCHANGED <<free, box>>

\* The answer at the head of the FIFO is taken for that of the command, and the
\* rest of the FIFO is read behind it.  A temperature is stored, anything else
\* forwarded; an answer with a wrong checksum is reported.
Answered(c) ==
  /\ lvds[c].at = "recv" /\ rxfifo[c] # <<>>
  /\ lvds' = [lvds EXCEPT ![c] = Resting]
  /\ rxfifo' = [rxfifo EXCEPT ![c] = <<>>]
  /\ protocol' = [protocol EXCEPT ![c][lvds[c].ref] = Head(rxfifo[c]).id]
  /\ UNCHANGED <<bufs, upVars, commands, due, protocolindex>>

AnswerBad(c) == Answered(c) /\ Feedback

AnswerStored(c) ==
  /\ Answered(c) /\ Head(rxfifo[c]).kind = "temperature"
  /\ UNCHANGED <<free, box>>

AnswerForwarded(c) ==
  /\ Answered(c) /\ Head(rxfifo[c]).kind # "temperature"
  /\ IF g_conn_state
     THEN ~Empty /\ Posted("net", Message(CameraBox(c), 1, lvds[c].ref, Head(rxfifo[c]).id))
     ELSE UNCHANGED <<free, box>>

\* Without a message the thread writes through NULL.
AnswerFaults ==
  g_conn_state /\ Empty /\ \E c \in Cameras : lvds[c].at = "recv" /\ rxfifo[c] # <<>>

\* 500 ms without an answer.
AnswerLate(c) ==
  /\ lvds[c].at = "recv" /\ rxfifo[c] = <<>>
  /\ lvds' = [lvds EXCEPT ![c] = Resting] /\ Feedback
  /\ UNCHANGED <<bufs, upVars, commands, due, rxfifo, protocol, protocolindex>>

CameraStep(c) ==
  \/ CameraPends(c) \/ CameraChecks(c) \/ CameraSends(c) \/ AnswerBad(c)
  \/ AnswerStored(c) \/ AnswerForwarded(c) \/ AnswerLate(c)

\* The camera.
CameraAnswers(c) ==
  /\ due[c] # <<>>
  /\ rxfifo' = [rxfifo EXCEPT ![c] = Append(@, Head(due[c]))]
  /\ due' = [due EXCEPT ![c] = Tail(@)]
  /\ UNCHANGED <<poolVars, upVars, commands, lvds, protocol, protocolindex>>

-----------------------------------------------------------------------------
(* properties *)

\* Every buffer is free, named by a command in a mailbox, or with the thread that
\* has taken the command and not sent it yet; then it goes back, once.
BuffersAccounted ==
  bufs + Cardinality(UNION {{c} \X DOMAIN box[CameraBox(c)] : c \in Cameras})
       + Cardinality({c \in Cameras : lvds[c].at \in {"check", "send"}}) = BufNum

\* What net_send_tsk has still to send, in the order in which it takes it, and the
\* answers of one camera among it.
Outgoing == <<sending["net"]>> \o box["net"]
AnswersOf(c) == {i \in DOMAIN Outgoing : Outgoing[i].kind = CameraBox(c)}

\* The PC gets the answers of a camera in the order of the commands and none
\* twice, however late they are; and it gets the answer itself, as long as the
\* ring has not come round to its entry.
AnswersInOrder ==
  \A c \in Cameras :
    /\ \A i, j \in AnswersOf(c) : i < j => Outgoing[i].id < Outgoing[j].id
    /\ \A i \in AnswersOf(c) :
         commands[c] - Outgoing[i].id < AnswerRing =>
           protocol[c][Outgoing[i].ref] = Outgoing[i].id
=============================================================================
