---------------------------- MODULE RejectLink ----------------------------
(***************************************************************************)
(* The reject process, which moves the flaps, and what the main process    *)
(* tells it over a local socket: the result of every sample, and a system  *)
(* reset, which waits for its answer.                                      *)
(*                                                                         *)
(* local_connect_tsk accepts the connection, local_send_tsk writes what is *)
(* in its mailbox and local_recv_tsk reads the answers; it closes the      *)
(* connection when the reject process has gone.  That process is external: *)
(* it connects, reads in order, answers a greeting and a reset, and may    *)
(* die at any time with what it has not read.                              *)
(***************************************************************************)
EXTENDS MessagePool

CONSTANTS
  Judges,                  \* threads that report results
  Resetters,               \* net_recv_tsk and ui_recv_tsk
  SAMPLE_ARRAY_MAX,
  SocketRoom,              \* messages the socket holds
  MaxResults, MaxResets, MaxRejects   \* bounds

ASSUME RejectLinkAssumption ==
  /\ IsFiniteSet(Judges) /\ IsFiniteSet(Resetters) /\ "local" \in Mailboxes
  /\ SAMPLE_ARRAY_MAX \in Nat \ {0} /\ SocketRoom \in Nat \ {0}
  /\ MaxResults \in Nat /\ MaxResets \in Nat /\ MaxRejects \in Nat

VARIABLES
  alive, rejects,          \* the reject process, and how often it has started
  backlog,                 \* connections not accepted yet: "up" or "closed"
  peer,                    \* the other end of connect_fd
  connect_status, sem_connect,
  greet,                   \* local_connect_tsk is about to greet
  local_recv,              \* where local_recv_tsk is
  local_msg,               \* what local_send_tsk holds
  toReject, answers,       \* the two directions of the connection
  g_sys_reset_flag,
  resetting,               \* where each resetter is in sc_system_reset
  sem_reject_reset, resets,
  judging,                 \* where each judge is
  sample_result, sample_result_index, results,
  lostResets,              \* reset commands or answers that never arrive
  late,                    \* results each judge has posted while a reset was
                           \* under way
  twoResets, overrun       \* two resets at once; an entry of the ring was taken
                           \* while its last result had still to be sent

peerVars == <<alive, rejects, backlog, peer, toReject, answers, lostResets>>
localVars == <<connect_status, sem_connect, greet, local_recv, local_msg>>
resetVars == <<g_sys_reset_flag, resetting, sem_reject_reset, resets, twoResets>>
judgeVars == <<judging, sample_result, sample_result_index, results, late, overrun>>
rejectVars == <<peerVars, localVars, resetVars, judgeVars>>

None == Message("none", 0, 0, 0)
Entries == 0 .. SAMPLE_ARRAY_MAX - 1

RejectTypeOK ==
  /\ {alive, connect_status, greet, g_sys_reset_flag, twoResets, overrun} \subseteq BOOLEAN
  /\ rejects \in 0 .. MaxRejects /\ backlog \in Seq({"up", "closed"})
  /\ peer \in {"none", "up", "closed"} /\ local_recv \in {"wait", "read"}
  /\ sem_connect \in 0 .. MaxRejects /\ sem_reject_reset \in 0 .. MaxResets
  /\ toReject \in Seq({"greeting", "reset", "result"}) /\ Len(toReject) <= SocketRoom
  /\ answers \in Seq({"version", "reset"}) /\ lostResets \in 0 .. MaxResets
  /\ resetting \in [Resetters -> {"idle", "begun", "wait"}]
  /\ \A j \in Judges : judging[j].at \in {"idle", "fill", "post"}
  /\ sample_result \in [Entries -> 0 .. MaxResults] /\ sample_result_index \in Entries

\* With n starts of the reject process, m results and k resets to come.
RejectStart(n, m, k) ==
  /\ alive = FALSE /\ rejects = MaxRejects - n /\ backlog = <<>> /\ peer = "none"
  /\ connect_status = FALSE /\ sem_connect = 0 /\ greet = FALSE
  /\ local_recv = "wait" /\ local_msg = None
  /\ toReject = <<>> /\ answers = <<>>
  /\ g_sys_reset_flag = FALSE /\ resetting = [x \in Resetters |-> "idle"]
  /\ sem_reject_reset = 0 /\ resets = MaxResets - k
  /\ judging = [j \in Judges |-> [at |-> "idle", id |-> 0, ref |-> 0]]
  /\ sample_result = [i \in Entries |-> 0] /\ sample_result_index = 0 /\ results = MaxResults - m
  /\ lostResets = 0 /\ late = [j \in Judges |-> 0]
  /\ twoResets = FALSE /\ overrun = FALSE

-----------------------------------------------------------------------------
(* the reject process *)

RejectStarts ==
  /\ ~alive /\ rejects < MaxRejects
  /\ alive' = TRUE /\ rejects' = rejects + 1 /\ backlog' = Append(backlog, "up")
  /\ UNCHANGED <<poolVars, peer, toReject, answers, lostResets, localVars,
                 resetVars, judgeVars>>

Resets(s) == Cardinality({i \in DOMAIN s : s[i] = "reset"})

\* What it has not read is lost; what it has written can still be read.
RejectDies ==
  /\ alive /\ alive' = FALSE
  /\ IF backlog # <<>>
     THEN /\ backlog' = [backlog EXCEPT ![Len(backlog)] = "closed"]
          /\ UNCHANGED <<peer, toReject, lostResets>>
     ELSE /\ peer' = "closed" /\ toReject' = <<>>
          /\ lostResets' = lostResets + Resets(toReject)
          /\ UNCHANGED backlog
  /\ UNCHANGED <<poolVars, rejects, answers, localVars, resetVars, judgeVars>>

RejectReads ==
  /\ alive /\ backlog = <<>> /\ toReject # <<>>
  /\ toReject' = Tail(toReject)
  /\ answers' = CASE Head(toReject) = "greeting" -> Append(answers, "version")
                  [] Head(toReject) = "reset" -> Append(answers, "reset")
                  [] OTHER -> answers
  /\ UNCHANGED <<poolVars, alive, rejects, backlog, peer, lostResets, localVars,
                 resetVars, judgeVars>>

-----------------------------------------------------------------------------
(* local_connect_tsk *)

LocalAcceptsAgain ==
  /\ ~greet /\ backlog # <<>>
  /\ backlog' = Tail(backlog) /\ peer' = Head(backlog)
  /\ connect_status' = TRUE /\ sem_connect' = sem_connect + 1 /\ greet' = TRUE
  /\ UNCHANGED <<poolVars, alive, rejects, toReject, answers, lostResets, local_recv,
                 local_msg, resetVars, judgeVars>>

LocalAccepts ==
  /\ ~greet /\ ~connect_status /\ backlog # <<>>
  /\ backlog' = Tail(backlog) /\ peer' = Head(backlog)
  /\ connect_status' = TRUE /\ sem_connect' = sem_connect + 1 /\ greet' = TRUE
  /\ UNCHANGED <<poolVars, alive, rejects, toReject, answers, lostResets, local_recv,
                 local_msg, resetVars, judgeVars>>

send_handshake_cmd ==
  /\ greet /\ ~Empty /\ greet' = FALSE
  /\ Posted("local", Message("greeting", 0, 0, 0))
  /\ UNCHANGED <<bufs, peerVars, connect_status, sem_connect, local_recv, local_msg,
                 resetVars, judgeVars>>

-----------------------------------------------------------------------------
(* local_send_tsk *)

LocalPends ==
  /\ local_msg = None /\ Pending("local") /\ Received("local")
  /\ local_msg' = Head(box["local"])
  /\ UNCHANGED <<free, bufs, peerVars, connect_status, sem_connect, greet, local_recv,
                 resetVars, judgeVars>>

LocalDone == Recycled /\ local_msg' = None
             /\ UNCHANGED <<bufs, box, connect_status, sem_connect, greet, local_recv,
                            resetVars, judgeVars>>

LocalWrites ==
  /\ local_msg # None /\ LocalDone
  /\ connect_status /\ peer = "up" /\ Len(toReject) < SocketRoom
  /\ toReject' = Append(toReject, local_msg.kind)
  /\ UNCHANGED <<alive, rejects, backlog, peer, answers, lostResets>>

LocalDropsKeeping ==
  /\ local_msg # None /\ local_msg' = None
  /\ ~connect_status \/ peer # "up"
  /\ lostResets' = lostResets + (IF local_msg.kind = "reset" THEN 1 ELSE 0)
  /\ UNCHANGED <<poolVars, alive, rejects, backlog, peer, toReject, answers>>
  /\ UNCHANGED <<connect_status, sem_connect, greet, local_recv, resetVars, judgeVars>>

\* Nobody is connected, or the write fails.
LocalDrops ==
  /\ local_msg # None /\ LocalDone
  /\ ~connect_status \/ peer # "up"
  /\ lostResets' = lostResets + (IF local_msg.kind = "reset" THEN 1 ELSE 0)
  /\ UNCHANGED <<alive, rejects, backlog, peer, toReject, answers>>

-----------------------------------------------------------------------------
(* local_recv_tsk *)

LocalWakes ==
  /\ local_recv = "wait" /\ sem_connect > 0
  /\ sem_connect' = sem_connect - 1 /\ local_recv' = "read"
  /\ UNCHANGED <<poolVars, peerVars, connect_status, greet, local_msg, resetVars, judgeVars>>

LocalReceivesAny ==
  /\ local_recv = "read" /\ answers # <<>>
  /\ answers' = Tail(answers) /\ sem_reject_reset' = sem_reject_reset + 1
  /\ UNCHANGED <<poolVars, alive, rejects, backlog, peer, toReject, lostResets, localVars,
                 g_sys_reset_flag, resetting, resets, twoResets, judgeVars>>

LocalReceivesOnly ==
  /\ local_recv = "read" /\ answers # <<>>
  /\ answers' = Tail(answers)
  /\ UNCHANGED <<poolVars, alive, rejects, backlog, peer, toReject, lostResets, localVars,
                 resetVars, judgeVars>>

\* local_cmd_analyze; the buffer an answer is read into is used by this thread only.
LocalReceives ==
  /\ local_recv = "read" /\ answers # <<>>
  /\ answers' = Tail(answers)
  /\ sem_reject_reset' = sem_reject_reset + (IF Head(answers) = "reset" THEN 1 ELSE 0)
  /\ UNCHANGED <<poolVars, alive, rejects, backlog, peer, toReject, lostResets, localVars,
                 g_sys_reset_flag, resetting, resets, twoResets, judgeVars>>

LocalCloses ==
  /\ local_recv = "read" /\ answers = <<>> /\ peer = "closed"
  /\ local_recv' = "wait" /\ connect_status' = FALSE /\ peer' = "none"
  /\ UNCHANGED <<poolVars, alive, rejects, backlog, toReject, answers, lostResets,
                 sem_connect, greet, local_msg, resetVars, judgeVars>>

-----------------------------------------------------------------------------
(* sc_system_reset *)

Resetting == \E y \in Resetters : resetting[y] # "idle"

\* The flag, the handshake register and the reset of the FPGA and the counts.
ResetBegins(x) ==
  /\ resetting[x] = "idle" /\ resets < MaxResets
  /\ resetting' = [resetting EXCEPT ![x] = "begun"] /\ resets' = resets + 1
  /\ g_sys_reset_flag' = TRUE
  /\ twoResets' = (twoResets \/ Resetting)
  /\ late' = IF Resetting THEN late ELSE [j \in Judges |-> 0]
  /\ UNCHANGED <<poolVars, peerVars, localVars, sem_reject_reset, judging, sample_result,
                 sample_result_index, results, overrun>>

send_reset_cmd(x) ==
  /\ resetting[x] = "begun" /\ ~Empty
  /\ resetting' = [resetting EXCEPT ![x] = "wait"]
  /\ Posted("local", Message("reset", 0, 0, 0))
  /\ UNCHANGED <<bufs, peerVars, localVars, g_sys_reset_flag, sem_reject_reset, resets,
                 twoResets, judgeVars>>

ResetEnds(x) ==
  /\ resetting[x] = "wait" /\ sem_reject_reset > 0
  /\ sem_reject_reset' = sem_reject_reset - 1
  /\ resetting' = [resetting EXCEPT ![x] = "idle"] /\ g_sys_reset_flag' = FALSE
  /\ UNCHANGED <<poolVars, peerVars, localVars, resets, twoResets, judgeVars>>

-----------------------------------------------------------------------------
(* results: get_sample_result_array and send_sample_reault *)

\* Results whose entry is still needed.
InUse == {<<m.ref, m.id>> : m \in {box["local"][i] : i \in InBox("local", {"result"})}}
         \cup (IF local_msg.kind = "result" THEN {<<local_msg.ref, local_msg.id>>} ELSE {})
         \cup {<<judging[j].ref, judging[j].id>> :
                 j \in {k \in Judges : judging[k].at # "idle"}}

get_sample_result_array(j) ==
  LET next == (sample_result_index + 1) % SAMPLE_ARRAY_MAX IN
  /\ judging[j].at = "idle" /\ results < MaxResults
  /\ results' = results + 1 /\ sample_result_index' = next
  /\ judging' = [judging EXCEPT ![j] = [at |-> "fill", id |-> results + 1, ref |-> next]]
  /\ overrun' = (overrun \/ \E n \in 1 .. MaxResults : <<next, n>> \in InUse)
  /\ UNCHANGED <<poolVars, peerVars, localVars, resetVars, sample_result, late>>

FillResultAtIndex(j) ==
  /\ judging[j].at = "fill"
  /\ sample_result' = [sample_result EXCEPT ![sample_result_index] = judging[j].id]
  /\ judging' = [judging EXCEPT ![j].at = IF g_sys_reset_flag THEN "idle" ELSE "post"]
  /\ UNCHANGED <<poolVars, peerVars, localVars, resetVars, sample_result_index, results,
                 late, overrun>>

FillResultAlways(j) ==
  /\ judging[j].at = "fill"
  /\ sample_result' = [sample_result EXCEPT ![judging[j].ref] = judging[j].id]
  /\ judging' = [judging EXCEPT ![j].at = "post"]
  /\ UNCHANGED <<poolVars, peerVars, localVars, resetVars, sample_result_index, results,
                 late, overrun>>

\* The entry is filled in; during a reset the result is dropped.
FillResult(j) ==
  /\ judging[j].at = "fill"
  /\ sample_result' = [sample_result EXCEPT ![judging[j].ref] = judging[j].id]
  /\ judging' = [judging EXCEPT ![j].at = IF g_sys_reset_flag THEN "idle" ELSE "post"]
  /\ UNCHANGED <<poolVars, peerVars, localVars, resetVars, sample_result_index, results,
                 late, overrun>>

PostResult(j) ==
  /\ judging[j].at = "post" /\ ~Empty
  /\ Posted("local", Message("result", 0, judging[j].ref, judging[j].id))
  /\ judging' = [judging EXCEPT ![j].at = "idle"]
  /\ late' = IF Resetting THEN [late EXCEPT ![j] = @ + 1] ELSE late
  /\ UNCHANGED <<bufs, peerVars, localVars, resetVars, sample_result,
                 sample_result_index, results, overrun>>

\* send_handshake_cmd, send_reset_cmd and send_sample_reault write through NULL
\* when there is no message.
LocalFaults ==
  /\ Empty
  /\ \/ greet \/ \E x \in Resetters : resetting[x] = "begun"
     \/ \E j \in Judges : judging[j].at = "post"

-----------------------------------------------------------------------------
SocketStep == LocalAccepts \/ send_handshake_cmd \/ LocalPends \/ LocalWrites
              \/ LocalDrops \/ LocalWakes \/ LocalReceives \/ LocalCloses
ResetStep(x) == send_reset_cmd(x) \/ ResetEnds(x)
JudgeStep(j) == FillResult(j) \/ PostResult(j)

-----------------------------------------------------------------------------
(* properties *)

\* The three local threads agree on the connection: a connection is accepted only
\* when the last one has been closed, it is announced once, and a thread reads
\* only from a connection that is open.
OneRejectConnection ==
  /\ sem_connect + (IF local_recv = "read" THEN 1 ELSE 0) = (IF connect_status THEN 1 ELSE 0)
  /\ connect_status <=> peer # "none"

\* A reset that waits has its command or its answer somewhere on the way, or it
\* has been lost: no answer is counted twice and none is left over to end a later
\* reset early.
ResetAccounted ==
  Cardinality({x \in Resetters : resetting[x] = "wait"})
    = Cardinality(InBox("local", {"reset"})) + (IF local_msg.kind = "reset" THEN 1 ELSE 0)
      + Resets(toReject) + Resets(answers) + sem_reject_reset + lostResets

\* A result reaches the reject process as it was filled in, if its entry of the
\* ring was not given out again in the meantime.
ResultIntact ==
  ~overrun =>
    \A m \in {box["local"][i] : i \in InBox("local", {"result"})} \cup
             (IF local_msg.kind = "result" THEN {local_msg} ELSE {}) :
      sample_result[m.ref] = m.id

\* A reset stops the results until it has ended, but one that was past its test
\* of the flag may still go out behind the command: one of each thread, never
\* two.  Not so when there are two resets, for the first to end clears the flag of
\* the second.
LateOncePerJudge == ~twoResets => \A j \in Judges : late[j] <= 1
=============================================================================
