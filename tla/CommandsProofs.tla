--------------------------- MODULE CommandsProofs ---------------------------
(* Proofs about the commands of the PC: the link's descriptor, flag and     *)
(* semaphore, the copies of the configuration, the upload and the burning.  *)
(* Each component has an invariant of its own, which each of its steps      *)
(* keeps; in Commands a step moves one component, or restarts them all.     *)
EXTENDS Commands, TLAPS

-----------------------------------------------------------------------------
(* NetLink.  As long as net_recv_tsk saw the end of each connection before  *)
(* the next began, the token of a connection is in one place only: with     *)
(* net_connect_tsk, in the semaphore, or with net_recv_tsk.                 *)

ReceiverBusy == recv # "wait" \/ sem_conn > 0

SocketKnown ==
  /\ conn # "handshake" \/ ReceiverBusy \/ g_conn_state => fd \in Sockets
  /\ recv # "wait" => recv_sock \in Sockets
  /\ fd \in Sockets /\ sock[fd] = "open" => conn = "connecting"

OneToken ==
  ~overtaken =>
    /\ conn \in {"connecting", "connected", "post"} => ~ReceiverBusy
    /\ conn = "connecting" => sock[fd] = "open"
    /\ conn # "post" /\ ~ReceiverBusy => ~g_conn_state
    /\ sem_conn + (IF recv = "wait" THEN 0 ELSE 1) <= 1
    /\ recv # "wait" => recv_sock = fd

LinkInv == LinkTypeOK /\ SocketKnown /\ OneToken

\* The flags are true or false.
LinkFlags == cable \in BOOLEAN /\ g_conn_state \in BOOLEAN /\ overtaken \in BOOLEAN

\* The program starts without a socket and without a connection.
LEMMA LinkStarts ==
  ASSUME NEW n \in 0 .. MaxCuts PROVE LinkStart(n) => LinkInv
<1> SUFFICES ASSUME LinkStart(n) PROVE LinkInv
  OBVIOUS
<1>1. LinkFlags /\ ~g_conn_state
  BY DEF LinkStart, LinkFlags
<1>2. LinkTypeOK
  BY <1>1 DEF LinkStart, LinkFlags, LinkTypeOK
<1>3. QED
  BY <1>1, <1>2, NetLinkAssumption DEF LinkStart, LinkInv, SocketKnown, OneToken, ReceiverBusy

\* A restart closes every socket of the process.
LEMMA LinkRestarts == LinkInv /\ LinkRestart => LinkInv'
<1> SUFFICES ASSUME LinkInv, LinkRestart PROVE LinkInv'
  OBVIOUS
<1>1. LinkFlags' /\ ~g_conn_state'
  BY DEF LinkRestart, LinkInv, LinkTypeOK, LinkFlags
<1>2. LinkTypeOK'
  BY <1>1 DEF LinkRestart, LinkInv, LinkFlags, LinkTypeOK
<1>3. QED
  BY <1>1, <1>2, NetLinkAssumption
     DEF LinkRestart, LinkInv, SocketKnown, OneToken, ReceiverBusy

\* Steps of the other components leave the link alone.
LEMMA LinkFrame == LinkInv /\ UNCHANGED linkVars => LinkInv'
BY DEF linkVars, LinkInv, LinkTypeOK, SocketKnown, OneToken, ReceiverBusy

\* Each step of the network and of the two threads keeps the invariant.
LEMMA LinkSteps ==
  LinkInv /\ (NetworkStep \/ ConnectStep \/ ReceiveStep \/ ReceiveFrame \/ HandlerReturns)
    => LinkInv'
<1> USE NetLinkAssumption
<1> USE DEF LinkInv, SocketKnown, OneToken, ReceiverBusy, LinkFlags
<1> SUFFICES ASSUME LinkInv,
                    NetworkStep \/ ConnectStep \/ ReceiveStep \/ ReceiveFrame \/ HandlerReturns
             PROVE  LinkInv'
  OBVIOUS
<1>1. CASE CableOut
  <2>1. LinkFlags'
    BY <1>1 DEF CableOut, LinkTypeOK
  <2>2. LinkTypeOK'
    BY <1>1, <2>1 DEF CableOut, LinkTypeOK
  <2>3. QED
    BY <1>1, <2>1, <2>2 DEF CableOut, LinkTypeOK
<1>2. CASE CableIn
  <2>1. LinkFlags'
    BY <1>2 DEF CableIn, LinkTypeOK
  <2>2. LinkTypeOK'
    BY <1>2, <2>1 DEF CableIn, LinkTypeOK
  <2>3. QED
    BY <1>2, <2>1, <2>2 DEF CableIn, LinkTypeOK
<1>3. ASSUME NEW s \in Sockets, PcGone(s) PROVE LinkInv'
  BY <1>3 DEF PcGone, LinkTypeOK
<1>4. ASSUME NEW s \in Sockets, TcpClientCreateSocket(s) PROVE LinkInv'
  <2>1. LinkFlags'
    BY <1>4 DEF TcpClientCreateSocket, LinkTypeOK
  <2>2. LinkTypeOK'
    BY <1>4, <2>1 DEF TcpClientCreateSocket, ShakehandWithPc, LinkTypeOK
  <2>3. QED
    BY <1>4, <2>1, <2>2 DEF TcpClientCreateSocket, ShakehandWithPc, LinkTypeOK
<1>5. CASE ClientConnectServer
  BY <1>5 DEF ClientConnectServer, LinkTypeOK
<1>6. CASE LinkOn
  <2>1. LinkFlags' /\ g_conn_state'
    BY <1>6 DEF LinkOn, LinkTypeOK
  <2>2. LinkTypeOK'
    BY <1>6, <2>1 DEF LinkOn, LinkTypeOK
  <2>3. QED
    BY <1>6, <2>1, <2>2 DEF LinkOn, LinkTypeOK
<1>7. CASE PostConnState
  BY <1>7 DEF PostConnState, LinkTypeOK
<1>8. CASE CheckLinkStatus
  BY <1>8 DEF CheckLinkStatus, LinkTypeOK
<1>9. CASE ConnectBreak
  BY <1>9 DEF ConnectBreak, CloseSocket, LinkTypeOK
<1>10. CASE ConnectOff
  <2>1. LinkFlags' /\ ~g_conn_state'
    BY <1>10 DEF ConnectOff, LinkTypeOK
  <2>2. LinkTypeOK'
    BY <1>10, <2>1 DEF ConnectOff, LinkTypeOK
  <2>3. QED
    BY <1>10, <2>1, <2>2 DEF ConnectOff, LinkTypeOK
<1>11. CASE WaitConnState
  BY <1>11 DEF WaitConnState, LinkTypeOK
<1>12. CASE ReceiveError
  BY <1>12 DEF ReceiveError, LinkTypeOK
<1>13. CASE ReceiveBreak
  BY <1>13 DEF ReceiveBreak, CloseSocket, LinkTypeOK
<1>14. CASE ReceiveOff
  <2>1. LinkFlags' /\ ~g_conn_state'
    BY <1>14 DEF ReceiveOff, LinkTypeOK
  <2>2. LinkTypeOK'
    BY <1>14, <2>1 DEF ReceiveOff, LinkTypeOK
  <2>3. QED
    BY <1>14, <2>1, <2>2 DEF ReceiveOff, LinkTypeOK
<1>15. CASE ReceiveFrame
  BY <1>15 DEF ReceiveFrame, LinkTypeOK
<1>16. CASE HandlerReturns
  BY <1>16 DEF HandlerReturns, LinkTypeOK
<1>17. QED
  BY <1>1, <1>2, <1>3, <1>4, <1>5, <1>6, <1>7, <1>8, <1>9, <1>10, <1>11, <1>12,
     <1>13, <1>14, <1>15, <1>16 DEF NetworkStep, ConnectStep, ReceiveStep

\* What the runs check of the link follows from its invariant.
LEMMA LinkConcludes == LinkInv => ConnectsItsSocket /\ LinkAgrees
BY DEF LinkInv, LinkTypeOK, SocketKnown, OneToken, ReceiverBusy, ConnectsItsSocket, LinkAgrees

-----------------------------------------------------------------------------
(* SysConf.  Every version of the file knows every setting, so that loading *)
(* any of them gives each register the value of the memory beside it.       *)

InFpga == {"polar", "kp_width", "in_width", "shoot_delay", "kick_delay",
           "overclock_threshold", "sample_length", "image_size"}

ConfInv == ConfTypeOK /\ DOMAIN reg = InFpga /\ RegistersFollowMemory /\ DurableConfig

\* StartBits and FunctionBits set bits of a register of 16.
LEMMA BitsType ==
  ASSUME NEW b \in SUBSET (0 .. 15), NEW f, NEW v
  PROVE  /\ FunctionBits(b, f) \in SUBSET (0 .. 15)
         /\ CamTrigBits(b, v) \in SUBSET (0 .. 15)
<1>1. \A c \in SUBSET (0 .. 15) : \A m : KickModeBits(c, m) \in SUBSET (0 .. 15)
  BY DEF KickModeBits
<1>2. \A c \in SUBSET (0 .. 15) : \A m : OlShootBits(c, m) \in SUBSET (0 .. 15)
  BY DEF OlShootBits
<1>3. \A c \in SUBSET (0 .. 15) : \A en, m : SecondTubeBits(c, en, m) \in SUBSET (0 .. 15)
  BY DEF SecondTubeBits
<1>4. \A c \in SUBSET (0 .. 15) : \A w : FeedbackBits(c, w) \in SUBSET (0 .. 15)
  BY DEF FeedbackBits
<1>5. \A c \in SUBSET (0 .. 15) : \A w : CamTrigBits(c, w) \in SUBSET (0 .. 15)
  BY DEF CamTrigBits
<1>6. QED
  BY <1>1, <1>2, <1>3, <1>4, <1>5 DEF FunctionBits

\* FUNCSLT is a register of 16 bits after a start too.
LEMMA StartBitsType ==
  ASSUME NEW b \in SUBSET (0 .. 15), NEW conf
  PROVE  StartBits(b, conf) \in SUBSET (0 .. 15)
BY BitsType DEF StartBits

\* After a start memory and registers hold what the file says.
LEMMA LoadedAgree ==
  ASSUME NEW conf, DOMAIN conf = Settings
  PROVE  /\ DOMAIN LoadedMemory(conf) = InMemory
         /\ DOMAIN Registers(conf) = InFpga
         /\ \A c \in InFpga : Registers(conf)[c] = Registers(LoadedMemory(conf))[c]
         /\ LoadedMemory(conf)["function"] = conf["function"]
<1>1. DOMAIN Registers(conf) = InFpga
  BY DEF Registers, InFpga
<1>2. DOMAIN LoadedMemory(conf) = InMemory
  BY DEF LoadedMemory
<1>3. \A c \in InFpga \cup {"function"} : LoadedMemory(conf)[c] = conf[c]
  BY DEF LoadedMemory, InFpga, InMemory, Reloaded, Settings, Numbers
<1>4. \A c \in InFpga : Registers(conf)[c] = Registers(LoadedMemory(conf))[c]
  BY <1>3 DEF Registers, InFpga
<1>5. QED
  BY <1>1, <1>2, <1>3, <1>4

\* The ghost of the kick modes.
Kicks == [last : {0, 1, 2}, delayed : BOOLEAN]

\* The ghost keeps its type whatever settings are applied.
LEMMA KicksType == NoKick \in Kicks /\ \A f : \A k \in Kicks : KickedAfter(k, f) \in Kicks
BY DEF NoKick, Kicks, KickedAfter

\* At the start all versions of the file are one, and memory and registers are
\* loaded from it.
LEMMA ConfStarts == \A settings : ConfInit(settings) => ConfInv
<1> SUFFICES ASSUME NEW settings, ConfInit(settings) PROVE ConfInv
  OBVIOUS
<1>1. DOMAIN key = Settings /\ key = page /\ key = disk /\ expected = {key}
      /\ mem = LoadedMemory(key) /\ reg = Registers(key)
  BY DEF ConfInit, FactoryFile
<1>2. funcslt \in SUBSET (0 .. 15)
  BY StartBitsType DEF ConfInit
<1>3. saving \in BOOLEAN
  BY DEF ConfInit
<1>k. kicked \in Kicks
  BY KicksType DEF ConfInit
<1>4. ConfTypeOK
  BY <1>1, <1>2, <1>3, <1>k, LoadedAgree DEF ConfTypeOK, Kicks
<1>5. QED
  BY <1>1, <1>4, LoadedAgree DEF ConfInv, RegistersFollowMemory, DurableConfig

\* The program starts with some version of the file.
LEMMA ConfReloads ==
  ASSUME ConfInv, NEW conf, DOMAIN conf = Settings, NEW b \in SUBSET (0 .. 15),
         key' = conf, mem' = LoadedMemory(conf), reg' = Registers(conf),
         funcslt' = StartBits(b, conf), saving' = FALSE, kicked' \in Kicks,
         {page', disk'} \subseteq expected', expected' \subseteq expected \cup {conf},
         page' \in expected \cup {conf}, disk' \in expected \cup {conf}
  PROVE  ConfInv'
<1>1. saving' \in BOOLEAN
  OBVIOUS
<1>2. funcslt' \in SUBSET (0 .. 15)
  BY StartBitsType
<1>3. \A t \in {key', page', disk'} \cup expected' : DOMAIN t = Settings
  BY DEF ConfInv, ConfTypeOK
<1>4. ConfTypeOK'
  BY <1>1, <1>2, <1>3, LoadedAgree DEF ConfTypeOK, Kicks
<1>5. QED
  BY <1>4, LoadedAgree DEF ConfInv, RegistersFollowMemory, DurableConfig

\* A restart loads the kernel's version, a loss of power the medium's.
LEMMA ConfRestarts == ConfInv /\ (ConfRestart \/ ConfPowerLoss) => ConfInv'
<1> SUFFICES ASSUME ConfInv, ConfRestart \/ ConfPowerLoss PROVE ConfInv'
  OBVIOUS
<1>t. /\ \A t \in {key, page, disk} \cup expected : DOMAIN t = Settings
      /\ funcslt \in SUBSET (0 .. 15) /\ {page, disk} \subseteq expected
      /\ kicked \in Kicks
  BY DEF ConfInv, ConfTypeOK, DurableConfig, Kicks
<1>1. CASE ConfRestart
  <2>1. kicked' \in Kicks
    BY <1>1, <1>t, KicksType DEF ConfRestart
  <2>2. QED
    BY <1>1, <1>t, <2>1, ConfReloads DEF ConfRestart
<1>2. CASE ConfPowerLoss
  <2>1. PICK conf \in {page, disk} :
          /\ disk' = conf /\ page' = conf /\ key' = conf
          /\ mem' = LoadedMemory(conf) /\ reg' = Registers(conf)
          /\ funcslt' = StartBits({}, conf) /\ saving' = FALSE /\ expected' = {conf}
          /\ kicked' = KickedAfter(NoKick, conf["function"])
    BY <1>2 DEF ConfPowerLoss
  <2>2. {} \in SUBSET (0 .. 15) /\ kicked' \in Kicks
    BY <2>1, KicksType
  <2>3. QED
    BY <1>t, <2>1, <2>2, ConfReloads
<1>3. QED
  BY <1>1, <1>2

\* A setting that the FPGA does not have, and one that it has.
LEMMA RememberKeeps ==
  ASSUME ConfInv, NEW c \in Settings, NEW v, Remember(c, v),
         \/ c \notin InFpga \ {"image_size"} /\ reg' = reg
         \/ c \in InFpga /\ reg' = [reg EXCEPT ![c] = Registers([mem EXCEPT ![c] = v])[c]],
         funcslt' \in SUBSET (0 .. 15), kicked' \in Kicks
  PROVE  ConfInv'
<1>1. saving' \in BOOLEAN
  BY DEF ConfInv, ConfTypeOK, Remember
<1>2. /\ DOMAIN key' = Settings /\ DOMAIN mem' = InMemory /\ DOMAIN reg' = InFpga
      /\ UNCHANGED <<page, disk, expected>>
  BY DEF ConfInv, ConfTypeOK, Remember
<1>3. ConfTypeOK'
  BY <1>1, <1>2 DEF ConfInv, ConfTypeOK, Kicks
<1>4. ASSUME NEW r \in InFpga \ {"image_size"} PROVE reg'[r] = Registers(mem')[r]
  <2>1. r \in InMemory /\ reg[r] = Registers(mem)[r]
    BY DEF ConfInv, RegistersFollowMemory, InMemory, Settings, Numbers, InFpga
  <2>2. CASE r = c
    BY <2>1, <2>2, <1>2 DEF Remember, ConfInv
  <2>3. CASE r # c
    <3>1. mem'[r] = mem[r] /\ reg'[r] = reg[r]
      BY <2>1, <2>3 DEF Remember, ConfInv, ConfTypeOK
    <3>2. \A m : /\ Registers(m)["polar"] = PolarBits(m["polar"])
                 /\ Registers(m)["kp_width"] = OutWidthRegs(m["kp_width"])
                 /\ Registers(m)["in_width"] = InWidthRegs(m["in_width"])
                 /\ Registers(m)["shoot_delay"] = ShootDelayRegs(m["shoot_delay"])
                 /\ Registers(m)["kick_delay"] = KickDelayRegs(m["kick_delay"])
                 /\ Registers(m)["overclock_threshold"] = OverclockReg(m["overclock_threshold"])
                 /\ Registers(m)["sample_length"] = SampleLengthReg(m["sample_length"])
      BY DEF Registers
    <3>3. Registers(mem')[r] = Registers(mem)[r]
      BY <3>1, <3>2 DEF InFpga
    <3>4. QED
      BY <2>1, <3>1, <3>3
  <2>4. QED
    BY <2>2, <2>3
<1>5. QED
  BY <1>2, <1>3, <1>4 DEF ConfInv, RegistersFollowMemory, DurableConfig

\* Each setter, the save and the sync keep the invariant.
LEMMA SetterKeeps ==
  ASSUME ConfInv, NEW v, SetNumber(v) \/ SetFpgaFuncConfig(v)
  PROVE  ConfInv'
<1> USE DEF Settings, Numbers, InFpga
<1>t. funcslt \in SUBSET (0 .. 15) /\ DOMAIN mem = InMemory /\ kicked \in Kicks
  BY DEF ConfInv, ConfTypeOK, Kicks
<1>1. ASSUME NEW c \in Settings, c \notin InFpga \ {"image_size"},
             Remember(c, v), NoRegister
      PROVE  ConfInv'
  BY <1>1, <1>t, RememberKeeps DEF NoRegister
<1>2. ASSUME NEW c \in InFpga, Remember(c, v),
             Program(c, Registers([mem EXCEPT ![c] = v])[c])
      PROVE  ConfInv'
  BY <1>2, <1>t, RememberKeeps DEF Program
<1>3. ASSUME NEW c \in InFpga PROVE [mem EXCEPT ![c] = v][c] = v
  BY <1>t DEF InMemory
<1>4. CASE SetFpgaFuncConfig(v)
  <2>1. funcslt' \in SUBSET (0 .. 15) /\ kicked' \in Kicks
    BY <1>4, <1>t, BitsType, KicksType DEF SetFpgaFuncConfig
  <2>2. QED
    BY <1>4, <2>1, RememberKeeps DEF SetFpgaFuncConfig
<1>5. CASE SetSysSn(v) \/ SetUnusedOutWidth(v) \/ SetVideoConfig(v)
           \/ SetVideoRequirement(v) \/ SetSampleJudgeMode(v) \/ SetSysScreenAngle(v)
           \/ SetImgSendMode(v)
  BY <1>5, <1>1 DEF SetSysSn, SetUnusedOutWidth, SetVideoConfig, SetVideoRequirement,
     SetSampleJudgeMode, SetSysScreenAngle, SetImgSendMode
<1>6. CASE SetSignalPolar(v)
  BY <1>6, <1>2, <1>3 DEF SetSignalPolar, Registers
<1>7. CASE SetOutSignalWidth(v)
  BY <1>7, <1>2, <1>3 DEF SetOutSignalWidth, Registers
<1>8. CASE SetInSignalWidth(v)
  BY <1>8, <1>2, <1>3 DEF SetInSignalWidth, Registers
<1>9. CASE SetShootDelay(v)
  BY <1>9, <1>2, <1>3 DEF SetShootDelay, Registers
<1>10. CASE SetKickDelay(v)
  BY <1>10, <1>2, <1>3 DEF SetKickDelay, Registers
<1>11. CASE SetOcTh(v)
  BY <1>11, <1>2, <1>3 DEF SetOcTh, Registers
<1>12. CASE SetSampleLen(v)
  BY <1>12, <1>2, <1>3 DEF SetSampleLen, Registers
<1>13. QED
  BY <1>4, <1>5, <1>6, <1>7, <1>8, <1>9, <1>10, <1>11, <1>12 DEF SetNumber

\* A save moves the file of memory on towards the medium and changes no setting.
LEMMA SaveKeeps == ConfInv /\ (KeyFileSave \/ Sync \/ UNCHANGED confVars) => ConfInv'
<1> SUFFICES ASSUME ConfInv, KeyFileSave \/ Sync \/ UNCHANGED confVars PROVE ConfInv'
  OBVIOUS
<1>1. saving' \in BOOLEAN
  BY DEF ConfInv, ConfTypeOK, KeyFileSave, Sync, confVars
<1>2. UNCHANGED <<mem, reg, funcslt, kicked>>
  BY DEF KeyFileSave, Sync, confVars
<1>3. ConfTypeOK'
  BY <1>1, <1>2 DEF ConfInv, ConfTypeOK, KeyFileSave, Sync, confVars
<1>4. DurableConfig'
  BY DEF ConfInv, DurableConfig, KeyFileSave, Sync, confVars
<1>5. QED
  BY <1>2, <1>3, <1>4 DEF ConfInv, RegistersFollowMemory

-----------------------------------------------------------------------------
(* FUNCSLT.  As long as the PC sends one of the modes that their comments   *)
(* list (fpga.c:468-474, 509-513, 539-543), the setters write every bit     *)
(* that depends on the function settings, but for bits 11 and 15 with the   *)
(* second station on: those keep what the modes before left there, which    *)
(* the ghost kicked names.  Any other value leaves bits as they are.        *)

KnownModes(f) ==
  f.kick_mode \in {0, 1, 2} /\ f.ol_shoot_mode \in {0, 1} /\ f.second_station_en \in {0, 1}

\* What FunctionBitsAgree says of the source of the kick tube's interrupt, and of
\* all bits; for any bits, settings and modes before.
SourceShows(b, f, k) ==
  /\ 11 \in b <=> f.second_station_en = 1 /\ k.last = 2
  /\ 15 \in b <=> f.second_station_en = 1 /\ k.delayed

BitsShow(b, f, k) ==
  /\ 6 \in b <=> f.kick_mode \in {1, 2}
  /\ 7 \in b <=> f.kick_mode = 2
  /\ {2, 9} \subseteq b
  /\ 10 \in b <=> f.ol_shoot_mode = 0
  /\ \A n \in {4, 12} : n \in b <=> f.second_station_en = 1
  /\ 13 \in b <=> Bit(f.feedback, 0)
  /\ 14 \in b <=> Bit(f.feedback, 1)
  /\ SourceShows(b, f, k)

\* The bits of the source are what the ghost says, before the settings change.
SourceKept(b, k) ==
  /\ 11 \in b <=> k.last = 2
  /\ 15 \in b <=> k.delayed

\* A fresh ghost goes with a register in which both bits are 0.
LEMMA NothingKept == \A b : 11 \notin b /\ 15 \notin b => SourceKept(b, NoKick)
BY DEF SourceKept, NoKick

\* With the second station off the ghost is NoKick.
KickFits(f, k) == f.second_station_en = 0 => k = NoKick

\* Both bits are 0 then, so that what the register shows is also what it keeps.
LEMMA ShownIsKept ==
  ASSUME NEW b, NEW f, NEW k, KnownModes(f), SourceShows(b, f, k), KickFits(f, k)
  PROVE  SourceKept(b, k)
<1>1. CASE f.second_station_en = 0
  BY <1>1, NothingKept DEF SourceShows, KickFits
<1>2. CASE f.second_station_en = 1
  BY <1>2 DEF SourceShows, SourceKept
<1>3. QED
  BY <1>1, <1>2 DEF KnownModes

\* The two functions that write the source, one after the other.
LEMMA SourceFollows ==
  ASSUME NEW b, NEW f, NEW k, KnownModes(f), SourceKept(b, k), k.delayed \in BOOLEAN,
         NEW b1, b1 = KickModeBits(b, f.kick_mode),
         NEW b2, 11 \in b2 <=> 11 \in b1, 15 \in b2 <=> 15 \in b1
  PROVE  SourceShows(SecondTubeBits(b2, f.second_station_en, f.kick_mode), f,
                     KickedAfter(k, f))
<1> DEFINE b3 == SecondTubeBits(b2, f.second_station_en, f.kick_mode)
           k3 == KickedAfter(k, f)
<1>1. CASE f.second_station_en = 0
  <2>1. 11 \notin b3 /\ 15 \notin b3
    BY <1>1 DEF SecondTubeBits
  <2>2. QED
    BY <1>1, <2>1 DEF SourceShows
<1>2. CASE f.second_station_en = 1 /\ f.kick_mode = 0
  <2>1. 11 \in b1 <=> 11 \in b
    BY <1>2 DEF KickModeBits
  <2>2. 15 \in b1 <=> 15 \in b
    BY <1>2 DEF KickModeBits
  <2>3. b3 = b2 \cup {4, 12}
    BY <1>2 DEF SecondTubeBits
  <2>4. k3.last = k.last /\ (k3.delayed <=> k.delayed)
    BY <1>2 DEF KickedAfter
  <2> HIDE DEF b3, k3
  <2>5. SourceShows(b3, f, k3)
    BY <1>2, <2>1, <2>2, <2>3, <2>4 DEF SourceShows, SourceKept
  <2>6. QED
    BY <2>5 DEF b3, k3
<1>3. CASE f.second_station_en = 1 /\ f.kick_mode = 1
  <2>1. 11 \notin b3 /\ 15 \in b3
    BY <1>3 DEF SecondTubeBits
  <2>2. k3.last = 1
    BY <1>3 DEF KickedAfter
  <2>3. k3.delayed
    <3>1. f.second_station_en # 0
      BY <1>3
    <3>2. QED
      BY <1>3, <3>1, Zenon DEF KickedAfter
  <2> HIDE DEF b3, k3
  <2>4. SourceShows(b3, f, k3)
    BY <1>3, <2>1, <2>2, <2>3 DEF SourceShows
  <2>5. QED
    BY <2>4 DEF b3, k3
<1>4. CASE f.second_station_en = 1 /\ f.kick_mode = 2
  <2>1. 15 \in b1 <=> 15 \in b
    BY <1>4 DEF KickModeBits
  <2>2. b3 = b2 \cup {4, 12, 11}
    BY <1>4 DEF SecondTubeBits
  <2>3. k3.last = 2 /\ (k3.delayed <=> k.delayed)
    BY <1>4 DEF KickedAfter
  <2> HIDE DEF b3, k3
  <2>4. SourceShows(b3, f, k3)
    BY <1>4, <2>1, <2>2, <2>3 DEF SourceShows, SourceKept
  <2>5. QED
    BY <2>4 DEF b3, k3
<1>5. QED
  BY <1>1, <1>2, <1>3, <1>4 DEF KnownModes

\* sc_set_fpga_func_config calls its four functions in this order.
LEMMA FunctionBitsShow ==
  ASSUME NEW b, 2 \in b, NEW f, KnownModes(f),
         NEW k, SourceKept(b, k), k.delayed \in BOOLEAN
  PROVE  BitsShow(FunctionBits(b, f), f, KickedAfter(k, f))
<1> DEFINE b1 == KickModeBits(b, f.kick_mode)
           b2 == OlShootBits(b1, f.ol_shoot_mode)
           b3 == SecondTubeBits(b2, f.second_station_en, f.kick_mode)
           b4 == FeedbackBits(b3, f.feedback)
<1>1. /\ 6 \in b1 <=> f.kick_mode \in {1, 2}
      /\ 7 \in b1 <=> f.kick_mode = 2
      /\ 2 \in b1
  BY DEF KickModeBits, KnownModes
<1>2. /\ \A n \in {2, 6, 7} : n \in b2 <=> n \in b1
      /\ 9 \in b2
      /\ 10 \in b2 <=> f.ol_shoot_mode = 0
  <2> HIDE DEF b1
  <2>1. QED
    BY DEF OlShootBits, KnownModes
<1>3. /\ \A n \in {2, 6, 7, 9, 10} : n \in b3 <=> n \in b2
      /\ \A n \in {4, 12} : n \in b3 <=> f.second_station_en = 1
  <2> HIDE DEF b2
  <2>1. CASE f.second_station_en = 0
    BY <2>1, <1>2 DEF SecondTubeBits
  <2>2. CASE f.second_station_en = 1
    BY <2>2, <1>2 DEF SecondTubeBits, KnownModes
  <2>3. QED
    BY <2>1, <2>2 DEF KnownModes
<1>4. /\ \A n \in {2, 4, 6, 7, 9, 10, 11, 12, 15} : n \in b4 <=> n \in b3
      /\ 13 \in b4 <=> Bit(f.feedback, 0)
      /\ 14 \in b4 <=> Bit(f.feedback, 1)
  <2> HIDE DEF b3
  <2>1. QED
    BY DEF FeedbackBits
<1>5. FunctionBits(b, f) = b4
  BY DEF FunctionBits
<1>6. \A n \in {11, 15} : n \in b2 <=> n \in b1
  <2> HIDE DEF b1
  <2>1. QED
    BY DEF OlShootBits
<1>7. SourceShows(b3, f, KickedAfter(k, f))
  <2>1. b1 = KickModeBits(b, f.kick_mode)
    OBVIOUS
  <2> HIDE DEF b1, b2
  <2>2. QED
    BY <1>6, <2>1, SourceFollows
<1> HIDE DEF b1, b2, b3, b4
<1>8. SourceShows(b4, f, KickedAfter(k, f))
  BY <1>4, <1>7 DEF SourceShows
<1>9. QED
  BY <1>1, <1>2, <1>3, <1>4, <1>5, <1>8 DEF BitsShow

\* A start does what a change to the settings of the file would do.
LEMMA StartBitsShow ==
  ASSUME NEW b, NEW conf, KnownModes(conf["function"]),
         NEW k, SourceKept(b, k), k.delayed \in BOOLEAN
  PROVE  BitsShow(StartBits(b, conf), conf["function"], KickedAfter(k, conf["function"]))
<1> DEFINE c == FunctionBits(b \cup {2}, conf["function"])
           k1 == KickedAfter(k, conf["function"])
<1>1. SourceKept(b \cup {2}, k)
  BY DEF SourceKept
<1>2. BitsShow(c, conf["function"], k1)
  BY <1>1, FunctionBitsShow
<1>3. \A n \in {2, 4, 6, 7, 9, 10, 11, 12, 13, 14, 15} : n \in StartBits(b, conf) <=> n \in c
  BY DEF StartBits, CamTrigBits
<1> HIDE DEF c, k1
<1>4. SourceShows(StartBits(b, conf), conf["function"], k1)
  BY <1>2, <1>3 DEF BitsShow, SourceShows
<1>5. BitsShow(StartBits(b, conf), conf["function"], k1)
  BY <1>2, <1>3, <1>4 DEF BitsShow
<1>6. QED
  BY <1>5 DEF k1

\* The ghost fits the settings whose application it records.
LEMMA KickFollows ==
  ASSUME NEW f, NEW k, k.delayed \in BOOLEAN
  PROVE  KickFits(f, KickedAfter(k, f)) /\ KickedAfter(k, f).delayed \in BOOLEAN
BY DEF KickFits, KickedAfter, NoKick

\* Every version of the file, and so the memory, has function settings the PC
\* has sent or the factory has set.
FunctionInv ==
  /\ \A t \in {key, page, disk, mem} : t["function"] \in FuncConfigs
  /\ BitsShow(funcslt, mem["function"], kicked)
  /\ KickFits(mem["function"], kicked) /\ kicked.delayed \in BOOLEAN

\* The first start sets the bits that the first file asks for.
LEMMA FunctionStarts ==
  ASSUME \A f \in FuncConfigs : KnownModes(f), NEW settings, ConfInit(settings)
  PROVE  FunctionInv
<1>1. key["function"] \in FuncConfigs
  BY SysConfAssumption DEF ConfInit, FactoryFile, Settings
<1>2. DOMAIN key = Settings
  BY DEF ConfInit, FactoryFile
<1>3. mem["function"] = key["function"]
  BY <1>2, LoadedAgree DEF ConfInit
<1>4. SourceKept({}, NoKick) /\ NoKick.delayed \in BOOLEAN
  BY NothingKept DEF NoKick
<1>5. BitsShow(funcslt, mem["function"], kicked)
  BY <1>1, <1>3, <1>4, StartBitsShow DEF ConfInit
<1>6. KickFits(mem["function"], kicked) /\ kicked.delayed \in BOOLEAN
  BY <1>3, <1>4, KickFollows DEF ConfInit
<1>7. QED
  BY <1>1, <1>3, <1>5, <1>6 DEF ConfInit, FunctionInv

\* Setters, saves and restarts keep the bits and the settings together.
LEMMA FunctionKeeps ==
  ASSUME \A f \in FuncConfigs : KnownModes(f), ConfInv, FunctionInv,
         \/ \E v \in Values : SetNumber(v)
         \/ \E f \in FuncConfigs : SetFpgaFuncConfig(f)
         \/ KeyFileSave \/ Sync \/ ConfRestart \/ ConfPowerLoss \/ UNCHANGED confVars
  PROVE  FunctionInv'
<1>t. /\ \A t \in {key, page, disk} : DOMAIN t = Settings
      /\ DOMAIN mem = InMemory /\ "function" \in InMemory /\ "function" \in Settings
      /\ 2 \in funcslt /\ kicked.delayed \in BOOLEAN
  BY DEF ConfInv, ConfTypeOK, FunctionInv, BitsShow, InMemory, Settings
<1>k. SourceKept(funcslt, kicked)
  <2>1. mem["function"] \in FuncConfigs
    BY DEF FunctionInv
  <2>2. QED
    BY <2>1, ShownIsKept DEF FunctionInv, BitsShow
<1>1. ASSUME NEW v \in Values, SetNumber(v) PROVE FunctionInv'
  <2>1. PICK c \in Numbers : Remember(c, v)
    BY <1>1 DEF SetNumber, SetSysSn, SetSignalPolar, SetOutSignalWidth, SetUnusedOutWidth,
       SetInSignalWidth, SetShootDelay, SetKickDelay, SetVideoConfig, SetVideoRequirement,
       SetOcTh, SetSampleLen, SetSampleJudgeMode, SetSysScreenAngle, SetImgSendMode, Numbers
  <2>2. funcslt' = funcslt /\ kicked' = kicked
    BY <1>1 DEF SetNumber, SetSysSn, SetSignalPolar, SetOutSignalWidth, SetUnusedOutWidth,
       SetInSignalWidth, SetShootDelay, SetKickDelay, SetVideoConfig, SetVideoRequirement,
       SetOcTh, SetSampleLen, SetSampleJudgeMode, SetSysScreenAngle, SetImgSendMode,
       NoRegister, Program
  <2>3. c # "function"
    BY DEF Numbers
  <2>4. /\ key'["function"] = key["function"] /\ mem'["function"] = mem["function"]
        /\ UNCHANGED <<page, disk>>
    BY <1>t, <2>1, <2>3 DEF Remember
  <2>5. QED
    BY <2>2, <2>4 DEF FunctionInv
<1>2. ASSUME NEW f \in FuncConfigs, SetFpgaFuncConfig(f) PROVE FunctionInv'
  <2>1. /\ key'["function"] = f /\ mem'["function"] = f
        /\ UNCHANGED <<page, disk>> /\ funcslt' = FunctionBits(funcslt, f)
        /\ kicked' = KickedAfter(kicked, f)
    BY <1>2, <1>t DEF SetFpgaFuncConfig, Remember
  <2>2. BitsShow(funcslt', f, kicked')
    BY <1>t, <1>k, <2>1, FunctionBitsShow
  <2>3. KickFits(f, kicked') /\ kicked'.delayed \in BOOLEAN
    BY <1>t, <2>1, KickFollows
  <2>4. QED
    BY <2>1, <2>2, <2>3 DEF FunctionInv
<1>3. CASE KeyFileSave \/ Sync \/ UNCHANGED confVars
  BY <1>3 DEF KeyFileSave, Sync, confVars, FunctionInv
<1>4. ASSUME NEW conf \in {page, disk}, NEW b, NEW k, SourceKept(b, k), k.delayed \in BOOLEAN,
             key' = conf, mem' = LoadedMemory(conf), funcslt' = StartBits(b, conf),
             kicked' = KickedAfter(k, conf["function"]), {page', disk'} \subseteq {page, disk}
      PROVE  FunctionInv'
  <2>1. mem'["function"] = conf["function"] /\ conf["function"] \in FuncConfigs
    BY <1>4, <1>t, LoadedAgree DEF FunctionInv
  <2>2. BitsShow(funcslt', conf["function"], kicked')
    BY <1>4, <2>1, StartBitsShow
  <2>3. KickFits(conf["function"], kicked') /\ kicked'.delayed \in BOOLEAN
    BY <1>4, KickFollows
  <2>4. QED
    BY <1>4, <2>1, <2>2, <2>3 DEF FunctionInv
<1>5. CASE ConfRestart
  BY <1>5, <1>4, <1>t, <1>k DEF ConfRestart
<1>6. CASE ConfPowerLoss
  <2>1. SourceKept({}, NoKick) /\ NoKick.delayed \in BOOLEAN
    BY NothingKept DEF NoKick
  <2>2. QED
    BY <1>6, <1>4, <2>1 DEF ConfPowerLoss
<1>7. QED
  BY <1>1, <1>2, <1>3, <1>5, <1>6

-----------------------------------------------------------------------------
(* ProgramUpdate.  What the statics of the handler say about the file that  *)
(* is being written, as long as the upload that opened the stream goes on.  *)

Units == {u.id : u \in Uploads} \X Nat
UpdateFlags == file_opened \in BOOLEAN /\ stale \in BOOLEAN /\ wip \in BOOLEAN

UpdateTypeInv ==
  /\ UpdateTypeOK /\ UpdateFlags
  /\ file \in [FileTypes -> Seq(Units)] /\ stored \in [FileTypes -> Seq(Units)]
  /\ sent \in [up : Uploads \cup {Idle.up}, n : Nat]

StreamInv ==
  /\ upd \in {"write", "close"} => file_opened /\ sent.up \in Uploads
  /\ upd = "write" => updated_len < MaxUnits
  /\ upd = "close" => updated_len = sent.up.len
  /\ file_opened => stream \in FileTypes /\ accepted = Idle
  /\ ~stale /\ ~file_opened => sent.n = 0
  /\ ~stale /\ file_opened =>
       /\ sent # Idle /\ stream = sent.up.type
       /\ sent.n = updated_len + (IF upd = "write" THEN 1 ELSE 0)
       /\ file[stream] = [n \in 1 .. updated_len |-> <<sent.up.id, n>>]
  /\ accepted # Idle => /\ accepted.up.type \in FileTypes
                        /\ Whole(file[accepted.up.type], accepted.up)
                        /\ Front(file[accepted.up.type]) = stored[accepted.up.type]

BurnInv ==
  /\ wip => upd \in {"erasing", "programming"}
  /\ upd \in {"erase", "erasing"} => page_no = 0
  /\ upd \in {"erasing", "program", "programming"} =>
       \A p \in 0 .. FlashPages - 1 : flash[p] = IF p < page_no THEN "new" ELSE "erased"

UpdateInv == UpdateTypeInv /\ StreamInv /\ BurnInv

\* What the PC is sending, if it is not idle, is one of its uploads.
LEMMA SentKnown ==
  ASSUME UpdateTypeInv
  PROVE  /\ sent # Idle => sent.up \in Uploads
         /\ sent = Idle => sent.n = 0
         /\ \A u \in Uploads : u.len \in 1 .. MaxUnits /\ u.type \in Nat /\ u # Idle.up
<1>1. \A u \in Uploads : u.len \in 1 .. MaxUnits /\ u.type \in Nat /\ u # Idle.up
  BY ProgramUpdateAssumption DEF Idle
<1>2. ASSUME sent.up = Idle.up PROVE sent = Idle
  <2>1. sent.n \in 0 .. sent.up.len /\ sent.up.len = 0
    BY <1>2 DEF UpdateTypeInv, UpdateTypeOK, Idle
  <2>2. sent.n = 0 /\ sent = [up |-> sent.up, n |-> sent.n]
    BY <2>1 DEF UpdateTypeInv
  <2>3. QED
    BY <1>2, <2>2 DEF Idle
<1>3. QED
  BY <1>1, <1>2 DEF UpdateTypeInv, Idle

\* fwrite puts one unit behind the first updated_len of the file.
LEMMA WriteFacts ==
  ASSUME NEW S, NEW q \in Seq(S), NEW x \in S, NEW n \in Nat
  PROVE  LET r == SubSeq(q, 1, IF Len(q) < n THEN Len(q) ELSE n) \o <<x>>
         IN  /\ r \in Seq(S)
             /\ Len(r) <= n + 1
             /\ Len(q) = n => r = Append(q, x)
<1> DEFINE m == IF Len(q) < n THEN Len(q) ELSE n
           h == SubSeq(q, 1, m)
<1>1. m \in 0 .. Len(q) /\ m <= n /\ (Len(q) = n => m = Len(q))
  OBVIOUS
<1>2. h \in Seq(S) /\ Len(h) = m
  BY <1>1
<1>3. Len(q) = n => h = q
  BY <1>1
<1> HIDE DEF h, m
<1>4. h \o <<x>> \in Seq(S) /\ Len(h \o <<x>>) = m + 1 /\ h \o <<x>> = Append(h, x)
  BY <1>2
<1>5. /\ h \o <<x>> \in Seq(S) /\ Len(h \o <<x>>) <= n + 1
      /\ Len(q) = n => h \o <<x>> = Append(q, x)
  BY <1>1, <1>3, <1>4
<1>6. QED
  BY <1>5, Zenon DEF h, m

\* All of a sequence but its last element.
LEMMA FrontFacts ==
  ASSUME NEW S, NEW q \in Seq(S)
  PROVE  Front(q) \in Seq(S) /\ Len(Front(q)) <= Len(q)
<1>1. CASE q = << >>
  BY <1>1 DEF Front
<1>2. CASE q # << >>
  BY <1>2 DEF Front
<1>3. QED
  BY <1>1, <1>2

\* The program starts with no stream open and no file received.
LEMMA UpdateStarts ==
  ASSUME NEW n \in 0 .. MaxUploads PROVE UpdateStart(n) => UpdateInv
<1> USE ProgramUpdateAssumption
<1> SUFFICES ASSUME UpdateStart(n) PROVE UpdateInv
  OBVIOUS
<1>1. UpdateFlags /\ ~file_opened /\ ~wip
  BY DEF UpdateStart, UpdateFlags
<1>2. /\ file \in [FileTypes -> Seq(Units)] /\ stored = file
      /\ \A t \in FileTypes : Len(file[t]) = 0
      /\ sent \in [up : Uploads \cup {Idle.up}, n : Nat]
      /\ sent = Idle /\ sent.n = 0 /\ sent.up = Idle.up /\ sent.up.len = 0
  BY DEF UpdateStart, Idle
<1>3. UpdateTypeOK
  BY <1>1, <1>2 DEF UpdateStart, UpdateTypeOK, UpdateFlags
<1>4. StreamInv /\ BurnInv
  BY <1>1, <1>2 DEF UpdateStart, StreamInv, BurnInv
<1>5. QED
  BY <1>1, <1>2, <1>3, <1>4 DEF UpdateInv, UpdateTypeInv

UpdateMoves ==
  \/ PcStep \/ UpdateBegin \/ UpdateRefused \/ UpdateHandlerStep \/ FlashReady
  \/ UpdateRestart \/ UpdatePowerLoss

\* Each step keeps the types.
LEMMA UpdateTypeSteps == UpdateInv /\ UpdateMoves => UpdateTypeInv'
<1> USE ProgramUpdateAssumption
<1> SUFFICES ASSUME UpdateInv, UpdateMoves PROVE UpdateTypeInv'
  OBVIOUS
<1>t. /\ UpdateTypeOK /\ UpdateFlags
      /\ file \in [FileTypes -> Seq(Units)] /\ stored \in [FileTypes -> Seq(Units)]
      /\ sent \in [up : Uploads \cup {Idle.up}, n : Nat]
      /\ \A u \in Uploads : u.len \in 1 .. MaxUnits
      /\ sent # Idle => sent.up \in Uploads
      /\ Idle \in [up : Uploads \cup {Idle.up}, n : Nat]
      /\ Idle.n \in 0 .. Idle.up.len
      /\ 0 \in 0 .. MaxUnits /\ 0 \in 0 .. FlashPages
  BY SentKnown DEF UpdateInv, UpdateTypeInv, Idle
<1>e. << >> \in Seq(Units) /\ Len(<< >>) = 0
  OBVIOUS
<1> HIDE DEF Idle
<1>1. ASSUME NEW u \in Uploads, PcStarts(u) PROVE UpdateTypeInv'
  BY <1>1, <1>t DEF PcStarts, UpdateTypeInv, UpdateTypeOK, UpdateFlags, flashVars
<1>2. CASE PcGivesUp
  <2>1. UpdateFlags'
    BY <1>2, <1>t DEF PcGivesUp, UpdateFlags, flashVars
  <2>2. QED
    BY <1>2, <2>1, <1>t DEF PcGivesUp, UpdateTypeInv, UpdateTypeOK, flashVars, UpdateFlags
<1>3. CASE UpdateBegin
  <2>1. UpdateFlags'
    BY <1>3, <1>t DEF UpdateBegin, FopenStream, UpdateFlags, flashVars
  <2>2. /\ file' \in [FileTypes -> Seq(Units)]
        /\ \A t \in FileTypes : Len(file'[t]) <= MaxUnits
        /\ stream' \in FileTypes \cup {0} /\ updated_len' \in 0 .. MaxUnits
    <3>1. CASE file_opened
      BY <1>3, <3>1, <1>t DEF UpdateBegin, FopenStream, UpdateTypeOK
    <3>2. CASE ~file_opened
      <4>1. /\ stream' = sent.up.type /\ updated_len' = 0 /\ sent.up.type \in FileTypes
            /\ file' = [file EXCEPT ![sent.up.type] = << >>]
        BY <1>3, <3>2 DEF UpdateBegin, FopenStream
      <4>2. \A t \in FileTypes : file'[t] = << >> \/ file'[t] = file[t]
        BY <4>1, <1>t
      <4>3. file' \in [FileTypes -> Seq(Units)]
        BY <4>1, <1>e, <1>t
      <4>4. QED
        BY <4>1, <4>2, <4>3, <1>e, <1>t DEF UpdateTypeOK
    <3>3. QED
      BY <3>1, <3>2
  <2>3. sent' \in [up : Uploads \cup {Idle.up}, n : Nat] /\ sent'.n \in 0 .. sent'.up.len
    <3>1. sent.up \in Uploads /\ sent.n < sent.up.len /\ sent' = [sent EXCEPT !.n = @ + 1]
          /\ sent.n \in Nat /\ sent.up.len \in 1 .. MaxUnits
      BY <1>3, <1>t DEF UpdateBegin
    <3>2. sent' = [up |-> sent.up, n |-> sent.n + 1]
      BY <3>1, <1>t
    <3>3. sent'.up = sent.up /\ sent'.n = sent.n + 1
      BY <3>2
    <3>4. sent'.n \in 0 .. sent'.up.len
      BY <3>1, <3>3
    <3>5. sent.up \in Uploads \cup {Idle.up} /\ sent.n + 1 \in Nat
      BY <3>1
    <3>6. sent' \in [up : Uploads \cup {Idle.up}, n : Nat]
      BY <3>2, <3>5
    <3>7. QED
      BY <3>4, <3>6
  <2>4. QED
    BY <1>3, <2>1, <2>2, <2>3, <1>t
       DEF UpdateBegin, UpdateTypeInv, UpdateTypeOK, flashVars, UpdateFlags
<1>4. CASE UpdateRefused
  BY <1>4, <1>t DEF UpdateRefused, UpdateTypeInv, UpdateTypeOK, UpdateFlags, flashVars
<1>5. CASE FwriteUnit
  <2>1. /\ upd = "write" /\ stream \in FileTypes /\ updated_len < MaxUnits
        /\ sent.up \in Uploads /\ updated_len \in Nat
    BY <1>5, <1>t DEF FwriteUnit, UpdateInv, StreamInv, UpdateTypeOK
  <2>2. Unit \in Units
    BY <2>1, <1>t DEF Unit, Units
  <2>3. /\ file' \in [FileTypes -> Seq(Units)]
        /\ \A t \in FileTypes : Len(file'[t]) <= MaxUnits
    <3> DEFINE q == file[stream]
               r == SubSeq(q, 1, IF Len(q) < updated_len THEN Len(q) ELSE updated_len)
                      \o <<Unit>>
    <3>1. q \in Seq(Units)
      BY <2>1, <1>t
    <3>2. r \in Seq(Units) /\ Len(r) <= updated_len + 1
      BY <2>1, <2>2, <3>1, WriteFacts
    <3>3. file' = [file EXCEPT ![stream] = r]
      BY <1>5, <1>t, <2>1 DEF FwriteUnit
    <3> HIDE DEF r, q
    <3>4. Len(r) <= MaxUnits
      BY <3>2, <2>1
    <3>5. QED
      BY <1>t, <2>1, <3>2, <3>3, <3>4 DEF UpdateTypeOK
  <2>4. updated_len' \in 0 .. MaxUnits /\ upd' \in {"close", "none"}
    BY <1>5, <2>1 DEF FwriteUnit
  <2>5. QED
    BY <1>5, <2>3, <2>4, <1>t
       DEF FwriteUnit, UpdateTypeInv, UpdateTypeOK, UpdateFlags, flashVars
<1>6. CASE FwriteFails
  <2>1. UpdateFlags'
    BY <1>6, <1>t DEF FwriteFails, UpdateFlags, flashVars
  <2>2. /\ file' \in [FileTypes -> Seq(Units)]
        /\ \A t \in FileTypes : Len(file'[t]) <= MaxUnits
    <3>1. file' = [file EXCEPT ![sent.up.type] = << >>]
      BY <1>6 DEF FwriteFails
    <3>2. \A t \in FileTypes : file'[t] = << >> \/ file'[t] = file[t]
      BY <3>1, <1>t
    <3>3. file' \in [FileTypes -> Seq(Units)]
      BY <3>1, <1>e, <1>t
    <3>4. QED
      BY <3>2, <3>3, <1>e, <1>t DEF UpdateTypeOK
  <2>3. QED
    BY <1>6, <2>1, <2>2, <1>t
       DEF FwriteFails, UpdateTypeInv, UpdateTypeOK, UpdateFlags, flashVars
<1>7. CASE FsyncFclose
  <2>1. UpdateFlags'
    BY <1>7, <1>t DEF FsyncFclose, UpdateFlags, flashVars
  <2>2. /\ stored' \in [FileTypes -> Seq(Units)]
        /\ \A t \in FileTypes : Len(stored'[t]) <= MaxUnits
    <3>1. stream \in FileTypes
      BY <1>7 DEF FsyncFclose, UpdateInv, StreamInv
    <3>2. Front(file[stream]) \in Seq(Units) /\ Len(Front(file[stream])) <= MaxUnits
      <4>1. file[stream] \in Seq(Units) /\ Len(file[stream]) <= MaxUnits
        BY <3>1, <1>t DEF UpdateTypeOK
      <4>2. QED
        BY <4>1, FrontFacts
    <3>3. QED
      BY <1>7, <3>1, <3>2, <1>t DEF FsyncFclose, UpdateTypeOK
  <2>3. sent' \in [up : Uploads \cup {Idle.up}, n : Nat] /\ sent'.n \in 0 .. sent'.up.len
        /\ sent'.up \in Uploads \cup {Idle.up}
    BY <1>7, <1>t DEF FsyncFclose, UpdateTypeOK
  <2>4. upd' \in {"map", "none"}
    BY <1>7 DEF FsyncFclose
  <2>5. QED
    BY <1>7, <2>1, <2>2, <2>3, <2>4, <1>t
       DEF FsyncFclose, UpdateTypeInv, UpdateTypeOK, UpdateFlags, flashVars
<1>8. CASE BurnNoFile \/ BurnReverse \/ EpcsAwaitWipReleased \/ BurnDone
  BY <1>8, <1>t DEF BurnNoFile, BurnReverse, EpcsAwaitWipReleased, BurnDone, OnlyFlash,
     UpdateTypeInv, UpdateTypeOK, UpdateFlags, flashVars
<1>9. CASE EpcsBulkErase \/ EpcsWriteBuffer
  <2>1. wip' \in BOOLEAN
    BY <1>9, <1>t DEF EpcsBulkErase, EpcsWriteBuffer, SpiCommand, UpdateFlags
  <2>2. flash' \in [0 .. FlashPages - 1 -> {"old", "erased", "new"}]
    <3>1. [p \in DOMAIN flash |-> "erased"] \in [0 .. FlashPages - 1 -> {"old", "erased", "new"}]
      BY <1>t DEF UpdateTypeOK
    <3>2. [flash EXCEPT ![page_no] = IF @ = "erased" THEN "new" ELSE @]
            \in [0 .. FlashPages - 1 -> {"old", "erased", "new"}]
      BY <1>t DEF UpdateTypeOK
    <3>3. QED
      BY <1>9, <3>1, <3>2, <1>t DEF EpcsBulkErase, EpcsWriteBuffer, SpiCommand, UpdateTypeOK
  <2>3. page_no' \in 0 .. FlashPages /\ upd' \in {"erasing", "programming"}
    BY <1>9, <1>t DEF EpcsBulkErase, EpcsWriteBuffer, UpdateTypeOK
  <2>4. QED
    BY <1>9, <2>1, <2>2, <2>3, <1>t DEF EpcsBulkErase, EpcsWriteBuffer, OnlyFlash,
       UpdateTypeInv, UpdateTypeOK, UpdateFlags
<1>10. CASE FlashReady
  <2>1. UpdateFlags'
    BY <1>10, <1>t DEF FlashReady, OnlyFlash, UpdateFlags
  <2>2. QED
    BY <1>10, <2>1, <1>t DEF FlashReady, OnlyFlash, UpdateTypeInv, UpdateTypeOK, UpdateFlags
<1>11. CASE UpdateRestart
  <2>1. UpdateFlags'
    BY <1>11 DEF UpdateRestart, StaticsLost, UpdateFlags
  <2>2. /\ file' \in [FileTypes -> Seq(Units)]
        /\ \A t \in FileTypes : Len(file'[t]) <= MaxUnits
    <3>1. CASE file' = file
      BY <3>1, <1>t DEF UpdateTypeOK
    <3>2. CASE file_opened /\ file' = [file EXCEPT ![stream] = Front(@)]
      <4>1. stream \in FileTypes
        BY <3>2 DEF UpdateInv, StreamInv
      <4>2. file[stream] \in Seq(Units) /\ Len(file[stream]) <= MaxUnits
        BY <4>1, <1>t DEF UpdateTypeOK
      <4>3. Front(file[stream]) \in Seq(Units) /\ Len(Front(file[stream])) <= MaxUnits
        BY <4>2, FrontFacts
      <4>4. QED
        BY <3>2, <4>1, <4>3, <1>t DEF UpdateTypeOK
    <3>3. QED
      BY <1>11, <3>1, <3>2 DEF UpdateRestart
  <2>3. QED
    BY <1>11, <2>1, <2>2, <1>t DEF UpdateRestart, StaticsLost, UpdateTypeInv, UpdateTypeOK
<1>12. CASE UpdatePowerLoss
  <2>1. UpdateFlags'
    BY <1>12 DEF UpdatePowerLoss, StaticsLost, UpdateFlags
  <2>2. /\ file' \in [FileTypes -> Seq(Units)] /\ stored' = file'
        /\ \A t \in FileTypes : Len(file'[t]) <= MaxUnits
    <3>1. PICK lost \in SUBSET FileTypes :
            file' = [t \in FileTypes |-> IF t \in lost THEN stored[t] ELSE file[t]]
      BY <1>12 DEF UpdatePowerLoss
    <3>2. QED
      BY <1>12, <3>1, <1>t DEF UpdatePowerLoss, UpdateTypeOK
  <2>3. QED
    BY <1>12, <2>1, <2>2, <1>t DEF UpdatePowerLoss, StaticsLost, UpdateTypeInv, UpdateTypeOK
<1>13. QED
  BY <1>1, <1>2, <1>3, <1>4, <1>5, <1>6, <1>7, <1>8, <1>9, <1>10, <1>11, <1>12
     DEF UpdateMoves, PcStep, UpdateHandlerStep

\* Each step keeps what the statics say about the file.
LEMMA StreamSteps == UpdateInv /\ UpdateMoves => StreamInv'
<1> USE ProgramUpdateAssumption
<1> SUFFICES ASSUME UpdateInv, UpdateMoves PROVE StreamInv'
  OBVIOUS
<1>t. /\ file \in [FileTypes -> Seq(Units)] /\ stored \in [FileTypes -> Seq(Units)]
      /\ updated_len \in 0 .. MaxUnits /\ stream \in FileTypes \cup {0}
      /\ sent \in [up : Uploads \cup {Idle.up}, n : Nat] /\ sent.n \in 0 .. sent.up.len
      /\ Idle.n = 0
      /\ \A u \in Uploads : u.len \in 1 .. MaxUnits
      /\ sent # Idle => sent.up \in Uploads
      /\ file_opened \in BOOLEAN /\ stale \in BOOLEAN
  BY SentKnown DEF UpdateInv, UpdateTypeInv, UpdateTypeOK, UpdateFlags, Idle
<1>s. StreamInv
  BY DEF UpdateInv
<1> HIDE DEF Idle
<1>f. ASSUME UNCHANGED <<file_opened, stream, updated_len, file, stored, sent, accepted, stale>>,
             upd' \notin {"write", "close"}, upd # "write"
      PROVE  StreamInv'
  BY <1>f, <1>s DEF StreamInv, Whole
<1>1. ASSUME NEW u \in Uploads, PcStarts(u) PROVE StreamInv'
  <2>1. sent' = [up |-> u, n |-> 0] /\ sent = Idle /\ sent'.n = 0
    BY <1>1 DEF PcStarts
  <2>2. ~stale => ~file_opened
    BY <2>1, <1>s DEF StreamInv
  <2>3. UNCHANGED <<file_opened, stream, updated_len, file, stored, accepted, stale, upd>>
        /\ upd = "none"
    BY <1>1 DEF PcStarts
  <2>4. QED
    BY <2>1, <2>2, <2>3, <1>s DEF StreamInv, Whole
<1>2. CASE PcGivesUp
  <2>1. ~stale' => ~file_opened
    BY <1>2 DEF PcGivesUp
  <2>2. UNCHANGED <<file_opened, stream, updated_len, file, stored, accepted, upd>>
        /\ upd = "none" /\ sent'.n = 0
    BY <1>2, <1>t DEF PcGivesUp
  <2>3. QED
    BY <2>1, <2>2, <1>s DEF StreamInv, Whole
<1>3. CASE UpdateBegin
  <2>1. /\ upd = "none" /\ sent # Idle /\ sent.up \in Uploads /\ sent.up.type \in FileTypes
        /\ sent' = [sent EXCEPT !.n = @ + 1] /\ upd' = "write" /\ sent.n \in Nat
        /\ accepted' = IF file_opened THEN accepted ELSE Idle
        /\ UNCHANGED <<stored, stale>>
    BY <1>3, <1>t DEF UpdateBegin
  <2>2. sent'.up = sent.up /\ sent'.n = sent.n + 1 /\ sent' # Idle
    BY <2>1, <1>t
  <2>3. CASE file_opened
    <3>1. UNCHANGED <<file_opened, stream, updated_len, file>> /\ updated_len < MaxUnits
          /\ accepted' = Idle
      BY <1>3, <2>1, <2>3, <1>s DEF UpdateBegin, FopenStream, StreamInv
    <3>2. ~stale => /\ stream = sent.up.type /\ sent.n = updated_len
                    /\ file[stream] = [n \in 1 .. updated_len |-> <<sent.up.id, n>>]
      BY <1>s, <2>1, <2>3, <1>t DEF StreamInv
    <3>3. QED
      BY <2>1, <2>2, <2>3, <3>1, <3>2, <1>s DEF StreamInv
  <2>4. CASE ~file_opened
    <3>1. /\ file_opened' /\ stream' = sent.up.type /\ updated_len' = 0
          /\ file'[sent.up.type] = << >> /\ accepted' = Idle
      BY <1>3, <2>1, <2>4, <1>t DEF UpdateBegin, FopenStream
    <3>2. ~stale => sent.n = 0
      BY <1>s, <2>4 DEF StreamInv
    <3>3. 0 < MaxUnits
      BY <2>1, <1>t
    <3>4. [n \in 1 .. 0 |-> <<sent.up.id, n>>] = << >>
      OBVIOUS
    <3>5. QED
      BY <2>1, <2>2, <3>1, <3>2, <3>3, <3>4 DEF StreamInv
  <2>5. QED
    BY <2>3, <2>4
<1>4. CASE UpdateRefused
  <2>1. /\ upd = "none" /\ sent' = Idle /\ stale' = file_opened
        /\ UNCHANGED <<file_opened, stream, updated_len, file, stored, accepted, upd>>
    BY <1>4 DEF UpdateRefused
  <2>2. sent'.n = 0
    BY <2>1, <1>t
  <2>3. QED
    BY <2>1, <2>2, <1>s DEF StreamInv, Whole
<1>5. CASE FwriteUnit
  <2> DEFINE q == file[stream]
             r == SubSeq(q, 1, IF Len(q) < updated_len THEN Len(q) ELSE updated_len)
                    \o <<Unit>>
  <2>1. /\ upd = "write" /\ file_opened /\ stream \in FileTypes /\ sent.up \in Uploads
        /\ accepted = Idle /\ q \in Seq(Units) /\ updated_len \in Nat /\ updated_len < MaxUnits
    BY <1>5, <1>s, <1>t DEF FwriteUnit, StreamInv
  <2>2. /\ updated_len' = updated_len + 1
        /\ upd' = IF updated_len' = sent.up.len THEN "close" ELSE "none"
        /\ UNCHANGED <<file_opened, stream, stored, sent, accepted, stale>>
        /\ file' = [file EXCEPT ![stream] = r]
    BY <1>5, <1>t, <2>1 DEF FwriteUnit
  <2>3. Unit \in Units
    BY <2>1, <1>t DEF Unit, Units
  <2>4. file'[stream] = r
    BY <2>1, <2>2, <1>t
  <2>5. ASSUME ~stale
        PROVE  /\ stream = sent.up.type /\ sent # Idle /\ sent.n = updated_len + 1
               /\ r = [n \in 1 .. (updated_len + 1) |-> <<sent.up.id, n>>]
    <3>1. /\ stream = sent.up.type /\ sent.n = updated_len + 1 /\ sent # Idle
          /\ q = [n \in 1 .. updated_len |-> <<sent.up.id, n>>]
      BY <1>s, <2>1, <2>5 DEF StreamInv
    <3>2. Len(q) = updated_len
      BY <2>1, <3>1
    <3>3. r = Append(q, Unit)
      BY <2>1, <2>3, <3>2, WriteFacts
    <3>4. Unit = <<sent.up.id, updated_len + 1>>
      BY <3>1 DEF Unit
    <3>5. Append(q, Unit) = [n \in 1 .. (updated_len + 1) |-> <<sent.up.id, n>>]
      BY <2>1, <3>1, <3>2, <3>4
    <3>6. QED
      BY <3>1, <3>3, <3>5
  <2> HIDE DEF r, q
  <2>6. ~stale => file'[stream'] = [n \in 1 .. updated_len' |-> <<sent'.up.id, n>>]
    <3>1. SUFFICES ASSUME ~stale PROVE file'[stream'] = [n \in 1 .. updated_len' |-> <<sent'.up.id, n>>]
      OBVIOUS
    <3>2. /\ stream' = stream /\ sent' = sent /\ updated_len' = updated_len + 1
          /\ file'[stream] = r /\ r = [n \in 1 .. (updated_len + 1) |-> <<sent.up.id, n>>]
      BY <2>2, <2>4, <2>5, <3>1
    <3>3. QED
      BY <3>2, Zenon
  <2>7. /\ stream' = stream /\ sent' = sent /\ accepted' = Idle /\ file_opened'
        /\ stale' = stale /\ updated_len' = updated_len + 1
        /\ upd' \in {"none", "close"} /\ (upd' = "close" => updated_len' = sent.up.len)
    BY <2>1, <2>2
  <2>8. ~stale => stream = sent.up.type /\ sent # Idle /\ sent.n = updated_len + 1
    BY <2>5
  <2>9. sent'.up \in Uploads /\ stream' \in FileTypes
    BY <2>1, <2>7
  <2>10. sent'.n = sent.n /\ sent'.up.type = sent.up.type /\ sent'.up.len = sent.up.len
    BY <2>7
  <2>11. updated_len' + 0 = updated_len'
    BY <2>1, <2>7
  <2>12. QED
    BY <2>6, <2>7, <2>8, <2>9, <2>10, <2>11 DEF StreamInv
<1>6. CASE FwriteFails
  <2>1. /\ file_opened /\ accepted = Idle /\ accepted' = Idle
        /\ ~file_opened' /\ upd' = "none" /\ sent'.n = 0
    BY <1>6, <1>s, <1>t DEF FwriteFails, StreamInv
  <2>2. QED
    BY <2>1 DEF StreamInv
<1>7. CASE FsyncFclose
  <2>1. /\ upd = "close" /\ file_opened /\ sent.up \in Uploads /\ stream \in FileTypes
        /\ updated_len = sent.up.len
    BY <1>7, <1>s DEF FsyncFclose, StreamInv
  <2>2. /\ stored' = [stored EXCEPT ![stream] = Front(file[stream])] /\ ~file_opened'
        /\ accepted' = (IF stale THEN Idle ELSE sent) /\ upd' \in {"map", "none"}
        /\ sent' = IF sent.n = sent.up.len THEN Idle ELSE sent
        /\ stale' = (stale /\ sent.n # sent.up.len)
        /\ UNCHANGED <<stream, updated_len, file>>
    BY <1>7 DEF FsyncFclose
  <2>3. stored'[stream] = Front(file[stream])
    BY <2>1, <2>2, <1>t
  <2>4. CASE stale
    BY <2>1, <2>2, <2>4, <1>t DEF StreamInv
  <2>5. CASE ~stale
    <3>1. /\ stream = sent.up.type /\ sent.n = updated_len
          /\ file[stream] = [n \in 1 .. updated_len |-> <<sent.up.id, n>>]
      BY <1>s, <2>1, <2>5, <1>7 DEF StreamInv, FsyncFclose
    <3>2. sent' = Idle /\ sent'.n = 0 /\ accepted' = sent
      BY <2>1, <2>2, <2>5, <3>1, <1>t
    <3>3. Whole(file'[stream], sent.up)
      BY <2>1, <2>2, <3>1 DEF Whole
    <3>4. QED
      BY <2>1, <2>2, <2>3, <3>1, <3>2, <3>3 DEF StreamInv
  <2>6. QED
    BY <2>4, <2>5
<1>8. CASE BurnNoFile \/ BurnReverse \/ EpcsBulkErase \/ EpcsWriteBuffer
           \/ EpcsAwaitWipReleased \/ BurnDone
  BY <1>8, <1>f DEF BurnNoFile, BurnReverse, EpcsBulkErase, EpcsWriteBuffer, EpcsAwaitWipReleased,
     BurnDone, OnlyFlash
<1>9. CASE FlashReady
  BY <1>9, <1>s DEF FlashReady, OnlyFlash, StreamInv, Whole
<1>10. CASE UpdateRestart
  <2>1. /\ ~file_opened' /\ sent'.n = 0 /\ upd' = "none" /\ UNCHANGED <<stored, accepted>>
    BY <1>10, <1>t DEF UpdateRestart, StaticsLost
  <2>2. accepted # Idle => file' = file
    BY <1>10, <1>s DEF UpdateRestart, StreamInv
  <2>3. QED
    BY <2>1, <2>2, <1>s DEF StreamInv, Whole
<1>11. CASE UpdatePowerLoss
  <2>1. /\ ~file_opened' /\ sent'.n = 0 /\ upd' = "none" /\ accepted' = Idle
    BY <1>11, <1>t DEF UpdatePowerLoss, StaticsLost
  <2>2. QED
    BY <2>1 DEF StreamInv
<1>12. QED
  BY <1>1, <1>2, <1>3, <1>4, <1>5, <1>6, <1>7, <1>8, <1>9, <1>10, <1>11
     DEF UpdateMoves, PcStep, UpdateHandlerStep

\* Each step keeps what page_no and the write-in-progress bit say about the flash.
LEMMA BurnSteps == UpdateInv /\ UpdateMoves => BurnInv'
<1> USE ProgramUpdateAssumption
<1> SUFFICES ASSUME UpdateInv, UpdateMoves PROVE BurnInv'
  OBVIOUS
<1>t. /\ page_no \in 0 .. FlashPages /\ wip \in BOOLEAN
      /\ flash \in [0 .. FlashPages - 1 -> {"old", "erased", "new"}]
  BY DEF UpdateInv, UpdateTypeInv, UpdateTypeOK, UpdateFlags
<1>b. BurnInv
  BY DEF UpdateInv
<1>f. ASSUME UNCHANGED flashVars, upd \in {"none", "write", "close"},
             upd' \in {"none", "write", "close", "map"}
      PROVE  BurnInv'
  BY <1>f, <1>b DEF flashVars, BurnInv
<1>1. CASE PcStep \/ UpdateBegin \/ UpdateRefused
  BY <1>1, <1>f DEF PcStep, PcGivesUp, PcStarts, UpdateBegin, UpdateRefused, flashVars
<1>2. CASE FwriteUnit \/ FwriteFails \/ FsyncFclose
  BY <1>2, <1>f DEF FwriteUnit, FwriteFails, FsyncFclose, flashVars
<1>3. CASE BurnNoFile \/ BurnReverse
  BY <1>3, <1>b DEF BurnNoFile, BurnReverse, flashVars, BurnInv
<1>4. CASE EpcsBulkErase
  <2>1. ~wip /\ page_no = 0 /\ page_no' = 0 /\ upd' = "erasing"
    BY <1>4, <1>b DEF EpcsBulkErase, BurnInv
  <2>2. flash' = [p \in 0 .. FlashPages - 1 |-> "erased"]
    BY <1>4, <2>1, <1>t DEF EpcsBulkErase, SpiCommand
  <2>3. QED
    BY <2>1, <2>2 DEF BurnInv
<1>5. CASE EpcsWriteBuffer
  <2>1. ~wip /\ page_no < FlashPages /\ page_no' = page_no + 1 /\ upd' = "programming"
        /\ \A p \in 0 .. FlashPages - 1 : flash[p] = IF p < page_no THEN "new" ELSE "erased"
    BY <1>5, <1>b DEF EpcsWriteBuffer, BurnInv
  <2>2. flash' = [flash EXCEPT ![page_no] = IF @ = "erased" THEN "new" ELSE @]
    BY <1>5, <2>1 DEF EpcsWriteBuffer, SpiCommand
  <2>3. \A p \in 0 .. FlashPages - 1 : flash'[p] = IF p < page_no + 1 THEN "new" ELSE "erased"
    BY <2>1, <2>2, <1>t
  <2>4. QED
    BY <2>1, <2>3 DEF BurnInv
<1>6. CASE EpcsAwaitWipReleased \/ BurnDone
  BY <1>6, <1>b DEF EpcsAwaitWipReleased, BurnDone, flashVars, BurnInv
<1>7. CASE FlashReady
  <2>1. ~wip' /\ UNCHANGED <<upd, page_no, flash>>
    BY <1>7 DEF FlashReady
  <2>2. QED
    BY <2>1, <1>b DEF BurnInv
<1>8. CASE UpdateRestart \/ UpdatePowerLoss
  <2>1. ~wip' /\ upd' = "none"
    BY <1>8 DEF UpdateRestart, UpdatePowerLoss, StaticsLost
  <2>2. QED
    BY <2>1 DEF BurnInv
<1>9. QED
  BY <1>1, <1>2, <1>3, <1>4, <1>5, <1>6, <1>7, <1>8 DEF UpdateMoves, UpdateHandlerStep

\* Each step of the update keeps its types, its streams and its burning.
LEMMA UpdateSteps == UpdateInv /\ UpdateMoves => UpdateInv'
BY UpdateTypeSteps, StreamSteps, BurnSteps DEF UpdateInv

\* Steps of the other components leave the update alone.
LEMMA UpdateFrame == UpdateInv /\ UNCHANGED updVars => UpdateInv'
BY DEF updVars, UpdateInv, UpdateTypeInv, UpdateTypeOK, UpdateFlags, StreamInv, Whole, BurnInv

\* What the runs check of the update follows from its invariant.
LEMMA UpdateConcludes ==
  UpdateInv => UpdateTypeOK /\ CompleteIsWhole /\ CompleteIsStored /\ BurnComplete
BY DEF UpdateInv, UpdateTypeInv, StreamInv, BurnInv, CompleteIsWhole, CompleteIsStored,
   BurnComplete

-----------------------------------------------------------------------------
(* Commands.  Each step moves one component, a frame the link and one more, *)
(* a restart all three.                                                     *)

CommandsInv ==
  /\ LinkInv /\ ConfInv /\ UpdateInv
  /\ cmd \in {"none", "save", "update", "done"} /\ halted \in BOOLEAN
  /\ starts \in 0 .. Starts

\* All three components start with their invariants.
LEMMA CommandsStarts == Init => CommandsInv
<1> SUFFICES ASSUME Init PROVE CommandsInv
  OBVIOUS
<1>1. work \in Work /\ LinkStart(MaxCuts - Cuts[work]) /\ UpdateStart(MaxUploads - Tries[work])
  BY DEF Init
<1>2. /\ MaxCuts - Cuts[work] \in 0 .. MaxCuts
      /\ MaxUploads - Tries[work] \in 0 .. MaxUploads
  <2>1. Cuts[work] \in 0 .. MaxCuts /\ Tries[work] \in 0 .. MaxUploads
    BY <1>1, CommandsAssumption
  <2>2. MaxCuts \in Nat /\ MaxUploads \in Nat
    BY NetLinkAssumption, ProgramUpdateAssumption
  <2>3. QED
    BY <2>1, <2>2
<1>3. LinkInv
  BY <1>1, <1>2, LinkStarts
<1>4. UpdateInv
  BY <1>1, <1>2, UpdateStarts
<1>5. ConfInv
  BY ConfStarts DEF Init
<1>6. halted \in BOOLEAN
  BY Zenon DEF Init
<1>s. Starts \in Nat
  BY CommandsAssumption
<1>7. cmd = "none" /\ starts \in 0 .. Starts
  BY <1>s DEF Init
<1>8. QED
  BY <1>3, <1>4, <1>5, <1>6, <1>7 DEF CommandsInv

\* What a step of Commands does to the three components.
LinkMoves ==
  \/ NetworkStep \/ ConnectStep \/ ReceiveStep \/ ReceiveFrame \/ HandlerReturns
  \/ LinkRestart \/ UNCHANGED linkVars

ConfMoves ==
  \/ \E v \in Values : SetNumber(v)
  \/ \E f \in FuncConfigs : SetFpgaFuncConfig(f)
  \/ KeyFileSave \/ Sync \/ ConfRestart \/ ConfPowerLoss \/ UNCHANGED confVars

\* A step of the program is, for each component, one of its steps or none.
LEMMA EachMoves ==
  [Next]_vars => /\ LinkMoves /\ ConfMoves /\ (UpdateMoves \/ UNCHANGED updVars)
                 /\ CommandsInv => /\ cmd' \in {"none", "save", "update", "done"}
                                   /\ starts' \in 0 .. Starts
<1> SUFFICES ASSUME [Next]_vars
             PROVE  /\ LinkMoves /\ ConfMoves /\ (UpdateMoves \/ UNCHANGED updVars)
                    /\ CommandsInv => /\ cmd' \in {"none", "save", "update", "done"}
                                      /\ starts' \in 0 .. Starts
  OBVIOUS
<1> USE DEF LinkMoves, ConfMoves
<1>1. CASE Link \/ Network \/ UNCHANGED vars
  BY <1>1 DEF Link, Network, vars, cmdVars, CommandsInv
<1>2. CASE HandleOther \/ HandleSet \/ HandleSave \/ FinishSave
  BY <1>2 DEF HandleOther, HandleSet, HandleSave, FinishSave, Receive, CommandsInv
<1>3. CASE HandleUpdate \/ ContinueUpdate \/ Pc \/ Flash
  <2>1. CASE HandleUpdate
    BY <2>1 DEF HandleUpdate, Receive, CommandsInv, UpdateMoves
  <2>2. CASE ContinueUpdate
    BY <2>2 DEF ContinueUpdate, CommandsInv, UpdateMoves
  <2>3. CASE Pc \/ Flash
    BY <2>3 DEF Pc, Flash, CommandsInv, UpdateMoves, cmdVars
  <2>4. QED
    BY <1>3, <2>1, <2>2, <2>3
<1>4. CASE Burning \/ Return
  BY <1>4 DEF Burning, Return, CommandsInv
<1>5. CASE Restart \/ PowerLoss
  <2>1. Starts \in Nat
    BY CommandsAssumption
  <2>2. QED
    BY <1>5, <2>1 DEF Restart, PowerLoss, Started, CommandsInv, UpdateMoves
<1>6. QED
  BY <1>1, <1>2, <1>3, <1>4, <1>5 DEF Next

\* A fault while a file is burnt sets the flag, a restart clears it.
LEMMA HaltedFlag == CommandsInv /\ [Next]_vars => halted' \in BOOLEAN
<1> SUFFICES ASSUME CommandsInv, [Next]_vars PROVE halted' \in BOOLEAN
  OBVIOUS
<1>1. halted' = halted \/ halted' = TRUE \/ halted' = FALSE
  BY DEF Next, Link, Network, HandleOther, HandleSet, HandleSave, FinishSave, HandleUpdate,
     ContinueUpdate, Burning, Return, Pc, Flash, Restart, PowerLoss, Receive, Started, vars, cmdVars
<1>2. halted \in BOOLEAN
  BY DEF CommandsInv
<1>3. QED
  BY <1>1, <1>2, Zenon

\* Each step of the program keeps the invariant of each component.
LEMMA CommandsSteps == CommandsInv /\ [Next]_vars => CommandsInv'
<1> SUFFICES ASSUME CommandsInv, [Next]_vars PROVE CommandsInv'
  OBVIOUS
<1>1. LinkInv /\ ConfInv /\ UpdateInv
  BY DEF CommandsInv
<1>2. /\ LinkMoves /\ ConfMoves /\ (UpdateMoves \/ UNCHANGED updVars)
      /\ cmd' \in {"none", "save", "update", "done"} /\ starts' \in 0 .. Starts
  BY EachMoves
<1>3. LinkInv'
  BY <1>1, <1>2, LinkSteps, LinkRestarts, LinkFrame DEF LinkMoves
<1>4. ConfInv'
  BY <1>1, <1>2, SetterKeeps, SaveKeeps, ConfRestarts DEF ConfMoves
<1>5. UpdateInv'
  BY <1>1, <1>2, UpdateSteps, UpdateFrame
<1>6. halted' \in BOOLEAN
  BY HaltedFlag
<1>7. QED
  BY <1>2, <1>3, <1>4, <1>5, <1>6 DEF CommandsInv

\* Every state of the program has what the three components promise of each
\* other's absence: the invariant from which the theorems below follow.
THEOREM CommandsInvariant == Spec => []CommandsInv
<1>1. QED
  BY CommandsStarts, CommandsSteps, PTL DEF Spec

\* The variables of the link, the configuration, the update and the handlers keep
\* their types, whatever fails and whenever the process starts again.
THEOREM CommandsTypes == Spec => []TypeOK
<1>1. CommandsInv => TypeOK
  BY UpdateConcludes DEF CommandsInv, LinkInv, ConfInv, TypeOK
<1>2. QED
  BY <1>1, CommandsInvariant, PTL

\* net_connect_tsk calls connect() on the socket it has just created, as long as
\* no connection was begun before net_recv_tsk had seen the end of the last one.
THEOREM LinkConnectsItsSocket == Spec => []ConnectsItsSocket
<1>1. CommandsInv => ConnectsItsSocket
  BY LinkConcludes DEF CommandsInv
<1>2. QED
  BY <1>1, CommandsInvariant, PTL

\* Under the same condition a connection makes one token, in the semaphore or with
\* net_recv_tsk, the flag is only set on a socket that was connected, and
\* net_recv_tsk closes the socket on which it saw the failure.
THEOREM LinkStateAgrees == Spec => []LinkAgrees
<1>1. CommandsInv => LinkAgrees
  BY LinkConcludes DEF CommandsInv
<1>2. QED
  BY <1>1, CommandsInvariant, PTL

\* The FPGA works with the values the PC reads back, up to the width of each
\* register, through any order of setters, saves, restarts and losses of power.
THEOREM RegistersAgree == Spec => []RegistersFollowMemory
<1>1. CommandsInv => RegistersFollowMemory
  BY DEF CommandsInv, ConfInv
<1>2. QED
  BY <1>1, CommandsInvariant, PTL

\* system.conf is, in the kernel's pages and on the medium, the version of the last
\* save the PC was told of or of one that was under way.
THEOREM ConfigIsDurable == Spec => []DurableConfig
<1>1. CommandsInv => DurableConfig
  BY DEF CommandsInv, ConfInv
<1>2. QED
  BY <1>1, CommandsInvariant, PTL

\* A file whose upload was reported complete holds the units the PC sent, in order,
\* unless it went on in the stream of an upload that had been given up.
THEOREM UploadIsWhole == Spec => []CompleteIsWhole
<1>1. CommandsInv => CompleteIsWhole
  BY UpdateConcludes DEF CommandsInv
<1>2. QED
  BY <1>1, CommandsInvariant, PTL

\* and all of it but the unit in the stream's buffer is on the medium by then.
THEOREM UploadIsStored == Spec => []CompleteIsStored
<1>1. CommandsInv => CompleteIsStored
  BY UpdateConcludes DEF CommandsInv
<1>2. QED
  BY <1>1, CommandsInvariant, PTL

\* No page of the flash is told to be written while the flash is still busy: when
\* a page was counted, the flash has taken it.
THEOREM BurnIsComplete == Spec => []BurnComplete
<1>1. CommandsInv => BurnComplete
  BY UpdateConcludes DEF CommandsInv
<1>2. QED
  BY <1>1, CommandsInvariant, PTL

\* With the modes the setters' comments list, after any order of settings, saves,
\* restarts and losses of power, each bit of FUNCSLT is determined: by the function
\* settings in memory, and bits 11 and 15 with the second station on by the modes
\* that were set since it was off.
THEOREM FunctionBitsFollow ==
  ASSUME \A f \in FuncConfigs : KnownModes(f)
  PROVE  Spec => []FunctionBitsAgree
<1>1. Init => FunctionInv
  BY FunctionStarts DEF Init
<1>2. CommandsInv /\ FunctionInv /\ [Next]_vars => FunctionInv'
  <2>1. SUFFICES ASSUME CommandsInv, FunctionInv, [Next]_vars PROVE FunctionInv'
    OBVIOUS
  <2>2. ConfInv /\ ConfMoves
    BY <2>1, EachMoves DEF CommandsInv
  <2>3. QED
    BY <2>1, <2>2, FunctionKeeps DEF ConfMoves
<1>3. FunctionInv => FunctionBitsAgree
  BY DEF FunctionInv, FunctionBitsAgree, BitsShow, SourceShows
<1>4. QED
  BY <1>1, <1>2, <1>3, CommandsInvariant, PTL DEF Spec

=============================================================================
