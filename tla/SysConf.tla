------------------------------ MODULE SysConf ------------------------------
(***************************************************************************)
(* The configuration (sys_conf.c): each setting exists up to five times.   *)
(*                                                                         *)
(*   mem       the g_... structs, which other threads use and the PC reads *)
(*   key       the GKeyFile in memory                                      *)
(*   page      system.conf as the running kernel sees it                   *)
(*   disk      system.conf on the medium                                   *)
(*   reg       registers of the FPGA, which has its own power-on state     *)
(*                                                                         *)
(* All setters are called by net_recv_tsk, one at a time.  FUNCSLT is the  *)
(* register that several settings share; it is modelled as the set of its  *)
(* bits that are 1.                                                        *)
(***************************************************************************)
EXTENDS Integers

CONSTANTS
  Values,        \* what the PC sends for a number
  FuncConfigs,   \* what it sends for the function settings: records of
                 \* kick_mode, ol_shoot_mode, second_station_en, feedback
  Sessions       \* the sets of settings it may change in one behaviour

VARIABLES
  mem, key, page, disk, reg, funcslt,
  saving,        \* sc_conf_save has written the file and not yet called sync()
  expected,      \* the versions of system.conf a restart may bring back
  offered,       \* the settings the PC changes in this behaviour
  kicked         \* ghost: the kick modes 1 and 2 the FPGA was given since its
                 \* second station was last off: the last one (0 if none), and
                 \* whether mode 1 was one of them

confVars == <<mem, key, page, disk, reg, funcslt, saving, expected,
              offered, kicked>>

Numbers == {"judge_mode", "img_send_mode", "screen_angle", "system_sn", "polar",
            "kp_width", "out3_width", "in_width", "shoot_delay", "kick_delay",
            "overclock_threshold", "sample_length", "video_valid", "image_size"}
Settings == Numbers \cup {"function"}

ASSUME SysConfAssumption ==
  /\ Values \subseteq Nat /\ 0 \in Values
  /\ FuncConfigs # {} /\ Sessions \subseteq SUBSET Settings

\* Widths 3 to 8 are only written to the key file; the screen angle is not read
\* back from it.
InMemory == Settings \ {"out3_width"}
Reloaded == InMemory \ {"screen_angle"}

Bit(v, n) == (v \div 2 ^ n) % 2 = 1

-----------------------------------------------------------------------------
(* what a setting puts into the FPGA *)

\* fpga_set_signal_polar: bits 1 and 3 are always set.
PolarBits(v) ==
  {1, 3} \cup UNION {IF Bit(v, n) THEN <<{0}, {4, 5}, {8, 9}, {2}, {7}, {10}, {11}>>[n + 1]
                                  ELSE {} : n \in 0 .. 6}

\* A register of 16 bits, and a pair of them.
Low16(v) == v % 65536
Halves(v) == <<v % 65536, (v \div 65536) % 65536>>

OutWidthRegs(v) == Low16(v)
InWidthRegs(v) == Low16(v)
ShootDelayRegs(v) == Halves(v)
KickDelayRegs(v) == Halves(v)
SampleLengthReg(v) == v
\* The parameter of fpga_set_overclock_threshold is a __u16.
OverclockReg(v) == Low16(v)
ImageSizeRegs(v) == Low16(v) \div 4

-----------------------------------------------------------------------------
(* FUNCSLT, in the order in which sc_set_fpga_func_config changes it *)

KickModeBits(b, m) ==
  CASE m = 0 -> b \ {6, 7}
    [] m = 1 -> (b \ {7, 11}) \cup {6, 15}
    [] m = 2 -> b \cup {6, 7}
    [] OTHER -> b

OlShootBits(b, m) ==
  (CASE m = 1 -> b \ {10} [] m = 0 -> b \cup {10} [] OTHER -> b) \cup {9}

SecondTubeBits(b, en, kick_mode) ==
  CASE en = 0 -> b \ {4, 11, 12, 15}
    [] en = 1 /\ kick_mode = 1 -> ((b \cup {4, 12}) \ {11}) \cup {15}
    [] en = 1 /\ kick_mode = 2 -> b \cup {4, 12, 11}
    [] en = 1 /\ kick_mode \notin {1, 2} -> b \cup {4, 12}
    [] OTHER -> b

FeedbackBits(b, v) ==
  (b \ {13, 14}) \cup (IF Bit(v, 0) THEN {13} ELSE {})
                 \cup (IF Bit(v, 1) THEN {14} ELSE {})

CamTrigBits(b, v) ==
  (b \ {1, 8}) \cup (IF Bit(v, 0) THEN {1} ELSE {})
               \cup (IF Bit(v, 1) THEN {8} ELSE {})

FunctionBitsTubeFirst(b, f) ==
  FeedbackBits(
    OlShootBits(KickModeBits(SecondTubeBits(b, f.second_station_en, f.kick_mode),
                             f.kick_mode), f.ol_shoot_mode),
    f.feedback)

FunctionBits(b, f) ==
  FeedbackBits(
    SecondTubeBits(
      OlShootBits(KickModeBits(b, f.kick_mode), f.ol_shoot_mode),
      f.second_station_en, f.kick_mode),
    f.feedback)

NoKick == [last |-> 0, delayed |-> FALSE]

\* What the ghost is after the function settings f were applied.
KickedAfter(k, f) ==
  IF f.second_station_en = 0 THEN NoKick
  ELSE [last    |-> IF f.kick_mode \in {1, 2} THEN f.kick_mode ELSE k.last,
        delayed |-> k.delayed \/ f.kick_mode = 1]

-----------------------------------------------------------------------------
(* the setters *)

\* g_... := v and key_file_set_int(.., v), and nothing else
Remember(c, v) ==
  /\ c \in offered
  /\ mem' = IF c \in InMemory THEN [mem EXCEPT ![c] = v] ELSE mem
  /\ key' = [key EXCEPT ![c] = v]
  /\ UNCHANGED <<page, disk, saving, expected, offered>>

NoRegister == UNCHANGED <<reg, funcslt, kicked>>
Program(c, r) == reg' = [reg EXCEPT ![c] = r] /\ UNCHANGED <<funcslt, kicked>>

SetSysSn(v) == Remember("system_sn", v) /\ NoRegister

SetSignalPolar(v) == Remember("polar", v) /\ Program("polar", PolarBits(v))

\* Widths 1 and 2 go to memory and to the FPGA, the other six to the file.
SetOutSignalWidth(v) ==
  Remember("kp_width", v) /\ Program("kp_width", OutWidthRegs(v))

SetUnusedOutWidth(v) == Remember("out3_width", v) /\ NoRegister

SetInSignalWidth(v) ==
  Remember("in_width", v) /\ Program("in_width", InWidthRegs(v))

SetShootDelay(v) ==
  Remember("shoot_delay", v) /\ Program("shoot_delay", ShootDelayRegs(v))

SetKickDelay(v) ==
  Remember("kick_delay", v) /\ Program("kick_delay", KickDelayRegs(v))

\* Takes effect in the FPGA at the next start only, like the image size.
SetVideoConfig(v) == Remember("video_valid", v) /\ NoRegister
SetVideoRequirement(v) == Remember("image_size", v) /\ NoRegister

SetOcTh(v) ==
  /\ Remember("overclock_threshold", v)
  /\ Program("overclock_threshold", OverclockReg(v))

SetSampleLen(v) ==
  Remember("sample_length", v) /\ Program("sample_length", SampleLengthReg(v))

SetSampleJudgeMode(v) == Remember("judge_mode", v) /\ NoRegister
SetSysScreenAngle(v) == Remember("screen_angle", v) /\ NoRegister
SetImgSendMode(v) == Remember("img_send_mode", v) /\ NoRegister

SetFpgaFuncConfig(f) ==
  /\ Remember("function", f)
  /\ funcslt' = FunctionBits(funcslt, f)
  /\ kicked' = KickedAfter(kicked, f)
  /\ UNCHANGED reg

SetNumber(v) ==
  \/ SetSysSn(v) \/ SetSignalPolar(v) \/ SetOutSignalWidth(v)
  \/ SetUnusedOutWidth(v) \/ SetInSignalWidth(v) \/ SetShootDelay(v)
  \/ SetKickDelay(v) \/ SetVideoConfig(v) \/ SetVideoRequirement(v)
  \/ SetOcTh(v) \/ SetSampleLen(v) \/ SetSampleJudgeMode(v)
  \/ SetSysScreenAngle(v) \/ SetImgSendMode(v)

-----------------------------------------------------------------------------
(* saving *)

\* key_file_save: g_file_set_contents replaces the file as a whole
KeyFileSave ==
  /\ ~saving
  /\ page' = key /\ saving' = TRUE
  /\ expected' = expected \cup {key}
  /\ UNCHANGED <<mem, key, disk, reg, funcslt, offered, kicked>>

SyncForgotten ==
  /\ saving /\ saving' = FALSE /\ expected' = {page}
  /\ UNCHANGED <<mem, key, page, disk, reg, funcslt, offered, kicked>>

\* sync(); then the PC is told that the command succeeded
Sync ==
  /\ saving
  /\ disk' = page /\ saving' = FALSE
  /\ expected' = {page}
  /\ UNCHANGED <<mem, key, page, reg, funcslt, offered, kicked>>

-----------------------------------------------------------------------------
(* the start of the program *)

\* sc_system_init after sc_conf_load has read file: memory that is not loaded
\* has its static value, and every register is written.
LoadedMemory(file) == [c \in InMemory |-> IF c \in Reloaded THEN file[c] ELSE 0]

Registers(file) ==
  [polar |-> PolarBits(file["polar"]),
   kp_width |-> OutWidthRegs(file["kp_width"]),
   in_width |-> InWidthRegs(file["in_width"]),
   shoot_delay |-> ShootDelayRegs(file["shoot_delay"]),
   kick_delay |-> KickDelayRegs(file["kick_delay"]),
   overclock_threshold |-> OverclockReg(file["overclock_threshold"]),
   sample_length |-> SampleLengthReg(file["sample_length"]),
   image_size |-> ImageSizeRegs(file["image_size"])]

\* fpga_context_init sets bit 2 for the interrupt line.
StartBits(b, file) ==
  CamTrigBits(FunctionBits(b \cup {2}, file["function"]), file["video_valid"])

FactoryFile ==
  [c \in Settings |-> IF c = "function" THEN CHOOSE f \in FuncConfigs : TRUE ELSE 0]

ConfInit(settings) ==
  /\ offered = settings
  /\ key = FactoryFile /\ page = key /\ disk = key
  /\ mem = LoadedMemory(key) /\ reg = Registers(key)
  /\ funcslt = StartBits({}, key) /\ kicked = KickedAfter(NoKick, key["function"])
  /\ saving = FALSE /\ expected = {key}

ConfRestartWithoutRegisters ==
  /\ key' = page /\ mem' = LoadedMemory(page) /\ saving' = FALSE
  /\ UNCHANGED <<page, disk, reg, funcslt, expected, offered, kicked>>

\* The process ends and is started again; the FPGA keeps its registers.
ConfRestart ==
  /\ key' = page /\ mem' = LoadedMemory(page) /\ reg' = Registers(page)
  /\ funcslt' = StartBits(funcslt, page)
  /\ kicked' = KickedAfter(kicked, page["function"])
  /\ saving' = FALSE
  /\ UNCHANGED <<page, disk, expected, offered>>

\* The board loses power: what the kernel had not written yet may be lost.
ConfPowerLoss ==
  \E file \in {page, disk} :
    /\ disk' = file /\ page' = file
    /\ key' = file /\ mem' = LoadedMemory(file) /\ reg' = Registers(file)
    /\ funcslt' = StartBits({}, file)
    /\ kicked' = KickedAfter(NoKick, file["function"])
    /\ saving' = FALSE /\ expected' = {file} /\ UNCHANGED offered

-----------------------------------------------------------------------------
(* properties *)

ConfTypeOK ==
  /\ \A s \in {key, page, disk} \cup expected : DOMAIN s = Settings
  /\ DOMAIN mem = InMemory
  /\ funcslt \subseteq 0 .. 15 /\ saving \in BOOLEAN
  /\ kicked \in [last : {0, 1, 2}, delayed : BOOLEAN]

\* Each bit of FUNCSLT that the function settings write is where they put it, for
\* the modes that the comments of the setters list.  All but two follow from the
\* settings in memory, whatever the order of changes before.  The two are the
\* interrupt source of the kick tube ("剔除方式改变，剔除对管1的中断源也要改变",
\* fpga.c:473): mode 0 writes neither, mode 2 leaves bit 15 as it is, and no mode
\* writes them for good while the second station is off, which clears both.  So
\* with the second station on they do not follow from the settings; bit 11 shows
\* the last of the modes 1 and 2 since the station was off, bit 15 that mode 1 was
\* among them, also when the program was restarted in between.  Thus bit 11 stays
\* after a change of the mode from 2 to 0, and bit 15 from 1 to 0 and from 1 to 2.
FunctionBitsAgree ==
  LET f == mem["function"] IN
    /\ 6 \in funcslt <=> f.kick_mode \in {1, 2}
    /\ 7 \in funcslt <=> f.kick_mode = 2
    /\ {2, 9} \subseteq funcslt
    /\ 10 \in funcslt <=> f.ol_shoot_mode = 0
    /\ \A n \in {4, 12} : n \in funcslt <=> f.second_station_en = 1
    /\ 13 \in funcslt <=> Bit(f.feedback, 0)
    /\ 14 \in funcslt <=> Bit(f.feedback, 1)
    /\ 11 \in funcslt <=> f.second_station_en = 1 /\ kicked.last = 2
    /\ 15 \in funcslt <=> f.second_station_en = 1 /\ kicked.delayed

\* What the PC can read back is what the FPGA works with, up to the width of the
\* registers; a changed image size waits for a restart.
RegistersFollowMemory ==
  \A c \in DOMAIN reg \ {"image_size"} : reg[c] = Registers(mem)[c]

\* Whatever happens, the program works with the configuration of the last save
\* the PC was told had succeeded, or of one that was under way.
DurableConfig == {page, disk} \subseteq expected
=============================================================================
