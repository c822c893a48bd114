--------------------------- MODULE ProgramUpdate ---------------------------
(***************************************************************************)
(* The update of program files by the PC (command 0x45521110) and the      *)
(* burning of the FPGA's flash that one type of file starts.               *)
(*                                                                         *)
(* The PC sends a file in units, one command each.  The handler keeps the  *)
(* open stream and what it has written in static variables.  A file is a   *)
(* sequence of units <<upload, number>>; the flash a few pages, of which a *)
(* file for it has at least as many units.                                 *)
(***************************************************************************)
EXTENDS Integers, Sequences, SequencesExt

CONSTANTS
  Uploads,       \* what the PC may send: records of id, type, length in units
  FileTypes,     \* the types the handler knows
  FlashPages,
  MaxUnits,      \* bound: units in one file, also in a mixed one
  MaxUploads     \* bound: how often the PC begins an upload

BurnType == 6

ASSUME ProgramUpdateAssumption ==
  /\ \A u \in Uploads : u.type \in Nat /\ u.len \in 1 .. MaxUnits
  /\ FileTypes \subseteq Nat /\ FlashPages \in Nat \ {0} /\ MaxUnits \in Nat
  /\ MaxUploads \in Nat

VARIABLES
  file_opened, stream,   \* the statics of the handler: the open stream and the
  updated_len,           \* type of its file; progress.updated_len
  file,          \* the files as the running kernel sees them
  stored,        \* and on the medium
  sent,          \* the PC: its upload (or Idle), the units it has sent
  begun,         \* and how many uploads it has begun
  accepted,      \* the last upload reported complete, if its own first unit
                 \* had opened the file, until another is opened (or Idle)
  stale,         \* the stream, or the rest of what the PC sends, goes on in
                 \* the place of an upload that was given up
  upd,           \* where the handler is
  page_no,       \* the next page to burn
  flash, wip     \* pages of the flash; its write-in-progress bit

updVars == <<file_opened, stream, updated_len, file, stored, sent, begun, accepted,
             stale, upd, page_no, flash, wip>>

Idle == [up |-> [id |-> 0, type |-> 0, len |-> 0], n |-> 0]

UpdateTypeOK ==
  /\ file_opened \in BOOLEAN /\ stream \in FileTypes \cup {0}
  /\ updated_len \in 0 .. MaxUnits
  /\ DOMAIN file = FileTypes /\ DOMAIN stored = FileTypes
  /\ \A t \in FileTypes : Len(file[t]) <= MaxUnits /\ Len(stored[t]) <= MaxUnits
  /\ begun \in 0 .. MaxUploads /\ sent.up \in Uploads \cup {Idle.up}
  /\ sent.n \in 0 .. sent.up.len
  /\ upd \in {"none", "write", "close", "map", "erase", "erasing", "program",
              "programming"}
  /\ page_no \in 0 .. FlashPages
  /\ flash \in [0 .. FlashPages - 1 -> {"old", "erased", "new"}]

UpdateStart(n) ==
  /\ file_opened = FALSE /\ stream = 0 /\ updated_len = 0
  /\ file = [t \in FileTypes |-> << >>] /\ stored = file
  /\ sent = Idle /\ begun = n /\ accepted = Idle /\ stale = FALSE
  /\ upd = "none" /\ page_no = 0
  /\ flash = [p \in 0 .. FlashPages - 1 |-> "old"] /\ wip = FALSE

UpdateInit == UpdateStart(0)

flashVars == <<page_no, flash, wip>>

-----------------------------------------------------------------------------
(* the PC *)

PcStarts(u) ==
  /\ upd = "none" /\ sent = Idle /\ u \in Uploads
  /\ begun < MaxUploads /\ begun' = begun + 1
  /\ sent' = [up |-> u, n |-> 0]
  /\ UNCHANGED <<file_opened, stream, updated_len, file, stored, accepted, stale,
                 upd>> /\ UNCHANGED flashVars

\* The operator stops it or the connection is lost; nothing tells the handler.
PcGivesUp ==
  /\ upd = "none" /\ sent # Idle
  /\ sent' = Idle /\ stale' = file_opened
  /\ UNCHANGED <<file_opened, stream, updated_len, file, stored, accepted, upd>>
  /\ UNCHANGED <<begun, flashVars>>

-----------------------------------------------------------------------------
(* the handler, for the next unit of the PC's upload *)

Unit == <<sent.up.id, sent.n>>

\* fopen "wb" empties the file and the progress starts anew; an open stream is
\* used as it is.
FopenStream ==
  IF file_opened
  THEN UNCHANGED <<file_opened, stream, updated_len, file>>
  ELSE /\ file_opened' = TRUE /\ stream' = sent.up.type /\ updated_len' = 0
       /\ file' = [file EXCEPT ![sent.up.type] = << >>]

UpdateBegin ==
  /\ upd = "none" /\ sent # Idle /\ sent.n < sent.up.len
  /\ sent.up.type \in FileTypes
  /\ file_opened => updated_len < MaxUnits
  /\ FopenStream
  /\ sent' = [sent EXCEPT !.n = @ + 1] /\ upd' = "write"
  /\ accepted' = IF file_opened THEN accepted ELSE Idle
  /\ UNCHANGED <<stored, stale>> /\ UNCHANGED <<begun, flashVars>>

\* An unknown type, or fopen fails: the command returns 1 and the PC stops.
UpdateRefused ==
  /\ upd = "none" /\ sent # Idle /\ sent.n < sent.up.len
  /\ sent.up.type \notin FileTypes \/ ~file_opened
  /\ sent' = Idle /\ stale' = file_opened
  /\ UNCHANGED <<file_opened, stream, updated_len, file, stored, accepted, upd>>
  /\ UNCHANGED <<begun, flashVars>>

\* fwrite at the offset updated_len; equality with file_len ends the update.
FwriteUnit ==
  /\ upd = "write"
  /\ file' = [file EXCEPT ![stream] =
                SubSeq(@, 1, IF Len(@) < updated_len THEN Len(@) ELSE updated_len)
                  \o <<Unit>>]
  /\ updated_len' = updated_len + 1
  /\ upd' = IF updated_len' = sent.up.len THEN "close" ELSE "none"
  /\ UNCHANGED <<file_opened, stream, stored, sent, accepted, stale>>
  /\ UNCHANGED <<begun, flashVars>>

FwriteFailsOpen ==
  /\ upd = "write"
  /\ file' = [file EXCEPT ![sent.up.type] = << >>]
  /\ upd' = "none" /\ sent' = Idle /\ stale' = FALSE
  /\ UNCHANGED <<file_opened, stream, updated_len, stored, accepted>>
  /\ UNCHANGED <<begun, flashVars>>

\* The medium is full: the stream is closed and the file of the command's type
\* removed; the PC sees status 0 and stops.
FwriteFails ==
  /\ upd = "write"
  /\ file_opened' = FALSE
  /\ file' = [file EXCEPT ![sent.up.type] = << >>]
  /\ upd' = "none" /\ sent' = Idle /\ stale' = FALSE
  /\ UNCHANGED <<stream, updated_len, stored, accepted>>
  /\ UNCHANGED <<begun, flashVars>>

FcloseOnly ==
  /\ upd = "close" /\ file_opened' = FALSE
  /\ accepted' = IF stale THEN Idle ELSE sent
  /\ stale' = (stale /\ sent.n # sent.up.len)
  /\ upd' = IF sent.up.type = BurnType THEN "map" ELSE "none"
  /\ sent' = IF sent.n = sent.up.len THEN Idle ELSE sent
  /\ UNCHANGED <<stream, updated_len, file, stored>> /\ UNCHANGED <<begun, flashVars>>

\* fsync comes before fclose: what is still in the stream's own buffer, some of
\* the last unit, is not on the medium yet.
FsyncFclose ==
  /\ upd = "close"
  /\ stored' = [stored EXCEPT ![stream] = Front(file[stream])]
  /\ file_opened' = FALSE
  /\ accepted' = IF stale THEN Idle ELSE sent
  /\ stale' = (stale /\ sent.n # sent.up.len)
  /\ upd' = IF sent.up.type = BurnType THEN "map" ELSE "none"
  /\ sent' = IF sent.n = sent.up.len THEN Idle ELSE sent
  /\ UNCHANGED <<stream, updated_len, file>> /\ UNCHANGED <<begun, flashVars>>

-----------------------------------------------------------------------------
(* fpga_burn and epcs.c *)

OnlyFlash == UNCHANGED <<file_opened, stream, updated_len, file, stored, sent, begun,
                         accepted, stale>>

\* The handler opens the file that the type of the last command names, which is
\* not the stream's if an upload of another type was given up before.  << >> is a
\* file that is empty or missing.
BurnNoFile ==
  /\ upd = "map" /\ file[BurnType] = << >>
  /\ upd' = "none"
  /\ OnlyFlash /\ UNCHANGED flashVars

\* The whole flash's size is mapped and its bits are reversed in place; a page
\* behind the end of the file ends the process (SIGBUS).
BurnFaults == upd = "map" /\ Len(file[BurnType]) < FlashPages

BurnReverse ==
  /\ upd = "map" /\ ~BurnFaults
  /\ upd' = "erase" /\ page_no' = 0
  /\ OnlyFlash /\ UNCHANGED <<flash, wip>>

\* A command to the flash, preceded by WREN; it ignores both while it is busy.
SpiCommand(new) ==
  IF wip THEN UNCHANGED <<flash, wip>> ELSE flash' = new /\ wip' = TRUE

EpcsBulkErase ==
  /\ upd = "erase" /\ upd' = "erasing"
  /\ SpiCommand([p \in DOMAIN flash |-> "erased"])
  /\ OnlyFlash /\ UNCHANGED page_no

EpcsWriteBuffer ==
  /\ upd = "program" /\ page_no < FlashPages
  /\ upd' = "programming" /\ page_no' = page_no + 1
  /\ SpiCommand([flash EXCEPT ![page_no] = IF @ = "erased" THEN "new" ELSE @])
  /\ OnlyFlash

EpcsAwaitNothing ==
  /\ upd \in {"erasing", "programming"} /\ upd' = "program"
  /\ OnlyFlash /\ UNCHANGED flashVars

EpcsAwaitWipReleased ==
  /\ upd \in {"erasing", "programming"} /\ ~wip
  /\ upd' = "program"
  /\ OnlyFlash /\ UNCHANGED flashVars

BurnDone ==
  /\ upd = "program" /\ page_no = FlashPages
  /\ upd' = "none"
  /\ OnlyFlash /\ UNCHANGED flashVars

\* the flash has finished what it was told
FlashReady ==
  /\ wip /\ wip' = FALSE
  /\ OnlyFlash /\ UNCHANGED <<upd, page_no, flash>>

-----------------------------------------------------------------------------
(* the end of the process, and of the power *)

\* exit() and kill alike lose what the stream had not written: of the last unit.
StaticsLost ==
  /\ file_opened' = FALSE /\ stream' = 0 /\ updated_len' = 0
  /\ sent' = Idle /\ stale' = FALSE
  /\ upd' = "none" /\ page_no' = 0

\* By the time the program runs again the flash is ready.
UpdateRestart ==
  /\ StaticsLost /\ wip' = FALSE
  /\ file' = IF file_opened /\ file[stream] # << >>
             THEN [file EXCEPT ![stream] = Front(@)] ELSE file
  /\ UNCHANGED <<stored, begun, accepted, flash>>

UpdatePowerLoss ==
  /\ StaticsLost /\ accepted' = Idle
  /\ \E lost \in SUBSET FileTypes :
       file' = [t \in FileTypes |-> IF t \in lost THEN stored[t] ELSE file[t]]
  /\ stored' = file' /\ wip' = FALSE /\ UNCHANGED <<begun, flash>>

-----------------------------------------------------------------------------
Handling == upd # "none"

PcStep == PcGivesUp \/ \E u \in Uploads : PcStarts(u)

UpdateHandlerStep ==
  \/ FwriteUnit \/ FwriteFails \/ FsyncFclose \/ BurnNoFile \/ BurnReverse \/ EpcsBulkErase
  \/ EpcsWriteBuffer \/ EpcsAwaitWipReleased \/ BurnDone

-----------------------------------------------------------------------------
(* properties *)

Whole(f, u) == f = [n \in 1 .. u.len |-> <<u.id, n>>]

\* A file that was reported complete is the file the PC sent, unit by unit, in
\* spite of refusals, write errors and other files before it, unless an upload
\* was given up with its stream open (the next one then goes on in its place).
CompleteIsWhole ==
  accepted # Idle =>
    Whole(file[accepted.up.type], accepted.up)

\* Such a file survives a loss of power but for its last unit.
CompleteIsStored ==
  accepted # Idle =>
    Front(file[accepted.up.type]) = stored[accepted.up.type]

\* The flash was told every page after the erasure of the whole, and took it:
\* no command came while it was busy with the one before.
BurnComplete ==
  upd = "program" => \A p \in 0 .. FlashPages - 1 :
                       flash[p] = IF p < page_no THEN "new" ELSE "erased"
=============================================================================
