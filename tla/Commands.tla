------------------------------ MODULE Commands ------------------------------
(***************************************************************************)
(* Commands of the PC as the board carries them out: net_recv_tsk receives *)
(* a frame (NetLink) and runs its handler, which changes or saves settings *)
(* (SysConf) or takes a unit of a program file (ProgramUpdate).  While a   *)
(* handler runs, the connection may break and be made again, the process   *)
(* may die, and the board may lose power.                                  *)
(***************************************************************************)
EXTENDS NetLink, SysConf, ProgramUpdate

CONSTANTS
  Work,          \* the kinds of work the PC may do
  Cuts,          \* Cuts[w]: bound on the failures of the network with work w
  Tries,         \* Tries[w]: and on the uploads the PC begins
  Starts         \* bound: how often the program starts again

ASSUME CommandsAssumption ==
  /\ Work \subseteq {"link", "settings", "update", "interrupted update"}
  /\ \A w \in Work : Cuts[w] \in 0 .. MaxCuts /\ Tries[w] \in 0 .. MaxUploads
  /\ Starts \in Nat

VARIABLES
  work,          \* what the PC does in this behaviour
  cmd,           \* the handler that runs, "done" when it is about to return
  halted,        \* the process has died
  starts

cmdVars == <<work, cmd, halted, starts>>
vars == <<linkVars, confVars, updVars, cmdVars>>

TypeOK ==
  /\ LinkTypeOK /\ ConfTypeOK /\ UpdateTypeOK
  /\ cmd \in {"none", "save", "update", "done"}
  /\ halted \in BOOLEAN /\ starts \in 0 .. Starts

Init ==
  /\ work \in Work
  /\ LinkStart(MaxCuts - Cuts[work]) /\ UpdateStart(MaxUploads - Tries[work])
  /\ \E settings \in IF work = "settings" THEN Sessions ELSE {{}} : ConfInit(settings)
  /\ cmd = "none" /\ halted = FALSE /\ starts = 0

-----------------------------------------------------------------------------
(* the threads of the link, and the network *)

Link ==
  /\ ~halted /\ (ConnectStep \/ ReceiveStep)
  /\ UNCHANGED <<confVars, updVars, cmdVars>>

Network == NetworkStep /\ UNCHANGED <<confVars, updVars, cmdVars>>

CableComesBack == CableIn /\ UNCHANGED <<confVars, updVars, cmdVars>>

-----------------------------------------------------------------------------
(* frames: mainboard_set_func and mainboard_get_func *)

Updating == {"update", "interrupted update"}

Receive(kinds, handler) ==
  /\ ~halted /\ work \in kinds /\ ReceiveFrame
  /\ cmd' = handler /\ UNCHANGED <<work, halted, starts>>

\* A handler that changes nothing of this model: the queries, the simulated
\* trigger, the clock, the reserved commands.
HandleOther == Receive({"link"}, "done") /\ UNCHANGED <<confVars, updVars>>

HandleSet ==
  /\ Receive({"settings"}, "done")
  /\ \/ \E v \in Values : SetNumber(v)
     \/ \E f \in FuncConfigs : SetFpgaFuncConfig(f)
  /\ UNCHANGED updVars

HandleSave == Receive({"settings"}, "save") /\ KeyFileSave /\ UNCHANGED updVars

FinishSave ==
  /\ ~halted /\ cmd = "save" /\ Sync /\ cmd' = "done"
  /\ UNCHANGED <<linkVars, updVars, work, halted, starts>>

HandleUpdate ==
  \/ Receive(Updating, "update") /\ UpdateBegin /\ UNCHANGED confVars
  \/ Receive(Updating, "done") /\ UpdateRefused /\ UNCHANGED confVars

ContinueUpdate ==
  /\ ~halted /\ cmd = "update" /\ UpdateHandlerStep
  /\ cmd' = IF upd' = "none" THEN "done" ELSE "update"
  /\ UNCHANGED <<linkVars, confVars, work, halted, starts>>

Burning == BurnFaults /\ ~halted /\ halted' = TRUE
           /\ UNCHANGED <<linkVars, confVars, updVars, work, cmd, starts>>

Return ==
  /\ ~halted /\ cmd = "done" /\ HandlerReturns /\ cmd' = "none"
  /\ UNCHANGED <<confVars, updVars, work, halted, starts>>

-----------------------------------------------------------------------------
(* the PC, the flash *)

Pc == /\ work \in Updating /\ PcStep
      /\ UNCHANGED <<linkVars, confVars, cmdVars>>

Flash == FlashReady /\ UNCHANGED <<linkVars, confVars, cmdVars>>

-----------------------------------------------------------------------------
(* the operator *)

Started == starts < Starts /\ starts' = starts + 1 /\ cmd' = "none"
           /\ halted' = FALSE /\ UNCHANGED work

\* The process dies, here or of a fault in another thread, and is started again.
Restart == Started /\ LinkRestart /\ ConfRestart /\ UpdateRestart

PowerLoss == Started /\ LinkRestart /\ ConfPowerLoss /\ UpdatePowerLoss

-----------------------------------------------------------------------------
Next ==
  \/ Link \/ Network \/ HandleOther \/ HandleSet \/ HandleSave \/ FinishSave
  \/ HandleUpdate \/ ContinueUpdate \/ Burning \/ Return \/ Pc \/ Flash
  \/ Restart \/ PowerLoss

\* The threads run, a cable that is pulled out is put in again, a handler goes
\* on and the flash finishes.  Nothing makes the PC send or the process restart.
Fairness ==
  /\ WF_vars(~halted /\ ConnectStep /\ UNCHANGED <<confVars, updVars, cmdVars>>)
  /\ WF_vars(~halted /\ ReceiveStep /\ UNCHANGED <<confVars, updVars, cmdVars>>)
  /\ WF_vars(CableComesBack) /\ WF_vars(Return) /\ WF_vars(FinishSave)
  /\ WF_vars(ContinueUpdate) /\ WF_vars(Flash)

Spec == Init /\ [][Next]_vars /\ Fairness

-----------------------------------------------------------------------------
(* properties of the composition *)

\* A connection that is lost comes back, in spite of handlers that take their
\* time, unless it was overtaken or the process has died.
BackOnLine ==
  (~g_conn_state /\ ~overtaken) ~> (g_conn_state \/ overtaken \/ halted)
=============================================================================
