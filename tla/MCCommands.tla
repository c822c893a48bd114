---------------------------- MODULE MCCommands ----------------------------
(* Instances for the runs of Commands and NetLink. *)
EXTENDS Commands

F(k, o, s, b) == [kick_mode |-> k, ol_shoot_mode |-> o, second_station_en |-> s,
                  feedback |-> b]
MCFuncConfigs == {F(0, 1, 0, 0), F(0, 0, 1, 1), F(1, 1, 1, 2), F(2, 0, 1, 3),
                  F(2, 1, 0, 1), F(1, 0, 0, 2)}

\* A parameter file, which is smaller than the flash, a program, and the file of
\* the FPGA sent as the type that is burnt.
MCUploads == {[id |-> 1, type |-> 1, len |-> 2], [id |-> 2, type |-> 6, len |-> 1],
              [id |-> 3, type |-> 6, len |-> 2], [id |-> 4, type |-> 7, len |-> 1]}
\* One number in each behaviour, or what shares the register FUNCSLT.
MCSessions == {{c} : c \in Numbers} \cup {{"function", "video_valid"}}

MCWork == {"link", "settings", "update", "interrupted update"}
MCCuts == [w \in MCWork |-> CASE w = "link" -> 3 [] w = "interrupted update" -> 1 [] OTHER -> 0]
MCTries == [w \in MCWork |-> CASE w = "update" -> 3 [] w = "interrupted update" -> 1 [] OTHER -> 0]
=============================================================================
