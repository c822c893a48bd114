---------------------------- MODULE MCMessages ----------------------------
(* Instances for the runs of Messages. *)
EXTENDS Messages

MCMailboxes == {"net", "ui", "local", "lvds1"}
MCCameraBox(c) == "lvds1"

MCWork == {"samples", "pictures", "cameras", "results", "resets", "results and resets",
           "numbers", "two cameras"}
MCRejects == [w \in MCWork |-> CASE w = "results" -> 1 [] w = "resets" -> 2
                               [] w = "results and resets" -> 1 [] OTHER -> 0]
MCResults == [w \in MCWork |-> CASE w = "results" -> 3
                               [] w = "results and resets" -> 2 [] OTHER -> 0]
MCResets == [w \in MCWork |-> CASE w = "resets" -> 2
                               [] w = "results and resets" -> 2 [] OTHER -> 0]
=============================================================================
