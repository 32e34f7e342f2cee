------------------------------- MODULE SdFile -------------------------------
(***************************************************************************)
(* What an upload to the SD card promises its user: the file grows line by *)
(* line, in order and without a gap; "Ok" is announced only when it is     *)
(* complete; a failed upload promises nothing of the file.                 *)
(*                                                                         *)
(* A line may be delivered again before the next one (a retry whose first  *)
(* try had arrived), also after the answer (the last try of the last line).*)
(***************************************************************************)
EXTENDS Naturals, Sequences

CONSTANT Lines            \* number of lines of the G-code file

VARIABLES lines,          \* the lines delivered
          outcome         \* of the last upload

Last == IF lines = <<>> THEN 0 ELSE lines[Len(lines)]

Init == lines = <<>> /\ outcome = "none"

Begin   == outcome # "busy" /\ lines' = <<>> /\ outcome' = "busy"

Deliver == /\ outcome = "busy"
           /\ \E n \in {Last, Last + 1} \cap 1..Lines : lines' = Append(lines, n)
           /\ UNCHANGED outcome

Conclude == /\ outcome = "busy" /\ Last = Lines
            /\ outcome' = "ok"
            /\ UNCHANGED lines

Again   == outcome = "ok" /\ lines' = Append(lines, Lines) /\ UNCHANGED outcome

Fail    == outcome = "busy" /\ lines' = <<>> /\ outcome' = "failed"

Next == Begin \/ Deliver \/ Conclude \/ Again \/ Fail

Spec == Init /\ [][Next]_<<lines, outcome>>
=============================================================================
