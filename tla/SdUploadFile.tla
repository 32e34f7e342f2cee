---------------------------- MODULE SdUploadFile ----------------------------
(***************************************************************************)
(* SdUpload implements SdFile.  The abstract file is what the printer has  *)
(* stored since it opened the file; an upload has failed as soon as the    *)
(* handler notices an error (com_error), and nothing is promised then.     *)
(***************************************************************************)
EXTENDS SdUpload

outcome == IF com_error THEN "failed"
           ELSE IF pc \notin {"idle", "report"} THEN "busy"
           ELSE IF uploads = 0 THEN "none" ELSE "ok"

(* The line that was stored; 0, which is none, when several are glued      *)
(* together, or for a control command.                                     *)
AsLine(stored) == IF Len(stored) = 1 THEN stored[1] ELSE 0

AsLines(f) == [i \in DOMAIN f |-> AsLine(f[i])]

lines == IF outcome = "ok" \/ (outcome = "busy" /\ open)
           THEN AsLines(file) ELSE <<>>

Promised == INSTANCE SdFile

(* Every upload behaves as its user is told, with lines refused or lost on *)
(* the way to the printer.                                                 *)
FileAsPromised == Promised!Spec
=============================================================================
