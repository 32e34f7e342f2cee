------------------------------ MODULE SdUpload ------------------------------
(***************************************************************************)
(* Upload of a G-code file to the printer's SD card over the serial line:  *)
(* SDFile_serial_upload() of esp3d/webinterface.cpp, called by the HTTP    *)
(* parser with START, WRITE (one per block of the request body), END or    *)
(* ABORTED, and handle_serial_SDFileList(), which answers the request.     *)
(*                                                                         *)
(* The protocol is stop-and-wait without line numbers: print a line, read  *)
(* whatever the UART holds until it contains "ok" or "wait" (passed) or    *)
(* "Resend" (retry), give up the try after a time-out, give up the upload  *)
(* after NB_RETRY tries.  The printer runs concurrently with the handler.  *)
(*                                                                         *)
(* A line of the file is a number in 1..Lines: the line as it stands after *)
(* comments and empty lines have been dropped.                             *)
(***************************************************************************)
EXTENDS Naturals, Sequences

CONSTANTS
  Lines,        \* number of lines of the G-code file
  LongLines,    \* lines that may be longer than buffer_line (127 characters)
  Tails,        \* whether the last line may lack its newline: {TRUE, FALSE}
  BufferLines,  \* how many ordinary lines fit in buffer_line
  NB_RETRY,     \* tries for one line
  Late,         \* may an answer of the printer miss the time-out?
  IdleWait,     \* does an idle printer send "wait" (Repetier firmware)?
  OpenMayFail,  \* may the printer refuse to open the file?
  Lossy,        \* commands whose line may be lost on its way to the printer
  Splits,       \* answers that may be cut in two by a read
  MaxFaults,    \* bound: lines lost or refused, answers cut or unasked for
  MaxUploads    \* bound: uploads in a behaviour

Commands == {"G", "M28", "M29", "M30", "M30_M30"}
Answers  == {"ok", "wait", "Resend", "failed", "busy"}

ASSUME SdUploadAssumption ==
  /\ Lines \in Nat \ {0}
  /\ LongLines \subseteq 1..Lines
  /\ Tails \subseteq BOOLEAN
  /\ BufferLines \in Nat \ {0}
  /\ NB_RETRY \in Nat \ {0}
  /\ Late \in BOOLEAN /\ IdleWait \in BOOLEAN /\ OpenMayFail \in BOOLEAN
  /\ Lossy \subseteq Commands /\ Splits \subseteq Answers
  /\ MaxFaults \in Nat /\ MaxUploads \in Nat

VARIABLES
  pc,            \* where the ESP is: in a callback, between two, or idle
  buffer_line,   \* lines collected in buffer_line
  r,             \* tries made for the line in hand
  com_error, blockserial, upload_status,
  bare,          \* filename has not been prefixed with "M30 " yet
  next, tail,    \* rest of the request body: next line, no newline at the end
  long,          \* the line that does not fit in buffer_line, or 0
  connected,     \* client.connected(): the client that sends the body is there
  reported,      \* "status" in the answer to the request
  toPrinter,     \* bytes on their way to the printer, as printed pieces
  replies,       \* bytes on their way from the printer, as answers
  open,          \* the printer stores what it receives in the file
  partial,       \* received by the printer since the last newline
  file,          \* the file on the card: its lines, or NoFile
  executed,      \* the printer has executed a line of the file
  hits,          \* faults per command; hits["G"] counts other disturbances too
  uploads        \* uploads started

vars == <<pc, buffer_line, r, com_error, blockserial, upload_status, bare,
          next, tail, long, connected, reported, toPrinter, replies, open,
          partial, file, executed, hits, uploads>>

body        == <<next, tail, long, connected>>
espVars     == <<pc, buffer_line, r, com_error, blockserial, upload_status,
                 bare, body, reported, uploads>>
printerVars == <<open, partial, file, executed, hits>>

-----------------------------------------------------------------------------
(* What the ESP prints: a line of the file ("G"), one without its newline  *)
(* ("part": the next piece is glued to it), or a control command, which    *)
(* comes with its newline; M29 also with one before it.  "M30_M30" is what *)
(* a second deletion prints: filename keeps the prefix of the first.       *)

Item == [cmd : Commands \cup {"part"}, line : 0..Lines]

G(line)    == [cmd |-> "G", line |-> line]
Part(line) == [cmd |-> "part", line |-> line]
M(cmd)     == [cmd |-> cmd, line |-> 0]

(* Mutant: a line is printed without its newline.                          *)
PiecesGlued(buffer) == [i \in DOMAIN buffer |-> Part(buffer[i])]

(* The text of buffer_line with a newline after it.                        *)
Pieces(buffer) == [i \in DOMAIN buffer |-> G(buffer[i])]

(* buffer_line as it stands: the newlines inside it have been collected,   *)
(* but not that of a long line, or of a last line that has none.           *)
Unended(line) == line = long \/ (line = Lines /\ tail)

AsIs(buffer) ==
  [i \in DOMAIN buffer |-> IF i = Len(buffer) /\ Unended(buffer[i])
                             THEN Part(buffer[i]) ELSE G(buffer[i])]

(* A stored line is the sequence of the pieces glued together in it.       *)
NoFile == << <<>> >>
Junk   == <<0>>    \* a control command stored as a line of the open file

(* Mutant: any answer means that the command has passed.                   *)
PassedAlways(got) == got # <<>>

Passed(got)  == \E i \in DOMAIN got : got[i] \in {"ok", "wait"}
Refused(got) == \E i \in DOMAIN got : got[i] = "Resend"

(* What has been read leaves the line; the rest is still on its way.       *)
Rest(n) == SubSeq(replies, n + 1, Len(replies))
Got(n)  == SubSeq(replies, 1, n)

(* Mutant: wait for an answer without a time-out.                          *)
MayTimeOutNever == FALSE

Faults ==
  hits["G"] + hits["M28"] + hits["M29"] + hits["M30"] + hits["M30_M30"]

(* With prompt answers a try times out only when none can come any more.   *)
MayTimeOut == Late \/ (toPrinter = <<>> /\ replies = <<>>)

(* Mutant: one try too many.                                               *)
MoreTriesOffByOne == r <= NB_RETRY

MoreTries == r < NB_RETRY

Init ==
  /\ pc = "idle" /\ buffer_line = <<>> /\ r = 0
  /\ com_error = FALSE /\ blockserial = FALSE /\ upload_status = "NONE"
  /\ bare = TRUE /\ next = 1 /\ tail = FALSE /\ long = 0
  /\ connected = FALSE /\ reported = "none"
  /\ toPrinter = <<>> /\ replies = <<>>
  /\ open = FALSE /\ partial = <<>> /\ file = NoFile /\ executed = FALSE
  /\ hits = [c \in Commands |-> 0] /\ uploads = 0

-----------------------------------------------------------------------------
(* START: take the serial line, drop what the UART holds, print M28.       *)

StartUpload ==
  /\ pc = "idle" /\ uploads < MaxUploads
  /\ Late \/ toPrinter = <<>>
  /\ \E n \in 0..Len(replies) :
       (Late \/ n = Len(replies)) /\ replies' = Rest(n)
  /\ tail' \in Tails /\ long' \in LongLines \cup {0} /\ connected' = TRUE
  /\ uploads' = uploads + 1
  /\ blockserial' = TRUE
  /\ buffer_line' = <<>> /\ com_error' = FALSE /\ upload_status' = "ONGOING"
  /\ bare' = TRUE /\ next' = 1 /\ reported' = "none" /\ r' = 0
  /\ toPrinter' = Append(toPrinter, M("M28"))
  /\ pc' = "opening"
  /\ UNCHANGED printerVars

(* START waits for "wait"; "Resend" or "failed" is an error; "ok" and any  *)
(* other answer is read and ignored; after the time-out it goes on.        *)
OpenAnswer ==
  /\ pc = "opening"
  /\ \E n \in 1..Len(replies) :
       LET got    == Got(n)
           failed == Refused(got) \/ \E i \in DOMAIN got : got[i] = "failed"
           waited == \E i \in DOMAIN got : got[i] = "wait"
       IN /\ replies' = Rest(n)
          /\ pc' = IF waited \/ failed THEN "between" ELSE "opening"
          /\ com_error' = (failed /\ ~waited)
          /\ blockserial' = (waited \/ ~failed)
  /\ UNCHANGED <<buffer_line, r, upload_status, bare, body, reported,
                 toPrinter, printerVars, uploads>>

OpenTimeOut ==
  /\ pc = "opening" /\ MayTimeOut
  /\ pc' = "between"
  /\ UNCHANGED <<buffer_line, r, com_error, blockserial, upload_status, bare,
                 body, reported, toPrinter, replies, printerVars, uploads>>

-----------------------------------------------------------------------------
(* WRITE without error: the loop over the block, one line at a time.  The  *)
(* last line without newline stays in buffer_line.  After an error the     *)
(* rest of the block is still collected, until the buffer is full.  The    *)
(* parser calls WRITE with bytes it got from a client that is still there. *)

BufferFull == \/ Len(buffer_line) >= BufferLines
              \/ \E i \in DOMAIN buffer_line : buffer_line[i] = long

(* Mutant: data is still accepted after an error.                          *)
InWriteAfterError == pc = "chunk" \/ (pc = "between" /\ connected)

InWrite == pc = "chunk" \/ (pc = "between" /\ connected /\ ~com_error)

Collect ==
  /\ InWrite /\ next <= Lines
  /\ BufferFull \/ next = long \/ com_error \/ (next = Lines /\ tail)
  /\ next' = next + 1
  /\ buffer_line' = IF BufferFull THEN buffer_line
                                  ELSE Append(buffer_line, next)
  /\ com_error' = (com_error \/ BufferFull \/ next = long)
  /\ upload_status' = IF pc = "between" THEN "ONGOING" ELSE upload_status
  /\ pc' = "chunk"
  /\ UNCHANGED <<r, blockserial, bare, tail, long, connected, reported,
                 toPrinter, replies, printerVars, uploads>>

PrintLine ==
  /\ InWrite /\ next <= Lines
  /\ ~BufferFull /\ next # long /\ ~com_error
  /\ next # Lines \/ ~tail
  /\ next' = next + 1
  /\ buffer_line' = <<next>>
  /\ r' = 1
  /\ toPrinter' = Append(toPrinter, G(next))
  /\ upload_status' = IF pc = "between" THEN "ONGOING" ELSE upload_status
  /\ pc' = "await"
  /\ UNCHANGED <<com_error, blockserial, bare, tail, long, connected, reported,
                 replies, printerVars, uploads>>

LinePassed ==
  /\ pc = "await"
  /\ \E n \in 1..Len(replies) : Passed(Got(n)) /\ replies' = Rest(n)
  /\ buffer_line' = <<>>
  /\ pc' = "chunk"
  /\ UNCHANGED <<r, com_error, blockserial, upload_status, bare, body,
                 reported, toPrinter, printerVars, uploads>>

(* An answer with none of the words that matter is read and ignored.       *)
IgnoreAnswer ==
  /\ pc \in {"await", "tail"}
  /\ \E n \in 1..Len(replies) :
       /\ ~Passed(Got(n)) /\ ~Refused(Got(n))
       /\ replies' = Rest(n)
  /\ UNCHANGED <<espVars, toPrinter, printerVars>>

(* Each read starts a new string: of an answer that is cut in two neither  *)
(* half is recognised.                                                     *)
SplitAnswer ==
  /\ pc \in {"opening", "await", "tail"}
  /\ replies # <<>> /\ Head(replies) \in Splits /\ Faults < MaxFaults
  /\ replies' = Tail(replies)
  /\ hits' = [hits EXCEPT !["G"] = @ + 1]
  /\ UNCHANGED <<espVars, toPrinter, open, partial, file, executed>>

(* "Resend" or time-out: purge the UART, then print the line again or, at  *)
(* the last try, raise the error.                                          *)
LineFailed ==
  /\ pc = "await"
  /\ \E n \in 0..Len(replies) :
       /\ IF n = 0 THEN MayTimeOut ELSE ~Passed(Got(n)) /\ Refused(Got(n))
       /\ \E m \in n..Len(replies) :
            (Late \/ m = Len(replies)) /\ replies' = Rest(m)
  /\ IF MoreTries
       THEN /\ r' = r + 1
            /\ toPrinter' = toPrinter \o Pieces(buffer_line)
            /\ UNCHANGED <<pc, buffer_line, com_error>>
       ELSE /\ com_error' = TRUE /\ buffer_line' = <<>> /\ pc' = "chunk"
            /\ UNCHANGED <<r, toPrinter>>
  /\ UNCHANGED <<blockserial, upload_status, bare, body, reported,
                 printerVars, uploads>>

EndOfBlock ==
  /\ pc = "chunk"
  /\ pc' = "between"
  /\ UNCHANGED <<buffer_line, r, com_error, blockserial, upload_status, bare,
                 body, reported, toPrinter, replies, printerVars, uploads>>

-----------------------------------------------------------------------------
(* Closing the file: M29 twice, "as first command may be lost", and M30    *)
(* with the file name when the upload failed.  filename keeps the prefix,  *)
(* so a second deletion names another file.                                *)

Deletion == IF bare THEN M("M30") ELSE M("M30_M30")

(* Mutant: one M29 only.                                                   *)
ConfirmOnce == <<M("M29")>>

Confirm == <<M("M29"), M("M29")>>
Cancel  == Append(Confirm, Deletion)

Settle(sent, failed) ==
  /\ toPrinter' = sent \o IF failed THEN Cancel ELSE Confirm
  /\ upload_status' = IF failed THEN "CANCELLED" ELSE "SUCCESSFUL"
  /\ bare' = (bare /\ ~failed)

(* Mutant: buffer_line is kept.                                            *)
CloseKeepsLine(sent, failed) ==
  Settle(sent, failed) /\ blockserial' = FALSE /\ UNCHANGED buffer_line

Close(sent, failed) ==
  Settle(sent, failed) /\ blockserial' = FALSE /\ buffer_line' = <<>>

(* The last branch of the handler: ABORTED, and every WRITE after an error *)
(* (its block, at least one line of it, is skipped).                       *)
SkipBlock ==
  /\ pc = "between" /\ connected /\ com_error
  /\ next <= Lines /\ \E n \in next + 1 .. Lines + 1 : next' = n
  /\ Close(toPrinter, TRUE)
  /\ UNCHANGED <<pc, r, com_error, tail, long, connected, reported, replies,
                 printerVars, uploads>>

(* Mutant: a client that has gone is waited for.                           *)
AbortNever == FALSE

Abort ==
  /\ pc = "between" /\ ~connected
  /\ Close(toPrinter, TRUE)
  /\ com_error' = TRUE
  /\ pc' = "idle"
  /\ UNCHANGED <<r, body, reported, replies, printerVars, uploads>>

(* END with nothing in buffer_line.                                        *)
EndEmpty ==
  /\ pc = "between" /\ next = Lines + 1 /\ buffer_line = <<>>
  /\ Close(toPrinter, com_error)
  /\ pc' = "report"
  /\ UNCHANGED <<r, com_error, body, reported, replies, printerVars, uploads>>

(* END with a rest in buffer_line: it is printed with a newline, and again *)
(* as it stands as the first of NB_RETRY tries.                            *)
EndTail ==
  /\ pc = "between" /\ next = Lines + 1 /\ buffer_line # <<>>
  /\ toPrinter' = toPrinter \o Pieces(buffer_line)
                            \o AsIs(buffer_line)
  /\ r' = 1
  /\ pc' = "tail"
  /\ UNCHANGED <<buffer_line, com_error, blockserial, upload_status, bare,
                 body, reported, replies, printerVars, uploads>>

TailPassed ==
  /\ pc = "tail"
  /\ \E n \in 1..Len(replies) : Passed(Got(n)) /\ replies' = Rest(n)
  /\ Close(toPrinter, com_error)
  /\ pc' = "report"
  /\ UNCHANGED <<r, com_error, body, reported, printerVars, uploads>>

TailFailed ==
  /\ pc = "tail"
  /\ \E n \in 0..Len(replies) :
       /\ IF n = 0 THEN MayTimeOut ELSE ~Passed(Got(n)) /\ Refused(Got(n))
       /\ replies' = Rest(n)
  /\ IF MoreTries
       THEN /\ r' = r + 1
            /\ toPrinter' = toPrinter \o AsIs(buffer_line)
            /\ UNCHANGED <<pc, buffer_line, com_error, blockserial,
                           upload_status, bare>>
       ELSE /\ com_error' = TRUE
            /\ Close(toPrinter, TRUE)
            /\ pc' = "report" /\ UNCHANGED r
  /\ UNCHANGED <<body, reported, printerVars, uploads>>

(* handle_serial_SDFileList: the answer to the upload request.  It is not  *)
(* reached when the request was aborted.                                   *)
Report ==
  /\ pc = "report"
  /\ reported' = IF upload_status = "CANCELLED" THEN "Failed" ELSE "Ok"
  /\ blockserial' = FALSE
  /\ upload_status' = "NONE"
  /\ pc' = "idle"
  /\ UNCHANGED <<buffer_line, r, com_error, bare, body, toPrinter, replies,
                 printerVars, uploads>>

-----------------------------------------------------------------------------
(* The printer, one line at a time.  A control command first ends the line *)
(* that precedes it.                                                       *)

Arrived  == Head(toPrinter)
Text     == Arrived.cmd \in {"G", "part"}
EndsLine == partial # <<>> \/ Text
LineText == IF Text THEN Append(partial, Arrived.line) ELSE partial
Whole    == toPrinter # <<>> /\ Arrived.cmd # "part"

Consume == toPrinter' = IF Text \/ partial = <<>> THEN Tail(toPrinter) ELSE toPrinter

Fragment ==
  /\ toPrinter # <<>> /\ Arrived.cmd = "part"
  /\ partial' = LineText
  /\ Consume
  /\ UNCHANGED <<espVars, replies, open, file, executed, hits>>

(* A line is stored while the file is open and executed otherwise.         *)
TakeLine ==
  /\ Whole /\ EndsLine
  /\ Consume
  /\ partial' = <<>>
  /\ IF open THEN file' = Append(file, LineText) /\ UNCHANGED executed
             ELSE executed' = TRUE /\ UNCHANGED file
  /\ replies' = Append(replies, "ok")
  /\ UNCHANGED <<espVars, open, hits>>

Obey(cmd) == Whole /\ ~EndsLine /\ Arrived.cmd = cmd /\ Consume

OpenFile ==
  /\ Obey("M28") /\ ~open
  /\ open' = TRUE /\ file' = <<>>
  /\ replies' = Append(replies, "ok")
  /\ UNCHANGED <<espVars, partial, executed, hits>>

RefuseFile ==
  /\ Obey("M28") /\ ~open /\ OpenMayFail
  /\ replies' = Append(replies, "failed")
  /\ UNCHANGED <<espVars, printerVars>>

CloseFile ==
  /\ Obey("M29")
  /\ open' = FALSE
  /\ replies' = Append(replies, "ok")
  /\ UNCHANGED <<espVars, partial, file, executed, hits>>

DeleteFile ==
  /\ ~open
  /\ \/ Obey("M30") /\ file' = NoFile
     \/ Obey("M30_M30") /\ UNCHANGED file
  /\ replies' = Append(replies, "ok")
  /\ UNCHANGED <<espVars, open, partial, executed, hits>>

StoreCommand ==
  /\ open /\ \E cmd \in {"M28", "M30", "M30_M30"} : Obey(cmd)
  /\ file' = Append(file, Junk)
  /\ replies' = Append(replies, "ok")
  /\ UNCHANGED <<espVars, open, partial, executed, hits>>

(* A line that arrives damaged is asked for again, or goes unnoticed.      *)
Fault ==
  /\ Whole /\ Faults < MaxFaults
  /\ Consume /\ partial' = <<>>
  /\ LET cmd == IF EndsLine THEN "G" ELSE Arrived.cmd
     IN /\ hits' = [hits EXCEPT ![cmd] = @ + 1]
        /\ \/ replies' = Append(replies, "Resend")
           \/ cmd \in Lossy /\ UNCHANGED replies
  /\ UNCHANGED <<espVars, open, file, executed>>

(* Busy with a long move, the printer says so on its own account.          *)
Busy ==
  /\ Faults < MaxFaults
  /\ replies' = Append(replies, "busy")
  /\ hits' = [hits EXCEPT !["G"] = @ + 1]
  /\ UNCHANGED <<espVars, toPrinter, open, partial, file, executed>>

Idle ==
  /\ IdleWait /\ toPrinter = <<>> /\ replies = <<>>
  /\ replies' = <<"wait">>
  /\ UNCHANGED <<espVars, toPrinter, printerVars>>

-----------------------------------------------------------------------------
Callback == \/ OpenAnswer \/ OpenTimeOut
            \/ Collect \/ PrintLine \/ LinePassed \/ LineFailed \/ EndOfBlock
            \/ SkipBlock \/ Abort \/ EndEmpty \/ EndTail
            \/ TailPassed \/ TailFailed \/ IgnoreAnswer \/ SplitAnswer
            \/ Report

Printer == \/ Fragment \/ TakeLine \/ OpenFile \/ RefuseFile \/ CloseFile
           \/ DeleteFile \/ StoreCommand \/ Fault \/ Busy \/ Idle

(* External: the connection of the client is closed or lost.               *)
ClientGoes ==
  /\ connected /\ pc \notin {"idle", "report"}
  /\ connected' = FALSE
  /\ UNCHANGED <<pc, buffer_line, r, com_error, blockserial, upload_status, bare,
                 next, tail, long, reported, toPrinter, replies, printerVars,
                 uploads>>

Next == StartUpload \/ Callback \/ Printer \/ ClientGoes

(* A callback runs to its end, and the parser ends the file of a client    *)
(* that has gone.  For one that is there it waits without a time-out.      *)
Due == pc \in {"opening", "chunk", "await", "tail"} \/ (pc = "between" /\ ~connected)

(* The printer keeps reading.  Nobody has to start an upload, to send the  *)
(* rest of one, or to go away.                                             *)
Spec == Init /\ [][Next]_vars /\ WF_vars(Due /\ Callback) /\ WF_vars(Printer)

-----------------------------------------------------------------------------
(* Types of the handler's variables, of the serial line, of the printer's. *)
FlagType ==
  /\ pc \in {"idle", "opening", "between", "chunk", "await", "tail", "report"}
  /\ com_error \in BOOLEAN /\ blockserial \in BOOLEAN /\ bare \in BOOLEAN
  /\ upload_status \in {"NONE", "ONGOING", "CANCELLED", "SUCCESSFUL"}
  /\ tail \in BOOLEAN /\ connected \in BOOLEAN /\ reported \in {"none", "Ok", "Failed"}

BufferType ==
  /\ buffer_line \in Seq(1..Lines) /\ r \in 0..NB_RETRY /\ uploads \in Nat
  /\ next \in 1..Lines + 1 /\ long \in LongLines \cup {0}

LineType == toPrinter \in Seq(Item) /\ replies \in Seq(Answers)

PrinterType ==
  /\ open \in BOOLEAN /\ partial \in Seq(0..Lines)
  /\ file \in Seq(Seq(0..Lines)) /\ executed \in BOOLEAN
  /\ hits \in [Commands -> Nat]

(* Every variable keeps its type.                                          *)
TypeOK == FlagType /\ BufferType /\ LineType /\ PrinterType

(* Nothing else is forwarded to the printer while a line of the file may   *)
(* be on its way: the handler owns the serial line whenever it prints one, *)
(* also when END prints a rest left by an earlier error.                   *)
SerialLocked ==
  /\ pc \in {"opening", "chunk", "await", "tail"} => blockserial
  /\ pc \in {"idle", "report"} => ~blockserial

(* A line of the file is never executed by the printer: lines are printed  *)
(* only between an M28 that was not refused and the M29 that ends it.      *)
NeverExecuted == ~executed

Finished(answer) == reported = answer /\ pc = "idle" /\ toPrinter = <<>>

(* Lines 1..Lines in order, each on its own, each at least once.           *)
Complete ==
  /\ file # <<>> /\ file[1] = <<1>> /\ file[Len(file)] = <<Lines>>
  /\ \A i \in 1..Len(file) - 1 :
       \/ file[i + 1] = file[i]
       \/ file[i][1] < Lines /\ file[i + 1] = <<file[i][1] + 1>>

(* "Ok" is the truth: once the printer has read everything, the file holds *)
(* every line in order, if one of the two M29 arrived.                     *)
OkMeansEveryLine ==
  Finished("Ok") /\ hits["M29"] < 2 => ~open /\ Complete

(* A failed or aborted upload leaves no file and no file open, when M30    *)
(* and one of the two M29 arrive, however many blocks followed the error.  *)
FailedLeavesNoFile ==
  /\ pc = "idle" /\ com_error /\ toPrinter = <<>>
  /\ hits["M29"] < 2 /\ hits["M30"] = 0
  => ~open /\ file = NoFile

(* The serial line is given back, whatever the printer answers and also    *)
(* when the client goes away in the middle of the file; only a client that *)
(* stays connected and sends nothing more keeps it for ever.               *)
LockReleased == []<>~blockserial \/ <>[](pc = "between" /\ connected)

(* No line of the file is stored twice when nothing went wrong: the code   *)
(* announces "print the line" for a last line without newline.             *)
StoredOnce ==
  Finished("Ok") /\ Faults = 0 /\ ~Late =>
    \A i \in 1..Len(file) - 1 : file[i + 1] # file[i]
=============================================================================
