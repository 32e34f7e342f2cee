-------------------------- MODULE SdUpload_proofs --------------------------
(***************************************************************************)
(* For every file length, retry limit, choice of faults and timing:        *)
(*   - the variables of SdUpload keep their types;                         *)
(*   - the handler prints lines of the file only while it owns the serial  *)
(*     line, and never keeps the line after the request (SerialLocked).    *)
(* And with a printer that answers within the time-out (PromptPrinter),    *)
(* whatever lines, closing commands and answers to lines are lost:         *)
(*   - no line of the file is executed (NeverExecuted, from ExecInv);      *)
(*   - "Ok" means that every line is in the file, in order                 *)
(*     (OkMeansEveryLine, from Phase);                                     *)
(*   - an upload that failed leaves no file (FailedLeavesNoFile, from      *)
(*     Phase), unless both M29 or the deletion were lost;                  *)
(*   - every step is a step of SdFile or none: the upload implements what  *)
(*     its user is promised (UploadAsPromised, UploadsAsPromised).         *)
(* And with a printer that answers as late as it likes, when nothing is    *)
(* lost or refused (NothingLost), the first three hold as well             *)
(* (OkMeansEveryLineLate, when every line has its newline, from LateInv;   *)
(* NeverExecutedLate, FailedLeavesNoFileLate).                             *)
(* ExecInv says what may be on the serial line while the file is open;     *)
(* Phase, that an upload is always in one of seven phases, and what the    *)
(* handler, the serial line and the printer agree on in each.              *)
(***************************************************************************)
EXTENDS SdUploadFile, SequenceTheorems, TLAPS

(* Whether the client is there matters to the parser only: seen without    *)
(* it, a step is one of the handler or the printer, or none.               *)
uploadVars == <<pc, buffer_line, r, com_error, blockserial, upload_status, bare,
                next, tail, long, reported, toPrinter, replies, open, partial,
                file, executed, hits, uploads>>

Moves == StartUpload \/ Callback \/ Printer

LEMMA Quiet == [Next]_vars => [Moves]_uploadVars
BY DEF Next, Moves, ClientGoes, vars, uploadVars, printerVars

(* What is printed for buffer_line is a sequence of items.                 *)
LEMMA PiecesType ==
  ASSUME NEW buffer \in Seq(1..Lines)
  PROVE  Pieces(buffer) \in Seq(Item) /\ AsIs(buffer) \in Seq(Item)
<1>1. \A i \in 1..Len(buffer) :
        G(buffer[i]) \in Item /\ Part(buffer[i]) \in Item
  BY SdUploadAssumption DEF G, Part, Item, Commands
<1>2. DOMAIN buffer = 1..Len(buffer) /\ Len(buffer) \in Nat
  OBVIOUS
<1> QED BY <1>1, <1>2 DEF Pieces, AsIs

(* What closes a file is a sequence of items.                              *)
LEMMA ClosingType == Confirm \in Seq(Item) /\ Cancel \in Seq(Item)
<1>1. M("M29") \in Item /\ M("M30") \in Item /\ M("M30_M30") \in Item
  BY SdUploadAssumption DEF M, Item, Commands
<1> QED BY <1>1 DEF Confirm, Cancel, Deletion

(* So is what is on the serial line then.                                  *)
LEMMA ClosedType ==
  ASSUME toPrinter \in Seq(Item)
  PROVE  /\ toPrinter \o Confirm \in Seq(Item)
         /\ toPrinter \o Cancel \in Seq(Item)
BY ClosingType

(* An absent file has the type of a file.                                  *)
LEMMA EmptyFile == << <<>> >> \in Seq(Seq(0..Lines))
<1>1. <<>> \in Seq(0..Lines)
  OBVIOUS
<1> QED BY <1>1

(* Reading takes answers from the front.                                   *)
LEMMA RestType ==
  ASSUME replies \in Seq(Answers), NEW n \in 0..Len(replies)
  PROVE  Rest(n) \in Seq(Answers)
BY DEF Rest

(* The line the printer has read is made of lines of the file.             *)
LEMMA LineTextType ==
  ASSUME toPrinter \in Seq(Item), partial \in Seq(0..Lines), toPrinter # <<>>
  PROVE  LineText \in Seq(0..Lines)
<1>1. Arrived \in Item
  BY DEF Arrived
<1>2. Arrived.line \in 0..Lines
  BY <1>1 DEF Item
<1>3. Append(partial, Arrived.line) \in Seq(0..Lines)
  BY <1>2
<1> QED BY <1>3, Zenon DEF LineText

(* The serial line carries items one way and answers the other.            *)
LEMMA LineStep == TypeOK /\ Moves => LineType'
<1> SUFFICES ASSUME TypeOK, Moves PROVE LineType'
  OBVIOUS
<1> USE SdUploadAssumption DEF TypeOK, LineType, BufferType
<1>1. CASE StartUpload
  <2>1. M("M28") \in Item
    BY DEF M, Item, Commands
  <2>2. toPrinter' \in Seq(Item)
    BY <1>1, <2>1 DEF StartUpload
  <2>3. replies' \in Seq(Answers)
    BY <1>1, RestType DEF StartUpload
  <2> QED BY <2>2, <2>3
<1>2. CASE OpenAnswer
  BY <1>2, RestType DEF OpenAnswer
<1>3. CASE OpenTimeOut
  BY <1>3 DEF OpenTimeOut
<1>4. CASE Collect
  BY <1>4 DEF Collect
<1>5. CASE PrintLine
  <2>1. next \in 1..Lines /\ G(next) \in Item
    BY <1>5 DEF PrintLine, G, Item, Commands
  <2>2. toPrinter' = Append(toPrinter, G(next)) /\ UNCHANGED replies
    BY <1>5, Zenon DEF PrintLine
  <2> QED BY <2>1, <2>2
<1>6. CASE LinePassed
  BY <1>6, RestType DEF LinePassed
<1>7. CASE IgnoreAnswer
  BY <1>7, RestType DEF IgnoreAnswer
<1>8. CASE LineFailed
  <2>1. replies' \in Seq(Answers)
    BY <1>8, RestType DEF LineFailed
  <2>2. Pieces(buffer_line) \in Seq(Item)
    BY PiecesType
  <2>3. toPrinter \o Pieces(buffer_line) \in Seq(Item)
    BY <2>2
  <2>4. toPrinter' \in Seq(Item)
    BY <1>8, <2>3, Zenon DEF LineFailed
  <2> QED BY <2>1, <2>4
<1>9. CASE EndOfBlock
  BY <1>9 DEF EndOfBlock
<1>10. CASE SkipBlock
  BY <1>10, ClosedType, Zenon DEF SkipBlock, Close, Settle
<1>11. CASE Abort
  BY <1>11, ClosedType, Zenon DEF Abort, Close, Settle
<1>12. CASE EndEmpty
  <2>1. toPrinter' \in Seq(Item)
    BY <1>12, ClosedType, Zenon DEF EndEmpty, Close, Settle
  <2> QED BY <1>12, <2>1, Zenon DEF EndEmpty
<1>13. CASE EndTail
  <2>1. /\ Pieces(buffer_line) \in Seq(Item)
        /\ AsIs(buffer_line) \in Seq(Item)
    BY PiecesType
  <2>2. /\ toPrinter' = toPrinter \o Pieces(buffer_line)
                                \o AsIs(buffer_line)
        /\ UNCHANGED replies
    BY <1>13, Zenon DEF EndTail
  <2> QED BY <2>1, <2>2
<1>14. CASE TailPassed
  <2>1. replies' \in Seq(Answers)
    BY <1>14, RestType DEF TailPassed
  <2>2. toPrinter' \in Seq(Item)
    BY <1>14, ClosedType, Zenon DEF TailPassed, Close, Settle
  <2> QED BY <2>1, <2>2
<1>15. CASE TailFailed
  <2>1. replies' \in Seq(Answers)
    BY <1>15, RestType DEF TailFailed
  <2>2. AsIs(buffer_line) \in Seq(Item)
    BY PiecesType
  <2>3. toPrinter \o AsIs(buffer_line) \in Seq(Item)
    BY <2>2
  <2>4. toPrinter' \in Seq(Item)
    BY <1>15, <2>3, ClosedType, Zenon DEF TailFailed, Close, Settle
  <2> QED BY <2>1, <2>4
<1>16. CASE SplitAnswer
  BY <1>16 DEF SplitAnswer
<1>17. CASE Report
  BY <1>17 DEF Report
<1>18. CASE Fragment
  <2>1. toPrinter' \in Seq(Item)
    BY <1>18 DEF Fragment, Consume
  <2>2. replies' \in Seq(Answers)
    BY <1>18 DEF Fragment, Consume, Answers
  <2> QED BY <2>1, <2>2
<1>19. CASE TakeLine
  <2>1. toPrinter' \in Seq(Item)
    BY <1>19 DEF TakeLine, Whole, Consume
  <2>2. replies' \in Seq(Answers)
    BY <1>19 DEF TakeLine, Whole, Consume, Answers
  <2> QED BY <2>1, <2>2
<1>20. CASE OpenFile
  <2>1. toPrinter' \in Seq(Item)
    BY <1>20 DEF OpenFile, Obey, Whole, Consume
  <2>2. replies' \in Seq(Answers)
    BY <1>20 DEF OpenFile, Obey, Whole, Consume, Answers
  <2> QED BY <2>1, <2>2
<1>21. CASE RefuseFile
  <2>1. toPrinter' \in Seq(Item)
    BY <1>21 DEF RefuseFile, Obey, Whole, Consume
  <2>2. replies' \in Seq(Answers)
    BY <1>21 DEF RefuseFile, Obey, Whole, Consume, Answers
  <2> QED BY <2>1, <2>2
<1>22. CASE CloseFile
  <2>1. toPrinter' \in Seq(Item)
    BY <1>22 DEF CloseFile, Obey, Whole, Consume
  <2>2. replies' \in Seq(Answers)
    BY <1>22 DEF CloseFile, Obey, Whole, Consume, Answers
  <2> QED BY <2>1, <2>2
<1>23. CASE DeleteFile
  <2>1. toPrinter # <<>> /\ Consume /\ replies' = Append(replies, "ok")
    BY <1>23, Zenon DEF DeleteFile, Obey, Whole
  <2> QED BY <2>1 DEF Consume, Answers
<1>24. CASE StoreCommand
  <2>1. toPrinter' \in Seq(Item)
    BY <1>24 DEF StoreCommand, Obey, Whole, Consume
  <2>2. replies' \in Seq(Answers)
    BY <1>24 DEF StoreCommand, Obey, Whole, Consume, Answers
  <2> QED BY <2>1, <2>2
<1>25. CASE Fault
  <2>1. toPrinter' \in Seq(Item)
    BY <1>25 DEF Fault, Whole, Consume
  <2>2. replies' \in Seq(Answers)
    <3>1. replies' = replies \/ replies' = Append(replies, "Resend")
      BY <1>25, Zenon DEF Fault
    <3>2. "Resend" \in Answers
      BY DEF Answers
    <3>3. Append(replies, "Resend") \in Seq(Answers)
      BY <3>2
    <3> QED BY <3>1, <3>3, Zenon
  <2> QED BY <2>1, <2>2
<1>27. CASE Busy
  <2>1. toPrinter' \in Seq(Item)
    BY <1>27 DEF Busy
  <2>2. replies' \in Seq(Answers)
    BY <1>27 DEF Busy, Answers
  <2> QED BY <2>1, <2>2
<1>26. CASE Idle
  <2>1. toPrinter' \in Seq(Item)
    BY <1>26 DEF Idle
  <2>2. replies' \in Seq(Answers)
    BY <1>26 DEF Idle, Answers
  <2> QED BY <2>1, <2>2
<1> QED BY <1>1, <1>2, <1>3, <1>4, <1>5, <1>6, <1>7, <1>8, <1>9, <1>10,
           <1>11, <1>12, <1>13, <1>14, <1>15, <1>16, <1>17, <1>18, <1>19,
           <1>20, <1>21, <1>22, <1>23, <1>24, <1>25, <1>26, <1>27
        DEF Moves, Callback, Printer

(* The flags, the status and what remains to be said of the request.       *)
LEMMA FlagStep == TypeOK /\ Moves => FlagType'
<1> SUFFICES ASSUME TypeOK, Moves PROVE FlagType'
  OBVIOUS
<1> USE DEF TypeOK, FlagType
<1>1. CASE StartUpload
  <2>1. Tails \subseteq BOOLEAN
    BY SdUploadAssumption
  <2> QED BY <1>1, <2>1, Zenon DEF StartUpload
<1>2. CASE OpenAnswer
  BY <1>2, Zenon DEF OpenAnswer, body
<1>3. CASE OpenTimeOut
  BY <1>3, Zenon DEF OpenTimeOut, body
<1>4. CASE Collect
  BY <1>4, Zenon DEF Collect
<1>5. CASE PrintLine
  BY <1>5, Zenon DEF PrintLine
<1>6. CASE LinePassed
  BY <1>6, Zenon DEF LinePassed, body
<1>7. CASE LineFailed
  BY <1>7, Zenon DEF LineFailed, body
<1>8. CASE EndOfBlock
  BY <1>8, Zenon DEF EndOfBlock, body
<1>9. CASE SkipBlock
  BY <1>9, Zenon DEF SkipBlock, Close, Settle
<1>10. CASE Abort
  BY <1>10, Zenon DEF Abort, body, Close, Settle
<1>11. CASE EndEmpty
  BY <1>11, Zenon DEF EndEmpty, body, Close, Settle
<1>12. CASE EndTail
  BY <1>12, Zenon DEF EndTail, body
<1>13. CASE TailPassed
  BY <1>13, Zenon DEF TailPassed, body, Close, Settle
<1>14. CASE TailFailed
  BY <1>14, Zenon DEF TailFailed, body, Close, Settle
<1>15. CASE Report
  BY <1>15, Zenon DEF Report, body
<1>16. CASE (IgnoreAnswer \/ SplitAnswer \/ Printer)
  <2>1. UNCHANGED espVars
    BY <1>16 DEF IgnoreAnswer, SplitAnswer, Printer, Fragment, TakeLine,
              OpenFile, RefuseFile, CloseFile, DeleteFile, StoreCommand,
              Fault, Busy, Idle
  <2> QED BY <2>1, Zenon DEF espVars, body
<1> QED BY <1>1, <1>2, <1>3, <1>4, <1>5, <1>6, <1>7, <1>8, <1>9, <1>10,
           <1>11, <1>12, <1>13, <1>14, <1>15, <1>16
        DEF Moves, Callback

(* buffer_line and the counters.                                           *)
LEMMA BufferStep == TypeOK /\ Moves => BufferType'
<1> SUFFICES ASSUME TypeOK, Moves PROVE BufferType'
  OBVIOUS
<1> USE SdUploadAssumption DEF TypeOK, BufferType
<1>1. CASE StartUpload
  <2>1. /\ buffer_line' = <<>> /\ r' = 0 /\ next' = 1
        /\ uploads' = uploads + 1 /\ long' \in LongLines \cup {0}
    BY <1>1, Zenon DEF StartUpload
  <2> QED BY <2>1
<1>2. CASE OpenAnswer
  BY <1>2, Zenon DEF OpenAnswer, body
<1>3. CASE OpenTimeOut
  BY <1>3, Zenon DEF OpenTimeOut, body
<1>4. CASE EndOfBlock
  BY <1>4, Zenon DEF EndOfBlock, body
<1>5. CASE Report
  BY <1>5, Zenon DEF Report, body
<1>6. CASE Collect
  <2>1. /\ next <= Lines /\ next' = next + 1
        /\ \/ buffer_line' = buffer_line
           \/ buffer_line' = Append(buffer_line, next)
        /\ UNCHANGED <<r, long, uploads>>
    BY <1>6, Zenon DEF Collect
  <2> QED BY <2>1, SMTT(30)
<1>7. CASE PrintLine
  <2>1. /\ next <= Lines /\ next' = next + 1
        /\ buffer_line' = <<next>> /\ r' = 1
        /\ UNCHANGED <<long, uploads>>
    BY <1>7, Zenon DEF PrintLine
  <2> QED BY <2>1
<1>8. CASE LinePassed
  <2>1. /\ buffer_line' = <<>>
        /\ UNCHANGED <<r, next, long, uploads>>
    BY <1>8, Zenon DEF LinePassed, body
  <2> QED BY <2>1
<1>9. CASE LineFailed
  <2>1. <<>> \in Seq(1..Lines) /\ (r < NB_RETRY => r + 1 \in 0..NB_RETRY)
    OBVIOUS
  <2> QED BY <1>9, <2>1, Zenon DEF LineFailed, MoreTries, body
<1>10. CASE SkipBlock
  <2>1. /\ buffer_line' = <<>>
        /\ \E n \in next + 1 .. Lines + 1 : next' = n
        /\ UNCHANGED <<r, long, uploads>>
    BY <1>10, Zenon DEF SkipBlock, Close
  <2> QED BY <2>1
<1>11. CASE Abort
  <2>1. /\ buffer_line' = <<>>
        /\ UNCHANGED <<r, next, long, uploads>>
    BY <1>11, Zenon DEF Abort, Close, body
  <2> QED BY <2>1
<1>12. CASE EndEmpty
  <2>1. /\ buffer_line' = <<>>
        /\ UNCHANGED <<r, next, long, uploads>>
    BY <1>12, Zenon DEF EndEmpty, Close, body
  <2> QED BY <2>1
<1>13. CASE TailPassed
  <2>1. /\ buffer_line' = <<>>
        /\ UNCHANGED <<r, next, long, uploads>>
    BY <1>13, Zenon DEF TailPassed, Close, body
  <2> QED BY <2>1
<1>14. CASE EndTail
  <2>1. /\ r' = 1
        /\ UNCHANGED <<buffer_line, next, long, uploads>>
    BY <1>14, Zenon DEF EndTail, body
  <2> QED BY <2>1
<1>15. CASE TailFailed
  <2>1. <<>> \in Seq(1..Lines) /\ (r < NB_RETRY => r + 1 \in 0..NB_RETRY)
    OBVIOUS
  <2> QED BY <1>15, <2>1, Zenon DEF TailFailed, MoreTries, Close, body
<1>16. CASE (IgnoreAnswer \/ SplitAnswer \/ Printer)
  <2>1. UNCHANGED espVars
    BY <1>16 DEF IgnoreAnswer, SplitAnswer, Printer, Fragment, TakeLine,
              OpenFile, RefuseFile, CloseFile, DeleteFile, StoreCommand,
              Fault, Busy, Idle
  <2> QED BY <2>1, Zenon DEF espVars, body
<1> QED BY <1>1, <1>2, <1>3, <1>4, <1>5, <1>6, <1>7, <1>8, <1>9, <1>10,
           <1>11, <1>12, <1>13, <1>14, <1>15, <1>16
        DEF Moves, Callback

(* The printer's variables.                                                *)
LEMMA PrinterStep == TypeOK /\ Moves => PrinterType'
<1> SUFFICES ASSUME TypeOK, Moves PROVE PrinterType'
  OBVIOUS
<1> USE SdUploadAssumption DEF TypeOK, LineType, PrinterType
<1>1. CASE (StartUpload \/ RefuseFile \/ Idle \/ (Callback /\ ~SplitAnswer))
  <2>1. UNCHANGED printerVars
    BY <1>1 DEF StartUpload, Callback, OpenAnswer, OpenTimeOut, Collect,
              PrintLine, LinePassed, LineFailed, EndOfBlock, SkipBlock,
              Abort, EndEmpty, EndTail, TailPassed, TailFailed,
              IgnoreAnswer, Report, RefuseFile, Idle
  <2> QED BY <2>1 DEF printerVars
<1>2. CASE SplitAnswer \/ Busy
  BY <1>2 DEF SplitAnswer, Busy, Commands
<1>3. CASE Fragment
  BY <1>3, LineTextType DEF Fragment
<1>4. CASE TakeLine
  <2>1. LineText \in Seq(0..Lines)
    BY <1>4, LineTextType DEF TakeLine, Whole
  <2>2. Append(file, LineText) \in Seq(Seq(0..Lines))
        /\ <<>> \in Seq(0..Lines)
    BY <2>1
  <2> QED BY <1>4, <2>2, Zenon DEF TakeLine
<1>5. CASE OpenFile
  BY <1>5 DEF OpenFile
<1>6. CASE CloseFile
  BY <1>6 DEF CloseFile
<1>7. CASE DeleteFile
  <2>1. NoFile \in Seq(Seq(0..Lines))
    BY EmptyFile DEF NoFile
  <2>2. file' \in {file, NoFile}
    BY <1>7 DEF DeleteFile
  <2> QED BY <1>7, <2>1, <2>2 DEF DeleteFile
<1>8. CASE StoreCommand
  <2>1. Junk \in Seq(0..Lines)
    BY DEF Junk
  <2>2. Append(file, Junk) \in Seq(Seq(0..Lines))
    BY <2>1
  <2>3. file' \in Seq(Seq(0..Lines))
    BY <1>8, <2>2 DEF StoreCommand
  <2>4. UNCHANGED <<open, partial, executed, hits>>
    BY <1>8, Zenon DEF StoreCommand
  <2> QED BY <2>3, <2>4
<1>9. CASE Fault
  <2>1. Arrived.cmd \in Commands
    <3>1. toPrinter # <<>> /\ Arrived.cmd # "part"
      BY <1>9, Zenon DEF Fault, Whole
    <3>2. Arrived \in Item
      BY <3>1 DEF Arrived
    <3> QED BY <3>1, <3>2 DEF Item
  <2>2. \E cmd \in Commands : hits' = [hits EXCEPT ![cmd] = hits[cmd] + 1]
    <3>1. "G" \in Commands
      BY DEF Commands
    <3> QED BY <1>9, <2>1, <3>1, Zenon DEF Fault
  <2>3. partial' = <<>> /\ UNCHANGED <<open, file, executed>>
    BY <1>9, Zenon DEF Fault
  <2> QED BY <2>2, <2>3
<1> QED BY <1>1, <1>2, <1>3, <1>4, <1>5, <1>6, <1>7, <1>8, <1>9
        DEF Moves, Printer, Callback

(* Every variable keeps its type.                                          *)
THEOREM TypeCorrect == Spec => []TypeOK
<1>1. Init => TypeOK
  <2> SUFFICES ASSUME Init PROVE TypeOK
    OBVIOUS
  <2> USE SdUploadAssumption
  <2>1. FlagType /\ BufferType
    <3>1. <<>> \in Seq(1..Lines) /\ 0 \in 0..NB_RETRY /\ 1 \in 1..Lines + 1
      OBVIOUS
    <3> QED BY <3>1, Zenon DEF Init, FlagType, BufferType
  <2>2. LineType
    BY DEF Init, LineType
  <2>3. PrinterType
    <3>1. << <<>> >> \in Seq(Seq(0..Lines)) /\ <<>> \in Seq(0..Lines)
      BY EmptyFile
    <3>2. [c \in Commands |-> 0] \in [Commands -> Nat]
      OBVIOUS
    <3> QED BY <3>1, <3>2, Zenon DEF Init, NoFile, PrinterType
  <2> QED BY <2>1, <2>2, <2>3 DEF TypeOK
<1>2. TypeOK /\ [Next]_vars => TypeOK'
  <2> SUFFICES ASSUME TypeOK, [Next]_vars PROVE TypeOK'
    OBVIOUS
  <2>1. CASE Moves
    BY <2>1, LineStep, FlagStep, BufferStep, PrinterStep DEF TypeOK
  <2>2. CASE ClientGoes
    <3>1. UNCHANGED uploadVars /\ connected' = FALSE
      BY <2>2 DEF ClientGoes, printerVars, uploadVars
    <3>2. connected' \in BOOLEAN
      BY <3>1
    <3>3. FlagType'
      BY <3>1, <3>2, Zenon DEF uploadVars, TypeOK, FlagType
    <3> QED
      BY <3>1, <3>3 DEF uploadVars, TypeOK, BufferType, LineType, PrinterType
  <2>3. CASE UNCHANGED vars
    BY <2>3 DEF vars, TypeOK, FlagType, BufferType, LineType, PrinterType
  <2> QED BY <2>1, <2>2, <2>3 DEF Next, Moves
<1> QED BY <1>1, <1>2, PTL DEF Spec

(* SerialLocked is not inductive: between two callbacks the line is free   *)
(* only after an error, and then no line may be left in buffer_line, or    *)
(* END would print it.                                                     *)
LockInv ==
  /\ SerialLocked
  /\ pc = "opening" => buffer_line = <<>>
  /\ pc = "between" /\ ~blockserial => com_error /\ buffer_line = <<>>

(* It is kept by every step.                                               *)
LEMMA LockKept == Spec => []LockInv
<1>1. Init => LockInv
  BY DEF Init, LockInv, SerialLocked
<1>2. LockInv /\ [Moves]_uploadVars => LockInv'
  <2> SUFFICES ASSUME LockInv, [Moves]_uploadVars PROVE LockInv'
    OBVIOUS
  <2> USE DEF LockInv, SerialLocked
  <2>1. CASE StartUpload
    BY <2>1 DEF StartUpload
  <2>2. CASE OpenAnswer
    <3>1. PICK n \in 1..Len(replies) :
            LET failed == \/ Refused(Got(n))
                          \/ \E i \in DOMAIN Got(n) : Got(n)[i] = "failed"
                waited == \E i \in DOMAIN Got(n) : Got(n)[i] = "wait"
            IN /\ pc' = IF waited \/ failed THEN "between" ELSE "opening"
               /\ com_error' = (failed /\ ~waited)
               /\ blockserial' = (waited \/ ~failed)
      BY <2>2, Zenon DEF OpenAnswer
    <3>2. pc = "opening" /\ UNCHANGED buffer_line
      BY <2>2 DEF OpenAnswer
    <3> QED BY <3>1, <3>2
  <2>3. CASE OpenTimeOut \/ EndOfBlock
    BY <2>3 DEF OpenTimeOut, EndOfBlock
  <2>4. CASE Collect \/ PrintLine
    BY <2>4 DEF Collect, PrintLine, InWrite
  <2>5. CASE LinePassed \/ LineFailed
    BY <2>5 DEF LinePassed, LineFailed
  <2>6. CASE SkipBlock \/ Abort \/ EndEmpty
    <3>1. /\ blockserial' = FALSE /\ buffer_line' = <<>>
          /\ \/ pc' = "between" /\ com_error' = TRUE
             \/ pc' \in {"idle", "report"}
      <4>1. CASE SkipBlock
        BY <4>1 DEF SkipBlock, Close
      <4> QED BY <2>6, <4>1, Zenon DEF Abort, EndEmpty, Close
    <3> QED BY <3>1
  <2>7. CASE EndTail \/ TailPassed \/ TailFailed
    BY <2>7 DEF EndTail, TailPassed, TailFailed, Close
  <2>8. CASE Report
    BY <2>8 DEF Report
  <2>9. CASE IgnoreAnswer \/ SplitAnswer \/ Printer
    BY <2>9 DEF IgnoreAnswer, SplitAnswer, Printer, Fragment, TakeLine,
                OpenFile, RefuseFile, CloseFile, DeleteFile, StoreCommand,
                Fault, Busy, Idle, espVars
  <2>10. CASE UNCHANGED uploadVars
    BY <2>10 DEF uploadVars
  <2> QED BY <2>1, <2>2, <2>3, <2>4, <2>5, <2>6, <2>7, <2>8, <2>9, <2>10
          DEF Moves, Callback
<1> QED BY <1>1, <1>2, Quiet, PTL DEF Spec

(* Lines of the file are printed under the lock, which ends with the       *)
(* request.                                                                *)
THEOREM SerialLockedAlways == Spec => []SerialLocked
<1>1. LockInv => SerialLocked
  BY DEF LockInv
<1> QED BY <1>1, LockKept, PTL

(* The printer answers within the time-out and says "wait" only when asked,*)
(* a refusal is not cut in two and M28 is not lost unnoticed.              *)
PromptPrinter ==
  /\ ~Late /\ ~IdleWait
  /\ Splits \subseteq {"ok", "busy"} /\ "M28" \notin Lossy

Sent      == 1..Len(toPrinter)
IsText(i) == toPrinter[i].cmd \in {"G", "part"}
AllText   == \A i \in Sent : IsText(i)
TextFirst == \A i, j \in Sent : i < j /\ IsText(j) => IsText(i)

(* The handler sends lines, or will when END finds something in the buffer.*)
Sending == \/ pc \in {"chunk", "await", "tail"}
           \/ pc = "between" /\ (~com_error \/ buffer_line # <<>>)

NoWait == \A i \in 1..Len(replies) : replies[i] # "wait"
OpeningFailed == \E i \in 1..Len(replies) : replies[i] \in {"failed",
                                                            "Resend"}

TextOpen == (toPrinter # <<>> /\ IsText(1)) \/ partial # <<>> => open
SendingOpen == Sending => open /\ AllText
OpeningAnswered ==
  pc = "opening" => \/ toPrinter = <<M("M28")>>
                    \/ toPrinter = <<>> /\ (open \/ OpeningFailed)

ExecInv ==
  /\ ~executed /\ NoWait /\ TextFirst
  /\ TextOpen /\ SendingOpen /\ OpeningAnswered

(* Taking the first item keeps the order of what follows.                  *)
LEMMA TextConsumed ==
  ASSUME LineType, toPrinter # <<>>, TextFirst,
         toPrinter' \in {toPrinter, Tail(toPrinter)}
  PROVE  /\ TextFirst' /\ (AllText => AllText')
         /\ ~IsText(1) /\ toPrinter' # <<>> => ~IsText(1)'
<1> USE DEF LineType
<1>1. CASE toPrinter' = toPrinter
  BY <1>1 DEF TextFirst, AllText, Sent, IsText
<1>2. CASE toPrinter' = Tail(toPrinter)
  <2>1. /\ Len(toPrinter) \in Nat \ {0}
        /\ Len(toPrinter') = Len(toPrinter) - 1
        /\ \A i \in 1..Len(toPrinter') : toPrinter'[i] = toPrinter[i + 1]
    BY <1>2
  <2>2. \A i \in 1..Len(toPrinter') :
          i + 1 \in Sent /\ (IsText(i)' <=> IsText(i + 1))
    BY <2>1 DEF IsText, Sent
  <2>3. TextFirst'
    <3> SUFFICES ASSUME NEW i \in Sent', NEW j \in Sent', i < j, IsText(j)'
                 PROVE  IsText(i)'
      BY DEF TextFirst
    <3> QED BY <2>1, <2>2 DEF TextFirst, Sent
  <2>4. AllText => AllText'
    BY <2>2 DEF AllText, Sent
  <2>5. ~IsText(1) /\ toPrinter' # <<>> => ~IsText(1)'
    <3> SUFFICES ASSUME ~IsText(1), toPrinter' # <<>> PROVE ~IsText(1)'
      OBVIOUS
    <3>1. 1 \in 1..Len(toPrinter') /\ 1 \in Sent /\ 2 \in Sent
      BY <1>2, <2>1 DEF Sent
    <3>2. IsText(1)' <=> IsText(2)
      BY <2>2, <3>1
    <3> QED BY <3>1, <3>2 DEF TextFirst
  <2> QED BY <2>3, <2>4, <2>5
<1> QED BY <1>1, <1>2

(* Pieces of some kinds behind pieces of the same kinds.                   *)
LEMMA ItemsGlued ==
  ASSUME NEW p \in Seq(Item), NEW s \in Seq(Item), NEW kinds,
         \A i \in 1..Len(p) : p[i].cmd \in kinds,
         \A i \in 1..Len(s) : s[i].cmd \in kinds
  PROVE  \A i \in 1..Len(p \o s) : (p \o s)[i].cmd \in kinds
<1> DEFINE q == p \o s
<1>1. /\ Len(q) = Len(p) + Len(s) /\ Len(p) \in Nat /\ Len(s) \in Nat
      /\ \A i \in 1..Len(p) + Len(s) :
           q[i] = IF i <= Len(p) THEN p[i] ELSE s[i - Len(p)]
  BY ConcatProperties
<1> HIDE DEF q
<1>2. SUFFICES ASSUME NEW i \in 1..Len(q) PROVE q[i].cmd \in kinds
  BY DEF q
<1>3. CASE i <= Len(p)
  <2>1. i \in 1..Len(p)
    BY <1>1, <1>3
  <2> QED BY <1>1, <1>3, <2>1
<1>4. CASE ~ i <= Len(p)
  <2>1. i - Len(p) \in 1..Len(s) /\ q[i] = s[i - Len(p)]
    BY <1>1, <1>4
  <2> QED BY <2>1
<1> QED BY <1>3, <1>4

(* Printing lines of the file after lines of the file.                     *)
LEMMA TextPrinted ==
  ASSUME LineType, AllText, NEW s \in Seq(Item),
         \A i \in 1..Len(s) : s[i].cmd \in {"G", "part"},
         toPrinter' = toPrinter \o s
  PROVE  AllText'
<1>1. /\ toPrinter \in Seq(Item)
      /\ \A i \in 1..Len(toPrinter) : toPrinter[i].cmd \in {"G", "part"}
  BY DEF LineType, AllText, Sent, IsText
<1>2. \A i \in 1..Len(toPrinter') : toPrinter'[i].cmd \in {"G", "part"}
  BY <1>1, ItemsGlued
<1> QED BY <1>2 DEF AllText, Sent, IsText

(* Printing control commands after what is on the line.                    *)
LEMMA CommandsPrinted ==
  ASSUME LineType, TextFirst, NEW s \in Seq(Item),
         \A i \in 1..Len(s) : s[i].cmd \notin {"G", "part"},
         toPrinter' = toPrinter \o s
  PROVE  /\ TextFirst'
         /\ toPrinter' # <<>> /\ IsText(1)' => toPrinter # <<>> /\ IsText(1)
<1> USE DEF LineType
<1>1. \A i \in Sent' :
        IF i \in Sent THEN IsText(i)' <=> IsText(i) ELSE ~IsText(i)'
  BY DEF IsText, Sent
<1>2. /\ Len(toPrinter) \in Nat /\ Len(toPrinter') \in Nat
      /\ Len(toPrinter) <= Len(toPrinter')
  OBVIOUS
<1>3. TextFirst'
  <2> SUFFICES ASSUME NEW i \in Sent', NEW j \in Sent', i < j, IsText(j)'
               PROVE  IsText(i)'
    BY DEF TextFirst
  <2>1. j \in Sent
    BY <1>1
  <2>2. i \in Sent
    BY <2>1, <1>2 DEF Sent
  <2> QED BY <1>1, <2>1, <2>2 DEF TextFirst
<1>4. toPrinter' # <<>> /\ IsText(1)' => toPrinter # <<>> /\ IsText(1)
  <2> SUFFICES ASSUME toPrinter' # <<>>, IsText(1)'
               PROVE  toPrinter # <<>> /\ IsText(1)
    OBVIOUS
  <2>1. 1 \in Sent'
    BY <1>2 DEF Sent
  <2>2. 1 \in Sent /\ IsText(1)
    BY <1>1, <2>1
  <2> QED BY <2>2 DEF Sent
<1> QED BY <1>3, <1>4

(* What is printed for a buffer is text of the file.                       *)
LEMMA PiecesText ==
  ASSUME NEW buffer \in Seq(1..Lines)
  PROVE  /\ \A i \in 1..Len(Pieces(buffer)) :
              Pieces(buffer)[i].cmd \in {"G", "part"}
         /\ \A i \in 1..Len(AsIs(buffer)) :
              AsIs(buffer)[i].cmd \in {"G", "part"}
<1>1. /\ Pieces(buffer) \in Seq(Item) /\ AsIs(buffer) \in Seq(Item)
      /\ DOMAIN buffer = 1..Len(buffer) /\ Len(buffer) \in Nat
  BY PiecesType
<1>2. DOMAIN Pieces(buffer) = DOMAIN buffer
      /\ DOMAIN AsIs(buffer) = DOMAIN buffer
  BY Zenon DEF Pieces, AsIs
<1>3. \A i \in DOMAIN buffer : /\ Pieces(buffer)[i].cmd \in {"G", "part"}
                               /\ AsIs(buffer)[i].cmd \in {"G", "part"}
  BY DEF Pieces, AsIs, G, Part
<1>4. \A s \in Seq(Item) : DOMAIN s = 1..Len(s)
  OBVIOUS
<1> QED BY <1>1, <1>2, <1>3, <1>4

(* What closes a file is commands.                                         *)
LEMMA ClosingCommands ==
  /\ \A i \in 1..Len(Confirm) : Confirm[i].cmd \notin {"G", "part"}
  /\ \A i \in 1..Len(Cancel) : Cancel[i].cmd \notin {"G", "part"}
<1>1. M("M29").cmd = "M29" /\ Deletion.cmd \in {"M30", "M30_M30"}
  BY DEF M, Deletion
<1>2. /\ Confirm = <<M("M29"), M("M29")>>
      /\ Len(Cancel) = 3 /\ Cancel[1] = M("M29") /\ Cancel[2] = M("M29")
      /\ Cancel[3] = Deletion
  BY DEF Confirm, Cancel
<1>3. \A i \in 1..Len(Confirm) : Confirm[i].cmd \notin {"G", "part"}
  BY <1>1, <1>2
<1>4. \A i \in 1..Len(Cancel) : Cancel[i].cmd \notin {"G", "part"}
  <2>1. 1..Len(Cancel) = {1, 2, 3}
    BY <1>2
  <2> QED BY <1>1, <1>2, <2>1
<1> QED BY <1>3, <1>4

(* Closing the file puts no text behind a command.                         *)
LEMMA ClosedText ==
  ASSUME LineType, TextFirst, NEW failed \in BOOLEAN, Settle(toPrinter,
                                                             failed)
  PROVE  /\ TextFirst'
         /\ toPrinter' # <<>> /\ IsText(1)' => toPrinter # <<>> /\ IsText(1)
<1>1. CASE failed
  BY <1>1, CommandsPrinted, ClosingCommands, ClosingType DEF Settle
<1>2. CASE ~failed
  BY <1>2, CommandsPrinted, ClosingCommands, ClosingType DEF Settle
<1> QED BY <1>1, <1>2

(* Reading from the front, and a new answer behind.                        *)
LEMMA RestOf ==
  ASSUME LineType, NEW n \in 0..Len(replies), replies' = Rest(n)
  PROVE  /\ Len(replies) \in Nat /\ Len(replies') = Len(replies) - n
         /\ \A i \in 1..Len(replies') :
              i + n \in 1..Len(replies) /\ replies'[i] = replies[i + n]
         /\ Len(Got(n)) = n /\ \A i \in 1..n : Got(n)[i] = replies[i]
         /\ DOMAIN Got(n) = 1..n
BY DEF LineType, Rest, Got

(* What has been read.                                                     *)
LEMMA GotIs ==
  ASSUME LineType, NEW n \in 1..Len(replies)
  PROVE  /\ n \in 0..Len(replies)
         /\ \A i \in DOMAIN Got(n) :
              i \in 1..n /\ i \in 1..Len(replies) /\ Got(n)[i] = replies[i]
BY DEF LineType, Got

(* Leaving the first answer is reading one.                                *)
LEMMA TailIsRest ==
  ASSUME LineType, replies # <<>>, replies' = Tail(replies)
  PROVE  1 \in 1..Len(replies) /\ replies' = Rest(1)
BY DEF LineType, Rest

(* A refusal that has not been read is still to come.                      *)
LEMMA RefusalComes ==
  ASSUME LineType, NEW n \in 0..Len(replies), replies' = Rest(n),
         \A i \in 1..n : replies[i] \notin {"failed", "Resend"}
  PROVE  OpeningFailed => OpeningFailed'
<1> SUFFICES ASSUME NEW i \in 1..Len(replies),
                    replies[i] \in {"failed", "Resend"}
             PROVE  OpeningFailed'
  BY DEF OpeningFailed
<1>1. i \notin 1..n /\ i \in Nat
  OBVIOUS
<1>2. i - n \in 1..Len(replies')
  BY <1>1, RestOf DEF LineType
<1>3. replies'[i - n] = replies[i]
  BY <1>1, <1>2, RestOf
<1> QED BY <1>2, <1>3 DEF OpeningFailed

(* None of the answers read is a "wait".                                   *)
LEMMA NoWaitRead ==
  ASSUME LineType, NoWait, NEW n \in 0..Len(replies), replies' = Rest(n)
  PROVE  NoWait'
BY RestOf DEF NoWait

(* Any other answer leaves that true.                                      *)
LEMMA NoWaitAnswered ==
  ASSUME LineType, NoWait, NEW a \in Answers \ {"wait"},
         replies' = Append(replies, a)
  PROVE  NoWait' /\ (OpeningFailed => OpeningFailed')
BY DEF LineType, NoWait, OpeningFailed

(* The answers on their way contain no "wait".                             *)
LEMMA NoWaitStep ==
  ASSUME PromptPrinter, TypeOK, NoWait, Moves
  PROVE  NoWait'
<1> USE DEF TypeOK
<1>1. CASE StartUpload
  BY <1>1, NoWaitRead DEF StartUpload
<1>2. CASE OpenAnswer
  BY <1>2, NoWaitRead DEF OpenAnswer
<1>3. CASE LinePassed \/ IgnoreAnswer \/ TailPassed
  BY <1>3, NoWaitRead DEF LinePassed, IgnoreAnswer, TailPassed
<1>4. CASE LineFailed
  <2>1. \E n \in 0..Len(replies) : \E m \in n..Len(replies) :
          replies' = Rest(m)
    BY <1>4 DEF LineFailed
  <2>2. \E m \in 0..Len(replies) : replies' = Rest(m)
    BY <2>1
  <2> QED BY <2>2, NoWaitRead
<1>5. CASE TailFailed
  BY <1>5, NoWaitRead DEF TailFailed
<1>6. CASE SplitAnswer
  <2>1. replies # <<>> /\ replies' = Tail(replies)
    BY <1>6 DEF SplitAnswer
  <2> QED BY <2>1 DEF LineType, NoWait
<1>7. CASE \/ OpenTimeOut \/ Collect \/ PrintLine \/ EndOfBlock \/ SkipBlock
           \/ Abort \/ EndEmpty \/ EndTail \/ Report \/ Fragment
  <2>1. UNCHANGED replies
    BY <1>7 DEF OpenTimeOut, Collect, PrintLine, EndOfBlock, SkipBlock,
       Abort, EndEmpty, EndTail, Report, Fragment
  <2> QED BY <2>1 DEF NoWait
<1>8. CASE \/ TakeLine \/ OpenFile \/ RefuseFile \/ CloseFile
           \/ DeleteFile \/ StoreCommand \/ Fault \/ Busy
  <2>1. \/ UNCHANGED replies
        \/ \E a \in {"ok", "failed", "Resend", "busy"} :
             replies' = Append(replies, a)
    <3>1. CASE Fault
      BY <3>1 DEF Fault
    <3>2. CASE \/ TakeLine \/ OpenFile \/ RefuseFile \/ CloseFile
               \/ DeleteFile \/ StoreCommand \/ Busy
      BY <3>2 DEF TakeLine, OpenFile, RefuseFile, CloseFile,
         DeleteFile, StoreCommand, Busy
    <3> QED BY <1>8, <3>1, <3>2
  <2>2. {"ok", "failed", "Resend", "busy"} \subseteq Answers \ {"wait"}
    BY DEF Answers
  <2> QED BY <2>1, <2>2, NoWaitAnswered DEF NoWait
<1>9. CASE Idle
  BY <1>9 DEF Idle, PromptPrinter
<1> QED BY <1>1, <1>2, <1>3, <1>4, <1>5, <1>6, <1>7, <1>8, <1>9
        DEF Moves, Callback, Printer

(* What the handler does keeps text first, the file open under text, and   *)
(* sends only to an open file.                                             *)
LEMMA ExecCallback ==
  ASSUME PromptPrinter, TypeOK, LockInv, ExecInv, StartUpload \/ Callback
  PROVE  /\ ~executed' /\ TextFirst' /\ TextOpen' /\ SendingOpen'
         /\ OpeningAnswered'
<1> USE DEF TypeOK, ExecInv
<1>0. UNCHANGED <<open, partial, executed>>
  BY DEF StartUpload, Callback, OpenAnswer, OpenTimeOut, Collect,
     PrintLine, LinePassed, LineFailed, EndOfBlock, SkipBlock, Abort,
     EndEmpty, EndTail, TailPassed, TailFailed, IgnoreAnswer,
     SplitAnswer, Report, espVars, printerVars
<1>1. ~executed'
  BY <1>0
<1>2. ASSUME UNCHANGED toPrinter
      PROVE  TextFirst' /\ TextOpen' /\ (AllText => AllText')
  BY <1>0, <1>2 DEF TextFirst, TextOpen, AllText, Sent, IsText
<1>3. ASSUME Sending, AllText'
      PROVE  TextFirst' /\ TextOpen' /\ open' /\ AllText'
  BY <1>0, <1>3 DEF TextFirst, SendingOpen, AllText, TextOpen
<1>4. CASE StartUpload
  <2>1. toPrinter = <<>> /\ toPrinter' = Append(toPrinter, M("M28"))
        /\ pc' = "opening"
    BY <1>4 DEF StartUpload, PromptPrinter
  <2>2. toPrinter' = <<M("M28")>>
    BY <2>1
  <2>3. TextFirst' /\ ~IsText(1)'
    BY <2>2 DEF TextFirst, Sent, IsText, M
  <2>4. TextOpen'
    BY <1>0, <2>3 DEF TextOpen
  <2> QED BY <1>1, <2>1, <2>2, <2>3, <2>4 DEF SendingOpen, Sending,
             OpeningAnswered
<1>5. CASE OpenAnswer
  <2>1. PICK n \in 1..Len(replies) :
          LET failed == \/ Refused(Got(n))
                        \/ \E i \in DOMAIN Got(n) : Got(n)[i] = "failed"
              waited == \E i \in DOMAIN Got(n) : Got(n)[i] = "wait"
          IN /\ replies' = Rest(n)
             /\ pc' = IF waited \/ failed THEN "between" ELSE "opening"
             /\ com_error' = (failed /\ ~waited)
    BY <1>5, Zenon DEF OpenAnswer
  <2>2. pc = "opening" /\ UNCHANGED <<toPrinter, buffer_line>>
    BY <1>5 DEF OpenAnswer
  <2>3. n \in 0..Len(replies) /\ replies' = Rest(n)
    BY <2>1, GotIs
  <2>5. ~ \E i \in DOMAIN Got(n) : Got(n)[i] = "wait"
    BY GotIs DEF NoWait
  <2>6. CASE Refused(Got(n)) \/ \E i \in DOMAIN Got(n) : Got(n)[i] = "failed"
    <3>1. pc' = "between" /\ com_error' = TRUE
      BY <2>1, <2>5, <2>6
    <3>2. buffer_line' = <<>>
      BY <2>2 DEF LockInv
    <3> QED BY <1>1, <1>2, <2>2, <3>1, <3>2
            DEF SendingOpen, Sending, OpeningAnswered
  <2>7. CASE ~ (\/ Refused(Got(n))
                \/ \E i \in DOMAIN Got(n) : Got(n)[i] = "failed")
    <3>1. pc' = "opening"
      BY <2>1, <2>5, <2>7
    <3>2. OpeningFailed => OpeningFailed'
      <4>1. \A i \in 1..n : replies[i] \notin {"failed", "Resend"}
        BY <2>3, <2>7, RestOf DEF Refused
      <4> QED BY <2>3, <4>1, RefusalComes
    <3> QED BY <1>0, <1>1, <1>2, <2>2, <3>1, <3>2
            DEF SendingOpen, Sending, OpeningAnswered
  <2> QED BY <2>6, <2>7
<1>6. CASE OpenTimeOut
  <2>1. /\ pc = "opening" /\ pc' = "between" /\ replies = <<>>
        /\ toPrinter = <<>> /\ UNCHANGED toPrinter
    BY <1>6 DEF OpenTimeOut, MayTimeOut, PromptPrinter
  <2>2. open /\ AllText
    BY <2>1 DEF OpeningAnswered, OpeningFailed, AllText, Sent
  <2> QED BY <1>0, <1>1, <1>2, <2>1, <2>2 DEF SendingOpen, OpeningAnswered
<1>7. CASE Collect \/ LinePassed \/ EndOfBlock
  <2>1. Sending /\ UNCHANGED toPrinter /\ pc' # "opening"
    BY <1>7 DEF Collect, InWrite, LinePassed, EndOfBlock, Sending
  <2> QED BY <1>0, <1>1, <1>2, <2>1 DEF SendingOpen, OpeningAnswered
<1>8. CASE PrintLine
  <2>1. /\ Sending /\ pc' # "opening" /\ next \in 1..Lines
        /\ toPrinter' = Append(toPrinter, G(next))
    BY <1>8 DEF PrintLine, InWrite, Sending, BufferType
  <2>2. G(next) \in Item /\ G(next).cmd = "G"
    BY <2>1, SdUploadAssumption DEF G, Item, Commands
  <2>3. AllText'
    <3> DEFINE s == <<G(next)>>
    <3>1. /\ toPrinter' = toPrinter \o s /\ s \in Seq(Item)
          /\ \A i \in 1..Len(s) : s[i].cmd \in {"G", "part"}
      BY <2>1, <2>2 DEF LineType
    <3> HIDE DEF s
    <3> QED BY <2>1, <3>1, TextPrinted DEF SendingOpen
  <2> QED BY <1>0, <1>1, <1>3, <2>1, <2>3 DEF SendingOpen, OpeningAnswered
<1>9. CASE LineFailed
  <2>1. /\ Sending /\ pc' # "opening"
        /\ \/ toPrinter' = toPrinter \o Pieces(buffer_line)
           \/ UNCHANGED toPrinter
    BY <1>9 DEF LineFailed, Sending
  <2>2. AllText'
    <3>1. CASE UNCHANGED toPrinter
      BY <1>2, <2>1, <3>1 DEF SendingOpen
    <3>2. CASE toPrinter' = toPrinter \o Pieces(buffer_line)
      BY <2>1, <3>2, TextPrinted, PiecesText, PiecesType
      DEF SendingOpen, BufferType
    <3> QED BY <2>1, <3>1, <3>2
  <2> QED BY <1>0, <1>1, <1>3, <2>1, <2>2 DEF SendingOpen, OpeningAnswered
<1>10. CASE SkipBlock \/ Abort \/ EndEmpty \/ TailPassed
  <2>1. \E failed \in BOOLEAN : Close(toPrinter, failed)
    <3>1. com_error \in BOOLEAN
      BY DEF FlagType
    <3> QED BY <3>1, <1>10 DEF SkipBlock, Abort, EndEmpty, TailPassed
  <2>2. PICK failed \in BOOLEAN : Settle(toPrinter, failed)
    BY <2>1 DEF Close
  <2>3. /\ buffer_line' = <<>>
        /\ (pc' = "between" /\ com_error') \/ pc' \in {"idle", "report"}
    <3>1. CASE SkipBlock
      BY <2>1, <3>1, Zenon DEF SkipBlock, Close
    <3>2. CASE Abort \/ EndEmpty \/ TailPassed
      BY <2>1, <3>2, Zenon DEF Abort, EndEmpty, TailPassed, Close
    <3> QED BY <1>10, <3>1, <3>2
  <2>4. TextFirst' /\ TextOpen'
    BY <2>2, <1>0, ClosedText DEF TextOpen
  <2> QED BY <1>1, <2>3, <2>4 DEF SendingOpen, Sending, OpeningAnswered
<1>11. CASE EndTail
  <2>1. /\ Sending /\ pc' # "opening"
        /\ toPrinter' = toPrinter \o Pieces(buffer_line) \o AsIs(buffer_line)
    BY <1>11 DEF EndTail, Sending
  <2>2. /\ Pieces(buffer_line) \in Seq(Item)
        /\ AsIs(buffer_line) \in Seq(Item)
        /\ \A i \in 1..Len(Pieces(buffer_line)) :
             Pieces(buffer_line)[i].cmd \in {"G", "part"}
        /\ \A i \in 1..Len(AsIs(buffer_line)) :
             AsIs(buffer_line)[i].cmd \in {"G", "part"}
    BY PiecesText, PiecesType DEF BufferType
  <2>3. AllText'
    <3> DEFINE s == Pieces(buffer_line)
               t == AsIs(buffer_line)
    <3>1. /\ s \in Seq(Item) /\ t \in Seq(Item) /\ toPrinter \in Seq(Item)
          /\ \A i \in 1..Len(s) : s[i].cmd \in {"G", "part"}
          /\ \A i \in 1..Len(t) : t[i].cmd \in {"G", "part"}
          /\ toPrinter' = toPrinter \o s \o t
      BY <2>1, <2>2 DEF LineType
    <3> HIDE DEF s, t
    <3>2. s \o t \in Seq(Item) /\ toPrinter' = toPrinter \o (s \o t)
      BY <3>1, SMTT(30)
    <3>3. \A i \in 1..Len(s \o t) : (s \o t)[i].cmd \in {"G", "part"}
      BY <3>1
    <3> QED BY <3>2, <3>3, <2>1, TextPrinted DEF SendingOpen
  <2> QED BY <1>0, <1>1, <1>3, <2>1, <2>3 DEF SendingOpen, OpeningAnswered
<1>12. CASE TailFailed
  <2>1. CASE MoreTries
    <3>1. /\ Sending /\ pc' # "opening"
          /\ toPrinter' = toPrinter \o AsIs(buffer_line)
      BY <1>12, <2>1 DEF TailFailed, Sending
    <3>2. AllText'
      BY <3>1, TextPrinted, PiecesText, PiecesType DEF SendingOpen, BufferType
    <3> QED BY <1>0, <1>1, <1>3, <3>1, <3>2 DEF SendingOpen, OpeningAnswered
  <2>2. CASE ~MoreTries
    <3>1. Settle(toPrinter, TRUE) /\ pc' = "report"
      BY <1>12, <2>2 DEF TailFailed, Close
    <3>2. TextFirst' /\ TextOpen'
      BY <3>1, <1>0, ClosedText DEF TextOpen
    <3> QED BY <1>1, <3>1, <3>2 DEF SendingOpen, Sending, OpeningAnswered
  <2> QED BY <2>1, <2>2
<1>13. CASE IgnoreAnswer \/ Report
  <2>1. /\ UNCHANGED toPrinter
        /\ Sending' => Sending
        /\ pc' # "opening"
    BY <1>13 DEF IgnoreAnswer, Report, espVars, Sending
  <2> QED BY <1>0, <1>1, <1>2, <2>1 DEF SendingOpen, OpeningAnswered
<1>14. CASE SplitAnswer
  <2>1. /\ UNCHANGED <<toPrinter, pc, com_error, buffer_line>>
        /\ replies # <<>> /\ Head(replies) \in {"ok", "busy"}
        /\ replies' = Tail(replies)
    BY <1>14 DEF SplitAnswer, espVars, PromptPrinter
  <2>2. Sending' => Sending
    BY <2>1 DEF Sending
  <2>3. OpeningFailed => OpeningFailed'
    <3>1. 1 \in 1..Len(replies) /\ replies' = Rest(1) /\ 1 \in 0..Len(replies)
      BY <2>1, TailIsRest, GotIs
    <3>2. \A i \in 1..1 : replies[i] \notin {"failed", "Resend"}
      BY <2>1
    <3> QED BY <3>1, <3>2, RefusalComes
  <2> QED BY <1>0, <1>1, <1>2, <2>1, <2>2, <2>3
          DEF SendingOpen, OpeningAnswered
<1> QED BY <1>4, <1>5, <1>6, <1>7, <1>8, <1>9, <1>10, <1>11, <1>12, <1>13,
           <1>14 DEF Callback

(* What the printer does with what arrives keeps all of this.              *)
LEMMA ExecPrinter ==
  ASSUME PromptPrinter, TypeOK, ExecInv, Printer
  PROVE  /\ ~executed' /\ TextFirst' /\ TextOpen' /\ SendingOpen'
         /\ OpeningAnswered'
<1> USE DEF TypeOK, ExecInv
<1>0. UNCHANGED <<pc, com_error, buffer_line>>
  BY DEF Printer, Fragment, TakeLine, OpenFile, RefuseFile, CloseFile,
     DeleteFile, StoreCommand, Fault, Busy, Idle, espVars
<1>1. (Sending' <=> Sending) /\ (pc' = "opening" <=> pc = "opening")
  BY <1>0 DEF Sending
<1>2. toPrinter # <<>> => /\ Arrived = toPrinter[1] /\ Arrived \in Item
                          /\ (Text <=> IsText(1)) /\ 1 \in Sent
  BY DEF LineType, Arrived, Text, IsText, Sent
<1>3. toPrinter = <<M("M28")>> => ~IsText(1) /\ Tail(toPrinter) = <<>>
  BY DEF IsText, M
<1>4. CASE Fragment \/ TakeLine
  <2>1. /\ toPrinter # <<>> /\ toPrinter' \in {toPrinter, Tail(toPrinter)}
        /\ IsText(1) \/ partial # <<>>
        /\ ~IsText(1) /\ partial # <<>> => toPrinter' = toPrinter
        /\ UNCHANGED open
        /\ UNCHANGED replies \/ replies' = Append(replies, "ok")
    <3>1. CASE Fragment
      BY <1>2, <3>1 DEF Fragment, Consume, Text
    <3>2. CASE TakeLine
      BY <1>2, <3>2 DEF TakeLine, Whole, EndsLine, Consume
    <3> QED BY <1>4, <3>1, <3>2
  <2>2. open
    BY <2>1 DEF TextOpen
  <2>3. ~executed'
    BY <1>4, <2>2 DEF Fragment, TakeLine
  <2>4. TextFirst' /\ (AllText => AllText')
    BY <2>1, TextConsumed
  <2>5. OpeningAnswered'
    BY <1>1, <1>3, <2>1, <2>2 DEF OpeningAnswered
  <2> QED BY <1>1, <2>1, <2>2, <2>3, <2>4, <2>5 DEF TextOpen, SendingOpen
<1>5. CASE OpenFile \/ RefuseFile \/ CloseFile \/ DeleteFile \/ StoreCommand
  <2>1. /\ toPrinter # <<>> /\ partial = <<>> /\ ~IsText(1)
        /\ toPrinter' = Tail(toPrinter) /\ UNCHANGED <<partial, executed>>
    <3>1. Whole /\ ~EndsLine /\ Consume /\ UNCHANGED <<partial, executed>>
      BY <1>5 DEF OpenFile, RefuseFile, CloseFile, DeleteFile, StoreCommand,
         Obey, printerVars
    <3> QED BY <1>2, <3>1 DEF Whole, EndsLine, Consume
  <2>2. /\ TextFirst' /\ (AllText => AllText')
        /\ toPrinter' # <<>> => ~IsText(1)'
    BY <2>1, TextConsumed
  <2>3. ~AllText /\ ~Sending
    BY <1>2, <2>1 DEF AllText, SendingOpen
  <2>4. OpeningAnswered'
    <3> SUFFICES ASSUME pc = "opening" PROVE OpeningAnswered'
      BY <1>1 DEF OpeningAnswered
    <3>1. toPrinter = <<M("M28")>>
      BY <2>1 DEF OpeningAnswered
    <3>2. toPrinter' = <<>>
      BY <1>3, <2>1, <3>1
    <3>3. Arrived.cmd = "M28"
      BY <1>2, <3>1 DEF M
    <3>4. ~CloseFile /\ ~DeleteFile
      BY <3>3 DEF CloseFile, DeleteFile, Obey
    <3>5. open' \/ OpeningFailed'
      <4>1. CASE OpenFile \/ StoreCommand
        BY <4>1 DEF OpenFile, StoreCommand
      <4>2. CASE RefuseFile
        <5>1. replies' = Append(replies, "failed")
          BY <4>2 DEF RefuseFile
        <5>2. Len(replies) + 1 \in 1..Len(replies')
              /\ replies'[Len(replies) + 1] = "failed"
          BY <5>1 DEF LineType
        <5> QED BY <5>2 DEF OpeningFailed
      <4> QED BY <1>5, <3>4, <4>1, <4>2
    <3> QED BY <3>2, <3>5 DEF OpeningAnswered
  <2> QED BY <1>1, <2>1, <2>2, <2>3, <2>4 DEF TextOpen, SendingOpen
<1>6. CASE Fault
  <2>1. /\ toPrinter # <<>> /\ partial' = <<>>
        /\ toPrinter' \in {toPrinter, Tail(toPrinter)}
        /\ UNCHANGED <<open, executed>>
        /\ toPrinter' = toPrinter => IsText(1) \/ partial # <<>>
    BY <1>2, <1>6 DEF Fault, Whole, Consume
  <2>2. TextFirst' /\ (AllText => AllText')
        /\ (~IsText(1) /\ toPrinter' # <<>> => ~IsText(1)')
    BY <2>1, TextConsumed
  <2>3. TextOpen'
    <3> SUFFICES ASSUME toPrinter' # <<>>, IsText(1)' PROVE open
      BY <2>1 DEF TextOpen
    <3> QED BY <2>1, <2>2 DEF TextOpen
  <2>4. OpeningAnswered'
    <3> SUFFICES ASSUME pc = "opening" PROVE OpeningAnswered'
      BY <1>1 DEF OpeningAnswered
    <3>1. toPrinter = <<M("M28")>>
      BY <2>1 DEF OpeningAnswered
    <3>2. ~Text /\ Arrived.cmd = "M28"
      BY <1>2, <1>3, <2>1, <3>1 DEF M
    <3>3. CASE partial # <<>>
      <4>1. toPrinter' = toPrinter
        BY <1>6, <3>2, <3>3 DEF Fault, Consume
      <4> QED BY <3>1, <4>1 DEF OpeningAnswered
    <3>4. CASE partial = <<>>
      <4>1. toPrinter' = <<>>
        BY <1>3, <1>6, <3>1, <3>4 DEF Fault, Consume
      <4>2. replies' = Append(replies, "Resend")
        BY <1>6, <3>2, <3>4 DEF Fault, EndsLine, PromptPrinter
      <4>3. Len(replies) + 1 \in 1..Len(replies')
            /\ replies'[Len(replies) + 1] = "Resend"
        BY <4>2 DEF LineType
      <4> QED BY <4>1, <4>3 DEF OpeningAnswered, OpeningFailed
    <3> QED BY <3>3, <3>4
  <2> QED BY <1>1, <2>1, <2>2, <2>3, <2>4 DEF SendingOpen
<1>7. CASE Busy \/ Idle
  <2>1. /\ UNCHANGED <<toPrinter, open, partial, executed>>
        /\ replies' = Append(replies, "busy")
    BY <1>7 DEF Busy, Idle, PromptPrinter
  <2>2. OpeningFailed => OpeningFailed'
    BY <2>1 DEF LineType, OpeningFailed
  <2>3. TextFirst' /\ TextOpen' /\ (AllText => AllText')
    BY <2>1 DEF TextFirst, TextOpen, AllText, Sent, IsText
  <2> QED BY <1>1, <2>1, <2>2, <2>3 DEF SendingOpen, OpeningAnswered
<1> QED BY <1>4, <1>5, <1>6, <1>7 DEF Printer

(* Nothing is sent at power on.                                            *)
LEMMA ExecInit == Init => ExecInv
BY DEF Init, ExecInv, NoWait, TextFirst, TextOpen, SendingOpen, Sending,
   OpeningAnswered, Sent, IsText

(* The invariant behind NeverExecuted.                                     *)
LEMMA ExecKept == ASSUME PromptPrinter PROVE Spec => []ExecInv
<1>1. TypeOK /\ LockInv /\ ExecInv /\ [Moves]_uploadVars => ExecInv'
  <2> SUFFICES ASSUME TypeOK, LockInv, ExecInv, [Moves]_uploadVars PROVE ExecInv'
    OBVIOUS
  <2>1. CASE UNCHANGED uploadVars
    BY <2>1 DEF uploadVars, ExecInv, NoWait, TextFirst, TextOpen, SendingOpen,
       Sending,
       OpeningAnswered, OpeningFailed, AllText, Sent, IsText
  <2>2. CASE Moves
    <3>1. NoWait'
      BY <2>2, NoWaitStep DEF ExecInv
    <3> QED BY <2>2, <3>1, ExecCallback, ExecPrinter DEF Moves, ExecInv
  <2> QED BY <2>1, <2>2
<1> QED BY <1>1, ExecInit, TypeCorrect, LockKept, Quiet, PTL DEF Spec

(* With a prompt printer no line of the file is ever executed: lines are   *)
(* printed only between an M28 that was not refused and its M29.           *)
THEOREM NeverExecutedAlways ==
  ASSUME PromptPrinter PROVE Spec => []NeverExecuted
<1>1. ExecInv => NeverExecuted
  BY DEF ExecInv, NeverExecuted
<1> QED BY <1>1, ExecKept, PTL

(* At least one of the M29 of the closing commands arrives.                *)
M29Arrives == hits["M29"] < 2

(* f holds lines 1..k in order, each at least once, and nothing else.      *)
StoredUpTo(f, k) ==
  IF k = 0 THEN f = <<>>
  ELSE /\ f # <<>> /\ f[1] = <<1>> /\ f[Len(f)] = <<k>>
       /\ \A i \in 1..Len(f) - 1 :
            \/ f[i + 1] = f[i]
            \/ f[i][1] < Lines /\ f[i + 1] = <<f[i][1] + 1>>

Stored(k) == M29Arrives => StoredUpTo(file, k)

(* Answers on their way: none to a line of the file; at most one.          *)
AllBusy == \A i \in 1..Len(replies) : replies[i] = "busy"
OkComes == \E i \in 1..Len(replies) : replies[i] = "ok"
OneAnswer ==
  /\ \A i \in 1..Len(replies) : replies[i] \in {"busy", "ok", "Resend"}
  /\ \A i, j \in 1..Len(replies) :
       replies[i] # "busy" /\ replies[j] # "busy" => i = j

(* The file is closed before item m is read, unless both M29 are lost.     *)
IsM29(i)    == toPrinter[i].cmd = "M29"
OpenThen(m) ==
  open => \/ hits["M29"] >= 2
          \/ hits["M29"] >= 1 /\ m >= 2 /\ IsM29(m - 1)
          \/ m >= 3 /\ IsM29(m - 1) /\ IsM29(m - 2)

Running == bare /\ reported = "none"

(* The upload is always in one of seven phases.                            *)
Opening ==
  /\ pc = "opening" /\ Running /\ ~com_error
  /\ next = 1 /\ buffer_line = <<>> /\ partial = <<>>
  /\ \/ toPrinter = <<M("M28")>> /\ AllBusy /\ (M29Arrives => ~open)
     \/ toPrinter = <<>> /\ (OpeningFailed \/ Stored(0))

LastKept == buffer_line = <<Lines>> /\ next = Lines + 1 /\ tail

Writing ==
  /\ pc \in {"chunk", "between"} /\ Running /\ ~com_error
  /\ toPrinter = <<>> /\ partial = <<>> /\ AllBusy
  /\ \/ buffer_line = <<>> /\ Stored(next - 1)
     \/ LastKept /\ Stored(Lines - 1)

Awaiting ==
  /\ pc = "await" /\ Running /\ ~com_error
  /\ next >= 2 /\ buffer_line = <<next - 1>> /\ partial = <<>>
  /\ Stored(next - 2) \/ Stored(next - 1)
  /\ \/ toPrinter = <<G(next - 1)>> /\ AllBusy
     \/ toPrinter = <<>> /\ OneAnswer /\ (OkComes => Stored(next - 1))

LastLine ==
  /\ pc = "tail" /\ Running /\ ~com_error /\ LastKept
  /\ \/ /\ toPrinter = <<G(Lines), Part(Lines)>> /\ partial = <<>>
        /\ AllBusy /\ Stored(Lines - 1)
     \/ /\ \/ toPrinter = <<Part(Lines)>> /\ partial = <<>>
           \/ toPrinter = <<>> /\ partial = <<Lines>>
        /\ OneAnswer /\ (OkComes => Stored(Lines))
     \/ AllBusy /\ \A i \in Sent : toPrinter[i].cmd = "part"

Stopped ==
  /\ pc \in {"chunk", "between", "tail"} /\ Running /\ com_error
  /\ AllText

Ended ==
  /\ pc \in {"idle", "report"} /\ bare /\ ~com_error
  /\ pc = "report" => reported = "none" /\ upload_status # "CANCELLED"
  /\ pc = "report" \/ reported = "Ok" => Stored(Lines)
  /\ \/ toPrinter = <<Part(Lines), M("M29"), M("M29")>> /\ partial = <<>>
     \/ toPrinter = <<M("M29"), M("M29")>> /\ partial \in {<<>>, <<Lines>>}
     \/ toPrinter \in {<<M("M29")>>, <<>>} /\ partial = <<>>
  /\ OpenThen(Len(toPrinter) + 1)

(* M30 is on its way, behind the M29 that close the file for it, or it has *)
(* been obeyed.                                                            *)
Deleting(m) ==
  /\ toPrinter[m].cmd = "M30" /\ OpenThen(m)
  /\ \A i \in 1..m - 1 : toPrinter[i].cmd \in {"G", "part", "M29"}
  /\ \A i \in m + 1..Len(toPrinter) : toPrinter[i].cmd \in {"M29", "M30_M30"}

Deleted ==
  /\ \A i \in Sent : toPrinter[i].cmd \in {"M29", "M30_M30"}
  /\ partial = <<>>
  /\ M29Arrives => ~open /\ (hits["M30"] = 0 => file = NoFile)

Failed ==
  /\ pc \in {"between", "idle", "report"} /\ ~bare /\ com_error
  /\ buffer_line = <<>> /\ reported # "Ok"
  /\ pc = "between" => reported = "none"
  /\ pc = "report" => reported = "none" /\ upload_status = "CANCELLED"
  /\ Deleted \/ \E m \in Sent : Deleting(m)

Phase == \/ Opening \/ Writing \/ Awaiting \/ LastLine \/ Stopped \/ Ended
         \/ Failed

(* The next line, or the same one again, is stored behind the others.      *)
LEMMA StoredNext ==
  ASSUME NEW f \in Seq(Seq(0..Lines)), NEW k \in 1..Lines,
         StoredUpTo(f, k - 1) \/ StoredUpTo(f, k)
  PROVE  StoredUpTo(Append(f, <<k>>), k)
<1> DEFINE g == Append(f, <<k>>)
<1>0. k # 0 /\ Lines \in Nat /\ k \in Nat
  BY SdUploadAssumption
<1>1. /\ <<k>> \in Seq(0..Lines) /\ g \in Seq(Seq(0..Lines)) /\ Len(f) \in Nat
      /\ Len(g) = Len(f) + 1 /\ g[Len(g)] = <<k>> /\ g # <<>>
      /\ \A i \in 1..Len(f) : g[i] = f[i]
  <2>1. <<k>> \in Seq(0..Lines)
    BY <1>0
  <2> DEFINE x == <<k>>
  <2>2. x \in Seq(0..Lines) /\ g = Append(f, x)
    BY <2>1
  <2> HIDE DEF x, g
  <2>3. /\ g \in Seq(Seq(0..Lines)) /\ Len(f) \in Nat /\ Len(g) = Len(f) + 1
        /\ g[Len(f) + 1] = x /\ \A i \in 1..Len(f) : g[i] = f[i]
    BY <2>2
  <2>4. g # <<>>
    BY <2>3
  <2> QED BY <2>2, <2>3, <2>4 DEF x
<1> HIDE DEF g
<1>2. CASE f = <<>>
  <2>1. Len(g) = 1 /\ Len(f) = 0
    BY <1>1, <1>2
  <2>2. k = 1
    <3>1. CASE StoredUpTo(f, k)
      BY <1>0, <1>2, <3>1 DEF StoredUpTo
    <3>2. CASE StoredUpTo(f, k - 1)
      <4>1. k - 1 = 0
        BY <1>2, <3>2 DEF StoredUpTo
      <4> QED BY <1>0, <4>1
    <3> QED BY <3>1, <3>2
  <2>3. g[1] = <<1>> /\ 1..Len(g) - 1 = {}
    BY <1>1, <2>1, <2>2
  <2> QED BY <1>0, <1>1, <2>3 DEF StoredUpTo, g
<1>3. CASE f # <<>>
  <2>1. /\ f[1] = <<1>>
        /\ f[Len(f)] = <<k>> \/ f[Len(f)] = <<k - 1>>
        /\ \A i \in 1..Len(f) - 1 :
            \/ f[i + 1] = f[i]
            \/ f[i][1] < Lines /\ f[i + 1] = <<f[i][1] + 1>>
    BY <1>0, <1>3 DEF StoredUpTo
  <2>2. Len(f) >= 1 /\ g[1] = <<1>>
    BY <1>1, <1>3, <2>1
  <2>3. \/ g[Len(f) + 1] = f[Len(f)]
        \/ f[Len(f)][1] < Lines /\ g[Len(f) + 1] = <<f[Len(f)][1] + 1>>
    <3>1. g[Len(f) + 1] = <<k>>
      BY <1>1
    <3>2. CASE f[Len(f)] = <<k - 1>>
      <4>1. f[Len(f)][1] = k - 1
        BY <3>2
      <4>2. k - 1 < Lines /\ k - 1 + 1 = k
        BY <1>0
      <4> QED BY <3>1, <4>1, <4>2
    <3> QED BY <2>1, <3>1, <3>2
  <2>4. ASSUME NEW i \in 1..Len(g) - 1
        PROVE  \/ g[i + 1] = g[i]
               \/ g[i][1] < Lines /\ g[i + 1] = <<g[i][1] + 1>>
    <3>1. CASE i = Len(f)
      BY <1>1, <2>2, <2>3, <3>1
    <3>2. CASE i # Len(f)
      <4>1. i \in 1..Len(f) - 1 /\ i \in 1..Len(f) /\ i + 1 \in 1..Len(f)
        BY <1>1, <3>2
      <4> QED BY <1>1, <2>1, <4>1
    <3> QED BY <3>1, <3>2
  <2> QED BY <1>0, <1>1, <2>2, <2>4 DEF StoredUpTo, g
<1> QED BY <1>2, <1>3

(* Reading from the front.                                                 *)
LEMMA AnswersRead ==
  ASSUME LineType, NEW n \in 0..Len(replies), replies' = Rest(n)
  PROVE  /\ AllBusy => AllBusy'
         /\ OneAnswer => OneAnswer'
         /\ OkComes' => OkComes
         /\ OneAnswer /\ (\E i \in 1..n : replies[i] # "busy") => AllBusy'
<1>1. /\ Len(replies) \in Nat /\ Len(replies') = Len(replies) - n
      /\ \A i \in 1..Len(replies') :
           i + n \in 1..Len(replies) /\ replies'[i] = replies[i + n]
  BY RestOf
<1>2. AllBusy => AllBusy'
  BY <1>1 DEF AllBusy
<1>3. OkComes' => OkComes
  BY <1>1 DEF OkComes
<1>4. ASSUME OneAnswer PROVE OneAnswer'
  <2>1. \A i \in 1..Len(replies') : replies'[i] \in {"busy", "ok", "Resend"}
    BY <1>1, <1>4 DEF OneAnswer
  <2>2. ASSUME NEW i \in 1..Len(replies'), NEW j \in 1..Len(replies'),
               replies'[i] # "busy", replies'[j] # "busy"
        PROVE  i = j
    <3>1. i + n = j + n
      BY <1>1, <1>4, <2>2 DEF OneAnswer
    <3> QED BY <3>1
  <2> QED BY <2>1, <2>2 DEF OneAnswer
<1>5. ASSUME OneAnswer, NEW k \in 1..n, replies[k] # "busy" PROVE AllBusy'
  <2> SUFFICES ASSUME NEW i \in 1..Len(replies'), replies'[i] # "busy"
               PROVE  FALSE
    BY DEF AllBusy
  <2>1. i + n \in 1..Len(replies) /\ replies[i + n] # "busy"
    BY <1>1
  <2>2. k \in 1..Len(replies)
    BY <1>1
  <2>3. i + n = k
    BY <1>5, <2>1, <2>2 DEF OneAnswer
  <2> QED BY <2>3, <1>1
<1> QED BY <1>2, <1>3, <1>4, <1>5

(* A printer that is busy says so.                                         *)
LEMMA AnswersBusy ==
  ASSUME LineType, replies' = Append(replies, "busy")
  PROVE  /\ AllBusy => AllBusy'
         /\ OneAnswer => OneAnswer'
         /\ OkComes' => OkComes
         /\ OpeningFailed => OpeningFailed'
<1>1. /\ Len(replies) \in Nat /\ Len(replies') = Len(replies) + 1
      /\ \A i \in 1..Len(replies) : replies'[i] = replies[i]
      /\ replies'[Len(replies) + 1] = "busy"
  BY DEF LineType
<1>2. \A i \in 1..Len(replies') : replies'[i] # "busy" =>
        i \in 1..Len(replies) /\ replies'[i] = replies[i]
  BY <1>1
<1>3. OneAnswer => OneAnswer'
  BY <1>2 DEF OneAnswer
<1> QED BY <1>1, <1>2, <1>3 DEF AllBusy, OkComes, OpeningFailed

(* A line of the file is answered once, or not at all.                     *)
LEMMA AnswersLine ==
  ASSUME LineType, AllBusy,
         NEW a \in {"ok", "Resend"},
         replies' = Append(replies, a) \/ UNCHANGED replies
  PROVE  OneAnswer' /\ (OkComes' => replies' = Append(replies, "ok"))
<1>1. CASE UNCHANGED replies
  BY <1>1 DEF AllBusy, OneAnswer, OkComes
<1>2. CASE replies' = Append(replies, a)
  <2>1. /\ Len(replies) \in Nat /\ Len(replies') = Len(replies) + 1
        /\ \A i \in 1..Len(replies) : replies'[i] = replies[i]
        /\ replies'[Len(replies) + 1] = a
    BY <1>2 DEF LineType
  <2>2. \A i \in 1..Len(replies') : replies'[i] # "busy" =>
          i = Len(replies) + 1 /\ replies'[i] = a
    BY <2>1 DEF AllBusy
  <2>3. OneAnswer'
    <3>1. \A i \in 1..Len(replies') : replies'[i] \in {"busy", "ok", "Resend"}
      BY <2>2
    <3> QED BY <2>2, <3>1 DEF OneAnswer
  <2>4. OkComes' => a = "ok"
    BY <2>2 DEF OkComes
  <2> QED BY <1>2, <2>3, <2>4
<1> QED BY <1>1, <1>2

(* Short sequences of pieces.                                              *)
LEMMA PieceFacts ==
  ASSUME NEW k \in 1..Lines
  PROVE  /\ G(k) \in Item /\ Part(k) \in Item
         /\ M("M28") \in Item /\ M("M29") \in Item
         /\ M("M30") \in Item /\ M("M30_M30") \in Item
         /\ G(k).cmd = "G" /\ G(k).line = k
         /\ Part(k).cmd = "part" /\ Part(k).line = k
         /\ M("M28").cmd = "M28" /\ M("M29").cmd = "M29"
         /\ M("M30").cmd = "M30" /\ M("M30_M30").cmd = "M30_M30"
<1>1. k \in 0..Lines /\ 0 \in 0..Lines
  BY SdUploadAssumption
<1>2. G(k) \in Item /\ Part(k) \in Item
  BY <1>1 DEF G, Part, Item, Commands
<1>3. /\ M("M28") \in Item /\ M("M29") \in Item
      /\ M("M30") \in Item /\ M("M30_M30") \in Item
  BY <1>1 DEF M, Item, Commands
<1> QED BY <1>2, <1>3 DEF G, Part, M

(* Sequences of one, two and three elements.                               *)
LEMMA ShortTails ==
  ASSUME NEW S, NEW a \in S, NEW b \in S, NEW c \in S
  PROVE  /\ <<a>> \in Seq(S) /\ <<a, b>> \in Seq(S) /\ <<a, b, c>> \in Seq(S)
         /\ Tail(<<a>>) = <<>> /\ Tail(<<a, b>>) = <<b>>
         /\ Tail(<<a, b, c>>) = <<b, c>>
         /\ <<>> \o <<b, c>> = <<b, c>>
         /\ <<>> \o <<b>> = <<b>>
         /\ Append(<<>>, a) = <<a>>
<1>1. <<a>> \in Seq(S) /\ <<a, b>> \in Seq(S) /\ <<a, b, c>> \in Seq(S)
  OBVIOUS
<1>2. Tail(<<a>>) = <<>>
  OBVIOUS
<1>3. Tail(<<a, b>>) = <<b>>
  OBVIOUS
<1>4. Tail(<<a, b, c>>) = <<b, c>>
  OBVIOUS
<1>5. <<>> \o <<b, c>> = <<b, c>>
  OBVIOUS
<1>6. <<>> \o <<b>> = <<b>>
  OBVIOUS
<1>7. Append(<<>>, a) = <<a>>
  OBVIOUS
<1> QED BY <1>1, <1>2, <1>3, <1>4, <1>5, <1>6, <1>7

(* Two pieces, or one and two, glued together.                             *)
LEMMA GlueTwo ==
  ASSUME NEW S, NEW a \in S, NEW b \in S
  PROVE  <<a>> \o <<b>> = <<a, b>>
<1> DEFINE s == <<a>>
           t == <<b>>
           v == s \o t
<1>1. /\ s \in Seq(S) /\ Len(s) = 1 /\ s[1] = a
      /\ t \in Seq(S) /\ Len(t) = 1 /\ t[1] = b
  OBVIOUS
<1> HIDE DEF s, t
<1>2. /\ v \in Seq(S) /\ Len(v) = Len(s) + Len(t)
      /\ \A i \in 1..Len(s) + Len(t) :
           v[i] = IF i <= Len(s) THEN s[i] ELSE t[i - Len(s)]
  BY <1>1, ConcatProperties
<1> HIDE DEF v
<1>3. Len(v) = 2 /\ v[1] = a /\ v[2] = b
  BY <1>1, <1>2
<1>4. v \in Seq(S)
  BY <1>2
<1>5. v = <<a, b>>
  BY <1>3, <1>4
<1> QED BY <1>5 DEF v, s, t

(* One element in front of two.                                            *)
LEMMA GlueThree ==
  ASSUME NEW S, NEW a \in S, NEW b \in S, NEW c \in S
  PROVE  <<a>> \o <<b, c>> = <<a, b, c>>
<1> DEFINE s == <<a>>
           t == <<b, c>>
           v == s \o t
<1>1. /\ s \in Seq(S) /\ Len(s) = 1 /\ s[1] = a
      /\ t \in Seq(S) /\ Len(t) = 2 /\ t[1] = b /\ t[2] = c
  OBVIOUS
<1> HIDE DEF s, t
<1>2. /\ v \in Seq(S) /\ Len(v) = Len(s) + Len(t)
      /\ \A i \in 1..Len(s) + Len(t) :
           v[i] = IF i <= Len(s) THEN s[i] ELSE t[i - Len(s)]
  BY <1>1, ConcatProperties
<1> HIDE DEF v
<1>3. Len(v) = 3 /\ v[1] = a /\ v[2] = b /\ v[3] = c
  BY <1>1, <1>2
<1>4. v \in Seq(S)
  BY <1>2
<1>5. v = <<a, b, c>>
  BY <1>3, <1>4
<1> QED BY <1>5 DEF v, s, t

(* One element behind two.                                                 *)
LEMMA AppendThree ==
  ASSUME NEW S, NEW a \in S, NEW b \in S, NEW c \in S
  PROVE  Append(<<a, b>>, c) = <<a, b, c>>
<1> DEFINE x == <<a, b>>
           v == Append(x, c)
<1>1. x \in Seq(S) /\ Len(x) = 2 /\ x[1] = a /\ x[2] = b
  OBVIOUS
<1> HIDE DEF x
<1>2. /\ v \in Seq(S) /\ Len(v) = Len(x) + 1
      /\ \A i \in 1..Len(x) : v[i] = x[i]
      /\ v[Len(x) + 1] = c
  BY <1>1, AppendProperties, SMTT(30)
<1> HIDE DEF v
<1>3. Len(v) = 3 /\ v[1] = a /\ v[2] = b /\ v[3] = c
  BY <1>1, <1>2
<1>4. v \in Seq(S)
  BY <1>2
<1>5. v = <<a, b, c>>
  BY <1>3, <1>4
<1> QED BY <1>5 DEF v, x

(* What is printed for a buffer of one line.                               *)
LEMMA OnePiece ==
  ASSUME NEW k \in 1..Lines
  PROVE  /\ Pieces(<<k>>) = <<G(k)>>
         /\ Unended(k) => AsIs(<<k>>) = <<Part(k)>>
<1>1. DOMAIN <<k>> = {1} /\ Len(<<k>>) = 1 /\ <<k>>[1] = k
  OBVIOUS
<1>2. Pieces(<<k>>) = [i \in {1} |-> G(k)]
  BY <1>1 DEF Pieces
<1>3. Unended(k) => AsIs(<<k>>) = [i \in {1} |-> Part(k)]
  BY <1>1 DEF AsIs
<1>4. \A x : [i \in {1} |-> x] = <<x>>
  <2> TAKE x
  <2>1. {1} = 1..1
    OBVIOUS
  <2>2. [i \in 1..1 |-> x] \in Seq({x}) /\ Len([i \in 1..1 |-> x]) = 1
    OBVIOUS
  <2>3. [i \in 1..1 |-> x][1] = x
    OBVIOUS
  <2> QED BY <2>1, <2>2, <2>3
<1> QED BY <1>2, <1>3, <1>4

(* The handler's variables stay while it waits; what the printer holds     *)
(* stays while the handler acts.                                           *)
LEMMA Frames ==
  /\ Printer \/ IgnoreAnswer \/ SplitAnswer =>
       UNCHANGED <<pc, buffer_line, com_error, upload_status, bare, next,
                   tail, reported>>
  /\ StartUpload \/ (Callback /\ ~SplitAnswer) =>
       UNCHANGED <<open, partial, file, executed, hits>>
  /\ SplitAnswer =>
       /\ UNCHANGED <<toPrinter, open, partial, file, executed>>
       /\ hits' = [hits EXCEPT !["G"] = @ + 1]
<1>1. Printer \/ IgnoreAnswer \/ SplitAnswer => UNCHANGED espVars
  BY DEF IgnoreAnswer, SplitAnswer, Printer, Fragment, TakeLine, OpenFile,
     RefuseFile, CloseFile, DeleteFile, StoreCommand, Fault, Busy, Idle
<1>2. StartUpload \/ (Callback /\ ~SplitAnswer) => UNCHANGED printerVars
  BY DEF StartUpload, Callback, OpenAnswer, OpenTimeOut, Collect, PrintLine,
     LinePassed, LineFailed, EndOfBlock, SkipBlock, Abort, EndEmpty,
     EndTail, TailPassed, TailFailed, IgnoreAnswer, Report
<1>3. SplitAnswer =>
       /\ UNCHANGED <<toPrinter, open, partial, file, executed>>
       /\ hits' = [hits EXCEPT !["G"] = @ + 1]
  BY DEF SplitAnswer
<1> QED BY <1>1, <1>2, <1>3 DEF espVars, body, printerVars

(* The commands a fault or a cut answer is counted under.                  *)
LEMMA HitCounted ==
  ASSUME PrinterType, NEW c \in Commands, hits' = [hits EXCEPT ![c] = @ + 1]
  PROVE  /\ \A d \in Commands : d # c => hits'[d] = hits[d]
         /\ hits[c] \in Nat /\ hits'[c] = hits[c] + 1
         /\ M29Arrives' => M29Arrives
         /\ hits["M29"] \in Nat /\ hits["M30"] \in Nat
         /\ hits'["M29"] \in Nat /\ hits'["M30"] \in Nat
         /\ hits'["M29"] >= hits["M29"] /\ hits'["M30"] >= hits["M30"]
<1>1. "M29" \in Commands /\ "M30" \in Commands
  BY DEF Commands
<1> QED BY <1>1 DEF PrinterType, M29Arrives

(* Nothing is on its way to the printer: it can only say that it is busy.  *)
LEMMA PrinterWaits ==
  ASSUME PromptPrinter, TypeOK, toPrinter = <<>>, Printer
  PROVE  /\ UNCHANGED <<toPrinter, open, partial, file, executed>>
         /\ replies' = Append(replies, "busy")
         /\ M29Arrives' => M29Arrives
         /\ hits'["M29"] = hits["M29"] /\ hits'["M30"] = hits["M30"]
<1>1. Busy
  BY DEF PromptPrinter, Printer, Fragment, TakeLine, OpenFile, RefuseFile,
     CloseFile, DeleteFile, StoreCommand, Fault, Idle, Obey, Whole
<1>2. "G" \in Commands /\ "M29" \in Commands /\ "M30" \in Commands
  BY DEF Commands
<1>3. /\ UNCHANGED <<toPrinter, open, partial, file, executed>>
      /\ replies' = Append(replies, "busy")
      /\ hits' = [hits EXCEPT !["G"] = @ + 1]
  BY <1>1 DEF Busy
<1> QED BY <1>2, <1>3, HitCounted DEF TypeOK

(* An upload that is being opened is refused, or writes to an empty file.  *)
LEMMA OpeningStep ==
  ASSUME PromptPrinter, TypeOK, LockInv, ExecInv, Opening, Moves
  PROVE  Opening' \/ Writing' \/ Stopped'
<1> USE DEF TypeOK
<1>1. OpenAnswer \/ OpenTimeOut \/ SplitAnswer \/ Printer
  BY DEF Opening, Moves, StartUpload, Callback, Collect, InWrite, PrintLine,
     LinePassed, LineFailed, EndOfBlock, SkipBlock, Abort, EndEmpty,
     EndTail, TailPassed, TailFailed, IgnoreAnswer, Report
<1>2. CASE OpenAnswer
  <2>1. PICK n \in 1..Len(replies) :
          LET failed == \/ Refused(Got(n))
                        \/ \E i \in DOMAIN Got(n) : Got(n)[i] = "failed"
              waited == \E i \in DOMAIN Got(n) : Got(n)[i] = "wait"
          IN /\ replies' = Rest(n)
             /\ pc' = IF waited \/ failed THEN "between" ELSE "opening"
             /\ com_error' = (failed /\ ~waited)
    BY <1>2, Zenon DEF OpenAnswer
  <2>2. UNCHANGED <<toPrinter, buffer_line, bare, next, reported, open,
                    partial, file, hits>>
    BY <1>2 DEF OpenAnswer, body, printerVars
  <2>3. n \in 0..Len(replies) /\ replies' = Rest(n)
    BY <2>1 DEF LineType
  <2>4. \A i \in DOMAIN Got(n) :
          i \in 1..n /\ i \in 1..Len(replies) /\ Got(n)[i] = replies[i]
    BY <2>1, <2>3, RestOf DEF LineType
  <2>5. ~ \E i \in DOMAIN Got(n) : Got(n)[i] = "wait"
    BY <2>4 DEF ExecInv, NoWait
  <2>6. CASE Refused(Got(n)) \/ \E i \in DOMAIN Got(n) : Got(n)[i] = "failed"
    <3>1. pc' = "between" /\ com_error' = TRUE
      BY <2>1, <2>5, <2>6
    <3>2. ~AllBusy
      BY <2>4, <2>6 DEF Refused, AllBusy
    <3>3. toPrinter = <<>>
      BY <3>2 DEF Opening
    <3>4. AllText'
      BY <2>2, <3>3 DEF AllText, Sent
    <3> QED BY <2>2, <3>1, <3>4 DEF Opening, Stopped, Running
  <2>7. CASE ~ (\/ Refused(Got(n))
                \/ \E i \in DOMAIN Got(n) : Got(n)[i] = "failed")
    <3>1. pc' = "opening" /\ ~com_error'
      BY <2>1, <2>5, <2>7
    <3>2. OpeningFailed => OpeningFailed'
      <4> SUFFICES ASSUME NEW i \in 1..Len(replies),
                          replies[i] \in {"failed", "Resend"}
                   PROVE  OpeningFailed'
        BY DEF OpeningFailed
      <4>1. i \notin 1..n
        BY <2>3, <2>7, RestOf DEF Refused
      <4>2. i - n \in 1..Len(replies') /\ replies'[i - n] = replies[i]
        <5>1. i - n \in 1..Len(replies')
          BY <2>3, <4>1, RestOf DEF LineType
        <5> QED BY <5>1, <2>3, RestOf
      <4> QED BY <4>2 DEF OpeningFailed
    <3>3. AllBusy => AllBusy'
      BY <2>3, AnswersRead
    <3> QED BY <2>2, <3>1, <3>2, <3>3
            DEF Opening, Running, Stored, M29Arrives
  <2> QED BY <2>6, <2>7
<1>3. CASE OpenTimeOut
  <2>1. /\ pc' = "between" /\ replies = <<>> /\ toPrinter = <<>>
        /\ UNCHANGED <<toPrinter, buffer_line, com_error, bare, next,
                       reported,
                       replies, open, partial, file, hits>>
    BY <1>3 DEF OpenTimeOut, MayTimeOut, PromptPrinter, body, printerVars
  <2>2. Stored(0) /\ AllBusy'
    BY <2>1 DEF Opening, OpeningFailed, AllBusy
  <2>3. next - 1 = 0
    BY DEF Opening
  <2> QED BY <2>1, <2>2, <2>3 DEF Opening, Writing, Running, Stored,
             M29Arrives
<1>4. CASE SplitAnswer
  <2>1. /\ UNCHANGED <<toPrinter, pc, com_error, buffer_line, next, bare,
                       reported, open, partial, file>>
        /\ hits' = [hits EXCEPT !["G"] = @ + 1]
    BY <1>4, Frames
  <2>2. /\ replies # <<>> /\ Head(replies) \in {"ok", "busy"}
        /\ replies' = Tail(replies)
    BY <1>4 DEF SplitAnswer, PromptPrinter
  <2>3. OpeningFailed => OpeningFailed'
    <3> SUFFICES ASSUME NEW i \in 1..Len(replies),
                        replies[i] \in {"failed", "Resend"}
                 PROVE  OpeningFailed'
      BY DEF OpeningFailed
    <3>1. i # 1 /\ i - 1 \in 1..Len(replies') /\ replies'[i - 1] = replies[i]
      BY <2>2 DEF LineType
    <3> QED BY <3>1 DEF OpeningFailed
  <2>4. AllBusy => AllBusy'
    BY <2>2 DEF AllBusy, LineType
  <2>5. M29Arrives' => M29Arrives
    <3>1. "G" \in Commands
      BY DEF Commands
    <3> QED BY <2>1, <3>1, HitCounted
  <2> QED BY <2>1, <2>3, <2>4, <2>5 DEF Opening, Running, Stored
<1>5. CASE Printer
  <2>1. UNCHANGED <<pc, com_error, buffer_line, next, bare, reported>>
    BY <1>5, Frames
  <2>2. CASE toPrinter = <<>>
    <3>1. /\ UNCHANGED <<toPrinter, partial, file>>
          /\ OpeningFailed => OpeningFailed'
          /\ M29Arrives' => M29Arrives
      BY <1>5, <2>2, PrinterWaits, AnswersBusy
    <3> QED BY <2>1, <2>2, <3>1 DEF Opening, Running, Stored
  <2>3. CASE toPrinter # <<>>
    <3>0. /\ toPrinter = <<M("M28")>> /\ AllBusy /\ partial = <<>>
          /\ M29Arrives => ~open
      BY <2>3 DEF Opening
    <3>1. /\ Tail(toPrinter) = <<>> /\ AllBusy /\ partial = <<>>
          /\ M29Arrives => ~open
          /\ Arrived.cmd = "M28" /\ ~Text /\ ~EndsLine
      BY <3>0 DEF Arrived, Text, EndsLine, M
    <3>2. \/ OpenFile \/ RefuseFile \/ StoreCommand \/ Fault \/ Busy
      BY <1>5, <2>3, <3>1 DEF Printer, Fragment, TakeLine, CloseFile,
         DeleteFile,
         Obey, Idle
    <3>3. CASE OpenFile \/ RefuseFile \/ StoreCommand
      <4>1. toPrinter' = <<>> /\ UNCHANGED <<partial, hits>>
        BY <3>1, <3>3
        DEF OpenFile, RefuseFile, StoreCommand, Obey, Consume, printerVars
      <4>2. OpeningFailed' \/ Stored(0)'
        <5>1. CASE OpenFile
          BY <5>1 DEF OpenFile, Stored, StoredUpTo
        <5>2. CASE StoreCommand
          BY <3>1, <4>1, <5>2 DEF StoreCommand, Stored, M29Arrives
        <5>3. CASE RefuseFile
          <6>1. replies' = Append(replies, "failed")
            BY <5>3 DEF RefuseFile
          <6>2. /\ Len(replies) + 1 \in 1..Len(replies')
                /\ replies'[Len(replies) + 1] = "failed"
            BY <6>1 DEF LineType
          <6> QED BY <6>2 DEF OpeningFailed
        <5> QED BY <3>3, <5>1, <5>2, <5>3
      <4> QED BY <2>1, <4>1, <4>2 DEF Opening, Running
    <3>4. CASE Fault
      <4>1. /\ toPrinter' = <<>> /\ partial' = <<>>
            /\ replies' = Append(replies, "Resend")
        BY <3>1, <3>4 DEF Fault, Consume, PromptPrinter
      <4>2. /\ Len(replies) + 1 \in 1..Len(replies')
            /\ replies'[Len(replies) + 1] = "Resend"
        BY <4>1 DEF LineType
      <4> QED BY <2>1, <4>1, <4>2 DEF Opening, Running, OpeningFailed
    <3>5. CASE Busy
      <4>1. /\ UNCHANGED <<toPrinter, open, partial>>
            /\ replies' = Append(replies, "busy")
            /\ hits' = [hits EXCEPT !["G"] = @ + 1]
        BY <3>5 DEF Busy
      <4>2. AllBusy'
        BY <3>1, <4>1, AnswersBusy
      <4>3. M29Arrives' => M29Arrives
        <5>1. "G" \in Commands
          BY DEF Commands
        <5> QED BY <4>1, <5>1, HitCounted
      <4> QED BY <2>1, <3>0, <4>1, <4>2, <4>3 DEF Opening, Running
    <3> QED BY <3>2, <3>3, <3>4, <3>5
  <2> QED BY <2>2, <2>3
<1> QED BY <1>1, <1>2, <1>3, <1>4, <1>5

(* Between two lines the printer has read everything.                      *)
LEMMA WritingStep ==
  ASSUME PromptPrinter, TypeOK, LockInv, ExecInv, Writing, Moves
  PROVE  \/ Writing' \/ Awaiting' \/ LastLine' \/ Stopped' \/ Ended'
         \/ Failed'
<1> USE DEF TypeOK
<1>0. /\ pc \in {"chunk", "between"} /\ Running /\ ~com_error
      /\ toPrinter = <<>> /\ partial = <<>> /\ AllBusy
      /\ Lines \in Nat \ {0} /\ next \in 1..Lines + 1
  BY SdUploadAssumption DEF Writing, BufferType
<1>1. \/ Collect \/ PrintLine \/ EndOfBlock \/ Abort \/ EndEmpty \/ EndTail
      \/ Printer
  BY <1>0 DEF Moves, StartUpload, Callback, OpenAnswer, OpenTimeOut,
     LinePassed, LineFailed, SkipBlock, TailPassed, TailFailed,
     IgnoreAnswer, SplitAnswer, Report
<1>2. CASE Collect
  <2>1. /\ next <= Lines /\ next' = next + 1 /\ pc' = "chunk"
        /\ BufferFull \/ next = long \/ (next = Lines /\ tail)
        /\ buffer_line' = IF BufferFull THEN buffer_line
                                        ELSE Append(buffer_line, next)
        /\ com_error' = (BufferFull \/ next = long)
        /\ UNCHANGED <<bare, reported, toPrinter, replies, tail>>
    BY <1>0, <1>2, Zenon DEF Collect
  <2>2. UNCHANGED <<open, partial, file, hits>>
    BY <1>2 DEF Collect, printerVars
  <2>3. buffer_line = <<>> /\ Stored(next - 1)
    BY <1>0, <2>1 DEF Writing, LastKept
  <2>4. CASE com_error'
    <3>1. AllText'
      BY <1>0, <2>1 DEF AllText, Sent
    <3> QED BY <1>0, <2>1, <2>4, <3>1 DEF Stopped, Running
  <2>5. CASE ~com_error'
    <3>1. ~BufferFull /\ next = Lines /\ tail
      BY <2>1, <2>5
    <3>2. buffer_line' = <<Lines>>
      BY <1>0, <2>1, <2>3, <3>1, ShortTails
    <3>3. LastKept' /\ Stored(Lines - 1)'
      BY <2>1, <2>2, <2>3, <3>1, <3>2 DEF LastKept, Stored, M29Arrives
    <3>4. AllBusy'
      BY <1>0, <2>1 DEF AllBusy
    <3> QED BY <1>0, <2>1, <2>2, <2>5, <3>3, <3>4 DEF Writing, Running
  <2> QED BY <2>4, <2>5 DEF FlagType
<1>3. CASE PrintLine
  <2>1. /\ next <= Lines /\ next' = next + 1 /\ pc' = "await"
        /\ buffer_line' = <<next>> /\ toPrinter' = Append(toPrinter, G(next))
        /\ UNCHANGED <<bare, reported, replies, com_error>>
    BY <1>0, <1>3, Zenon DEF PrintLine
  <2>2. UNCHANGED <<open, partial, file, hits>>
    BY <1>3 DEF PrintLine, printerVars
  <2>3. Stored(next - 1)
    BY <1>0, <2>1 DEF Writing, LastKept
  <2>4. next' - 1 = next /\ next' - 2 = next - 1 /\ next' >= 2
    BY <1>0, <2>1
  <2>5. toPrinter' = <<G(next)>>
    BY <1>0, <2>1, ShortTails
  <2>6. AllBusy'
    BY <1>0, <2>1 DEF AllBusy
  <2>7. Stored(next - 1)'  <=> (M29Arrives => StoredUpTo(file, next))
    BY <2>2, <2>4 DEF Stored, M29Arrives
  <2>8. Stored(next - 2)'
    BY <2>2, <2>3, <2>4 DEF Stored, M29Arrives
  <2> QED BY <1>0, <2>1, <2>2, <2>4, <2>5, <2>6, <2>8 DEF Awaiting, Running
<1>4. CASE EndOfBlock
  <2>1. /\ pc' = "between"
        /\ UNCHANGED <<com_error, bare, reported, toPrinter, replies, open,
                       partial, file, hits, next, tail, buffer_line>>
    BY <1>4 DEF EndOfBlock, printerVars, body
  <2> QED BY <1>0, <2>1
          DEF Writing, Running, AllBusy, Stored, M29Arrives, LastKept
<1>5. CASE Abort
  <2>1. /\ Settle(toPrinter, TRUE) /\ buffer_line' = <<>> /\ com_error'
        /\ pc' = "idle" /\ UNCHANGED <<reported, hits>>
    BY <1>5, Zenon DEF Abort, Close, printerVars
  <2>2. /\ ~bare' /\ toPrinter' = <<M("M29"), M("M29"), M("M30")>>
    <3>1. Cancel = <<M("M29"), M("M29"), M("M30")>>
      <4>1. Deletion = M("M30")
        BY <1>0 DEF Deletion, Running
      <4>2. M("M29") \in Item /\ M("M30") \in Item
        BY <1>0, PieceFacts
      <4>3. \A x, y, z \in Item : Append(<<x, y>>, z) = <<x, y, z>>
        BY AppendThree, Zenon
      <4> QED BY <4>1, <4>2, <4>3, Zenon DEF Cancel, Confirm
    <3>2. Cancel \in Seq(Item)
      BY ClosingType
    <3>3. toPrinter' = <<>> \o Cancel /\ ~bare'
      BY <1>0, <2>1 DEF Settle
    <3> QED BY <3>1, <3>2, <3>3
  <2>3. Deleting(3)'
    <3>1. /\ Len(toPrinter') = 3 /\ toPrinter'[1].cmd = "M29"
          /\ toPrinter'[2].cmd = "M29" /\ toPrinter'[3].cmd = "M30"
      BY <2>2 DEF M
    <3>2. OpenThen(3)'
      BY <3>1 DEF OpenThen, IsM29
    <3>3. 1..3 - 1 = {1, 2} /\ 3 + 1..3 = {}
      OBVIOUS
    <3> QED BY <3>1, <3>2, <3>3 DEF Deleting
  <2>4. 3 \in Sent'
    BY <2>2 DEF Sent
  <2> QED BY <1>0, <2>1, <2>2, <2>3, <2>4 DEF Failed, Running
<1>6. CASE EndEmpty
  <2>1. /\ Settle(toPrinter, FALSE) /\ next = Lines + 1 /\ buffer_line = <<>>
        /\ pc' = "report"
        /\ UNCHANGED <<com_error, reported, open, partial, file, hits>>
    <3>1. UNCHANGED <<open, partial, file, hits>>
      BY <1>6 DEF EndEmpty, printerVars
    <3>2. /\ Settle(toPrinter, com_error) /\ next = Lines + 1
          /\ buffer_line = <<>> /\ pc' = "report"
          /\ UNCHANGED <<com_error, reported>>
      BY <1>6, Zenon DEF EndEmpty, Close
    <3>3. com_error = FALSE
      BY <1>0 DEF FlagType
    <3> QED BY <3>1, <3>2, <3>3
  <2>2. /\ bare' /\ upload_status' # "CANCELLED"
        /\ toPrinter' = <<M("M29"), M("M29")>>
    <3>1. Confirm = <<M("M29"), M("M29")>> /\ Confirm \in Seq(Item)
      BY ClosingType DEF Confirm
    <3>2. toPrinter' = <<>> \o Confirm /\ bare'
          /\ upload_status' = "SUCCESSFUL"
      BY <1>0, <2>1 DEF Settle, Running
    <3> QED BY <3>1, <3>2
  <2>3. Stored(Lines)'
    <3>1. Stored(next - 1) /\ next - 1 = Lines
      BY <1>0, <2>1 DEF Writing, LastKept
    <3> QED BY <2>1, <3>1 DEF Stored, M29Arrives
  <2>4. OpenThen(Len(toPrinter) + 1)'
    <3>1. /\ Len(toPrinter') + 1 = 3 /\ toPrinter'[1].cmd = "M29"
          /\ toPrinter'[2].cmd = "M29"
      BY <2>2 DEF M
    <3> QED BY <3>1 DEF OpenThen, IsM29
  <2> QED BY <1>0, <2>1, <2>2, <2>3, <2>4 DEF Ended, Running
<1>7. CASE EndTail
  <2>1. /\ buffer_line # <<>> /\ pc' = "tail"
        /\ toPrinter' = toPrinter \o Pieces(buffer_line) \o AsIs(buffer_line)
        /\ UNCHANGED <<com_error, bare, reported, replies, open, partial,
                       file, hits, next, tail, buffer_line>>
    BY <1>7 DEF EndTail, printerVars, body
  <2>2. LastKept /\ Stored(Lines - 1)
    BY <2>1 DEF Writing
  <2>3. toPrinter' = <<G(Lines), Part(Lines)>>
    <3>1. Lines \in 1..Lines
      BY <1>0
    <3>2. Unended(Lines) /\ buffer_line = <<Lines>>
      BY <2>2 DEF Unended, LastKept
    <3>3. Pieces(buffer_line) = <<G(Lines)>>
          /\ AsIs(buffer_line) = <<Part(Lines)>>
      BY <3>1, <3>2, OnePiece
    <3>4. G(Lines) \in Item /\ Part(Lines) \in Item
      BY <3>1, PieceFacts
    <3>5. <<>> \o <<G(Lines)>> = <<G(Lines)>>
      BY <3>4, ShortTails
    <3>6. <<G(Lines)>> \o <<Part(Lines)>> = <<G(Lines), Part(Lines)>>
      <4>1. \A x, y \in Item : <<x>> \o <<y>> = <<x, y>>
        BY GlueTwo, Zenon
      <4> QED BY <3>4, <4>1, Zenon
    <3> QED BY <1>0, <2>1, <3>3, <3>5, <3>6
  <2>4. AllBusy' /\ Stored(Lines - 1)' /\ LastKept'
    BY <1>0, <2>1, <2>2 DEF AllBusy, Stored, M29Arrives, LastKept
  <2> QED BY <1>0, <2>1, <2>3, <2>4 DEF LastLine, Running
<1>8. CASE Printer
  <2>1. UNCHANGED <<pc, com_error, buffer_line, next, bare, reported, tail>>
    BY <1>8, Frames
  <2>2. /\ UNCHANGED <<toPrinter, partial, file>>
        /\ AllBusy' /\ (M29Arrives' => M29Arrives)
    BY <1>0, <1>8, PrinterWaits, AnswersBusy
  <2> QED BY <1>0, <2>1, <2>2 DEF Writing, Running, Stored, LastKept
<1> QED BY <1>1, <1>2, <1>3, <1>4, <1>5, <1>6, <1>7, <1>8

(* A line is printed until the printer confirms it: what is confirmed has  *)
(* been stored.                                                            *)
LEMMA AwaitingStep ==
  ASSUME PromptPrinter, TypeOK, LockInv, ExecInv, Awaiting, Moves
  PROVE  Awaiting' \/ Writing' \/ Stopped'
<1> USE DEF TypeOK
<1> DEFINE k == next - 1
<1>0. /\ pc = "await" /\ Running /\ ~com_error /\ buffer_line = <<k>>
      /\ partial = <<>> /\ k \in 1..Lines /\ open
      /\ Lines \in Nat \ {0} /\ next \in 1..Lines + 1 /\ next >= 2
  BY SdUploadAssumption DEF Awaiting, BufferType, ExecInv, SendingOpen,
     Sending
<1>1. LinePassed \/ IgnoreAnswer \/ SplitAnswer \/ LineFailed \/ Printer
  BY <1>0 DEF Moves, StartUpload, Callback, OpenAnswer, OpenTimeOut, Collect,
     InWrite, PrintLine, EndOfBlock, SkipBlock, Abort, EndEmpty, EndTail,
     TailPassed, TailFailed, Report
<1>2. CASE LinePassed
  <2>1. PICK n \in 1..Len(replies) : Passed(Got(n)) /\ replies' = Rest(n)
    BY <1>2 DEF LinePassed
  <2>2. /\ pc' = "chunk" /\ buffer_line' = <<>>
        /\ UNCHANGED <<com_error, bare, reported, next, toPrinter, open,
                       partial, file, hits>>
    BY <1>2 DEF LinePassed, body, printerVars
  <2>3. n \in 0..Len(replies)
    BY <2>1 DEF LineType
  <2>4. PICK i \in 1..n : replies[i] = "ok" /\ i \in 1..Len(replies)
    <3>1. \A i \in DOMAIN Got(n) :
            i \in 1..n /\ i \in 1..Len(replies) /\ Got(n)[i] = replies[i]
      BY <2>1, <2>3, RestOf DEF LineType
    <3> QED BY <2>1, <3>1 DEF Passed, ExecInv, NoWait
  <2>5. ~AllBusy /\ OkComes
    BY <2>4 DEF AllBusy, OkComes
  <2>6. toPrinter = <<>> /\ OneAnswer /\ Stored(k)
    BY <2>5 DEF Awaiting
  <2>7. AllBusy'
    <3>1. \E j \in 1..n : replies[j] # "busy"
      BY <2>4
    <3> QED BY <2>1, <2>3, <2>6, <3>1, AnswersRead
  <2>8. Stored(next - 1)'
    BY <2>2, <2>6 DEF Stored, M29Arrives
  <2> QED BY <1>0, <2>2, <2>6, <2>7, <2>8 DEF Writing, Running
<1>3. CASE IgnoreAnswer \/ SplitAnswer
  <2>1. /\ UNCHANGED <<pc, buffer_line, com_error, bare, next, reported,
                       toPrinter, open, partial, file>>
        /\ M29Arrives' => M29Arrives
    <3>1. CASE IgnoreAnswer
      <4>1. UNCHANGED <<toPrinter, printerVars>>
        BY <3>1 DEF IgnoreAnswer
      <4> QED BY <3>1, <4>1, Frames DEF printerVars, M29Arrives
    <3>2. CASE SplitAnswer
      <4>1. "G" \in Commands
        BY DEF Commands
      <4> QED BY <3>2, <4>1, Frames, HitCounted
    <3> QED BY <1>3, <3>1, <3>2
  <2>2. /\ AllBusy => AllBusy'
        /\ OneAnswer => OneAnswer'
        /\ OkComes' => OkComes
    <3>1. \E n \in 0..Len(replies) : replies' = Rest(n)
      <4>1. CASE IgnoreAnswer
        BY <4>1 DEF IgnoreAnswer, LineType
      <4>2. CASE SplitAnswer
        <5>1. replies # <<>> /\ replies' = Tail(replies)
          BY <4>2 DEF SplitAnswer
        <5>2. 1 \in 0..Len(replies) /\ replies' = Rest(1)
          BY <5>1 DEF LineType, Rest
        <5> QED BY <5>2
      <4> QED BY <1>3, <4>1, <4>2
    <3> QED BY <3>1, AnswersRead
  <2> QED BY <1>0, <2>1, <2>2 DEF Awaiting, Running, Stored
<1>4. CASE LineFailed
  <2>1. /\ toPrinter = <<>> /\ replies' = <<>>
        /\ UNCHANGED <<bare, reported, next, open, partial, file, hits>>
    <3>1. PICK n \in 0..Len(replies) :
            /\ IF n = 0 THEN MayTimeOut
                        ELSE ~Passed(Got(n)) /\ Refused(Got(n))
            /\ \E m \in n..Len(replies) :
                 (Late \/ m = Len(replies)) /\ replies' = Rest(m)
      BY <1>4 DEF LineFailed
    <3>2. replies' = <<>>
      BY <3>1 DEF PromptPrinter, LineType, Rest
    <3>3. toPrinter = <<>>
      <4>1. CASE n = 0
        BY <3>1, <4>1 DEF MayTimeOut, PromptPrinter
      <4>2. CASE n # 0
        <5>1. \A i \in DOMAIN Got(n) :
                i \in 1..Len(replies) /\ Got(n)[i] = replies[i]
          BY <4>2 DEF Got, LineType
        <5>2. ~AllBusy
          BY <3>1, <4>2, <5>1 DEF Refused, AllBusy
        <5> QED BY <5>2 DEF Awaiting
      <4> QED BY <4>1, <4>2
    <3> QED BY <1>4, <3>2, <3>3 DEF LineFailed, body, printerVars
  <2>2. CASE MoreTries
    <3>1. /\ toPrinter' = toPrinter \o Pieces(buffer_line)
          /\ UNCHANGED <<pc, buffer_line, com_error>>
      BY <1>4, <2>2 DEF LineFailed
    <3>2. toPrinter' = <<G(k)>>
      <4>1. Pieces(buffer_line) = <<G(k)>>
            /\ Pieces(buffer_line) \in Seq(Item)
        BY <1>0, OnePiece, PiecesType DEF BufferType
      <4>2. toPrinter' = <<>> \o Pieces(buffer_line)
        BY <2>1, <3>1
      <4> QED BY <4>1, <4>2
    <3>3. AllBusy'
      BY <2>1 DEF AllBusy
    <3>4. (Stored(next - 2) \/ Stored(next - 1))'
      BY <2>1 DEF Awaiting, Stored, M29Arrives
    <3> QED BY <1>0, <2>1, <3>1, <3>2, <3>3, <3>4 DEF Awaiting, Running
  <2>3. CASE ~MoreTries
    <3>1. com_error' = TRUE /\ pc' = "chunk" /\ UNCHANGED toPrinter
      BY <1>4, <2>3 DEF LineFailed
    <3>2. AllText'
      BY <2>1, <3>1 DEF AllText, Sent
    <3> QED BY <1>0, <2>1, <3>1, <3>2 DEF Stopped, Running
  <2> QED BY <2>2, <2>3
<1>5. CASE Printer
  <2>1. UNCHANGED <<pc, com_error, buffer_line, next, bare, reported>>
    BY <1>5, Frames
  <2>2. CASE toPrinter = <<>>
    <3>1. /\ UNCHANGED <<toPrinter, partial, file>>
          /\ AllBusy => AllBusy'
          /\ OneAnswer => OneAnswer'
          /\ OkComes' => OkComes
          /\ M29Arrives' => M29Arrives
      BY <1>5, <2>2, PrinterWaits, AnswersBusy
    <3> QED BY <1>0, <2>1, <3>1 DEF Awaiting, Running, Stored
  <2>3. CASE toPrinter # <<>>
    <3>1. toPrinter = <<G(k)>> /\ AllBusy /\ (Stored(k - 1) \/ Stored(k))
      <4>1. k - 1 = next - 2
        BY <1>0
      <4> QED BY <2>3, <4>1 DEF Awaiting
    <3>2. /\ Arrived = G(k) /\ Arrived.cmd = "G" /\ Arrived.line = k
          /\ Text /\ EndsLine /\ Tail(toPrinter) = <<>>
      <4>1. Arrived = G(k) /\ Tail(toPrinter) = <<>>
        BY <3>1 DEF Arrived
      <4>2. G(k).cmd = "G" /\ G(k).line = k
        BY DEF G
      <4> QED BY <4>1, <4>2 DEF Text, EndsLine
    <3>3. TakeLine \/ Fault \/ Busy
      BY <1>5, <2>3, <3>2 DEF Printer, Fragment, OpenFile, RefuseFile,
         CloseFile, DeleteFile, StoreCommand, Obey, Idle
    <3>4. CASE TakeLine
      <4>1. LineText = <<k>>
        <5>1. LineText = Append(<<>>, k)
          BY <1>0, <3>2 DEF LineText
        <5> QED BY <1>0, <5>1
      <4>2. /\ toPrinter' = <<>> /\ partial' = <<>>
            /\ file' = Append(file, <<k>>)
            /\ replies' = Append(replies, "ok") /\ UNCHANGED hits
        BY <1>0, <3>2, <3>4, <4>1 DEF TakeLine, Consume
      <4>3. OneAnswer'
        BY <3>1, <4>2, AnswersLine
      <4>4. Stored(next - 1)'
        <5>1. file \in Seq(Seq(0..Lines))
          BY DEF PrinterType
        <5>2. M29Arrives => StoredUpTo(file, k - 1) \/ StoredUpTo(file, k)
          BY <3>1 DEF Stored
        <5>3. M29Arrives => StoredUpTo(file', k)
          BY <1>0, <4>2, <5>1, <5>2, StoredNext
        <5> QED BY <2>1, <4>2, <5>3 DEF Stored, M29Arrives
      <4> QED BY <1>0, <2>1, <4>2, <4>3, <4>4 DEF Awaiting, Running
    <3>5. CASE Fault
      <4>1. /\ toPrinter' = <<>> /\ partial' = <<>>
            /\ replies' = Append(replies, "Resend") \/ UNCHANGED replies
            /\ hits' = [hits EXCEPT !["G"] = @ + 1]
            /\ UNCHANGED file
        BY <3>2, <3>5 DEF Fault, Consume
      <4>2. OneAnswer'
        BY <3>1, <4>1, AnswersLine
      <4>3. ~OkComes'
        <5>1. replies' # Append(replies, "ok")
          BY <4>1 DEF LineType
        <5> QED BY <3>1, <4>1, <5>1, AnswersLine
      <4>4. M29Arrives' => M29Arrives
        <5>1. "G" \in Commands
          BY DEF Commands
        <5> QED BY <4>1, <5>1, HitCounted
      <4>5. (Stored(next - 2) \/ Stored(next - 1))'
        BY <2>1, <4>1, <4>4 DEF Awaiting, Stored
      <4> QED BY <1>0, <2>1, <4>1, <4>2, <4>3, <4>5 DEF Awaiting, Running
    <3>6. CASE Busy
      <4>1. /\ UNCHANGED <<toPrinter, partial, file>>
            /\ replies' = Append(replies, "busy")
            /\ hits' = [hits EXCEPT !["G"] = @ + 1]
        BY <3>6 DEF Busy
      <4>2. AllBusy'
        BY <3>1, <4>1, AnswersBusy
      <4>3. M29Arrives' => M29Arrives
        <5>1. "G" \in Commands
          BY DEF Commands
        <5> QED BY <4>1, <5>1, HitCounted
      <4>4. (Stored(next - 2) \/ Stored(next - 1))'
        BY <2>1, <4>1, <4>3 DEF Awaiting, Stored
      <4> QED BY <1>0, <2>1, <3>1, <4>1, <4>2, <4>4 DEF Awaiting, Running
    <3> QED BY <3>3, <3>4, <3>5, <3>6
  <2> QED BY <2>2, <2>3
<1> QED BY <1>1, <1>2, <1>3, <1>4, <1>5

(* The closing commands, item by item.                                     *)
LEMMA CancelItems ==
  /\ Cancel \in Seq(Item) /\ Len(Cancel) = 3
  /\ Cancel[1].cmd = "M29" /\ Cancel[2].cmd = "M29"
  /\ Cancel[3].cmd = IF bare THEN "M30" ELSE "M30_M30"
<1>1. M("M29").cmd = "M29" /\ Deletion.cmd = IF bare THEN "M30" ELSE "M30_M30"
  BY DEF M, Deletion
<1>2. /\ Len(Cancel) = 3 /\ Cancel[1] = M("M29") /\ Cancel[2] = M("M29")
      /\ Cancel[3] = Deletion
  BY DEF Confirm, Cancel
<1> QED BY <1>1, <1>2, ClosingType

(* A failed upload is closed behind its last line, then deleted.           *)
LEMMA CancelPrinted ==
  ASSUME LineType, AllText, bare, Settle(toPrinter, TRUE)
  PROVE  ~bare' /\ \E m \in Sent' : Deleting(m)'
<1> DEFINE s == Cancel
           p == toPrinter
           q == toPrinter'
<1>1. q = p \o s /\ ~bare'
  BY DEF Settle
<1>2. /\ p \in Seq(Item) /\ s \in Seq(Item) /\ Len(s) = 3 /\ Len(p) \in Nat
      /\ s[1].cmd = "M29" /\ s[2].cmd = "M29" /\ s[3].cmd = "M30"
  BY CancelItems DEF LineType
<1>3. /\ Len(q) = Len(p) + Len(s)
      /\ \A i \in 1..Len(p) + Len(s) :
           q[i] = IF i <= Len(p) THEN p[i] ELSE s[i - Len(p)]
  BY <1>1, <1>2, ConcatProperties
<1>4. \A i \in 1..Len(p) : p[i].cmd \in {"G", "part"}
  BY DEF AllText, Sent, IsText
<1> HIDE DEF s, p, q
<1>9. PICK m \in Nat : m = Len(p) + 3
  BY <1>2
<1>5. /\ q[m].cmd = "M30" /\ q[m - 1].cmd = "M29" /\ q[m - 2].cmd = "M29"
      /\ Len(q) = m /\ m >= 3 /\ m \in Nat
  <2>1. q[Len(p) + 1] = s[1] /\ q[Len(p) + 2] = s[2] /\ q[Len(p) + 3] = s[3]
    BY <1>2, <1>3
  <2>2. m - 1 = Len(p) + 2 /\ m - 2 = Len(p) + 1
    BY <1>2, <1>9
  <2> QED BY <1>2, <1>3, <1>9, <2>1, <2>2
<1>6. \A i \in 1..m - 1 : q[i].cmd \in {"G", "part", "M29"}
  <2> SUFFICES ASSUME NEW i \in 1..m - 1
               PROVE  q[i].cmd \in {"G", "part", "M29"}
    OBVIOUS
  <2>1. CASE i <= Len(p)
    BY <1>2, <1>3, <1>4, <1>9, <2>1
  <2>2. CASE ~ i <= Len(p)
    <3>1. i = m - 1 \/ i = m - 2
      BY <1>2, <1>9, <2>2
    <3> QED BY <1>5, <3>1
  <2> QED BY <2>1, <2>2
<1>7. m + 1..Len(q) = {}
  BY <1>5
<1>8. Deleting(m)' /\ m \in Sent'
  BY <1>5, <1>6, <1>7 DEF q, Deleting, OpenThen, IsM29, Sent
<1> QED BY <1>1, <1>8

(* The last line without newline: what is confirmed has been stored with   *)
(* its newline, whatever becomes of the repetitions without one.           *)
LEMMA LastLineStep ==
  ASSUME PromptPrinter, TypeOK, LockInv, ExecInv, LastLine, Moves
  PROVE  LastLine' \/ Ended' \/ Failed'
<1> USE DEF TypeOK
<1> DEFINE
      Twice == /\ toPrinter = <<G(Lines), Part(Lines)>> /\ partial = <<>>
               /\ AllBusy /\ Stored(Lines - 1)
      Once  == /\ \/ toPrinter = <<Part(Lines)>> /\ partial = <<>>
                  \/ toPrinter = <<>> /\ partial = <<Lines>>
               /\ OneAnswer /\ (OkComes => Stored(Lines))
      Again == AllBusy /\ \A i \in Sent : toPrinter[i].cmd = "part"
<1>0. /\ pc = "tail" /\ Running /\ ~com_error /\ LastKept
      /\ Lines \in 1..Lines /\ open /\ (Twice \/ Once \/ Again)
  BY SdUploadAssumption DEF LastLine, ExecInv, SendingOpen, Sending
<1>c. Lines \in 1..Lines /\ open /\ Lines \in Nat
  BY SdUploadAssumption DEF LastLine, ExecInv, SendingOpen, Sending
<1>a. /\ G(Lines) \in Item /\ Part(Lines) \in Item
      /\ G(Lines).cmd = "G" /\ G(Lines).line = Lines
      /\ Part(Lines).cmd = "part" /\ Part(Lines).line = Lines
      /\ M("M29") \in Item /\ M("M29").cmd = "M29"
  BY <1>c, PieceFacts
<1>b. ASSUME pc' = "tail", Running', ~com_error', LastKept',
             (Twice \/ Once \/ Again)'
      PROVE  LastLine'
  BY <1>b DEF LastLine
<1>1. TailPassed \/ TailFailed \/ IgnoreAnswer \/ SplitAnswer \/ Printer
  BY <1>0 DEF Moves, StartUpload, Callback, OpenAnswer, OpenTimeOut, Collect,
     InWrite, PrintLine, LinePassed, LineFailed, EndOfBlock, SkipBlock,
     Abort, EndEmpty, EndTail, Report
<1>2. CASE TailPassed
  <2>1. PICK n \in 1..Len(replies) : Passed(Got(n)) /\ replies' = Rest(n)
    BY <1>2 DEF TailPassed
  <2>2. /\ pc' = "report" /\ Settle(toPrinter, FALSE)
        /\ UNCHANGED <<com_error, reported, open, partial, file, hits>>
    <3>1. /\ pc' = "report" /\ Settle(toPrinter, com_error)
          /\ UNCHANGED <<com_error, reported>>
      BY <1>2, Zenon DEF TailPassed, Close
    <3>2. UNCHANGED <<open, partial, file, hits>>
      BY <1>2 DEF TailPassed, printerVars
    <3>3. com_error = FALSE
      BY <1>0 DEF FlagType
    <3> QED BY <3>1, <3>2, <3>3
  <2>3. OkComes /\ ~AllBusy
    <3>1. n \in 0..Len(replies)
      BY <2>1 DEF LineType
    <3>2. \A i \in DOMAIN Got(n) :
            i \in 1..n /\ i \in 1..Len(replies) /\ Got(n)[i] = replies[i]
      BY <2>1, <3>1, RestOf DEF LineType
    <3>3. PICK i \in 1..Len(replies) : replies[i] = "ok"
      BY <2>1, <3>2 DEF Passed, ExecInv, NoWait
    <3> QED BY <3>3 DEF OkComes, AllBusy
  <2>4. Once /\ Stored(Lines)
    BY <1>0, <2>3
  <2>5. /\ bare' /\ upload_status' # "CANCELLED"
        /\ toPrinter' = toPrinter \o <<M("M29"), M("M29")>>
    BY <1>0, <2>2 DEF Settle, Confirm, Running
  <2>6. /\ \/ /\ toPrinter' = <<Part(Lines), M("M29"), M("M29")>>
              /\ partial' = <<>> /\ Len(toPrinter') = 3
              /\ IsM29(3)' /\ IsM29(2)'
           \/ /\ toPrinter' = <<M("M29"), M("M29")>> /\ partial' = <<Lines>>
              /\ Len(toPrinter') = 2 /\ IsM29(2)' /\ IsM29(1)'
    <3>1. CASE toPrinter = <<Part(Lines)>> /\ partial = <<>>
      <4>1. toPrinter' = <<Part(Lines), M("M29"), M("M29")>>
        <5>1. \A x, y \in Item : <<x>> \o <<y, y>> = <<x, y, y>>
          BY GlueThree, Zenon
        <5> QED BY <1>a, <2>5, <3>1, <5>1, Zenon
      <4> QED BY <1>a, <2>2, <3>1, <4>1 DEF IsM29
    <3>2. CASE toPrinter = <<>> /\ partial = <<Lines>>
      <4>1. toPrinter' = <<M("M29"), M("M29")>>
        BY <1>a, <2>5, <3>2
      <4> QED BY <1>a, <2>2, <3>2, <4>1 DEF IsM29
    <3> QED BY <2>4, <3>1, <3>2
  <2>7. OpenThen(Len(toPrinter) + 1)'
    BY <2>6 DEF OpenThen, IsM29
  <2>8. Stored(Lines)'
    BY <2>2, <2>4 DEF Stored, M29Arrives
  <2> QED BY <1>0, <2>2, <2>5, <2>6, <2>7, <2>8 DEF Ended, Running
<1>3. CASE IgnoreAnswer \/ SplitAnswer
  <2>1. /\ UNCHANGED <<pc, buffer_line, com_error, bare, next, tail, reported,
                       toPrinter, open, partial, file>>
        /\ M29Arrives' => M29Arrives
    <3>1. CASE IgnoreAnswer
      <4>1. UNCHANGED <<toPrinter, printerVars>>
        BY <3>1 DEF IgnoreAnswer
      <4> QED BY <3>1, <4>1, Frames DEF printerVars, M29Arrives
    <3>2. CASE SplitAnswer
      <4>1. "G" \in Commands
        BY DEF Commands
      <4> QED BY <3>2, <4>1, Frames, HitCounted
    <3> QED BY <1>3, <3>1, <3>2
  <2>2. /\ AllBusy => AllBusy'
        /\ OneAnswer => OneAnswer'
        /\ OkComes' => OkComes
    <3>1. \E n \in 0..Len(replies) : replies' = Rest(n)
      <4>1. CASE IgnoreAnswer
        BY <4>1 DEF IgnoreAnswer, LineType
      <4>2. CASE SplitAnswer
        <5>1. replies # <<>> /\ replies' = Tail(replies)
          BY <4>2 DEF SplitAnswer
        <5>2. 1 \in 0..Len(replies) /\ replies' = Rest(1)
          BY <5>1 DEF LineType, Rest
        <5> QED BY <5>2
      <4> QED BY <1>3, <4>1, <4>2
    <3> QED BY <3>1, AnswersRead
  <2>3. (Twice \/ Once \/ Again)'
    BY <1>0, <2>1, <2>2 DEF Stored, Sent
  <2> QED BY <1>0, <1>b, <2>1, <2>3 DEF Running, LastKept
<1>4. CASE TailFailed
  <2>1. PICK n \in 0..Len(replies) :
          /\ IF n = 0 THEN MayTimeOut ELSE ~Passed(Got(n)) /\ Refused(Got(n))
          /\ replies' = Rest(n)
    BY <1>4 DEF TailFailed
  <2>2. /\ UNCHANGED <<reported, next, tail, open, partial, file, hits>>
    BY <1>4 DEF TailFailed, body, printerVars
  <2>3. AllBusy' /\ (\A i \in Sent : toPrinter[i].cmd = "part")
    <3>1. CASE n = 0
      <4>1. toPrinter = <<>> /\ replies = <<>>
        BY <2>1, <3>1 DEF MayTimeOut, PromptPrinter
      <4>2. replies' = <<>>
        BY <2>1, <3>1, <4>1 DEF Rest
      <4> QED BY <4>1, <4>2 DEF AllBusy, Sent
    <3>2. CASE n # 0
      <4>1. \A i \in DOMAIN Got(n) :
              i \in 1..n /\ i \in 1..Len(replies) /\ Got(n)[i] = replies[i]
        BY <2>1, <3>2, RestOf DEF LineType
      <4>2. PICK i \in 1..n : i \in 1..Len(replies) /\ replies[i] = "Resend"
        BY <2>1, <3>2, <4>1 DEF Refused
      <4>3. Once
        BY <1>0, <4>2 DEF AllBusy
      <4>4. AllBusy'
        <5>1. \E j \in 1..n : replies[j] # "busy"
          BY <4>2
        <5> QED BY <2>1, <4>3, <5>1, AnswersRead
      <4> QED BY <1>a, <4>3, <4>4 DEF Sent
    <3> QED BY <3>1, <3>2
  <2>4. CASE MoreTries
    <3>1. /\ toPrinter' = toPrinter \o AsIs(buffer_line)
          /\ UNCHANGED <<pc, buffer_line, com_error, bare>>
      BY <1>4, <2>4 DEF TailFailed
    <3>2. AsIs(buffer_line) = <<Part(Lines)>>
      <4>1. Unended(Lines) /\ buffer_line = <<Lines>>
        BY <1>0 DEF LastKept, Unended
      <4> QED BY <1>c, <4>1, OnePiece
    <3>3. \A i \in Sent' : toPrinter'[i].cmd = "part"
      <4> DEFINE s == <<Part(Lines)>>
      <4>1. /\ s \in Seq(Item) /\ toPrinter \in Seq(Item)
            /\ toPrinter' = toPrinter \o s
            /\ \A i \in 1..Len(s) : s[i].cmd \in {"part"}
            /\ \A i \in 1..Len(toPrinter) : toPrinter[i].cmd \in {"part"}
        BY <1>a, <2>3, <3>1, <3>2 DEF LineType, Sent
      <4> HIDE DEF s
      <4>2. \A i \in 1..Len(toPrinter') : toPrinter'[i].cmd \in {"part"}
        BY <4>1, ItemsGlued
      <4> QED BY <4>2 DEF Sent
    <3> QED BY <1>0, <1>b, <2>2, <2>3, <3>1, <3>3 DEF Running, LastKept
  <2>5. CASE ~MoreTries
    <3>1. /\ com_error' = TRUE /\ Settle(toPrinter, TRUE)
          /\ buffer_line' = <<>>
          /\ pc' = "report"
      BY <1>4, <2>5, Zenon DEF TailFailed, Close
    <3>2. AllText
      BY <2>3 DEF AllText, IsText
    <3>3. ~bare' /\ \E m \in Sent' : Deleting(m)'
      BY <1>0, <3>1, <3>2, CancelPrinted DEF Running
    <3>4. upload_status' = "CANCELLED"
      BY <3>1 DEF Settle
    <3> QED BY <1>0, <2>2, <3>1, <3>3, <3>4 DEF Failed, Running
  <2> QED BY <2>4, <2>5
<1>5. CASE Printer
  <2>1. UNCHANGED <<pc, com_error, buffer_line, next, bare, reported, tail>>
    BY <1>5, Frames
  <2>2. SUFFICES (Twice \/ Once \/ Again)'
    BY <1>0, <1>b, <2>1 DEF Running, LastKept
  <2>3. CASE Busy
    <3>1. /\ UNCHANGED <<toPrinter, partial, file>>
          /\ replies' = Append(replies, "busy")
          /\ hits' = [hits EXCEPT !["G"] = @ + 1]
      BY <2>3 DEF Busy
    <3>2. /\ AllBusy => AllBusy'
          /\ OneAnswer => OneAnswer'
          /\ OkComes' => OkComes
      BY <3>1, AnswersBusy
    <3>3. M29Arrives' => M29Arrives
      <4>1. "G" \in Commands
        BY DEF Commands
      <4> QED BY <3>1, <4>1, HitCounted
    <3> QED BY <1>0, <3>1, <3>2, <3>3 DEF Stored, Sent
  <2>4. CASE Twice /\ ~Busy
    <3>1. /\ Arrived = G(Lines) /\ Text /\ EndsLine
          /\ Tail(toPrinter) = <<Part(Lines)>> /\ toPrinter # <<>>
      <4>1. Arrived = G(Lines) /\ toPrinter # <<>>
        BY <2>4 DEF Arrived
      <4>2. Tail(toPrinter) = <<Part(Lines)>>
        BY <1>a, <2>4, ShortTails
      <4> QED BY <1>a, <4>1, <4>2 DEF Text, EndsLine
    <3>2. TakeLine \/ Fault
      BY <1>5, <1>a, <2>4, <3>1 DEF Printer, Fragment, OpenFile, RefuseFile,
         CloseFile, DeleteFile, StoreCommand, Obey, Idle
    <3>3. CASE TakeLine
      <4>1. LineText = <<Lines>>
        <5>1. LineText = Append(<<>>, Lines)
          BY <1>a, <2>4, <3>1 DEF LineText
        <5> QED BY <1>0, <5>1
      <4>2. /\ toPrinter' = <<Part(Lines)>> /\ partial' = <<>>
            /\ file' = Append(file, <<Lines>>)
            /\ replies' = Append(replies, "ok") /\ UNCHANGED hits
        BY <1>c, <3>1, <3>3, <4>1 DEF TakeLine, Consume
      <4>3. OneAnswer'
        BY <2>4, <4>2, AnswersLine
      <4>4. Stored(Lines)'
        <5>1. file \in Seq(Seq(0..Lines))
          BY DEF PrinterType
        <5>2. M29Arrives => StoredUpTo(file, Lines - 1)
          BY <2>4 DEF Stored
        <5>3. M29Arrives => StoredUpTo(file', Lines)
          BY <1>c, <4>2, <5>1, <5>2, StoredNext
        <5> QED BY <4>2, <5>3 DEF Stored, M29Arrives
      <4> QED BY <4>2, <4>3, <4>4
    <3>4. CASE Fault
      <4>1. /\ toPrinter' = <<Part(Lines)>> /\ partial' = <<>>
            /\ replies' = Append(replies, "Resend") \/ UNCHANGED replies
        BY <3>1, <3>4 DEF Fault, Consume
      <4>2. OneAnswer'
        BY <2>4, <4>1, AnswersLine
      <4>3. ~OkComes'
        <5>1. replies' # Append(replies, "ok")
          BY <4>1, <2>4 DEF LineType, AllBusy
        <5> QED BY <2>4, <4>1, <5>1, AnswersLine
      <4> QED BY <4>1, <4>2, <4>3
    <3> QED BY <3>2, <3>3, <3>4
  <2>5. CASE ~Twice /\ ~Busy
    <3>1. \A i \in Sent : toPrinter[i].cmd = "part"
      BY <1>0, <1>a, <2>5 DEF Sent
    <3>2. toPrinter # <<>> /\ Arrived.cmd = "part"
      <4>1. toPrinter # <<>>
        BY <1>5, <2>5 DEF Printer, Fragment, TakeLine, OpenFile, RefuseFile,
           CloseFile, DeleteFile, StoreCommand, Fault, Obey, Whole, Idle,
           PromptPrinter
      <4> QED BY <3>1, <4>1 DEF Arrived, Sent, LineType
    <3>3. Fragment
      BY <1>5, <2>5, <3>2 DEF Printer, TakeLine, OpenFile, RefuseFile,
         CloseFile, DeleteFile, StoreCommand, Fault, Obey, Whole, Idle
    <3>4. /\ toPrinter' = Tail(toPrinter)
          /\ partial' = Append(partial, Arrived.line)
          /\ UNCHANGED <<replies, file, hits>>
      BY <3>2, <3>3 DEF Fragment, Consume, Text, LineText
    <3>5. CASE Again
      BY <3>2, <3>4, <3>5 DEF Sent, AllBusy, LineType
    <3>6. CASE Once
      <4>1. toPrinter = <<Part(Lines)>> /\ partial = <<>>
        BY <3>2, <3>6
      <4>2. Arrived = Part(Lines) /\ Tail(toPrinter) = <<>>
        BY <4>1 DEF Arrived
      <4>3. toPrinter' = <<>> /\ partial' = <<Lines>>
        BY <1>0, <1>a, <3>4, <4>1, <4>2
      <4>4. OneAnswer' /\ (OkComes => Stored(Lines))'
        BY <3>4, <3>6 DEF OneAnswer, OkComes, Stored, M29Arrives
      <4> QED BY <4>3, <4>4
    <3> QED BY <1>0, <2>5, <3>5, <3>6
  <2> QED BY <2>3, <2>4, <2>5
<1> QED BY <1>1, <1>2, <1>3, <1>4, <1>5

(* After an error nothing but lines of the file is sent until it is closed *)
(* and deleted.                                                            *)
LEMMA StoppedStep ==
  ASSUME PromptPrinter, TypeOK, LockInv, ExecInv, ExecInv', Stopped, Moves
  PROVE  Stopped' \/ Failed'
<1> USE DEF TypeOK
<1>0. /\ pc \in {"chunk", "between", "tail"} /\ bare /\ reported = "none"
      /\ com_error /\ AllText
  BY DEF Stopped, Running
<1>1. \/ Collect \/ EndOfBlock \/ SkipBlock \/ Abort \/ EndEmpty \/ EndTail
      \/ TailPassed \/ TailFailed \/ IgnoreAnswer \/ SplitAnswer \/ Printer
  BY <1>0 DEF Moves, StartUpload, Callback, OpenAnswer, OpenTimeOut, PrintLine,
     LinePassed, LineFailed, Report
<1>2. CASE Collect \/ EndOfBlock
  <2>1. /\ pc' \in {"chunk", "between"} /\ com_error'
        /\ UNCHANGED <<bare, reported, toPrinter>>
    <3>1. CASE Collect
      BY <1>0, <3>1, Zenon DEF Collect
    <3>2. CASE EndOfBlock
      BY <1>0, <3>2, Zenon DEF EndOfBlock
    <3> QED BY <1>2, <3>1, <3>2
  <2>2. AllText'
    BY <1>0, <2>1 DEF AllText, Sent, IsText
  <2> QED BY <1>0, <2>1, <2>2 DEF Stopped, Running
<1>3. ASSUME Settle(toPrinter, TRUE), buffer_line' = <<>>, com_error',
             pc' \in {"between", "idle", "report"}, UNCHANGED reported
      PROVE  Failed'
  <2>1. ~bare' /\ \E m \in Sent' : Deleting(m)'
    BY <1>0, <1>3, CancelPrinted
  <2>2. upload_status' = "CANCELLED"
    BY <1>3 DEF Settle
  <2> QED BY <1>0, <1>3, <2>1, <2>2 DEF Failed
<1>4. CASE SkipBlock \/ Abort \/ EndEmpty \/ TailPassed
  <2>1. com_error = TRUE
    BY <1>0 DEF FlagType
  <2>2. /\ Settle(toPrinter, TRUE) /\ buffer_line' = <<>> /\ com_error'
        /\ pc' \in {"between", "idle", "report"} /\ UNCHANGED reported
    <3>1. CASE SkipBlock
      BY <2>1, <3>1, Zenon DEF SkipBlock, Close
    <3>2. CASE Abort
      BY <2>1, <3>2, Zenon DEF Abort, Close
    <3>3. CASE EndEmpty
      BY <2>1, <3>3, Zenon DEF EndEmpty, Close
    <3>4. CASE TailPassed
      BY <2>1, <3>4, Zenon DEF TailPassed, Close
    <3> QED BY <1>4, <3>1, <3>2, <3>3, <3>4
  <2> QED BY <1>3, <2>2
<1>5. CASE EndTail \/ (TailFailed /\ MoreTries)
  <2>1. pc' = "tail" /\ UNCHANGED <<bare, reported, com_error>>
    <3>1. CASE EndTail
      BY <3>1, Zenon DEF EndTail
    <3>2. CASE TailFailed /\ MoreTries
      BY <3>2, Zenon DEF TailFailed, body
    <3> QED BY <1>5, <3>1, <3>2
  <2>2. AllText'
    BY <2>1 DEF ExecInv, SendingOpen, Sending
  <2> QED BY <1>0, <2>1, <2>2 DEF Stopped, Running
<1>6. CASE TailFailed /\ ~MoreTries
  <2>1. /\ Settle(toPrinter, TRUE) /\ buffer_line' = <<>> /\ com_error'
        /\ pc' = "report" /\ UNCHANGED reported
    BY <1>6, Zenon DEF TailFailed, Close
  <2> QED BY <1>3, <2>1
<1>7. CASE IgnoreAnswer \/ SplitAnswer \/ Printer
  <2>1. UNCHANGED <<pc, com_error, bare, reported>>
    BY <1>7, Frames
  <2>2. AllText'
    <3>1. CASE IgnoreAnswer \/ SplitAnswer
      <4>1. UNCHANGED toPrinter
        BY <3>1 DEF IgnoreAnswer, SplitAnswer
      <4> QED BY <1>0, <4>1 DEF AllText, Sent, IsText
    <3>2. CASE Printer
      <4>1. \/ UNCHANGED toPrinter
            \/ toPrinter # <<>> /\ toPrinter' = Tail(toPrinter)
        BY <3>2 DEF Printer, Fragment, TakeLine, OpenFile, RefuseFile,
           CloseFile, DeleteFile, StoreCommand, Fault, Busy, Idle, Obey,
           Whole, Consume
      <4>2. CASE UNCHANGED toPrinter
        BY <1>0, <4>2 DEF AllText, Sent, IsText
      <4>3. CASE toPrinter # <<>> /\ toPrinter' = Tail(toPrinter)
        BY <1>0, <4>3, TextConsumed DEF ExecInv
      <4> QED BY <4>1, <4>2, <4>3
    <3> QED BY <1>7, <3>1, <3>2
  <2> QED BY <1>0, <2>1, <2>2 DEF Stopped, Running
<1> QED BY <1>1, <1>2, <1>4, <1>5, <1>6, <1>7

(* The next upload starts when the printer has read everything.            *)
LEMMA StartStep ==
  ASSUME PromptPrinter, TypeOK, StartUpload, partial = <<>>,
         M29Arrives => ~open
  PROVE  Opening'
<1> USE DEF TypeOK
<1>1. /\ pc' = "opening" /\ bare' /\ reported' = "none" /\ ~com_error'
      /\ next' = 1 /\ buffer_line' = <<>> /\ toPrinter = <<>>
      /\ toPrinter' = Append(toPrinter, M("M28"))
      /\ UNCHANGED <<open, partial, hits>>
  BY DEF StartUpload, PromptPrinter, printerVars
<1>2. toPrinter' = <<M("M28")>>
  BY <1>1
<1>3. AllBusy'
  <2>1. PICK n \in 0..Len(replies) : n = Len(replies) /\ replies' = Rest(n)
    BY DEF StartUpload, PromptPrinter
  <2>2. replies' = <<>>
    BY <2>1 DEF Rest, LineType
  <2> QED BY <2>2 DEF AllBusy
<1> QED BY <1>1, <1>2, <1>3 DEF Opening, Running, M29Arrives

(* A successful upload keeps its file while the printer closes it.         *)
LEMMA EndedStep ==
  ASSUME PromptPrinter, TypeOK, LockInv, ExecInv, Ended, Moves
  PROVE  Ended' \/ Opening'
<1> USE DEF TypeOK
<1>0. /\ pc \in {"idle", "report"} /\ bare /\ ~com_error
      /\ OpenThen(Len(toPrinter) + 1)
      /\ pc = "report" => reported = "none" /\ upload_status # "CANCELLED"
      /\ pc = "report" \/ reported = "Ok" => Stored(Lines)
  BY DEF Ended
<1>c. /\ Lines \in 1..Lines /\ Part(Lines) \in Item
      /\ Part(Lines).cmd = "part"
      /\ Part(Lines).line = Lines
      /\ M("M29") \in Item /\ M("M29").cmd = "M29"
      /\ hits["M29"] \in Nat
  <2>1. Lines \in 1..Lines
    BY SdUploadAssumption
  <2>2. "M29" \in Commands
    BY DEF Commands
  <2> QED BY <2>1, <2>2, PieceFacts DEF PrinterType
<1>1. StartUpload \/ Report \/ Printer
  BY <1>0 DEF Moves, Callback, OpenAnswer, OpenTimeOut, Collect, InWrite,
     PrintLine, LinePassed, LineFailed, EndOfBlock, SkipBlock, Abort,
     EndEmpty, EndTail, TailPassed, TailFailed, IgnoreAnswer, SplitAnswer
<1>2. CASE StartUpload
  <2>1. toPrinter = <<>>
    BY <1>2 DEF StartUpload, PromptPrinter
  <2>2. partial = <<>> /\ (M29Arrives => ~open)
    BY <1>0, <1>c, <2>1 DEF Ended, OpenThen, M29Arrives
  <2> QED BY <1>2, <2>2, StartStep
<1>3. CASE Report
  <2>1. /\ pc = "report" /\ pc' = "idle"
        /\ UNCHANGED <<bare, com_error, toPrinter, open, partial, file, hits>>
    BY <1>3 DEF Report, printerVars
  <2>2. Stored(Lines)' /\ OpenThen(Len(toPrinter) + 1)'
    BY <1>0, <2>1 DEF Stored, M29Arrives, OpenThen, IsM29
  <2> QED BY <1>0, <2>1, <2>2 DEF Ended
<1>4. CASE Printer
  <2>1. UNCHANGED <<pc, com_error, bare, reported, upload_status>>
    BY <1>4, Frames
  <2> DEFINE Left ==
        \/ toPrinter = <<Part(Lines), M("M29"), M("M29")>> /\ partial = <<>>
        \/ toPrinter = <<M("M29"), M("M29")>> /\ partial \in {<<>>, <<Lines>>}
        \/ toPrinter \in {<<M("M29")>>, <<>>} /\ partial = <<>>
  <2>2. Left
    BY DEF Ended
  <2>3. SUFFICES /\ Stored(Lines) => Stored(Lines)'
                 /\ Left' /\ OpenThen(Len(toPrinter) + 1)'
    BY <1>0, <2>1 DEF Ended
  <2> HIDE DEF Left
  <2>4. CASE Busy \/ toPrinter = <<>>
    <3>1. /\ UNCHANGED <<toPrinter, partial, file, open>>
          /\ M29Arrives' => M29Arrives
          /\ hits'["M29"] = hits["M29"]
      <4>1. CASE Busy
        <5>1. "G" \in Commands /\ "M29" \in Commands /\ "M29" # "G"
          BY DEF Commands
        <5>2. /\ UNCHANGED <<toPrinter, partial, file, open>>
              /\ hits' = [hits EXCEPT !["G"] = @ + 1]
          BY <4>1 DEF Busy
        <5> QED BY <5>1, <5>2, HitCounted
      <4>2. CASE toPrinter = <<>>
        BY <1>4, <4>2, PrinterWaits
      <4> QED BY <2>4, <4>1, <4>2
    <3> QED BY <1>0, <2>2, <3>1 DEF Left, Stored, OpenThen, IsM29
  <2>5. CASE /\ toPrinter = <<Part(Lines), M("M29"), M("M29")>>
             /\ partial = <<>>
             /\ ~Busy
    <3>1. /\ toPrinter # <<>> /\ Arrived = Part(Lines)
          /\ Tail(toPrinter) = <<M("M29"), M("M29")>>
      <4>1. Tail(toPrinter) = <<M("M29"), M("M29")>>
        BY <1>c, <2>5, ShortTails
      <4> QED BY <2>5, <4>1 DEF Arrived
    <3>2. Fragment
      BY <1>4, <1>c, <2>5, <3>1 DEF Printer, TakeLine, OpenFile, RefuseFile,
         CloseFile, DeleteFile, StoreCommand, Fault, Obey, Whole, Idle
    <3>3. /\ toPrinter' = <<M("M29"), M("M29")>> /\ partial' = <<Lines>>
          /\ UNCHANGED <<open, file, hits>>
      <4>1. /\ toPrinter' = Tail(toPrinter) /\ partial' = Append(<<>>, Lines)
            /\ UNCHANGED <<open, file, hits>>
        BY <1>c, <2>5, <3>1, <3>2 DEF Fragment, Consume, Text, LineText
      <4> QED BY <1>c, <3>1, <4>1
    <3>4. Left'
      BY <3>3 DEF Left
    <3>5. OpenThen(Len(toPrinter) + 1)'
      BY <1>c, <3>3 DEF OpenThen, IsM29
    <3> QED BY <3>3, <3>4, <3>5 DEF Stored, M29Arrives
  <2>6. CASE /\ toPrinter \in {<<M("M29"), M("M29")>>, <<M("M29")>>} /\ ~Busy
             /\ partial = <<>>
    <3>1. /\ toPrinter # <<>> /\ Arrived = M("M29")
          /\ Tail(toPrinter)
               = IF Len(toPrinter) = 2 THEN <<M("M29")>> ELSE <<>>
          /\ Len(toPrinter) \in {1, 2} /\ ~Text /\ ~EndsLine
      <4>1. Arrived = M("M29")
        BY <2>6 DEF Arrived
      <4>2. ~Text /\ ~EndsLine
        BY <1>c, <2>6, <4>1 DEF Text, EndsLine
      <4>3. CASE toPrinter = <<M("M29"), M("M29")>>
        <5>1. Tail(toPrinter) = <<M("M29")>>
          BY <1>c, <4>3, ShortTails
        <5> QED BY <4>1, <4>2, <4>3, <5>1
      <4>4. CASE toPrinter = <<M("M29")>>
        <5>1. Tail(toPrinter) = <<>>
          BY <1>c, <4>4, ShortTails
        <5> QED BY <4>1, <4>2, <4>4, <5>1
      <4> QED BY <2>6, <4>3, <4>4
    <3>2. CloseFile \/ Fault
      BY <1>4, <1>c, <2>6, <3>1 DEF Printer, Fragment, TakeLine, OpenFile,
         RefuseFile, DeleteFile, StoreCommand, Obey, Whole, Idle
    <3>3. /\ toPrinter' = Tail(toPrinter) /\ partial' = <<>> /\ UNCHANGED file
          /\ \/ ~open' /\ UNCHANGED hits
             \/ UNCHANGED open /\ hits' = [hits EXCEPT !["M29"] = @ + 1]
      <4>1. CASE CloseFile
        BY <2>6, <3>1, <4>1 DEF CloseFile, Obey, Consume
      <4>2. CASE Fault
        BY <1>c, <2>6, <3>1, <4>2 DEF Fault, Consume
      <4> QED BY <3>2, <4>1, <4>2
    <3>4. Left'
      BY <3>1, <3>3 DEF Left
    <3>5. M29Arrives' => M29Arrives
      <4>1. "M29" \in Commands
        BY DEF Commands
      <4> QED BY <3>3, <4>1, HitCounted DEF M29Arrives
    <3>6. OpenThen(Len(toPrinter) + 1)'
      <4>1. CASE ~open'
        BY <4>1 DEF OpenThen
      <4>2. CASE open'
        <5>1. open /\ hits'["M29"] = hits["M29"] + 1
          <6>1. "M29" \in Commands
            BY DEF Commands
          <6> QED BY <3>3, <4>2, <6>1, HitCounted
        <5>2. CASE Len(toPrinter) = 2
          <6>2. toPrinter' = <<M("M29")>>
            BY <3>1, <3>3, <5>2
          <6>1. Len(toPrinter') = 1 /\ IsM29(1)'
            BY <1>c, <6>2 DEF IsM29
          <6> QED BY <1>c, <5>1, <6>1 DEF OpenThen, IsM29
        <5>3. CASE Len(toPrinter) = 1
          <6>1. hits["M29"] >= 1
            BY <1>0, <1>c, <5>1, <5>3 DEF OpenThen
          <6> QED BY <1>c, <5>1, <6>1 DEF OpenThen
        <5> QED BY <3>1, <5>2, <5>3
      <4> QED BY <4>1, <4>2
    <3> QED BY <3>3, <3>4, <3>5, <3>6 DEF Stored
  <2>7. CASE /\ toPrinter = <<M("M29"), M("M29")>> /\ partial = <<Lines>>
             /\ ~Busy
    <3>1. /\ toPrinter # <<>> /\ Arrived = M("M29") /\ ~Text /\ EndsLine
          /\ partial # <<>> /\ LineText = <<Lines>> /\ open
      <4>1. Arrived = M("M29")
        BY <2>7 DEF Arrived
      <4>2. ~Text /\ partial # <<>>
        BY <1>c, <2>7, <4>1 DEF Text
      <4> QED BY <2>7, <4>1, <4>2 DEF EndsLine, LineText, ExecInv, TextOpen
    <3>2. TakeLine \/ Fault
      BY <1>4, <1>c, <2>7, <3>1 DEF Printer, Fragment, OpenFile,
         RefuseFile, CloseFile, DeleteFile, StoreCommand, Obey, Whole, Idle
    <3>3. CASE TakeLine
      <4>1. /\ UNCHANGED <<toPrinter, open, hits>> /\ partial' = <<>>
            /\ file' = Append(file, <<Lines>>)
        BY <3>1, <3>3 DEF TakeLine, Consume
      <4>2. file \in Seq(Seq(0..Lines))
        BY DEF PrinterType
      <4>3. Stored(Lines) => Stored(Lines)'
        BY <1>c, <4>1, <4>2, StoredNext DEF Stored, M29Arrives
      <4>4. Left'
        BY <2>7, <4>1 DEF Left
      <4>5. OpenThen(Len(toPrinter) + 1)'
        BY <1>0, <4>1 DEF OpenThen, IsM29
      <4> QED BY <4>3, <4>4, <4>5
    <3>4. CASE Fault
      <4>1. /\ UNCHANGED <<toPrinter, open, file>> /\ partial' = <<>>
            /\ hits' = [hits EXCEPT !["G"] = @ + 1]
        BY <3>1, <3>4 DEF Fault, Consume
      <4>2. (M29Arrives' => M29Arrives) /\ hits'["M29"] = hits["M29"]
        <5>1. "G" \in Commands /\ "M29" \in Commands /\ "M29" # "G"
          BY DEF Commands
        <5> QED BY <4>1, <5>1, HitCounted
      <4>3. Left'
        BY <2>7, <4>1 DEF Left
      <4>4. OpenThen(Len(toPrinter) + 1)'
        BY <1>0, <4>1, <4>2 DEF OpenThen, IsM29
      <4> QED BY <4>1, <4>2, <4>3, <4>4 DEF Stored
    <3> QED BY <3>2, <3>3, <3>4
  <2> QED BY <2>2, <2>4, <2>5, <2>6, <2>7 DEF Left
<1> QED BY <1>1, <1>2, <1>3, <1>4

(* What follows the first M30 are further attempts to close and delete.    *)
LEMMA DeletedKept ==
  ASSUME PromptPrinter, TypeOK, Deleted, Printer
  PROVE  Deleted'
<1> USE DEF TypeOK
<1>1. CASE Busy \/ toPrinter = <<>>
  <2>1. /\ UNCHANGED <<toPrinter, partial, file, open>>
        /\ M29Arrives' => M29Arrives
        /\ hits'["M30"] = hits["M30"]
    <3>1. CASE Busy
      <4>1. "G" \in Commands /\ "M30" \in Commands /\ "M30" # "G"
        BY DEF Commands
      <4>2. /\ UNCHANGED <<toPrinter, partial, file, open>>
            /\ hits' = [hits EXCEPT !["G"] = @ + 1]
        BY <3>1 DEF Busy
      <4> QED BY <4>1, <4>2, HitCounted
    <3>2. CASE toPrinter = <<>>
      BY <3>2, PrinterWaits
    <3> QED BY <1>1, <3>1, <3>2
  <2> QED BY <2>1 DEF Deleted, Sent
<1>2. CASE toPrinter # <<>> /\ ~Busy
  <2>1. /\ Arrived.cmd \in {"M29", "M30_M30"} /\ ~Text /\ ~EndsLine
        /\ partial = <<>>
    <3>1. Arrived.cmd \in {"M29", "M30_M30"}
      BY <1>2 DEF Deleted, Arrived, Sent, LineType
    <3> QED BY <3>1 DEF Text, EndsLine, Deleted
  <2>2. CloseFile \/ DeleteFile \/ StoreCommand \/ Fault
    BY <1>2, <2>1 DEF Printer, Fragment, TakeLine, OpenFile, RefuseFile,
       Obey, Idle
  <2>3. toPrinter' = Tail(toPrinter) /\ partial' = <<>>
    BY <2>1, <2>2 DEF CloseFile, DeleteFile, StoreCommand, Fault, Obey,
       Consume
  <2>4. \A i \in Sent' : toPrinter'[i].cmd \in {"M29", "M30_M30"}
    BY <1>2, <2>3 DEF Deleted, Sent, LineType
  <2>5. /\ M29Arrives' => M29Arrives
        /\ hits'["M30"] = 0 => hits["M30"] = 0
        /\ ~open => ~open' /\ UNCHANGED file
    <3>1. CASE CloseFile \/ DeleteFile \/ StoreCommand
      <4>1. CASE CloseFile
        BY <4>1 DEF CloseFile, M29Arrives
      <4>2. CASE DeleteFile
        BY <2>1, <4>2 DEF DeleteFile, Obey, M29Arrives
      <4>3. CASE StoreCommand
        BY <4>3 DEF StoreCommand, M29Arrives
      <4> QED BY <3>1, <4>1, <4>2, <4>3
    <3>2. CASE Fault
      <4>1. /\ UNCHANGED <<open, file>>
            /\ hits' = [hits EXCEPT ![Arrived.cmd] = @ + 1]
        BY <2>1, <3>2 DEF Fault
      <4>2. PICK c \in Commands : c = Arrived.cmd
        BY <2>1 DEF Commands
      <4>3. hits' = [hits EXCEPT ![c] = @ + 1]
        BY <4>1, <4>2
      <4>4. /\ M29Arrives' => M29Arrives
            /\ hits["M30"] \in Nat /\ hits'["M30"] \in Nat
            /\ hits'["M30"] >= hits["M30"]
        BY <4>3, HitCounted
      <4> QED BY <4>1, <4>4
    <3> QED BY <2>2, <3>1, <3>2
  <2> QED BY <2>3, <2>4, <2>5 DEF Deleted
<1> QED BY <1>1, <1>2

(* Until the first M30 is read, the M29 before it close the file for it.   *)
LEMMA DeletingKept ==
  ASSUME PromptPrinter, TypeOK, Printer, NEW m \in Sent, Deleting(m)
  PROVE  Deleted' \/ \E l \in Sent' : Deleting(l)'
<1> USE DEF TypeOK
<1>0. /\ toPrinter # <<>> /\ m \in 1..Len(toPrinter) /\ Len(toPrinter) \in Nat
      /\ toPrinter[m].cmd = "M30" /\ OpenThen(m)
      /\ \A i \in 1..m - 1 : toPrinter[i].cmd \in {"G", "part", "M29"}
      /\ \A i \in m + 1..Len(toPrinter) :
           toPrinter[i].cmd \in {"M29", "M30_M30"}
      /\ Arrived = toPrinter[1] /\ Arrived \in Item
      /\ hits["M29"] \in Nat
  <2>1. toPrinter # <<>> /\ Len(toPrinter) \in Nat
    BY DEF Sent, LineType
  <2>2. Arrived = toPrinter[1] /\ Arrived \in Item
    BY <2>1 DEF Arrived, LineType
  <2>3. hits["M29"] \in Nat
    BY DEF PrinterType, Commands
  <2> QED BY <2>1, <2>2, <2>3 DEF Deleting, Sent
<1>1. CASE UNCHANGED toPrinter
  <2>1. UNCHANGED open /\ hits'["M29"] = hits["M29"]
    <3>1. TakeLine \/ Fault \/ Busy
      <4>1. toPrinter # Tail(toPrinter)
        BY <1>0 DEF LineType
      <4> QED BY <1>0, <1>1, <4>1
          DEF Printer, Fragment, OpenFile, RefuseFile, CloseFile, DeleteFile,
              StoreCommand, Obey, Consume, Text, EndsLine, Idle
    <3>2. CASE TakeLine
      BY <3>2 DEF TakeLine
    <3>3. CASE Fault \/ Busy
      <4>1. UNCHANGED open /\ hits' = [hits EXCEPT !["G"] = @ + 1]
        <5>1. CASE Fault
          <6>1. EndsLine
            <7>1. toPrinter # Tail(toPrinter)
              BY <1>0 DEF LineType
            <7> QED BY <1>1, <5>1, <7>1 DEF Fault, Consume, EndsLine
          <6> QED BY <5>1, <6>1 DEF Fault
        <5>2. CASE Busy
          BY <5>2 DEF Busy
        <5> QED BY <3>3, <5>1, <5>2
      <4>2. "G" \in Commands /\ "M29" \in Commands /\ "M29" # "G"
        BY DEF Commands
      <4> QED BY <4>1, <4>2, HitCounted
    <3> QED BY <3>1, <3>2, <3>3
  <2>2. Deleting(m)'
    BY <1>0, <1>1, <2>1 DEF Deleting, OpenThen, IsM29
  <2> QED BY <1>1, <2>2 DEF Sent
<1>2. CASE toPrinter' # toPrinter
  <2>1. /\ toPrinter' = Tail(toPrinter)
        /\ Len(toPrinter') = Len(toPrinter) - 1
        /\ \A i \in 1..Len(toPrinter') : toPrinter'[i] = toPrinter[i + 1]
    <3>1. toPrinter' = Tail(toPrinter)
      BY <1>2 DEF Printer, Fragment, TakeLine, OpenFile, RefuseFile,
         CloseFile, DeleteFile, StoreCommand, Fault, Busy, Idle, Obey, Consume
    <3> QED BY <1>0, <3>1 DEF LineType
  <2>2. CASE m = 1
    <3>1. /\ Arrived.cmd = "M30" /\ ~Text /\ (open => hits["M29"] >= 2)
          /\ partial = <<>>
      <4>1. Arrived.cmd = "M30" /\ ~Text
        BY <1>0, <2>2 DEF Text
      <4>2. open => hits["M29"] >= 2
        BY <1>0, <2>2 DEF OpenThen
      <4>3. partial = <<>>
        BY <1>2, <4>1 DEF Printer, Fragment, TakeLine, OpenFile, RefuseFile,
           CloseFile, DeleteFile, StoreCommand, Fault, Busy, Idle, Obey,
           Consume, EndsLine
      <4> QED BY <4>1, <4>2, <4>3
    <3>2. DeleteFile \/ StoreCommand \/ Fault
      BY <1>0, <1>2, <3>1 DEF Printer, Fragment, TakeLine, OpenFile,
         RefuseFile,
         CloseFile, Busy, Idle, Obey, EndsLine
    <3>3. \A i \in Sent' : toPrinter'[i].cmd \in {"M29", "M30_M30"}
      <4>1. \A i \in Sent' : i + 1 \in m + 1..Len(toPrinter)
        BY <1>0, <2>1, <2>2 DEF Sent
      <4> QED BY <1>0, <2>1, <4>1 DEF Sent
    <3>4. /\ partial' = <<>>
          /\ M29Arrives' => ~open' /\ (hits'["M30"] = 0 => file' = NoFile)
      <4>1. CASE DeleteFile
        BY <3>1, <4>1 DEF DeleteFile, Obey
      <4>2. CASE StoreCommand
        BY <1>0, <3>1, <4>2 DEF StoreCommand, M29Arrives
      <4>3. CASE Fault
        <5>1. /\ partial' = <<>> /\ UNCHANGED <<open, file>>
              /\ hits' = [hits EXCEPT !["M30"] = @ + 1]
          BY <3>1, <4>3 DEF Fault, EndsLine
        <5>2. "M30" \in Commands
          BY DEF Commands
        <5>3. /\ M29Arrives' => M29Arrives
              /\ hits'["M30"] = hits["M30"] + 1 /\ hits["M30"] \in Nat
          BY <5>1, <5>2, HitCounted
        <5> QED BY <1>0, <3>1, <5>1, <5>3 DEF M29Arrives
      <4> QED BY <3>2, <4>1, <4>2, <4>3
    <3> QED BY <3>3, <3>4 DEF Deleted
  <2>3. CASE m # 1
    <3>1. PICK l \in Nat : l = m - 1 /\ l >= 1 /\ l \in Sent'
      BY <1>0, <2>1, <2>3 DEF Sent
    <3>2. /\ toPrinter'[l].cmd = "M30"
          /\ \A i \in 1..l - 1 : toPrinter'[i].cmd \in {"G", "part", "M29"}
          /\ \A i \in l + 1..Len(toPrinter') :
               toPrinter'[i].cmd \in {"M29", "M30_M30"}
      <4>1. \A i \in 1..l - 1 : i + 1 \in 1..m - 1 /\ i \in 1..Len(toPrinter')
        BY <1>0, <2>1, <3>1
      <4>2. \A i \in l + 1..Len(toPrinter') :
              i + 1 \in m + 1..Len(toPrinter) /\ i \in 1..Len(toPrinter')
        BY <1>0, <2>1, <3>1
      <4>3. toPrinter'[l] = toPrinter[m]
        BY <2>1, <3>1, <1>0
      <4> QED BY <1>0, <2>1, <4>1, <4>2, <4>3
    <3>3. /\ Arrived.cmd \in {"G", "part", "M29"}
          /\ Text <=> Arrived.cmd # "M29"
          /\ IsM29(1) <=> Arrived.cmd = "M29"
      BY <1>0, <2>3 DEF Text, IsM29
    <3>4. \/ ~open'
          \/ /\ UNCHANGED open /\ Text
             /\ hits'["M29"] = hits["M29"]
          \/ /\ UNCHANGED open /\ hits'["M29"] = hits["M29"] + 1
      <4>1. Fragment \/ TakeLine \/ CloseFile \/ Fault
        BY <1>0, <1>2, <3>3 DEF Printer, OpenFile, RefuseFile, DeleteFile,
           StoreCommand, Busy, Idle, Obey
      <4>2. CASE Fragment \/ TakeLine
        <5>1. Text
          BY <1>2, <3>3, <4>2 DEF Fragment, TakeLine, Consume, EndsLine
        <5> QED BY <4>2, <5>1 DEF Fragment, TakeLine
      <4>3. CASE CloseFile
        BY <4>3 DEF CloseFile
      <4>4. CASE Fault
        <5>0. "G" \in Commands /\ "M29" \in Commands /\ "M29" # "G"
          BY DEF Commands
        <5>1. CASE Text
          <6>1. UNCHANGED open /\ hits' = [hits EXCEPT !["G"] = @ + 1]
            BY <4>4, <5>1 DEF Fault, EndsLine
          <6> QED BY <5>0, <5>1, <6>1, HitCounted
        <5>2. CASE ~Text
          <6>1. ~EndsLine
            BY <1>2, <4>4, <5>2 DEF Fault, Consume, EndsLine
          <6>2. UNCHANGED open /\ hits' = [hits EXCEPT !["M29"] = @ + 1]
            BY <3>3, <4>4, <5>2, <6>1 DEF Fault
          <6> QED BY <5>0, <6>2, HitCounted
        <5> QED BY <5>1, <5>2
      <4> QED BY <4>1, <4>2, <4>3, <4>4
    <3>5. OpenThen(l)'
      <4> SUFFICES ASSUME open' PROVE OpenThen(l)'
        BY DEF OpenThen
      <4>1. /\ open
            /\ \/ hits["M29"] >= 2
               \/ hits["M29"] >= 1 /\ m >= 2 /\ IsM29(m - 1)
               \/ m >= 3 /\ IsM29(m - 1) /\ IsM29(m - 2)
        BY <1>0, <3>4 DEF OpenThen
      <4>2. \A j \in 2..m : IsM29(j - 1)' <=> IsM29(j)
        BY <1>0, <2>1 DEF IsM29
      <4>3. CASE Text /\ hits'["M29"] = hits["M29"]
        <5>1. ~IsM29(1)
          BY <3>3, <4>3
        <5>2. \/ hits["M29"] >= 2
              \/ hits["M29"] >= 1 /\ l >= 2 /\ IsM29(l)
              \/ l >= 3 /\ IsM29(l) /\ IsM29(l - 1)
          <6>1. CASE m = 2
            BY <4>1, <5>1, <6>1
          <6>2. CASE m = 3
            <7>1. m - 2 = 1 /\ m - 1 = l /\ l = 2
              BY <3>1, <6>2
            <7> QED BY <4>1, <5>1, <7>1
          <6>3. CASE m > 3
            <7>1. m - 2 = l - 1 /\ m - 1 = l /\ l >= 3
              BY <1>0, <3>1, <6>3
            <7> QED BY <4>1, <7>1
          <6> QED BY <1>0, <2>3, <6>1, <6>2, <6>3
        <5>3. /\ l >= 2 => (IsM29(l - 1)' <=> IsM29(l))
              /\ l >= 3 => (IsM29(l - 2)' <=> IsM29(l - 1))
          <6>1. l >= 2 => l \in 2..m
            BY <1>0, <3>1
          <6>2. l >= 3 => l - 1 \in 2..m /\ l - 1 - 1 = l - 2
            BY <1>0, <3>1
          <6> QED BY <4>2, <6>1, <6>2
        <5> QED BY <4>3, <5>2, <5>3 DEF OpenThen
      <4>4. CASE hits'["M29"] = hits["M29"] + 1
        <5>1. \/ hits'["M29"] >= 2
              \/ hits'["M29"] >= 1 /\ l >= 2 /\ IsM29(l - 1)'
          <6>1. CASE hits["M29"] >= 1
            BY <1>0, <4>4, <6>1
          <6>2. CASE ~ hits["M29"] >= 1
            <7>1. m >= 3 /\ IsM29(m - 1)
              BY <1>0, <4>1, <6>2
            <7>2. l >= 2 /\ m - 1 = l /\ l \in 2..m
              BY <1>0, <3>1, <7>1
            <7>3. IsM29(l - 1)'
              BY <4>2, <7>1, <7>2
            <7> QED BY <1>0, <4>4, <7>2, <7>3
          <6> QED BY <6>1, <6>2
        <5> QED BY <5>1 DEF OpenThen
      <4> QED BY <3>4, <4>3, <4>4
    <3>6. Deleting(l)'
      BY <3>2, <3>5 DEF Deleting
    <3> QED BY <3>1, <3>6
  <2> QED BY <2>2, <2>3
<1> QED BY <1>1, <1>2

(* A failed upload is closed and deleted, and closed and deleted again     *)
(* with every block that follows.                                          *)
LEMMA FailedStep ==
  ASSUME PromptPrinter, TypeOK, LockInv, ExecInv, Failed, Moves
  PROVE  Failed' \/ Opening'
<1> USE DEF TypeOK
<1>0. /\ pc \in {"between", "idle", "report"} /\ ~bare /\ com_error
      /\ buffer_line = <<>> /\ reported # "Ok"
      /\ pc = "between" => reported = "none"
      /\ pc = "report" => reported = "none" /\ upload_status = "CANCELLED"
      /\ Deleted \/ \E m \in Sent : Deleting(m)
  BY DEF Failed
<1>1. StartUpload \/ SkipBlock \/ Abort \/ EndEmpty \/ Report \/ Printer
  BY <1>0 DEF Moves, Callback, OpenAnswer, OpenTimeOut, Collect, InWrite,
     PrintLine, LinePassed, LineFailed, EndOfBlock, EndTail, TailPassed,
     TailFailed, IgnoreAnswer, SplitAnswer
<1>2. CASE StartUpload
  <2>1. toPrinter = <<>>
    BY <1>2 DEF StartUpload, PromptPrinter
  <2>2. Deleted
    BY <1>0, <2>1 DEF Sent
  <2> QED BY <1>2, <2>2, StartStep DEF Deleted
<1>3. CASE SkipBlock \/ Abort \/ EndEmpty
  <2>1. com_error = TRUE
    BY <1>0 DEF FlagType
  <2>2. /\ Settle(toPrinter, TRUE) /\ buffer_line' = <<>> /\ com_error'
        /\ pc' \in {"between", "idle", "report"} /\ UNCHANGED reported
        /\ pc' = "idle" \/ reported = "none"
    <3>1. CASE SkipBlock
      BY <1>0, <2>1, <3>1, Zenon DEF SkipBlock, Close
    <3>2. CASE Abort
      BY <2>1, <3>2, Zenon DEF Abort, Close
    <3>3. CASE EndEmpty
      BY <1>0, <2>1, <3>3, Zenon DEF EndEmpty, Close
    <3> QED BY <1>3, <3>1, <3>2, <3>3
  <2>3. UNCHANGED <<open, partial, file, hits>>
    BY <1>3 DEF SkipBlock, Abort, EndEmpty, printerVars
  <2>4. ~bare' /\ upload_status' = "CANCELLED"
        /\ toPrinter' = toPrinter \o Cancel
    BY <1>0, <2>2 DEF Settle
  <2>5. /\ Cancel \in Seq(Item) /\ Len(Cancel) = 3
        /\ \A i \in 1..3 : Cancel[i].cmd \in {"M29", "M30_M30"}
    <3>1. 1..3 = {1, 2, 3}
      OBVIOUS
    <3> QED BY <1>0, <3>1, CancelItems
  <2>6. /\ toPrinter' \in Seq(Item) /\ Len(toPrinter) \in Nat
        /\ Len(toPrinter') = Len(toPrinter) + 3
        /\ \A i \in 1..Len(toPrinter) : toPrinter'[i] = toPrinter[i]
        /\ \A i \in Len(toPrinter) + 1..Len(toPrinter') :
             toPrinter'[i].cmd \in {"M29", "M30_M30"}
    <3> DEFINE s == Cancel
               q == toPrinter'
    <3>1. /\ s \in Seq(Item) /\ Len(s) = 3
          /\ \A i \in 1..3 : s[i].cmd \in {"M29", "M30_M30"}
          /\ q = toPrinter \o s /\ toPrinter \in Seq(Item)
      BY <2>4, <2>5 DEF LineType
    <3> HIDE DEF s, q
    <3>2. /\ q \in Seq(Item) /\ Len(q) = Len(toPrinter) + Len(s)
          /\ \A i \in 1..Len(toPrinter) + Len(s) :
               q[i] = IF i <= Len(toPrinter) THEN toPrinter[i]
                                             ELSE s[i - Len(toPrinter)]
      BY <3>1, ConcatProperties
    <3>3. Len(toPrinter) \in Nat /\ Len(q) = Len(toPrinter) + 3
      BY <3>1, <3>2
    <3>4. \A i \in Len(toPrinter) + 1..Len(q) : i - Len(toPrinter) \in 1..3
      BY <3>3
    <3>5. \A i \in Len(toPrinter) + 1..Len(q) :
            q[i].cmd \in {"M29", "M30_M30"}
      BY <3>1, <3>2, <3>3, <3>4
    <3>6. \A i \in 1..Len(toPrinter) : q[i] = toPrinter[i]
      BY <3>1, <3>2, <3>3
    <3> QED BY <3>2, <3>3, <3>5, <3>6 DEF q
  <2>7. Deleted' \/ \E m \in Sent' : Deleting(m)'
    <3>1. CASE Deleted
      <4>1. \A i \in Sent' : toPrinter'[i].cmd \in {"M29", "M30_M30"}
        BY <2>6, <3>1 DEF Deleted, Sent
      <4> QED BY <2>3, <3>1, <4>1 DEF Deleted, M29Arrives
    <3>2. ASSUME NEW m \in Sent, Deleting(m)
          PROVE  m \in Sent' /\ Deleting(m)'
      <4>1. m \in 1..Len(toPrinter) /\ m \in 1..Len(toPrinter')
        BY <2>6, <3>2 DEF Sent
      <4>2. /\ toPrinter'[m].cmd = "M30"
            /\ \A i \in 1..m - 1 : toPrinter'[i].cmd \in {"G", "part", "M29"}
        BY <2>6, <3>2, <4>1 DEF Deleting
      <4>3. \A i \in m + 1..Len(toPrinter') :
              toPrinter'[i].cmd \in {"M29", "M30_M30"}
        BY <2>6, <3>2, <4>1 DEF Deleting
      <4>4. OpenThen(m)'
        <5>1. /\ m >= 2 => toPrinter'[m - 1] = toPrinter[m - 1]
              /\ m >= 3 => toPrinter'[m - 2] = toPrinter[m - 2]
          <6>1. m >= 2 => m - 1 \in 1..Len(toPrinter)
            BY <2>6, <4>1
          <6>2. m >= 3 => m - 2 \in 1..Len(toPrinter)
            BY <2>6, <4>1
          <6> QED BY <2>6, <6>1, <6>2
        <5>2. OpenThen(m)
          BY <3>2 DEF Deleting
        <5>3. open' = open /\ hits' = hits /\ m \in Nat
          BY <2>3, <4>1
        <5> QED BY <5>1, <5>2, <5>3 DEF OpenThen, IsM29
      <4> QED BY <4>1, <4>2, <4>3, <4>4 DEF Deleting, Sent
    <3> QED BY <1>0, <3>1, <3>2
  <2> QED BY <1>0, <2>2, <2>4, <2>7 DEF Failed
<1>4. CASE Report
  <2>1. /\ pc = "report" /\ pc' = "idle" /\ reported' = "Failed"
        /\ UNCHANGED <<bare, com_error, buffer_line, toPrinter, open, partial,
                       file, hits>>
    <3>1. /\ pc = "report" /\ pc' = "idle"
          /\ reported'
               = IF upload_status = "CANCELLED" THEN "Failed" ELSE "Ok"
      BY <1>4, Zenon DEF Report
    <3>2. UNCHANGED <<bare, com_error, buffer_line, toPrinter, open, partial,
                      file, hits>>
      BY <1>4 DEF Report, printerVars
    <3> QED BY <1>0, <3>1, <3>2
  <2>2. Deleted' \/ \E m \in Sent' : Deleting(m)'
    BY <1>0, <2>1 DEF Deleted, Deleting, OpenThen, IsM29, Sent, M29Arrives
  <2> QED BY <1>0, <2>1, <2>2 DEF Failed
<1>5. CASE Printer
  <2>1. UNCHANGED <<pc, com_error, bare, reported, upload_status,
                    buffer_line>>
    BY <1>5, Frames
  <2>2. Deleted' \/ \E m \in Sent' : Deleting(m)'
    BY <1>0, <1>5, DeletedKept, DeletingKept
  <2> QED BY <1>0, <2>1, <2>2 DEF Failed
<1> QED BY <1>1, <1>2, <1>3, <1>4, <1>5

(* At power on no upload is running, as after one that has ended.          *)
LEMMA PhaseInit == Init => Phase
<1> SUFFICES ASSUME Init PROVE Ended
  BY DEF Phase
<1> QED BY DEF Init, Ended, OpenThen

(* Every step leads from one phase to the same or to a next one.           *)
LEMMA PhaseKept == ASSUME PromptPrinter PROVE Spec => []Phase
<1>1. TypeOK /\ LockInv /\ ExecInv /\ ExecInv' /\ Phase /\ [Moves]_uploadVars
        => Phase'
  <2> SUFFICES ASSUME TypeOK, LockInv, ExecInv, ExecInv', Phase, [Moves]_uploadVars
               PROVE  Phase'
    OBVIOUS
  <2>1. CASE UNCHANGED uploadVars
    <3> USE <2>1 DEF uploadVars
    <3>1. /\ Sent' = Sent
          /\ (AllBusy' <=> AllBusy) /\ (OneAnswer' <=> OneAnswer)
          /\ (OkComes' <=> OkComes) /\ (M29Arrives' <=> M29Arrives)
          /\ (AllText' <=> AllText) /\ (OpeningFailed' <=> OpeningFailed)
      BY DEF Sent, AllBusy, OneAnswer, OkComes, M29Arrives, AllText, IsText,
             OpeningFailed
    <3>2. /\ Opening => Opening'
          /\ Writing => Writing'
          /\ Awaiting => Awaiting'
      BY <3>1 DEF Opening, Writing, Awaiting, Running, LastKept, Stored
    <3>3. LastLine => LastLine'
      BY <3>1 DEF LastLine, Running, LastKept, Stored
    <3>4. Stopped => Stopped'
      BY <3>1 DEF Stopped, Running
    <3>5. Ended => Ended'
      BY <3>1 DEF Ended, OpenThen, IsM29, Stored
    <3>6. Failed => Failed'
      <4>1. Deleted => Deleted'
        BY <3>1 DEF Deleted
      <4>2. \A m \in Sent : Deleting(m) => Deleting(m)'
        BY <3>1 DEF Deleting, OpenThen, IsM29
      <4> QED BY <3>1, <4>1, <4>2 DEF Failed
    <3> QED BY <3>2, <3>3, <3>4, <3>5, <3>6 DEF Phase
  <2>2. CASE Moves
    BY <2>2, OpeningStep, WritingStep, AwaitingStep, LastLineStep,
       StoppedStep,
       EndedStep, FailedStep DEF Phase
  <2> QED BY <2>1, <2>2
<1> QED BY <1>1, PhaseInit, TypeCorrect, LockKept, ExecKept, Quiet, PTL DEF Spec

(* "Ok" is the truth: once the printer has read everything, its file is    *)
(* closed and holds every line in order, if one of the two M29 arrived.    *)
THEOREM OkMeansEveryLineAlways ==
  ASSUME PromptPrinter PROVE Spec => []OkMeansEveryLine
<1>1. TypeOK /\ Phase => OkMeansEveryLine
  <2> SUFFICES ASSUME TypeOK, Phase, Finished("Ok"), hits["M29"] < 2
               PROVE  ~open /\ Complete
    BY DEF OkMeansEveryLine
  <2>1. reported = "Ok" /\ pc = "idle" /\ toPrinter = <<>> /\ M29Arrives
    BY DEF Finished, M29Arrives
  <2>2. Ended
    BY <2>1 DEF Phase, Opening, Writing, Awaiting, LastLine, Stopped, Failed
  <2>3. ~open
    <3>1. OpenThen(Len(toPrinter) + 1)
      BY <2>2 DEF Ended
    <3>2. Len(toPrinter) = 0
      BY <2>1
    <3>3. hits["M29"] \in Nat
      BY DEF TypeOK, PrinterType, Commands
    <3> QED BY <2>1, <3>1, <3>2, <3>3 DEF OpenThen, M29Arrives
  <2>4. Lines # 0 /\ StoredUpTo(file, Lines)
    BY <2>1, <2>2, SdUploadAssumption DEF Ended, Stored
  <2> QED BY <2>3, <2>4 DEF StoredUpTo, Complete
<1> QED BY <1>1, TypeCorrect, PhaseKept, PTL

(* A failed or aborted upload leaves no file, open or closed, if M30 and   *)
(* one of the two M29 arrived, whatever was retried or skipped before.     *)
THEOREM FailedLeavesNoFileAlways ==
  ASSUME PromptPrinter PROVE Spec => []FailedLeavesNoFile
<1>1. Phase => FailedLeavesNoFile
  <2> SUFFICES ASSUME Phase, pc = "idle", com_error, toPrinter = <<>>,
                      hits["M29"] < 2, hits["M30"] = 0
               PROVE  ~open /\ file = NoFile
    BY DEF FailedLeavesNoFile
  <2>1. Failed
    BY DEF Phase, Opening, Writing, Awaiting, LastLine, Stopped, Ended
  <2> QED BY <2>1 DEF Failed, Deleted, Sent, M29Arrives
<1> QED BY <1>1, PhaseKept, PTL

-----------------------------------------------------------------------------

(* A file that is being sent is mapped line by line.                       *)
InHand == ~com_error /\ pc \notin {"idle", "report"}

(* The mapping to SdFile, case by case.                                    *)
LEMMA OutcomeIs ==
  /\ com_error => outcome = "failed" /\ lines = <<>>
  /\ InHand => /\ outcome = "busy"
               /\ lines = IF open THEN AsLines(file) ELSE <<>>
  /\ ~com_error /\ pc \in {"idle", "report"} /\ uploads = 0
       => outcome = "none" /\ lines = <<>>
  /\ ~com_error /\ pc \in {"idle", "report"} /\ uploads # 0
       => outcome = "ok" /\ lines = AsLines(file)
BY DEF outcome, lines, InHand

(* The same, after a step.                                                 *)
LEMMA OutcomeIsNext ==
  /\ com_error' => outcome' = "failed" /\ lines' = <<>>
  /\ InHand' => /\ outcome' = "busy"
                /\ lines' = IF open' THEN AsLines(file') ELSE <<>>
  /\ ~com_error' /\ pc' \in {"idle", "report"} /\ uploads' = 0
       => outcome' = "none" /\ lines' = <<>>
  /\ ~com_error' /\ pc' \in {"idle", "report"} /\ uploads' # 0
       => outcome' = "ok" /\ lines' = AsLines(file')
BY DEF outcome, lines, InHand

(* A stored line is mapped to a line or to 0.                              *)
LEMMA AsLineIs ==
  /\ \A s \in Seq(0..Lines) : AsLine(s) \in 0..Lines
  /\ \A n : AsLine(<<n>>) = n
<1>1. 0 \in 0..Lines
  BY SdUploadAssumption
<1>2. ASSUME NEW s \in Seq(0..Lines), Len(s) = 1 PROVE s[1] \in 0..Lines
  <2>1. \A m \in Nat : m = 1 => 1 \in 1..m
    OBVIOUS
  <2>2. Len(s) \in Nat
    BY LenProperties
  <2>3. 1 \in 1..Len(s)
    BY <1>2, <2>1, <2>2, Zenon
  <2> QED BY <2>3, ElementOfSeq, Zenon
<1> QED BY <1>1, <1>2 DEF AsLine

(* Storing one line adds one line to the abstract file.                    *)
LEMMA LineAdded ==
  ASSUME NEW f \in Seq(Seq(0..Lines)), NEW n \in 0..Lines
  PROVE  AsLines(Append(f, <<n>>)) = Append(AsLines(f), n)
<1>1. /\ AsLines(f) \in Seq(0..Lines) /\ Len(AsLines(f)) = Len(f)
      /\ \A i \in 1..Len(f) : AsLines(f)[i] = AsLine(f[i])
  <2>1. \A i \in 1..Len(f) : AsLine(f[i]) \in 0..Lines
    <3>1. \A i \in 1..Len(f) : f[i] \in Seq(0..Lines)
      OBVIOUS
    <3> QED BY <3>1, AsLineIs, Zenon
  <2>2. AsLines(f) = [i \in 1..Len(f) |-> AsLine(f[i])] /\ Len(f) \in Nat
    BY DEF AsLines
  <2> QED BY <2>1, <2>2
<1>2. PICK g : g = Append(f, <<n>>)
  OBVIOUS
<1>3. /\ g \in Seq(Seq(0..Lines)) /\ Len(g) = Len(f) + 1
      /\ g[Len(f) + 1] = <<n>> /\ \A i \in 1..Len(f) : g[i] = f[i]
  BY <1>2
<1>4. PICK x : x = AsLines(g)
  OBVIOUS
<1>5. /\ x = [i \in 1..Len(f) + 1 |-> AsLine(g[i])]
  BY <1>3, <1>4 DEF AsLines
<1>6. AsLine(<<n>>) = n
  BY AsLineIs
<1>7. x \in Seq(0..Lines) /\ Len(x) = Len(f) + 1
  <2>1. \A i \in 1..Len(f) + 1 : AsLine(g[i]) \in 0..Lines
    BY <1>3, AsLineIs
  <2> QED BY <1>5, <2>1
<1>8. PICK y : y = Append(AsLines(f), n)
  OBVIOUS
<1>9. /\ y \in Seq(0..Lines) /\ Len(y) = Len(f) + 1 /\ y[Len(f) + 1] = n
      /\ \A i \in 1..Len(f) : y[i] = AsLine(f[i])
  BY <1>1, <1>8
<1>10. \A i \in 1..Len(f) + 1 : x[i] = y[i]
  <2>1. ASSUME NEW i \in 1..Len(f) + 1 PROVE x[i] = y[i]
    <3>1. CASE i = Len(f) + 1
      BY <1>3, <1>5, <1>6, <1>9, <3>1
    <3>2. CASE i # Len(f) + 1
      <4>1. i \in 1..Len(f)
        BY <3>2
      <4> QED BY <1>3, <1>5, <1>9, <4>1
    <3> QED BY <3>1, <3>2
  <2> QED BY <2>1
<1>11. x = y
  BY <1>7, <1>9, <1>10, SeqEqual
<1> QED BY <1>2, <1>4, <1>8, <1>11

(* What the abstract file ends with.                                       *)
LEMMA LastStored ==
  ASSUME TypeOK, NEW k \in 0..Lines, StoredUpTo(file, k), open,
         InHand
  PROVE  Promised!Last = k
<1> USE DEF TypeOK, PrinterType
<1>1. lines = AsLines(file)
  BY OutcomeIs
<1>2. Len(lines) = Len(file)
      /\ \A i \in 1..Len(file) : lines[i] = AsLine(file[i])
  BY <1>1 DEF AsLines
<1>3. CASE k = 0
  <2>1. file = <<>> /\ lines = <<>>
    BY <1>1, <1>3 DEF StoredUpTo, AsLines
  <2> QED BY <1>3, <2>1 DEF Promised!Last
<1>4. CASE k # 0
  <2>1. file # <<>> /\ file[Len(file)] = <<k>>
    BY <1>4 DEF StoredUpTo
  <2>2. Len(file) \in 1..Len(file)
    BY <2>1
  <2>3. lines # <<>> /\ lines[Len(lines)] = k
    <3>1. Len(lines) # 0 /\ lines[Len(lines)] = AsLine(<<k>>)
      BY <1>2, <2>1, <2>2
    <3> QED BY <3>1, AsLineIs
  <2> QED BY <2>3 DEF Promised!Last
<1> QED BY <1>3, <1>4

(* What the printer may receive of an upload that goes on.                 *)
LEMMA ArrivesInHand ==
  ASSUME TypeOK, Phase, InHand, toPrinter # <<>>
  PROVE  \/ Arrived.cmd = "M28" /\ partial = <<>> /\ (M29Arrives => ~open)
         \/ Arrived.cmd = "part"
         \/ \E k \in 1..Lines : /\ Arrived = G(k) /\ Arrived.cmd = "G"
                                /\ Arrived.line = k /\ partial = <<>>
                                /\ Stored(k - 1) \/ Stored(k)
                                /\ pc \in {"await", "tail"}
<1>1. Opening \/ Writing \/ Awaiting \/ LastLine
  BY DEF Phase, InHand, Stopped, Ended, Failed
<1>2. Lines \in 1..Lines
  BY SdUploadAssumption
<1>3. CASE Opening
  <2>1. toPrinter = <<M("M28")>>
    BY <1>3 DEF Opening
  <2> QED BY <1>3, <2>1 DEF Opening, Arrived, M
<1>4. CASE Writing
  BY <1>4 DEF Writing
<1>5. CASE Awaiting
  <2>1. toPrinter = <<G(next - 1)>>
    BY <1>5 DEF Awaiting
  <2>2. PICK k \in 1..Lines : k = next - 1 /\ k - 1 = next - 2
    <3>1. next \in Nat /\ next >= 2 /\ next <= Lines + 1 /\ Lines \in Nat
      BY <1>5, SdUploadAssumption DEF Awaiting, TypeOK, BufferType
    <3>2. next - 1 \in 1..Lines /\ next - 1 - 1 = next - 2
      BY <3>1
    <3> QED BY <3>2
  <2>3. Arrived = G(k) /\ Arrived.cmd = "G" /\ Arrived.line = k
    BY <2>1, <2>2 DEF Arrived, G
  <2> QED BY <1>5, <2>2, <2>3 DEF Awaiting
<1>6. CASE LastLine
  <2>1. CASE /\ toPrinter = <<G(Lines), Part(Lines)>> /\ partial = <<>>
             /\ Stored(Lines - 1)
    <3>1. /\ Arrived = G(Lines) /\ Arrived.cmd = "G" /\ Arrived.line = Lines
      BY <2>1 DEF Arrived, G
    <3> QED BY <1>2, <1>6, <2>1, <3>1 DEF LastLine
  <2>2. CASE toPrinter = <<Part(Lines)>>
    BY <2>2 DEF Arrived, Part
  <2>3. CASE \A i \in Sent : toPrinter[i].cmd = "part"
    <3>1. 1 \in Sent
      BY DEF Sent, TypeOK, LineType
    <3> QED BY <2>3, <3>1 DEF Arrived
  <2> QED BY <1>6, <2>1, <2>2, <2>3 DEF LastLine
<1> QED BY <1>1, <1>3, <1>4, <1>5, <1>6

(* A step of an upload that goes on.                                       *)
LEMMA HandStep ==
  ASSUME TypeOK, ExecInv, Phase, Phase', InHand, M29Arrives, uploads # 0,
         Moves
  PROVE  Promised!Next \/ UNCHANGED <<lines, outcome>>
<1>0. ~com_error /\ pc \in {"opening", "between", "chunk", "await", "tail"}
  BY DEF InHand, TypeOK, FlagType
<1>1. outcome = "busy" /\ lines = IF open THEN AsLines(file) ELSE <<>>
  BY OutcomeIs
<1>2. CASE Callback
  <2>1. /\ open' = open /\ file' = file /\ uploads' = uploads
        /\ M29Arrives'
    <3>1. CASE SplitAnswer
      <4>1. "G" \in Commands /\ "M29" \in Commands /\ "M29" # "G"
        BY DEF Commands
      <4>2. /\ open' = open /\ file' = file /\ uploads' = uploads
            /\ hits' = [hits EXCEPT !["G"] = @ + 1]
        BY <3>1 DEF SplitAnswer, espVars
      <4> QED BY <4>1, <4>2, HitCounted DEF TypeOK, M29Arrives
    <3>2. CASE ~SplitAnswer
      <4>1. open' = open /\ file' = file /\ hits' = hits
        BY <1>2, <3>2, Frames
      <4>2. uploads' = uploads
        BY <1>2, <3>2 DEF Callback, OpenAnswer, OpenTimeOut, Collect,
           PrintLine, LinePassed, LineFailed, EndOfBlock, SkipBlock, Abort,
           EndEmpty, EndTail, TailPassed, TailFailed, IgnoreAnswer, Report,
           espVars
      <4> QED BY <4>1, <4>2 DEF M29Arrives
    <3> QED BY <3>1, <3>2
  <2>2. com_error' \/ InHand' \/ EndEmpty \/ TailPassed
    <3>1. CASE OpenAnswer \/ OpenTimeOut \/ EndOfBlock
      BY <1>0, <3>1 DEF OpenAnswer, OpenTimeOut, EndOfBlock, InHand
    <3>2. CASE Collect \/ PrintLine \/ LinePassed \/ LineFailed
      BY <1>0, <3>2 DEF Collect, PrintLine, LinePassed, LineFailed, InHand
    <3>3. CASE SkipBlock \/ Abort \/ EndTail \/ TailFailed
      BY <1>0, <3>3 DEF SkipBlock, Abort, EndTail, TailFailed, InHand
    <3>4. CASE IgnoreAnswer \/ SplitAnswer
      BY <1>0, <3>4 DEF IgnoreAnswer, SplitAnswer, espVars, InHand
    <3>5. CASE Report
      BY <1>0, <3>5 DEF Report
    <3> QED BY <1>2, <3>1, <3>2, <3>3, <3>4, <3>5 DEF Callback
  <2>3. CASE com_error'
    <3>1. outcome' = "failed" /\ lines' = <<>>
      BY <2>3, OutcomeIsNext
    <3>2. Promised!Fail
      BY <1>1, <3>1 DEF Promised!Fail
    <3> QED BY <3>2 DEF Promised!Next
  <2>4. CASE InHand'
    BY <1>1, <2>1, <2>4, OutcomeIsNext
  <2>5. CASE (EndEmpty \/ TailPassed) /\ ~com_error'
    <3>1. pc' = "report" /\ pc \in {"between", "tail"}
      BY <2>5 DEF EndEmpty, TailPassed
    <3>2. outcome' = "ok" /\ lines' = AsLines(file)
      BY <2>1, <2>5, <3>1, OutcomeIsNext
    <3>3. open
      BY <1>0, <3>1 DEF ExecInv, SendingOpen, Sending
    <3>4. Ended'
      BY <2>5, <3>1 DEF Phase, Opening, Writing, Awaiting, LastLine, Stopped,
         Failed
    <3>5. Stored(Lines)'
      BY <3>1, <3>4 DEF Ended
    <3>6. StoredUpTo(file, Lines)
      BY <2>1, <3>5 DEF Stored
    <3>7. Lines \in 0..Lines
      BY SdUploadAssumption
    <3>8. Promised!Last = Lines
      BY <3>3, <3>6, <3>7, LastStored
    <3>9. Promised!Conclude
      BY <1>1, <3>2, <3>3, <3>8 DEF Promised!Conclude
    <3> QED BY <3>9 DEF Promised!Next
  <2> QED BY <2>2, <2>3, <2>4, <2>5
<1>3. CASE Printer
  <2>1. InHand' /\ outcome' = "busy"
        /\ lines' = IF open' THEN AsLines(file') ELSE <<>>
    <3>1. UNCHANGED <<pc, com_error>>
      BY <1>3, Frames
    <3>2. InHand'
      BY <3>1 DEF InHand
    <3> QED BY <3>2, OutcomeIsNext
  <2>2. CASE open' = open /\ file' = file
    BY <1>1, <2>1, <2>2
  <2>3. CASE TakeLine
    <3>1. toPrinter # <<>> /\ Arrived.cmd # "part" /\ EndsLine
      BY <2>3 DEF TakeLine, Whole
    <3>2. PICK k \in 1..Lines : /\ Arrived.cmd = "G" /\ Arrived.line = k
                                /\ partial = <<>>
                                /\ Stored(k - 1) \/ Stored(k)
                                /\ pc \in {"await", "tail"}
      BY <3>1, ArrivesInHand DEF EndsLine, Text
    <3>3. open
      BY <3>2 DEF ExecInv, SendingOpen, Sending
    <3>4. LineText = <<k>>
      BY <3>2 DEF LineText, Text
    <3>5. open' = open /\ file' = Append(file, <<k>>)
      BY <2>3, <3>3, <3>4 DEF TakeLine
    <3>6. lines' = Append(lines, k)
      <4>1. PICK f \in Seq(Seq(0..Lines)), n \in 0..Lines : f = file /\ n = k
        BY SdUploadAssumption DEF TypeOK, PrinterType
      <4>2. AsLines(Append(f, <<n>>)) = Append(AsLines(f), n)
        BY LineAdded
      <4> QED BY <1>1, <2>1, <3>3, <3>5, <4>1, <4>2
    <3>7. k \in {Promised!Last, Promised!Last + 1}
      <4>1. CASE Stored(k - 1)
        <5>1. PICK n \in 0..Lines : n = k - 1 /\ n + 1 = k
          BY SdUploadAssumption
        <5>2. StoredUpTo(file, n)
          BY <4>1, <5>1 DEF Stored
        <5>3. Promised!Last = n
          BY <3>3, <5>2, LastStored
        <5> QED BY <5>1, <5>3
      <4>2. CASE Stored(k)
        <5>1. PICK n \in 0..Lines : n = k
          BY SdUploadAssumption
        <5>2. StoredUpTo(file, n)
          BY <4>2, <5>1 DEF Stored
        <5>3. Promised!Last = n
          BY <3>3, <5>2, LastStored
        <5> QED BY <5>1, <5>3
      <4> QED BY <3>2, <4>1, <4>2
    <3>8. Promised!Deliver
      BY <1>1, <2>1, <3>6, <3>7 DEF Promised!Deliver
    <3> QED BY <3>8 DEF Promised!Next
  <2>4. CASE OpenFile
    <3>1. ~open /\ open' /\ file' = <<>>
      BY <2>4 DEF OpenFile
    <3>2. AsLines(<<>>) = <<>>
      BY DEF AsLines
    <3> QED BY <1>1, <2>1, <3>1, <3>2
  <2>5. CASE CloseFile \/ DeleteFile \/ StoreCommand
    <3>1. /\ toPrinter # <<>>
          /\ Arrived.cmd \in {"M28", "M29", "M30", "M30_M30"}
          /\ StoreCommand => open
          /\ Arrived.cmd = "M28" => StoreCommand
      BY <2>5 DEF CloseFile, DeleteFile, StoreCommand, Obey, Whole
    <3> QED BY <3>1, ArrivesInHand
  <2>6. CASE Fragment \/ RefuseFile \/ Fault \/ Busy \/ Idle
    <3>1. open' = open /\ file' = file
      BY <2>6 DEF Fragment, RefuseFile, Fault, Busy, Idle, printerVars
    <3> QED BY <2>2, <3>1
  <2> QED BY <1>3, <2>3, <2>4, <2>5, <2>6 DEF Printer
<1>4. CASE StartUpload
  BY <1>0, <1>4 DEF StartUpload
<1> QED BY <1>2, <1>3, <1>4 DEF Moves

(* An upload has been started when the handler is not idle.                *)
Started == pc # "idle" => uploads # 0

(* Only StartUpload leaves idle, and it counts the upload.                 *)
LEMMA StartedKept == Spec => []Started
<1>1. Init => Started
  BY DEF Init, Started
<1>2. TypeOK /\ Started /\ [Moves]_uploadVars => Started'
  <2> SUFFICES ASSUME TypeOK, Started, [Moves]_uploadVars PROVE Started'
    OBVIOUS
  <2> USE DEF Started
  <2>1. CASE StartUpload
    BY <2>1 DEF StartUpload, TypeOK, BufferType
  <2>2. CASE Callback
    <3>1. pc # "idle" /\ uploads' = uploads
      BY <2>2 DEF Callback, OpenAnswer, OpenTimeOut, Collect, InWrite,
         PrintLine, LinePassed, LineFailed, EndOfBlock, SkipBlock, Abort,
         EndEmpty, EndTail, TailPassed, TailFailed, IgnoreAnswer,
         SplitAnswer, Report, espVars
    <3> QED BY <3>1
  <2>3. CASE Printer
    <3>1. UNCHANGED espVars
      BY <2>3 DEF Printer, Fragment, TakeLine, OpenFile, RefuseFile,
         CloseFile, DeleteFile, StoreCommand, Fault, Busy, Idle
    <3> QED BY <3>1 DEF espVars
  <2>4. CASE UNCHANGED uploadVars
    BY <2>4 DEF uploadVars
  <2> QED BY <2>1, <2>2, <2>3, <2>4 DEF Moves
<1> QED BY <1>1, <1>2, TypeCorrect, Quiet, PTL DEF Spec

(* An upload begins with an empty file.                                    *)
LEMMA BeginStep ==
  ASSUME PromptPrinter, TypeOK, Phase, M29Arrives, StartUpload
  PROVE  Promised!Begin
<1>1. /\ pc = "idle" /\ pc' = "opening" /\ ~com_error' /\ open' = open
      /\ toPrinter = <<>>
  BY DEF StartUpload, PromptPrinter, printerVars
<1>2. ~open
  <2>1. CASE Ended
    <3>1. OpenThen(Len(toPrinter) + 1)
      BY <2>1 DEF Ended
    <3>2. Len(toPrinter) = 0
      BY <1>1
    <3>3. hits["M29"] \in Nat
      BY DEF TypeOK, PrinterType, Commands
    <3> QED BY <3>1, <3>2, <3>3 DEF OpenThen, M29Arrives
  <2>2. CASE Failed
    <3>1. Sent = {}
      BY <1>1 DEF Sent
    <3> QED BY <2>2, <3>1 DEF Failed, Deleted
  <2> QED BY <1>1, <2>1, <2>2 DEF Phase, Opening, Writing, Awaiting,
          LastLine, Stopped
<1>3. outcome # "busy"
  BY <1>1 DEF outcome
<1>4. outcome' = "busy" /\ lines' = <<>>
  <2>1. InHand' /\ ~open'
    BY <1>1, <1>2 DEF InHand
  <2> QED BY <2>1, OutcomeIsNext
<1> QED BY <1>3, <1>4 DEF Promised!Begin

(* What the printer may receive of an upload that ended well.              *)
LEMMA ArrivesEnded ==
  ASSUME TypeOK, Phase, ~com_error, pc \in {"idle", "report"},
         toPrinter # <<>>
  PROVE  /\ Arrived.cmd \in {"part", "M29"}
         /\ partial # <<>> => partial = <<Lines>>
<1>1. Ended
  BY DEF Phase, Opening, Writing, Awaiting, LastLine, Stopped, Failed
<1>2. CASE toPrinter = <<Part(Lines), M("M29"), M("M29")>>
  BY <1>1, <1>2 DEF Ended, Arrived, Part, M
<1>3. CASE toPrinter = <<M("M29"), M("M29")>>
  BY <1>1, <1>3 DEF Ended, Arrived, M
<1>4. CASE toPrinter = <<M("M29")>>
  BY <1>1, <1>4 DEF Ended, Arrived, M
<1> QED BY <1>1, <1>2, <1>3, <1>4 DEF Ended

(* A step without an upload in hand.                                       *)
LEMMA RestStep ==
  ASSUME PromptPrinter, TypeOK, ExecInv, Phase, Started, ~InHand,
         Callback \/ Printer
  PROVE  Promised!Next \/ UNCHANGED <<lines, outcome>>
<1>1. uploads' = uploads
  BY DEF Callback, OpenAnswer, OpenTimeOut, Collect, PrintLine, LinePassed,
     LineFailed, EndOfBlock, SkipBlock, Abort, EndEmpty, EndTail,
     TailPassed, TailFailed, IgnoreAnswer, SplitAnswer, Report, espVars,
     Printer, Fragment, TakeLine, OpenFile, RefuseFile, CloseFile,
     DeleteFile, StoreCommand, Fault, Busy, Idle
<1>2. CASE com_error
  <2>1. pc # "opening"
    BY <1>2 DEF Phase, Opening, Writing, Awaiting, LastLine, Stopped, Ended,
       Failed
  <2>2. com_error'
    <3>1. CASE Printer \/ IgnoreAnswer \/ SplitAnswer
      BY <1>2, <3>1, Frames
    <3>2. CASE OpenAnswer \/ OpenTimeOut
      BY <2>1, <3>2 DEF OpenAnswer, OpenTimeOut
    <3>3. CASE \/ Collect \/ PrintLine \/ LinePassed \/ LineFailed
               \/ EndOfBlock
      BY <1>2, <3>3 DEF Collect, PrintLine, LinePassed, LineFailed,
         EndOfBlock
    <3>4. CASE SkipBlock \/ Abort \/ EndEmpty \/ EndTail
      BY <1>2, <3>4 DEF SkipBlock, Abort, EndEmpty, EndTail
    <3>5. CASE TailPassed \/ TailFailed \/ Report
      BY <1>2, <3>5 DEF TailPassed, TailFailed, Report
    <3> QED BY <3>1, <3>2, <3>3, <3>4, <3>5 DEF Callback
  <2> QED BY <1>2, <2>2, OutcomeIs, OutcomeIsNext
<1>3. CASE ~com_error
  <2>1. pc \in {"idle", "report"}
    BY <1>3 DEF InHand
  <2>2. CASE Callback
    <3>1. Report
      BY <2>1, <2>2 DEF Callback, OpenAnswer, OpenTimeOut, Collect, InWrite,
         PrintLine, LinePassed, LineFailed, EndOfBlock, SkipBlock, Abort,
         EndEmpty, EndTail, TailPassed, TailFailed, IgnoreAnswer,
         SplitAnswer
    <3>2. pc = "report" /\ pc' = "idle" /\ UNCHANGED <<com_error, file>>
      BY <3>1 DEF Report, printerVars
    <3>3. uploads # 0
      BY <3>2 DEF Started
    <3> QED BY <1>1, <1>3, <2>1, <3>2, <3>3, OutcomeIs, OutcomeIsNext
  <2>3. CASE Printer
    <3>1. UNCHANGED <<pc, com_error>>
      BY <2>3, Frames
    <3>2. CASE file' = file
      BY <1>1, <1>3, <2>1, <3>1, <3>2, OutcomeIs, OutcomeIsNext
    <3>3. CASE uploads = 0
      BY <1>1, <1>3, <2>1, <3>1, <3>3, OutcomeIs, OutcomeIsNext
    <3>4. CASE TakeLine /\ uploads # 0
      <4>1. toPrinter # <<>> /\ Arrived.cmd # "part" /\ EndsLine
        BY <3>4 DEF TakeLine, Whole
      <4>2. Arrived.cmd = "M29" /\ partial # <<>> /\ partial = <<Lines>>
        BY <1>3, <2>1, <4>1, ArrivesEnded DEF EndsLine, Text
      <4>3. open
        BY <4>2 DEF ExecInv, TextOpen
      <4>4. LineText = <<Lines>>
        BY <4>2 DEF LineText, Text
      <4>5. file' = Append(file, <<Lines>>)
        BY <3>4, <4>3, <4>4 DEF TakeLine
      <4>6. lines' = Append(lines, Lines) /\ outcome = "ok" /\ outcome' = "ok"
        <5>1. PICK f \in Seq(Seq(0..Lines)) : f = file
          BY DEF TypeOK, PrinterType
        <5>2. PICK n \in 0..Lines : n = Lines
          BY SdUploadAssumption
        <5>3. AsLines(Append(f, <<n>>)) = Append(AsLines(f), n)
          BY LineAdded
        <5>4. outcome = "ok" /\ lines = AsLines(file)
          BY <1>3, <2>1, <3>4, OutcomeIs
        <5>5. outcome' = "ok" /\ lines' = AsLines(file')
          BY <1>1, <1>3, <2>1, <3>1, <3>4, OutcomeIsNext
        <5> QED BY <4>5, <5>1, <5>2, <5>3, <5>4, <5>5
      <4>7. Promised!Again
        BY <4>6 DEF Promised!Again
      <4> QED BY <4>7 DEF Promised!Next
    <3>5. CASE OpenFile \/ DeleteFile \/ StoreCommand
      <4>1. toPrinter # <<>> /\ Arrived.cmd \in {"M28", "M30", "M30_M30"}
        BY <3>5 DEF OpenFile, DeleteFile, StoreCommand, Obey, Whole
      <4> QED BY <1>3, <2>1, <4>1, ArrivesEnded
    <3>6. CASE Fragment \/ CloseFile \/ RefuseFile \/ Fault \/ Busy \/ Idle
      <4>1. file' = file
        BY <3>6 DEF Fragment, CloseFile, RefuseFile, Fault, Busy, Idle,
           printerVars
      <4> QED BY <3>2, <4>1
    <3> QED BY <2>3, <3>3, <3>4, <3>5, <3>6 DEF Printer
  <2> QED BY <2>2, <2>3
<1> QED BY <1>2, <1>3

(* Every step is a step of SdFile, or none, if no upload begins or goes on *)
(* after both M29 of an earlier one were lost.                             *)
LEMMA StepMaps ==
  ASSUME PromptPrinter, TypeOK, ExecInv, Phase, Phase', Started,
         InHand \/ StartUpload => M29Arrives, [Moves]_uploadVars
  PROVE  [Promised!Next]_<<lines, outcome>>
<1>1. CASE UNCHANGED uploadVars
  BY <1>1 DEF uploadVars, lines, outcome
<1>2. CASE StartUpload
  BY <1>2, BeginStep DEF Promised!Next
<1>3. CASE InHand /\ Moves
  <2>1. uploads # 0
    BY <1>3 DEF InHand, Started
  <2> QED BY <1>3, <2>1, HandStep
<1>4. CASE ~InHand /\ (Callback \/ Printer)
  BY <1>4, RestStep
<1> QED BY <1>1, <1>2, <1>3, <1>4 DEF Moves

(* At power on nothing has been promised.                                  *)
LEMMA InitMaps == Init => Promised!Init
BY DEF Init, Promised!Init, lines, outcome

(* Upload after upload, the file and the answer are what SdFile promises,  *)
(* as long as the file of the one before is closed: of the M29 of all the  *)
(* uploads at most one is lost.                                            *)
THEOREM UploadsAsPromised ==
  ASSUME PromptPrinter PROVE Spec /\ []M29Arrives => FileAsPromised
<1>1. /\ TypeOK /\ ExecInv /\ Phase /\ Phase' /\ Started /\ M29Arrives
      /\ [Moves]_uploadVars
      => [Promised!Next]_<<lines, outcome>>
  BY StepMaps
<1> QED BY <1>1, InitMaps, TypeCorrect, ExecKept, PhaseKept, StartedKept, Quiet,
           PTL DEF Spec, FileAsPromised, Promised!Spec

(* Before the only upload has ended no M29 has been lost.                  *)
NoM29Lost ==
  /\ uploads = 0 => toPrinter = <<>> /\ hits["M29"] = 0
  /\ InHand => hits["M29"] = 0

(* M29 is printed, and can be lost, only once the outcome is settled.      *)
LEMMA NoM29LostKept ==
  ASSUME PromptPrinter, MaxUploads <= 1 PROVE Spec => []NoM29Lost
<1>1. Init => NoM29Lost
  BY DEF Init, NoM29Lost, InHand, Commands
<1>2. TypeOK /\ Phase /\ Started /\ NoM29Lost /\ [Moves]_uploadVars => NoM29Lost'
  <2> SUFFICES ASSUME TypeOK, Phase, Started, NoM29Lost, [Moves]_uploadVars
               PROVE  NoM29Lost'
    OBVIOUS
  <2>0. "G" \in Commands /\ "M29" \in Commands /\ uploads \in Nat
    BY DEF Commands, TypeOK, BufferType
  <2>1. CASE UNCHANGED uploadVars
    BY <2>1 DEF uploadVars, NoM29Lost, InHand
  <2>2. CASE StartUpload
    <3>1. /\ uploads < MaxUploads /\ uploads' = uploads + 1 /\ hits' = hits
      BY <2>2 DEF StartUpload, printerVars
    <3>2. uploads = 0 /\ uploads' # 0
      BY <2>0, <3>1, SdUploadAssumption
    <3> QED BY <3>1, <3>2 DEF NoM29Lost
  <2>3. CASE Callback
    <3>1. /\ pc # "idle" /\ uploads' = uploads
          /\ pc' \notin {"idle", "report"} => pc \notin {"idle", "report"}
      BY <2>3 DEF Callback, OpenAnswer, OpenTimeOut, Collect, InWrite,
         PrintLine, LinePassed, LineFailed, EndOfBlock, SkipBlock, Abort,
         EndEmpty, EndTail, TailPassed, TailFailed, IgnoreAnswer,
         SplitAnswer, Report, espVars
    <3>2. uploads' # 0
      BY <3>1 DEF Started
    <3>3. hits'["M29"] = hits["M29"]
      <4>1. CASE SplitAnswer
        BY <2>0, <4>1, Frames, HitCounted DEF TypeOK
      <4> QED BY <2>3, <4>1, Frames
    <3>4. InHand' => InHand
      <4> SUFFICES ASSUME InHand', com_error PROVE FALSE
        BY <3>1 DEF InHand
      <4>1. pc # "opening" /\ ~com_error'
        BY DEF InHand, Phase, Opening, Writing, Awaiting, LastLine, Stopped,
           Ended, Failed
      <4>2. UNCHANGED com_error \/ OpenAnswer \/ com_error'
        <5>1. CASE Collect \/ PrintLine \/ LinePassed \/ LineFailed
          BY <5>1 DEF Collect, PrintLine, LinePassed, LineFailed
        <5>2. CASE \/ SkipBlock \/ Abort \/ EndEmpty \/ EndTail
                   \/ TailPassed \/ TailFailed
          BY <5>2 DEF SkipBlock, Abort, EndEmpty, EndTail, TailPassed,
             TailFailed
        <5>3. CASE \/ OpenTimeOut \/ EndOfBlock \/ IgnoreAnswer
                   \/ SplitAnswer \/ Report
          BY <5>3, Frames DEF OpenTimeOut, EndOfBlock, Report
        <5> QED BY <2>3, <5>1, <5>2, <5>3 DEF Callback
      <4> QED BY <4>1, <4>2 DEF OpenAnswer
    <3> QED BY <3>2, <3>3, <3>4 DEF NoM29Lost
  <2>4. CASE Printer
    <3>1. UNCHANGED <<pc, com_error>>
      BY <2>4, Frames
    <3>2. uploads' = uploads
      BY <2>4 DEF Printer, Fragment, TakeLine, OpenFile, RefuseFile,
         CloseFile, DeleteFile, StoreCommand, Fault, Busy, Idle, espVars
    <3>3. CASE uploads = 0
      <4>1. toPrinter = <<>> /\ hits["M29"] = 0 /\ ~InHand
        BY <3>3 DEF NoM29Lost, Started, InHand
      <4>2. toPrinter' = <<>> /\ hits'["M29"] = 0
        BY <2>4, <4>1, PrinterWaits
      <4> QED BY <3>1, <4>1, <4>2 DEF NoM29Lost, InHand
    <3>4. CASE uploads # 0 /\ InHand
      <4>1. hits["M29"] = 0
        BY <3>4 DEF NoM29Lost
      <4>2. hits'["M29"] = hits["M29"]
        <5>1. CASE Fault
          <6>1. toPrinter # <<>>
            BY <5>1 DEF Fault, Whole
          <6>2. PICK cmd \in Commands :
                  /\ cmd = IF EndsLine THEN "G" ELSE Arrived.cmd
                  /\ hits' = [hits EXCEPT ![cmd] = @ + 1]
            <7>1. EndsLine \/ Arrived.cmd \in Commands
              <8>1. Arrived \in Item
                BY <6>1 DEF Arrived, TypeOK, LineType
              <8> QED BY <5>1, <8>1 DEF Fault, Whole, Item
            <7>2. hits' = [hits EXCEPT
                             ![IF EndsLine THEN "G" ELSE Arrived.cmd] = @ + 1]
              BY <5>1 DEF Fault
            <7> QED BY <2>0, <7>1, <7>2
          <6>3. cmd # "M29"
            BY <3>4, <6>1, <6>2, ArrivesInHand DEF EndsLine, Text
          <6> QED BY <2>0, <6>2, <6>3, HitCounted DEF TypeOK
        <5>2. CASE Busy
          <6>1. hits' = [hits EXCEPT !["G"] = @ + 1]
            BY <5>2 DEF Busy
          <6> QED BY <2>0, <6>1, HitCounted DEF TypeOK
        <5>3. CASE ~Fault /\ ~Busy
          BY <2>4, <5>3 DEF Printer, Fragment, TakeLine, OpenFile,
             RefuseFile, CloseFile, DeleteFile, StoreCommand, Idle,
             printerVars
        <5> QED BY <5>1, <5>2, <5>3
      <4> QED BY <3>2, <3>4, <4>1, <4>2 DEF NoM29Lost
    <3>5. CASE uploads # 0 /\ ~InHand
      BY <3>1, <3>2, <3>5 DEF NoM29Lost, InHand
    <3> QED BY <3>3, <3>4, <3>5
  <2> QED BY <2>1, <2>2, <2>3, <2>4 DEF Moves
<1> QED BY <1>1, <1>2, TypeCorrect, PhaseKept, StartedKept, Quiet, PTL DEF Spec

(* One upload is what SdFile promises, whatever lines, deletions and M29   *)
(* are lost: the file grows line by line, and "Ok" means that it is        *)
(* complete.                                                               *)
THEOREM UploadAsPromised ==
  ASSUME PromptPrinter, MaxUploads <= 1 PROVE Spec => FileAsPromised
<1>1. /\ TypeOK /\ ExecInv /\ Phase /\ Phase' /\ Started /\ NoM29Lost
      /\ [Moves]_uploadVars
      => [Promised!Next]_<<lines, outcome>>
  <2> SUFFICES ASSUME TypeOK, ExecInv, Phase, Phase', Started, NoM29Lost,
                      [Moves]_uploadVars
               PROVE  [Promised!Next]_<<lines, outcome>>
    OBVIOUS
  <2>1. ASSUME InHand \/ StartUpload PROVE M29Arrives
    <3>1. CASE InHand
      BY <3>1 DEF NoM29Lost, M29Arrives
    <3>2. CASE StartUpload
      <4>1. uploads = 0
        BY <3>2, SdUploadAssumption DEF StartUpload, TypeOK, BufferType
      <4> QED BY <4>1 DEF NoM29Lost, M29Arrives
    <3> QED BY <2>1, <3>1, <3>2
  <2> QED BY <2>1, StepMaps
<1> QED BY <1>1, InitMaps, TypeCorrect, ExecKept, PhaseKept, StartedKept,
        NoM29LostKept, Quiet, PTL DEF Spec, FileAsPromised, Promised!Spec

-----------------------------------------------------------------------------
(* The other regime: answers may be as late as they like, and an idle      *)
(* printer may say "wait", but nothing is lost, refused or damaged.        *)
NothingLost == MaxFaults = 0 /\ ~OpenMayFail

(* Every line of the file ends with a newline.                             *)
AllEnded == Tails \subseteq {FALSE}

(* When the printer comes to item q the file is closed.                    *)
Opens(i)    == toPrinter[i].cmd = "M28"
ClosedAt(q) ==
  \/ ~open /\ \A i \in 1..q - 1 : ~Opens(i)
  \/ \E m \in 1..q - 1 : IsM29(m) /\ \A i \in m + 1..q - 1 : ~Opens(i)

(* What the file f will hold when the n items of t behind item q are       *)
(* stored; for q = 0, behind what it holds.                                *)
Held(f, q)         == IF q = 0 THEN Len(f) ELSE 0
Future(t, f, q, n) ==
  [i \in 1..Held(f, q) + n |-> IF i <= Held(f, q) THEN f[i]
                               ELSE <<t[q + (i - Held(f, q))].line>>]

(* The M28 of the upload has been obeyed, or will be.                      *)
ToOpen(q) == IF q = 0 THEN open /\ partial = <<>> ELSE Opens(q) /\ ClosedAt(q)

(* Behind the opening of the file there are n lines and c times M29.       *)
Rests(q, n, c) ==
  /\ ToOpen(q) /\ Len(toPrinter) = q + n + c
  /\ \A i \in 1..n : toPrinter[q + i].cmd = "G"
  /\ \A i \in 1..c : IsM29(q + n + i)

(* The lines up to k are stored or on their way, with c items behind them. *)
Underway(k, c) ==
  \E q, n \in 0..Len(toPrinter) : /\ Rests(q, n, c)
     /\ StoredUpTo(Future(toPrinter, file, q, n), k)

(* "Ok" has been or will be said.                                          *)
Told == \/ pc = "report" /\ upload_status # "CANCELLED"
        \/ pc = "idle" /\ reported = "Ok"

(* Sent as a whole: every line is stored or on its way in front of the M29 *)
(* that close the file.                                                    *)
Whole29 == \/ Underway(Lines, 2)
           \/ /\ Len(toPrinter) <= 1 /\ (\A i \in Sent : IsM29(i))
              /\ ~open /\ partial = <<>> /\ StoredUpTo(file, Lines)

BufferLate ==
  /\ buffer_line = IF pc = "await" THEN <<next - 1>> ELSE <<>>
  /\ pc # "tail" /\ (pc = "await" => next >= 2) /\ (pc = "opening" => next = 1)

LateInv ==
  /\ ~tail /\ (pc # "idle" => reported = "none")
  /\ pc = "opening" => ~com_error
  /\ pc \in {"idle", "report"} => ClosedAt(Len(toPrinter) + 1)
  /\ InHand => BufferLate /\ Underway(next - 1, 0)
  /\ Told => Whole29

(* What the printer holds and what is on its way to it are left alone.     *)
LEMMA SlowStutter ==
  ASSUME UNCHANGED <<toPrinter, open, partial, file>>
  PROVE  /\ ClosedAt(Len(toPrinter) + 1) => ClosedAt(Len(toPrinter) + 1)'
         /\ \A k, c : Underway(k, c) => Underway(k, c)'
         /\ Whole29 => Whole29'
<1>1. ClosedAt(Len(toPrinter) + 1) => ClosedAt(Len(toPrinter) + 1)'
  BY DEF ClosedAt, Opens, IsM29
<1>2. \A k, c : Underway(k, c) => Underway(k, c)'
  <2>1. \A q : ToOpen(q) => ToOpen(q)'
    BY DEF ToOpen, ClosedAt, Opens, IsM29
  <2>3. \A q, n, c : Rests(q, n, c) => Rests(q, n, c)'
    BY <2>1 DEF Rests, IsM29
  <2> QED BY <2>3 DEF Underway
<1> QED BY <1>1, <1>2 DEF Whole29, Sent, IsM29

(* Items printed behind the others leave those before in place.            *)
LEMMA Printed ==
  ASSUME LineType, NEW s \in Seq(Item), toPrinter' = toPrinter \o s
  PROVE  /\ Len(toPrinter) \in Nat /\ Len(s) \in Nat
         /\ Len(toPrinter') = Len(toPrinter) + Len(s)
         /\ \A i \in Sent : toPrinter'[i] = toPrinter[i]
         /\ \A i \in 1..Len(s) : toPrinter'[Len(toPrinter) + i] = s[i]
BY DEF LineType, Sent

(* A file that is closed at a place of the line stays so when more is      *)
(* printed.                                                                *)
LEMMA ClosedPrinted ==
  ASSUME LineType, NEW s \in Seq(Item), toPrinter' = toPrinter \o s,
         open' = open, NEW q \in 1..Len(toPrinter) + 1, ClosedAt(q)
  PROVE  ClosedAt(q)'
<1>1. \A i \in 1..q - 1 : toPrinter'[i] = toPrinter[i]
  BY Printed DEF Sent
<1> QED BY <1>1 DEF ClosedAt, Opens, IsM29

(* The line is closed behind Confirm and Cancel.                           *)
LEMMA ClosedAfter ==
  ASSUME LineType, NEW failed \in BOOLEAN, Settle(toPrinter, failed)
  PROVE  ClosedAt(Len(toPrinter) + 1)'
<1>1. PICK s \in Seq(Item) :
         /\ toPrinter' = toPrinter \o s /\ Len(s) \in {2, 3}
         /\ s[2].cmd = "M29" /\ (Len(s) = 3 => s[3].cmd # "M28")
  <2>1. CASE failed
    <3>1. PICK d \in Item : d = Deletion /\ d.cmd # "M28"
      <4>1. M("M30") \in Item /\ M("M30_M30") \in Item
        BY SdUploadAssumption DEF M, Item, Commands
      <4> QED BY <4>1 DEF Deletion, M
    <3>2. PICK a \in Item : a = M("M29") /\ a.cmd = "M29"
      <4>1. M("M29") \in Item /\ M("M29").cmd = "M29"
        BY SdUploadAssumption DEF M, Item, Commands
      <4> QED BY <4>1
    <3>3. Cancel = Append(<<a, a>>, d)
      BY <3>1, <3>2 DEF Cancel, Confirm
    <3>4. Cancel = <<a, a, d>> /\ <<a, a, d>> \in Seq(Item)
      BY <3>1, <3>2, <3>3, AppendThree, ShortTails
    <3>5. toPrinter' = toPrinter \o <<a, a, d>>
      BY <2>1, <3>4 DEF Settle
    <3> QED BY <3>1, <3>2, <3>4, <3>5
  <2>2. CASE ~failed
    <3>1. PICK a \in Item : a = M("M29") /\ a.cmd = "M29"
      <4>1. M("M29") \in Item /\ M("M29").cmd = "M29"
        BY SdUploadAssumption DEF M, Item, Commands
      <4> QED BY <4>1
    <3>2. toPrinter' = toPrinter \o Confirm /\ Confirm = <<a, a>>
      BY <2>2, <3>1 DEF Settle, Confirm
    <3>3. PICK s \in Seq(Item) : s = <<a, a>>
      BY <3>1, ShortTails
    <3>4. Len(s) = 2 /\ s[2] = a
      BY <3>3
    <3> QED BY <3>1, <3>2, <3>3, <3>4
  <2> QED BY <2>1, <2>2
<1>2. PICK m \in Nat : m = Len(toPrinter) + 2 /\ Len(toPrinter) \in Nat
  BY DEF LineType
<1>3. /\ Len(toPrinter') \in {m, m + 1} /\ toPrinter'[m].cmd = "M29"
      /\ Len(toPrinter') = m + 1 => toPrinter'[m + 1].cmd # "M28"
  <2>1. /\ Len(toPrinter') = Len(toPrinter) + Len(s) /\ Len(s) \in Nat
        /\ \A i \in 1..Len(s) : toPrinter'[Len(toPrinter) + i] = s[i]
    BY <1>1, Printed
  <2>2. toPrinter'[m] = s[2]
    BY <1>1, <1>2, <2>1
  <2>3. CASE Len(s) = 3
    <3>1. toPrinter'[m + 1] = s[3] /\ Len(toPrinter') = m + 1
      BY <1>1, <1>2, <2>1, <2>3
    <3> QED BY <1>1, <2>2, <2>3, <3>1
  <2>4. CASE Len(s) = 2
    <3>1. Len(toPrinter') = m
      BY <1>2, <2>1, <2>4
    <3> QED BY <1>1, <1>2, <2>2, <3>1
  <2> QED BY <1>1, <2>3, <2>4
<1>4. \A i \in m + 1..Len(toPrinter') : toPrinter'[i].cmd # "M28"
  BY <1>2, <1>3
<1>5. m \in 1..Len(toPrinter')
  BY <1>2, <1>3
<1> QED BY <1>2, <1>3, <1>4, <1>5 DEF ClosedAt, Opens, IsM29

(* What the file will hold: what it holds, then the lines behind the       *)
(* opening.                                                                *)
FutureIs(t, f, q, n) ==
  /\ Held(f, q) \in Nat /\ Len(f) \in Nat /\ Len(t) \in Nat
  /\ Future(t, f, q, n) \in Seq(Seq(0..Lines))
  /\ Len(Future(t, f, q, n)) = Held(f, q) + n
  /\ \A i \in 1..Held(f, q) : q = 0 /\ Future(t, f, q, n)[i] = f[i]
  /\ \A i \in 1..n : /\ Future(t, f, q, n)[Held(f, q) + i]
                          = <<t[q + i].line>>
                     /\ t[q + i].line \in 0..Lines

(* What the file will hold is a sequence of stored lines.                  *)
LEMMA FutureType ==
  ASSUME NEW t \in Seq(Item), NEW f \in Seq(Seq(0..Lines)),
         NEW q \in 0..Len(t), NEW n \in 0..Len(t), q + n <= Len(t)
  PROVE  FutureIs(t, f, q, n)
<1>1. Held(f, q) \in Nat /\ Len(f) \in Nat /\ Len(t) \in Nat
  BY DEF Held
<1>2. PICK h, v : h \in Nat /\ h = Held(f, q) /\ v = Future(t, f, q, n)
  BY <1>1
<1>3. v = [i \in 1..h + n |-> IF i <= h THEN f[i]
                              ELSE <<t[q + (i - h)].line>>]
  BY <1>2 DEF Future
<1>4. \A i \in 1..n : t[q + i].line \in 0..Lines
  <2> SUFFICES ASSUME NEW i \in 1..n PROVE t[q + i].line \in 0..Lines
    OBVIOUS
  <2>1. q + i \in 1..Len(t)
    BY <1>1
  <2>2. t[q + i] \in Item
    BY <2>1, ElementOfSeq
  <2> QED BY <2>2 DEF Item
<1>5. \A i \in 1..h : q = 0 /\ v[i] = f[i] /\ f[i] \in Seq(0..Lines)
  <2> SUFFICES ASSUME NEW i \in 1..h
               PROVE  q = 0 /\ v[i] = f[i] /\ f[i] \in Seq(0..Lines)
    OBVIOUS
  <2>1. q = 0 /\ h = Len(f)
    BY <1>2 DEF Held
  <2>2. i \in 1..h + n /\ i <= h
    BY <1>1, <1>2
  <2> QED BY <1>3, <2>1, <2>2, ElementOfSeq
<1>6. \A i \in 1..n : v[h + i] = <<t[q + i].line>>
  <2> SUFFICES ASSUME NEW i \in 1..n
               PROVE  v[h + i] = <<t[q + i].line>>
    OBVIOUS
  <2>1. PICK j : j = h + i
    OBVIOUS
  <2>2. j \in 1..h + n /\ ~(j <= h) /\ j - h = i
    BY <1>1, <1>2, <2>1
  <2>3. v[j] = <<t[q + (j - h)].line>>
    BY <1>3, <2>2
  <2> QED BY <2>1, <2>2, <2>3
<1>7. v \in Seq(Seq(0..Lines)) /\ Len(v) = h + n
  <2>1. \A i \in 1..h + n : v[i] \in Seq(0..Lines)
    <3> SUFFICES ASSUME NEW i \in 1..h + n PROVE v[i] \in Seq(0..Lines)
      OBVIOUS
    <3>1. CASE i <= h
      <4>1. i \in 1..h
        BY <1>2, <3>1
      <4> QED BY <1>5, <4>1
    <3>2. CASE ~(i <= h)
      <4>1. PICK j \in 1..n : i = h + j
        <5>1. i - h \in 1..n /\ i = h + (i - h)
          BY <1>1, <1>2, <3>2
        <5> QED BY <5>1
      <4>2. PICK x \in 0..Lines : x = t[q + j].line
        BY <1>4
      <4>3. v[i] = <<x>>
        BY <1>6, <4>1, <4>2
      <4> QED BY <4>3
    <3> QED BY <3>1, <3>2
  <2>2. PICK m \in Nat : m = h + n
    BY <1>1, <1>2
  <2>3. v \in [1..m -> Seq(0..Lines)]
    BY <1>3, <2>1, <2>2
  <2> QED BY <2>2, <2>3, SMTT(30)
<1> QED BY <1>1, <1>2, <1>4, <1>5, <1>6, <1>7 DEF FutureIs

(* One more line is on its way, the next one or the same again.            *)
LEMMA LineUnderway ==
  ASSUME TypeOK, NEW k \in 1..Lines, Underway(k - 1, 0) \/ Underway(k, 0),
         toPrinter' = toPrinter \o <<G(k)>>,
         UNCHANGED <<open, partial, file>>, TypeOK'
  PROVE  Underway(k, 0)'
<1>t. toPrinter \in Seq(Item) /\ file \in Seq(Seq(0..Lines))
  BY DEF TypeOK, LineType, PrinterType
<1>1. PICK q \in 0..Len(toPrinter), n \in 0..Len(toPrinter) :
         /\ Rests(q, n, 0)
         /\ \/ StoredUpTo(Future(toPrinter, file, q, n), k - 1)
            \/ StoredUpTo(Future(toPrinter, file, q, n), k)
  BY DEF Underway
<1>2. PICK s \in Seq(Item) : s = <<G(k)>> /\ Len(s) = 1 /\ s[1] = G(k)
  <2>1. PICK g \in Item : g = G(k)
    BY PieceFacts
  <2>2. <<g>> \in Seq(Item) /\ Len(<<g>>) = 1 /\ <<g>>[1] = g
    BY ShortTails
  <2> QED BY <2>1, <2>2
<1>3. /\ Len(toPrinter) \in Nat /\ Len(toPrinter') = Len(toPrinter) + 1
      /\ \A i \in Sent : toPrinter'[i] = toPrinter[i]
      /\ toPrinter'[Len(toPrinter) + 1] = G(k)
  <2>1. LineType /\ toPrinter' = toPrinter \o s
    BY <1>2 DEF TypeOK
  <2>2. 1 \in 1..Len(s)
    BY <1>2
  <2> QED BY <1>2, <2>1, <2>2, Printed
<1>4. Len(toPrinter) = q + n /\ ToOpen(q)
      /\ \A i \in 1..n : toPrinter[q + i].cmd = "G"
  BY <1>3, <1>1 DEF Rests
<1>5. PICK m \in Nat : /\ m = n + 1 /\ m \in 0..Len(toPrinter')
                       /\ q + m = Len(toPrinter')
                       /\ q \in 0..Len(toPrinter')
  <2>1. PICK l \in Nat : l = Len(toPrinter)
    BY <1>3
  <2>2. /\ n \in Nat /\ q \in Nat /\ l = q + n
        /\ Len(toPrinter') = l + 1
    BY <1>3, <1>4, <2>1
  <2>3. /\ n + 1 \in Nat /\ n + 1 \in 0..l + 1
        /\ q + (n + 1) = l + 1 /\ q \in 0..l + 1
    BY <2>2
  <2> QED BY <2>2, <2>3
<1>6. ToOpen(q)'
  <2>1. CASE q = 0
    BY <1>4, <2>1 DEF ToOpen
  <2>2. CASE q # 0
    <3>1. q \in 1..Len(toPrinter) + 1 /\ q \in Sent
      BY <2>2, <1>3 DEF Sent
    <3>2. ClosedAt(q)'
      BY <1>2, <1>4, <2>2, <3>1, ClosedPrinted DEF ToOpen, TypeOK
    <3> QED BY <1>3, <1>4, <2>2, <3>1, <3>2 DEF ToOpen, Opens
  <2> QED BY <2>1, <2>2
<1>7. Rests(q, m, 0)'
  <2>1. \A i \in 1..m : toPrinter'[q + i].cmd = "G"
    <3> SUFFICES ASSUME NEW i \in 1..m PROVE toPrinter'[q + i].cmd = "G"
      OBVIOUS
    <3>1. CASE i = m
      BY <1>3, <1>4, <1>5, <3>1, PieceFacts
    <3>2. CASE i # m
      <4>0. m = n + 1 /\ n \in Nat /\ q \in Nat
        BY <1>3, <1>5
      <4>1. i \in 1..n
        BY <3>2, <4>0
      <4>2. q + i \in Sent
        BY <1>4, <4>0, <4>1 DEF Sent
      <4> QED BY <1>3, <1>4, <4>1, <4>2
    <3> QED BY <3>1, <3>2
  <2> QED BY <1>5, <1>6, <2>1, SMTT(30) DEF Rests
<1>a. q + n <= Len(toPrinter) /\ n \in Nat /\ q \in Nat
  BY <1>3, <1>4
<1>8. PICK f : /\ f = Future(toPrinter, file, q, n) /\ f \in Seq(Seq(0..Lines))
               /\ Len(f) = Held(file, q) + n /\ Held(file, q) \in Nat
               /\ \A i \in 1..Held(file, q) : f[i] = file[i]
               /\ \A i \in 1..n : f[Held(file, q) + i]
                                    = <<toPrinter[q + i].line>>
  <2>1. PICK u, v : u = toPrinter /\ v = file
    OBVIOUS
  <2>2. /\ u \in Seq(Item) /\ v \in Seq(Seq(0..Lines))
        /\ q \in 0..Len(u) /\ n \in 0..Len(u) /\ q + n <= Len(u)
    BY <1>a, <1>t, <2>1
  <2>3. FutureIs(u, v, q, n)
    BY <2>2, FutureType
  <2> QED BY <2>1, <2>3 DEF FutureIs
<1>9. PICK g : g = Append(f, <<k>>) /\ g \in Seq(Seq(0..Lines))
  <2>1. PICK x \in Seq(0..Lines) : x = <<k>>
    <3>1. k \in 0..Lines
      BY SdUploadAssumption
    <3> QED BY <3>1, ShortTails
  <2>2. Append(f, x) \in Seq(Seq(0..Lines))
    BY <1>8
  <2> QED BY <2>1, <2>2
<1>10. StoredUpTo(g, k)
  BY <1>1, <1>8, <1>9, StoredNext
<1>11. Future(toPrinter', file, q, m) = g
  <2>1. PICK u : u = Future(toPrinter', file, q, m)
    OBVIOUS
  <2>2. toPrinter' \in Seq(Item) /\ file \in Seq(Seq(0..Lines))
    BY DEF TypeOK, LineType, PrinterType
  <2>3. /\ u \in Seq(Seq(0..Lines)) /\ Len(u) = Held(file, q) + m
        /\ \A i \in 1..Held(file, q) : u[i] = file[i]
        /\ \A i \in 1..m : u[Held(file, q) + i] = <<toPrinter'[q + i].line>>
    <3>1. PICK w, v : w = toPrinter' /\ v = file
      OBVIOUS
    <3>2. /\ w \in Seq(Item) /\ v \in Seq(Seq(0..Lines))
          /\ q \in 0..Len(w) /\ m \in 0..Len(w) /\ q + m <= Len(w)
      BY <1>3, <1>5, <2>2, <3>1
    <3>3. FutureIs(w, v, q, m)
      BY <3>2, FutureType
    <3>4. u = Future(w, v, q, m)
      BY <2>1, <3>1
    <3> QED BY <3>1, <3>3, <3>4 DEF FutureIs
  <2>4. Len(g) = Len(f) + 1 /\ \A i \in 1..Len(f) : g[i] = f[i]
    BY <1>8, <1>9
  <2>5. g[Len(f) + 1] = <<k>>
    BY <1>8, <1>9
  <2>0. PICK h \in Nat : h = Held(file, q)
    BY <1>8
  <2>a. Len(f) = h + n /\ m = n + 1 /\ n \in Nat /\ q \in Nat
    BY <1>5, <1>8, <1>a, <2>0
  <2>6. \A i \in 1..h + m : u[i] = g[i]
    <3> SUFFICES ASSUME NEW i \in 1..h + m PROVE u[i] = g[i]
      OBVIOUS
    <3>1. CASE i = h + m
      <4>1. m \in 1..m /\ q + m = Len(toPrinter) + 1 /\ i = Len(f) + 1
        BY <1>4, <2>a, <3>1, SMTT(30)
      <4>2. u[i] = <<toPrinter'[q + m].line>>
        BY <2>3, <2>0, <3>1, <4>1
      <4>3. G(k).line = k
        BY PieceFacts
      <4> QED BY <1>3, <2>5, <4>1, <4>2, <4>3
    <3>2. CASE i <= h
      <4>1. i \in 1..h /\ i \in 1..Len(f)
        BY <2>a, <3>2
      <4> QED BY <1>8, <2>0, <2>3, <2>4, <4>1
    <3>3. CASE i > h /\ i # h + m
      <4>1. PICK j \in 1..n : i = h + j
        <5>1. i - h \in 1..n /\ i = h + (i - h)
          BY <2>a, <3>3
        <5> QED BY <5>1
      <4>2. j \in 1..m /\ q + j \in Sent /\ i \in 1..Len(f)
        BY <1>4, <2>a, <4>1 DEF Sent
      <4>3. u[i] = <<toPrinter'[q + j].line>>
        BY <2>3, <2>0, <4>1, <4>2
      <4>4. f[i] = <<toPrinter[q + j].line>>
        BY <1>8, <2>0, <4>1
      <4> QED BY <1>3, <2>4, <4>2, <4>3, <4>4
    <3> QED BY <2>a, <3>1, <3>2, <3>3
  <2>b. Len(u) = h + m /\ Len(g) = h + m
    BY <2>0, <2>3, <2>4, <2>a
  <2>7. u = g
    BY <1>9, <2>3, <2>6, <2>b, SeqEqual
  <2> QED BY <2>1, <2>7
<1> QED BY <1>5, <1>7, <1>10, <1>11 DEF Underway

(* The printer takes the first item.                                       *)
Took == toPrinter # <<>> /\ toPrinter' = Tail(toPrinter)

(* The line moves up by one, and what arrives was its first item.          *)
LEMMA TookFirst ==
  ASSUME LineType, Took
  PROVE  /\ Len(toPrinter) \in Nat /\ Len(toPrinter) >= 1
         /\ Len(toPrinter') = Len(toPrinter) - 1
         /\ \A i \in 1..Len(toPrinter) - 1 : toPrinter'[i] = toPrinter[i + 1]
         /\ Arrived = toPrinter[1]
BY DEF LineType, Took, Arrived

(* What a step of the printer does when nothing is lost.                   *)
LEMMA SlowPrinter ==
  ASSUME NothingLost, TypeOK, Printer
  PROVE  /\ ~Took => /\ toPrinter' = toPrinter /\ open' = open
                     /\ partial = <<>> => file' = file /\ partial' = <<>>
         /\ Took /\ Arrived.cmd = "G" =>
              /\ open' = open
              /\ open /\ partial = <<>> =>
                   file' = Append(file, <<Arrived.line>>) /\ partial' = <<>>
         /\ Took /\ Arrived.cmd = "M28" /\ ~open =>
              open' /\ file' = <<>> /\ partial' = <<>>
         /\ Took /\ Arrived.cmd = "M29" =>
              ~open' /\ file' = file /\ partial' = <<>>
         /\ Took /\ Arrived.cmd \notin {"M28", "M29"} => open' = open
<1>1. ~Fault /\ ~Busy /\ ~RefuseFile
  <2>1. Faults \in Nat
    BY DEF Faults, TypeOK, PrinterType, Commands
  <2>2. ~(Faults < MaxFaults)
    BY <2>1 DEF NothingLost
  <2> QED BY <2>2 DEF Fault, Busy, RefuseFile, NothingLost
<1>2. CASE Fragment
  <2>1. Took /\ Arrived.cmd = "part" /\ open' = open
    BY <1>2 DEF Fragment, Consume, Text, Took
  <2> QED BY <2>1
<1>3. CASE TakeLine
  <2>1. /\ toPrinter # <<>> /\ EndsLine /\ Consume /\ partial' = <<>>
        /\ open' = open /\ Arrived.cmd # "part"
        /\ open => file' = Append(file, LineText)
    BY <1>3 DEF TakeLine, Whole
  <2>2. CASE Arrived.cmd = "G"
    <3>1. Took
      BY <2>1, <2>2 DEF Consume, Text, Took
    <3>2. partial = <<>> => LineText = <<Arrived.line>>
      BY <2>2 DEF LineText, Text
    <3> QED BY <2>1, <2>2, <3>1, <3>2
  <2>3. CASE Arrived.cmd # "G"
    <3>1. partial # <<>> /\ toPrinter' = toPrinter
      BY <2>1, <2>3 DEF EndsLine, Text, Consume
    <3>2. ~Took
      BY <3>1, TookFirst DEF TypeOK
    <3> QED BY <2>1, <3>1, <3>2
  <2> QED BY <2>2, <2>3
<1>4. ASSUME NEW cmd \in {"M28", "M29", "M30", "M30_M30"}, Obey(cmd)
      PROVE  Took /\ Arrived.cmd = cmd /\ partial = <<>>
  BY <1>4 DEF Obey, Whole, EndsLine, Text, Consume, Took
<1>5. CASE OpenFile
  <2>1. Obey("M28") /\ ~open /\ open' /\ file' = <<>> /\ partial' = partial
    BY <1>5 DEF OpenFile
  <2>2. Took /\ Arrived.cmd = "M28" /\ partial = <<>>
    BY <1>4, <2>1
  <2> QED BY <2>1, <2>2
<1>6. CASE CloseFile
  <2>1. Obey("M29") /\ ~open' /\ file' = file /\ partial' = partial
    BY <1>6 DEF CloseFile
  <2>2. Took /\ Arrived.cmd = "M29" /\ partial = <<>>
    BY <1>4, <2>1
  <2> QED BY <2>1, <2>2
<1>7. CASE DeleteFile
  <2>1. (Obey("M30") \/ Obey("M30_M30")) /\ open' = open
    BY <1>7 DEF DeleteFile
  <2>2. Took /\ Arrived.cmd \in {"M30", "M30_M30"}
    BY <1>4, <2>1
  <2> QED BY <2>1, <2>2
<1>8. CASE StoreCommand
  <2>1. /\ Obey("M28") \/ Obey("M30") \/ Obey("M30_M30")
        /\ open /\ open' = open
    BY <1>8 DEF StoreCommand
  <2>2. Took /\ Arrived.cmd \in {"M28", "M30", "M30_M30"}
    BY <1>4, <2>1
  <2> QED BY <2>1, <2>2
<1>9. CASE Idle
  <2>1. toPrinter = <<>> /\ UNCHANGED <<toPrinter, open, partial, file>>
    BY <1>9 DEF Idle, printerVars
  <2> QED BY <2>1 DEF Took
<1> QED BY <1>1, <1>2, <1>3, <1>5, <1>6, <1>7, <1>8, <1>9 DEF Printer

(* A place where the file is closed stays one while the printer reads on.  *)
LEMMA ClosedStep ==
  ASSUME NothingLost, TypeOK, Printer, NEW q \in 1..Len(toPrinter) + 1,
         ClosedAt(q)
  PROVE  /\ ~Took => ClosedAt(q)'
         /\ Took /\ q # 1 => ClosedAt(q - 1)'
<1>1. CASE ~Took
  <2>1. toPrinter' = toPrinter /\ open' = open
    BY <1>1, SlowPrinter
  <2> QED BY <1>1, <2>1 DEF ClosedAt, Opens, IsM29
<1>2. CASE Took /\ q # 1
  <2>1. /\ Len(toPrinter) \in Nat /\ q \in Nat /\ q >= 2
        /\ q - 1 \in 1..Len(toPrinter)
        /\ \A i \in 1..Len(toPrinter) - 1 : toPrinter'[i] = toPrinter[i + 1]
        /\ Arrived = toPrinter[1]
    BY <1>2, TookFirst DEF TypeOK
  <2>2. CASE ~open /\ \A i \in 1..q - 1 : ~Opens(i)
    <3>1. Arrived.cmd # "M28"
      <4>1. 1 \in 1..q - 1
        BY <2>1
      <4> QED BY <2>1, <2>2, <4>1 DEF Opens
    <3>2. ~open'
      BY <1>2, <2>2, <3>1, SlowPrinter
    <3>3. \A i \in 1..q - 1 - 1 : toPrinter'[i].cmd # "M28"
      <4> SUFFICES ASSUME NEW i \in 1..q - 1 - 1
                   PROVE  toPrinter'[i].cmd # "M28"
        OBVIOUS
      <4>1. i \in 1..Len(toPrinter) - 1 /\ i + 1 \in 1..q - 1
        BY <2>1
      <4> QED BY <2>1, <2>2, <4>1 DEF Opens
    <3> QED BY <1>2, <3>2, <3>3 DEF ClosedAt, Opens
  <2>3. ASSUME NEW m \in 1..q - 1, IsM29(m),
               \A i \in m + 1..q - 1 : ~Opens(i)
        PROVE  ClosedAt(q - 1)'
    <3>0. \A i \in m..q - 1 - 1 : toPrinter'[i].cmd # "M28"
      <4> SUFFICES ASSUME NEW i \in m..q - 1 - 1
                   PROVE  toPrinter'[i].cmd # "M28"
        OBVIOUS
      <4>1. i \in 1..Len(toPrinter) - 1 /\ i + 1 \in m + 1..q - 1
        BY <2>1
      <4> QED BY <2>1, <2>3, <4>1 DEF Opens
    <3>1. CASE m = 1
      <4>1. Arrived.cmd = "M29"
        BY <2>1, <2>3, <3>1 DEF IsM29
      <4>2. ~open'
        BY <1>2, <4>1, SlowPrinter
      <4> QED BY <3>0, <3>1, <4>2 DEF ClosedAt, Opens
    <3>2. CASE m # 1
      <4>1. PICK l \in Nat : l = m - 1
        BY <2>1
      <4>2. l \in 1..q - 1 - 1 /\ l \in 1..Len(toPrinter) - 1 /\ l + 1 = m
        BY <2>1, <3>2, <4>1
      <4>3. toPrinter'[l].cmd = "M29"
        BY <2>1, <2>3, <4>2 DEF IsM29
      <4>4. \A i \in l + 1..q - 1 - 1 : toPrinter'[i].cmd # "M28"
        BY <3>0, <4>2
      <4> QED BY <4>2, <4>3, <4>4 DEF ClosedAt, IsM29, Opens
    <3> QED BY <3>1, <3>2
  <2> QED BY <1>2, <2>2, <2>3 DEF ClosedAt
<1> QED BY <1>1, <1>2

(* The line u is the line t without its first item.                        *)
Shifted(t, u) ==
  Len(u) = Len(t) - 1 /\ \A i \in 1..Len(t) - 1 : u[i] = t[i + 1]

(* Taking an item from the line does not change what the file will hold:   *)
(* a line before the opening, the opening, or the first line behind it.    *)
LEMMA FutureTaken ==
  ASSUME NEW t \in Seq(Item), NEW u \in Seq(Item),
         NEW f \in Seq(Seq(0..Lines)), NEW g,
         NEW q \in 1..Len(t), NEW n \in 0..Len(t), q + n <= Len(t),
         Shifted(t, u), q = 1 => g = <<>>
  PROVE  Future(u, g, q - 1, n) = Future(t, f, q, n)
<1>1. /\ Held(f, q) = 0 /\ Held(g, q - 1) = 0 /\ Len(t) \in Nat
      /\ q \in Nat /\ n \in Nat
  BY DEF Held
<1>2. \A i \in 1..n : u[q - 1 + (i - 0)].line = t[q + (i - 0)].line
  <2> SUFFICES ASSUME NEW i \in 1..n
               PROVE  u[q - 1 + (i - 0)].line = t[q + (i - 0)].line
    OBVIOUS
  <2>1. PICK j : /\ j = q - 1 + (i - 0) /\ j \in 1..Len(t) - 1
                 /\ j + 1 = q + (i - 0)
    BY <1>1
  <2> QED BY <2>1 DEF Shifted
<1>3. \A i \in 1..0 + n : ~(i <= 0) /\ i \in 1..n
  BY <1>1
<1> QED BY <1>1, <1>2, <1>3 DEF Future

(* Storing the first line behind the opening does not change what the file *)
(* will hold either.                                                       *)
LEMMA FutureStored ==
  ASSUME NEW t \in Seq(Item), NEW u \in Seq(Item),
         NEW f \in Seq(Seq(0..Lines)), NEW n \in 1..Len(t),
         NEW x \in 0..Lines, x = t[1].line,
         Shifted(t, u)
  PROVE  /\ Append(f, <<x>>) \in Seq(Seq(0..Lines))
         /\ Future(u, Append(f, <<x>>), 0, n - 1) = Future(t, f, 0, n)
<1>1. PICK y \in Seq(0..Lines) : y = <<x>>
  BY ShortTails
<1>2. PICK g : g = Append(f, y) /\ g \in Seq(Seq(0..Lines))
  <2>1. Append(f, y) \in Seq(Seq(0..Lines))
    BY AppendProperties, Zenon
  <2> QED BY <2>1
<1>3. /\ Len(g) = Len(f) + 1 /\ Len(f) \in Nat /\ n \in Nat /\ n >= 1
      /\ g[Len(f) + 1] = y /\ \A i \in 1..Len(f) : g[i] = f[i]
      /\ Len(t) \in Nat
  BY <1>2
<1>4. Held(g, 0) = Len(f) + 1 /\ Held(f, 0) = Len(f)
      /\ Held(g, 0) + (n - 1) = Len(f) + n
  BY <1>3 DEF Held
<1>5. ASSUME NEW i \in 1..Len(f) + n
      PROVE  (IF i <= Len(f) + 1 THEN g[i]
              ELSE <<u[0 + (i - (Len(f) + 1))].line>>)
             = IF i <= Len(f) THEN f[i] ELSE <<t[0 + (i - Len(f))].line>>
  <2>1. CASE i <= Len(f)
    <3>1. i \in 1..Len(f) /\ i <= Len(f) + 1
      BY <1>3, <2>1
    <3> QED BY <1>3, <2>1, <3>1
  <2>2. CASE i = Len(f) + 1
    <3>1. i <= Len(f) + 1 /\ ~(i <= Len(f)) /\ 0 + (i - Len(f)) = 1
      BY <1>3, <2>2
    <3> QED BY <1>1, <1>3, <2>2, <3>1
  <2>3. CASE i > Len(f) + 1
    <3>1. PICK j : /\ j = 0 + (i - (Len(f) + 1)) /\ j \in 1..Len(t) - 1
                   /\ j + 1 = 0 + (i - Len(f))
                   /\ ~(i <= Len(f) + 1) /\ ~(i <= Len(f))
      <4>1. PICK l \in Nat, m \in Nat : l = Len(f) /\ m = Len(t) /\ n <= m
        BY <1>3
      <4>2. /\ 0 + (i - (l + 1)) \in 1..m - 1
            /\ 0 + (i - (l + 1)) + 1 = 0 + (i - l)
            /\ ~(i <= l + 1) /\ ~(i <= l)
        BY <1>3, <2>3, <4>1
      <4> QED BY <4>1, <4>2
    <3>2. u[j] = t[j + 1]
      BY <3>1 DEF Shifted
    <3> QED BY <3>1, <3>2
  <2> QED BY <1>3, <2>1, <2>2, <2>3
<1>6. Future(u, g, 0, n - 1)
        = [i \in 1..Len(f) + n |->
             IF i <= Len(f) + 1 THEN g[i]
             ELSE <<u[0 + (i - (Len(f) + 1))].line>>]
  BY <1>4 DEF Future
<1>7. Future(t, f, 0, n)
        = [i \in 1..Len(f) + n |->
             IF i <= Len(f) THEN f[i] ELSE <<t[0 + (i - Len(f))].line>>]
  BY <1>4 DEF Future
<1>8. Future(u, g, 0, n - 1) = Future(t, f, 0, n)
  BY <1>5, <1>6, <1>7
<1> QED BY <1>1, <1>2, <1>8

(* With nothing behind the opening the file will hold what it holds.       *)
LEMMA FutureNone ==
  ASSUME NEW t, NEW f \in Seq(Seq(0..Lines))
  PROVE  Future(t, f, 0, 0) = f
<1>1. Held(f, 0) = Len(f) /\ Len(f) \in Nat /\ Len(f) + 0 = Len(f)
  BY DEF Held
<1>2. PICK n \in Nat : n = Len(f)
  BY <1>1
<1>3. Future(t, f, 0, 0)
        = [i \in 1..n |-> IF i <= n THEN f[i] ELSE <<t[0 + (i - n)].line>>]
  BY <1>1, <1>2 DEF Future
<1>4. \A i \in 1..n : i <= n
  OBVIOUS
<1>5. PICK g : g = Future(t, f, 0, 0) /\ g = [i \in 1..n |-> f[i]]
  BY <1>3, <1>4
<1>6. \A i \in 1..n : f[i] \in Seq(0..Lines)
  BY <1>2, ElementOfSeq
<1>7. g \in Seq(Seq(0..Lines)) /\ Len(g) = n
  <2>1. g \in [1..n -> Seq(0..Lines)]
    BY <1>5, <1>6
  <2> QED BY <2>1
<1>8. g = f
  BY <1>2, <1>5, <1>7, SeqEqual
<1> QED BY <1>5, <1>8

(* While the M28 is still on its way, what an earlier file holds does not  *)
(* matter.                                                                 *)
LEMMA FutureFile ==
  ASSUME NEW t, NEW f, NEW g, NEW q, q # 0, NEW n \in Nat
  PROVE  Future(t, f, q, n) = Future(t, g, q, n)
<1>1. Held(f, q) = 0 /\ Held(g, q) = 0
  BY DEF Held
<1>2. \A i \in 1..0 + n : ~(i <= 0)
  OBVIOUS
<1> QED BY <1>1, <1>2 DEF Future

(* The printer has closed the file with k lines, and one M29 is left.      *)
ClosesNow(k) ==
  /\ Len(toPrinter) = 1 /\ IsM29(1)
  /\ ~open /\ partial = <<>> /\ StoredUpTo(file, k)

(* The lines stay underway while the printer stores them, until it closes  *)
(* the file behind the last.                                               *)
LEMMA UnderwayStep ==
  ASSUME NothingLost, TypeOK, TypeOK', Printer, NEW k, NEW c \in {0, 2},
         Underway(k, c)
  PROVE  Underway(k, c)' \/ (c = 2 /\ ClosesNow(k)')
<1>1. PICK q \in 0..Len(toPrinter), n \in 0..Len(toPrinter) :
         Rests(q, n, c) /\ StoredUpTo(Future(toPrinter, file, q, n), k)
  BY DEF Underway
<1>2. PICK t, u, f, g : /\ t = toPrinter /\ u = toPrinter'
                        /\ f = file /\ g = file'
  OBVIOUS
<1>3. /\ t \in Seq(Item) /\ u \in Seq(Item) /\ Len(t) \in Nat
      /\ f \in Seq(Seq(0..Lines)) /\ g \in Seq(Seq(0..Lines))
  BY <1>2 DEF TypeOK, LineType, PrinterType
<1>4. /\ ToOpen(q) /\ Len(t) = q + n + c /\ q \in Nat /\ n \in Nat
      /\ \A i \in 1..n : t[q + i].cmd = "G"
      /\ \A i \in 1..c : t[q + n + i].cmd = "M29"
      /\ StoredUpTo(Future(t, f, q, n), k)
  BY <1>1, <1>2, <1>3 DEF Rests, IsM29
<1>c. c \in Nat
  OBVIOUS
<1>5. CASE ~Took
  <2>1. u = t /\ open' = open /\ (partial = <<>> => g = f /\ partial' = <<>>)
    BY <1>2, <1>5, SlowPrinter
  <2>2. ToOpen(q)'
    <3>1. CASE q = 0
      BY <1>4, <2>1, <3>1 DEF ToOpen
    <3>2. CASE q # 0
      <4>1. q \in 1..Len(toPrinter) + 1
        BY <1>2, <1>3, <3>2
      <4>2. ClosedAt(q)'
        BY <1>4, <1>5, <3>2, <4>1, ClosedStep DEF ToOpen
      <4> QED BY <1>2, <1>4, <2>1, <3>2, <4>2 DEF ToOpen, Opens
    <3> QED BY <3>1, <3>2
  <2>3. StoredUpTo(Future(u, g, q, n), k)
    <3>1. CASE q = 0
      BY <1>4, <2>1, <3>1 DEF ToOpen
    <3>2. CASE q # 0
      BY <1>4, <2>1, <3>2, FutureFile
    <3> QED BY <3>1, <3>2
  <2>4. Rests(q, n, c)'
    BY <1>2, <1>4, <2>1, <2>2 DEF Rests, IsM29
  <2> QED BY <1>2, <2>1, <2>3, <2>4 DEF Underway
<1>6. CASE Took
  <2>1. /\ Len(t) >= 1 /\ Len(u) = Len(t) - 1 /\ Arrived = t[1]
        /\ \A i \in 1..Len(t) - 1 : u[i] = t[i + 1]
    BY <1>2, <1>6, TookFirst DEF TypeOK
  <2>2. CASE q # 0
    <3>1. PICK p \in Nat : p = q - 1 /\ p + 1 = q
      BY <1>4, <2>2
    <3>2. /\ p \in 0..Len(u) /\ n \in 0..Len(u) /\ Len(u) = p + n + c
          /\ q \in 1..Len(t) /\ n \in 0..Len(t) /\ q + n <= Len(t)
      BY <1>3, <1>4, <1>c, <2>1, <3>1, SMTT(30)
    <3>3. /\ \A i \in 1..n : u[p + i].cmd = "G"
          /\ \A i \in 1..c : u[p + n + i].cmd = "M29"
      <4>1. ASSUME NEW i \in 1..n PROVE u[p + i].cmd = "G"
        <5>1. p + i \in 1..Len(t) - 1 /\ p + i + 1 = q + i
          BY <1>3, <1>4, <3>1
        <5> QED BY <1>4, <2>1, <5>1
      <4>2. ASSUME NEW i \in 1..c PROVE u[p + n + i].cmd = "M29"
        <5>1. PICK l \in Nat : l = Len(t) /\ l = q + n + c
          BY <1>3, <1>4
        <5>2. q \in Nat /\ n \in Nat
          BY <1>4
        <5>3. /\ p + n + i \in 1..l - 1
              /\ p + n + i + 1 = q + n + i
          BY <1>c, <3>1, <5>1, <5>2
        <5>4. t[q + n + i].cmd = "M29"
          BY <1>4
        <5>5. PICK j \in 1..l - 1 : j = p + n + i /\ j + 1 = q + n + i
          BY <5>3
        <5>6. u[j] = t[j + 1]
          BY <2>1, <5>1
        <5> QED BY <5>4, <5>5, <5>6
      <4> QED BY <4>1, <4>2
    <3>4. Opens(q) /\ ClosedAt(q)
      BY <1>4, <2>2 DEF ToOpen
    <3>5. ToOpen(p)' /\ (q = 1 => g = <<>>)
      <4>1. CASE q = 1
        <5>1. Arrived.cmd = "M28"
          BY <1>2, <2>1, <3>4, <4>1 DEF Opens
        <5>2. ~open
          BY <3>4, <4>1 DEF ClosedAt
        <5>3. open' /\ g = <<>> /\ partial' = <<>>
          BY <1>2, <1>6, <5>1, <5>2, SlowPrinter
        <5>4. p = 0
          BY <3>1, <4>1
        <5> QED BY <5>3, <5>4 DEF ToOpen
      <4>2. CASE q # 1
        <5>1. q \in 1..Len(toPrinter) + 1
          BY <1>2, <1>3, <3>2
        <5>2. ClosedAt(p)'
          BY <1>6, <3>1, <3>4, <4>2, <5>1, ClosedStep
        <5>3. p # 0 /\ p \in 1..Len(t) - 1
          BY <1>3, <3>1, <3>2, <4>2
        <5>4. Opens(p)'
          <6>1. u[p] = t[q]
            BY <2>1, <3>1, <5>3
          <6> QED BY <1>2, <3>4, <6>1 DEF Opens
        <5> QED BY <4>2, <5>2, <5>3, <5>4 DEF ToOpen
      <4> QED BY <4>1, <4>2
    <3>6. Future(u, g, p, n) = Future(t, f, q, n)
      <4>1. Future(u, g, q - 1, n) = Future(t, f, q, n)
        <5>1. q = 1 => g = <<>>
          BY <3>5
        <5>2. Shifted(t, u)
          BY <2>1 DEF Shifted
        <5> QED BY <1>3, <3>2, <5>1, <5>2, FutureTaken
      <4> QED BY <3>1, <4>1
    <3>7. Rests(p, n, c)'
      BY <1>2, <3>2, <3>3, <3>5 DEF Rests, IsM29
    <3> QED BY <1>2, <1>4, <3>2, <3>6, <3>7 DEF Underway
  <2>3. CASE q = 0 /\ n # 0
    <3>1. open /\ partial = <<>>
      BY <1>4, <2>3 DEF ToOpen
    <3>2. Arrived.cmd = "G"
      <4>1. 1 \in 1..n /\ q + 1 = 1
        BY <1>4, <2>3
      <4> QED BY <1>4, <2>1, <4>1
    <3>3. /\ open' /\ partial' = <<>>
          /\ g = Append(f, <<Arrived.line>>)
      BY <1>2, <1>6, <3>1, <3>2, SlowPrinter
    <3>4. PICK x \in 0..Lines : x = t[1].line
      <4>1. 1 \in 1..Len(t)
        BY <1>3, <2>1
      <4>2. t[1] \in Item
        BY <1>3, <4>1, ElementOfSeq
      <4> QED BY <4>2 DEF Item
    <3>5. n \in 1..Len(t)
      BY <1>3, <1>4, <2>3
    <3>6. Future(u, Append(f, <<x>>), 0, n - 1) = Future(t, f, 0, n)
      <4>1. Shifted(t, u)
        BY <2>1 DEF Shifted
      <4> QED BY <1>3, <3>4, <3>5, <4>1, FutureStored
    <3>7. PICK m \in Nat : m = n - 1 /\ m + 1 = n
      BY <1>4, <2>3
    <3>8. Future(u, g, 0, m) = Future(t, f, q, n)
      BY <2>1, <2>3, <3>3, <3>4, <3>6, <3>7
    <3>9. m \in 0..Len(u) /\ 0 \in 0..Len(u) /\ Len(u) = 0 + m + c
      BY <1>3, <1>4, <2>1, <2>3, <3>7
    <3>10. /\ \A i \in 1..m : u[0 + i].cmd = "G"
           /\ \A i \in 1..c : u[0 + m + i].cmd = "M29"
      <4>1. ASSUME NEW i \in 1..m PROVE u[0 + i].cmd = "G"
        <5>1. /\ i \in 1..Len(t) - 1 /\ 0 + i = i /\ i + 1 = q + (i + 1)
              /\ i + 1 \in 1..n
          BY <1>3, <1>4, <2>3, <3>7, SMTT(30)
        <5> QED BY <1>4, <2>1, <5>1
      <4>2. ASSUME NEW i \in 1..c PROVE u[0 + m + i].cmd = "M29"
        <5>1. 0 + m + i \in 1..Len(t) - 1 /\ 0 + m + i + 1 = q + n + i
          BY <1>3, <1>4, <2>3, <3>7, SMTT(30)
        <5> QED BY <1>4, <2>1, <5>1
      <4> QED BY <4>1, <4>2
    <3>11. Rests(0, m, c)'
      BY <1>2, <3>3, <3>9, <3>10 DEF Rests, IsM29, ToOpen
    <3> QED BY <1>2, <1>4, <3>8, <3>9, <3>11 DEF Underway
  <2>4. CASE q = 0 /\ n = 0
    <3>1. c = 2 /\ Len(t) = 2
      BY <1>3, <1>4, <2>1, <2>4
    <3>2. t[1].cmd = "M29" /\ t[2].cmd = "M29"
      <4>1. 1 \in 1..c /\ 2 \in 1..c /\ q + n + 1 = 1 /\ q + n + 2 = 2
        BY <2>4, <3>1
      <4> QED BY <1>4, <4>1
    <3>3. ~open' /\ g = f /\ partial' = <<>>
      BY <1>2, <1>6, <2>1, <3>2, SlowPrinter
    <3>4. Len(u) = 1 /\ u[1].cmd = "M29"
      <4>1. 1 \in 1..Len(t) - 1 /\ 1 + 1 = 2
        BY <3>1
      <4> QED BY <2>1, <3>1, <3>2, <4>1
    <3>5. StoredUpTo(f, k)
      BY <1>3, <1>4, <2>4, FutureNone
    <3> QED BY <1>2, <3>1, <3>3, <3>4, <3>5 DEF ClosesNow, IsM29
  <2> QED BY <2>2, <2>3, <2>4
<1> QED BY <1>5, <1>6

(* The same of an upload that has ended well.                              *)
LEMMA Whole29Step ==
  ASSUME NothingLost, TypeOK, TypeOK', Printer, Whole29
  PROVE  Whole29'
<1>1. CASE Underway(Lines, 2)
  <2>1. PICK k, c : k = Lines /\ c = 2 /\ c \in {0, 2}
    OBVIOUS
  <2>2. Underway(k, c)' \/ ClosesNow(k)'
    BY <1>1, <2>1, UnderwayStep
  <2> QED BY <2>1, <2>2 DEF Whole29, ClosesNow, Sent
<1>2. CASE /\ Len(toPrinter) <= 1 /\ (\A i \in Sent : IsM29(i))
           /\ ~open /\ partial = <<>> /\ StoredUpTo(file, Lines)
  <2>1. CASE Took
    <3>1. Len(toPrinter') = 0 /\ Arrived.cmd = "M29"
      <4>1. /\ Len(toPrinter) \in Nat /\ Len(toPrinter) >= 1
            /\ Len(toPrinter') = Len(toPrinter) - 1 /\ Arrived = toPrinter[1]
        BY <2>1, TookFirst DEF TypeOK
      <4>2. 1 \in Sent
        BY <4>1 DEF Sent
      <4> QED BY <1>2, <4>1, <4>2 DEF IsM29
    <3>2. ~open' /\ file' = file /\ partial' = <<>>
      BY <2>1, <3>1, SlowPrinter
    <3> QED BY <1>2, <3>1, <3>2 DEF Whole29, Sent
  <2>2. CASE ~Took
    <3>1. UNCHANGED <<toPrinter, open, partial, file>>
      BY <1>2, <2>2, SlowPrinter
    <3> QED BY <3>1, SlowStutter
  <2> QED BY <2>1, <2>2
<1> QED BY <1>1, <1>2 DEF Whole29

(* The two M29 of an upload that ended well close the file behind its last *)
(* line.                                                                   *)
LEMMA ConfirmUnderway ==
  ASSUME TypeOK, Underway(Lines, 0), toPrinter' = toPrinter \o Confirm,
         UNCHANGED <<open, partial, file>>
  PROVE  Underway(Lines, 2)'
<1>1. PICK q \in 0..Len(toPrinter), n \in 0..Len(toPrinter) :
         /\ Rests(q, n, 0) /\ StoredUpTo(Future(toPrinter, file, q, n), Lines)
  BY DEF Underway
<1>2. PICK a \in Item : a = M("M29") /\ a.cmd = "M29"
  <2>1. M("M29") \in Item /\ M("M29").cmd = "M29"
    BY SdUploadAssumption DEF M, Item, Commands
  <2> QED BY <2>1
<1>3. PICK s \in Seq(Item) : /\ s = <<a, a>> /\ Len(s) = 2
                             /\ s[1] = a /\ s[2] = a
  <2>1. PICK s \in Seq(Item) : s = <<a, a>>
    BY ShortTails
  <2> QED BY <2>1
<1>4. PICK l, t, u, f : /\ l = Len(toPrinter) /\ t = toPrinter
                        /\ u = toPrinter' /\ f = file
  OBVIOUS
<1>5. /\ l \in Nat /\ Len(u) = l + 2
      /\ \A i \in 1..l : u[i] = t[i]
      /\ u[l + 1] = a /\ u[l + 2] = a /\ t \in Seq(Item) /\ Len(t) = l
      /\ f \in Seq(Seq(0..Lines)) /\ u \in Seq(Item)
  <2>1. LineType /\ toPrinter' = toPrinter \o s
    BY <1>2, <1>3 DEF Confirm, TypeOK
  <2>2. /\ Len(toPrinter') = Len(toPrinter) + Len(s) /\ Len(toPrinter) \in Nat
        /\ \A i \in Sent : toPrinter'[i] = toPrinter[i]
        /\ \A i \in 1..Len(s) : toPrinter'[Len(toPrinter) + i] = s[i]
    BY <2>1, Printed
  <2>3. 1 \in 1..Len(s) /\ 2 \in 1..Len(s)
    BY <1>3
  <2>4. /\ toPrinter'[Len(toPrinter) + 1] = a
        /\ toPrinter'[Len(toPrinter) + 2] = a
    BY <1>3, <2>2, <2>3
  <2>5. toPrinter' \in Seq(Item)
    BY <2>1 DEF LineType
  <2> QED BY <1>3, <1>4, <2>1, <2>2, <2>4, <2>5
          DEF Sent, LineType, TypeOK, PrinterType
<1>6. ToOpen(q) /\ l = q + n /\ q \in Nat /\ n \in Nat
      /\ \A i \in 1..n : t[q + i].cmd = "G"
  BY <1>1, <1>4, <1>5 DEF Rests
<1>7. ToOpen(q)'
  <2>1. CASE q = 0
    BY <1>6, <2>1 DEF ToOpen
  <2>2. CASE q # 0
    <3>1. q \in 1..Len(toPrinter) + 1 /\ q \in 1..l
      BY <1>4, <1>5, <1>6, <2>2
    <3>2. /\ toPrinter' = toPrinter \o s /\ LineType
          /\ open' = open /\ ClosedAt(q)
      BY <1>2, <1>3, <1>6, <2>2 DEF Confirm, TypeOK, ToOpen
    <3>3. ClosedAt(q)'
      BY <3>1, <3>2, ClosedPrinted
    <3>4. Opens(q)'
      BY <1>4, <1>5, <1>6, <2>2, <3>1 DEF ToOpen, Opens
    <3> QED BY <2>2, <3>3, <3>4 DEF ToOpen
  <2> QED BY <2>1, <2>2
<1>8. Rests(q, n, 2)'
  <2>1. \A i \in 1..n : u[q + i].cmd = "G"
    <3> SUFFICES ASSUME NEW i \in 1..n PROVE u[q + i].cmd = "G"
      OBVIOUS
    <3>1. q + i \in 1..l
      BY <1>6
    <3> QED BY <1>5, <1>6, <3>1
  <2>2. \A i \in 1..2 : u[q + n + i].cmd = "M29"
    <3> SUFFICES ASSUME NEW i \in 1..2 PROVE u[q + n + i].cmd = "M29"
      OBVIOUS
    <3>1. i = 1 \/ i = 2
      OBVIOUS
    <3> QED BY <1>2, <1>5, <1>6, <3>1
  <2>3. Len(u) = q + n + 2
    BY <1>5, <1>6
  <2> QED BY <1>4, <1>7, <2>1, <2>2, <2>3 DEF Rests, IsM29
<1>9. Future(u, f, q, n) = Future(t, f, q, n)
  <2>1. PICK h : h = Held(f, q) /\ h \in Nat
    <3>1. Held(f, q) \in Nat
      BY <1>5 DEF Held
    <3> QED BY <3>1
  <2>2. \A i \in 1..h + n : ~(i <= h) => u[q + (i - h)] = t[q + (i - h)]
    <3> SUFFICES ASSUME NEW i \in 1..h + n, ~(i <= h)
                 PROVE  u[q + (i - h)] = t[q + (i - h)]
      OBVIOUS
    <3>1. PICK j \in 1..l : j = q + (i - h)
      <4>1. q + (i - h) \in 1..l
        BY <1>6, <2>1
      <4> QED BY <4>1
    <3> QED BY <1>5, <3>1
  <2>3. /\ Future(u, f, q, n) = [i \in 1..h + n |-> IF i <= h THEN f[i]
                                          ELSE <<u[q + (i - h)].line>>]
        /\ Future(t, f, q, n) = [i \in 1..h + n |-> IF i <= h THEN f[i]
                                          ELSE <<t[q + (i - h)].line>>]
    BY <2>1 DEF Future
  <2> QED BY <2>2, <2>3
<1>10. StoredUpTo(Future(toPrinter', file', q, n), Lines)
  BY <1>1, <1>4, <1>9
<1>11. q \in 0..Len(toPrinter') /\ n \in 0..Len(toPrinter')
  BY <1>4, <1>5, <1>6
<1> QED BY <1>8, <1>10, <1>11 DEF Underway

(* The M28 of a new upload stands behind the closing of the one before.    *)
LEMMA SlowStart ==
  ASSUME TypeOK, StartUpload, ClosedAt(Len(toPrinter) + 1)
  PROVE  Underway(0, 0)'
<1>1. PICK g \in Item : g = M("M28") /\ g.cmd = "M28"
  <2>1. M("M28") \in Item /\ M("M28").cmd = "M28"
    BY SdUploadAssumption DEF M, Item, Commands
  <2> QED BY <2>1
<1>2. PICK s \in Seq(Item) : s = <<g>> /\ Len(s) = 1 /\ s[1] = g
  <2>1. <<g>> \in Seq(Item) /\ Len(<<g>>) = 1 /\ <<g>>[1] = g
    BY ShortTails
  <2> QED BY <2>1
<1>3. /\ toPrinter' = Append(toPrinter, g) /\ open' = open /\ LineType
  BY <1>1 DEF StartUpload, printerVars, TypeOK
<1>4. toPrinter' = toPrinter \o s
  BY <1>2, <1>3, AppendIsConcat DEF LineType
<1>5. PICK q \in Nat : q = Len(toPrinter) + 1
  BY <1>3 DEF LineType
<1>6. q = Len(toPrinter') /\ toPrinter'[q] = g
  BY <1>3, <1>5 DEF LineType
<1>7. ToOpen(q)'
  <2>1. ClosedAt(q)'
    <3>1. q \in 1..Len(toPrinter) + 1 /\ ClosedAt(q)
      BY <1>5
    <3> QED BY <1>3, <1>4, <3>1, ClosedPrinted
  <2>2. q # 0
    BY <1>3, <1>5 DEF LineType
  <2> QED BY <1>1, <1>6, <2>1, <2>2 DEF ToOpen, Opens
<1>8. Rests(q, 0, 0)'
  BY <1>5, <1>6, <1>7 DEF Rests
<1>9. Future(toPrinter', file', q, 0) = <<>>
  <2>1. q # 0
    BY <1>3, <1>5 DEF LineType
  <2> QED BY <2>1 DEF Future, Held
<1>10. q \in 0..Len(toPrinter') /\ 0 \in 0..Len(toPrinter')
  BY <1>5, <1>6
<1> QED BY <1>8, <1>9, <1>10 DEF Underway, StoredUpTo

(* Every callback keeps the invariant.                                     *)
LEMMA SlowCallback ==
  ASSUME NothingLost, TypeOK, TypeOK', LateInv, Callback
  PROVE  LateInv'
<1> USE DEF LateInv
<1>0. /\ ~SplitAnswer /\ UNCHANGED <<open, partial, file, tail>>
      /\ com_error \in BOOLEAN /\ com_error' \in BOOLEAN
  <2>1. Faults \in Nat
    BY SMTT(30) DEF Faults, TypeOK, PrinterType, Commands
  <2>2. ~(Faults < MaxFaults)
    BY <2>1 DEF NothingLost
  <2>3. ~SplitAnswer
    BY <2>2 DEF SplitAnswer
  <2>4. UNCHANGED tail
    BY DEF Callback, OpenAnswer, OpenTimeOut, Collect, PrintLine, LinePassed,
       LineFailed, EndOfBlock, SkipBlock, Abort, EndEmpty, EndTail,
       TailPassed, TailFailed, IgnoreAnswer, SplitAnswer, Report, espVars,
       body
  <2> QED BY <2>3, <2>4, Frames DEF TypeOK, FlagType
<1>q. ASSUME UNCHANGED toPrinter
      PROVE  /\ \A k, c : Underway(k, c) => Underway(k, c)'
             /\ ClosedAt(Len(toPrinter) + 1) => ClosedAt(Len(toPrinter) + 1)'
             /\ Whole29 => Whole29'
  BY <1>0, <1>q, SlowStutter
<1>1. CASE OpenAnswer \/ OpenTimeOut
  <2>1. /\ pc = "opening" /\ pc' \in {"opening", "between"}
        /\ UNCHANGED <<buffer_line, next, reported, toPrinter>>
    BY <1>1 DEF OpenAnswer, OpenTimeOut, body
  <2>2. pc' = "opening" => ~com_error'
    <3>1. CASE OpenTimeOut
      BY <3>1 DEF OpenTimeOut
    <3>2. CASE OpenAnswer
      <4>1. PICK failed, waited :
               /\ pc' = IF waited \/ failed THEN "between" ELSE "opening"
               /\ com_error' = (failed /\ ~waited)
        BY <3>2, Zenon DEF OpenAnswer
      <4> QED BY <4>1
    <3> QED BY <1>1, <3>1, <3>2
  <2>3. InHand
    BY <2>1 DEF InHand
  <2>4. (BufferLate /\ Underway(next - 1, 0))'
    BY <1>q, <2>1, <2>3 DEF BufferLate
  <2> QED BY <1>0, <2>1, <2>2, <2>4 DEF Told
<1>2. CASE Collect
  <2>1. /\ pc \in {"chunk", "between"} /\ pc' = "chunk" /\ reported' = reported
        /\ com_error'
    <3>1. /\ InWrite /\ pc' = "chunk" /\ reported' = reported
          /\ BufferFull \/ next = long \/ com_error \/ (next = Lines /\ tail)
          /\ com_error' = (com_error \/ BufferFull \/ next = long)
      BY <1>2 DEF Collect
    <3> QED BY <3>1 DEF InWrite
  <2> QED BY <1>0, <2>1 DEF InHand, Told
<1>3. CASE PrintLine
  <2>1. /\ pc \in {"chunk", "between"} /\ pc' = "await" /\ ~com_error
        /\ next <= Lines /\ next' = next + 1 /\ buffer_line' = <<next>>
        /\ toPrinter' = Append(toPrinter, G(next))
        /\ UNCHANGED <<reported, com_error>>
    BY <1>3 DEF PrintLine, InWrite
  <2>2. Underway(next - 1, 0)
    BY <2>1 DEF InHand
  <2>3. PICK k \in 1..Lines : k = next /\ next' - 1 = k /\ next' >= 2
    BY <2>1, SdUploadAssumption DEF TypeOK, BufferType
  <2>4. toPrinter' = toPrinter \o <<G(k)>>
    <3>1. PICK g \in Item : g = G(k)
      BY PieceFacts
    <3> QED BY <2>1, <2>3, <3>1, AppendIsConcat DEF TypeOK, LineType
  <2>5. Underway(k, 0)'
    BY <1>0, <2>2, <2>3, <2>4, LineUnderway
  <2>6. buffer_line' = <<next' - 1>>
    BY <2>1, <2>3
  <2> QED BY <1>0, <2>1, <2>3, <2>5, <2>6 DEF InHand, Told, BufferLate
<1>4. CASE LinePassed \/ EndOfBlock \/ IgnoreAnswer
  <2>1. /\ UNCHANGED <<next, reported, toPrinter, com_error>>
        /\ \/ pc' = pc /\ pc \in {"await", "tail"} /\ UNCHANGED buffer_line
           \/ pc = "await" /\ pc' = "chunk" /\ buffer_line' = <<>>
           \/ pc = "chunk" /\ pc' = "between" /\ UNCHANGED buffer_line
    BY <1>4 DEF LinePassed, EndOfBlock, IgnoreAnswer, body, espVars
  <2>2. InHand' => InHand /\ BufferLate'
    BY <2>1 DEF InHand, BufferLate
  <2>3. InHand' => Underway(next - 1, 0)'
    BY <1>q, <2>1, <2>2
  <2> QED BY <1>0, <2>1, <2>2, <2>3 DEF Told
<1>5. CASE LineFailed
  <2>1. /\ pc = "await" /\ UNCHANGED <<next, reported>>
        /\ \/ /\ toPrinter' = toPrinter \o Pieces(buffer_line)
              /\ UNCHANGED <<pc, buffer_line, com_error>>
           \/ com_error' /\ pc' = "chunk"
    BY <1>5 DEF LineFailed, body
  <2>2. CASE com_error'
    BY <1>0, <2>1, <2>2 DEF InHand, Told
  <2>3. CASE ~com_error'
    <3>1. InHand /\ pc' = pc /\ buffer_line' = buffer_line
      BY <2>1, <2>3 DEF InHand
    <3>2. PICK k \in 1..Lines : k = next - 1
      BY <2>1, <3>1, SdUploadAssumption DEF BufferLate, TypeOK, BufferType
    <3>3. buffer_line = <<k>> /\ Underway(k, 0)
      BY <2>1, <3>1, <3>2 DEF BufferLate
    <3>4. toPrinter' = toPrinter \o <<G(k)>>
      BY <2>1, <2>3, <3>3, OnePiece
    <3>5. Underway(k, 0)'
      BY <1>0, <3>3, <3>4, LineUnderway
    <3> QED BY <1>0, <2>1, <3>1, <3>2, <3>5 DEF Told, BufferLate
  <2> QED BY <2>2, <2>3
<1>6. CASE SkipBlock
  <2>1. pc = "between" /\ pc' = pc /\ com_error' /\ reported' = reported
    BY <1>6 DEF SkipBlock
  <2> QED BY <1>0, <2>1 DEF InHand, Told
<1>7. CASE Abort
  <2>1. /\ pc = "between" /\ pc' = "idle" /\ reported' = reported /\ com_error'
        /\ Settle(toPrinter, TRUE)
    BY <1>7 DEF Abort, Close
  <2>2. ClosedAt(Len(toPrinter) + 1)'
    BY <2>1, ClosedAfter DEF TypeOK
  <2> QED BY <1>0, <2>1, <2>2 DEF InHand, Told
<1>8. CASE EndEmpty
  <2>1. /\ pc = "between" /\ pc' = "report" /\ next = Lines + 1
        /\ UNCHANGED <<reported, com_error>> /\ Settle(toPrinter, com_error)
    BY <1>8 DEF EndEmpty, Close
  <2>2. ClosedAt(Len(toPrinter) + 1)'
    BY <1>0, <2>1, ClosedAfter DEF TypeOK
  <2>3. upload_status' # "CANCELLED" => Whole29'
    <3>1. SUFFICES ASSUME upload_status' # "CANCELLED" PROVE Whole29'
      OBVIOUS
    <3>2. ~com_error /\ toPrinter' = toPrinter \o Confirm
      BY <2>1, <3>1 DEF Settle
    <3>3. Underway(next - 1, 0) /\ next - 1 = Lines
      BY <2>1, <3>2, SdUploadAssumption DEF InHand
    <3>4. Underway(Lines, 2)'
      BY <1>0, <3>2, <3>3, ConfirmUnderway
    <3> QED BY <3>4 DEF Whole29
  <2> QED BY <1>0, <2>1, <2>2, <2>3 DEF InHand, Told
<1>9. CASE EndTail
  <2>1. /\ pc = "between" /\ pc' = "tail" /\ buffer_line # <<>>
        /\ UNCHANGED <<reported, com_error>>
    BY <1>9 DEF EndTail
  <2>2. com_error
    BY <2>1 DEF InHand, BufferLate
  <2> QED BY <1>0, <2>1, <2>2 DEF InHand, Told
<1>10. CASE TailPassed \/ TailFailed
  <2>1. /\ pc = "tail" /\ UNCHANGED reported
        /\ \/ pc' = "tail" /\ UNCHANGED com_error
           \/ pc' = "report" /\ Settle(toPrinter, TRUE)
           \/ pc' = "report" /\ Settle(toPrinter, com_error)
    BY <1>10 DEF TailPassed, TailFailed, Close
  <2>2. com_error
    BY <2>1 DEF InHand, BufferLate
  <2>3. CASE pc' = "tail" /\ UNCHANGED com_error
    BY <1>0, <2>1, <2>2, <2>3 DEF InHand, Told
  <2>4. CASE pc' = "report" /\ Settle(toPrinter, TRUE)
    <3>1. upload_status' = "CANCELLED"
      BY <2>4 DEF Settle
    <3>2. ClosedAt(Len(toPrinter) + 1)'
      BY <2>4, ClosedAfter DEF TypeOK
    <3> QED BY <1>0, <2>1, <2>4, <3>1, <3>2 DEF InHand, Told
  <2> QED BY <1>0, <2>1, <2>2, <2>3, <2>4
<1>11. CASE Report
  <2>1. /\ pc = "report" /\ pc' = "idle" /\ UNCHANGED toPrinter
        /\ reported' = IF upload_status = "CANCELLED" THEN "Failed" ELSE "Ok"
    BY <1>11 DEF Report
  <2>2. Told' => Told
    BY <2>1 DEF Told
  <2> QED BY <1>0, <1>q, <2>1, <2>2 DEF InHand
<1> QED BY <1>0, <1>1, <1>2, <1>3, <1>4, <1>5, <1>6, <1>7, <1>8, <1>9, <1>10,
        <1>11 DEF Callback

(* It is kept by every step.                                               *)
LEMMA LateKept == ASSUME NothingLost, AllEnded PROVE Spec => []LateInv
<1>1. Init => LateInv
  BY DEF Init, LateInv, InHand, Told, ClosedAt, Opens
<1>2. TypeOK /\ TypeOK' /\ LateInv /\ [Moves]_uploadVars => LateInv'
  <2> SUFFICES ASSUME TypeOK, TypeOK', LateInv, [Moves]_uploadVars PROVE LateInv'
    OBVIOUS
  <2>1. CASE UNCHANGED uploadVars
    <3>1. /\ UNCHANGED <<toPrinter, open, partial, file>>
          /\ UNCHANGED <<pc, com_error, tail, reported, buffer_line, next,
                         upload_status>>
      BY <2>1 DEF uploadVars
    <3> QED BY <3>1, SlowStutter DEF LateInv, InHand, Told, BufferLate
  <2>2. CASE StartUpload
    <3>1. /\ pc = "idle" /\ pc' = "opening" /\ ~com_error' /\ tail' \in Tails
          /\ next' = 1 /\ buffer_line' = <<>> /\ reported' = "none"
      BY <2>2 DEF StartUpload
    <3>2. Underway(0, 0)'
      BY <2>2, <3>1, SlowStart DEF LateInv
    <3>3. ~tail'
      BY <3>1 DEF AllEnded
    <3> QED BY <3>1, <3>2, <3>3 DEF LateInv, InHand, Told, BufferLate
  <2>3. CASE Callback
    BY <2>3, SlowCallback
  <2>4. CASE Printer
    <3>1. UNCHANGED <<pc, buffer_line, com_error, upload_status, bare, next,
                      tail, reported>>
      BY <2>4, Frames
    <3>2. ClosedAt(Len(toPrinter) + 1) => ClosedAt(Len(toPrinter) + 1)'
      <4> SUFFICES ASSUME ClosedAt(Len(toPrinter) + 1)
                   PROVE  ClosedAt(Len(toPrinter) + 1)'
        OBVIOUS
      <4>1. PICK q \in 1..Len(toPrinter) + 1 : q = Len(toPrinter) + 1
        BY DEF TypeOK, LineType
      <4>2. CASE Took
        <5>1. q # 1 /\ q - 1 = Len(toPrinter') + 1
          BY <4>1, <4>2, TookFirst DEF TypeOK
        <5>2. ClosedAt(q - 1)'
          BY <2>4, <4>1, <4>2, <5>1, ClosedStep
        <5> QED BY <5>1, <5>2 DEF ClosedAt, Opens, IsM29
      <4>3. CASE ~Took
        <5>1. ClosedAt(q)' /\ toPrinter' = toPrinter
          BY <2>4, <4>1, <4>3, ClosedStep, SlowPrinter
        <5> QED BY <4>1, <5>1 DEF ClosedAt, Opens, IsM29
      <4> QED BY <4>2, <4>3
    <3>3. InHand => (Underway(next - 1, 0) => Underway(next - 1, 0)')
      <4>1. PICK k, c : k = next - 1 /\ c = 0 /\ c \in {0, 2}
        OBVIOUS
      <4>2. Underway(k, c) => Underway(k, c)'
        BY <2>4, <4>1, UnderwayStep
      <4> QED BY <3>1, <4>1, <4>2
    <3>4. Whole29 => Whole29'
      BY <2>4, Whole29Step
    <3> QED BY <3>1, <3>2, <3>3, <3>4 DEF LateInv, InHand, Told, BufferLate
  <2> QED BY <2>1, <2>2, <2>3, <2>4 DEF Moves
<1> QED BY <1>1, <1>2, TypeCorrect, Quiet, PTL DEF Spec

(* However late the printer answers, "Ok" means a closed file with every   *)
(* line in order, if nothing is lost and every line has its newline: a     *)
(* late "ok" then belongs to an earlier line that has arrived, and the     *)
(* lines are queued in order.                                              *)
THEOREM OkMeansEveryLineLate ==
  ASSUME NothingLost, AllEnded PROVE Spec => []OkMeansEveryLine
<1>1. TypeOK /\ LateInv => OkMeansEveryLine
  <2> SUFFICES ASSUME TypeOK, LateInv, Finished("Ok")
               PROVE  ~open /\ Complete
    BY DEF OkMeansEveryLine
  <2>1. reported = "Ok" /\ pc = "idle" /\ toPrinter = <<>>
    BY DEF Finished
  <2>2. Whole29
    BY <2>1 DEF LateInv, Told
  <2>3. ~Underway(Lines, 2)
    BY <2>1 DEF Underway, Rests
  <2>4. ~open /\ StoredUpTo(file, Lines)
    BY <2>2, <2>3 DEF Whole29
  <2> QED BY <2>4, SdUploadAssumption DEF StoredUpTo, Complete
<1> QED BY <1>1, TypeCorrect, LateKept, PTL

-----------------------------------------------------------------------------

(* When the printer comes to item q the file is open.                      *)
OpenAt(q) ==
  \/ open /\ \A i \in 1..q - 1 : ~IsM29(i)
  \/ \E m \in 1..q - 1 : Opens(m) /\ \A i \in m + 1..q - 1 : ~IsM29(i)

(* NeverExecuted is not inductive: a line may have others of its own and   *)
(* of an earlier upload in front of it, but it will find the file open.    *)
TextAtOpen == \A i \in Sent : IsText(i) => OpenAt(i)

LateExecInv ==
  /\ ~executed /\ TextAtOpen /\ (partial # <<>> => open)
  /\ Sending \/ pc = "opening" => OpenAt(Len(toPrinter) + 1)

(* What a step of the printer does to what is executed, to a line that is  *)
(* not complete, and to a file that is to be deleted.                      *)
LEMMA SlowLine ==
  ASSUME NothingLost, TypeOK, Printer
  PROVE  LET text == toPrinter # <<>> /\ IsText(1)
         IN  /\ Took /\ Arrived.cmd = "M28" => open'
             /\ executed' => executed \/ (~open /\ (partial # <<>> \/ text))
             /\ partial' # <<>> => open' = open /\ (partial # <<>> \/ text)
             /\ Took /\ ~open /\ Arrived.cmd = "M30" =>
                  file' = NoFile /\ partial' = <<>>
             /\ Took /\ ~open /\ Arrived.cmd = "M30_M30" =>
                  file' = file /\ partial' = <<>>
<1> DEFINE text == toPrinter # <<>> /\ IsText(1)
<1>1. ~Fault /\ ~Busy /\ ~RefuseFile
  <2>1. Faults \in Nat
    BY DEF Faults, TypeOK, PrinterType, Commands
  <2>2. ~(Faults < MaxFaults)
    BY <2>1 DEF NothingLost
  <2> QED BY <2>2 DEF Fault, Busy, RefuseFile, NothingLost
<1>2. toPrinter # <<>> =>
        /\ Arrived = toPrinter[1] /\ toPrinter # Tail(toPrinter)
        /\ (Text <=> IsText(1))
  BY DEF TypeOK, LineType, Arrived, Text, IsText
<1>3. CASE Fragment
  <2>1. /\ toPrinter # <<>> /\ Arrived.cmd = "part"
        /\ open' = open /\ executed' = executed
    BY <1>3 DEF Fragment
  <2>2. text
    BY <1>2, <2>1 DEF Text
  <2> QED BY <2>1, <2>2
<1>4. CASE TakeLine
  <2>1. /\ toPrinter # <<>> /\ EndsLine /\ Consume /\ partial' = <<>>
        /\ open => executed' = executed
    BY <1>4 DEF TakeLine, Whole
  <2>2. partial # <<>> \/ text
    BY <1>2, <2>1 DEF EndsLine
  <2>3. Took => text
    BY <1>2, <2>1 DEF Took, Consume, EndsLine
  <2>4. text => Arrived.cmd \in {"G", "part"}
    BY <1>2 DEF Text
  <2> QED BY <2>1, <2>2, <2>3, <2>4
<1>5. ASSUME NEW cmd, Obey(cmd) PROVE partial = <<>> /\ Arrived.cmd = cmd
  BY <1>5 DEF Obey, EndsLine
<1>6. CASE OpenFile
  <2>1. Obey("M28") /\ open' /\ UNCHANGED <<partial, executed>>
    BY <1>6 DEF OpenFile
  <2>2. partial = <<>> /\ Arrived.cmd = "M28" /\ partial' = <<>>
    BY <1>5, <2>1
  <2> QED BY <2>1, <2>2
<1>7. CASE CloseFile
  <2>1. Obey("M29") /\ UNCHANGED <<partial, executed>>
    BY <1>7 DEF CloseFile
  <2> QED BY <1>5, <2>1
<1>8. CASE DeleteFile
  <2>1. /\ \/ Obey("M30") /\ file' = NoFile
           \/ Obey("M30_M30") /\ file' = file
        /\ UNCHANGED <<open, partial, executed>>
    BY <1>8 DEF DeleteFile
  <2> QED BY <1>5, <2>1
<1>9. CASE StoreCommand
  <2>1. /\ Obey("M28") \/ Obey("M30") \/ Obey("M30_M30")
        /\ open /\ UNCHANGED <<open, partial, executed>>
    BY <1>9 DEF StoreCommand
  <2> QED BY <1>5, <2>1
<1>10. CASE Idle
  <2>1. toPrinter = <<>> /\ UNCHANGED <<toPrinter, open, partial, executed>>
    BY <1>10 DEF Idle, printerVars
  <2> QED BY <2>1 DEF Took
<1> QED BY <1>1, <1>3, <1>4, <1>6, <1>7, <1>8, <1>9, <1>10 DEF Printer

(* A place where the file is open stays one while the printer reads on.    *)
LEMMA OpenStep ==
  ASSUME NothingLost, TypeOK, Printer, NEW q \in 1..Len(toPrinter) + 1,
         OpenAt(q)
  PROVE  /\ ~Took => OpenAt(q)'
         /\ Took /\ q # 1 => OpenAt(q - 1)'
<1>1. CASE ~Took
  <2>1. toPrinter' = toPrinter /\ open' = open
    BY <1>1, SlowPrinter
  <2> QED BY <1>1, <2>1 DEF OpenAt, Opens, IsM29
<1>2. CASE Took /\ q # 1
  <2>1. /\ Len(toPrinter) \in Nat /\ q \in Nat /\ q >= 2
        /\ q - 1 \in 1..Len(toPrinter)
        /\ \A i \in 1..Len(toPrinter) - 1 : toPrinter'[i] = toPrinter[i + 1]
        /\ Arrived = toPrinter[1]
    BY <1>2, TookFirst DEF TypeOK
  <2>2. CASE open /\ \A i \in 1..q - 1 : ~IsM29(i)
    <3>1. Arrived.cmd # "M29"
      <4>1. 1 \in 1..q - 1
        BY <2>1
      <4> QED BY <2>1, <2>2, <4>1 DEF IsM29
    <3>2. open'
      BY <1>2, <2>2, <3>1, SlowPrinter, SlowLine
    <3>3. \A i \in 1..q - 1 - 1 : toPrinter'[i].cmd # "M29"
      <4> SUFFICES ASSUME NEW i \in 1..q - 1 - 1
                   PROVE  toPrinter'[i].cmd # "M29"
        OBVIOUS
      <4>1. i \in 1..Len(toPrinter) - 1 /\ i + 1 \in 1..q - 1
        BY <2>1
      <4> QED BY <2>1, <2>2, <4>1 DEF IsM29
    <3> QED BY <1>2, <3>2, <3>3 DEF OpenAt, IsM29
  <2>3. ASSUME NEW m \in 1..q - 1, Opens(m),
               \A i \in m + 1..q - 1 : ~IsM29(i)
        PROVE  OpenAt(q - 1)'
    <3>0. \A i \in m..q - 1 - 1 : toPrinter'[i].cmd # "M29"
      <4> SUFFICES ASSUME NEW i \in m..q - 1 - 1
                   PROVE  toPrinter'[i].cmd # "M29"
        OBVIOUS
      <4>1. i \in 1..Len(toPrinter) - 1 /\ i + 1 \in m + 1..q - 1
        BY <2>1
      <4> QED BY <2>1, <2>3, <4>1 DEF IsM29
    <3>1. CASE m = 1
      <4>1. Arrived.cmd = "M28"
        BY <2>1, <2>3, <3>1 DEF Opens
      <4>2. open'
        BY <1>2, <4>1, SlowLine
      <4> QED BY <3>0, <3>1, <4>2 DEF OpenAt, IsM29
    <3>2. CASE m # 1
      <4>1. PICK l \in Nat : l = m - 1
        BY <2>1
      <4>2. l \in 1..q - 1 - 1 /\ l \in 1..Len(toPrinter) - 1 /\ l + 1 = m
        BY <2>1, <3>2, <4>1
      <4>3. toPrinter'[l].cmd = "M28"
        BY <2>1, <2>3, <4>2 DEF Opens
      <4>4. \A i \in l + 1..q - 1 - 1 : toPrinter'[i].cmd # "M29"
        BY <3>0, <4>2
      <4> QED BY <4>2, <4>3, <4>4 DEF OpenAt, IsM29, Opens
    <3> QED BY <3>1, <3>2
  <2> QED BY <1>2, <2>2, <2>3 DEF OpenAt
<1> QED BY <1>1, <1>2

(* A file that is open at a place of the line stays so when more is        *)
(* printed.                                                                *)
LEMMA OpenPrinted ==
  ASSUME LineType, NEW s \in Seq(Item), toPrinter' = toPrinter \o s,
         open' = open, NEW q \in 1..Len(toPrinter) + 1, OpenAt(q)
  PROVE  OpenAt(q)'
<1>1. \A i \in 1..q - 1 : toPrinter'[i] = toPrinter[i]
  BY Printed DEF Sent
<1> QED BY <1>1 DEF OpenAt, Opens, IsM29

(* It is still open behind lines.                                          *)
LEMMA OpenBehind ==
  ASSUME LineType, NEW s \in Seq(Item), toPrinter' = toPrinter \o s,
         open' = open, OpenAt(Len(toPrinter) + 1),
         \A i \in 1..Len(s) : s[i].cmd \in {"G", "part"}
  PROVE  \A q \in Len(toPrinter) + 1..Len(toPrinter') + 1 : OpenAt(q)'
<1> SUFFICES ASSUME NEW q \in Len(toPrinter) + 1..Len(toPrinter') + 1
             PROVE  OpenAt(q)'
  OBVIOUS
<1>1. PICK l \in Nat, n \in Nat :
        /\ l = Len(toPrinter) /\ n = Len(s) /\ Len(toPrinter') = l + n
        /\ \A i \in 1..l : toPrinter'[i] = toPrinter[i]
        /\ \A i \in 1..n : toPrinter'[l + i] = s[i]
  BY Printed DEF Sent
<1>2. \A i \in l + 1..q - 1 : toPrinter'[i].cmd # "M29"
  <2> SUFFICES ASSUME NEW i \in l + 1..q - 1 PROVE toPrinter'[i].cmd # "M29"
    OBVIOUS
  <2>1. PICK j \in 1..n : l + j = i
    <3>1. i - l \in 1..n /\ l + (i - l) = i
      BY <1>1
    <3> QED BY <3>1
  <2> QED BY <1>1, <2>1
<1>3. CASE open /\ \A i \in 1..l : ~IsM29(i)
  <2>1. \A i \in 1..q - 1 : toPrinter'[i].cmd # "M29"
    <3> SUFFICES ASSUME NEW i \in 1..q - 1 PROVE toPrinter'[i].cmd # "M29"
      OBVIOUS
    <3>1. CASE i \in 1..l
      BY <1>1, <1>3, <3>1 DEF IsM29
    <3>2. CASE i \notin 1..l
      <4>1. i \in l + 1..q - 1
        BY <3>2
      <4> QED BY <1>2, <4>1
    <3> QED BY <3>1, <3>2
  <2> QED BY <1>3, <2>1 DEF OpenAt, IsM29
<1>4. ASSUME NEW m \in 1..l, Opens(m), \A i \in m + 1..l : ~IsM29(i)
      PROVE  OpenAt(q)'
  <2>1. toPrinter'[m].cmd = "M28" /\ m \in 1..q - 1
    BY <1>1, <1>4 DEF Opens
  <2>2. \A i \in m + 1..q - 1 : toPrinter'[i].cmd # "M29"
    <3> SUFFICES ASSUME NEW i \in m + 1..q - 1
                 PROVE  toPrinter'[i].cmd # "M29"
      OBVIOUS
    <3>1. CASE i \in m + 1..l
      BY <1>1, <1>4, <3>1 DEF IsM29
    <3>2. CASE i \notin m + 1..l
      <4>1. i \in l + 1..q - 1
        BY <1>1, <3>2
      <4> QED BY <1>2, <4>1
    <3> QED BY <3>1, <3>2
  <2> QED BY <2>1, <2>2 DEF OpenAt, IsM29, Opens
<1>5. l + 1 - 1 = l
  BY <1>1
<1> QED BY <1>1, <1>3, <1>4, <1>5 DEF OpenAt

(* What the handler prints: nothing, lines while it sends, or the commands *)
(* that end its sending.                                                   *)
Prints(s) ==
  /\ toPrinter' = toPrinter \o s /\ pc' # "opening"
  /\ \/ Sending /\ \A i \in 1..Len(s) : s[i].cmd \in {"G", "part"}
     \/ ~Sending' /\ \A i \in 1..Len(s) : s[i].cmd \notin {"G", "part"}

(* Every callback prints something of this kind, or nothing, and leaves the *)
(* file to the printer.                                                    *)
LEMMA CallbackPrints ==
  ASSUME TypeOK, Callback
  PROVE  /\ UNCHANGED <<open, partial, executed, file>>
         /\ \/ /\ toPrinter' = toPrinter
               /\ Sending' \/ pc' = "opening" => Sending \/ pc = "opening"
            \/ \E s \in Seq(Item) : Prints(s)
<1> USE DEF TypeOK
<1>0. UNCHANGED <<open, partial, executed, file>>
  BY Frames
<1>1. CASE \/ OpenAnswer \/ OpenTimeOut \/ Collect \/ LinePassed
           \/ EndOfBlock \/ IgnoreAnswer \/ SplitAnswer \/ Report
  <2>1. CASE OpenAnswer \/ OpenTimeOut
    BY <1>0, <2>1 DEF OpenAnswer, OpenTimeOut
  <2>2. CASE Collect \/ LinePassed \/ EndOfBlock
    BY <1>0, <2>2 DEF Collect, InWrite, LinePassed, EndOfBlock, Sending
  <2>3. CASE IgnoreAnswer \/ SplitAnswer
    BY <1>0, <2>3 DEF IgnoreAnswer, SplitAnswer, espVars, Sending
  <2>4. CASE Report
    BY <1>0, <2>4 DEF Report, Sending
  <2> QED BY <1>1, <2>1, <2>2, <2>3, <2>4
<1>2. CASE PrintLine
  <2>1. /\ Sending /\ pc' # "opening" /\ next \in 1..Lines
        /\ toPrinter' = Append(toPrinter, G(next))
    BY <1>2 DEF PrintLine, InWrite, Sending, BufferType
  <2>2. PICK g \in Item : g = G(next) /\ g.cmd = "G"
    <3>1. G(next) \in Item /\ G(next).cmd = "G"
      BY <2>1, SdUploadAssumption DEF G, Item, Commands
    <3> QED BY <3>1
  <2>3. PICK s \in Seq(Item) : s = <<g>> /\ Len(s) = 1 /\ s[1] = g
    <3>1. <<g>> \in Seq(Item) /\ Len(<<g>>) = 1 /\ <<g>>[1] = g
      BY ShortTails
    <3> QED BY <3>1
  <2>4. toPrinter' = toPrinter \o s
    BY <2>1, <2>2, <2>3 DEF LineType
  <2>5. \A i \in 1..Len(s) : s[i].cmd \in {"G", "part"}
    BY <2>2, <2>3
  <2> QED BY <1>0, <2>1, <2>4, <2>5 DEF Prints
<1>3. CASE LineFailed
  <2>1. CASE UNCHANGED toPrinter
    BY <1>0, <1>3, <2>1 DEF LineFailed, Sending
  <2>2. CASE ~UNCHANGED toPrinter
    <3>1. /\ Sending /\ pc' # "opening"
          /\ toPrinter' = toPrinter \o Pieces(buffer_line)
      BY <1>3, <2>2 DEF LineFailed, Sending
    <3>2. Prints(Pieces(buffer_line)) /\ Pieces(buffer_line) \in Seq(Item)
      BY <3>1, PiecesText, PiecesType DEF Prints, BufferType
    <3> QED BY <1>0, <3>2
  <2> QED BY <2>1, <2>2
<1>4. ASSUME NEW failed \in BOOLEAN, Settle(toPrinter, failed), ~Sending',
             pc' # "opening"
      PROVE  \E s \in Seq(Item) : Prints(s)
  <2>1. PICK s \in {Confirm, Cancel} : toPrinter' = toPrinter \o s
    BY <1>4 DEF Settle
  <2>2. s \in Seq(Item) /\ \A i \in 1..Len(s) : s[i].cmd \notin {"G", "part"}
    BY ClosingCommands, ClosingType
  <2> QED BY <1>4, <2>1, <2>2 DEF Prints
<1>5. CASE SkipBlock \/ Abort \/ EndEmpty \/ TailPassed
  <2>1. PICK failed \in BOOLEAN : Close(toPrinter, failed)
    <3>1. com_error \in BOOLEAN
      BY DEF FlagType
    <3> QED BY <3>1, <1>5 DEF SkipBlock, Abort, EndEmpty, TailPassed
  <2>2. buffer_line' = <<>> /\ Settle(toPrinter, failed)
    BY <2>1 DEF Close
  <2>3. (pc' = "between" /\ com_error') \/ pc' \in {"idle", "report"}
    <3>1. CASE SkipBlock
      BY <3>1 DEF SkipBlock
    <3>2. CASE Abort \/ EndEmpty \/ TailPassed
      BY <3>2 DEF Abort, EndEmpty, TailPassed
    <3> QED BY <1>5, <3>1, <3>2
  <2>4. ~Sending' /\ pc' # "opening"
    BY <2>2, <2>3 DEF Sending
  <2> QED BY <1>0, <1>4, <2>2, <2>4
<1>6. CASE EndTail
  <2>1. /\ Sending /\ pc' # "opening"
        /\ toPrinter' = toPrinter \o Pieces(buffer_line) \o AsIs(buffer_line)
    BY <1>6 DEF EndTail, Sending
  <2>2. PICK s \in Seq(Item), t \in Seq(Item) :
          /\ s = Pieces(buffer_line) /\ t = AsIs(buffer_line)
          /\ \A i \in 1..Len(s) : s[i].cmd \in {"G", "part"}
          /\ \A i \in 1..Len(t) : t[i].cmd \in {"G", "part"}
    BY PiecesText, PiecesType DEF BufferType
  <2>3. s \o t \in Seq(Item) /\ toPrinter' = toPrinter \o (s \o t)
    BY <2>1, <2>2 DEF LineType
  <2>4. \A i \in 1..Len(s \o t) : (s \o t)[i].cmd \in {"G", "part"}
    BY <2>2, ItemsGlued
  <2> QED BY <1>0, <2>1, <2>3, <2>4 DEF Prints
<1>7. CASE TailFailed
  <2>1. CASE MoreTries
    <3>1. /\ Sending /\ pc' # "opening"
          /\ toPrinter' = toPrinter \o AsIs(buffer_line)
      BY <1>7, <2>1 DEF TailFailed, Sending
    <3>2. Prints(AsIs(buffer_line)) /\ AsIs(buffer_line) \in Seq(Item)
      BY <3>1, PiecesText, PiecesType DEF Prints, BufferType
    <3> QED BY <1>0, <3>2
  <2>2. CASE ~MoreTries
    <3>1. Settle(toPrinter, TRUE) /\ pc' = "report"
      BY <1>7, <2>2 DEF TailFailed, Close
    <3>2. ~Sending'
      BY <3>1 DEF Sending
    <3> QED BY <1>0, <1>4, <3>1, <3>2
  <2> QED BY <2>1, <2>2
<1> QED BY <1>1, <1>2, <1>3, <1>5, <1>6, <1>7 DEF Callback

(* Every step keeps the invariant.                                         *)
LEMMA LateExecKept == ASSUME NothingLost PROVE Spec => []LateExecInv
<1>1. Init => LateExecInv
  BY DEF Init, LateExecInv, TextAtOpen, Sent, Sending
<1>2. ASSUME TypeOK, TypeOK', LateExecInv, [Moves]_uploadVars PROVE LateExecInv'
  <2> USE <1>2 DEF TypeOK
  <2>1. PICK l \in Nat : l = Len(toPrinter)
    BY DEF LineType
  <2>2. ASSUME UNCHANGED <<toPrinter, open, partial, executed>>,
               Sending' \/ pc' = "opening" => Sending \/ pc = "opening"
        PROVE  LateExecInv'
    BY <2>2 DEF LateExecInv, TextAtOpen, Sent, IsText, OpenAt, Opens, IsM29
  <2>3. ASSUME UNCHANGED <<open, partial, executed>>,
               NEW s \in Seq(Item), toPrinter' = toPrinter \o s
        PROVE  /\ ~executed' /\ (partial' # <<>> => open')
               /\ Len(toPrinter') = l + Len(s) /\ Len(s) \in Nat
               /\ \A i \in 1..l : IsText(i)' => OpenAt(i)'
               /\ \A i \in 1..Len(s) : toPrinter'[l + i] = s[i]
    <3>1. /\ Len(toPrinter') = l + Len(s) /\ Len(s) \in Nat
          /\ \A i \in 1..l : toPrinter'[i] = toPrinter[i]
          /\ \A i \in 1..Len(s) : toPrinter'[l + i] = s[i]
      BY <2>1, <2>3, Printed DEF Sent
    <3>2. ASSUME NEW i \in 1..l, IsText(i)' PROVE OpenAt(i)'
      <4>1. IsText(i) /\ i \in Sent /\ i \in 1..Len(toPrinter) + 1
        BY <2>1, <3>1, <3>2 DEF IsText, Sent
      <4>2. OpenAt(i)
        BY <4>1 DEF LateExecInv, TextAtOpen
      <4> QED BY <2>3, <4>1, <4>2, OpenPrinted
    <3> QED BY <2>3, <3>1, <3>2 DEF LateExecInv
  <2>4. ASSUME UNCHANGED <<open, partial, executed>>,
               NEW s \in Seq(Item), toPrinter' = toPrinter \o s,
               \A i \in 1..Len(s) : s[i].cmd \notin {"G", "part"}
        PROVE  ~executed' /\ TextAtOpen' /\ (partial' # <<>> => open')
    <3>1. TextAtOpen'
      <4> SUFFICES ASSUME NEW i \in 1..l + Len(s), IsText(i)'
                   PROVE  OpenAt(i)'
        BY <2>3, <2>4 DEF TextAtOpen, Sent
      <4>1. i \in 1..l
        <5>1. ASSUME i \notin 1..l PROVE FALSE
          <6>1. PICK j \in 1..Len(s) : l + j = i
            <7>1. i - l \in 1..Len(s) /\ l + (i - l) = i
              BY <2>3, <2>4, <5>1
            <7> QED BY <7>1
          <6> QED BY <2>3, <2>4, <6>1 DEF IsText
        <5> QED BY <5>1
      <4> QED BY <2>3, <2>4, <4>1
    <3> QED BY <2>3, <2>4, <3>1
  <2>5. CASE UNCHANGED uploadVars
    BY <2>2, <2>5 DEF uploadVars, Sending
  <2>6. CASE StartUpload
    <3>1. PICK s \in Seq(Item) : /\ toPrinter' = toPrinter \o s
                                 /\ Len(s) = 1 /\ s[1].cmd = "M28"
      <4>1. PICK g \in Item : g = M("M28") /\ g.cmd = "M28"
        <5>1. M("M28") \in Item /\ M("M28").cmd = "M28"
          BY SdUploadAssumption DEF M, Item, Commands
        <5> QED BY <5>1
      <4>2. toPrinter' = Append(toPrinter, g)
        BY <2>6, <4>1 DEF StartUpload
      <4>3. PICK s \in Seq(Item) : s = <<g>> /\ Len(s) = 1 /\ s[1] = g
        <5>1. <<g>> \in Seq(Item) /\ Len(<<g>>) = 1 /\ <<g>>[1] = g
          BY ShortTails
        <5> QED BY <5>1
      <4>4. toPrinter' = toPrinter \o s
        BY <4>2, <4>3 DEF LineType
      <4> QED BY <4>1, <4>3, <4>4
    <3>2. UNCHANGED <<open, partial, executed>> /\ pc' = "opening"
      BY <2>6 DEF StartUpload, printerVars
    <3>3. \A i \in 1..Len(s) : s[i].cmd \notin {"G", "part"}
      BY <3>1
    <3>4. ~executed' /\ TextAtOpen' /\ (partial' # <<>> => open')
      BY <2>4, <3>1, <3>2, <3>3
    <3>5. /\ Len(toPrinter') = l + 1 /\ toPrinter'[l + 1].cmd = "M28"
      <4>1. /\ Len(toPrinter') = l + Len(s)
            /\ \A i \in 1..Len(s) : toPrinter'[l + i] = s[i]
        BY <2>1, <3>1, Printed
      <4>2. toPrinter'[l + 1] = s[1]
        <5>1. 1 \in 1..Len(s)
          BY <3>1
        <5> QED BY <4>1, <5>1
      <4> QED BY <3>1, <4>1, <4>2
    <3>6. OpenAt(Len(toPrinter) + 1)'
      <4>1. PICK q \in Nat : q = Len(toPrinter') + 1 /\ q - 1 = l + 1
        BY <3>5
      <4>2. /\ l + 1 \in 1..q - 1
            /\ \A i \in l + 1 + 1..q - 1 : FALSE
        BY <4>1
      <4> QED BY <3>5, <4>1, <4>2 DEF OpenAt, Opens
    <3> QED BY <3>4, <3>6 DEF LateExecInv
  <2>7. CASE Callback
    <3>1. UNCHANGED <<open, partial, executed>>
      BY <2>7, CallbackPrints
    <3>2. ASSUME NEW s \in Seq(Item), Prints(s) PROVE LateExecInv'
      <4>1. toPrinter' = toPrinter \o s /\ pc' # "opening"
        BY <3>2 DEF Prints
      <4>2. CASE Sending /\ \A i \in 1..Len(s) : s[i].cmd \in {"G", "part"}
        <5>1. OpenAt(Len(toPrinter) + 1)
          BY <4>2 DEF LateExecInv
        <5>2. \A q \in l + 1..Len(toPrinter') + 1 : OpenAt(q)'
          BY <2>1, <3>1, <4>1, <4>2, <5>1, OpenBehind
        <5>3. TextAtOpen'
          <6> SUFFICES ASSUME NEW i \in 1..Len(toPrinter'), IsText(i)'
                       PROVE  OpenAt(i)'
            BY DEF TextAtOpen, Sent
          <6>1. i \in 1..l \/ i \in l + 1..Len(toPrinter') + 1
            BY <2>3, <3>1, <4>1
          <6> QED BY <2>3, <3>1, <4>1, <5>2, <6>1
        <5>4. OpenAt(Len(toPrinter) + 1)'
          <6>1. PICK q : /\ q = Len(toPrinter') + 1
                         /\ q \in l + 1..Len(toPrinter') + 1
            BY <2>3, <3>1, <4>1
          <6>2. OpenAt(q)'
            BY <5>2, <6>1
          <6> QED BY <6>1, <6>2 DEF OpenAt, Opens, IsM29
        <5> QED BY <2>3, <3>1, <4>1, <5>3, <5>4 DEF LateExecInv
      <4>3. CASE /\ ~Sending'
                 /\ \A i \in 1..Len(s) : s[i].cmd \notin {"G", "part"}
        <5>1. ~executed' /\ TextAtOpen' /\ (partial' # <<>> => open')
          BY <2>4, <3>1, <4>1, <4>3
        <5> QED BY <4>1, <4>3, <5>1 DEF LateExecInv
      <4> QED BY <3>2, <4>2, <4>3 DEF Prints
    <3> QED BY <2>2, <2>7, <3>1, <3>2, CallbackPrints
  <2>8. CASE Printer
    <3>1. (Sending' <=> Sending) /\ (pc' = "opening" <=> pc = "opening")
      BY <2>8, Frames DEF Sending
    <3>2. toPrinter # <<>> /\ IsText(1) => open
      <4> SUFFICES ASSUME toPrinter # <<>>, IsText(1) PROVE open
        OBVIOUS
      <4>1. 1 \in Sent
        BY DEF Sent, LineType
      <4> QED BY <4>1 DEF LateExecInv, TextAtOpen, OpenAt
    <3>3. ~executed' /\ (partial' # <<>> => open')
      BY <2>8, <3>2, SlowLine DEF LateExecInv
    <3>4. ASSUME NEW i \in Sent', IsText(i)' PROVE OpenAt(i)'
      <4>1. CASE Took
        <5>1. PICK j : j = i + 1 /\ j \in Sent /\ toPrinter'[i] = toPrinter[j]
                       /\ j \in 1..Len(toPrinter) + 1 /\ j # 1 /\ j - 1 = i
          BY <3>4, <4>1, TookFirst DEF Sent
        <5>2. OpenAt(j)
          BY <3>4, <5>1 DEF IsText, LateExecInv, TextAtOpen
        <5> QED BY <2>8, <4>1, <5>1, <5>2, OpenStep
      <4>2. CASE ~Took
        <5>1. toPrinter' = toPrinter
          BY <2>8, <4>2, SlowPrinter
        <5>2. i \in Sent /\ i \in 1..Len(toPrinter) + 1 /\ IsText(i)
          BY <2>1, <3>4, <5>1 DEF IsText, Sent
        <5>3. OpenAt(i)
          BY <5>2 DEF LateExecInv, TextAtOpen
        <5> QED BY <2>8, <4>2, <5>2, <5>3, OpenStep
      <4> QED BY <4>1, <4>2
    <3>5. OpenAt(Len(toPrinter) + 1) => OpenAt(Len(toPrinter) + 1)'
      <4> SUFFICES ASSUME OpenAt(Len(toPrinter) + 1)
                   PROVE  OpenAt(Len(toPrinter) + 1)'
        OBVIOUS
      <4>1. PICK q \in 1..Len(toPrinter) + 1 : q = Len(toPrinter) + 1
        BY <2>1
      <4>2. CASE Took
        <5>1. q # 1 /\ q - 1 = Len(toPrinter') + 1
          BY <4>1, <4>2, TookFirst
        <5>2. OpenAt(q - 1)'
          BY <2>8, <4>1, <4>2, <5>1, OpenStep
        <5> QED BY <5>1, <5>2 DEF OpenAt, Opens, IsM29
      <4>3. CASE ~Took
        <5>1. OpenAt(q)' /\ toPrinter' = toPrinter
          BY <2>8, <4>1, <4>3, OpenStep, SlowPrinter
        <5> QED BY <4>1, <5>1 DEF OpenAt, Opens, IsM29
      <4> QED BY <4>2, <4>3
    <3> QED BY <3>1, <3>3, <3>4, <3>5 DEF LateExecInv, TextAtOpen
  <2> QED BY <2>5, <2>6, <2>7, <2>8 DEF Moves
<1> QED BY <1>1, <1>2, TypeCorrect, Quiet, PTL DEF Spec

(* However late the printer answers, no line of the file is executed, if   *)
(* nothing is lost: the handler may run ahead of the printer, but what it  *)
(* has printed is obeyed in order.                                         *)
THEOREM NeverExecutedLate ==
  ASSUME NothingLost PROVE Spec => []NeverExecuted
<1>1. LateExecInv => NeverExecuted
  BY DEF LateExecInv, NeverExecuted
<1> QED BY <1>1, LateExecKept, PTL

(* M29 does no harm to a file that is closed or gone, nor does M30 with a  *)
(* name that no file has.                                                  *)
Harmless(i) == toPrinter[i].cmd \in {"M29", "M30_M30"}

(* M30 is still to come, and will find the file closed.                    *)
ToDelete ==
  \E m \in Sent : /\ toPrinter[m].cmd = "M30" /\ ClosedAt(m)
                  /\ \A i \in m + 1..Len(toPrinter) : Harmless(i)

(* M30 has been obeyed.                                                    *)
Gone == /\ ~open /\ partial = <<>> /\ file = NoFile
        /\ \A i \in Sent : Harmless(i)

Doomed == ToDelete \/ Gone

(* FailedLeavesNoFile is not inductive: that an upload has failed shows at *)
(* first only in filename, which has its prefix, and in what is printed.   *)
LateFailInv ==
  /\ ~bare => /\ pc \in {"between", "idle", "report"} /\ com_error
              /\ buffer_line = <<>>
              /\ Doomed
  /\ pc \in {"idle", "report"} /\ com_error => ~bare

(* The commands that end a failed upload delete its file; those printed    *)
(* once more do no harm.                                                   *)
LEMMA DoomedPrints ==
  ASSUME TypeOK, Settle(toPrinter, TRUE), UNCHANGED <<open, partial, file>>,
         ~bare => Doomed
  PROVE  ~bare' /\ Doomed'
<1>0. LineType
  BY DEF TypeOK
<1>1. PICK l \in Nat : l = Len(toPrinter)
  BY <1>0 DEF LineType
<1>2. PICK d \in Item :
        d = Deletion /\ d.cmd = IF bare THEN "M30" ELSE "M30_M30"
  <2>1. M("M30") \in Item /\ M("M30_M30") \in Item
    BY SdUploadAssumption DEF M, Item, Commands
  <2> QED BY <2>1 DEF Deletion, M
<1>3. PICK a \in Item : a = M("M29") /\ a.cmd = "M29"
  <2>1. M("M29") \in Item /\ M("M29").cmd = "M29"
    BY SdUploadAssumption DEF M, Item, Commands
  <2> QED BY <2>1
<1>4. PICK s \in Seq(Item) : /\ toPrinter' = toPrinter \o s /\ Len(s) = 3
                             /\ s[1] = a /\ s[2] = a /\ s[3] = d
  <2>1. Cancel = Append(<<a, a>>, d)
    BY <1>2, <1>3 DEF Cancel, Confirm
  <2>2. Cancel = <<a, a, d>> /\ <<a, a, d>> \in Seq(Item)
    BY <1>2, <1>3, <2>1, AppendThree, ShortTails
  <2>3. toPrinter' = toPrinter \o <<a, a, d>>
    BY <2>2 DEF Settle
  <2> QED BY <2>2, <2>3
<1>5. /\ Len(toPrinter') = l + 3
      /\ \A i \in 1..l : toPrinter'[i] = toPrinter[i]
      /\ toPrinter'[l + 1] = a /\ toPrinter'[l + 2] = a
      /\ toPrinter'[l + 3] = d
  <2>1. /\ Len(toPrinter') = l + Len(s)
        /\ \A i \in 1..l : toPrinter'[i] = toPrinter[i]
        /\ \A i \in 1..Len(s) : toPrinter'[l + i] = s[i]
    BY <1>0, <1>1, <1>4, Printed DEF Sent
  <2>2. 1 \in 1..Len(s) /\ 2 \in 1..Len(s) /\ 3 \in 1..Len(s)
    BY <1>4
  <2> QED BY <1>4, <2>1, <2>2
<1>6. ~bare'
  BY DEF Settle
<1>7. CASE bare
  <2>1. l + 3 \in 1..Len(toPrinter') /\ toPrinter'[l + 3].cmd = "M30"
    BY <1>2, <1>5, <1>7
  <2>2. \A i \in l + 3 + 1..Len(toPrinter') : FALSE
    BY <1>5
  <2>3. PICK q \in Nat : q = l + 3 /\ q - 1 = l + 2 /\ l + 1 \in 1..q - 1
    OBVIOUS
  <2>4. ClosedAt(q)'
    <3>1. \A i \in l + 1 + 1..q - 1 : toPrinter'[i].cmd # "M28"
      BY <1>3, <1>5, <2>3
    <3> QED BY <1>3, <1>5, <2>3, <3>1 DEF ClosedAt, IsM29, Opens
  <2>5. ToDelete'
    BY <2>1, <2>2, <2>3, <2>4 DEF ToDelete, Sent
  <2> QED BY <1>6, <2>5 DEF Doomed
<1>8. CASE ~bare
  <2>1. \A i \in l + 1..Len(toPrinter') :
          toPrinter'[i].cmd \in {"M29", "M30_M30"}
    BY <1>2, <1>3, <1>5, <1>8
  <2>2. ASSUME NEW m \in Sent, toPrinter[m].cmd = "M30", ClosedAt(m),
               \A i \in m + 1..Len(toPrinter) : Harmless(i)
        PROVE  ToDelete'
    <3>1. m \in 1..l /\ m \in 1..Len(toPrinter) + 1
      BY <1>1 DEF Sent
    <3>2. ClosedAt(m)'
      BY <1>0, <1>4, <2>2, <3>1, ClosedPrinted
    <3>3. \A i \in m + 1..Len(toPrinter') :
            toPrinter'[i].cmd \in {"M29", "M30_M30"}
      <4> SUFFICES ASSUME NEW i \in m + 1..Len(toPrinter')
                   PROVE  toPrinter'[i].cmd \in {"M29", "M30_M30"}
        OBVIOUS
      <4>1. CASE i \in m + 1..l
        BY <1>1, <1>5, <2>2, <3>1, <4>1 DEF Harmless
      <4>2. CASE i \notin m + 1..l
        <5>1. i \in l + 1..Len(toPrinter')
          BY <1>5, <3>1, <4>2
        <5> QED BY <2>1, <5>1
      <4> QED BY <4>1, <4>2
    <3>4. toPrinter'[m].cmd = "M30" /\ m \in 1..Len(toPrinter')
      BY <1>5, <2>2, <3>1
    <3> QED BY <3>2, <3>3, <3>4 DEF ToDelete, Sent, Harmless
  <2>3. ASSUME Gone PROVE Gone'
    <3>1. \A i \in 1..Len(toPrinter') :
            toPrinter'[i].cmd \in {"M29", "M30_M30"}
      <4> SUFFICES ASSUME NEW i \in 1..Len(toPrinter')
                   PROVE  toPrinter'[i].cmd \in {"M29", "M30_M30"}
        OBVIOUS
      <4>1. CASE i \in 1..l
        BY <1>1, <1>5, <2>3, <4>1 DEF Gone, Sent, Harmless
      <4>2. CASE i \notin 1..l
        <5>1. i \in l + 1..Len(toPrinter')
          BY <1>5, <4>2
        <5> QED BY <2>1, <5>1
      <4> QED BY <4>1, <4>2
    <3> QED BY <2>3, <3>1 DEF Gone, Sent, Harmless
  <2>4. ToDelete => ToDelete'
    <3> SUFFICES ASSUME ToDelete PROVE ToDelete'
      OBVIOUS
    <3>1. PICK m \in Sent : /\ toPrinter[m].cmd = "M30" /\ ClosedAt(m)
                            /\ \A i \in m + 1..Len(toPrinter) : Harmless(i)
      BY DEF ToDelete
    <3> QED BY <2>2, <3>1
  <2> QED BY <1>6, <1>8, <2>3, <2>4 DEF Doomed
<1> QED BY <1>7, <1>8

(* The printer closes the file, deletes it, and has deleted it.            *)
LEMMA DoomedStep ==
  ASSUME NothingLost, TypeOK, Printer, Doomed
  PROVE  Doomed'
<1>0. /\ LineType /\ Len(toPrinter) \in Nat
      /\ ~Took => toPrinter' = toPrinter /\ open' = open
      /\ ~Took => (partial = <<>> => file' = file /\ partial' = <<>>)
  BY SlowPrinter DEF TypeOK, LineType
<1>1. Took => /\ Len(toPrinter') = Len(toPrinter) - 1
              /\ \A i \in 1..Len(toPrinter) - 1 :
                   toPrinter'[i] = toPrinter[i + 1]
              /\ Arrived = toPrinter[1] /\ Len(toPrinter) >= 1
  BY <1>0, TookFirst
<1>2. CASE Gone
  <2>1. CASE ~Took
    BY <1>0, <1>2, <2>1 DEF Gone, Sent, Harmless, Doomed
  <2>2. CASE Took
    <3>1. Arrived.cmd \in {"M29", "M30_M30"}
      <4>1. 1 \in Sent
        BY <1>0, <1>1, <2>2 DEF Sent
      <4> QED BY <1>1, <1>2, <2>2, <4>1 DEF Gone, Harmless
    <3>2. ~open' /\ partial' = <<>> /\ file' = file
      BY <1>2, <2>2, <3>1, SlowPrinter, SlowLine DEF Gone
    <3>3. \A i \in 1..Len(toPrinter') :
            toPrinter'[i].cmd \in {"M29", "M30_M30"}
      <4> SUFFICES ASSUME NEW i \in 1..Len(toPrinter')
                   PROVE  toPrinter'[i].cmd \in {"M29", "M30_M30"}
        OBVIOUS
      <4>1. i \in 1..Len(toPrinter) - 1 /\ i + 1 \in Sent
        BY <1>0, <1>1, <2>2 DEF Sent
      <4> QED BY <1>1, <1>2, <2>2, <4>1 DEF Gone, Harmless
    <3> QED BY <1>2, <3>2, <3>3 DEF Gone, Sent, Harmless, Doomed
  <2> QED BY <2>1, <2>2
<1>3. ASSUME NEW m \in Sent, toPrinter[m].cmd = "M30", ClosedAt(m),
             \A i \in m + 1..Len(toPrinter) : Harmless(i)
      PROVE  Doomed'
  <2>0. m \in 1..Len(toPrinter) + 1 /\ m \in Nat /\ m <= Len(toPrinter)
    BY <1>0 DEF Sent
  <2>1. CASE ~Took
    <3>1. ClosedAt(m)'
      BY <1>3, <2>0, <2>1, ClosedStep
    <3> QED BY <1>0, <1>3, <2>1, <3>1 DEF ToDelete, Sent, Harmless, Doomed
  <2>2. CASE Took /\ m = 1
    <3>1. Arrived.cmd = "M30" /\ ~open
      BY <1>1, <1>3, <2>2 DEF ClosedAt
    <3>2. ~open' /\ partial' = <<>> /\ file' = NoFile
      BY <2>2, <3>1, SlowPrinter, SlowLine
    <3>3. \A i \in 1..Len(toPrinter') :
            toPrinter'[i].cmd \in {"M29", "M30_M30"}
      <4> SUFFICES ASSUME NEW i \in 1..Len(toPrinter')
                   PROVE  toPrinter'[i].cmd \in {"M29", "M30_M30"}
        OBVIOUS
      <4>1. i \in 1..Len(toPrinter) - 1 /\ i + 1 \in m + 1..Len(toPrinter)
        BY <1>0, <1>1, <2>2
      <4> QED BY <1>1, <1>3, <2>2, <4>1 DEF Harmless
    <3> QED BY <3>2, <3>3 DEF Gone, Sent, Harmless, Doomed
  <2>3. CASE Took /\ m # 1
    <3>1. PICK n \in 1..Len(toPrinter) - 1 : n = m - 1 /\ n + 1 = m
      BY <2>0, <2>3
    <3>2. ClosedAt(n)'
      BY <1>3, <2>0, <2>3, <3>1, ClosedStep
    <3>3. toPrinter'[n].cmd = "M30" /\ n \in 1..Len(toPrinter')
      BY <1>0, <1>1, <1>3, <2>3, <3>1
    <3>4. \A i \in n + 1..Len(toPrinter') :
            toPrinter'[i].cmd \in {"M29", "M30_M30"}
      <4> SUFFICES ASSUME NEW i \in n + 1..Len(toPrinter')
                   PROVE  toPrinter'[i].cmd \in {"M29", "M30_M30"}
        OBVIOUS
      <4>1. i \in 1..Len(toPrinter) - 1 /\ i + 1 \in m + 1..Len(toPrinter)
        BY <1>0, <1>1, <2>3, <3>1
      <4> QED BY <1>1, <1>3, <2>3, <4>1 DEF Harmless
    <3> QED BY <3>2, <3>3, <3>4 DEF ToDelete, Sent, Harmless, Doomed
  <2> QED BY <2>1, <2>2, <2>3
<1>4. CASE ToDelete
  <2>1. PICK m \in Sent : /\ toPrinter[m].cmd = "M30" /\ ClosedAt(m)
                          /\ \A i \in m + 1..Len(toPrinter) : Harmless(i)
    BY <1>4 DEF ToDelete
  <2> QED BY <1>3, <2>1
<1> QED BY <1>2, <1>4 DEF Doomed

(* Every step keeps the invariant.                                         *)
LEMMA LateFailKept == ASSUME NothingLost PROVE Spec => []LateFailInv
<1>1. Init => LateFailInv
  BY DEF Init, LateFailInv
<1>2. ASSUME TypeOK, TypeOK', LateFailInv, [Moves]_uploadVars PROVE LateFailInv'
  <2> USE <1>2 DEF TypeOK
  <2>0. ASSUME UNCHANGED <<toPrinter, open, partial, file>>, Doomed
        PROVE  Doomed'
    BY <2>0 DEF Doomed, ToDelete, Gone, Sent, Harmless, ClosedAt, IsM29, Opens
  <2>1. CASE UNCHANGED uploadVars
    BY <2>0, <2>1 DEF uploadVars, LateFailInv
  <2>2. CASE StartUpload
    BY <2>2 DEF StartUpload, LateFailInv
  <2>3. CASE Callback
    <3>0. UNCHANGED <<open, partial, file>>
      BY <2>3, Frames
    <3>1. CASE \/ OpenAnswer \/ OpenTimeOut \/ Collect \/ PrintLine
               \/ LinePassed \/ LineFailed \/ EndOfBlock \/ EndTail
      <4>1. bare /\ bare' = bare /\ pc' \notin {"idle", "report"}
        <5>1. CASE OpenAnswer \/ OpenTimeOut
          BY <5>1 DEF OpenAnswer, OpenTimeOut, LateFailInv
        <5>2. CASE Collect \/ PrintLine
          BY <5>2 DEF Collect, PrintLine, InWrite, LateFailInv
        <5>3. CASE LinePassed \/ LineFailed
          BY <5>3 DEF LinePassed, LineFailed, LateFailInv
        <5>4. CASE EndOfBlock \/ EndTail
          BY <5>4 DEF EndOfBlock, EndTail, LateFailInv
        <5> QED BY <3>1, <5>1, <5>2, <5>3, <5>4
      <4> QED BY <4>1 DEF LateFailInv, FlagType
    <3>2. CASE IgnoreAnswer \/ SplitAnswer \/ Report
      <4>1. UNCHANGED <<bare, com_error, buffer_line, toPrinter>>
        BY <3>2 DEF IgnoreAnswer, SplitAnswer, Report, espVars
      <4>2. pc' = pc \/ (pc = "report" /\ pc' = "idle")
        BY <3>2 DEF IgnoreAnswer, SplitAnswer, Report, espVars
      <4> QED BY <2>0, <3>0, <4>1, <4>2 DEF LateFailInv
    <3>3. CASE SkipBlock \/ Abort
      <4>1. /\ Settle(toPrinter, TRUE) /\ buffer_line' = <<>> /\ com_error'
            /\ pc' \in {"between", "idle"}
        <5>1. CASE SkipBlock
          BY <5>1 DEF SkipBlock, Close
        <5>2. CASE Abort
          BY <5>2 DEF Abort, Close
        <5> QED BY <3>3, <5>1, <5>2
      <4>2. ~bare' /\ Doomed'
        BY <3>0, <4>1, DoomedPrints DEF LateFailInv
      <4> QED BY <4>1, <4>2 DEF LateFailInv
    <3>4. CASE EndEmpty \/ TailPassed
      <4>1. /\ Settle(toPrinter, com_error) /\ buffer_line' = <<>>
            /\ com_error' = com_error /\ pc' = "report"
        BY <3>4 DEF EndEmpty, TailPassed, Close
      <4>2. CASE com_error
        <5>1. com_error = TRUE
          BY <4>2 DEF FlagType
        <5>2. ~bare' /\ Doomed'
          BY <3>0, <4>1, <5>1, DoomedPrints DEF LateFailInv
        <5> QED BY <4>1, <4>2, <5>2 DEF LateFailInv
      <4>3. CASE ~com_error
        <5>1. bare' = bare /\ bare
          BY <4>1, <4>3 DEF Settle, LateFailInv, FlagType
        <5> QED BY <4>1, <4>3, <5>1 DEF LateFailInv
      <4> QED BY <4>2, <4>3
    <3>5. CASE TailFailed
      <4>0. pc = "tail" /\ bare
        BY <3>5 DEF TailFailed, LateFailInv
      <4>1. CASE MoreTries
        <5>1. pc' = "tail" /\ bare'
          BY <3>5, <4>0, <4>1 DEF TailFailed
        <5> QED BY <5>1 DEF LateFailInv
      <4>2. CASE ~MoreTries
        <5>1. /\ Settle(toPrinter, TRUE) /\ buffer_line' = <<>> /\ com_error'
              /\ pc' = "report"
          BY <3>5, <4>2 DEF TailFailed, Close
        <5>2. ~bare' /\ Doomed'
          BY <3>0, <4>0, <5>1, DoomedPrints
        <5> QED BY <5>1, <5>2 DEF LateFailInv
      <4> QED BY <4>1, <4>2
    <3> QED BY <2>3, <3>1, <3>2, <3>3, <3>4, <3>5 DEF Callback
  <2>4. CASE Printer
    <3>1. UNCHANGED <<pc, buffer_line, com_error, bare>>
      BY <2>4, Frames
    <3>2. ~bare => Doomed'
      BY <2>4, DoomedStep DEF LateFailInv
    <3> QED BY <3>1, <3>2 DEF LateFailInv
  <2> QED BY <2>1, <2>2, <2>3, <2>4 DEF Moves
<1> QED BY <1>1, <1>2, TypeCorrect, Quiet, PTL DEF Spec

(* However late the printer answers, a failed or aborted upload leaves no  *)
(* file and no file open, if nothing is lost.                              *)
THEOREM FailedLeavesNoFileLate ==
  ASSUME NothingLost PROVE Spec => []FailedLeavesNoFile
<1>1. TypeOK /\ LateFailInv => FailedLeavesNoFile
  <2> SUFFICES ASSUME TypeOK, LateFailInv, pc = "idle", com_error,
                      toPrinter = <<>>
               PROVE  ~open /\ file = NoFile
    BY DEF FailedLeavesNoFile
  <2>1. Doomed
    BY DEF LateFailInv
  <2>2. Sent = {}
    BY DEF Sent
  <2> QED BY <2>1, <2>2 DEF Doomed, ToDelete, Gone
<1> QED BY <1>1, LateFailKept, TypeCorrect, PTL
=============================================================================
