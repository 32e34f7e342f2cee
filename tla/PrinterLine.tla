---------------------------- MODULE PrinterLine ----------------------------
(***************************************************************************)
(* Who reads and who writes the printer's serial line: the bridge to the   *)
(* TCP clients (esp3d/bridge.cpp), the interpreter that looks for commands *)
(* in what passes (esp3d/command.cpp), and the web command that takes the  *)
(* line for itself while it collects the printer's answer                  *)
(* (handle_web_command() of esp3d/webinterface.cpp).  They all run in      *)
(* loop(), one after the other; the printer and the clients do not wait.   *)
(*                                                                         *)
(* What the printer sends is cut in pieces as far as the code can tell     *)
(* them apart: "ok", "wait", "busy:" and "T:" (a temperature), "x" for     *)
(* other text, ";", a control character "tab", and "nl".  What follows an  *)
(* "ok" in its line begins with a space.  A piece is known by its place in *)
(* the sequence of all that was sent.                                      *)
(***************************************************************************)
EXTENDS Naturals, Sequences, SequencesExt

CONSTANTS
  Clients,      \* TCP clients
  MAX_SRV_CLIENTS, MAX_TRY,
  MaxTemps,     \* temperatures in an answer that are too many: 5 pass
  Loads         \* bounds, one of which holds for a behaviour: the firmware
                \* target, the pieces the printer sends and how many,
                \* clients that come and pieces they send, web requests

None == "none"

Pieces == {"ok", "wait", "busy:", "T:", "x", ";", "tab", "nl"}

ASSUME PrinterLineAssumption ==
  /\ None \notin Clients
  /\ MAX_SRV_CLIENTS \in Nat /\ MAX_TRY \in Nat \ {0} /\ MaxTemps \in Nat
  /\ Loads \subseteq [repetier : BOOLEAN, pieces : SUBSET Pieces, sent : Nat,
                       clients : SUBSET Clients, typed : Nat, requests : Nat]

Slot == 1..MAX_SRV_CLIENTS

VARIABLES
  load,            \* the bounds of this behaviour
  pc,              \* the call of loop(), or the step of a call, that is next
  sent, by,        \* pieces sent, and who read each of them so far: the
                   \* bridge (0), or a web request (its number)
  serial, tcp,     \* the two readers: buffer and static flags
  executed,        \* the text from the serial line that was looked at last for
                   \* a command, and the place of the newline behind it
  serverClients,   \* the client in each slot, or None
  link,            \* of each client: away, pending, connected, left, rejected
  typed, waiting,  \* pieces each client has sent; those not read yet
  blockserial,
  request,         \* the web request in hand, or None
  answer,          \* what was answered: nothing, a header, all
  current_buffer, count, temp_counter, requests,
  told,            \* the places of what the answer has given to the browser
  owed, cause,     \* commands the printer has to acknowledge; of each "ok",
                   \* whose command it acknowledges
  outstanding      \* history: the printer owed something when it was emptied

bridgeVars == <<serial, tcp, executed, serverClients, link, typed, waiting>>
webVars    == <<request, answer, current_buffer, count, temp_counter, told,
                requests, outstanding, blockserial>>
printerVars == <<sent, owed, cause, load>>
vars == <<pc, by, printerVars, bridgeVars, webVars>>

-----------------------------------------------------------------------------
(* The readers.  A reader is its buffer and two static flags.              *)

Printable(b) == b \notin {"tab", "nl"}

Fresh == [buffer |-> <<>>, previous_was_char |-> FALSE, iscomment |-> FALSE]

(* Mutant: the buffer is not emptied after what is not a character.        *)
StartedLate(rd) == rd

(* The first character after something else starts a new text.             *)
Started(rd) == IF rd.previous_was_char THEN rd ELSE Fresh

(* read_buffer_serial(b), read_buffer_tcp(b): piece b comes from place at. *)
Read(rd, b, at) ==
  LET s == Started(rd)
      iscomment == s.iscomment \/ b = ";"
  IN  [buffer |-> IF Printable(b) /\ ~iscomment
                    THEN Append(s.buffer, [text |-> b, at |-> at])
                    ELSE s.buffer,
       previous_was_char |-> Printable(b),
       iscomment |-> iscomment /\ b # "nl"]

(* For a Repetier printer, check_command() returns before it looks for a   *)
(* command.                                                                *)
Skipped(buffer) ==
  /\ load.repetier
  /\ \E j \in DOMAIN buffer : \/ buffer[j].text = "busy:"
                              \/ j = 1 /\ buffer[j].text \in {"ok", "wait"}

(* At a newline, it is given a text of more than three characters; "ok"    *)
(* alone is shorter.                                                       *)
Found(rd, b) ==
  /\ b = "nl" /\ ~Skipped(rd.buffer)
  /\ \E j \in DOMAIN rd.buffer : rd.buffer[j].text # "ok" \/ j > 1

Nothing == [text |-> <<>>, end |-> 0]

(* read_buffer_serial(sbuf, len): what has come, one piece after another.  *)
Interpreted ==
  LET after[k \in Len(by)..Len(sent)] ==
        IF k = Len(by) THEN [reader |-> serial, cmd |-> executed]
        ELSE LET rd == Read(after[k - 1].reader, sent[k], k)
             IN  [reader |-> rd,
                  cmd |-> IF Found(rd, sent[k])
                            THEN [text |-> rd.buffer, end |-> k]
                          ELSE after[k - 1].cmd]
  IN  after[Len(sent)]

TakenBy(reader) ==
  by \o [i \in 1..(Len(sent) - Len(by)) |-> reader]

(* processFromSerial2TCP(): all that has come is copied to the connected   *)
(* clients and given to the interpreter.                                   *)
FromSerial ==
  /\ by' = TakenBy(0)
  /\ serial' = Interpreted.reader
  /\ executed' = Interpreted.cmd

Init ==
  /\ load \in Loads
  /\ pc = "loop" /\ sent = <<>> /\ by = <<>>
  /\ serial = Fresh /\ tcp = Fresh /\ executed = Nothing
  /\ serverClients = [i \in Slot |-> None]
  /\ link = [c \in Clients |-> "away"]
  /\ typed = [c \in Clients |-> <<>>] /\ waiting = [c \in Clients |-> <<>>]
  /\ blockserial = FALSE /\ told = {}
  /\ request = None /\ answer = "nothing" /\ current_buffer = <<>>
  /\ count = 0 /\ temp_counter = 0 /\ requests = 0
  /\ owed = <<>> /\ cause = <<>> /\ outstanding = FALSE

-----------------------------------------------------------------------------
(* The printer and the clients.  The printer acknowledges each line it is  *)
(* given, in order, and says other things as it likes.                     *)

PrinterSends ==
  /\ Len(sent) < load.sent
  /\ \E b \in load.pieces :
       /\ sent' = Append(sent, b)
       /\ b = "ok" => owed # <<>>
       /\ cause' = Append(cause, IF b = "ok" THEN Head(owed) ELSE None)
       /\ owed' = IF b = "ok" THEN Tail(owed) ELSE owed
  /\ UNCHANGED <<load, pc, by, bridgeVars, webVars>>

Connect(c) ==
  /\ link[c] = "away"
  /\ link' = [link EXCEPT ![c] = "pending"]
  /\ UNCHANGED <<serverClients, typed, waiting>>

Type(c) ==
  /\ link[c] = "connected" /\ Len(typed[c]) < load.typed
  /\ \E b \in {"x", "nl"} :
       /\ typed' = [typed EXCEPT ![c] = Append(@, b)]
       /\ waiting' = [waiting EXCEPT ![c] = Append(@, b)]
  /\ UNCHANGED <<serverClients, link>>

(* connected() stays true until what the client sent has been read.        *)
Leave(c) ==
  /\ link[c] = "connected" /\ waiting[c] = <<>>
  /\ link' = [link EXCEPT ![c] = "left"]
  /\ UNCHANGED <<serverClients, typed, waiting>>

ClientMoves ==
  /\ \E c \in load.clients : Connect(c) \/ Type(c) \/ Leave(c)
  /\ UNCHANGED <<pc, printerVars, by, serial, tcp, executed, webVars>>

-----------------------------------------------------------------------------
(* BRIDGE::processFromTCP2Serial()                                         *)

Pending == {c \in Clients : link[c] = "pending"}

Free(i) == serverClients[i] = None \/ link[serverClients[i]] # "connected"

(* Each free or dead slot takes what available() returns: the clients that *)
(* are pending, in some order, and nothing once there are none.            *)
FillSlots ==
  /\ pc = "loop" /\ Pending # {}
  /\ pc' = "reject"
  /\ \E got \in [{i \in Slot : Free(i)} -> Pending \cup {None}] :
       LET in == {got[i] : i \in DOMAIN got} \ {None}
       IN  /\ \A i, j \in DOMAIN got : got[i] = got[j] => i = j \/ got[i] = None
           /\ in = Pending \/ \A i \in DOMAIN got : got[i] # None
           /\ serverClients' = [i \in Slot |-> IF Free(i) THEN got[i]
                                               ELSE serverClients[i]]
           /\ link' = [c \in Clients |->
                          IF c \in in THEN "connected"
                          ELSE IF \E i \in Slot : Free(i) /\ serverClients[i] = c
                            THEN "left" ELSE link[c]]
  /\ UNCHANGED <<printerVars, by, serial, tcp, executed, typed, waiting,
                 webVars>>

(* Mutant: nobody is stopped when the slots are taken.                     *)
RejectNone ==
  /\ pc = "reject"
  /\ pc' = "tcp"
  /\ UNCHANGED <<printerVars, by, bridgeVars, webVars>>

(* After them, whoever is pending still, or has come since, is stopped.    *)
Reject ==
  /\ pc = "reject"
  /\ pc' = "tcp"
  /\ IF Pending = {} THEN UNCHANGED link
     ELSE \E c \in Pending : link' = [link EXCEPT ![c] = "rejected"]
  /\ UNCHANGED <<printerVars, by, serial, tcp, executed, serverClients, typed,
                 waiting, webVars>>

NoClient == /\ pc = "loop" /\ Pending = {}
            /\ pc' = "tcp"
            /\ UNCHANGED <<printerVars, by, bridgeVars, webVars>>

(* What the clients of the slots have sent goes to the printer and to the  *)
(* interpreter, slot by slot, while nobody holds the line.                 *)
Attached == {c \in Clients : link[c] = "connected" /\ c \in {serverClients[i] : i \in Slot}}

FromTCP ==
  /\ pc = "tcp"
  /\ IF blockserial \/ \A c \in Attached : waiting[c] = <<>>
     THEN pc' = "serial" /\ UNCHANGED <<tcp, waiting, owed>>
     ELSE \E c \in Attached :
            /\ waiting[c] # <<>>
            /\ UNCHANGED pc
            /\ tcp' = Read(tcp, Head(waiting[c]), c)
            /\ owed' = IF Head(waiting[c]) = "nl" THEN Append(owed, "other")
                       ELSE owed
            /\ waiting' = [waiting EXCEPT ![c] = Tail(@)]
  /\ UNCHANGED <<sent, cause, load, by, serial, executed, serverClients, link, typed,
                 webVars>>

FromSerial2TCP ==
  /\ pc = "serial"
  /\ pc' = "web"
  /\ FromSerial
  /\ UNCHANGED <<printerVars, tcp, serverClients, link, typed, waiting,
                 webVars>>

-----------------------------------------------------------------------------
(* handleClient(): no request, or one that a browser may send: a           *)
(* printer command, with its answer or without one.  Both would be refused *)
(* if the line were blocked, which it never is when loop() comes here.     *)

NoRequest ==
  /\ pc = "web"
  /\ pc' = "loop"
  /\ answer' = "nothing"
  /\ UNCHANGED <<printerVars, by, bridgeVars, request, current_buffer, count,
                 temp_counter, told, requests, outstanding, blockserial>>

(* handle_web_command_silent(): printed at once, acknowledged unseen.      *)
Silent ==
  /\ pc = "web" /\ requests < load.requests /\ ~blockserial
  /\ pc' = "loop"
  /\ requests' = requests + 1
  /\ owed' = Append(owed, "other")
  /\ answer' = "all"
  /\ UNCHANGED <<sent, cause, load, by, bridgeVars, request, current_buffer, count,
                 temp_counter, told, outstanding, blockserial>>

(* handle_web_command() takes the line, and empties it once before the     *)
(* header of the answer and once after it.                                 *)
Take ==
  /\ pc = "web" /\ requests < load.requests /\ ~blockserial
  /\ pc' = "purge"
  /\ requests' = requests + 1
  /\ blockserial' = TRUE
  /\ request' = "command" /\ answer' = "header"
  /\ current_buffer' = <<>> /\ count' = 0 /\ temp_counter' = 0 /\ told' = {}
  /\ FromSerial
  /\ UNCHANGED <<printerVars, tcp, serverClients, link, typed, waiting,
                 outstanding>>

(* Mutant: the line is not emptied again after the header was sent.        *)
NotPurged == UNCHANGED <<by, serial, executed>>

Purged == FromSerial

Purge ==
  /\ pc = "purge"
  /\ pc' = "command"
  /\ Purged
  /\ outstanding' = (owed # <<>>)
  /\ UNCHANGED <<printerVars, tcp, serverClients, link, typed, waiting,
                 request, answer, current_buffer, count, temp_counter, told,
                 requests, blockserial>>

Command ==
  /\ pc = "command"
  /\ pc' = "read"
  /\ owed' = Append(owed, "web")
  /\ UNCHANGED <<sent, cause, load, by, bridgeVars, webVars>>

(* Of the pieces in hand, a sequence of places: the ends of lines, the     *)
(* beginning of a line and the line, without its newline.                  *)
Ends(buf) == {i \in DOMAIN buf : sent[buf[i]] = "nl"}

Begin(buf, e) ==
  LET before == {k \in Ends(buf) : k < e}
  IN  IF before = {} THEN 1 ELSE Max(before) + 1

Line(buf, e) ==
  LET places == SubSeq(buf, Begin(buf, e), e - 1)
  IN  [i \in DOMAIN places |-> [text |-> sent[places[i]], at |-> places[i]]]

(* A line that ends the answer.  "wait" is what an idle printer says.      *)
Acknowledged(line) ==
  Len(line) = 1 /\ \A i \in DOMAIN line : line[i].text \in {"ok", "wait"}

(* A line that counts as a temperature: check_command() found one, unless  *)
(* it skips the line; then "busy:" counts.                                 *)
Temperature(line) ==
  \E i \in DOMAIN line :
     line[i].text = IF Skipped(line) THEN "busy:" ELSE "T:"

(* A line the browser is not given.                                        *)
Hidden(line) ==
  load.repetier /\ \E i \in DOMAIN line : i = 1 /\ line[i].text = "ok"

TooMany(buf, e) ==
  temp_counter
    + Cardinality({k \in Ends(buf) : k <= e /\ Temperature(Line(buf, k))})
  > MaxTemps

(* The lines at which the answer may end, those before the first of them   *)
(* and, of these and that one, those given to check_command().             *)
Stops(buf) ==
  {e \in Ends(buf) : Acknowledged(Line(buf, e)) \/ TooMany(buf, e)}

Passed(buf) ==
  LET stops == Stops(buf) IN {e \in Ends(buf) : \A k \in stops : e < k}

Looked(buf) ==
  LET stops == Stops(buf)
  IN  {e \in Ends(buf) : ~Acknowledged(Line(buf, e)) /\ \A k \in stops : e <= k}

(* The last text that check_command() looked at for a command.             *)
Checked(buf) ==
  LET looked == {e \in Looked(buf) : Line(buf, e) # <<>> /\ ~Skipped(Line(buf, e))}
  IN  IF looked = {} THEN executed
      ELSE [text |-> Line(buf, Max(looked)), end |-> buf[Max(looked)]]

Given(buf) ==
  UNION {{buf[i] : i \in Begin(buf, e)..e} :
           e \in {e \in Passed(buf) : ~Hidden(Line(buf, e))}}

(* Mutant: a line that is not finished is not kept for the next turn.      *)
RestDropped(buf) == IF Stops(buf) = {} THEN <<>> ELSE buf

Rest(buf) ==
  LET passed == Passed(buf)
  IN  IF passed = {} THEN buf ELSE SubSeq(buf, Max(passed) + 1, Len(buf))

(* Mutant: silence of the printer does not count as a try.                 *)
WaitForEver == count

Try == count + 1

(* One turn of the loop that picks up the answer.  All that has come is    *)
(* taken; the lines before the one that ends the answer go to the browser, *)
(* that line and what came after it go nowhere.                            *)
Pick ==
  /\ pc = "read" /\ count < MAX_TRY
  /\ LET come == [i \in 1..(Len(sent) - Len(by)) |-> Len(by) + i]
         buf == current_buffer \o come
     IN  IF Len(by) = Len(sent)
         THEN count' = Try
              /\ UNCHANGED <<by, executed, current_buffer, temp_counter, told>>
         ELSE /\ by' = TakenBy(requests)
              /\ count' = IF Stops(buf) # {} THEN MAX_TRY ELSE 1
              /\ temp_counter' = temp_counter + Cardinality(
                   {e \in Looked(buf) : Temperature(Line(buf, e))})
              /\ executed' = Checked(buf)
              /\ told' = told \cup Given(buf)
              /\ current_buffer' = Rest(buf)
  /\ UNCHANGED <<pc, printerVars, serial, tcp, serverClients, link, typed, waiting,
                 request, answer, requests, outstanding, blockserial>>

(* Mutant: the line is not given back.                                     *)
StillBlocked == TRUE

Released == FALSE

(* The answer is closed, the line emptied once more, and released.         *)
Release ==
  /\ pc = "read" /\ count >= MAX_TRY
  /\ pc' = "loop"
  /\ answer' = "all" /\ request' = None
  /\ current_buffer' = <<>> /\ count' = 0 /\ temp_counter' = 0 /\ told' = {}
  /\ blockserial' = Released
  /\ FromSerial
  /\ UNCHANGED <<printerVars, tcp, serverClients, link, typed, waiting, requests, outstanding>>

Module == \/ FillSlots \/ Reject \/ NoClient \/ FromTCP \/ FromSerial2TCP
          \/ NoRequest \/ Silent \/ Take \/ Purge \/ Command \/ Pick \/ Release

Next == PrinterSends \/ ClientMoves \/ Module

Spec == Init /\ [][Next]_vars /\ WF_vars(Module)

-----------------------------------------------------------------------------
(* Fields have their types.                                                *)
TypeOK ==
  /\ sent \in Seq(load.pieces) /\ Len(by) <= Len(sent)
  /\ serverClients \in [Slot -> Clients \cup {None}]
  /\ blockserial \in BOOLEAN /\ count \in 0..MAX_TRY
  /\ (blockserial <=> request # None) /\ (pc = "loop" => ~blockserial)

(* What the interpreter is given of the serial line: the end of one line   *)
(* of the printer, from the last control character in it and up to a       *)
(* comment.  A text is pieced together otherwise only when a web command   *)
(* took a part of the line, or of the line before (command.cpp:1693).  And *)
(* a web command gives it every line it has collected as it is: the whole  *)
(* line, or what was left of it when the command began.                    *)
Start(e) == Max({0} \cup {k \in 1..(e - 1) : ~Printable(sent[k])}) + 1

Meant(e) ==
  {k \in Start(e)..(e - 1) : \A j \in Start(e)..k : sent[j] # ";"}

Collected(e) ==
  LET start == Max({0} \cup {k \in 1..(e - 1) : sent[k] = "nl"}) + 1
  IN  {k \in start..(e - 1) : by[k] = by[e]}

WholeLines ==
  executed # Nothing =>
    LET places == {executed.text[j].at : j \in DOMAIN executed.text}
        e == executed.end
    IN  IF by[e] = 0
        THEN \/ places = Meant(e)
             \/ \E k \in Min(places \cup {Start(e)})..e : by[k] # 0
        ELSE places = Collected(e)

(* The "ok" that ends the answer to a web command is the printer's to that *)
(* command, unless another command was still unanswered when the line was  *)
(* emptied for it: a late "ok" is not told from the right one.  Nothing is *)
(* said of an answer that a "wait" ends: the printer says it whenever it   *)
(* is idle, before it has seen the command too (webinterface.cpp:1335).    *)
AckIsOwn ==
  pc = "read" /\ Len(current_buffer) > 1
    /\ sent[current_buffer[1]] = "ok" /\ sent[current_buffer[2]] = "nl"
    => outstanding \/ cause[current_buffer[1]] = "web"

(* However the printer's answer is cut by the reads, each piece of it      *)
(* reaches the browser once: it was given, in a line that was whole, or is *)
(* in hand, or belongs to a line that is never given: an "ok" with more    *)
(* behind it of a Repetier printer (webinterface.cpp:1360).                *)
Withheld(k) ==
  /\ load.repetier
  /\ \E j \in DOMAIN by :
       /\ j <= k /\ by[j] = by[k] /\ sent[j] = "ok"
       /\ \A i \in j..(k - 1) : sent[i] # "nl"
       /\ j > 1 => sent[j - 1] = "nl" \/ by[j - 1] # by[j]

AnswerWhole ==
  pc = "read" =>
    LET inHand == {current_buffer[i] : i \in DOMAIN current_buffer}
    IN  /\ told \cap inHand = {}
        /\ told \cup inHand \subseteq {k \in DOMAIN by : by[k] = requests}
        /\ \A k \in DOMAIN by :
             by[k] = requests => k \in told \cup inHand \/ Withheld(k)

(* No TCP client is kept waiting: whoever comes is given a slot or turned  *)
(* away, whatever the printer says and the browser asks meanwhile          *)
(* (bridge.cpp:174).                                                       *)
ClientAnswered == []<>(Pending = {})

(* A web command comes to its end and gives the line back once the printer *)
(* is silent, whatever the printer has said.                               *)
WebEnds == blockserial ~> ~blockserial
=============================================================================
