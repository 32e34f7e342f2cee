------------------------- MODULE SettingsKept_proofs -------------------------
(***************************************************************************)
(* That the settings are kept as Settings promises, byte for byte, and     *)
(* that the display tells so: the accessors and the image of the library   *)
(* implement the settings a restart finds, for every layout of the sector. *)
(***************************************************************************)
EXTENDS ConfigStore_proofs

Writers == {"command"} \cup Resets

(* A task that brackets its calls keeps the bulk object open around them, and *)
(* a call has gone as far through its bytes as its object says.               *)
Nested ==
  /\ task \notin BulkTasks => accessor["bulk"] = "none"
  /\ task \in BulkTasks /\ accessor["call"] # "none" => accessor["bulk"] = "open"
  /\ accessor["bulk"] = "closed" => calls = <<>>
  /\ accessor["call"] \in {"none", "temp", "both"} => done = 0
  /\ accessor["call"] = "open" => done <= Size(Head(calls))
  /\ accessor["call"] = "closed" => done = Size(Head(calls))

(* A task that only reads leaves the image as it was loaded. *)
Kept ==
  /\ task \notin Writers =>
       calls \in Seq(ReadCalls) /\ ~ dirty /\ (ram # NoImage => ram = flash)
  /\ task \in {"off"} \cup (Booting \ {"repair"}) => status = "none"

(* the settings with the first bytes of a write in their place *)
Partly(image, w, n) ==
  [a \in Addr |-> IF a \in w.pos .. w.pos + n - 1 THEN w.bytes[a - w.pos + 1] ELSE image[a]]

(* The image of a command is the settings with as much of its write as is done. *)
Storing ==
  task = "command" =>
    /\ asked \in Commands /\ Accepts(asked)
    /\ calls \in {<<>>, <<WriteCall(asked)>>}
    /\ ram # NoImage => calls # <<>> /\ ram = Partly(flash, WriteCall(asked), done)

(* rest is cs without its first calls, which are made *)
EndOf(rest, cs) ==
  /\ Len(rest) <= Len(cs)
  /\ \A k \in 1 .. Len(rest) : rest[k] = cs[Len(cs) - Len(rest) + k]
Made(rest, cs) == Len(cs) - Len(rest)

(* the addresses the reset has come to, n calls and d bytes of the next *)
Reached(a, n, d) ==
  \E k \in DOMAIN ResetCalls :
    /\ Within(ResetCalls[k], a)
    /\ k <= n \/ (k = n + 1 /\ a < ResetCalls[k].pos + d)

(* the settings with the factory settings in their place so far *)
PartlyReset(image, n, d) ==
  [a \in Addr |-> IF Reached(a, n, d) THEN FactoryImage(image)[a] ELSE image[a]]

(* The image of a reset is the factory settings as far as the reset has come. *)
Resetting ==
  task \in Resets =>
    /\ EndOf(calls, ResetCalls)
    /\ accessor["bulk"] = "none" => calls = ResetCalls
    /\ ram # NoImage => ram = PartlyReset(flash, Made(calls, ResetCalls), done)

BaudRead == ReadCall(EP_BAUD_RATE, INTEGER_LENGTH)
PortReads == <<ReadCall(EP_WEB_PORT, INTEGER_LENGTH), ReadCall(EP_DATA_PORT, INTEGER_LENGTH)>>

(* What the calls cs have read is what the flash holds. *)
Reading(cs) ==
  /\ EndOf(calls, cs)
  /\ calls # <<>> => done \in {0, Size(Head(calls))}
  /\ Len(got) = Made(calls, cs) + (IF done > 0 THEN 1 ELSE 0)
  /\ \A k \in 1 .. Len(got) : got[k] = ValueAt(flash, cs[k])

(* The boot goes on only with settings it can use, and resets only others. *)
Checked ==
  /\ task = "baud" => Reading(<<BaudRead>>)
  /\ task = "ports" => Reading(PortReads) /\ ValueAt(flash, BaudRead) \in Bauds
  /\ task \in {"target", "setup", "safe"} => SoundImage(flash)
  /\ task = "repair" /\ accessor["bulk"] # "closed" => ~ SoundImage(flash)

KInv == IInv /\ Nested /\ Kept /\ Storing /\ Resetting /\ Checked /\ SavedIsSaved

-----------------------------------------------------------------------------
(* The call being made lies in the sector and has a length. *)
LEMMA Current ==
  ASSUME IInv
  PROVE  /\ accessor \in [Slots -> Objects] /\ done \in Nat
         /\ accessor["call"] # "none" => calls # <<>>
         /\ calls # <<>> => Head(calls) \in Calls /\ Size(Head(calls)) \in Nat
<1>1. /\ accessor \in [Slots -> Objects] /\ done \in Nat /\ calls \in Seq(Calls)
      /\ accessor["call"] # "none" => calls # <<>>
  BY DEF IInv, TypeOK, TaskType, CallType, CallPending
<1>2. calls # <<>> => Head(calls) \in Calls
  BY <1>1
<1> QED
  BY <1>1, <1>2, CallsInside

(* A task begins with no object open and no image. *)
LEMMA Idle ==
  ASSUME IInv, Nested, calls = <<>>, accessor["bulk"] \in {"none", "closed"}
  PROVE  accessor["call"] = "none" /\ ram = NoImage /\ dirty = FALSE
<1>1. accessor["call"] = "none"
  BY DEF IInv, CallPending
<1>2. Open("bulk") = 0 /\ Open("call") = 0
  BY <1>1 DEF Open
<1>3. numInstances = 0 /\ dirty \in BOOLEAN
  BY <1>2 DEF IInv, InstancesCounted, TypeOK, MemoryType
<1> QED
  BY <1>1, <1>3 DEF IInv, InstancesCounted

LEMMA NestedStep == IInv /\ Nested /\ [Next]_vars => Nested'
<1> SUFFICES ASSUME IInv, Nested, [Next]_vars PROVE Nested'
  OBVIOUS
<1>0. /\ accessor \in [Slots -> Objects] /\ done \in Nat
      /\ accessor["call"] # "none" => calls # <<>>
      /\ calls # <<>> => Head(calls) \in Calls /\ Size(Head(calls)) \in Nat
      /\ task \in {"off", "ready"} => calls = <<>>
  BY Current DEF IInv, CallPending
<1>a. ASSUME done' = 0, accessor'["call"] = "none", accessor'["bulk"] = "none" PROVE Nested'
  BY <1>a DEF Nested
<1>b. ASSUME NEW t, NEW cs, Begin(t, cs), Finished PROVE Nested'
  <2>1. done' = 0 /\ accessor'["bulk"] = "none" /\ accessor'["call"] = accessor["call"]
    BY <1>0, <1>b DEF Begin, Finished, Slots
  <2>2. accessor["call"] = "none"
    BY <1>b, Idle DEF Finished
  <2> QED
    BY <1>a, <2>1, <2>2
<1>c. ASSUME NEW t, NEW cs, Begin(t, cs), task \in {"off", "ready"}, UNCHANGED accessor
      PROVE  Nested'
  <2>1. accessor["call"] = "none" /\ accessor["bulk"] = "none"
    BY <1>0, <1>c DEF Nested, BulkTasks
  <2> QED
    BY <1>a, <1>c, <2>1 DEF Begin
<1>d. ASSUME UNCHANGED running
      PROVE  calls' = calls /\ done' = done /\ task' = task /\ Size(Head(calls))' = Size(Head(calls))
  BY <1>d DEF running, Size
<1>1. ASSUME NEW s \in Slots, Construct(s) PROVE Nested'
  <2>1. /\ Due(s) /\ UNCHANGED running
        /\ accessor' \in {[accessor EXCEPT ![s] = "temp"], [accessor EXCEPT ![s] = "open"]}
    BY <1>1 DEF Construct
  <2>2. CASE s = "bulk"
    <3>1. accessor["bulk"] = "none" /\ task \in BulkTasks /\ accessor["call"] = "none"
      BY <1>0, <2>1, <2>2 DEF Due, BulkDue, Nested, Objects, Slots
    <3> QED
      BY <1>0, <1>d, <2>1, <2>2, <3>1 DEF Nested, Slots
  <2>3. CASE s = "call"
    <3>1. /\ accessor["call"] = "none" /\ done = 0 /\ calls # <<>>
          /\ task \in BulkTasks => accessor["bulk"] = "open"
      BY <2>1, <2>3 DEF Due, CallDue, Nested
    <3> QED
      BY <1>0, <1>d, <2>1, <2>3, <3>1 DEF Nested, Slots
  <2> QED
    BY <2>2, <2>3 DEF Slots
<1>2. ASSUME NEW s \in Slots, Copy(s) PROVE Nested'
  BY <1>0, <1>d, <1>2 DEF Copy, Nested, Slots
<1>3. ASSUME NEW s \in Slots, DropTemp(s) PROVE Nested'
  BY <1>0, <1>d, <1>3 DEF DropTemp, Nested, Slots
<1>4. ASSUME NEW s \in Slots, Close(s) PROVE Nested'
  BY <1>0, <1>d, <1>4 DEF Close, CloseDue, Nested, Slots
<1>5. CASE WriteByte
  <2>1. /\ accessor["call"] = "open" /\ done < Size(Head(calls)) /\ done' = done + 1
        /\ UNCHANGED <<accessor, task, calls>>
    BY <1>5 DEF WriteByte
  <2> QED
    BY <1>0, <2>1 DEF Nested, Size
<1>6. CASE ReadValue
  <2>1. /\ accessor["call"] = "open" /\ done' = Size(Head(calls))
        /\ UNCHANGED <<accessor, task, calls>>
    BY <1>6 DEF ReadValue
  <2> QED
    BY <1>0, <2>1 DEF Nested, Size
<1>7. CASE Return
  <2>1. /\ accessor["call"] = "closed" /\ accessor' = [accessor EXCEPT !["call"] = "none"]
        /\ calls' = Tail(calls) /\ done' = 0 /\ task' = task
    BY <1>7 DEF Return
  <2>2. accessor["bulk"] # "closed"
    BY <1>0, <2>1 DEF Nested
  <2> QED
    BY <1>0, <2>1, <2>2 DEF Nested, Slots
<1>8. CASE PowerOn
  BY <1>8, <1>c DEF PowerOn
<1>9. CASE InitBoard
  BY <1>9, <1>b DEF InitBoard
<1>10. CASE InitBaudrate
  BY <1>10, <1>b DEF InitBaudrate
<1>11. CASE InitExternalPorts
  BY <1>11, <1>b DEF InitExternalPorts
<1>12. CASE InitFirmwareTarget
  BY <1>12, <1>b DEF InitFirmwareTarget
<1>13. CASE Setup
  BY <1>13, <1>b DEF Setup
<1>14. CASE SetupFails
  <2>1. /\ calls = <<>> /\ accessor' = [accessor EXCEPT !["bulk"] = "none"] /\ done' = 0
    BY <1>14 DEF SetupFails
  <2> QED
    BY <1>0, <1>a, <2>1 DEF Slots
<1>15. CASE Command
  BY <1>15, <1>c DEF Command
<1>16. CASE Answer
  BY <1>16, <1>b DEF Answer
<1>17. CASE List
  BY <1>17, <1>c DEF List
<1>18. CASE Listed
  BY <1>18, <1>b DEF Listed
<1>19. CASE Reset
  BY <1>19, <1>c DEF Reset
<1>20. CASE ResetDone
  BY <1>20, <1>b DEF ResetDone
<1>21. CASE Restarted
  BY <1>21, <1>a DEF Restarted, Slots
<1>22. CASE UNCHANGED vars
  BY <1>d, <1>22 DEF vars, Nested
<1> QED
  BY <1>1, <1>2, <1>3, <1>4, <1>5, <1>6, <1>7, <1>8, <1>9, <1>10, <1>11, <1>12, <1>13,
     <1>14, <1>15, <1>16, <1>17, <1>18, <1>19, <1>20, <1>21, <1>22
     DEF Next, Access, Boot, Serve, Restart, PowerLoss

-----------------------------------------------------------------------------
(* What the accessors do to the memory: objects come and go around one image, *)
(* or the last one goes and the image is written back, which happens at the   *)
(* end of a call of its own or of the bracket of a task.                      *)
Shuffled ==
  /\ UNCHANGED <<flash, dirty, running, status>>
  /\ accessor["bulk"] = "closed" => accessor'["bulk"] = "closed"
  /\ accessor'["bulk"] = "none" => accessor["bulk"] = "none"
  /\ \/ ram' = ram
     \/ /\ ram' = flash /\ calls # <<>> /\ done = 0
        /\ task \in BulkTasks => accessor["bulk"] = "none"

Committed ==
  /\ UNCHANGED running
  /\ ram # NoImage /\ numInstances = 1
  /\ flash' = ram /\ ram' = NoImage /\ dirty' = FALSE
  /\ status' = IF dirty THEN "saved" ELSE status
  /\ accessor["bulk"] # "closed"
  /\ task \in BulkTasks => calls = <<>> /\ accessor'["bulk"] = "closed"
  /\ task \notin BulkTasks => /\ calls # <<>> /\ done = Size(Head(calls))
                              /\ accessor'["bulk"] = "none"

LEMMA Instances ==
  ASSUME IInv, Nested
  PROVE  /\ numInstances = Open("bulk") + Open("call")
         /\ ram = NoImage <=> numInstances = 0
         /\ accessor["bulk"] # "none" => task \in BulkTasks
BY DEF IInv, Nested, InstancesCounted

LEMMA AccessKinds ==
  ASSUME IInv, Nested, Access
  PROVE  Shuffled \/ Committed \/ WriteByte \/ ReadValue \/ Return
<1>0. /\ accessor \in [Slots -> Objects] /\ numInstances = Open("bulk") + Open("call")
      /\ ram = NoImage <=> numInstances = 0
      /\ accessor["call"] # "none" => calls # <<>>
      /\ accessor["bulk"] # "none" => task \in BulkTasks
  BY Current, Instances
<1>1. ASSUME NEW s \in Slots, Construct(s) PROVE Shuffled
  <2>1. /\ Due(s) /\ UNCHANGED <<flash, dirty, running, status>>
        /\ ram' = IF numInstances = 0 THEN flash ELSE ram
        /\ accessor' \in {[accessor EXCEPT ![s] = "temp"], [accessor EXCEPT ![s] = "open"]}
    BY <1>1 DEF Construct
  <2>2. accessor[s] = "none" /\ calls # <<>>
    BY <2>1 DEF Due, BulkDue, CallDue, Slots
  <2>3. /\ accessor["bulk"] = "closed" => accessor'["bulk"] = "closed"
        /\ accessor'["bulk"] = "none" => accessor["bulk"] = "none"
    BY <1>0, <2>1, <2>2 DEF Slots
  <2>4. done = 0
    <3>1. accessor["call"] = "none"
      BY <1>0, <2>1, <2>2 DEF Slots, Due, BulkDue, Nested
    <3> QED
      BY <3>1 DEF Nested
  <2>5. ASSUME numInstances = 0, task \in BulkTasks PROVE accessor["bulk"] = "none"
    <3>1. accessor["bulk"] \in {"none", "closed"}
      BY <1>0, <2>5 DEF Open, Objects, Slots
    <3> QED
      BY <2>2, <3>1 DEF Nested
  <2>6. CASE numInstances = 0
    BY <2>1, <2>2, <2>3, <2>4, <2>5, <2>6 DEF Shuffled
  <2>7. CASE numInstances # 0
    BY <2>1, <2>3, <2>7 DEF Shuffled
  <2> QED
    BY <2>6, <2>7
<1>2. ASSUME NEW s \in Slots, Copy(s) PROVE Shuffled
  BY <1>0, <1>2 DEF Copy, Shuffled, Slots
<1>a. ASSUME Release, numInstances # 1
      PROVE  UNCHANGED <<flash, ram, dirty, status>>
  BY <1>a DEF Release
<1>3. ASSUME NEW s \in Slots, DropTemp(s) PROVE Shuffled
  <2>1. /\ accessor[s] = "both" /\ accessor' = [accessor EXCEPT ![s] = "open"]
        /\ Release /\ UNCHANGED running
    BY <1>3 DEF DropTemp
  <2>2. numInstances # 1
    BY <1>0, <2>1 DEF Open, Slots
  <2>3. UNCHANGED <<flash, ram, dirty, status>>
    BY <1>a, <2>1, <2>2
  <2> QED
    BY <1>0, <2>1, <2>3 DEF Shuffled, Slots
<1>4. ASSUME NEW s \in Slots, Close(s) PROVE Shuffled \/ Committed
  <2>1. /\ accessor[s] = "open" /\ accessor' = [accessor EXCEPT ![s] = "closed"]
        /\ Release /\ UNCHANGED running
        /\ s = "bulk" => calls = <<>>
        /\ s = "call" => done = Size(Head(calls))
    BY <1>4 DEF Close, CloseDue, Slots
  <2>2. CASE numInstances # 1
    <3>1. UNCHANGED <<flash, ram, dirty, status>>
      BY <1>a, <2>1, <2>2
    <3>2. s # "bulk"
      BY <1>0, <2>1, <2>2 DEF Open, Slots
    <3> QED
      BY <1>0, <2>1, <3>1, <3>2 DEF Shuffled, Slots
  <2>3. CASE numInstances = 1
    <3>1. /\ ram # NoImage /\ flash' = ram /\ ram' = NoImage /\ dirty' = FALSE
          /\ status' = IF dirty THEN "saved" ELSE status
      BY <1>0, <2>1, <2>3 DEF Release
    <3>2. CASE s = "bulk"
      <4>1. task \in BulkTasks /\ calls = <<>> /\ accessor'["bulk"] = "closed"
            /\ accessor["bulk"] # "closed"
        BY <1>0, <2>1, <3>2 DEF Slots
      <4> QED
        BY <2>1, <2>3, <3>1, <4>1 DEF Committed
    <3>3. CASE s = "call"
      <4>1. accessor["bulk"] \in {"none", "closed"}
        BY <1>0, <2>1, <2>3, <3>3 DEF Open, Slots, Objects
      <4>2. task \notin BulkTasks /\ accessor["bulk"] = "none"
        BY <1>0, <2>1, <3>3, <4>1 DEF Nested
      <4>3. calls # <<>> /\ accessor'["bulk"] = "none"
        BY <1>0, <2>1, <3>3, <4>2 DEF Slots
      <4> QED
        BY <2>1, <2>3, <3>1, <3>3, <4>2, <4>3 DEF Committed
    <3> QED
      BY <3>2, <3>3 DEF Slots
  <2> QED
    BY <2>2, <2>3
<1> QED
  BY <1>1, <1>2, <1>3, <1>4 DEF Access

-----------------------------------------------------------------------------
(* Each part of the invariant through a step of the accessors and calls. *)
LEMMA KeptAccess ==
  ASSUME IInv, Nested, Kept, Access
  PROVE  Kept'
<1> DEFINE Starting == {"off"} \cup (Booting \ {"repair"})
<1>0. Starting \cap Writers = {}
  BY DEF Booting, Writers, Resets
<1>1. CASE Shuffled
  <2>1. task' = task /\ calls' = calls
    BY <1>1 DEF Shuffled, running
  <2> QED
    BY <1>1, <2>1 DEF Shuffled, Kept
<1>2. CASE Committed
  <2>1. task' = task /\ calls' = calls /\ dirty' = FALSE /\ ram' = NoImage
    BY <1>2 DEF Committed, running
  <2>2. task \in Starting => status' = status
    <3>1. task \in Starting => dirty = FALSE
      BY <1>0 DEF Kept, IInv, TypeOK, MemoryType
    <3> QED
      BY <1>2, <3>1, Zenon DEF Committed
  <2> QED
    BY <2>1, <2>2 DEF Kept
<1>3. CASE WriteByte
  <2>1. accessor["call"] = "open" /\ Head(calls).op = "write" /\ task' = task
    BY <1>3 DEF WriteByte
  <2>2. calls # <<>>
    BY <2>1, Current
  <2>3. task \in Writers
    <3>1. SUFFICES ASSUME task \notin Writers PROVE FALSE
      OBVIOUS
    <3>2. Head(calls) \in ReadCalls
      BY <2>2, <3>1 DEF Kept
    <3> QED
      BY <2>1, <3>2 DEF ReadCalls
  <2> QED
    BY <1>0, <2>1, <2>3 DEF Kept
<1>4. CASE ReadValue
  BY <1>4 DEF ReadValue, memory, Kept
<1>5. CASE Return
  <2>1. /\ accessor["call"] = "closed" /\ calls' = Tail(calls)
        /\ UNCHANGED <<flash, ram, dirty, task, status>>
    BY <1>5 DEF Return, memory
  <2>2. calls # <<>>
    BY <2>1, Current
  <2> QED
    BY <2>1, <2>2 DEF Kept
<1> QED
  BY <1>1, <1>2, <1>3, <1>4, <1>5, AccessKinds

LEMMA OneMore ==
  ASSUME NEW image \in Image, NEW w \in WriteCalls, NEW n \in Nat, n < Len(w.bytes)
  PROVE  Partly(image, w, n + 1) = [Partly(image, w, n) EXCEPT ![w.pos + n] = w.bytes[n + 1]]
<1>1. w.pos \in Int /\ EEPROM_SIZE \in Int /\ Addr \subseteq Int
  BY ConfigStoreAssumption DEF WriteCalls, Addr
<1>2. \A a \in Addr : a \in w.pos .. w.pos + (n + 1) - 1
                       <=> a \in w.pos .. w.pos + n - 1 \/ a = w.pos + n
  BY <1>1
<1>3. w.pos + n \notin w.pos .. w.pos + n - 1 /\ (w.pos + n) - w.pos + 1 = n + 1
  BY <1>1
<1> DEFINE f == Partly(image, w, n)
           g == [f EXCEPT ![w.pos + n] = w.bytes[n + 1]]
<1>4. f = [a \in Addr |-> f[a]] /\ g = [a \in Addr |-> g[a]]
  BY DEF Partly
<1>5. ASSUME NEW a \in Addr PROVE Partly(image, w, n + 1)[a] = g[a]
  <2>1. CASE a = w.pos + n
    BY <1>2, <1>3, <1>4, <2>1 DEF Partly
  <2>2. CASE a # w.pos + n
    BY <1>2, <1>4, <2>2 DEF Partly
  <2> QED
    BY <2>1, <2>2
<1> HIDE DEF f, g
<1>6. Partly(image, w, n + 1) = [a \in Addr |-> g[a]]
  BY <1>5 DEF Partly
<1> QED
  BY <1>4, <1>6 DEF f, g

LEMMA StoringAccess ==
  ASSUME IInv, Nested, Storing, Access
  PROVE  Storing'
<1> SUFFICES ASSUME task' = "command" PROVE Storing'
  BY DEF Storing
<1> DEFINE w == WriteCall(asked)
<1>0. /\ task = "command" /\ asked' = asked
  BY DEF Access, Construct, Copy, DropTemp, Close, WriteByte, ReadValue, Return, running
<1>1. /\ asked \in Commands /\ Accepts(asked) /\ calls \in {<<>>, <<w>>}
      /\ ram # NoImage => calls # <<>> /\ ram = Partly(flash, w, done)
      /\ w.op = "write"
  BY <1>0 DEF Storing, WriteCall
<1>2. /\ flash \in Image /\ ram \in Image \cup {NoImage} /\ done \in Nat
      /\ w \in WriteCalls
  BY <1>1, ConfigStoreAssumption DEF IInv, TypeOK, MemoryType, CallType
<1>3. /\ w.pos \in Addr /\ w.bytes \in Seq(Byte) /\ w.pos \in Int
  BY <1>2, ConfigStoreAssumption DEF WriteCalls, Addr
<1>4. CASE Shuffled
  <2>1. calls' = calls /\ done' = done /\ flash' = flash
    BY <1>4 DEF Shuffled, running
  <2>2. CASE ram' = ram
    BY <1>0, <1>1, <2>1, <2>2 DEF Storing
  <2>3. CASE ram' = flash /\ calls # <<>> /\ done = 0
    <3>1. flash = Partly(flash, w, 0)
      BY <1>2, <1>3 DEF Partly, Image
    <3> QED
      BY <1>0, <1>1, <2>1, <2>3, <3>1 DEF Storing
  <2> QED
    BY <1>4, <2>2, <2>3 DEF Shuffled
<1>5. CASE Committed
  BY <1>0, <1>1, <1>5 DEF Committed, running, Storing
<1>6. CASE WriteByte
  <2>1. /\ accessor["call"] = "open" /\ done < Size(Head(calls)) /\ done' = done + 1
        /\ ram' = [ram EXCEPT ![Head(calls).pos + done] = Head(calls).bytes[done + 1]]
        /\ UNCHANGED <<flash, calls>>
    BY <1>6 DEF WriteByte
  <2>2. calls = <<w>> /\ Head(calls) = w
    BY <1>1, <2>1, Current
  <2>3. ram # NoImage
    <3>1. numInstances # 0
      BY <2>1, Instances, Current DEF Open, Objects, Slots
    <3> QED
      BY <3>1, Instances
  <2>4. done < Len(w.bytes) /\ w.pos + Len(w.bytes) <= EEPROM_SIZE
    BY <1>1, <1>2, <2>1, <2>2 DEF Size, WriteCalls
  <2>5. ram = Partly(flash, w, done) /\ ram \in Image
    BY <1>1, <1>2, <2>3
  <2>6. ram' = Partly(flash, w, done + 1)
    <3>1. ram' = [Partly(flash, w, done) EXCEPT ![w.pos + done] = w.bytes[done + 1]]
      BY <2>1, <2>2, <2>5, Zenon
    <3> QED
      BY <1>2, <2>4, <3>1, OneMore
  <2> QED
    BY <1>0, <1>1, <2>1, <2>2, <2>6 DEF Storing
<1>7. CASE ReadValue
  <2>1. accessor["call"] = "open" /\ Head(calls).op = "read"
    BY <1>7 DEF ReadValue
  <2>2. calls = <<w>>
    BY <1>1, <2>1, Current
  <2> QED
    BY <1>1, <2>1, <2>2
<1>8. CASE Return
  <2>1. /\ accessor["call"] = "closed" /\ calls' = Tail(calls) /\ ram' = ram
    BY <1>8 DEF Return, memory
  <2>2. calls = <<w>>
    BY <1>1, <2>1, Current
  <2>3. accessor["bulk"] = "none"
    BY <1>0 DEF Nested, BulkTasks
  <2>4. numInstances = 0
    BY <2>1, <2>3, Instances DEF Open
  <2>5. ram = NoImage
    BY <2>4, Instances
  <2> QED
    BY <1>0, <1>1, <2>1, <2>2, <2>5 DEF Storing
<1> QED
  BY <1>4, <1>5, <1>6, <1>7, <1>8, AccessKinds

-----------------------------------------------------------------------------
(* The writes of a reset. *)
LEMMA ResetWrites ==
  /\ ResetCalls \in Seq(WriteCalls) /\ Len(ResetCalls) \in Nat
  /\ DOMAIN ResetCalls = 1 .. Len(ResetCalls)
  /\ \A k \in DOMAIN ResetCalls :
       /\ ResetCalls[k] \in WriteCalls /\ ResetCalls[k].op = "write"
       /\ ResetCalls[k].pos \in Addr /\ ResetCalls[k].pos \in Int
       /\ ResetCalls[k].bytes \in Seq(Byte) /\ Len(ResetCalls[k].bytes) \in Nat
       /\ ResetCalls[k].pos + Len(ResetCalls[k].bytes) <= EEPROM_SIZE
<1>1. ResetCalls \in Seq(WriteCalls)
  BY ConfigStoreAssumption
<1>2. \A k \in DOMAIN ResetCalls : ResetCalls[k] \in WriteCalls
  BY <1>1
<1>3. \A c \in WriteCalls : /\ c.op = "write" /\ c.pos \in Addr /\ c.pos \in Int
                           /\ c.bytes \in Seq(Byte) /\ Len(c.bytes) \in Nat
                           /\ c.pos + Len(c.bytes) <= EEPROM_SIZE
  BY ConfigStoreAssumption DEF WriteCalls, Addr
<1> QED
  BY <1>1, <1>2, <1>3

(* A default is found in the factory settings, whatever they are laid over. *)
LEMMA DefaultThere ==
  ASSUME NEW image, NEW k \in DOMAIN ResetCalls, NEW a \in Addr, Within(ResetCalls[k], a)
  PROVE  FactoryImage(image)[a] = ResetCalls[k].bytes[a - ResetCalls[k].pos + 1]
<1> DEFINE j == CHOOSE j \in DOMAIN ResetCalls : Within(ResetCalls[j], a)
<1>1. j \in DOMAIN ResetCalls /\ Within(ResetCalls[j], a)
  OBVIOUS
<1>2. j = k
  BY <1>1, DefaultsApart
<1> QED
  BY <1>2 DEF FactoryImage

LEMMA FactoryType ==
  ASSUME NEW image \in Image
  PROVE  FactoryImage(image) \in Image
<1>1. ASSUME NEW a \in Addr PROVE FactoryImage(image)[a] \in Byte
  <2>1. CASE \E k \in DOMAIN ResetCalls : Within(ResetCalls[k], a)
    <3>1. PICK k \in DOMAIN ResetCalls : Within(ResetCalls[k], a)
      BY <2>1
    <3>2. FactoryImage(image)[a] = ResetCalls[k].bytes[a - ResetCalls[k].pos + 1]
      BY <3>1, DefaultThere
    <3>3. a - ResetCalls[k].pos + 1 \in 1 .. Len(ResetCalls[k].bytes)
      BY <3>1, ResetWrites, ConfigStoreAssumption, SMTT(30) DEF Within, Addr
    <3> QED
      BY <3>2, <3>3, ResetWrites
  <2>2. CASE ~ \E k \in DOMAIN ResetCalls : Within(ResetCalls[k], a)
    BY <2>2 DEF FactoryImage, Image
  <2> QED
    BY <2>1, <2>2
<1>2. FactoryImage(image) = [a \in Addr |-> FactoryImage(image)[a]]
  BY DEF FactoryImage
<1> QED
  BY <1>1, <1>2 DEF Image

(* A task stands at its next call, and one call made brings it to the next. *)
LEMMA NextCall ==
  ASSUME NEW rest \in Seq(Calls), NEW cs \in Seq(Calls), EndOf(rest, cs)
  PROVE  /\ Made(rest, cs) \in Nat
         /\ rest = <<>> => Made(rest, cs) = Len(cs)
         /\ rest # <<>> => /\ Made(rest, cs) + 1 \in 1 .. Len(cs)
                           /\ Head(rest) = cs[Made(rest, cs) + 1]
                           /\ EndOf(Tail(rest), cs)
                           /\ Made(Tail(rest), cs) = Made(rest, cs) + 1
<1> DEFINE m == Len(rest)  n == Len(cs)
<1>1. m \in Nat /\ n \in Nat /\ m <= n
  BY DEF EndOf
<1>2. Made(rest, cs) \in Nat /\ (rest = <<>> => Made(rest, cs) = Len(cs))
  BY <1>1 DEF Made
<1>3. ASSUME rest # <<>>
      PROVE  /\ 1 \in 1 .. m /\ Head(rest) = rest[1] /\ Len(Tail(rest)) = m - 1
             /\ \A k \in 1 .. m - 1 : Tail(rest)[k] = rest[k + 1]
  BY <1>3
<1>4. ASSUME rest # <<>>
      PROVE  Made(rest, cs) + 1 \in 1 .. Len(cs) /\ Head(rest) = cs[Made(rest, cs) + 1]
  <2>1. Made(rest, cs) + 1 = n - m + 1
    BY DEF Made
  <2>2. Head(rest) = cs[n - m + 1]
    BY <1>3, <1>4 DEF EndOf
  <2>3. n - m + 1 \in 1 .. n
    BY <1>1, <1>3, <1>4
  <2> QED
    BY <2>1, <2>2, <2>3
<1>5. ASSUME rest # <<>>, NEW k \in 1 .. m - 1
      PROVE  Tail(rest)[k] = cs[n - (m - 1) + k]
  <2>1. k + 1 \in 1 .. m /\ n - m + (k + 1) = n - (m - 1) + k
    BY <1>1
  <2>2. rest[k + 1] = cs[n - m + (k + 1)]
    BY <2>1 DEF EndOf
  <2> QED
    BY <1>3, <1>5, <2>1, <2>2
<1>6. ASSUME rest # <<>>
      PROVE  EndOf(Tail(rest), cs) /\ Made(Tail(rest), cs) = Made(rest, cs) + 1
  BY <1>1, <1>3, <1>5, <1>6 DEF EndOf, Made
<1> QED
  BY <1>2, <1>4, <1>6

LEMMA ReachedNone ==
  ASSUME NEW a PROVE ~ Reached(a, 0, 0)
BY ResetWrites, SMT DEF Reached, Within

LEMMA ReachedAll ==
  ASSUME NEW a, NEW d
  PROVE  Reached(a, Len(ResetCalls), d) <=> \E k \in DOMAIN ResetCalls : Within(ResetCalls[k], a)
BY ResetWrites DEF Reached

LEMMA ReachedByte ==
  ASSUME NEW n \in Nat, n + 1 \in DOMAIN ResetCalls,
         NEW d \in Nat, d < Len(ResetCalls[n + 1].bytes), NEW a \in Addr
  PROVE  Reached(a, n, d + 1) <=> Reached(a, n, d) \/ a = ResetCalls[n + 1].pos + d
<1>1. a \in Int
  BY ConfigStoreAssumption DEF Addr
<1>2. Within(ResetCalls[n + 1], ResetCalls[n + 1].pos + d)
  BY ResetWrites DEF Within
<1>3. \A k \in DOMAIN ResetCalls : k \in Int /\ ResetCalls[k].pos \in Int
  BY ResetWrites
<1>4. ASSUME NEW k \in DOMAIN ResetCalls
      PROVE  (k = n + 1 /\ a < ResetCalls[k].pos + (d + 1))
             <=> (k = n + 1 /\ a < ResetCalls[k].pos + d) \/ (k = n + 1 /\ a = ResetCalls[k].pos + d)
  BY <1>1, <1>3
<1> QED
  BY <1>2, <1>4, Zenon DEF Reached

LEMMA ReachedCall ==
  ASSUME NEW n \in Nat, n + 1 \in DOMAIN ResetCalls, NEW a \in Addr
  PROVE  Reached(a, n + 1, 0) <=> Reached(a, n, Len(ResetCalls[n + 1].bytes))
<1>1. ASSUME NEW k \in DOMAIN ResetCalls, Within(ResetCalls[k], a)
      PROVE  k <= n + 1 \/ (k = n + 1 + 1 /\ a < ResetCalls[k].pos + 0)
             <=> k <= n \/ (k = n + 1 /\ a < ResetCalls[k].pos + Len(ResetCalls[n + 1].bytes))
  BY <1>1, ResetWrites, ConfigStoreAssumption, SMTT(30) DEF Within, Addr
<1> QED
  BY <1>1 DEF Reached

LEMMA PartlyResetByte ==
  ASSUME NEW image \in Image, NEW n \in Nat, n + 1 \in DOMAIN ResetCalls,
         NEW d \in Nat, d < Len(ResetCalls[n + 1].bytes)
  PROVE  PartlyReset(image, n, d + 1)
           = [PartlyReset(image, n, d) EXCEPT ![ResetCalls[n + 1].pos + d]
                = ResetCalls[n + 1].bytes[d + 1]]
<1> DEFINE c == ResetCalls[n + 1]
           f == PartlyReset(image, n, d)
           g == [f EXCEPT ![c.pos + d] = c.bytes[d + 1]]
<1>1. f = [a \in Addr |-> f[a]] /\ g = [a \in Addr |-> g[a]]
  BY DEF PartlyReset
<1>2. c.pos + d \in Addr /\ Within(c, c.pos + d) /\ (c.pos + d) - c.pos + 1 = d + 1
  <2>1. c.pos \in Int /\ c.pos >= 0 /\ c.pos + Len(c.bytes) <= EEPROM_SIZE /\ Len(c.bytes) \in Nat
    BY ResetWrites, ConfigStoreAssumption DEF Addr
  <2>2. EEPROM_SIZE \in Nat /\ d < Len(c.bytes)
    BY ConfigStoreAssumption
  <2> HIDE DEF c
  <2> QED
    BY <2>1, <2>2 DEF Within, Addr
<1>3. FactoryImage(image)[c.pos + d] = c.bytes[d + 1]
  BY <1>2, DefaultThere
<1>4. ASSUME NEW a \in Addr PROVE PartlyReset(image, n, d + 1)[a] = g[a]
  <2>1. Reached(a, n, d + 1) <=> Reached(a, n, d) \/ a = c.pos + d
    BY ReachedByte
  <2>2. CASE a = c.pos + d
    BY <1>1, <1>3, <2>1, <2>2 DEF PartlyReset
  <2>3. CASE a # c.pos + d
    BY <1>1, <2>1, <2>3 DEF PartlyReset
  <2> QED
    BY <2>2, <2>3
<1> HIDE DEF f, g
<1>5. PartlyReset(image, n, d + 1) = [a \in Addr |-> g[a]]
  BY <1>4 DEF PartlyReset
<1> QED
  BY <1>1, <1>5 DEF f, g, c

LEMMA PartlyResetCall ==
  ASSUME NEW image, NEW n \in Nat, n + 1 \in DOMAIN ResetCalls
  PROVE  PartlyReset(image, n + 1, 0) = PartlyReset(image, n, Len(ResetCalls[n + 1].bytes))
BY ReachedCall DEF PartlyReset

LEMMA PartlyResetEnds ==
  ASSUME NEW image \in Image, NEW d
  PROVE  /\ PartlyReset(image, 0, 0) = image
         /\ PartlyReset(image, Len(ResetCalls), d) = FactoryImage(image)
<1>1. PartlyReset(image, 0, 0) = image
  BY ReachedNone DEF PartlyReset, Image
<1> DEFINE f == FactoryImage(image)
<1>2. f = [a \in Addr |-> f[a]]
  BY FactoryType DEF Image
<1>3. \A a \in Addr : ~ (\E k \in DOMAIN ResetCalls : Within(ResetCalls[k], a)) => f[a] = image[a]
  BY DEF FactoryImage
<1> HIDE DEF f
<1>4. PartlyReset(image, Len(ResetCalls), d) = [a \in Addr |-> f[a]]
  BY <1>3, ReachedAll DEF PartlyReset, f
<1> QED
  BY <1>1, <1>2, <1>4 DEF f

LEMMA ResettingAccess ==
  ASSUME IInv, Nested, Resetting, Access
  PROVE  Resetting'
<1> SUFFICES ASSUME task' \in Resets PROVE Resetting'
  BY DEF Resetting
<1> DEFINE n == Made(calls, ResetCalls)
<1>0. task = task'
  BY DEF Access, Construct, Copy, DropTemp, Close, WriteByte, ReadValue, Return, running
<1>1. /\ EndOf(calls, ResetCalls)
      /\ accessor["bulk"] = "none" => calls = ResetCalls
      /\ ram # NoImage => ram = PartlyReset(flash, n, done)
      /\ task \in BulkTasks
  BY <1>0 DEF Resetting, BulkTasks, Resets
<1>2. /\ flash \in Image /\ calls \in Seq(Calls) /\ done \in Nat
      /\ accessor \in [Slots -> Objects]
      /\ accessor["call"] # "none" => calls # <<>>
  BY Current DEF IInv, TypeOK, MemoryType, CallType
<1>3. /\ n \in Nat
      /\ calls # <<>> => /\ n + 1 \in DOMAIN ResetCalls /\ Head(calls) = ResetCalls[n + 1]
                         /\ EndOf(Tail(calls), ResetCalls)
                         /\ Made(Tail(calls), ResetCalls) = n + 1
  <2>1. ResetCalls \in Seq(Calls)
    BY CallsTyped
  <2> QED
    BY <1>1, <1>2, <2>1, NextCall, ResetWrites
<1> HIDE DEF n
<1>a. ASSUME calls' = calls PROVE EndOf(calls', ResetCalls) /\ Made(calls', ResetCalls) = n
  BY <1>1, <1>a DEF n
<1>b. ASSUME EndOf(calls', ResetCalls), accessor'["bulk"] = "none" => calls' = ResetCalls,
             NEW k, Made(calls', ResetCalls) = k,
             ram' # NoImage => ram' = PartlyReset(flash', k, done')
      PROVE  Resetting'
  BY <1>b DEF Resetting
<1>4. CASE Shuffled
  <2>1. /\ calls' = calls /\ done' = done /\ flash' = flash
        /\ accessor'["bulk"] = "none" => accessor["bulk"] = "none"
    BY <1>4 DEF Shuffled, running
  <2>a. ASSUME ram' # NoImage => ram' = PartlyReset(flash, n, done) PROVE Resetting'
    BY <1>1, <1>a, <1>b, <2>1, <2>a
  <2>2. CASE ram' = ram
    BY <1>1, <2>2, <2>a
  <2>3. CASE ram' = flash /\ done = 0 /\ accessor["bulk"] = "none"
    <3>1. n = 0
      BY <1>1, <2>3, ResetWrites DEF Made, n
    <3>2. ram' = PartlyReset(flash, n, done)
      BY <1>2, <2>3, <3>1, PartlyResetEnds
    <3> QED
      BY <2>a, <3>2
  <2> QED
    BY <1>1, <1>4, <2>2, <2>3 DEF Shuffled
<1>5. CASE Committed
  <2>1. calls' = calls /\ ram' = NoImage /\ accessor'["bulk"] = "closed"
    BY <1>1, <1>5 DEF Committed, running
  <2> QED
    BY <1>a, <1>b, <2>1
<1>6. CASE WriteByte
  <2>1. /\ accessor["call"] = "open" /\ done < Size(Head(calls)) /\ done' = done + 1
        /\ ram' = [ram EXCEPT ![Head(calls).pos + done] = Head(calls).bytes[done + 1]]
        /\ UNCHANGED <<flash, calls, accessor>>
    BY <1>6 DEF WriteByte
  <2>2. n + 1 \in DOMAIN ResetCalls /\ Head(calls) = ResetCalls[n + 1]
    BY <1>2, <1>3, <2>1
  <2>3. done < Len(ResetCalls[n + 1].bytes)
    BY <2>1, <2>2, ResetWrites DEF Size
  <2>4. ram # NoImage
    <3>1. numInstances # 0
      BY <1>2, <2>1, Instances DEF Open, Objects, Slots
    <3> QED
      BY <3>1, Instances
  <2>5. ram' = [PartlyReset(flash, n, done) EXCEPT ![ResetCalls[n + 1].pos + done]
                  = ResetCalls[n + 1].bytes[done + 1]]
    BY <1>1, <2>1, <2>2, <2>4, Zenon
  <2>6. ram' = PartlyReset(flash, n, done + 1)
    BY <1>2, <1>3, <2>2, <2>3, <2>5, PartlyResetByte, ZenonT(30)
  <2> QED
    BY <1>1, <1>a, <1>b, <2>1, <2>6
<1>7. CASE ReadValue
  <2>1. accessor["call"] = "open" /\ Head(calls).op = "read"
    BY <1>7 DEF ReadValue
  <2>2. n + 1 \in DOMAIN ResetCalls /\ Head(calls) = ResetCalls[n + 1]
    BY <1>2, <1>3, <2>1
  <2> QED
    BY <2>1, <2>2, ResetWrites
<1>8. CASE Return
  <2>1. /\ accessor["call"] = "closed" /\ accessor' = [accessor EXCEPT !["call"] = "none"]
        /\ calls' = Tail(calls) /\ done' = 0 /\ UNCHANGED <<flash, ram>>
    BY <1>8 DEF Return, memory
  <2>2. /\ calls # <<>> /\ n + 1 \in DOMAIN ResetCalls /\ Head(calls) = ResetCalls[n + 1]
    BY <1>2, <1>3, <2>1
  <2>3. done = Len(ResetCalls[n + 1].bytes)
    BY <2>1, <2>2, ResetWrites DEF Nested, Size
  <2>4. accessor'["bulk"] = "open"
    BY <1>1, <1>2, <2>1 DEF Nested, Slots
  <2>5. EndOf(calls', ResetCalls) /\ Made(calls', ResetCalls) = n + 1
    BY <1>3, <2>1, <2>2
  <2>6. PartlyReset(flash, n, done) = PartlyReset(flash, n + 1, 0)
    BY <1>3, <2>2, <2>3, PartlyResetCall
  <2> QED
    BY <1>1, <1>b, <2>1, <2>4, <2>5, <2>6
<1> QED
  BY <1>4, <1>5, <1>6, <1>7, <1>8, AccessKinds

-----------------------------------------------------------------------------
(* The accessor whose closing writes the image has no more to do. *)
Ending ==
  /\ ram # NoImage
  /\ task \in BulkTasks => calls = <<>>
  /\ task \notin BulkTasks => calls # <<>> /\ done = Size(Head(calls))

(* The image that is written: the settings as they are, with the write of the *)
(* command, or the factory settings.                                          *)
LEMMA ImageOutcome ==
  ASSUME IInv, Kept, Storing, Resetting, Ending
  PROVE  /\ task \notin Writers => ram = flash
         /\ task = "command" =>
              ram = Partly(flash, WriteCall(asked), Len(WriteCall(asked).bytes))
         /\ task \in Resets => ram = FactoryImage(flash)
<1>1. ram # NoImage
  BY DEF Ending
<1>2. task \notin Writers => ram = flash
  BY <1>1 DEF Kept
<1>3. ASSUME task = "command"
      PROVE  ram = Partly(flash, WriteCall(asked), Len(WriteCall(asked).bytes))
  <2>1. calls # <<>> /\ done = Size(Head(calls))
    BY <1>3 DEF Ending, BulkTasks
  <2>2. calls = <<WriteCall(asked)>>
    BY <1>3, <2>1 DEF Storing
  <2>3. done = Len(WriteCall(asked).bytes)
    BY <2>1, <2>2 DEF Size, WriteCall
  <2> QED
    BY <1>1, <1>3, <2>3 DEF Storing
<1>4. ASSUME task \in Resets PROVE ram = FactoryImage(flash)
  <2>1. calls = <<>>
    BY <1>4 DEF Ending, BulkTasks, Resets
  <2>2. Made(calls, ResetCalls) = Len(ResetCalls)
    BY <2>1, ResetWrites DEF Made
  <2>3. ram = PartlyReset(flash, Len(ResetCalls), done)
    BY <1>1, <1>4, <2>2 DEF Resetting
  <2>4. flash \in Image
    BY DEF IInv, TypeOK, MemoryType
  <2> QED
    BY <2>3, <2>4, PartlyResetEnds
<1> QED
  BY <1>2, <1>3, <1>4

(* What a write of the image to the flash leaves there. *)
LEMMA CommitOutcome ==
  ASSUME IInv, Kept, Storing, Resetting, Committed
  PROVE  /\ task \notin Writers => flash' = flash
         /\ task = "command" =>
              flash' = Partly(flash, WriteCall(asked), Len(WriteCall(asked).bytes))
         /\ task \in Resets => flash' = FactoryImage(flash)
<1>1. flash' = ram /\ Ending
  BY DEF Committed, Ending
<1> QED
  BY <1>1, ImageOutcome

LEMMA WriteStored ==
  ASSUME NEW image, NEW w \in WriteCalls
  PROVE  Stored(Partly(image, w, Len(w.bytes)), w)
<1>1. /\ w.pos \in Int /\ w.pos >= 0 /\ Len(w.bytes) \in Nat /\ w.pos + Len(w.bytes) <= EEPROM_SIZE
      /\ EEPROM_SIZE \in Int
  BY ConfigStoreAssumption DEF WriteCalls, Addr
<1>2. ASSUME NEW k \in 1 .. Len(w.bytes)
      PROVE  Partly(image, w, Len(w.bytes))[w.pos + k - 1] = w.bytes[k]
  <2>1. /\ w.pos + k - 1 \in Addr /\ w.pos + k - 1 \in w.pos .. w.pos + Len(w.bytes) - 1
        /\ (w.pos + k - 1) - w.pos + 1 = k
    BY <1>1 DEF Addr
  <2> QED
    BY <2>1 DEF Partly
<1> QED
  BY <1>2 DEF Stored

LEMMA FactoryStored ==
  ASSUME NEW image, NEW j \in DOMAIN ResetCalls
  PROVE  Stored(FactoryImage(image), ResetCalls[j])
<1> DEFINE w == ResetCalls[j]
<1>1. /\ w.pos \in Int /\ w.pos >= 0 /\ Len(w.bytes) \in Nat /\ w.pos + Len(w.bytes) <= EEPROM_SIZE
      /\ EEPROM_SIZE \in Int
  BY ResetWrites, ConfigStoreAssumption DEF Addr
<1>2. ASSUME NEW k \in 1 .. Len(w.bytes)
      PROVE  FactoryImage(image)[w.pos + k - 1] = w.bytes[k]
  <2>1. /\ w.pos + k - 1 \in Addr /\ w.pos + k - 1 \in w.pos .. w.pos + Len(w.bytes) - 1
        /\ (w.pos + k - 1) - w.pos + 1 = k
    BY <1>1 DEF Addr
  <2>2. FactoryImage(image)[w.pos + k - 1] = w.bytes[(w.pos + k - 1) - w.pos + 1]
    BY <2>1, DefaultThere DEF Within
  <2> QED
    BY <2>1, <2>2
<1> QED
  BY <1>2 DEF Stored

LEMMA SavedAccess ==
  ASSUME IInv, Nested, Kept, Storing, Resetting, SavedIsSaved, Access
  PROVE  SavedIsSaved'
<1>0. task' = task /\ asked' = asked
  BY DEF Access, Construct, Copy, DropTemp, Close, WriteByte, ReadValue, Return, running
<1>1. ASSUME flash' = flash, status' = "saved" => status = "saved" PROVE SavedIsSaved'
  BY <1>0, <1>1 DEF SavedIsSaved
<1>2. CASE Shuffled
  BY <1>1, <1>2 DEF Shuffled
<1>3. CASE Committed
  <2>1. ASSUME task = "command" PROVE Stored(flash', WriteCall(asked))
    <3>1. WriteCall(asked) \in WriteCalls
      BY <2>1, ConfigStoreAssumption DEF Storing
    <3> QED
      BY <1>3, <2>1, <3>1, CommitOutcome, WriteStored
  <2>2. ASSUME task \in Resets, NEW k \in DOMAIN ResetCalls PROVE Stored(flash', ResetCalls[k])
    BY <1>3, <2>2, CommitOutcome, FactoryStored
  <2> QED
    BY <1>0, <2>1, <2>2 DEF SavedIsSaved
<1>4. CASE WriteByte
  <2>1. flash' = flash /\ status' \in {"updated", status}
    BY <1>4, Zenon DEF WriteByte
  <2> QED
    BY <1>1, <2>1
<1>5. CASE ReadValue \/ Return
  BY <1>1, <1>5 DEF ReadValue, Return, memory
<1> QED
  BY <1>2, <1>3, <1>4, <1>5, AccessKinds

-----------------------------------------------------------------------------
(* What the boot has read stays what the flash holds while it reads on. *)
LEMMA ReadingAccess ==
  ASSUME IInv, Nested, Kept, task \notin Writers, Access, flash' = flash,
         NEW cs \in Seq(Calls), \A k \in DOMAIN cs : Size(cs[k]) > 0, Reading(cs)
  PROVE  Reading(cs)'
<1> DEFINE m == Made(calls, cs)
<1>1. /\ EndOf(calls, cs)
      /\ calls # <<>> => done \in {0, Size(Head(calls))}
      /\ Len(got) = m + (IF done > 0 THEN 1 ELSE 0)
      /\ \A k \in 1 .. Len(got) : got[k] = ValueAt(flash, cs[k])
  BY DEF Reading
<1>2. /\ calls \in Seq(Calls) /\ got \in Seq(Seq(Byte)) /\ done \in Nat
      /\ accessor["call"] # "none" => calls # <<>>
      /\ ram # NoImage => ram = flash
  BY Current DEF IInv, TypeOK, CallType, Kept
<1>3. /\ m \in Nat
      /\ calls # <<>> => /\ Head(calls) = cs[m + 1] /\ m + 1 \in DOMAIN cs
                         /\ EndOf(Tail(calls), cs) /\ Made(Tail(calls), cs) = m + 1
  BY <1>1, <1>2, NextCall
<1> HIDE DEF m
<1>a. ASSUME UNCHANGED <<calls, done, got>> PROVE Reading(cs)'
  BY <1>a DEF Reading, Size
<1>4. CASE Shuffled \/ Committed
  BY <1>a, <1>4 DEF Shuffled, Committed, running
<1>5. CASE WriteByte
  <2>1. Head(calls).op = "write" /\ calls # <<>>
    BY <1>2, <1>5 DEF WriteByte
  <2>2. Head(calls) \in ReadCalls
    BY <2>1 DEF Kept
  <2> QED
    BY <2>1, <2>2 DEF ReadCalls
<1>6. CASE ReadValue
  <2>1. /\ accessor["call"] = "open" /\ done < Size(Head(calls)) /\ done' = Size(Head(calls))
        /\ got' = Append(got, ValueAt(ram, Head(calls))) /\ calls' = calls
    BY <1>6 DEF ReadValue
  <2>2. /\ calls # <<>> /\ done = 0 /\ Size(Head(calls)) > 0
        /\ Head(calls) = cs[m + 1]
    BY <1>1, <1>2, <1>3, <2>1
  <2>3. ram = flash
    <3>1. numInstances # 0
      BY <2>1, Instances, Current DEF Open, Objects, Slots
    <3> QED
      BY <1>2, <3>1, Instances
  <2>4. Len(got) = m
    BY <1>1, <1>3, <2>2
  <2>5. got' = Append(got, ValueAt(flash, cs[m + 1]))
    BY <2>1, <2>2, <2>3
  <2>6. /\ Len(got') = m + 1
        /\ \A k \in 1 .. m : got'[k] = got[k]
        /\ got'[m + 1] = ValueAt(flash, cs[m + 1])
    BY <1>2, <2>4, <2>5
  <2>7. \A k \in 1 .. Len(got') : got'[k] = ValueAt(flash, cs[k])
    BY <1>1, <1>3, <2>4, <2>6
  <2>8. Made(calls', cs) + (IF done' > 0 THEN 1 ELSE 0) = m + 1
    BY <2>1, <2>2 DEF m
  <2>9. EndOf(calls', cs) /\ (calls' # <<>> => done' \in {0, Size(Head(calls'))})
    BY <1>1, <2>1
  <2> QED
    BY <2>6, <2>7, <2>8, <2>9 DEF Reading
<1>7. CASE Return
  <2>1. accessor["call"] = "closed" /\ calls' = Tail(calls) /\ done' = 0 /\ got' = got
    BY <1>7 DEF Return
  <2>2. /\ calls # <<>> /\ done = Size(Head(calls)) /\ done > 0
        /\ EndOf(calls', cs) /\ Made(calls', cs) = m + 1
    BY <1>2, <1>3, <2>1 DEF Nested
  <2>3. Len(got) = Made(calls', cs) + (IF done' > 0 THEN 1 ELSE 0)
    <3>1. Len(got) = m + 1
      BY <1>1, <2>2
    <3>2. ~ (done' > 0)
      BY <2>1
    <3> QED
      BY <1>3, <2>2, <3>1, <3>2
  <2> QED
    BY <1>1, <2>1, <2>2, <2>3 DEF Reading
<1> QED
  BY <1>4, <1>5, <1>6, <1>7, AccessKinds

LEMMA BootReads ==
  /\ <<BaudRead>> \in Seq(Calls) /\ PortReads \in Seq(Calls)
  /\ \A k \in DOMAIN <<BaudRead>> : Size(<<BaudRead>>[k]) > 0
  /\ \A k \in DOMAIN PortReads : Size(PortReads[k]) > 0
<1>1. INTEGER_LENGTH \in Nat /\ INTEGER_LENGTH > 0
  <2>1. BaudRead \in ReadCalls
    BY ConfigStoreAssumption DEF BaudRead
  <2>2. BaudRead.size \in Nat
    BY <2>1 DEF ReadCalls
  <2> QED
    BY <2>2, IntegerLength DEF BaudRead, ReadCall
<1>2. <<BaudRead>> \in Seq(Calls) /\ PortReads \in Seq(Calls)
  BY CallsTyped DEF BaudRead, PortReads
<1>3. \A p : Size(ReadCall(p, INTEGER_LENGTH)) > 0
  BY <1>1 DEF Size, ReadCall
<1> QED
  BY <1>2, <1>3 DEF BaudRead, PortReads

LEMMA FlashKept ==
  ASSUME IInv, Nested, Kept, Storing, Resetting, Access, task \notin Writers
  PROVE  flash' = flash
<1>1. CASE Committed
  BY <1>1, CommitOutcome
<1>2. CASE ~ Committed
  BY <1>2, AccessKinds DEF Shuffled, WriteByte, ReadValue, Return, memory
<1> QED
  BY <1>1, <1>2

LEMMA CheckedAccess ==
  ASSUME IInv, Nested, Kept, Storing, Resetting, Checked, Access
  PROVE  Checked'
<1>0. task' = task
  BY DEF Access, Construct, Copy, DropTemp, Close, WriteByte, ReadValue, Return, running
<1>1. task \notin Writers => flash' = flash
  BY FlashKept
<1>2. ASSUME task = "baud" PROVE Reading(<<BaudRead>>)'
  <2>1. task \notin Writers
    BY <1>2 DEF Writers, Resets
  <2>2. Reading(<<BaudRead>>)
    BY <1>2 DEF Checked
  <2> QED
    BY <1>1, <2>1, <2>2, BootReads, ReadingAccess
<1>3. ASSUME task = "ports" PROVE Reading(PortReads)' /\ ValueAt(flash', BaudRead) \in Bauds
  <2>1. task \notin Writers
    BY <1>3 DEF Writers, Resets
  <2>2. Reading(PortReads) /\ ValueAt(flash, BaudRead) \in Bauds
    BY <1>3 DEF Checked
  <2> QED
    BY <1>1, <2>1, <2>2, BootReads, ReadingAccess
<1>4. ASSUME task \in {"target", "setup", "safe"} PROVE SoundImage(flash')
  <2>1. task \notin Writers
    BY <1>4 DEF Writers, Resets
  <2> QED
    BY <1>1, <1>4, <2>1 DEF Checked
<1>5. ASSUME task = "repair", accessor'["bulk"] # "closed" PROVE ~ SoundImage(flash')
  <2>1. CASE Shuffled
    BY <1>5, <2>1 DEF Shuffled, Checked
  <2>2. CASE Committed
    BY <1>5, <2>2 DEF Committed, BulkTasks
  <2>3. CASE WriteByte \/ ReadValue
    BY <1>5, <2>3 DEF WriteByte, ReadValue, memory, Checked
  <2>4. CASE Return
    <3>1. accessor'["bulk"] = accessor["bulk"] /\ flash' = flash
      BY <2>4, Current DEF Return, memory, Slots
    <3> QED
      BY <1>5, <3>1 DEF Checked
  <2> QED
    BY <2>1, <2>2, <2>3, <2>4, AccessKinds
<1> QED
  BY <1>0, <1>2, <1>3, <1>4, <1>5 DEF Checked

-----------------------------------------------------------------------------
(* A task begins on the settings as they are. *)
Begun(t, cs) ==
  /\ task' = t /\ calls' = cs /\ done' = 0 /\ got' = <<>>
  /\ flash' = flash /\ ram' = NoImage /\ dirty' = FALSE
  /\ accessor'["bulk"] = "none"

LEMMA BegunIdle ==
  ASSUME IInv, Nested, NEW t, NEW cs, Begin(t, cs),
         Finished \/ (task \in {"off", "ready"} /\ UNCHANGED accessor)
  PROVE  Begun(t, cs)
<1>1. CASE Finished
  <2>1. ram = NoImage /\ dirty = FALSE /\ accessor'["bulk"] = "none"
    BY <1>1, Idle, Current DEF Finished, Slots
  <2> QED
    BY <2>1 DEF Begin, Begun, memory
<1>2. CASE task \in {"off", "ready"} /\ UNCHANGED accessor
  <2>1. calls = <<>> /\ accessor["bulk"] = "none"
    BY <1>2 DEF IInv, CallPending, Nested, BulkTasks
  <2>2. ram = NoImage /\ dirty = FALSE
    BY <2>1, Idle
  <2> QED
    BY <1>2, <2>1, <2>2 DEF Begin, Begun, memory
<1> QED
  BY <1>1, <1>2

(* A task that begins to read, and what the boot has to know of it. *)
LEMMA ReaderBegun ==
  ASSUME NEW t, NEW cs, Begun(t, cs), t \notin Writers, cs \in Seq(ReadCalls),
         t \in {"off"} \cup Booting => status' = "none"
  PROVE  Kept' /\ Storing' /\ Resetting' /\ SavedIsSaved'
<1>1. t # "command" /\ t \notin Resets
  BY DEF Writers
<1> QED
  BY <1>1 DEF Begun, Kept, Storing, Resetting, SavedIsSaved

LEMMA ResetBegun ==
  ASSUME NEW t \in Resets, Begun(t, ResetCalls), status' = "none"
  PROVE  Kept' /\ Storing' /\ Resetting' /\ SavedIsSaved'
<1>1. /\ t \in Writers /\ t # "command"
      /\ t \notin {"off"} \cup (Booting \ {"repair"})
  BY DEF Writers, Resets, Booting
<1>2. EndOf(ResetCalls, ResetCalls)
  BY ResetWrites DEF EndOf
<1> QED
  BY <1>1, <1>2 DEF Begun, Kept, Storing, Resetting, SavedIsSaved

LEMMA ReadingBegun ==
  ASSUME NEW t, NEW cs \in Seq(Calls), Begun(t, cs)
  PROVE  Reading(cs)'
<1>1. EndOf(calls', cs) /\ Made(calls', cs) = 0
  BY DEF Begun, EndOf, Made
<1>2. Len(got') = 0 /\ done' = 0
  BY DEF Begun
<1> QED
  BY <1>1, <1>2 DEF Reading

LEMMA CheckedBegun ==
  ASSUME NEW t, NEW cs, Begun(t, cs),
         t \notin {"baud", "ports", "target", "setup", "safe", "repair"}
  PROVE  Checked'
BY DEF Begun, Checked

(* The reads of the tasks, each within the sector. *)
LEMMA TaskReads ==
  /\ BoardReads \in Seq(ReadCalls) /\ SetupReads \in Seq(ReadCalls) /\ ListReads \in Seq(ReadCalls)
  /\ <<BaudRead>> \in Seq(ReadCalls) /\ PortReads \in Seq(ReadCalls)
  /\ <<ReadCall(EP_TARGET_FW, 1)>> \in Seq(ReadCalls) /\ <<>> \in Seq(ReadCalls)
BY ConfigStoreAssumption DEF BaudRead, PortReads

(* What the boot has read when the calls of its task are made. *)
LEMMA AllRead ==
  ASSUME Nested, NEW cs \in Seq(Calls), Reading(cs), calls = <<>>, accessor["call"] = "none"
  PROVE  \A k \in 1 .. Len(cs) : got[k] = ValueAt(flash, cs[k])
<1>1. done = 0
  BY DEF Nested
<1>2. Len(got) = Len(cs)
  BY <1>1 DEF Reading, Made
<1> QED
  BY <1>2 DEF Reading

(* Setup that returned early has written back what it loaded. *)
LEMMA FailedSetup ==
  ASSUME IInv, Nested, Kept, SetupFails
  PROVE  Begun("safe", SetupReads) /\ status' = "none"
<1>1. /\ task = "setup" /\ calls = <<>> /\ accessor["bulk"] = "open"
      /\ accessor' = [accessor EXCEPT !["bulk"] = "none"] /\ Release
      /\ task' = "safe" /\ calls' = SetupReads /\ done' = 0 /\ got' = <<>>
  BY DEF SetupFails
<1>2. numInstances = 1 /\ accessor'["bulk"] = "none"
  <2>1. accessor["call"] = "none"
    BY <1>1, Current
  <2> QED
    BY <1>1, <2>1, Instances, Current DEF Open, Slots
<1>3. task \notin Writers /\ status = "none" /\ ram # NoImage
  BY <1>1, <1>2, Instances DEF Kept, Writers, Resets, Booting
<1>4. ram = flash /\ dirty = FALSE
  BY <1>3 DEF Kept, IInv, TypeOK, MemoryType
<1>5. flash' = ram /\ ram' = NoImage /\ dirty' = FALSE
  BY <1>1, <1>2 DEF Release
<1>6. status' = "none"
  BY <1>1, <1>2, <1>3, <1>4, Zenon DEF Release
<1> QED
  BY <1>1, <1>2, <1>4, <1>5, <1>6 DEF Begun

LEMMA BeginStep ==
  ASSUME KInv, Boot \/ Serve \/ Command \/ List \/ Reset
  PROVE  Kept' /\ Storing' /\ Resetting' /\ SavedIsSaved' /\ Checked'
<1>0. /\ IInv /\ Nested /\ Kept /\ Checked /\ Storing
      /\ task \in Booting \ {"repair"} => status = "none"
      /\ task \notin Writers => dirty = FALSE
  BY DEF KInv, Kept, IInv, TypeOK, MemoryType
<1>a. {"off", "board", "baud", "ports", "target", "setup", "safe", "ready",
       "refresh", "list"} \cap Writers = {}
  BY DEF Writers, Resets
<1>b. /\ {"refresh", "ready", "list"} \cap ({"off"} \cup Booting) = {}
      /\ {"board", "baud", "ports", "target", "setup"} \subseteq Booting \ {"repair"}
      /\ {"repair", "reset", "clear"} = Resets
  BY DEF Booting, Resets
<1>1. CASE PowerOn
  <2>1. Begun("board", BoardReads) /\ status' = status /\ status = "none"
    BY <1>0, <1>1, BegunIdle DEF PowerOn, Kept
  <2> QED
    BY <1>a, <2>1, TaskReads, ReaderBegun, CheckedBegun
<1>2. CASE InitBoard
  <2>1. Begun("baud", <<BaudRead>>) /\ status' = "none"
    BY <1>0, <1>b, <1>2, BegunIdle DEF InitBoard, BaudRead
  <2>2. Reading(<<BaudRead>>)' /\ task' = "baud"
    BY <2>1, BootReads, ReadingBegun DEF Begun
  <2> QED
    BY <1>a, <2>1, <2>2, TaskReads, ReaderBegun DEF Checked
<1>3. CASE InitBaudrate
  <2>1. task = "baud" /\ status' = "none" /\ calls = <<>> /\ Finished
    BY <1>0, <1>b, <1>3 DEF InitBaudrate, Finished
  <2>2. accessor["call"] = "none"
    BY <1>0, <2>1, Idle DEF Finished
  <2>3. got[1] = ValueAt(flash, BaudRead)
    <3>1. Reading(<<BaudRead>>)
      BY <1>0, <2>1 DEF Checked
    <3>2. \A k \in 1 .. Len(<<BaudRead>>) : got[k] = ValueAt(flash, <<BaudRead>>[k])
      BY <1>0, <2>1, <2>2, <3>1, BootReads, AllRead
    <3> QED
      BY <3>2
  <2>4. CASE got[1] \in Bauds
    <3>1. Begun("ports", PortReads) /\ ValueAt(flash, BaudRead) \in Bauds
      BY <1>0, <1>3, <2>1, <2>3, <2>4, BegunIdle DEF InitBaudrate, PortReads
    <3>2. Reading(PortReads)' /\ task' = "ports" /\ flash' = flash
      BY <3>1, BootReads, ReadingBegun DEF Begun
    <3> QED
      BY <1>a, <2>1, <3>1, <3>2, TaskReads, ReaderBegun DEF Checked
  <2>5. CASE got[1] \notin Bauds
    <3>1. Begun("repair", ResetCalls) /\ ~ SoundImage(flash)
      BY <1>0, <1>3, <2>1, <2>3, <2>5, BegunIdle DEF InitBaudrate, SoundImage, BaudRead
    <3>2. task' = "repair" /\ flash' = flash
      BY <3>1 DEF Begun
    <3> QED
      BY <1>b, <2>1, <3>1, <3>2, ResetBegun DEF Checked
  <2> QED
    BY <2>4, <2>5
<1>4. CASE InitExternalPorts
  <2>1. task = "ports" /\ status' = "none" /\ calls = <<>> /\ Finished
    BY <1>0, <1>b, <1>4 DEF InitExternalPorts, Finished
  <2>2. accessor["call"] = "none"
    BY <1>0, <2>1, Idle DEF Finished
  <2>3. /\ ValueAt(flash, BaudRead) \in Bauds
        /\ got[1] = ValueAt(flash, ReadCall(EP_WEB_PORT, INTEGER_LENGTH))
        /\ got[2] = ValueAt(flash, ReadCall(EP_DATA_PORT, INTEGER_LENGTH))
    <3>1. Reading(PortReads) /\ ValueAt(flash, BaudRead) \in Bauds
      BY <1>0, <2>1 DEF Checked
    <3>2. \A k \in 1 .. Len(PortReads) : got[k] = ValueAt(flash, PortReads[k])
      BY <1>0, <2>1, <2>2, <3>1, BootReads, AllRead
    <3> QED
      BY <3>1, <3>2 DEF PortReads
  <2>4. SoundImage(flash) <=> got[1] \in Ports /\ got[2] \in Ports
    BY <2>3 DEF SoundImage, BaudRead
  <2>5. CASE got[1] \in Ports /\ got[2] \in Ports
    <3>1. Begun("target", <<ReadCall(EP_TARGET_FW, 1)>>)
      BY <1>0, <1>4, <2>1, <2>5, BegunIdle DEF InitExternalPorts
    <3>2. task' = "target" /\ SoundImage(flash')
      BY <2>4, <2>5, <3>1 DEF Begun
    <3> QED
      BY <1>a, <2>1, <3>1, <3>2, TaskReads, ReaderBegun DEF Checked
  <2>6. CASE ~ (got[1] \in Ports /\ got[2] \in Ports)
    <3>1. Begun("repair", ResetCalls)
      BY <1>0, <1>4, <2>1, <2>6, BegunIdle DEF InitExternalPorts
    <3>2. task' = "repair" /\ ~ SoundImage(flash')
      BY <2>4, <2>6, <3>1 DEF Begun
    <3> QED
      BY <1>b, <2>1, <3>1, <3>2, ResetBegun DEF Checked
  <2> QED
    BY <2>5, <2>6
<1>5. CASE InitFirmwareTarget
  <2>1. CASE task = "target"
    <3>1. Begun("setup", SetupReads) /\ status' = "none" /\ SoundImage(flash)
      BY <1>0, <1>b, <1>5, <2>1, BegunIdle DEF InitFirmwareTarget, Checked
    <3>2. task' = "setup" /\ SoundImage(flash')
      BY <3>1 DEF Begun
    <3> QED
      BY <1>a, <3>1, <3>2, TaskReads, ReaderBegun DEF Checked
  <2>2. CASE task # "target"
    <3>1. Begun("ready", <<>>)
      BY <1>0, <1>5, <2>2, BegunIdle DEF InitFirmwareTarget
    <3> QED
      BY <1>a, <1>b, <3>1, TaskReads, ReaderBegun, CheckedBegun
  <2> QED
    BY <2>1, <2>2
<1>c. ASSUME Begun("ready", <<>>)
      PROVE  Kept' /\ Storing' /\ Resetting' /\ SavedIsSaved' /\ Checked'
  BY <1>a, <1>b, <1>c, TaskReads, ReaderBegun, CheckedBegun
<1>6. CASE Setup
  BY <1>0, <1>6, <1>c, BegunIdle DEF Setup
<1>7. CASE SetupFails
  <2>1. Begun("safe", SetupReads) /\ status' = "none" /\ SoundImage(flash)
    BY <1>0, <1>7, FailedSetup DEF SetupFails, Checked
  <2>2. task' = "safe" /\ SoundImage(flash')
    BY <2>1 DEF Begun
  <2> QED
    BY <1>a, <2>1, <2>2, TaskReads, ReaderBegun DEF Checked
<1>8. CASE Answer
  <2>1. Begun("refresh", <<ReadCall(EP_TARGET_FW, 1)>>) \/ Begun("ready", <<>>)
    BY <1>0, <1>8, BegunIdle DEF Answer
  <2>2. CASE Begun("refresh", <<ReadCall(EP_TARGET_FW, 1)>>)
    BY <1>a, <1>b, <2>2, TaskReads, ReaderBegun, CheckedBegun
  <2> QED
    BY <1>c, <2>1, <2>2
<1>9. CASE Listed
  BY <1>0, <1>9, <1>c, BegunIdle DEF Listed
<1>10. CASE ResetDone
  BY <1>0, <1>10, <1>c, BegunIdle DEF ResetDone
<1>11. CASE Command
  <2>1. PICK c \in Commands : /\ Accepts(c) /\ asked' = c
                              /\ Begun("command", <<WriteCall(c)>>)
    BY <1>0, <1>11, BegunIdle DEF Command
  <2>2. status' = "none"
    BY <1>11 DEF Command
  <2>3. Kept' /\ Storing' /\ SavedIsSaved'
    BY <2>1, <2>2 DEF Begun, Kept, Storing, SavedIsSaved, Writers, Booting
  <2>4. Resetting'
    BY <2>1 DEF Begun, Resetting, Resets
  <2> QED
    BY <2>1, <2>3, <2>4, CheckedBegun
<1>12. CASE List
  <2>1. Begun("list", ListReads)
    BY <1>0, <1>12, BegunIdle DEF List
  <2> QED
    BY <1>a, <1>b, <2>1, TaskReads, ReaderBegun, CheckedBegun
<1>13. CASE Reset
  <2>1. PICK t \in {"reset", "clear"} : Begun(t, ResetCalls)
    BY <1>0, <1>13, BegunIdle DEF Reset
  <2>2. status' = "none" /\ t \in Resets
    BY <1>b, <1>13 DEF Reset
  <2> QED
    BY <2>1, <2>2, ResetBegun, CheckedBegun
<1> QED
  BY <1>1, <1>2, <1>3, <1>4, <1>5, <1>6, <1>7, <1>8, <1>9, <1>10, <1>11, <1>12, <1>13
     DEF Boot, Serve

LEMMA RestartStep ==
  ASSUME Restarted
  PROVE  Kept' /\ Storing' /\ Resetting' /\ SavedIsSaved' /\ Checked'
<1>1. /\ task' = "off" /\ calls' = <<>> /\ ram' = NoImage /\ dirty' = FALSE /\ status' = "none"
  BY DEF Restarted
<1>2. "off" \notin Resets
  BY DEF Resets
<1> QED
  BY <1>1, <1>2 DEF Kept, Storing, Resetting, SavedIsSaved, Checked

LEMMA KeptInvariance == Spec => []KInv
<1>1. Init => KInv
  <2> SUFFICES ASSUME Init PROVE KInv
    OBVIOUS
  <2>1. IInv
    BY InitInv
  <2>2. Nested
    BY DEF Init, Nested, Slots, BulkTasks
  <2>3. Kept /\ Storing /\ Resetting /\ Checked /\ SavedIsSaved
    BY DEF Init, Kept, Storing, Resetting, Checked, SavedIsSaved, Resets
  <2> QED
    BY <2>1, <2>2, <2>3 DEF KInv
<1>2. KInv /\ [Next]_vars => KInv'
  <2> SUFFICES ASSUME KInv, [Next]_vars PROVE KInv'
    OBVIOUS
  <2>0. IInv /\ Nested /\ Kept /\ Storing /\ Resetting /\ Checked /\ SavedIsSaved
    BY DEF KInv
  <2>1. IInv' /\ Nested'
    BY <2>0, MemoryStep, CallStep, TaskStep, NestedStep DEF IInv, TypeOK
  <2>2. CASE Access
    BY <2>0, <2>1, <2>2, KeptAccess, StoringAccess, ResettingAccess, SavedAccess, CheckedAccess
       DEF KInv
  <2>3. CASE Boot \/ Serve \/ Command \/ List \/ Reset
    BY <2>1, <2>3, BeginStep DEF KInv
  <2>4. CASE Restart \/ PowerLoss
    BY <2>1, <2>4, RestartStep DEF KInv, Restart, PowerLoss
  <2>5. CASE UNCHANGED vars
    BY <2>0, <2>1, <2>5 DEF vars, memory, running, KInv, Kept, Storing, Resetting, Checked,
                            Reading, SavedIsSaved
  <2> QED
    BY <2>2, <2>3, <2>4, <2>5 DEF Next
<1> QED
  BY <1>1, <1>2, PTL DEF Spec

(* The display says that the settings are saved only when all the running *)
(* task had to write is in the flash.                                     *)
THEOREM SavedTruly == Spec => []SavedIsSaved
<1>1. KInv => SavedIsSaved
  BY DEF KInv
<1> QED
  BY <1>1, KeptInvariance, PTL

-----------------------------------------------------------------------------
(* How a step of the module looks to whoever relies on the settings. *)
KeptStep == Promised!Boot \/ Promised!Stop \/ Promised!Store \/ Promised!Reset \/ Promised!Tear
Unseen == flash' = flash /\ (task' \in Serving <=> task \in Serving)

LEMMA PutPartly ==
  ASSUME NEW image \in Image, NEW w \in WriteCalls
  PROVE  Partly(image, w, Len(w.bytes)) = Promised!Put(image, w)
BY DEF Partly, Promised!Put, Promised!Covers, Image

(* A reset is only made of settings that may change. *)
LEMMA ResetAllowed ==
  ASSUME KInv, ram # NoImage, task \in Resets
  PROVE  Promised!MayChange
<1>1. CASE task = "repair"
  <2>1. accessor["bulk"] # "closed"
    <3>1. SUFFICES ASSUME accessor["bulk"] = "closed" PROVE FALSE
      OBVIOUS
    <3>2. calls = <<>>
      BY <3>1 DEF KInv, Nested
    <3> QED
      BY <3>1, <3>2, Idle DEF KInv
  <2> QED
    BY <1>1, <2>1 DEF KInv, Checked, Promised!MayChange
<1>2. CASE task # "repair"
  BY <1>2 DEF Resets, Serving, Promised!MayChange
<1> QED
  BY <1>1, <1>2

(* The image a write is about to leave is what a store command or a reset may *)
(* make of the settings, unless it is the settings as they are.               *)
LEMMA ImageAllowed ==
  ASSUME KInv, Ending
  PROVE  /\ task = "command" => ram \in Promised!Stored
         /\ task \in Resets => ram \in Promised!Restored
         /\ task \notin Writers => ram = flash
<1>0. /\ IInv /\ Kept /\ Storing /\ Resetting /\ flash \in Image /\ ram # NoImage
  BY DEF KInv, IInv, TypeOK, MemoryType, Ending
<1>1. ASSUME task = "command" PROVE ram \in Promised!Stored
  <2>1. WriteCall(asked) \in WriteCalls /\ asked \in Commands /\ Accepts(asked)
    BY <1>0, <1>1, ConfigStoreAssumption DEF Storing
  <2>2. ram = Promised!Put(flash, WriteCall(asked))
    BY <1>0, <1>1, <2>1, ImageOutcome, PutPartly
  <2>3. task \in Serving
    BY <1>1 DEF Serving
  <2> QED
    BY <2>1, <2>2, <2>3 DEF Promised!Stored
<1>2. ASSUME task \in Resets PROVE ram \in Promised!Restored
  <2>1. ram = FactoryImage(flash) /\ Promised!MayChange
    BY <1>0, <1>2, ImageOutcome, ResetAllowed
  <2> QED
    BY <2>1 DEF Promised!Restored
<1> QED
  BY <1>0, <1>1, <1>2, ImageOutcome

LEMMA WriteDueEnds ==
  ASSUME IInv, Nested, WriteDue
  PROVE  Ending
<1>1. PICK s \in Slots : CloseDue(s) /\ numInstances = 1
  BY DEF WriteDue
<1>2. /\ accessor \in [Slots -> Objects] /\ numInstances = Open("bulk") + Open("call")
      /\ ram # NoImage
      /\ accessor["call"] # "none" => calls # <<>>
      /\ accessor["bulk"] # "none" => task \in BulkTasks
  BY <1>1, Current, Instances
<1>3. CASE s = "bulk"
  BY <1>1, <1>2, <1>3 DEF CloseDue, Ending
<1>4. CASE s = "call"
  <2>1. accessor["call"] = "open" /\ done = Size(Head(calls)) /\ calls # <<>>
    BY <1>1, <1>2, <1>4 DEF CloseDue
  <2>2. accessor["bulk"] # "open"
    BY <1>1, <1>2, <2>1 DEF Open
  <2>3. task \notin BulkTasks
    BY <2>1, <2>2 DEF Nested
  <2> QED
    BY <1>2, <2>1, <2>3 DEF Ending
<1> QED
  BY <1>3, <1>4 DEF Slots

LEMMA AccessSeen ==
  ASSUME KInv, Access
  PROVE  KeptStep \/ Unseen
<1>0. /\ IInv /\ Nested /\ Kept /\ Storing /\ Resetting /\ flash \in Image
      /\ task' = task
  BY DEF KInv, IInv, TypeOK, MemoryType, Access, Construct, Copy, DropTemp, Close,
         WriteByte, ReadValue, Return, running
<1>1. CASE Committed
  <2>1. flash' = ram /\ Ending
    BY <1>1 DEF Committed, Ending
  <2>2. CASE task = "command"
    BY <1>0, <2>1, <2>2, ImageAllowed DEF KeptStep, Promised!Store
  <2>3. CASE task \in Resets
    BY <1>0, <2>1, <2>3, ImageAllowed DEF KeptStep, Promised!Reset
  <2>4. CASE task \notin Writers
    BY <1>0, <2>1, <2>4, ImageAllowed DEF Unseen
  <2> QED
    BY <2>2, <2>3, <2>4 DEF Writers
<1>2. CASE ~ Committed
  <2>1. flash' = flash
    BY <1>0, <1>2, AccessKinds DEF Shuffled, WriteByte, ReadValue, Return, memory
  <2> QED
    BY <1>0, <2>1 DEF Unseen
<1> QED
  BY <1>1, <1>2

LEMMA TaskSeen ==
  ASSUME KInv, Boot \/ Serve \/ Command \/ List \/ Reset
  PROVE  KeptStep \/ Unseen
<1>0. IInv /\ Nested /\ Kept /\ Checked
  BY DEF KInv
<1>1. CASE Setup
  <2>1. SoundImage(flash) /\ flash' = flash /\ task \notin Serving /\ task' \in Serving
    BY <1>0, <1>1 DEF Setup, Checked, Begin, memory, Serving
  <2> QED
    BY <2>1 DEF KeptStep, Promised!Boot
<1>2. CASE SetupFails
  BY <1>0, <1>2, FailedSetup DEF SetupFails, Begun, Unseen, Serving
<1>3. CASE PowerOn
  BY <1>3 DEF PowerOn, Begin, memory, Unseen, Serving
<1>4. CASE InitBoard
  BY <1>4 DEF InitBoard, Begin, memory, Unseen, Serving
<1>5. CASE InitBaudrate
  BY <1>5 DEF InitBaudrate, Begin, memory, Unseen, Serving
<1>6. CASE InitExternalPorts
  BY <1>6 DEF InitExternalPorts, Begin, memory, Unseen, Serving
<1>7. CASE InitFirmwareTarget
  BY <1>7 DEF InitFirmwareTarget, Begin, memory, Unseen, Serving
<1>8. CASE Answer
  BY <1>8 DEF Answer, Begin, memory, Unseen, Serving
<1>9. CASE Listed
  BY <1>9 DEF Listed, Begin, memory, Unseen, Serving
<1>10. CASE ResetDone
  BY <1>10 DEF ResetDone, Begin, memory, Unseen, Serving
<1>11. CASE Command
  BY <1>11 DEF Command, Begin, memory, Unseen, Serving
<1>12. CASE List
  BY <1>12 DEF List, Begin, memory, Unseen, Serving
<1>13. CASE Reset
  BY <1>13 DEF Reset, Begin, memory, Unseen, Serving
<1> QED
  BY <1>1, <1>2, <1>3, <1>4, <1>5, <1>6, <1>7, <1>8, <1>9, <1>10, <1>11, <1>12, <1>13
     DEF Boot, Serve

LEMMA RestartSeen ==
  ASSUME KInv, Restart \/ PowerLoss
  PROVE  KeptStep \/ Unseen
<1>1. task' = "off" /\ task' \notin Serving
  BY DEF Restart, PowerLoss, Restarted, Serving
<1>2. CASE flash' = flash
  BY <1>1, <1>2 DEF KeptStep, Promised!Stop
<1>3. CASE flash' # flash
  <2>1. PICK n \in Addr : Torn /\ WriteDue /\ flash' = Programmed(n)
    BY <1>3 DEF Restart, PowerLoss
  <2>2. Ending /\ task \in Writers /\ flash \in Image
    BY <2>1, WriteDueEnds DEF KInv, Kept, WriteDue, IInv, TypeOK, MemoryType
  <2>3. ram \in Promised!Stored \cup Promised!Restored
    BY <2>2, ImageAllowed DEF Writers
  <2>4. DOMAIN flash = Addr /\ DOMAIN ram = Addr
    BY <2>1, <2>2 DEF Image, WriteDue, KInv, IInv, TypeOK, MemoryType, InstancesCounted
  <2>5. flash' = Promised!Front(ram, n)
    BY <2>1, <2>4 DEF Programmed, Promised!Front
  <2> QED
    BY <1>1, <2>1, <2>3, <2>4, <2>5 DEF KeptStep, Promised!Tear
<1> QED
  BY <1>2, <1>3

(* A store command or a reset takes effect as a whole or not at all, nothing *)
(* else changes the settings, and a module serves only from settings it can  *)
(* use, wherever power is lost: the accessors, the image and the byte by     *)
(* byte writes implement the settings as promised.  The one exception it     *)
(* states is power lost while the sector is written: the front of what was   *)
(* to be written stays, with an erased rest.                                 *)
THEOREM SettingsKeptAlways == Spec => SettingsKept
<1>1. Init => ~ (task \in Serving)
  BY DEF Init, Serving
<1>2. KInv /\ [Next]_vars => [KeptStep]_<<flash, task \in Serving>>
  <2> SUFFICES ASSUME KInv, [Next]_vars PROVE KeptStep \/ Unseen
    BY DEF Unseen
  <2>1. CASE UNCHANGED vars
    BY <2>1 DEF vars, memory, running, Unseen
  <2> QED
    BY <2>1, AccessSeen, TaskSeen, RestartSeen DEF Next
<1> QED
  BY <1>1, <1>2, KeptInvariance, PTL DEF Spec, SettingsKept, Promised!Spec, KeptStep

-----------------------------------------------------------------------------
TargetCall == ReadCall(EP_TARGET_FW, 1)

(* The firmware target a boot or a command has read is the stored one. *)
TargetKnown ==
  /\ task \in {"target", "refresh"} => Reading(<<TargetCall>>)
  /\ task \in {"setup", "safe"} => FirmwareTarget = Target(flash[EP_TARGET_FW])

LEMMA TargetRight ==
  ASSUME KInv, TargetKnown, InitFirmwareTarget
  PROVE  FirmwareTarget' = Target(flash'[EP_TARGET_FW])
<1>1. /\ IInv /\ Nested /\ Finished /\ calls = <<>> /\ accessor["bulk"] \in {"none", "closed"}
      /\ flash' = flash /\ FirmwareTarget' = Target(got[1][1]) /\ Reading(<<TargetCall>>)
  BY DEF KInv, InitFirmwareTarget, Finished, Begin, memory, TargetKnown
<1>2. accessor["call"] = "none"
  BY <1>1, Idle
<1>3. got[1] = ValueAt(flash, TargetCall)
  <2>1. <<TargetCall>> \in Seq(Calls)
    BY CallsTyped DEF TargetCall
  <2>2. \A k \in 1 .. Len(<<TargetCall>>) : got[k] = ValueAt(flash, <<TargetCall>>[k])
    BY <1>1, <1>2, <2>1, AllRead
  <2> QED
    BY <2>2
<1>4. EP_TARGET_FW + 1 - 1 = EP_TARGET_FW
  <2>1. TargetCall.pos \in Addr
    BY ConfigStoreAssumption DEF TargetCall, ReadCalls
  <2> QED
    BY <2>1, ConfigStoreAssumption DEF TargetCall, ReadCall, Addr
<1>5. ValueAt(flash, TargetCall)[1] = flash[EP_TARGET_FW]
  BY <1>4 DEF ValueAt, TargetCall, ReadCall
<1> QED
  BY <1>1, <1>3, <1>5

LEMMA TargetStep == KInv /\ TargetKnown /\ [Next]_vars => TargetKnown'
<1> SUFFICES ASSUME KInv, TargetKnown, [Next]_vars PROVE TargetKnown'
  OBVIOUS
<1>0. IInv /\ Nested /\ Kept /\ Storing /\ Resetting
  BY DEF KInv
<1>a. /\ <<TargetCall>> \in Seq(Calls)
      /\ \A k \in DOMAIN <<TargetCall>> : Size(<<TargetCall>>[k]) > 0
  BY CallsTyped DEF TargetCall, ReadCall, Size
<1>b. ASSUME task' \notin {"target", "refresh", "setup", "safe"} PROVE TargetKnown'
  BY <1>b DEF TargetKnown
<1>1. CASE Access
  <2>1. task' = task /\ FirmwareTarget' = FirmwareTarget
    BY <1>1 DEF Access, Construct, Copy, DropTemp, Close, WriteByte, ReadValue, Return, running
  <2>2. CASE task \in {"target", "refresh", "setup", "safe"}
    <3>1. task \notin Writers
      BY <2>2 DEF Writers, Resets
    <3>2. flash' = flash
      BY <1>0, <1>1, <3>1, FlashKept
    <3>3. task \in {"target", "refresh"} => Reading(<<TargetCall>>)'
      BY <1>0, <1>1, <1>a, <3>1, <3>2, ReadingAccess DEF TargetKnown
    <3> QED
      BY <2>1, <3>2, <3>3 DEF TargetKnown
  <2> QED
    BY <1>b, <2>1, <2>2
<1>2. CASE InitExternalPorts
  <2>1. task' = "target" => Begun("target", <<TargetCall>>)
    BY <1>0, <1>2, BegunIdle DEF InitExternalPorts, TargetCall, Begin
  <2>2. task' = "target" \/ task' = "repair"
    BY <1>2 DEF InitExternalPorts, Begin
  <2> QED
    BY <1>a, <2>1, <2>2, ReadingBegun DEF TargetKnown
<1>3. CASE InitFirmwareTarget
  <2>1. task' \in {"setup", "ready"}
    BY <1>3 DEF InitFirmwareTarget, Begin
  <2> QED
    BY <1>3, <2>1, TargetRight DEF TargetKnown
<1>4. CASE SetupFails
  <2>1. flash' = flash /\ task = "setup" /\ task' = "safe" /\ FirmwareTarget' = FirmwareTarget
    BY <1>0, <1>4, FailedSetup DEF SetupFails, Begun
  <2> QED
    BY <2>1 DEF TargetKnown
<1>5. CASE Answer
  <2>1. task' = "refresh" => Begun("refresh", <<TargetCall>>)
    BY <1>0, <1>5, BegunIdle DEF Answer, TargetCall, Begin
  <2>2. task' = "refresh" \/ task' = "ready"
    BY <1>5 DEF Answer, Begin
  <2> QED
    BY <1>a, <2>1, <2>2, ReadingBegun DEF TargetKnown
<1>6. CASE \/ PowerOn \/ InitBoard \/ InitBaudrate \/ Setup \/ Listed \/ ResetDone
           \/ Command \/ List \/ Reset \/ Restart \/ PowerLoss
  <2>1. task' \in {"board", "baud", "ports", "repair", "ready", "command", "list", "reset",
                   "clear", "off"}
    BY <1>6 DEF PowerOn, InitBoard, InitBaudrate, Setup, Listed, ResetDone, Command, List,
                Reset, Restart, PowerLoss, Restarted, Begin
  <2> QED
    BY <1>b, <2>1
<1>7. CASE UNCHANGED vars
  BY <1>7 DEF vars, memory, running, TargetKnown, Reading
<1> QED
  BY <1>1, <1>2, <1>3, <1>4, <1>5, <1>6, <1>7 DEF Next, Boot, Serve

(* The firmware target in use is the stored one as soon as the command that *)
(* stored it, or a boot, is through.                                        *)
THEOREM TargetInUseAlways == Spec => TargetInUse
<1>1. Init => TargetKnown
  BY DEF Init, TargetKnown
<1>2. KInv /\ TargetKnown /\ [Next]_vars
        => [TargetRead /\ task' = "ready" => FirmwareTarget' = Target(flash'[EP_TARGET_FW])]_vars
  <2> SUFFICES ASSUME KInv, TargetKnown, Next, TargetRead, task' = "ready"
               PROVE  FirmwareTarget' = Target(flash'[EP_TARGET_FW])
    OBVIOUS
  <2>1. task \in {"refresh", "setup", "safe"} \/ (task = "command" /\ AsksTarget)
    BY DEF TargetRead
  <2>2. CASE InitFirmwareTarget
    BY <2>2, TargetRight
  <2>3. CASE Setup
    BY <2>3 DEF Setup, Begin, memory, TargetKnown
  <2>4. InitFirmwareTarget \/ Setup
    BY <2>1 DEF Next, Access, Construct, Copy, DropTemp, Close, WriteByte, ReadValue, Return,
                running, Boot, PowerOn, InitBoard, InitBaudrate, InitExternalPorts, SetupFails,
                Serve, Answer, Listed, ResetDone, Command, List, Reset, Restart, PowerLoss,
                Restarted, Begin
  <2> QED
    BY <2>2, <2>3, <2>4
<1> QED
  BY <1>1, <1>2, TargetStep, KeptInvariance, PTL DEF Spec, TargetInUse
=============================================================================
