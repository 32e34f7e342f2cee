------------------------- MODULE ConfigStore_proofs -------------------------
(***************************************************************************)
(* That the accessors of the settings are counted right, for every layout  *)
(* of the sector, every set of commands and any number of losses of power. *)
(***************************************************************************)
EXTENDS ConfigStore, TLAPS

(* The state of the calls of a task that the count rests on: an accessor of *)
(* a call belongs to a call that is still to return, and a firmware that is *)
(* off or waiting has none.                                                 *)
CallPending ==
  /\ accessor["call"] # "none" => calls # <<>>
  /\ task \in {"off", "ready"} => calls = <<>>

IInv == TypeOK /\ InstancesCounted /\ CallPending

(* The image of the library is never mistaken for its absence. *)
LEMMA ImageIsSome == NoImage \notin Image
<1>1. 0 \in Addr
  BY ConfigStoreAssumption DEF Addr
<1>2. \A f \in Image : f # NoImage
  <2>1. SUFFICES ASSUME NEW f \in Image, f = <<>> PROVE FALSE
    BY DEF NoImage
  <2>2. DOMAIN f = Addr
    BY DEF Image
  <2>3. DOMAIN f = {}
    BY <2>1
  <2> QED
    BY <1>1, <2>2, <2>3
<1> QED
  BY <1>2

(* What a call of the configuration functions touches lies in the sector. *)
LEMMA CallsInside ==
  ASSUME NEW c \in Calls
  PROVE  /\ Size(c) \in Nat /\ c.op \in {"read", "write"}
         /\ \A k \in 0 .. Size(c) - 1 :
              c.pos + k \in Addr /\ (c.op = "write" => c.bytes[k + 1] \in Byte)
<1>1. CASE c \in WriteCalls
  <2>1. /\ c.op = "write" /\ c.pos \in Addr /\ c.bytes \in Seq(Byte)
        /\ c.pos + Len(c.bytes) <= EEPROM_SIZE
    BY <1>1 DEF WriteCalls
  <2> QED
    BY <2>1, ConfigStoreAssumption DEF Size, Addr
<1>2. CASE c \in ReadCalls
  <2>1. /\ c.op = "read" /\ c.pos \in Addr /\ c.size \in Nat
        /\ c.pos + c.size <= EEPROM_SIZE
    BY <1>2 DEF ReadCalls
  <2> QED
    BY <2>1, ConfigStoreAssumption DEF Size, Addr
<1> QED
  BY <1>1, <1>2 DEF Calls

LEMMA ValueType ==
  ASSUME NEW image \in Image, NEW c \in Calls, c.op = "read"
  PROVE  ValueAt(image, c) \in Seq(Byte)
<1>1. c \in ReadCalls
  BY DEF Calls, WriteCalls
<1>2. c.pos \in Addr /\ c.size \in Nat /\ c.pos + c.size <= EEPROM_SIZE
  BY <1>1 DEF ReadCalls
<1>3. \A k \in 1 .. c.size : image[c.pos + k - 1] \in Byte
  BY <1>2, ConfigStoreAssumption DEF Addr, Image
<1> QED
  BY <1>2, <1>3 DEF ValueAt

-----------------------------------------------------------------------------
LEMMA InitInv == Init => IInv
<1> SUFFICES ASSUME Init PROVE IInv
  OBVIOUS
<1> USE ConfigStoreAssumption DEF Init
<1>1. MemoryType
  BY DEF MemoryType, NoImage
<1>2. CallType
  BY DEF CallType
<1>3. TaskType
  BY DEF TaskType, Slots, Objects
<1>4. InstancesCounted
  BY DEF InstancesCounted, Open, Slots
<1>5. CallPending
  BY DEF CallPending, Slots
<1> QED
  BY <1>1, <1>2, <1>3, <1>4, <1>5 DEF IInv, TypeOK

-----------------------------------------------------------------------------
(* A release closes one of the objects counted, and its image goes with the *)
(* last one.                                                                *)
LEMMA ReleaseStep ==
  ASSUME MemoryType, InstancesCounted, TaskType, Release, numInstances > 0
  PROVE  /\ MemoryType'
         /\ numInstances' = numInstances - 1
         /\ ram' = NoImage <=> numInstances' = 0
         /\ dirty' => numInstances' > 0
         /\ status' \in {"none", "updated", "saved"}
<1>1. numInstances \in Nat /\ numInstances > 0 /\ ram # NoImage /\ ram \in Image
  BY DEF MemoryType, InstancesCounted
<1>2. CASE numInstances = 1
  <2>1. /\ numInstances' = 0 /\ flash' = ram /\ ram' = NoImage /\ dirty' = FALSE
        /\ status' = IF dirty THEN "saved" ELSE status
    BY <1>2 DEF Release
  <2>2. MemoryType'
    BY <1>1, <2>1 DEF MemoryType
  <2>3. status' \in {"none", "updated", "saved"}
    BY <2>1, Zenon DEF TaskType
  <2> QED
    BY <1>2, <2>1, <2>2, <2>3
<1>3. CASE numInstances # 1
  <2>1. numInstances' = numInstances - 1 /\ UNCHANGED <<flash, ram, dirty, status>>
    BY <1>3 DEF Release
  <2>2. numInstances' \in Nat /\ numInstances' > 0
    BY <1>1, <1>3, <2>1
  <2>3. MemoryType'
    BY <2>1, <2>2 DEF MemoryType
  <2>4. status' \in {"none", "updated", "saved"}
    BY <2>1, Zenon DEF TaskType
  <2> QED
    BY <1>1, <2>1, <2>2, <2>3, <2>4
<1> QED
  BY <1>2, <1>3

(* The memory and its count after each step. *)
LEMMA MemoryStep == IInv /\ [Next]_vars => MemoryType' /\ InstancesCounted'
<1> SUFFICES ASSUME IInv, [Next]_vars PROVE MemoryType' /\ InstancesCounted'
  OBVIOUS
<1>0. /\ MemoryType /\ CallType /\ TaskType /\ InstancesCounted /\ CallPending
      /\ accessor \in [Slots -> Objects]
      /\ numInstances \in Nat /\ flash \in Image /\ dirty \in BOOLEAN
  BY DEF IInv, TypeOK, TaskType, MemoryType
<1>a. ASSUME UNCHANGED <<memory, accessor>> PROVE MemoryType' /\ InstancesCounted'
  BY <1>0, <1>a DEF memory, MemoryType, InstancesCounted, Open
<1>b. ASSUME UNCHANGED memory, accessor["bulk"] \in {"none", "closed"},
             accessor' = [accessor EXCEPT !["bulk"] = "none"]
      PROVE  MemoryType' /\ InstancesCounted'
  BY <1>0, <1>b DEF memory, MemoryType, InstancesCounted, Open, Slots
<1>1. ASSUME NEW s \in Slots, Construct(s) PROVE MemoryType' /\ InstancesCounted'
  <2>1. /\ accessor[s] = "none" /\ numInstances' = numInstances + 1
        /\ ram' = (IF numInstances = 0 THEN flash ELSE ram)
        /\ accessor' \in {[accessor EXCEPT ![s] = "temp"], [accessor EXCEPT ![s] = "open"]}
        /\ flash' = flash /\ dirty' = dirty
    BY <1>1 DEF Construct, Due, BulkDue, CallDue, Slots
  <2>2. ram' \in Image /\ ram' # NoImage
    BY <1>0, <2>1, ImageIsSome DEF MemoryType, InstancesCounted
  <2>3. MemoryType'
    BY <1>0, <2>1, <2>2 DEF MemoryType
  <2>4. numInstances' = Open("bulk")' + Open("call")'
    BY <1>0, <2>1 DEF InstancesCounted, Open, Slots
  <2>5. numInstances' > 0
    BY <1>0, <2>1
  <2> QED
    BY <2>2, <2>3, <2>4, <2>5 DEF InstancesCounted
<1>2. ASSUME NEW s \in Slots, Copy(s) PROVE MemoryType' /\ InstancesCounted'
  <2>1. /\ accessor[s] = "temp" /\ numInstances' = numInstances + 1
        /\ accessor' = [accessor EXCEPT ![s] = "both"]
        /\ ram' = ram /\ flash' = flash /\ dirty' = dirty
    BY <1>2 DEF Copy
  <2>2. MemoryType'
    BY <1>0, <2>1 DEF MemoryType
  <2>3. numInstances' = Open("bulk")' + Open("call")' /\ numInstances > 0
    BY <1>0, <2>1 DEF InstancesCounted, Open, Slots
  <2> QED
    BY <1>0, <2>1, <2>2, <2>3 DEF InstancesCounted
<1>3. ASSUME NEW s \in Slots, DropTemp(s) PROVE MemoryType' /\ InstancesCounted'
  <2>1. accessor[s] = "both" /\ accessor' = [accessor EXCEPT ![s] = "open"] /\ Release
    BY <1>3 DEF DropTemp
  <2>2. numInstances > 0 /\ numInstances - 1 = Open("bulk")' + Open("call")'
    BY <1>0, <2>1 DEF InstancesCounted, Open, Slots
  <2> QED
    BY <1>0, <2>1, <2>2, ReleaseStep DEF InstancesCounted
<1>4. ASSUME NEW s \in Slots, Close(s) PROVE MemoryType' /\ InstancesCounted'
  <2>1. accessor[s] = "open" /\ accessor' = [accessor EXCEPT ![s] = "closed"] /\ Release
    BY <1>4 DEF Close, CloseDue
  <2>2. numInstances > 0 /\ numInstances - 1 = Open("bulk")' + Open("call")'
    BY <1>0, <2>1 DEF InstancesCounted, Open, Slots
  <2> QED
    BY <1>0, <2>1, <2>2, ReleaseStep DEF InstancesCounted
<1>5. CASE WriteByte
  <2> DEFINE c == Head(calls)
  <2>1. /\ accessor["call"] = "open" /\ c.op = "write" /\ done < Size(c)
        /\ ram' = [ram EXCEPT ![c.pos + done] = c.bytes[done + 1]]
        /\ dirty' = (dirty \/ numInstances > 0)
        /\ UNCHANGED <<flash, numInstances, accessor>>
    BY <1>5 DEF WriteByte
  <2>2. numInstances > 0 /\ ram \in Image
    BY <1>0, <2>1 DEF InstancesCounted, Open, MemoryType, Slots
  <2>3. c \in Calls /\ done \in Nat
    BY <1>0, <2>1 DEF CallType, CallPending
  <2>4. c.pos + done \in Addr /\ c.bytes[done + 1] \in Byte
    BY <2>1, <2>3, CallsInside
  <2>5. ram' \in Image
    BY <2>1, <2>2, <2>4 DEF Image
  <2>6. dirty' \in BOOLEAN
    BY <2>1, Zenon
  <2>7. MemoryType'
    BY <1>0, <2>1, <2>5, <2>6 DEF MemoryType
  <2>8. Open("bulk")' = Open("bulk") /\ Open("call")' = Open("call")
    BY <2>1 DEF Open
  <2> QED
    BY <1>0, <2>1, <2>2, <2>5, <2>7, <2>8, ImageIsSome DEF InstancesCounted
<1>6. CASE ReadValue
  BY <1>6, <1>a DEF ReadValue, memory
<1>7. CASE Return
  <2>1. /\ accessor["call"] = "closed" /\ accessor' = [accessor EXCEPT !["call"] = "none"]
        /\ UNCHANGED memory
    BY <1>7 DEF Return
  <2> QED
    BY <1>0, <2>1 DEF memory, MemoryType, InstancesCounted, Open, Slots
<1>8. CASE PowerOn
  BY <1>8, <1>a DEF PowerOn, Begin, memory
<1>9. CASE InitBoard
  BY <1>9, <1>b DEF InitBoard, Begin, Finished
<1>10. CASE InitBaudrate
  BY <1>10, <1>b DEF InitBaudrate, Begin, Finished
<1>11. CASE InitExternalPorts
  BY <1>11, <1>b DEF InitExternalPorts, Begin, Finished
<1>12. CASE InitFirmwareTarget
  BY <1>12, <1>b DEF InitFirmwareTarget, Begin, Finished
<1>13. CASE Setup
  BY <1>13, <1>b DEF Setup, Begin, Finished
<1>14. CASE SetupFails
  <2>1. accessor["bulk"] = "open" /\ accessor' = [accessor EXCEPT !["bulk"] = "none"] /\ Release
    BY <1>14 DEF SetupFails
  <2>2. numInstances > 0 /\ numInstances - 1 = Open("bulk")' + Open("call")'
    BY <1>0, <2>1 DEF InstancesCounted, Open, Slots
  <2> QED
    BY <1>0, <2>1, <2>2, ReleaseStep DEF InstancesCounted
<1>15. CASE Command
  BY <1>15, <1>a DEF Command, Begin, memory
<1>16. CASE Answer
  BY <1>16, <1>b DEF Answer, Begin, Finished
<1>17. CASE List
  BY <1>17, <1>a DEF List, Begin, memory
<1>18. CASE Listed
  BY <1>18, <1>b DEF Listed, Begin, Finished
<1>19. CASE Reset
  BY <1>19, <1>a DEF Reset, Begin, memory
<1>20. CASE ResetDone
  BY <1>20, <1>b DEF ResetDone, Begin, Finished
<1>c. ASSUME Restarted, flash' \in Image PROVE MemoryType' /\ InstancesCounted'
  <2>1. /\ ram' = NoImage /\ numInstances' = 0 /\ dirty' = FALSE
        /\ accessor' = [s \in Slots |-> "none"]
    BY <1>c DEF Restarted
  <2>2. MemoryType'
    BY <1>c, <2>1 DEF MemoryType
  <2>3. Open("bulk")' = 0 /\ Open("call")' = 0
    BY <2>1 DEF Open, Slots
  <2> QED
    BY <2>1, <2>2, <2>3 DEF InstancesCounted
<1>21. CASE Restart
  BY <1>0, <1>21, <1>c DEF Restart
<1>22. CASE PowerLoss
  <2>1. Restarted /\ (flash' = flash \/ \E n \in Addr : flash' = Programmed(n) /\ WriteDue)
    BY <1>22 DEF PowerLoss
  <2>2. WriteDue => ram \in Image
    BY <1>0 DEF WriteDue, InstancesCounted, MemoryType
  <2>3. ASSUME NEW n \in Addr, WriteDue PROVE Programmed(n) \in Image
    BY <2>2, <2>3, ConfigStoreAssumption DEF Programmed, Image
  <2> QED
    BY <1>0, <1>c, <2>1, <2>3
<1>23. CASE UNCHANGED vars
  BY <1>23, <1>a DEF vars
<1> QED
  BY <1>1, <1>2, <1>3, <1>4, <1>5, <1>6, <1>7, <1>8, <1>9, <1>10, <1>11, <1>12, <1>13,
     <1>14, <1>15, <1>16, <1>17, <1>18, <1>19, <1>20, <1>21, <1>22, <1>23
     DEF Next, Access, Boot, Serve

-----------------------------------------------------------------------------
(* What a task begins with, and that its calls are what they should be. *)
LEMMA BeginTyped ==
  ASSUME NEW t, NEW cs \in Seq(Calls), Begin(t, cs)
  PROVE  CallType' /\ calls' = cs /\ task' = t
BY DEF Begin, CallType

LEMMA CallsTyped ==
  /\ BoardReads \in Seq(Calls) /\ SetupReads \in Seq(Calls) /\ ListReads \in Seq(Calls)
  /\ ResetCalls \in Seq(Calls)
  /\ <<ReadCall(EP_BAUD_RATE, INTEGER_LENGTH)>> \in Seq(Calls)
  /\ <<ReadCall(EP_WEB_PORT, INTEGER_LENGTH), ReadCall(EP_DATA_PORT, INTEGER_LENGTH)>>
       \in Seq(Calls)
  /\ <<ReadCall(EP_TARGET_FW, 1)>> \in Seq(Calls)
  /\ <<>> \in Seq(Calls)
  /\ \A c \in Commands : Accepts(c) => <<WriteCall(c)>> \in Seq(Calls)
<1>1. \A cs : cs \in Seq(ReadCalls) \/ cs \in Seq(WriteCalls) => cs \in Seq(Calls)
  BY DEF Calls
<1>2. /\ ReadCall(EP_BAUD_RATE, INTEGER_LENGTH) \in Calls
      /\ ReadCall(EP_WEB_PORT, INTEGER_LENGTH) \in Calls
      /\ ReadCall(EP_DATA_PORT, INTEGER_LENGTH) \in Calls
      /\ ReadCall(EP_TARGET_FW, 1) \in Calls
  BY ConfigStoreAssumption, Zenon DEF Calls
<1>3. \A c \in Commands : Accepts(c) => WriteCall(c) \in Calls
  BY ConfigStoreAssumption, Zenon DEF Calls
<1> QED
  BY <1>1, <1>2, <1>3, ConfigStoreAssumption

(* The calls of the tasks, and where they are, after each step. *)
LEMMA CallStep == IInv /\ [Next]_vars => CallType' /\ CallPending'
<1> SUFFICES ASSUME IInv, [Next]_vars PROVE CallType' /\ CallPending'
  OBVIOUS
<1>0. /\ MemoryType /\ CallType /\ TaskType /\ InstancesCounted /\ CallPending
      /\ accessor \in [Slots -> Objects]
  BY DEF IInv, TypeOK, TaskType
<1>a. ASSUME UNCHANGED running, accessor'["call"] = "none" \/ accessor["call"] # "none"
      PROVE  CallType' /\ CallPending'
  BY <1>0, <1>a DEF running, CallType, CallPending
<1>b. ASSUME NEW t, NEW cs \in Seq(Calls), Begin(t, cs), Finished,
             cs = <<>> \/ t \notin {"off", "ready"}
      PROVE  CallType' /\ CallPending'
  <2>1. CallType' /\ calls' = cs /\ task' = t
    BY <1>b, BeginTyped
  <2>2. accessor'["call"] = "none"
    BY <1>0, <1>b DEF Finished, CallPending, Slots
  <2> QED
    BY <1>b, <2>1, <2>2 DEF CallPending
<1>c. ASSUME NEW t, NEW cs \in Seq(Calls), Begin(t, cs), task \in {"off", "ready"},
             UNCHANGED accessor, t \notin {"off", "ready"}
      PROVE  CallType' /\ CallPending'
  <2>1. CallType' /\ calls' = cs /\ task' = t
    BY <1>c, BeginTyped
  <2>2. accessor'["call"] = "none"
    BY <1>0, <1>c DEF CallPending
  <2> QED
    BY <1>c, <2>1, <2>2 DEF CallPending
<1>1. ASSUME NEW s \in Slots, Construct(s) PROVE CallType' /\ CallPending'
  <2>1. calls # <<>> /\ UNCHANGED running
    BY <1>1 DEF Construct, Due, BulkDue, CallDue
  <2>2. task \notin {"off", "ready"}
    BY <1>0, <2>1 DEF CallPending
  <2> QED
    BY <1>0, <2>1, <2>2 DEF running, CallType, CallPending
<1>2. ASSUME NEW s \in Slots, NEW o,
             accessor[s] # "none" /\ accessor' = [accessor EXCEPT ![s] = o] /\ UNCHANGED running
      PROVE  CallType' /\ CallPending'
  BY <1>0, <1>2, <1>a DEF Slots
<1>3. ASSUME NEW s \in Slots, Copy(s) \/ DropTemp(s) \/ Close(s)
      PROVE  CallType' /\ CallPending'
  BY <1>2, <1>3 DEF Copy, DropTemp, Close, CloseDue
<1>5. CASE WriteByte
  <2>1. /\ accessor["call"] = "open" /\ UNCHANGED <<accessor, task, calls, got>>
        /\ done' = done + 1
    BY <1>5 DEF WriteByte
  <2> QED
    BY <1>0, <2>1 DEF CallType, CallPending
<1>6. CASE ReadValue
  <2>1. /\ accessor["call"] = "open" /\ Head(calls).op = "read"
        /\ UNCHANGED <<accessor, task, calls>>
        /\ got' = Append(got, ValueAt(ram, Head(calls))) /\ done' = Size(Head(calls))
    BY <1>6 DEF ReadValue
  <2>2. ram \in Image
    BY <1>0, <2>1 DEF InstancesCounted, Open, MemoryType, Slots
  <2>3. Head(calls) \in Calls
    BY <1>0, <2>1 DEF CallType, CallPending
  <2>4. ValueAt(ram, Head(calls)) \in Seq(Byte) /\ Size(Head(calls)) \in Nat
    BY <2>1, <2>2, <2>3, ValueType, CallsInside
  <2> QED
    BY <1>0, <2>1, <2>4 DEF CallType, CallPending
<1>7. CASE Return
  <2>1. /\ accessor["call"] = "closed" /\ accessor' = [accessor EXCEPT !["call"] = "none"]
        /\ calls' = Tail(calls) /\ done' = 0 /\ got' = got /\ task' = task
    BY <1>7 DEF Return
  <2>2. calls # <<>> /\ task \notin {"off", "ready"}
    BY <1>0, <2>1 DEF CallPending
  <2> QED
    BY <1>0, <2>1, <2>2 DEF CallType, CallPending, Slots
<1>8. CASE PowerOn
  BY <1>8, <1>c, CallsTyped DEF PowerOn
<1>9. CASE InitBoard
  BY <1>9, <1>b, CallsTyped DEF InitBoard
<1>10. CASE InitBaudrate
  BY <1>10, <1>b, CallsTyped DEF InitBaudrate
<1>11. CASE InitExternalPorts
  BY <1>11, <1>b, CallsTyped DEF InitExternalPorts
<1>12. CASE InitFirmwareTarget
  BY <1>12, <1>b, CallsTyped DEF InitFirmwareTarget
<1>13. CASE Setup
  BY <1>13, <1>b, CallsTyped DEF Setup
<1>14. CASE SetupFails
  <2>1. /\ calls = <<>> /\ accessor' = [accessor EXCEPT !["bulk"] = "none"]
        /\ task' = "safe" /\ calls' = SetupReads /\ done' = 0 /\ got' = <<>>
    BY <1>14 DEF SetupFails
  <2> QED
    BY <1>0, <2>1, CallsTyped DEF CallType, CallPending, Slots
<1>15. CASE Command
  BY <1>15, <1>c, CallsTyped DEF Command
<1>16. CASE Answer
  BY <1>16, <1>b, CallsTyped DEF Answer
<1>17. CASE List
  BY <1>17, <1>c, CallsTyped DEF List
<1>18. CASE Listed
  BY <1>18, <1>b, CallsTyped DEF Listed
<1>19. CASE Reset
  BY <1>19, <1>c, CallsTyped DEF Reset
<1>20. CASE ResetDone
  BY <1>20, <1>b, CallsTyped DEF ResetDone
<1>21. CASE Restarted
  BY <1>21 DEF Restarted, CallType, CallPending, Slots
<1>22. CASE UNCHANGED vars
  BY <1>0, <1>22 DEF vars, running, CallType, CallPending
<1> QED
  BY <1>1, <1>3, <1>5, <1>6, <1>7, <1>8, <1>9, <1>10, <1>11, <1>12, <1>13,
     <1>14, <1>15, <1>16, <1>17, <1>18, <1>19, <1>20, <1>21, <1>22
     DEF Next, Access, Boot, Serve, Restart, PowerLoss

(* The rest of the state: the objects, the task, what it shows and knows. *)
LEMMA TaskStep == IInv /\ [Next]_vars => TaskType'
<1> SUFFICES ASSUME IInv, [Next]_vars PROVE TaskType'
  OBVIOUS
<1>0. /\ MemoryType /\ TaskType /\ InstancesCounted
      /\ accessor \in [Slots -> Objects] /\ UNKNOWN_FW \in Targets
  BY ConfigStoreAssumption DEF IInv, TypeOK, TaskType
<1> DEFINE Tasks == {"off"} \cup Booting \cup Serving
<1>a. ASSUME accessor' \in [Slots -> Objects],
             task' \in Tasks, asked' \in Commands \cup {NoCommand},
             FirmwareTarget' \in Targets, status' \in {"none", "updated", "saved"},
             losses' \in 0 .. MaxLosses
      PROVE  TaskType'
  BY <1>a DEF TaskType
<1>b. ASSUME NEW s \in Slots, NEW o \in Objects, accessor' = [accessor EXCEPT ![s] = o],
             UNCHANGED <<task, asked, FirmwareTarget, losses>>,
             status' \in {"none", "updated", "saved"}
      PROVE  TaskType'
  BY <1>0, <1>b DEF TaskType
<1>c. ASSUME NEW t \in Tasks, NEW cs, Begin(t, cs), accessor' \in [Slots -> Objects],
             UNCHANGED <<asked, FirmwareTarget, status>>
      PROVE  TaskType'
  BY <1>0, <1>c DEF Begin, TaskType
<1>d. ASSUME Finished PROVE accessor' \in [Slots -> Objects]
  BY <1>0, <1>d DEF Finished, Objects
<1>e. {"off", "board", "baud", "ports", "repair", "target", "setup", "safe",
       "ready", "command", "refresh", "reset", "clear", "list"} \subseteq Tasks
  BY DEF Booting, Serving
<1>f. \A b : Target(b) \in Targets
  BY <1>0 DEF Target
<1>1. ASSUME NEW s \in Slots, Construct(s) PROVE TaskType'
  <2>1. /\ \E o \in Objects : accessor' = [accessor EXCEPT ![s] = o]
        /\ UNCHANGED <<task, asked, FirmwareTarget, losses, status>>
    BY <1>1 DEF Construct, Objects, running
  <2> QED
    BY <1>0, <1>b, <2>1 DEF TaskType
<1>2. ASSUME NEW s \in Slots, Copy(s) PROVE TaskType'
  BY <1>0, <1>2, <1>b DEF Copy, Objects, running, TaskType
<1>3. ASSUME NEW s \in Slots, NEW o \in Objects, accessor[s] \in {"both", "open"},
             accessor' = [accessor EXCEPT ![s] = o], Release,
             UNCHANGED <<running, FirmwareTarget, losses>>
      PROVE  TaskType'
  <2>1. numInstances > 0
    BY <1>0, <1>3 DEF InstancesCounted, Open, Slots
  <2>2. status' \in {"none", "updated", "saved"}
    BY <1>0, <1>3, <2>1, ReleaseStep
  <2> QED
    BY <1>3, <1>b, <2>2 DEF running
<1>4. ASSUME NEW s \in Slots, DropTemp(s) \/ Close(s) PROVE TaskType'
  BY <1>4, <1>3 DEF DropTemp, Close, CloseDue, Objects
<1>5. CASE WriteByte
  <2>1. status' \in {"none", "updated", "saved"}
    BY <1>0, <1>5, Zenon DEF WriteByte, TaskType
  <2> QED
    BY <1>0, <1>5, <2>1 DEF WriteByte, TaskType
<1>6. CASE ReadValue
  BY <1>0, <1>6 DEF ReadValue, TaskType
<1>7. CASE Return
  BY <1>0, <1>7 DEF Return, TaskType, Objects
<1>8. CASE PowerOn
  BY <1>0, <1>8, <1>c, <1>e DEF PowerOn
<1>9. CASE InitBoard
  BY <1>9, <1>c, <1>d, <1>e DEF InitBoard
<1>10. CASE InitBaudrate
  BY <1>10, <1>c, <1>d, <1>e DEF InitBaudrate
<1>11. CASE InitExternalPorts
  BY <1>11, <1>c, <1>d, <1>e DEF InitExternalPorts
<1>12. CASE InitFirmwareTarget
  <2>1. accessor' \in [Slots -> Objects] /\ FirmwareTarget' \in Targets
    BY <1>12, <1>d, <1>f DEF InitFirmwareTarget
  <2>2. task' \in Tasks /\ losses' = losses
    BY <1>12, <1>e DEF InitFirmwareTarget, Begin
  <2> QED
    BY <1>0, <1>12, <2>1, <2>2 DEF InitFirmwareTarget, TaskType
<1>13. CASE Setup
  BY <1>13, <1>c, <1>d, <1>e DEF Setup
<1>14. CASE SetupFails
  <2>1. /\ accessor["bulk"] = "open" /\ accessor' = [accessor EXCEPT !["bulk"] = "none"]
        /\ Release /\ task' = "safe" /\ UNCHANGED <<asked, FirmwareTarget, losses>>
    BY <1>14 DEF SetupFails
  <2>2. numInstances > 0
    BY <1>0, <2>1 DEF InstancesCounted, Open, Slots
  <2>3. status' \in {"none", "updated", "saved"}
    BY <1>0, <2>1, <2>2, ReleaseStep
  <2> QED
    BY <1>0, <1>e, <2>1, <2>3 DEF TaskType, Objects
<1>15. CASE Command
  BY <1>0, <1>15, <1>e DEF Command, Begin, TaskType
<1>16. CASE Answer
  BY <1>16, <1>c, <1>d, <1>e DEF Answer
<1>17. CASE List
  BY <1>0, <1>17, <1>c, <1>e DEF List
<1>18. CASE Listed
  BY <1>18, <1>c, <1>d, <1>e DEF Listed
<1>19. CASE Reset
  BY <1>0, <1>19, <1>e DEF Reset, Begin, TaskType
<1>20. CASE ResetDone
  BY <1>20, <1>c, <1>d, <1>e DEF ResetDone
<1>21. ASSUME Restarted, losses' \in 0 .. MaxLosses PROVE TaskType'
  BY <1>0, <1>21 DEF Restarted, TaskType, Slots, Objects
<1>22. CASE Restart
  BY <1>0, <1>21, <1>22 DEF Restart, TaskType
<1>23. CASE PowerLoss
  <2>1. losses \in 0 .. MaxLosses /\ losses < MaxLosses /\ losses' = losses + 1 /\ Restarted
    BY <1>0, <1>23 DEF PowerLoss, TaskType
  <2> QED
    BY <1>21, <2>1, ConfigStoreAssumption
<1>24. CASE UNCHANGED vars
  BY <1>0, <1>24 DEF vars, running, TaskType
<1> QED
  BY <1>1, <1>2, <1>4, <1>5, <1>6, <1>7, <1>8, <1>9, <1>10, <1>11, <1>12, <1>13,
     <1>14, <1>15, <1>16, <1>17, <1>18, <1>19, <1>20, <1>22, <1>23, <1>24
     DEF Next, Access, Boot, Serve

-----------------------------------------------------------------------------
LEMMA Invariance == Spec => []IInv
<1>1. Init => IInv
  BY InitInv
<1>2. IInv /\ [Next]_vars => IInv'
  BY MemoryStep, CallStep, TaskStep DEF IInv, TypeOK
<1> QED
  BY <1>1, <1>2, PTL DEF Spec

(* Every variable of the settings keeps its type, an access inside the sector *)
(* included, whatever the layout, the commands and the losses of power.       *)
THEOREM TypeCorrect == Spec => []TypeOK
<1>1. IInv => TypeOK
  BY DEF IInv
<1> QED
  BY <1>1, Invariance, PTL

(* EEPROMAccessor::_numInstances is the number of open accessor objects, and *)
(* the library holds an image exactly while there is one, copies, double     *)
(* closes and early returns included.                                        *)
THEOREM CountedAlways == Spec => []InstancesCounted
<1>1. IInv => InstancesCounted
  BY DEF IInv
<1> QED
  BY <1>1, Invariance, PTL
=============================================================================
