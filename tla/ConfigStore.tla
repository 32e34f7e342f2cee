---------------------------- MODULE ConfigStore ----------------------------
(***************************************************************************)
(* The settings of the module: config.cpp's EEPROMAccessor, the functions  *)
(* that read and write a setting through it, reset_config, and the tasks   *)
(* of the firmware that call them - the boot of esp3d.ino, the commands of *)
(* command.cpp, the reset button of board.cpp.                             *)
(*                                                                         *)
(* The EEPROM library keeps a RAM image of one flash sector.  The first    *)
(* accessor to be constructed loads the image, the last one to be closed   *)
(* writes it back; a bulk accessor held around several calls makes their   *)
(* nested accessors share one image and one write.  Everything runs on one *)
(* thread, so what can come between two steps is only a loss of power,     *)
(* which costs the image and every variable and keeps the flash.           *)
(***************************************************************************)
EXTENDS Integers, Sequences

CONSTANTS
  EEPROM_SIZE,     \* bytes of the sector
  Byte,            \* values of a byte the model distinguishes
  Blank,           \* the value of an erased byte
  Images,          \* what the flash may hold when the module is first switched on
  EP_BAUD_RATE, INTEGER_LENGTH, EP_WEB_PORT, EP_DATA_PORT, EP_TARGET_FW, EP_DATA_STRING,
  Bauds, Ports,    \* the values InitBaudrate and InitExternalPorts accept
  Targets,         \* the firmware targets, 0 .. MAX_FW_ID
  TextLimits,      \* the longest text of the positions that hold one
  Defaults,        \* the writes of reset_config, in their order
  Commands,        \* the settings a command may ask to store
  BoardReads, SetupReads, ListReads, \* what Board::init, WIFI_CONFIG::Setup and a listing read
  Torn,            \* power may be lost while the sector is being written
  MaxLosses        \* losses of power in a behaviour

Addr == 0 .. EEPROM_SIZE - 1
UNKNOWN_FW == 0
Image == [Addr -> Byte]
NoImage == <<>>
Erased == [a \in Addr |-> Blank]

(* The bytes a value is stored as: the text of a string is closed by a zero. *)
Written(c) == IF c.type = "S" THEN Append(c.value, 0) ELSE c.value

TextLimit(pos) == IF pos \in DOMAIN TextLimits THEN TextLimits[pos] ELSE EEPROM_SIZE

(* The refusals of write_string, write_buffer and write_byte, before any access. *)
Accepts(c) ==
  /\ c.pos + Len(Written(c)) <= EEPROM_SIZE
  /\ c.type = "S" => /\ Len(c.value) > 0 \/ c.pos = EP_DATA_STRING
                     /\ Len(c.value) <= TextLimit(c.pos)

WriteCall(c) == [op |-> "write", pos |-> c.pos, bytes |-> Written(c)]
ReadCall(p, size) == [op |-> "read", pos |-> p, size |-> size]

WriteCalls == {c \in [op : {"write"}, pos : Addr, bytes : Seq(Byte)] :
                 c.pos + Len(c.bytes) <= EEPROM_SIZE}
ReadCalls == {c \in [op : {"read"}, pos : Addr, size : Nat] : c.pos + c.size <= EEPROM_SIZE}
Calls == WriteCalls \cup ReadCalls

(* The writes of reset_config: the chain of && goes on as none is refused. *)
ResetUpToBaudrate == [k \in {j \in DOMAIN Defaults : j <= 2} |-> WriteCall(Defaults[k])]
ResetCalls == [k \in DOMAIN Defaults |-> WriteCall(Defaults[k])]

Within(c, a) == a \in c.pos .. c.pos + Len(c.bytes) - 1

ASSUME ConfigStoreAssumption ==
  /\ EEPROM_SIZE \in Nat \ {0}
  /\ Blank \in Byte /\ 0 \in Byte
  /\ Images \subseteq Image
  /\ UNKNOWN_FW \in Targets
  /\ \A c \in Commands : Accepts(c) => WriteCall(c) \in WriteCalls
  /\ \A k \in DOMAIN Defaults : Accepts(Defaults[k])
  /\ ResetCalls \in Seq(WriteCalls) /\ ResetCalls # <<>>
  /\ \A reads \in {BoardReads, SetupReads, ListReads} : reads \in Seq(ReadCalls) /\ reads # <<>>
  /\ {ReadCall(EP_BAUD_RATE, INTEGER_LENGTH), ReadCall(EP_WEB_PORT, INTEGER_LENGTH),
      ReadCall(EP_DATA_PORT, INTEGER_LENGTH), ReadCall(EP_TARGET_FW, 1)} \subseteq ReadCalls
  /\ Torn \in BOOLEAN
  /\ MaxLosses \in Nat

(* The positions of config.h do not overlap where reset_config writes. *)
ASSUME DefaultsApart ==
  \A j, k \in DOMAIN ResetCalls : \A a \in Addr :
    Within(ResetCalls[j], a) /\ Within(ResetCalls[k], a) => j = k

ASSUME IntegerLength == INTEGER_LENGTH # 0

VARIABLES
  flash,           \* the sector
  ram,             \* the image of the library, NoImage before begin and after end
  numInstances,    \* EEPROMAccessor::_numInstances
  dirty,           \* EEPROMAccessor::_dirty
  accessor,        \* the accessor objects: the bulk one and the one of the running call
  task,            \* what the firmware is doing
  calls, done,     \* the calls its task has still to make, and the bytes of the first one
  got,             \* the values its task has read
  asked,           \* the command being obeyed
  FirmwareTarget,  \* CONFIG::FirmwareTarget
  status,          \* the last line of the task on the status display
  losses           \* how often power was lost

memory == <<flash, ram, numInstances, dirty>>
running == <<task, calls, done, got, asked>>
vars == <<memory, accessor, running, FirmwareTarget, status, losses>>

Slots == {"bulk", "call"}
Objects == {"none", "temp", "both", "open", "closed"}
Booting == {"board", "baud", "ports", "repair", "target", "setup", "safe"}
Serving == {"ready", "command", "refresh", "reset", "clear", "list"}
BulkTasksButReset == {"ports", "setup", "safe", "list"}
BulkTasks == {"ports", "repair", "setup", "safe", "reset", "clear", "list"}
Resets == {"repair", "reset", "clear"}
NoCommand == [pos |-> 0, type |-> "none", value |-> <<>>]

Size(c) == IF c.op = "write" THEN Len(c.bytes) ELSE c.size
ValueAt(image, c) == [k \in 1 .. c.size |-> image[c.pos + k - 1]]

(* the value SetFirmwareTarget leaves for the byte InitFirmwareTarget read *)
Target(b) == IF b \in Targets THEN b ELSE UNKNOWN_FW

-----------------------------------------------------------------------------
(* The accessors *)

(* the accessor a task has to construct next *)
BulkDue == task \in BulkTasks /\ accessor["bulk"] = "none" /\ calls # <<>>
CallDue == /\ calls # <<>> /\ accessor["call"] = "none"
           /\ task \in BulkTasks => accessor["bulk"] = "open"
Due(s) == IF s = "bulk" THEN BulkDue ELSE CallDue

(* EEPROMAccessor(): the first instance makes the library load the image. *)
(* beginBulkAccess returns the object by value: the compiler elides the   *)
(* copy, or a temporary is copied and destroyed.                          *)
Construct(s) ==
  /\ Due(s)
  /\ numInstances' = numInstances + 1
  /\ ram' = IF numInstances = 0 THEN flash ELSE ram
  /\ \E object \in {"temp", "open"} : accessor' = [accessor EXCEPT ![s] = object]
  /\ UNCHANGED <<flash, dirty, running, FirmwareTarget, status, losses>>

CopyUncounted(s) ==
  /\ accessor[s] = "temp"
  /\ accessor' = [accessor EXCEPT ![s] = "both"]
  /\ UNCHANGED <<memory, running, FirmwareTarget, status, losses>>

Copy(s) ==
  /\ accessor[s] = "temp"
  /\ numInstances' = numInstances + 1
  /\ accessor' = [accessor EXCEPT ![s] = "both"]
  /\ UNCHANGED <<flash, ram, dirty, running, FirmwareTarget, status, losses>>

ReleaseAnnouncing ==
  /\ numInstances' = numInstances - 1
  /\ status' = IF dirty THEN "saved" ELSE status
  /\ IF numInstances = 1
     THEN flash' = ram /\ ram' = NoImage /\ dirty' = FALSE
     ELSE UNCHANGED <<flash, ram, dirty>>

(* What close() does to an open object: the last one ends the library's use *)
(* of the sector, which writes the image back.                              *)
Release ==
  /\ numInstances' = numInstances - 1
  /\ IF numInstances = 1
     THEN /\ flash' = ram /\ ram' = NoImage /\ dirty' = FALSE
          /\ status' = IF dirty THEN "saved" ELSE status
     ELSE UNCHANGED <<flash, ram, dirty, status>>

(* ~EEPROMAccessor() of the temporary *)
DropTemp(s) ==
  /\ accessor[s] = "both"
  /\ accessor' = [accessor EXCEPT ![s] = "open"]
  /\ Release
  /\ UNCHANGED <<running, FirmwareTarget, losses>>

(* the object whose close() is the next statement *)
CloseDue(s) ==
  /\ accessor[s] = "open"
  /\ IF s = "bulk" THEN calls = <<>> ELSE done = Size(Head(calls))

Close(s) ==
  /\ CloseDue(s)
  /\ accessor' = [accessor EXCEPT ![s] = "closed"]
  /\ Release
  /\ UNCHANGED <<running, FirmwareTarget, losses>>

-----------------------------------------------------------------------------
(* write_string, write_buffer, write_byte and read_buffer, read_byte: a call *)
(* goes through the image byte by byte with an accessor of its own.          *)

WriteByte ==
  /\ accessor["call"] = "open" /\ Head(calls).op = "write" /\ done < Size(Head(calls))
  /\ ram' = [ram EXCEPT ![Head(calls).pos + done] = Head(calls).bytes[done + 1]]
  /\ dirty' = (dirty \/ numInstances > 0)
  /\ done' = done + 1
  /\ status' = IF done' = Size(Head(calls)) THEN "updated" ELSE status
  /\ UNCHANGED <<flash, numInstances, accessor, task, calls, got, asked,
                 FirmwareTarget, losses>>

ReadValue ==
  /\ accessor["call"] = "open" /\ Head(calls).op = "read" /\ done < Size(Head(calls))
  /\ got' = Append(got, ValueAt(ram, Head(calls)))
  /\ done' = Size(Head(calls))
  /\ UNCHANGED <<memory, accessor, task, calls, asked, FirmwareTarget, status, losses>>

ReturnClosingAgain ==
  /\ accessor["call"] = "closed"
  /\ accessor' = [accessor EXCEPT !["call"] = "none"]
  /\ Release
  /\ calls' = Tail(calls) /\ done' = 0
  /\ UNCHANGED <<task, got, asked, FirmwareTarget, losses>>

(* The call returns, its object is destroyed. *)
Return ==
  /\ accessor["call"] = "closed"
  /\ accessor' = [accessor EXCEPT !["call"] = "none"]
  /\ calls' = Tail(calls) /\ done' = 0
  /\ UNCHANGED <<memory, task, got, asked, FirmwareTarget, status, losses>>

-----------------------------------------------------------------------------
(* The tasks of the firmware *)

Begin(t, cs) ==
  /\ task' = t /\ calls' = cs /\ done' = 0 /\ got' = <<>>
  /\ UNCHANGED <<memory, losses>>

(* The task has made its calls and closed its bulk accessor, which goes out *)
(* of scope.                                                                *)
Finished ==
  /\ calls = <<>> /\ accessor["bulk"] \in {"none", "closed"}
  /\ accessor' = [accessor EXCEPT !["bulk"] = "none"]

(* Reset or switched on, the module starts from its initial variables. *)
Restarted ==
  /\ task' = "off" /\ calls' = <<>> /\ done' = 0 /\ got' = <<>> /\ asked' = NoCommand
  /\ ram' = NoImage /\ numInstances' = 0 /\ dirty' = FALSE
  /\ accessor' = [s \in Slots |-> "none"]
  /\ FirmwareTarget' = UNKNOWN_FW /\ status' = "none"

PowerOn ==
  /\ task = "off"
  /\ Begin("board", BoardReads)
  /\ UNCHANGED <<accessor, asked, FirmwareTarget, status>>

InitBoard ==
  /\ task = "board" /\ Finished
  /\ Begin("baud", <<ReadCall(EP_BAUD_RATE, INTEGER_LENGTH)>>)
  /\ UNCHANGED <<asked, FirmwareTarget, status>>

InitBaudrate ==
  /\ task = "baud" /\ Finished
  /\ IF got[1] \in Bauds
     THEN Begin("ports", <<ReadCall(EP_WEB_PORT, INTEGER_LENGTH),
                           ReadCall(EP_DATA_PORT, INTEGER_LENGTH)>>)
     ELSE Begin("repair", ResetCalls)
  /\ UNCHANGED <<asked, FirmwareTarget, status>>

InitExternalPorts ==
  /\ task = "ports" /\ Finished
  /\ IF got[1] \in Ports /\ got[2] \in Ports
     THEN Begin("target", <<ReadCall(EP_TARGET_FW, 1)>>)
     ELSE Begin("repair", ResetCalls)
  /\ UNCHANGED <<asked, FirmwareTarget, status>>

InitFirmwareTarget ==
  /\ task \in {"target", "refresh"} /\ Finished
  /\ FirmwareTarget' = Target(got[1][1])
  /\ IF task = "target" THEN Begin("setup", SetupReads) ELSE Begin("ready", <<>>)
  /\ UNCHANGED <<asked, status>>

Setup ==
  /\ task \in {"setup", "safe"} /\ Finished
  /\ Begin("ready", <<>>)
  /\ UNCHANGED <<asked, FirmwareTarget, status>>

(* No access point answered: Setup returns with its bulk accessor open,     *)
(* whose destructor closes it; setup() calls it again for the access point. *)
SetupFails ==
  /\ task = "setup" /\ calls = <<>> /\ accessor["bulk"] = "open"
  /\ accessor' = [accessor EXCEPT !["bulk"] = "none"]
  /\ Release
  /\ task' = "safe" /\ calls' = SetupReads /\ done' = 0 /\ got' = <<>>
  /\ UNCHANGED <<asked, FirmwareTarget, losses>>

Command ==
  /\ task = "ready"
  /\ \E c \in Commands : Accepts(c) /\ asked' = c /\ Begin("command", <<WriteCall(c)>>)
  /\ status' = "none"
  /\ UNCHANGED <<accessor, FirmwareTarget>>

(* a byte stored at the firmware target by [ESP401] *)
AsksTarget == asked.type = "B" /\ asked.pos = EP_TARGET_FW

AnswerWithoutRefresh ==
  /\ task = "command" /\ Finished
  /\ Begin("ready", <<>>)
  /\ UNCHANGED <<asked, FirmwareTarget, status>>

Answer ==
  /\ task = "command" /\ Finished
  /\ IF AsksTarget
     THEN Begin("refresh", <<ReadCall(EP_TARGET_FW, 1)>>)
     ELSE Begin("ready", <<>>)
  /\ UNCHANGED <<asked, FirmwareTarget, status>>

List ==
  /\ task = "ready"
  /\ Begin("list", ListReads)
  /\ UNCHANGED <<accessor, asked, FirmwareTarget, status>>

Listed ==
  /\ task = "list" /\ Finished
  /\ Begin("ready", <<>>)
  /\ UNCHANGED <<asked, FirmwareTarget, status>>

(* [ESP444]RESET, or the reset button held until resetSettings goes on. *)
Reset ==
  /\ task = "ready"
  /\ \E t \in {"reset", "clear"} : Begin(t, ResetCalls)
  /\ status' = "none"
  /\ UNCHANGED <<accessor, asked, FirmwareTarget>>

ResetDone ==
  /\ task = "reset" /\ Finished
  /\ Begin("ready", <<>>)
  /\ UNCHANGED <<asked, FirmwareTarget, status>>

(* esp_restart, after a reset of boot or button, or asked for by a command. *)
Restart ==
  /\ task = "ready" \/ (task \in {"repair", "clear"} /\ calls = <<>> /\ accessor["bulk"] = "closed")
  /\ Restarted
  /\ UNCHANGED <<flash, losses>>

(* The sector is erased and then programmed from its start: as far as byte n. *)
Programmed(n) == [a \in Addr |-> IF a < n THEN ram[a] ELSE Blank]

(* the write that the closing of the last object starts *)
WriteDue == dirty /\ numInstances = 1 /\ \E s \in Slots : CloseDue(s)

(* External: power fails, perhaps in the middle of the write. *)
PowerLoss ==
  /\ task # "off" /\ losses < MaxLosses
  /\ losses' = losses + 1
  /\ Restarted
  /\ \/ UNCHANGED flash
     \/ Torn /\ WriteDue /\ \E n \in Addr : flash' = Programmed(n)

-----------------------------------------------------------------------------
Init ==
  /\ flash \in Images
  /\ ram = NoImage /\ numInstances = 0 /\ dirty = FALSE
  /\ accessor = [s \in Slots |-> "none"]
  /\ task = "off" /\ calls = <<>> /\ done = 0 /\ got = <<>> /\ asked = NoCommand
  /\ FirmwareTarget = UNKNOWN_FW /\ status = "none" /\ losses = 0

Access ==
  \/ \E s \in Slots : Construct(s) \/ Copy(s) \/ DropTemp(s) \/ Close(s)
  \/ WriteByte \/ ReadValue \/ Return

Boot == PowerOn \/ InitBoard \/ InitBaudrate \/ InitExternalPorts \/ InitFirmwareTarget
        \/ Setup \/ SetupFails

Serve == Answer \/ Listed \/ ResetDone

Next == Access \/ Boot \/ Serve \/ Command \/ List \/ Reset \/ Restart \/ PowerLoss

Spec == Init /\ [][Next]_vars /\ WF_vars(Access \/ Boot \/ Serve \/ (task # "ready" /\ Restart))

-----------------------------------------------------------------------------
MemoryType ==
  /\ flash \in Image /\ ram \in Image \cup {NoImage}
  /\ numInstances \in Nat /\ dirty \in BOOLEAN

CallType == calls \in Seq(Calls) /\ done \in Nat /\ got \in Seq(Seq(Byte))

TaskType ==
  /\ accessor \in [Slots -> Objects]
  /\ task \in {"off"} \cup Booting \cup Serving
  /\ asked \in Commands \cup {NoCommand}
  /\ FirmwareTarget \in Targets
  /\ status \in {"none", "updated", "saved"}
  /\ losses \in 0 .. MaxLosses

TypeOK == MemoryType /\ CallType /\ TaskType

(* _numInstances counts the accessor objects that are open, however they     *)
(* were copied, closed twice or left to their destructor by an early return; *)
(* the library holds an image exactly while there is one, and an unsaved     *)
(* write only then.                                                          *)
Open(s) == IF accessor[s] = "both" THEN 2
           ELSE IF accessor[s] \in {"temp", "open"} THEN 1 ELSE 0

InstancesCounted ==
  /\ numInstances = Open("bulk") + Open("call")
  /\ ram = NoImage <=> numInstances = 0
  /\ dirty => numInstances > 0

Stored(image, w) == \A k \in 1 .. Len(w.bytes) : image[w.pos + k - 1] = w.bytes[k]

(* The display says "Cfg. saved" only when all the running task had to write *)
(* is in the flash.                                                          *)
SavedIsSaved ==
  status = "saved" =>
    /\ task = "command" => Stored(flash, WriteCall(asked))
    /\ task \in Resets => \A k \in DOMAIN ResetCalls : Stored(flash, ResetCalls[k])

(* Whatever is in the flash, and wherever power is lost, the module comes up: *)
(* the settings a boot refuses are replaced by ones it accepts.               *)
ComesUp == task = "off" ~> task = "ready"

(* The firmware target in use is the stored one as soon as the command that  *)
(* stored it, or a boot, is through.                                         *)
TargetRead == task \in {"refresh", "setup", "safe"} \/ (task = "command" /\ AsksTarget)

TargetInUse ==
  [][TargetRead /\ task' = "ready" => FirmwareTarget' = Target(flash'[EP_TARGET_FW])]_vars

-----------------------------------------------------------------------------
(* The settings as promised: the flash is the settings, a store command or a *)
(* reset changes them as a whole or not at all, a boot touches only settings *)
(* it cannot use, and a restart or a loss of power keeps them - save power   *)
(* lost during the write, which leaves the front of the new settings and an  *)
(* erased rest, which a boot may accept.                                     *)
SoundImage(image) ==
  /\ ValueAt(image, ReadCall(EP_BAUD_RATE, INTEGER_LENGTH)) \in Bauds
  /\ \A p \in {EP_WEB_PORT, EP_DATA_PORT} : ValueAt(image, ReadCall(p, INTEGER_LENGTH)) \in Ports

FactoryImage(image) ==
  [a \in Addr |->
     IF \E k \in DOMAIN ResetCalls : Within(ResetCalls[k], a)
     THEN LET c == ResetCalls[CHOOSE k \in DOMAIN ResetCalls : Within(ResetCalls[k], a)]
          IN  c.bytes[a - c.pos + 1]
     ELSE image[a]]

Promised == INSTANCE Settings WITH
  Writes <- {WriteCall(c) : c \in {c \in Commands : Accepts(c)}},
  Factory <- FactoryImage, Sound <- SoundImage,
  config <- flash, serving <- task \in Serving

SettingsKept == Promised!Spec
=============================================================================
