# ESP3D in TLA+

Specifications of the ESP3D firmware (`src/esp3d`, with the HTTP server library of
`src/libraries/WebServer`): an ESP8266 that sits between a 3D printer's serial port and the
network. They model what is hard to test on the device: answers of the printer that come late
or never, lines lost on the UART, clients that go away in the middle of a request, and power
that fails between two writes.

## The system

Everything in the firmware runs on one thread: `loop()` lets the web server handle one request
to its end, moves bytes between TCP clients and the UART, and updates the board. A handler is
not interrupted by another handler. What runs beside it is outside: the printer at the other end
of the UART, the clients of the web and TCP servers, the edges on a button's pin (an interrupt),
and the power supply. The hard behaviours are therefore those of one thread against an
environment, and of state that one handler leaves for the next.

| Component | State it keeps | Operations | What makes it correct |
|---|---|---|---|
| Serial SD upload (`webinterface.cpp` 269-604, 930-951) | `buffer_line`, `com_error`, `filename`, `blockserial`, `_upload_status` | START, WRITE, END, ABORTED, the answer to the request | "Ok" only when the file is whole; a failed upload leaves no file; nothing executed; the line given back |
| Settings store (`config.cpp`) | flash sector, its RAM image, `_numInstances`, `_dirty`, `FirmwareTarget` | open, copy and close an accessor; write and read a setting; reset; refresh of the target | settings change whole or not at all, but for power lost during the write; saved when said to be; the count is right |
| Boot and WiFi fallback (`esp3d.ino`, `wificonf.cpp`) | WiFi mode, access point, servers | `setup`, `Setup`, `Safe_Setup`, `Enable_servers` | the module comes up from any flash content |
| Web requests and serial arbitration (`webinterface.cpp` 1205-1487) | `blockserial`, the UART's input | `/command`, `/command_silent` | one user of the line at a time, answers given whole and to who asked |
| Upload status and firmware update (`webinterface.cpp` 151-266, 609-950) | `_upload_status`, `fsUploadFile`, `restartmodule` | two more uploads and the answers to them | an upload's status is reported to its own request |
| HTTP server library (`WebServer.cpp`, `Parsing.cpp`) | `_currentStatus`, the request, the piece of a file in hand | `handleClient`, `_parseRequest`, `_parseForm` | every request is answered or dropped, the server comes back |
| Serial to TCP bridge (`bridge.cpp`) | `serverClients`, the line readers' buffers | `processFromSerial2TCP`, `processFromTCP2Serial`, `send2TCP` | no byte lost or reordered; slots reused |
| Command interpreter (`command.cpp`) | line buffers | `execute_command`, `check_command`, the readers | a command line is recognised whole |
| Message stores (`storestrings.cpp`, `GenLinkedList.h`) | the rolling list, the cached node | `add`, `clear`, list operations | bounded, oldest dropped first, cache never stale |
| Devices (`devices.cpp`, `timer.h`, `board.cpp`) | mode and times of an output, the button's timer | `pulse`, `blink`, `update`, the interrupt | a pulse ends; a button fires only after its time |
| Sessions (`webinterface.cpp` 1055-1200, 1560-1741) | list of sessions, their count | login, logout, expiry | bounded, expired sessions gone |
| Voltage monitor, display, embedded page | readings; none | measure, draw | arithmetic in range |

Interactions: `blockserial` is set by the upload and by `/command` and read by the bridge and by
`/command_silent`; `_upload_status` is shared by the three uploads and their answers; the settings are
read by nearly every part and written by commands, the boot, and the reset button; `restartmodule`
is set by the firmware update and read by `loop()`; the reset button and the commands lead back to the boot.

## Modules

| Module | What it is |
|---|---|
| `SdUpload` | the upload handler and the printer, as two concurrent processes over a serial line |
| `SdFile` | abstract: the file an upload promises |
| `SdUploadFile` | `SdUpload` implements `SdFile` (refinement mapping) |
| `SdUpload_proofs` | theorems about `SdUpload`: types, the lock, what is executed, what "Ok" means; and that it implements `SdFile` |
| `ConfigStore` | the settings, their accessors, and the tasks that use them, with losses of power |
| `Settings` | abstract: the settings a user and a boot can rely on |
| `MCConfigStore` | a small sector for TLC |
| `ConfigStore_proofs` | theorems about `ConfigStore`: types, the count, the image |
| `SettingsKept_proofs` | theorems about `ConfigStore`: it implements `Settings`, and tells the truth |
| `WebUploads` | the web server, the three uploads and their answers |
| `MCWebUploads` | both processors, with and without sessions, for TLC |
| `WebUploads_proofs` | theorems about `WebUploads` |
| `PrinterLine` | the printer's line between bridge, interpreter and web commands |
| `MCPrinterLine` | five loads for TLC |
| `PrinterLine_proofs` | theorems about `PrinterLine` |
| `LinkedList` | the list with its cached node, as values and operators |
| `MessageStore` | a message store over `LinkedList` |
| `RollingLog` | abstract: the latest messages, in order |
| `MCMessageStore` | three messages for TLC |
| `MessageStore_proofs` | theorems about `LinkedList` and `MessageStore`: the list is one, and the store implements `RollingLog` |
| `BootWifi` | from power on to `loop()`, and the commands that undo it |
| `BootWifi_proofs` | theorems about `BootWifi` |
| `Devices` | output devices, timers and the voltage monitor, as values and operators |
| `Board` | `Board::update()` with its button, lamps and the status |
| `MCBoard` | four boards for TLC |
| `Board_proofs` | theorems about `Board` and the arithmetic of `Devices` |

The modules of one processor's `loop()` are apart because what they share is narrow: `blockserial` is held only
within one call of `handle_web_command` or one upload request, so `PrinterLine` and `SdUpload` never hold it at
once; `WebUploads` calls `SDFile_serial_upload` for the status it leaves and `SdUpload` has the rest; `BootWifi`
keeps the settings as values and `ConfigStore` has how they are stored.

### SdUpload

`pc` says where the handler is: `opening` (waiting after M28), `between` two callbacks, in a
`chunk` of the body, in `await` of the answer to a line, in the `tail` loop of END, or in `report`.
`next`, `tail` and `long` describe the rest of the body, which the HTTP parser delivers in blocks of
any number of lines. A line is a number; comments and empty lines have been dropped, since
dropping them touches nothing else. The other variables bear the code's names. `toPrinter` and
`replies` are the two directions of the UART; a read takes any non-empty prefix of `replies`, as
`available()` may return any part of what is coming, and each read makes a new string, so
`SplitAnswer` may cut a word so that neither half is recognised.

Actions: `StartUpload`, `OpenAnswer`, `OpenTimeOut` (START); `Collect`, `PrintLine`, `LinePassed`,
`IgnoreAnswer`, `LineFailed`, `EndOfBlock` (WRITE); `EndEmpty`, `EndTail`, `TailPassed`, `TailFailed` (END);
`SkipBlock` and `Abort` (the last branch, which the code takes for ABORTED and for every WRITE after
an error); `Report` (`handle_serial_SDFileList`). `connected` is the client's connection: it may go at any time (`ClientGoes`),
the parser sees it between two bytes and calls ABORTED, and WRITE is called only with bytes of a client that is there. The printer is external, modelled from what the code
expects of it: it stores lines between M28 and M29, executes them otherwise, answers each with
`ok`, asks for a damaged line again with `Resend`, reports that it is busy unasked, and may say `wait`
when idle.

`SdFile` promises a file that grows in order, a line possibly repeated, complete when "Ok" is
announced, and nothing once an upload has failed. `SdUploadFile` maps the upload to it: `outcome` is "failed" as soon
as the handler has set `com_error`, and `lines` is what the printer stored since it opened the file (`AsLines`), as long
as something is promised.

### ConfigStore

`flash` is the sector, `ram` the image the EEPROM library holds between `begin` and `end`
(`NoImage` otherwise), `numInstances` and `dirty` the two static variables, and `accessor` the state
of at most two objects: the one a task holds around its calls (`bulk`) and the one of the running
call (`call`). An object may begin as a temporary that is copied and destroyed (`Construct`, `Copy`,
`DropTemp`), since the compiler may or may not elide the copy of `beginBulkAccess`; it is `Close`d by
its owner, or by its destructor when the owner returns early (`SetupFails`).

`task` is what the firmware is doing: the boot (`board`, `baud`, `ports`, `repair`, `target`, `setup`,
`safe`), or serving (`ready`, `command`, `refresh`, `list`, `reset`, `clear`). Its remaining `calls` are made one
after another, byte by byte (`WriteByte`, `ReadValue`, `Return`). Between any two steps `PowerLoss`
may take everything but the flash; during the write of the sector (`Torn`) it leaves what the library has
done by then: the sector is erased and then programmed from its start, so that the flash holds the first `n` bytes of the
image and is erased behind them, for any `n` (`Programmed`).

`Settings` is the promise: a store command or a reset takes effect as a whole or not at all, a module that is not
serving changes only settings that its boot refuses, and it serves only from settings its boot accepts. Of a loss of power
during the write it promises less (`Tear`), and no more than the code keeps: the front of the settings that were to be
written, never a mixture with the old ones. The boot repairs them when the baud rate or a port is among what is missing; as
these lie at the front of the sector and nothing marks it as complete, it accepts them otherwise.

### WebUploads

One client is served at a time. `pc` is `_currentStatus` of the server (`none`, `read`, `close`), where `_parseForm` is
(`form` between two parts, `file` in the data of one, `end` at its boundary), `handle` when the request is
complete, or `hung`. `Upload` calls the upload handler of the request's address with `START`, `WRITE`, `LAST` (a
`WRITE` with what is left at the boundary), `END` or `ABORTED`. The handlers share `_upload_status`, `fsUploadFile`
with its `filename`, and the `update`r. `disk` says of each file whether it is absent, being written (`part`), cut by a
full disk (`short`) or `whole`; `installed` is the firmware that boots next. An upload handler that refuses stops the
connection, but for `SDFile_serial_upload`, whose calls of `stopAll()` are commented out (287, 568): its client goes on sending and is told of the
failure by `handle_serial_SDFileList`. The browser goes away at any byte
(`ClientGoes`), is not recognised any more (`SessionLost`), or sends nothing; files fail to open or to be written, and images are
refused. `build` chooses once whether there are sessions, and whether `stop()` in a handler closes
the server's own connection.

### PrinterLine

`pc` walks through `loop()`: `FillSlots`, `Reject`, `FromTCP` (`processFromTCP2Serial`), `FromSerial2TCP`, then a
request or none: `Silent`, or `Take`, `Purge`, `Command`, `Pick`, `Release` (`handle_web_command`). What the printer sends is a
sequence of pieces, cut as far as the code can tell text apart: "ok", "wait", "busy:", a temperature, other text, a comment's ";", a control
character and the newline. `by` says who read each (the bridge, or which web request), so that a piece is read once by construction of the UART and the
properties can ask by whom. `serial` and `tcp` are the line readers with their static flags, and `executed` the
text that `check_command` was last given to look for a command in, as places in what was sent: by the line reader, or by `Pick`, which gives it each line
it collects as it is, comments included. `current_buffer` is what `Pick` has in hand and `told` what the answer has given to the browser.
`Stops`, `Passed`, `Looked` and `Given` are the inner loop of `handle_web_command` over the lines in hand: at which line the answer ends ("ok", "wait" or one
temperature too many), which go to the browser, and which to `check_command`; for a Repetier printer (`repetier` of a load) `check_command` skips lines with "busy:" or
with "ok" or "wait" in front, a "busy:" counts as a temperature, and a line that begins with "ok " is not given to the browser. `owed` and `cause` are the printer's side: it acknowledges each
command in order, and each `ok` knows whose it is.

### LinkedList, MessageStore

A list is a record that carries its heap: `live` nodes, their `data` and `next`. A freed node keeps what it held until
it is allocated again, so a stale cache would be seen to return the wrong text. `MessageStore` has the six operations
of the store as its callers use them; `RollingLog` is what they promise, refined by `log <- Contents`, the texts along
the links.

### BootWifi

`pc` is the step of `setup()` that is next. Of each setting only what decides the way is kept: whether the baud rate and the ports are
in range, the mode, and whether the radio takes the access point's password. `ap` is the access point, `servers` those
that are on: `web`, `data`, the captive portal's `dns`, and the `Announcers` NetBIOS, SSDP and mDNS, each of which may fail to start. `Disable_servers` ends
only some of them, by the mode it finds. `read` remembers the settings that Setup used. `WifiOff`, `SafeMode`, `Restart`, `Reset`, `ResetButton`,
`SetWifi` and `Set` are the commands and the button.

### Devices, Board

A device is a record with the fields of `GpioOutputDevice`; its timer is the time of its restart on a clock of
`ClockSize` values, and its durations are words of `WordSize` values. `Board` goes through `Board::update()` step by step;
`Tick`, `Edge` (the pin and its interrupt), `Network` and `Supply` may come between any two steps, also between the two readings of
`HoldButton::update()`. `held` and `pulseAge` are histories of real, unwrapped time.

## Runs

| Run | Shows | Distinct states |
|---|---|---|
| `sd_prompt` | with answers inside the time-out and any two faults (a line lost or refused, an answer cut, a report nobody asked for), over two uploads: types, the lock, nothing executed, "Ok" is true, a failure leaves no file, the line is given back also when the client goes | 434,975 |
| `sd_slow` | with answers of any lateness and idle reports, nothing lost: "Ok" is true, the line is given back | 380,634 |
| `sd_file` | one upload with three faults implements `SdFile` | 822,693 |
| `sd_stale_ok` | **violation**: late answers and one lost line together make a false "Ok" | |
| `sd_tail_twice` | **violation**: a last line without newline is stored twice when nothing went wrong | |
| `config` | every task of the settings with two losses of power, during the write too, from an erased, a used and a damaged sector | 79,028 |
| `uploads` | two clients with forms of two files or three with one: "Ok" covers a stored file, a failure told is a real one and told once, only a whole firmware restarts the module, the server comes back | 930,736 |
| `line` | a printer that acknowledges, waits and tells temperatures, and two web commands; comments and control characters, or a Repetier printer, with one; two TCP clients at one slot: what is looked at for a command is a line, an answer reaches the browser whole and an "ok" that ends it is its own, every client is taken or refused, a web command ends | 340,430 |
| `messages` | any calls on a store of three messages: the heap is in order, the cache in place, the store a rolling log | 7,772 |
| `boot` | all settings, three polls, a loss of power, three commands: the module comes up and can be reached, its servers fit how it was started and what was done to it since | 33,758 |
| `boot_safe` | **violation**: an access point that is refused is taken for one that is up | |
| `board` | a clock that wraps after 12 ticks and pulses in three bits: the button's handler, the printer's reset, the alarm | 557,952 |

Bounds. Three lines are a first, a middle and a last; line 2 may be too long for the buffer; two
tries per line distinguish the first from the last (the code has five); a buffer of two lines
lets a rest of an earlier error be full or not. Two uploads show what one leaves for the next.
Two faults reach "lost, then lost again" (the upload fails) and "lost, then the retry refused". The
sector of `config` has a two-byte baud rate, two two-byte ports, the firmware target, and a text of
at most two characters: enough for a write to be cut inside one value, between two, before and behind what the boot checks. Its commands include a target that does not exist,
a baud rate that does not, a text written across its neighbour, and texts that are refused. Two
losses of power reach "lost during the repair of what the first loss damaged".

Two files in a form let the second meet what the first left; three requests let a status pass over a request in
between. One block before the last lets a file fail first at its start, in the middle or at its end. In `line` each load
has the pieces that its hazard needs: four pieces make two lines, one of which may be cut by a web command, and
`MAX_TRY` and `MaxTemps` of two and one reach both ways to end an answer. One slot is the firmware's own number; two
clients contend for it. Three messages are a first, a middle and a last, and four nodes let a freed one come back at once.
In `boot` three commands reach "safe mode, off, on again"; the one loss of power may fall into any step. In `board` the clock
wraps within the time a button is held, the pulses' words overflow with the fourth request, and a turn of the loop takes up
to two ticks; four boards are those whose devices touch each other, since the others are independent.

`CHECK_DEADLOCK FALSE` in the runs of `SdUpload`: after its last upload nothing has to happen; in `uploads` after
its last client, or in the parser's endless loop; in `boot` after the last command. `config`, `line`, `messages` and `board`
check deadlock.

Fairness. `WF(Due /\ Callback)`: the handler runs in `loop()`, a callback runs to its end, and the parser ends the file of a client
that has gone. A client that is there need not send the rest: `_uploadReadByte` waits for it without a time-out
(`Parsing.cpp` 356-364), so nothing between two callbacks is due while it stays connected. `WF(Printer)`: the printer reads its UART. Nobody
has to start an upload. In `ConfigStore`, weak fairness of everything the firmware does on its own; commands, resets asked
for by a user and losses of power are never due. `ComesUp` holds because losses of power are
bounded; under endless losses no program comes up. `WebUploads`: weak fairness of the steps the server takes on its own,
time-outs included (`Leave`, `Hang`, `Abort`, `EndFile`, `Handle`, `Restart`; `EndFile` follows the last buffer of a file without another byte); that a client sends on is never due. `PrinterLine`: `WF(Module)`,
the loop runs; printer and clients owe nothing. `BootWifi`: `WF(Boot)`; the poll counts its tries, so
no fairness of the network is needed. `Board`: `WF(Update)` and `WF(Tick)`: the loop is called and time passes.

Exceptions that a property names, each a weakness of the code that no document denies: `forgotten` in
`RestartOnlyUpdated` (a session lost in the middle of a firmware upload: its ABORTED does not reach `Update.end()`, and
the next upload's `Update.end(true)` installs what there is), `lost` in `FailureIsReal` (the failure of a request dropped
without an answer is told to the next one), a client that stays connected in the middle of a file or a form and sends nothing more in `LockReleased` and `ServerFree`
(`_uploadReadByte` has no time-out), `hung` in `ServerFree` (the loop over the parts of a form waits for a client that has gone), `outstanding` in `AckIsOwn` (a command
acknowledged late; and nothing is said of an answer that ends at a "wait", which an idle printer may say before it has seen the command, `webinterface.cpp` 1335),
the Repetier lines that are withheld in `AnswerWhole`, the web command's share of a line in `WholeLines`, SSDP and mDNS in `ServersFitMode` (`Disable_servers` does not
stop them), the front of half-written settings in `SettingsKept` (above), `raced` in `HandlerHeld` (pressed between the
two readings), a sum that 16 bits cannot hold in `PulseWhole`, and a refused password in `Reachable`.

Assumptions of the passing runs, each of which the code depends on: M28 arrives (`Lossy`), since its
loss is not noticed and the lines would be executed; of two M29 one arrives, and M30 does
(`OkMeansEveryLine`, `FailedLeavesNoFile`); `failed` is not cut in two by a read (`Splits`); answers are late only where
nothing is lost. `sd_stale_ok` shows that the last one is needed.

## Findings

1. `sd_stale_ok`: "if buffer contain ok or wait - it means command is pass"
   (`webinterface.cpp` 427). The answer to a line that missed its 150 ms is read as the answer to the next line.
2. `sd_tail_twice`: END prints a rest of the buffer, then prints it again in the first iteration of
   the loop that is meant to resend it (`webinterface.cpp` 497-510).
3. `boot_safe`: "safe setup if no connection" (`wificonf.cpp` 117). `Setup(true)` ignores the result of `softAP`
   (`wificonf.cpp` 245) and never fails, so `Safe_Setup` at `esp3d.ino` 161-164 is never called; a password of one to seven
   characters, which `isPasswordValid` accepts, leaves a module without an access point.

## Proofs

`SdUpload_proofs`, for every file, buffer size, number of tries, uploads and faults:

- `TypeCorrect`: `Spec => []TypeOK`. `TypeOK` is inductive once it is split by whose variables it speaks
  of; the step lemmas `LineStep`, `FlagStep`, `BufferStep` and `PrinterStep` each go through the actions.
- `SerialLockedAlways`: `Spec => []SerialLocked`. Inductive only with `LockInv`: after a refused M28 the
  handler is between two callbacks without the lock, and it is `com_error` and the empty buffer that keep
  WRITE and END from printing.
- `NeverExecutedAlways`, for a prompt printer: no line is executed. `ExecInv` says what may be on the serial line while the
  file is open: lines come in front of closing commands, so none of them arrives after M29.
- `OkMeansEveryLineAlways` and `FailedLeavesNoFileAlways`, for a prompt printer. Neither is inductive with
  less than a description of where the handler, the line and the printer stand together. `Phase` has seven: `Opening`, `Writing`,
  `Awaiting`, `LastLine`, `Stopped` (an error noticed, closing commands not yet printed), `Ended`, `Failed`; each says which commands are still on the
  line, which answers are due, and up to which line the file is stored (`StoredUpTo`). The hard one is `LastLine`, where END prints the rest of
  the buffer a second time without waiting: part of a line may be glued in front of the M29 behind it.
- `UploadAsPromised` (one upload) and `UploadsAsPromised` (any number, as long as at most one M29 is lost in all, `[]M29Arrives`): the
  upload implements `SdFile`. `StepMaps` goes through the actions: `StartUpload` is `Begin`, a line stored before the outcome
  is `Deliver` and the second copy of the last one after it `Again`, an error noticed is `Fail`, END without one is
  `Conclude`, and every other step, a loss among them, is a stutter. `Started` and `NoM29Lost` are needed besides `Phase`: only a started upload has an outcome, and
  until the only upload has ended no M29 has been printed that could be lost.
- `NeverExecutedLate`, `FailedLeavesNoFileLate` and `OkMeansEveryLineLate`, for a late printer that loses nothing. The same properties hold here for another reason: the
  handler runs ahead of the printer, an "ok" is one of any earlier line, and commands of an earlier upload may still be on the line; but what is
  printed is obeyed in order. `LateExecInv` says that every line will find the file open (`OpenAt`), `LateFailInv` that the M30 of a failed upload is
  to come and will find the file closed, or has been obeyed (`Doomed`), and `LateInv` that every line
  printed is stored, or is on its way behind the opening of the file (`Underway`: what the file will hold when the line has been emptied, `Future`).

The two regimes are assumptions on the constants, stated as hypotheses of the theorems. `PromptPrinter`: answers come within the time-out
(`~Late`), an idle printer does not say `wait` (`~IdleWait`), no refusal is cut in two by a read (`Splits`), M28 is not lost unnoticed
(`Lossy`); lines, M29 and M30, and everything else TLC's fault model has, may still be lost, refused or answered busy, any number of times. `sd_prompt.cfg`
and `sd_file.cfg` satisfy it. Each of the four is needed: a late or unasked answer is taken for that of a later line (427), half a refusal
is not recognised (360), and after a lost M28 the lines are sent to a printer that executes them (336). `NothingLost`: no
fault, and M28 is obeyed; `OkMeansEveryLineLate` needs besides that the last line has its newline (`AllEnded`), since END prints one without a newline
again at every try, and the copies of a printer that is late are glued into one line that the file did not have (TLC finds it when `Tails` of `sd_slow.cfg` has `TRUE`). `sd_slow.cfg` satisfies both. The regimes do not meet in the middle, as `sd_stale_ok` shows:
late answers together with one lost line make a false "Ok".

`ConfigStore_proofs`, for every layout of the sector, set of commands and number of losses of power:

- `TypeCorrect`: `Spec => []TypeOK`; it includes that no call touches a byte outside the sector.
- `CountedAlways`: `Spec => []InstancesCounted`. The inductive
  invariant `IInv` adds `CallPending` (an accessor of a call belongs to a call that has not returned; a
  firmware that is off or ready has no calls): without it a task could begin over an open accessor.

`SettingsKept_proofs`, with the same generality; defaults that do not overlap and integers of at least
one byte are assumed besides (`DefaultsApart`, `IntegerLength`, as in `config.h`):

- `SettingsKeptAlways`: `Spec => SettingsKept`, the refinement. Setup that succeeds is `Boot`, the last close of
  a command is `Store`, that of a reset is `Reset`, a loss of power is `Stop` or, during the write, `Tear`; every
  other step is a stutter. The step from a loss of power to `Tear` is `WriteDueEnds`: a write is due only when the task that dirtied the image is at its end, so that
  what is being programmed is the whole of a store or of a reset (`ImageOutcome`), which the settings of the moment allow (`ImageAllowed`).
- `SavedTruly`: `Spec => []SavedIsSaved`, and `TargetInUseAlways`: `Spec => TargetInUse`.

They rest on `KInv`, which says what the image is at every byte: `Nested` (objects and calls are bracketed),
`Kept` (a reader's image is the flash and not dirty), `Storing` and `Resetting` (a writer's image is the flash with
its writes laid over it so far), `Checked` (what a boot has read is what the flash holds, and it repairs only what it
refused). `AccessKinds` reduces the steps of the accessors to objects that come and go around one image and the
one commit; `ImageOutcome` says what the image is when the last object is about to close, and `CommitOutcome` that a commit leaves just that in the flash. `TargetInUse` needs `TargetKnown` besides.

`BootWifi_proofs`, for any number of polls, commands and losses of power: `TypeCorrect`, `ReachableAlways`,
`ServersFitModeAlways`. The invariant `IInv` adds `NetInv`: what Setup has brought about is already so
before the servers start, and `Safe_Setup` belongs to `loop()`; without it a step from `servers` to `loop` would have nothing to
stand on.

`Board_proofs`, for any size of the clock and of a word, any board and any times:

- `TypeCorrect`: `Spec => []TypeOK`.
- `HandlerHeldAlways`: `Spec => HandlerHeld`. `HeldInv` says that a pressed button has been held for as long as its timer says.
- `PulseWholeAlways`: `Spec => PulseWhole`. `PulseInv` says the same of the pulse, and that its duration is what is owed.
  Both rest on `DeltaGrows`: a tick makes a difference on the clock larger by one at most, wrap included.

`WebUploads_proofs`, for any number of files and blocks, both processors, with sessions and without:

- `TypeCorrect`: `Spec => []TypeOK`. `TypeOK` alone is not inductive: the number of parts read is bounded only because the part that is read
  is one of the form's (`PartsInv`).
- `FailureIsRealAlways`: `Spec => []FailureIsReal`, from `FailureInv`: a failure that waits to be told came from the request in hand,
  which is not answered yet, or from one that was dropped.
- `RestartOnlyUpdatedAlways`: `Spec => []RestartOnlyUpdated`, from `UpdateInv`: unless a session was lost during an upload, the updater
  runs only inside a file of a firmware form, and a status of success that is still to be answered stands for a whole image.
- `OkMeansStoredAlways`: `Spec => []OkMeansStored`, from `StoredInv`: while its user is known a file is open and goes on, or its upload was
  cancelled; a status other than "CANCELLED" between two files stands for a stored one, unless the client has gone.

`PrinterLine_proofs`, for any clients, slots, tries, pieces and number of requests:

- `TypeCorrect`: `Spec => []TypeOK`, with `Bounds`.
- `AckIsOwnAlways`: `Spec => []AckIsOwn`. `AckInv` and `OnlyOwn` say that, when nothing is outstanding as a web command is printed, every
  "ok" that has come since, in hand or unread, is the answer to it.
- `AnswerWholeAlways`: `Spec => []AnswerWhole`. `AnswerInv` says that there are a place `b` behind which all that was read is this command's, and a place `o` up to which its lines
  were passed on (`Collecting`): what is in hand is exactly what was read behind `o`, and every piece between the two has been given to the browser or is withheld. `HandFollows` and `RestIs`
  carry it over a turn of the loop.
- `WholeLinesAlways`: `Spec => []WholeLines`. The interpreter is a function of what it has read (`read_buffer_serial`, defined recursively on the
  number of pieces); `LineInv` says that after the pieces read so far the buffer holds what this line
  means without its comment, and that what was looked at last was such a buffer at the end of its line, unless a web command took a part, or a line that a
  web command collected (`CheckedIs`). A recursive
  function has no value until it is shown to have one, which takes an induction (below).

`MessageStore_proofs`, for any size of the store, length of the texts, and size of the heap:

- `TypeCorrect`, `LinkedAlways`, `CacheInPlaceAlways`: the list is sound. `StoreInv` says that it represents some sequence of nodes, all of them
  allocated, none twice (`IsList`); each operation of the list is a lemma on what it does to that sequence. That an allocation finds a free
  node is a pigeonhole argument (`FreeNode`).
- `Implements`: `Spec => IsRollingLog`, the refinement: `add`, with the `shift` that makes room, is the log's `Add`; `Remove` of a position
  that does not exist is `Miss`, and a reading changes the cache and leaves the log.

All rest on the named assumptions about the constants (`SdUploadAssumption`, `ConfigStoreAssumption`,
`DefaultsApart`, `IntegerLength`, `BootWifiAssumption`, `DevicesAssumption`, `BoardAssumption`, `WebUploadsAssumption`, `PrinterLineAssumption`,
`MessageStoreAssumption`), which TLC evaluates on every run: sizes and times are numbers, a form has room for a file, no client is the mark for a free
slot (`None`), and the heap has room for a full store.

Induction. The provers cannot use the library's induction theorems, which take a predicate as a parameter. Where the model is recursive over a number
(the walk along a list, reading a line piece by piece), `SetInduction` states induction of a set instead, `0 \in S` and `n \in S => n + 1 \in S`
give `Nat \subseteq S`, and is proved from the well-foundedness of `<`. The recursive definitions are functions, so that they can be reasoned about.

Only model-checked: liveness (`LockReleased`, `ComesUp`, `ServerFree`, `ClientAnswered`, `WebEnds`, `BootEnds`, `PulseEnds`, `AlarmShown`), which
under fairness is out of the prover's reach, and the three violations. Every invariant and every action property of the passing runs, and all three
refinements, are theorems; those of the upload in the two regimes above.

## Plan

Done: the eight components with a module, each with its runs, and every safety property of the passing runs as a theorem. Next:

1. `SdUpload`: an abstract specification that a late printer implements as well. `SdFile` is not one: its file begins with the upload, and
   a late printer may still be storing the file of the one before.
2. `WebUploads`: that the three handlers leave each other's files alone, as an action property, with its proof.
3. `PrinterLine`: what TCP clients receive is what the bridge read, in order, per client.
4. `BootWifi` over `ConfigStore`: that the abstract settings `BootWifi` keeps are those of `Settings`.

## Not modelled

- Sessions (`handle_login`, `AddAuthIP`, `ResetAuthIP`) and the authentication of each command: left out of the default
  build. `WebUploads` has levels of users and the loss of a session, with and without the feature.
- How `check_command` sorts a message of the printer into the stores, `get_param`, the commands that only print and the
  formatting of every answer: text, with no state another part relies on. (A reading note: a status message is filed in
  `info_msg`, `command.cpp:1636`, and nothing in the code fills `status_msg`, although `config.h:116` announces a table
  of its own.)
- The real addresses of the settings (`config.h`) and the limits of each text: constants.
- `check_update_presence` (waits for `is_direct_sd`, which is never set) and `update_settings` (no caller); `add(index)`, `unshift` and
  `set` of the list (no caller).
- The display (drawing only), the embedded page (generated), the addresses of the module's networks, the library's static files (not used), and those parts of the ESP32 branch that only call other
  libraries for the same effect.
