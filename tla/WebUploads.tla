----------------------------- MODULE WebUploads -----------------------------
(***************************************************************************)
(* The web server and the uploads it serves: handleClient() and the parser *)
(* of libraries/WebServer, which calls a handler for each piece of a file  *)
(* and another one for the answer, and these handlers for the files of the *)
(* module, for its firmware and for the printer's SD card                  *)
(* (esp3d/webinterface.cpp).  One client is served at a time, yet the      *)
(* handlers share a status, a file and the updater from request to request.*)
(***************************************************************************)
EXTENDS Naturals

CONSTANTS
  MaxFiles,      \* bound: files in a form
  MaxBlocks,     \* bound: full buffers of a file, before the last one
  Builds         \* is AUTHENTICATION_FEATURE set; does stop() in a handler
                 \* close the server's own connection (ESP8266) or not (ESP32);
                 \* and bounds: clients served, files in their forms

ASSUME WebUploadsAssumption ==
  /\ MaxFiles \in Nat \ {0} /\ MaxBlocks \in Nat
  /\ Builds \subseteq [auth : BOOLEAN, stops : BOOLEAN, requests : Nat,
                       files : 0..MaxFiles]

Uris    == {"/files", "/updatefw", "/upload_serial", "other"}
Levels  == {"guest", "user", "admin"}
Actions == {"none", "delete", "deletedir", "createdir"}

(* A request without a body, one the parser refuses (its first line, a     *)
(* body shorter than announced, a form without its boundary), or a form.   *)
Requests ==
  {r \in [uri : Uris, body : {"none", "refused", "form"}, files : 0..MaxFiles,
          action : Actions] :
     /\ r.body # "form" => r.files = 0
     /\ r.uri # "/files" => r.action = "none"}

(* The user's files are apart from those of the administrator.             *)
Files == {"user", "admin"} \X (1..MaxFiles)

VARIABLES
  build,
  pc,              \* _currentStatus (none, read, close); where the parser is
                   \* (form, file, end), handle, and hung
  request, level,  \* what the client wants; who it is, at present
  connected, parts, blocks,
  _upload_status,
  fsUploadFile, filename, disk,   \* is it open; its name; the files stored
  update,          \* the updater: does it run, has it failed
  installed,       \* the firmware that will boot: old, part of one, a whole one
  restartmodule, answer, requests,
  failedHere, lost, forgotten     \* history: an upload of this request failed;
                   \* one was dropped without an answer; a session was not
                   \* recognised any more during an upload

uploadVars == <<_upload_status, connected, fsUploadFile, filename, disk,
                update, installed, failedHere>>
serverVars == <<request, level, parts, blocks, restartmodule, answer,
                requests, lost, forgotten>>
vars == <<build, pc, uploadVars, serverVars>>

NoRequest == [uri |-> "other", body |-> "none", files |-> 0, action |-> "none"]

Idle == [running |-> FALSE, failed |-> FALSE, part |-> FALSE]

Init ==
  /\ build \in Builds /\ requests = 0
  /\ disk = [f \in Files |-> "absent"] /\ installed = "old"
  /\ pc = "none" /\ request = NoRequest /\ level = "guest"
  /\ connected = FALSE /\ parts = 0 /\ blocks = 0 /\ _upload_status = "NONE"
  /\ fsUploadFile = FALSE /\ filename = <<"admin", 1>>
  /\ update = Idle
  /\ restartmodule = FALSE /\ answer = "none"
  /\ failedHere = FALSE /\ lost = FALSE /\ forgotten = FALSE

-----------------------------------------------------------------------------
(* The upload handlers, called with the status of a piece of a file.       *)

Cancelled == _upload_status' = "CANCELLED" /\ failedHere' = TRUE
Goes(status) == _upload_status' = status /\ UNCHANGED failedHere

(* web_server.client().stop() or stopAll().                                *)
Stop == connected' = (connected /\ ~build.stops)

Refuse == Cancelled /\ Stop

(* SPIFFS.open() makes the file anew, or fails.                            *)
FileStart ==
  /\ filename' = <<level, parts>>
  /\ \/ fsUploadFile' = TRUE /\ Goes("ONGOING") /\ UNCHANGED connected
        /\ disk' = [disk EXCEPT ![filename'] = "part"]
     \/ fsUploadFile' = FALSE /\ Refuse /\ UNCHANGED disk

(* The result of write() is ignored: on a full disk the file is short.     *)
FileWrite(last) ==
  /\ UNCHANGED <<filename, fsUploadFile>>
  /\ IF fsUploadFile /\ _upload_status = "ONGOING"
     THEN /\ \E wrote \in {"all", "less"} :
               disk' = [disk EXCEPT ![filename] =
                          IF wrote = "less" \/ @ = "short" THEN "short"
                          ELSE IF last /\ connected THEN "whole" ELSE @]
          /\ UNCHANGED <<_upload_status, failedHere, connected>>
     ELSE Refuse /\ UNCHANGED disk

(* Mutant: the end of the data is taken for the end of a stored file.      *)
FileEndBlindly ==
  /\ fsUploadFile' = FALSE /\ Goes("SUCCESSFUL")
  /\ UNCHANGED <<filename, disk, connected>>

FileEnd ==
  /\ fsUploadFile' = FALSE /\ UNCHANGED filename
  /\ IF fsUploadFile
     THEN Goes("SUCCESSFUL") /\ UNCHANGED <<disk, connected>>
     ELSE Refuse /\ disk' = [disk EXCEPT ![filename] = "absent"]

(* SPIFFSFileupload().  Of an abort it only says so: the file stays open   *)
(* and the status as it was.                                               *)
SPIFFSFileupload(piece) ==
  /\ UNCHANGED <<update, installed>>
  /\ CASE level = "guest" ->
            Refuse /\ UNCHANGED <<fsUploadFile, filename, disk>>
       [] level # "guest" /\ piece = "START" -> FileStart
       [] level # "guest" /\ piece = "WRITE" -> FileWrite(FALSE)
       [] level # "guest" /\ piece = "LAST"  -> FileWrite(TRUE)
       [] level # "guest" /\ piece = "END"   -> FileEnd
       [] level # "guest" /\ piece = "ABORTED" ->
            UNCHANGED <<_upload_status, failedHere, connected, fsUploadFile,
                        filename, disk>>

(* Update.begin() fails while an update runs.                              *)
UpdateStart ==
  /\ UNCHANGED installed
  /\ \/ ~update.running /\ Goes("ONGOING")
        /\ update' = [running |-> TRUE, failed |-> FALSE, part |-> TRUE]
     \/ Cancelled /\ UNCHANGED update

UpdateWrite(last) ==
  /\ UNCHANGED installed
  /\ IF _upload_status # "ONGOING" THEN UNCHANGED <<_upload_status, failedHere, update>>
     ELSE \/ update' = [update EXCEPT !.part = @ /\ ~(last /\ connected)]
             /\ UNCHANGED <<_upload_status, failedHere>>
          \/ update' = [update EXCEPT !.failed = TRUE] /\ Cancelled

Ended == update' = Idle

(* Mutant: the answer of Update.end() is not looked at.                    *)
UpdateEndBlindly == Ended /\ Goes("SUCCESSFUL") /\ UNCHANGED installed

(* Update.end(true): what has been written becomes the firmware, unless    *)
(* nothing runs, a write has failed or the image does not look like one.   *)
UpdateEnd ==
  /\ Ended
  /\ \/ update.running /\ ~update.failed /\ Goes("SUCCESSFUL")
        /\ installed' = IF update.part THEN "part" ELSE "whole"
     \/ UNCHANGED <<_upload_status, failedHere, installed>>

(* WebUpdateUpload().                                                      *)
WebUpdateUpload(piece) ==
  /\ UNCHANGED <<fsUploadFile, filename, disk>>
  /\ IF level # "admin" THEN Refuse /\ UNCHANGED <<update, installed>>
     ELSE /\ UNCHANGED connected
          /\ CASE piece = "START" -> UpdateStart
               [] piece = "WRITE" -> UpdateWrite(FALSE)
               [] piece = "LAST"  -> UpdateWrite(TRUE)
               [] piece = "END"   -> UpdateEnd
               [] piece = "ABORTED" -> Ended /\ Cancelled /\ UNCHANGED installed

(* SDFile_serial_upload(), of which SdUpload.tla has the rest: here only   *)
(* the status it leaves.  An error (com_error) stays until the next file.  *)
(* It never stops the client: its calls of stopAll() are commented out.    *)
SDFile_serial_upload(piece) ==
  /\ UNCHANGED <<connected, fsUploadFile, filename, disk, update, installed>>
  /\ IF level = "guest" \/ piece = "ABORTED" THEN Cancelled
     ELSE \/ /\ piece = "START" \/ _upload_status # "CANCELLED"
             /\ Goes(IF piece = "END" THEN "SUCCESSFUL" ELSE "ONGOING")
          \/ piece # "START" /\ Cancelled      \* there was an error

(* _currentHandler->upload(), if the handler has one.                      *)
Upload(piece) ==
  CASE request.uri = "/files"         -> SPIFFSFileupload(piece)
    [] request.uri = "/updatefw"      -> WebUpdateUpload(piece)
    [] request.uri = "/upload_serial" -> SDFile_serial_upload(piece)
    [] request.uri = "other"          -> UNCHANGED uploadVars

-----------------------------------------------------------------------------
(* The server.                                                             *)

(* handleClient(): a client is waiting.                                    *)
Accept ==
  /\ pc = "none" /\ ~restartmodule /\ requests < build.requests
  /\ pc' = "read" /\ connected' = TRUE /\ requests' = requests + 1
  /\ request' \in {r \in Requests : r.files <= build.files}
  /\ level' \in IF build.auth THEN Levels ELSE {"admin"}
  /\ failedHere' = FALSE
  /\ UNCHANGED <<build, parts, blocks, restartmodule, answer, lost, forgotten,
                 _upload_status, fsUploadFile, filename, disk, update, installed>>

(* Back to HC_NONE.  What was asked and answered is forgotten.             *)
Free ==
  /\ pc' = "none" /\ connected' = FALSE /\ request' = NoRequest
  /\ level' = "guest" /\ parts' = 0 /\ blocks' = 0 /\ answer' = "none"

Kept == UNCHANGED <<build, requests, _upload_status, fsUploadFile, filename,
                    disk, update, installed, failedHere, forgotten>>

(* The client has gone, or sends nothing for HTTP_MAX_DATA_WAIT.           *)
GiveUpReading == pc = "read" /\ Free

Leave ==
  /\ ~restartmodule /\ Kept /\ UNCHANGED restartmodule
  /\ \/ GiveUpReading /\ UNCHANGED lost
     \/ pc = "close" /\ Free     \* gone, or HTTP_MAX_CLOSE_WAIT is over
        /\ lost' = (lost /\ request.uri = "other")

(* _parseRequest(): a first line without a path, a body that does not come *)
(* in time, or a form that does not begin with its boundary.               *)
RefuseRequest ==
  request.body = "refused" /\ Free /\ Kept

(* No form: the arguments are known, and the handler can be called.        *)
NoForm ==
  /\ request.body = "none" /\ pc' = "handle"
  /\ UNCHANGED <<uploadVars, request, level, parts, blocks, answer, requests,
                 build, forgotten>>

Form ==
  /\ request.body = "form" /\ pc' = "form" /\ parts' = request.files
  /\ UNCHANGED <<uploadVars, request, level, blocks, answer, requests, build,
                 forgotten>>

ParseRequest ==
  /\ pc = "read" /\ connected
  /\ RefuseRequest \/ NoForm \/ Form
  /\ UNCHANGED <<restartmodule, lost>>

(* _parseForm(), one step for what happens between two reads.  Only inside *)
(* a file does it ask whether the client is still there: between the parts *)
(* it waits for ever for a boundary.                                       *)
InForm(from, to) ==
  /\ pc = from /\ pc' = to
  /\ UNCHANGED <<build, request, level, restartmodule, answer, requests, lost,
                 forgotten>>

(* Mutant: the closing boundary is taken for a part.                       *)
StartPastEnd ==
  /\ connected /\ InForm("form", "file") /\ Upload("START")
  /\ UNCHANGED <<parts, blocks>>

StartFile ==
  /\ parts > 0 /\ connected /\ InForm("form", "file") /\ Upload("START")
  /\ UNCHANGED <<parts, blocks>>

WriteBlock ==
  /\ blocks < MaxBlocks /\ connected /\ InForm("file", "file")
  /\ Upload("WRITE")
  /\ blocks' = blocks + 1 /\ UNCHANGED parts

(* The boundary.  Cut off within one, the client leaves a buffer partly    *)
(* unread, in which the boundary may be found all the same.                *)
WriteLast ==
  InForm("file", "end") /\ Upload("LAST") /\ blocks' = 0 /\ UNCHANGED parts

EndFile ==
  InForm("end", "form") /\ Upload("END") /\ parts' = parts - 1 /\ UNCHANGED blocks

Finish ==
  /\ parts = 0 /\ connected /\ InForm("form", "handle")
  /\ UNCHANGED <<uploadVars, parts, blocks>>

Hang == ~connected /\ InForm("form", "hung")
        /\ UNCHANGED <<uploadVars, parts, blocks>>

(* Mutant: a client that has gone is waited for.                           *)
AbortNever == FALSE

(* _parseFormUploadAborted(): no handler will answer, nor reset anything.  *)
Abort ==
  /\ pc = "file" /\ ~connected
  /\ Upload("ABORTED") /\ lost' = TRUE
  /\ pc' = "none" /\ request' = NoRequest /\ level' = "guest"
  /\ parts' = 0 /\ blocks' = 0 /\ answer' = "none"
  /\ UNCHANGED <<build, requests, restartmodule, forgotten>>

(* The client goes away; its session ends, or the address of a connection  *)
(* that is closed is no address any more.                                  *)
ClientGoes ==
  /\ pc \in {"form", "file", "end"} /\ connected /\ connected' = FALSE
  /\ UNCHANGED <<build, pc, serverVars, _upload_status, fsUploadFile, filename,
                 disk, update, installed, failedHere>>

SessionLost ==
  /\ build.auth /\ pc \in {"form", "file", "end", "handle"} /\ level # "guest"
  /\ level' = "guest" /\ forgotten' = (forgotten \/ request.body = "form")
  /\ UNCHANGED <<build, pc, uploadVars, request, parts, blocks, restartmodule,
                 answer, requests, lost>>

-----------------------------------------------------------------------------
(* The handlers that answer.                                               *)

Failed == _upload_status \in {"FAILED", "CANCELLED"}

Directory(who) == IF who = "admin" THEN "admin" ELSE "user"

(* Mutant: the status is not reset.                                        *)
StatusKept == UNCHANGED _upload_status

ResetStatus == _upload_status' = "NONE"

(* The end of handleFileList(): the list of files with a status goes out,  *)
(* and the status of the upload is reset.                                  *)
Tell(status) == answer' = status /\ ResetStatus

(* The three file commands: each has a status to tell, whatever it was.    *)
DeleteFile ==
  \E f \in Files :
    /\ f[1] = Directory(level)
    /\ IF disk[f] = "absent" THEN Tell("does not exist") /\ UNCHANGED disk
       ELSE \/ Tell("deleted") /\ disk' = [disk EXCEPT ![f] = "absent"]
            \/ Tell("cannot delete") /\ UNCHANGED disk

(* "/user", seen from "/"; below "/user" there is no directory.            *)
DeleteDirectory ==
  \E gone \in SUBSET {f \in Files : level = "admin" /\ f[1] = "user"} :
    /\ disk' = [f \in Files |-> IF f \in gone THEN "absent" ELSE disk[f]]
    /\ Tell("deleted") \/ Tell("cannot delete")

CreateDirectory ==
  /\ \E status \in {"created", "already exists", "cannot create"} : Tell(status)
  /\ UNCHANGED disk

handleFileList ==
  /\ UNCHANGED <<update, restartmodule>>
  /\ \/ level = "guest" /\ Tell("denied") /\ UNCHANGED disk
     \/ level # "guest"
        /\ CASE request.action = "delete"    -> DeleteFile
             [] request.action = "deletedir" -> DeleteDirectory
             [] request.action = "createdir" -> CreateDirectory
             [] request.action = "none" ->
                  Tell(IF Failed THEN "Upload failed" ELSE "Ok")
                  /\ UNCHANGED disk

(* handle_serial_SDFileList().                                             *)
handle_serial_SDFileList ==
  /\ ResetStatus /\ UNCHANGED <<disk, update, restartmodule>>
  /\ answer' = IF level = "guest" THEN "denied"
               ELSE IF Failed THEN "Upload failed" ELSE "Ok"

(* handleUpdate(): the status of a success is kept, the module restarts.   *)
handleUpdate ==
  /\ UNCHANGED <<disk, update>>
  /\ IF level # "admin"
     THEN answer' = "denied" /\ ResetStatus /\ UNCHANGED restartmodule
     ELSE /\ answer' = _upload_status
          /\ IF _upload_status = "SUCCESSFUL"
             THEN restartmodule' = TRUE /\ UNCHANGED _upload_status
             ELSE ResetStatus /\ UNCHANGED restartmodule

(* Any other address, handle_not_found() included: a file of the module,   *)
(* or a page that leads to the first one.                                  *)
handle_not_found ==
  /\ answer' \in IF level = "guest" THEN {"redirect"} ELSE {"page", "redirect"}
  /\ UNCHANGED <<disk, update, restartmodule, _upload_status>>

(* _handleRequest() and the end of handleClient().                         *)
Handle ==
  /\ pc = "handle"
  /\ \/ request.uri = "/files" /\ handleFileList
     \/ request.uri = "/updatefw" /\ handleUpdate
     \/ request.uri = "/upload_serial" /\ handle_serial_SDFileList
     \/ request.uri = "other" /\ handle_not_found
  /\ pc' = "close"
  /\ UNCHANGED <<build, request, level, connected, parts, blocks, fsUploadFile,
                 filename, installed, failedHere, requests, lost, forgotten>>

(* loop() restarts the module before it serves again: all that was in RAM  *)
(* starts anew.                                                            *)
Restart ==
  /\ restartmodule /\ restartmodule' = FALSE /\ Free
  /\ _upload_status' = "NONE" /\ fsUploadFile' = FALSE
  /\ filename' = <<"admin", 1>> /\ update' = Idle
  /\ failedHere' = FALSE /\ lost' = FALSE /\ forgotten' = FALSE
  /\ UNCHANGED <<build, disk, installed, requests>>

Server == \/ Leave \/ ParseRequest \/ StartFile \/ WriteLast \/ EndFile
          \/ Finish \/ Hang \/ Abort \/ Handle \/ Restart

Next == Accept \/ Server \/ WriteBlock \/ ClientGoes \/ SessionLost

(* The server runs, and after the last buffer of a file it calls the       *)
(* handler once more without reading on; whether a client goes on sending  *)
(* is up to the client.                                                    *)
Fairness == /\ WF_vars(Leave) /\ WF_vars(Hang) /\ WF_vars(Abort)
            /\ WF_vars(EndFile) /\ WF_vars(Handle) /\ WF_vars(Restart)

Spec == Init /\ [][Next]_vars /\ Fairness

-----------------------------------------------------------------------------
TypeOK ==
  /\ build \in Builds
  /\ pc \in {"none", "read", "close", "form", "file", "end", "handle", "hung"}
  /\ request \in Requests /\ level \in Levels /\ connected \in BOOLEAN
  /\ parts \in 0..MaxFiles /\ blocks \in 0..MaxBlocks
  /\ _upload_status \in {"NONE", "ONGOING", "CANCELLED", "SUCCESSFUL"}
  /\ fsUploadFile \in BOOLEAN /\ filename \in Files
  /\ disk \in [Files -> {"absent", "part", "short", "whole"}]
  /\ update \in [running : BOOLEAN, failed : BOOLEAN, part : BOOLEAN]
  /\ installed \in {"old", "part", "whole"}
  /\ restartmodule \in BOOLEAN /\ requests \in 0..build.requests
  /\ failedHere \in BOOLEAN /\ lost \in BOOLEAN /\ forgotten \in BOOLEAN
  /\ answer \in {"none", "denied", "does not exist", "deleted", "cannot delete",
                 "created", "already exists", "cannot create", "Upload failed",
                 "Ok", "page", "redirect", "NONE", "ONGOING", "CANCELLED", "SUCCESSFUL"}

(* An upload to /files that is answered "Ok" has stored its last file with *)
(* all of its data, but for what a full disk did not take: an "Ok" never   *)
(* covers a file that was not created or was cut off.                      *)
OkMeansStored ==
  pc = "close" /\ answer = "Ok" /\ request.uri = "/files" /\ request.files > 0
    => disk[filename] \in {"whole", "short"}

(* "Upload failed" is about this request, or about an upload whose request *)
(* was dropped before any handler could answer it: a failure that was      *)
(* answered is not told again.                                             *)
FailureIsReal ==
  pc = "close" /\ answer = "Upload failed" => failedHere \/ lost

(* The module restarts only into a firmware that arrived whole and ended   *)
(* well, as long as no session was lost in the middle of an upload: no     *)
(* status left over by another upload makes it restart.                    *)
RestartOnlyUpdated ==
  restartmodule /\ ~forgotten => installed = "whole"

(* The server comes back to its next client again and again, unless a      *)
(* client that stays connected sends nothing more of its form, or one has  *)
(* gone between two parts; one that goes inside a file is given up.        *)
ServerFree ==
  \/ []<>(pc = "none")
  \/ <>[](pc \in {"form", "file"} /\ connected)
  \/ <>[](pc = "hung")
=============================================================================
