-------------------------- MODULE WebUploads_proofs --------------------------
(***************************************************************************)
(* For every number of files and blocks, board, and length of behaviour:   *)
(*   - the variables of WebUploads keep their types;                       *)
(*   - a failure that is told is one of this request, or one that could    *)
(*     not be told before (FailureIsReal);                                 *)
(*   - "Ok" means that the last file was stored (OkMeansStored);           *)
(*   - the module restarts only into a whole firmware (RestartOnlyUpdated).*)
(***************************************************************************)
EXTENDS WebUploads, TLAPS

(* The part of a form that is read is one of its files.                    *)
PartsInv ==
  /\ pc \in {"none", "read", "handle"} => parts = 0
  /\ pc \in {"form", "file", "end"} => parts <= request.files
  /\ pc \in {"file", "end"} => parts > 0

(* What a handler does with a piece of a file keeps the types.             *)
UploadType ==
  /\ connected \in BOOLEAN /\ fsUploadFile \in BOOLEAN /\ filename \in Files
  /\ _upload_status \in {"NONE", "ONGOING", "CANCELLED", "SUCCESSFUL"}
  /\ disk \in [Files -> {"absent", "part", "short", "whole"}]
  /\ update \in [running : BOOLEAN, failed : BOOLEAN, part : BOOLEAN]
  /\ installed \in {"old", "part", "whole"} /\ failedHere \in BOOLEAN

(* client.stop() leaves a flag.                                            *)
LEMMA StopType == TypeOK /\ Stop => connected' \in BOOLEAN
BY WebUploadsAssumption DEF TypeOK, Stop

(* A piece of a file for /files.                                           *)
LEMMA FileType ==
  ASSUME TypeOK, parts \in 1..MaxFiles, NEW piece, request.uri = "/files",
         piece \in {"START", "WRITE", "LAST", "END", "ABORTED"},
         Upload(piece)
  PROVE  UploadType'
<1> USE DEF TypeOK, UploadType, Cancelled, Goes, Refuse
<1>1. SPIFFSFileupload(piece)
  BY Zenon DEF Upload
<1>2. UNCHANGED <<update, installed>>
  BY <1>1, Zenon DEF SPIFFSFileupload
<1>3. CASE level = "guest"
  BY <1>1, <1>2, <1>3, StopType, Zenon DEF SPIFFSFileupload
<1>4. CASE level # "guest" /\ piece = "START"
  <2>1. FileStart
    BY <1>1, <1>4, Zenon DEF SPIFFSFileupload
  <2>2. filename' \in Files
    BY <2>1, <1>4 DEF FileStart, Files, Levels
  <2>3. disk' \in [Files -> {"absent", "part", "short", "whole"}]
    BY <2>1, <2>2 DEF FileStart
  <2> QED BY <2>1, <2>2, <2>3, <1>2, StopType, Zenon DEF FileStart
<1>5. CASE level # "guest" /\ piece \in {"WRITE", "LAST"}
  <2>1. PICK last \in BOOLEAN : FileWrite(last)
    BY <1>1, <1>5, Zenon DEF SPIFFSFileupload
  <2>2. disk' \in [Files -> {"absent", "part", "short", "whole"}]
    BY <2>1 DEF FileWrite
  <2> QED BY <2>1, <2>2, <1>2, StopType, Zenon DEF FileWrite
<1>6. CASE level # "guest" /\ piece = "END"
  <2>1. FileEnd
    BY <1>1, <1>6, Zenon DEF SPIFFSFileupload
  <2>2. disk' \in [Files -> {"absent", "part", "short", "whole"}]
    BY <2>1 DEF FileEnd
  <2> QED BY <2>1, <2>2, <1>2, StopType, Zenon DEF FileEnd
<1>7. CASE level # "guest" /\ piece = "ABORTED"
  BY <1>1, <1>2, <1>7, Zenon DEF SPIFFSFileupload
<1> QED BY <1>3, <1>4, <1>5, <1>6, <1>7

(* A piece of a firmware.                                                  *)
LEMMA UpdateType ==
  ASSUME TypeOK, NEW piece, request.uri = "/updatefw",
         piece \in {"START", "WRITE", "LAST", "END", "ABORTED"},
         Upload(piece)
  PROVE  UploadType'
<1> USE DEF TypeOK, UploadType, Cancelled, Goes, Refuse
<1>1. WebUpdateUpload(piece)
  BY Zenon DEF Upload
<1>2. UNCHANGED <<fsUploadFile, filename, disk>>
  BY <1>1, Zenon DEF WebUpdateUpload
<1>3. CASE level # "admin"
  BY <1>1, <1>2, <1>3, StopType, Zenon DEF WebUpdateUpload
<1>4. CASE level = "admin" /\ piece = "START"
  <2>1. UpdateStart /\ UNCHANGED connected
    BY <1>1, <1>4, Zenon DEF WebUpdateUpload
  <2>2. [running |-> TRUE, failed |-> FALSE, part |-> TRUE]
           \in [running : BOOLEAN, failed : BOOLEAN, part : BOOLEAN]
    OBVIOUS
  <2> QED BY <2>1, <2>2, <1>2, Zenon DEF UpdateStart
<1>5. CASE level = "admin" /\ piece \in {"WRITE", "LAST"}
  <2>1. PICK last \in BOOLEAN : UpdateWrite(last) /\ UNCHANGED connected
    BY <1>1, <1>5, Zenon DEF WebUpdateUpload
  <2> QED BY <2>1, <1>2 DEF UpdateWrite
<1>6. CASE level = "admin" /\ piece = "END"
  <2>1. UpdateEnd /\ UNCHANGED connected
    BY <1>1, <1>6, Zenon DEF WebUpdateUpload
  <2> QED BY <2>1, <1>2 DEF UpdateEnd, Ended, Idle
<1>7. CASE level = "admin" /\ piece = "ABORTED"
  <2>1. Ended /\ Cancelled /\ UNCHANGED <<connected, installed>>
    BY <1>1, <1>7, Zenon DEF WebUpdateUpload
  <2> QED BY <2>1, <1>2 DEF Ended, Idle
<1> QED BY <1>3, <1>4, <1>5, <1>6, <1>7

(* A piece of a file for the printer.                                      *)
LEMMA SerialType ==
  ASSUME TypeOK, NEW piece, request.uri = "/upload_serial", Upload(piece)
  PROVE  UploadType'
<1>1. SDFile_serial_upload(piece)
  BY Zenon DEF Upload
<1> QED BY <1>1, StopType, Zenon
        DEF SDFile_serial_upload, TypeOK, UploadType, Cancelled, Goes, Refuse

(* A piece of any file.                                                    *)
LEMMA UploadKeepsType ==
  ASSUME TypeOK, parts \in 1..MaxFiles, NEW piece,
         piece \in {"START", "WRITE", "LAST", "END", "ABORTED"},
         Upload(piece)
  PROVE  UploadType'
<1>1. request.uri \in Uris
  BY DEF TypeOK, Requests
<1>2. CASE request.uri = "other"
  <2>1. UNCHANGED uploadVars
    BY <1>2, Zenon DEF Upload
  <2> QED BY <2>1, Zenon DEF uploadVars, UploadType, TypeOK
<1> QED BY <1>1, <1>2, FileType, UpdateType, SerialType DEF Uris

(* The other fields that every step of the server leaves with their types. *)
ServerType ==
  /\ build \in Builds
  /\ pc \in {"none", "read", "close", "form", "file", "end", "handle", "hung"}
  /\ request \in Requests /\ level \in Levels
  /\ parts \in 0..MaxFiles /\ blocks \in 0..MaxBlocks
  /\ restartmodule \in BOOLEAN /\ requests \in 0..build.requests
  /\ lost \in BOOLEAN /\ forgotten \in BOOLEAN
  /\ answer \in {"none", "denied", "does not exist", "deleted",
                 "cannot delete",
                 "created", "already exists", "cannot create", "Upload failed",
                 "Ok", "page", "redirect", "NONE", "ONGOING", "CANCELLED",
                 "SUCCESSFUL"}

(* The two halves are the whole.                                           *)
LEMMA TypeParts == TypeOK <=> UploadType /\ ServerType
BY Zenon DEF TypeOK, UploadType, ServerType

(* Steps that touch nothing of the upload keep the first half.             *)
LEMMA UploadFrame == UploadType /\ UNCHANGED uploadVars => UploadType'
BY DEF uploadVars, UploadType

(* The board serves a number of requests, of at most MaxFiles files each.  *)
LEMMA BuildType ==
  TypeOK => build.requests \in Nat /\ request.files \in 0..MaxFiles
BY WebUploadsAssumption DEF TypeOK, Requests

(* A form of which a part is left has one.                                 *)
LEMMA PartsType ==
  TypeOK /\ parts > 0 => parts \in 1..MaxFiles
<1>1. MaxFiles \in Nat
  BY WebUploadsAssumption
<1>2. TypeOK => parts \in 0..MaxFiles
  BY Zenon DEF TypeOK
<1> QED BY <1>1, <1>2

(* The values at power on have their types.                                *)
LEMMA NothingAsked ==
  /\ NoRequest \in Requests /\ "guest" \in Levels /\ <<"admin", 1>> \in Files
  /\ Idle \in [running : BOOLEAN, failed : BOOLEAN, part : BOOLEAN]
  /\ 0 \in 0..MaxFiles /\ 0 \in 0..MaxBlocks
BY WebUploadsAssumption
   DEF NoRequest, Requests, Uris, Actions, Levels, Files, Idle

(* Every variable keeps its type, and a part in hand is one of the form.   *)
LEMMA TypeAndParts == Spec => [](TypeOK /\ PartsInv)
<1>1. Init => TypeOK /\ PartsInv
  <2> SUFFICES ASSUME Init PROVE TypeOK /\ PartsInv
    OBVIOUS
  <2>1. UploadType
    <3>1. [f \in Files |-> "absent"]
             \in [Files -> {"absent", "part", "short", "whole"}]
      OBVIOUS
    <3> QED BY <3>1, NothingAsked, Zenon DEF Init, UploadType
  <2>2. ServerType
    <3>1. 0 \in 0..build.requests
      BY WebUploadsAssumption DEF Init
    <3> QED BY <3>1, NothingAsked, Zenon DEF Init, ServerType
  <2>3. PartsInv
    BY DEF Init, PartsInv
  <2> QED BY <2>1, <2>2, <2>3, TypeParts
<1>2. TypeOK /\ PartsInv /\ [Next]_vars => (TypeOK /\ PartsInv)'
  <2> SUFFICES ASSUME TypeOK, PartsInv, [Next]_vars
               PROVE  UploadType' /\ ServerType' /\ PartsInv'
    BY TypeParts, Zenon DEF TypeOK, UploadType, ServerType
  <2>0. UploadType /\ ServerType
    BY TypeParts
  <2> USE DEF PartsInv
  <2>1. CASE Accept
    <3>1. requests' \in 0..build.requests
      <4>1. requests < build.requests /\ requests' = requests + 1
            /\ build' = build
        BY <2>1 DEF Accept
      <4>2. requests \in 0..build.requests
        BY DEF TypeOK
      <4> QED BY <4>1, <4>2, BuildType
    <3>2. request' \in Requests /\ level' \in Levels
      BY <2>1 DEF Accept, Levels
    <3>3. UploadType'
      <4>1. TRUE \in BOOLEAN /\ FALSE \in BOOLEAN
        OBVIOUS
      <4> QED BY <2>0, <2>1, <4>1, Zenon DEF Accept, UploadType
    <3>5. ServerType'
      BY <2>0, <2>1, <3>1, <3>2, Zenon DEF Accept, ServerType
    <3> QED BY <2>1, <3>3, <3>5, Zenon DEF Accept
  <2>2. CASE Leave
    <3>1. Free /\ Kept /\ UNCHANGED restartmodule /\ lost' \in BOOLEAN
      BY <2>0, <2>2, Zenon DEF Leave, GiveUpReading, ServerType
    <3>2. UploadType' /\ ServerType'
      BY <2>0, <3>1, NothingAsked, ZenonT(30) DEF Free, Kept, UploadType,
         ServerType
    <3> QED BY <3>1, <3>2, Zenon DEF Free
  <2>3. CASE ParseRequest
    <3>1. CASE RefuseRequest
      <4>1. Free /\ Kept /\ UNCHANGED <<restartmodule, lost>>
        BY <2>3, <3>1, Zenon DEF ParseRequest, RefuseRequest
      <4>2. UploadType' /\ ServerType'
        BY <2>0, <4>1, NothingAsked, ZenonT(30)
        DEF Free, Kept, UploadType, ServerType
      <4> QED BY <4>1, <4>2, Zenon DEF Free
    <3>2. CASE NoForm
      <4>1. UploadType'
        BY <2>0, <3>2, UploadFrame, Zenon DEF NoForm
      <4>2. ServerType'
        BY <2>0, <2>3, <3>2, Zenon DEF ParseRequest, NoForm, ServerType
      <4> QED BY <2>3, <3>2, <4>1, <4>2, Zenon DEF ParseRequest, NoForm
    <3>3. CASE Form
      <4>1. UploadType'
        BY <2>0, <3>3, UploadFrame, Zenon DEF Form
      <4>2. ServerType'
        BY <2>0, <2>3, <3>3, BuildType, Zenon
        DEF ParseRequest, Form, ServerType
      <4>3. pc' = "form" /\ parts' = request.files /\ request' = request
        BY <3>3, Zenon DEF Form
      <4> QED BY <4>1, <4>2, <4>3, BuildType
    <3> QED BY <2>3, <3>1, <3>2, <3>3, Zenon DEF ParseRequest
  <2>4. CASE StartFile \/ WriteBlock \/ WriteLast \/ EndFile
    <3>1. /\ pc \in {"form", "file", "end"} /\ parts > 0
          /\ UNCHANGED <<build, request, level, restartmodule, answer,
                         requests,
                         lost, forgotten>>
          /\ \E piece \in {"START", "WRITE", "LAST", "END", "ABORTED"} :
               Upload(piece)
      BY <2>4, Zenon DEF StartFile, WriteBlock, WriteLast, EndFile, InForm
    <3>2. UploadType'
      <4>1. parts \in 1..MaxFiles
        BY <3>1, PartsType, Zenon
      <4> QED BY <3>1, <4>1, UploadKeepsType, Zenon
    <3>3. /\ parts' \in 0..MaxFiles /\ blocks' \in 0..MaxBlocks
          /\ pc' \in {"form", "file", "end"} /\ parts' <= request.files
          /\ pc' \in {"file", "end"} => parts' > 0
      <4>1. /\ parts \in 0..MaxFiles /\ blocks \in 0..MaxBlocks
            /\ MaxFiles \in Nat /\ MaxBlocks \in Nat
        BY WebUploadsAssumption DEF TypeOK
      <4>2. CASE StartFile
        <5>1. pc' = "file" /\ pc = "form" /\ UNCHANGED <<parts, blocks>>
          BY <4>2, Zenon DEF StartFile, InForm
        <5> QED BY <3>1, <4>1, <5>1
      <4>3. CASE WriteBlock
        <5>1. pc' = "file" /\ pc = "file" /\ blocks < MaxBlocks
              /\ blocks' = blocks + 1 /\ UNCHANGED parts
          BY <4>3, Zenon DEF WriteBlock, InForm
        <5> QED BY <3>1, <4>1, <5>1
      <4>4. CASE WriteLast
        <5>1. pc' = "end" /\ pc = "file" /\ blocks' = 0 /\ UNCHANGED parts
          BY <4>4, Zenon DEF WriteLast, InForm
        <5> QED BY <3>1, <4>1, <5>1
      <4>5. CASE EndFile
        <5>1. pc' = "form" /\ pc = "end" /\ parts' = parts - 1
              /\ UNCHANGED blocks
          BY <4>5, Zenon DEF EndFile, InForm
        <5> QED BY <3>1, <4>1, <5>1, BuildType
      <4> QED BY <2>4, <4>2, <4>3, <4>4, <4>5
    <3>4. ServerType'
      BY <2>0, <3>1, <3>3, Zenon DEF ServerType
    <3> QED BY <3>1, <3>2, <3>3, <3>4, Zenon
  <2>5. CASE Finish \/ Hang
    <3>1. UploadType'
      BY <2>0, <2>5, UploadFrame, Zenon DEF Finish, Hang
    <3>2. ServerType'
      BY <2>0, <2>5, Zenon DEF Finish, Hang, InForm, ServerType
    <3> QED BY <2>5, <3>1, <3>2, Zenon DEF Finish, Hang, InForm
  <2>6. CASE Abort
    <3>1. UploadType'
      <4>1. parts \in 1..MaxFiles
        <5>1. pc = "file"
          BY <2>6, Zenon DEF Abort
        <5> QED BY <5>1, PartsType, Zenon
      <4> QED BY <2>6, <4>1, UploadKeepsType, Zenon DEF Abort
    <3>2. ServerType'
      BY <2>0, <2>6, NothingAsked, Zenon DEF Abort, ServerType
    <3> QED BY <2>6, <3>1, <3>2, Zenon DEF Abort
  <2>7. CASE ClientGoes \/ SessionLost
    <3>1. UploadType'
      BY <2>0, <2>7, Zenon DEF ClientGoes, SessionLost, uploadVars, UploadType
    <3>2. ServerType'
      BY <2>0, <2>7, NothingAsked, Zenon DEF ClientGoes, SessionLost,
         serverVars, ServerType
    <3> QED BY <2>7, <3>1, <3>2, Zenon DEF ClientGoes, SessionLost, serverVars
  <2>8. CASE Handle
    <3>1. /\ _upload_status' \in {"NONE", _upload_status}
          /\ restartmodule' \in BOOLEAN
          /\ answer' \in {"denied", "does not exist", "deleted",
                          "cannot delete",
                 "created", "already exists", "cannot create", "Upload failed",
                 "Ok", "page", "redirect", _upload_status}
          /\ UNCHANGED update
      <4>1. CASE handleFileList
        <5>1. \E status \in {"denied", "does not exist", "deleted",
                             "cannot delete",
                 "created", "already exists", "cannot create",
                 "Upload failed",
                 "Ok"} : Tell(status)
          BY <4>1 DEF handleFileList, DeleteFile, DeleteDirectory,
             CreateDirectory, TypeOK, Requests, Actions
        <5> QED BY <2>0, <4>1, <5>1, Zenon
                DEF Tell, ResetStatus, handleFileList, ServerType
      <4>2. CASE handleUpdate
        BY <2>0, <4>2, Zenon DEF handleUpdate, ResetStatus, ServerType
      <4>3. CASE handle_serial_SDFileList
        BY <2>0, <4>3, Zenon DEF handle_serial_SDFileList, ResetStatus,
           ServerType
      <4>4. CASE handle_not_found
        BY <2>0, <4>4, Zenon DEF handle_not_found, ServerType
      <4> QED BY <2>8, <4>1, <4>2, <4>3, <4>4, Zenon DEF Handle
    <3>2. disk' \in [Files -> {"absent", "part", "short", "whole"}]
      <4>0. disk \in [Files -> {"absent", "part", "short", "whole"}]
        BY DEF TypeOK
      <4>1. CASE DeleteFile
        BY <4>0, <4>1 DEF DeleteFile
      <4>2. CASE DeleteDirectory
        BY <4>0, <4>2 DEF DeleteDirectory
      <4>3. DeleteFile \/ DeleteDirectory \/ UNCHANGED disk
        <5>1. request.action \in Actions
          BY DEF TypeOK, Requests
        <5> QED BY <2>8, <5>1, Zenon DEF Handle, handleFileList,
                   handleUpdate, handle_serial_SDFileList,
                  handle_not_found, CreateDirectory, Actions
      <4> QED BY <4>0, <4>1, <4>2, <4>3
    <3>3. UploadType'
      BY <2>0, <2>8, <3>1, <3>2, Zenon DEF Handle, UploadType
    <3>4. ServerType'
      <4>1. answer' \in {"denied", "does not exist", "deleted",
                         "cannot delete",
                 "created", "already exists", "cannot create", "Upload failed",
                 "Ok", "page", "redirect", "NONE", "ONGOING", "CANCELLED",
                 "SUCCESSFUL"}
        BY <2>0, <3>1 DEF UploadType
      <4> QED BY <2>0, <2>8, <3>1, <4>1, Zenon DEF Handle, ServerType
    <3> QED BY <2>8, <3>3, <3>4, Zenon DEF Handle
  <2>9. CASE Restart
    <3>1. UploadType' /\ ServerType'
      BY <2>0, <2>9, NothingAsked, Zenon DEF Restart, Free, UploadType,
         ServerType
    <3> QED BY <2>9, <3>1, Zenon DEF Restart, Free
  <2>10. CASE UNCHANGED vars
    <3>1. UploadType'
      BY <2>0, <2>10, UploadFrame, Zenon DEF vars
    <3>2. UNCHANGED serverVars /\ UNCHANGED <<build, pc>>
      BY <2>10, Zenon DEF vars
    <3>3. ServerType'
      BY <2>0, <3>2, Zenon DEF serverVars, ServerType
    <3> QED BY <3>1, <3>2, <3>3, Zenon DEF serverVars
  <2> QED BY <2>1, <2>2, <2>3, <2>4, <2>5, <2>6, <2>7, <2>8, <2>9, <2>10,
             Zenon DEF Next, Server
<1> QED BY <1>1, <1>2, PTL DEF Spec

(* Every variable keeps its type.                                          *)
THEOREM TypeCorrect == Spec => []TypeOK
BY TypeAndParts, PTL

-----------------------------------------------------------------------------
(* What a handler does to the status and to the history of failures: it    *)
(* leaves both, notes a failure in both, or goes on.                       *)
LEMMA StatusStep ==
  ASSUME NEW piece, piece \in {"START", "WRITE", "LAST", "END", "ABORTED"},
         request.uri \in Uris, Upload(piece)
  PROVE  /\ \/ UNCHANGED <<_upload_status, failedHere>>
            \/ Cancelled
            \/ /\ _upload_status' \in {"ONGOING", "SUCCESSFUL"}
               /\ UNCHANGED failedHere
         /\ request.uri = "other" => UNCHANGED uploadVars
         /\ piece = "START" /\ request.uri # "other" =>
              _upload_status' \in {"ONGOING", "CANCELLED"}
         /\ piece \in {"WRITE", "LAST"} =>
              _upload_status' \in {_upload_status, "ONGOING", "CANCELLED"}
         /\ piece = "ABORTED" =>
              _upload_status' \in {_upload_status, "CANCELLED"}
<1> USE DEF Goes, Refuse
<1>1. CASE request.uri = "/files"
  <2>1. SPIFFSFileupload(piece)
    BY <1>1, Zenon DEF Upload
  <2> QED BY <2>1, <1>1 DEF SPIFFSFileupload, FileStart, FileWrite, FileEnd,
             Cancelled
<1>2. CASE request.uri = "/updatefw"
  <2>1. WebUpdateUpload(piece)
    BY <1>2, Zenon DEF Upload
  <2> QED BY <2>1, <1>2 DEF WebUpdateUpload, UpdateStart, UpdateWrite,
             UpdateEnd, Cancelled
<1>3. CASE request.uri = "/upload_serial"
  <2>1. SDFile_serial_upload(piece)
    BY <1>3, Zenon DEF Upload
  <2> QED BY <2>1, <1>3 DEF SDFile_serial_upload, Cancelled
<1>4. CASE request.uri = "other"
  <2>1. UNCHANGED uploadVars
    BY <1>4, Zenon DEF Upload
  <2> QED BY <2>1, <1>4 DEF uploadVars
<1> QED BY <1>1, <1>2, <1>3, <1>4 DEF Uris

(* The steps of the parser that pass a piece of a file to the handler.     *)
Parsing == StartFile \/ WriteBlock \/ WriteLast \/ EndFile

(* Such a step calls the handler and stays in the form.                    *)
LEMMA ParsingStep ==
  ASSUME Parsing
  PROVE  /\ \E piece \in {"START", "WRITE", "LAST", "END"} : Upload(piece)
         /\ pc \in {"form", "file", "end"} /\ pc' \in {"form", "file", "end"}
         /\ UNCHANGED <<build, request, level, restartmodule, answer,
                        requests,
                        lost, forgotten>>
BY Zenon DEF Parsing, StartFile, WriteBlock, WriteLast, EndFile, InForm

(* The list of files goes out with one status, and that of the upload is   *)
(* reset.                                                                  *)
LEMMA TellsOnce ==
  ASSUME TypeOK, handleFileList
  PROVE  /\ _upload_status' = "NONE" /\ UNCHANGED <<update, restartmodule>>
         /\ answer' = "Upload failed" => Failed
         /\ answer' = "Ok" =>
              level # "guest" /\ ~Failed /\ UNCHANGED disk
<1>1. request.action \in Actions
  BY DEF TypeOK, Requests
<1>2. CASE level = "guest"
  BY <1>2 DEF handleFileList, Tell, ResetStatus
<1>3. CASE level # "guest" /\ request.action = "delete"
  <2>1. DeleteFile /\ UNCHANGED <<update, restartmodule>>
    BY <1>3, Zenon DEF handleFileList
  <2> QED BY <2>1 DEF DeleteFile, Tell, ResetStatus
<1>4. CASE level # "guest" /\ request.action = "deletedir"
  <2>1. DeleteDirectory /\ UNCHANGED <<update, restartmodule>>
    BY <1>4, Zenon DEF handleFileList
  <2> QED BY <2>1 DEF DeleteDirectory, Tell, ResetStatus
<1>5. CASE level # "guest" /\ request.action = "createdir"
  <2>1. CreateDirectory /\ UNCHANGED <<update, restartmodule>>
    BY <1>5, Zenon DEF handleFileList
  <2> QED BY <2>1 DEF CreateDirectory, Tell, ResetStatus
<1>6. CASE level # "guest" /\ request.action = "none"
  <2>1. /\ Tell(IF Failed THEN "Upload failed" ELSE "Ok")
        /\ UNCHANGED <<disk, update, restartmodule>>
    BY <1>6, Zenon DEF handleFileList
  <2> QED BY <2>1, <1>6 DEF Tell, ResetStatus
<1> QED BY <1>1, <1>2, <1>3, <1>4, <1>5, <1>6, Zenon DEF Actions

(* FailureIsReal is not inductive: a failure that waits to be told must    *)
(* have come from this request, which has an upload handler and is not     *)
(* answered yet, unless a request was dropped.                             *)
FailureInv ==
  /\ _upload_status = "CANCELLED" =>
       \/ lost
       \/ /\ failedHere /\ request.uri # "other"
          /\ pc \in {"form", "file", "end", "handle", "hung"}
  /\ _upload_status = "CANCELLED" /\ pc = "close" => request.uri = "other"
  /\ FailureIsReal

(* "Upload failed" is told of this request, or of one that was dropped.    *)
THEOREM FailureIsRealAlways == Spec => []FailureIsReal
<1>1. Init => FailureInv
  BY DEF Init, FailureInv, FailureIsReal
<1>2. TypeOK /\ FailureInv /\ [Next]_vars => FailureInv'
  <2> SUFFICES ASSUME TypeOK, FailureInv, [Next]_vars PROVE FailureInv'
    OBVIOUS
  <2> USE DEF FailureInv, FailureIsReal
  <2>0. request.uri \in Uris
    BY DEF TypeOK, Requests
  <2>1. CASE Accept
    BY <2>1 DEF Accept
  <2>2. CASE Leave
    <3>1. pc' = "none" /\ UNCHANGED <<_upload_status, failedHere>>
      BY <2>2, Zenon DEF Leave, GiveUpReading, Free, Kept
    <3>2. CASE pc = "read"
      BY <2>2, <3>1, <3>2 DEF Leave, GiveUpReading
    <3>3. CASE pc = "close" /\ lost' = (lost /\ request.uri = "other")
      BY <3>1, <3>3, Zenon
    <3> QED BY <2>2, <3>2, <3>3, Zenon DEF Leave, GiveUpReading
  <2>3. CASE ParseRequest \/ Finish \/ Hang \/ ClientGoes \/ SessionLost
    <3>1. UNCHANGED <<_upload_status, failedHere, lost>>
      BY <2>3, Zenon DEF ParseRequest, RefuseRequest, NoForm, Form, Finish,
         Hang, InForm,
                  ClientGoes, SessionLost, Kept, uploadVars, serverVars
    <3>2. \/ pc = "read"
          \/ /\ pc \in {"form", "file", "end", "handle"} /\ UNCHANGED request
             /\ pc' \in {"form", "file", "end", "handle", "hung"}
      BY <2>3, Zenon DEF ParseRequest, Finish, Hang, InForm, ClientGoes,
         SessionLost, serverVars
    <3>3. pc' # "close"
      BY <2>3 DEF ParseRequest, RefuseRequest, NoForm, Form, Free, Finish,
         Hang, InForm, ClientGoes,
                  SessionLost
    <3> QED BY <3>1, <3>2, <3>3
  <2>4. CASE Parsing
    BY <2>0, <2>4, ParsingStep, StatusStep DEF Cancelled, uploadVars
  <2>5. CASE Abort
    BY <2>5 DEF Abort
  <2>6. CASE Handle
    <3>1. pc = "handle" /\ pc' = "close"
          /\ UNCHANGED <<failedHere, lost, request>>
      BY <2>6, Zenon DEF Handle
    <3>2. /\ \/ _upload_status' # "CANCELLED"
             \/ request.uri = "other" /\ UNCHANGED _upload_status
          /\ answer' = "Upload failed" => _upload_status = "CANCELLED"
      <4> USE DEF Tell, ResetStatus, Failed, TypeOK
      <4>1. CASE handleFileList
        BY <4>1, TellsOnce DEF Tell
      <4>2. CASE handleUpdate
        BY <4>2 DEF handleUpdate
      <4>3. CASE handle_serial_SDFileList
        BY <4>3 DEF handle_serial_SDFileList
      <4>4. CASE request.uri = "other" /\ handle_not_found
        BY <4>4 DEF handle_not_found
      <4> QED BY <2>6, <4>1, <4>2, <4>3, <4>4, Zenon DEF Handle
    <3> QED BY <3>1, <3>2
  <2>7. CASE Restart
    BY <2>7 DEF Restart, Free
  <2>8. CASE UNCHANGED vars
    BY <2>8 DEF vars, uploadVars, serverVars
  <2> QED BY <2>1, <2>2, <2>3, <2>4, <2>5, <2>6, <2>7, <2>8
          DEF Next, Server, Parsing
<1> QED BY <1>1, <1>2, TypeCorrect, PTL DEF Spec, FailureInv

-----------------------------------------------------------------------------
(* The handlers of the other addresses leave the updater and the firmware. *)
LEMMA OnlyUpdateUpdates ==
  ASSUME NEW piece, request.uri \in Uris, request.uri # "/updatefw",
         Upload(piece)
  PROVE  UNCHANGED <<update, installed>>
<1>1. CASE request.uri = "other"
  <2>1. UNCHANGED uploadVars
    BY <1>1, Zenon DEF Upload
  <2> QED BY <2>1 DEF uploadVars
<1>2. CASE request.uri = "/files"
  BY <1>2, Zenon DEF Upload, SPIFFSFileupload
<1>3. CASE request.uri = "/upload_serial"
  BY <1>3, Zenon DEF Upload, SDFile_serial_upload
<1> QED BY <1>1, <1>2, <1>3 DEF Uris

(* As long as no session was lost during an upload, the updater runs only  *)
(* inside a file of the firmware and behind a status that says so, and a   *)
(* status of success that will be answered stands for a whole firmware.    *)
UpdateInv ==
  /\ restartmodule => pc = "close"
  /\ pc \in {"form", "file", "end"} => request.body = "form"
  /\ ~forgotten =>
       /\ update.running =>
            /\ pc \in {"file", "end"} /\ request.uri = "/updatefw"
            /\ level = "admin"
       /\ update.running /\ ~update.failed =>
            /\ _upload_status = "ONGOING"
            /\ pc = "end" /\ connected => ~update.part
       /\ _upload_status = "SUCCESSFUL" =>
            \/ restartmodule
            \/ request.uri # "other" /\ pc \in {"form", "handle", "hung"}
       /\ _upload_status = "SUCCESSFUL" /\ request.uri = "/updatefw" =>
            ((pc = "form" /\ connected) \/ pc = "handle"
               => installed = "whole")
       /\ restartmodule => installed = "whole"

(* Success is noted at the end of a file, or was noted before.             *)
LEMMA SuccessAtEnd ==
  ASSUME UpdateInv, ~forgotten, request.uri \in Uris, Parsing
  PROVE  _upload_status' = "SUCCESSFUL" =>
           pc' = "form" /\ request.uri # "other"
<1> USE DEF UpdateInv
<1>0. ~restartmodule
  BY ParsingStep
<1>1. CASE request.uri = "other"
  <2>1. UNCHANGED _upload_status
    BY <1>1, ParsingStep, StatusStep DEF uploadVars
  <2> QED BY <1>0, <1>1, <2>1
<1>2. CASE StartFile /\ request.uri # "other"
  BY <1>2, StatusStep DEF StartFile
<1>3. CASE WriteBlock \/ WriteLast
  <2>1. pc = "file" /\ \E piece \in {"WRITE", "LAST"} : Upload(piece)
    BY <1>3, Zenon DEF WriteBlock, WriteLast, InForm
  <2> QED BY <1>0, <2>1, StatusStep
<1>4. CASE EndFile /\ request.uri # "other"
  BY <1>4 DEF EndFile, InForm
<1> QED BY <1>1, <1>2, <1>3, <1>4 DEF Parsing

(* A piece of a firmware file.                                             *)
LEMMA FirmwarePiece ==
  ASSUME TypeOK, UpdateInv, ~forgotten, request.uri = "/updatefw",
         level = "admin", Parsing
  PROVE  /\ UNCHANGED connected
         /\ update'.running => pc' \in {"file", "end"}
         /\ update'.running /\ ~update'.failed =>
              /\ _upload_status' = "ONGOING"
              /\ pc' = "end" /\ connected => ~update'.part
         /\ _upload_status' = "SUCCESSFUL" => pc' = "form"
         /\ _upload_status' = "SUCCESSFUL" /\ connected =>
              installed' = "whole"
<1> USE DEF UpdateInv, TypeOK, Goes, Cancelled
<1>0. ~restartmodule
  BY ParsingStep
<1>1. CASE StartFile
  <2>1. UpdateStart /\ UNCHANGED connected /\ pc = "form" /\ pc' = "file"
    BY <1>1, Zenon DEF StartFile, InForm, Upload, WebUpdateUpload
  <2> QED BY <2>1, <1>0 DEF UpdateStart
<1>2. CASE WriteBlock
  <2>1. UpdateWrite(FALSE) /\ UNCHANGED connected /\ pc = "file"
        /\ pc' = "file"
    BY <1>2, Zenon DEF WriteBlock, InForm, Upload, WebUpdateUpload
  <2> QED BY <2>1, <1>0 DEF UpdateWrite
<1>3. CASE WriteLast
  <2>1. UpdateWrite(TRUE) /\ UNCHANGED connected /\ pc = "file" /\ pc' = "end"
    BY <1>3, Zenon DEF WriteLast, InForm, Upload, WebUpdateUpload
  <2> QED BY <2>1, <1>0 DEF UpdateWrite
<1>4. CASE EndFile
  <2>1. UpdateEnd /\ UNCHANGED connected /\ pc = "end" /\ pc' = "form"
    BY <1>4, Zenon DEF EndFile, InForm, Upload, WebUpdateUpload
  <2>2. ~update'.running
    BY <2>1 DEF UpdateEnd, Ended, Idle
  <2> QED BY <2>1, <2>2, <1>0 DEF UpdateEnd
<1> QED BY <1>1, <1>2, <1>3, <1>4 DEF Parsing

(* The module restarts only into a whole firmware.                         *)
THEOREM RestartOnlyUpdatedAlways == Spec => []RestartOnlyUpdated
<1>1. Init => UpdateInv
  BY DEF Init, UpdateInv, Idle
<1>2. TypeOK /\ UpdateInv /\ [Next]_vars => UpdateInv'
  <2> SUFFICES ASSUME TypeOK, UpdateInv, [Next]_vars PROVE UpdateInv'
    OBVIOUS
  <2> USE DEF UpdateInv
  <2>0. request.uri \in Uris
    BY DEF TypeOK, Requests
  <2>1. CASE Accept
    BY <2>1 DEF Accept
  <2>2. CASE Leave
    <3>1. /\ pc' = "none" /\ pc \in {"read", "close"} /\ ~restartmodule
          /\ UNCHANGED <<_upload_status, update, installed, forgotten,
                         restartmodule>>
      BY <2>2, Zenon DEF Leave, GiveUpReading, Free, Kept
    <3> QED BY <3>1
  <2>3. CASE ParseRequest
    <3>1. /\ pc = "read" /\ pc' \in {"none", "handle", "form"}
          /\ pc' = "form" => request.body = "form" /\ UNCHANGED request
          /\ UNCHANGED <<_upload_status, update, installed, forgotten,
                         restartmodule>>
      BY <2>3, Zenon DEF ParseRequest, RefuseRequest, NoForm, Form, Free,
         Kept, uploadVars
    <3> QED BY <3>1
  <2>4. CASE Parsing
    <3>1. CASE request.uri = "/updatefw" /\ level = "admin" /\ ~forgotten
      <4>1. /\ UNCHANGED connected
            /\ update'.running => pc' \in {"file", "end"}
            /\ update'.running /\ ~update'.failed =>
                 /\ _upload_status' = "ONGOING"
                 /\ pc' = "end" /\ connected => ~update'.part
            /\ _upload_status' = "SUCCESSFUL" => pc' = "form"
            /\ _upload_status' = "SUCCESSFUL" /\ connected =>
                 installed' = "whole"
        BY <2>4, <3>1, FirmwarePiece
      <4>2. /\ pc \in {"form", "file", "end"}
            /\ pc' \in {"form", "file", "end"}
            /\ UNCHANGED <<request, level, restartmodule, forgotten>>
        BY <2>4, ParsingStep
      <4> QED BY <3>1, <4>1, <4>2
    <3>2. CASE request.uri # "/updatefw" /\ ~forgotten
      <4>1. UNCHANGED <<update, installed>>
        BY <2>0, <2>4, <3>2, ParsingStep, OnlyUpdateUpdates
      <4>2. ~update.running
        BY <3>2
      <4>3. _upload_status' = "SUCCESSFUL" =>
              pc' = "form" /\ request.uri # "other"
        BY <2>0, <2>4, <3>2, SuccessAtEnd
      <4> QED BY <2>4, <3>2, <4>1, <4>2, <4>3, ParsingStep
    <3>3. CASE request.uri = "/updatefw" /\ level # "admin" /\ ~forgotten
      <4>1. UNCHANGED <<update, installed>> /\ _upload_status' = "CANCELLED"
        BY <2>4, <3>3, ParsingStep, Zenon
        DEF Upload, WebUpdateUpload, Refuse, Cancelled
      <4>2. ~update.running
        BY <3>3
      <4> QED BY <2>4, <3>3, <4>1, <4>2, ParsingStep
    <3>4. CASE forgotten
      BY <2>4, <3>4, ParsingStep
    <3> QED BY <3>1, <3>2, <3>3, <3>4
  <2>5. CASE Finish \/ Hang \/ ClientGoes
    <3>1. /\ pc \in {"form", "file", "end"}
          /\ \/ pc' = pc
             \/ pc = "form" /\ connected /\ pc' = "handle"
             \/ pc' = "hung"
          /\ connected' => connected
          /\ UNCHANGED <<_upload_status, update, installed, forgotten,
                         restartmodule, request, level>>
      BY <2>5 DEF Finish, Hang, InForm, ClientGoes, uploadVars, serverVars
    <3>2. pc' = "hung" => pc = "form"
      BY <2>5, Zenon DEF Finish, Hang, InForm, ClientGoes
    <3> QED BY <3>1, <3>2
  <2>6. CASE SessionLost
    BY <2>6 DEF SessionLost, uploadVars
  <2>7. CASE Abort
    <3>1. pc = "file" /\ pc' = "none" /\ Upload("ABORTED")
          /\ UNCHANGED <<restartmodule, forgotten>>
      BY <2>7, Zenon DEF Abort
    <3>2. _upload_status' \in {_upload_status, "CANCELLED"}
      BY <2>0, <3>1, StatusStep
    <3>3. ~forgotten => ~update'.running
      <4>1. CASE request.uri = "/updatefw" /\ level = "admin"
        <5>1. Ended
          BY <3>1, <4>1, Zenon DEF Upload, WebUpdateUpload
        <5> QED BY <5>1 DEF Ended, Idle
      <4>2. CASE request.uri = "/updatefw" /\ level # "admin"
        BY <3>1, <4>2, Zenon DEF Upload, WebUpdateUpload
      <4>3. CASE request.uri # "/updatefw"
        BY <2>0, <3>1, <4>3, OnlyUpdateUpdates
      <4> QED BY <4>1, <4>2, <4>3
    <3> QED BY <3>1, <3>2, <3>3
  <2>8. CASE Handle
    <3>1. /\ pc = "handle" /\ pc' = "close"
          /\ UNCHANGED <<installed, forgotten, request, level>>
      BY <2>8, Zenon DEF Handle
    <3>2. /\ UNCHANGED update
          /\ \/ _upload_status' = "NONE" /\ UNCHANGED restartmodule
             \/ /\ request.uri = "/updatefw" /\ _upload_status = "SUCCESSFUL"
                /\ restartmodule' = TRUE
             \/ /\ request.uri = "other"
                /\ UNCHANGED <<_upload_status, restartmodule>>
      <4>1. CASE handleFileList
        BY <4>1, TellsOnce
      <4>2. CASE request.uri = "/updatefw" /\ handleUpdate
        BY <4>2 DEF handleUpdate, ResetStatus
      <4>3. CASE handle_serial_SDFileList
        BY <4>3 DEF handle_serial_SDFileList, ResetStatus
      <4>4. CASE request.uri = "other" /\ handle_not_found
        BY <4>4 DEF handle_not_found
      <4> QED BY <2>8, <4>1, <4>2, <4>3, <4>4, Zenon DEF Handle
    <3> QED BY <3>1, <3>2
  <2>9. CASE Restart
    BY <2>9 DEF Restart, Free, Idle
  <2>10. CASE UNCHANGED vars
    BY <2>10 DEF vars, uploadVars, serverVars
  <2> QED BY <2>1, <2>2, <2>3, <2>4, <2>5, <2>6, <2>7, <2>8, <2>9, <2>10,
             Zenon DEF Next, Server, Parsing
<1>3. UpdateInv => RestartOnlyUpdated
  BY DEF UpdateInv, RestartOnlyUpdated
<1> QED BY <1>1, <1>2, <1>3, TypeCorrect, PTL DEF Spec

-----------------------------------------------------------------------------
Stored == disk[filename] \in {"whole", "short"}

(* While its user is known, a file of the module is open and goes on, or   *)
(* its upload was cancelled; a status that is not "CANCELLED" after a part *)
(* stands for a file that was stored, unless its client has gone, and then *)
(* the parser will never get to the answer.                                *)
StoredInv ==
  request.uri = "/files" =>
    /\ level # "guest" /\ pc \in {"file", "end"} =>
         \/ /\ fsUploadFile /\ _upload_status = "ONGOING"
            /\ pc = "end" /\ connected => Stored
         \/ ~fsUploadFile /\ _upload_status = "CANCELLED"
    /\ /\ level # "guest" /\ pc \in {"form", "handle"}
       /\ parts < request.files /\ _upload_status # "CANCELLED"
       => Stored \/ (pc = "form" /\ ~connected)
    /\ pc = "close" /\ answer = "Ok" /\ request.files > 0 => Stored

(* A piece of a file of the module.                                        *)
LEMMA FilePiece ==
  ASSUME TypeOK, StoredInv, request.uri = "/files", level # "guest", Parsing
  PROVE  /\ pc' \in {"file", "end"} =>
              \/ /\ fsUploadFile' /\ _upload_status' = "ONGOING"
                 /\ pc' = "end" /\ connected' => Stored'
              \/ ~fsUploadFile' /\ _upload_status' = "CANCELLED"
         /\ pc' = "form" /\ _upload_status' # "CANCELLED" =>
              Stored' \/ ~connected'
<1> USE DEF StoredInv, Stored, TypeOK, Goes, Refuse, Cancelled
<1>1. CASE StartFile
  <2>1. FileStart /\ pc' = "file"
    BY <1>1, Zenon DEF StartFile, InForm, Upload, SPIFFSFileupload
  <2> QED BY <2>1 DEF FileStart
<1>2. CASE WriteBlock
  <2>1. FileWrite(FALSE) /\ pc = "file" /\ pc' = "file"
    BY <1>2, Zenon DEF WriteBlock, InForm, Upload, SPIFFSFileupload
  <2> QED BY <2>1 DEF FileWrite
<1>3. CASE WriteLast
  <2>1. FileWrite(TRUE) /\ pc = "file" /\ pc' = "end"
    BY <1>3, Zenon DEF WriteLast, InForm, Upload, SPIFFSFileupload
  <2>2. CASE fsUploadFile /\ _upload_status = "ONGOING"
    <3>1. /\ UNCHANGED <<filename, fsUploadFile, _upload_status, connected>>
          /\ \E wrote \in {"all", "less"} :
               disk' = [disk EXCEPT ![filename] =
                          IF wrote = "less"
                            \/ disk[filename] = "short" THEN "short"
                          ELSE IF connected THEN "whole" ELSE disk[filename]]
      BY <2>1, <2>2 DEF FileWrite
    <3> QED BY <2>1, <2>2, <3>1
  <2>3. CASE ~(fsUploadFile /\ _upload_status = "ONGOING")
    BY <2>1, <2>3 DEF FileWrite
  <2> QED BY <2>2, <2>3
<1>4. CASE EndFile
  <2>1. FileEnd /\ pc = "end" /\ pc' = "form"
    BY <1>4, Zenon DEF EndFile, InForm, Upload, SPIFFSFileupload
  <2>2. CASE fsUploadFile
    <3>1. UNCHANGED <<disk, connected, filename>>
      BY <2>1, <2>2, Zenon DEF FileEnd
    <3> QED BY <2>1, <2>2, <3>1
  <2>3. CASE ~fsUploadFile
    <3>1. _upload_status' = "CANCELLED"
      BY <2>1, <2>3, Zenon DEF FileEnd
    <3> QED BY <2>1, <3>1
  <2> QED BY <2>2, <2>3
<1> QED BY <1>1, <1>2, <1>3, <1>4 DEF Parsing

(* An upload that is answered "Ok" has stored its last file.               *)
THEOREM OkMeansStoredAlways == Spec => []OkMeansStored
<1>1. Init => StoredInv
  BY DEF Init, StoredInv, NoRequest
<1>2. TypeOK /\ PartsInv /\ StoredInv /\ [Next]_vars => StoredInv'
  <2> SUFFICES ASSUME TypeOK, PartsInv, StoredInv, [Next]_vars
               PROVE  StoredInv'
    OBVIOUS
  <2> USE DEF StoredInv, Stored
  <2>1. CASE Accept
    BY <2>1 DEF Accept
  <2>2. CASE Leave
    BY <2>2 DEF Leave, GiveUpReading, Free
  <2>3. CASE ParseRequest
    <3>1. CASE RefuseRequest
      BY <3>1 DEF RefuseRequest, Free
    <3>2. CASE NoForm
      <4>1. pc' = "handle" /\ UNCHANGED <<request, parts>>
        BY <3>2, Zenon DEF NoForm
      <4>2. pc = "read" /\ parts = 0
        BY <2>3, Zenon DEF ParseRequest, PartsInv
      <4>3. request.files = 0
        BY <3>2 DEF NoForm, TypeOK, Requests
      <4> QED BY <4>1, <4>2, <4>3
    <3>3. CASE Form
      <4>1. pc' = "form" /\ parts' = request.files /\ UNCHANGED request
        BY <3>3, Zenon DEF Form
      <4> QED BY <4>1, BuildType
    <3> QED BY <2>3, <3>1, <3>2, <3>3, Zenon DEF ParseRequest
  <2>4. CASE Parsing
    <3>1. UNCHANGED <<request, level>> /\ pc' \in {"form", "file", "end"}
      BY <2>4, ParsingStep
    <3>2. CASE request.uri = "/files" /\ level # "guest"
      BY <2>4, <3>1, <3>2, FilePiece
    <3> QED BY <3>1, <3>2
  <2>5. CASE Finish \/ Hang
    <3>1. /\ pc = "form"
          /\ UNCHANGED <<request, level, parts, disk, filename,
                         _upload_status>>
          /\ (connected /\ pc' = "handle") \/ pc' = "hung"
      BY <2>5 DEF Finish, Hang, InForm, uploadVars
    <3> QED BY <3>1
  <2>6. CASE ClientGoes
    <3>1. /\ pc \in {"form", "file", "end"} /\ connected' = FALSE
          /\ UNCHANGED <<pc, request, level, parts, disk, filename,
                         _upload_status, fsUploadFile>>
      BY <2>6 DEF ClientGoes, serverVars
    <3> QED BY <3>1
  <2>7. CASE SessionLost
    BY <2>7 DEF SessionLost
  <2>8. CASE Abort
    BY <2>8 DEF Abort
  <2>9. CASE Handle
    <3>1. /\ pc = "handle" /\ pc' = "close" /\ parts = 0
          /\ UNCHANGED <<request, filename>>
      BY <2>9, Zenon DEF Handle, PartsInv
    <3>2. ASSUME request.uri = "/files", answer' = "Ok", request.files > 0
          PROVE  Stored'
      <4>1. handleFileList
        BY <2>9, <3>2 DEF Handle
      <4>2. level # "guest" /\ _upload_status # "CANCELLED" /\ UNCHANGED disk
        BY <3>2, <4>1, TellsOnce DEF Failed
      <4> QED BY <3>1, <3>2, <4>2
    <3> QED BY <3>1, <3>2
  <2>10. CASE Restart
    BY <2>10 DEF Restart, Free, NoRequest
  <2>11. CASE UNCHANGED vars
    BY <2>11 DEF vars, uploadVars, serverVars
  <2> QED BY <2>1, <2>2, <2>3, <2>4, <2>5, <2>6, <2>7, <2>8, <2>9, <2>10,
             <2>11, Zenon DEF Next, Server, Parsing
<1>3. StoredInv => OkMeansStored
  BY DEF StoredInv, OkMeansStored, Stored
<1> QED BY <1>1, <1>2, <1>3, TypeAndParts, PTL DEF Spec
=============================================================================
