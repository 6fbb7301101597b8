---------------------------- MODULE ArtifactStore ----------------------------
(***************************************************************************)
(* The artifact handlers of the Build API (internal/buildapi/server.go):   *)
(* one directory per BuildJob name, written file by file by the upload of  *)
(* each run, and read while uploads go on.  No upload ever removes the     *)
(* files of an earlier one, and nothing but the name ties a file to a run. *)
(*                                                                         *)
(* There is one upload at a time, because the runs of a BuildJob do not    *)
(* overlap (BuildContract).  A request whose client is gone writes no more:*)
(* its next read of the body fails.                                        *)
(***************************************************************************)
EXTENDS Integers

CONSTANTS
    Uploaders, \* the runs that upload
    Files      \* file names in the artifact directory

VARIABLES
    files,    \* the directory: files[f] is what is stored under the name f
    upload,   \* the upload request in progress
    produced, \* produced[n]: the files run n had to upload
    answer    \* answer[n]: what the upload of run n was answered

storeVars == <<files, upload, produced, answer>>

(* The bytes of a file: the run that wrote them last, and whether they are *)
(* all of its file.                                                        *)
Contents == [by : Uploaders, whole : BOOLEAN]
NoFile == [by |-> 0, whole |-> FALSE]

(* A request: the run that sent it, the tar entries still to be read, and  *)
(* the file being written.                                                 *)
NoUpload == [by |-> 0, todo |-> {}, open |-> {}]

StoreTypeOK ==
    /\ files \in [Files -> Contents \cup {NoFile}]
    /\ upload \in [by : Uploaders, todo : SUBSET Files, open : SUBSET Files] \cup {NoUpload}
    /\ produced \in [Uploaders -> SUBSET Files]
    /\ answer \in [Uploaders -> {"none", "ok", "error"}]

StoreInit ==
    /\ files = [f \in Files |-> NoFile]
    /\ upload = NoUpload
    /\ produced = [n \in Uploaders |-> {}]
    /\ answer = [n \in Uploaders |-> "none"]

(* The collect-artifacts task of run n posts a tar of the files in fs. *)
UploadBegins(n, fs) ==
    /\ upload = NoUpload
    /\ answer[n] = "none" /\ produced[n] = {}
    /\ fs # {}
    /\ upload' = [by |-> n, todo |-> fs, open |-> {}]
    /\ produced' = [produced EXCEPT ![n] = fs]
    /\ UNCHANGED <<files, answer>>

FaultyCreateFile(f) ==
    /\ upload.open = {}
    /\ f \in upload.todo
    /\ files' = [files EXCEPT ![f] =
           IF @ = NoFile THEN [by |-> upload.by, whole |-> FALSE] ELSE [@ EXCEPT !.whole = FALSE]]
    /\ upload' = [upload EXCEPT !.todo = @ \ {f}, !.open = IF files[f] = NoFile THEN {f} ELSE {}]
    /\ UNCHANGED <<produced, answer>>

(* The next tar entry: os.Create truncates a file of that name. *)
CreateFile(f) ==
    /\ upload.open = {}
    /\ f \in upload.todo
    /\ files' = [files EXCEPT ![f] = [by |-> upload.by, whole |-> FALSE]]
    /\ upload' = [upload EXCEPT !.todo = @ \ {f}, !.open = {f}]
    /\ UNCHANGED <<produced, answer>>

FaultyWriteFile(f) ==
    /\ upload.by # 0
    /\ files' = [files EXCEPT ![f].whole = TRUE]
    /\ upload' = [upload EXCEPT !.open = {}]
    /\ UNCHANGED <<produced, answer>>

(* io.Copy reaches the end of the entry. *)
WriteFile(f) ==
    /\ f \in upload.open
    /\ files' = [files EXCEPT ![f].whole = TRUE]
    /\ upload' = [upload EXCEPT !.open = {}]
    /\ UNCHANGED <<produced, answer>>

Answer(what) ==
    /\ upload' = NoUpload
    /\ answer' = [answer EXCEPT ![upload.by] = what]

FaultyUploadEnds ==
    /\ upload.by # 0
    /\ upload.open = {}
    /\ Answer("ok")
    /\ UNCHANGED <<files, produced>>

(* The end of the archive. *)
UploadEnds ==
    /\ upload.by # 0
    /\ upload.todo = {} /\ upload.open = {}
    /\ Answer("ok")
    /\ UNCHANGED <<files, produced>>

(* A bad entry, one file too many, a disk error, or a client that went     *)
(* away: what was written stays, a file in the middle too.                 *)
UploadFails ==
    /\ upload.by # 0
    /\ Answer("error")
    /\ UNCHANGED <<files, produced>>

(* The file is larger than MaxFileBytes and is removed: with it goes the   *)
(* version an earlier run uploaded.                                        *)
FileTooLarge(f) ==
    /\ f \in upload.open
    /\ files' = [files EXCEPT ![f] = NoFile]
    /\ Answer("error")
    /\ UNCHANGED produced

(* The operator's pod is replaced (the directory is an emptyDir), or only  *)
(* its container restarted.                                                *)
ServerRestarts(replaced) ==
    /\ files' = IF replaced THEN [f \in Files |-> NoFile] ELSE files
    /\ IF upload = NoUpload THEN UNCHANGED <<upload, answer>> ELSE Answer("error")
    /\ UNCHANGED produced

UploadStep ==
    \/ UploadEnds \/ UploadFails
    \/ \E f \in Files : CreateFile(f) \/ WriteFile(f) \/ FileTooLarge(f)

(* handleArtifactList. *)
Listed == {f \in Files : files[f] # NoFile}
=============================================================================
