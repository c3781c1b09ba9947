------------------------------- MODULE Assets -------------------------------
(***************************************************************************)
(* Files of internal/server/assets.go.                                     *)
(*                                                                         *)
(* Downloads of one asset: resolveAssetURL copies it from the homeserver   *)
(* to a temporary path and renames that to the path in the cache.  Both    *)
(* paths are the hash of the URL, so requests for the same asset share     *)
(* them, and nothing keeps two requests from running at once.  A file is   *)
(* what a path names; a request keeps writing to the file it created, at   *)
(* its own offset, whatever happens to the path.                           *)
(*                                                                         *)
(* Uploads: the contents and metadata.json in a fresh directory each,      *)
(* found again by the upload ID when a message with an attachment is sent. *)
(***************************************************************************)
EXTENDS Naturals, FiniteSets

CONSTANTS
  Downloads,             (* requests for the asset; each names its file    *)
  Pieces,                (* the asset is copied in pieces 1..Pieces        *)
  Uploads,               (* upload IDs, drawn at random                    *)
  Names,                 (* file names of uploads                          *)
  MetadataName,          (* "metadata.json"                                *)
  None,
  MaxCrashes             (* bound on the crashes                           *)

ASSUME AssetsAssumption ==
  /\ Pieces \in Nat \ {0}
  /\ MetadataName \in Names
  /\ None \notin Downloads
  /\ MaxCrashes \in Nat

VARIABLES
  cached,                (* the file at cachePath                          *)
  temp,                  (* the file at tempPath                           *)
  content,               (* the pieces in each file                        *)
  download,              (* each request: pc, file it writes, offset       *)
  upload,                (* each upload: pc and file name                  *)
  dir,                   (* what each name in the directory of an upload is*)
  crashes,               (* crashes so far                                 *)
  shared,                (* history: did two requests write to one file?   *)
  abandoned              (* history: files a request did not finish        *)

cacheVars == <<cached, temp, content, download, shared, abandoned>>
uploadVars == <<upload, dir>>
vars == <<cacheVars, uploadVars, crashes>>

All == 1..Pieces
Files == Downloads
Waiting == [pc |-> "new", file |-> None, offset |-> 0]
Ended(pc) == [Waiting EXCEPT !.pc = pc]

Init ==
  /\ cached = None /\ temp = None
  /\ content = [f \in Files |-> {}]
  /\ download = [d \in Downloads |-> Waiting]
  /\ upload = [u \in Uploads |-> [pc |-> "new", name |-> None]]
  /\ dir = [u \in Uploads |-> [n \in Names |-> "absent"]]
  /\ crashes = 0
  /\ shared = FALSE
  /\ abandoned = {}
-----------------------------------------------------------------------------
(* Downloads.                                                              *)

Writing(d) == download[d].pc \in {"copying", "renaming"}
Becomes(d, state) == download' = [download EXCEPT ![d] = state]

(* A file in the cache is the answer.                                      *)
Stat(d) ==
  /\ download[d].pc = "new"
  /\ Becomes(d, IF cached # None THEN Ended("answered") ELSE [Waiting EXCEPT !.pc = "fetching"])
  /\ UNCHANGED <<cached, temp, content, shared, abandoned, uploadVars, crashes>>

(* os.Create: a new file, or the one that is at tempPath, now empty.       *)
Create(d) ==
  /\ download[d].pc = "fetching"
  /\ LET file == IF temp = None THEN d ELSE temp
     IN /\ temp' = file
        /\ content' = [content EXCEPT ![file] = {}]
        /\ Becomes(d, [pc |-> "copying", file |-> file, offset |-> 0])
        /\ shared' = (shared \/ \E e \in Downloads : Writing(e) /\ download[e].file = file)
  /\ UNCHANGED <<cached, abandoned, uploadVars, crashes>>

(* The homeserver has no such asset, or the file cannot be created.        *)
FetchFails(d) ==
  /\ download[d].pc = "fetching"
  /\ Becomes(d, Ended("failed"))
  /\ UNCHANGED <<cached, temp, content, shared, abandoned, uploadVars, crashes>>

(* io.Copy writes the next piece where this request has got to.            *)
CopyPiece(d) ==
  /\ download[d].pc = "copying"
  /\ LET next == download[d].offset + 1
     IN /\ content' = [content EXCEPT ![download[d].file] = @ \union {next}]
        /\ Becomes(d, [pc |-> IF next = Pieces THEN "renaming" ELSE "copying",
                       file |-> download[d].file, offset |-> next])
  /\ UNCHANGED <<cached, temp, shared, abandoned, uploadVars, crashes>>

(* Mutant of GiveUp: the temporary file is left behind.                    *)
GiveUpKeepingFile(d) ==
  /\ Writing(d)
  /\ Becomes(d, Ended("failed"))
  /\ abandoned' = abandoned \union {download[d].file}
  /\ UNCHANGED <<cached, temp, content, shared, uploadVars, crashes>>

(* Reading, writing, closing or renaming fails: what is at tempPath is     *)
(* removed, whoever is writing to it.                                      *)
GiveUp(d) ==
  /\ Writing(d)
  /\ temp' = None
  /\ Becomes(d, Ended("failed"))
  /\ abandoned' = abandoned \union {download[d].file}
  /\ UNCHANGED <<cached, content, shared, uploadVars, crashes>>

(* Mutant of Finish: renamed before the last piece was written.            *)
FinishEarly(d) ==
  /\ Writing(d)
  /\ IF temp = None
     THEN /\ Becomes(d, Ended("failed"))
          /\ UNCHANGED <<cached, temp>>
     ELSE /\ cached' = temp
          /\ temp' = None
          /\ Becomes(d, Ended("answered"))
  /\ UNCHANGED <<content, shared, abandoned, uploadVars, crashes>>

(* os.Rename moves what is at tempPath, and fails if nothing is.           *)
Finish(d) ==
  /\ download[d].pc = "renaming"
  /\ IF temp = None
     THEN /\ Becomes(d, Ended("failed"))
          /\ UNCHANGED <<cached, temp>>
     ELSE /\ cached' = temp
          /\ temp' = None
          /\ Becomes(d, Ended("answered"))
  /\ UNCHANGED <<content, shared, abandoned, uploadVars, crashes>>
-----------------------------------------------------------------------------
(* Uploads.                                                                *)

Uploading(u) == upload[u].pc \in {"data", "metadata"}

(* The directory of a fresh ID.                                            *)
MakeDir(u) ==
  /\ upload[u].pc = "new"
  /\ \E n \in Names : upload' = [upload EXCEPT ![u] = [pc |-> "data", name |-> n]]
  /\ UNCHANGED <<cacheVars, dir, crashes>>

(* os.WriteFile of the contents; what it wrote stays if it fails, and      *)
(* nothing is there if it fails at the open.                               *)
WriteData(u) ==
  /\ upload[u].pc = "data"
  /\ \E left \in {"absent", "partial", "data"} :
       /\ dir' = [dir EXCEPT ![u][upload[u].name] = left]
       /\ \/ left = "data" /\ upload' = [upload EXCEPT ![u].pc = "metadata"]
          \/ upload' = [upload EXCEPT ![u].pc = "failed"]
  /\ UNCHANGED <<cacheVars, crashes>>

(* Mutant of WriteMetadata: written before the contents.                   *)
WriteMetadataFirst(u) ==
  /\ Uploading(u)
  /\ \E left \in {dir[u][MetadataName], "torn", "metadata"} :
       /\ dir' = [dir EXCEPT ![u][MetadataName] = left]
       /\ \/ left = "metadata" /\ UNCHANGED upload
          \/ upload' = [upload EXCEPT ![u].pc = "failed"]
  /\ UNCHANGED <<cacheVars, crashes>>

(* writeUploadMetadata, and then the answer with the upload ID.  If it     *)
(* fails at the open, what was there stays.                                *)
WriteMetadata(u) ==
  /\ upload[u].pc = "metadata"
  /\ \E left \in {dir[u][MetadataName], "torn", "metadata"} :
       /\ dir' = [dir EXCEPT ![u][MetadataName] = left]
       /\ \/ left = "metadata" /\ upload' = [upload EXCEPT ![u].pc = "answered"]
          \/ upload' = [upload EXCEPT ![u].pc = "failed"]
  /\ UNCHANGED <<cacheVars, crashes>>

(* What a message with this attachment may send (loadUploadMetadataByID    *)
(* and buildAttachmentMessageContent): an error unless metadata.json parses*)
(* and the file it names is there, and else whatever is in that file.      *)
(* Contents that were uploaded under that name may parse as well, and then *)
(* name any file.                                                          *)
Attached(u) ==
  LET named == dir[u][upload[u].name]
  IN CASE dir[u][MetadataName] = "metadata" -> {IF named = "absent" THEN "error" ELSE named}
       [] dir[u][MetadataName] \in {"partial", "data"} -> {"error", "other"}
       [] OTHER -> {"error"}
-----------------------------------------------------------------------------
(* The process ends and is started again: every request is over, a file    *)
(* that was being written may be cut short, and the directories stay.      *)
Left(u, how) ==
  IF how = "untouched" THEN dir[u]
  ELSE IF upload[u].pc = "data"
       THEN [dir[u] EXCEPT ![upload[u].name] = IF how = "cut" THEN "partial" ELSE "data"]
       ELSE [dir[u] EXCEPT ![MetadataName] = IF how = "cut" THEN "torn" ELSE "metadata"]

Crash ==
  /\ crashes < MaxCrashes
  /\ crashes' = crashes + 1
  /\ download' = [d \in Downloads |-> IF download[d].pc = "fetching" \/ Writing(d)
                                      THEN Ended("failed") ELSE download[d]]
  /\ abandoned' = abandoned \union {download[d].file : d \in {e \in Downloads : Writing(e)}}
  /\ upload' = [u \in Uploads |-> IF Uploading(u) THEN [upload[u] EXCEPT !.pc = "failed"]
                                  ELSE upload[u]]
  /\ \E how \in [{u \in Uploads : Uploading(u)} -> {"untouched", "cut", "whole"}] :
       dir' = [u \in Uploads |-> IF Uploading(u) THEN Left(u, how[u]) ELSE dir[u]]
  /\ UNCHANGED <<cached, temp, content, shared>>

Next ==
  \/ \E d \in Downloads :
       Stat(d) \/ Create(d) \/ FetchFails(d) \/ CopyPiece(d) \/ GiveUp(d) \/ Finish(d)
  \/ \E u \in Uploads : MakeDir(u) \/ WriteData(u) \/ WriteMetadata(u)
  \/ Crash

Spec == Init /\ [][Next]_vars
-----------------------------------------------------------------------------
(* Properties.                                                             *)

TypeOK ==
  /\ cached \in Files \union {None} /\ temp \in Files \union {None}
  /\ content \in [Files -> SUBSET All]
  /\ \A d \in Downloads :
       /\ download[d].pc \in {"new", "fetching", "copying", "renaming", "answered", "failed"}
       /\ download[d].file \in Files \union {None}
       /\ download[d].offset \in 0..Pieces
       /\ Writing(d) => download[d].file # None
  /\ \A u \in Uploads :
       /\ upload[u].pc \in {"new", "data", "metadata", "answered", "failed"}
       /\ upload[u].name \in Names \union {None}
  /\ dir \in [Uploads -> [Names -> {"absent", "partial", "data", "torn", "metadata"}]]
  /\ crashes \in Nat /\ shared \in BOOLEAN
  /\ abandoned \subseteq Files

(* A file in the cache is the whole asset, whatever failed and whenever    *)
(* the process was killed, unless two requests were writing to one file.   *)
(* Even then it is whole in the end if nothing fails: a file with pieces   *)
(* missing is still being written or was given up (assets.go:231-258).     *)
CachedComplete ==
  cached # None /\ content[cached] # All =>
    /\ shared
    /\ \/ cached \in abandoned
       \/ \E d \in Downloads : Writing(d) /\ download[d].file = cached

(* What is at the temporary path belongs to a request that is writing to   *)
(* it, or was left by a crash: no failure or race of requests leaves it    *)
(* behind (assets.go:245-257).                                             *)
TempOwned ==
  temp # None =>
    \/ \E d \in Downloads : Writing(d) /\ download[d].file = temp
    \/ crashes > 0 /\ temp \in abandoned

(* An upload that was answered can be attached, and what is attached is    *)
(* the whole contents, also for an upload cut short by a failure or crash. *)
(* The name metadata.json is the exception: such contents are replaced by  *)
(* the metadata, and if the upload was cut short before that, they may     *)
(* name another file to attach (assets.go:107-133, 262-294).               *)
AttachesContents ==
  \A u \in Uploads :
    /\ upload[u].pc = "answered" => "error" \notin Attached(u)
    /\ Attached(u) \subseteq
         IF upload[u].name # MetadataName THEN {"error", "data"}
         ELSE IF upload[u].pc = "answered" THEN {"metadata"}
         ELSE {"error", "metadata", "other"}
=============================================================================
