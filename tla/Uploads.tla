------------------------------ MODULE Uploads ------------------------------
(***************************************************************************)
(* The way of a file or a folder from the browser to a storage node and    *)
(* back: UploadFileHandler and the downloads of proxy_upload_handler.go,   *)
(* UploadFolderHandler, AcceptFolder and AcceptFolderIndexed.  Every       *)
(* upload works through scratch files on the controller's disk, which are  *)
(* named after the file, the folder or the process, never after the        *)
(* request, while other uploads run.                                       *)
(*                                                                         *)
(* A name is the sequence of its parts: x.tar is <<"x", "tar">>.           *)
(*                                                                         *)
(* A content is a set of pieces <<u, n>> (what upload u sent under the     *)
(* name n), the number of zstd layers around it and the key that seals it. *)
(* Copying, compressing or sealing a file is one step.  Every request has  *)
(* an owner of its own.  The controller is not killed while an upload      *)
(* runs.                                                                   *)
(***************************************************************************)
EXTENDS Naturals, FiniteSets, Sequences

CONSTANTS Uploads,      \* requests
          Parts,        \* what names consist of,
          Names,        \* file names, and
          Folders,      \* folder names among them
          MaxFiles,     \* the most files of an uploaded folder
          None

ASSUME NamesAssumption ==
  /\ {"tar", "zst", "enc"} \subseteq Parts
  /\ Names \subseteq Seq(Parts) \ {<<>>}
  /\ Folders \subseteq Names
ASSUME BoundAssumption == MaxFiles \in Nat \ {0}

VARIABLES disk,      \* the scratch files: place, then name
          made,      \* the temporary folder of folder uploads exists
          up,        \* the requests
          rows,      \* table files, each row with the node's object
          disturbed  \* history: uploads whose scratch files another upload
                     \* used, or whose compressed copy lost its end

vars == <<disk, made, up, rows, disturbed>>

(***************************************************************************)
(* The names that the files get on their way.                              *)
(***************************************************************************)
Tar(n) == Append(n, "tar")

Zst(n) == Append(n, "zst")

Enc(n) == Append(n, "enc")

EndsIn(n, part) == Len(n) > 1 /\ n[Len(n)] = part

(* encryptedFilename of processFileForStorage. *)
EncName(n, compress) == Enc(IF compress THEN Zst(n) ELSE n)

(***************************************************************************)
(* The places: /tmp/uploads, where <name>, <name>.zst and                  *)
(* <name>[.zst].enc lie in one directory, so that the copy of one upload   *)
(* may have the name of another's; the temporary folder upload_<pid>;      *)
(* testing/folders/<folder>.tar.zst and, sealed, .tar.zst.enc;             *)
(* testing/folders/encrypted/<name>.enc.  The last three name the file by  *)
(* what it is made from.                                                   *)
(***************************************************************************)
Places == {"temp", "tree", "archive", "sealed", "piece"}

Paths == Names \cup {Zst(n) : n \in Names}
               \cup {EncName(n, compress) : n \in Names, compress \in BOOLEAN}

Content == [data : SUBSET (Uploads \X Names), layers : Nat,
            key : (Uploads \X Names) \cup {None}]

ASSUME NoneAssumption ==
  None \notin Names /\ None \notin Content /\ None \notin {"ok", "failed"}

Kinds == {"file", "archive", "indexed"}

Empty == [n \in Paths |-> None]

Start == [pc |-> "idle", kind |-> "file", name |-> None, compress |-> FALSE,
          files |-> {}, todo |-> {}, entry |-> None, object |-> None, reply |-> None]

Init ==
  /\ disk = [p \in Places |-> Empty]
  /\ made = FALSE
  /\ up = [u \in Uploads |-> Start]
  /\ rows = {}
  /\ disturbed = {}

(***************************************************************************)
(* The transformations of a content.                                       *)
(***************************************************************************)
Own(u, n) ==
  [data |-> {<<u, n>>}, layers |-> IF EndsIn(n, "zst") THEN 1 ELSE 0, key |-> None]

(* What a write leaves that breaks off. *)
Partial == [data |-> {}, layers |-> 0, key |-> None]

Compressed(c) == [c EXCEPT !.layers = @ + 1]

Encrypted(c, k) == [c EXCEPT !.key = k]

Packed(tree) ==
  [data |-> UNION {tree[n].data : n \in {m \in Names : tree[m] # None}},
   layers |-> 1, key |-> None]

EncPath(u) == EncName(up[u].name, up[u].compress)

(***************************************************************************)
(* The scratch files of two uploads overlap.                               *)
(***************************************************************************)
Running(u) == up[u].pc \notin {"idle", "done"}

Scratch(name, compress) ==
  {name, EncName(name, compress)} \cup (IF compress THEN {Zst(name)} ELSE {})

Clash(kind, name, compress, v) ==
  /\ Running(v)
  /\ \/ /\ kind = "file" /\ up[v].kind = "file"
        /\ Scratch(name, compress) \cap Scratch(up[v].name, up[v].compress) # {}
     \/ kind # "file" /\ up[v].kind # "file"

NoteClashes(u, kind, name, compress) ==
  LET others == {v \in Uploads : Clash(kind, name, compress, v)}
      stale == kind # "file" /\ \E n \in Names : disk["tree"][n] # None
  IN  disturbed' = disturbed \cup others \cup (IF others # {} \/ stale THEN {u} ELSE {})

Move(u, pc) == up' = [up EXCEPT ![u].pc = pc]

Fail(u) == up' = [up EXCEPT ![u].pc = "done", ![u].reply = "failed"]

(***************************************************************************)
(* UploadFileHandler: the part is copied to /tmp/uploads/<name>.           *)
(***************************************************************************)
ReceiveFile(u) ==
  /\ up[u].pc = "idle"
  /\ \E n \in Names, c \in BOOLEAN :
       /\ up' = [up EXCEPT ![u] = [Start EXCEPT !.pc = "received", !.name = n, !.compress = c]]
       /\ disk' = [disk EXCEPT !["temp"][n] = Own(u, n)]
       /\ NoteClashes(u, "file", n, c)
  /\ UNCHANGED <<made, rows>>

\* mutant: only the caller that succeeds removes the plain copy
ProcessFailsKeeping(u, begun) ==
  /\ up[u].kind = "file" /\ up[u].pc \in {"received", "compressed"}
  /\ Fail(u)
  /\ UNCHANGED <<disk, made, rows, disturbed>>

(* The copy that processFileForStorage writes next. *)
Target(u) == IF up[u].compress /\ up[u].pc = "received" THEN Zst(up[u].name) ELSE EncPath(u)

(* processFileForStorage fails: the handler removes the plain copy only. *)
ProcessFails(u, begun) ==
  LET left == IF begun THEN [disk EXCEPT !["temp"][Target(u)] = Partial] ELSE disk
  IN  /\ up[u].kind = "file" /\ up[u].pc \in {"received", "compressed"}
      /\ disk' = [left EXCEPT !["temp"][up[u].name] = None]
      /\ Fail(u)
      /\ UNCHANGED <<made, rows, disturbed>>

(* CompressFile never sees that its last, deferred write failed. *)
CompressFile(u, flushed) ==
  LET n == up[u].name
  IN  /\ up[u].kind = "file" /\ up[u].pc = "received" /\ up[u].compress
      /\ disk["temp"][n] # None
      /\ disk' = [disk EXCEPT !["temp"][Zst(n)] =
                     IF flushed THEN Compressed(disk["temp"][n]) ELSE Partial]
      /\ Move(u, "compressed")
      /\ disturbed' = IF flushed THEN disturbed ELSE disturbed \cup {u}
      /\ UNCHANGED <<made, rows>>

(* The encryption of the AES key can fail when the encrypted file is there. *)
EncryptFile(u, sealedKey) ==
  LET n == up[u].name
      src == disk["temp"][IF up[u].compress THEN Zst(n) ELSE n]
      written == [disk EXCEPT !["temp"][EncPath(u)] = Encrypted(src, <<u, n>>)]
  IN  /\ up[u].kind = "file"
      /\ up[u].pc = (IF up[u].compress THEN "compressed" ELSE "received")
      /\ src # None
      /\ IF sealedKey
           THEN disk' = written /\ Move(u, "encrypted")
           ELSE disk' = [written EXCEPT !["temp"][n] = None] /\ Fail(u)
      /\ UNCHANGED <<made, rows, disturbed>>

(***************************************************************************)
(* The encrypted file is opened for its checksum, opened again and sent.   *)
(* Nobody compares the checksum with what the node received.               *)
(***************************************************************************)
SendFile(u, answered) ==
  LET sent == disk["temp"][EncPath(u)]
  IN  /\ up[u].kind = "file" /\ up[u].pc = "encrypted"
      /\ up' = IF sent # None /\ answered
                 THEN [up EXCEPT ![u].pc = "sent", ![u].object = sent]
                 ELSE [up EXCEPT ![u].pc = "closing", ![u].reply = "failed"]
      /\ UNCHANGED <<disk, made, rows, disturbed>>

(* Filename is the name of the sealed file; RelativePath is for the files of *)
(* an indexed folder only.                                                   *)
Row(u, n, relative, filename) ==
  [owner |-> u, name |-> n, object |-> up[u].object, relative |-> relative,
   filename |-> filename]

(* models.CreateFile; a failure is only logged, and the answer is 201. *)
RecordFile(u, saved) ==
  /\ up[u].kind = "file" /\ up[u].pc = "sent"
  /\ rows' = IF saved
               THEN rows \cup {Row(u, up[u].name, FALSE, EncPath(u))}
               ELSE rows
  /\ up' = [up EXCEPT ![u].pc = "closing", ![u].reply = "ok"]
  /\ UNCHANGED <<disk, made, disturbed>>

\* mutant: the scratch directory is emptied, not the files of this upload
CloseDirectory(u) ==
  /\ up[u].kind = "file" /\ up[u].pc = "closing"
  /\ disk' = [disk EXCEPT !["temp"] = Empty]
  /\ Move(u, "done")
  /\ UNCHANGED <<made, rows, disturbed>>

(* The deferred removals; the compressed copy stays. *)
CloseFile(u) ==
  /\ up[u].kind = "file" /\ up[u].pc = "closing"
  /\ disk' = [disk EXCEPT !["temp"][up[u].name] = None, !["temp"][EncPath(u)] = None]
  /\ Move(u, "done")
  /\ UNCHANGED <<made, rows, disturbed>>

(***************************************************************************)
(* UploadFolderHandler: all uploads of the process share one folder.       *)
(***************************************************************************)
BeginFolder(u) ==
  /\ up[u].pc = "idle"
  /\ \E n \in Folders, k \in Kinds \ {"file"}, fs \in SUBSET Names :
       /\ Cardinality(fs) <= MaxFiles
       /\ up' = [up EXCEPT ![u] = [Start EXCEPT !.pc = "receiving", !.kind = k, !.name = n,
                                                !.compress = (k = "archive"),
                                                !.files = fs, !.todo = fs]]
       /\ NoteClashes(u, k, n, k = "archive")
  /\ made' = TRUE
  /\ UNCHANGED <<disk, rows>>

ReceivePart(u) ==
  /\ up[u].pc = "receiving"
  /\ \E n \in up[u].todo :
       /\ disk' = [disk EXCEPT !["tree"][n] = Own(u, n)]
       /\ up' = [up EXCEPT ![u].todo = @ \ {n}]
  /\ made' = TRUE
  /\ UNCHANGED <<rows, disturbed>>

(* The connection breaks, the user is not known, the parent folder is not   *)
(* the user's or no file came: the temporary folder stays as it is.         *)
RefuseFolder(u) ==
  /\ up[u].pc = "receiving"
  /\ Fail(u)
  /\ UNCHANGED <<disk, made, rows, disturbed>>

AcceptUpload(u) ==
  /\ up[u].pc = "receiving" /\ up[u].todo = {} /\ up[u].files # {}
  /\ Move(u, "accepted")
  /\ UNCHANGED <<disk, made, rows, disturbed>>

(***************************************************************************)
(* AcceptFolder: one archive of whatever the temporary folder holds.       *)
(***************************************************************************)
(* The archive is created before the walk finds that the folder is gone.   *)
PackFolder(u) ==
  /\ up[u].kind = "archive" /\ up[u].pc = "accepted"
  /\ disk' = [disk EXCEPT !["archive"][up[u].name] = Packed(disk["tree"])]
  /\ IF made THEN Move(u, "packed") ELSE Fail(u)
  /\ UNCHANGED <<made, rows, disturbed>>

SealArchive(u) ==
  LET n == up[u].name
  IN  /\ up[u].kind = "archive" /\ up[u].pc = "packed"
      /\ disk["archive"][n] # None
      /\ disk' = [disk EXCEPT !["sealed"][n] = Encrypted(disk["archive"][n], <<u, n>>)]
      /\ Move(u, "sealed")
      /\ UNCHANGED <<made, rows, disturbed>>

(* Every early return of AcceptFolder leaves its files where they are, and  *)
(* the one it was writing.                                                  *)
AcceptFails(u, begun) ==
  LET place == IF up[u].pc = "accepted" THEN "archive" ELSE "sealed"
  IN  /\ up[u].kind = "archive" /\ up[u].pc \in {"accepted", "packed", "sealed"}
      /\ begun => up[u].pc # "sealed"
      /\ disk' = IF begun THEN [disk EXCEPT ![place][up[u].name] = Partial] ELSE disk
      /\ Fail(u)
      /\ UNCHANGED <<made, rows, disturbed>>

SendArchive(u) ==
  LET sent == disk["sealed"][up[u].name]
  IN  /\ up[u].kind = "archive" /\ up[u].pc = "sealed"
      /\ sent # None
      /\ up' = [up EXCEPT ![u].pc = "sent", ![u].object = sent]
      /\ UNCHANGED <<disk, made, rows, disturbed>>

RecordArchive(u, saved) ==
  /\ up[u].kind = "archive" /\ up[u].pc = "sent"
  /\ IF saved
       THEN /\ rows' = rows \cup {Row(u, up[u].name, FALSE, Enc(Zst(Tar(up[u].name))))}
            /\ Move(u, "closing")
       ELSE Fail(u) /\ UNCHANGED rows
  /\ UNCHANGED <<disk, made, disturbed>>

(* The encrypted archive, the archive and the temporary folder are removed. *)
CloseArchive(u) ==
  /\ up[u].kind = "archive" /\ up[u].pc = "closing"
  /\ disk' = [disk EXCEPT !["sealed"][up[u].name] = None, !["archive"][up[u].name] = None,
                          !["tree"] = Empty]
  /\ made' = FALSE
  /\ up' = [up EXCEPT ![u].pc = "done", ![u].reply = "ok"]
  /\ UNCHANGED <<rows, disturbed>>

(***************************************************************************)
(* AcceptFolderIndexed: the list of the files is made once, then each file *)
(* is sealed, sent and recorded; what fails for one of them is skipped.    *)
(* Which folder of the tree a row names is left out.                       *)
(***************************************************************************)
IndexFolder(u, saved) ==
  /\ up[u].kind = "indexed" /\ up[u].pc = "accepted"
  /\ IF made /\ saved
       THEN up' = [up EXCEPT ![u].pc = "indexing",
                             ![u].todo = {n \in Names : disk["tree"][n] # None}]
       ELSE Fail(u)
  /\ UNCHANGED <<disk, made, rows, disturbed>>

SealEntry(u) ==
  /\ up[u].pc = "indexing"
  /\ \E n \in up[u].todo :
       /\ disk["tree"][n] # None
       /\ disk' = [disk EXCEPT !["piece"][n] = Encrypted(disk["tree"][n], <<u, n>>)]
       /\ up' = [up EXCEPT ![u].pc = "entry", ![u].todo = @ \ {n}, ![u].entry = n]
  /\ UNCHANGED <<made, rows, disturbed>>

(* Nothing is written when the file cannot be read; a seal that breaks off  *)
(* leaves what it wrote; a later failure removes the encrypted file.        *)
SkipEntry(u) ==
  /\ up[u].pc = "indexing"
  /\ \E n \in up[u].todo :
       /\ \/ UNCHANGED disk
          \/ /\ disk["tree"][n] # None
             /\ \E left \in {Partial, None} : disk' = [disk EXCEPT !["piece"][n] = left]
       /\ up' = [up EXCEPT ![u].todo = @ \ {n}]
  /\ UNCHANGED <<made, rows, disturbed>>

\* mutant: the encrypted file is removed only when it was sent
SendEntryKeeping(u, answered) ==
  LET sent == disk["piece"][up[u].entry]
  IN  /\ up[u].pc = "entry"
      /\ IF sent # None /\ answered
           THEN /\ disk' = [disk EXCEPT !["piece"][up[u].entry] = None]
                /\ up' = [up EXCEPT ![u].pc = "entrysent", ![u].object = sent]
           ELSE /\ UNCHANGED disk
                /\ up' = [up EXCEPT ![u].pc = "indexing", ![u].entry = None]
      /\ UNCHANGED <<made, rows, disturbed>>

SendEntry(u, answered) ==
  LET sent == disk["piece"][up[u].entry]
  IN  /\ up[u].pc = "entry"
      /\ disk' = [disk EXCEPT !["piece"][up[u].entry] = None]
      /\ up' = IF sent # None /\ answered
                 THEN [up EXCEPT ![u].pc = "entrysent", ![u].object = sent]
                 ELSE [up EXCEPT ![u].pc = "indexing", ![u].entry = None]
      /\ UNCHANGED <<made, rows, disturbed>>

RecordEntry(u, saved) ==
  LET n == up[u].entry
  IN  /\ up[u].pc = "entrysent"
      /\ rows' = IF saved THEN rows \cup {Row(u, n, TRUE, Enc(n))} ELSE rows
      /\ up' = [up EXCEPT ![u].pc = "indexing", ![u].entry = None, ![u].object = None]
      /\ UNCHANGED <<disk, made, disturbed>>

CloseIndexed(u) ==
  /\ up[u].pc = "indexing" /\ up[u].todo = {}
  /\ disk' = [disk EXCEPT !["tree"] = Empty]
  /\ made' = FALSE
  /\ up' = [up EXCEPT ![u].pc = "done", ![u].reply = "ok"]
  /\ UNCHANGED <<rows, disturbed>>

Next == \E u \in Uploads :
  \/ ReceiveFile(u) \/ CloseFile(u)
  \/ BeginFolder(u) \/ ReceivePart(u) \/ RefuseFolder(u) \/ AcceptUpload(u)
  \/ PackFolder(u) \/ SealArchive(u) \/ SendArchive(u) \/ CloseArchive(u)
  \/ SealEntry(u) \/ SkipEntry(u) \/ CloseIndexed(u)
  \/ \E ok \in BOOLEAN :
       \/ ProcessFails(u, ok) \/ CompressFile(u, ok) \/ AcceptFails(u, ok)
       \/ EncryptFile(u, ok) \/ SendFile(u, ok) \/ RecordFile(u, ok)
       \/ RecordArchive(u, ok)
       \/ IndexFolder(u, ok) \/ SendEntry(u, ok) \/ RecordEntry(u, ok)

Spec == Init /\ [][Next]_vars

(***************************************************************************)
(* The downloads.  They work in temporary files of their own names and     *)
(* change nothing, so they are operators; None is an error.                *)
(***************************************************************************)
SealInfo(r) == IF up[r.owner].kind = "file" THEN "file" ELSE "folder"

isArchiveFile(r) ==
  LET n == r.filename
  IN  Len(n) > 3 /\ n[Len(n) - 2] = "tar" /\ n[Len(n) - 1] = "zst" /\ n[Len(n)] = "enc"

isCompressedFile(r) ==
  LET n == r.filename IN Len(n) > 2 /\ n[Len(n) - 1] = "zst" /\ n[Len(n)] = "enc"

\* mutants: the stored name alone decides, or any compressed name is an archive
determineKeyInfoByName(r) == IF isArchiveFile(r) THEN "folder" ELSE "file"

determineKeyInfoByZst(r) == IF r.relative \/ isCompressedFile(r) THEN "folder" ELSE "file"

determineKeyInfo(r) == IF r.relative \/ isArchiveFile(r) THEN "folder" ELSE "file"

Decrypt(r) ==
  IF r.object.key = <<r.owner, r.name>> /\ determineKeyInfo(r) = SealInfo(r)
    THEN [r.object EXCEPT !.key = None]
    ELSE None

Decompressed(c) ==
  IF c # None /\ c.layers > 0 THEN [c EXCEPT !.layers = @ - 1] ELSE None

Fetch(r, decompress) ==
  IF decompress /\ isCompressedFile(r) THEN Decompressed(Decrypt(r)) ELSE Decrypt(r)

DownloadFile(r) == Fetch(r, TRUE)

(* The path of a file in the archive of its folder. *)
ZipPath(r) ==
  LET n == r.filename
  IN  IF r.relative THEN r.name
      ELSE SubSeq(n, 1, Len(n) - (IF isCompressedFile(r) THEN 2 ELSE 1))

(***************************************************************************)
(* What DownloadFolderHandler may put under a path, for a folder with the  *)
(* given rows: one that cannot be decrypted ends the request, and of those *)
(* with one path the last replaces the others.                             *)
(***************************************************************************)
ZipEntry(files, path) ==
  IF \E r \in files : Fetch(r, FALSE) = None THEN {}
  ELSE {Fetch(r, FALSE) : r \in {s \in files : ZipPath(s) = path}}

PreviewRefused(r) == isCompressedFile(r)

(***************************************************************************)
(* Properties.                                                             *)
(***************************************************************************)
Requests ==
  [pc : {"idle", "received", "compressed", "encrypted", "sent", "closing", "receiving",
         "accepted", "packed", "sealed", "indexing", "entry", "entrysent", "done"},
   kind : Kinds, name : Names \cup {None}, compress : BOOLEAN, files : SUBSET Names,
   todo : SUBSET Names, entry : Names \cup {None}, object : Content \cup {None},
   reply : {"ok", "failed", None}]

Rows == [owner : Uploads, name : Names, object : Content, relative : BOOLEAN,
         filename : Seq(Parts)]

(* The scratch files, the requests and the table keep their types. *)
TypeOK ==
  /\ disk \in [Places -> [Paths -> Content \cup {None}]]
  /\ made \in BOOLEAN
  /\ up \in [Uploads -> Requests]
  /\ rows \in SUBSET Rows
  /\ disturbed \in SUBSET Uploads

(* What the owner of a row sent. *)
Sent(r) ==
  IF up[r.owner].kind = "archive"
    THEN [data |-> {<<r.owner, n>> : n \in up[r.owner].files}, layers |-> 0, key |-> None]
    ELSE Own(r.owner, r.name)

(* The stored name misleads the download: a single x.tar that was           *)
(* compressed, or x.tar.zst sent as it is, looks like a folder archive,     *)
(* whose key is sealed for another purpose; a .zst file sent as it is looks *)
(* compressed.                                                              *)
WrongKey(r) == up[r.owner].kind = "file" /\ isArchiveFile(r)

Misnamed(r) == WrongKey(r) \/ (isCompressedFile(r) /\ ~up[r.owner].compress)

(* A file or an archive downloads exactly as it was sent, whatever else     *)
(* runs and fails meanwhile (UploadFileHandler, AcceptFolder,               *)
(* AcceptFolderIndexed against DownloadFileHandler).  The exceptions: its   *)
(* name misleads the download; a scratch file of its upload had a path that *)
(* another upload used at the time, or was there from an earlier one; its   *)
(* compressed copy lost its end unnoticed (disturbed).                      *)
DownloadGivesSent ==
  \A r \in rows : r.owner \notin disturbed /\ ~Misnamed(r) => DownloadFile(r) = Sent(r)

(* What PreviewFileHandler does not refuse is shown as it was sent, unless  *)
(* the upload was disturbed.                                                *)
PreviewGivesSent ==
  \A r \in rows : r.owner \notin disturbed /\ ~PreviewRefused(r) => DownloadFile(r) = Sent(r)

(* DownloadFolderHandler zips without decompressing.  In a folder none of   *)
(* whose uploads was disturbed and none of whose files looks like an        *)
(* archive without being one (a single such file ends the request), a file  *)
(* that was not compressed on its way in and whose path no other has is in  *)
(* the archive as it was sent.                                              *)
ZipGivesSent ==
  \A files \in SUBSET rows :
    (\A r \in files : r.owner \notin disturbed /\ ~WrongKey(r)) =>
      \A r \in files :
        ~up[r.owner].compress /\ (\A s \in files \ {r} : ZipPath(s) # ZipPath(r))
          => ZipEntry(files, ZipPath(r)) = {Sent(r)}

(***************************************************************************)
(* The inductive invariant of the proofs.                                  *)
(***************************************************************************)
KindOK(u) ==
  /\ up[u].pc \in {"received", "compressed", "encrypted"} => up[u].kind = "file"
  /\ up[u].pc \in {"receiving", "accepted"} => up[u].kind # "file"
  /\ up[u].pc \in {"packed", "sealed"} => up[u].kind = "archive"
  /\ up[u].pc \in {"indexing", "entry", "entrysent"} => up[u].kind = "indexed"
  /\ up[u].pc \in {"sent", "closing"} => up[u].kind \in {"file", "archive"}
  /\ up[u].pc # "idle" => up[u].name \in Names
  /\ up[u].pc \in {"entry", "entrysent"} => up[u].entry \in Names
  /\ up[u].pc \in {"sent", "entrysent"} => up[u].object \in Content
  /\ up[u].kind = "archive" => up[u].compress
  /\ up[u].kind = "indexed" => ~up[u].compress

Overlap(u, v) ==
  \/ /\ up[u].kind = "file" /\ up[v].kind = "file"
     /\ Scratch(up[u].name, up[u].compress) \cap Scratch(up[v].name, up[v].compress) # {}
  \/ up[u].kind # "file" /\ up[v].kind # "file"

(* Two uploads of which one is undisturbed share no scratch file. *)
Apart ==
  \A u, v \in Uploads :
    u # v /\ u \notin disturbed /\ Running(u) /\ Running(v) => ~Overlap(u, v)

Archived(u) == [data |-> {<<u, n>> : n \in up[u].files}, layers |-> 1, key |-> None]

Payload(u, n) ==
  IF up[u].compress THEN Compressed(Own(u, n)) ELSE Own(u, n)

(* What the node must hold for the row that u records under the name n. *)
Expected(u, n) ==
  Encrypted(IF up[u].kind = "archive" THEN Archived(u) ELSE Payload(u, n), <<u, n>>)

TreeIs(u, received) ==
  \A n \in Names : disk["tree"][n] = IF n \in received THEN Own(u, n) ELSE None

(* The scratch files of u hold what u put there. *)
ScratchOK(u) ==
  LET n == up[u].name IN
  /\ up[u].pc = "received" => disk["temp"][n] = Own(u, n)
  /\ up[u].pc = "compressed" => up[u].compress /\ disk["temp"][Zst(n)] = Payload(u, n)
  /\ up[u].pc = "encrypted" => disk["temp"][EncPath(u)] = Expected(u, n)
  /\ up[u].pc = "receiving" => up[u].todo \subseteq up[u].files
                               /\ TreeIs(u, up[u].files \ up[u].todo)
  /\ up[u].pc \in {"accepted", "indexing", "entry", "entrysent"} => TreeIs(u, up[u].files)
  /\ up[u].pc = "packed" => disk["archive"][n] = Archived(u)
  /\ up[u].pc = "sealed" => disk["sealed"][n] = Expected(u, n)
  /\ up[u].pc = "sent" => up[u].object = Expected(u, n)
  /\ up[u].pc = "entry" => disk["piece"][up[u].entry] = Expected(u, up[u].entry)
  /\ up[u].pc = "entrysent" => up[u].object = Expected(u, up[u].entry)

RowOK(r) ==
  LET u == r.owner IN
  /\ up[u].pc # "idle"
  /\ up[u].kind = "file" => ~r.relative /\ r.filename = EncName(r.name, up[u].compress)
  /\ up[u].kind = "archive" => ~r.relative /\ r.filename = Enc(Zst(Tar(r.name)))
  /\ up[u].kind = "indexed" => r.relative /\ r.filename = Enc(r.name)
  /\ u \notin disturbed => r.object = Expected(u, r.name)

ChainInv ==
  /\ TypeOK
  /\ \A u \in Uploads : KindOK(u)
  /\ Apart
  /\ \A u \in Uploads \ disturbed : ScratchOK(u)
  /\ \A r \in rows : RowOK(r)

(* The running upload u will remove the file n of place p, if nothing fails; *)
(* its plain copy even then.                                                 *)
RemovesPlain(u, n) == Running(u) /\ up[u].kind = "file" /\ up[u].name = n

Removes(u, p, n) ==
  /\ Running(u)
  /\ \/ p = "temp" /\ up[u].kind = "file" /\ n \in {up[u].name, EncPath(u)}
     \/ p = "tree" /\ up[u].kind # "file"
     \/ p \in {"archive", "sealed"} /\ up[u].kind = "archive" /\ up[u].name = n
     \/ p = "piece" /\ up[u].pc = "entry" /\ up[u].entry = n

(* The file n of place p may stay when every upload succeeds: the copy that  *)
(* was compressed for a single file, and what a seal that broke off in an    *)
(* indexed folder left.                                                      *)
MayStay(p, n) ==
  \/ disk[p][n] = None
  \/ p = "temp" /\ \E m \in Names : n = Zst(m)
  \/ p = "piece" /\ disk[p][n] = Partial

(* The file n of /tmp/uploads holds, as it is or sealed, what was sent under *)
(* its own name.                                                             *)
Plain(n) == disk["temp"][n] # None /\ \E u \in Uploads : <<u, n>> \in disk["temp"][n].data

(* A copy has a longer name than what it was made from. *)
CopiesGrow ==
  \A n \in Paths : disk["temp"][n] # None =>
    \A piece \in disk["temp"][n].data : Len(piece[2]) <= Len(n)

Failed(u) == up[u].reply = "failed"

(* Whatever is on the disk but what may stay is some upload's to remove,    *)
(* unless an upload failed; the plain copies are so even then.              *)
RemovalInv ==
  /\ \A u \in Uploads :
       Failed(u) => up[u].pc = "done" \/ (up[u].pc = "closing" /\ up[u].kind = "file")
  /\ CopiesGrow
  /\ \A n \in Paths : Plain(n) => \E u \in Uploads : RemovesPlain(u, n)
  /\ (\A u \in Uploads : ~Failed(u)) =>
       /\ \A p \in Places, n \in Paths :
            MayStay(p, n) \/ \E u \in Uploads : Removes(u, p, n)
       /\ made => \E u \in Uploads : Running(u) /\ up[u].kind # "file"

(* Every undisturbed upload owns its scratch files, and every row of one    *)
(* names an object that holds what was sent; every scratch file is some     *)
(* upload's to remove (all actions of the uploads).                         *)
IInv == ChainInv /\ RemovalInv

Quiet == \A u \in Uploads : ~Running(u)

(* When no upload runs, no plain copy of an uploaded file is left in        *)
(* /tmp/uploads, whichever uploads failed or shared a name                  *)
(* (the removals of UploadFileHandler).                                     *)
PlainCopiesGo == Quiet => \A n \in Paths : ~Plain(n)

(* When no upload runs and none failed, the compressed copies of single     *)
(* files, and what a seal that broke off in an indexed folder left, are the *)
(* only scratch files (the removals of the handlers and of the services).   *)
ScratchGoes ==
  Quiet /\ (\A u \in Uploads : up[u].reply # "failed")
    => /\ \A p \in Places, n \in Paths : MayStay(p, n)
       /\ ~made
=============================================================================
