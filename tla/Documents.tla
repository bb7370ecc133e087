----------------------------- MODULE Documents -----------------------------
(***************************************************************************)
(* Documents: a row in the database and a file that is kept elsewhere, in  *)
(* a bucket of the storage service or, where none is configured, on the    *)
(* local disk.  The two stores fail apart: requests to the bucket are      *)
(* refused or time out, with or without effect, and a worker stops between *)
(* the file and the row.                                                   *)
(***************************************************************************)
EXTENDS Integers, Sequences

CONSTANTS
  Workers,      \* the server processes; each handles one request at a time
  Docs,         \* the documents that can be uploaded
  Names,        \* the file names clients choose
  Sessions,     \* who uploads: users of the schema, or of the legacy table
  ServiceKey,   \* a service role key is configured
  MaxMishaps    \* bound on lost answers, deaths and restarts

ASSUME DocumentsAssumption ==
  /\ Sessions \subseteq {"app", "legacy"}
  /\ ServiceKey \in BOOLEAN /\ MaxMishaps \in Nat
  /\ Docs \cap Names = {} /\ "none" \notin Docs \cup Names

VARIABLES
  configured,   \* uploads go to the bucket
  bucket,       \* the bucket exists
  checked,      \* the workers that take the bucket for granted
  stored,       \* the files that exist
  row,          \* the documents table
  account,      \* the users row of the legacy session's user name
  asked,        \* the documents somebody asked to delete (history)
  mishaps,      \* how much has gone wrong
  job           \* what each worker holds

vars == <<configured, bucket, checked, stored, row, account, asked, mishaps, job>>
-----------------------------------------------------------------------------
(* Object keys start with a new uuid, so they are told apart by their      *)
(* document; a path on disk is a client's name, or one made unique.        *)
File == [store : {"bucket", "disk"}, name : Docs \cup Names]
NoFile == [store |-> "disk", name |-> "none"]
Row == [there : BOOLEAN, file : File \cup {NoFile}]
NoRow == [there |-> FALSE, file |-> NoFile]

Legacy(file) == file.store = "disk"

Idle == [pc |-> "idle", doc |-> "none", session |-> "none", file |-> NoFile]
Job == [pc : {"idle", "uploader", "bucket", "store", "save", "remove", "drop", "patch"},
        doc : Docs \cup {"none"}, session : Sessions \cup {"none"}, file : File \cup {NoFile}]

Held == {job[w].doc : w \in Workers}
Goto(w, pc) == job' = [job EXCEPT ![w].pc = pc]
Done(w) == job' = [job EXCEPT ![w] = Idle]
-----------------------------------------------------------------------------
(* perform_create: the uploader, then the file, then the row. *)

UploaderLast == <<"bucket", "store", "uploader", "save">>
Order == <<"uploader", "bucket", "store", "save">>
After(pc) == Order[1 + CHOOSE n \in 1..3 : Order[n] = pc]

Upload(w) ==
  /\ job[w] = Idle
  /\ \E d \in Docs \ Held, session \in Sessions :
       /\ row[d].file = NoFile
       /\ job' = [job EXCEPT ![w].pc = Order[1], ![w].doc = d, ![w].session = session]
  /\ UNCHANGED <<configured, bucket, checked, stored, row, account, asked, mishaps>>

(* A legacy user is given a users row; one that was switched off gives no  *)
(* identity, and the request fails.                                        *)
ResolveUploader(w) ==
  /\ job[w].pc = "uploader"
  /\ account' = IF job[w].session = "legacy" /\ account = "none" THEN "active" ELSE account
  /\ IF job[w].session = "legacy" /\ account = "inactive"
     THEN Done(w) ELSE Goto(w, After("uploader"))
  /\ UNCHANGED <<configured, bucket, checked, stored, row, asked, mishaps>>

(* One request to the storage service: it takes effect and is answered, or *)
(* the answer is lost, whether or not it took effect.                      *)
Answers == {[effect |-> TRUE, answered |-> TRUE]} \cup
           [effect : IF mishaps < MaxMishaps THEN BOOLEAN ELSE {}, answered : {FALSE}]
Counted(answer) == mishaps' = IF answer.answered THEN mishaps ELSE mishaps + 1

(* The bucket is created on first use, with a service key, and afterwards  *)
(* taken for granted, whatever the answer was.                             *)
TakeBucketForGranted(w) ==
  /\ job[w].pc = "bucket"
  /\ configured => w \in checked \/ ~ServiceKey
  /\ checked' = IF configured THEN checked \cup {w} ELSE checked
  /\ Goto(w, After("bucket"))
  /\ UNCHANGED <<configured, bucket, stored, row, account, asked, mishaps>>

CreateBucket(w) ==
  /\ job[w].pc = "bucket"
  /\ configured /\ w \notin checked /\ ServiceKey
  /\ checked' = checked \cup {w}
  /\ \E answer \in Answers :
       /\ bucket' = (bucket \/ answer.effect)
       /\ Counted(answer)
       /\ IF answer.answered THEN Goto(w, After("bucket")) ELSE Done(w)
  /\ UNCHANGED <<configured, stored, row, account, asked>>

(* default_storage.save takes the name, or one with a suffix of its own.   *)
DiskPath(d, name) ==
  IF [store |-> "disk", name |-> name] \in stored
  THEN [store |-> "disk", name |-> d] ELSE [store |-> "disk", name |-> name]

AnyStatus(answer) == TRUE
Accepted(answer) == bucket /\ answer.answered

StoreObject(w) ==
  LET file == [store |-> "bucket", name |-> job[w].doc] IN
  /\ job[w].pc = "store" /\ configured
  /\ \E answer \in Answers :
       /\ stored' = IF bucket /\ answer.effect THEN stored \cup {file} ELSE stored
       /\ Counted(answer)
       /\ IF Accepted(answer)
          THEN job' = [job EXCEPT ![w].pc = After("store"), ![w].file = file] ELSE Done(w)
  /\ UNCHANGED <<configured, bucket, checked, row, account, asked>>

StoreOnDisk(w) ==
  /\ job[w].pc = "store" /\ ~configured
  /\ \E name \in Names :
       LET file == DiskPath(job[w].doc, name) IN
       /\ stored' = stored \cup {file}
       /\ job' = [job EXCEPT ![w].pc = After("store"), ![w].file = file]
  /\ UNCHANGED <<configured, bucket, checked, row, account, asked, mishaps>>

SaveRow(w) ==
  /\ job[w].pc = "save"
  /\ row' = [row EXCEPT ![job[w].doc] = [there |-> TRUE, file |-> job[w].file]]
  /\ Done(w)
  /\ UNCHANGED <<configured, bucket, checked, stored, account, asked, mishaps>>
-----------------------------------------------------------------------------
(* perform_destroy: the file, at best effort, then the row. *)

Fetch(w, pc) ==
  /\ job[w] = Idle
  /\ \E d \in Docs :
       /\ row[d].there
       /\ job' = [job EXCEPT ![w].pc = pc, ![w].doc = d, ![w].file = row[d].file]
       /\ asked' = IF pc = "remove" THEN asked \cup {d} ELSE asked
  /\ UNCHANGED <<configured, bucket, checked, stored, row, account, mishaps>>

RemoveObject(w) ==
  /\ job[w].pc = "remove" /\ configured /\ ~Legacy(job[w].file)
  /\ \E answer \in Answers :
       /\ stored' = IF answer.effect THEN stored \ {job[w].file} ELSE stored
       /\ Counted(answer)
  /\ Goto(w, "drop")
  /\ UNCHANGED <<configured, bucket, checked, row, account, asked>>

(* An object's key is no path on the disk. *)
RemoveFromDisk(w) ==
  /\ job[w].pc = "remove" /\ (configured => Legacy(job[w].file))
  /\ stored' = IF Legacy(job[w].file) THEN stored \ {job[w].file} ELSE stored
  /\ Goto(w, "drop")
  /\ UNCHANGED <<configured, bucket, checked, row, account, asked, mishaps>>

DropRow(w) ==
  /\ job[w].pc = "drop"
  /\ row' = [row EXCEPT ![job[w].doc].there = FALSE]
  /\ Done(w)
  /\ UNCHANGED <<configured, bucket, checked, stored, account, asked, mishaps>>

(* A PATCH of the document type saves the row it read, also one that has   *)
(* been deleted since.                                                     *)
Patch(w) ==
  /\ job[w].pc = "patch"
  /\ row' = [row EXCEPT ![job[w].doc] = [there |-> TRUE, file |-> job[w].file]]
  /\ Done(w)
  /\ UNCHANGED <<configured, bucket, checked, stored, account, asked, mishaps>>
-----------------------------------------------------------------------------
(* A worker stops; a restart of all may also change the configuration.     *)

Die(w) ==
  /\ job[w] # Idle /\ mishaps < MaxMishaps
  /\ mishaps' = mishaps + 1
  /\ checked' = checked \ {w}
  /\ Done(w)
  /\ UNCHANGED <<configured, bucket, stored, row, account, asked>>

Restart ==
  /\ mishaps < MaxMishaps
  /\ mishaps' = mishaps + 1
  /\ checked' = {}
  /\ job' = [w \in Workers |-> Idle]
  /\ configured' \in BOOLEAN
  /\ UNCHANGED <<bucket, stored, row, account, asked>>

(* An owner switches the bridged account off, or on again.                 *)
SwitchAccount ==
  /\ account # "none"
  /\ account' = IF account = "active" THEN "inactive" ELSE "active"
  /\ UNCHANGED <<configured, bucket, checked, stored, row, asked, mishaps, job>>
-----------------------------------------------------------------------------
Init ==
  /\ configured \in BOOLEAN /\ bucket \in BOOLEAN
  /\ checked = {} /\ stored = {} /\ asked = {} /\ mishaps = 0
  /\ row = [d \in Docs |-> NoRow]
  /\ account = "none"
  /\ job = [w \in Workers |-> Idle]

Step(w) ==
  \/ Upload(w) \/ ResolveUploader(w) \/ TakeBucketForGranted(w) \/ CreateBucket(w)
  \/ StoreObject(w) \/ StoreOnDisk(w) \/ SaveRow(w)
  \/ Fetch(w, "remove") \/ RemoveObject(w) \/ RemoveFromDisk(w) \/ DropRow(w)
  \/ Fetch(w, "patch") \/ Patch(w)
  \/ Die(w)

Next == (\E w \in Workers : Step(w)) \/ Restart \/ SwitchAccount

Spec == Init /\ [][Next]_vars
-----------------------------------------------------------------------------
(* Every variable holds a value of its kind. *)
TypeOK ==
  /\ configured \in BOOLEAN /\ bucket \in BOOLEAN
  /\ checked \subseteq Workers /\ asked \subseteq Docs
  /\ stored \subseteq File
  /\ row \in [Docs -> Row]
  /\ account \in {"none", "active", "inactive"}
  /\ mishaps \in 0..MaxMishaps
  /\ job \in [Workers -> Job]

(* Whatever fails, a document in the bucket that nobody asked to delete    *)
(* keeps its file (documents/views.py, "a document's stored path never     *)
(* changes out from under something that already linked to it").           *)
FilesStay ==
  \A d \in Docs \ asked :
    row[d].there /\ ~Legacy(row[d].file) => row[d].file \in stored

(* As long as nothing fails, every stored file belongs to a row or to a    *)
(* request under way: one that is turned down leaves no file behind        *)
(* (documents/views.py, "without having orphaned an uploaded object").     *)
NoOrphans ==
  mishaps = 0 =>
    stored \subseteq {row[d].file : d \in {e \in Docs : row[e].there}}
                       \cup {job[w].file : w \in Workers}
=============================================================================
