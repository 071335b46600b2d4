------------------------------ MODULE Backends ------------------------------
(***************************************************************************)
(* The storages themselves: what open, upload, delete and close of each    *)
(* type do to the server, to the connections of the process and to the     *)
(* archives there, driven by runModel (storage/base.go) and the rotation   *)
(* (storage/cycler.go).                                                    *)
(*                                                                         *)
(* One process performs several models, one after the other, that share    *)
(* one storage: same server, same path.  An archive is named after the     *)
(* second it was made in and nothing else (compressor/base.go), so that    *)
(* runs within one second share a name.  Archives are single files: the    *)
(* compressor makes no directories.  The cycler's file is taken to be read *)
(* and saved without failure, which is the subject of module Cycler.       *)
(***************************************************************************)
EXTENDS Integers, Sequences, FiniteSets, Functions

CONSTANTS
  Models,    \* the models that share the storage
  Keeps,     \* the values of "keep"
  Givens,    \* which options the config may give
  NoObject,  \* there is no object of a name
  MaxClock,  \* bound: the seconds 0..MaxClock-1
  MaxRuns    \* bound: how many runs there are

ASSUME KeepsAssumption  == Keeps \subseteq Nat
ASSUME BoundsAssumption == MaxClock \in Nat \ {0} /\ MaxRuns \in Nat

(* Those that write into the file as the data comes; those that make an    *)
(* object once all of it is there.                                         *)
Streaming  == {"local", "ftp", "scp", "sftp", "webdav"}
Committing == {"s3", "gcs", "azure"}
Types      == Streaming \cup Committing

Names   == 0 .. MaxClock - 1
Runs    == 1 .. MaxRuns
Archives == [run : Runs, whole : BOOLEAN]
Objects == Archives \cup {NoObject}

ASSUME NoObjectAssumption == NoObject \notin Archives

VARIABLES
  type,     \* the type of the storage
  given,    \* the options its config gives
  timed,    \* does "timeout" read as a number above zero?
  keep,     \* its keep
  clock,    \* the second time.Now() is in
  stalled,  \* the server takes no more data and gives no answer
  object,   \* what is stored under each name, and by which run
  conns,    \* connections to the server that are open
  pc,       \* "idle", "open", "upload" or "rotate"
  of,       \* the model of each run so far
  named,    \* the name of the archive of each run so far
  list,     \* Cycler.packages, an entry given by the run that has added it
  file,     \* the cycler file of each model
  failed,   \* history: runs whose archive was not entered in the file
  tried,    \* history: runs whose archive the rotation has tried to delete
  refused,  \* history: those of them where delete returned an error
  dropped   \* history: runs whose open failed with a connection made

setting == <<type, given, timed, keep>>
run     == <<of, named>>
history == <<failed, tried, refused, dropped>>
vars    == <<setting, clock, stalled, object, conns, pc, run, list, file, history>>

Init ==
  /\ type \in Types
  /\ given \in Givens
  /\ timed \in BOOLEAN
  /\ keep \in Keeps
  /\ clock = 0
  /\ stalled = FALSE
  /\ object = [n \in Names |-> NoObject]
  /\ conns = 0
  /\ pc = "idle"
  /\ of = <<>>
  /\ named = <<>>
  /\ list = <<>>
  /\ file = [m \in Models |-> <<>>]
  /\ failed = {}
  /\ tried = {}
  /\ refused = {}
  /\ dropped = {}

(* The run that is under way, or the last one. *)
This == Len(of)

-----------------------------------------------------------------------------
(* open() of each type *)

(* What open comes to, and the connections it leaves. *)
Opened(n)   == [returns |-> "nil", conns |-> n]
Fails(n)    == [returns |-> "error", conns |-> n]
Panics(n)   == [returns |-> "panic", conns |-> n]

Has(options) == options \subseteq given

LocalOpen == {Opened(0), Fails(0)}

(* Login or mkdir may fail on a connection that is then not closed.  mkdir *)
(* takes any error for one of the protocol, and panics on another.         *)
FTPOpen ==
  IF Has({"host", "username", "password"})
    THEN {Opened(1), Fails(0), Fails(1), Panics(1)}
    ELSE {Fails(0)}

(* The login may fail, or "mkdir -p" behind it. *)
SCPOpen ==
  IF Has({"host"}) THEN {Opened(1), Fails(0), Fails(1)} ELSE {Fails(0)}

SFTPOpen ==
  IF Has({"host"}) THEN {Opened(1), Fails(0), Fails(1)} ELSE {Fails(0)}

WebDAVOpen ==
  IF Has({"root"}) THEN {Opened(0), Fails(0)} ELSE {Fails(0)}

(* Missing keys are a warning.  session.Must panics, say on a shared       *)
(* config file it cannot parse.                                            *)
S3Open == {Opened(0), Panics(0)}

GCSOpen == {Opened(1), Fails(0)}

(* "client" are the tenant, the client's id and its secret. *)
AzureOpen ==
  IF Has({"client"}) THEN {Opened(0), Fails(0)} ELSE {Fails(0)}

OpenOf ==
  [local |-> LocalOpen, ftp |-> FTPOpen, scp |-> SCPOpen, sftp |-> SFTPOpen,
   webdav |-> WebDAVOpen, s3 |-> S3Open, gcs |-> GCSOpen, azure |-> AzureOpen]

(* The connections close() closes.  That of sftp ends the session and      *)
(* leaves the ssh connection it runs in.                                   *)
ClosedBy == [t \in Types |-> IF t \in {"ftp", "scp", "gcs"} THEN 1 ELSE 0]

-----------------------------------------------------------------------------
(* upload() of each type, over what is there under the name *)

Mine(whole) == [run |-> This, whole |-> whole]

(* What upload returns, and the object it leaves.  The file is truncated   *)
(* first; the server may have all of it before the error.                  *)
Streamed(old) ==
  {<<"nil", Mine(TRUE)>>, <<"error", old>>, <<"error", Mine(FALSE)>>,
   <<"error", Mine(TRUE)>>}

Committed(old) ==
  {<<"nil", Mine(TRUE)>>, <<"error", old>>, <<"error", Mine(TRUE)>>}

LocalUpload(old) == Streamed(old)

(* Mutant: the error of Stor is logged only. *)
FTPUploadUnchecked(old) == {<<"nil", o[2]>> : o \in Streamed(old)}

FTPUpload(old) == Streamed(old)

SCPUpload(old) == Streamed(old)

(* The error of remoteFile.Close() is dropped, and with it what the server *)
(* finds out then.                                                         *)
SFTPUpload(old) == Streamed(old) \cup {<<"nil", Mine(FALSE)>>}

WebDAVUpload(old) == Streamed(old)

S3Upload(old) == Committed(old)

(* The object is made on condition that there is none. *)
GCSUpload(old) == IF old = NoObject THEN Committed(old) ELSE {<<"error", old>>}

AzureUpload(old) == Committed(old)

UploadOf(old) ==
  [local |-> LocalUpload(old), ftp |-> FTPUpload(old), scp |-> SCPUpload(old),
   sftp |-> SFTPUpload(old), webdav |-> WebDAVUpload(old), s3 |-> S3Upload(old),
   gcs |-> GCSUpload(old), azure |-> AzureUpload(old)]

(* Mutant: the context of the upload has no deadline. *)
TimedByClient == timed /\ type = "s3"

(* The uploads that end by themselves. *)
Timed == timed /\ type \in Committing

-----------------------------------------------------------------------------
(* delete() of each type *)

(* What delete returns, and the object it leaves. *)
Deleted(old) ==
  IF old = NoObject
    THEN {<<"error", NoObject>>}
    ELSE {<<"nil", NoObject>>, <<"error", old>>, <<"error", NoObject>>}

(* That there is no such object is no error. *)
Cleared(old) == {<<"nil", NoObject>>, <<"error", old>>, <<"error", NoObject>>}

LocalDelete(old) ==
  IF old = NoObject
    THEN {<<"error", NoObject>>}
    ELSE {<<"nil", NoObject>>, <<"error", old>>}

FTPDelete(old) == Deleted(old)

SCPDelete(old) == Deleted(old)

SFTPDelete(old) == Deleted(old)

WebDAVDelete(old) == Cleared(old)

S3Delete(old) == Cleared(old)

GCSDelete(old) == Deleted(old)

AzureDelete(old) == Deleted(old)

DeleteOf(old) ==
  [local |-> LocalDelete(old), ftp |-> FTPDelete(old), scp |-> SCPDelete(old),
   sftp |-> SFTPDelete(old), webdav |-> WebDAVDelete(old), s3 |-> S3Delete(old),
   gcs |-> GCSDelete(old), azure |-> AzureDelete(old)]

-----------------------------------------------------------------------------
(* Time and the server *)

Tick ==
  /\ pc = "idle"
  /\ clock < MaxClock - 1
  /\ clock' = clock + 1
  /\ UNCHANGED <<setting, stalled, object, conns, pc, run, list, file, history>>

Stall ==
  /\ type # "local"
  /\ pc # "idle"
  /\ stalled' = ~stalled
  /\ UNCHANGED <<setting, clock, object, conns, pc, run, list, file, history>>

(* The clients of the committing types only speak to the server in calls.  *)
Answers == ~stalled \/ (pc = "open" /\ type \in Committing)

-----------------------------------------------------------------------------
(* runModel *)

Begin(m) ==
  /\ pc = "idle"
  /\ This < MaxRuns
  /\ of' = Append(of, m)
  /\ named' = Append(named, clock)
  /\ pc' = "open"
  /\ stalled' = FALSE
  /\ UNCHANGED <<setting, clock, object, conns, list, file, history>>

(* Mutant: close() is deferred before the error of open() is looked at. *)
OpenClosesAlways ==
  /\ pc = "open"
  /\ Answers
  /\ \E o \in OpenOf[type] :
       IF o.returns = "nil"
         THEN /\ pc' = "upload"
              /\ conns' = conns + o.conns
              /\ UNCHANGED history
         ELSE /\ pc' = "idle"
              /\ conns' = conns + o.conns - ClosedBy[type]
              /\ failed' = failed \cup {This}
              /\ UNCHANGED <<tried, refused, dropped>>
  /\ UNCHANGED <<setting, clock, stalled, object, run, list, file>>

Open ==
  /\ pc = "open"
  /\ Answers
  /\ \E o \in OpenOf[type] :
       /\ conns' = conns + o.conns
       /\ IF o.returns = "nil"
            THEN pc' = "upload" /\ UNCHANGED history
            ELSE /\ pc' = "idle"
                 /\ failed' = failed \cup {This}
                 /\ dropped' = IF o.conns > 0 THEN dropped \cup {This} ELSE dropped
                 /\ UNCHANGED <<tried, refused>>
  /\ UNCHANGED <<setting, clock, stalled, object, run, list, file>>

Close == conns' = conns - ClosedBy[type]

Store(o) == object' = [object EXCEPT ![named[This]] = o]

(* Mutant: close() is not deferred and skipped by the early return. *)
UploadFailsOpen ==
  /\ failed' = failed \cup {This}
  /\ pc' = "idle"
  /\ UNCHANGED <<list, conns, tried, refused, dropped>>

UploadFails ==
  /\ failed' = failed \cup {This}
  /\ pc' = "idle"
  /\ Close
  /\ UNCHANGED <<list, tried, refused, dropped>>

(* With the upload done, the cycler loads its file and adds the archive.   *)
Upload ==
  /\ pc = "upload"
  /\ Answers
  /\ \E u \in UploadOf(object[named[This]])[type] :
       /\ Store(u[2])
       /\ \/ u[1] = "error" /\ UploadFails
          \/ /\ u[1] = "nil"
             /\ list' = Append(file[of[This]], This)
             /\ pc' = "rotate"
             /\ UNCHANGED <<conns, history>>
  /\ UNCHANGED <<setting, clock, stalled, run, file>>

(* The deadline of the upload passes, answer or no answer. *)
Timeout ==
  /\ pc = "upload"
  /\ Timed
  /\ \E u \in UploadOf(object[named[This]])[type] : u[1] = "error" /\ Store(u[2])
  /\ UploadFails
  /\ UNCHANGED <<setting, clock, stalled, run, file>>

Exceeds == keep # 0 /\ Len(list) > keep

(* The oldest entry leaves the list whatever delete returns; what it finds *)
(* under the name is deleted, whoever has put it there.                    *)
RemoveOldest(d) ==
  LET oldest == Head(list) IN
    /\ object' = [object EXCEPT ![named[oldest]] = d[2]]
    /\ tried' = tried \cup {oldest}
    /\ refused' = IF d[1] = "error" THEN refused \cup {oldest} ELSE refused
    /\ list' = Tail(list)
    /\ UNCHANGED <<setting, clock, stalled, conns, pc, run, file, failed, dropped>>

Delete ==
  /\ pc = "rotate"
  /\ Exceeds
  /\ Answers
  /\ \E d \in DeleteOf(object[named[Head(list)]])[type] : RemoveOldest(d)

(* Of the deletions, only those of s3 have a deadline, the http client's. *)
DeleteTimeout ==
  /\ pc = "rotate"
  /\ Exceeds
  /\ type = "s3" /\ timed
  /\ \E d \in DeleteOf(object[named[Head(list)]])[type] : d[1] = "error" /\ RemoveOldest(d)

(* Mutant: the list is saved before the archive is added to it. *)
FinishUnsaved ==
  /\ pc = "rotate"
  /\ ~Exceeds
  /\ file' = [file EXCEPT ![of[This]] = SelectSeq(list, LAMBDA r : r # This)]
  /\ pc' = "idle"
  /\ Close
  /\ UNCHANGED <<setting, clock, stalled, object, run, list, history>>

Finish ==
  /\ pc = "rotate"
  /\ ~Exceeds
  /\ file' = [file EXCEPT ![of[This]] = list]
  /\ pc' = "idle"
  /\ Close
  /\ UNCHANGED <<setting, clock, stalled, object, run, list, history>>

(* The process dies, and a new one goes on. *)
Crash ==
  /\ pc # "idle"
  /\ IF pc = "upload"
       THEN \E u \in UploadOf(object[named[This]])[type] : Store(u[2])
       ELSE UNCHANGED object
  /\ failed' = failed \cup {This}
  /\ conns' = 0
  /\ dropped' = {}
  /\ pc' = "idle"
  /\ UNCHANGED <<setting, clock, stalled, run, list, file, tried, refused>>

(* The bound on the runs is reached. *)
Rest == pc = "idle" /\ This = MaxRuns /\ UNCHANGED vars

Work == Open \/ Upload \/ Delete \/ Finish

Next ==
  \/ Tick \/ Stall
  \/ (\E m \in Models : Begin(m)) \/ Work \/ Timeout \/ DeleteTimeout \/ Crash
  \/ Rest

(* A call returns once the server answers, and a deadline passes.          *)
Spec == Init /\ [][Next]_vars /\ WF_vars(Work) /\ WF_vars(Timeout \/ DeleteTimeout)

-----------------------------------------------------------------------------
(* Correctness *)

TypeOK ==
  /\ type \in Types /\ given \in Givens /\ timed \in BOOLEAN /\ keep \in Keeps
  /\ clock \in Names
  /\ stalled \in BOOLEAN
  /\ object \in [Names -> Objects]
  /\ conns \in 0 .. MaxRuns
  /\ pc \in {"idle", "open", "upload", "rotate"}
  /\ Len(of) <= MaxRuns /\ Range(of) \subseteq Models
  /\ Len(named) = Len(of) /\ Range(named) \subseteq Names
  /\ Range(list) \subseteq Runs
  /\ \A m \in Models : Range(file[m]) \subseteq Runs
  /\ UNION {failed, tried, refused, dropped} \subseteq Runs

(* Another run has made its archive in the same second. *)
Shared(r) == \E q \in 1 .. This : q # r /\ named[q] = named[r]

(* What a history lists can be restored: the archive the run has uploaded  *)
(* is in the storage, complete and not replaced, whatever other runs have  *)
(* uploaded, failed to or deleted since.  The exceptions the code makes: a *)
(* name shared by two runs, but on gcs, which refuses the second; an error *)
(* that sftp finds only when it closes the file.                           *)
TrackedIsWhole ==
  \A m \in Models : \A r \in Range(file[m]) \ tried :
    \/ object[named[r]] = [run |-> r, whole |-> TRUE]
    \/ Shared(r) /\ type # "gcs"
    \/ type = "sftp"

(* What is in the storage is listed by the model that has put it there, so *)
(* that it is deleted one day, unless the run failed, a deletion failed,   *)
(* or the name is shared.                                                  *)
NothingForgotten ==
  pc = "idle" =>
    \A n \in Names :
      object[n] # NoObject =>
        LET r == object[n].run IN
          r \in Range(file[of[r]]) \cup failed \cup refused \/ Shared(r)

(* A run leaves no connection behind, whether its upload failed or not.    *)
(* The exceptions the code makes: an open that failed with the connection  *)
(* made, and each run of sftp.                                             *)
NoConnectionLeft ==
  pc = "idle" => conns = Cardinality(dropped) \/ type = "sftp"

(* A server that stalls for ever does not hold a run for ever where there  *)
(* is a timeout: an upload to a committing storage ends, and to s3 the     *)
(* whole run.  (The others have none, nor have deletions on gcs and azure: *)
(* a run may then hang, and the scheduler's mutex with it.)                *)
StalledServerIsLeft ==
  /\ (timed /\ type \in Committing /\ pc = "upload") ~> pc # "upload"
  /\ (timed /\ type = "s3" /\ pc # "idle") ~> pc = "idle"
=============================================================================
