------------------------------ MODULE Perform ------------------------------
(***************************************************************************)
(* One run of a model: model.Perform from the dumps to the notification,   *)
(* with the loop of storage.Run.  The dumps are module Database's steps.   *)
(*                                                                         *)
(* Perform has two deferred functions.  The later one runs first: it       *)
(* recovers from a panic and removes the workspace.  The earlier one then  *)
(* reads the named result err, which a panic leaves as it was, and tells   *)
(* the webhook.                                                            *)
(***************************************************************************)
EXTENDS Integers, FiniteSets

CONSTANTS
  Databases,   \* the databases of the model
  Nobody,      \* no database is being dumped
  DbConfigs,   \* the configs a database may have
  NoPassword,  \* no password in a config or in the environment
  Storages     \* the storages a model may have

VARIABLES
  conf, todo, cur, dpc, result, dump, env, opened, closed, found, login,
  earlier,    \* of module Database
  kinds,      \* the kind of config of each storage of the model
  archive,    \* the archive section of the model
  pc,         \* where Perform is
  packed,     \* history: what tar has made, "no", "whole" or "broken"
  path,       \* archivePath as compressor.Run returned it
  err,        \* the named result: is it non-nil?
  panicked,   \* has a panic been recovered from?
  errors,     \* errors collected by storage.Run: is the list non-empty?
  left,       \* storages the loop of storage.Run has not come to
  stored,     \* storages whose upload and rotation have succeeded
  temp,       \* does the workspace of the run exist?
  notice      \* status sent to the webhook: "none", "finished" or "failed"

DB == INSTANCE Database

(* A model has finitely many storages: they are listed in a file.          *)
ASSUME NobodyAssumption   == Nobody \notin Databases
ASSUME ConfigsAssumption  == \A c \in DbConfigs : DB!IsConfig(c)
ASSUME StoragesAssumption == IsFiniteSet(Storages)

dumpVars == <<conf, todo, cur, dpc, result, dump, env, opened, closed, found,
              login, earlier>>
packVars == <<packed, path>>
runVars  == <<kinds, archive, packVars, pc, err, panicked, errors, left, stored, temp,
              notice>>
vars     == <<dumpVars, runVars>>

(* What runModel of a storage can come to.  "unknown" is a type without an *)
(* implementation: an error is logged, and calling open() on the nil       *)
(* Storage panics.  A negative keep makes the cycler panic once it has     *)
(* deleted all packages, this one included.  A good one succeeds or fails, *)
(* or panics where it is opened, as ftp and s3 do on some errors.          *)
Kinds == {"good", "unknown", "negative"}

Archives == {"nil", "includes", "empty"}

(* loadModel refuses a model without a storage. *)
StorageSets == (SUBSET Storages) \ {{}}
MyStorages  == DOMAIN kinds

Init ==
  /\ conf \in [Databases -> DbConfigs]
  /\ DB!Start
  /\ \E ss \in StorageSets : kinds \in [ss -> Kinds] /\ left = ss
  /\ archive \in Archives
  /\ pc = "database"
  /\ packed = "no"
  /\ path = ""
  /\ err = FALSE
  /\ panicked = FALSE
  /\ errors = FALSE
  /\ stored = {}
  /\ temp = TRUE
  /\ notice = "none"

(* return, with err as given; a panic leaves err as it is. *)
Leave(e) == pc' = "after" /\ err' = e /\ UNCHANGED panicked
Panic    == pc' = "after" /\ panicked' = TRUE /\ UNCHANGED err
Go(l)    == pc' = l /\ UNCHANGED <<err, panicked>>

Dump ==
  /\ pc = "database"
  /\ DB!Step
  /\ UNCHANGED runVars

(* The watcher loads the config while the dumps are made. *)
Reload ==
  /\ pc = "database"
  /\ DB!LoadDotEnv
  /\ UNCHANGED runVars

DumpReturns ==
  /\ pc = "database"
  /\ \/ result = "nil" /\ Go(IF archive = "nil" THEN "compress" ELSE "archive")
     \/ result = "error" /\ Leave(TRUE)
     \/ result = "panic" /\ Panic
  /\ UNCHANGED <<dumpVars, kinds, archive, packVars, errors, left, stored, temp, notice>>

(* An archive section without includes is an error; tar may fail. *)
RunArchive ==
  /\ pc = "archive"
  /\ \/ archive = "includes" /\ Go("compress")
     \/ Leave(TRUE)
  /\ UNCHANGED <<dumpVars, kinds, archive, packVars, errors, left, stored, temp, notice>>

(* Mutant: the path is returned with the error, as Tar.perform does. *)
CompressKeepsPath ==
  /\ pc = "compress"
  /\ pc' = "stat"
  /\ path' = "archive"
  /\ err' \in BOOLEAN
  /\ packed' = IF err' THEN "broken" ELSE "whole"
  /\ UNCHANGED <<dumpVars, kinds, archive, panicked, errors, left, stored, temp, notice>>

(* compressor.Run: whatever fails, it drops the path, under which tar may  *)
(* have left a part of the archive.                                        *)
Compress ==
  /\ pc = "compress"
  /\ pc' = "stat"
  /\ path' \in {"", "archive"}
  /\ err' = (path' = "")
  /\ packed' = IF err' THEN "broken" ELSE "whole"
  /\ UNCHANGED <<dumpVars, kinds, archive, panicked, errors, left, stored, temp, notice>>

(* os.Stat assigns to the same err: that of the compressor is overwritten, *)
(* and is an error again only because no file has the empty path.          *)
Stat ==
  /\ pc = "stat"
  /\ \/ path # "" /\ pc' = "storage" /\ err' = FALSE /\ UNCHANGED panicked
     \/ Leave(TRUE)
  /\ UNCHANGED <<dumpVars, kinds, archive, packVars, errors, left, stored, temp, notice>>

(* storage.Run: a storage that fails ends the loop if it is the only one,  *)
(* and is collected otherwise.                                             *)
StoreSucceeds(s) ==
  /\ pc = "storage"
  /\ s \in left
  /\ kinds[s] = "good"
  /\ left' = left \ {s}
  /\ stored' = stored \cup {s}
  /\ UNCHANGED <<dumpVars, kinds, archive, packVars, pc, err, panicked, errors, temp, notice>>

(* Mutant: the first failure ends the loop, however many storages there are. *)
StoreFailureReturns(s) ==
  /\ pc = "storage"
  /\ s \in left
  /\ kinds[s] # "unknown"
  /\ left' = left \ {s}
  /\ Leave(TRUE)
  /\ UNCHANGED <<dumpVars, kinds, archive, packVars, errors, stored, temp, notice>>

StoreFails(s) ==
  /\ pc = "storage"
  /\ s \in left
  /\ kinds[s] # "unknown"
  /\ left' = left \ {s}
  /\ IF Cardinality(MyStorages) = 1
       THEN Leave(TRUE) /\ UNCHANGED errors
       ELSE errors' = TRUE /\ Go("storage")
  /\ UNCHANGED <<dumpVars, kinds, archive, packVars, stored, temp, notice>>

(* On whatever opens or rotates the storage: no kind is safe from it. *)
StorePanics(s) ==
  /\ pc = "storage"
  /\ s \in left
  /\ left' = left \ {s}
  /\ Panic
  /\ UNCHANGED <<dumpVars, kinds, archive, packVars, errors, stored, temp, notice>>

(* Mutant: the errors collected are not looked at. *)
CollectedErrorsDropped ==
  /\ pc = "storage"
  /\ left = {}
  /\ Leave(FALSE)
  /\ UNCHANGED <<dumpVars, kinds, archive, packVars, errors, left, stored, temp, notice>>

StorageReturns ==
  /\ pc = "storage"
  /\ left = {}
  /\ Leave(errors)
  /\ UNCHANGED <<dumpVars, kinds, archive, packVars, errors, left, stored, temp, notice>>

(* The deferred m.after(): a failure of os.RemoveAll is logged. *)
After ==
  /\ pc = "after"
  /\ pc' = "notify"
  /\ temp' \in {temp, FALSE}
  /\ UNCHANGED <<dumpVars, kinds, archive, packVars, err, panicked, errors, left,
                 stored, notice>>

(* Mutants: only failures are notified; the status is called "error". *)
NotifyFailures ==
  /\ pc = "notify"
  /\ pc' = "done"
  /\ notice' = IF err THEN "failed" ELSE notice
  /\ UNCHANGED <<dumpVars, kinds, archive, packVars, err, panicked, errors, left,
                 stored, temp>>

NotifyError ==
  /\ pc = "notify"
  /\ pc' = "done"
  /\ notice' = IF err THEN "error" ELSE "finished"
  /\ UNCHANGED <<dumpVars, kinds, archive, packVars, err, panicked, errors, left,
                 stored, temp>>

(* The deferred notification.  What the webhook answers changes nothing.   *)
Notify ==
  /\ pc = "notify"
  /\ pc' = "done"
  /\ notice' = IF err THEN "failed" ELSE "finished"
  /\ UNCHANGED <<dumpVars, kinds, archive, packVars, err, panicked, errors, left,
                 stored, temp>>

(* The process is killed, or another goroutine calls logger.Fatal: no      *)
(* deferred function runs.                                                 *)
Killed ==
  /\ pc \notin {"done", "dead"}
  /\ pc' = "dead"
  /\ UNCHANGED <<dumpVars, kinds, archive, packVars, err, panicked, errors, left,
                 stored, temp, notice>>

Done == pc \in {"done", "dead"} /\ UNCHANGED vars

Work ==
  \/ Dump \/ DumpReturns \/ RunArchive \/ Compress \/ Stat
  \/ \E s \in Storages : StoreSucceeds(s) \/ StoreFails(s) \/ StorePanics(s)
  \/ StorageReturns \/ After \/ Notify

Next == Work \/ Reload \/ Killed \/ Done

Spec == Init /\ [][Next]_vars

(* Every command, upload and request of the run returns. *)
FairSpec == Spec /\ WF_vars(Work)

-----------------------------------------------------------------------------
(* Correctness *)

TypeOK ==
  /\ DB!TypeOK
  /\ \E ss \in StorageSets : kinds \in [ss -> Kinds]
  /\ archive \in Archives
  /\ pc \in {"database", "archive", "compress", "stat", "storage", "after",
             "notify", "done", "dead"}
  /\ packed \in {"no", "whole", "broken"}
  /\ path \in {"", "archive"}
  /\ {err, panicked, errors, temp} \subseteq BOOLEAN
  /\ left \subseteq MyStorages
  /\ stored \subseteq MyStorages
  /\ notice \in {"none", "finished", "failed"}

(* All databases of the model are dumped, but for those of a type that is  *)
(* not implemented: the code skips them with a warning.                    *)
Dumped ==
  {d \in Databases : dump[d] # "ok"} = {d \in Databases : conf[d].type \notin DB!Types}

(* No storage receives an archive that was not packed to the end, or lacks *)
(* a database of the model or the archive section.  The exception the code *)
(* makes: the archive of a model with databases of an unknown type lacks   *)
(* these, and nothing else.                                                *)
StoredIsComplete ==
  stored # {} => Dumped /\ archive # "empty" /\ packed = "whole"

(* "finished" tells the truth, and so does "failed", unless a panic was    *)
(* recovered from: a report of success means every storage has the archive *)
(* of all databases of a known type, and a report of failure that at least *)
(* one storage has not.                                                    *)
NoticeIsTrue ==
  ~panicked =>
    /\ notice = "finished" => Dumped /\ stored = MyStorages
    /\ notice = "failed" => stored # MyStorages

(* What the status says to whoever receives it: a run that is notified as  *)
(* "finished" has stored its archive in every storage, without exception.  *)
FinishedMeansStored == notice = "finished" => stored = MyStorages

(* One storage that fails does not keep the others from their copy: unless *)
(* the run panics, storage.Run has tried either every storage of the model *)
(* when it ends, or, after a failure before it, none.                      *)
EveryStorageTried ==
  notice # "none" /\ ~panicked =>
    left = {} \/ (left = MyStorages /\ err)

(* A run that is not killed ends with a notification.                      *)
EventuallyNotified == <>(notice # "none" \/ pc = "dead")
=============================================================================
