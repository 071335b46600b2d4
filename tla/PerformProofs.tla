---------------------------- MODULE PerformProofs ----------------------------
(***************************************************************************)
(* Proofs about module Perform, for any databases, configs and storages.   *)
(*                                                                         *)
(* The argument.  The steps of Perform are steps of the dump stage or      *)
(* leave it alone, so what DatabaseProofs shows of that stage holds here.  *)
(* A stage is only entered when those before it have succeeded (Stages),   *)
(* and the loop of storage.Run has an error collected exactly if it has    *)
(* left a storage behind without the archive (Loop); Outcome says what     *)
(* err, and with it the notice, then means.                                *)
(***************************************************************************)
EXTENDS Perform, FiniteSetTheorems, TLAPS

P == INSTANCE DatabaseProofs

BeforeStorage == {"database", "archive", "compress", "stat"}

(* Each stage follows on the success of the one before; what is left of an *)
(* error of the compressor is the empty path.  What is sent is sent last,  *)
(* and tells the result.                                                   *)
Stages ==
  /\ pc \in BeforeStorage \cup {"storage"} => ~panicked
  /\ pc \in {"database", "archive", "compress", "storage"} => ~err
  /\ pc \in {"archive", "compress", "stat", "storage"} => result = "nil"
  /\ pc \in {"compress", "stat", "storage"} => archive # "empty"
  /\ pc = "stat" => path = "" \/ packed = "whole"
  /\ pc = "storage" => packed = "whole"
  /\ pc # "done" => notice = "none"
  /\ pc = "done" => notice = IF err THEN "failed" ELSE "finished"

(* Behind the loop of storage.Run a storage has its archive, or an error   *)
(* of it was collected.                                                    *)
Loop ==
  /\ stored \subseteq MyStorages \ left
  /\ pc \in BeforeStorage => left = MyStorages /\ ~errors
  /\ pc = "storage" => (errors <=> stored # MyStorages \ left)

(* What has been stored was made by stages that have succeeded. *)
Source ==
  stored # {} => result = "nil" /\ archive # "empty" /\ packed = "whole"

(* The result is an error exactly if some storage lacks the archive.       *)
Outcome ==
  pc \in {"after", "notify", "done"} /\ ~panicked =>
    /\ err <=> stored # MyStorages
    /\ left = {} \/ (left = MyStorages /\ err)

IInv == TypeOK /\ P!IInv /\ Stages /\ Loop /\ Source /\ Outcome

-----------------------------------------------------------------------------
(* The dump stage as module Perform has it, DB, and as it is proved about, *)
(* P, are two instances of module Database on the same variables.          *)

(* Perform calls database.Run with the configs that module Database takes. *)
LEMMA DatabaseAssumptions ==
  /\ Nobody \notin Databases
  /\ \A c \in DbConfigs : P!IsConfig(c)
  BY NobodyAssumption, ConfigsAssumption
    DEF DB!IsConfig, P!IsConfig, DB!Types, P!Types, DB!Options, P!Options,
      DB!Modes, P!Modes, DB!Scripts, P!Scripts, DB!OnExits, P!OnExits

(* Both instances type their variables alike.                              *)
LEMMA SameType ==
  /\ DB!TypeOK <=> P!TypeOK
  /\ DB!TypeOK' <=> P!TypeOK'
  BY DEF DB!TypeOK, P!TypeOK, DB!Passwords, P!Passwords

(* database.Run is called as module Database begins.                       *)
LEMMA SameStart == Init => P!Init
  BY DEF Init, P!Init, DB!Start, P!Start, DB!Passwords, P!Passwords

(* Both instances take the same steps.                                     *)
LEMMA SameStep ==
  /\ DB!Step <=> P!Step
  /\ DB!LoadDotEnv <=> P!LoadDotEnv
<1>1. DB!PickDatabase <=> P!PickDatabase
  BY DEF DB!PickDatabase, P!PickDatabase, DB!At, P!At, DB!Types, P!Types,
    DB!hooked, P!hooked, DB!calls, P!calls
<1>2. DB!AllDone <=> P!AllDone
  BY DEF DB!AllDone, P!AllDone, DB!At, P!At, DB!Return, P!Return, DB!hooked,
    P!hooked, DB!calls, P!calls
<1>3. DB!BeforeScript <=> P!BeforeScript
  BY DEF DB!BeforeScript, P!BeforeScript, DB!At, P!At, DB!Hook, P!Hook,
    DB!Return, P!Return, DB!calls, P!calls
<1>4. DB!InitDatabase <=> P!InitDatabase
  BY DEF DB!InitDatabase, P!InitDatabase, DB!At, P!At, DB!Return, P!Return,
    DB!hooked, P!hooked, DB!calls, P!calls, DB!Accepts, P!Accepts, DB!MySQLInit, P!MySQLInit
<1>5. DB!PerformSucceeds <=> P!PerformSucceeds
  BY DEF DB!PerformSucceeds, P!PerformSucceeds, DB!CallTool, P!CallTool, DB!At,
    P!At, DB!Called, P!Called, DB!hooked, P!hooked, DB!Outcomes, P!Outcomes,
    DB!MySQLPerform, P!MySQLPerform, DB!Exec, P!Exec
<1>6. DB!PerformFails <=> P!PerformFails
  BY DEF DB!PerformFails, P!PerformFails, DB!CallTool, P!CallTool, DB!At,
    P!At, DB!Called, P!Called, DB!Return, P!Return, DB!RunsAfterFailure,
    P!RunsAfterFailure, DB!hooked, P!hooked, DB!Outcomes, P!Outcomes,
    DB!MySQLPerform, P!MySQLPerform, DB!Exec, P!Exec
<1>7. DB!AfterScript <=> P!AfterScript
  BY DEF DB!AfterScript, P!AfterScript, DB!At, P!At, DB!Hook, P!Hook, DB!Return,
    P!Return, DB!LoopOn, P!LoopOn, DB!calls, P!calls
<1>8. DB!Setenv <=> P!Setenv
  BY DEF DB!Setenv, P!Setenv, DB!At, P!At, DB!BringsPassword, P!BringsPassword,
    DB!hooked, P!hooked, DB!calls, P!calls
<1>9. DB!LoadDotEnv <=> P!LoadDotEnv
  BY DEF DB!LoadDotEnv, P!LoadDotEnv, DB!Passwords, P!Passwords, DB!hooked, P!hooked
<1> QED
  BY <1>1, <1>2, <1>3, <1>4, <1>5, <1>6, <1>7, <1>8, <1>9 DEF DB!Step, P!Step

(* A run of a model dumps as database.Run does, and in no other way.       *)
LEMMA DumpsAsDatabase ==
  [Next]_vars => [P!Next]_P!dbVars
<1>1. CASE Dump \/ Reload
  BY <1>1, SameStep DEF Dump, Reload, P!Next
<1>2. CASE UNCHANGED dumpVars
  BY <1>2 DEF dumpVars, P!dbVars, P!hooked, P!calls
<1> QED
  BY <1>1, <1>2 DEF Next, Work, Killed, Done, vars, DumpReturns, RunArchive,
    Compress, Stat, StoreSucceeds, StoreFails, StorePanics, StorageReturns, After,
    Notify

(* A run of a model implements module Database: what Perform calls is the  *)
(* dump stage as it is modelled there, from its first step on, and nothing *)
(* else a run does touches that stage.                                     *)
THEOREM RunImplementsDatabase == Spec => P!Spec
  BY SameStart, DumpsAsDatabase, PTL DEF Spec, P!Spec

(* The invariant of the dump stage is one of the run.                      *)
LEMMA DatabaseInv ==
  /\ Init => P!IInv
  /\ P!IInv /\ [Next]_vars => P!IInv'
  BY SameStart, P!InitInv, P!StepInv, DumpsAsDatabase, DatabaseAssumptions

(* If database.Run has returned nil, all is dumped.                        *)
LEMMA NilIsDumped ==
  ASSUME P!IInv, result = "nil"
  PROVE  Dumped
  BY DEF P!IInv, P!NilMeansDumped, P!KnownOnly, P!Called, Dumped, DB!Types, P!Types

-----------------------------------------------------------------------------
(* The invariant *)

(* A model has a storage, and each has its kind.                           *)
LEMMA StorageKinds ==
  ASSUME TypeOK
  PROVE  /\ MyStorages # {} /\ MyStorages \subseteq Storages
         /\ kinds \in [MyStorages -> Kinds]
         /\ IsFiniteSet(MyStorages)
<1>1. PICK ss \in StorageSets : kinds \in [ss -> Kinds]
  BY DEF TypeOK
<1>2. MyStorages = ss
  BY <1>1 DEF MyStorages
<1>3. ss # {} /\ ss \subseteq Storages
  BY DEF StorageSets
<1>4. IsFiniteSet(ss)
  BY <1>3, StoragesAssumption, FS_Subset
<1> QED
  BY <1>1, <1>2, <1>3, <1>4

(* Perform begins with its workspace made and nothing dumped or stored.    *)
LEMMA InitInv == Init => IInv
<1> SUFFICES ASSUME Init PROVE IInv
  OBVIOUS
<1>1. P!IInv
  BY DatabaseInv
<1>2. DB!TypeOK
  BY <1>1, SameType DEF P!IInv
<1>3. MyStorages = left /\ \E ss \in StorageSets : kinds \in [ss -> Kinds]
  BY DEF Init, MyStorages
<1>4. TypeOK
  BY <1>2, <1>3 DEF Init, TypeOK
<1>5. Stages /\ Loop /\ Source /\ Outcome
  BY <1>3 DEF Init, Stages, Loop, Source, Outcome
<1> QED
  BY <1>1, <1>4, <1>5 DEF IInv

(* No step of a run breaks the types.                                      *)
LEMMA TypeStep ==
  ASSUME TypeOK, DB!TypeOK', [Next]_vars
  PROVE  TypeOK'
<1>1. ASSUME Dump \/ Reload PROVE TypeOK'
  BY <1>1 DEF Dump, Reload, runVars, packVars, TypeOK, MyStorages
<1>2. ASSUME DumpReturns PROVE TypeOK'
  BY <1>2 DEF DumpReturns, packVars, Go, Leave, Panic, TypeOK, MyStorages
<1>3. ASSUME RunArchive PROVE TypeOK'
  BY <1>3 DEF RunArchive, packVars, Go, Leave, TypeOK, MyStorages
<1>4. ASSUME Compress PROVE TypeOK'
  BY <1>4 DEF Compress, Go, Leave, TypeOK, MyStorages
<1>5. ASSUME NEW s \in Storages, StoreSucceeds(s) PROVE TypeOK'
  BY <1>5 DEF StoreSucceeds, packVars, TypeOK, MyStorages
<1>6. ASSUME NEW s \in Storages, StoreFails(s) PROVE TypeOK'
  BY <1>6 DEF StoreFails, packVars, Go, Leave, TypeOK, MyStorages
<1>7. ASSUME NEW s \in Storages, StorePanics(s) PROVE TypeOK'
  BY <1>7 DEF StorePanics, packVars, Panic, TypeOK, MyStorages
<1>8. ASSUME StorageReturns PROVE TypeOK'
  BY <1>8 DEF StorageReturns, packVars, Leave, TypeOK, MyStorages
<1>9. ASSUME After PROVE TypeOK'
  BY <1>9 DEF After, packVars, TypeOK, MyStorages
<1>10. ASSUME Notify PROVE TypeOK'
  BY <1>10 DEF Notify, packVars, TypeOK, MyStorages
<1>11. ASSUME Killed PROVE TypeOK'
  BY <1>11 DEF Killed, packVars, TypeOK, MyStorages
<1>12. ASSUME UNCHANGED vars PROVE TypeOK'
  BY <1>12 DEF vars, packVars, runVars, TypeOK, MyStorages
<1>13. ASSUME Stat PROVE TypeOK'
  BY <1>13 DEF Stat, Leave, packVars, TypeOK, MyStorages
<1> QED
  BY <1>1, <1>2, <1>3, <1>4, <1>5, <1>6, <1>7, <1>8, <1>9, <1>10, <1>11, <1>12, <1>13
    DEF Next, Work, Done

(* No step enters a stage before the one before it has succeeded.          *)
LEMMA StagesStep ==
  ASSUME TypeOK, P!IInv, Stages, [Next]_vars
  PROVE  Stages'
<1>1. ASSUME Dump \/ Reload PROVE Stages'
  <2>1. pc = "database" /\ UNCHANGED <<pc, err, panicked, archive, path, packed, notice>>
    BY <1>1 DEF Dump, Reload, runVars, packVars
  <2> QED
    BY <2>1 DEF Stages
<1>2. ASSUME DumpReturns PROVE Stages'
  <2>1. pc = "database" /\ UNCHANGED <<result, archive, packed, notice>>
    BY <1>2 DEF DumpReturns, dumpVars, packVars
  <2>2. \/ result = "nil" /\ Go(IF archive = "nil" THEN "compress" ELSE "archive")
        \/ pc' = "after"
    BY <1>2 DEF DumpReturns, Leave, Panic
  <2>3. CASE pc' = "after"
    BY <2>1, <2>3 DEF Stages, BeforeStorage
  <2>4. CASE result = "nil" /\ Go(IF archive = "nil" THEN "compress" ELSE "archive")
    <3>1. /\ pc' = "archive" \/ (pc' = "compress" /\ archive # "empty")
          /\ ~err' /\ ~panicked' /\ notice' = "none"
      BY <2>1, <2>4 DEF Go, Stages, BeforeStorage
    <3> QED
      BY <2>1, <2>4, <3>1 DEF Stages
  <2> QED
    BY <2>2, <2>3, <2>4
<1>3. ASSUME RunArchive PROVE Stages'
  <2>1. pc = "archive" /\ UNCHANGED <<result, archive, packed, notice>>
    BY <1>3 DEF RunArchive, dumpVars, packVars
  <2>2. (archive = "includes" /\ Go("compress")) \/ pc' = "after"
    BY <1>3 DEF RunArchive, Leave
  <2>3. CASE pc' = "after"
    BY <2>1, <2>3 DEF Stages, BeforeStorage
  <2>4. CASE archive = "includes" /\ Go("compress")
    <3>1. result = "nil" /\ ~err' /\ ~panicked' /\ notice' = "none"
      BY <2>1, <2>4 DEF Go, Stages, BeforeStorage
    <3> QED
      BY <2>1, <2>4, <3>1 DEF Go, Stages
  <2> QED
    BY <2>2, <2>3, <2>4
<1>4. ASSUME Compress PROVE Stages'
  BY <1>4 DEF Compress, Go, Leave, dumpVars, Stages, BeforeStorage
<1>5. ASSUME NEW s \in Storages, StoreSucceeds(s) PROVE Stages'
  BY <1>5 DEF StoreSucceeds, packVars, dumpVars, Stages
<1>6. ASSUME NEW s \in Storages, StoreFails(s) PROVE Stages'
  BY <1>6 DEF StoreFails, packVars, Go, Leave, dumpVars, Stages, BeforeStorage
<1>7. ASSUME NEW s \in Storages, StorePanics(s) PROVE Stages'
  BY <1>7 DEF StorePanics, packVars, Panic, Stages, BeforeStorage
<1>8. ASSUME StorageReturns PROVE Stages'
  BY <1>8 DEF StorageReturns, packVars, Leave, Stages, BeforeStorage
<1>9. ASSUME After PROVE Stages'
  BY <1>9 DEF After, packVars, Stages, BeforeStorage
<1>10. ASSUME Notify PROVE Stages'
  BY <1>10 DEF Notify, packVars, Stages, BeforeStorage
<1>11. ASSUME Killed PROVE Stages'
  BY <1>11 DEF Killed, packVars, Stages, BeforeStorage
<1>12. ASSUME UNCHANGED vars PROVE Stages'
  BY <1>12 DEF vars, packVars, dumpVars, runVars, Stages
<1>13. ASSUME Stat PROVE Stages'
  <2>1. pc = "stat" /\ UNCHANGED <<result, archive, packed, notice>>
    BY <1>13 DEF Stat, dumpVars, packVars
  <2>2. \/ path # "" /\ pc' = "storage" /\ ~err' /\ UNCHANGED panicked
        \/ pc' = "after"
    BY <1>13 DEF Stat, Leave
  <2>3. CASE pc' = "after"
    BY <2>1, <2>3 DEF Stages, BeforeStorage
  <2>4. CASE path # "" /\ pc' = "storage" /\ ~err' /\ UNCHANGED panicked
    <3>1. /\ result = "nil" /\ archive # "empty" /\ packed = "whole"
          /\ ~panicked' /\ notice' = "none"
      BY <2>1, <2>4 DEF Stages, BeforeStorage
    <3> QED
      BY <2>1, <2>4, <3>1 DEF Stages
  <2> QED
    BY <2>2, <2>3, <2>4
<1> QED
  BY <1>1, <1>2, <1>3, <1>4, <1>5, <1>6, <1>7, <1>8, <1>9, <1>10, <1>11, <1>12, <1>13
    DEF Next, Work, Done

(* No step of the loop forgets a storage that has failed.                  *)
LEMMA LoopStep ==
  ASSUME TypeOK, Stages, Loop, [Next]_vars
  PROVE  Loop'
<1>1. ASSUME Dump \/ Reload PROVE Loop'
  BY <1>1 DEF Dump, Reload, runVars, packVars, Loop, MyStorages
<1>2. ASSUME DumpReturns PROVE Loop'
  BY <1>2 DEF DumpReturns, packVars, Loop, BeforeStorage, MyStorages
<1>3. ASSUME RunArchive PROVE Loop'
  BY <1>3 DEF RunArchive, packVars, Loop, BeforeStorage, MyStorages
<1>4. ASSUME Compress PROVE Loop'
  BY <1>4 DEF Compress, Loop, BeforeStorage, MyStorages
<1>5. ASSUME NEW s \in Storages, StoreSucceeds(s) PROVE Loop'
  BY <1>5 DEF StoreSucceeds, packVars, TypeOK, Loop, BeforeStorage, MyStorages
<1>6. ASSUME NEW s \in Storages, StoreFails(s) PROVE Loop'
  BY <1>6 DEF StoreFails, packVars, Go, Leave, TypeOK, Loop, BeforeStorage, MyStorages
<1>7. ASSUME NEW s \in Storages, StorePanics(s) PROVE Loop'
  BY <1>7 DEF StorePanics, packVars, Panic, Loop, BeforeStorage, MyStorages
<1>8. ASSUME StorageReturns PROVE Loop'
  BY <1>8 DEF StorageReturns, packVars, Leave, Loop, BeforeStorage, MyStorages
<1>9. ASSUME After PROVE Loop'
  BY <1>9 DEF After, packVars, Loop, BeforeStorage, MyStorages
<1>10. ASSUME Notify PROVE Loop'
  BY <1>10 DEF Notify, packVars, Loop, BeforeStorage, MyStorages
<1>11. ASSUME Killed PROVE Loop'
  BY <1>11 DEF Killed, packVars, Loop, BeforeStorage, MyStorages
<1>12. ASSUME UNCHANGED vars PROVE Loop'
  BY <1>12 DEF vars, packVars, runVars, Loop, MyStorages
<1>13. ASSUME Stat PROVE Loop'
  BY <1>13 DEF Stat, Loop, BeforeStorage, MyStorages
<1> QED
  BY <1>1, <1>2, <1>3, <1>4, <1>5, <1>6, <1>7, <1>8, <1>9, <1>10, <1>11, <1>12, <1>13
    DEF Next, Work, Done

(* No step stores what a failed stage has made.                            *)
LEMMA SourceStep ==
  ASSUME TypeOK, Stages, Loop, Source, [Next]_vars
  PROVE  Source'
<1>1. ASSUME Dump \/ Reload PROVE Source'
  BY <1>1 DEF Dump, Reload, runVars, packVars, Loop, Source, BeforeStorage
<1>2. ASSUME DumpReturns PROVE Source'
  BY <1>2 DEF DumpReturns, packVars, Loop, Source, BeforeStorage
<1>3. ASSUME RunArchive PROVE Source'
  BY <1>3 DEF RunArchive, packVars, Loop, Source, BeforeStorage
<1>4. ASSUME Compress PROVE Source'
  BY <1>4 DEF Compress, Loop, Source, BeforeStorage
<1>5. ASSUME NEW s \in Storages, StoreSucceeds(s) PROVE Source'
  BY <1>5 DEF StoreSucceeds, packVars, dumpVars, Stages, Source
<1>6. ASSUME NEW s \in Storages, StoreFails(s) PROVE Source'
  BY <1>6 DEF StoreFails, packVars, dumpVars, Source
<1>7. ASSUME NEW s \in Storages, StorePanics(s) PROVE Source'
  BY <1>7 DEF StorePanics, packVars, dumpVars, Source
<1>8. ASSUME StorageReturns PROVE Source'
  BY <1>8 DEF StorageReturns, packVars, dumpVars, Source
<1>9. ASSUME After PROVE Source'
  BY <1>9 DEF After, packVars, dumpVars, Source
<1>10. ASSUME Notify PROVE Source'
  BY <1>10 DEF Notify, packVars, dumpVars, Source
<1>11. ASSUME Killed PROVE Source'
  BY <1>11 DEF Killed, packVars, dumpVars, Source
<1>12. ASSUME UNCHANGED vars PROVE Source'
  BY <1>12 DEF vars, packVars, dumpVars, runVars, Source
<1>13. ASSUME Stat PROVE Source'
  BY <1>13 DEF Stat, Loop, Source, BeforeStorage
<1> QED
  BY <1>1, <1>2, <1>3, <1>4, <1>5, <1>6, <1>7, <1>8, <1>9, <1>10, <1>11, <1>12, <1>13
    DEF Next, Work, Done

(* No step returns nil where a storage lacks the archive.                  *)
LEMMA OutcomeStep ==
  ASSUME TypeOK, Stages, Loop, Outcome, [Next]_vars
  PROVE  Outcome'
<1>1. ASSUME Dump \/ Reload PROVE Outcome'
  BY <1>1 DEF Dump, Reload, runVars, packVars, Outcome, MyStorages
<1>2. ASSUME DumpReturns PROVE Outcome'
  BY <1>2, StorageKinds DEF DumpReturns, packVars, Go, Leave, Panic, Loop, Outcome,
    BeforeStorage, MyStorages
<1>3. ASSUME RunArchive PROVE Outcome'
  BY <1>3, StorageKinds DEF RunArchive, packVars, Go, Leave, Loop, Outcome,
    BeforeStorage, MyStorages
<1>4. ASSUME Compress PROVE Outcome'
  BY <1>4, StorageKinds DEF Compress, Go, Leave, Loop, Outcome, BeforeStorage,
    MyStorages
<1>5. ASSUME NEW s \in Storages, StoreSucceeds(s) PROVE Outcome'
  BY <1>5 DEF StoreSucceeds, packVars, Outcome
<1>6. ASSUME NEW s \in Storages, StoreFails(s) PROVE Outcome'
  <2>1. kinds' = kinds /\ IsFiniteSet(MyStorages)
    BY <1>6, StorageKinds DEF StoreFails
  <2>2. CASE Cardinality(MyStorages) = 1
    <3>0. s \in MyStorages
      BY <1>6 DEF StoreFails, TypeOK
    <3>1. MyStorages = {s}
      BY <2>1, <2>2, <3>0, FS_Singleton
    <3>2. left' = {} /\ err' /\ ~panicked' /\ stored' = {}
      BY <1>6, <2>2, <3>1 DEF StoreFails, packVars, Leave, TypeOK, Stages, Loop
    <3> QED
      BY <2>1, <3>1, <3>2 DEF Outcome, MyStorages
  <2>3. CASE Cardinality(MyStorages) # 1
    BY <1>6, <2>3 DEF StoreFails, packVars, Go, Outcome
  <2> QED
    BY <2>2, <2>3
<1>7. ASSUME NEW s \in Storages, StorePanics(s) PROVE Outcome'
  BY <1>7 DEF StorePanics, packVars, Panic, Outcome
<1>8. ASSUME StorageReturns PROVE Outcome'
  BY <1>8 DEF StorageReturns, packVars, Leave, Loop, Outcome, MyStorages
<1>9. ASSUME After PROVE Outcome'
  BY <1>9 DEF After, packVars, Outcome, MyStorages
<1>10. ASSUME Notify PROVE Outcome'
  BY <1>10 DEF Notify, packVars, Outcome, MyStorages
<1>11. ASSUME Killed PROVE Outcome'
  BY <1>11 DEF Killed, packVars, Outcome
<1>12. ASSUME UNCHANGED vars PROVE Outcome'
  BY <1>12 DEF vars, packVars, runVars, Outcome, MyStorages
<1>13. ASSUME Stat PROVE Outcome'
  BY <1>13, StorageKinds DEF Stat, Leave, Loop, Outcome, BeforeStorage,
    MyStorages
<1> QED
  BY <1>1, <1>2, <1>3, <1>4, <1>5, <1>6, <1>7, <1>8, <1>9, <1>10, <1>11, <1>12, <1>13
    DEF Next, Work, Done

(* Every state of a run satisfies the invariant.                           *)
THEOREM Invariance == Spec => []IInv
<1>1. ASSUME IInv, [Next]_vars PROVE IInv'
  <2>1. P!IInv'
    BY <1>1, DatabaseInv DEF IInv
  <2>2. DB!TypeOK'
    BY <2>1, SameType DEF P!IInv
  <2> QED
    BY <1>1, <2>1, <2>2, TypeStep, StagesStep, LoopStep, SourceStep, OutcomeStep
      DEF IInv
<1> QED
  BY InitInv, <1>1, PTL DEF Spec

(* The variables of a run, those of its dump stage among them, keep their  *)
(* types.                                                                  *)
THEOREM TypeCorrect == Spec => []TypeOK
<1>1. IInv => TypeOK
  BY DEF IInv
<1> QED
  BY <1>1, Invariance, PTL

(* What a storage receives of model.Perform was packed to the end, has the *)
(* archive section, and holds a dump of every database but those of an     *)
(* unknown type, which it lacks: however many there are, whatever their    *)
(* hooks do, and although os.Stat overwrites the error of the compressor.  *)
THEOREM OnlyCompleteIsStored == Spec => []StoredIsComplete
<1>1. ASSUME IInv PROVE StoredIsComplete
  BY <1>1, NilIsDumped DEF IInv, Source, StoredIsComplete
<1> QED
  BY <1>1, Invariance, PTL

(* The notification of a run without a panic tells whether all storages,   *)
(* however many, have an archive of all databases of a known type.         *)
THEOREM NoticeTellsTheTruth == Spec => []NoticeIsTrue
<1>1. ASSUME IInv PROVE NoticeIsTrue
  <2>1. stored = MyStorages => Dumped
    BY <1>1, StorageKinds, NilIsDumped DEF IInv, Source
  <2> QED
    BY <1>1, <2>1 DEF IInv, Stages, Outcome, NoticeIsTrue
<1> QED
  BY <1>1, Invariance, PTL

(* storage.Run goes on past a storage that fails: it tries all, or none.   *)
THEOREM StoragesAreTried == Spec => []EveryStorageTried
<1>1. ASSUME IInv PROVE EveryStorageTried
  BY <1>1 DEF IInv, Stages, Outcome, EveryStorageTried
<1> QED
  BY <1>1, Invariance, PTL

==============================================================================
