--------------------------- MODULE DatabaseProofs ---------------------------
(***************************************************************************)
(* Proofs about module Database, for any set of databases and of configs.  *)
(*                                                                         *)
(* The argument.  The loop touches a database in one stretch: before it,   *)
(* no hook was run and nothing dumped (Waiting); during it, where runModel *)
(* is tells how far the hooks and the dump have come (AtCurrent); after    *)
(* it, all is settled unless Run has returned (Past).  The environment     *)
(* holds the password of the last database that brought one, from its      *)
(* Setenv on (EnvIsLatest).                                                *)
(***************************************************************************)
EXTENDS Database, TLAPS

(* Nothing was done yet with a database the loop has not come to. *)
Waiting ==
  \A d \in todo : dump[d] = "no" /\ d \notin opened /\ d \notin closed

(* How far the hooks and the dump of the current database have come. *)
AtCurrent ==
  cur # Nobody =>
    /\ result = "none"
    /\ cur \notin todo
    /\ cur \notin closed
    /\ cur \in opened <=> dpc # "before"
    /\ dump[cur] # "no" <=> dpc = "after"
    /\ dump[cur] = "failed" => RunsAfterFailure(cur)

(* While the loop goes on, a database behind it was dumped and its         *)
(* after_script, if there is one, run; or its type is not implemented.     *)
Past ==
  result = "none" =>
    \A d \in Databases : d \notin todo /\ d # cur =>
      /\ dump[d] # "failed"
      /\ conf[d].type \in Types => dump[d] = "ok"
      /\ dump[d] = "ok" => (d \in closed <=> conf[d].after # "none")
      /\ d \in opened => dump[d] = "ok"

(* No tool is called for a type that is not implemented.                   *)
KnownOnly ==
  /\ cur # Nobody => conf[cur].type \in Types
  /\ \A d \in Called : conf[d].type \in Types

(* The history of the calls: a database comes behind those called before.  *)
InOrder == \A d \in Databases : earlier[d] \subseteq Called \ {d}

(* The current database has set its password, but is not called yet.       *)
HasSet == dpc = "exec" /\ BringsPassword(cur)

(* What the environment holds between two calls, and before one.           *)
EnvIsLatest ==
  /\ HasSet => env = conf[cur].password
  /\ ~HasSet => Latest(Called, env)

Credentials == InOrder /\ EnvIsLatest /\ PasswordIsLatest

IInv ==
  /\ TypeOK
  /\ Waiting
  /\ AtCurrent
  /\ Past
  /\ KnownOnly
  /\ NilMeansDumped
  /\ HooksPaired
  /\ FailureStopsRun
  /\ Credentials

-----------------------------------------------------------------------------
(* Type correctness *)

(* Where runModel is in a database, there is one.                          *)
LEMMA CurIsDatabase ==
  ASSUME TypeOK, dpc # "loop"
  PROVE  cur \in Databases
  BY DEF TypeOK

(* When Run is called the types are as declared.                           *)
LEMMA InitType == Init => TypeOK
  BY DEF Init, Start, TypeOK, Passwords

(* No step of the stage breaks the types.                                  *)
LEMMA StepType == TypeOK /\ [Next]_dbVars => TypeOK'
<1> SUFFICES ASSUME TypeOK, [Next]_dbVars PROVE TypeOK'
  OBVIOUS
<1> USE NobodyAssumption
<1>1. ASSUME PickDatabase PROVE TypeOK'
  BY <1>1 DEF PickDatabase, TypeOK, hooked, calls
<1>2. ASSUME AllDone PROVE TypeOK'
  BY <1>2 DEF AllDone, Return, TypeOK, hooked, calls
<1>3. ASSUME BeforeScript PROVE TypeOK'
  <2>1. cur \in Databases
    BY <1>3, CurIsDatabase DEF BeforeScript, At
  <2> QED
    BY <1>3, <2>1 DEF BeforeScript, Hook, Return, TypeOK, calls
<1>4. ASSUME InitDatabase PROVE TypeOK'
  <2>1. cur \in Databases
    BY <1>4, CurIsDatabase DEF InitDatabase, At
  <2> QED
    BY <1>4, <2>1 DEF InitDatabase, Return, TypeOK, hooked, calls
<1>5. ASSUME PerformSucceeds PROVE TypeOK'
  <2>1. cur \in Databases
    BY <1>5, CurIsDatabase DEF PerformSucceeds, CallTool, At
  <2> QED
    BY <1>5, <2>1 DEF PerformSucceeds, CallTool, Called, TypeOK, hooked
<1>6. ASSUME PerformFails PROVE TypeOK'
  <2>1. cur \in Databases
    BY <1>6, CurIsDatabase DEF PerformFails, CallTool, At
  <2>2. /\ login' \in [Databases -> Passwords]
        /\ earlier' \in [Databases -> SUBSET Databases]
    BY <1>6 DEF PerformFails, CallTool, Called, TypeOK
  <2> QED
    BY <1>6, <2>1, <2>2 DEF PerformFails, CallTool, Return, TypeOK, hooked
<1>7. ASSUME AfterScript PROVE TypeOK'
  <2>1. cur \in Databases
    BY <1>7, CurIsDatabase DEF AfterScript, At
  <2> QED
    BY <1>7, <2>1 DEF AfterScript, Hook, Return, LoopOn, TypeOK, calls
<1>8. ASSUME Setenv PROVE TypeOK'
  <2>1. cur \in Databases
    BY <1>8, CurIsDatabase DEF Setenv, At
  <2>2. conf[cur].password \in Passwords
    BY <2>1 DEF TypeOK, Passwords
  <2> QED
    BY <1>8, <2>1, <2>2 DEF Setenv, TypeOK, hooked, calls
<1>9. ASSUME LoadDotEnv PROVE TypeOK'
  BY <1>9 DEF LoadDotEnv, TypeOK, hooked
<1>10. CASE UNCHANGED dbVars
  BY <1>10 DEF dbVars, hooked, calls, TypeOK
<1> QED
  BY <1>1, <1>2, <1>3, <1>4, <1>5, <1>6, <1>7, <1>8, <1>9, <1>10
    DEF Next, Step, Returned

(* For any databases and configs, every variable of the dump stage stays   *)
(* in its type, and runModel is in a database or else between two.         *)
THEOREM TypeCorrect == Spec => []TypeOK
  BY InitType, StepType, PTL DEF Spec

-----------------------------------------------------------------------------
(* The invariant *)

(* A step that neither calls a tool nor touches the environment, and is    *)
(* not about to, has no part in what the databases are dumped with.        *)
LEMMA CredentialsKept ==
  ASSUME Credentials, UNCHANGED <<conf, dump, env, calls>>,
         dpc # "exec", dpc' # "exec"
  PROVE  Credentials'
  BY DEF Credentials, InOrder, EnvIsLatest, HasSet, Latest, PasswordIsLatest,
    Called, Bringers, LastOf, BringsPassword, calls

(* A call of a tool: it finds the password that was set for it, or the     *)
(* latest there is, and comes behind all that were called before it.       *)
LEMMA CredentialsOfCall ==
  ASSUME TypeOK, AtCurrent, Credentials, CallTool, cur \in Databases,
         UNCHANGED conf, dpc' # "exec",
         NEW o \in {"ok", "failed"}, dump' = [dump EXCEPT ![cur] = o]
  PROVE  Credentials'
<1>1. /\ Called' = Called \cup {cur} /\ cur \notin Called
      /\ dpc = "exec" /\ env' = env /\ found' = found
      /\ login'[cur] = env /\ earlier'[cur] = Called
      /\ \A d \in Databases \ {cur} : /\ login'[d] = login[d]
                                     /\ earlier'[d] = earlier[d]
  BY NobodyAssumption DEF TypeOK, AtCurrent, CallTool, At, Called
<1>2. InOrder'
  BY <1>1 DEF Credentials, InOrder
<1>3. Latest(Called, env)'
  <2>1. CASE BringsPassword(cur)
    <3>1. env' = conf'[cur].password
      BY <1>1, <2>1 DEF Credentials, EnvIsLatest, HasSet
    <3>2. cur \in LastOf(Bringers(Called))'
      BY <1>1, <2>1 DEF LastOf, Bringers, BringsPassword
    <3> QED
      BY <3>1, <3>2 DEF Latest, LastOf
  <2>2. CASE ~BringsPassword(cur)
    <3>1. Latest(Called, env)
      BY <2>2 DEF Credentials, EnvIsLatest, HasSet
    <3>2. Bringers(Called)' = Bringers(Called)
      BY <1>1, <2>2 DEF Bringers, BringsPassword
    <3>3. LastOf(Bringers(Called))' = LastOf(Bringers(Called))
      BY <1>1, <3>2 DEF LastOf, Bringers, Called
    <3> QED
      BY <1>1, <3>1, <3>2, <3>3 DEF Latest
  <2> QED
    BY <2>1, <2>2
<1>4. EnvIsLatest'
  BY <1>3 DEF EnvIsLatest, HasSet
<1>5. PasswordIsLatest'
  <2> SUFFICES ASSUME NEW d \in Called', conf'[d].type = "postgresql"
               PROVE  Latest(earlier[d] \cup {d}, login[d])'
    BY DEF PasswordIsLatest, Latest
  <2>1. CASE d = cur
    <3>1. (earlier[d] \cup {d})' = Called' /\ login'[d] = env'
      BY <1>1, <2>1
    <3> QED
      BY <1>3, <3>1 DEF Latest, LastOf, Bringers
  <2>2. CASE d # cur
    <3>1. d \in Called /\ d \in Databases
      BY <1>1, <2>2 DEF Called
    <3>2. Latest(earlier[d] \cup {d}, login[d])
      BY <3>1 DEF Credentials, PasswordIsLatest, Latest
    <3>3. earlier[d] \subseteq Called
      BY <3>1 DEF Credentials, InOrder
    <3>4. Bringers(earlier[d] \cup {d})' = Bringers(earlier[d] \cup {d})
      BY <1>1, <2>2, <3>1 DEF Bringers, BringsPassword
    <3>5. LastOf(Bringers(earlier[d] \cup {d}))' = LastOf(Bringers(earlier[d] \cup {d}))
      BY <1>1, <3>1, <3>3, <3>4 DEF LastOf, Bringers, Called
    <3> QED
      BY <1>1, <2>2, <3>1, <3>2, <3>4, <3>5 DEF Latest
  <2> QED
    BY <2>1, <2>2
<1> QED
  BY <1>2, <1>4, <1>5 DEF Credentials

(* No step of the stage calls a tool for a type that is not implemented.   *)
LEMMA KnownStep ==
  ASSUME TypeOK, KnownOnly, [Next]_dbVars
  PROVE  KnownOnly'
<1> USE NobodyAssumption DEF KnownOnly, Called
<1>1. ASSUME PickDatabase \/ AllDone \/ BeforeScript \/ InitDatabase PROVE KnownOnly'
  BY <1>1 DEF PickDatabase, AllDone, BeforeScript, InitDatabase, Hook, Return
<1>2. ASSUME PerformSucceeds \/ PerformFails PROVE KnownOnly'
  <2>1. cur \in Databases
    BY <1>2, CurIsDatabase DEF PerformSucceeds, PerformFails, CallTool, At
  <2>2. /\ conf' = conf /\ conf[cur].type \in Types
        /\ \E o \in {"ok", "failed"} : dump' = [dump EXCEPT ![cur] = o]
        /\ cur' \in {cur, Nobody}
    BY <1>2, <2>1 DEF PerformSucceeds, PerformFails, Return
  <2> QED
    BY <2>1, <2>2 DEF TypeOK
<1>3. ASSUME Setenv \/ LoadDotEnv PROVE KnownOnly'
  BY <1>3 DEF Setenv, LoadDotEnv
<1>4. ASSUME AfterScript PROVE KnownOnly'
  BY <1>4 DEF AfterScript, Hook, Return, LoopOn
<1>5. CASE UNCHANGED dbVars
  BY <1>5 DEF dbVars
<1> QED
  BY <1>1, <1>2, <1>3, <1>4, <1>5 DEF Next, Step, Returned

(* When Run is called nothing was dumped and no hook was run.              *)
LEMMA InitInv == Init => IInv
<1> SUFFICES ASSUME Init PROVE IInv
  OBVIOUS
<1>1. TypeOK
  BY InitType
<1>2. Waiting /\ AtCurrent /\ Past /\ KnownOnly
  BY DEF Init, Start, Waiting, AtCurrent, Past, KnownOnly, Called
<1>3. NilMeansDumped /\ HooksPaired /\ FailureStopsRun
  BY DEF Init, Start, NilMeansDumped, HooksPaired, FailureStopsRun
<1>4. Credentials
  BY DEF Init, Start, Credentials, InOrder, EnvIsLatest, HasSet, Latest,
    PasswordIsLatest, Called, Bringers
<1> QED
  BY <1>1, <1>2, <1>3, <1>4 DEF IInv

(* No step of the stage breaks the invariant.                              *)
LEMMA StepInv == IInv /\ [Next]_dbVars => IInv'
<1> SUFFICES ASSUME TypeOK, Waiting, AtCurrent, Past, KnownOnly, NilMeansDumped,
                    HooksPaired, FailureStopsRun, Credentials, [Next]_dbVars
             PROVE  IInv'
  BY DEF IInv
<1>0. TypeOK' /\ KnownOnly'
  BY StepType, KnownStep
<1>1. ASSUME PickDatabase PROVE IInv'
  <2>1. Waiting'
    BY <1>1 DEF PickDatabase, hooked, Waiting
  <2>2. AtCurrent'
    BY <1>1 DEF PickDatabase, At, hooked, AtCurrent, Waiting
  <2>3. Past'
    BY <1>1, NobodyAssumption DEF PickDatabase, At, hooked, Past, Waiting,
      TypeOK
  <2>4. NilMeansDumped'
    BY <1>1 DEF PickDatabase, NilMeansDumped
  <2>5. HooksPaired'
    BY <1>1 DEF PickDatabase, hooked, HooksPaired, RunsAfterFailure
  <2>6. FailureStopsRun'
    BY <1>1, NobodyAssumption DEF PickDatabase, At, FailureStopsRun, Waiting,
      Past, TypeOK
  <2>7. Credentials'
    BY <1>1, CredentialsKept DEF PickDatabase, At
  <2> QED
    BY <1>0, <2>1, <2>2, <2>3, <2>4, <2>5, <2>6, <2>7 DEF IInv
<1>2. ASSUME AllDone PROVE IInv'
  <2>1. Waiting'
    BY <1>2 DEF AllDone, Waiting
  <2>2. AtCurrent'
    BY <1>2 DEF AllDone, Return, AtCurrent
  <2>3. Past'
    BY <1>2 DEF AllDone, Return, Past
  <2>4. NilMeansDumped'
    BY <1>2, NobodyAssumption DEF AllDone, At, NilMeansDumped, Past, TypeOK
  <2>5. HooksPaired'
    BY <1>2, NobodyAssumption DEF AllDone, At, hooked, HooksPaired, Past,
      TypeOK
  <2>6. FailureStopsRun'
    BY <1>2, NobodyAssumption DEF AllDone, Return, FailureStopsRun
  <2>7. Credentials'
    BY <1>2, CredentialsKept DEF AllDone, At, Return
  <2> QED
    BY <1>0, <2>1, <2>2, <2>3, <2>4, <2>5, <2>6, <2>7 DEF IInv
<1>3. ASSUME BeforeScript PROVE IInv'
  <2>0. cur \in Databases
    BY <1>3, CurIsDatabase DEF BeforeScript, At
  <2>1. Waiting'
    BY <1>3, <2>0, NobodyAssumption DEF BeforeScript, Waiting, AtCurrent
  <2>2. AtCurrent'
    BY <1>3 DEF BeforeScript, At, Hook, Return, AtCurrent
  <2>3. Past'
    BY <1>3 DEF BeforeScript, Hook, Return, Past
  <2>4. NilMeansDumped'
    BY <1>3 DEF BeforeScript, Hook, Return, NilMeansDumped
  <2>5. HooksPaired'
    BY <1>3, NobodyAssumption DEF BeforeScript, At, Hook, Return, HooksPaired,
      Waiting, AtCurrent, Past
  <2>6. FailureStopsRun'
    BY <1>3, NobodyAssumption DEF BeforeScript, Hook, Return, FailureStopsRun
  <2>7. Credentials'
    BY <1>3, CredentialsKept DEF BeforeScript, At, Hook, Return
  <2> QED
    BY <1>0, <2>1, <2>2, <2>3, <2>4, <2>5, <2>6, <2>7 DEF IInv
<1>4. ASSUME InitDatabase PROVE IInv'
  <2>0. cur \in Databases
    BY <1>4, CurIsDatabase DEF InitDatabase, At
  <2>1. Waiting'
    BY <1>4 DEF InitDatabase, hooked, Waiting
  <2>2. AtCurrent'
    BY <1>4 DEF InitDatabase, At, Return, hooked, AtCurrent
  <2>3. Past'
    BY <1>4 DEF InitDatabase, Return, hooked, Past
  <2>4. NilMeansDumped'
    BY <1>4 DEF InitDatabase, Return, NilMeansDumped
  <2>5. HooksPaired'
    BY <1>4, NobodyAssumption DEF InitDatabase, At, hooked, HooksPaired,
      Waiting, AtCurrent, Past
  <2>6. FailureStopsRun'
    BY <1>4, NobodyAssumption DEF InitDatabase, Return, FailureStopsRun
  <2>7. Credentials'
    BY <1>4, CredentialsKept DEF InitDatabase, At, Return
  <2> QED
    BY <1>0, <2>1, <2>2, <2>3, <2>4, <2>5, <2>6, <2>7 DEF IInv
<1>5. ASSUME PerformSucceeds PROVE IInv'
  <2>0. cur \in Databases
    BY <1>5, CurIsDatabase DEF PerformSucceeds, CallTool, At
  <2>1. Waiting'
    BY <1>5, <2>0, NobodyAssumption DEF PerformSucceeds, hooked, Waiting,
      AtCurrent
  <2>2. AtCurrent'
    BY <1>5 DEF PerformSucceeds, CallTool, At, hooked, AtCurrent, TypeOK
  <2>3. Past'
    BY <1>5 DEF PerformSucceeds, hooked, Past
  <2>4. NilMeansDumped'
    BY <1>5 DEF PerformSucceeds, NilMeansDumped
  <2>5. HooksPaired'
    BY <1>5, <2>0, NobodyAssumption DEF PerformSucceeds, hooked, HooksPaired,
      AtCurrent
  <2>6. FailureStopsRun'
    BY <1>5 DEF PerformSucceeds, FailureStopsRun
  <2>7. Credentials'
    BY <1>5, <2>0, CredentialsOfCall DEF PerformSucceeds
  <2> QED
    BY <1>0, <2>1, <2>2, <2>3, <2>4, <2>5, <2>6, <2>7 DEF IInv
<1>6. ASSUME PerformFails PROVE IInv'
  <2>0. cur \in Databases
    BY <1>6, CurIsDatabase DEF PerformFails, CallTool, At
  <2>1. Waiting'
    BY <1>6, <2>0, NobodyAssumption DEF PerformFails, hooked, Waiting,
      AtCurrent
  <2>2. AtCurrent'
    BY <1>6 DEF PerformFails, CallTool, At, Return, hooked, AtCurrent,
      RunsAfterFailure, TypeOK
  <2>3. Past'
    BY <1>6 DEF PerformFails, Return, hooked, Past
  <2>4. NilMeansDumped'
    BY <1>6, NobodyAssumption DEF PerformFails, Return, NilMeansDumped,
      AtCurrent
  <2>5. HooksPaired'
    BY <1>6, NobodyAssumption DEF PerformFails, hooked, HooksPaired, Waiting,
      AtCurrent, Past, RunsAfterFailure, TypeOK
  <2>6. FailureStopsRun'
    BY <1>6, NobodyAssumption DEF PerformFails, Return, FailureStopsRun
  <2>7. Credentials'
    BY <1>6, <2>0, CredentialsOfCall DEF PerformFails, Return
  <2> QED
    BY <1>0, <2>1, <2>2, <2>3, <2>4, <2>5, <2>6, <2>7 DEF IInv
<1>7. ASSUME AfterScript PROVE IInv'
  <2>0. cur \in Databases
    BY <1>7, CurIsDatabase DEF AfterScript, At
  <2>1. Waiting'
    BY <1>7, <2>0, NobodyAssumption DEF AfterScript, Waiting, AtCurrent
  <2>2. AtCurrent'
    BY <1>7 DEF AfterScript, Hook, Return, LoopOn, AtCurrent
  <2>3. Past'
    BY <1>7 DEF AfterScript, At, Hook, Return, Past, AtCurrent, TypeOK
  <2>4. NilMeansDumped'
    BY <1>7 DEF AfterScript, Hook, Return, LoopOn, NilMeansDumped
  <2>5. HooksPaired'
    BY <1>7, <2>0, NobodyAssumption DEF AfterScript, At, HooksPaired, Waiting,
      AtCurrent, Past, RunsAfterFailure
  <2>6. FailureStopsRun'
    BY <1>7, <2>0, NobodyAssumption DEF AfterScript, Hook, Return,
      FailureStopsRun
  <2>7. Credentials'
    BY <1>7, CredentialsKept DEF AfterScript, At, Hook, Return, LoopOn
  <2> QED
    BY <1>0, <2>1, <2>2, <2>3, <2>4, <2>5, <2>6, <2>7 DEF IInv
<1>8. ASSUME Setenv PROVE IInv'
  <2>0. cur \in Databases
    BY <1>8, CurIsDatabase DEF Setenv, At
  <2>1. Waiting'
    BY <1>8 DEF Setenv, hooked, Waiting
  <2>2. AtCurrent'
    BY <1>8 DEF Setenv, At, hooked, AtCurrent
  <2>3. Past'
    BY <1>8 DEF Setenv, hooked, Past
  <2>4. NilMeansDumped'
    BY <1>8 DEF Setenv, NilMeansDumped
  <2>5. HooksPaired'
    BY <1>8 DEF Setenv, hooked, HooksPaired, RunsAfterFailure
  <2>6. FailureStopsRun'
    BY <1>8 DEF Setenv, FailureStopsRun
  <2>7. Credentials'
    BY <1>8, <2>0 DEF Setenv, At, calls, TypeOK, Credentials, InOrder, EnvIsLatest,
      HasSet, Latest, PasswordIsLatest, Called, Bringers, LastOf, BringsPassword
  <2> QED
    BY <1>0, <2>1, <2>2, <2>3, <2>4, <2>5, <2>6, <2>7 DEF IInv
<1>9. ASSUME LoadDotEnv PROVE IInv'
  <2>1. Waiting' /\ AtCurrent' /\ Past'
    BY <1>9 DEF LoadDotEnv, hooked, Waiting, AtCurrent, Past, RunsAfterFailure
  <2>2. NilMeansDumped' /\ HooksPaired' /\ FailureStopsRun'
    BY <1>9 DEF LoadDotEnv, hooked, NilMeansDumped, HooksPaired, FailureStopsRun,
      RunsAfterFailure
  <2>3. Credentials'
    BY <1>9 DEF LoadDotEnv, TypeOK, Credentials, InOrder, EnvIsLatest,
      HasSet, Latest, PasswordIsLatest, Called, Bringers, LastOf, BringsPassword
  <2> QED
    BY <1>0, <2>1, <2>2, <2>3 DEF IInv
<1>10. CASE UNCHANGED dbVars
  <2>1. Credentials'
    BY <1>10 DEF dbVars, calls, Credentials, InOrder, EnvIsLatest, HasSet,
      Latest, PasswordIsLatest, Called, Bringers, LastOf, BringsPassword
  <2> QED
    BY <1>0, <1>10, <2>1 DEF dbVars, hooked, IInv, Waiting, AtCurrent, Past,
      NilMeansDumped, HooksPaired, FailureStopsRun, RunsAfterFailure
<1> QED
  BY <1>1, <1>2, <1>3, <1>4, <1>5, <1>6, <1>7, <1>8, <1>9, <1>10
    DEF Next, Step, Returned

(* Every state of the dump stage satisfies the invariant.                  *)
THEOREM Invariance == Spec => []IInv
  BY InitInv, StepInv, PTL DEF Spec

(* database.Run returns nil only if it has dumped every database of a type *)
(* it knows, whatever the hooks do and in whatever order the map gives the *)
(* databases.                                                              *)
THEOREM NilIsTrue == Spec => []NilMeansDumped
<1>1. IInv => NilMeansDumped
  BY DEF IInv
<1> QED
  BY <1>1, Invariance, PTL

(* The hooks of runModel go in pairs: an after_script follows the dump it  *)
(* belongs to, and is left out only where on_exit, or a config that init() *)
(* refuses, says so.                                                       *)
THEOREM HooksGoInPairs == Spec => []HooksPaired
<1>1. IInv => HooksPaired
  BY DEF IInv
<1> QED
  BY <1>1, Invariance, PTL

(* No database is touched after the first that could not be dumped.        *)
THEOREM FirstFailureIsLast == Spec => []FailureStopsRun
<1>1. IInv => FailureStopsRun
  BY DEF IInv
<1> QED
  BY <1>1, Invariance, PTL

(* pg_dump is given the password of its own config, or of the last earlier *)
(* database that has one, or else the one that was there, although perform *)
(* sets PGPASSWORD for the whole process and a reload may set it as well.  *)
THEOREM PasswordsFollowOrder == Spec => []PasswordIsLatest
<1>1. IInv => PasswordIsLatest
  BY DEF IInv, Credentials
<1> QED
  BY <1>1, Invariance, PTL

=============================================================================
