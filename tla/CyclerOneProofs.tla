--------------------------- MODULE CyclerOneProofs ---------------------------
(***************************************************************************)
(* Proofs about module Cycler with one process: what is in the storage is  *)
(* in the history, and so no more than keep of it stays.  Two processes    *)
(* that save at once can each overwrite the other's archive in the file.   *)
(*                                                                         *)
(* The argument.  Known says, for each place a run can be in, where the    *)
(* archives of the storage are listed: in the file, in the run's packages  *)
(* once they are loaded, or in lost.  Short says that no list gets longer  *)
(* than a value of keep before it is saved.                                *)
(***************************************************************************)
EXTENDS CyclerProofs, FiniteSetTheorems, SequenceTheorems

Loading == {"load", "create", "example", "read"}

(* Where the archives in the storage are known, at each place of a run. *)
Known(p) ==
  /\ pc[p] \in {"idle", "upload"} => remote \subseteq Tracked \cup lost
  /\ pc[p] # "write" => remote \ {key[p]} \subseteq Tracked \cup lost
  /\ pc[p] \in BeforeAdd => ~isLoaded[p]
  /\ pc[p] = "create" => file = Absent
  /\ pc[p] = "example" => file = Garbage
  /\ pc[p] = "prune" /\ ~isLoaded[p] => key[p] \in lost
  /\ pc[p] \in {"save", "write"} => isLoaded[p]
  /\ pc[p] \in AfterAdd /\ isLoaded[p] => remote \subseteq RangeOf(packages[p]) \cup lost

(* No list that was saved, or is about to be, is longer than some keep. *)
Short(p) ==
  /\ HasFile => \E n \in Keeps : Len(file) <= n
  /\ pc[p] \in {"save", "write"} => Len(packages[p]) <= keep[p]

-----------------------------------------------------------------------------
(* Lists and the keys in them *)

(* append() adds one key.                                                  *)
LEMMA RangeAppend ==
  ASSUME NEW K, NEW s \in Seq(K), NEW k \in K
  PROVE  RangeOf(Append(s, k)) = RangeOf(s) \cup {k}
<1>1. /\ Len(s) \in Nat /\ Len(Append(s, k)) = Len(s) + 1
      /\ Append(s, k)[Len(s) + 1] = k
      /\ \A i \in 1 .. Len(s) : Append(s, k)[i] = s[i]
      /\ DOMAIN s = 1 .. Len(s) /\ DOMAIN Append(s, k) = 1 .. Len(s) + 1
  OBVIOUS
<1>2. ASSUME NEW x \in RangeOf(Append(s, k)) PROVE x \in RangeOf(s) \cup {k}
  <2>1. PICK i \in 1 .. Len(s) + 1 : x = Append(s, k)[i]
    BY DEF RangeOf
  <2>2. i = Len(s) + 1 \/ i \in 1 .. Len(s)
    OBVIOUS
  <2> QED
    BY DEF RangeOf
<1>3. ASSUME NEW x \in RangeOf(s) PROVE x \in RangeOf(Append(s, k))
  <2>1. PICK i \in 1 .. Len(s) : x = s[i]
    BY DEF RangeOf
  <2>2. i \in 1 .. Len(s) + 1 /\ x = Append(s, k)[i]
    BY <2>1
  <2> QED
    BY DEF RangeOf
<1>4. k \in RangeOf(Append(s, k))
  <2>1. Len(s) + 1 \in 1 .. Len(s) + 1
    OBVIOUS
  <2> QED
    BY DEF RangeOf
<1> QED
  BY <1>2, <1>3, <1>4

(* What shiftByKeep takes off a list is its head.                          *)
LEMMA RangeShift ==
  ASSUME NEW K, NEW s \in Seq(K), s # <<>>
  PROVE  RangeOf(s) \subseteq RangeOf(Tail(s)) \cup {Head(s)}
<1>1. /\ Head(s) = s[1] /\ Tail(s) \in Seq(K)
      /\ Len(s) \in Nat \ {0} /\ Len(Tail(s)) = Len(s) - 1
      /\ \A i \in 1 .. Len(Tail(s)) : Tail(s)[i] = s[i + 1]
  OBVIOUS
<1>2. DOMAIN s = 1 .. Len(s) /\ DOMAIN Tail(s) = 1 .. Len(Tail(s))
  OBVIOUS
<1> SUFFICES ASSUME NEW x \in RangeOf(s), x # Head(s) PROVE x \in RangeOf(Tail(s))
  OBVIOUS
<1>3. PICK i \in 1 .. Len(s) : x = s[i]
  BY DEF RangeOf
<1>4. i - 1 \in 1 .. Len(Tail(s)) /\ (i - 1) + 1 = i
  BY <1>3
<1>5. Tail(s)[i - 1] = x
  BY <1>3
<1> QED
  BY <1>2, <1>4, <1>5 DEF RangeOf

(* A list has no more keys than places.                                    *)
LEMMA RangeIsShort ==
  ASSUME NEW K, NEW s \in Seq(K)
  PROVE  /\ IsFiniteSet(RangeOf(s))
         /\ Cardinality(RangeOf(s)) <= Len(s)
<1>1. Len(s) \in Nat /\ DOMAIN s = 1 .. Len(s)
  OBVIOUS
<1>2. IsFiniteSet(1 .. Len(s)) /\ Cardinality(1 .. Len(s)) = Len(s)
  <2>1. 0 <= Len(s) => (Len(s) - 1) + 1 = Len(s)
    OBVIOUS
  <2> QED
    BY <1>1, FS_Interval
<1>3. s \in Surjection(1 .. Len(s), RangeOf(s))
  <2>1. s \in [1 .. Len(s) -> RangeOf(s)]
    BY DEF RangeOf
  <2> QED
    BY DEF Surjection, RangeOf
<1>4. /\ IsFiniteSet(RangeOf(s))
      /\ Cardinality(RangeOf(s)) <= Cardinality(1 .. Len(s))
  BY <1>2, <1>3, FS_Surjection
<1> QED
  BY <1>2, <1>4

-----------------------------------------------------------------------------
(* The invariant *)

(* A file with a list is neither absent nor a text that does not parse.    *)
LEMMA ListIsNoText ==
  ASSUME NEW s \in Seq(Keys)
  PROVE  s \notin {Absent, Garbage}
<1>1. s \in Seq(Nat)
  <2>1. Keys \subseteq Nat
    BY DEF Keys
  <2> QED
    BY <2>1, SeqMonotonic
<1> QED
  BY <1>1, FileAssumption

(* add() appends the run's key to pkgs.                                    *)
LEMMA AddedList ==
  ASSUME NEW p \in Procs, TypeOK, pc[p] # "idle", NEW pkgs \in Seq(Keys), Add(p, pkgs)
  PROVE  RangeOf(packages'[p]) = RangeOf(pkgs) \cup {key[p]}
<1>1. packages'[p] = Append(pkgs, key[p]) /\ key[p] \in Keys
  BY DEF Add, TypeOK
<1> QED
  BY <1>1, RangeAppend

(* No step of the only process loses sight of an archive in the storage.   *)
LEMMA KnownStep ==
  ASSUME NEW p, Procs = {p}, TypeOK, Known(p), [Next]_vars
  PROVE  Known(p)'
<1>0. p \in Procs
  OBVIOUS
<1>1. ASSUME Begin(p) PROVE Known(p)'
  BY <1>1 DEF Begin, TypeOK, Known, Tracked, Goto, history
<1>2. ASSUME Upload(p) PROVE Known(p)'
  BY <1>2 DEF Upload, TypeOK, Known, Tracked, Goto, run, BeforeAdd
<1>3. ASSUME UploadFails(p) PROVE Known(p)'
  BY <1>3 DEF UploadFails, Known, Tracked, Goto, run, BeforeAdd
<1>4. ASSUME Stat(p) PROVE Known(p)'
  BY <1>4 DEF Stat, Known, Tracked, Goto, run, history, BeforeAdd
<1>5. ASSUME Create(p) PROVE Known(p)'
  BY <1>5 DEF Create, TypeOK, Known, Tracked, Goto, run, history, BeforeAdd
<1>6. ASSUME WriteExample(p) PROVE Known(p)'
  BY <1>6 DEF WriteExample, TypeOK, Known, Tracked, Goto, run, history,
    BeforeAdd
<1>7. ASSUME Read(p) PROVE Known(p)'
  <2>1. Parsed \in Seq(Keys) /\ pc[p] # "idle" /\ Add(p, Parsed)
    BY <1>7, ParsedType DEF Read
  <2>2. RangeOf(packages'[p]) = RangeOf(Parsed) \cup {key[p]}
    BY <2>1, AddedList
  <2>3. Tracked \subseteq RangeOf(Parsed)
    BY DEF Tracked, Parsed
  <2>4. /\ pc' = [pc EXCEPT ![p] = "prune"] /\ pc[p] = "read"
        /\ isLoaded' = [isLoaded EXCEPT ![p] = TRUE]
        /\ UNCHANGED <<remote, file, key, lost>>
    BY <1>7 DEF Read, Goto
  <2>5. remote \ {key[p]} \subseteq Tracked \cup lost
    BY <2>4 DEF Known
  <2>6. remote \subseteq RangeOf(packages'[p]) \cup lost
    BY <2>2, <2>3, <2>5
  <2>7. pc'[p] = "prune" /\ isLoaded'[p]
    BY <2>4 DEF TypeOK
  <2>8. Tracked' = Tracked
    BY <2>4 DEF Tracked
  <2> QED
    BY <2>4, <2>6, <2>7, <2>8 DEF Known, BeforeAdd
<1>8. ASSUME LoadFails(p) PROVE Known(p)'
  <2>1. pc'[p] = "prune" /\ pc[p] \in Loading
    BY <1>8 DEF LoadFails, Goto, TypeOK, Loading
  <2>2. lost' = lost \cup {key[p]} /\ UNCHANGED <<remote, file, key, isLoaded>>
    BY <1>8 DEF LoadFails
  <2>3. remote \ {key[p]} \subseteq Tracked \cup lost /\ ~isLoaded[p]
    BY <2>1 DEF Known, BeforeAdd, Loading
  <2>4. Tracked' = Tracked
    BY <2>2 DEF Tracked
  <2> QED
    BY <2>1, <2>2, <2>3, <2>4 DEF Known
<1>9. ASSUME DeleteOldest(p) PROVE Known(p)'
  <2> DEFINE k == Head(packages[p])
  <2>1. packages[p] \in Seq(Keys) /\ packages[p] # <<>>
    BY <1>9 DEF DeleteOldest, NothingToShift, TypeOK
  <2>2. RangeOf(packages[p]) \subseteq RangeOf(packages'[p]) \cup {k}
    BY <1>9, <2>1, RangeShift DEF DeleteOldest
  <2>3. /\ remote' \subseteq remote /\ lost \subseteq lost'
        /\ k \in lost' \/ k \notin remote'
    BY <1>9 DEF DeleteOldest
  <2>4. pc[p] = "prune" /\ UNCHANGED <<pc, file, key, isLoaded>>
    BY <1>9 DEF DeleteOldest
  <2>5. Tracked' = Tracked
    BY <2>4 DEF Tracked
  <2>6. isLoaded[p] => remote' \subseteq RangeOf(packages'[p]) \cup lost'
    BY <2>2, <2>3, <2>4 DEF Known, AfterAdd
  <2>7. remote' \ {key[p]} \subseteq Tracked \cup lost'
    BY <2>3, <2>4 DEF Known
  <2>8. ~isLoaded[p] => key[p] \in lost'
    BY <2>3, <2>4 DEF Known
  <2> QED
    BY <2>4, <2>5, <2>6, <2>7, <2>8 DEF Known
<1>10. ASSUME PruneDone(p) PROVE Known(p)'
  <2>1. pc[p] = "prune" /\ pc'[p] = IF isLoaded[p] THEN "save" ELSE "idle"
    BY <1>10 DEF PruneDone, Goto, TypeOK
  <2>2. UNCHANGED <<remote, file, key, packages, isLoaded, lost>>
    BY <1>10 DEF PruneDone, run, history
  <2>3. Tracked' = Tracked
    BY <2>2 DEF Tracked
  <2>4. CASE isLoaded[p]
    BY <2>1, <2>2, <2>3 DEF Known, BeforeAdd, AfterAdd
  <2>5. CASE ~isLoaded[p]
    <3>1. remote \ {key[p]} \subseteq Tracked \cup lost /\ key[p] \in lost
      BY <2>1, <2>5 DEF Known
    <3> QED
      BY <2>1, <2>2, <2>3, <2>5 DEF Known
  <2> QED
    BY <2>4, <2>5
<1>11. ASSUME Truncate(p) PROVE Known(p)'
  BY <1>11 DEF Truncate, TypeOK, Known, Goto, run, history, BeforeAdd,
    AfterAdd
<1>12. ASSUME OpenFails(p) PROVE Known(p)'
  BY <1>0, <1>12 DEF OpenFails, TypeOK, Known, Tracked, Goto, run, history,
    BeforeAdd, AfterAdd, PCs, RangeOf
<1>13. ASSUME Write(p) PROVE Known(p)'
  <2>1. file' \in Seq(Keys) /\ file' = packages[p]
    BY <1>13 DEF Write, TypeOK
  <2>2. file' \notin {Absent, Garbage}
    BY <2>1, ListIsNoText
  <2>3. Tracked' = RangeOf(packages[p])
    BY <2>1, <2>2 DEF Tracked
  <2>4. remote \subseteq RangeOf(packages[p]) \cup lost
    BY <1>13 DEF Write, Known, AfterAdd
  <2>5. pc'[p] = "idle" /\ UNCHANGED <<remote, key, lost>>
    BY <1>13 DEF Write, Goto, TypeOK, run, history
  <2> QED
    BY <2>3, <2>4, <2>5 DEF Known, BeforeAdd, AfterAdd
<1>14. ASSUME WriteGarbles(p) PROVE Known(p)'
  BY <1>14 DEF WriteGarbles, Known, Goto, run, BeforeAdd
<1>15. ASSUME Crash(p) PROVE Known(p)'
  BY <1>15 DEF Crash, Known, Tracked, Goto, run, BeforeAdd, AfterAdd
<1>16. CASE UNCHANGED vars
  BY <1>16 DEF vars, run, history, Known, Tracked
<1> QED
  BY <1>1, <1>2, <1>3, <1>4, <1>5, <1>6, <1>7, <1>8, <1>9, <1>10, <1>11, <1>12,
    <1>13, <1>14, <1>15, <1>16 DEF Next, Step, Done

(* No step of a run saves a list that is longer than its keep.             *)
LEMMA ShortStep ==
  ASSUME NEW p, Procs = {p}, Keeps \subseteq Nat \ {0}, IInv, Known(p), Short(p),
         [Next]_vars
  PROVE  Short(p)'
<1>0. p \in Procs /\ TypeOK /\ DistinctKeys
  BY DEF IInv
<1>1. ASSUME Begin(p) PROVE Short(p)'
  BY <1>1 DEF Begin, Short, HasFile, Goto
<1>2. ASSUME Upload(p) PROVE Short(p)'
  BY <1>2 DEF Upload, Short, HasFile, Goto
<1>3. ASSUME UploadFails(p) PROVE Short(p)'
  BY <1>3 DEF UploadFails, Short, HasFile, Goto
<1>4. ASSUME Stat(p) PROVE Short(p)'
  BY <1>4 DEF Stat, Short, HasFile, Goto
<1>5. ASSUME Create(p) PROVE Short(p)'
  BY <1>5 DEF Create, Short, HasFile, Goto
<1>6. ASSUME WriteExample(p) PROVE Short(p)'
  <2>1. file' = <<>> /\ Len(<<>>) = 0 /\ pc'[p] = "read"
    BY <1>0, <1>6 DEF WriteExample, Goto, TypeOK
  <2>2. PICK n \in Keeps : n \in Nat
    BY KeepsAssumption
  <2> QED
    BY <2>1 DEF Short
<1>7. ASSUME Read(p) PROVE Short(p)'
  BY <1>7 DEF Read, Short, HasFile, Goto
<1>8. ASSUME LoadFails(p) PROVE Short(p)'
  BY <1>8 DEF LoadFails, Short, HasFile, Goto
<1>9. ASSUME DeleteOldest(p) PROVE Short(p)'
  BY <1>9 DEF DeleteOldest, Short, HasFile
<1>10. ASSUME PruneDone(p) PROVE Short(p)'
  <2>1. keep[p] \in Keeps
    BY <1>0, <1>10 DEF PruneDone, DistinctKeys
  <2>2. packages[p] = <<>> => Len(packages[p]) = 0
    OBVIOUS
  <2>3. Len(packages[p]) <= keep[p]
    <3>1. keep[p] \in Nat /\ keep[p] # 0
      BY <2>1
    <3>2. Len(packages[p]) <= keep[p] \/ packages[p] = <<>>
      BY <1>10, <3>1 DEF PruneDone, NothingToShift
    <3> QED
      BY <3>1, <3>2
  <2> QED
    BY <1>10, <2>3 DEF PruneDone, Short, HasFile, run
<1>11. ASSUME Truncate(p) PROVE Short(p)'
  BY <1>11 DEF Truncate, Short, HasFile, run
<1>12. ASSUME OpenFails(p) PROVE Short(p)'
  BY <1>12 DEF OpenFails, Short, HasFile, run
<1>13. ASSUME Write(p) PROVE Short(p)'
  <2>1. keep[p] \in Keeps /\ Len(packages[p]) <= keep[p]
    BY <1>0, <1>13 DEF Write, DistinctKeys, Short
  <2> QED
    BY <1>0, <1>13, <2>1 DEF Write, Goto, TypeOK, Short
<1>14. ASSUME WriteGarbles(p) PROVE Short(p)'
  BY <1>14 DEF WriteGarbles, Short, HasFile, run
<1>15. ASSUME Crash(p) PROVE Short(p)'
  BY <1>15 DEF Crash, Short, HasFile, Goto, run
<1>16. CASE UNCHANGED vars
  BY <1>16 DEF vars, run, Short, HasFile
<1> QED
  BY <1>1, <1>2, <1>3, <1>4, <1>5, <1>6, <1>7, <1>8, <1>9, <1>10, <1>11, <1>12,
    <1>13, <1>14, <1>15, <1>16 DEF Next, Step, Done

(* With one process, an archive is either in the history, or was cut off   *)
(* from it by a failed call or a crash, or is no longer in the storage.    *)
THEOREM NothingIsOrphaned ==
  ASSUME NEW p, Procs = {p}
  PROVE  Spec => []NoSilentOrphan
<1>1. Init => Known(p)
  BY DEF Init, Known
<1>2. TypeOK /\ Known(p) /\ [Next]_vars => Known(p)'
  BY KnownStep
<1>3. Known(p) => NoSilentOrphan
  BY DEF Known, NoSilentOrphan, AllIdle
<1> QED
  BY TypeCorrect, <1>1, <1>2, <1>3, PTL DEF Spec

(* Between runs the storage holds no more than the file lists, and that is *)
(* no more than some keep.                                                 *)
LEMMA FewAreTracked ==
  ASSUME NEW p, Procs = {p}, Keeps \subseteq Nat \ {0},
         TypeOK, Known(p), Short(p), AllIdle
  PROVE  \E n \in Keeps : Cardinality(remote \ lost) <= n
<1>1. remote \ lost \subseteq Tracked
  BY DEF Known, AllIdle
<1>2. CASE HasFile
  <2>1. PICK n \in Keeps : Len(file) <= n
    BY <1>2 DEF Short
  <2>2. file \in Seq(Keys) /\ Tracked = RangeOf(file)
    BY <1>2 DEF TypeOK, HasFile, Tracked
  <2>3. /\ IsFiniteSet(RangeOf(file))
        /\ Cardinality(RangeOf(file)) <= Len(file)
    BY <2>2, RangeIsShort
  <2>4. /\ Cardinality(remote \ lost) <= Cardinality(RangeOf(file))
        /\ Cardinality(remote \ lost) \in Nat
        /\ Cardinality(RangeOf(file)) \in Nat
    BY <1>1, <2>2, <2>3, FS_Subset, FS_CardinalityType
  <2>5. Len(file) \in Nat /\ n \in Nat
    OBVIOUS
  <2> QED
    BY <2>1, <2>3, <2>4
<1>3. CASE ~HasFile
  <2>1. Cardinality(remote \ lost) = 0
    BY <1>1, <1>3, FS_EmptySet DEF HasFile, Tracked
  <2>2. PICK n \in Keeps : n \in Nat
    BY KeepsAssumption
  <2> QED
    BY <2>1
<1> QED
  BY <1>2, <1>3

(* With one process and keep values that are not negative, the storage     *)
(* holds no more archives than the largest keep, but for those that were   *)
(* cut off.                                                                *)
THEOREM StorageIsBounded ==
  ASSUME NEW p, Procs = {p}, Keeps \subseteq Nat
  PROVE  Spec => []StorageBounded
<1>1. CASE 0 \in Keeps
  <2>1. StorageBounded
    BY <1>1 DEF StorageBounded
  <2> QED
    BY <2>1, PTL
<1>2. CASE 0 \notin Keeps
  <2>1. Keeps \subseteq Nat \ {0}
    BY <1>2
  <2>2. Init => Known(p) /\ Short(p)
    BY DEF Init, Known, Short, HasFile
  <2>3. IInv /\ Known(p) /\ Short(p) /\ [Next]_vars => Known(p)' /\ Short(p)'
    BY <2>1, KnownStep, ShortStep DEF IInv
  <2>4. TypeOK /\ Known(p) /\ Short(p) => StorageBounded
    BY FewAreTracked DEF StorageBounded
  <2> QED
    BY Invariance, TypeCorrect, <2>2, <2>3, <2>4, PTL DEF Spec
<1> QED
  BY <1>1, <1>2

==============================================================================
