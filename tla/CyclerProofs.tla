---------------------------- MODULE CyclerProofs ----------------------------
(***************************************************************************)
(* Proofs about module Cycler, for any set of processes, any bound on the  *)
(* clock and any set of keep values.                                       *)
(*                                                                         *)
(* The argument.  Every list of packages, in the file or in a run, is      *)
(* sorted by the moment its keys were added (Ranked), because a run only   *)
(* appends the key it adds to a list of keys added before, and only takes  *)
(* keys away from the front.  So whoever shifts a key off a list longer    *)
(* than keep knows of keep keys added later, however stale the list is.    *)
(***************************************************************************)
EXTENDS Cycler, TLAPS

(* s lists keys that were added (f[k] is k's place in the order of all     *)
(* calls of add), each later than those before it in s.                    *)
Ranked(f, s) ==
  /\ \A i \in 1 .. Len(s) : f[s[i]] # 0
  /\ \A i, j \in 1 .. Len(s) : i < j => f[s[i]] + (j - i) <= f[s[j]]

Unlisted(k, s) == \A i \in 1 .. Len(s) : s[i] # k

HasFile == file \notin {Absent, Garbage}

BeforeAdd == {"upload", "load", "create", "example", "read"}
AfterAdd  == {"prune", "save", "write"}

(* Two runs never write under one name, and later runs use later names. *)
DistinctKeys ==
  /\ \A p \in Procs : pc[p] # "idle" => key[p] < clock /\ keep[p] \in Keeps
  /\ \A p, q \in Procs :
       p # q /\ pc[p] # "idle" /\ pc[q] # "idle" => key[p] # key[q]
  /\ \A k \in Keys : addedAt[k] # 0 \/ k \in remote \/ k \in stored => k < clock

AllRanked ==
  /\ HasFile => Ranked(addedAt, file)
  /\ \A p \in Procs : Ranked(addedAt, packages[p])

(* The key of a run is in nobody's list before the run has added it, and   *)
(* in its own list alone until it has been saved.                          *)
OwnKeyPrivate ==
  \A p \in Procs :
    /\ pc[p] \in BeforeAdd => addedAt[key[p]] = 0
    /\ pc[p] \in AfterAdd =>
         /\ addedAt[key[p]] # 0
         /\ HasFile => Unlisted(key[p], file)
         /\ \A q \in Procs \ {p} : Unlisted(key[p], packages[q])

OwnKeyLast ==
  \A p \in Procs : pc[p] \in AfterAdd =>
    Len(packages[p]) > 0 /\ packages[p][Len(packages[p])] = key[p]

IInv == TypeOK /\ DistinctKeys /\ AllRanked /\ OwnKeyPrivate /\ NewestKept

-----------------------------------------------------------------------------
(* Type correctness *)

(* What load() makes of any content of the file is a list of keys.         *)
LEMMA ParsedType ==
  ASSUME TypeOK, file # Absent
  PROVE  Parsed \in Seq(Keys)
<1>1. CASE file = Garbage
  BY <1>1 DEF Parsed
<1>2. CASE file # Garbage
  BY <1>2 DEF Parsed, TypeOK
<1> QED
  BY <1>1, <1>2

(* What shiftByKeep takes off a list and leaves in it. *)
LEMMA ShiftList ==
  ASSUME NEW S, NEW s \in Seq(S), s # <<>>
  PROVE  /\ Head(s) \in S /\ Head(s) = s[1]
         /\ Tail(s) \in Seq(S)
         /\ Len(s) \in Nat \ {0}
         /\ Len(Tail(s)) = Len(s) - 1
         /\ \A i \in 1 .. Len(Tail(s)) : Tail(s)[i] = s[i + 1]
  OBVIOUS

(* Before the first run the types are as declared.                         *)
LEMMA InitType == Init => TypeOK
  BY MaxClockAssumption DEF Init, TypeOK, Keys, PCs

(* No step of a run breaks the types.                                      *)
LEMMA NextType == TypeOK /\ [Next]_vars => TypeOK'
<1> SUFFICES ASSUME TypeOK, [Next]_vars PROVE TypeOK'
  OBVIOUS
<1> USE MaxClockAssumption, KeepsAssumption DEF TypeOK, Keys, PCs, Goto, run, history
<1>1. ASSUME NEW p \in Procs, Begin(p) PROVE TypeOK'
  <2>1. clock \in Keys /\ clock' \in 0 .. MaxClock /\ clock \in 0 .. MaxClock
    BY <1>1 DEF Begin
  <2>2. keep' \in [Procs -> Int]
    BY <1>1 DEF Begin
  <2>3. /\ key' \in [Procs -> 0 .. MaxClock]
        /\ \A q \in Procs : pc'[q] # "idle" => key'[q] \in Keys
    BY <1>1, <2>1 DEF Begin
  <2>4. /\ pc' \in [Procs -> PCs]
        /\ packages' \in [Procs -> Seq(Keys)]
        /\ isLoaded' \in [Procs -> BOOLEAN]
    BY <1>1 DEF Begin
  <2>5. UNCHANGED <<remote, file, stored, count, addedAt, lost>>
    BY <1>1 DEF Begin
  <2> QED
    BY <2>1, <2>2, <2>3, <2>4, <2>5
<1>2. ASSUME NEW p \in Procs, Upload(p) PROVE TypeOK'
  BY <1>2 DEF Upload
<1>3. ASSUME NEW p \in Procs, UploadFails(p) PROVE TypeOK'
  BY <1>3 DEF UploadFails
<1>4. ASSUME NEW p \in Procs, Stat(p) PROVE TypeOK'
  BY <1>4 DEF Stat
<1>5. ASSUME NEW p \in Procs, Create(p) PROVE TypeOK'
  BY <1>5 DEF Create
<1>6. ASSUME NEW p \in Procs, WriteExample(p) PROVE TypeOK'
  BY <1>6 DEF WriteExample
<1>7. ASSUME NEW p \in Procs, NEW pkgs \in Seq(Keys), pc[p] # "idle", Add(p, pkgs)
      PROVE  /\ packages' \in [Procs -> Seq(Keys)]
             /\ count' \in Nat
             /\ addedAt' \in [Keys -> 0 .. count']
  BY <1>7 DEF Add
<1>8. ASSUME NEW p \in Procs, Read(p) PROVE TypeOK'
  <2>1. Parsed \in Seq(Keys) /\ pc[p] # "idle" /\ Add(p, Parsed)
    BY <1>8, ParsedType DEF Read
  <2>2. /\ packages' \in [Procs -> Seq(Keys)]
        /\ count' \in Nat
        /\ addedAt' \in [Keys -> 0 .. count']
    BY <2>1, <1>7
  <2> QED
    BY <1>8, <2>2 DEF Read
<1>9. ASSUME NEW p \in Procs, LoadFails(p) PROVE TypeOK'
  <2>1. <<>> \in Seq(Keys) /\ pc[p] # "idle"
    BY <1>9 DEF LoadFails
  <2> QED
    BY <1>9, <2>1, <1>7 DEF LoadFails
<1>10. ASSUME NEW p \in Procs, DeleteOldest(p) PROVE TypeOK'
  <2>1. packages[p] \in Seq(Keys) /\ packages[p] # <<>>
    BY <1>10 DEF DeleteOldest, NothingToShift
  <2>2. Head(packages[p]) \in Keys /\ Tail(packages[p]) \in Seq(Keys)
    BY <2>1, ShiftList
  <2>3. packages' \in [Procs -> Seq(Keys)]
    BY <1>10, <2>2 DEF DeleteOldest
  <2>4. remote' \subseteq Keys /\ lost' \subseteq Keys
    BY <1>10, <2>2 DEF DeleteOldest
  <2> QED
    BY <1>10, <2>3, <2>4 DEF DeleteOldest
<1>11. ASSUME NEW p \in Procs, PruneDone(p) PROVE TypeOK'
  BY <1>11 DEF PruneDone
<1>12. ASSUME NEW p \in Procs, Truncate(p) PROVE TypeOK'
  BY <1>12 DEF Truncate
<1>13. ASSUME NEW p \in Procs, OpenFails(p) PROVE TypeOK'
  BY <1>13 DEF OpenFails
<1>14. ASSUME NEW p \in Procs, Write(p) PROVE TypeOK'
  BY <1>14 DEF Write
<1>15. ASSUME NEW p \in Procs, WriteGarbles(p) PROVE TypeOK'
  BY <1>15 DEF WriteGarbles
<1>16. ASSUME NEW p \in Procs, Crash(p) PROVE TypeOK'
  BY <1>16 DEF Crash, AfterUpload
<1>17. CASE UNCHANGED vars
  BY <1>17 DEF vars
<1> QED
  BY <1>1, <1>2, <1>3, <1>4, <1>5, <1>6, <1>8, <1>9, <1>10, <1>11, <1>12,
     <1>13, <1>14, <1>15, <1>16, <1>17 DEF Next, Step, Done

(* Whatever the processes do and whichever call fails, the state keeps its *)
(* type: in particular the file only ever holds a list of archive names or *)
(* text that load() takes for an empty one.                                *)
THEOREM TypeCorrect == Spec => []TypeOK
  BY InitType, NextType, PTL DEF Spec

-----------------------------------------------------------------------------
(* Lists sorted by the moment of addition *)

(* A key that enters the history now was in no ranked list, and its        *)
(* entering leaves those lists ranked.                                     *)
LEMMA RankedOther ==
  ASSUME NEW K, NEW n \in Nat, NEW f \in [K -> 0 .. n], NEW k \in K, f[k] = 0,
         NEW s \in Seq(K), Ranked(f, s)
  PROVE  Unlisted(k, s) /\ Ranked([f EXCEPT ![k] = n + 1], s)
<1>1. \A i \in 1 .. Len(s) : s[i] \in K /\ s[i] # k
  BY DEF Ranked
<1>2. \A i \in 1 .. Len(s) : [f EXCEPT ![k] = n + 1][s[i]] = f[s[i]]
  BY <1>1
<1> QED
  BY <1>1, <1>2 DEF Ranked, Unlisted

(* What append() makes of a list.                                          *)
LEMMA AppendList ==
  ASSUME NEW K, NEW s \in Seq(K), NEW k \in K
  PROVE  /\ Append(s, k) \in Seq(K)
         /\ Len(s) \in Nat
         /\ Len(Append(s, k)) = Len(s) + 1
         /\ Append(s, k)[Len(s) + 1] = k
         /\ \A i \in 1 .. Len(s) : Append(s, k)[i] = s[i] /\ s[i] \in K
  OBVIOUS

(* add() keeps a list ranked: the new key comes behind all others.         *)
LEMMA RankedAppend ==
  ASSUME NEW K, NEW n \in Nat, NEW f \in [K -> 0 .. n], NEW k \in K, f[k] = 0,
         NEW s \in Seq(K), Ranked(f, s)
  PROVE  Ranked([f EXCEPT ![k] = n + 1], Append(s, k))
<1> DEFINE g == [f EXCEPT ![k] = n + 1]
           t == Append(s, k)
<1>1. Ranked(g, s)
  BY RankedOther
<1>2. /\ Len(s) \in Nat /\ Len(t) = Len(s) + 1 /\ t[Len(s) + 1] = k
      /\ \A i \in 1 .. Len(s) : t[i] = s[i] /\ s[i] \in K
  BY AppendList
<1>3. \A i \in 1 .. Len(s) : s[i] # k
  BY RankedOther DEF Unlisted
<1>4. g[k] = n + 1 /\ \A i \in 1 .. Len(s) : g[s[i]] \in 0 .. n
  BY <1>2, <1>3
<1> HIDE DEF g, t
<1>5. ASSUME NEW i \in 1 .. Len(s) PROVE g[s[i]] + (Len(s) + 1 - i) <= n + 1
  <2>1. Len(s) \in 1 .. Len(s) /\ g[s[i]] \in 0 .. n /\ g[s[Len(s)]] \in 0 .. n
    BY <1>2, <1>4
  <2>2. CASE i = Len(s)
    BY <2>1, <2>2, <1>2
  <2>3. CASE i < Len(s)
    <3>1. g[s[i]] + (Len(s) - i) <= g[s[Len(s)]]
      BY <2>1, <2>3, <1>1 DEF Ranked
    <3>2. (Len(s) + 1) - i = (Len(s) - i) + 1
      BY <1>2
    <3>3. /\ Len(s) \in Nat /\ i \in Nat
          /\ g[s[i]] \in Nat /\ g[s[Len(s)]] \in Nat /\ g[s[Len(s)]] <= n
      BY <1>2, <2>1
    <3> QED
      BY <3>1, <3>2, <3>3
  <2>4. i = Len(s) \/ i < Len(s)
    BY <1>2
  <2> QED
    BY <2>2, <2>3, <2>4
<1>6. ASSUME NEW i \in 1 .. Len(t) PROVE g[t[i]] # 0
  <2>1. i \in 1 .. Len(s) \/ i = Len(s) + 1
    <3>1. Len(s) \in Nat /\ Len(t) = Len(s) + 1
      BY <1>2
    <3> QED
      BY <3>1, <1>6
  <2> QED
    BY <2>1, <1>1, <1>2, <1>4 DEF Ranked
<1>7. ASSUME NEW i \in 1 .. Len(t), NEW j \in 1 .. Len(t), i < j
      PROVE  g[t[i]] + (j - i) <= g[t[j]]
  <2>1. i \in 1 .. Len(s) /\ (j \in 1 .. Len(s) \/ j = Len(s) + 1)
    <3>1. Len(s) \in Nat /\ Len(t) = Len(s) + 1
      BY <1>2
    <3>2. i \in 1 .. Len(s) + 1 /\ j \in 1 .. Len(s) + 1 /\ i < j
      BY <3>1, <1>7
    <3> QED
      BY <3>1, <3>2
  <2>2. CASE j = Len(s) + 1
    BY <2>1, <2>2, <1>2, <1>4, <1>5
  <2>3. CASE j \in 1 .. Len(s)
    BY <2>1, <2>3, <1>1, <1>2, <1>7 DEF Ranked
  <2> QED
    BY <2>1, <2>2, <2>3
<1> QED
  BY <1>6, <1>7 DEF Ranked, g, t

(* shiftByKeep keeps a list ranked and brings no key into it.              *)
LEMMA RankedShift ==
  ASSUME NEW K, NEW f, NEW s \in Seq(K), s # <<>>, Ranked(f, s)
  PROVE  /\ Ranked(f, Tail(s))
         /\ \A k : Unlisted(k, s) => Unlisted(k, Tail(s))
<1>1. /\ Len(s) \in Nat \ {0}
      /\ Len(Tail(s)) = Len(s) - 1
      /\ \A i \in 1 .. Len(Tail(s)) : Tail(s)[i] = s[i + 1]
  BY ShiftList
<1>2. \A i \in 1 .. Len(Tail(s)) : f[Tail(s)[i]] # 0
  BY <1>1 DEF Ranked
<1>3. ASSUME NEW i \in 1 .. Len(Tail(s)), NEW j \in 1 .. Len(Tail(s)), i < j
      PROVE  f[Tail(s)[i]] + (j - i) <= f[Tail(s)[j]]
  <2>1. /\ i + 1 \in 1 .. Len(s) /\ j + 1 \in 1 .. Len(s) /\ i + 1 < j + 1
        /\ (j + 1) - (i + 1) = j - i
    BY <1>1, <1>3
  <2>2. f[s[i + 1]] + ((j + 1) - (i + 1)) <= f[s[j + 1]]
    BY <2>1 DEF Ranked
  <2> QED
    BY <2>1, <2>2, <1>1
<1>4. \A k : Unlisted(k, s) => Unlisted(k, Tail(s))
  BY <1>1 DEF Unlisted
<1> QED
  BY <1>2, <1>3, <1>4 DEF Ranked

(* The key at the head of a list longer than m has m added after it. *)
LEMMA RankedHead ==
  ASSUME NEW K, NEW n \in Nat, NEW f \in [K -> 0 .. n], NEW s \in Seq(K),
         s # <<>>, Ranked(f, s), NEW m \in Int, Len(s) > m
  PROVE  f[Head(s)] # 0 /\ n - f[Head(s)] >= m
<1>1. Len(s) \in Nat \ {0} /\ Head(s) = s[1] /\ \A i \in 1 .. Len(s) : s[i] \in K
  BY ShiftList
<1>2. 1 \in 1 .. Len(s) /\ Len(s) \in 1 .. Len(s)
  BY <1>1
<1>3. f[s[1]] # 0 /\ f[s[1]] \in 0 .. n /\ f[s[Len(s)]] \in 0 .. n
  BY <1>1, <1>2 DEF Ranked
<1>4. CASE Len(s) = 1
  BY <1>4, <1>1, <1>3
<1>5. CASE Len(s) > 1
  <2>1. f[s[1]] + (Len(s) - 1) <= f[s[Len(s)]]
    BY <1>5, <1>2 DEF Ranked
  <2> QED
    BY <2>1, <1>1, <1>3
<1>6. Len(s) = 1 \/ Len(s) > 1
  <2>1. \A x \in Nat : x # 0 => x = 1 \/ x > 1
    OBVIOUS
  <2> QED
    BY <1>1, <2>1
<1> QED
  BY <1>4, <1>5, <1>6

-----------------------------------------------------------------------------
(* The inductive invariant *)

(* Before the first run the inductive invariant holds.                     *)
LEMMA InitInv == Init => IInv
<1> SUFFICES ASSUME Init PROVE IInv
  OBVIOUS
<1>1. TypeOK
  BY InitType
<1>2. DistinctKeys
  BY DEF Init, DistinctKeys
<1>3. AllRanked
  BY DEF Init, AllRanked, HasFile, Ranked
<1>4. OwnKeyPrivate /\ NewestKept
  BY DEF Init, OwnKeyPrivate, NewestKept, BeforeAdd, AfterAdd
<1> QED
  BY <1>1, <1>2, <1>3, <1>4 DEF IInv

(* The steps that call Cycler.add. *)
Adds(p, pkgs) ==
  /\ pc[p] \in {"load", "create", "example", "read"}
  /\ pkgs \in Seq(Keys)
  /\ Ranked(addedAt, pkgs)
  /\ \A k \in Keys : (HasFile => Unlisted(k, file)) => Unlisted(k, pkgs)
  /\ Add(p, pkgs)
  /\ Goto(p, "prune")
  /\ UNCHANGED <<clock, remote, file, key, keep, stored>>

(* load() that succeeds and the add() after it.                            *)
LEMMA ReadAdds ==
  ASSUME IInv, NEW p \in Procs, Read(p)
  PROVE  Adds(p, Parsed)
<1>1. pc[p] = "read" /\ Parsed \in Seq(Keys)
  BY ParsedType DEF Read, IInv
<1>2. /\ Ranked(addedAt, Parsed)
      /\ \A k \in Keys : (HasFile => Unlisted(k, file)) => Unlisted(k, Parsed)
  <2>1. CASE file = Garbage
    BY <2>1 DEF Parsed, Ranked, Unlisted
  <2>2. CASE file # Garbage
    BY <2>2 DEF Parsed, HasFile, Read, IInv, AllRanked
  <2> QED
    BY <2>1, <2>2
<1> QED
  BY <1>1, <1>2 DEF Adds, Read

(* load() that fails and the add() after it.                               *)
LEMMA LoadFailsAdds ==
  ASSUME IInv, NEW p \in Procs, LoadFails(p)
  PROVE  Adds(p, <<>>)
<1>1. <<>> \in Seq(Keys) /\ Ranked(addedAt, <<>>) /\ \A k \in Keys : Unlisted(k, <<>>)
  BY DEF Ranked, Unlisted
<1> QED
  BY <1>1 DEF LoadFails, Adds

(* Adding the key of the run to a list read from the file keeps the        *)
(* invariant.                                                              *)
LEMMA AddsInv ==
  ASSUME IInv, NEW p \in Procs, NEW pkgs, Adds(p, pkgs)
  PROVE  DistinctKeys' /\ AllRanked' /\ OwnKeyPrivate' /\ NewestKept'
<1> DEFINE k == key[p]
<1>1. k \in Keys /\ addedAt[k] = 0 /\ k < clock
  BY DEF IInv, TypeOK, DistinctKeys, OwnKeyPrivate, Adds, BeforeAdd
<1>2. /\ addedAt' = [addedAt EXCEPT ![k] = count + 1]
      /\ count' = count + 1
      /\ packages' = [packages EXCEPT ![p] = Append(pkgs, k)]
      /\ pc' = [pc EXCEPT ![p] = "prune"]
      /\ pc[p] \in BeforeAdd /\ pc[p] # "idle"
      /\ UNCHANGED <<clock, remote, file, key, keep, stored>>
  BY DEF Adds, Add, Goto, BeforeAdd
<1>3. /\ count \in Nat /\ addedAt \in [Keys -> 0 .. count]
      /\ packages \in [Procs -> Seq(Keys)] /\ pc \in [Procs -> PCs]
  BY DEF IInv, TypeOK
<1>4. \A q \in Procs : Unlisted(k, packages[q]) /\ Ranked(addedAt', packages[q])
  BY <1>1, <1>2, <1>3, RankedOther DEF IInv, AllRanked
<1>5. HasFile => Unlisted(k, file) /\ Ranked(addedAt', file)
  <2> SUFFICES ASSUME HasFile PROVE Unlisted(k, file) /\ Ranked(addedAt', file)
    OBVIOUS
  <2>1. file \in Seq(Keys) /\ Ranked(addedAt, file)
    BY DEF IInv, TypeOK, HasFile, AllRanked
  <2> QED
    BY <1>1, <1>2, <1>3, <2>1, RankedOther
<1>6. pkgs \in Seq(Keys) /\ Ranked(addedAt, pkgs)
  BY DEF Adds
<1>7. Ranked(addedAt', Append(pkgs, k))
  BY <1>1, <1>2, <1>3, <1>6, RankedAppend
<1> HIDE DEF k
<1>8. DistinctKeys'
  BY <1>1, <1>2, <1>3 DEF IInv, DistinctKeys, k
<1>9. AllRanked'
  BY <1>2, <1>3, <1>4, <1>5, <1>7 DEF AllRanked, HasFile
<1>10. OwnKeyPrivate'
  <2> SUFFICES ASSUME NEW r \in Procs
               PROVE  /\ pc'[r] \in BeforeAdd => addedAt'[key[r]] = 0
                      /\ pc'[r] \in AfterAdd =>
                           /\ addedAt'[key[r]] # 0
                           /\ HasFile => Unlisted(key[r], file)
                           /\ \A q \in Procs \ {r} : Unlisted(key[r], packages'[q])
    BY <1>2 DEF OwnKeyPrivate, HasFile
  <2>1. CASE r = p
    <3>1. pc'[p] = "prune" /\ addedAt'[k] # 0
      BY <1>1, <1>2, <1>3
    <3>2. \A q \in Procs \ {p} : packages'[q] = packages[q]
      BY <1>2, <1>3
    <3> QED
      BY <2>1, <3>1, <3>2, <1>4, <1>5 DEF k, BeforeAdd
  <2>2. CASE r # p /\ pc[r] \in BeforeAdd \cup AfterAdd
    <3>1. key[r] # k /\ key[r] \in Keys /\ pc'[r] = pc[r]
      BY <2>2, <1>2, <1>3 DEF IInv, TypeOK, DistinctKeys, BeforeAdd, AfterAdd, k
    <3>2. addedAt'[key[r]] = addedAt[key[r]]
      BY <3>1, <1>2, <1>3
    <3>3. ASSUME pc[r] \in AfterAdd PROVE Unlisted(key[r], Append(pkgs, k))
      <4>1. Unlisted(key[r], pkgs)
        BY <3>1, <3>3 DEF IInv, OwnKeyPrivate, Adds
      <4> QED
        BY <4>1, <3>1, <1>1, <1>6, AppendList DEF Unlisted
    <3>4. \A q \in Procs : packages'[q] = IF q = p THEN Append(pkgs, k) ELSE packages[q]
      BY <1>2, <1>3
    <3> QED
      BY <3>1, <3>2, <3>3, <3>4 DEF IInv, OwnKeyPrivate
  <2>3. CASE r # p /\ pc[r] \notin BeforeAdd \cup AfterAdd
    BY <2>3, <1>2, <1>3
  <2> QED
    BY <2>1, <2>2, <2>3
<1>11. NewestKept'
  <2> SUFFICES ASSUME NEW j \in stored \ remote
               PROVE  addedAt'[j] # 0 /\ \E n \in Keeps \ {0} : count' - addedAt'[j] >= n
    BY <1>2 DEF NewestKept
  <2>1. j \in Keys /\ addedAt[j] # 0
    BY DEF IInv, TypeOK, NewestKept
  <2>2. PICK n \in Keeps \ {0} : count - addedAt[j] >= n
    BY DEF IInv, NewestKept
  <2>3. addedAt'[j] = addedAt[j]
    BY <2>1, <1>1, <1>2, <1>3
  <2> QED
    BY <2>1, <2>2, <2>3, <1>2, <1>3, KeepsAssumption
<1> QED
  BY <1>8, <1>9, <1>10, <1>11

(* The steps that move a run on, or end it, and at most rewrite the file. *)
Rewrites(p) ==
  /\ UNCHANGED <<clock, remote, run, stored, count, addedAt>>
  /\ \E l \in PCs :
       /\ Goto(p, l)
       /\ \/ l = "idle"
          \/ l \in BeforeAdd /\ pc[p] \in BeforeAdd
          \/ l \in AfterAdd /\ pc[p] \in AfterAdd
  /\ \/ file' \in {file, Garbage, <<>>}
     \/ file' = packages[p] /\ pc'[p] = "idle"

(* The steps that create, truncate, save or abandon the file add no key.   *)
LEMMA RewriteSteps ==
  ASSUME TypeOK, NEW p \in Procs,
         \/ Stat(p) \/ Create(p) \/ WriteExample(p) \/ PruneDone(p) \/ Truncate(p)
         \/ OpenFails(p) \/ Write(p) \/ WriteGarbles(p) \/ Crash(p)
  PROVE  Rewrites(p)
<1> USE DEF Rewrites, Goto, run, history, BeforeAdd, AfterAdd, PCs
<1>1. CASE Stat(p)
  BY <1>1 DEF Stat
<1>2. CASE Create(p)
  BY <1>2 DEF Create
<1>3. CASE WriteExample(p)
  BY <1>3 DEF WriteExample
<1>4. CASE PruneDone(p)
  BY <1>4 DEF PruneDone
<1>5. CASE Truncate(p)
  BY <1>5 DEF Truncate
<1>6. CASE OpenFails(p)
  BY <1>6 DEF OpenFails
<1>7. CASE Write(p)
  BY <1>7 DEF Write, TypeOK
<1>8. CASE WriteGarbles(p)
  BY <1>8 DEF WriteGarbles
<1>9. CASE Crash(p)
  BY <1>9 DEF Crash
<1> QED
  BY <1>1, <1>2, <1>3, <1>4, <1>5, <1>6, <1>7, <1>8, <1>9

(* Whatever becomes of the file in them, the lists stay ranked.            *)
LEMMA RewritesInv ==
  ASSUME IInv, NEW p \in Procs, Rewrites(p)
  PROVE  DistinctKeys' /\ AllRanked' /\ OwnKeyPrivate' /\ NewestKept'
<1>1. /\ UNCHANGED <<clock, remote, key, keep, packages, stored, count, addedAt>>
      /\ pc \in [Procs -> PCs] /\ pc' \in [Procs -> PCs]
      /\ \A r \in Procs \ {p} : pc'[r] = pc[r]
      /\ \/ pc'[p] = "idle"
         \/ pc'[p] \in BeforeAdd /\ pc[p] \in BeforeAdd
         \/ pc'[p] \in AfterAdd /\ pc[p] \in AfterAdd
  BY DEF Rewrites, Goto, run, IInv, TypeOK
<1>2. \A r \in Procs : /\ pc'[r] # "idle" => pc[r] # "idle"
                       /\ pc'[r] \in BeforeAdd => pc[r] \in BeforeAdd
                       /\ pc'[r] \in AfterAdd => pc[r] \in AfterAdd
  BY <1>1 DEF BeforeAdd, AfterAdd
<1>3. DistinctKeys'
  BY <1>1, <1>2 DEF IInv, DistinctKeys
<1>4. NewestKept'
  BY <1>1 DEF IInv, NewestKept
<1>5. AllRanked' /\ OwnKeyPrivate'
  <2>1. \A k : Unlisted(k, <<>>) /\ Ranked(addedAt, <<>>)
    BY DEF Unlisted, Ranked
  <2>2. HasFile' => Ranked(addedAt, file')
    BY <2>1 DEF Rewrites, HasFile, IInv, AllRanked
  <2>3. ASSUME NEW r \in Procs, pc'[r] \in AfterAdd, HasFile'
        PROVE  Unlisted(key[r], file')
    <3>1. CASE file' \in {file, Garbage, <<>>}
      BY <1>2, <2>1, <2>3, <3>1 DEF HasFile, IInv, OwnKeyPrivate
    <3>2. CASE file' = packages[p] /\ pc'[p] = "idle"
      <4>1. r # p
        BY <2>3, <3>2 DEF AfterAdd
      <4> QED
        BY <4>1, <1>2, <2>3, <3>2 DEF IInv, OwnKeyPrivate
    <3> QED
      BY <3>1, <3>2 DEF Rewrites
  <2> QED
    BY <1>1, <1>2, <2>2, <2>3 DEF IInv, AllRanked, OwnKeyPrivate
<1> QED
  BY <1>3, <1>4, <1>5

(* A run that begins takes a name nobody has used.                         *)
LEMMA BeginInv ==
  ASSUME IInv, NEW p \in Procs, Begin(p)
  PROVE  DistinctKeys' /\ AllRanked' /\ OwnKeyPrivate' /\ NewestKept'
<1>1. PICK n \in Keeps : keep' = [keep EXCEPT ![p] = n]
  BY DEF Begin
<1>2. /\ clock \in Nat /\ clock' = clock + 1 /\ clock \in Keys /\ clock < MaxClock
      /\ key' = [key EXCEPT ![p] = clock]
      /\ packages' = [packages EXCEPT ![p] = <<>>]
      /\ pc' = [pc EXCEPT ![p] = "upload"]
      /\ UNCHANGED <<remote, file, stored, count, addedAt>>
  BY MaxClockAssumption DEF Begin, Goto, history, IInv, TypeOK, Keys
<1>3. /\ key \in [Procs -> 0 .. MaxClock] /\ keep \in [Procs -> Int]
      /\ packages \in [Procs -> Seq(Keys)] /\ pc \in [Procs -> PCs]
      /\ \A k \in Keys : k \in Nat
  BY DEF IInv, TypeOK, Keys
<1>4. \A q \in Procs \ {p} : /\ key'[q] = key[q] /\ keep'[q] = keep[q]
                             /\ packages'[q] = packages[q] /\ pc'[q] = pc[q]
  BY <1>1, <1>2, <1>3
<1>5. /\ key'[p] = clock /\ keep'[p] = n /\ packages'[p] = <<>> /\ pc'[p] = "upload"
  BY <1>1, <1>2, <1>3
<1>6. addedAt[clock] = 0
  BY <1>2 DEF IInv, DistinctKeys
<1>7. DistinctKeys'
  <2>1. ASSUME NEW q \in Procs, pc'[q] # "idle"
        PROVE  key'[q] < clock' /\ keep'[q] \in Keeps
    <3>1. CASE q = p
      BY <3>1, <1>2, <1>5
    <3>2. CASE q # p
      <4>1. key[q] < clock /\ keep[q] \in Keeps /\ key[q] \in 0 .. MaxClock
        BY <3>2, <2>1, <1>3, <1>4 DEF IInv, DistinctKeys
      <4> QED
        BY <4>1, <3>2, <1>2, <1>4, MaxClockAssumption
    <3> QED
      BY <3>1, <3>2
  <2>2. ASSUME NEW q \in Procs, NEW r \in Procs, q # r, pc'[q] # "idle", pc'[r] # "idle"
        PROVE  key'[q] # key'[r]
    <3>1. \A x \in Procs \ {p} : pc'[x] # "idle" => key'[x] < clock
      BY <1>4 DEF IInv, DistinctKeys
    <3>2. clock \in Nat /\ ~(clock < clock)
      BY <1>2
    <3>3. CASE q # p /\ r # p
      BY <2>2, <3>3, <1>4 DEF IInv, DistinctKeys
    <3> QED
      BY <2>2, <3>1, <3>2, <3>3, <1>5
  <2>3. ASSUME NEW k \in Keys, addedAt'[k] # 0 \/ k \in remote' \/ k \in stored'
        PROVE  k < clock'
    <3>1. k < clock /\ k \in Nat
      BY <2>3, <1>2, <1>3 DEF IInv, DistinctKeys
    <3> QED
      BY <3>1, <1>2
  <2> QED
    BY <2>1, <2>2, <2>3 DEF DistinctKeys
<1>8. AllRanked'
  <2>1. Ranked(addedAt, <<>>)
    BY DEF Ranked
  <2> QED
    BY <2>1, <1>2, <1>4, <1>5 DEF IInv, AllRanked, HasFile
<1>9. OwnKeyPrivate'
  <2>1. \A k : Unlisted(k, <<>>)
    BY DEF Unlisted
  <2> QED
    BY <2>1, <1>2, <1>4, <1>5, <1>6 DEF IInv, OwnKeyPrivate, HasFile, BeforeAdd,
      AfterAdd
<1>10. NewestKept'
  BY <1>2 DEF IInv, NewestKept
<1> QED
  BY <1>7, <1>8, <1>9, <1>10

(* An upload, whether it succeeds or fails, keeps the invariant.           *)
LEMMA UploadInv ==
  ASSUME IInv, NEW p \in Procs, Upload(p) \/ UploadFails(p)
  PROVE  DistinctKeys' /\ AllRanked' /\ OwnKeyPrivate' /\ NewestKept'
<1>1. /\ pc[p] = "upload" /\ key[p] \in Keys /\ key[p] < clock
      /\ pc \in [Procs -> PCs]
  BY DEF Upload, UploadFails, IInv, TypeOK, DistinctKeys
<1>2. /\ remote \subseteq remote' /\ remote' \subseteq remote \cup {key[p]}
      /\ \/ stored' = stored
         \/ stored' = stored \cup {key[p]} /\ key[p] \in remote'
      /\ UNCHANGED <<clock, file, key, keep, packages, count, addedAt>>
  BY DEF Upload, UploadFails, run
<1>3. \A r \in Procs : pc'[r] = pc[r] \/ (r = p /\ pc'[r] \in {"load", "idle"})
  BY <1>1 DEF Upload, UploadFails, Goto
<1>4. DistinctKeys'
  BY <1>1, <1>2, <1>3 DEF IInv, DistinctKeys
<1>5. AllRanked'
  BY <1>2 DEF IInv, AllRanked, HasFile
<1>6. OwnKeyPrivate'
  BY <1>1, <1>2, <1>3 DEF IInv, OwnKeyPrivate, HasFile, BeforeAdd, AfterAdd
<1>7. NewestKept'
  BY <1>2 DEF IInv, NewestKept
<1> QED
  BY <1>4, <1>5, <1>6, <1>7

(* What a deletion knows of the key it deletes. *)
LEMMA DeleteFacts ==
  ASSUME IInv, NEW p \in Procs, DeleteOldest(p)
  PROVE  /\ packages[p] \in Seq(Keys) /\ packages[p] # <<>>
         /\ Ranked(addedAt, packages[p])
         /\ Head(packages[p]) \in Keys
         /\ addedAt[Head(packages[p])] # 0
         /\ keep[p] \in Keeps \ {0}
         /\ count - addedAt[Head(packages[p])] >= keep[p]
         /\ Len(packages[p]) > keep[p]
<1>1. /\ packages[p] \in Seq(Keys) /\ packages[p] # <<>>
      /\ Ranked(addedAt, packages[p]) /\ pc[p] = "prune"
      /\ keep[p] \in Int /\ keep[p] # 0 /\ ~(Len(packages[p]) <= keep[p])
      /\ count \in Nat /\ addedAt \in [Keys -> 0 .. count]
  BY DEF DeleteOldest, NothingToShift, IInv, TypeOK, AllRanked
<1>2. Len(packages[p]) > keep[p]
  BY <1>1, ShiftList
<1>3. keep[p] \in Keeps \ {0}
  BY <1>1 DEF IInv, DistinctKeys
<1> QED
  BY <1>1, <1>2, <1>3, ShiftList, RankedHead

(* The rotation loop keeps the invariant: what it deletes, it may.         *)
LEMMA DeleteInv ==
  ASSUME IInv, NEW p \in Procs, DeleteOldest(p)
  PROVE  DistinctKeys' /\ AllRanked' /\ OwnKeyPrivate' /\ NewestKept'
<1> DEFINE k == Head(packages[p])
<1>1. /\ packages' = [packages EXCEPT ![p] = Tail(packages[p])]
      /\ remote' \in {remote, remote \ {k}}
      /\ UNCHANGED <<clock, file, pc, key, keep, stored, count, addedAt>>
  BY DEF DeleteOldest
<1>2. packages \in [Procs -> Seq(Keys)]
  BY DEF IInv, TypeOK
<1>3. Ranked(addedAt, Tail(packages[p]))
  BY DeleteFacts, RankedShift
<1>4. \A j : Unlisted(j, packages[p]) => Unlisted(j, Tail(packages[p]))
  BY DeleteFacts, RankedShift
<1>5. \A q \in Procs : packages'[q] = IF q = p THEN Tail(packages[p]) ELSE packages[q]
  BY <1>1, <1>2
<1>6. DistinctKeys'
  BY <1>1 DEF IInv, DistinctKeys
<1>7. AllRanked'
  BY <1>1, <1>3, <1>5 DEF IInv, AllRanked, HasFile
<1>8. OwnKeyPrivate'
  BY <1>1, <1>4, <1>5 DEF IInv, OwnKeyPrivate, HasFile
<1>9. NewestKept'
  <2>1. addedAt[k] # 0 /\ \E n \in Keeps \ {0} : count - addedAt[k] >= n
    BY DeleteFacts
  <2> HIDE DEF k
  <2> QED
    BY <2>1, <1>1 DEF IInv, NewestKept
<1> QED
  BY <1>6, <1>7, <1>8, <1>9

(* The inductive step, action by action.                                   *)
LEMMA NextInv == IInv /\ [Next]_vars => IInv'
<1> SUFFICES ASSUME IInv, [Next]_vars PROVE IInv'
  OBVIOUS
<1>1. TypeOK'
  BY NextType DEF IInv
<1>2. ASSUME NEW p \in Procs, Begin(p) \/ Step(p)
      PROVE  DistinctKeys' /\ AllRanked' /\ OwnKeyPrivate' /\ NewestKept'
  <2>1. CASE Begin(p)
    BY <2>1, BeginInv
  <2>2. CASE Upload(p) \/ UploadFails(p)
    BY <2>2, UploadInv
  <2>3. CASE Read(p)
    BY <2>3, ReadAdds, AddsInv
  <2>4. CASE LoadFails(p)
    BY <2>4, LoadFailsAdds, AddsInv
  <2>5. CASE DeleteOldest(p)
    BY <2>5, DeleteInv
  <2>6. CASE \/ Stat(p) \/ Create(p) \/ WriteExample(p) \/ PruneDone(p) \/ Truncate(p)
             \/ OpenFails(p) \/ Write(p) \/ WriteGarbles(p) \/ Crash(p)
    <3>1. TypeOK
      BY DEF IInv
    <3> QED
      BY <2>6, <3>1, RewriteSteps, RewritesInv
  <2> QED
    BY <1>2, <2>1, <2>2, <2>3, <2>4, <2>5, <2>6 DEF Step
<1>3. CASE UNCHANGED vars
  BY <1>1, <1>3 DEF IInv, DistinctKeys, AllRanked, OwnKeyPrivate, NewestKept,
    HasFile,
                    vars, run, history
<1>4. (\E p \in Procs : Begin(p) \/ Step(p)) \/ UNCHANGED vars
  BY DEF Next, Done
<1>5. CASE \E p \in Procs : Begin(p) \/ Step(p)
  <2>1. PICK p \in Procs : Begin(p) \/ Step(p)
    BY <1>5
  <2>2. DistinctKeys' /\ AllRanked' /\ OwnKeyPrivate' /\ NewestKept'
    BY <2>1, <1>2
  <2> QED
    BY <2>2, <1>1 DEF IInv
<1> QED
  BY <1>3, <1>4, <1>5

(* The lists of the cycler are sorted by age and each run's key is its own, *)
(* in every state of any number of concurrent runs (storage/cycler.go).    *)
THEOREM Invariance == Spec => []IInv
  BY InitInv, NextInv, PTL DEF Spec

(* Any number of processes may run the rotation at once, lose each other's *)
(* rewrites of the file, crash, or fail to load it: an uploaded archive is *)
(* deleted only behind "keep" archives added to the history after it.      *)
THEOREM NewestAreKept == Spec => []NewestKept
<1>1. IInv => NewestKept
  BY DEF IInv
<1> QED
  BY <1>1, Invariance, PTL

-----------------------------------------------------------------------------
(* The archive of the run itself.  Here keep must not be negative: with    *)
(* keep < 0 a run shifts its own package off the list as well.             *)

SafeInv == OwnArchiveSafe /\ OwnKeyLast

(* Neither its own deletions nor another run's take a run's archive away.  *)
LEMMA DeleteSparesOwn ==
  ASSUME IInv, SafeInv, Keeps \subseteq Nat, NEW p \in Procs, DeleteOldest(p),
         NEW r \in Procs, pc[r] \in AfterUpload
  PROVE  key[r] # Head(packages[p])
<1> DEFINE s == packages[p]
<1>1. /\ s \in Seq(Keys) /\ s # <<>> /\ Ranked(addedAt, s) /\ addedAt[Head(s)] # 0
      /\ keep[p] \in Nat \ {0} /\ Len(s) > keep[p] /\ pc[p] = "prune"
  BY DeleteFacts DEF DeleteOldest
<1>2. Len(s) \in Nat \ {0} /\ Head(s) = s[1]
  BY <1>1, ShiftList
<1>3. Len(s) > 1
  BY <1>1, <1>2
<1>4. CASE pc[r] \in BeforeAdd
  BY <1>4, <1>1 DEF IInv, OwnKeyPrivate
<1>5. CASE pc[r] \in AfterAdd /\ r # p
  <2>1. Unlisted(key[r], s)
    BY <1>5 DEF IInv, OwnKeyPrivate
  <2>2. 1 \in 1 .. Len(s)
    BY <1>2
  <2> QED
    BY <2>1, <2>2, <1>2 DEF Unlisted
<1>6. CASE r = p
  <2>1. s[Len(s)] = key[p]
    BY <1>1 DEF SafeInv, OwnKeyLast, AfterAdd
  <2>2. 1 \in 1 .. Len(s) /\ Len(s) \in 1 .. Len(s)
    BY <1>2
  <2>3. addedAt[s[1]] + (Len(s) - 1) <= addedAt[s[Len(s)]]
    BY <1>1, <1>3, <2>2 DEF Ranked
  <2>4. s[1] \in Keys /\ addedAt[s[1]] \in Nat
    BY <1>1, <1>2, ShiftList DEF IInv, TypeOK
  <2>5. CASE s[1] = s[Len(s)]
    BY <2>3, <2>4, <2>5, <1>2, <1>3
  <2> QED
    BY <2>1, <2>5, <1>2, <1>6
<1>7. pc[r] \in BeforeAdd \cup AfterAdd
  BY DEF AfterUpload, BeforeAdd, AfterAdd, PCs
<1> QED
  BY <1>4, <1>5, <1>6, <1>7

(* With keep >= 0 the rotation loop leaves the run's own key, the last.    *)
LEMMA DeleteKeepsLast ==
  ASSUME IInv, SafeInv, Keeps \subseteq Nat, NEW p \in Procs, DeleteOldest(p)
  PROVE  OwnKeyLast'
<1> DEFINE s == packages[p]
<1>1. /\ s \in Seq(Keys) /\ s # <<>> /\ keep[p] \in Nat \ {0} /\ Len(s) > keep[p]
  BY DeleteFacts
<1>2. /\ Len(s) \in Nat \ {0} /\ Len(Tail(s)) = Len(s) - 1
      /\ \A i \in 1 .. Len(Tail(s)) : Tail(s)[i] = s[i + 1]
  BY <1>1, ShiftList
<1>3. Len(s) > 1
  BY <1>1, <1>2
<1>4. /\ Len(Tail(s)) \in 1 .. Len(Tail(s)) /\ Len(Tail(s)) > 0
      /\ Len(Tail(s)) + 1 = Len(s)
  BY <1>2, <1>3
<1>5. Tail(s)[Len(Tail(s))] = s[Len(s)]
  BY <1>2, <1>4
<1>6. /\ \A q \in Procs : packages'[q] = IF q = p THEN Tail(s) ELSE packages[q]
      /\ UNCHANGED <<pc, key>>
  BY DEF DeleteOldest, IInv, TypeOK
<1> HIDE DEF s
<1> QED
  BY <1>4, <1>5, <1>6 DEF SafeInv, OwnKeyLast, s

(* The inductive step for the archives of the runs themselves.             *)
LEMMA NextSafe ==
  ASSUME Keeps \subseteq Nat
  PROVE  IInv /\ SafeInv /\ [Next]_vars => SafeInv'
<1> SUFFICES ASSUME IInv, SafeInv, [Next]_vars PROVE SafeInv'
  OBVIOUS
<1> USE DEF BeforeAdd, AfterAdd, AfterUpload, PCs
<1>1. /\ pc \in [Procs -> PCs] /\ packages \in [Procs -> Seq(Keys)]
      /\ key \in [Procs -> 0 .. MaxClock]
  BY DEF IInv, TypeOK
<1>2. ASSUME NEW p \in Procs, Begin(p) PROVE SafeInv'
  <2>1. /\ \A q \in Procs \ {p} : /\ key'[q] = key[q] /\ packages'[q] = packages[q]
                                 /\ pc'[q] = pc[q]
        /\ pc'[p] = "upload" /\ remote' = remote
    BY <1>1, <1>2 DEF Begin, Goto
  <2> QED
    BY <2>1 DEF SafeInv, OwnArchiveSafe, OwnKeyLast
<1>3. ASSUME NEW p \in Procs, Upload(p) \/ UploadFails(p) PROVE SafeInv'
  <2>1. /\ \A q \in Procs \ {p} : pc'[q] = pc[q]
        /\ (pc'[p] = "load" /\ key[p] \in remote') \/ pc'[p] = "idle"
        /\ remote \subseteq remote' /\ UNCHANGED <<key, packages>>
    BY <1>1, <1>3 DEF Upload, UploadFails, Goto, run
  <2> QED
    BY <2>1 DEF SafeInv, OwnArchiveSafe, OwnKeyLast
<1>4. ASSUME NEW p \in Procs, NEW pkgs, Adds(p, pkgs) PROVE SafeInv'
  <2>1. key[p] \in Keys /\ pkgs \in Seq(Keys)
    BY <1>4 DEF IInv, TypeOK, Adds
  <2>2. /\ Len(Append(pkgs, key[p])) > 0
        /\ Append(pkgs, key[p])[Len(Append(pkgs, key[p]))] = key[p]
    BY <2>1, AppendList
  <2>3. /\ \A q \in Procs \ {p} : packages'[q] = packages[q] /\ pc'[q] = pc[q]
        /\ packages'[p] = Append(pkgs, key[p]) /\ pc'[p] = "prune"
        /\ pc[p] \in AfterUpload /\ UNCHANGED <<key, remote>>
    BY <1>1, <1>4 DEF Adds, Add, Goto
  <2> QED
    BY <2>2, <2>3 DEF SafeInv, OwnArchiveSafe, OwnKeyLast
<1>5. ASSUME NEW p \in Procs, DeleteOldest(p) PROVE SafeInv'
  <2>1. OwnKeyLast'
    BY <1>5, DeleteKeepsLast
  <2>2. UNCHANGED <<pc, key>> /\ remote' \in {remote, remote \ {Head(packages[p])}}
    BY <1>5 DEF DeleteOldest
  <2>3. OwnArchiveSafe'
    BY <1>5, <2>2, DeleteSparesOwn DEF SafeInv, OwnArchiveSafe
  <2> QED
    BY <2>1, <2>3 DEF SafeInv
<1>6. ASSUME NEW p \in Procs, Rewrites(p), pc[p] # "upload" PROVE SafeInv'
  <2>1. /\ \A q \in Procs \ {p} : pc'[q] = pc[q]
        /\ pc'[p] \in AfterUpload => pc[p] \in AfterUpload
        /\ pc'[p] \in AfterAdd => pc[p] \in AfterAdd
        /\ UNCHANGED <<key, packages, remote>>
    BY <1>1, <1>6 DEF Rewrites, Goto, run
  <2> QED
    BY <2>1 DEF SafeInv, OwnArchiveSafe, OwnKeyLast
<1>7. CASE UNCHANGED vars
  BY <1>7 DEF SafeInv, OwnArchiveSafe, OwnKeyLast, vars, run
<1>8. ASSUME NEW p \in Procs, Step(p) PROVE SafeInv'
  <2>1. CASE Upload(p) \/ UploadFails(p)
    BY <2>1, <1>3
  <2>2. CASE Read(p) \/ LoadFails(p)
    BY <2>2, <1>4, ReadAdds, LoadFailsAdds
  <2>3. CASE DeleteOldest(p)
    BY <2>3, <1>5
  <2>4. CASE \/ Stat(p) \/ Create(p) \/ WriteExample(p) \/ PruneDone(p) \/ Truncate(p)
             \/ OpenFails(p) \/ Write(p) \/ WriteGarbles(p) \/ Crash(p)
    <3>1. TypeOK
      BY DEF IInv
    <3>2. pc[p] # "upload"
      BY <2>4 DEF Stat, Create, WriteExample, PruneDone, Truncate, OpenFails, Write,
                  WriteGarbles, Crash
    <3> QED
      BY <2>4, <3>1, <3>2, <1>6, RewriteSteps
  <2> QED
    BY <1>8, <2>1, <2>2, <2>3, <2>4 DEF Step
<1>9. (\E p \in Procs : Begin(p) \/ Step(p)) \/ UNCHANGED vars
  BY DEF Next, Done
<1> QED
  BY <1>2, <1>7, <1>8, <1>9

(* A run ends with its archive in the storage, or has not stored it: for   *)
(* any number of concurrent runs, as long as no keep is negative.          *)
THEOREM OwnArchiveStays ==
  ASSUME Keeps \subseteq Nat
  PROVE  Spec => []OwnArchiveSafe
<1>1. Init => SafeInv
  BY DEF Init, SafeInv, OwnArchiveSafe, OwnKeyLast, AfterUpload, AfterAdd
<1>2. IInv /\ SafeInv /\ [Next]_vars => SafeInv'
  BY NextSafe
<1>3. SafeInv => OwnArchiveSafe
  BY DEF SafeInv
<1> QED
  BY <1>1, <1>2, <1>3, Invariance, PTL DEF Spec

-----------------------------------------------------------------------------
(* Refinement *)

(* Each step of a run is a step of module Retention, or a stutter there.   *)
LEMMA StepRefines ==
  ASSUME Keeps \subseteq Nat, IInv, SafeInv, [Next]_vars
  PROVE  [R!Next]_(R!retVars)
<1> USE DEF R!retVars
<1>1. ASSUME NEW p \in Procs, Upload(p) \/ UploadFails(p) PROVE [R!Next]_(R!retVars)
  <2>1. /\ key[p] \in Keys /\ addedAt[key[p]] = 0
        /\ remote' \in {remote, remote \cup {key[p]}}
        /\ UNCHANGED <<count, addedAt>>
    BY <1>1 DEF Upload, UploadFails, IInv, TypeOK, OwnKeyPrivate, BeforeAdd
  <2>2. CASE key[p] \in remote
    BY <2>1, <2>2
  <2>3. CASE key[p] \notin remote
    BY <2>1, <2>3 DEF R!Next, R!Store
  <2> QED
    BY <2>2, <2>3
<1>2. ASSUME NEW p \in Procs, NEW pkgs, Adds(p, pkgs) PROVE [R!Next]_(R!retVars)
  <2>1. key[p] \in Keys /\ addedAt[key[p]] = 0 /\ key[p] \in remote
    BY <1>2 DEF Adds, IInv, TypeOK, OwnKeyPrivate, SafeInv, OwnArchiveSafe,
      BeforeAdd,
                AfterUpload, PCs
  <2> QED
    BY <1>2, <2>1 DEF Adds, Add, R!Next, R!Record
<1>3. ASSUME NEW p \in Procs, DeleteOldest(p) PROVE [R!Next]_(R!retVars)
  <2> DEFINE k == Head(packages[p])
  <2>1. /\ k \in Keys /\ addedAt[k] # 0
        /\ \E n \in Keeps \ {0} : count - addedAt[k] >= n
    BY <1>3, DeleteFacts
  <2>2. remote' \in {remote, remote \ {k}} /\ UNCHANGED <<count, addedAt>>
    BY <1>3 DEF DeleteOldest
  <2> HIDE DEF k
  <2>3. CASE k \in remote /\ remote' = remote \ {k}
    BY <2>1, <2>2, <2>3 DEF R!Next, R!Expire
  <2>4. CASE k \notin remote \/ remote' = remote
    BY <2>2, <2>4
  <2> QED
    BY <2>2, <2>3, <2>4
<1>4. ASSUME NEW p \in Procs, Begin(p) \/ Rewrites(p) PROVE [R!Next]_(R!retVars)
  BY <1>4 DEF Begin, Rewrites, history
<1>5. CASE UNCHANGED vars
  BY <1>5 DEF vars, history
<1>6. ASSUME NEW p \in Procs, Step(p) PROVE [R!Next]_(R!retVars)
  <2>1. CASE Read(p) \/ LoadFails(p)
    BY <2>1, <1>2, ReadAdds, LoadFailsAdds
  <2>2. CASE \/ Stat(p) \/ Create(p) \/ WriteExample(p) \/ PruneDone(p) \/ Truncate(p)
             \/ OpenFails(p) \/ Write(p) \/ WriteGarbles(p) \/ Crash(p)
    <3>1. TypeOK
      BY DEF IInv
    <3> QED
      BY <2>2, <3>1, <1>4, RewriteSteps
  <2> QED
    BY <1>6, <1>1, <1>3, <2>1, <2>2 DEF Step
<1>7. (\E p \in Procs : Begin(p) \/ Step(p)) \/ UNCHANGED vars
  BY DEF Next, Done
<1> QED
  BY <1>4, <1>5, <1>6, <1>7

(* The runs of any number of processes, with their crashes and failed file *)
(* system calls, implement the rotation promised by module Retention.      *)
THEOREM CyclerImplementsRetention ==
  ASSUME Keeps \subseteq Nat
  PROVE  Spec => ImplementsRetention
<1>1. Init => R!Init
  BY DEF Init, R!Init
<1>2. Init => SafeInv
  BY DEF Init, SafeInv, OwnArchiveSafe, OwnKeyLast, AfterUpload, AfterAdd
<1>3. IInv /\ SafeInv /\ [Next]_vars => SafeInv'
  BY NextSafe
<1>4. IInv /\ SafeInv /\ [Next]_vars => [R!Next]_(R!retVars)
  BY StepRefines
<1> QED
  BY <1>1, <1>2, <1>3, <1>4, Invariance, PTL DEF Spec, ImplementsRetention, R!Spec
=============================================================================
