------------------------- MODULE DaemonStatusProofs -------------------------
(***************************************************************************)
(* Proofs about module DaemonStatus, for any processes, groups, ids and    *)
(* answers of supervisor.                                                  *)
(*                                                                         *)
(* The argument.  While the answer on all is grouped, each group's entry   *)
(* lists the members that have been dealt with, once each (Snapshot).  An  *)
(* answer on an id is in its group's entry until a failed lookup of the    *)
(* group's own name takes its place (Accounted).                           *)
(***************************************************************************)
EXTENDS DaemonStatus, FiniteSetTheorems, SequenceTheorems, TLAPS

Entries == [error : BOOLEAN, procs : Seq(Infos), uptime : 0 .. MaxTime]

Grades == {"fully_running", "partially_running", "not_running"}

Typed ==
  /\ status \in [DOMAIN status -> Entries]
  /\ answers \in Seq(Procs \cup {None})
  /\ asked \in Seq(Ids)

(* No process has been started in the future. *)
Started == \A p \in Procs : sup[p].start <= clock

(* Where the loops are, and what is to be sent. *)
Located ==
  /\ next = Len(answers) /\ next <= Len(asked)
  /\ pc = "ask" => asked = <<>> \/ next < Len(asked)
  /\ pc \in {"send", "done"} => next = Len(asked)
  /\ pc = "group" => asked = <<>>
  /\ pc # "group" => left = {}
  /\ pc # "done" => hook = "none"

(* The uptime of an entry is one of its processes' and none is higher. *)
Highest ==
  \A k \in DOMAIN status :
    /\ \/ status[k].uptime = 0
       \/ \E info \in Range(status[k].procs) : status[k].uptime = info.uptime
    /\ \A info \in Range(status[k].procs) : info.uptime <= status[k].uptime

(* The members of a group that have been dealt with. *)
Members(k) == {p \in Procs \ left : Group(p) = k}

(* What the loop over the answer on all has grouped so far. *)
Snapshot ==
  /\ asked = <<>> /\ pc = "ask" => DOMAIN status = {}
  /\ asked = <<>> /\ (pc \in {"group", "send"} \/ Reported) =>
       /\ shot = sup
       /\ \A k \in Keys :
            /\ k \in DOMAIN status <=> Members(k) # {}
            /\ k \in DOMAIN status =>
                 /\ Listed(k) = Members(k)
                 /\ Len(status[k].procs) = Cardinality(Members(k))
                 /\ \A info \in Range(status[k].procs) :
                      info.running = sup[info.proc].running

(* The i-th id is accounted for. *)
Accounted(i) ==
  IF answers[i] = None
    THEN asked[i] \in DOMAIN status /\ status[asked[i]].error
    ELSE LET g == Group(answers[i]) IN
           \/ g \in DOMAIN status /\ answers[i] \in Listed(g)
           \/ \E j \in i + 1 .. next : asked[j] = g /\ answers[j] = None

AllAccounted == \A i \in 1 .. next : Accounted(i)

(* What has been posted is the grade of every entry.                       *)
Graded ==
  /\ hook = "none" => report = <<>>
  /\ hook # "none" => report = [k \in DOMAIN status |-> Grade(status[k])]

IInv ==
  /\ TypeOK /\ Typed /\ Started /\ Located
  /\ Highest /\ Snapshot /\ AllAccounted /\ Graded

-----------------------------------------------------------------------------
(* Entries *)

(* append() adds one element.                                              *)
LEMMA RangeAppend ==
  ASSUME NEW S, NEW s \in Seq(S), NEW r \in S
  PROVE  /\ Append(s, r) \in Seq(S)
         /\ Len(Append(s, r)) = Len(s) + 1
         /\ Append(s, r)[Len(s) + 1] = r
         /\ \A i \in 1 .. Len(s) : Append(s, r)[i] = s[i]
         /\ Range(Append(s, r)) = Range(s) \cup {r}
<1>1. /\ Append(s, r) \in Seq(S)
      /\ Len(s) \in Nat /\ Len(Append(s, r)) = Len(s) + 1
      /\ Append(s, r)[Len(s) + 1] = r
      /\ \A i \in 1 .. Len(s) : Append(s, r)[i] = s[i]
  OBVIOUS
<1>2. DOMAIN s = 1 .. Len(s) /\ DOMAIN Append(s, r) = 1 .. Len(s) + 1
  OBVIOUS
<1>3. ASSUME NEW x \in Range(Append(s, r)) PROVE x \in Range(s) \cup {r}
  <2>1. PICK i \in 1 .. Len(s) + 1 : x = Append(s, r)[i]
    BY DEF Range
  <2>2. i = Len(s) + 1 \/ i \in 1 .. Len(s)
    OBVIOUS
  <2> QED
    BY DEF Range
<1>4. ASSUME NEW x \in Range(s) PROVE x \in Range(Append(s, r))
  <2>1. PICK i \in 1 .. Len(s) : x = s[i]
    BY DEF Range
  <2>2. i \in 1 .. Len(s) + 1 /\ x = Append(s, r)[i]
    BY <2>1
  <2> QED
    BY DEF Range
<1>5. r \in Range(Append(s, r))
  <2>1. Len(s) + 1 \in 1 .. Len(s) + 1
    OBVIOUS
  <2> QED
    BY DEF Range
<1> QED
  BY <1>3, <1>4, <1>5

(* The map with an entry put in.                                           *)
LEMMA PutEntry ==
  ASSUME NEW st, NEW k, NEW entry
  PROVE  /\ DOMAIN Put(st, k, entry) = DOMAIN st \cup {k}
         /\ Put(st, k, entry)[k] = entry
         /\ \A j \in DOMAIN st : j # k => Put(st, k, entry)[j] = st[j]
  BY DEF Put

(* An entry put in a map of entries leaves a map of entries.               *)
LEMMA PutTyped ==
  ASSUME NEW st, NEW k, NEW entry, NEW S, st \in [DOMAIN st -> S], entry \in S
  PROVE  Put(st, k, entry) \in [DOMAIN Put(st, k, entry) -> S]
  BY DEF Put

(* A new entry has no processes.                                           *)
LEMMA NoProcsEntry ==
  ASSUME NEW error \in BOOLEAN
  PROVE  /\ NoProcs(error) \in Entries /\ NoProcs(error).error = error
         /\ NoProcs(error).procs = <<>> /\ NoProcs(error).uptime = 0
  BY BoundsAssumption DEF NoProcs, Entries

(* What updateDaemonGroupStatus starts from: the entry there is, or a new  *)
(* one.                                                                    *)
LEMMA OldEntry ==
  ASSUME Typed, NEW k
  PROVE  /\ EntryOf(status, k) \in Entries
         /\ k \in DOMAIN status => EntryOf(status, k) = status[k]
         /\ k \notin DOMAIN status => EntryOf(status, k) = NoProcs(FALSE)
  BY NoProcsEntry DEF EntryOf, Typed

(* What is said of a process is well formed: its uptime is not negative,   *)
(* for it has not been started in the future.                              *)
LEMMA InfoOfProcess ==
  ASSUME TypeOK, Started, NEW p \in Procs
  PROVE  /\ Info(p) \in Infos /\ Info(p).proc = p /\ Info(p).running = sup[p].running
         /\ Group(p) \in Keys
<1>1. sup[p].running \in BOOLEAN /\ sup[p].start \in 0 .. MaxTime /\ clock \in 1 .. MaxTime
  BY DEF TypeOK
<1>2. Uptime(p) \in 0 .. MaxTime
  BY <1>1, BoundsAssumption DEF Uptime, Started
<1> QED
  BY <1>1, <1>2 DEF Info, Infos, Keys

(* updateDaemonGroupStatus appends the process to its group's entry and    *)
(* leaves the others.                                                      *)
LEMMA UpdatedStatus ==
  ASSUME TypeOK, Typed, Started, NEW p \in Procs, status' = Updated(status, Info(p))
  PROVE  /\ DOMAIN status' = DOMAIN status \cup {Group(p)}
         /\ \A j \in DOMAIN status : j # Group(p) => status'[j] = status[j]
         /\ status' \in [DOMAIN status' -> Entries]
         /\ status'[Group(p)].error = EntryOf(status, Group(p)).error
         /\ Range(status'[Group(p)].procs)
              = Range(EntryOf(status, Group(p)).procs) \cup {Info(p)}
         /\ Len(status'[Group(p)].procs) = Len(EntryOf(status, Group(p)).procs) + 1
         /\ status'[Group(p)].uptime = IF Info(p).uptime > EntryOf(status, Group(p)).uptime
                                        THEN Info(p).uptime
                                        ELSE EntryOf(status, Group(p)).uptime
<1> DEFINE info  == Info(p)
           g     == Group(p)
           old   == EntryOf(status, g)
           entry == [old EXCEPT !.procs  = Append(@, info),
                                !.uptime = IF info.uptime > @ THEN info.uptime ELSE @]
<1>1. old \in Entries
  BY OldEntry
<1>2. status' = Put(status, g, entry) /\ info \in Infos
  BY InfoOfProcess DEF Updated
<1> HIDE DEF info, g, old
<1>3. /\ old.error \in BOOLEAN /\ old.procs \in Seq(Infos) /\ old.uptime \in 0 .. MaxTime
      /\ info.uptime \in 0 .. MaxTime
  BY <1>1, <1>2 DEF Entries, Infos
<1>4. /\ entry.error = old.error /\ entry.procs = Append(old.procs, info)
      /\ entry.uptime = IF info.uptime > old.uptime THEN info.uptime ELSE old.uptime
  OBVIOUS
<1>5. entry \in Entries
  <2>1. Append(old.procs, info) \in Seq(Infos)
    BY <1>2, <1>3
  <2> QED
    BY <1>1, <1>3, <2>1 DEF Entries
<1> HIDE DEF entry
<1>6. /\ Range(entry.procs) = Range(old.procs) \cup {info}
      /\ Len(entry.procs) = Len(old.procs) + 1
  BY <1>2, <1>3, <1>4, RangeAppend
<1>7. status' \in [DOMAIN status' -> Entries]
  BY <1>2, <1>5 DEF Put, Typed
<1>8. /\ status'[g] = entry /\ DOMAIN status' = DOMAIN status \cup {g}
      /\ \A j \in DOMAIN status : j # g => status'[j] = status[j]
  BY <1>2 DEF Put
<1>9. /\ DOMAIN status' = DOMAIN status \cup {g}
      /\ \A j \in DOMAIN status : j # g => status'[j] = status[j]
      /\ status' \in [DOMAIN status' -> Entries]
      /\ status'[g].error = old.error
      /\ Range(status'[g].procs) = Range(old.procs) \cup {info}
      /\ Len(status'[g].procs) = Len(old.procs) + 1
      /\ status'[g].uptime = IF info.uptime > old.uptime THEN info.uptime ELSE old.uptime
  BY <1>4, <1>6, <1>7, <1>8
<1> QED
  BY <1>9 DEF info, g, old


-----------------------------------------------------------------------------
(* Every step keeps every part of the invariant *)

(* A lookup that failed, or one that found a process.                      *)
Lookup(p) ==
  /\ pc = "ask" /\ next < Len(asked)
  /\ p = ProcOf[asked[next + 1]] /\ p # None
  /\ status' = Updated(status, Info(p))
  /\ answers' = Append(answers, p)
  /\ next' = next + 1
  /\ pc' = IF next' = Len(asked) THEN "send" ELSE "ask"
  /\ UNCHANGED <<supervisor, asked, left, report, hook, result, shot>>

LookupFails ==
  /\ pc = "ask" /\ next < Len(asked)
  /\ status' = Put(status, asked[next + 1], NoProcs(TRUE))
  /\ answers' = Append(answers, None)
  /\ next' = next + 1
  /\ pc' = IF next' = Len(asked) THEN "send" ELSE "ask"
  /\ UNCHANGED <<supervisor, asked, left, report, hook, result, shot>>

(* One turn of the loop over the answer on all.                            *)
Turn(p) ==
  /\ pc = "group" /\ p \in left
  /\ status' = Updated(status, Info(p))
  /\ left' = left \ {p}
  /\ pc' = IF left' = {} THEN "send" ELSE "group"
  /\ UNCHANGED <<supervisor, asked, next, report, hook, result, history>>

(* The steps: those of supervisor, the question on all, a turn of the loop *)
(* over its answer, a lookup that finds or fails, and the post.            *)
LEMMA StepKinds ==
  ASSUME TypeOK, Typed, Located, [Next]_vars
  PROVE  \/ Tick \/ (\E p \in Procs : Switch(p)) \/ AskAll \/ (\E p \in Procs : Turn(p))
         \/ (\E p \in Procs : Lookup(p)) \/ LookupFails \/ Send \/ UNCHANGED vars
<1>1. CASE GroupNext
  BY <1>1 DEF GroupNext, Turn, TypeOK
<1>2. CASE AskNext
  <2>1. asked[next + 1] \in Ids
    <3>1. next \in Nat /\ next < Len(asked) /\ Len(asked) \in Nat
      BY <1>2 DEF AskNext, TypeOK
    <3>2. next + 1 \in 1 .. Len(asked)
      BY <3>1
    <3> QED
      BY <3>2 DEF Typed
  <2>2. ProcOf[asked[next + 1]] \in Procs \cup {None}
    BY <2>1, NamesAssumption
  <2> QED
    BY <1>2, <2>2 DEF AskNext, Lookup, LookupFails
<1> QED
  BY <1>1, <1>2 DEF Next, Rest

(* The id a lookup is about.                                               *)
LEMMA IdAsked ==
  ASSUME TypeOK, Typed, Located, next < Len(asked)
  PROVE  /\ next \in Nat /\ Len(asked) \in Nat /\ next + 1 \in 1 .. Len(asked)
         /\ asked[next + 1] \in Ids /\ asked[next + 1] \in Keys
         /\ asked # <<>> /\ next + 1 <= MaxIds
<1>1. next \in Nat /\ Len(asked) \in Nat /\ next + 1 \in 1 .. Len(asked)
  BY DEF TypeOK
<1>2. asked[next + 1] \in Ids
  BY <1>1 DEF Typed
<1>3. Len(asked) <= MaxIds
  <2>1. PICK n \in 0 .. MaxIds : asked \in [1 .. n -> Ids]
    BY DEF TypeOK, Asked
  <2>2. Len(asked) = n
    BY <2>1
  <2> QED
    BY <2>2
<1>4. asked # <<>>
  <2>1. Len(asked) # Len(<<>>)
    BY <1>1
  <2> QED
    BY <2>1
<1> QED
  BY <1>1, <1>2, <1>3, BoundsAssumption DEF Keys

(* Every step leaves a map of entries and a sequence of answers.           *)
LEMMA TypedStep ==
  ASSUME TypeOK, Typed, Started, Located, [Next]_vars
  PROVE  Typed'
<1>1. ASSUME NEW p \in Procs, Turn(p) \/ Lookup(p) PROVE Typed'
  <2>1. status' = Updated(status, Info(p)) /\ asked' = asked
    BY <1>1 DEF Turn, Lookup
  <2>2. status' \in [DOMAIN status' -> Entries]
    BY <2>1, UpdatedStatus
  <2>3. answers' \in Seq(Procs \cup {None})
    <3>1. p \in Procs \cup {None} /\ answers \in Seq(Procs \cup {None})
      BY DEF Typed
    <3>2. answers' = answers \/ answers' = Append(answers, p)
      BY <1>1 DEF Turn, Lookup, history
    <3> QED
      BY <3>1, <3>2
  <2> QED
    BY <2>1, <2>2, <2>3 DEF Typed
<1>2. CASE LookupFails
  <2>1. status' \in [DOMAIN status' -> Entries]
    BY <1>2, NoProcsEntry, PutTyped DEF LookupFails, Typed
  <2>2. answers' \in Seq(Procs \cup {None})
    <3>1. None \in Procs \cup {None} /\ answers \in Seq(Procs \cup {None})
      BY DEF Typed
    <3> QED
      BY <1>2, <3>1 DEF LookupFails
  <2> QED
    BY <1>2, <2>1, <2>2 DEF LookupFails, Typed
<1>3. CASE Tick \/ (\E p \in Procs : Switch(p)) \/ AskAll \/ Send \/ UNCHANGED vars
  BY <1>3 DEF Tick, Switch, AskAll, Send, vars, history, Typed
<1> QED
  BY <1>1, <1>2, <1>3, StepKinds

(* Time does not go back.                                                  *)
LEMMA StartedStep ==
  ASSUME TypeOK, Typed, Started, Located, [Next]_vars
  PROVE  Started'
<1>0. clock \in Nat /\ \A p \in Procs : sup[p].start \in Nat
  BY DEF TypeOK
<1>1. CASE Tick
  BY <1>0, <1>1 DEF Tick, Started
<1>2. ASSUME NEW p \in Procs, Switch(p) PROVE Started'
  <2>1. clock' = clock /\ \A q \in Procs : sup'[q].start \in {sup[q].start, clock}
    BY <1>2 DEF Switch
  <2> QED
    BY <1>0, <2>1 DEF Started
<1>3. CASE \/ AskAll \/ Send \/ UNCHANGED vars \/ LookupFails
           \/ \E p \in Procs : Turn(p) \/ Lookup(p)
  BY <1>3 DEF AskAll, Send, vars, LookupFails, Turn, Lookup, supervisor, Started
<1> QED
  BY <1>1, <1>2, <1>3, StepKinds

(* As many ids have been dealt with as there are answers; the loops end    *)
(* when nothing is left of what was asked.                                 *)
LEMMA LocatedStep ==
  ASSUME TypeOK, Typed, Started, Located, [Next]_vars
  PROVE  Located'
<1>0. /\ next \in Nat /\ Len(asked) \in Nat /\ answers \in Seq(Procs \cup {None})
      /\ asked = <<>> <=> Len(asked) = 0
  BY DEF TypeOK, Typed
<1>1. CASE Tick \/ \E p \in Procs : Switch(p)
  BY <1>1 DEF Tick, Switch, history, Located
<1>2. CASE AskAll
  BY <1>2 DEF AskAll, Located
<1>3. ASSUME NEW p \in Procs, Turn(p) PROVE Located'
  BY <1>3 DEF Turn, history, Located
<1>4. ASSUME NEW p \in Procs \cup {None}, LookupFails \/ Lookup(p), answers' = Append(answers, p)
      PROVE  Located'
  <2>1. Len(answers') = Len(answers) + 1
    BY <1>4
  <2>2. /\ pc = "ask" /\ next < Len(asked) /\ next' = next + 1
        /\ UNCHANGED <<asked, left, hook>>
        /\ pc' = IF next' = Len(asked) THEN "send" ELSE "ask"
    BY <1>4 DEF Lookup, LookupFails
  <2>3. next = Len(answers) /\ left = {} /\ hook = "none"
    BY <2>2 DEF Located
  <2>4. next' = Len(answers') /\ next' <= Len(asked')
    BY <2>1, <2>2, <2>3
  <2>5. /\ (pc' = "ask" /\ next' < Len(asked')) \/ (pc' = "send" /\ next' = Len(asked'))
        /\ left' = {} /\ hook' = "none"
    BY <2>2, <2>3
  <2> QED
    BY <2>4, <2>5 DEF Located
<1>5. CASE Send
  BY <1>5 DEF Send, history, Located
<1>6. CASE UNCHANGED vars
  BY <1>6 DEF vars, history, Located
<1> QED
  BY <1>1, <1>2, <1>3, <1>4, <1>5, <1>6, StepKinds DEF Lookup, LookupFails

(* The uptime of an entry goes up to that of the process appended to it.   *)
LEMMA HighestStep ==
  ASSUME TypeOK, Typed, Started, Located, Highest, [Next]_vars
  PROVE  Highest'
<1>1. ASSUME NEW p \in Procs, Turn(p) \/ Lookup(p) PROVE Highest'
  <2> DEFINE g    == Group(p)
             old  == EntryOf(status, g)
             info == Info(p)
  <2>1. /\ info \in Infos /\ info.proc = p /\ info.uptime \in 0 .. MaxTime
    BY InfoOfProcess DEF Infos
  <2>2. status' = Updated(status, info)
    BY <1>1 DEF Turn, Lookup
  <2>3. /\ DOMAIN status' = DOMAIN status \cup {g}
        /\ \A j \in DOMAIN status : j # g => status'[j] = status[j]
        /\ Range(status'[g].procs) = Range(old.procs) \cup {info}
        /\ status'[g].uptime = IF info.uptime > old.uptime THEN info.uptime ELSE old.uptime
    BY <2>2, UpdatedStatus
  <2>4. old \in Entries /\ old.uptime \in 0 .. MaxTime /\ Range(old.procs) \subseteq Infos
    <3>1. old \in Entries
      BY OldEntry
    <3> QED
      BY <3>1, RangeOfSeq DEF Entries
  <2>5. /\ old.uptime = 0 \/ \E i \in Range(old.procs) : old.uptime = i.uptime
        /\ \A i \in Range(old.procs) : i.uptime <= old.uptime
    <3>1. CASE g \in DOMAIN status
      BY <3>1, OldEntry DEF Highest
    <3>2. CASE g \notin DOMAIN status
      <4>1. old.procs = <<>> /\ old.uptime = 0
        BY <3>2, OldEntry, NoProcsEntry
      <4>2. Range(<<>>) = {}
        BY DEF Range
      <4> QED
        BY <4>1, <4>2
    <3> QED
      BY <3>1, <3>2
  <2> HIDE DEF g, old, info
  <2>6. /\ status'[g].uptime = 0
           \/ \E i \in Range(status'[g].procs) : status'[g].uptime = i.uptime
        /\ \A i \in Range(status'[g].procs) : i.uptime <= status'[g].uptime
    <3>1. \A i \in Range(old.procs) : i.uptime \in Int
      BY <2>4 DEF Infos
    <3>2. old.uptime \in Int /\ info.uptime \in Int
      BY <2>1, <2>4
    <3>3. CASE info.uptime > old.uptime
      <4>1. status'[g].uptime = info.uptime
        BY <2>3, <3>3
      <4>2. \A i \in Range(old.procs) : i.uptime <= info.uptime
        BY <2>5, <3>1, <3>2, <3>3
      <4> QED
        BY <2>3, <3>2, <4>1, <4>2
    <3>4. CASE ~(info.uptime > old.uptime)
      <4>1. status'[g].uptime = old.uptime /\ info.uptime <= old.uptime
        BY <2>3, <3>2, <3>4
      <4> QED
        BY <2>3, <2>5, <4>1
    <3> QED
      BY <3>3, <3>4
  <2> QED
    BY <2>3, <2>6 DEF Highest
<1>2. CASE LookupFails
  <2> DEFINE id == asked[next + 1]
  <2>1. status' = Put(status, id, NoProcs(TRUE))
    BY <1>2 DEF LookupFails
  <2>2. /\ DOMAIN status' = DOMAIN status \cup {id} /\ status'[id] = NoProcs(TRUE)
        /\ \A j \in DOMAIN status : j # id => status'[j] = status[j]
    BY <2>1 DEF Put
  <2>3. NoProcs(TRUE).uptime = 0 /\ Range(NoProcs(TRUE).procs) = {}
    <3>1. Range(<<>>) = {}
      BY DEF Range
    <3> QED
      BY <3>1, NoProcsEntry
  <2> HIDE DEF id
  <2> QED
    BY <2>2, <2>3 DEF Highest
<1>3. CASE Tick \/ (\E p \in Procs : Switch(p)) \/ AskAll \/ Send \/ UNCHANGED vars
  BY <1>3 DEF Tick, Switch, AskAll, Send, vars, Highest
<1> QED
  BY <1>1, <1>2, <1>3, StepKinds

(* A member is in its group's entry once, from the turn it is dealt with.  *)
LEMMA SnapshotStep ==
  ASSUME TypeOK, Typed, Started, Located, Snapshot, [Next]_vars
  PROVE  Snapshot'
<1>1. CASE Tick \/ \E p \in Procs : Switch(p)
  BY <1>1 DEF Tick, Switch, Snapshot, Reported
<1>2. CASE AskAll
  <2>1. asked = <<>> /\ DOMAIN status = {} /\ UNCHANGED <<status, sup, asked, hook>>
    BY <1>2 DEF AskAll, Snapshot, supervisor
  <2>2. pc' = "done" \/ (left' = Procs /\ shot' = sup /\ pc' # "ask")
    BY <1>2 DEF AskAll
  <2>3. CASE pc' = "done" /\ ~Reported'
    BY <2>3 DEF Snapshot
  <2>4. hook = "none"
    BY <1>2 DEF AskAll, Located
  <2>5. CASE left' = Procs /\ shot' = sup /\ pc' # "ask"
    <3>1. \A k \in Keys : Members(k)' = {}
      BY <2>5 DEF Members
    <3> QED
      BY <2>1, <2>5, <3>1 DEF Snapshot
  <2> QED
    BY <2>1, <2>2, <2>3, <2>4, <2>5 DEF Reported
<1>3. ASSUME NEW p \in Procs, Turn(p) PROVE Snapshot'
  <2> DEFINE g    == Group(p)
             old  == EntryOf(status, g)
             info == Info(p)
  <2>1. /\ pc = "group" /\ p \in left /\ left' = left \ {p} /\ asked = <<>>
        /\ UNCHANGED <<sup, shot, asked>> /\ pc' \in {"send", "group"}
        /\ status' = Updated(status, info)
    BY <1>3 DEF Turn, Located, supervisor, history
  <2>2. info \in Infos /\ info.proc = p /\ info.running = sup[p].running /\ g \in Keys
    BY InfoOfProcess
  <2>3. /\ DOMAIN status' = DOMAIN status \cup {g}
        /\ \A j \in DOMAIN status : j # g => status'[j] = status[j]
        /\ Range(status'[g].procs) = Range(old.procs) \cup {info}
        /\ Len(status'[g].procs) = Len(old.procs) + 1
    BY <2>1, UpdatedStatus
  <2>4. /\ shot = sup
        /\ \A k \in Keys :
            /\ k \in DOMAIN status <=> Members(k) # {}
            /\ k \in DOMAIN status =>
                 /\ Listed(k) = Members(k)
                 /\ Len(status[k].procs) = Cardinality(Members(k))
                 /\ \A i \in Range(status[k].procs) : i.running = sup[i.proc].running
    BY <2>1 DEF Snapshot
  <2>5. /\ {i.proc : i \in Range(old.procs)} = Members(g)
        /\ Len(old.procs) = Cardinality(Members(g))
        /\ \A i \in Range(old.procs) : i.running = sup[i.proc].running
    <3>1. CASE g \in DOMAIN status
      BY <2>2, <2>4, <3>1, OldEntry DEF Listed
    <3>2. CASE g \notin DOMAIN status
      <4>1. old.procs = <<>> /\ Members(g) = {}
        BY <2>2, <2>4, <3>2, OldEntry, NoProcsEntry
      <4>2. Range(<<>>) = {} /\ Len(<<>>) = 0
        BY DEF Range
      <4> QED
        BY <4>1, <4>2, FS_EmptySet
    <3> QED
      BY <3>1, <3>2
  <2>6. Members(g)' = Members(g) \cup {p} /\ p \notin Members(g)
    BY <2>1 DEF Members
  <2>7. Cardinality(Members(g)') = Cardinality(Members(g)) + 1
    <3>1. IsFiniteSet(Members(g))
      BY ProcsAssumption, FS_Subset DEF Members
    <3> QED
      BY <2>6, <3>1, FS_AddElement
  <2>8. \A k \in Keys : k # g => Members(k)' = Members(k)
    BY <2>1 DEF Members
  <2> HIDE DEF g, old, info
  <2>9. /\ Listed(g)' = Members(g)' /\ g \in DOMAIN status' /\ Members(g)' # {}
        /\ Len(status'[g].procs) = Cardinality(Members(g)')
        /\ \A i \in Range(status'[g].procs) : i.running = sup[i.proc].running
    BY <2>2, <2>3, <2>5, <2>6, <2>7 DEF Listed
  <2>10. ASSUME NEW k \in Keys, k # g
         PROVE  /\ k \in DOMAIN status' <=> Members(k)' # {}
                /\ k \in DOMAIN status' =>
                     /\ Listed(k)' = Members(k)'
                     /\ Len(status'[k].procs) = Cardinality(Members(k)')
                     /\ \A i \in Range(status'[k].procs) : i.running = sup[i.proc].running
    BY <2>3, <2>4, <2>8, <2>10 DEF Listed
  <2>11. g' = g
    OBVIOUS
  <2> QED
    BY <2>1, <2>9, <2>10 DEF Snapshot
<1>4. CASE LookupFails \/ \E p \in Procs : Lookup(p)
  <2>1. asked # <<>> /\ asked' = asked
    BY <1>4, IdAsked DEF LookupFails, Lookup
  <2> QED
    BY <2>1 DEF Snapshot
<1>5. CASE Send
  BY <1>5 DEF Send, supervisor, history, Snapshot, Members, Listed
<1>6. CASE UNCHANGED vars
  BY <1>6 DEF vars, supervisor, history, Snapshot, Reported, Members, Listed
<1> QED
  BY <1>1, <1>2, <1>3, <1>4, <1>5, <1>6, StepKinds
(* An id that has been dealt with stays accounted for: an append keeps the *)
(* entry's error and processes, and a failed lookup takes the place of its *)
(* own key's entry only.                                                   *)
LEMMA AllAccountedStep ==
  ASSUME TypeOK, Typed, Started, Located, AllAccounted, [Next]_vars
  PROVE  AllAccounted'
<1>1. CASE Tick \/ (\E p \in Procs : Switch(p)) \/ AskAll \/ Send \/ UNCHANGED vars
  BY <1>1 DEF Tick, Switch, AskAll, Send, vars, history, AllAccounted,
    Accounted, Listed
<1>2. ASSUME NEW p \in Procs, Turn(p) PROVE AllAccounted'
  <2>1. next' = next /\ next = 0
    BY <1>2 DEF Turn, Located
  <2> QED
    BY <2>1 DEF AllAccounted
<1>3. ASSUME NEW p \in Procs, Lookup(p) PROVE AllAccounted'
  <2>1. /\ next \in Nat /\ next' = next + 1 /\ asked' = asked /\ p # None
        /\ answers' = Append(answers, p) /\ status' = Updated(status, Info(p))
    BY <1>3, IdAsked DEF Lookup
  <2>2. /\ \A i \in 1 .. next : answers'[i] = answers[i]
        /\ answers'[next + 1] = p
    <3>1. answers \in Seq(Procs \cup {None}) /\ p \in Procs \cup {None} /\ next = Len(answers)
      BY DEF Typed, Located
    <3> QED
      BY <2>1, <3>1
  <2>3. \A k \in DOMAIN status :
          /\ k \in DOMAIN status' /\ status'[k].error = status[k].error
          /\ Listed(k) \subseteq Listed(k)'
    <3>1. \A k \in DOMAIN status : k # Group(p) => k \in DOMAIN status' /\ status'[k] = status[k]
      BY <2>1, UpdatedStatus
    <3>2. /\ Group(p) \in DOMAIN status'
          /\ status'[Group(p)].error = EntryOf(status, Group(p)).error
          /\ Range(EntryOf(status, Group(p)).procs) \subseteq Range(status'[Group(p)].procs)
      BY <2>1, UpdatedStatus
    <3>3. Group(p) \in DOMAIN status => EntryOf(status, Group(p)) = status[Group(p)]
      BY OldEntry
    <3> QED
      BY <3>1, <3>2, <3>3 DEF Listed
  <2>4. Group(p) \in DOMAIN status' /\ p \in Listed(Group(p))'
    <3>1. Group(p) \in DOMAIN status' /\ Info(p) \in Range(status'[Group(p)].procs)
      BY <2>1, UpdatedStatus
    <3> QED
      BY <3>1, InfoOfProcess DEF Listed
  <2>5. SUFFICES ASSUME NEW i \in 1 .. next + 1 PROVE Accounted(i)'
    BY <2>1 DEF AllAccounted
  <2>6. CASE i = next + 1
    BY <2>1, <2>2, <2>4, <2>6 DEF Accounted, Group
  <2>7. CASE i \in 1 .. next
    <3>1. Accounted(i) /\ answers'[i] = answers[i]
      BY <2>2, <2>7 DEF AllAccounted
    <3>2. CASE answers[i] = None
      BY <2>1, <2>3, <3>1, <3>2 DEF Accounted
    <3>3. CASE answers[i] # None
      <4>1. CASE Group(answers[i]) \in DOMAIN status /\ answers[i] \in Listed(Group(answers[i]))
        <5>1. PICK q : q = answers[i]
          OBVIOUS
        <5>2. q \in Listed(Group(q))' /\ Group(q) \in DOMAIN status'
          <6>1. PICK k : k = Group(q)
            OBVIOUS
          <6>2. k \in DOMAIN status' /\ Listed(k) \subseteq Listed(k)' /\ q \in Listed(k)
            BY <2>3, <4>1, <5>1, <6>1
          <6> QED
            BY <6>1, <6>2 DEF Listed, Group
        <5> QED
          BY <3>1, <3>3, <5>1, <5>2 DEF Accounted, Group, Listed
      <4>2. CASE \E j \in i + 1 .. next : asked[j] = Group(answers[i]) /\ answers[j] = None
        <5>1. PICK j \in i + 1 .. next : asked[j] = Group(answers[i]) /\ answers[j] = None
          BY <4>2
        <5>2. j \in 1 .. next /\ j \in i + 1 .. next'
          BY <2>1
        <5> QED
          BY <2>1, <2>2, <3>1, <3>3, <5>1, <5>2 DEF Accounted, Group
      <4> QED
        BY <3>1, <3>3, <4>1, <4>2 DEF Accounted
    <3> QED
      BY <3>2, <3>3
  <2> QED
    BY <2>1, <2>6, <2>7
<1>4. CASE LookupFails
  <2>1. /\ next \in Nat /\ next' = next + 1 /\ asked' = asked
        /\ answers' = Append(answers, None)
        /\ status' = Put(status, asked[next + 1], NoProcs(TRUE))
    BY <1>4, IdAsked DEF LookupFails
  <2>2. /\ \A i \in 1 .. next : answers'[i] = answers[i]
        /\ answers'[next + 1] = None
    <3>1. answers \in Seq(Procs \cup {None}) /\ next = Len(answers)
      BY DEF Typed, Located
    <3> QED
      BY <2>1, <3>1
  <2>3. /\ \A k \in DOMAIN status :
             k \in DOMAIN status' /\ (k # asked[next + 1] => status'[k] = status[k])
        /\ asked[next + 1] \in DOMAIN status' /\ status'[asked[next + 1]].error
    BY <2>1, NoProcsEntry DEF Put
  <2>4. SUFFICES ASSUME NEW i \in 1 .. next + 1 PROVE Accounted(i)'
    BY <2>1 DEF AllAccounted
  <2>5. CASE i = next + 1
    BY <2>1, <2>2, <2>3, <2>5 DEF Accounted
  <2>6. CASE i \in 1 .. next
    <3>1. Accounted(i) /\ answers'[i] = answers[i]
      BY <2>2, <2>6 DEF AllAccounted
    <3>2. CASE answers[i] = None
      BY <2>1, <2>3, <3>1, <3>2 DEF Accounted
    <3>3. CASE answers[i] # None
      <4>1. CASE asked[next + 1] = Group(answers[i])
        <5>1. next + 1 \in i + 1 .. next'
          BY <2>1, <2>6
        <5> QED
          BY <2>1, <2>2, <3>1, <3>3, <4>1, <5>1 DEF Accounted, Group
      <4>2. CASE \E j \in i + 1 .. next : asked[j] = Group(answers[i]) /\ answers[j] = None
        <5>1. PICK j \in i + 1 .. next : asked[j] = Group(answers[i]) /\ answers[j] = None
          BY <4>2
        <5>2. j \in 1 .. next /\ j \in i + 1 .. next'
          BY <2>1
        <5> QED
          BY <2>1, <2>2, <3>1, <3>3, <5>1, <5>2 DEF Accounted, Group
      <4>3. CASE /\ Group(answers[i]) \in DOMAIN status
                 /\ answers[i] \in Listed(Group(answers[i]))
                 /\ asked[next + 1] # Group(answers[i])
        BY <2>3, <3>1, <3>3, <4>3 DEF Accounted, Listed, Group
      <4> QED
        BY <3>1, <3>3, <4>1, <4>2, <4>3 DEF Accounted
    <3> QED
      BY <3>2, <3>3
  <2> QED
    BY <2>1, <2>5, <2>6
<1> QED
  BY <1>1, <1>2, <1>3, <1>4, StepKinds

(* Only Send posts, and nothing changes the entries afterwards.            *)
LEMMA GradedStep ==
  ASSUME TypeOK, Typed, Started, Located, Graded, [Next]_vars
  PROVE  Graded'
<1>1. CASE Send
  BY <1>1 DEF Send, Outcomes, Graded
<1>2. CASE \/ Tick \/ (\E p \in Procs : Switch(p)) \/ AskAll
           \/ LookupFails \/ (\E p \in Procs : Turn(p) \/ Lookup(p))
  <2>1. hook = "none" /\ hook' = hook /\ report' = report
    BY <1>2 DEF Tick, Switch, AskAll, LookupFails, Turn, Lookup, Located
  <2> QED
    BY <2>1 DEF Graded
<1>3. CASE UNCHANGED vars
  BY <1>3 DEF vars, Graded
<1> QED
  BY <1>1, <1>2, <1>3, StepKinds

(* What is said of an entry is one of three words.                         *)
LEMMA GradeIsGrade ==
  ASSUME NEW e
  PROVE  Grade(e) \in Grades
BY DEF Grade, Grades

(* Every step keeps the types.                                             *)
LEMMA TypeStep ==
  ASSUME TypeOK, Typed, Started, Located, Graded, [Next]_vars
  PROVE  TypeOK'
<1>0. Typed' /\ Started' /\ Located' /\ Graded'
  BY TypedStep, StartedStep, LocatedStep, GradedStep
<1>1. sup' \in [Procs -> [running : BOOLEAN, start : 0 .. MaxTime]] /\ clock' \in 1 .. MaxTime
  <2>1. CASE Tick
    BY <2>1, BoundsAssumption DEF Tick, TypeOK
  <2>2. ASSUME NEW p \in Procs, Switch(p)
        PROVE  /\ sup' \in [Procs -> [running : BOOLEAN, start : 0 .. MaxTime]]
               /\ clock' \in 1 .. MaxTime
    <3>1. /\ sup[p] \in [running : BOOLEAN, start : 0 .. MaxTime]
          /\ clock \in 0 .. MaxTime
      BY DEF TypeOK
    <3>2. PICK r \in [running : BOOLEAN, start : 0 .. MaxTime] : sup' = [sup EXCEPT ![p] = r]
      <4>1. [sup[p] EXCEPT !.running = FALSE] \in [running : BOOLEAN, start : 0 .. MaxTime]
        BY <3>1
      <4>2. [running |-> TRUE, start |-> clock] \in [running : BOOLEAN, start : 0 .. MaxTime]
        BY <3>1
      <4> QED
        BY <2>2, <4>1, <4>2 DEF Switch
    <3> QED
      BY <2>2, <3>2 DEF Switch, TypeOK
  <2>3. CASE UNCHANGED supervisor
    BY <2>3 DEF supervisor, TypeOK
  <2> QED
    BY <2>1, <2>2, <2>3, StepKinds DEF AskAll, Turn, Lookup, LookupFails, Send, vars
<1>2. asked' \in Asked
  BY StepKinds DEF Tick, Switch, AskAll, Turn, Lookup, LookupFails, Send, vars,
    TypeOK
<1>3. next' \in 0 .. MaxIds
  <2>1. CASE next < Len(asked) /\ next' = next + 1
    BY <2>1, IdAsked
  <2>2. CASE next' = next
    BY <2>2 DEF TypeOK
  <2> QED
    BY <2>1, <2>2, StepKinds DEF Tick, Switch, AskAll, Turn, Lookup,
      LookupFails, Send, vars
<1>4. left' \subseteq Procs
  BY StepKinds DEF Tick, Switch, AskAll, Turn, Lookup, LookupFails, Send, vars,
    TypeOK
<1>5. DOMAIN status' \subseteq Keys
  <2>1. ASSUME NEW p \in Procs, Turn(p) \/ Lookup(p) PROVE DOMAIN status' \subseteq Keys
    <3>1. status' = Updated(status, Info(p))
      BY <2>1 DEF Turn, Lookup
    <3>2. DOMAIN status' = DOMAIN status \cup {Group(p)} /\ Group(p) \in Keys
      BY <3>1, UpdatedStatus, InfoOfProcess
    <3> QED
      BY <3>2 DEF TypeOK
  <2>2. CASE LookupFails
    BY <2>2, IdAsked DEF LookupFails, Put, TypeOK
  <2>3. CASE UNCHANGED status
    BY <2>3 DEF TypeOK
  <2> QED
    BY <2>1, <2>2, <2>3, StepKinds DEF Tick, Switch, AskAll, Send, vars
<1>6. \A k \in DOMAIN status' :
        /\ status'[k].error \in BOOLEAN
        /\ Range(status'[k].procs) \subseteq Infos
        /\ status'[k].uptime \in 0 .. MaxTime
  <2>1. ASSUME NEW k \in DOMAIN status'
        PROVE  /\ status'[k].error \in BOOLEAN /\ status'[k].procs \in Seq(Infos)
               /\ status'[k].uptime \in 0 .. MaxTime
    BY <1>0 DEF Typed, Entries
  <2> QED
    BY <2>1, RangeOfSeq
<1>7. pc' \in {"ask", "group", "send", "done"}
  BY StepKinds DEF Tick, Switch, AskAll, Turn, Lookup, LookupFails, Send, vars,
    TypeOK
<1>8. DOMAIN report' \subseteq DOMAIN status' /\ Range(report') \subseteq Grades
  <2>1. CASE hook' = "none"
    BY <1>0, <2>1 DEF Graded, Range
  <2>2. CASE hook' # "none"
    <3>1. report' = [k \in DOMAIN status' |-> Grade(status'[k])]
      BY <1>0, <2>2 DEF Graded
    <3> QED
      BY <3>1, GradeIsGrade DEF Range
  <2> QED
    BY <2>1, <2>2
<1>9. hook' \in Outcomes \cup {"none"} /\ result' \in {"none", "nil", "error"}
  BY StepKinds DEF Tick, Switch, AskAll, Turn, Lookup, LookupFails, Send,
    Notify, vars, TypeOK
<1>10. Range(answers') \subseteq Procs \cup {None}
  <2>1. answers' \in Seq(Procs \cup {None})
    BY <1>0 DEF Typed
  <2> QED
    BY <2>1, RangeOfSeq
<1>11. shot' \in [Procs -> [running : BOOLEAN, start : 0 .. MaxTime]]
  BY StepKinds
  DEF Tick, Switch, AskAll, Turn, Lookup, LookupFails, Send, vars, history, TypeOK
<1> QED
  BY <1>1, <1>2, <1>3, <1>4, <1>5, <1>6, <1>7, <1>8, <1>9, <1>10, <1>11 DEF
    TypeOK, Grades

(* The command begins in the invariant.                                    *)
LEMMA InitInv ==
  ASSUME Init
  PROVE  IInv
<1>1. /\ 1 \in 1 .. MaxTime /\ 0 \in 0 .. MaxTime /\ 0 \in 0 .. MaxIds
      /\ Range(<<>>) = {} /\ DOMAIN <<>> = {}
  BY BoundsAssumption DEF Range
<1>2. PICK n \in 0 .. MaxIds : asked \in [1 .. n -> Ids]
  BY DEF Init, Asked
<1>3. asked \in Seq(Ids) /\ Len(asked) = n /\ n \in Nat
  BY <1>2
<1>4. Stopped \in [Procs -> [running : BOOLEAN, start : 0 .. MaxTime]]
  BY <1>1 DEF Stopped
<1>5. TypeOK
  BY <1>1, <1>4 DEF Init, TypeOK
<1>6. Typed
  BY <1>3 DEF Init, Typed
<1>7. Started
  BY DEF Init, Stopped, Started
<1>8. Located
  BY DEF Init, Located
<1>9. Highest /\ Snapshot /\ AllAccounted /\ Graded
  BY DEF Init, Highest, Snapshot, Reported, AllAccounted, Graded
<1> QED
  BY <1>5, <1>6, <1>7, <1>8, <1>9 DEF IInv

(* The inductive invariant holds of every behaviour of the command.        *)
THEOREM Invariance == Spec => []IInv
<1>1. Init => IInv
  BY InitInv
<1>2. IInv /\ [Next]_vars => IInv'
  BY TypeStep, TypedStep, StartedStep, LocatedStep, HighestStep, SnapshotStep,
     AllAccountedStep, GradedStep DEF IInv
<1> QED
  BY <1>1, <1>2, PTL DEF Spec

(* Each variable keeps its type: the entries' keys are groups and ids, and *)
(* a report is on entries there are.                                       *)
THEOREM TypeCorrect == Spec => []TypeOK
<1>1. IInv => TypeOK
  BY DEF IInv
<1> QED
  BY <1>1, Invariance, PTL

-----------------------------------------------------------------------------
(* What the report says *)

(* The grade of an entry: all of its processes run, none does, or some do. *)
LEMMA GradeCounts ==
  ASSUME NEW e, NEW S, e.procs \in Seq(S), e.procs # <<>>
  PROVE  /\ Grade(e) = "fully_running" <=> \A i \in Range(e.procs) : i.running
         /\ Grade(e) = "not_running" <=> \A i \in Range(e.procs) : ~i.running
<1> DEFINE s == e.procs
           R == {i \in DOMAIN s : s[i].running}
<1>1. Len(s) \in Nat /\ DOMAIN s = 1 .. Len(s) /\ Len(s) # 0
  OBVIOUS
<1>2. IsFiniteSet(DOMAIN s) /\ Cardinality(DOMAIN s) = Len(s)
  BY FS_Interval
<1>3. /\ IsFiniteSet(R) /\ Cardinality(R) \in Nat
      /\ Cardinality(R) = Len(s) <=> R = DOMAIN s
      /\ Cardinality(R) = 0 <=> R = {}
  <2>1. R \subseteq DOMAIN s
    OBVIOUS
  <2>2. IsFiniteSet(R) /\ (Cardinality(R) = Cardinality(DOMAIN s) => R = DOMAIN s)
    BY <1>2, FS_Subset
  <2>3. Cardinality(R) = 0 <=> R = {}
    BY <2>2, FS_EmptySet
  <2> QED
    BY <1>2, <2>2, <2>3, FS_CardinalityType
<1>4. /\ Grade(e) = "fully_running" <=> Cardinality(R) = Len(s)
      /\ Grade(e) = "not_running" <=> Cardinality(R) = 0
  <2> HIDE DEF R
  <2>1. PICK n \in Nat : n = Cardinality(R)
    BY <1>3
  <2>2. Grade(e) = CASE n = Len(s)           -> "fully_running"
                     [] n # Len(s) /\ n > 0 -> "partially_running"
                     [] OTHER               -> "not_running"
    BY <2>1 DEF Grade, R
  <2> HIDE DEF s
  <2> QED
    BY <1>1, <2>1, <2>2
<1>5. /\ R = DOMAIN s <=> \A i \in Range(s) : i.running
      /\ R = {} <=> \A i \in Range(s) : ~i.running
  BY DEF Range
<1> QED
  BY <1>3, <1>4, <1>5

(* The report on all is what supervisor knew when it was asked: every      *)
(* process is listed once, with its group, and a group is said to run, to  *)
(* run in part or not to run as its processes did then.                    *)
THEOREM ReportOnAllIsASnapshot == Spec => []AllIsASnapshot
<1>1. IInv => AllIsASnapshot
  <2>1. SUFFICES ASSUME IInv, Reported, asked = <<>>, NEW k \in Keys,
                        NEW members, members = {p \in Procs : Group(p) = k},
                        NEW running, running = {p \in members : shot[p].running}
                 PROVE  /\ k \in DOMAIN report <=> members # {}
                        /\ members # {} =>
                             /\ Listed(k) = members
                             /\ Len(status[k].procs) = Cardinality(members)
                             /\ report[k] = "fully_running" <=> running = members
                             /\ report[k] = "not_running" <=> running = {}
    BY DEF AllIsASnapshot
  <2>2. members = Members(k)
    BY <2>1 DEF IInv, Located, Reported, Members
  <2>3. /\ shot = sup
        /\ k \in DOMAIN status <=> members # {}
        /\ k \in DOMAIN status =>
             /\ Listed(k) = members
             /\ Len(status[k].procs) = Cardinality(members)
             /\ \A info \in Range(status[k].procs) : info.running = sup[info.proc].running
    BY <2>1, <2>2 DEF IInv, Snapshot
  <2>4. report = [j \in DOMAIN status |-> Grade(status[j])]
    BY <2>1 DEF IInv, Graded, Reported
  <2>5. ASSUME members # {}
        PROVE  /\ report[k] = "fully_running" <=> running = members
               /\ report[k] = "not_running" <=> running = {}
    <3>1. k \in DOMAIN status /\ report[k] = Grade(status[k])
      BY <2>3, <2>4, <2>5
    <3>2. status[k].procs \in Seq(Infos)
      <4>1. status[k] \in Entries
        BY <2>1, <3>1 DEF IInv, Typed
      <4> QED
        BY <4>1 DEF Entries
    <3>3. status[k].procs # <<>>
      <4>1. Range(<<>>) = {}
        BY DEF Range
      <4> QED
        BY <2>3, <3>1, <4>1 DEF Listed
    <3>4. /\ Grade(status[k]) = "fully_running"
               <=> \A i \in Range(status[k].procs) : i.running
          /\ Grade(status[k]) = "not_running"
               <=> \A i \in Range(status[k].procs) : ~i.running
      BY <3>2, <3>3, GradeCounts
    <3>5. members = {i.proc : i \in Range(status[k].procs)}
      BY <2>3, <3>1 DEF Listed
    <3>6. /\ (\A i \in Range(status[k].procs) : i.running) <=> running = members
          /\ (\A i \in Range(status[k].procs) : ~i.running) <=> running = {}
      BY <2>1, <2>3, <3>1, <3>5
    <3> QED
      BY <3>1, <3>4, <3>6
  <2> QED
    BY <2>3, <2>4, <2>5
<1> QED
  BY <1>1, Invariance, PTL

(* The uptime reported of a group is the highest of its processes', in     *)
(* whatever order they were grouped and whatever failed in between.        *)
THEOREM UptimeIsTheHighest == Spec => []HighestUptime
<1>1. IInv => HighestUptime
  <2>1. SUFFICES ASSUME IInv, NEW k \in DOMAIN status
                 PROVE  status[k].uptime
                          = Max({0} \cup {info.uptime : info \in Range(status[k].procs)})
    BY DEF HighestUptime
  <2> DEFINE S == {0} \cup {info.uptime : info \in Range(status[k].procs)}
             m == status[k].uptime
  <2>2. m \in S /\ m \in Nat /\ \A y \in S : y \in Nat /\ y <= m
    BY <2>1 DEF IInv, TypeOK, Infos, Highest
  <2> HIDE DEF S, m
  <2>3. \A x \in S : (\A y \in S : x >= y) => x = m
    BY <2>2
  <2>4. Max(S) = m
    BY <2>3 DEF Max
  <2> QED
    BY <2>4 DEF S, m
<1> QED
  BY <1>1, Invariance, PTL

(* Every id given is in the report: its process in its group's entry, or   *)
(* an error under its own name; only a later failed lookup of the group's  *)
(* own name takes an entry away.                                           *)
THEOREM IdsAreReported == Spec => []EveryIdIsReported
<1>1. IInv => EveryIdIsReported
  <2>1. SUFFICES ASSUME IInv, Reported
                 PROVE  /\ Len(answers) = Len(asked)
                        /\ \A i \in 1 .. Len(asked) :
                             IF answers[i] = None
                               THEN status[asked[i]].error
                               ELSE LET g == Group(answers[i]) IN
                                      \/ answers[i] \in Listed(g)
                                      \/ \E j \in i + 1 .. Len(asked) :
                                           asked[j] = g /\ answers[j] = None
    BY DEF EveryIdIsReported
  <2>2. next = Len(asked) /\ next = Len(answers)
    BY <2>1 DEF IInv, Located, Reported
  <2> QED
    BY <2>1, <2>2 DEF IInv, AllAccounted, Accounted
<1> QED
  BY <1>1, Invariance, PTL

=============================================================================
