---------------------------- MODULE DaemonStatus ----------------------------
(***************************************************************************)
(* The command "status" (rpc/rpc.go): it asks supervisor about all its     *)
(* processes at once, or about the ids it was given one after the other,   *)
(* groups the answers and posts them to the pulse's webhook.               *)
(*                                                                         *)
(* The entries are kept in a map with one kind of key: the group of a      *)
(* process that was found, the id of a lookup that failed.  Supervisor     *)
(* starts and stops processes between two questions.                       *)
(***************************************************************************)
EXTENDS Integers, Sequences, FiniteSets, FiniteSetsExt, Functions

CONSTANTS
  Procs,    \* supervisor's processes
  Groups,   \* their groups, and "" for none
  Ids,      \* the ids that may be given: names of processes, of groups, others
  GroupOf,  \* the group supervisor says a process is in
  ProcOf,   \* the process an id names, or None
  None,
  MaxIds,   \* bound: how many ids are given
  MaxTime   \* bound: the clock

ASSUME NamesAssumption ==
  /\ GroupOf \in [Procs -> Groups]
  /\ ProcOf \in [Ids -> Procs \cup {None}] /\ None \notin Procs
ASSUME ProcsAssumption  == IsFiniteSet(Procs)
ASSUME BoundsAssumption == MaxIds \in Nat /\ MaxTime \in Nat \ {0}

(* updateDaemonGroupStatus: a process without a group is in "unknown".     *)
Group(p) == IF GroupOf[p] = "" THEN "unknown" ELSE GroupOf[p]

Keys   == Ids \cup {Group(p) : p \in Procs}
Infos  == [proc : Procs, running : BOOLEAN, uptime : 0 .. MaxTime]
Asked  == UNION {[1 .. n -> Ids] : n \in 0 .. MaxIds}

VARIABLES
  sup,      \* supervisor: for each process, if it runs and when it started
  clock,    \* the time, in supervisor's answers
  asked,    \* the ids given; none for all
  next,     \* how many of them have been dealt with
  left,     \* the processes of the answer on all that are not grouped yet
  status,   \* statusMap
  pc,       \* "ask", "group", "send" or "done"
  report,   \* the status posted for each key
  hook,     \* what became of the post
  result,   \* what SendDaemonStatus returned
  answers,  \* history: the answers to the ids, None for a failed lookup
  shot      \* history: supervisor when it was asked about all

supervisor == <<sup, clock>>
history    == <<answers, shot>>
vars       == <<supervisor, asked, next, left, status, pc, report, hook, result, history>>

Stopped == [p \in Procs |-> [running |-> FALSE, start |-> 0]]

Init ==
  /\ sup = Stopped
  /\ clock = 1
  /\ asked \in Asked
  /\ next = 0
  /\ left = {}
  /\ status = <<>>
  /\ pc = "ask"
  /\ report = <<>>
  /\ hook = "none"
  /\ result = "none"
  /\ answers = <<>>
  /\ shot = Stopped

-----------------------------------------------------------------------------
(* Supervisor *)

Tick ==
  /\ pc = "ask"
  /\ clock < MaxTime
  /\ clock' = clock + 1
  /\ UNCHANGED <<sup, asked, next, left, status, pc, report, hook, result, history>>

(* A process that has stopped keeps the time of its start. *)
Switch(p) ==
  /\ pc = "ask"
  /\ sup' = [sup EXCEPT ![p] =
       IF @.running THEN [@ EXCEPT !.running = FALSE]
                    ELSE [running |-> TRUE, start |-> clock]]
  /\ UNCHANGED <<clock, asked, next, left, status, pc, report, hook, result, history>>

-----------------------------------------------------------------------------
(* SendDaemonStatus *)

(* Mutant: the difference the wrong way round. *)
UptimeReversed(p) ==
  IF sup[p].running /\ sup[p].start > 0 THEN sup[p].start - clock ELSE 0

Uptime(p) ==
  IF sup[p].running /\ sup[p].start > 0 THEN clock - sup[p].start ELSE 0

Info(p) == [proc |-> p, running |-> sup[p].running, uptime |-> Uptime(p)]

NoProcs(error) == [error |-> error, procs |-> <<>>, uptime |-> 0]

Put(st, k, entry) ==
  [j \in DOMAIN st \cup {k} |-> IF j = k THEN entry ELSE st[j]]

(* Mutant: the entry is made anew for each process. *)
UpdatedAnew(st, info) ==
  Put(st, Group(info.proc),
      [NoProcs(FALSE) EXCEPT !.procs = <<info>>, !.uptime = info.uptime])

EntryOf(st, k) == IF k \in DOMAIN st THEN st[k] ELSE NoProcs(FALSE)

(* Mutant: the uptime of the last process instead of the highest. *)
UpdatedLast(st, info) ==
  LET g == Group(info.proc) IN
    Put(st, g, [EntryOf(st, g) EXCEPT !.procs = Append(@, info), !.uptime = info.uptime])

(* updateDaemonGroupStatus: an entry that is there is added to, be it that *)
(* of a failed lookup.                                                     *)
Updated(st, info) ==
  LET g == Group(info.proc) IN
    Put(st, g, [EntryOf(st, g) EXCEPT
                  !.procs  = Append(@, info),
                  !.uptime = IF info.uptime > @ THEN info.uptime ELSE @])

(* One question about all. *)
AskAll ==
  /\ pc = "ask"
  /\ asked = <<>>
  /\ \/ /\ left' = Procs
        /\ shot' = sup
        /\ pc' = IF Procs = {} THEN "send" ELSE "group"
        /\ UNCHANGED result
     \/ result' = "error" /\ pc' = "done" /\ UNCHANGED <<left, shot>>
  /\ UNCHANGED <<supervisor, asked, next, status, report, hook, answers>>

(* The loop over the answer, in whatever order it comes.  Supervisor is    *)
(* left as it was then: nothing asks it again.                             *)
GroupNext ==
  /\ pc = "group"
  /\ \E p \in left :
       /\ status' = Updated(status, Info(p))
       /\ left' = left \ {p}
  /\ pc' = IF left' = {} THEN "send" ELSE "group"
  /\ UNCHANGED <<supervisor, asked, next, report, hook, result, history>>

(* Mutant: the first failed lookup ends the loop. *)
AskNextBreaks ==
  /\ pc = "ask"
  /\ next < Len(asked)
  /\ LET id == asked[next + 1]
         p  == ProcOf[id] IN
       \/ /\ p # None
          /\ status' = Updated(status, Info(p))
          /\ answers' = Append(answers, p)
          /\ next' = next + 1
       \/ /\ status' = Put(status, id, NoProcs(TRUE))
          /\ answers' = Append(answers, None)
          /\ next' = Len(asked)
  /\ pc' = IF next' = Len(asked) THEN "send" ELSE "ask"
  /\ UNCHANGED <<supervisor, asked, left, report, hook, result, shot>>

(* A lookup fails on an id supervisor does not know, and may always fail:  *)
(* the entry made then takes the place of any other with that key.         *)
AskNext ==
  /\ pc = "ask"
  /\ next < Len(asked)
  /\ LET id == asked[next + 1]
         p  == ProcOf[id] IN
       \/ /\ p # None
          /\ status' = Updated(status, Info(p))
          /\ answers' = Append(answers, p)
       \/ /\ status' = Put(status, id, NoProcs(TRUE))
          /\ answers' = Append(answers, None)
  /\ next' = next + 1
  /\ pc' = IF next' = Len(asked) THEN "send" ELSE "ask"
  /\ UNCHANGED <<supervisor, asked, left, report, hook, result, shot>>

(* The final status of an entry, which it replaces whatever it was. *)
Grade(e) ==
  LET running == Cardinality({i \in DOMAIN e.procs : e.procs[i].running})
  IN CASE running = Len(e.procs)               -> "fully_running"
       [] running # Len(e.procs) /\ running > 0 -> "partially_running"
       [] OTHER                                 -> "not_running"

(* What may become of a post.  Notify takes a request that cannot be made  *)
(* or sent, or is not answered, for a success.                             *)
Outcomes == {"not sent", "no answer", "bad answer", "refused", "accepted"}

Notify == IF hook' \in {"bad answer", "refused"} THEN "error" ELSE "nil"

Send ==
  /\ pc = "send"
  /\ report' = [k \in DOMAIN status |-> Grade(status[k])]
  /\ hook' \in Outcomes
  /\ result' = Notify
  /\ pc' = "done"
  /\ UNCHANGED <<supervisor, asked, next, left, status, history>>

(* The command has ended. *)
Rest == pc = "done" /\ UNCHANGED vars

Next ==
  \/ Tick \/ (\E p \in Procs : Switch(p))
  \/ AskAll \/ GroupNext \/ AskNext \/ Send \/ Rest

Spec == Init /\ [][Next]_vars

-----------------------------------------------------------------------------
(* Correctness *)

TypeOK ==
  /\ sup \in [Procs -> [running : BOOLEAN, start : 0 .. MaxTime]]
  /\ clock \in 1 .. MaxTime
  /\ asked \in Asked
  /\ next \in 0 .. MaxIds
  /\ left \subseteq Procs
  /\ DOMAIN status \subseteq Keys
  /\ \A k \in DOMAIN status :
       /\ status[k].error \in BOOLEAN
       /\ Range(status[k].procs) \subseteq Infos
       /\ status[k].uptime \in 0 .. MaxTime
  /\ pc \in {"ask", "group", "send", "done"}
  /\ DOMAIN report \subseteq DOMAIN status
  /\ Range(report) \subseteq {"fully_running", "partially_running", "not_running"}
  /\ hook \in Outcomes \cup {"none"}
  /\ result \in {"none", "nil", "error"}
  /\ Range(answers) \subseteq Procs \cup {None}
  /\ shot \in [Procs -> [running : BOOLEAN, start : 0 .. MaxTime]]

Reported == pc = "done" /\ hook # "none"

Listed(k) == {info.proc : info \in Range(status[k].procs)}

(* A report on all lists every process once, with its group, and says of a *)
(* group what was true of it at one moment, the one supervisor was asked.  *)
AllIsASnapshot ==
  Reported /\ asked = <<>> =>
    \A k \in Keys :
      LET members == {p \in Procs : Group(p) = k}
          running == {p \in members : shot[p].running}
      IN /\ k \in DOMAIN report <=> members # {}
         /\ members # {} =>
              /\ Listed(k) = members
              /\ Len(status[k].procs) = Cardinality(members)
              /\ report[k] = "fully_running" <=> running = members
              /\ report[k] = "not_running" <=> running = {}

(* The uptime of an entry is the highest of its processes', whatever the   *)
(* order they were asked in and whatever failed in between.                *)
HighestUptime ==
  \A k \in DOMAIN status :
    status[k].uptime = Max({0} \cup {info.uptime : info \in Range(status[k].procs)})

(* Every id that was given is in the report: a process that was found in   *)
(* its group's entry, a failed lookup as an error under its own name.  The *)
(* exception the code makes: the name of the group fails later, and its    *)
(* entry takes the place of the group's.                                   *)
EveryIdIsReported ==
  Reported =>
    /\ Len(answers) = Len(asked)
    /\ \A i \in DOMAIN asked :
         IF answers[i] = None
           THEN status[asked[i]].error
           ELSE LET g == Group(answers[i]) IN
                  \/ answers[i] \in Listed(g)
                  \/ \E j \in i + 1 .. Len(asked) : asked[j] = g /\ answers[j] = None

(* A daemon whose lookup has failed is not said to run.                    *)
FailedIsNotRunning ==
  Reported => \A k \in DOMAIN report :
                status[k].error => report[k] # "fully_running"
=============================================================================
