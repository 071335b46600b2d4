--------------------------- MODULE BackendsProofs ---------------------------
(***************************************************************************)
(* Proofs about module Backends, for any models, values of keep, options,  *)
(* seconds and number of runs.                                             *)
(*                                                                         *)
(* The argument.  What a history or the run's own list names and no        *)
(* rotation has tried to delete is whole in the storage (Whole); on gcs,   *)
(* where a name that is taken is refused, a name that was rotated away is  *)
(* of a second gone by, and so never given again (Apart).  An object is    *)
(* stored under the name of its run and is listed by the history of its    *)
(* model, and while that one is rotated by the run's list as well (Known). *)
(***************************************************************************)
EXTENDS Backends, FiniteSetTheorems, SequenceTheorems, TLAPS

(* The lists are of runs. *)
Sequences ==
  /\ of \in Seq(Models) /\ named \in Seq(Names) /\ Len(named) = This
  /\ list \in Seq(Runs)
  /\ file \in [Models -> Seq(Runs)]

(* The clock stands while a run is under way: it has the latest name. *)
Clocked ==
  /\ \A r \in 1 .. This : named[r] <= clock
  /\ pc # "idle" => This > 0 /\ named[This] = clock

(* The run under way is new to the histories. *)
Past ==
  /\ \A m \in Models : Range(file[m]) \subseteq 1 .. This
  /\ tried \cup dropped \subseteq 1 .. This
  /\ pc # "idle" =>
       This \notin tried \cup dropped /\ \A m \in Models : This \notin Range(file[m])

(* The rotation's list ends with the run's own entry. *)
Rotating ==
  pc = "rotate" =>
    /\ Range(list) \subseteq 1 .. This
    /\ list # <<>> /\ list[Len(list)] = This
    /\ \A i \in 1 .. Len(list) - 1 : list[i] # This

Tracked ==
  {r \in Runs : \/ \E m \in Models : r \in Range(file[m])
                \/ pc = "rotate" /\ r \in Range(list)}

Whole(r) ==
  \/ object[named[r]] = [run |-> r, whole |-> TRUE]
  \/ Shared(r) /\ type # "gcs"
  \/ type = "sftp"

AllWhole == \A r \in Tracked \ tried : Whole(r)

(* What is rotated away on gcs shares its name with nothing to come. *)
Apart ==
  type = "gcs" =>
    \A q \in tried : named[q] < clock /\ \A r \in Tracked \ tried : named[r] # named[q]

Excused(r) == r \in failed \cup refused \/ Shared(r)

(* A run is in the history of its model, which still names it while the    *)
(* list is rotated, in case the process dies, and then in the list.        *)
Listed(r) ==
  /\ r \in Range(file[of[r]]) \/ (pc = "rotate" /\ r = This) \/ Excused(r)
  /\ pc = "rotate" /\ of[r] = of[This] => r \in Range(list) \/ Excused(r)

(* Where the objects in the storage are listed. *)
Known ==
  \A n \in Names :
    object[n] # NoObject =>
      /\ object[n].run \in 1 .. This
      /\ named[object[n].run] = n
      /\ Listed(object[n].run)

(* The connections are those of the opens that failed and of this run. *)
Counted ==
  /\ type # "sftp" =>
       conns = Cardinality(dropped)
                 + (IF pc \in {"upload", "rotate"} THEN ClosedBy[type] ELSE 0)
  /\ conns \in 0 .. (IF pc = "open" THEN This - 1 ELSE This)

IInv ==
  /\ TypeOK /\ Sequences /\ Clocked /\ Past /\ Rotating
  /\ AllWhole /\ Apart /\ Known /\ Counted

-----------------------------------------------------------------------------
(* Lists of runs *)

(* The entries of a list.                                                  *)
LEMMA RangeIn ==
  ASSUME NEW S, NEW s \in Seq(S)
  PROVE  Range(s) \subseteq S /\ \A i \in 1 .. Len(s) : s[i] \in Range(s)
<1>1. DOMAIN s = 1 .. Len(s) /\ \A i \in 1 .. Len(s) : s[i] \in S
  OBVIOUS
<1> QED
  BY DEF Range

(* append() adds one run.                                                  *)
LEMMA RangeAppend ==
  ASSUME NEW S, NEW s \in Seq(S), NEW r \in S
  PROVE  /\ Append(s, r) \in Seq(S)
         /\ Len(Append(s, r)) = Len(s) + 1
         /\ Append(s, r)[Len(s) + 1] = r
         /\ \A i \in 1 .. Len(s) : Append(s, r)[i] = s[i]
         /\ Range(Append(s, r)) = Range(s) \cup {r}
<1>1. /\ Append(s, r) \in Seq(S)
      /\ Len(s) \in Nat /\ Len(Append(s, r)) = Len(s) + 1
      /\ Append(s, r)[Len(s) + 1] = r
      /\ \A i \in 1 .. Len(s) : Append(s, r)[i] = s[i]
  OBVIOUS
<1>2. DOMAIN s = 1 .. Len(s) /\ DOMAIN Append(s, r) = 1 .. Len(s) + 1
  OBVIOUS
<1>3. ASSUME NEW x \in Range(Append(s, r)) PROVE x \in Range(s) \cup {r}
  <2>1. PICK i \in 1 .. Len(s) + 1 : x = Append(s, r)[i]
    BY DEF Range
  <2>2. i = Len(s) + 1 \/ i \in 1 .. Len(s)
    OBVIOUS
  <2> QED
    BY DEF Range
<1>4. ASSUME NEW x \in Range(s) PROVE x \in Range(Append(s, r))
  <2>1. PICK i \in 1 .. Len(s) : x = s[i]
    BY DEF Range
  <2>2. i \in 1 .. Len(s) + 1 /\ x = Append(s, r)[i]
    BY <2>1
  <2> QED
    BY DEF Range
<1>5. r \in Range(Append(s, r))
  <2>1. Len(s) + 1 \in 1 .. Len(s) + 1
    OBVIOUS
  <2> QED
    BY DEF Range
<1> QED
  BY <1>3, <1>4, <1>5

(* The rotation takes the head off the list.                               *)
LEMMA RangeTail ==
  ASSUME NEW S, NEW s \in Seq(S), s # <<>>
  PROVE  /\ Tail(s) \in Seq(S) /\ Len(s) \in Nat \ {0} /\ Len(Tail(s)) = Len(s) - 1
         /\ Head(s) = s[1] /\ \A i \in 1 .. Len(s) - 1 : Tail(s)[i] = s[i + 1]
         /\ Range(s) = {Head(s)} \cup Range(Tail(s))
<1>1. /\ Tail(s) \in Seq(S) /\ Len(s) \in Nat \ {0} /\ Len(Tail(s)) = Len(s) - 1
      /\ Head(s) = s[1] /\ \A i \in 1 .. Len(s) - 1 : Tail(s)[i] = s[i + 1]
  OBVIOUS
<1>2. DOMAIN s = 1 .. Len(s) /\ DOMAIN Tail(s) = 1 .. Len(s) - 1
  OBVIOUS
<1>3. ASSUME NEW x \in Range(s), x # Head(s) PROVE x \in Range(Tail(s))
  <2>1. PICK i \in 1 .. Len(s) : x = s[i]
    BY DEF Range
  <2>2. i - 1 \in 1 .. Len(s) - 1 /\ (i - 1) + 1 = i
    BY <1>3, <2>1
  <2>3. Tail(s)[i - 1] = x
    BY <2>1, <2>2
  <2> QED
    BY <1>2, <2>2, <2>3 DEF Range
<1>4. ASSUME NEW x \in Range(Tail(s)) PROVE x \in Range(s)
  <2>1. PICK i \in 1 .. Len(s) - 1 : x = Tail(s)[i]
    BY DEF Range
  <2>2. i + 1 \in 1 .. Len(s) /\ x = s[i + 1]
    BY <2>1
  <2> QED
    BY DEF Range
<1>5. Head(s) \in Range(s)
  <2>1. 1 \in 1 .. Len(s)
    OBVIOUS
  <2> QED
    BY DEF Range
<1> QED
  BY <1>3, <1>4, <1>5

-----------------------------------------------------------------------------
(* What the calls of each type come to *)

(* An open that succeeds leaves the connections that close() will close,   *)
(* but on sftp.                                                            *)
LEMMA OpenKinds ==
  ASSUME type \in Types, NEW o \in OpenOf[type]
  PROVE  /\ o.conns \in {0, 1}
         /\ o.returns = "nil" /\ type # "sftp" => o.conns = ClosedBy[type]
<1> USE DEF Opened, Fails, Panics, ClosedBy, Types, Streaming, Committing, OpenOf
<1>1. CASE type = "local"
  BY <1>1 DEF LocalOpen
<1>2. CASE type = "ftp"
  BY <1>2 DEF FTPOpen
<1>3. CASE type = "scp"
  BY <1>3 DEF SCPOpen
<1>4. CASE type = "sftp"
  BY <1>4 DEF SFTPOpen
<1>5. CASE type = "webdav"
  BY <1>5 DEF WebDAVOpen
<1>6. CASE type = "s3"
  BY <1>6 DEF S3Open
<1>7. CASE type = "gcs"
  BY <1>7 DEF GCSOpen
<1>8. CASE type = "azure"
  BY <1>8 DEF AzureOpen
<1> QED
  BY <1>1, <1>2, <1>3, <1>4, <1>5, <1>6, <1>7, <1>8

(* close() closes at most one connection.                                  *)
LEMMA CloseKinds ==
  ASSUME type \in Types
  PROVE  ClosedBy[type] \in {0, 1} /\ (type = "sftp" => ClosedBy[type] = 0)
  BY DEF ClosedBy

(* An upload leaves what there was or its own archive, whole if it returns *)
(* no error, but on sftp; on gcs it returns one if the name is taken.      *)
LEMMA UploadKinds ==
  ASSUME type \in Types, NEW old, NEW u \in UploadOf(old)[type]
  PROVE  /\ u[1] \in {"nil", "error"}
         /\ u[2] \in {old, Mine(TRUE), Mine(FALSE)}
         /\ u[1] = "nil" => u[2] \in {Mine(TRUE), Mine(FALSE)}
         /\ u[1] = "nil" /\ type # "sftp" => u[2] = Mine(TRUE)
         /\ type = "gcs" /\ old # NoObject => u[1] = "error" /\ u[2] = old
<1> DEFINE all  == Mine(TRUE)
           part == Mine(FALSE)
<1>a. Streamed(old) = {<<"nil", all>>, <<"error", old>>, <<"error", part>>, <<"error", all>>}
  BY DEF Streamed
<1>b. Committed(old) = {<<"nil", all>>, <<"error", old>>, <<"error", all>>}
  BY DEF Committed
<1>c. SFTPUpload(old) = Streamed(old) \cup {<<"nil", part>>}
  BY DEF SFTPUpload
<1> HIDE DEF all, part
<1> SUFFICES /\ u[1] \in {"nil", "error"}
             /\ u[2] \in {old, all, part}
             /\ u[1] = "nil" => u[2] \in {all, part}
             /\ u[1] = "nil" /\ type # "sftp" => u[2] = all
             /\ type = "gcs" /\ old # NoObject => u[1] = "error" /\ u[2] = old
  BY DEF all, part
<1> USE <1>a, <1>b DEF Types, Streaming, Committing, UploadOf
<1>1. CASE type = "local"
  BY <1>1 DEF LocalUpload
<1>2. CASE type = "ftp"
  BY <1>2 DEF FTPUpload
<1>3. CASE type = "scp"
  BY <1>3 DEF SCPUpload
<1>4. CASE type = "sftp"
  BY <1>4, <1>c
<1>5. CASE type = "webdav"
  BY <1>5 DEF WebDAVUpload
<1>6. CASE type = "s3"
  BY <1>6 DEF S3Upload
<1>7. CASE type = "gcs"
  BY <1>7 DEF GCSUpload
<1>8. CASE type = "azure"
  BY <1>8 DEF AzureUpload
<1> QED
  BY <1>1, <1>2, <1>3, <1>4, <1>5, <1>6, <1>7, <1>8

(* A deletion that returns no error has deleted what was there.            *)
LEMMA DeleteKinds ==
  ASSUME type \in Types, NEW old, NEW d \in DeleteOf(old)[type]
  PROVE  /\ d[1] \in {"nil", "error"}
         /\ d[2] \in {old, NoObject}
         /\ d[1] = "nil" => d[2] = NoObject
<1> USE DEF Deleted, Cleared, Types, Streaming, Committing, DeleteOf
<1>1. CASE type = "local"
  BY <1>1 DEF LocalDelete
<1>2. CASE type = "ftp"
  BY <1>2 DEF FTPDelete
<1>3. CASE type = "scp"
  BY <1>3 DEF SCPDelete
<1>4. CASE type = "sftp"
  BY <1>4 DEF SFTPDelete
<1>5. CASE type = "webdav"
  BY <1>5 DEF WebDAVDelete
<1>6. CASE type = "s3"
  BY <1>6 DEF S3Delete
<1>7. CASE type = "gcs"
  BY <1>7 DEF GCSDelete
<1>8. CASE type = "azure"
  BY <1>8 DEF AzureDelete
<1> QED
  BY <1>1, <1>2, <1>3, <1>4, <1>5, <1>6, <1>7, <1>8

-----------------------------------------------------------------------------
(* The steps *)

(* An upload that returns an error, by itself or when its time is up. *)
UploadError ==
  /\ pc = "upload"
  /\ \E u \in UploadOf(object[named[This]])[type] : Store(u[2])
  /\ UploadFails
  /\ UNCHANGED <<setting, clock, stalled, run, file>>

(* One that returns none, after which the archive is added to the list. *)
UploadDone ==
  /\ pc = "upload"
  /\ \E u \in UploadOf(object[named[This]])[type] : u[1] = "nil" /\ Store(u[2])
  /\ list' = Append(file[of[This]], This)
  /\ pc' = "rotate"
  /\ UNCHANGED <<setting, clock, stalled, conns, run, file, history>>

(* A deletion, likewise. *)
Removal ==
  /\ pc = "rotate"
  /\ Exceeds
  /\ \E d \in DeleteOf(object[named[Head(list)]])[type] : RemoveOldest(d)

(* Ten kinds of steps: a deadline makes no other step than an error.       *)
LEMMA StepKinds ==
  ASSUME [Next]_vars, type \in Types
  PROVE  \/ Tick \/ Stall \/ (\E m \in Models : Begin(m)) \/ Open
         \/ UploadError \/ UploadDone \/ Removal \/ Finish \/ Crash \/ UNCHANGED vars
<1>1. CASE Upload
  BY <1>1 DEF Upload, UploadError, UploadDone
<1>2. CASE Timeout
  BY <1>2 DEF Timeout, UploadError
<1>3. CASE Delete \/ DeleteTimeout
  BY <1>3 DEF Delete, DeleteTimeout, Removal
<1> QED
  BY <1>1, <1>2, <1>3 DEF Next, Work, Rest

(* A run that begins is the next one, named after the clock.               *)
LEMMA BeginEffect ==
  ASSUME TypeOK, Sequences, NEW m \in Models, Begin(m)
  PROVE  /\ This \in 0 .. MaxRuns - 1 /\ This' = This + 1
         /\ of' \in Seq(Models) /\ named' \in Seq(Names) /\ Len(named') = This'
         /\ named'[This'] = clock
         /\ \A r \in 1 .. This : named'[r] = named[r] /\ of'[r] = of[r]
<1>1. This \in 0 .. MaxRuns - 1
  BY BoundsAssumption DEF Begin, Sequences
<1>2. of' = Append(of, m) /\ named' = Append(named, clock)
  BY DEF Begin
<1>3. of \in Seq(Models) /\ named \in Seq(Names) /\ clock \in Names /\ Len(named) = Len(of)
  BY DEF Sequences, TypeOK
<1> QED
  BY <1>1, <1>2, <1>3 DEF This

(* The other steps begin none.                                             *)
LEMMA SameRun ==
  ASSUME UNCHANGED run
  PROVE  This' = This /\ UNCHANGED <<of, named>>
  BY DEF run, This

(* While a run is under way its name is one of Names, and its model one.   *)
LEMMA RunUnderWay ==
  ASSUME TypeOK, Sequences, Clocked, pc # "idle"
  PROVE  /\ This \in Runs /\ named[This] \in Names /\ of[This] \in Models
         /\ file[of[This]] \in Seq(Runs)
         /\ Mine(TRUE) \in Archives /\ Mine(FALSE) \in Archives
<1>1. This \in 1 .. MaxRuns
  BY DEF TypeOK, Clocked, Sequences
<1>2. named[This] \in Names /\ of[This] \in Models
  BY <1>1 DEF Sequences, This
<1>3. file[of[This]] \in Seq(Runs)
  BY <1>2 DEF Sequences
<1> QED
  BY <1>1, <1>2, <1>3 DEF Runs, Mine, Archives

(* What the oldest entry of a list that is too long is.                    *)
LEMMA OldestEntry ==
  ASSUME TypeOK, Sequences, Clocked, Rotating, pc = "rotate", Exceeds
  PROVE  /\ Head(list) \in 1 .. This /\ Head(list) # This
         /\ Head(list) \in Runs /\ named[Head(list)] \in Names
         /\ This \in Range(Tail(list)) /\ Tail(list) \in Seq(Runs) /\ Tail(list) # <<>>
         /\ Range(list) = {Head(list)} \cup Range(Tail(list))
         /\ Tail(list)[Len(Tail(list))] = This
         /\ \A i \in 1 .. Len(Tail(list)) - 1 : Tail(list)[i] # This
<1>1. /\ list \in Seq(Runs) /\ list # <<>> /\ list[Len(list)] = This
      /\ \A i \in 1 .. Len(list) - 1 : list[i] # This
      /\ Range(list) \subseteq 1 .. This
  BY DEF Rotating, Sequences
<1>2. /\ Tail(list) \in Seq(Runs) /\ Len(list) \in Nat \ {0}
      /\ Len(Tail(list)) = Len(list) - 1 /\ Head(list) = list[1]
      /\ \A i \in 1 .. Len(list) - 1 : Tail(list)[i] = list[i + 1]
      /\ Range(list) = {Head(list)} \cup Range(Tail(list))
  BY <1>1, RangeTail
<1>3. Len(list) > 1
  BY KeepsAssumption DEF Exceeds, TypeOK
<1>4. Head(list) # This /\ Head(list) \in 1 .. This
  BY <1>1, <1>2, <1>3
<1>5. Head(list) \in Runs /\ named[Head(list)] \in Names
  <2>1. This \in Nat /\ This <= MaxRuns /\ named \in [1 .. This -> Names]
    BY DEF Sequences, TypeOK
  <2> QED
    BY <1>4, <2>1, BoundsAssumption DEF Runs
<1>6. Tail(list) # <<>> /\ Tail(list)[Len(Tail(list))] = This
  <2>1. /\ Len(Tail(list)) \in 1 .. Len(list) - 1
        /\ Len(Tail(list)) + 1 = Len(list)
    BY <1>3
  <2>2. Tail(list)[Len(Tail(list))] = This
    BY <1>1, <2>1
  <2>3. Len(Tail(list)) # Len(<<>>)
    BY <1>2, <2>1
  <2> QED
    BY <2>2, <2>3
<1>7. ASSUME NEW i \in 1 .. Len(Tail(list)) - 1 PROVE Tail(list)[i] # This
  <2>1. i \in 1 .. Len(list) - 1 /\ i + 1 \in 1 .. Len(list) - 1
    OBVIOUS
  <2> QED
    BY <1>1
<1>8. This \in Range(Tail(list))
  <2>1. Len(Tail(list)) \in 1 .. Len(Tail(list))
    BY <1>3
  <2> QED
    BY <1>2, <1>6, <2>1, RangeIn
<1> QED
  BY <1>2, <1>4, <1>5, <1>6, <1>7, <1>8

-----------------------------------------------------------------------------
(* Every step keeps every part of the invariant *)

(* Every step leaves lists of runs, and a model and a name for each run.   *)
LEMMA SequencesStep ==
  ASSUME TypeOK, Sequences, Clocked, Rotating, [Next]_vars
  PROVE  Sequences'
<1>1. CASE Tick
  BY <1>1, SameRun DEF Tick, Sequences
<1>2. CASE Stall
  BY <1>2, SameRun DEF Stall, Sequences
<1>3. ASSUME NEW m \in Models, Begin(m) PROVE Sequences'
  BY <1>3, BeginEffect DEF Begin, Sequences
<1>4. CASE Open
  BY <1>4, SameRun DEF Open, Sequences
<1>5. CASE UploadError
  BY <1>5, SameRun DEF UploadError, UploadFails, Sequences
<1>6. CASE UploadDone
  <2>1. list' \in Seq(Runs)
    BY <1>6, RunUnderWay DEF UploadDone
  <2> QED
    BY <1>6, <2>1, SameRun DEF UploadDone, Sequences
<1>7. CASE Removal
  <2>1. list' \in Seq(Runs)
    BY <1>7, OldestEntry DEF Removal, RemoveOldest
  <2> QED
    BY <1>7, <2>1, SameRun DEF Removal, RemoveOldest, Sequences
<1>8. CASE Finish
  BY <1>8, SameRun DEF Finish, Sequences
<1>9. CASE Crash
  BY <1>9, SameRun DEF Crash, Sequences
<1>10. CASE UNCHANGED vars
  BY <1>10, SameRun DEF vars, Sequences
<1> QED
  BY <1>1, <1>2, <1>3, <1>4, <1>5, <1>6, <1>7, <1>8, <1>9, <1>10, StepKinds DEF
    TypeOK

(* Time passes between runs only.                                          *)
LEMMA ClockedStep ==
  ASSUME TypeOK, Sequences, Clocked, [Next]_vars
  PROVE  Clocked'
<1>0. This \in 0 .. MaxRuns /\ \A r \in 1 .. This : named[r] \in Int
  <2>1. This \in 0 .. MaxRuns
    BY DEF TypeOK, This
  <2>2. \A r \in 1 .. This : named[r] \in Names
    BY DEF Sequences
  <2> QED
    BY <2>1, <2>2 DEF Names
<1>1. CASE Tick
  BY <1>0, <1>1, SameRun DEF Tick, Clocked, TypeOK, Names
<1>2. CASE Stall
  BY <1>2, SameRun DEF Stall, Clocked
<1>3. ASSUME NEW m \in Models, Begin(m) PROVE Clocked'
  <2>1. /\ This' = This + 1 /\ named'[This'] = clock /\ clock' = clock
        /\ \A r \in 1 .. This : named'[r] = named[r]
    BY <1>3, BeginEffect DEF Begin
  <2>2. ASSUME NEW r \in 1 .. This' PROVE named'[r] <= clock'
    <3>1. r = This' \/ r \in 1 .. This
      BY <1>0, <2>1
    <3>2. clock \in Int
      BY DEF TypeOK, Names
    <3> QED
      BY <2>1, <3>1, <3>2 DEF Clocked
  <2> QED
    BY <1>0, <2>1, <2>2 DEF Clocked
<1>4. CASE Open
  BY <1>4, SameRun DEF Open, Clocked
<1>5. CASE UploadError
  BY <1>5, SameRun DEF UploadError, Clocked
<1>6. CASE UploadDone
  BY <1>6, SameRun DEF UploadDone, Clocked
<1>7. CASE Removal
  BY <1>7, SameRun DEF Removal, RemoveOldest, Clocked
<1>8. CASE Finish
  BY <1>8, SameRun DEF Finish, Clocked
<1>9. CASE Crash
  BY <1>9, SameRun DEF Crash, Clocked
<1>10. CASE UNCHANGED vars
  BY <1>10, SameRun DEF vars, Clocked
<1> QED
  BY <1>1, <1>2, <1>3, <1>4, <1>5, <1>6, <1>7, <1>8, <1>9, <1>10, StepKinds DEF
    TypeOK

(* A run enters the histories when it is over, or when it is the oldest.   *)
LEMMA PastStep ==
  ASSUME TypeOK, Sequences, Clocked, Past, Rotating, [Next]_vars
  PROVE  Past'
<1>0. This \in 0 .. MaxRuns
  BY DEF TypeOK, This
<1>1. CASE Tick
  BY <1>1, SameRun DEF Tick, Past, history
<1>2. CASE Stall
  BY <1>2, SameRun DEF Stall, Past, history
<1>3. ASSUME NEW m \in Models, Begin(m) PROVE Past'
  <2>1. This' = This + 1 /\ UNCHANGED <<file, tried, dropped>>
    BY <1>3, BeginEffect DEF Begin, history
  <2>2. This' \notin 1 .. This /\ 1 .. This \subseteq 1 .. This'
    BY <1>0, <2>1
  <2> QED
    BY <2>1, <2>2 DEF Past
<1>4. CASE Open
  <2>1. This \in 1 .. This
    BY <1>0, <1>4 DEF Open, Clocked
  <2>2. /\ tried' = tried /\ dropped' \subseteq dropped \cup {This} /\ UNCHANGED file
        /\ (pc' = "upload" /\ UNCHANGED dropped) \/ pc' = "idle"
    BY <1>4 DEF Open, history
  <2> QED
    BY <1>4, <2>1, <2>2, SameRun DEF Open, Past
<1>5. CASE UploadError
  BY <1>5, SameRun DEF UploadError, UploadFails, Past
<1>6. CASE UploadDone
  BY <1>6, SameRun DEF UploadDone, Past, history
<1>7. CASE Removal
  <2>1. tried' = tried \cup {Head(list)} /\ UNCHANGED <<dropped, file, pc, run>>
    BY <1>7 DEF Removal, RemoveOldest
  <2> QED
    BY <1>7, <2>1, OldestEntry, SameRun DEF Removal, Past
<1>8. CASE Finish
  <2>1. Range(list) \subseteq 1 .. This
    BY <1>8 DEF Finish, Rotating
  <2>2. \A m \in Models : file'[m] \in {list, file[m]}
    BY <1>8 DEF Finish
  <2>3. \A m \in Models : Range(file'[m]) \subseteq 1 .. This
    BY <2>1, <2>2 DEF Past
  <2> QED
    BY <1>8, <2>3, SameRun DEF Finish, Past, history
<1>9. CASE Crash
  BY <1>9, SameRun DEF Crash, Past
<1>10. CASE UNCHANGED vars
  BY <1>10, SameRun DEF vars, Past, history
<1> QED
  BY <1>1, <1>2, <1>3, <1>4, <1>5, <1>6, <1>7, <1>8, <1>9, <1>10, StepKinds DEF
    TypeOK

(* The rotation takes entries off the head of the list only.               *)
LEMMA RotatingStep ==
  ASSUME TypeOK, Sequences, Clocked, Past, Rotating, [Next]_vars
  PROVE  Rotating'
<1>1. CASE Tick
  BY <1>1 DEF Tick, Rotating
<1>2. CASE Stall
  BY <1>2, SameRun DEF Stall, Rotating
<1>3. ASSUME NEW m \in Models, Begin(m) PROVE Rotating'
  BY <1>3 DEF Begin, Rotating
<1>4. CASE Open
  BY <1>4 DEF Open, Rotating
<1>5. CASE UploadError
  BY <1>5 DEF UploadError, UploadFails, Rotating
<1>6. CASE UploadDone
  <2> DEFINE old == file[of[This]]
  <2>1. This \in Runs /\ old \in Seq(Runs) /\ of[This] \in Models
    BY <1>6, RunUnderWay DEF UploadDone
  <2>2. Range(old) \subseteq 1 .. This /\ This \notin Range(old)
    BY <1>6, <2>1 DEF UploadDone, Past
  <2>3. list' = Append(old, This)
    BY <1>6 DEF UploadDone
  <2> HIDE DEF old
  <2>4. /\ Len(list') = Len(old) + 1 /\ list'[Len(old) + 1] = This
        /\ \A i \in 1 .. Len(old) : list'[i] = old[i]
        /\ Range(list') = Range(old) \cup {This}
        /\ list' \in Seq(Runs) /\ Len(old) \in Nat
    BY <2>1, <2>3, RangeAppend
  <2>5. \A i \in 1 .. Len(list') - 1 : list'[i] # This
    BY <2>1, <2>2, <2>4, RangeIn
  <2>6. This \in 1 .. This
    BY <2>1 DEF Runs
  <2>7. list' # <<>>
    BY <2>4
  <2> QED
    BY <1>6, <2>2, <2>4, <2>5, <2>6, <2>7, SameRun DEF UploadDone, Rotating
<1>7. CASE Removal
  <2>1. list' = Tail(list) /\ UNCHANGED <<pc, run>>
    BY <1>7 DEF Removal, RemoveOldest
  <2> QED
    BY <1>7, <2>1, OldestEntry, SameRun DEF Removal, Rotating
<1>8. CASE Finish
  BY <1>8 DEF Finish, Rotating
<1>9. CASE Crash
  BY <1>9 DEF Crash, Rotating
<1>10. CASE UNCHANGED vars
  BY <1>10, SameRun DEF vars, Rotating
<1> QED
  BY <1>1, <1>2, <1>3, <1>4, <1>5, <1>6, <1>7, <1>8, <1>9, <1>10, StepKinds DEF
    TypeOK

(* What an upload or a deletion leaves under a name is an object.          *)
LEMMA StoredIsObject ==
  ASSUME TypeOK, Sequences, Clocked, pc # "idle", NEW u,
         u \in UploadOf(object[named[This]])[type]
  PROVE  u[2] \in Objects
<1>1. object[named[This]] \in Objects
  BY RunUnderWay DEF TypeOK
<1>2. u[2] \in {object[named[This]], Mine(TRUE), Mine(FALSE)}
  BY UploadKinds DEF TypeOK
<1> QED
  BY <1>1, <1>2, RunUnderWay DEF Objects

(* The connections are counted by every open and close.                    *)
LEMMA CountedStep ==
  ASSUME TypeOK, Sequences, Clocked, Past, Counted, [Next]_vars
  PROVE  Counted'
<1>0. This \in 0 .. MaxRuns /\ (pc # "idle" => This > 0)
  BY DEF TypeOK, This, Clocked
<1>a. IsFiniteSet(dropped) /\ Cardinality(dropped) \in Nat
  <2>1. dropped \subseteq 1 .. This /\ IsFiniteSet(1 .. This)
    BY <1>0, FS_Interval DEF Past
  <2> QED
    BY <2>1, FS_Subset, FS_CardinalityType
<1>b. type \in Types /\ ClosedBy[type] \in {0, 1} /\ (type = "sftp" => ClosedBy[type] = 0)
  BY CloseKinds DEF TypeOK
<1>c. conns \in Int
  BY DEF TypeOK
<1>1. CASE Tick
  BY <1>1, SameRun DEF Tick, Counted, setting, history
<1>2. CASE Stall
  BY <1>2, SameRun DEF Stall, Counted, setting, history
<1>3. ASSUME NEW m \in Models, Begin(m) PROVE Counted'
  <2>1. This' = This + 1 /\ UNCHANGED <<conns, type, dropped>>
    BY <1>3, BeginEffect DEF Begin, setting, history
  <2>2. pc = "idle" /\ pc' = "open"
    BY <1>3 DEF Begin
  <2> QED
    BY <1>0, <2>1, <2>2 DEF Counted
<1>4. CASE Open
  <2>1. PICK o \in OpenOf[type] :
          /\ conns' = conns + o.conns
          /\ IF o.returns = "nil"
               THEN pc' = "upload" /\ UNCHANGED history
               ELSE /\ pc' = "idle"
                    /\ dropped' = IF o.conns > 0 THEN dropped \cup {This} ELSE dropped
    BY <1>4 DEF Open
  <2>2. /\ o.conns \in {0, 1}
        /\ o.returns = "nil" /\ type # "sftp" => o.conns = ClosedBy[type]
    BY <1>b, OpenKinds
  <2>3. pc = "open" /\ type' = type /\ This' = This
    BY <1>4, SameRun DEF Open, setting
  <2>4. CASE o.returns = "nil"
    <3>1. conns' = conns + o.conns /\ pc' = "upload" /\ dropped' = dropped
      BY <2>1, <2>4 DEF history
    <3> QED
      BY <1>0, <1>a, <2>2, <2>3, <2>4, <3>1 DEF Counted
  <2>5. CASE o.returns # "nil"
    <3>1. conns' = conns + o.conns /\ pc' = "idle"
      BY <2>1, <2>5
    <3>2. Cardinality(dropped') = Cardinality(dropped) + o.conns
      <4>1. This \notin dropped
        BY <2>3 DEF Past
      <4>2. CASE o.conns = 1
        <5>1. dropped' = dropped \cup {This}
          BY <2>1, <2>5, <4>2
        <5> QED
          BY <1>a, <4>1, <4>2, <5>1, FS_AddElement
      <4>3. CASE o.conns = 0
        <5>1. dropped' = dropped
          BY <2>1, <2>5, <4>3
        <5> QED
          BY <1>a, <4>3, <5>1
      <4> QED
        BY <2>2, <4>2, <4>3
    <3> QED
      BY <1>0, <1>a, <2>2, <2>3, <3>1, <3>2 DEF Counted
  <2> QED
    BY <2>4, <2>5
<1>5. CASE UploadError
  <2>1. /\ pc = "upload" /\ pc' = "idle" /\ type' = type /\ This' = This
        /\ dropped' = dropped /\ conns' = conns - ClosedBy[type]
    BY <1>5, SameRun DEF UploadError, UploadFails, Close, setting
  <2> QED
    BY <1>0, <1>a, <1>b, <2>1 DEF Counted
<1>6. CASE UploadDone
  BY <1>6, SameRun DEF UploadDone, Counted, setting, history
<1>7. CASE Removal
  BY <1>7, SameRun DEF Removal, RemoveOldest, Counted, setting
<1>8. CASE Finish
  <2>1. /\ pc = "rotate" /\ pc' = "idle" /\ type' = type /\ This' = This
        /\ dropped' = dropped /\ conns' = conns - ClosedBy[type]
    BY <1>8, SameRun DEF Finish, Close, setting, history
  <2> QED
    BY <1>0, <1>a, <1>b, <2>1 DEF Counted
<1>9. CASE Crash
  <2>1. /\ pc' = "idle" /\ This' = This /\ conns' = 0 /\ dropped' = {}
    BY <1>9, SameRun DEF Crash
  <2> QED
    BY <1>0, <2>1, FS_EmptySet DEF Counted
<1>10. CASE UNCHANGED vars
  BY <1>10, SameRun DEF vars, Counted, setting, history
<1> QED
  BY <1>1, <1>2, <1>3, <1>4, <1>5, <1>6, <1>7, <1>8, <1>9, <1>10, <1>b, StepKinds

(* Every step keeps the variables in their sets, the number of connections *)
(* and of runs included.                                                   *)
LEMMA TypeStep ==
  ASSUME TypeOK, Sequences, Clocked, Past, Rotating, Counted, [Next]_vars
  PROVE  TypeOK'
<1>a. /\ Sequences' /\ Past' /\ Counted'
  BY SequencesStep, PastStep, CountedStep
<1>b. This \in 0 .. MaxRuns /\ (pc # "idle" => This \in Runs)
  <2>1. This \in 0 .. MaxRuns
    BY DEF TypeOK, This
  <2> QED
    BY <2>1, RunUnderWay
<1>c. type \in Types
  BY DEF TypeOK
<1>1. This' \in 0 .. MaxRuns
  <2>1. ASSUME NEW m \in Models, Begin(m) PROVE This' \in 0 .. MaxRuns
    BY <2>1, BeginEffect, BoundsAssumption
  <2>2. UNCHANGED run => This' \in 0 .. MaxRuns
    BY <1>b, SameRun
  <2> QED
    BY <1>c, <2>1, <2>2, StepKinds
       DEF Tick, Stall, Open, UploadError, UploadDone, Removal, RemoveOldest,
         Finish, Crash, vars
<1>2. /\ type' \in Types /\ given' \in Givens /\ timed' \in BOOLEAN /\ keep' \in Keeps
  <2>1. UNCHANGED setting
    BY <1>c, StepKinds
       DEF Tick, Stall, Begin, Open, UploadError, UploadDone, Removal,
         RemoveOldest, Finish, Crash, vars
  <2> QED
    BY <2>1 DEF setting, TypeOK
<1>3. clock' \in Names
  <2>1. clock' = clock \/ (clock < MaxClock - 1 /\ clock' = clock + 1)
    BY <1>c, StepKinds
       DEF Tick, Stall, Begin, Open, UploadError, UploadDone, Removal,
         RemoveOldest, Finish, Crash, vars
  <2> QED
    BY <2>1, BoundsAssumption DEF TypeOK, Names
<1>4. stalled' \in BOOLEAN
  <2>1. stalled' \in {stalled, ~stalled, FALSE}
    BY <1>c, StepKinds
       DEF Tick, Stall, Begin, Open, UploadError, UploadDone, Removal,
         RemoveOldest, Finish, Crash, vars
  <2> QED
    BY <2>1 DEF TypeOK
<1>5. object' \in [Names -> Objects]
  <2>1. CASE pc = "upload" /\ \E u \in UploadOf(object[named[This]])[type] : Store(u[2])
    <3>1. PICK u \in UploadOf(object[named[This]])[type] : Store(u[2])
      BY <2>1
    <3>2. u[2] \in Objects
      BY <2>1, StoredIsObject
    <3> QED
      BY <3>1, <3>2 DEF Store, TypeOK
  <2>2. CASE Removal
    <3>1. PICK d \in DeleteOf(object[named[Head(list)]])[type] : RemoveOldest(d)
      BY <2>2 DEF Removal
    <3>2. d[2] \in {object[named[Head(list)]], NoObject} /\ named[Head(list)] \in Names
      BY <1>c, <2>2, DeleteKinds, OldestEntry DEF Removal
    <3>3. d[2] \in Objects
      BY <3>2 DEF TypeOK, Objects
    <3> QED
      BY <3>1, <3>3 DEF RemoveOldest, TypeOK
  <2>3. CASE UNCHANGED object
    BY <2>3 DEF TypeOK
  <2> QED
    BY <1>c, <2>1, <2>2, <2>3, StepKinds
       DEF Tick, Stall, Begin, Open, UploadError, UploadDone, Finish, Crash, vars
<1>6. conns' \in 0 .. MaxRuns
  <2>1. This' \in Nat /\ This' <= MaxRuns /\ MaxRuns \in Nat
    BY <1>1, BoundsAssumption
  <2>2. conns' \in 0 .. This' - 1 \/ conns' \in 0 .. This'
    BY <1>a DEF Counted
  <2> QED
    BY <2>1, <2>2
<1>7. pc' \in {"idle", "open", "upload", "rotate"}
  <2>1. pc' \in {pc, "idle", "open", "upload", "rotate"}
    BY <1>c, StepKinds
       DEF Tick, Stall, Begin, Open, UploadError, UploadFails, UploadDone,
         Removal, RemoveOldest, Finish, Crash, vars
  <2> QED
    BY <2>1 DEF TypeOK
<1>8. /\ Len(of') <= MaxRuns /\ Range(of') \subseteq Models
      /\ Len(named') = Len(of') /\ Range(named') \subseteq Names
      /\ Range(list') \subseteq Runs
      /\ \A m \in Models : Range(file'[m]) \subseteq Runs
  <2>1. \A s \in Seq(Runs) : Range(s) \subseteq Runs
    BY RangeIn
  <2> QED
    BY <1>a, <1>1, RangeIn DEF Sequences, This
<1>9. UNION {failed', tried', refused', dropped'} \subseteq Runs
  <2>1. failed' \subseteq failed \cup {This} /\ (failed' = failed \/ pc # "idle")
    BY <1>c, StepKinds
       DEF Tick, Stall, Begin, Open, UploadError, UploadFails, UploadDone,
         Removal, RemoveOldest,
           Finish, Crash, vars, history
  <2>2. CASE Removal
    BY <2>2, OldestEntry DEF Removal, RemoveOldest, TypeOK
  <2>3. refused' \subseteq Runs
    BY <2>2, StepKinds DEF Tick, Stall, Begin, Open, UploadError, UploadFails,
      UploadDone, Finish, Crash, vars, history, TypeOK
  <2>4. tried' \cup dropped' \subseteq Runs
    BY <1>a, <1>1, BoundsAssumption DEF Past, Runs
  <2> QED
    BY <1>b, <2>1, <2>3, <2>4 DEF TypeOK
<1> QED
  BY <1>2, <1>3, <1>4, <1>5, <1>6, <1>7, <1>8, <1>9 DEF TypeOK

(* What is tracked is of runs that have begun.                             *)
LEMMA TrackedPast ==
  ASSUME Past, Rotating
  PROVE  Tracked \subseteq 1 .. This
  BY DEF Past, Rotating, Tracked

(* A name that is shared stays so.                                         *)
LEMMA SharedStays ==
  ASSUME TypeOK, Sequences, NEW r \in 1 .. This, Shared(r),
         UNCHANGED run \/ \E m \in Models : Begin(m)
  PROVE  Shared(r)'
<1>1. CASE UNCHANGED run
  BY <1>1, SameRun DEF Shared
<1>2. ASSUME NEW m \in Models, Begin(m) PROVE Shared(r)'
  <2>1. /\ This \in Nat /\ This' = This + 1
        /\ \A q \in 1 .. This : named'[q] = named[q]
    BY <1>2, BeginEffect
  <2>2. PICK q \in 1 .. This : q # r /\ named[q] = named[r]
    BY DEF Shared
  <2>3. q \in 1 .. This' /\ named'[q] = named'[r]
    BY <2>1, <2>2
  <2> QED
    BY <2>2, <2>3 DEF Shared
<1> QED
  BY <1>1, <1>2

(* An upload takes nothing whole from another run but by its name: on gcs, *)
(* where the name is taken, it leaves what there is.                       *)
LEMMA UploadKeepsWhole ==
  ASSUME TypeOK, Sequences, Clocked, Past, Rotating, AllWhole, pc = "upload",
         NEW u \in UploadOf(object[named[This]])[type], Store(u[2]),
         UNCHANGED <<run, type>>, NEW r \in Tracked \ tried
  PROVE  Whole(r)'
<1>1. /\ r \in 1 .. This /\ r # This /\ Whole(r) /\ This \in 1 .. This
      /\ named[r] \in Names /\ named[This] \in Names
  <2>1. r \in 1 .. This /\ r # This
    BY DEF Past, Tracked
  <2>2. This \in 1 .. This /\ named[This] \in Names
    BY RunUnderWay DEF Runs
  <2>3. named[r] \in Names
    BY <2>1 DEF Sequences
  <2> QED
    BY <2>1, <2>2, <2>3 DEF AllWhole
<1>2. Shared(r)' = Shared(r)
  BY SameRun DEF Shared
<1>3. object'[named[r]] = object[named[r]] \/ Shared(r)
  <2>1. named[r] = named[This] => Shared(r)
    BY <1>1 DEF Shared
  <2>2. named[r] # named[This] => object'[named[r]] = object[named[r]]
    BY DEF Store
  <2> QED
    BY <2>1, <2>2
<1>4. CASE type # "gcs"
  BY <1>1, <1>2, <1>3, <1>4, SameRun DEF Whole
<1>5. CASE type = "gcs"
  <2>1. object[named[r]] = [run |-> r, whole |-> TRUE]
    BY <1>1, <1>5 DEF Whole
  <2>2. object[named[r]] # NoObject
    <3>1. [run |-> r, whole |-> TRUE] \in Archives
      <4>1. r \in Runs
        BY <1>1, BoundsAssumption DEF TypeOK, Sequences, Runs
      <4> QED
        BY <4>1 DEF Archives
    <3> QED
      BY <2>1, <3>1, NoObjectAssumption
  <2>3. named[r] = named[This] => u[2] = object[named[This]]
    BY <1>5, <2>2, UploadKinds DEF TypeOK
  <2>4. object'[named[r]] = object[named[r]]
    BY <2>3 DEF Store
  <2> QED
    BY <2>1, <2>4, SameRun DEF Whole
<1> QED
  BY <1>4, <1>5

(* On gcs the name the rotation deletes is that of no other archive that   *)
(* is tracked, and of a second that has gone by.                           *)
LEMMA OldestIsApart ==
  ASSUME TypeOK, Sequences, Clocked, Past, Rotating, AllWhole, Apart,
         pc = "rotate", Exceeds, type = "gcs"
  PROVE  /\ named[Head(list)] < clock
         /\ \A r \in Tracked \ tried : r # Head(list) => named[r] # named[Head(list)]
<1> DEFINE oldest == Head(list)
<1>1. /\ oldest \in 1 .. This /\ oldest # This /\ named[oldest] \in Names
      /\ This \in Range(list) /\ oldest \in Range(list)
  BY OldestEntry
<1>2. oldest \in Tracked /\ This \in Tracked \ tried
  <2>1. oldest \in Runs /\ This \in Runs /\ This \notin tried
    BY OldestEntry DEF Past
  <2> QED
    BY <1>1, <2>1 DEF Tracked
<1> HIDE DEF oldest
<1>3. CASE oldest \in tried
  BY <1>3 DEF Apart, oldest
<1>4. CASE oldest \notin tried
  <2>1. \A r \in Tracked \ tried : object[named[r]] = [run |-> r, whole |-> TRUE]
    BY DEF AllWhole, Whole
  <2>2. \A r \in Tracked \ tried : r # oldest => named[r] # named[oldest]
    <3> SUFFICES ASSUME NEW r \in Tracked \ tried, named[r] = named[oldest]
                 PROVE  r = oldest
      OBVIOUS
    <3>1. [run |-> r, whole |-> TRUE] = [run |-> oldest, whole |-> TRUE]
      BY <1>2, <1>4, <2>1
    <3> QED
      BY <3>1
  <2>3. named[oldest] <= clock /\ named[oldest] # clock
    BY <1>1, <1>2, <2>2 DEF Clocked
  <2>4. named[oldest] \in Int /\ clock \in Int
    BY <1>1 DEF Names, TypeOK
  <2> QED
    BY <2>2, <2>3, <2>4 DEF oldest
<1> QED
  BY <1>3, <1>4

(* What steps other than an upload do to what is tracked.                  *)
LEMMA TrackedKept ==
  ASSUME TypeOK, Sequences, Clocked, Past, Rotating, [Next]_vars, ~UploadDone
  PROVE  Tracked' \ tried' \subseteq Tracked \ tried
<1>1. CASE Tick \/ Stall
  BY <1>1 DEF Tick, Stall, Tracked, history
<1>2. ASSUME NEW m \in Models, Begin(m) PROVE Tracked' \ tried' \subseteq Tracked \ tried
  BY <1>2 DEF Begin, Tracked, history
<1>3. CASE Open
  BY <1>3 DEF Open, Tracked, history
<1>4. CASE UploadError
  BY <1>4 DEF UploadError, UploadFails, Tracked
<1>5. CASE Removal
  <2>1. Range(list') \subseteq Range(list)
    BY <1>5, OldestEntry DEF Removal, RemoveOldest
  <2> QED
    BY <1>5, <2>1 DEF Removal, RemoveOldest, Tracked
<1>6. CASE Finish
  <2>1. \A m \in Models : file'[m] \in {list, file[m]}
    BY <1>6 DEF Finish
  <2>2. pc = "rotate" /\ pc' = "idle" /\ tried' = tried
    BY <1>6 DEF Finish, history
  <2> QED
    BY <2>1, <2>2 DEF Tracked
<1>7. CASE Crash
  BY <1>7 DEF Crash, Tracked
<1>8. CASE UNCHANGED vars
  BY <1>8 DEF vars, Tracked, history
<1> QED
  BY <1>1, <1>2, <1>3, <1>4, <1>5, <1>6, <1>7, <1>8, StepKinds DEF TypeOK

(* What is tracked stays whole: an upload replaces, and a deletion takes,  *)
(* what another run has stored only if both share a name, and not on gcs.  *)
LEMMA AllWholeStep ==
  ASSUME TypeOK, Sequences, Clocked, Past, Rotating, AllWhole, Apart, [Next]_vars
  PROVE  AllWhole'
<1>a. \A r \in Tracked \ tried :
        /\ Whole(r) /\ r \in 1 .. This
        /\ UNCHANGED <<object, type, run>> => Whole(r)'
  BY TrackedPast, SameRun DEF AllWhole, Whole, Shared
<1>b. ~UploadDone => Tracked' \ tried' \subseteq Tracked \ tried
  BY TrackedKept
<1>1. CASE Tick \/ Stall \/ Open \/ Finish \/ UNCHANGED vars
  <2>1. UNCHANGED <<object, type, run>>
    BY <1>1 DEF Tick, Stall, Open, Finish, vars, setting
  <2>2. ~UploadDone
    BY <1>1 DEF Tick, Stall, Open, Finish, vars, UploadDone
  <2> QED
    BY <1>a, <1>b, <2>1, <2>2 DEF AllWhole
<1>2. ASSUME NEW m \in Models, Begin(m) PROVE AllWhole'
  <2>1. /\ ~UploadDone /\ UNCHANGED <<object, type>>
        /\ \A r \in 1 .. This : named'[r] = named[r] /\ (Shared(r) => Shared(r)')
    BY <1>2, BeginEffect, SharedStays DEF Begin, UploadDone, setting
  <2> QED
    BY <1>a, <1>b, <2>1 DEF AllWhole, Whole
<1>3. CASE UploadError
  <2>1. PICK u \in UploadOf(object[named[This]])[type] : Store(u[2])
    BY <1>3 DEF UploadError
  <2>2. pc = "upload" /\ UNCHANGED <<run, type>> /\ ~UploadDone
    BY <1>3 DEF UploadError, UploadFails, UploadDone, setting
  <2> QED
    BY <1>b, <2>1, <2>2, UploadKeepsWhole DEF AllWhole
<1>4. CASE UploadDone
  <2>1. PICK u \in UploadOf(object[named[This]])[type] : u[1] = "nil" /\ Store(u[2])
    BY <1>4 DEF UploadDone
  <2>2. pc = "upload" /\ UNCHANGED <<run, type, tried, file>>
    BY <1>4 DEF UploadDone, setting, history
  <2>3. \A r \in Tracked \ tried : Whole(r)'
    BY <2>1, <2>2, UploadKeepsWhole
  <2>4. Tracked' \subseteq Tracked \cup {This}
    <3>1. Range(list') = Range(file[of[This]]) \cup {This} /\ of[This] \in Models
      BY <1>4, RunUnderWay, RangeAppend DEF UploadDone
    <3> QED
      BY <2>2, <3>1 DEF Tracked
  <2>5. Whole(This)'
    <3>1. CASE type = "sftp"
      BY <2>2, <3>1 DEF Whole
    <3>2. CASE type # "sftp"
      <4>1. u[2] = Mine(TRUE)
        BY <2>1, <3>2, UploadKinds DEF TypeOK
      <4>2. named[This] \in Names
        BY <2>2, RunUnderWay
      <4>3. object'[named[This]] = [run |-> This, whole |-> TRUE]
        BY <2>1, <4>1, <4>2 DEF Store, TypeOK, Mine
      <4>4. Whole(This') = Whole(This)
        BY <2>2, SameRun
      <4> QED
        BY <2>2, <4>3, SameRun DEF Whole
    <3> QED
      BY <3>1, <3>2
  <2> QED
    BY <2>2, <2>3, <2>4, <2>5, SameRun DEF AllWhole
<1>5. CASE Removal
  <2> DEFINE oldest == Head(list)
  <2>1. PICK d \in DeleteOf(object[named[oldest]])[type] : RemoveOldest(d)
    BY <1>5 DEF Removal
  <2>2. /\ oldest \in 1 .. This /\ named[oldest] \in Names
        /\ pc = "rotate" /\ Exceeds /\ ~UploadDone
    BY <1>5, OldestEntry DEF Removal, UploadDone
  <2>3. UNCHANGED <<run, type>> /\ oldest \in tried'
    BY <2>1 DEF RemoveOldest, setting
  <2>4. ASSUME NEW r \in Tracked \ tried, r # oldest PROVE Whole(r)'
    <3>1. named[r] # named[oldest] => object'[named[r]] = object[named[r]]
      BY <2>1 DEF RemoveOldest
    <3>2. named[r] = named[oldest] => Shared(r) /\ type # "gcs"
      BY <2>2, <2>4, OldestIsApart DEF Shared
    <3>3. Shared(r)' = Shared(r)
      BY <2>3, SameRun DEF Shared
    <3> QED
      BY <1>a, <2>3, <3>1, <3>2, <3>3, SameRun DEF Whole
  <2> HIDE DEF oldest
  <2> QED
    BY <1>b, <2>2, <2>3, <2>4 DEF AllWhole
<1>6. CASE Crash
  <2>1. UNCHANGED <<run, type>> /\ ~UploadDone
    BY <1>6 DEF Crash, UploadDone, setting
  <2>2. CASE pc = "upload"
    <3>1. PICK u \in UploadOf(object[named[This]])[type] : Store(u[2])
      BY <1>6, <2>2 DEF Crash
    <3> QED
      BY <1>b, <2>1, <2>2, <3>1, UploadKeepsWhole DEF AllWhole
  <2>3. CASE pc # "upload"
    BY <1>6, <1>a, <1>b, <2>1, <2>3 DEF Crash, AllWhole
  <2> QED
    BY <2>2, <2>3
<1> QED
  BY <1>1, <1>2, <1>3, <1>4, <1>5, <1>6, StepKinds DEF TypeOK

(* A name that was rotated away on gcs is not given again.                 *)
LEMMA ApartStep ==
  ASSUME TypeOK, Sequences, Clocked, Past, Rotating, AllWhole, Apart, [Next]_vars
  PROVE  Apart'
<1> SUFFICES ASSUME type' = "gcs" PROVE Apart'
  BY DEF Apart
<1>a. type = "gcs" /\ UNCHANGED setting
  BY StepKinds
     DEF Tick, Stall, Begin, Open, UploadError, UploadDone, Removal,
       RemoveOldest, Finish, Crash,
         vars, setting, TypeOK
<1>b. ~UploadDone => Tracked' \ tried' \subseteq Tracked \ tried
  BY TrackedKept
<1>c. /\ clock \in Int /\ tried \subseteq 1 .. This /\ Tracked \subseteq 1 .. This
      /\ \A q \in 1 .. This : named[q] \in Int
  <2>1. \A q \in 1 .. This : named[q] \in Names
    BY DEF Sequences
  <2> QED
    BY BoundsAssumption DEF TypeOK, Names
<1>d. \A q \in tried : named[q] < clock /\ \A r \in Tracked \ tried : named[r] # named[q]
  BY <1>a DEF Apart
<1>1. CASE Tick
  <2>1. UNCHANGED <<named, tried>> /\ clock' = clock + 1 /\ ~UploadDone
    BY <1>1 DEF Tick, UploadDone, run, history
  <2>2. \A q \in tried : named[q] < clock'
    <3>1. ASSUME NEW q \in tried PROVE named[q] < clock'
      <4>1. named[q] \in Int /\ named[q] < clock
        BY <1>c, <1>d
      <4> QED
        BY <1>c, <2>1, <4>1
    <3> QED
      BY <3>1
  <2> QED
    BY <1>b, <1>d, <2>1, <2>2 DEF Apart
<1>2. CASE Stall \/ Open \/ UploadError \/ Finish \/ Crash \/ UNCHANGED vars
  <2>1. UNCHANGED <<named, tried, clock>> /\ ~UploadDone
    BY <1>2
       DEF Stall, Open, UploadError, UploadFails, Finish, Crash, vars,
         UploadDone, run, history
  <2> QED
    BY <1>b, <1>d, <2>1 DEF Apart
<1>3. ASSUME NEW m \in Models, Begin(m) PROVE Apart'
  <2>1. /\ UNCHANGED <<tried, clock>> /\ ~UploadDone
        /\ \A q \in 1 .. This : named'[q] = named[q]
    BY <1>3, BeginEffect DEF Begin, UploadDone, history
  <2> QED
    BY <1>b, <1>c, <1>d, <2>1 DEF Apart
<1>4. CASE UploadDone
  <2>1. UNCHANGED <<named, tried, clock>> /\ pc = "upload"
    BY <1>4 DEF UploadDone, run, history
  <2>2. Tracked' \subseteq Tracked \cup {This}
    <3>1. Range(list') = Range(file[of[This]]) \cup {This} /\ of[This] \in Models
      BY <1>4, RunUnderWay, RangeAppend DEF UploadDone
    <3>2. UNCHANGED file
      BY <1>4 DEF UploadDone
    <3> QED
      BY <3>1, <3>2 DEF Tracked
  <2>3. \A q \in tried : named[q] # named[This]
    BY <1>c, <1>d, <2>1 DEF Clocked
  <2> QED
    BY <1>d, <2>1, <2>2, <2>3 DEF Apart
<1>5. CASE Removal
  <2>1. UNCHANGED <<named, clock>> /\ tried' = tried \cup {Head(list)} /\ ~UploadDone
    BY <1>5 DEF Removal, RemoveOldest, UploadDone, run
  <2>2. /\ named[Head(list)] < clock
        /\ \A r \in Tracked \ tried : r # Head(list) => named[r] # named[Head(list)]
    BY <1>5, <1>a, OldestIsApart DEF Removal
  <2> QED
    BY <1>b, <1>d, <2>1, <2>2 DEF Apart
<1> QED
  BY <1>1, <1>2, <1>3, <1>4, <1>5, StepKinds DEF TypeOK

(* A run that has failed or shares its name stays so.                      *)
LEMMA ExcusedStays ==
  ASSUME TypeOK, Sequences, NEW r \in 1 .. This, Excused(r),
         failed \subseteq failed', refused \subseteq refused',
         UNCHANGED run \/ \E m \in Models : Begin(m)
  PROVE  Excused(r)'
  BY SharedStays DEF Excused

(* An object that an upload leaves was there or is of the run under way.   *)
LEMMA UploadLeaves ==
  ASSUME TypeOK, Sequences, Clocked, pc = "upload",
         NEW u \in UploadOf(object[named[This]])[type], Store(u[2]), NEW n \in Names
  PROVE  object'[n] = object[n] \/ (n = named[This] /\ object'[n].run = This)
<1>1. u[2] \in {object[named[This]], Mine(TRUE), Mine(FALSE)}
  BY UploadKinds DEF TypeOK
<1>2. Mine(TRUE).run = This /\ Mine(FALSE).run = This
  BY DEF Mine
<1>3. object' = [object EXCEPT ![named[This]] = u[2]] /\ object \in [Names -> Objects]
  BY DEF Store, TypeOK
<1> QED
  BY <1>1, <1>2, <1>3

(* What is stored is listed: the list enters the history before the run    *)
(* ends, and leaves it as it was if it does not.                           *)
LEMMA KnownStep ==
  ASSUME TypeOK, Sequences, Clocked, Past, Rotating, Known, [Next]_vars
  PROVE  Known'
<1> SUFFICES ASSUME NEW n \in Names, NEW r, object'[n] # NoObject, r = object'[n].run
             PROVE  r \in 1 .. This' /\ named'[r] = n /\ Listed(r)'
  BY DEF Known
<1>a. object'[n] = object[n] => r \in 1 .. This /\ named[r] = n /\ Listed(r)
  BY DEF Known
<1>b. This \in 0 .. MaxRuns /\ \A q \in 1 .. This : of[q] \in Models
  BY DEF TypeOK, Sequences, This
<1>c. pc # "idle" => This \in 1 .. This
  BY <1>b DEF Clocked
<1>d. ASSUME object'[n] = object[n], UNCHANGED run, failed \subseteq failed',
             refused \subseteq refused'
      PROVE  /\ r \in 1 .. This' /\ named'[r] = n /\ Listed(r)
             /\ Excused(r) => Excused(r)'
  <2>1. r \in 1 .. This /\ named[r] = n /\ Listed(r)
    BY <1>a, <1>d
  <2> QED
    BY <1>d, <2>1, ExcusedStays, SameRun
<1>1. CASE Tick \/ Stall \/ Open \/ UNCHANGED vars
  <2>1. /\ UNCHANGED <<run, object, file, refused, list>> /\ failed \subseteq failed'
        /\ pc = "rotate" <=> pc' = "rotate"
    BY <1>1 DEF Tick, Stall, Open, vars, history
  <2> QED
    BY <1>d, <2>1, SameRun DEF Listed
<1>2. CASE \E m \in Models : Begin(m)
  <2>1. /\ UNCHANGED <<object, file, failed, refused>> /\ pc = "idle" /\ pc' = "open"
        /\ This' = This + 1
        /\ \A q \in 1 .. This : named'[q] = named[q] /\ of'[q] = of[q]
    BY <1>2, BeginEffect DEF Begin, history
  <2>2. r \in 1 .. This /\ named[r] = n /\ Listed(r)
    BY <1>a, <2>1
  <2>3. Excused(r) => Excused(r)'
    BY <1>2, <2>1, <2>2, ExcusedStays
  <2>4. r \in 1 .. This'
    BY <1>b, <2>1, <2>2
  <2> QED
    BY <2>1, <2>2, <2>3, <2>4 DEF Listed
<1>3. CASE UploadError
  <2>1. PICK u \in UploadOf(object[named[This]])[type] : Store(u[2])
    BY <1>3 DEF UploadError
  <2>2. /\ pc = "upload" /\ pc' = "idle" /\ UNCHANGED <<run, file, refused>>
        /\ failed' = failed \cup {This}
    BY <1>3 DEF UploadError, UploadFails
  <2>3. object'[n] = object[n] \/ (n = named[This] /\ r = This)
    BY <2>1, <2>2, UploadLeaves
  <2>4. CASE object'[n] = object[n]
    BY <1>d, <2>2, <2>4, SameRun DEF Listed
  <2>5. CASE n = named[This] /\ r = This
    BY <1>c, <2>2, <2>5, SameRun DEF Listed, Excused
  <2> QED
    BY <2>3, <2>4, <2>5
<1>4. CASE UploadDone
  <2>1. PICK u \in UploadOf(object[named[This]])[type] : Store(u[2])
    BY <1>4 DEF UploadDone
  <2>2. pc = "upload" /\ pc' = "rotate" /\ UNCHANGED <<run, file, failed, refused>>
    BY <1>4 DEF UploadDone, history
  <2>3. Range(list') = Range(file[of[This]]) \cup {This}
    BY <1>4, RunUnderWay, RangeAppend DEF UploadDone
  <2>4. object'[n] = object[n] \/ (n = named[This] /\ r = This)
    BY <2>1, <2>2, UploadLeaves
  <2>5. CASE object'[n] = object[n]
    BY <1>d, <2>2, <2>3, <2>5, SameRun DEF Listed
  <2>6. CASE n = named[This] /\ r = This
    BY <1>c, <2>2, <2>3, <2>6, SameRun DEF Listed
  <2> QED
    BY <2>4, <2>5, <2>6
<1>5. CASE Removal
  <2> DEFINE oldest == Head(list)
  <2>1. PICK d \in DeleteOf(object[named[oldest]])[type] : RemoveOldest(d)
    BY <1>5 DEF Removal
  <2>2. /\ Range(list) = {oldest} \cup Range(Tail(list)) /\ named[oldest] \in Names
        /\ pc = "rotate"
    BY <1>5, OldestEntry DEF Removal
  <2>3. /\ UNCHANGED <<run, file, pc, failed>> /\ list' = Tail(list)
        /\ refused' = IF d[1] = "error" THEN refused \cup {oldest} ELSE refused
        /\ object' = [object EXCEPT ![named[oldest]] = d[2]]
    BY <2>1 DEF RemoveOldest
  <2>4. /\ d[1] \in {"nil", "error"} /\ d[2] \in {object[named[oldest]], NoObject}
        /\ d[1] = "nil" => d[2] = NoObject
    BY DeleteKinds DEF TypeOK
  <2> HIDE DEF oldest
  <2>5. object'[n] = object[n] /\ (n = named[oldest] => oldest \in refused')
    BY <2>3, <2>4 DEF TypeOK
  <2>6. r \in 1 .. This' /\ named'[r] = n /\ Listed(r) /\ (Excused(r) => Excused(r)')
    BY <1>d, <2>3, <2>5
  <2>7. r = oldest => r \in refused'
    BY <2>3, <2>5, <2>6, SameRun
  <2>8. Listed(r)'
    BY <2>2, <2>3, <2>6, <2>7, SameRun DEF Listed, Excused
  <2> QED
    BY <2>6, <2>8
<1>6. CASE Finish
  <2>1. /\ UNCHANGED <<run, object, failed, refused>> /\ pc = "rotate" /\ pc' = "idle"
        /\ file' = [file EXCEPT ![of[This]] = list]
    BY <1>6 DEF Finish, history
  <2>2. r \in 1 .. This' /\ named'[r] = n /\ Listed(r) /\ (Excused(r) => Excused(r)')
    BY <1>d, <2>1
  <2>3. of[r] \in Models
    BY <1>b, <2>1, <2>2, SameRun
  <2>4. file'[of[r]] = IF of[r] = of[This] THEN list ELSE file[of[r]]
    BY <2>1, <2>3 DEF Sequences
  <2>5. Listed(r)'
    BY <2>1, <2>2, <2>4, SameRun DEF Listed
  <2> QED
    BY <2>2, <2>5
<1>7. CASE Crash
  <2>1. /\ pc # "idle" /\ pc' = "idle" /\ UNCHANGED <<run, file, refused>>
        /\ failed' = failed \cup {This}
    BY <1>7 DEF Crash
  <2>2. object'[n] = object[n] \/ (n = named[This] /\ r = This)
    <3>1. CASE pc = "upload"
      <4>1. PICK u \in UploadOf(object[named[This]])[type] : Store(u[2])
        BY <1>7, <3>1 DEF Crash
      <4> QED
        BY <3>1, <4>1, UploadLeaves
    <3>2. CASE pc # "upload"
      BY <1>7, <3>2 DEF Crash
    <3> QED
      BY <3>1, <3>2
  <2>3. CASE object'[n] = object[n]
    <3>1. r = This => Excused(r)'
      BY <2>1 DEF Excused
    <3> QED
      BY <1>d, <2>1, <2>3, <3>1, SameRun DEF Listed
  <2>4. CASE n = named[This] /\ r = This
    BY <1>c, <2>1, <2>4, SameRun DEF Listed, Excused
  <2> QED
    BY <2>2, <2>3, <2>4
<1> QED
  BY <1>1, <1>2, <1>3, <1>4, <1>5, <1>6, <1>7, StepKinds DEF TypeOK

-----------------------------------------------------------------------------
(* The theorems *)

(* Nothing has been run or stored.                                         *)
LEMMA InitInv == Init => IInv
<1> SUFFICES ASSUME Init PROVE IInv
  OBVIOUS
<1>1. Sequences /\ This = 0
  BY DEF Init, Sequences, This
<1>2. TypeOK
  <2>1. Range(<<>>) = {} /\ Len(<<>>) = 0
    BY DEF Range
  <2>2. 0 \in Names /\ 0 \in 0 .. MaxRuns /\ 0 <= MaxRuns
    BY BoundsAssumption DEF Names
  <2>3. object \in [Names -> Objects]
    BY DEF Init, Objects
  <2>4. /\ type \in Types /\ given \in Givens /\ timed \in BOOLEAN /\ keep \in Keeps
        /\ clock \in Names /\ stalled \in BOOLEAN /\ conns \in 0 .. MaxRuns
        /\ pc \in {"idle", "open", "upload", "rotate"}
    BY <2>2 DEF Init
  <2>5. /\ Len(of) <= MaxRuns /\ Range(of) \subseteq Models
        /\ Len(named) = Len(of) /\ Range(named) \subseteq Names
        /\ Range(list) \subseteq Runs
        /\ \A m \in Models : Range(file[m]) \subseteq Runs
    BY <2>1, <2>2 DEF Init
  <2>6. UNION {failed, tried, refused, dropped} \subseteq Runs
    BY DEF Init
  <2> QED
    BY <2>3, <2>4, <2>5, <2>6 DEF TypeOK
<1>3. \A m \in Models : Range(file[m]) = {}
  BY DEF Init, Range
<1>4. Clocked /\ Past /\ Rotating /\ AllWhole /\ Apart
  BY <1>1, <1>3 DEF Init, Clocked, Past, Rotating, AllWhole, Apart, Tracked
<1>5. Known
  BY DEF Init, Known
<1>6. Counted
  BY <1>1, FS_EmptySet DEF Init, Counted
<1> QED
  BY <1>1, <1>2, <1>4, <1>5, <1>6 DEF IInv

(* The inductive invariant holds of every sequence of runs.                *)
THEOREM Invariance == Spec => []IInv
<1>1. ASSUME IInv, [Next]_vars PROVE IInv'
  <2>1. TypeOK' /\ Sequences' /\ Clocked' /\ Past' /\ Rotating'
    BY <1>1, TypeStep, SequencesStep, ClockedStep, PastStep, RotatingStep DEF IInv
  <2>2. AllWhole' /\ Apart' /\ Known' /\ Counted'
    BY <1>1, AllWholeStep, ApartStep, KnownStep, CountedStep DEF IInv
  <2> QED
    BY <2>1, <2>2 DEF IInv
<1> QED
  BY <1>1, InitInv, PTL DEF Spec

(* Every variable stays in its set: no call of close() closes a connection *)
(* that is not open, and only archives of runs are stored.                 *)
THEOREM TypeCorrect == Spec => []TypeOK
<1>1. IInv => TypeOK
  BY DEF IInv
<1> QED
  BY <1>1, Invariance, PTL

(* upload() and delete() of every type leave what the histories list       *)
(* whole, but for names given twice within one second and sftp's close.    *)
THEOREM HistoryCanBeRestored == Spec => []TrackedIsWhole
<1>1. IInv => TrackedIsWhole
  BY DEF IInv, TrackedIsWhole, AllWhole, Tracked, Whole, TypeOK
<1> QED
  BY <1>1, Invariance, PTL

(* An archive is in the storage only if its model's history lists it, or   *)
(* the run or its deletion failed, or the name is shared.                  *)
THEOREM StorageIsListed == Spec => []NothingForgotten
<1>1. IInv => NothingForgotten
  BY DEF IInv, NothingForgotten, Known, Listed, Excused
<1> QED
  BY <1>1, Invariance, PTL

(* The deferred close() leaves no connection of a run that was opened,     *)
(* whatever upload and delete return, but on sftp.                         *)
THEOREM ConnectionsAreClosed == Spec => []NoConnectionLeft
<1>1. IInv => NoConnectionLeft
  <2>1. ASSUME IInv, pc = "idle", type # "sftp" PROVE conns = Cardinality(dropped)
    <3>1. IsFiniteSet(dropped)
      <4>1. dropped \subseteq 1 .. This /\ This \in Nat
        BY <2>1 DEF IInv, Past, This
      <4>2. IsFiniteSet(1 .. This)
        BY <4>1, FS_Interval
      <4> QED
        BY <4>1, <4>2, FS_Subset
    <3> QED
      BY <2>1, <3>1, FS_CardinalityType DEF IInv, Counted
  <2> QED
    BY <2>1 DEF NoConnectionLeft
<1> QED
  BY <1>1, Invariance, PTL
=============================================================================
