------------------------ MODULE EventLogReaderProofs ------------------------
(***************************************************************************)
(* Proofs about ReadAll while the writer appends, rotates and crashes, for *)
(* any number of backups, lines, files and events, any filters and limits, *)
(* and any faults of the writer.                                           *)
(***************************************************************************)
EXTENDS EventLogReader, EventLogProofs, SequenceTheorems

(* What ReadAll has in hand at each of its steps. *)
StageInv ==
    /\ rstep \in {"idle", "list"} => rfile = 0 /\ events = <<>>
    /\ rstep = "idle" => paths = <<>>
    /\ rstep = "read" => rfile # 0
    /\ rstep \in {"finish", "done"} => paths = <<>>
    /\ rstep # "done" => ~backward

(* The paths still to be read go from the oldest to the newest; they come  *)
(* after those listed, and then after the one opened last.                 *)
PathInv ==
    /\ \A j, k \in DOMAIN paths : j < k => paths[k] < paths[j]
    /\ rstep = "list" => \A j \in DOMAIN paths : rindex < paths[j]
    /\ rstep \in {"open", "read"} /\ rfile # 0 => \A j \in DOMAIN paths : paths[j] < rindex

(* A file renamed under the reader goes to a higher path, so what is found *)
(* below the path opened last is newer than the file that was found there. *)
NewerInv ==
    rstep \in {"open", "read"} /\ rfile # 0 =>
        \A i \in Paths : i < rindex /\ dir[i] # 0 => rfile < dir[i]

(* A collected event is a line of a file up to the one read last, before   *)
(* the reader's position if it is that one.                                *)
Passed(e) ==
    \E f \in 1..rfile : \E k \in 1..Len(content[f]) :
        content[f][k] = e /\ (rstep = "read" /\ f = rfile => k < rpos)

OrderInv ==
    /\ rstep # "done" => \A j, k \in DOMAIN events : j < k => events[j] < events[k]
    /\ rstep \in {"open", "read"} => \A n \in DOMAIN events : Passed(events[n])
    /\ ReadInOrder

(* While no file moves, every file is still to be read or has been read as *)
(* far as the lines that the reader owes; the one at hand up to rpos.      *)
Covered(e) == e \in filter /\ e <= owed => e \in Range(events)
QuietInv ==
    /\ ~moved /\ rstep = "read" => dir[rindex] = rfile
    /\ ~moved /\ rstep # "idle" /\ (rstep = "done" => limit = 0) =>
         \A i \in Paths : dir[i] # 0 =>
            \/ i \in Range(paths)
            \/ rstep = "list" /\ i <= rindex
            \/ \A k \in 1..Len(content[dir[i]]) :
                  Covered(content[dir[i]][k]) \/ (rstep = "read" /\ i = rindex /\ k >= rpos)

ReaderInv ==
    LogInv /\ TypeOK /\ StageInv /\ PathInv /\ NewerInv /\ OrderInv /\ QuietInv

-----------------------------------------------------------------------------
(* A step of the writer leaves the lines that are there, and numbers a new *)
(* one after them.                                                         *)
LEMMA LogGrows ==
    ASSUME LogInv, [LogNext]_logVars
    PROVE  /\ files \in Nat /\ files' \in Nat /\ files <= files' /\ files' <= MaxFiles
           /\ seq \in Nat /\ seq' \in Nat /\ seq <= seq'
           /\ \A f \in 1..MaxFiles :
                 /\ Len(content[f]) \in Nat /\ Len(content'[f]) \in Nat
                 /\ Len(content[f]) <= Len(content'[f])
                 /\ \A k \in 1..Len(content[f]) : content'[f][k] = content[f][k]
                 /\ \A k \in 1..Len(content'[f]) :
                       k \in 1..Len(content[f]) \/ content'[f][k] > seq
<1>0. /\ files \in 0..MaxFiles /\ seq \in Nat /\ MaxFiles \in Nat
      /\ content \in [1..MaxFiles -> Seq(Nat)]
    BY LogConstants DEF LogInv, LogTypeOK
<1>1. CASE AppendBegin
    <2>0. /\ dir[0] # 0 /\ file = dir[0] /\ dir[0] \in 0..files
          /\ files' = files /\ seq' = seq + 1
        BY <1>1, PathFacts, Zenon DEF AppendBegin, LogInv, LogTypeOK, HandleInv
    <2>1. file \in 1..MaxFiles /\ files' = files /\ seq' = seq + 1
        BY <1>0, <2>0
    <2>2. \A f \in 1..MaxFiles :
             content'[f] = IF f = file THEN Append(content[f], seq + 1) ELSE content[f]
        BY <1>0, <1>1, <2>1 DEF AppendBegin
    <2>3. ASSUME NEW f \in 1..MaxFiles
          PROVE  /\ Len(content[f]) \in Nat /\ Len(content'[f]) \in Nat
                 /\ Len(content[f]) <= Len(content'[f])
                 /\ \A k \in 1..Len(content[f]) : content'[f][k] = content[f][k]
                 /\ \A k \in 1..Len(content'[f]) :
                       k \in 1..Len(content[f]) \/ content'[f][k] > seq
        <3>1. content[f] \in Seq(Nat) /\ Len(content[f]) \in Nat
            BY <1>0
        <3>2. CASE f = file
            <4>1. content'[f] = Append(content[f], seq + 1)
                BY <2>2, <3>2, Zenon
            <4> QED
                BY <1>0, <3>1, <4>1
        <3>3. CASE f # file
            BY <2>2, <3>1, <3>3, f \in 1..MaxFiles
        <3> QED
            BY <3>2, <3>3
    <2>4. files \in Nat /\ files' \in Nat /\ files <= files' /\ files' <= MaxFiles
        BY <1>0, <2>1
    <2>5. seq' \in Nat /\ seq <= seq'
        <3>1. seq \in Nat /\ seq' = seq + 1
            BY <1>0, <2>1, Zenon
        <3> QED
            BY <3>1
    <2> QED
        BY <1>0, <2>3, <2>4, <2>5, Zenon
<1>2. CASE UNCHANGED <<content, seq>> /\ files' \in 0..MaxFiles /\ files <= files'
    BY <1>0, <1>2
<1>3. UNCHANGED <<content, seq>> \/ AppendBegin
    BY LogCases, Zenon DEF New, Reopen, OpenRotated, WriteBegin, RotateClose, RemoveOldest,
       ShiftBackup, RotateCurrent, RenameFails, OpenFails, AppendRest,
       AppendFails, Sync, SyncFails, Close, Crash, disk, logVars
<1>4. files' \in 0..MaxFiles /\ files <= files'
    <2>1. CASE New \/ Reopen \/ OpenRotated
        <3>1. OpenPath
            BY <2>1, Zenon DEF New, Reopen, OpenRotated
        <3> QED
            BY <1>0, <3>1, OpenPathIs
    <2>2. CASE RemoveOldest \/ ShiftBackup \/ RotateCurrent \/ UNCHANGED <<dir, files>>
        BY <1>0, <2>2 DEF RemoveOldest, ShiftBackup, RotateCurrent
    <2> QED
        BY <2>1, <2>2, DirFrame, Zenon
<1> QED
    BY <1>1, <1>2, <1>3, <1>4

(* A file stays, moves up by one path, or is newer than all there were. *)
LEMMA FilesMoveUp ==
    ASSUME LogInv, [LogNext]_logVars, NEW i \in Paths, dir'[i] # 0
    PROVE  \/ dir'[i] = dir[i]
           \/ i - 1 \in Paths /\ dir'[i] = dir[i - 1]
           \/ dir'[i] > files
<1>0. files \in Nat
    BY LogConstants DEF LogInv, LogTypeOK
<1>1. CASE New \/ Reopen \/ OpenRotated
    <2>1. OpenPath
        BY <1>1, Zenon DEF New, Reopen, OpenRotated
    <2>2. CASE i = 0
        BY <1>0, <2>1, <2>2, OpenPathIs
    <2>3. CASE i # 0
        BY <2>1, <2>3, OpenPathIs, Zenon
    <2> QED
        BY <2>2, <2>3
<1>2. CASE RemoveOldest
    BY <1>2, PathFacts DEF RemoveOldest, LogInv, LogTypeOK
<1>3. CASE ShiftBackup \/ RotateCurrent
    <2>1. /\ index \in Paths /\ index \in Nat
          /\ dir'[i] = IF dir[index] = 0 THEN dir[i]
                       ELSE IF i = index + 1 THEN dir[index]
                       ELSE IF i = index THEN 0 ELSE dir[i]
        BY <1>3, RotationRename, Zenon
    <2>2. CASE i = index + 1
        <3>1. i - 1 = index
            BY <2>1, <2>2
        <3> QED
            BY <2>1, <2>2, <3>1
    <2>3. CASE i # index + 1
        BY <2>1, <2>3, dir'[i] # 0
    <2> QED
        BY <2>2, <2>3
<1>4. CASE UNCHANGED <<dir, files>>
    BY <1>4
<1> QED
    BY <1>1, <1>2, <1>3, <1>4, DirFrame, Zenon

-----------------------------------------------------------------------------
(* The reader starts with nothing. *)
LEMMA ReaderInitInv == Init => ReaderInv
<1> SUFFICES ASSUME Init PROVE ReaderInv
    OBVIOUS
<1>1. LogInv
    BY LogInitInv DEF Init
<1>2. /\ rstep = "idle" /\ rindex = 0 /\ paths = <<>> /\ rfile = 0 /\ rpos = 1 /\ cut = FALSE
      /\ events = <<>> /\ filter = {} /\ limit = 0 /\ backward = FALSE
      /\ owed = 0 /\ moved = FALSE
    BY DEF Init, ReadInit
<1>3. files = 0 /\ seq = 0
    BY DEF Init, LogInit
<1>4. TypeOK
    <2>1. LogTypeOK /\ 0 \in Paths
        BY <1>1, PathFacts, Zenon DEF LogInv
    <2>2. paths \in Seq(Paths) /\ events \in Seq(Nat) /\ rpos \in Nat \ {0}
        BY <1>2
    <2>3. rfile \in 0..files /\ owed \in 0..seq
        <3>1. rfile = 0 /\ owed = 0
            BY <1>2, Zenon
        <3> QED
            BY <1>3, <3>1
    <2> QED
        BY <1>2, <2>1, <2>2, <2>3, Zenon DEF TypeOK, ReadSteps
<1>5. StageInv /\ PathInv /\ NewerInv
    BY <1>2 DEF StageInv, PathInv, NewerInv
<1>6. OrderInv /\ QuietInv
    BY <1>2 DEF OrderInv, ReadInOrder, QuietInv
<1> QED
    BY <1>1, <1>4, <1>5, <1>6 DEF ReaderInv

(* It is back there when ReadAll returns. *)
LEMMA ResetInv ==
    ASSUME ReaderInv, Reset, UNCHANGED logVars
    PROVE  ReaderInv'
<1>1. LogInv'
    BY LogInvStep, Zenon DEF ReaderInv
<1>2. /\ rstep' = "idle" /\ rindex' = 0 /\ paths' = <<>> /\ rfile' = 0 /\ rpos' = 1
      /\ cut' = FALSE /\ events' = <<>> /\ filter' = {} /\ limit' = 0
      /\ backward' = FALSE /\ owed' = 0 /\ moved' = FALSE
    BY Zenon DEF Reset
<1>3. files' \in Nat /\ seq' \in Nat
    BY <1>1, LogConstants DEF LogInv, LogTypeOK
<1>4. TypeOK'
    <2>1. LogTypeOK' /\ 0 \in Paths
        BY <1>1, PathFacts, Zenon DEF LogInv
    <2>2. paths' \in Seq(Paths) /\ events' \in Seq(Nat) /\ rpos' \in Nat \ {0}
        BY <1>2
    <2>3. rfile' \in 0..files' /\ owed' \in 0..seq'
        <3>1. rfile' = 0 /\ owed' = 0
            BY <1>2, Zenon
        <3> QED
            BY <1>3, <3>1
    <2> QED
        BY <1>2, <2>1, <2>2, <2>3, Zenon DEF TypeOK, ReadSteps
<1>5. StageInv' /\ PathInv' /\ NewerInv'
    BY <1>2 DEF StageInv, PathInv, NewerInv
<1>6. OrderInv' /\ QuietInv'
    BY <1>2 DEF OrderInv, ReadInOrder, QuietInv
<1> QED
    BY <1>1, <1>4, <1>5, <1>6, Zenon DEF ReaderInv

(* A step of the writer under the reader. *)
LEMMA LogSideInv ==
    ASSUME ReaderInv, [LogNext]_logVars, UNCHANGED readVars,
           moved' = (moved \/ (rstep # "idle" /\ dir' # dir))
    PROVE  ReaderInv'
<1>0. /\ LogInv /\ TypeOK /\ StageInv /\ PathInv /\ NewerInv /\ OrderInv /\ QuietInv
      /\ [LogNext]_logVars
    BY Zenon DEF ReaderInv
<1>r. /\ rstep' = rstep /\ rindex' = rindex /\ paths' = paths /\ rfile' = rfile
      /\ rpos' = rpos /\ cut' = cut /\ events' = events /\ filter' = filter
      /\ limit' = limit /\ backward' = backward /\ owed' = owed
    BY Zenon DEF readVars
<1>1. LogInv'
    BY <1>0, LogInvStep, Zenon
<1>2. /\ files \in Nat /\ files' \in Nat /\ files <= files' /\ files' <= MaxFiles
      /\ seq \in Nat /\ seq' \in Nat /\ seq <= seq'
    BY <1>0, LogGrows, Zenon
<1>3. /\ rfile \in 0..files /\ rfile \in 0..files' /\ owed \in 0..seq /\ owed \in 0..seq'
      /\ rindex \in Paths
    BY <1>0, <1>2 DEF TypeOK
<1>4. TypeOK'
    <2>1. moved' \in BOOLEAN
        BY Zenon
    <2> QED
        BY <1>0, <1>r, <1>1, <1>3, <2>1, Zenon DEF TypeOK, LogInv
<1>5. StageInv' /\ PathInv'
    BY <1>0, <1>r, Zenon DEF StageInv, PathInv
<1>6. NewerInv'
    <2> SUFFICES ASSUME rstep \in {"open", "read"}, rfile # 0,
                        NEW i \in Paths, i < rindex, dir'[i] # 0
                 PROVE  rfile < dir'[i]
        BY <1>r, Zenon DEF NewerInv
    <2>1. \A j \in Paths : j < rindex /\ dir[j] # 0 => rfile < dir[j]
        BY <1>0, Zenon DEF NewerInv
    <2>2. CASE dir'[i] = dir[i]
        BY <2>1, <2>2, Zenon
    <2>3. CASE i - 1 \in Paths /\ dir'[i] = dir[i - 1]
        <3>1. i - 1 < rindex
            BY <1>3, <2>3, PathFacts
        <3> QED
            BY <2>1, <2>3, <3>1, Zenon
    <2>4. CASE dir'[i] > files
        <3>1. dir'[i] \in Nat
            BY <1>1, <1>2 DEF LogInv, LogTypeOK
        <3> QED
            BY <1>2, <1>3, <2>4, <3>1
    <2> QED
        BY <1>0, <2>2, <2>3, <2>4, FilesMoveUp, Zenon
<1>7. OrderInv'
    <2>1. /\ rstep' # "done" =>
                \A j, k \in DOMAIN events' : j < k => events'[j] < events'[k]
          /\ ReadInOrder'
        BY <1>0, <1>r, Zenon DEF OrderInv, ReadInOrder, Before
    <2>2. ASSUME rstep \in {"open", "read"}, NEW n \in DOMAIN events
          PROVE  Passed(events[n])'
        <3>1. PICK f \in 1..rfile : \E k \in 1..Len(content[f]) :
                  content[f][k] = events[n] /\ (rstep = "read" /\ f = rfile => k < rpos)
            BY <1>0, <2>2, Zenon DEF OrderInv, Passed
        <3>2. PICK k \in 1..Len(content[f]) :
                  content[f][k] = events[n] /\ (rstep = "read" /\ f = rfile => k < rpos)
            BY <3>1
        <3>3. f \in 1..MaxFiles
            BY <1>2, <1>3, LogConstants
        <3>4. /\ Len(content[f]) \in Nat /\ Len(content'[f]) \in Nat
              /\ Len(content[f]) <= Len(content'[f]) /\ content'[f][k] = content[f][k]
            BY <1>0, <3>3, LogGrows, Zenon
        <3>5. k \in 1..Len(content'[f])
            BY <3>4
        <3> QED
            BY <1>r, <3>2, <3>4, <3>5, Zenon DEF Passed
    <2> QED
        BY <1>r, <2>1, <2>2, Zenon DEF OrderInv
<1>8. QuietInv'
    <2>1. ~moved' /\ rstep = "read" => dir'[rindex] = rfile
        BY <1>0, Zenon DEF QuietInv
    <2>2. ASSUME ~moved', rstep # "idle", rstep = "done" => limit = 0,
                 NEW i \in Paths, dir'[i] # 0, ~(i \in Range(paths)),
                 ~(rstep = "list" /\ i <= rindex), NEW k \in 1..Len(content'[dir'[i]])
          PROVE  Covered(content[dir[i]][k])' \/ (rstep = "read" /\ i = rindex /\ k >= rpos)
        <3>1. ~moved /\ dir' = dir
            BY <2>2, Zenon
        <3>2. PICK f \in 1..MaxFiles : f = dir[i]
            <4>1. dir[i] \in 0..files /\ dir[i] # 0
                BY <1>0, <2>2, <3>1, Zenon DEF LogInv, LogTypeOK
            <4> QED
                BY <1>2, <4>1, LogConstants
        <3>3. \A n \in 1..Len(content[f]) :
                  Covered(content[f][n]) \/ (rstep = "read" /\ i = rindex /\ n >= rpos)
            BY <1>0, <2>2, <3>1, <3>2, Zenon DEF QuietInv
        <3>4. k \in 1..Len(content'[f])
            BY <2>2, <3>1, <3>2, Zenon
        <3>5. CASE k \in 1..Len(content[f])
            <4>1. content'[f][k] = content[f][k]
                BY <1>0, <3>5, LogGrows, Zenon
            <4> QED
                BY <1>r, <3>1, <3>2, <3>3, <3>5, <4>1, Zenon DEF Covered
        <3>6. CASE content'[f][k] > seq
            <4>1. content'[f][k] \in Nat
                <5>1. content' \in [1..MaxFiles -> Seq(Nat)]
                    BY <1>1, Zenon DEF LogInv, LogTypeOK
                <5>2. content'[f] \in Seq(Nat)
                    BY <5>1, Zenon
                <5> QED
                    BY <3>4, <5>2, ElementOfSeq, Zenon
            <4>2. ~(content'[f][k] <= owed)
                BY <1>2, <1>3, <3>6, <4>1
            <4> QED
                BY <1>r, <3>1, <3>2, <4>2, Zenon DEF Covered
        <3> QED
            BY <1>0, <3>4, <3>5, <3>6, LogGrows, Zenon
    <2> QED
        BY <1>r, <2>1, <2>2, Zenon DEF QuietInv
<1> QED
    BY <1>1, <1>4, <1>5, <1>6, <1>7, <1>8, Zenon DEF ReaderInv

(* A sequence of paths is one of numbers. *)
LEMMA PathElements ==
    ASSUME NEW s \in Seq(Paths)
    PROVE  \A j \in DOMAIN s : s[j] \in Paths /\ s[j] \in Nat
<1>1. \A j \in DOMAIN s : s[j] \in Paths
    BY LenProperties, ElementOfSeq, Zenon
<1> QED
    BY <1>1, PathFacts, Zenon

(* What is in a sequence that has grown by one element. *)
LEMMA AppendIs ==
    ASSUME NEW S, NEW s \in Seq(S), NEW e \in S
    PROVE  /\ Append(s, e) \in Seq(S) /\ Len(s) \in Nat /\ DOMAIN s = 1..Len(s)
           /\ DOMAIN Append(s, e) = 1..(Len(s) + 1)
           /\ \A k \in 1..Len(s) : Append(s, e)[k] = s[k]
           /\ Append(s, e)[Len(s) + 1] = e
           /\ \A k \in 1..(Len(s) + 1) : k \in 1..Len(s) \/ k = Len(s) + 1
           /\ Range(s) \subseteq Range(Append(s, e)) /\ e \in Range(Append(s, e))
<1>1. /\ Append(s, e) \in Seq(S) /\ Len(s) \in Nat /\ DOMAIN s = 1..Len(s)
      /\ DOMAIN Append(s, e) = 1..(Len(s) + 1)
      /\ \A k \in 1..Len(s) : Append(s, e)[k] = s[k]
      /\ Append(s, e)[Len(s) + 1] = e
    BY AppendProperties, LenProperties
<1>2. /\ \A k \in 1..(Len(s) + 1) : k \in 1..Len(s) \/ k = Len(s) + 1
      /\ \A k \in 1..Len(s) : k \in 1..(Len(s) + 1)
      /\ Len(s) + 1 \in 1..(Len(s) + 1)
    BY <1>1
<1>3. Range(s) \subseteq Range(Append(s, e)) /\ e \in Range(Append(s, e))
    BY <1>1, <1>2, Zenon DEF Range
<1> QED
    BY <1>1, <1>2, <1>3, Zenon

(* What is in the rest of a sequence. *)
LEMMA TailIs ==
    ASSUME NEW S, NEW s \in Seq(S), s # <<>>
    PROVE  /\ Head(s) \in S /\ Tail(s) \in Seq(S) /\ Head(s) = s[1]
           /\ 1 \in DOMAIN s
           /\ \A k \in DOMAIN Tail(s) :
                 k \in Nat /\ k + 1 \in DOMAIN s /\ 1 < k + 1 /\ Tail(s)[k] = s[k + 1]
           /\ \A x \in Range(s) : x = Head(s) \/ x \in Range(Tail(s))
<1>1. /\ Head(s) \in S /\ Tail(s) \in Seq(S) /\ Head(s) = s[1]
      /\ Len(s) \in Nat /\ DOMAIN s = 1..Len(s) /\ Len(s) # 0
      /\ DOMAIN Tail(s) = 1..(Len(s) - 1)
      /\ \A k \in 1..(Len(s) - 1) : Tail(s)[k] = s[k + 1]
    BY HeadTailProperties, LenProperties, EmptySeq
<1>2. /\ 1 \in 1..Len(s)
      /\ \A k \in 1..(Len(s) - 1) : k \in Nat /\ k + 1 \in 1..Len(s) /\ 1 < k + 1
    BY <1>1
<1>3. ASSUME NEW k \in 1..Len(s), k # 1
      PROVE  \E j \in 1..(Len(s) - 1) : k = j + 1
    <2>1. k - 1 \in 1..(Len(s) - 1) /\ k = (k - 1) + 1
        BY <1>1, <1>3
    <2> QED
        BY <2>1
<1>4. ASSUME NEW x \in Range(s), x # Head(s) PROVE x \in Range(Tail(s))
    <2>1. PICK k \in 1..Len(s) : x = s[k]
        BY <1>1, Zenon DEF Range
    <2>2. k # 1
        BY <1>1, <1>4, <2>1, Zenon
    <2>3. PICK j \in 1..(Len(s) - 1) : k = j + 1
        BY <1>3, <2>2, Zenon
    <2>4. j \in DOMAIN Tail(s) /\ Tail(s)[j] = x
        BY <1>1, <2>1, <2>3, Zenon
    <2> QED
        BY <2>4, Zenon DEF Range
<1> QED
    BY <1>1, <1>2, <1>4, Zenon

(* A step of the reader leaves the log alone. *)
LEMMA ReadFrame ==
    ASSUME ReaderInv, UNCHANGED logVars
    PROVE  /\ LogInv' /\ LogTypeOK'
           /\ UNCHANGED dir /\ UNCHANGED content /\ UNCHANGED files /\ UNCHANGED seq
<1>1. LogInv'
    BY LogInvStep, Zenon DEF ReaderInv
<1> QED
    BY <1>1, Zenon DEF LogInv, logVars, disk

(* A call begins: everything is still to be listed. *)
LEMMA BeginInv ==
    ASSUME ReaderInv, ReadBegin, UNCHANGED logVars
    PROVE  ReaderInv'
<1>0. /\ TypeOK /\ StageInv /\ rstep = "idle"
      /\ rstep' = "list" /\ rindex' = MaxBackups /\ filter' \in Filters /\ owed' = seq
      /\ UNCHANGED paths /\ UNCHANGED rfile /\ UNCHANGED rpos /\ UNCHANGED cut
      /\ UNCHANGED events /\ UNCHANGED limit /\ UNCHANGED backward /\ UNCHANGED moved
    BY Zenon DEF ReaderInv, ReadBegin
<1>1. /\ LogInv' /\ LogTypeOK' /\ UNCHANGED dir /\ UNCHANGED content
      /\ UNCHANGED files /\ UNCHANGED seq
    BY ReadFrame, Zenon
<1>2. paths = <<>> /\ events = <<>> /\ rfile = 0 /\ ~backward
    BY <1>0, Zenon DEF StageInv
<1>3. owed' \in 0..seq'
    <2>1. seq \in Nat
        BY <1>0, LogConstants DEF TypeOK, LogTypeOK
    <2> QED
        BY <1>0, <1>1, <2>1
<1>4. TypeOK'
    BY <1>0, <1>1, <1>3, PathFacts, Zenon DEF TypeOK, ReadSteps
<1>5. StageInv' /\ PathInv' /\ NewerInv'
    BY <1>0, <1>2 DEF StageInv, PathInv, NewerInv
<1>6. OrderInv'
    BY <1>0, <1>2 DEF OrderInv, ReadInOrder
<1>7. QuietInv'
    <2>1. \A i \in Paths : i <= rindex'
        BY <1>0, PathFacts, Zenon
    <2> QED
        BY <1>0, <2>1, Zenon DEF QuietInv
<1> QED
    BY <1>1, <1>4, <1>5, <1>6, <1>7, Zenon DEF ReaderInv

(* One path is looked at. *)
LEMMA ListInv ==
    ASSUME ReaderInv, ReadList, UNCHANGED logVars
    PROVE  ReaderInv'
<1>0. LogInv /\ TypeOK /\ StageInv /\ PathInv /\ OrderInv /\ QuietInv /\ rstep = "list"
    BY Zenon DEF ReaderInv, ReadList
<1>1. /\ LogInv' /\ LogTypeOK' /\ UNCHANGED dir /\ UNCHANGED content
      /\ UNCHANGED files /\ UNCHANGED seq
    BY ReadFrame, Zenon
<1>2. CASE Reset
    BY <1>2, ResetInv, Zenon
<1>3. CASE /\ paths' = Listed
           /\ rstep' = IF rindex > 0 THEN "list" ELSE "open"
           /\ rindex' = IF rindex > 0 THEN rindex - 1 ELSE MaxBackups
           /\ UNCHANGED <<rfile, rpos, cut, events, filter, limit, backward, owed, moved>>
    <2>0. /\ UNCHANGED rfile /\ UNCHANGED rpos /\ UNCHANGED cut /\ UNCHANGED events
          /\ UNCHANGED filter /\ UNCHANGED limit /\ UNCHANGED backward
          /\ UNCHANGED owed /\ UNCHANGED moved
        BY <1>3, Zenon
    <2>1. /\ rindex \in Paths /\ rindex \in Nat /\ paths \in Seq(Paths)
          /\ rindex > 0 => rindex - 1 \in Paths
        BY <1>0, PathFacts DEF TypeOK
    <2>2. rfile = 0 /\ events = <<>> /\ ~backward
        BY <1>0, Zenon DEF StageInv
    <2>3. /\ paths' \in Seq(Paths)
          /\ \A j, k \in DOMAIN paths' : j < k => paths'[k] < paths'[j]
          /\ \A j \in DOMAIN paths' : rindex <= paths'[j]
          /\ Range(paths) \subseteq Range(paths')
          /\ dir[rindex] # 0 => rindex \in Range(paths')
        <3>0. /\ \A j, k \in DOMAIN paths : j < k => paths[k] < paths[j]
              /\ \A j \in DOMAIN paths : rindex < paths[j]
            BY <1>0, Zenon DEF PathInv
        <3>1. CASE dir[rindex] = 0
            <4>1. paths' = paths
                BY <1>3, <3>1, Zenon DEF Listed
            <4>2. \A j \in DOMAIN paths : paths[j] \in Nat
                BY <2>1, PathElements, Zenon
            <4> QED
                BY <2>1, <3>0, <3>1, <4>1, <4>2
        <3>2. CASE dir[rindex] # 0
            <4>1. paths' = Append(paths, rindex)
                BY <1>3, <3>2, Zenon DEF Listed
            <4>2. PICK n \in Nat : n = Len(paths)
                BY <2>1
            <4>a. /\ Append(paths, rindex) \in Seq(Paths) /\ DOMAIN paths = 1..Len(paths)
                  /\ DOMAIN Append(paths, rindex) = 1..(Len(paths) + 1)
                  /\ \A k \in 1..Len(paths) : Append(paths, rindex)[k] = paths[k]
                  /\ Append(paths, rindex)[Len(paths) + 1] = rindex
                  /\ \A k \in 1..(Len(paths) + 1) : k \in 1..Len(paths) \/ k = Len(paths) + 1
                  /\ Range(paths) \subseteq Range(Append(paths, rindex))
                  /\ rindex \in Range(Append(paths, rindex))
                BY <2>1, AppendIs
            <4>3. /\ paths' \in Seq(Paths) /\ DOMAIN paths = 1..n /\ DOMAIN paths' = 1..(n + 1)
                  /\ \A k \in 1..n : paths'[k] = paths[k]
                  /\ paths'[n + 1] = rindex
                  /\ \A k \in 1..(n + 1) : k \in 1..n \/ k = n + 1
                  /\ Range(paths) \subseteq Range(paths') /\ rindex \in Range(paths')
                BY <4>1, <4>2, <4>a, Zenon
            <4>4. ASSUME NEW j \in 1..(n + 1), NEW k \in 1..(n + 1), j < k
                  PROVE  paths'[k] < paths'[j]
                <5>1. j \in 1..n
                    BY <4>4
                <5> QED
                    BY <3>0, <4>3, <4>4, <5>1, Zenon
            <4>5. \A j \in 1..n : rindex <= paths'[j]
                <5>1. \A j \in 1..n : paths[j] \in Nat
                    BY <2>1, <4>3, PathElements, Zenon
                <5> QED
                    BY <2>1, <3>0, <4>3, <5>1
            <4>6. rindex <= rindex
                BY <2>1
            <4> QED
                BY <3>2, <4>3, <4>4, <4>5, <4>6, Zenon
        <3> QED
            BY <3>1, <3>2
    <2>4. TypeOK'
        <3>1. rindex' \in Paths /\ rstep' \in ReadSteps
            BY <1>3, <2>1, PathFacts, Zenon DEF ReadSteps
        <3> QED
            BY <1>0, <1>1, <2>0, <2>3, <3>1, Zenon DEF TypeOK
    <2>5. StageInv' /\ NewerInv'
        BY <1>3, <2>0, <2>2 DEF StageInv, NewerInv
    <2>6. PathInv'
        <3>1. ASSUME rstep' = "list", NEW j \in DOMAIN paths' PROVE rindex' < paths'[j]
            <4>1. rindex' = rindex - 1
                BY <1>3, <3>1
            <4>2. rindex <= paths'[j] /\ paths'[j] \in Nat
                BY <2>3, <3>1, PathElements, Zenon
            <4> QED
                BY <2>1, <4>1, <4>2
        <3> QED
            BY <2>0, <2>2, <2>3, <3>1, Zenon DEF PathInv
    <2>7. OrderInv'
        BY <1>3, <2>0, <2>2 DEF OrderInv, ReadInOrder
    <2>8. QuietInv'
        <3>1. rstep' # "read" /\ rstep' # "done"
            BY <1>3
        <3>2. ASSUME ~moved, NEW i \in Paths, dir[i] # 0, ~(i \in Range(paths')),
                     ~(rstep' = "list" /\ i <= rindex'), NEW k \in 1..Len(content[dir[i]])
              PROVE  Covered(content[dir[i]][k])
            <4>1. ~(i \in Range(paths)) /\ i # rindex /\ i \in Nat
                BY <2>3, <3>2, PathFacts, Zenon
            <4>2. ~(i <= rindex)
                BY <1>3, <2>1, <3>2, <4>1
            <4> QED
                BY <1>0, <3>2, <4>1, <4>2, Zenon DEF QuietInv
        <3> QED
            BY <1>1, <2>0, <3>1, <3>2, Zenon DEF QuietInv, Covered
    <2> QED
        BY <1>1, <2>4, <2>5, <2>6, <2>7, <2>8, Zenon DEF ReaderInv
<1> QED
    BY <1>2, <1>3, Zenon DEF ReadList

(* A path is opened: what is found there is newer than all that was read. *)
LEMMA OpenInv ==
    ASSUME ReaderInv, ReadOpen, UNCHANGED logVars
    PROVE  ReaderInv'
<1>0. /\ LogInv /\ TypeOK /\ StageInv /\ PathInv /\ NewerInv /\ OrderInv /\ QuietInv
      /\ rstep = "open" /\ paths # <<>>
    BY Zenon DEF ReaderInv, ReadOpen
<1>1. /\ LogInv' /\ LogTypeOK' /\ UNCHANGED dir /\ UNCHANGED content
      /\ UNCHANGED files /\ UNCHANGED seq
    BY ReadFrame, Zenon
<1>2. CASE Reset
    BY <1>2, ResetInv, Zenon
<1>3. CASE /\ dir[Head(paths)] # 0
           /\ rfile' = dir[Head(paths)] /\ rpos' = 1 /\ cut' = FALSE
           /\ rindex' = Head(paths) /\ paths' = Tail(paths)
           /\ rstep' = "read"
           /\ UNCHANGED <<events, filter, limit, backward, owed, moved>>
    <2>0. /\ UNCHANGED events /\ UNCHANGED filter /\ UNCHANGED limit /\ UNCHANGED backward
          /\ UNCHANGED owed /\ UNCHANGED moved /\ paths \in Seq(Paths)
          /\ rfile \in 0..files /\ rindex \in Paths /\ ~backward
        BY <1>0, <1>3, Zenon DEF TypeOK, StageInv
    <2>1. /\ Head(paths) \in Paths /\ Tail(paths) \in Seq(Paths) /\ Head(paths) = paths[1]
          /\ 1 \in DOMAIN paths
          /\ \A k \in DOMAIN Tail(paths) :
                k \in Nat /\ k + 1 \in DOMAIN paths /\ 1 < k + 1 /\ Tail(paths)[k] = paths[k + 1]
          /\ \A x \in Range(paths) : x = Head(paths) \/ x \in Range(Tail(paths))
        BY <1>0, <2>0, TailIs
    <2>2. PICK p \in Paths : p = Head(paths)
        BY <2>1
    <2>3. p \in Nat /\ dir[p] \in 0..files /\ dir[p] # 0 /\ files \in Nat
        <3>1. dir \in [Paths -> 0..files] /\ files \in 0..MaxFiles
            BY <1>0, Zenon DEF TypeOK, LogTypeOK
        <3>2. files \in Nat /\ p \in Nat
            BY <3>1, PathFacts, LogConstants
        <3> QED
            BY <1>3, <2>2, <3>1, <3>2, Zenon
    <2>4. TypeOK'
        <3>1. rpos' \in Nat \ {0} /\ rstep' \in ReadSteps
            BY <1>3 DEF ReadSteps
        <3> QED
            BY <1>0, <1>1, <1>3, <2>0, <2>1, <2>2, <2>3, <3>1, Zenon DEF TypeOK
    <2>5. StageInv'
        BY <1>3, <2>0 DEF StageInv
    <2>6. PathInv'
        <3>0. \A j, k \in DOMAIN paths : j < k => paths[k] < paths[j]
            BY <1>0, Zenon DEF PathInv
        <3>1. ASSUME NEW j \in DOMAIN paths', NEW k \in DOMAIN paths', j < k
              PROVE  paths'[k] < paths'[j]
            <4>1. j \in Nat /\ k \in Nat /\ j + 1 \in DOMAIN paths /\ k + 1 \in DOMAIN paths
                BY <1>3, <2>1, Zenon
            <4>2. j + 1 < k + 1
                BY <3>1, <4>1
            <4> QED
                BY <1>3, <2>1, <3>0, <4>1, <4>2, Zenon
        <3>2. ASSUME NEW j \in DOMAIN paths' PROVE paths'[j] < rindex'
            BY <1>3, <2>1, <3>0, Zenon
        <3> QED
            BY <1>3, <3>1, <3>2, Zenon DEF PathInv
    <2>7. NewerInv'
        <3>1. \A i \in Paths : i < p /\ dir[i] # 0 => dir[p] < dir[i]
            BY <1>0, <2>3, Zenon DEF LogInv, AgeInv
        <3> QED
            BY <1>1, <1>3, <2>2, <3>1, Zenon DEF NewerInv
    <2>8. OrderInv'
        <3>1. rfile # 0 => rfile < dir[p]
            BY <1>0, <2>1, <2>2, <2>3, Zenon DEF PathInv, NewerInv
        <3>2. ASSUME NEW n \in DOMAIN events PROVE Passed(events[n])'
            <4>1. PICK f \in 1..rfile : \E k \in 1..Len(content[f]) : content[f][k] = events[n]
                BY <1>0, <3>2, Zenon DEF OrderInv, Passed
            <4>2. f \in 1..dir[p] /\ f # dir[p]
                BY <2>0, <2>3, <3>1, <4>1
            <4> QED
                BY <1>1, <1>3, <2>0, <2>2, <4>1, <4>2, Zenon DEF Passed
        <3> QED
            BY <1>0, <1>3, <2>0, <3>2 DEF OrderInv, ReadInOrder, Before
    <2>9. QuietInv'
        <3>1. ASSUME ~moved, NEW i \in Paths, dir[i] # 0, ~(i \in Range(paths')), i # p,
                     NEW k \in 1..Len(content[dir[i]])
              PROVE  Covered(content[dir[i]][k])
            <4>1. ~(i \in Range(paths))
                BY <1>3, <2>1, <2>2, <3>1, Zenon
            <4> QED
                BY <1>0, <3>1, <4>1, Zenon DEF QuietInv
        <3>2. \A f \in 1..files : \A k \in 1..Len(content[f]) : k >= 1
            BY <1>0, <2>3, LogConstants DEF TypeOK, LogTypeOK
        <3>3. dir[p] \in 1..files
            BY <2>3
        <3>4. \A k \in 1..Len(content[dir[p]]) : k >= rpos'
            BY <1>3, <3>2, <3>3, Zenon
        <3>5. dir'[rindex'] = rfile'
            BY <1>1, <1>3, Zenon
        <3>6. ASSUME ~moved', NEW i \in Paths, dir'[i] # 0
              PROVE  \/ i \in Range(paths')
                     \/ \A k \in 1..Len(content'[dir'[i]]) :
                           Covered(content[dir[i]][k])' \/ (rstep' = "read" /\ i = rindex' /\ k >= rpos')
            <4>1. ~moved /\ dir[i] # 0 /\ dir' = dir /\ content' = content
                BY <1>1, <2>0, <3>6, Zenon
            <4>2. CASE i = p
                BY <1>3, <2>2, <3>4, <4>1, <4>2, Zenon
            <4>3. CASE i # p
                <5>1. \A e : Covered(e)' <=> Covered(e)
                    BY <2>0, Zenon DEF Covered
                <5> QED
                    BY <3>1, <4>1, <4>3, <5>1, Zenon
            <4> QED
                BY <4>2, <4>3
        <3> QED
            BY <3>5, <3>6, Zenon DEF QuietInv
    <2> QED
        BY <1>1, <2>4, <2>5, <2>6, <2>7, <2>8, <2>9, Zenon DEF ReaderInv
<1> QED
    BY <1>2, <1>3, Zenon DEF ReadOpen

(* A line at the reader's position comes after all that were collected. *)
LEMMA Collects ==
    ASSUME ReaderInv, rstep = "read", rpos <= Len(content[rfile]),
           NEW e, e = content[rfile][rpos], events' = Matched(e)
    PROVE  /\ rfile \in 1..MaxFiles /\ rpos \in 1..Len(content[rfile]) /\ e \in Nat
           /\ Len(content[rfile]) \in Nat
           /\ events' \in Seq(Nat)
           /\ \A j, k \in DOMAIN events' : j < k => events'[j] < events'[k]
           /\ \A n \in DOMAIN events' : \E f \in 1..rfile : \E k \in 1..Len(content[f]) :
                 content[f][k] = events'[n] /\ (f = rfile => k < rpos + 1)
           /\ Range(events) \subseteq Range(events')
           /\ e \in filter => e \in Range(events')
<1>0. LogInv /\ TypeOK /\ StageInv /\ OrderInv /\ rfile # 0
    BY Zenon DEF ReaderInv, StageInv
<1>1. /\ rfile \in 1..MaxFiles /\ rpos \in Nat \ {0} /\ events \in Seq(Nat)
      /\ content[rfile] \in Seq(Nat) /\ rfile \in 1..rfile
    <2>1. /\ rfile \in 0..files /\ files \in 0..MaxFiles /\ content \in [1..MaxFiles -> Seq(Nat)]
          /\ rpos \in Nat \ {0} /\ events \in Seq(Nat)
        BY <1>0, Zenon DEF TypeOK, LogTypeOK
    <2>2. rfile \in 1..MaxFiles /\ rfile \in 1..rfile
        BY <1>0, <2>1, LogConstants
    <2> QED
        BY <2>1, <2>2, Zenon
<1>2. Len(content[rfile]) \in Nat /\ rpos \in 1..Len(content[rfile])
    BY <1>1, LenProperties
<1>3. e \in Nat
    BY <1>1, <1>2, ElementOfSeq, Zenon
<1>4. /\ \A j, k \in DOMAIN events : j < k => events[j] < events[k]
      /\ \A n \in DOMAIN events : \E f \in 1..rfile : \E k \in 1..Len(content[f]) :
            content[f][k] = events[n] /\ (f = rfile => k < rpos)
    BY <1>0, Zenon DEF OrderInv, Passed
<1>5. ASSUME NEW n \in DOMAIN events
      PROVE  \E f \in 1..rfile : \E k \in 1..Len(content[f]) :
                content[f][k] = events[n] /\ (f = rfile => k < rpos + 1)
    <2>1. PICK f \in 1..rfile : \E k \in 1..Len(content[f]) :
              content[f][k] = events[n] /\ (f = rfile => k < rpos)
        BY <1>4
    <2>2. PICK k \in 1..Len(content[f]) :
              content[f][k] = events[n] /\ (f = rfile => k < rpos)
        BY <2>1
    <2>3. f = rfile => k < rpos + 1
        BY <1>1, <2>2
    <2> QED
        BY <2>2, <2>3, Zenon
<1>6. ASSUME NEW n \in DOMAIN events PROVE events[n] < e
    <2>1. PICK f \in 1..rfile : \E k \in 1..Len(content[f]) :
              content[f][k] = events[n] /\ (f = rfile => k < rpos)
        BY <1>4
    <2>2. PICK k \in 1..Len(content[f]) :
              content[f][k] = events[n] /\ (f = rfile => k < rpos)
        BY <2>1
    <2>3. f \in 1..MaxFiles /\ (f < rfile \/ f = rfile)
        BY <1>1, LogConstants
    <2> QED
        BY <1>0, <1>1, <1>2, <2>2, <2>3, Zenon DEF LogInv, LineInv
<1>7. CASE e \notin filter
    <2>1. events' = events
        BY <1>7 DEF Matched
    <2>2. \A j, k \in DOMAIN events' : j < k => events'[j] < events'[k]
        BY <1>4, <2>1, Zenon
    <2>3. \A n \in DOMAIN events' : \E f \in 1..rfile : \E k \in 1..Len(content[f]) :
              content[f][k] = events'[n] /\ (f = rfile => k < rpos + 1)
        BY <1>5, <2>1
    <2>4. Range(events) \subseteq Range(events') /\ events' \in Seq(Nat)
        BY <1>1, <2>1, Zenon
    <2> QED
        BY <1>1, <1>2, <1>3, <1>7, <2>2, <2>3, <2>4, Zenon
<1>8. CASE e \in filter
    <2>1. events' = Append(events, e)
        BY <1>8 DEF Matched
    <2>2. PICK n \in Nat : n = Len(events)
        BY <1>1, LenProperties
    <2>a. /\ Append(events, e) \in Seq(Nat) /\ DOMAIN events = 1..Len(events)
          /\ DOMAIN Append(events, e) = 1..(Len(events) + 1)
          /\ \A k \in 1..Len(events) : Append(events, e)[k] = events[k]
          /\ Append(events, e)[Len(events) + 1] = e
          /\ \A k \in 1..(Len(events) + 1) : k \in 1..Len(events) \/ k = Len(events) + 1
          /\ Range(events) \subseteq Range(Append(events, e))
          /\ e \in Range(Append(events, e))
        BY <1>1, <1>3, AppendIs
    <2>3. /\ events' \in Seq(Nat) /\ DOMAIN events = 1..n /\ DOMAIN events' = 1..(n + 1)
          /\ \A k \in 1..n : events'[k] = events[k]
          /\ events'[n + 1] = e
          /\ \A k \in 1..(n + 1) : k \in 1..n \/ k = n + 1
          /\ Range(events) \subseteq Range(events') /\ e \in Range(events')
        BY <2>1, <2>2, <2>a, Zenon
    <2>4. ASSUME NEW j \in 1..(n + 1), NEW k \in 1..(n + 1), j < k
          PROVE  events'[j] < events'[k]
        <3>1. j \in 1..n
            BY <2>4
        <3> QED
            BY <1>4, <1>6, <2>3, <2>4, <3>1, Zenon
    <2>5. rpos < rpos + 1
        BY <1>1
    <2>6. \E f \in 1..rfile : \E k \in 1..Len(content[f]) :
              content[f][k] = e /\ (f = rfile => k < rpos + 1)
        BY <1>1, <1>2, <2>5, Zenon
    <2>7. \A m \in 1..(n + 1) : \E f \in 1..rfile : \E k \in 1..Len(content[f]) :
              content[f][k] = events'[m] /\ (f = rfile => k < rpos + 1)
        <3>1. ASSUME NEW m \in 1..(n + 1)
              PROVE  \E f \in 1..rfile : \E k \in 1..Len(content[f]) :
                        content[f][k] = events'[m] /\ (f = rfile => k < rpos + 1)
            <4>1. CASE m \in 1..n
                <5>1. m \in DOMAIN events /\ events'[m] = events[m]
                    BY <2>3, <4>1, Zenon
                <5> QED
                    BY <1>5, <5>1
            <4>2. CASE m = n + 1
                BY <2>3, <2>6, <4>2
            <4> QED
                BY <2>3, <4>1, <4>2, Zenon
        <3> QED
            BY <3>1, Zenon
    <2> QED
        BY <1>1, <1>2, <1>3, <2>3, <2>4, <2>7, Zenon
<1> QED
    BY <1>7, <1>8, Zenon

(* The reader moves past lines of the open file, or leaves the file. *)
LEMMA AdvanceInv ==
    ASSUME ReaderInv, rstep = "read", UNCHANGED logVars,
           UNCHANGED rindex, UNCHANGED paths, UNCHANGED rfile, UNCHANGED filter,
           UNCHANGED limit, UNCHANGED backward, UNCHANGED owed, UNCHANGED moved,
           cut' \in BOOLEAN, rpos' \in Nat \ {0}, events' \in Seq(Nat),
           rstep' \in {"read", "open", "finish"},
           rstep' = "finish" => paths = <<>>, rstep' = "read" => rpos' = rpos + 1,
           \A j, k \in DOMAIN events' : j < k => events'[j] < events'[k],
           \A n \in DOMAIN events' : \E f \in 1..rfile : \E k \in 1..Len(content[f]) :
              content[f][k] = events'[n] /\ (f = rfile => k < rpos + 1),
           Range(events) \subseteq Range(events'),
           \A k \in 1..Len(content[rfile]) :
              \/ ~(k >= rpos) \/ (rstep' = "read" /\ k >= rpos')
              \/ content[rfile][k] \in filter => content[rfile][k] \in Range(events')
    PROVE  ReaderInv'
<1>0. LogInv /\ TypeOK /\ StageInv /\ PathInv /\ NewerInv /\ OrderInv /\ QuietInv
    BY Zenon DEF ReaderInv
<1>1. /\ LogInv' /\ LogTypeOK' /\ UNCHANGED dir /\ UNCHANGED content
      /\ UNCHANGED files /\ UNCHANGED seq
    BY ReadFrame, Zenon
<1>2. rfile # 0 /\ ~backward /\ rstep' # "idle" /\ rstep' # "list" /\ rstep' # "done"
    BY <1>0 DEF StageInv
<1>3. TypeOK'
    <2>1. rstep' \in ReadSteps
        BY DEF ReadSteps
    <2> QED
        BY <1>0, <1>1, <2>1, Zenon DEF TypeOK
<1>4. StageInv'
    BY <1>2 DEF StageInv
<1>5. PathInv' /\ NewerInv'
    BY <1>0, <1>1, <1>2, Zenon DEF PathInv, NewerInv
<1>6. OrderInv'
    <2>1. ASSUME NEW n \in DOMAIN events', rstep' \in {"open", "read"}
          PROVE  Passed(events[n])'
        <3>1. PICK f \in 1..rfile : \E k \in 1..Len(content[f]) :
                  content[f][k] = events'[n] /\ (f = rfile => k < rpos + 1)
            BY <2>1, Zenon
        <3>2. PICK k \in 1..Len(content[f]) :
                  content[f][k] = events'[n] /\ (f = rfile => k < rpos + 1)
            BY <3>1
        <3>3. rstep' = "read" /\ f = rfile => k < rpos'
            BY <3>2, Zenon
        <3> QED
            BY <1>1, <3>2, <3>3, Zenon DEF Passed
    <2> QED
        BY <1>2, <2>1, Zenon DEF OrderInv, ReadInOrder, Before
<1>7. QuietInv'
    <2>1. ~moved => dir[rindex] = rfile
        BY <1>0, Zenon DEF QuietInv
    <2>2. ASSUME NEW e, Covered(e) PROVE Covered(e)'
        BY <2>2, Zenon DEF Covered
    <2>3. ASSUME ~moved, NEW i \in Paths, dir[i] # 0, ~(i \in Range(paths)),
                 NEW k \in 1..Len(content[dir[i]])
          PROVE  Covered(content[dir[i]][k])' \/ (rstep' = "read" /\ i = rindex /\ k >= rpos')
        <3>1. Covered(content[dir[i]][k]) \/ (i = rindex /\ k >= rpos)
            BY <1>0, <2>3, Zenon DEF QuietInv
        <3>2. CASE Covered(content[dir[i]][k])
            BY <1>1, <2>2, <3>2, Zenon
        <3>3. CASE i = rindex /\ k >= rpos
            <4>1. dir[i] = rfile
                BY <2>1, <2>3, <3>3, Zenon
            <4> QED
                BY <1>1, <2>3, <3>3, <4>1, Zenon DEF Covered
        <3> QED
            BY <3>1, <3>2, <3>3, Zenon
    <2>4. ASSUME ~moved', NEW i \in Paths, dir'[i] # 0
          PROVE  \/ i \in Range(paths')
                 \/ \A k \in 1..Len(content'[dir'[i]]) :
                       Covered(content[dir[i]][k])' \/ (rstep' = "read" /\ i = rindex' /\ k >= rpos')
        BY <1>1, <2>3, <2>4, Zenon
    <2>5. ~moved' /\ rstep' = "read" => dir'[rindex'] = rfile'
        BY <1>1, <2>1, Zenon
    <2> QED
        BY <2>4, <2>5, Zenon DEF QuietInv
<1> QED
    BY <1>1, <1>3, <1>4, <1>5, <1>6, <1>7, Zenon DEF ReaderInv

LEMMA LineStepInv ==
    ASSUME ReaderInv, ReadLine, UNCHANGED logVars
    PROVE  ReaderInv'
<1>0. /\ rstep = "read" /\ rpos <= Len(content[rfile])
      /\ events' = Matched(content[rfile][rpos])
      /\ rpos' = rpos + 1 /\ cut' = FALSE /\ rstep' = "read"
      /\ UNCHANGED rindex /\ UNCHANGED paths /\ UNCHANGED rfile /\ UNCHANGED filter
      /\ UNCHANGED limit /\ UNCHANGED backward /\ UNCHANGED owed /\ UNCHANGED moved
    BY Zenon DEF ReadLine
<1>1. PICK e : e = content[rfile][rpos]
    OBVIOUS
<1>2. /\ rfile \in 1..MaxFiles /\ rpos \in 1..Len(content[rfile]) /\ e \in Nat
      /\ Len(content[rfile]) \in Nat
      /\ events' \in Seq(Nat)
      /\ \A j, k \in DOMAIN events' : j < k => events'[j] < events'[k]
      /\ \A n \in DOMAIN events' : \E f \in 1..rfile : \E k \in 1..Len(content[f]) :
            content[f][k] = events'[n] /\ (f = rfile => k < rpos + 1)
      /\ Range(events) \subseteq Range(events')
      /\ e \in filter => e \in Range(events')
    BY <1>0, <1>1, Collects, Zenon
<1>3. rpos' \in Nat \ {0} /\ \A k \in 1..Len(content[rfile]) : ~(k >= rpos) \/ k >= rpos' \/ k = rpos
    BY <1>0, <1>2
<1>4. \A k \in 1..Len(content[rfile]) :
          \/ ~(k >= rpos) \/ (rstep' = "read" /\ k >= rpos')
          \/ content[rfile][k] \in filter => content[rfile][k] \in Range(events')
    BY <1>0, <1>1, <1>2, <1>3, Zenon
<1>5. cut' \in BOOLEAN /\ rstep' # "finish" /\ rstep' \in {"read", "open", "finish"}
    BY <1>0, Zenon
<1> QED
    BY <1>0, <1>2, <1>3, <1>4, <1>5, AdvanceInv, Zenon

LEMMA UnendedInv ==
    ASSUME ReaderInv, ReadUnended, UNCHANGED logVars
    PROVE  ReaderInv'
<1>0. /\ rstep = "read" /\ rpos = Len(content[rfile])
      /\ events' = Matched(content[rfile][rpos])
      /\ UNCHANGED rindex /\ UNCHANGED paths /\ UNCHANGED rfile /\ UNCHANGED filter
      /\ UNCHANGED limit /\ UNCHANGED backward /\ UNCHANGED owed /\ UNCHANGED moved
      /\ \/ NextPath /\ UNCHANGED rpos /\ UNCHANGED cut
         \/ rpos' = rpos + 1 /\ cut' = TRUE /\ rstep' = "read"
    BY Zenon DEF ReadUnended
<1>1. PICK e : e = content[rfile][rpos]
    OBVIOUS
<1>2. rpos \in Nat \ {0} /\ cut \in BOOLEAN
    BY Zenon DEF ReaderInv, TypeOK
<1>3. rpos <= Len(content[rfile])
    BY <1>0, <1>2
<1>4. /\ rfile \in 1..MaxFiles /\ rpos \in 1..Len(content[rfile]) /\ e \in Nat
      /\ Len(content[rfile]) \in Nat
      /\ events' \in Seq(Nat)
      /\ \A j, k \in DOMAIN events' : j < k => events'[j] < events'[k]
      /\ \A n \in DOMAIN events' : \E f \in 1..rfile : \E k \in 1..Len(content[f]) :
            content[f][k] = events'[n] /\ (f = rfile => k < rpos + 1)
      /\ Range(events) \subseteq Range(events')
      /\ e \in filter => e \in Range(events')
    BY <1>0, <1>1, <1>3, Collects, Zenon
<1>5. \A k \in 1..Len(content[rfile]) : ~(k >= rpos) \/ k = rpos
    BY <1>0, <1>4
<1>6. \A k \in 1..Len(content[rfile]) :
          \/ ~(k >= rpos) \/ (rstep' = "read" /\ k >= rpos')
          \/ content[rfile][k] \in filter => content[rfile][k] \in Range(events')
    BY <1>1, <1>4, <1>5, Zenon
<1>7. CASE NextPath /\ UNCHANGED rpos /\ UNCHANGED cut
    <2>1. /\ rstep' \in {"read", "open", "finish"} /\ rstep' # "read"
          /\ rstep' = "finish" => paths = <<>>
        BY <1>7 DEF NextPath
    <2> QED
        BY <1>0, <1>2, <1>4, <1>6, <1>7, <2>1, AdvanceInv, Zenon
<1>8. CASE rpos' = rpos + 1 /\ cut' = TRUE /\ rstep' = "read"
    <2>1. /\ rstep' \in {"read", "open", "finish"} /\ rstep' # "finish"
          /\ rpos' \in Nat \ {0} /\ cut' \in BOOLEAN
        BY <1>2, <1>8
    <2> QED
        BY <1>0, <1>4, <1>6, <1>8, <2>1, AdvanceInv, Zenon
<1> QED
    BY <1>0, <1>7, <1>8, Zenon

LEMMA EOFInv ==
    ASSUME ReaderInv, ReadEOF, UNCHANGED logVars
    PROVE  ReaderInv'
<1>0. /\ rstep = "read" /\ rpos > Len(content[rfile]) /\ NextPath
      /\ UNCHANGED rindex /\ UNCHANGED paths /\ UNCHANGED rfile /\ UNCHANGED filter
      /\ UNCHANGED limit /\ UNCHANGED backward /\ UNCHANGED owed /\ UNCHANGED moved
      /\ UNCHANGED rpos /\ UNCHANGED cut /\ UNCHANGED events
    BY Zenon DEF ReadEOF
<1>1. /\ rpos \in Nat \ {0} /\ cut \in BOOLEAN /\ events \in Seq(Nat) /\ rfile # 0
      /\ rfile \in 0..files /\ files \in 0..MaxFiles /\ content \in [1..MaxFiles -> Seq(Nat)]
      /\ OrderInv
    BY <1>0, Zenon DEF ReaderInv, TypeOK, LogTypeOK, StageInv
<1>2. rfile \in 1..MaxFiles
    BY <1>1, LogConstants
<1>3. content[rfile] \in Seq(Nat) /\ Len(content[rfile]) \in Nat
    BY <1>1, <1>2, LenProperties
<1>4. \A k \in 1..Len(content[rfile]) : ~(k >= rpos)
    BY <1>0, <1>1, <1>3
<1>5. /\ rstep' \in {"read", "open", "finish"} /\ rstep' # "read"
      /\ rstep' = "finish" => paths = <<>>
    BY <1>0 DEF NextPath
<1>6. \A j, k \in DOMAIN events' : j < k => events'[j] < events'[k]
    BY <1>0, <1>1 DEF OrderInv
<1>7. ASSUME NEW n \in DOMAIN events'
      PROVE  \E f \in 1..rfile : \E k \in 1..Len(content[f]) :
                content[f][k] = events'[n] /\ (f = rfile => k < rpos + 1)
    <2>1. PICK f \in 1..rfile : \E k \in 1..Len(content[f]) :
              content[f][k] = events'[n] /\ (f = rfile => k < rpos)
        BY <1>0, <1>1, Zenon DEF OrderInv, Passed
    <2>2. PICK k \in 1..Len(content[f]) :
              content[f][k] = events'[n] /\ (f = rfile => k < rpos)
        BY <2>1
    <2>3. f = rfile => k < rpos + 1
        BY <1>1, <2>2
    <2> QED
        BY <2>2, <2>3, Zenon
<1>8. Range(events) \subseteq Range(events')
    BY <1>0, Zenon
<1> QED
    BY <1>0, <1>1, <1>4, <1>5, <1>6, <1>7, <1>8, AdvanceInv, Zenon

(* Reversing keeps the events and turns their order around. *)
LEMMA ReversedIs ==
    ASSUME NEW s \in Seq(Nat), \A j, k \in DOMAIN s : j < k => s[j] < s[k]
    PROVE  /\ Reversed(s) \in Seq(Nat)
           /\ \A j, k \in DOMAIN Reversed(s) : j < k => Reversed(s)[k] < Reversed(s)[j]
           /\ Range(s) \subseteq Range(Reversed(s))
<1>1. PICK n \in Nat : n = Len(s)
    BY LenProperties
<1>2. DOMAIN s = 1..n /\ \A k \in 1..n : s[k] \in Nat
    BY <1>1, LenProperties, ElementOfSeq
<1>3. \A k \in 1..n : n + 1 - k \in 1..n /\ n + 1 - (n + 1 - k) = k
    OBVIOUS
<1>4. \A j, k \in 1..n : j < k => n + 1 - k < n + 1 - j
    OBVIOUS
<1>5. PICK r : r = Reversed(s)
    OBVIOUS
<1>6. r = [k \in 1..n |-> s[n + 1 - k]]
    BY <1>1, <1>2, <1>5, Zenon DEF Reversed
<1>7. DOMAIN r = 1..n /\ \A k \in 1..n : r[k] = s[n + 1 - k]
    BY <1>6, Zenon
<1>8. r \in [1..n -> Nat]
    BY <1>2, <1>3, <1>6, Zenon
<1>9. r \in Seq(Nat)
    BY <1>8
<1>10. ASSUME NEW j \in 1..n, NEW k \in 1..n, j < k PROVE r[k] < r[j]
    <2>1. /\ n + 1 - k \in DOMAIN s /\ n + 1 - j \in DOMAIN s /\ n + 1 - k < n + 1 - j
          /\ r[k] = s[n + 1 - k] /\ r[j] = s[n + 1 - j]
        BY <1>2, <1>3, <1>4, <1>7, <1>10, Zenon
    <2> QED
        BY <2>1, Zenon
<1>11. ASSUME NEW k \in 1..n PROVE s[k] \in Range(r)
    <2>1. n + 1 - k \in DOMAIN r /\ r[n + 1 - k] = s[k]
        BY <1>3, <1>7, Zenon
    <2> QED
        BY <2>1, Zenon DEF Range
<1>12. Range(s) \subseteq Range(r)
    BY <1>2, <1>11, Zenon DEF Range
<1> QED
    BY <1>5, <1>7, <1>9, <1>10, <1>12, Zenon

(* Limiting takes a prefix, or everything. *)
LEMMA LimitedIs ==
    ASSUME NEW s \in Seq(Nat), NEW n \in Nat
    PROVE  /\ Limited(s, n) \in Seq(Nat)
           /\ DOMAIN Limited(s, n) \subseteq DOMAIN s
           /\ \A k \in DOMAIN Limited(s, n) : Limited(s, n)[k] = s[k]
           /\ n = 0 => Limited(s, n) = s
<1>1. CASE n > 0 /\ Len(s) > n
    <2>1. Limited(s, n) = SubSeq(s, 1, n)
        BY <1>1 DEF Limited
    <2>2. n \in 1..Len(s) /\ 1..n \subseteq 1..Len(s) /\ n # 0
        BY <1>1, LenProperties
    <2>3. SubSeq(s, 1, n) \in Seq(Nat) /\ DOMAIN SubSeq(s, 1, n) = 1..n
          /\ \A k \in 1..n : SubSeq(s, 1, n)[k] = s[k]
        BY <2>2
    <2> QED
        BY <2>1, <2>2, <2>3, LenProperties
<1>2. CASE ~(n > 0 /\ Len(s) > n)
    BY <1>2, Zenon DEF Limited
<1> QED
    BY <1>1, <1>2, Zenon

(* The result is put in order and cut to its limit. *)
LEMMA FinishInv ==
    ASSUME ReaderInv, ReadFinish, UNCHANGED logVars
    PROVE  ReaderInv'
<1>0. /\ LogInv /\ TypeOK /\ StageInv /\ OrderInv /\ QuietInv
      /\ rstep = "finish" /\ rstep' = "done"
      /\ backward' \in BOOLEAN /\ limit' \in Limits
      /\ events' = Limited(IF backward' THEN Reversed(events) ELSE events, limit')
      /\ UNCHANGED rindex /\ UNCHANGED paths /\ UNCHANGED rfile /\ UNCHANGED filter
      /\ UNCHANGED rpos /\ UNCHANGED cut /\ UNCHANGED owed /\ UNCHANGED moved
    BY Zenon DEF ReaderInv, ReadFinish
<1>1. /\ LogInv' /\ LogTypeOK' /\ UNCHANGED dir /\ UNCHANGED content
      /\ UNCHANGED files /\ UNCHANGED seq
    BY ReadFrame, Zenon
<1>2. /\ events \in Seq(Nat) /\ limit' \in Nat /\ paths = <<>>
      /\ \A j, k \in DOMAIN events : j < k => events[j] < events[k]
    BY <1>0, ReadConstants DEF TypeOK, StageInv, OrderInv
<1>3. PICK r : r = IF backward' THEN Reversed(events) ELSE events
    OBVIOUS
<1>4. /\ r \in Seq(Nat) /\ Range(events) \subseteq Range(r)
      /\ \A j, k \in DOMAIN r : j < k => IF backward' THEN r[k] < r[j] ELSE r[j] < r[k]
    <2>1. CASE backward'
        <3>1. r = Reversed(events)
            BY <1>3, <2>1, Zenon
        <3>2. /\ Reversed(events) \in Seq(Nat) /\ Range(events) \subseteq Range(Reversed(events))
              /\ \A j, k \in DOMAIN Reversed(events) :
                    j < k => Reversed(events)[k] < Reversed(events)[j]
            BY <1>2, ReversedIs
        <3> QED
            BY <2>1, <3>1, <3>2, Zenon
    <2>2. CASE ~backward'
        <3>1. r = events
            BY <1>3, <2>2, Zenon
        <3> QED
            BY <1>2, <2>2, <3>1, Zenon
    <2> QED
        BY <2>1, <2>2, Zenon
<1>5. /\ events' \in Seq(Nat)
      /\ DOMAIN events' \subseteq DOMAIN r
      /\ \A k \in DOMAIN events' : events'[k] = r[k]
      /\ limit' = 0 => events' = r
    <2>1. /\ Limited(r, limit') \in Seq(Nat)
          /\ DOMAIN Limited(r, limit') \subseteq DOMAIN r
          /\ \A k \in DOMAIN Limited(r, limit') : Limited(r, limit')[k] = r[k]
          /\ limit' = 0 => Limited(r, limit') = r
        BY <1>2, <1>4, LimitedIs, Zenon
    <2> QED
        BY <1>0, <1>3, <2>1, Zenon
<1>6. TypeOK'
    <2>1. rstep' \in ReadSteps
        BY <1>0, Zenon DEF ReadSteps
    <2> QED
        BY <1>0, <1>1, <1>5, <2>1, Zenon DEF TypeOK
<1>7. StageInv' /\ PathInv' /\ NewerInv'
    BY <1>0, <1>2 DEF StageInv, PathInv, NewerInv
<1>8. OrderInv'
    <2>1. ASSUME NEW j \in DOMAIN events', NEW k \in DOMAIN events', j < k
          PROVE  Before(events[j], events[k])'
        <3>1. IF backward' THEN r[k] < r[j] ELSE r[j] < r[k]
            BY <1>4, <1>5, <2>1, Zenon
        <3> QED
            BY <1>5, <2>1, <3>1, Zenon DEF Before
    <2> QED
        BY <1>0, <2>1, Zenon DEF OrderInv, ReadInOrder
<1>9. QuietInv'
    <2>1. ASSUME limit' = 0, ~moved, NEW i \in Paths, dir[i] # 0,
                 NEW k \in 1..Len(content[dir[i]])
          PROVE  Covered(content[dir[i]][k])'
        <3>1. ~(i \in Range(paths))
            BY <1>2 DEF Range
        <3>2. Covered(content[dir[i]][k])
            BY <1>0, <2>1, <3>1, Zenon DEF QuietInv
        <3>3. Range(events) \subseteq Range(events')
            BY <1>4, <1>5, <2>1, Zenon
        <3> QED
            BY <1>0, <1>1, <3>2, <3>3, Zenon DEF Covered
    <2> QED
        BY <1>0, <1>1, <2>1, Zenon DEF QuietInv
<1> QED
    BY <1>1, <1>6, <1>7, <1>8, <1>9, Zenon DEF ReaderInv

-----------------------------------------------------------------------------
LEMMA ReaderInvStep ==
    ASSUME ReaderInv, [Next]_vars
    PROVE  ReaderInv'
<1>1. ASSUME LogNext, UNCHANGED readVars,
             moved' = (moved \/ (rstep # "idle" /\ dir' # dir))
      PROVE  ReaderInv'
    BY <1>1, LogSideInv, Zenon
<1>2. ASSUME ReadNext, UNCHANGED logVars PROVE ReaderInv'
    <2>1. CASE ReadCorrupt \/ ReadReturn
        <3>1. Reset
            BY <2>1, Zenon DEF ReadCorrupt, ReadReturn
        <3> QED
            BY <1>2, <3>1, ResetInv, Zenon
    <2> QED
        BY <1>2, <2>1, BeginInv, ListInv, OpenInv, LineStepInv, UnendedInv, EOFInv,
           FinishInv, Zenon DEF ReadNext
<1>3. ASSUME UNCHANGED vars PROVE ReaderInv'
    <2>1. UNCHANGED logVars /\ UNCHANGED readVars /\ UNCHANGED moved
        BY <1>3, Zenon DEF vars
    <2>2. moved' = (moved \/ (rstep # "idle" /\ dir' # dir))
        <3>1. dir' = dir
            BY <2>1, Zenon DEF logVars, disk
        <3>2. moved \in BOOLEAN
            BY Zenon DEF ReaderInv, TypeOK
        <3> QED
            BY <2>1, <3>1, <3>2, Zenon
    <2>3. [LogNext]_logVars
        BY <2>1, Zenon
    <2> QED
        BY <2>1, <2>2, <2>3, LogSideInv, Zenon
<1> QED
    BY <1>1, <1>2, <1>3, Zenon DEF Next

(* ReaderInv holds whatever the writer does while ReadAll runs. *)
THEOREM ReaderInvariance == Spec => []ReaderInv
<1>1. Init => ReaderInv
    BY ReaderInitInv, Zenon
<1>2. ReaderInv /\ [Next]_vars => ReaderInv'
    BY ReaderInvStep, Zenon
<1> QED
    BY <1>1, <1>2, PTL DEF Spec

(* ReadAll and the writer keep their variables in their types. *)
THEOREM ReaderTypeCorrect == Spec => []TypeOK
<1>1. ReaderInv => TypeOK
    BY Zenon DEF ReaderInv
<1> QED
    BY <1>1, ReaderInvariance, PTL

(* What ReadAll has collected, and in the end returns, is in the order in   *)
(* which Write wrote it, newest first when Reverse is set, and holds no     *)
(* event twice, whatever files the writer renames, removes or creates       *)
(* between the reader's Stat, Open and Read calls.                          *)
THEOREM ReadsAreOrdered == Spec => []ReadInOrder
<1>1. ReaderInv => ReadInOrder
    BY Zenon DEF ReaderInv, OrderInv
<1> QED
    BY <1>1, ReaderInvariance, PTL

(* A ReadAll without Limit during which no file is renamed, removed or      *)
(* created returns every matching event that was begun before it, was       *)
(* acknowledged by its end and is in the log then.                          *)
THEOREM QuietReadsAreComplete == Spec => []QuietReadIsComplete
<1>1. ASSUME ReaderInv PROVE QuietReadIsComplete
    <2>1. SUFFICES ASSUME rstep = "done", limit = 0, ~moved,
                          NEW e \in Retained, e \in filter, e <= owed
                   PROVE  e \in Range(events)
        BY Zenon DEF QuietReadIsComplete
    <2>2. PICK i \in Paths : dir[i] # 0 /\ e \in Lines(dir[i])
        BY Zenon DEF Retained
    <2>3. PICK k \in DOMAIN content[dir[i]] : e = content[dir[i]][k]
        BY <2>2, Zenon DEF Lines
    <2>4. paths = <<>> /\ QuietInv /\ LogTypeOK
        BY <1>1, <2>1, Zenon DEF ReaderInv, StageInv, TypeOK
    <2>5. ~(i \in Range(paths))
        BY <2>4 DEF Range
    <2>6. k \in 1..Len(content[dir[i]])
        <3>1. dir \in [Paths -> 0..files] /\ files \in 0..MaxFiles
              /\ content \in [1..MaxFiles -> Seq(Nat)]
            BY <2>4, Zenon DEF LogTypeOK
        <3>2. dir[i] \in 1..MaxFiles
            BY <2>2, <3>1, LogConstants
        <3> QED
            BY <2>3, <3>1, <3>2, LenProperties
    <2> QED
        BY <2>1, <2>2, <2>3, <2>4, <2>5, <2>6, Zenon DEF QuietInv, Covered
<1> QED
    BY <1>1, ReaderInvariance, PTL

=============================================================================
