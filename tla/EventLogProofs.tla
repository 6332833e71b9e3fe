--------------------------- MODULE EventLogProofs ---------------------------
(***************************************************************************)
(* Proofs about the event log writer, for any number of backups, lines,    *)
(* files and events, and for any faults.                                   *)
(***************************************************************************)
EXTENDS EventLog, SequenceTheorems, TLAPS

(* A file at a higher index is older, and the file at path is the newest. *)
AgeInv ==
    /\ \A i, j \in Paths : i < j /\ dir[i] # 0 /\ dir[j] # 0 => dir[j] < dir[i]
    /\ dir[0] # 0 => dir[0] = files

(* An open logger writes to the file at path, and a rotation has closed it. *)
HandleInv ==
    /\ open => dir[0] # 0 /\ file = dir[0]
    /\ step \in {"shift", "open", "reopen"} => ~open
    /\ step \in {"shift", "reopen"} => dir[0] # 0

(* While backup i is about to move, the place above it is free; only the   *)
(* last one may still be taken, when its removal failed.                   *)
HoleInv == step = "shift" /\ index < MaxBackups - 1 => dir[index + 1] = 0

(* A file that has left the log is older than all that are in it. *)
DroppedInv ==
    \A f \in 1..files :
        \/ \E i \in Paths : dir[i] = f
        \/ \A i \in Paths : dir[i] # 0 => f < dir[i]

(* Without an interruption the backups have no hole but the one that moves. *)
DenseInv ==
    ~interrupted =>
        \A i, j \in Paths :
            i > 0 /\ i < j /\ dir[j] # 0 /\ ~(step = "shift" /\ i = index + 1)
                => dir[i] # 0

(* Lines are numbered through the files in the order of their creation. *)
LineInv ==
    /\ \A f \in 1..MaxFiles : \A k \in 1..Len(content[f]) :
          content[f][k] \in 1..seq /\ f <= files
    /\ \A f, g \in 1..MaxFiles :
          \A j \in 1..Len(content[f]) : \A k \in 1..Len(content[g]) :
             f < g \/ (f = g /\ j < k) => content[f][j] < content[g][k]

(* Every line is in a file, and one that is being synced is whole. *)
WrittenInv ==
    /\ \A e \in 1..seq : \E f \in 1..files : \E k \in 1..Len(content[f]) : content[f][k] = e
    /\ step \in {"headerRest", "appendRest"} => seq > 0
    /\ step \in {"headerSync", "appendSync"} => seq \in whole

LogInv ==
    /\ LogTypeOK /\ AgeInv /\ HandleInv /\ HoleInv /\ DroppedInv /\ DenseInv
    /\ LineInv /\ WrittenInv

-----------------------------------------------------------------------------
(* The indices of the paths. *)
LEMMA PathFacts ==
    /\ 0 \in Paths /\ MaxBackups \in Paths /\ MaxBackups \in Nat /\ MaxBackups > 0
    /\ \A i \in Paths : /\ i \in Nat /\ i <= MaxBackups
                        /\ i > 0 => i - 1 \in Paths
                        /\ i < MaxBackups => i + 1 \in Paths
BY LogConstants DEF Paths

(* A step of the writer is one of its actions or leaves its variables.     *)
LEMMA LogCases ==
    ASSUME [LogNext]_logVars
    PROVE  \/ New \/ WriteBegin \/ RotateClose \/ RemoveOldest \/ ShiftBackup
           \/ RotateCurrent \/ RenameFails \/ Reopen \/ OpenRotated \/ OpenFails
           \/ AppendBegin \/ AppendRest \/ AppendFails \/ Sync \/ SyncFails
           \/ Close \/ Crash \/ UNCHANGED logVars
BY DEF LogNext

(* The first state satisfies the invariant: there are no files yet. *)
LEMMA LogInitInv == LogInit => LogInv
<1> SUFFICES ASSUME LogInit PROVE LogInv
    OBVIOUS
<1> USE LogConstants, PathFacts DEF LogInit
<1>1. LogTypeOK
    <2>1. content \in [1..MaxFiles -> Seq(Nat)]
        OBVIOUS
    <2>2. files \in 0..MaxFiles /\ seq \in 0..MaxEvents /\ 0 \in 0..files
        OBVIOUS
    <2> QED
        BY <2>1, <2>2, Zenon DEF LogTypeOK, Steps
<1>2. AgeInv /\ HandleInv /\ HoleInv /\ DroppedInv /\ DenseInv
    BY DEF AgeInv, HandleInv, HoleInv, DroppedInv, DenseInv
<1>3. LineInv /\ WrittenInv
    BY DEF LineInv, WrittenInv
<1> QED
    BY <1>1, <1>2, <1>3 DEF LogInv

(* What opening the log does: the file at path is the newest and in hand.  *)
LEMMA OpenPathIs ==
    ASSUME LogInv, OpenPath
    PROVE  /\ open' = TRUE /\ file' = dir'[0] /\ dir'[0] # 0 /\ dir'[0] = files'
           /\ files' \in 0..MaxFiles /\ dir' \in [Paths -> 0..files']
           /\ \A i \in Paths : i # 0 => dir'[i] = dir[i]
           /\ \/ files' = files /\ dir' = dir
              \/ files' = files + 1 /\ dir[0] = 0
           /\ file' \in 0..files'
<1> USE LogConstants, PathFacts DEF LogInv, LogTypeOK
<1>1. CASE dir[0] # 0
    BY <1>1 DEF OpenPath, AgeInv
<1>2. CASE dir[0] = 0
    <2>1. /\ open' = TRUE /\ files' = files + 1 /\ file' = files + 1
          /\ files < MaxFiles /\ dir' = [dir EXCEPT ![0] = files + 1]
        BY <1>2 DEF OpenPath
    <2>2. files' \in 0..MaxFiles /\ files + 1 \in 0..files' /\ files + 1 # 0
        BY <2>1
    <2>3. dir'[0] = files + 1 /\ \A i \in Paths : i # 0 => dir'[i] = dir[i]
        BY <2>1
    <2>4. \A v \in 0..files : v \in 0..files'
        BY <2>1
    <2>5. dir \in [Paths -> 0..files']
        BY <2>4
    <2>6. dir' \in [Paths -> 0..files']
        BY ONLY <2>1, <2>2, <2>5, Zenon
    <2> QED
        BY <1>2, <2>1, <2>2, <2>3, <2>6
<1> QED
    BY <1>1, <1>2, Zenon

(* What a rename does to each path. *)
LEMMA RenamedIs ==
    ASSUME LogTypeOK, NEW i \in Paths, i < MaxBackups
    PROVE  /\ Renamed(i, i + 1) \in [Paths -> 0..files]
           /\ \A j \in Paths :
                 Renamed(i, i + 1)[j] =
                    IF dir[i] = 0 THEN dir[j]
                    ELSE IF j = i + 1 THEN dir[i] ELSE IF j = i THEN 0 ELSE dir[j]
<1>1. i + 1 \in Paths /\ i + 1 # i /\ dir \in [Paths -> 0..files] /\ 0 \in 0..files
    BY PathFacts DEF LogTypeOK
<1>2. CASE dir[i] = 0
    BY <1>1, <1>2 DEF Renamed
<1>3. CASE dir[i] # 0
    <2>1. Renamed(i, i + 1) = [dir EXCEPT ![i + 1] = dir[i], ![i] = 0]
        BY <1>3 DEF Renamed
    <2> QED
        BY <1>1, <1>3, <2>1, Zenon
<1> QED
    BY <1>2, <1>3

(* Every step of the writer keeps the types. *)
LEMMA LogTypeStep ==
    ASSUME LogInv, [LogNext]_logVars
    PROVE  LogTypeOK'
<1> USE LogConstants, PathFacts DEF LogInv, LogTypeOK, Steps
<1>1. CASE New \/ Reopen \/ OpenRotated
    <2>1. OpenPath
        BY <1>1 DEF New, Reopen, OpenRotated
    <2> QED
        BY <1>1, <2>1, OpenPathIs, Zenon DEF New, Reopen, OpenRotated
<1>2. CASE WriteBegin
    BY <1>2, Zenon DEF WriteBegin, disk
<1>3. CASE RotateClose
    BY <1>3, Zenon DEF RotateClose, disk
<1>4. CASE RemoveOldest
    BY <1>4 DEF RemoveOldest
<1>5. CASE ShiftBackup
    <2>1. index \in Paths /\ index + 1 \in Paths /\ index - 1 \in Paths
        BY <1>5 DEF ShiftBackup
    <2>2. dir' \in [Paths -> 0..files]
        <3>1. index < MaxBackups /\ dir' = Renamed(index, index + 1)
            BY <1>5 DEF ShiftBackup
        <3>2. LogTypeOK
            OBVIOUS
        <3> HIDE DEF LogTypeOK
        <3> QED
            BY <2>1, <3>1, <3>2, RenamedIs
    <2> QED
        BY <1>5, <2>1, <2>2, Zenon DEF ShiftBackup
<1>6. CASE RotateCurrent
    BY <1>6 DEF RotateCurrent, Renamed
<1>7. CASE RenameFails
    BY <1>7, Zenon DEF RenameFails, disk
<1>8. CASE OpenFails
    BY <1>8, Zenon DEF OpenFails, disk
<1>9. CASE AppendBegin
    <2>0. dir[0] \in 0..files /\ file = dir[0] /\ dir[0] # 0
        BY <1>9 DEF AppendBegin, HandleInv
    <2>1. file \in 1..MaxFiles
        BY <2>0
    <2>2. content' \in [1..MaxFiles -> Seq(Nat)]
        BY <1>9, <2>1 DEF AppendBegin
    <2> QED
        BY <1>9, <2>2 DEF AppendBegin
<1>10. CASE AppendRest
    <2>1. seq \in 1..seq
        BY <1>10 DEF AppendRest, WrittenInv
    <2>2. whole' \subseteq 1..seq /\ acked \subseteq whole'
        BY <1>10, <2>1 DEF AppendRest
    <2> QED
        BY <1>10, <2>2, Zenon DEF AppendRest
<1>11. CASE AppendFails
    BY <1>11, Zenon DEF AppendFails, disk
<1>12. CASE Sync
    BY <1>12, Zenon DEF Sync, disk, WrittenInv
<1>13. CASE SyncFails
    BY <1>13, Zenon DEF SyncFails, disk
<1>14. CASE Close
    BY <1>14, Zenon DEF Close, disk
<1>15. CASE Crash
    <2>1. interrupted' \in BOOLEAN
        BY <1>15, Zenon DEF Crash
    <2>2. file' \in 0..files /\ index' \in Paths
        BY <1>15 DEF Crash
    <2> QED
        BY <1>15, <2>1, <2>2, Zenon DEF Crash, disk
<1>16. CASE UNCHANGED logVars
    BY <1>16, Zenon DEF logVars, disk, logger
<1> QED
    BY <1>1, <1>2, <1>3, <1>4, <1>5, <1>6, <1>7, <1>8, <1>9, <1>10, <1>11,
       <1>12, <1>13, <1>14, <1>15, <1>16, LogCases, Zenon

(* Every step of the writer keeps the files in order of age. *)
LEMMA AgeStep ==
    ASSUME LogInv, [LogNext]_logVars
    PROVE  AgeInv'
<1> USE LogConstants, PathFacts DEF LogInv, LogTypeOK, AgeInv
<1>1. CASE New \/ Reopen \/ OpenRotated
    <2>1. OpenPath
        BY <1>1 DEF New, Reopen, OpenRotated
    <2>2. ASSUME NEW i \in Paths, NEW j \in Paths, i < j, dir'[i] # 0, dir'[j] # 0
          PROVE  dir'[j] < dir'[i]
        <3>0. i \in Nat /\ j \in Nat
            BY PathFacts
        <3>4. j # 0
            BY <2>2, <3>0
        <3>1. dir'[j] = dir[j] /\ dir[j] \in 0..files
            BY <2>1, <3>4, OpenPathIs, Zenon
        <3>2. CASE i = 0
            <4>1. dir'[i] = files' /\ (files' = files + 1 \/ dir' = dir)
                BY <2>1, <3>2, OpenPathIs, Zenon
            <4>2. CASE files' = files + 1
                BY <3>1, <4>1, <4>2
            <4>3. CASE dir' = dir
                BY <2>2, <4>3
            <4> QED
                BY <4>1, <4>2, <4>3
        <3>3. CASE i # 0
            <4>1. dir'[i] = dir[i]
                BY <2>1, <3>3, OpenPathIs, Zenon
            <4> QED
                BY <2>2, <3>1, <4>1
        <3> QED
            BY <3>2, <3>3
    <2> QED
        BY <2>1, <2>2, OpenPathIs, Zenon
<1>2. CASE RemoveOldest
    BY <1>2, Zenon DEF RemoveOldest
<1>3. CASE ShiftBackup \/ RotateCurrent
    <2>1. /\ index \in Paths /\ index + 1 \in Paths /\ files' = files
          /\ dir' = Renamed(index, index + 1) /\ index < MaxBackups
        BY <1>3 DEF ShiftBackup, RotateCurrent
    <2>2. \A i \in Paths :
             dir'[i] = IF dir[index] = 0 THEN dir[i]
                       ELSE IF i = index + 1 THEN dir[index]
                       ELSE IF i = index THEN 0 ELSE dir[i]
        BY <2>1, RenamedIs, Zenon
    <2>3. \A i, j \in Paths :
             i < j /\ dir'[i] # 0 /\ dir'[j] # 0 => dir'[j] < dir'[i]
        <3> HIDE PathFacts
        <3> SUFFICES ASSUME NEW i \in Paths, NEW j \in Paths,
                            i < j, dir'[i] # 0, dir'[j] # 0
                     PROVE  dir'[j] < dir'[i]
            OBVIOUS
        <3>1. i \in Nat /\ j \in Nat /\ index \in Nat
            BY <2>1, PathFacts
        <3>2. CASE dir[index] = 0
            BY <2>2, <3>1, <3>2
        <3>3. CASE dir[index] # 0
            <4>1. i # index /\ j # index
                BY <2>2, <3>1, <3>3
            <4>2. CASE i = index + 1
                <5>1. index < j /\ j # index + 1
                    BY <3>1, <4>2
                <5>2. dir'[i] = dir[index] /\ dir'[j] = dir[j]
                    BY <2>2, <3>3, <4>1, <4>2, <5>1, Zenon
                <5> QED
                    BY <2>1, <3>3, <5>1, <5>2, Zenon
            <4>3. CASE j = index + 1
                <5>1. i < index /\ i # index + 1
                    BY <3>1, <4>1, <4>3
                <5>2. dir'[i] = dir[i] /\ dir'[j] = dir[index]
                    BY <2>2, <3>3, <4>1, <4>3, <5>1, Zenon
                <5> QED
                    BY <2>1, <3>3, <5>1, <5>2, Zenon
            <4>4. CASE i # index + 1 /\ j # index + 1
                <5>1. dir'[i] = dir[i] /\ dir'[j] = dir[j]
                    BY <2>2, <3>3, <4>1, <4>4, Zenon
                <5> QED
                    BY <5>1, Zenon
            <4> QED
                BY <4>2, <4>3, <4>4, Zenon
        <3> QED
            BY <3>2, <3>3
    <2>4. dir'[0] # 0 => dir'[0] = files
        <3>1. 0 \in Paths /\ index + 1 # 0
            BY <2>1
        <3> QED
            BY <2>2, <3>1
    <2> QED
        BY <2>1, <2>3, <2>4
<1>4. CASE UNCHANGED <<dir, files>>
    BY <1>4
<1> QED
    BY <1>1, <1>2, <1>3, <1>4, LogCases, Zenon DEF WriteBegin, RotateClose, RenameFails,
       OpenFails, AppendBegin, AppendRest, AppendFails, Sync, SyncFails, Close,
       Crash, disk, logVars

(* The actions that leave the files where they are. *)
LEMMA DirFrame ==
    ASSUME [LogNext]_logVars
    PROVE  \/ New \/ Reopen \/ OpenRotated
           \/ RemoveOldest
           \/ ShiftBackup \/ RotateCurrent
           \/ UNCHANGED <<dir, files>>
BY LogCases, Zenon DEF WriteBegin, RotateClose, RenameFails, OpenFails, AppendBegin,
   AppendRest, AppendFails, Sync, SyncFails, Close, Crash, disk, logVars

(* Every step of the writer keeps the logger's handle on the file at path. *)
LEMMA HandleStep ==
    ASSUME LogInv, [LogNext]_logVars
    PROVE  HandleInv'
<1> USE PathFacts DEF LogInv, LogTypeOK, HandleInv
<1>1. CASE New \/ Reopen \/ OpenRotated
    <2>1. OpenPath /\ step' \in {"idle", "header"}
        BY <1>1 DEF New, Reopen, OpenRotated
    <2> QED
        BY <2>1, OpenPathIs, Zenon
<1>2. CASE RemoveOldest
    BY <1>2 DEF RemoveOldest
<1>3. CASE ShiftBackup
    <2>1. index \in Paths /\ index < MaxBackups /\ index # 0 /\ index + 1 # 0
        BY <1>3 DEF ShiftBackup
    <2>2. dir'[0] = dir[0]
        BY <1>3, <2>1, RenamedIs, Zenon DEF ShiftBackup
    <2> QED
        BY <1>3, <2>2, Zenon DEF ShiftBackup
<1>4. CASE RotateCurrent
    BY <1>4 DEF RotateCurrent
<1>5. CASE WriteBegin \/ RotateClose \/ RenameFails \/ OpenFails
    BY <1>5 DEF WriteBegin, RotateClose, RenameFails, OpenFails, disk
<1>6. CASE AppendBegin \/ AppendRest \/ AppendFails \/ Sync \/ SyncFails
    BY <1>6 DEF AppendBegin, AppendRest, AppendFails, Sync, SyncFails, disk
<1>7. CASE Close \/ Crash \/ UNCHANGED logVars
    BY <1>7 DEF Close, Crash, disk, logVars, logger
<1> QED
    BY <1>1, <1>2, <1>3, <1>4, <1>5, <1>6, <1>7, LogCases

(* Every step of a rotation frees the place that the next one fills. *)
LEMMA HoleStep ==
    ASSUME LogInv, [LogNext]_logVars
    PROVE  HoleInv'
<1> USE PathFacts DEF LogInv, LogTypeOK, HoleInv
<1>1. CASE ShiftBackup
    <2>1. index \in Paths /\ index < MaxBackups /\ index' = index - 1
        BY <1>1 DEF ShiftBackup
    <2>2. index' + 1 = index /\ index # index + 1
        BY <2>1
    <2>3. dir'[index] = 0
        BY <1>1, <2>1, <2>2, RenamedIs, Zenon DEF ShiftBackup
    <2> QED
        BY <2>2, <2>3
<1>2. CASE RemoveOldest
    BY <1>2 DEF RemoveOldest
<1>3. CASE RotateClose
    BY <1>3 DEF RotateClose
<1>4. CASE step' # "shift"
    BY <1>4
<1>5. CASE UNCHANGED <<dir, step, index>>
    BY <1>5
<1> QED
    BY <1>1, <1>2, <1>3, <1>4, <1>5, LogCases, Zenon DEF New, Reopen, OpenRotated,
       WriteBegin, RotateCurrent, RenameFails, OpenFails, AppendBegin,
       AppendRest, AppendFails, Sync, SyncFails, Close, Crash, disk, logVars,
       logger

(* A rename by a rotation, path by path; it overwrites at most the last one. *)
LEMMA RotationRename ==
    ASSUME LogInv, ShiftBackup \/ RotateCurrent
    PROVE  /\ index \in Paths /\ index + 1 \in Paths /\ index \in Nat
           /\ index < MaxBackups /\ step = "shift" /\ files' = files
           /\ \A j \in Paths :
                 dir'[j] = IF dir[index] = 0 THEN dir[j]
                           ELSE IF j = index + 1 THEN dir[index]
                           ELSE IF j = index THEN 0 ELSE dir[j]
           /\ dir[index + 1] = 0 \/ index + 1 = MaxBackups
<1>1. /\ index \in Paths /\ index < MaxBackups /\ step = "shift"
      /\ files' = files /\ dir' = Renamed(index, index + 1)
    BY PathFacts DEF ShiftBackup, RotateCurrent, LogInv, LogTypeOK
<1>2. index + 1 \in Paths /\ index \in Nat
    BY <1>1, PathFacts
<1>3. dir[index + 1] = 0 \/ index + 1 = MaxBackups
    BY <1>1, <1>2, PathFacts DEF LogInv, HoleInv
<1> QED
    BY <1>1, <1>2, <1>3, RenamedIs DEF LogInv

(* Every step of the writer drops the oldest file if it drops any. *)
LEMMA DroppedStep ==
    ASSUME LogInv, [LogNext]_logVars
    PROVE  DroppedInv'
<1>0. /\ files \in Nat /\ \A i \in Paths : dir[i] \in 0..files
      /\ \A i, j \in Paths : i < j /\ dir[i] # 0 /\ dir[j] # 0 => dir[j] < dir[i]
    BY LogConstants DEF LogInv, LogTypeOK, AgeInv
<1>1. CASE New \/ Reopen \/ OpenRotated
    <2>1. OpenPath
        BY <1>1 DEF New, Reopen, OpenRotated
    <2>2. CASE dir' = dir /\ files' = files
        BY <2>2 DEF LogInv, DroppedInv
    <2>3. CASE files' = files + 1 /\ dir[0] = 0
        <3>1. dir'[0] = files + 1 /\ \A i \in Paths : i # 0 => dir'[i] = dir[i]
            BY <2>1, <2>3, OpenPathIs
        <3>2. ASSUME NEW f \in 1..(files + 1)
              PROVE  \/ \E i \in Paths : dir'[i] = f
                     \/ \A i \in Paths : dir'[i] # 0 => f < dir'[i]
            <4>1. CASE f = files + 1
                BY <3>1, <4>1, PathFacts
            <4>2. CASE f # files + 1
                <5>1. f \in 1..files
                    BY <1>0, <4>2
                <5>2. CASE \E i \in Paths : dir[i] = f
                    BY <2>3, <3>1, <5>1, <5>2
                <5>3. CASE \A i \in Paths : dir[i] # 0 => f < dir[i]
                    BY <1>0, <3>1, <5>1, <5>3
                <5> QED
                    BY <5>1, <5>2, <5>3 DEF LogInv, DroppedInv
            <4> QED
                BY <4>1, <4>2
        <3> QED
            BY <2>3, <3>2 DEF DroppedInv
    <2> QED
        BY <2>1, <2>2, <2>3, OpenPathIs
<1>2. CASE RemoveOldest
    <2>1. CASE dir' = dir
        BY <1>2, <2>1 DEF RemoveOldest, LogInv, DroppedInv
    <2>2. CASE dir' = [dir EXCEPT ![MaxBackups] = 0]
        <3>1. \A i \in Paths : dir'[i] = IF i = MaxBackups THEN 0 ELSE dir[i]
            BY <2>2, PathFacts DEF LogInv, LogTypeOK
        <3>2. ASSUME NEW f \in 1..files
              PROVE  \/ \E i \in Paths : dir'[i] = f
                     \/ \A i \in Paths : dir'[i] # 0 => f < dir'[i]
            <4>1. CASE dir[MaxBackups] = f
                <5>1. ASSUME NEW i \in Paths, dir'[i] # 0 PROVE f < dir'[i]
                    <6>1. i < MaxBackups /\ dir'[i] = dir[i] /\ f # 0
                        BY <3>1, <5>1, PathFacts
                    <6> QED
                        BY <1>0, <4>1, <5>1, <6>1, PathFacts
                <5> QED
                    BY <5>1
            <4>2. CASE dir[MaxBackups] # f
                BY <3>1, <4>2 DEF LogInv, DroppedInv
            <4> QED
                BY <4>1, <4>2
        <3>3. files' = files
            BY <1>2 DEF RemoveOldest
        <3> QED
            BY <3>2, <3>3 DEF DroppedInv
    <2> QED
        BY <1>2, <2>1, <2>2 DEF RemoveOldest
<1>3. CASE ShiftBackup \/ RotateCurrent
    <2>1. ASSUME NEW f \in 1..files
          PROVE  \/ \E i \in Paths : dir'[i] = f
                 \/ \A i \in Paths : dir'[i] # 0 => f < dir'[i]
        <3>1. CASE dir[index] = 0
            BY <1>3, <3>1, RotationRename DEF LogInv, DroppedInv
        <3>2. CASE dir[index] # 0 /\ dir[index + 1] = f
            <4>1. index + 1 = MaxBackups
                BY <1>3, <3>2, RotationRename
            <4>2. ASSUME NEW i \in Paths, dir'[i] # 0 PROVE f < dir'[i]
                <5>1. PICK j \in Paths : j < MaxBackups /\ dir[j] # 0 /\ dir'[i] = dir[j]
                    <6>1. CASE i = index + 1
                        BY <1>3, <3>2, <6>1, RotationRename
                    <6>2. CASE i # index + 1
                        <7>1. i < MaxBackups
                            BY <1>3, <4>1, <6>2, RotationRename, PathFacts
                        <7> QED
                            BY <1>3, <3>2, <4>2, <6>2, <7>1, RotationRename
                    <6> QED
                        BY <6>1, <6>2
                <5>2. f # 0 /\ MaxBackups \in Paths
                    BY PathFacts
                <5> QED
                    BY <1>0, <3>2, <4>1, <5>1, <5>2
            <4> QED
                BY <4>2
        <3>3. CASE dir[index] # 0 /\ dir[index + 1] # f
            <4>1. CASE \E i \in Paths : dir[i] = f
                <5>1. PICK i \in Paths : dir[i] = f
                    BY <4>1
                <5>2. CASE i = index
                    BY <1>3, <3>3, <5>1, <5>2, RotationRename
                <5>3. CASE i # index
                    BY <1>3, <3>3, <5>1, <5>3, RotationRename
                <5> QED
                    BY <5>2, <5>3
            <4>2. CASE \A i \in Paths : dir[i] # 0 => f < dir[i]
                BY <1>3, <3>3, <4>2, RotationRename
            <4> QED
                BY <4>1, <4>2 DEF LogInv, DroppedInv
        <3> QED
            BY <3>1, <3>2, <3>3
    <2> QED
        BY <1>3, <2>1, RotationRename DEF DroppedInv
<1>4. CASE UNCHANGED <<dir, files>>
    BY <1>4 DEF LogInv, DroppedInv
<1> QED
    BY <1>1, <1>2, <1>3, <1>4, DirFrame

(* Every step of an uninterrupted writer leaves no hole behind. *)
LEMMA DenseStep ==
    ASSUME LogInv, [LogNext]_logVars
    PROVE  DenseInv'
<1>1. CASE New \/ Reopen \/ OpenRotated
    <2>1. OpenPath /\ interrupted' = interrupted /\ step # "shift"
        BY <1>1 DEF New, Reopen, OpenRotated
    <2>2. \A i \in Paths : i > 0 => dir'[i] = dir[i]
        BY <2>1, OpenPathIs, PathFacts
    <2>3. ASSUME ~interrupted, NEW i \in Paths, NEW j \in Paths,
                 i > 0, i < j, dir'[j] # 0
          PROVE  dir'[i] # 0
        <3>1. j > 0
            BY <2>3, PathFacts
        <3> QED
            BY <2>1, <2>2, <2>3, <3>1 DEF LogInv, DenseInv
    <2> QED
        BY <2>1, <2>3 DEF DenseInv
<1>2. CASE RemoveOldest
    <2>1. /\ interrupted' = interrupted /\ step = "shift" /\ step' = "shift"
          /\ index = MaxBackups /\ index' + 1 = MaxBackups
        BY <1>2, PathFacts DEF RemoveOldest
    <2>2. \A i \in Paths : i # MaxBackups => dir'[i] = dir[i]
        BY <1>2, PathFacts DEF RemoveOldest, LogInv, LogTypeOK
    <2>3. \A i \in Paths : dir'[i] # 0 => dir[i] # 0
        BY <1>2, <2>2, PathFacts DEF RemoveOldest, LogInv, LogTypeOK
    <2>4. ASSUME ~interrupted, NEW i \in Paths, NEW j \in Paths,
                 i > 0, i < j, dir'[j] # 0
          PROVE  dir'[i] # 0
        <3>1. i < MaxBackups /\ i # index + 1 /\ dir[j] # 0
            BY <2>1, <2>3, <2>4, PathFacts
        <3>2. dir[i] # 0
            BY <2>4, <3>1 DEF LogInv, DenseInv
        <3> QED
            BY <2>2, <3>1, <3>2, PathFacts
    <2> QED
        BY <2>1, <2>4 DEF DenseInv
<1>3. CASE ShiftBackup \/ RotateCurrent
    <2>1. interrupted' = interrupted
        BY <1>3 DEF ShiftBackup, RotateCurrent
    <2>2. index = 0 => dir[index] # 0
        BY <1>3, RotationRename DEF LogInv, HandleInv
    <2>3. step' = "shift" => index' + 1 = index
        BY <1>3, RotationRename DEF ShiftBackup, RotateCurrent
    <2>4. ASSUME ~interrupted, NEW i \in Paths, NEW j \in Paths,
                 i > 0, i < j, dir'[j] # 0, i # index
          PROVE  dir'[i] # 0
        <3>1. i \in Nat /\ j \in Nat /\ index \in Nat
            BY <1>3, PathFacts, RotationRename
        <3>2. CASE i = index + 1
            <4>1. dir[j] # 0 /\ j # index /\ j # index + 1
                BY <1>3, <2>4, <3>1, <3>2, RotationRename
            <4>2. dir[index] # 0
                <5>1. CASE index = 0
                    BY <2>2, <5>1
                <5>2. CASE index # 0
                    BY <1>3, <2>4, <3>1, <3>2, <4>1, <5>2, RotationRename
                       DEF LogInv, DenseInv
                <5> QED
                    BY <5>1, <5>2
            <4> QED
                BY <1>3, <3>2, <4>2, RotationRename
        <3>3. CASE i # index + 1
            <4>1. dir'[i] = dir[i]
                BY <1>3, <2>4, <3>3, RotationRename
            <4>2. CASE dir[j] # 0
                BY <1>3, <2>4, <3>3, <4>1, <4>2, RotationRename DEF LogInv, DenseInv
            <4>3. CASE dir[j] = 0
                <5>1. j = index + 1 /\ dir[index] # 0 /\ i < index
                    BY <1>3, <2>4, <3>1, <4>3, RotationRename
                <5> QED
                    BY <1>3, <2>4, <3>3, <4>1, <5>1, RotationRename DEF LogInv, DenseInv
            <4> QED
                BY <4>2, <4>3
        <3> QED
            BY <3>2, <3>3
    <2>5. CASE step' = "shift"
        BY <2>1, <2>3, <2>4, <2>5 DEF DenseInv
    <2>6. CASE step' # "shift"
        <3>1. index = 0
            BY <1>3, <2>6 DEF ShiftBackup, RotateCurrent
        <3>2. \A i \in Paths : i > 0 => i # index
            BY <3>1, PathFacts
        <3> QED
            BY <2>1, <2>4, <3>2 DEF DenseInv
    <2> QED
        BY <2>5, <2>6
<1>4. CASE interrupted'
    BY <1>4 DEF DenseInv
<1>5. CASE ~interrupted' /\ RotateClose
    <2>1. step # "shift" /\ UNCHANGED <<dir, interrupted>>
        BY <1>5 DEF RotateClose, disk
    <2> QED
        BY <2>1 DEF LogInv, DenseInv
<1>6. CASE ~interrupted' /\ ~interrupted /\ step # "shift" /\ UNCHANGED dir
    BY <1>6 DEF LogInv, DenseInv
<1>7. CASE UNCHANGED <<dir, step, index, interrupted>>
    BY <1>7 DEF LogInv, DenseInv
<1> QED
    BY <1>1, <1>2, <1>3, <1>4, <1>5, <1>6, <1>7, LogCases, Zenon DEF WriteBegin,
       RenameFails, OpenFails, AppendBegin, AppendRest, AppendFails, Sync,
       SyncFails, Close, Crash, disk, logVars, logger

(* Every step of the writer adds a line, if any, after all others. *)
LEMMA LineStep ==
    ASSUME LogInv, [LogNext]_logVars
    PROVE  LineInv'
<1>0. /\ files \in 0..MaxFiles /\ seq \in Nat /\ MaxFiles \in Nat
      /\ content \in [1..MaxFiles -> Seq(Nat)]
    BY LogConstants DEF LogInv, LogTypeOK
<1>1. CASE AppendBegin
    <2>1. file \in 1..MaxFiles /\ file = files /\ files' = files /\ seq' = seq + 1
        BY <1>0, <1>1, PathFacts DEF AppendBegin, LogInv, LogTypeOK, HandleInv, AgeInv
    <2>2. \A f \in 1..MaxFiles :
             content'[f] = IF f = file THEN Append(content[f], seq + 1) ELSE content[f]
        BY <1>0, <1>1, <2>1 DEF AppendBegin
    <2>3. \A f \in 1..MaxFiles : \A k \in 1..Len(content[f]) :
             content[f][k] \in 1..seq /\ f <= files
        BY DEF LogInv, LineInv
    <2>4. ASSUME NEW f \in 1..MaxFiles, NEW k \in 1..Len(content'[f])
          PROVE  \/ /\ k \in 1..Len(content[f]) /\ content'[f][k] = content[f][k]
                 \/ f = file /\ k = Len(content[f]) + 1 /\ content'[f][k] = seq + 1
        <3>1. content[f] \in Seq(Nat) /\ Len(content[f]) \in Nat /\ seq + 1 \in Nat
            BY <1>0
        <3>2. CASE f = file
            <4>1. content'[f] = Append(content[f], seq + 1)
                BY <2>2, <3>2, Zenon
            <4> QED
                BY <3>1, <3>2, <4>1
        <3>3. CASE f # file
            BY <2>2, <3>3
        <3> QED
            BY <3>2, <3>3
    <2>5. \A f \in 1..MaxFiles : \A k \in 1..Len(content'[f]) :
             content'[f][k] \in 1..seq' /\ f <= files'
        BY <1>0, <2>1, <2>3, <2>4
    <2>6. ASSUME NEW f \in 1..MaxFiles, NEW g \in 1..MaxFiles,
                 NEW j \in 1..Len(content'[f]), NEW k \in 1..Len(content'[g]),
                 f < g \/ (f = g /\ j < k)
          PROVE  content'[f][j] < content'[g][k]
        <3>1. CASE k \in 1..Len(content[g]) /\ content'[g][k] = content[g][k]
            <4>1. g <= files
                BY <2>3, <3>1
            <4>2. j \in 1..Len(content[f]) /\ content'[f][j] = content[f][j]
                BY <1>0, <2>1, <2>4, <2>6, <3>1, <4>1
            <4> QED
                BY <2>6, <3>1, <4>2 DEF LogInv, LineInv
        <3>2. CASE g = file /\ k = Len(content[g]) + 1 /\ content'[g][k] = seq + 1
            <4>1. j \in 1..Len(content[f]) /\ content'[f][j] = content[f][j]
                BY <1>0, <2>1, <2>4, <2>6, <3>2
            <4> QED
                BY <1>0, <2>3, <3>2, <4>1
        <3> QED
            BY <2>4, <3>1, <3>2
    <2> QED
        BY <2>5, <2>6 DEF LineInv
<1>2. CASE New \/ Reopen \/ OpenRotated
    <2>1. OpenPath /\ UNCHANGED <<content, seq>>
        BY <1>2 DEF New, Reopen, OpenRotated
    <2>2. files' \in Nat /\ files <= files'
        BY <1>0, <2>1, OpenPathIs
    <2>3. \A f \in 1..MaxFiles : \A k \in 1..Len(content[f]) :
             content[f][k] \in 1..seq /\ f <= files'
        BY <1>0, <2>2 DEF LogInv, LineInv
    <2> QED
        BY <2>1, <2>3 DEF LogInv, LineInv
<1>3. CASE UNCHANGED <<content, seq, files>>
    BY <1>3 DEF LogInv, LineInv
<1> QED
    BY <1>1, <1>2, <1>3, LogCases, Zenon DEF WriteBegin, RotateClose, RemoveOldest,
       ShiftBackup, RotateCurrent, RenameFails, OpenFails, AppendRest,
       AppendFails, Sync, SyncFails, Close, Crash, disk, logVars

(* Every step of the writer keeps all lines and ends what it syncs. *)
LEMMA WrittenStep ==
    ASSUME LogInv, [LogNext]_logVars
    PROVE  WrittenInv'
<1>0. /\ files \in 0..MaxFiles /\ seq \in Nat /\ MaxFiles \in Nat
      /\ content \in [1..MaxFiles -> Seq(Nat)]
    BY LogConstants DEF LogInv, LogTypeOK
<1>1. /\ step' \in {"headerRest", "appendRest"} => seq' > 0
      /\ step' \in {"headerSync", "appendSync"} => seq' \in whole'
    <2>1. CASE AppendBegin
        BY <1>0, <2>1 DEF AppendBegin
    <2>2. CASE AppendRest
        BY <2>2 DEF AppendRest
    <2>3. CASE step' \notin {"headerRest", "appendRest", "headerSync", "appendSync"}
        BY <2>3
    <2>4. CASE UNCHANGED <<step, seq, whole>>
        BY <2>4 DEF LogInv, WrittenInv
    <2> QED
        BY <2>1, <2>2, <2>3, <2>4, LogCases, Zenon DEF New, WriteBegin, RotateClose,
           RemoveOldest, ShiftBackup, RotateCurrent, RenameFails, Reopen,
           OpenRotated, OpenFails, AppendFails, Sync, SyncFails, Close, Crash,
           disk, logVars, logger
<1>2. \A e \in 1..seq' : \E f \in 1..files' : \E k \in 1..Len(content'[f]) :
         content'[f][k] = e
    <2>1. CASE AppendBegin
        <3>1. file \in 1..files /\ files' = files /\ seq' = seq + 1
            BY <1>0, <2>1, PathFacts DEF AppendBegin, LogInv, LogTypeOK, HandleInv
        <3>2. \A f \in 1..MaxFiles :
                 content'[f] = IF f = file THEN Append(content[f], seq + 1) ELSE content[f]
            BY <1>0, <2>1, <3>1 DEF AppendBegin
        <3>3. ASSUME NEW e \in 1..(seq + 1)
              PROVE  \E f \in 1..files : \E k \in 1..Len(content'[f]) : content'[f][k] = e
            <4>1. CASE e = seq + 1
                <5>1. /\ Len(content[file]) + 1 \in 1..Len(content'[file])
                      /\ content'[file][Len(content[file]) + 1] = seq + 1
                    <6>0. file \in 1..MaxFiles
                        BY <1>0, <3>1
                    <6>1. content'[file] = Append(content[file], seq + 1)
                        BY <6>0, <3>2, Zenon
                    <6>2. content[file] \in Seq(Nat) /\ seq + 1 \in Nat
                        BY <1>0, <3>1
                    <6> QED
                        BY <6>1, <6>2
                <5> QED
                    BY <3>1, <4>1, <5>1
            <4>2. CASE e # seq + 1
                <5>1. e \in 1..seq
                    BY <1>0, <4>2
                <5>2. PICK f \in 1..files : \E k \in 1..Len(content[f]) : content[f][k] = e
                    BY <5>1 DEF LogInv, WrittenInv
                <5>3. PICK k \in 1..Len(content[f]) : content[f][k] = e
                    BY <5>2
                <5>4. content[f] \in Seq(Nat) /\ f \in 1..MaxFiles /\ seq + 1 \in Nat
                    BY <1>0
                <5>5. k \in 1..Len(content'[f]) /\ content'[f][k] = e
                    <6>1. CASE f = file
                        <7>1. content'[f] = Append(content[f], seq + 1)
                            BY <3>2, <5>4, <6>1, Zenon
                        <7> QED
                            BY <5>3, <5>4, <7>1
                    <6>2. CASE f # file
                        <7>1. content'[f] = content[f]
                            BY <3>2, <5>4, <6>2
                        <7> QED
                            BY <5>3, <7>1
                    <6> QED
                        BY <6>1, <6>2
                <5> QED
                    BY <5>5
            <4> QED
                BY <4>1, <4>2
        <3> QED
            BY <3>1, <3>3
    <2>2. CASE New \/ Reopen \/ OpenRotated
        <3>1. OpenPath /\ UNCHANGED <<content, seq>>
            BY <2>2 DEF New, Reopen, OpenRotated
        <3>2. \A f \in 1..files : f \in 1..files'
            BY <1>0, <3>1, OpenPathIs
        <3> QED
            BY <3>1, <3>2 DEF LogInv, WrittenInv
    <2>3. CASE UNCHANGED <<content, seq, files>>
        BY <2>3 DEF LogInv, WrittenInv
    <2> QED
        BY <2>1, <2>2, <2>3, LogCases, Zenon DEF WriteBegin, RotateClose, RemoveOldest,
           ShiftBackup, RotateCurrent, RenameFails, OpenFails, AppendRest,
           AppendFails, Sync, SyncFails, Close, Crash, disk, logVars
<1> QED
    BY <1>1, <1>2 DEF WrittenInv

(* The invariant is inductive. *)
LEMMA LogInvStep ==
    ASSUME LogInv, [LogNext]_logVars
    PROVE  LogInv'
BY LogTypeStep, AgeStep, HandleStep, HoleStep, DroppedStep, DenseStep, LineStep,
   WrittenStep, Zenon DEF LogInv

(* An acknowledged line is in a file; the file is in the log, or it is     *)
(* older than all that are, and so is the line.                            *)
LEMMA KeptByInv == LogInv => AcknowledgedIsKept
<1> SUFFICES ASSUME LogInv, NEW e \in acked
             PROVE  e \in Retained \/ \A r \in Retained : e < r
    BY DEF AcknowledgedIsKept
<1>0. files \in 0..MaxFiles /\ \A i \in Paths : dir[i] \in 0..files
    BY DEF LogInv, LogTypeOK
<1>1. e \in 1..seq
    BY DEF LogInv, LogTypeOK
<1>7. PICK f \in 1..files : \E k \in 1..Len(content[f]) : content[f][k] = e
    BY <1>1 DEF LogInv, WrittenInv
<1>2. PICK k \in 1..Len(content[f]) : content[f][k] = e
    BY <1>7
<1>3. \A g \in 1..MaxFiles : DOMAIN content[g] = 1..Len(content[g])
    BY DEF LogInv, LogTypeOK
<1>4. f \in 1..MaxFiles
    BY <1>0, LogConstants
<1>5. CASE \E i \in Paths : dir[i] = f
    <2>1. PICK i \in Paths : dir[i] = f
        BY <1>5
    <2>2. e \in Lines(f) /\ dir[i] # 0
        BY <1>2, <1>3, <1>4, <2>1 DEF Lines
    <2> QED
        BY <2>1, <2>2 DEF Retained
<1>6. CASE \A i \in Paths : dir[i] # 0 => f < dir[i]
    <2>1. ASSUME NEW r \in Retained PROVE e < r
        <3>1. PICK i \in Paths : dir[i] # 0 /\ r \in Lines(dir[i])
            BY DEF Retained
        <3>2. dir[i] \in 1..MaxFiles
            BY <1>0, <3>1, LogConstants
        <3>3. PICK j \in 1..Len(content[dir[i]]) : r = content[dir[i]][j]
            BY <1>3, <3>1, <3>2 DEF Lines
        <3> QED
            BY <1>2, <1>4, <1>6, <3>1, <3>2, <3>3, Zenon DEF LogInv, LineInv
    <2> QED
        BY <2>1
<1> QED
    BY <1>5, <1>6 DEF LogInv, DroppedInv

(* A file that leaves does so from a full log, unless a rotation was        *)
(* interrupted before.                                                      *)
LEMMA TrimByInv ==
    ASSUME LogInv, [LogNext]_logVars, ~interrupted,
           NEW i \in Paths, dir[i] # 0, \A j \in Paths : dir'[j] # dir[i]
    PROVE  \A j \in Paths : dir[j] # 0
<1>1. CASE New \/ Reopen \/ OpenRotated
    <2>1. OpenPath
        BY <1>1 DEF New, Reopen, OpenRotated
    <2> QED
        BY <2>1, OpenPathIs
<1>2. CASE RemoveOldest
    <2>1. /\ step = "shift" /\ index = MaxBackups /\ dir[MaxBackups] # 0
        BY <1>2, PathFacts DEF RemoveOldest, LogInv, LogTypeOK
    <2>2. \A j \in Paths : j > 0 /\ j < MaxBackups => dir[j] # 0
        BY <2>1, PathFacts DEF LogInv, DenseInv
    <2>3. dir[0] # 0
        BY <2>1 DEF LogInv, HandleInv
    <2> QED
        BY <2>1, <2>2, <2>3, PathFacts
<1>3. CASE ShiftBackup \/ RotateCurrent
    <2>1. i = index + 1 /\ dir[index] # 0
        BY <1>3, RotationRename
    <2>2. index + 1 = MaxBackups /\ step = "shift"
        BY <1>3, <2>1, RotationRename
    <2>3. \A j \in Paths : j > 0 /\ j < MaxBackups => dir[j] # 0
        BY <2>1, <2>2, PathFacts DEF LogInv, DenseInv
    <2>4. dir[0] # 0
        BY <2>2 DEF LogInv, HandleInv
    <2> QED
        BY <2>1, <2>2, <2>3, <2>4, PathFacts
<1>4. CASE UNCHANGED <<dir, files>>
    BY <1>4
<1> QED
    BY <1>1, <1>2, <1>3, <1>4, DirFrame

-----------------------------------------------------------------------------
(* The invariant holds of the writer by itself (LogSpec). *)
THEOREM LogInvariance == LogSpec => []LogInv
<1>1. LogInv /\ [LogNext]_logVars => LogInv'
    BY LogInvStep
<1> QED
    BY LogInitInv, <1>1, PTL DEF LogSpec

(* The writer's variables keep their types; in particular only lines that  *)
(* were written to the end are acknowledged by Write.                      *)
THEOREM LogTypeCorrect == LogSpec => []LogTypeOK
<1>1. LogInv => LogTypeOK
    BY DEF LogInv
<1> QED
    BY LogInvariance, <1>1, PTL

(* What Write has acknowledged stays in the log until everything older has *)
(* left it.                                                                *)
THEOREM AcknowledgedStays == LogSpec => []AcknowledgedIsKept
BY LogInvariance, KeptByInv, PTL

(* rotateIfNeeded drops a file only from a full log, unless a rotation was *)
(* interrupted before.                                                     *)
THEOREM DropsOnlyForSpace == LogSpec => TrimsOnlyWhenFull
<1>1. LogInv /\ [LogNext]_logVars =>
         [ ~interrupted /\ (\E i \in Paths : dir[i] # 0 /\ \A j \in Paths : dir'[j] # dir[i])
           => \A i \in Paths : dir[i] # 0 ]_logVars
    BY TrimByInv
<1> QED
    BY LogInvariance, <1>1, PTL DEF LogSpec, TrimsOnlyWhenFull
=============================================================================
