------------------------------ MODULE EventLog ------------------------------
(***************************************************************************)
(* The event log writer of internal/eventlog/eventlog.go: Logger.Write     *)
(* with its rotation, Logger.Close, and the kernel process that crashes    *)
(* and opens the log again.                                                *)
(*                                                                         *)
(* A Logger serialises Write with its mutex, so one Write is in progress   *)
(* at a time and `step' says where it is.  Close takes no lock and may come *)
(* between any two steps.  Lines are numbered in the order in which they   *)
(* are begun; the numbers stand for the JSON texts.  Files are numbered in *)
(* the order in which they are created, and 0 is no file.                  *)
(***************************************************************************)
EXTENDS Naturals, Sequences, FiniteSets

CONSTANTS
    MaxBackups,  \* Options.MaxBackups, also the reader's DefaultMaxBackups
    MaxLines,    \* Options.MaxBytes, in lines
    Faults,      \* what may go wrong: "io" errors, a "crash", an early "close"
    MaxEvents,   \* bound on the lines begun
    MaxFiles     \* bound on the files created

ASSUME LogConstants ==
    /\ MaxBackups \in Nat \ {0} /\ MaxLines \in Nat \ {0}
    /\ MaxEvents \in Nat /\ MaxFiles \in Nat
    /\ Faults \subseteq {"io", "crash", "close"}

VARIABLES
    dir,         \* the file at backupPath(i), and at path for i = 0
    content,     \* each file's lines
    whole,       \* the lines whose last byte, the newline, was written
    files,       \* files created so far
    seq,         \* lines begun so far
    file,        \* Logger.file
    open,        \* whether Logger.file is an open file
    step,        \* where Write is; "idle" between calls, "down" no process
    index,       \* i of the loop in rotateIfNeeded
    acked,       \* the events for which Write returned nil
    interrupted  \* history: some rotation stopped between two renames

disk == <<dir, content, whole, files, seq>>
logger == <<file, open, step, index>>
logVars == <<disk, logger, acked, interrupted>>

Paths == 0..MaxBackups
Steps == {"down", "idle", "close", "shift", "open", "reopen", "header",
          "headerRest", "headerSync", "append", "appendRest", "appendSync"}

(* The log and its writer are of the right shape: a file is opened, named  *)
(* and written only after it was created, a line has a number given out.   *)
LogTypeOK ==
    /\ files \in 0..MaxFiles
    /\ seq \in 0..MaxEvents
    /\ dir \in [Paths -> 0..files]
    /\ content \in [1..MaxFiles -> Seq(Nat)]
    /\ whole \subseteq 1..seq
    /\ acked \subseteq whole
    /\ file \in 0..files
    /\ open \in BOOLEAN
    /\ step \in Steps
    /\ index \in Paths
    /\ interrupted \in BOOLEAN

LogInit ==
    /\ dir = [i \in Paths |-> 0]
    /\ content = [f \in 1..MaxFiles |-> <<>>]
    /\ whole = {} /\ files = 0 /\ seq = 0
    /\ file = 0 /\ open = FALSE /\ step = "down" /\ index = 0
    /\ acked = {} /\ interrupted = FALSE

-----------------------------------------------------------------------------
(* openFile with O_CREATE|O_APPEND: the file at path, or a new one. *)
OpenPath ==
    /\ open' = TRUE
    /\ \/ dir[0] # 0 /\ file' = dir[0] /\ UNCHANGED <<dir, files>>
       \/ /\ dir[0] = 0 /\ files < MaxFiles
          /\ files' = files + 1
          /\ file' = files + 1
          /\ dir' = [dir EXCEPT ![0] = files + 1]

(* renameFile, skipped when statFile finds nothing to rename. *)
Renamed(i, j) ==
    IF dir[i] = 0 THEN dir ELSE [dir EXCEPT ![j] = dir[i], ![i] = 0]

(* The process has started: NewWithOptions. *)
New ==
    /\ step = "down"
    /\ OpenPath
    /\ step' = "idle"
    /\ UNCHANGED <<content, whole, seq, index, acked, interrupted>>

(* Write is called and its Stat decides whether to rotate; on a closed file *)
(* the Stat fails and Write changes nothing.                               *)
WriteBegin ==
    /\ step = "idle" /\ open
    /\ step' = IF Len(content[file]) + 1 <= MaxLines THEN "append" ELSE "close"
    /\ UNCHANGED <<disk, file, open, index, acked, interrupted>>

(* Mutant: the backups are not moved out of the way. *)
RotateWithoutShift ==
    /\ step = "close"
    /\ open' = FALSE
    /\ \/ open /\ step' = "shift" /\ index' = 0
       \/ (~open \/ "io" \in Faults) /\ step' = "idle" /\ UNCHANGED index
    /\ UNCHANGED <<disk, file, acked, interrupted>>

(* Rotation closes the current file.  On an error Write returns, and the   *)
(* file is closed all the same.                                            *)
RotateClose ==
    /\ step = "close"
    /\ open' = FALSE
    /\ \/ open /\ step' = "shift" /\ index' = MaxBackups
       \/ (~open \/ "io" \in Faults) /\ step' = "idle" /\ UNCHANGED index
    /\ UNCHANGED <<disk, file, acked, interrupted>>

(* The oldest backup is removed; a failure is ignored. *)
RemoveOldest ==
    /\ step = "shift" /\ index = MaxBackups
    /\ \/ dir' = [dir EXCEPT ![MaxBackups] = 0]
       \/ "io" \in Faults /\ UNCHANGED dir
    /\ index' = index - 1
    /\ UNCHANGED <<content, whole, files, seq, file, open, step, acked, interrupted>>

(* Backup i becomes backup i + 1. *)
ShiftBackup ==
    /\ step = "shift" /\ index \in 1..(MaxBackups - 1)
    /\ dir' = Renamed(index, index + 1)
    /\ index' = index - 1
    /\ UNCHANGED <<content, whole, files, seq, file, open, step, acked, interrupted>>

(* The current log becomes backup 1. *)
RotateCurrent ==
    /\ step = "shift" /\ index = 0
    /\ dir' = Renamed(0, 1)
    /\ step' = "open"
    /\ UNCHANGED <<content, whole, files, seq, file, open, index, acked, interrupted>>

(* Mutant: a rename that fails is ignored like a remove that fails. *)
RenameErrorIgnored ==
    /\ "io" \in Faults /\ step = "shift" /\ index < MaxBackups /\ dir[index] # 0
    /\ \/ index > 0 /\ index' = index - 1 /\ UNCHANGED step
       \/ index = 0 /\ step' = "open" /\ UNCHANGED index
    /\ UNCHANGED <<disk, file, open, acked, interrupted>>

(* A rename fails: the current log is opened again and Write returns. *)
RenameFails ==
    /\ "io" \in Faults /\ step = "shift" /\ index < MaxBackups /\ dir[index] # 0
    /\ step' = "reopen"
    /\ interrupted' = TRUE
    /\ UNCHANGED <<disk, file, open, index, acked>>

Reopen ==
    /\ step = "reopen"
    /\ OpenPath
    /\ step' = "idle"
    /\ UNCHANGED <<content, whole, seq, index, acked, interrupted>>

OpenRotated ==
    /\ step = "open"
    /\ OpenPath
    /\ step' = "header"
    /\ UNCHANGED <<content, whole, seq, index, acked, interrupted>>

(* Either open fails: Write returns and the logger keeps the closed file. *)
OpenFails ==
    /\ "io" \in Faults /\ step \in {"open", "reopen"}
    /\ step' = "idle"
    /\ UNCHANGED <<disk, file, open, index, acked, interrupted>>

(* Mutant: the file is opened without O_APPEND and written from its start. *)
AppendAtStart ==
    /\ step \in {"header", "append"} /\ open /\ seq < MaxEvents
    /\ seq' = seq + 1
    /\ content' = [content EXCEPT ![file] = <<seq + 1>>]
    /\ step' = IF step = "header" THEN "headerRest" ELSE "appendRest"
    /\ UNCHANGED <<dir, whole, files, file, open, index, acked, interrupted>>

(* Mutant: a short write is taken for a whole one. *)
ShortWriteAccepted ==
    /\ step \in {"header", "append"} /\ open /\ seq < MaxEvents
    /\ seq' = seq + 1
    /\ content' = [content EXCEPT ![file] = Append(content[file], seq + 1)]
    /\ step' = IF step = "header" THEN "headerSync" ELSE "appendSync"
    /\ UNCHANGED <<dir, whole, files, file, open, index, acked, interrupted>>

(* The first bytes of the rotation event, or of the event, are appended. *)
AppendBegin ==
    /\ step \in {"header", "append"} /\ open /\ seq < MaxEvents
    /\ seq' = seq + 1
    /\ content' = [content EXCEPT ![file] = Append(content[file], seq + 1)]
    /\ step' = IF step = "header" THEN "headerRest" ELSE "appendRest"
    /\ UNCHANGED <<dir, whole, files, file, open, index, acked, interrupted>>

(* The write returns: everything was written.  A Close that has come in    *)
(* between waits for the write.                                            *)
AppendRest ==
    /\ step \in {"headerRest", "appendRest"}
    /\ whole' = whole \cup {seq}
    /\ step' = IF step = "headerRest" THEN "headerSync" ELSE "appendSync"
    /\ UNCHANGED <<dir, content, files, seq, file, open, index, acked, interrupted>>

(* The write fails before its first byte, or after some. *)
AppendFails ==
    /\ \/ step \in {"header", "append"} /\ (~open \/ "io" \in Faults)
       \/ step \in {"headerRest", "appendRest"} /\ "io" \in Faults
    /\ step' = "idle"
    /\ UNCHANGED <<disk, file, open, index, acked, interrupted>>

(* The sync after the rotation event goes on to the event itself; the one  *)
(* after the event ends Write with nil.                                    *)
Sync ==
    /\ step \in {"headerSync", "appendSync"} /\ open
    /\ step' = IF step = "headerSync" THEN "append" ELSE "idle"
    /\ acked' = IF step = "appendSync" THEN acked \cup {seq} ELSE acked
    /\ UNCHANGED <<disk, file, open, index, interrupted>>

SyncFails ==
    /\ step \in {"headerSync", "appendSync"} /\ (~open \/ "io" \in Faults)
    /\ step' = "idle"
    /\ UNCHANGED <<disk, file, open, index, acked, interrupted>>

(* Logger.Close closes whatever file the logger holds, without the mutex. *)
Close ==
    /\ "close" \in Faults /\ step # "down" /\ open
    /\ open' = FALSE
    /\ UNCHANGED <<disk, file, step, index, acked, interrupted>>

(* The process ends anywhere; what it wrote stays. *)
Crash ==
    /\ "crash" \in Faults /\ step # "down"
    /\ step' = "down" /\ open' = FALSE /\ file' = 0 /\ index' = 0
    /\ interrupted' = (interrupted \/ step = "shift")
    /\ UNCHANGED <<disk, acked>>

LogNext ==
    \/ New \/ WriteBegin \/ RotateClose \/ RemoveOldest \/ ShiftBackup
    \/ RotateCurrent \/ RenameFails \/ Reopen \/ OpenRotated \/ OpenFails
    \/ AppendBegin \/ AppendRest \/ AppendFails \/ Sync \/ SyncFails
    \/ Close \/ Crash

LogSpec == LogInit /\ [][LogNext]_logVars

-----------------------------------------------------------------------------
Lines(f) == {content[f][k] : k \in DOMAIN content[f]}

(* The lines in the files of the log. *)
Retained == UNION {Lines(dir[i]) : i \in {j \in Paths : dir[j] # 0}}

(* A line that parses: it was ended, and so was the line before it. *)
Intact(f, k) ==
    /\ content[f][k] \in whole
    /\ k > 1 => content[f][k - 1] \in whole

(* An acknowledged event is in the log until retention drops it together   *)
(* with everything older, through failed rotations, crashes, and a Close   *)
(* under a Write.                                                          *)
AcknowledgedIsKept ==
    \A e \in acked : e \in Retained \/ \A r \in Retained : e < r

(* Without an interrupted rotation, a file is dropped only when the log    *)
(* and all its backups are there (rotateIfNeeded keeps MaxBackups).        *)
TrimsOnlyWhenFull ==
    [][ ~interrupted /\ (\E i \in Paths : dir[i] # 0 /\ \A j \in Paths : dir'[j] # dir[i])
        => \A i \in Paths : dir[i] # 0 ]_logVars

(* docs/v0.1.0.md: "Event logging is ... durable": an acknowledged event   *)
(* that is in the log can be read from it.                                 *)
AcknowledgedIsReadable ==
    \A i \in Paths : dir[i] # 0 =>
        \A k \in DOMAIN content[dir[i]] :
            content[dir[i]][k] \in acked => Intact(dir[i], k)

-----------------------------------------------------------------------------
(* The lines at each of the paths, oldest first. *)
FileLines(d, c) ==
    [n \in 1..(MaxBackups + 1) |->
        LET f == d[MaxBackups + 1 - n] IN IF f = 0 THEN <<>> ELSE c[f]]

(* The first n of the sequences s[1], s[2], ... joined, for every n. *)
Prefixes(s) ==
    LET upto[n \in 0..Len(s)] == IF n = 0 THEN <<>> ELSE upto[n - 1] \o s[n] IN upto

(* The lines of the log. *)
AllLines == Prefixes(FileLines(dir, content))[MaxBackups + 1]

Abstract == INSTANCE AppendOnlyLog WITH log <- AllLines

(* docs/PRD.md: "Append-only JSONL event logging": through rotations, their *)
(* failures and crashes the files together are an append-only log from      *)
(* which only the oldest lines leave.                                       *)
ImplementsAppendOnlyLog == Abstract!Spec

=============================================================================
