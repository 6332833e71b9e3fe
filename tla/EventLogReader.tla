--------------------------- MODULE EventLogReader ---------------------------
(***************************************************************************)
(* ReadAll of internal/eventlog/read.go, run by another process             *)
(* (rpcpluginctl logs) while the writer of EventLog appends and rotates.    *)
(* The reader takes no lock: it lists the paths that exist, then opens and  *)
(* reads them one after the other.  A file it has opened stays the same     *)
(* file when the writer renames or removes it, and grows under it.          *)
(***************************************************************************)
EXTENDS EventLog, Functions

CONSTANTS
    Limits,   \* values of Filters.Limit; 0 is no limit
    Filters   \* for each value of the other filters, the lines that match

ASSUME ReadConstants == Limits \subseteq Nat /\ Filters \subseteq SUBSET Nat

VARIABLES
    rstep,     \* where ReadAll is
    rindex,    \* the loop of existingLogPaths; then the path opened last
    paths,     \* the paths still to be read
    rfile,     \* the file that is open
    rpos,      \* the next line in it
    cut,       \* whether the line before was taken without its newline
    events,    \* what ReadAll has collected, and in the end returns
    filter,    \* the lines that match the filters of this call
    limit,     \* its Limit, known when it is applied
    backward,  \* whether the result was reversed
    owed,      \* history: the lines begun when ReadAll was called
    moved      \* history: whether a file has moved since

readVars == <<rstep, rindex, paths, rfile, rpos, cut, events,
             filter, limit, backward, owed>>
vars == <<logVars, readVars, moved>>

ReadSteps == {"idle", "list", "open", "read", "finish", "done"}

(* The type of the log and of the reader. *)
TypeOK ==
    /\ LogTypeOK
    /\ rstep \in ReadSteps
    /\ rindex \in Paths
    /\ paths \in Seq(Paths)
    /\ rfile \in 0..files
    /\ rpos \in Nat \ {0}
    /\ cut \in BOOLEAN
    /\ events \in Seq(Nat)
    /\ filter \in Filters \cup {{}} /\ limit \in Limits \cup {0}
    /\ backward \in BOOLEAN
    /\ owed \in 0..seq
    /\ moved \in BOOLEAN

ReadInit ==
    /\ rstep = "idle" /\ rindex = 0 /\ paths = <<>> /\ rfile = 0 /\ rpos = 1 /\ cut = FALSE
    /\ events = <<>> /\ filter = {} /\ limit = 0 /\ backward = FALSE
    /\ owed = 0 /\ moved = FALSE

Init == LogInit /\ ReadInit

-----------------------------------------------------------------------------
(* ReadAll returns, with an error or because its result was used. *)
Reset ==
    /\ rstep' = "idle" /\ rindex' = 0 /\ paths' = <<>> /\ rfile' = 0
    /\ rpos' = 1 /\ cut' = FALSE /\ events' = <<>> /\ filter' = {} /\ limit' = 0
    /\ backward' = FALSE
    /\ owed' = 0 /\ moved' = FALSE

ReadBegin ==
    /\ rstep = "idle"
    /\ rstep' = "list" /\ rindex' = MaxBackups
    /\ filter' \in Filters
    /\ owed' = seq
    /\ UNCHANGED <<paths, rfile, rpos, cut, events, limit, backward, moved>>

(* Mutant: the newest file first. *)
ListedNewestFirst == IF dir[rindex] # 0 THEN <<rindex>> \o paths ELSE paths

(* Mutant: the loop starts below the oldest backup. *)
ListedBelowOldest ==
    IF dir[rindex] # 0 /\ rindex < MaxBackups THEN Append(paths, rindex) ELSE paths

(* The paths in which existingLogPaths looks for files, oldest first. *)
Listed == IF dir[rindex] # 0 THEN Append(paths, rindex) ELSE paths

(* One Stat of existingLogPaths; with no path at all ReadAll fails. *)
ReadList ==
    /\ rstep = "list"
    /\ \/ /\ rindex > 0 \/ Listed # <<>>
          /\ paths' = Listed
          /\ rstep' = IF rindex > 0 THEN "list" ELSE "open"
          /\ rindex' = IF rindex > 0 THEN rindex - 1 ELSE MaxBackups
          /\ UNCHANGED <<rfile, rpos, cut, events, filter, limit, backward, owed, moved>>
       \/ rindex = 0 /\ Listed = <<>> /\ Reset

(* readOne opens the next path; the file may be gone by now. *)
ReadOpen ==
    /\ rstep = "open" /\ paths # <<>>
    /\ \/ dir[Head(paths)] = 0 /\ Reset
       \/ /\ dir[Head(paths)] # 0
          /\ rfile' = dir[Head(paths)] /\ rpos' = 1 /\ cut' = FALSE
          /\ rindex' = Head(paths) /\ paths' = Tail(paths)
          /\ rstep' = "read"
          /\ UNCHANGED <<events, filter, limit, backward, owed, moved>>

(* match, on the events collected so far. *)
Matched(e) == IF e \in filter THEN Append(events, e) ELSE events

(* The reader is at the start of a line, or in the newline of one that it   *)
(* has already taken without.                                               *)
AtLine == rpos > 1 /\ ~cut => content[rfile][rpos - 1] \in whole
AtNewline == cut /\ content[rfile][rpos - 1] \in whole

NextPath == rstep' = IF paths = <<>> THEN "finish" ELSE "open"

(* readOne decodes a line. *)
ReadLine ==
    /\ rstep = "read" /\ rpos <= Len(content[rfile]) /\ AtLine /\ ~AtNewline
    /\ content[rfile][rpos] \in whole
    /\ events' = Matched(content[rfile][rpos])
    /\ rpos' = rpos + 1 /\ cut' = FALSE
    /\ UNCHANGED <<rstep, rindex, paths, rfile, filter, limit, backward, owed, moved>>

(* The last line of the file lacks its newline and decodes.  If it matches  *)
(* the file is done with; if not, readOne reads on.                         *)
ReadUnended ==
    /\ rstep = "read" /\ rpos = Len(content[rfile]) /\ AtLine /\ ~AtNewline
    /\ content[rfile][rpos] \notin whole
    /\ events' = Matched(content[rfile][rpos])
    /\ \/ content[rfile][rpos] \in filter /\ NextPath /\ UNCHANGED <<rpos, cut>>
       \/ content[rfile][rpos] \notin filter /\ rpos' = rpos + 1 /\ cut' = TRUE
          /\ UNCHANGED rstep
    /\ UNCHANGED <<rindex, paths, rfile, filter, limit, backward, owed, moved>>

(* What is read does not decode: a line cut short, alone or with another    *)
(* line run into it, or a newline alone.  ReadAll fails.                    *)
ReadCorrupt ==
    /\ rstep = "read"
    /\ \/ AtNewline
       \/ /\ rpos <= Len(content[rfile])
          /\ ~AtLine \/ content[rfile][rpos] \notin whole
    /\ Reset

(* The end of the file: on to the next one. *)
ReadEOF ==
    /\ rstep = "read" /\ rpos > Len(content[rfile]) /\ ~AtNewline
    /\ NextPath
    /\ UNCHANGED <<rindex, paths, rfile, rpos, cut, events, filter, limit, backward,
                   owed, moved>>

(* Reverse and Limit are applied, in this order. *)
Reversed(s) == [k \in DOMAIN s |-> s[Len(s) + 1 - k]]
Limited(s, n) == IF n > 0 /\ Len(s) > n THEN SubSeq(s, 1, n) ELSE s

ReadFinish ==
    /\ rstep = "finish"
    /\ backward' \in BOOLEAN
    /\ limit' \in Limits
    /\ events' = Limited(IF backward' THEN Reversed(events) ELSE events, limit')
    /\ rstep' = "done"
    /\ UNCHANGED <<rindex, paths, rfile, rpos, cut, filter, owed, moved>>

ReadReturn == rstep = "done" /\ Reset

ReadNext ==
    \/ ReadBegin \/ ReadList \/ ReadOpen \/ ReadLine \/ ReadUnended
    \/ ReadCorrupt \/ ReadEOF \/ ReadFinish \/ ReadReturn

Next ==
    \/ /\ LogNext /\ UNCHANGED readVars
       /\ moved' = (moved \/ (rstep # "idle" /\ dir' # dir))
    \/ ReadNext /\ UNCHANGED logVars

Spec == Init /\ [][Next]_vars

-----------------------------------------------------------------------------
Before(a, b) == IF backward THEN b < a ELSE a < b

(* ReadAll returns events in the order in which they were written, newest   *)
(* first when Reverse is set, and none twice, although the writer may       *)
(* rename every file while it reads.                                        *)
ReadInOrder ==
    \A j, k \in DOMAIN events : j < k => Before(events[j], events[k])

(* A read without limit during which no file moves returns every matching *)
(* event begun before it and acknowledged by its end, if it is kept.        *)
QuietReadIsComplete ==
    rstep = "done" /\ limit = 0 /\ ~moved =>
        {e \in acked \cap Retained \cap filter : e <= owed} \subseteq Range(events)

(* read.go, on ReadAll: "loads matching JSONL events from one log file and  *)
(* its rotated backups": it leaves no event out between two that it loads.  *)
ReadHasNoGaps ==
    rstep = "done" /\ limit = 0 =>
        \A e \in acked \cap filter :
            (\E a, b \in Range(events) : a < e /\ e < b) => e \in Range(events)

=============================================================================
