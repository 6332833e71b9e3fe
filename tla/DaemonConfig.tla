---------------------------- MODULE DaemonConfig ----------------------------
(***************************************************************************)
(* What the daemon is told to run and where (parseDaemonConfig in          *)
(* cmd/rpcplugind/main.go), how NewHost builds the managers of it one by   *)
(* one (internal/kernel/host.go, with New of manager.go), and how the      *)
(* command line finds the logs they write (resolveLogPath in               *)
(* cmd/rpcpluginctl/main.go) while they are rotated, over several launches *)
(* on the same runtime directories: a launch never removes what an earlier *)
(* one left there.                                                         *)
(***************************************************************************)
EXTENDS Naturals, Sequences, FiniteSetsExt

CONSTANTS
    Dirs,        \* runtime directories; DefaultDir is the flag's default
    DefaultDir,
    Ids,         \* the ids ValidatePluginID accepts
    Commands,    \* command lines with the configuration files they name
    MaxLaunches  \* bound: daemons launched one after the other

ASSUME DaemonConstants == DefaultDir \in Dirs /\ "" \notin Ids /\ MaxLaunches \in Nat

VARIABLES
    phase,       \* of the daemon: "off", "new", "starting" or "up"
    told,        \* the command line and the file of the running daemon, {} if none
    dir,         \* HostConfig.RuntimeDir
    todo,        \* plugins NewHost has not reached
    managers,    \* the ids in Host.managers
    logs,        \* by runtime directory, the plugin ids that have events.jsonl
    rotated,     \* managers whose log a rotation has renamed and not opened again
    launches,
    asks,        \* resolveLogPath: "no", "scan", "root" or "answered"
    left,        \* plugin directories it has not looked into
    found,       \* pluginLogs: the ids whose log it has found
    missed,      \* history: ids it looked for while their log was renamed away
    answer       \* the id whose log it returned, "" for rootLog, {} for an error

readerVars == <<asks, left, found, missed, answer>>
daemonVars == <<phase, told, dir, todo, managers, logs, rotated, launches, readerVars>>

-----------------------------------------------------------------------------
\* A command line: the flags given (flags.Visit), the value every flag has, and
\* the file.  list is -plugins, taken apart; spec is -plugin-id with -plugin.
\* "" stands for every id ValidatePluginID refuses; a path "" is missing, "noexec"
\* is no program.  A duration in the file is "", "ok" or "bad" (time.ParseDuration
\* refuses it).
ValidatePluginID(id) == id \in Ids
Specs == [id : Ids \cup {""}, path : {"", "exe", "noexec"}]

chooseString(explicit, flag, flagValue, fileValue, fallback) ==
    IF flag \in explicit THEN flagValue
    ELSE IF fileValue # "" THEN fileValue ELSE fallback

\* chooseDuration for one of the three timeouts: whether there is a value.
chooseDuration(explicit, flag, fileValue) == flag \in explicit \/ fileValue # "bad"

\* A command line as flags.Parse leaves it: a flag that is not given has its
\* default, which is "" for -plugins and -plugin (lines 67 and 68 of main.go), and
\* a runtime directory that is named is one of Dirs.
ASSUME ParsedCommands ==
    \A c \in Commands :
        /\ c.list \in Seq(Specs) /\ c.file.plugins \in Seq(Specs) /\ c.spec \in Specs
        /\ "plugins" \notin c.explicit => c.list = <<>>
        /\ "plugin" \notin c.explicit => c.spec.path = ""
        /\ {c.dir, c.file.dir} \subseteq Dirs \cup {""}

\* Plugin configurations, or none: {} stands for the error.
ParseAll(specs) ==
    IF \A i \in DOMAIN specs : ValidatePluginID(specs[i].id) /\ specs[i].path # ""
    THEN {specs} ELSE {}
parsePlugins(list, spec) == IF list # <<>> THEN ParseAll(list) ELSE ParseAll(<<spec>>)

\* The file's plugins win over -plugin.
FileFirst(c) ==
    IF "plugins" \in c.explicit THEN parsePlugins(c.list, c.spec)
    ELSE IF c.file.plugins # <<>> THEN ParseAll(c.file.plugins)
    ELSE parsePlugins(<<>>, c.spec)
resolvePlugins(c) ==
    IF "plugins" \in c.explicit THEN parsePlugins(c.list, c.spec)
    ELSE IF c.explicit \cap {"plugin", "plugin-id"} # {} THEN parsePlugins(<<>>, c.spec)
    ELSE IF c.file.plugins # <<>> THEN ParseAll(c.file.plugins)
    ELSE parsePlugins(c.list, c.spec)

runtimeDir(c) ==
    chooseString(c.explicit, "runtime-dir", c.dir, c.file.dir, DefaultDir)

\* parseDaemonConfig: the plugins of a configuration that can be used.
parseDaemonConfig(c) ==
    IF c.file.ok /\ chooseDuration(c.explicit, "dial-timeout", c.file.timeout)
    THEN resolvePlugins(c) ELSE {}

\* What resolveLogPath returns once it has looked into every directory: the one
\* log it has found, rootLog when there is none, or the error that asks for an id.
FirstLog(ids) == IF ids = {} THEN {""} ELSE {CHOOSE id \in ids : TRUE}
resolveLogPath(ids) ==
    CASE Cardinality(ids) = 1 -> ids
      [] Cardinality(ids) > 1 -> {}
      [] OTHER -> {""}

-----------------------------------------------------------------------------
DaemonInit ==
    /\ phase = "off" /\ told = {} /\ dir = DefaultDir
    /\ todo = <<>> /\ managers = {}
    /\ logs = [d \in Dirs |-> {}] /\ rotated = {} /\ launches = 0
    /\ asks = "no" /\ left = {} /\ found = {} /\ missed = {} /\ answer = {}

\* run up to the loop of NewHost, which wants a runtime directory and a plugin; a
\* configuration that cannot be used ends it with status 1.
Launch ==
    /\ phase = "off" /\ launches < MaxLaunches /\ launches' = launches + 1
    /\ \E c \in Commands :
          \/ /\ parseDaemonConfig(c) = {} \/ runtimeDir(c) = ""
             /\ UNCHANGED <<phase, told, dir, todo>>
          \/ /\ runtimeDir(c) # ""
             /\ todo' \in parseDaemonConfig(c)
             /\ phase' = "new" /\ told' = {c} /\ dir' = runtimeDir(c)
    /\ UNCHANGED <<managers, logs, rotated, readerVars>>

\* The process ends; the logs stay as they are, one that a rotation has renamed
\* away too.  A command that was looking for a log is not followed any further.
GivesUp ==
    /\ phase' = "off" /\ told' = {} /\ dir' = DefaultDir
    /\ todo' = <<>> /\ managers' = {} /\ rotated' = {} /\ UNCHANGED launches
    /\ asks' = "no" /\ left' = {} /\ found' = {} /\ missed' = {} /\ answer' = {}

\* One turn of the loop of NewHost: it gives up (the id is taken, or New fails
\* before it has made the log: no program at the path, no directory, no file), or
\* there is one manager more.
NewManager ==
    /\ phase = "new" /\ todo # <<>>
    /\ LET plugin == Head(todo) IN
       \/ GivesUp /\ UNCHANGED logs
       \/ /\ plugin.id \notin managers /\ plugin.path = "exe"
          /\ managers' = managers \cup {plugin.id}
          /\ logs' = [logs EXCEPT ![dir] = @ \cup {plugin.id}]
          /\ todo' = Tail(todo)
          /\ UNCHANGED <<phase, told, dir, rotated, launches, readerVars>>

\* NewHost returns, and StartAll and Serve run.
HostBuilt ==
    /\ phase = "new" /\ todo = <<>> /\ phase' = "starting"
    /\ UNCHANGED <<told, dir, todo, managers, logs, rotated, launches, readerVars>>
StartAll ==
    /\ phase = "starting" /\ phase' = "up"
    /\ UNCHANGED <<told, dir, todo, managers, logs, rotated, launches, readerVars>>

\* StartAll or Serve fails, a signal arrives, or the process is killed.
DaemonEnds == phase \in {"new", "starting", "up"} /\ GivesUp /\ UNCHANGED logs

\* A write of a manager rotates its log: the current file gets the name of the
\* first backup, and a new one is opened.  When that fails, it is never opened.
RotateRename(id) ==
    /\ phase # "off" /\ id \in managers \cap logs[dir]
    /\ logs' = [logs EXCEPT ![dir] = @ \ {id}]
    /\ rotated' = rotated \cup {id}
    /\ UNCHANGED <<phase, told, dir, todo, managers, launches, readerVars>>
RotateOpen(id) ==
    /\ phase # "off" /\ id \in rotated
    /\ logs' = [logs EXCEPT ![dir] = @ \cup {id}]
    /\ rotated' = rotated \ {id}
    /\ UNCHANGED <<phase, told, dir, todo, managers, launches, readerVars>>

-----------------------------------------------------------------------------
\* `rpcpluginctl logs` without -plugin-id, on the directory of a daemon that is
\* up.  A log in the runtime directory itself wins: the daemon of this directory
\* writes none, but one whose plugin has this directory as its own does, and so may
\* an operator.  Otherwise the directory is read, or cannot be.  A subdirectory
\* with neither a log nor a manager will have none when it is looked into.
ResolveBegin ==
    /\ phase = "up" /\ asks # "scan"
    /\ found' = {} /\ missed' = {}
    /\ \/ asks' = "root" /\ left' = {} /\ answer' = {""}
       \/ asks' = "answered" /\ left' = {} /\ answer' = {}
       \/ asks' = "scan" /\ left' = logs[dir] \cup managers /\ answer' = {}
    /\ UNCHANGED <<phase, told, dir, todo, managers, logs, rotated, launches>>

\* os.Stat of one candidate.
LookInto(id) ==
    /\ asks = "scan" /\ id \in left /\ left' = left \ {id}
    /\ found' = found \cup ({id} \cap logs[dir])
    /\ missed' = missed \cup ({id} \cap rotated)
    /\ UNCHANGED <<phase, told, dir, todo, managers, logs, rotated, launches, asks, answer>>

ResolveEnd ==
    /\ asks = "scan" /\ left = {} /\ asks' = "answered"
    /\ answer' = resolveLogPath(found)
    /\ UNCHANGED <<phase, told, dir, todo, managers, logs, rotated, launches,
                   left, found, missed>>

DaemonNext ==
    \/ Launch \/ NewManager \/ HostBuilt \/ StartAll \/ DaemonEnds
    \/ ResolveBegin \/ ResolveEnd
    \/ \E id \in Ids : RotateRename(id) \/ RotateOpen(id) \/ LookInto(id)

DaemonSpec == DaemonInit /\ [][DaemonNext]_daemonVars

-----------------------------------------------------------------------------
\* Reference: where a command line, read from the strongest source to the
\* weakest, says which plugins to run.
Sources(c) ==
    <<[given |-> "plugins" \in c.explicit /\ c.list # <<>>, plugins |-> c.list],
      [given |-> c.explicit \cap {"plugins", "plugin", "plugin-id"} # {}, plugins |-> <<c.spec>>],
      [given |-> TRUE, plugins |-> c.file.plugins]>>
Named(c) == Sources(c)[Min({i \in 1..3 : Sources(c)[i].given})].plugins

\* How far NewHost has come with the plugins named: the managers are the first of
\* them, one for each, and todo is the rest.
Reached(c) ==
    /\ Named(c) \in Seq(Specs) /\ Named(c) # <<>>
    /\ todo \in Seq(Specs)
    /\ Len(todo) + Cardinality(managers) = Len(Named(c))
    /\ managers = {Named(c)[i].id : i \in 1..Cardinality(managers)}
    /\ \A i \in 1..Len(todo) : todo[i] = Named(c)[Cardinality(managers) + i]

\* The daemon runs all of the plugins its strongest source names, once each, or
\* none: not even one that New or a duplicate id stops half way serves the rest.
HostRunsNamed ==
    phase \in {"starting", "up"} =>
        \A c \in told :
            /\ managers = {Named(c)[i].id : i \in DOMAIN Named(c)}
            /\ Cardinality(managers) = Len(Named(c)) /\ managers # {}

\* `rpcpluginctl logs` without -plugin-id, on the runtime directory of a daemon
\* that is up and with no log in that directory itself, returns the log of a plugin
\* the daemon runs or an error: never the log an earlier daemon left behind, and
\* never rootLog, which does not exist.  It may do either only if it looked for the
\* log of every one of those plugins between the rename and the open of a rotation.
DefaultLogIsCurrent ==
    asks = "answered" /\ ~(managers \subseteq missed) => answer \subseteq managers

\* What a daemon keeps true while NewHost builds its managers and after that:
\* each manager has its log in the runtime directory, unless that is being rotated,
\* and a search for a log has yet to look for it, has found it or has missed it
\* because of a rotation.
DaemonInv ==
    /\ phase \in {"off", "new", "starting", "up"}
    /\ dir \in Dirs /\ DOMAIN logs = Dirs
    /\ IsFiniteSet(managers) /\ managers \subseteq logs[dir] \cup rotated
    /\ phase = "off" => told = {} /\ managers = {}
    /\ phase # "off" => \E c \in Commands : told = {c}
    /\ phase \in {"starting", "up"} => todo = <<>>
    /\ \A c \in told : Reached(c)
    /\ asks \in {"no", "scan", "root", "answered"}
    /\ asks # "no" => phase = "up"
    /\ IsFiniteSet(found)
    /\ asks = "scan" => managers \subseteq left \cup found \cup missed
    /\ DefaultLogIsCurrent
=============================================================================
