-------------------------------- MODULE Host --------------------------------
(***************************************************************************)
(* The daemon: cmd/rpcplugind/main.go with the kernel.Host of              *)
(* internal/kernel/host.go and the admin RPC of internal/adminrpc.         *)
(*                                                                         *)
(* The main goroutine starts all plugins, serves, and closes the host.     *)
(* Beside it run one MonitorLoop per plugin and the admin RPC handlers,    *)
(* which outlive the listener.  They meet in the managers, one per plugin; *)
(* PluginManager has the details of one, here a lifecycle operation takes  *)
(* the steps that another goroutine, or an exit of the daemon, can tell    *)
(* apart, and an RPC to a plugin is one step.                              *)
(***************************************************************************)
EXTENDS Integers

CONSTANTS
    N,        \* number of plugins; they are numbered in the order of their ids
    Admins,   \* admin RPC handlers
    MaxGen    \* bound: no process of a plugin is created for a higher generation

ASSUME HostConstants ==
    N \in Nat \ {0} /\ MaxGen \in [1..N -> Nat] /\ Admins \cap Int = {}

Plugins == 1..N
Main == 0                         \* the main goroutine; p is plugin p's monitor
Actors == {Main} \cup Plugins \cup Admins
Nobody == -1

VARIABLES
    main,      \* where run() is
    idx,       \* the plugin at which its loop over the plugins is
    started,   \* the plugins that StartAll has started before it failed
    ctx,       \* the context of NotifyContext
    adminSock, \* whether the admin socket exists
    gen,       \* each manager's State.GenerationID
    healthy,   \* ... State.Healthy
    client,    \* ... whether it has a client,
    cmd,       \* ... and a process that it supervises
    closed,    \* ... whether it was closed
    child,     \* whether a plugin process exists that was not waited for
    holder,    \* who holds its lifecycleMu
    stage,     \* where the operation of the holder is
    ask,       \* the lifecycle operation of each goroutine and its outcome
    mon,       \* where each MonitorLoop is
    handler,   \* where each admin RPC handler is
    req,       \* the request it handles, with the route it was sent on
    body,      \* the generation its answer speaks of
    pub        \* history: the generation published last

daemon   == <<main, idx, started, ctx, adminSock>>
managers == <<gen, healthy, client, cmd, closed, child, pub>>
locks    == <<holder, stage, ask>>
admin    == <<handler, req, body>>
vars     == <<daemon, managers, locks, mon, admin>>

NoAsk == [op |-> "none", plugin |-> 0, at |-> "none"]
NoReq == [kind |-> "none", plugin |-> 0, gen |-> 0, healthy |-> FALSE]

(* The types; generation ids stay within the bound, and one above it while  *)
(* a start is tried that must fail.                                         *)
TypeOK ==
    /\ main \in {"new", "start", "unwind", "supervise", "listen", "serve",
                 "close", "exited", "killed"}
    /\ idx \in 1..(N + 1) /\ started \in 0..N
    /\ ctx \in {"unset", "live", "done"} /\ adminSock \in BOOLEAN
    /\ gen \in [Plugins -> Nat] /\ pub \in [Plugins -> Nat]
    /\ \A p \in Plugins : pub[p] <= MaxGen[p] /\ gen[p] <= MaxGen[p] + 1
    /\ healthy \in [Plugins -> BOOLEAN] /\ client \in [Plugins -> BOOLEAN]
    /\ cmd \in [Plugins -> BOOLEAN] /\ closed \in [Plugins -> BOOLEAN]
    /\ child \in [Plugins -> BOOLEAN]
    /\ holder \in [Plugins -> Actors \cup {Nobody}]
    /\ stage \in [Plugins -> {"free", "stop", "reap", "stopped", "start", "spawn",
                             "boot"}]
    /\ ask \in [Actors -> [op : {"none", "start", "restart", "kill", "close"},
                           plugin : 0..N, at : {"none", "wait", "hold", "ok", "err"}]]
    /\ mon \in [Plugins -> {"off", "tick", "failed", "restart", "done"}]
    /\ handler \in [Admins -> {"off", "idle", "routed", "restart", "replied"}]
    /\ req \in [Admins -> [kind : {"none", "call", "restart"}, plugin : 0..N,
                           gen : Nat, healthy : BOOLEAN]]
    /\ body \in [Admins -> Nat]

Init ==
    /\ main = "new" /\ idx = 1 /\ started = 0 /\ ctx = "unset" /\ adminSock = FALSE
    /\ gen = [p \in Plugins |-> 0] /\ pub = [p \in Plugins |-> 0]
    /\ healthy = [p \in Plugins |-> FALSE] /\ client = [p \in Plugins |-> FALSE]
    /\ cmd = [p \in Plugins |-> FALSE] /\ closed = [p \in Plugins |-> FALSE]
    /\ child = [p \in Plugins |-> FALSE]
    /\ holder = [p \in Plugins |-> Nobody] /\ stage = [p \in Plugins |-> "free"]
    /\ ask = [a \in Actors |-> NoAsk]
    /\ mon = [p \in Plugins |-> "off"]
    /\ handler = [a \in Admins |-> "off"] /\ req = [a \in Admins |-> NoReq]
    /\ body = [a \in Admins |-> 0]

\* The process ends, and all its goroutines with it.
GoroutinesEnd ==
    /\ holder' = [p \in Plugins |-> Nobody] /\ stage' = [p \in Plugins |-> "free"]
    /\ ask' = [a \in Actors |-> NoAsk]
    /\ mon' = [p \in Plugins |-> "off"]
    /\ handler' = [a \in Admins |-> "off"] /\ req' = [a \in Admins |-> NoReq]
    /\ body' = [a \in Admins |-> 0]

Alive == main \notin {"exited", "killed"}

-----------------------------------------------------------------------------
(* Lifecycle operations of one manager. *)

\* A goroutine calls Start, Restart, Kill or Close and waits for lifecycleMu.
Request(a, p, o) ==
    /\ ask[a].at = "none"
    /\ ask' = [ask EXCEPT ![a] = [op |-> o, plugin |-> p, at |-> "wait"]]
    /\ UNCHANGED <<holder, stage>>

\* It takes note of the outcome.
Outcome(a, r) ==
    /\ ask[a].at = r
    /\ ask' = [ask EXCEPT ![a] = NoAsk]
    /\ UNCHANGED <<holder, stage>>

Acquire(a) ==
    /\ Alive /\ ask[a].at = "wait" /\ holder[ask[a].plugin] = Nobody
    /\ ask' = [ask EXCEPT ![a].at = "hold"]
    /\ holder' = [holder EXCEPT ![ask[a].plugin] = a]
    /\ stage' = [stage EXCEPT ![ask[a].plugin] =
                    IF ask[a].op = "start" THEN "start" ELSE "stop"]
    /\ UNCHANGED <<daemon, managers, mon, admin>>

Op(p) == ask[holder[p]].op

Proceed(p, next) ==
    /\ stage' = [stage EXCEPT ![p] = next]
    /\ UNCHANGED <<holder, ask>>

Return(p, r) ==
    /\ stage' = [stage EXCEPT ![p] = "free"]
    /\ holder' = [holder EXCEPT ![p] = Nobody]
    /\ ask' = [ask EXCEPT ![holder[p]].at = r]

\* A closed manager refuses Restart and Kill; closing it again does nothing.
StopRejected(p) ==
    /\ Alive /\ stage[p] = "stop" /\ closed[p]
    /\ Return(p, IF Op(p) = "close" THEN "ok" ELSE "err")
    /\ UNCHANGED <<daemon, managers, mon, admin>>

\* stopCurrent takes the client and the process out of the manager ...
StopFence(p) ==
    /\ Alive /\ stage[p] = "stop" /\ ~closed[p]
    /\ healthy' = [healthy EXCEPT ![p] = FALSE]
    /\ client' = [client EXCEPT ![p] = FALSE]
    /\ cmd' = [cmd EXCEPT ![p] = FALSE]
    /\ closed' = [closed EXCEPT ![p] = (Op(p) = "close")]
    /\ Proceed(p, IF cmd[p] THEN "reap" ELSE "stopped")
    /\ UNCHANGED <<daemon, gen, child, pub, mon, admin>>

\* ... and waits for that process; a Restart goes on to start the next one.
StopReap(p) ==
    /\ Alive /\ stage[p] \in {"reap", "stopped"}
    /\ child' = [child EXCEPT ![p] = child[p] /\ stage[p] = "stopped"]
    /\ \/ Op(p) = "restart" /\ Proceed(p, "start")
       \/ Op(p) # "restart" /\ Return(p, "ok")
    /\ UNCHANGED <<daemon, gen, healthy, client, cmd, closed, pub, mon, admin>>

\* startLocked.  It never meets a closed or a started manager here: StartAll
\* comes first and Restart has just stopped the plugin.
StartBegin(p) ==
    /\ Alive /\ stage[p] = "start" /\ ~closed[p] /\ ~cmd[p] /\ ~client[p]
    /\ gen' = [gen EXCEPT ![p] = gen[p] + 1]
    /\ healthy' = [healthy EXCEPT ![p] = FALSE]
    /\ Proceed(p, "spawn")
    /\ UNCHANGED <<daemon, client, cmd, closed, child, pub, mon, admin>>

StartSpawn(p) ==
    /\ Alive /\ stage[p] = "spawn" /\ gen[p] <= MaxGen[p]
    /\ child' = [child EXCEPT ![p] = TRUE]
    /\ Proceed(p, "boot")
    /\ UNCHANGED <<daemon, gen, healthy, client, cmd, closed, pub, mon, admin>>

\* Mutants: the generation id is kept, or the process is left running.
StartFailsKeepsId(p) ==
    /\ Alive /\ stage[p] \in {"spawn", "boot"}
    /\ child' = [child EXCEPT ![p] = FALSE]
    /\ Return(p, "err")
    /\ UNCHANGED <<daemon, gen, healthy, client, cmd, closed, pub, mon, admin>>
StartFailsKeepsChild(p) ==
    /\ Alive /\ stage[p] \in {"spawn", "boot"}
    /\ gen' = [gen EXCEPT ![p] = gen[p] - 1]
    /\ Return(p, "err")
    /\ UNCHANGED <<daemon, healthy, client, cmd, closed, child, pub, mon, admin>>

\* A start fails: the process, if any, is killed and waited for, and the
\* generation id is given back.
StartFails(p) ==
    /\ Alive /\ stage[p] \in {"spawn", "boot"}
    /\ child' = [child EXCEPT ![p] = FALSE]
    /\ gen' = [gen EXCEPT ![p] = gen[p] - 1]
    /\ Return(p, "err")
    /\ UNCHANGED <<daemon, healthy, client, cmd, closed, pub, mon, admin>>

StartPublish(p) ==
    /\ Alive /\ stage[p] = "boot"
    /\ healthy' = [healthy EXCEPT ![p] = TRUE]
    /\ client' = [client EXCEPT ![p] = TRUE]
    /\ cmd' = [cmd EXCEPT ![p] = TRUE]
    /\ pub' = [pub EXCEPT ![p] = gen[p]]
    /\ Return(p, "ok")
    /\ UNCHANGED <<daemon, gen, closed, child, mon, admin>>

ManagerStep(p) ==
    \/ StopRejected(p) \/ StopFence(p) \/ StopReap(p) \/ StartBegin(p)
    \/ StartSpawn(p) \/ StartFails(p) \/ StartPublish(p)

\* Mutant: the client is detached and the health left as it is.
PoisonKeepsHealth(p) ==
    /\ client' = [client EXCEPT ![p] = FALSE]
    /\ UNCHANGED <<healthy, gen, cmd, closed, child, pub>>

\* An RPC that breaks or times out detaches the client it was sent on.
Poison(p) ==
    /\ client' = [client EXCEPT ![p] = FALSE]
    /\ healthy' = [healthy EXCEPT ![p] = FALSE]
    /\ UNCHANGED <<gen, cmd, closed, child, pub>>

-----------------------------------------------------------------------------
(* The main goroutine: run of cmd/rpcplugind. *)

NewHost ==
    /\ main = "new"
    /\ main' = "start"
    /\ UNCHANGED <<idx, started, ctx, adminSock, managers, locks, mon, admin>>

\* NewHost fails at plugin k: when its manager cannot be made those before are
\* closed; an invalid configuration closes none, as with k = 1.
NewHostFails ==
    /\ main = "new"
    /\ \E k \in Plugins : closed' = [p \in Plugins |-> p < k]
    /\ main' = "exited"
    /\ UNCHANGED <<idx, started, ctx, adminSock, gen, healthy, client, cmd, child,
                   pub, locks, mon, admin>>

StartNext ==
    /\ main = "start" /\ Request(Main, idx, "start")
    /\ UNCHANGED <<daemon, managers, mon, admin>>

StartDone ==
    /\ main = "start" /\ Outcome(Main, "ok")
    /\ idx' = idx + 1
    /\ main' = IF idx = N THEN "supervise" ELSE "start"
    /\ UNCHANGED <<started, ctx, adminSock, managers, mon, admin>>

\* Mutant: the plugin started last is not killed.
StartFailedOffByOne ==
    /\ main = "start" /\ Outcome(Main, "err")
    /\ started' = IF idx > 1 THEN idx - 2 ELSE 0
    /\ main' = "unwind" /\ idx' = 1
    /\ UNCHANGED <<ctx, adminSock, managers, mon, admin>>

\* StartAll goes on to kill what it has started.
StartFailed ==
    /\ main = "start" /\ Outcome(Main, "err")
    /\ started' = idx - 1
    /\ main' = "unwind" /\ idx' = 1
    /\ UNCHANGED <<ctx, adminSock, managers, mon, admin>>

UnwindNext ==
    /\ main = "unwind" /\ idx <= started /\ Request(Main, idx, "kill")
    /\ UNCHANGED <<daemon, managers, mon, admin>>

UnwindDone ==
    /\ main = "unwind"
    /\ \/ /\ \E r \in {"ok", "err"} : Outcome(Main, r)
          /\ idx' = idx + 1 /\ UNCHANGED main
       \/ idx > started /\ main' = "close" /\ idx' = 1 /\ UNCHANGED locks
    /\ UNCHANGED <<started, ctx, adminSock, managers, mon, admin>>

\* NotifyContext and Host.MonitorLoop.
Supervise ==
    /\ main = "supervise"
    /\ ctx' = "live"
    /\ mon' = [p \in Plugins |-> "tick"]
    /\ main' = "listen"
    /\ UNCHANGED <<idx, started, adminSock, managers, locks, admin>>

Listen ==
    /\ main = "listen"
    /\ adminSock' = TRUE
    /\ main' = "serve"
    /\ UNCHANGED <<idx, started, ctx, managers, locks, mon, admin>>

\* serve returns and removes the socket, then the deferred cancel.
ServeReturns ==
    /\ adminSock' = FALSE /\ ctx' = "done"
    /\ main' = "close" /\ idx' = 1
    /\ UNCHANGED <<started, managers, locks, mon, admin>>

ListenFails == main = "listen" /\ ServeReturns

\* Mutant: nothing closes the listener when the context ends.
ServeKeepsAccepting == main = "serve" /\ ctx = "done" /\ UNCHANGED vars

\* The context is done, the listener is closed, and Accept fails.
ServeCancelled == main = "serve" /\ ctx = "done" /\ ServeReturns

AcceptFails == main = "serve" /\ ctx # "done" /\ ServeReturns

\* A first signal ends the context.
Signal ==
    /\ main \in {"listen", "serve"} /\ ctx = "live"
    /\ ctx' = "done"
    /\ UNCHANGED <<main, idx, started, adminSock, managers, locks, mon, admin>>

\* Before NotifyContext, and after its cancel, a signal ends the daemon.
SignalKills ==
    /\ main \in {"new", "start", "unwind", "supervise", "close"}
    /\ main' = "killed" /\ GoroutinesEnd
    /\ UNCHANGED <<idx, started, ctx, adminSock, managers>>

\* The deferred Host.Close; then run returns and the process exits.
CloseNext ==
    /\ main = "close" /\ idx <= N /\ Request(Main, idx, "close")
    /\ UNCHANGED <<daemon, managers, mon, admin>>

CloseDone ==
    /\ main = "close" /\ idx <= N /\ \E r \in {"ok", "err"} : Outcome(Main, r)
    /\ idx' = idx + 1
    /\ UNCHANGED <<main, started, ctx, adminSock, managers, mon, admin>>

Exit ==
    /\ main = "close" /\ idx > N
    /\ main' = "exited" /\ GoroutinesEnd
    /\ UNCHANGED <<idx, started, ctx, adminSock, managers>>

MainStep ==
    \/ NewHost \/ NewHostFails \/ StartNext \/ StartDone \/ StartFailed
    \/ UnwindNext \/ UnwindDone \/ Supervise \/ Listen \/ ListenFails
    \/ ServeCancelled \/ CloseNext \/ CloseDone \/ Exit

-----------------------------------------------------------------------------
(* MonitorLoop of one plugin.  When the ticker and the context are both     *)
(* ready the select takes either.                                           *)
MonitorTick(p) ==
    /\ Alive /\ mon[p] = "tick" /\ client[p] /\ ~closed[p]
    /\ \E h \in BOOLEAN : healthy' = [healthy EXCEPT ![p] = h]
    /\ UNCHANGED <<daemon, gen, client, cmd, closed, child, pub, locks, mon, admin>>

\* The heartbeat breaks, or there is an error without a broken transport.
MonitorHeartbeatFails(p) ==
    /\ Alive /\ mon[p] = "tick"
    /\ Poison(p) \/ UNCHANGED managers
    /\ mon' = [mon EXCEPT ![p] = "failed"]
    /\ UNCHANGED <<daemon, locks, admin>>

\* closedCh is closed when the stop within Close is over; a monitor that comes
\* earlier queues a Restart, which the closed manager will refuse.
ChannelClosed(p) == closed[p] /\ stage[p] \notin {"reap", "stopped"}

MonitorRecover(p) ==
    /\ Alive /\ mon[p] = "failed"
    /\ \/ /\ ~ChannelClosed(p)
          /\ Request(p, p, "restart")
          /\ mon' = [mon EXCEPT ![p] = "restart"]
       \/ /\ ChannelClosed(p)
          /\ mon' = [mon EXCEPT ![p] = "done"]
          /\ UNCHANGED locks
    /\ UNCHANGED <<daemon, managers, admin>>

MonitorRestarted(p) ==
    /\ Alive /\ mon[p] = "restart"
    /\ \E r \in {"ok", "err"} : Outcome(p, r)
    /\ mon' = [mon EXCEPT ![p] = "tick"]
    /\ UNCHANGED <<daemon, managers, admin>>

MonitorCancelled(p) ==
    /\ Alive /\ mon[p] = "tick" /\ ctx = "done"
    /\ mon' = [mon EXCEPT ![p] = "done"]
    /\ UNCHANGED <<daemon, managers, locks, admin>>

MonitorStep(p) ==
    \/ MonitorTick(p) \/ MonitorHeartbeatFails(p) \/ MonitorRecover(p)
    \/ MonitorRestarted(p) \/ MonitorCancelled(p)

-----------------------------------------------------------------------------
(* The admin RPC.  Connections are accepted while serve runs and are served *)
(* on for as long as the process lives.                                     *)
Connect(a) ==
    /\ main = "serve" /\ ctx # "done" /\ handler[a] = "off"
    /\ handler' = [handler EXCEPT ![a] = "idle"]
    /\ UNCHANGED <<daemon, managers, locks, mon, req, body>>

\* RouteTarget: the plugin's state is read, before the operation is done.
RouteTarget(a, p, kind) ==
    /\ Alive /\ handler[a] = "idle"
    /\ req' = [req EXCEPT ![a] = [kind |-> kind, plugin |-> p,
                                   gen |-> gen[p], healthy |-> healthy[p]]]
    /\ handler' = [handler EXCEPT ![a] = "routed"]
    /\ UNCHANGED <<daemon, managers, locks, mon, body>>

Finished(a) ==
    /\ handler' = [handler EXCEPT ![a] = "idle"]
    /\ req' = [req EXCEPT ![a] = NoReq]
    /\ body' = [body EXCEPT ![a] = 0]

Replied(a, g) ==
    /\ handler' = [handler EXCEPT ![a] = "replied"]
    /\ body' = [body EXCEPT ![a] = g]
    /\ UNCHANGED req

\* Echo and Heartbeat; the latter stores the health it is told.
CallReplied(a) ==
    LET p == req[a].plugin IN
    /\ Alive /\ handler[a] = "routed" /\ req[a].kind = "call"
    /\ client[p] /\ ~closed[p]
    /\ \E h \in BOOLEAN : healthy' = [healthy EXCEPT ![p] = h]
    /\ Replied(a, gen[p])
    /\ UNCHANGED <<daemon, gen, client, cmd, closed, child, pub, locks, mon>>

CallFails(a) ==
    /\ Alive /\ handler[a] = "routed" /\ req[a].kind = "call"
    /\ Poison(req[a].plugin) \/ UNCHANGED managers
    /\ Finished(a)
    /\ UNCHANGED <<daemon, locks, mon>>

\* RestartPlugin
RestartPlugin(a) ==
    /\ Alive /\ handler[a] = "routed" /\ req[a].kind = "restart"
    /\ Request(a, req[a].plugin, "restart")
    /\ handler' = [handler EXCEPT ![a] = "restart"]
    /\ UNCHANGED <<daemon, managers, mon, req, body>>

\* Mutant: the state in the answer is the one of the route.
RestartedRouteState(a) ==
    /\ Alive /\ handler[a] = "restart"
    /\ \/ Outcome(a, "ok") /\ Replied(a, req[a].gen)
       \/ Outcome(a, "err") /\ Finished(a)
    /\ UNCHANGED <<daemon, managers, mon>>

\* After a Restart without error the state is read, as it is by then.
Restarted(a) ==
    /\ Alive /\ handler[a] = "restart"
    /\ \/ Outcome(a, "ok") /\ Replied(a, gen[req[a].plugin])
       \/ Outcome(a, "err") /\ Finished(a)
    /\ UNCHANGED <<daemon, managers, mon>>

Answered(a) ==
    /\ Alive /\ handler[a] = "replied"
    /\ Finished(a)
    /\ UNCHANGED <<daemon, managers, locks, mon>>

AdminStep(a) ==
    \/ Connect(a) \/ CallReplied(a) \/ CallFails(a)
    \/ \E p \in Plugins, kind \in {"call", "restart"} : RouteTarget(a, p, kind)
    \/ RestartPlugin(a) \/ Restarted(a) \/ Answered(a)

-----------------------------------------------------------------------------
\* The process has ended and nothing happens any more.
Ended == ~Alive /\ UNCHANGED vars

Next ==
    \/ MainStep \/ AcceptFails \/ Signal \/ SignalKills \/ Ended
    \/ \E a \in Actors : Acquire(a)
    \/ \E p \in Plugins : ManagerStep(p) \/ MonitorStep(p)
    \/ \E a \in Admins : AdminStep(a)

\* The main goroutine runs, an operation that has the lock ends (dialling has
\* a deadline and every RPC a timeout), and lifecycleMu starves nobody.
Fairness ==
    /\ WF_vars(MainStep)
    /\ \A p \in Plugins : WF_vars(ManagerStep(p))
    /\ SF_vars(Acquire(Main))

Spec == Init /\ [][Next]_vars /\ Fairness

-----------------------------------------------------------------------------
(* docs/v0.1.0.md: "Cleanup and shutdown remove stale runtime artifacts".   *)
(* When run returns, whichever way, no plugin process is left behind and no *)
(* admin socket, although monitors and admin RPCs may be restarting plugins *)
(* until the very end.                                                      *)
ExitLeavesNothing ==
    main = "exited" => ~adminSock /\ \A p \in Plugins : ~child[p]

(* StartAll starts every plugin or leaves none running. *)
StartAllOrNothing ==
    /\ main = "supervise" => \A p \in Plugins : client[p]
    /\ main = "close" /\ ctx = "unset" => \A p \in Plugins : ~child[p]

(* The answer to a routed request never speaks of an older generation than  *)
(* the route it was sent on, and that of a RestartPlugin sent to a healthy  *)
(* plugin speaks of a later one, in spite of restarts by others, failed     *)
(* starts and the ids they give back.                                       *)
AnswerNotOlder ==
    \A a \in Admins : handler[a] = "replied" =>
        /\ body[a] >= req[a].gen
        /\ req[a].kind = "restart" /\ req[a].healthy => body[a] > req[a].gen

Trust(p) ==
    INSTANCE TrustedGeneration WITH trusted <- client[p], generation <- pub[p],
                                    healthy <- healthy[p], closed <- closed[p]

(* Each of the managers keeps the promise of TrustedGeneration, which       *)
(* PluginManager implements.                                                *)
ManagersKeepTrust ==
    [][\A p \in Plugins : Trust(p)!Next \/ UNCHANGED Trust(p)!vars]_vars

(* Once a signal has ended the context the daemon exits: Host.Close gets    *)
(* every lifecycleMu although monitors and admin RPCs still ask for it.     *)
ShutdownCompletes == ctx = "done" ~> ~Alive

=============================================================================
