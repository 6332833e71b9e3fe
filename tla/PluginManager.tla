--------------------------- MODULE PluginManager ---------------------------
(***************************************************************************)
(* One kernel.Manager (internal/kernel/manager.go) with its MonitorLoop    *)
(* (internal/kernel/monitor.go), the goroutines that call it, and the      *)
(* plugin processes it spawns.                                             *)
(*                                                                         *)
(* A plugin process, its exec.Cmd, its PID and the rpcClient dialled to it *)
(* are one-to-one for the whole life of a manager, so all four are named   *)
(* by an incarnation number in 1..MaxStarts, in the order of cmd.Start; 0  *)
(* stands for nil.  A GenerationID is not such a name: rollbackGeneration  *)
(* hands the id of a failed start to the next one.                         *)
(*                                                                         *)
(* Every critical section of m.mu is one step.  Work done outside m.mu is  *)
(* split wherever another goroutine or a plugin process can see the        *)
(* difference.                                                             *)
(***************************************************************************)
EXTENDS Integers

CONSTANTS
    Workers,     \* goroutines that call Start, Restart, Kill, Close, Echo...
    Monitor,     \* the goroutine that runs MonitorLoop
    None,        \* nobody holds lifecycleMu
    MaxStarts,   \* bound: processes cmd.Start can create
    MaxEpoch,    \* bound: no Restart or Kill is requested from this rpcEpoch on
    StopFaults   \* whether Wait or SIGKILL may fail in stopCurrent

ASSUME ConstantsAssumption ==
    /\ Monitor \notin Workers
    /\ None \notin Workers \cup {Monitor}
    /\ MaxStarts \in Nat
    /\ MaxEpoch \in Nat
    /\ StopFaults \in BOOLEAN

Threads == Workers \cup {Monitor}
Incarnations == 1..MaxStarts

VARIABLES
    state,       \* Manager.state: GenerationID, Healthy, PID, and whether
                 \*   Capabilities and SocketPath are set
    cmd,         \* Manager.cmd
    client,      \* Manager.client
    rpcEpoch,    \* Manager.rpcEpoch
    closed,      \* Manager.closed
    closedCh,    \* Manager.closedCh has been closed
    lifecycleMu, \* holder of Manager.lifecycleMu
    stage,       \* where the holder of lifecycleMu stands
    lc,          \* its locals: client, cmd and generation
    pc,          \* where each goroutine stands
    op,          \* the lifecycle operation it has asked for
    call,        \* the RPC it has in flight: method, client, generation, epoch
    proc,        \* plugin processes, by incarnation
    procGen,     \* the generation each one was given in its environment
    conn,        \* whether the kernel's end of its connection is open
    starts,      \* processes created so far
    sockFile,    \* incarnation that bound the socket path, 0 when absent
    authFile,    \* whether the auth token file exists
    lastPub      \* history: the last incarnation startLocked published

mgrVars  == <<state, cmd, client, rpcEpoch, closed, closedCh>>
lcVars   == <<lifecycleMu, stage, lc>>
thrVars  == <<pc, op, call>>
procVars == <<proc, procGen, conn, starts>>
fileVars == <<sockFile, authFile>>
vars     == <<mgrVars, lcVars, thrVars, procVars, fileVars, lastPub>>

-----------------------------------------------------------------------------
Ops     == {"start", "restart", "kill", "close"}
Methods == {"Heartbeat", "Work"}   \* Work: Echo, Sleep and Crash

\* Program counters.  "idle": between two calls of the manager.  From "call" to
\* "detach" an RPC is in flight; "op" is where the holder of lifecycleMu is.
PCs == {"idle", "call", "replied", "apply", "poison", "detach",
        "hbfail", "wait", "op", "done"}
StopStages  == {"shutdown", "reap", "cleanup", "finish", "purge"}
BootStages  == {"dial", "peercred", "auth", "caps", "publish", "unwind"}
StartStages == {"token", "spawn", "rollback", "discard"} \cup BootStages
Stages      == {"free", "enter", "start"} \cup StopStages \cup StartStages

\* A process is created by cmd.Start, serves once it has bound its socket,
\* and is a zombie from its exit until the manager has waited for it.
ProcStates == {"none", "spawned", "serving", "exited", "reaped"}
Running(n) == proc[n] \in {"spawned", "serving"}
Unreaped(n) == proc[n] \in {"spawned", "serving", "exited"}

NoCall == [method |-> "Work", client |-> 0, gen |-> 0, epoch |-> 0]

Free(t) == pc[t] = "idle"
InCall(t) == pc[t] \in {"call", "replied", "apply", "poison", "detach"}

\* The State literal of lines 214-218 and 1202-1205, and of 470-477.
ResetState(gen, socketPath) ==
    [GenerationID |-> gen, Healthy |-> FALSE, PID |-> 0,
     Capabilities |-> FALSE, SocketPath |-> socketPath]
PublishedState(gen, pid) ==
    [GenerationID |-> gen, Healthy |-> TRUE, PID |-> pid,
     Capabilities |-> TRUE, SocketPath |-> TRUE]

\* The assignments m.state.Healthy = healthy and, in stopCurrent, m.state.PID = 0.
WithHealth(s, healthy) ==
    [GenerationID |-> s.GenerationID, Healthy |-> healthy, PID |-> s.PID,
     Capabilities |-> s.Capabilities, SocketPath |-> s.SocketPath]
Stopped(s) ==
    [GenerationID |-> s.GenerationID, Healthy |-> FALSE, PID |-> 0,
     Capabilities |-> s.Capabilities, SocketPath |-> s.SocketPath]
Locals(c, p, gen) == [client |-> c, proc |-> p, gen |-> gen]
NoLocals == Locals(0, 0, 0)

Init ==
    /\ state = ResetState(0, FALSE)
    /\ cmd = 0 /\ client = 0 /\ rpcEpoch = 0
    /\ closed = FALSE /\ closedCh = FALSE
    /\ lifecycleMu = None /\ stage = "free" /\ lc = NoLocals
    /\ pc = [t \in Threads |-> "idle"]
    /\ op = [t \in Threads |-> "none"]
    /\ call = [t \in Threads |-> NoCall]
    /\ proc = [n \in Incarnations |-> "none"]
    /\ procGen = [n \in Incarnations |-> 0]
    /\ conn = [n \in Incarnations |-> FALSE]
    /\ starts = 0
    /\ sockFile = 0 /\ authFile = FALSE
    /\ lastPub = 0

-----------------------------------------------------------------------------
(* Helpers shared by the operations. *)

Goto(t, label) == pc' = [pc EXCEPT ![t] = label]

\* An RPC returns, its locals die.  On an error the monitor goes on to its
\* recovery branch, any other caller just gets the error.
ReturnCall(t, label) == Goto(t, label) /\ call' = [call EXCEPT ![t] = NoCall]
ReturnOK(t)    == ReturnCall(t, "idle")
ReturnError(t) == ReturnCall(t, IF t = Monitor THEN "hbfail" ELSE "idle")

\* The deferred lifecycleMu.Unlock and the return of the operation.
Return ==
    /\ Goto(lifecycleMu, "idle")
    /\ op' = [op EXCEPT ![lifecycleMu] = "none"]
    /\ lifecycleMu' = None
    /\ stage' = "free"
    /\ lc' = NoLocals
    /\ UNCHANGED call

Proceed(next) ==
    /\ stage' = next
    /\ UNCHANGED <<lifecycleMu, thrVars>>

\* Mutants: the rollback takes two steps back, or none.
RolledBackTwice(gen) ==
    IF state.GenerationID = gen THEN ResetState(gen - 2, FALSE) ELSE state
NotRolledBack(gen) ==
    IF state.GenerationID = gen THEN ResetState(gen, FALSE) ELSE state

\* rollbackGeneration
RolledBack(gen) ==
    IF state.GenerationID = gen THEN ResetState(gen - 1, FALSE) ELSE state

\* Mutant: only the generation in the state owns the artifacts.
OwnsByGenerationOnly(gen) == state.GenerationID = gen

\* cleanupOwnsRuntimeArtifacts
OwnsRuntimeArtifacts(gen) ==
    \/ state.GenerationID = gen
    \/ state.PID = 0 /\ ~state.SocketPath

\* Mutant: the token file is forgotten.
RemoveSocketOnly == sockFile' = 0 /\ UNCHANGED authFile

RemoveArtifacts == sockFile' = 0 /\ authFile' = FALSE

\* Mutant: generation 0 has no privilege.
CleanupOwnedOnly(gen) ==
    IF OwnsRuntimeArtifacts(gen) THEN RemoveArtifacts ELSE UNCHANGED fileVars

\* cleanupRuntimeArtifacts
CleanupRuntimeArtifacts(gen) ==
    IF gen # 0 /\ ~OwnsRuntimeArtifacts(gen)
      THEN UNCHANGED fileVars
      ELSE RemoveArtifacts

\* Mutant: the generations are not compared.
StaleByEpochOnly(k) ==
    k.epoch # 0 /\ (closed \/ client # k.client \/ rpcEpoch # k.epoch)

\* The fence of Manager.call, line 854: an epoch of 0 marks the calls made by
\* the lifecycle operations themselves.
StaleResponse(k) ==
    \/ k.gen # state.GenerationID
    \/ k.epoch # 0 /\ (closed \/ client # k.client \/ rpcEpoch # k.epoch)

\* Mutant: the client and the epoch are not compared.
StaleByGenerationOnly(k) == closed \/ state.GenerationID # k.gen

\* The second fence, of Heartbeat, line 539.
StaleHeartbeat(k) ==
    closed \/ client # k.client \/ rpcEpoch # k.epoch
           \/ state.GenerationID # k.gen

-----------------------------------------------------------------------------
(* RPCs: Heartbeat, and Echo, Sleep and Crash, which differ only in what the *)
(* plugin does.                                                              *)

\* The snapshot under RLock; a closed manager or a nil client is an error.
BeginCall(t, m) ==
    /\ Free(t)
    /\ ~closed /\ client # 0
    /\ call' = [call EXCEPT ![t] = [method |-> m, client |-> client,
                  gen |-> state.GenerationID, epoch |-> rpcEpoch]]
    /\ Goto(t, "call")
    /\ UNCHANGED <<mgrVars, lcVars, op, procVars, fileVars, lastPub>>

\* The plugin writes its reply to the connection.
CallReply(t) ==
    /\ pc[t] = "call"
    /\ conn[call[t].client] /\ proc[call[t].client] = "serving"
    /\ Goto(t, "replied")
    /\ UNCHANGED <<mgrVars, lcVars, op, call, procVars, fileVars, lastPub>>

\* The plugin answers with an error, which is no transport failure.
CallServerError(t) ==
    /\ pc[t] = "call"
    /\ conn[call[t].client] /\ proc[call[t].client] = "serving"
    /\ ReturnError(t)
    /\ UNCHANGED <<mgrVars, lcVars, op, procVars, fileVars, lastPub>>

\* Mutant: no timeout, only a broken connection ends a call.
CallBrokenOnly(t) ==
    /\ pc[t] \in {"call", "replied"}
    /\ ~conn[call[t].client] \/ proc[call[t].client] # "serving"
    /\ Goto(t, "poison")
    /\ UNCHANGED <<mgrVars, lcVars, op, call, procVars, fileVars, lastPub>>

\* CallTimeout expires, or the connection breaks; a reply already on its way
\* may lose the select to either.
CallBroken(t) ==
    /\ pc[t] \in {"call", "replied"}
    /\ Goto(t, "poison")
    /\ UNCHANGED <<mgrVars, lcVars, op, call, procVars, fileVars, lastPub>>

\* Mutant: the poisoned client is marked unhealthy but stays attached.
PoisonMark(t) ==
    /\ pc[t] = "poison"
    /\ state' = WithHealth(state, state.Healthy /\ client # call[t].client)
    /\ Goto(t, "detach")
    /\ UNCHANGED <<client, cmd, rpcEpoch, closed, closedCh, lcVars, op, call,
                   procVars, fileVars, lastPub>>

\* poisonClient, its critical section.
PoisonDetach(t) ==
    /\ pc[t] = "poison"
    /\ IF client = call[t].client
         THEN client' = 0 /\ state' = WithHealth(state, FALSE)
         ELSE UNCHANGED <<client, state>>
    /\ Goto(t, "detach")
    /\ UNCHANGED <<cmd, rpcEpoch, closed, closedCh, lcVars, op, call, procVars,
                   fileVars, lastPub>>

\* poisonClient closes the connection and call returns its error.
PoisonClose(t) ==
    /\ pc[t] = "detach"
    /\ conn' = [conn EXCEPT ![call[t].client] = FALSE]
    /\ ReturnError(t)
    /\ UNCHANGED <<mgrVars, lcVars, op, proc, procGen, starts, fileVars, lastPub>>

\* The result is read and the fence of Manager.call decides.
CallFence(t) ==
    /\ pc[t] = "replied"
    /\ IF StaleResponse(call[t]) THEN ReturnError(t)
       ELSE IF call[t].method = "Heartbeat" THEN Goto(t, "apply") /\ UNCHANGED call
       ELSE ReturnOK(t)
    /\ UNCHANGED <<mgrVars, lcVars, op, procVars, fileVars, lastPub>>

\* Heartbeat stores the reported health, unless its own fence says stale.
ApplyHeartbeat(t, healthy) ==
    /\ pc[t] = "apply"
    /\ IF StaleHeartbeat(call[t])
         THEN ReturnError(t) /\ UNCHANGED state
         ELSE ReturnOK(t) /\ state' = WithHealth(state, healthy)
    /\ UNCHANGED <<cmd, client, rpcEpoch, closed, closedCh, lcVars, op,
                   procVars, fileVars, lastPub>>

-----------------------------------------------------------------------------
(* Start, Restart, Kill and Close take lifecycleMu for their whole length.  *)

\* A goroutine calls a lifecycle operation and queues on lifecycleMu.
Request(t, o) ==
    /\ Free(t)
    /\ o \in {"restart", "kill"} => rpcEpoch < MaxEpoch
    /\ op' = [op EXCEPT ![t] = o]
    /\ Goto(t, "wait")
    /\ UNCHANGED <<mgrVars, lcVars, call, procVars, fileVars, lastPub>>

Acquire(t) ==
    /\ pc[t] = "wait" /\ lifecycleMu = None
    /\ lifecycleMu' = t
    /\ stage' = IF op[t] = "start" THEN "start" ELSE "enter"
    /\ Goto(t, "op")
    /\ UNCHANGED <<mgrVars, lc, op, call, procVars, fileVars, lastPub>>

\* Restart and Kill of a closed manager fail; the closeOnce of a repeated
\* Close does nothing.
StopRejected ==
    /\ stage = "enter" /\ closed
    /\ Return
    /\ UNCHANGED <<mgrVars, procVars, fileVars, lastPub>>

\* The critical section that opens stopCurrent.
StopFence ==
    /\ stage = "enter" /\ ~closed
    /\ lc' = Locals(client, cmd, state.GenerationID)
    /\ rpcEpoch' = rpcEpoch + 1
    /\ client' = 0 /\ cmd' = 0
    /\ state' = Stopped(state)
    /\ closed' = (op[lifecycleMu] = "close")
    /\ Proceed("shutdown")
    /\ UNCHANGED <<closedCh, procVars, fileVars, lastPub>>

\* The Shutdown RPC, whatever its outcome, and client.close.  Up to this step
\* the connection is open and the plugin may answer other calls on it.
StopShutdown ==
    /\ stage = "shutdown"
    /\ conn' = [n \in Incarnations |-> conn[n] /\ n # lc.client]
    /\ Proceed("reap")
    /\ UNCHANGED <<mgrVars, lc, proc, procGen, starts, fileVars, lastPub>>

\* Mutant: the process is not waited for.
StopNoWait ==
    /\ stage = "reap"
    /\ Proceed("cleanup")
    /\ UNCHANGED <<mgrVars, lc, procVars, fileVars, lastPub>>

\* The process exits within the grace period or is killed, and is waited for.
StopReap ==
    /\ stage = "reap"
    /\ proc' = [n \in Incarnations |-> IF n = lc.proc THEN "reaped" ELSE proc[n]]
    /\ Proceed("cleanup")
    /\ UNCHANGED <<mgrVars, lc, procGen, conn, starts, fileVars, lastPub>>

\* Wait or SIGKILL fails: stopCurrent gives up, Close carries on.
StopReapFails ==
    /\ StopFaults
    /\ stage = "reap" /\ lc.proc # 0
    /\ IF op[lifecycleMu] = "close"
         THEN Proceed("finish") /\ UNCHANGED lc
         ELSE Return
    /\ UNCHANGED <<mgrVars, procVars, fileVars, lastPub>>

\* stopCurrent cleans up and returns; Restart goes on to startLocked.
StopCleanup ==
    /\ stage = "cleanup"
    /\ CleanupRuntimeArtifacts(lc.gen)
    /\ \/ op[lifecycleMu] = "restart" /\ Proceed("start") /\ lc' = NoLocals
       \/ op[lifecycleMu] = "close" /\ Proceed("finish") /\ UNCHANGED lc
       \/ op[lifecycleMu] = "kill" /\ Return
    /\ UNCHANGED <<mgrVars, procVars, lastPub>>

\* Close, after stopCurrent has returned: closedCh is closed ...
CloseFinish ==
    /\ stage = "finish"
    /\ closed' = TRUE
    /\ rpcEpoch' = IF closed THEN rpcEpoch ELSE rpcEpoch + 1
    /\ closedCh' = TRUE
    /\ Proceed("purge")
    /\ UNCHANGED <<state, cmd, client, lc, procVars, fileVars, lastPub>>

\* ... then the artifacts are removed, whichever generation they are of.
CloseCleanup ==
    /\ stage = "purge"
    /\ CleanupRuntimeArtifacts(0)
    /\ Return
    /\ UNCHANGED <<mgrVars, procVars, lastPub>>

-----------------------------------------------------------------------------
(* startLocked *)

StartRejected ==
    /\ stage = "start"
    /\ closed \/ cmd # 0 \/ client # 0
    /\ Return
    /\ UNCHANGED <<mgrVars, procVars, fileVars, lastPub>>

\* Mutant: closed is not looked at.
StartEvenIfClosed ==
    /\ stage = "start"
    /\ cmd = 0 /\ client = 0
    /\ lc' = Locals(0, 0, state.GenerationID + 1)
    /\ state' = ResetState(state.GenerationID + 1, TRUE)
    /\ Proceed("token")
    /\ UNCHANGED <<cmd, client, rpcEpoch, closed, closedCh, procVars, fileVars,
                   lastPub>>

StartBegin ==
    /\ stage = "start"
    /\ ~closed /\ cmd = 0 /\ client = 0
    /\ lc' = Locals(0, 0, state.GenerationID + 1)
    /\ state' = ResetState(state.GenerationID + 1, TRUE)
    /\ Proceed("token")
    /\ UNCHANGED <<cmd, client, rpcEpoch, closed, closedCh, procVars, fileVars,
                   lastPub>>

\* Old artifacts are removed and the new token is written.
StartToken ==
    /\ stage = "token"
    /\ sockFile' = 0 /\ authFile' = TRUE
    /\ Proceed("spawn")
    /\ UNCHANGED <<mgrVars, lc, procVars, lastPub>>

\* No token, or os.WriteFile fails, before or after it created the file.
StartTokenFails ==
    /\ stage = "token"
    /\ sockFile' = 0 /\ authFile' \in BOOLEAN
    /\ state' = RolledBack(lc.gen)
    /\ Return
    /\ UNCHANGED <<cmd, client, rpcEpoch, closed, closedCh, procVars, lastPub>>

StartSpawn ==
    /\ stage = "spawn" /\ starts < MaxStarts
    /\ starts' = starts + 1
    /\ proc' = [proc EXCEPT ![starts + 1] = "spawned"]
    /\ procGen' = [procGen EXCEPT ![starts + 1] = lc.gen]
    /\ lc' = Locals(0, starts + 1, lc.gen)
    /\ Proceed("dial")
    /\ UNCHANGED <<mgrVars, conn, fileVars, lastPub>>

\* cmd.Start fails: the generation is rolled back, the token file stays.
StartSpawnFails ==
    /\ stage = "spawn"
    /\ state' = RolledBack(lc.gen)
    /\ Return
    /\ UNCHANGED <<cmd, client, rpcEpoch, closed, closedCh, procVars, fileVars,
                   lastPub>>

StartDial ==
    /\ stage = "dial"
    /\ proc[lc.proc] = "serving" /\ sockFile = lc.proc
    /\ conn' = [conn EXCEPT ![lc.proc] = TRUE]
    /\ lc' = Locals(lc.proc, lc.proc, lc.gen)
    /\ Proceed("peercred")
    /\ UNCHANGED <<mgrVars, proc, procGen, starts, fileVars, lastPub>>

StartPeerCred ==
    /\ stage = "peercred"
    /\ Proceed("auth")
    /\ UNCHANGED <<mgrVars, lc, procVars, fileVars, lastPub>>

\* Mutant: the token file stays.
StartAuthKeepsToken ==
    /\ stage = "auth" /\ proc[lc.proc] = "serving"
    /\ Proceed("caps")
    /\ UNCHANGED <<mgrVars, lc, procVars, fileVars, lastPub>>

\* Auth answers with the right plugin id and generation; the token file goes.
StartAuth ==
    /\ stage = "auth" /\ proc[lc.proc] = "serving"
    /\ authFile' = FALSE
    /\ Proceed("caps")
    /\ UNCHANGED <<mgrVars, lc, procVars, sockFile, lastPub>>

StartCapabilities ==
    /\ stage = "caps" /\ proc[lc.proc] = "serving"
    /\ Proceed("publish")
    /\ UNCHANGED <<mgrVars, lc, procVars, fileVars, lastPub>>

\* The dial times out, the peer is not the child, or Auth or Capabilities
\* fails, times out, or answers with another id, generation or the sentinel.
StartFails ==
    /\ stage \in {"dial", "peercred", "auth", "caps"}
    /\ Proceed("unwind")
    /\ UNCHANGED <<mgrVars, lc, procVars, fileVars, lastPub>>

\* cleanupFailedStart: close, kill and wait ...
StartUnwind ==
    /\ stage = "unwind"
    /\ conn' = [conn EXCEPT ![lc.proc] = FALSE]
    /\ proc' = [proc EXCEPT ![lc.proc] = "reaped"]
    /\ Proceed("rollback")
    /\ UNCHANGED <<mgrVars, lc, procGen, starts, fileVars, lastPub>>

\* ... then rollbackGeneration ...
StartRollback ==
    /\ stage = "rollback"
    /\ state' = RolledBack(lc.gen)
    /\ Proceed("discard")
    /\ UNCHANGED <<cmd, client, rpcEpoch, closed, closedCh, lc, procVars,
                   fileVars, lastPub>>

\* ... then cleanupRuntimeArtifacts.
StartDiscard ==
    /\ stage = "discard"
    /\ CleanupRuntimeArtifacts(lc.gen)
    /\ Return
    /\ UNCHANGED <<mgrVars, procVars, lastPub>>

StartPublish ==
    /\ stage = "publish"
    /\ cmd' = lc.proc /\ client' = lc.client
    /\ state' = PublishedState(lc.gen, lc.proc)
    /\ lastPub' = lc.proc
    /\ Return
    /\ UNCHANGED <<rpcEpoch, closed, closedCh, procVars, fileVars>>

-----------------------------------------------------------------------------
(* MonitorLoop *)

\* A tick: Heartbeat fails at once on a closed manager or a nil client.
MonitorTick ==
    \/ BeginCall(Monitor, "Heartbeat")
    \/ /\ Free(Monitor)
       /\ closed \/ client = 0
       /\ Goto(Monitor, "hbfail")
       /\ UNCHANGED <<mgrVars, lcVars, op, call, procVars, fileVars, lastPub>>

\* Mutants: the failure is ignored; closedCh is not looked at.
MonitorIgnores ==
    /\ pc[Monitor] = "hbfail"
    /\ Goto(Monitor, IF closedCh THEN "done" ELSE "idle")
    /\ UNCHANGED <<mgrVars, lcVars, op, call, procVars, fileVars, lastPub>>
MonitorNeverEnds ==
    /\ pc[Monitor] = "hbfail"
    /\ rpcEpoch < MaxEpoch
    /\ op' = [op EXCEPT ![Monitor] = "restart"]
    /\ Goto(Monitor, "wait")
    /\ UNCHANGED <<mgrVars, lcVars, call, procVars, fileVars, lastPub>>

\* The heartbeat failed: return if closedCh is closed, else Restart.
MonitorRecover ==
    /\ pc[Monitor] = "hbfail"
    /\ IF closedCh
         THEN Goto(Monitor, "done") /\ UNCHANGED op
         ELSE /\ rpcEpoch < MaxEpoch
              /\ op' = [op EXCEPT ![Monitor] = "restart"]
              /\ Goto(Monitor, "wait")
    /\ UNCHANGED <<mgrVars, lcVars, call, procVars, fileVars, lastPub>>

\* ctx.Done is selected.
MonitorCancelled ==
    /\ Free(Monitor)
    /\ Goto(Monitor, "done")
    /\ UNCHANGED <<mgrVars, lcVars, op, call, procVars, fileVars, lastPub>>

-----------------------------------------------------------------------------
(* The plugin processes. *)

\* ListenUnix removes whatever is at the path and binds it.
PluginBind(n) ==
    /\ proc[n] = "spawned"
    /\ proc' = [proc EXCEPT ![n] = "serving"]
    /\ sockFile' = n
    /\ UNCHANGED <<mgrVars, lcVars, thrVars, procGen, conn, starts, authFile,
                   lastPub>>

\* The process exits or crashes.  Only a plugin that returns from
\* ServeWithConfig closes its listener, and closing it unlinks the path.
PluginExit(n) ==
    /\ Running(n)
    /\ proc' = [proc EXCEPT ![n] = "exited"]
    /\ sockFile' \in IF proc[n] = "serving" THEN {sockFile, 0} ELSE {sockFile}
    /\ UNCHANGED <<mgrVars, lcVars, thrVars, procGen, conn, starts, authFile,
                   lastPub>>

-----------------------------------------------------------------------------
Answer(t) == CallReply(t) \/ CallServerError(t)

CallStep(t) ==
    \/ CallBroken(t) \/ PoisonDetach(t) \/ PoisonClose(t) \/ CallFence(t)
    \/ \E h \in BOOLEAN : ApplyHeartbeat(t, h)

StopStep ==
    \/ StopRejected \/ StopFence \/ StopShutdown \/ StopReap \/ StopReapFails
    \/ StopCleanup \/ CloseFinish \/ CloseCleanup

StartStep ==
    \/ StartRejected \/ StartBegin \/ StartToken \/ StartTokenFails
    \/ StartSpawn \/ StartSpawnFails \/ StartDial \/ StartPeerCred
    \/ StartAuth \/ StartCapabilities \/ StartFails \/ StartUnwind
    \/ StartRollback \/ StartDiscard \/ StartPublish

Next ==
    \/ \E t \in Workers, m \in Methods : BeginCall(t, m)
    \/ \E t \in Workers, o \in Ops : Request(t, o)
    \/ \E t \in Threads : Answer(t) \/ CallStep(t) \/ Acquire(t)
    \/ StopStep \/ StartStep
    \/ MonitorTick \/ MonitorRecover \/ MonitorCancelled
    \/ \E n \in Incarnations : PluginBind(n) \/ PluginExit(n)

Spec == Init /\ [][Next]_vars

\* A goroutine that can run does, the select of Manager.call has a timeout,
\* the ticker fires, and sync.Mutex starves nobody.  Plugins owe nothing.
Fairness ==
    /\ \A t \in Threads : WF_vars(CallStep(t)) /\ SF_vars(Acquire(t))
    /\ WF_vars(StopStep) /\ WF_vars(StartStep)
    /\ WF_vars(MonitorTick) /\ WF_vars(MonitorRecover)

FairSpec == Spec /\ Fairness

-----------------------------------------------------------------------------
(* Properties. *)

StateType ==
    [GenerationID : Nat, Healthy : BOOLEAN, PID : 0..MaxStarts,
     Capabilities : BOOLEAN, SocketPath : BOOLEAN]
CallType ==
    [method : Methods, client : 0..MaxStarts, gen : Nat, epoch : Nat]
LocalsType == [client : 0..MaxStarts, proc : 0..MaxStarts, gen : Nat]

\* Types of the manager's fields, of the goroutines and of the processes.
TypeOK ==
    /\ state \in StateType
    /\ cmd \in 0..MaxStarts /\ client \in 0..MaxStarts
    /\ rpcEpoch \in Nat
    /\ closed \in BOOLEAN /\ closedCh \in BOOLEAN
    /\ lifecycleMu \in Threads \cup {None}
    /\ stage \in Stages
    /\ lc \in LocalsType
    /\ pc \in [Threads -> PCs]
    /\ op \in [Threads -> Ops \cup {"none"}]
    /\ call \in [Threads -> CallType]
    /\ proc \in [Incarnations -> ProcStates]
    /\ procGen \in [Incarnations -> Nat]
    /\ conn \in [Incarnations -> BOOLEAN]
    /\ starts \in 0..MaxStarts
    /\ sockFile \in 0..MaxStarts
    /\ authFile \in BOOLEAN
    /\ lastPub \in 0..MaxStarts

\* Healthy is only ever true of the generation the manager is connected to:
\* its client is attached, belongs to the supervised process, and that process
\* was given the generation in the state.  A late heartbeat, a poisoned client,
\* a Kill, a failed Restart or a Close never leaves a healthy state behind.
HealthyIsTrusted ==
    state.Healthy =>
        /\ client # 0 /\ client = cmd /\ state.PID = cmd
        /\ procGen[client] = state.GenerationID
        /\ ~closed

\* The client new calls are sent to is one whose connection the manager has not
\* closed: a transport poisoned by one goroutine is detached before it is
\* closed, so no other goroutine can pick it up.
PoisonedNotReused == client # 0 => conn[client]

\* As long as waiting and signalling work, a manager never has two processes
\* that it has not waited for, through any sequence of overlapping Start,
\* Restart, Kill, Close and monitor restarts.
SingleProcess ==
    StopFaults \/ \A m, n \in Incarnations : Unreaped(m) /\ Unreaped(n) => m = n

\* Between operations a manager without a process has left no zombie and no
\* socket file: even a plugin that binds its socket late, while a failed start
\* is being unwound, is dead before the cleanup.
StoppedIsClean ==
    lifecycleMu = None /\ cmd = 0 /\ ~StopFaults =>
        sockFile = 0 /\ \A n \in Incarnations : ~Unreaped(n)

\* Once Close is through no runtime artifact is left or comes back, not even the
\* token file of an earlier failed start or the socket of an orphan.
ClosedIsClean == closedCh /\ stage # "purge" => sockFile = 0 /\ ~authFile

\* No token file lies around while a generation is published: the one of this
\* start, or of an earlier failed one, was removed on the way.
NoTokenWhilePublished == cmd # 0 => ~authFile

\* A reply passes the fence of Manager.call only if it comes from the generation
\* published last, though the generation ids compared there are reused after
\* failed starts, and the first generation's calls carry the epoch 0 that
\* switches the rest of the fence off.
NoReplyFromReplaced ==
    \A t \in Threads :
        pc[t] = "replied" /\ ~StaleResponse(call[t]) => call[t].client = lastPub

\* From the moment Close has fenced the manager no process is created, however
\* many Start and Restart calls are queued behind it.
NoStartAfterClose == [][closed => starts' = starts]_vars

\* The id of the last published generation.
LastGeneration == IF lastPub = 0 THEN 0 ELSE procGen[lastPub]

Trusted == INSTANCE TrustedGeneration WITH
    trusted <- (client # 0), generation <- LastGeneration,
    healthy <- state.Healthy, closed <- closed

\* The manager implements its abstract specification: trust moves from one
\* generation to the next through nil only, to ids that grow by one with every
\* published generation, never after Close, and health follows trust.
ImplementsTrustedGeneration == Trusted!Spec

\* Every call of the manager returns: RPCs time out, and whoever waits for
\* lifecycleMu gets it and finishes.
CallsReturn ==
    \A t \in Workers : ~Free(t) ~> Free(t)

\* The monitor replaces a generation whose process has died, unless its context
\* was cancelled (or the bound on restarts is reached).
MonitorRecovers ==
    \A n \in Incarnations :
        cmd = n /\ proc[n] = "exited" /\ rpcEpoch < MaxEpoch
            ~> cmd # n \/ pc[Monitor] = "done"

\* The monitor goroutine ends once the manager is closed, also when it is
\* about to restart, or waiting to restart, the plugin at that time.
MonitorStops == closed ~> pc[Monitor] = "done"

-----------------------------------------------------------------------------
(* What the repository's documents say and the code does not do. *)

\* docs/plugin-standard-v0.md: stale RPC state is rejected.  A reply that passes
\* the fence was requested over the client that is still attached.
AcceptedIsTrusted ==
    \A t \in Threads :
        pc[t] = "replied" /\ ~StaleResponse(call[t]) => call[t].client = client

\* The comment on State: a generation that is not Healthy is not trusted for
\* routed work.
WorkOnlyToHealthy ==
    [][\A t \in Threads :
         pc[t] = "idle" /\ pc'[t] = "call" /\ call'[t].method = "Work"
           => state.Healthy]_vars

=============================================================================
