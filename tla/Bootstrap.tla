----------------------------- MODULE Bootstrap -----------------------------
(***************************************************************************)
(* How the manager and the plugin processes come to trust each other, with *)
(* processes of earlier starts, and of a daemon that has died, still       *)
(* running on the same socket path and the same token file.                *)
(*                                                                         *)
(* One start is the sequence of startLocked: the paths are cleared, a      *)
(* token is written, a child is created, the path is dialled, the peer's   *)
(* process id is compared with the child's, the token is presented and the *)
(* capabilities are read.  A failure unwinds the start.  PluginManager     *)
(* models what happens around it (locks, epochs, timeouts and monitors).   *)
(***************************************************************************)
EXTENDS PluginServer

CONSTANT
    Budgets      \* bounds: how many starts there are, how many daemons die and
                 \* how many requests other clients make, in one behaviour

ASSUME BootConstants == Budgets \subseteq [starts : Nat, crashes : Nat, clients : Nat]

VARIABLES
    stage,       \* where the lifecycle operation is; "idle" and "up" are its rests
    gen,         \* Manager.state.GenerationID
    cur,         \* the child: m.cmd, or cmd of the start in progress
    conn,        \* the process at the other end of the connection
    secret,      \* the token of the last start
    left,        \* what is left of the budget
    mismatches   \* history: starts each process has failed by its process id

manager == <<stage, gen, cur, conn, secret>>
vars    == <<servers, manager, left, mismatches>>

Starting == {"token", "spawn", "dial", "peer", "auth", "authwait",
             "caps", "capswait", "unwind", "undo"}
Stopping == {"shut", "sweep"}
Stages   == {"idle", "up"} \cup Starting \cup Stopping

Init ==
    /\ ServerInit
    /\ stage = "idle" /\ gen = 0 /\ cur = 0 /\ conn = 0 /\ secret = 0
    /\ left \in Budgets
    /\ mismatches = [p \in Procs |-> 0]

Kernel(p) == <<p, "kernel">>

-----------------------------------------------------------------------------
(* Mutant: the socket is left at its path. *)
RemoveOnlyToken == tokenFile' = 0 /\ UNCHANGED sock

(* The socket and the token file of the plugin are removed, whosever they are. *)
RemoveArtifacts == sock' = 0 /\ tokenFile' = 0

StartBegin ==
    /\ stage = "idle"
    /\ left.starts > 0 /\ left' = [left EXCEPT !.starts = @ - 1]
    /\ stage' = "token"
    /\ gen' = gen + 1 /\ secret' = secret + 1
    /\ RemoveArtifacts
    /\ UNCHANGED <<processes, requests, history, cur, conn, mismatches>>

(* The token is created and written, or the start is rolled back. *)
StartToken ==
    /\ stage = "token"
    /\ \/ tokenFile' = secret /\ stage' = "spawn" /\ UNCHANGED gen
       \/ stage' = "idle" /\ gen' = gen - 1 /\ UNCHANGED tokenFile
    /\ UNCHANGED <<processes, sock, requests, history, cur, conn, secret,
                   left, mismatches>>

(* The child is created; if that fails, the token file stays behind. *)
StartSpawn ==
    /\ stage = "spawn"
    /\ \/ /\ stage' = "dial" /\ UNCHANGED gen
          /\ \E p \in Procs :
                /\ life[p] = "none" /\ (\A q \in Procs : q < p => life[q] # "none")
                /\ life' = [life EXCEPT ![p] = "boot"]
                /\ env' = [env EXCEPT ![p] = gen]
                /\ cur' = p
       \/ stage' = "idle" /\ gen' = gen - 1 /\ UNCHANGED <<life, env, cur>>
    /\ UNCHANGED <<tok, ear, used, sock, tokenFile, requests, history, conn,
                   secret, left, mismatches>>

(* Mutant: dialling goes on until somebody answers. *)
DialForever ==
    /\ stage = "dial"
    /\ \/ sock # 0 /\ ear[sock] /\ conn' = sock /\ stage' = "peer"
       \/ UNCHANGED <<stage, conn>>
    /\ UNCHANGED <<servers, gen, cur, secret, left, mismatches>>

(* Whoever listens at the path is connected to, before the deadline. *)
StartDial ==
    /\ stage = "dial"
    /\ \/ sock # 0 /\ ear[sock] /\ conn' = sock /\ stage' = "peer"
       \/ stage' = "unwind" /\ UNCHANGED conn
    /\ UNCHANGED <<servers, gen, cur, secret, left, mismatches>>

(* Mutant: the process id of the peer is not looked at. *)
PeerUnchecked ==
    /\ stage = "peer" /\ stage' = "auth"
    /\ UNCHANGED <<servers, gen, cur, conn, secret, left, mismatches>>

(* verifyPeerCred: the listener's process id is the child's. *)
StartPeer ==
    /\ stage = "peer"
    /\ \/ conn = cur /\ stage' = "auth" /\ UNCHANGED mismatches
       \/ /\ conn # cur /\ stage' = "unwind"
          /\ mismatches' = [mismatches EXCEPT ![conn] = @ + 1]
    /\ UNCHANGED <<servers, gen, cur, conn, secret, left>>

(* managerRPCCall: the request is sent, or the connection is already dead. *)
Ask(method, from, to) ==
    /\ stage = from
    /\ \/ Send(Kernel(conn), method, secret) /\ stage' = to
       \/ stage' = "unwind" /\ UNCHANGED requests
    /\ UNCHANGED <<processes, sock, tokenFile, history, gen, cur, conn, secret,
                   left, mismatches>>

(* Its result: the answer of this plugin and generation, or an error, a     *)
(* deadline, or another identity.                                           *)
Trusted == at[Kernel(conn)] = "ok" /\ env[conn] = gen

StartAuth == Ask("Auth", "auth", "authwait")

StartAuthed ==
    /\ stage = "authwait"
    /\ \/ Trusted /\ stage' = "caps" /\ tokenFile' = 0
       \/ stage' = "unwind" /\ UNCHANGED tokenFile
    /\ UNCHANGED <<processes, sock, requests, history, gen, cur, conn, secret,
                   left, mismatches>>

StartCaps == Ask("Capabilities", "caps", "capswait")

StartPublish ==
    /\ stage = "capswait"
    /\ \/ Trusted /\ stage' = "up"
       \/ stage' = "unwind"
    /\ UNCHANGED <<servers, gen, cur, conn, secret, left, mismatches>>

Kill(p) ==
    \/ Running(p) /\ Ends(p)
    \/ ~Running(p) /\ UNCHANGED <<processes, requests, history>>

(* Mutant: the generation is rolled back here, and again below. *)
UnwindRollsBack ==
    /\ stage = "unwind" /\ stage' = "undo"
    /\ Kill(cur) /\ gen' = gen - 1
    /\ UNCHANGED <<sock, tokenFile, cur, conn, secret, left, mismatches>>

(* cleanupFailedStart kills the child and waits for it... *)
StartUnwind ==
    /\ stage = "unwind" /\ stage' = "undo"
    /\ Kill(cur)
    /\ UNCHANGED <<sock, tokenFile, gen, cur, conn, secret, left, mismatches>>

(* ...rolls the generation back, which leaves a state without process or    *)
(* socket, and so owns and removes the artifacts.                           *)
StartUndo ==
    /\ stage = "undo" /\ stage' = "idle"
    /\ gen' = gen - 1 /\ cur' = 0 /\ conn' = 0
    /\ RemoveArtifacts
    /\ UNCHANGED <<processes, requests, history, secret, left, mismatches>>

-----------------------------------------------------------------------------
(* stopCurrent: the plugin, if there is one, is asked to shut down... *)
Stop ==
    /\ \/ stage = "idle" /\ stage' = "sweep" /\ UNCHANGED requests
       \/ /\ stage = "up" /\ stage' = "shut"
          /\ Send(Kernel(conn), "Shutdown", 0) \/ UNCHANGED requests
    /\ UNCHANGED <<processes, sock, tokenFile, history, gen, cur, conn, secret,
                   left, mismatches>>

(* ...it is waited for, and killed after the grace period; when the wait or *)
(* the signal fails, it is left running and nothing is cleaned...           *)
StopReap ==
    /\ stage = "shut"
    /\ \/ Kill(cur) /\ stage' = "sweep"
       \/ stage' = "idle" /\ UNCHANGED <<processes, requests, history>>
    /\ cur' = 0 /\ conn' = 0
    /\ UNCHANGED <<sock, tokenFile, gen, secret, left, mismatches>>

(* ...and the artifacts of the generation, still the current one, are removed. *)
StopSweep ==
    /\ stage = "sweep" /\ stage' = "idle"
    /\ RemoveArtifacts
    /\ UNCHANGED <<processes, requests, history, gen, cur, conn, secret, left,
                   mismatches>>

(* The daemon dies at any point and another takes its place, in the same    *)
(* directory and with generations from the beginning.                       *)
DaemonCrash ==
    /\ left.crashes > 0 /\ left' = [left EXCEPT !.crashes = @ - 1]
    /\ stage' = "idle" /\ gen' = 0 /\ cur' = 0 /\ conn' = 0
    /\ UNCHANGED <<servers, secret, mismatches>>

(* Another client of the socket: an Auth that repeats the token or presents *)
(* none, or a method.                                                       *)
ClientCall ==
    /\ left.clients > 0 /\ left' = [left EXCEPT !.clients = @ - 1]
    /\ \E p \in Procs : ear[p] /\
          \/ \E t \in {0, tok[p]} : Send(<<p, "client">>, "Auth", t)
          \/ Send(<<p, "client">>, "Work", 0)
    /\ UNCHANGED <<processes, sock, tokenFile, history, manager, mismatches>>

ManagerStep ==
    \/ StartToken \/ StartSpawn \/ StartDial \/ StartPeer \/ StartAuth
    \/ StartAuthed \/ StartCaps \/ StartPublish \/ StartUnwind \/ StartUndo
    \/ StopReap \/ StopSweep

Next ==
    \/ ManagerStep \/ StartBegin \/ Stop \/ DaemonCrash \/ ClientCall
    \/ PluginStep /\ UNCHANGED <<manager, left, mismatches>>

Spec == Init /\ [][Next]_vars /\ WF_vars(ManagerStep)

-----------------------------------------------------------------------------
(* Every variable has its type. *)
BootTypeOK ==
    /\ life \in [Procs -> Lives]
    /\ env \in [Procs -> Nat] /\ tok \in [Procs -> Nat]
    /\ ear \in [Procs -> BOOLEAN] /\ used \in [Procs -> BOOLEAN]
    /\ sock \in 0..MaxProcs /\ tokenFile \in Nat
    /\ at \in [Slots -> Places]
    /\ req \in [Slots -> [method : Methods, token : Nat]]
    /\ grants \in [Procs -> Nat] /\ spentBy \in [Procs -> Senders \cup {"none"}]
    /\ stage \in Stages
    /\ gen \in Nat /\ cur \in 0..MaxProcs /\ conn \in 0..MaxProcs
    /\ secret \in Nat /\ left \in [starts : Nat, crashes : Nat, clients : Nat]
    /\ mismatches \in [Procs -> Nat]

(* What startLocked publishes is the child it has created: the connection   *)
(* ends at that process, which was given this generation and has read the   *)
(* token of this very start, the token has been spent by the manager and by *)
(* nobody else, and no copy of it is left on disk.  A process of an earlier *)
(* start or daemon never stands in for it, although it may be bound to the  *)
(* path, carry the same generation number and have read the same token.     *)
PublishedIsOwnChild ==
    stage = "up" =>
        /\ conn = cur /\ cur \in Procs
        /\ env[cur] = gen /\ tok[cur] = secret
        /\ used[cur] /\ grants[cur] = 1 /\ spentBy[cur] = "kernel"
        /\ tokenFile = 0

(* A process that an earlier start or daemon has left behind makes at most  *)
(* one start fail by answering in place of the child: the failed start      *)
(* takes away the path it listens at, and it never binds another one.       *)
LeftoverFailsOneStart == \A p \in Procs : mismatches[p] <= 1

Gate ==
    INSTANCE OneTimeAuth WITH
        Servers  <- Procs,
        Requests <- Senders,
        working  <- [p \in Procs |-> {s \in Senders : at[<<p, s>>] = "core"}]

(* Every plugin server spends its token once and works on nothing before     *)
(* that, however its handlers interleave and whoever calls it: the servers   *)
(* implement OneTimeAuth.                                                    *)
ServersKeepGate == Gate!Spec

(* A start or a stop that has begun comes to an end, although the child or   *)
(* a process in its place may never bind, accept or answer: dialling and     *)
(* every request have a deadline.                                           *)
OperationsSettle == (stage \notin {"idle", "up"}) ~> (stage \in {"idle", "up"})

=============================================================================
