---------------------------- MODULE PluginServer ----------------------------
(***************************************************************************)
(* Plugin processes built on the SDK of pkg/plugin/plugin.go: reading the  *)
(* configuration, binding the socket path, and a server that spends its    *)
(* token once and lets no other method through before that.                *)
(*                                                                         *)
(* All processes of one plugin share a socket path and a token file, also  *)
(* the ones that a daemon has left behind.  Every request runs in its own  *)
(* goroutine (net/rpc starts one for each), so requests are slots that     *)
(* move independently; what a handler does under server.mu is one step.    *)
(* Tokens are numbers; 0 is no token, no process, no file.                 *)
(***************************************************************************)
EXTENDS Naturals

CONSTANT
    MaxProcs   \* bound: processes that can be created

ASSUME ServerConstants == MaxProcs \in Nat

VARIABLES
    life,      \* where each process is between its creation and its end
    env,       \* the generation each was given in its environment
    tok,       \* Config.AuthToken, read from the token file
    ear,       \* whether its listener is open
    used,      \* server.authUsed
    sock,      \* the process whose socket is at the path
    tokenFile, \* the token in the token file
    at,        \* where the request in each slot is
    req,       \* its method and token
    grants,    \* history: Auth calls each process has accepted
    spentBy    \* history: the sender of the last one accepted

processes == <<life, env, tok, ear, used>>
requests  == <<at, req>>
history   == <<grants, spentBy>>
servers   == <<processes, sock, tokenFile, requests, history>>

Procs   == 1..MaxProcs
Lives   == {"none", "boot", "listen", "bind", "chmod", "fail", "serve", "end"}
Running(p) == life[p] \notin {"none", "end"}

\* A process has one request of the manager in flight, and one of any other
\* client of its socket.
Senders == {"kernel", "client"}
Slots   == Procs \X Senders
To(r)   == r[1]
From(r) == r[2]
Methods == {"Auth", "Capabilities", "Work", "Shutdown"}  \* Work: Heartbeat, Echo, Sleep

\* "auth": past the hook, before server.mu.  "core": past requireAuth.
\* "ok": answered with the configured identity.  "none": no request, or one
\* that got another identity, an error or, its process having ended, nothing.
InServer == {"sent", "auth", "core"}
Places   == InServer \cup {"none", "ok"}
NoRequest == [method |-> "Work", token |-> 0]

ServerInit ==
    /\ life = [p \in Procs |-> "none"]
    /\ env = [p \in Procs |-> 0]
    /\ tok = [p \in Procs |-> 0]
    /\ ear = [p \in Procs |-> FALSE]
    /\ used = [p \in Procs |-> FALSE]
    /\ sock = 0 /\ tokenFile = 0
    /\ at = [r \in Slots |-> "none"]
    /\ req = [r \in Slots |-> NoRequest]
    /\ grants = [p \in Procs |-> 0]
    /\ spentBy = [p \in Procs |-> "none"]

-----------------------------------------------------------------------------
(* The process is gone, and its requests with it. *)
Ends(p) ==
    /\ life' = [life EXCEPT ![p] = "end"]
    /\ ear' = [ear EXCEPT ![p] = FALSE]
    /\ at' = [r \in Slots |->
                IF To(r) = p /\ at[r] \in InServer THEN "none" ELSE at[r]]
    /\ req' = [r \in Slots |-> IF To(r) = p THEN NoRequest ELSE req[r]]
    /\ UNCHANGED <<env, tok, used, history>>

(* LoadConfigFromEnv reads the token file; without one the process exits. *)
LoadConfig(p) ==
    /\ life[p] = "boot"
    /\ \/ /\ tokenFile # 0
          /\ tok' = [tok EXCEPT ![p] = tokenFile]
          /\ life' = [life EXCEPT ![p] = "listen"]
          /\ UNCHANGED <<env, ear, used, requests, history>>
       \/ tokenFile = 0 /\ Ends(p)
    /\ UNCHANGED <<sock, tokenFile>>

(* runtime.ListenUnix removes whatever is at the path... *)
ListenRemove(p) ==
    /\ life[p] = "listen"
    /\ life' = [life EXCEPT ![p] = "bind"]
    /\ sock' = 0
    /\ UNCHANGED <<env, tok, ear, used, tokenFile, requests, history>>

(* ...and binds it, unless another process has done so meanwhile... *)
ListenBind(p) ==
    /\ life[p] = "bind"
    /\ \/ /\ sock = 0 /\ sock' = p
          /\ ear' = [ear EXCEPT ![p] = TRUE]
          /\ life' = [life EXCEPT ![p] = "chmod"]
          /\ UNCHANGED <<env, tok, used, requests, history>>
       \/ sock # 0 /\ Ends(p) /\ UNCHANGED sock
    /\ UNCHANGED tokenFile

(* ...and sets its mode, which fails if the path is gone by then... *)
ListenChmod(p) ==
    /\ life[p] = "chmod"
    /\ \/ sock # 0 /\ life' = [life EXCEPT ![p] = "serve"]
       \/ life' = [life EXCEPT ![p] = "fail"]
    /\ UNCHANGED <<env, tok, ear, used, sock, tokenFile, requests, history>>

(* ...in which case it takes the path away, whosever socket is there now. *)
ListenFails(p) ==
    /\ life[p] = "fail"
    /\ sock' = 0
    /\ Ends(p)
    /\ UNCHANGED tokenFile

(* The plugin closes its listener, which unlinks the path, whosever socket *)
(* is there.                                                               *)
ListenerCloses(p) ==
    /\ life[p] = "serve" /\ ear[p]
    /\ ear' = [ear EXCEPT ![p] = FALSE]
    /\ sock' = 0
    /\ UNCHANGED <<life, env, tok, used, tokenFile, requests, history>>

(* Accept fails on a closed listener: ServeWithConfig returns nil and the  *)
(* process ends, whatever its handlers are doing.                          *)
ServeReturns(p) ==
    /\ life[p] = "serve" /\ ~ear[p]
    /\ Ends(p)
    /\ UNCHANGED <<sock, tokenFile>>

(* The process ends without closing anything: Crash, the exit after a      *)
(* Shutdown, a panic or a signal.                                          *)
Exit(p) ==
    /\ Running(p)
    /\ Ends(p)
    /\ UNCHANGED <<sock, tokenFile>>

-----------------------------------------------------------------------------
(* A request arrives over a connection to the process of slot r; the answer *)
(* to the last one has been read or given up.                               *)
Send(r, method, token) ==
    /\ at[r] \notin InServer /\ Running(To(r))
    /\ at' = [at EXCEPT ![r] = "sent"]
    /\ req' = [req EXCEPT ![r] = [method |-> method, token |-> token]]

Moves(r, place) ==
    /\ life[To(r)] = "serve"
    /\ at' = [at EXCEPT ![r] = place]
    /\ UNCHANGED <<life, env, tok, ear, sock, tokenFile>>

Continues(r, place) == Moves(r, place) /\ UNCHANGED req

(* The answer to another client is no concern of the model. *)
Returns(r, ok) ==
    /\ Moves(r, IF ok /\ From(r) = "kernel" THEN "ok" ELSE "none")
    /\ req' = [req EXCEPT ![r] = NoRequest]

(* server.Auth: the hook may refuse before the token is looked at. *)
AuthHook(r) ==
    /\ at[r] = "sent" /\ req[r].method = "Auth"
    /\ Continues(r, "auth") \/ Returns(r, FALSE)
    /\ UNCHANGED <<used, history>>

Accept(r) ==
    /\ used' = [used EXCEPT ![To(r)] = TRUE]
    /\ grants' = [grants EXCEPT ![To(r)] = @ + 1]
    /\ spentBy' = [spentBy EXCEPT ![To(r)] = From(r)]
    /\ \E ok \in BOOLEAN : Returns(r, ok)

Reject(r) == Returns(r, FALSE) /\ UNCHANGED <<used, history>>

(* Mutant: any call with the right token is accepted, not only the first. *)
AuthRepeatable(r) ==
    /\ at[r] = "auth"
    /\ \/ req[r].token = tok[To(r)] /\ Accept(r)
       \/ req[r].token # tok[To(r)] /\ Reject(r)

(* ...then, under server.mu, the token is compared and spent. *)
Auth(r) ==
    /\ at[r] = "auth"
    /\ \/ ~used[To(r)] /\ req[r].token = tok[To(r)] /\ Accept(r)
       \/ (used[To(r)] \/ req[r].token # tok[To(r)]) /\ Reject(r)

(* requireAuth, which every other method starts with. *)
RequireAuth(r) ==
    /\ at[r] = "sent" /\ req[r].method # "Auth"
    /\ \/ used[To(r)] /\ Continues(r, "core")
       \/ ~used[To(r)] /\ Returns(r, FALSE)
    /\ UNCHANGED <<used, history>>

(* The method returns: a reply, an error of the core, or the error for an   *)
(* optional interface the core does not have.                               *)
CoreReturns(r) ==
    /\ at[r] = "core"
    /\ \E ok \in BOOLEAN : Returns(r, ok)
    /\ UNCHANGED <<used, history>>

ProcessStep(p) ==
    \/ LoadConfig(p) \/ ListenRemove(p) \/ ListenBind(p) \/ ListenChmod(p)
    \/ ListenFails(p) \/ ListenerCloses(p) \/ ServeReturns(p) \/ Exit(p)

HandlerStep(r) == AuthHook(r) \/ Auth(r) \/ RequireAuth(r) \/ CoreReturns(r)

PluginStep == (\E p \in Procs : ProcessStep(p)) \/ (\E r \in Slots : HandlerStep(r))

=============================================================================
