----------------------------- MODULE HostProofs -----------------------------
(***************************************************************************)
(* Proofs about the daemon, for any number of plugins, of admin RPCs and   *)
(* of generations: the monitors, the admin RPCs and the main goroutine     *)
(* keep its invariant, and what follows from it.                           *)
(***************************************************************************)
EXTENDS HostOperations

(* A monitor is there only once the context is set. *)
LEMMA MonitorFacts ==
    ASSUME HostInv, NEW p \in Plugins, mon[p] # "off"
    PROVE  ctx # "unset" /\ p \in Actors /\ p # Main
BY ActorFacts DEF HostInv, AskInv

(* The heartbeats of a monitor. *)
LEMMA MonitorRpcInv ==
    ASSUME HostInv, NEW p \in Plugins, MonitorTick(p) \/ MonitorHeartbeatFails(p)
    PROVE  HostInv'
<1>0. DaemonTypes /\ ServiceTypes /\ AskInv
    BY TypeParts DEF HostInv
<1>1. /\ mon[p] = "tick" /\ HealthEffect(p) /\ UNCHANGED <<daemon, locks, admin>>
      /\ mon' = mon \/ mon' = [mon EXCEPT ![p] = "failed"]
    <2>1. CASE MonitorTick(p)
        BY <2>1, ReplyEffect, Zenon DEF MonitorTick
    <2>2. CASE MonitorHeartbeatFails(p)
        BY <2>2, PoisonEffect DEF MonitorHeartbeatFails
    <2> QED
        BY <2>1, <2>2
<1>2. ManagerTypes' /\ LockTypes' /\ LockInv' /\ ManagerInv' /\ PhaseInv' /\ GenInv'
    BY <1>1, MonitorFacts, HealthInv
<1>3. UNCHANGED <<main, idx, started, ctx, adminSock, ask, handler, req, body, pub>>
    BY <1>1 DEF daemon, locks, admin, HealthEffect
<1>4. \A q \in Plugins : mon'[q] = mon[q] \/ (mon[q] = "tick" /\ mon'[q] = "failed")
    BY <1>0, <1>1 DEF ServiceTypes
<1>5. DaemonTypes' /\ ServiceTypes'
    BY <1>0, <1>1, <1>3 DEF DaemonTypes, ServiceTypes
<1>6. AskInv'
    BY <1>0, <1>3, <1>4 DEF AskInv
<1>7. ReqInv' /\ AnswerNotOlder'
    BY <1>1, <1>3, SameRequests DEF HealthEffect, SameManager
<1> QED
    BY <1>2, <1>5, <1>6, <1>7, TypeParts DEF HostInv

(* A monitor asks for a Restart, or finds the manager closed. *)
LEMMA MonitorRecoverInv ==
    ASSUME HostInv, NEW p \in Plugins, MonitorRecover(p)
    PROVE  HostInv'
<1>0. DaemonTypes /\ ServiceTypes /\ LockTypes /\ LockInv /\ AskInv
    BY TypeParts DEF HostInv
<1>1. mon[p] = "failed" /\ UNCHANGED <<daemon, managers, admin>> /\ p \in Actors /\ p # Main
    BY MonitorFacts DEF MonitorRecover
<1>2. PICK m \in {"restart", "done"} :
          /\ mon' = [mon EXCEPT ![p] = m]
          /\ \/ m = "restart" /\ Request(p, p, "restart")
             \/ m = "done" /\ UNCHANGED locks
    BY DEF MonitorRecover
<1>3. LockTypes' /\ LockInv' /\ \A q \in Plugins : SameStage(q)
    BY <1>0, <1>1, <1>2, RequestLocks, SameLocks
<1>4. /\ \A b \in Actors : b # p => ask'[b] = ask[b]
      /\ ask[p].at = "none"
      /\ ask'[p].at # "none" => ask'[p].op = "restart" /\ ask'[p].plugin = p /\ m = "restart"
      /\ ask'[p].at # "ok"
    <2>1. ask[p].at = "none"
        BY <1>0, <1>1 DEF AskInv
    <2>2. CASE m = "restart"
        BY <1>0, <1>1, <1>2, <2>1, <2>2 DEF Request, LockTypes
    <2>3. CASE m = "done"
        BY <1>2, <2>1, <2>3 DEF locks
    <2> QED
        BY <2>1, <2>2, <2>3
<1>5. ManagerTypes' /\ ManagerInv' /\ PhaseInv' /\ GenInv'
    BY <1>1, <1>3, <1>4, CallerInv, ActorFacts
<1>6. UNCHANGED <<main, idx, started, ctx, adminSock, handler, req, body, client, pub>>
    BY <1>1 DEF daemon, managers, admin
<1>7. mon'[p] = m /\ \A q \in Plugins : q # p => mon'[q] = mon[q]
    BY <1>0, <1>2 DEF ServiceTypes
<1>8. DaemonTypes' /\ ServiceTypes'
    BY <1>0, <1>2, <1>6, Zenon DEF DaemonTypes, ServiceTypes
<1>9. AskInv'
    BY <1>0, <1>1, <1>4, <1>6, <1>7, ActorFacts DEF AskInv
<1>10. ReqInv' /\ AnswerNotOlder'
    BY <1>1, <1>4, <1>6, SameRequests, ActorFacts
<1> QED
    BY <1>3, <1>5, <1>8, <1>9, <1>10, TypeParts DEF HostInv

(* It notes the outcome, or ends with the context. *)
LEMMA MonitorEndsInv ==
    ASSUME HostInv, NEW p \in Plugins, MonitorRestarted(p) \/ MonitorCancelled(p)
    PROVE  HostInv'
<1>0. DaemonTypes /\ ServiceTypes /\ LockTypes /\ LockInv /\ AskInv
    BY TypeParts DEF HostInv
<1>1. /\ mon[p] \in {"restart", "tick"} /\ UNCHANGED <<daemon, managers, admin>>
      /\ p \in Actors /\ p # Main
    BY MonitorFacts DEF MonitorRestarted, MonitorCancelled
<1>2. PICK m \in {"tick", "done"} :
          /\ mon' = [mon EXCEPT ![p] = m]
          /\ \/ \E r \in {"ok", "err"} : Outcome(p, r)
             \/ mon[p] = "tick" /\ UNCHANGED locks
    BY DEF MonitorRestarted, MonitorCancelled
<1>3. LockTypes' /\ LockInv' /\ \A q \in Plugins : SameStage(q)
    BY <1>0, <1>1, <1>2, OutcomeLocks, SameLocks
<1>4. /\ \A b \in Actors : b # p => ask'[b] = ask[b]
      /\ ask'[p].at = "none"
    <2>1. CASE \E r \in {"ok", "err"} : Outcome(p, r)
        BY <1>0, <1>1, <2>1 DEF Outcome, LockTypes, NoAsk
    <2>2. CASE mon[p] = "tick" /\ UNCHANGED locks
        BY <1>0, <2>2 DEF locks, AskInv
    <2> QED
        BY <1>2, <2>1, <2>2
<1>5. ManagerTypes' /\ ManagerInv' /\ PhaseInv' /\ GenInv'
    BY <1>1, <1>3, <1>4, CallerInv, ActorFacts
<1>6. UNCHANGED <<main, idx, started, ctx, adminSock, handler, req, body, client, pub>>
    BY <1>1 DEF daemon, managers, admin
<1>7. mon'[p] = m /\ \A q \in Plugins : q # p => mon'[q] = mon[q]
    BY <1>0, <1>2 DEF ServiceTypes
<1>8. DaemonTypes' /\ ServiceTypes'
    BY <1>0, <1>2, <1>6, Zenon DEF DaemonTypes, ServiceTypes
<1>9. AskInv'
    BY <1>0, <1>1, <1>4, <1>6, <1>7, ActorFacts DEF AskInv
<1>10. ReqInv' /\ AnswerNotOlder'
    BY <1>1, <1>4, <1>6, SameRequests, ActorFacts, Zenon
<1> QED
    BY <1>3, <1>5, <1>8, <1>9, <1>10, TypeParts DEF HostInv

(* What an answer says of the route it was sent on. *)
AnswerOK(a) ==
    handler[a] = "replied" =>
        /\ body[a] >= req[a].gen
        /\ req[a].kind = "restart" /\ req[a].healthy => body[a] > req[a].gen

Requests == [kind : {"none", "call", "restart"}, plugin : 0..N, gen : Nat, healthy : BOOLEAN]

(* The other admin RPCs are left alone. *)
AdminFrame(a) ==
    /\ UNCHANGED <<daemon, mon, pub>>
    /\ \A b \in Admins : b # a =>
          handler'[b] = handler[b] /\ req'[b] = req[b] /\ body'[b] = body[b]
    /\ \A b \in Actors : b # a => ask'[b] = ask[b]
    /\ \A q \in Plugins : client'[q] => client[q]

(* An admin RPC is there only once the context is set. *)
LEMMA AdminFacts ==
    ASSUME HostInv, NEW a \in Admins
    PROVE  /\ a \in Actors /\ a # Main /\ a \notin Plugins
           /\ handler[a] # "off" => ctx # "unset"
           /\ handler[a] # "restart" => ask[a].at = "none"
           /\ ReqOK(a) /\ AnswerOK(a)
           /\ req[a] \in Requests /\ body[a] \in Nat
           /\ req \in [Admins -> Requests] /\ body \in [Admins -> Nat]
           /\ handler \in [Admins -> {"off", "idle", "routed", "restart", "replied"}]
<1>1. req \in [Admins -> Requests] /\ body \in [Admins -> Nat]
    BY DEF HostInv, TypeOK, Requests
<1> QED
    BY <1>1, ActorFacts DEF HostInv, AskInv, ReqInv, AnswerNotOlder, AnswerOK, TypeOK

(* A step of an admin RPC that leaves its own request in order keeps the    *)
(* invariant.                                                               *)
LEMMA AdminInv ==
    ASSUME HostInv, NEW a \in Admins, AdminFrame(a),
           ManagerTypes', LockTypes', LockInv', ManagerInv', PhaseInv', GenInv',
           handler' \in [Admins -> {"off", "idle", "routed", "restart", "replied"}],
           req' \in [Admins -> Requests], body' \in [Admins -> Nat],
           ctx # "unset",
           ask'[a].at # "none" => /\ ask'[a].op = "restart"
                                  /\ ask'[a].plugin = req'[a].plugin
                                  /\ handler'[a] = "restart",
           ReqOK(a)', AnswerOK(a)'
    PROVE  HostInv'
<1>0. DaemonTypes /\ ServiceTypes /\ AskInv /\ ReqInv /\ AnswerNotOlder
    BY TypeParts DEF HostInv
<1>1. UNCHANGED <<main, idx, started, ctx, adminSock, mon, pub>>
    BY DEF AdminFrame, daemon
<1>2. DaemonTypes' /\ ServiceTypes'
    BY <1>0, <1>1, Zenon DEF DaemonTypes, ServiceTypes, Requests
<1>3. AskInv'
    BY <1>0, <1>1, ActorFacts DEF AskInv, AdminFrame
<1>4. \A b \in Admins : b # a => ReqOK(b)'
    <2> SUFFICES ASSUME NEW b \in Admins, b # a PROVE ReqOK(b)'
        OBVIOUS
    <2>1. /\ handler'[b] = handler[b] /\ req'[b] = req[b] /\ ask'[b] = ask[b] /\ pub' = pub
          /\ ReqOK(b)
        BY <1>0, ActorFacts DEF AdminFrame, ReqInv
    <2> QED
        BY <2>1 DEF ReqOK, AdminFrame
<1>5. ReqInv'
    BY <1>4, Zenon DEF ReqInv
<1>6. AnswerNotOlder'
    BY <1>0 DEF AnswerNotOlder, AnswerOK, AdminFrame
<1> QED
    BY <1>2, <1>3, <1>5, <1>6, TypeParts DEF HostInv

(* A request is over. *)
LEMMA FinishedFacts ==
    ASSUME HostInv, NEW a \in Admins, Finished(a)
    PROVE  /\ handler' \in [Admins -> {"off", "idle", "routed", "restart", "replied"}]
           /\ req' \in [Admins -> Requests] /\ body' \in [Admins -> Nat]
           /\ handler'[a] = "idle"
           /\ \A b \in Admins : b # a =>
                 handler'[b] = handler[b] /\ req'[b] = req[b] /\ body'[b] = body[b]
<1>1. NoReq \in Requests
    BY PluginFacts DEF NoReq, Requests
<1> QED
    BY <1>1, AdminFacts DEF Finished

(* A request is answered. *)
LEMMA RepliedFacts ==
    ASSUME HostInv, NEW a \in Admins, NEW g \in Nat, Replied(a, g)
    PROVE  /\ handler' \in [Admins -> {"off", "idle", "routed", "restart", "replied"}]
           /\ req' = req /\ body' \in [Admins -> Nat]
           /\ handler'[a] = "replied" /\ body'[a] = g
           /\ \A b \in Admins : b # a =>
                 handler'[b] = handler[b] /\ req'[b] = req[b] /\ body'[b] = body[b]
BY AdminFacts, Zenon DEF Replied

(* A connection is accepted, or an answer has been sent. *)
LEMMA ConnectInv ==
    ASSUME HostInv, NEW a \in Admins, Connect(a) \/ Answered(a)
    PROVE  HostInv'
<1>1. /\ UNCHANGED <<daemon, managers, locks, mon>>
      /\ handler[a] \in {"off", "replied"} /\ handler'[a] = "idle"
      /\ handler' \in [Admins -> {"off", "idle", "routed", "restart", "replied"}]
      /\ req' \in [Admins -> Requests] /\ body' \in [Admins -> Nat]
      /\ \A b \in Admins : b # a =>
            handler'[b] = handler[b] /\ req'[b] = req[b] /\ body'[b] = body[b]
    BY AdminFacts, FinishedFacts, Zenon DEF Connect, Answered
<1>2. ctx # "unset"
    BY AdminFacts, Zenon DEF Connect, Answered, HostInv, AskInv
<1>3. LockTypes' /\ LockInv' /\ \A q \in Plugins : SameStage(q)
    BY <1>1, SameLocks, Zenon
<1>4. UNCHANGED <<ask, client, pub>> /\ ask[a].at = "none"
    BY <1>1, AdminFacts, Zenon DEF locks, managers
<1>5. ManagerTypes' /\ ManagerInv' /\ PhaseInv' /\ GenInv'
    BY <1>1, <1>3, <1>4, CallerInv, Zenon
<1>6. AdminFrame(a) /\ ReqOK(a)' /\ AnswerOK(a)'
    BY <1>1, <1>4, Zenon DEF AdminFrame, ReqOK, AnswerOK
<1> QED
    BY <1>1, <1>2, <1>3, <1>4, <1>5, <1>6, AdminInv, Zenon

(* The route of a request reads the plugin's state. *)
LEMMA RouteTargetInv ==
    ASSUME HostInv, NEW a \in Admins, NEW p \in Plugins, NEW kind \in {"call", "restart"},
           RouteTarget(a, p, kind)
    PROVE  HostInv'
<1> DEFINE r == [kind |-> kind, plugin |-> p, gen |-> gen[p], healthy |-> healthy[p]]
<1>1. /\ Alive /\ handler[a] = "idle" /\ UNCHANGED <<daemon, managers, locks, mon, body>>
      /\ req' = [req EXCEPT ![a] = r] /\ handler' = [handler EXCEPT ![a] = "routed"]
    BY Zenon DEF RouteTarget
<1>2. /\ pub[p] \in Nat /\ gen[p] \in Nat /\ healthy[p] \in BOOLEAN
      /\ gen[p] <= pub[p] + 1
      /\ client[p] \/ healthy[p] => gen[p] <= pub[p]
    BY <1>1, PluginInv DEF ManagerTypes, ManagerOK, GenOK, Starting
<1>3. /\ r \in Requests /\ r.plugin = p /\ r.gen = gen[p] /\ r.healthy = healthy[p]
    BY <1>2, PluginFacts, Zenon DEF Requests
<1> HIDE DEF r
<1>4. /\ handler' \in [Admins -> {"off", "idle", "routed", "restart", "replied"}]
      /\ req' \in [Admins -> Requests] /\ body' \in [Admins -> Nat]
      /\ handler'[a] = "routed" /\ req'[a] = r
      /\ \A b \in Admins : b # a =>
            handler'[b] = handler[b] /\ req'[b] = req[b] /\ body'[b] = body[b]
    BY <1>1, <1>3, AdminFacts
<1>5. LockTypes' /\ LockInv' /\ \A q \in Plugins : SameStage(q)
    BY <1>1, SameLocks
<1>6. UNCHANGED <<ask, client, pub>> /\ ask[a].at = "none" /\ ctx # "unset"
    BY <1>1, AdminFacts DEF locks, managers
<1>7. ManagerTypes' /\ ManagerInv' /\ PhaseInv' /\ GenInv'
    BY <1>1, <1>5, <1>6, CallerInv, Zenon
<1>8. AdminFrame(a) /\ AnswerOK(a)'
    BY <1>1, <1>4, <1>6, Zenon DEF AdminFrame, AnswerOK
<1>9. ReqOK(a)'
    BY <1>2, <1>3, <1>4, <1>6, Zenon DEF ReqOK
<1> QED
    BY <1>4, <1>5, <1>6, <1>7, <1>8, <1>9, AdminInv, Zenon

(* Echo and Heartbeat are answered by the trusted generation ... *)
LEMMA CallRepliedInv ==
    ASSUME HostInv, NEW a \in Admins, CallReplied(a)
    PROVE  HostInv'
<1>1. /\ Alive /\ handler[a] = "routed" /\ req[a].kind = "call"
      /\ req[a].plugin \in Plugins /\ ctx # "unset" /\ ask[a].at = "none"
    BY AdminFacts DEF CallReplied, ReqOK
<1>2. PICK p \in Plugins : p = req[a].plugin
    BY <1>1
<1>3. /\ client[p] /\ UNCHANGED <<gen, client, cmd, closed, child, pub>>
      /\ \E h \in BOOLEAN : healthy' = [healthy EXCEPT ![p] = h]
      /\ UNCHANGED <<daemon, locks, mon>>
    BY <1>2, Zenon DEF CallReplied
<1>4. PICK g \in Nat : g = gen[p]
    BY PluginInv
<1>5. Replied(a, g)
    BY <1>2, <1>4, Zenon DEF CallReplied, Replied
<1>6. /\ handler' \in [Admins -> {"off", "idle", "routed", "restart", "replied"}]
      /\ req' = req /\ body' \in [Admins -> Nat] /\ req \in [Admins -> Requests]
      /\ handler'[a] = "replied" /\ body'[a] = g
      /\ \A b \in Admins : b # a =>
            handler'[b] = handler[b] /\ req'[b] = req[b] /\ body'[b] = body[b]
    BY <1>5, RepliedFacts, AdminFacts
<1>7. HealthEffect(p)
    BY <1>3, ReplyEffect, Zenon
<1>8. ManagerTypes' /\ LockTypes' /\ LockInv' /\ ManagerInv' /\ PhaseInv' /\ GenInv'
    BY <1>1, <1>3, <1>7, HealthInv
<1>9. ask' = ask
    BY <1>3 DEF locks
<1>10. req[a].gen <= g
    <2>1. req[a].gen <= pub[p]
        BY <1>1, <1>2, <1>3, AdminFacts, Zenon DEF ReqOK
    <2>2. gen[p] = pub[p]
        BY <1>1, <1>3, PluginInv, Zenon DEF ManagerOK, GenOK, Starting
    <2> QED
        BY <2>1, <2>2, <1>4, Zenon
<1>11. AdminFrame(a) /\ ReqOK(a)'
    BY <1>1, <1>3, <1>6, <1>9, Zenon DEF AdminFrame, ReqOK
<1>12. AnswerOK(a)'
    <2>1. req[a].gen \in Nat
        BY AdminFacts, Zenon DEF Requests
    <2> QED
        BY <1>1, <1>6, <1>10, <2>1, Zenon DEF AnswerOK
<1> QED
    BY <1>1, <1>6, <1>8, <1>9, <1>11, <1>12, AdminInv, Zenon

(* ... or fail. *)
LEMMA CallFailsInv ==
    ASSUME HostInv, NEW a \in Admins, CallFails(a)
    PROVE  HostInv'
<1>1. /\ handler[a] = "routed" /\ ctx # "unset" /\ ask[a].at = "none"
      /\ req[a].plugin \in Plugins /\ Finished(a) /\ UNCHANGED <<daemon, locks, mon>>
    BY AdminFacts, Zenon DEF CallFails, ReqOK
<1>2. PICK p \in Plugins : p = req[a].plugin
    BY <1>1
<1>3. HealthEffect(p)
    <2>1. Poison(p) \/ UNCHANGED managers
        BY <1>2, Zenon DEF CallFails, Poison
    <2> QED
        BY <2>1, PoisonEffect, Zenon
<1>4. ManagerTypes' /\ LockTypes' /\ LockInv' /\ ManagerInv' /\ PhaseInv' /\ GenInv'
    BY <1>1, <1>3, HealthInv, Zenon
<1>5. ask' = ask /\ pub' = pub /\ \A q \in Plugins : client'[q] => client[q]
    BY <1>1, <1>3, Zenon DEF locks, HealthEffect, SameManager
<1>6. AdminFrame(a) /\ ReqOK(a)' /\ AnswerOK(a)'
    BY <1>1, <1>5, FinishedFacts DEF AdminFrame, ReqOK, AnswerOK
<1> QED
    BY <1>1, <1>4, <1>5, <1>6, FinishedFacts, AdminInv, Zenon

(* A RestartPlugin asks the manager for a Restart ... *)
LEMMA RestartPluginInv ==
    ASSUME HostInv, NEW a \in Admins, RestartPlugin(a)
    PROVE  HostInv'
<1>1. /\ handler[a] = "routed" /\ ctx # "unset" /\ ask[a].at = "none" /\ a \in Actors /\ a # Main
      /\ req[a].plugin \in Plugins /\ UNCHANGED <<daemon, managers, mon, req, body>>
      /\ handler' = [handler EXCEPT ![a] = "restart"]
    BY AdminFacts, Zenon DEF RestartPlugin, ReqOK
<1>2. PICK p \in Plugins : p = req[a].plugin
    BY <1>1, Zenon
<1>3. Request(a, p, "restart")
    BY <1>2, Zenon DEF RestartPlugin, Request
<1>4. LockTypes' /\ LockInv' /\ (\A q \in Plugins : SameStage(q)) /\ LockTypes
    BY <1>1, <1>3, RequestLocks, TypeParts, Zenon DEF HostInv
<1>5. /\ ask'[a].at = "wait" /\ ask'[a].op = "restart" /\ ask'[a].plugin = p
      /\ \A b \in Actors : b # a => ask'[b] = ask[b]
    BY <1>1, <1>3, <1>4, Zenon DEF Request, LockTypes
<1>6. ManagerTypes' /\ ManagerInv' /\ PhaseInv' /\ GenInv'
    BY <1>1, <1>4, <1>5, CallerInv, ActorFacts, Zenon
<1>7. /\ handler' \in [Admins -> {"off", "idle", "routed", "restart", "replied"}]
      /\ req' \in [Admins -> Requests] /\ body' \in [Admins -> Nat]
      /\ handler'[a] = "restart"
      /\ \A b \in Admins : b # a => handler'[b] = handler[b]
    BY <1>1, AdminFacts, Zenon
<1>8. pub' = pub /\ client' = client
    BY <1>1, Zenon DEF managers
<1>9. AdminFrame(a) /\ AnswerOK(a)'
    BY <1>1, <1>5, <1>7, <1>8, Zenon DEF AdminFrame, AnswerOK
<1>10. ReqOK(a)'
    BY <1>1, <1>5, <1>7, <1>8, AdminFacts DEF ReqOK
<1> QED
    BY <1>1, <1>2, <1>4, <1>5, <1>6, <1>7, <1>9, <1>10, AdminInv, Zenon

(* ... and, when that is over, reads the state. *)
LEMMA RestartedInv ==
    ASSUME HostInv, NEW a \in Admins, Restarted(a)
    PROVE  HostInv'
<1>1. /\ Alive /\ handler[a] = "restart" /\ ctx # "unset" /\ a \in Actors /\ a # Main
      /\ req[a].plugin \in Plugins /\ UNCHANGED <<daemon, managers, mon>>
    BY AdminFacts, Zenon DEF Restarted, ReqOK
<1>2. PICK p \in Plugins : p = req[a].plugin
    BY <1>1, Zenon
<1>3. PICK g \in Nat : g = gen[p]
    BY PluginInv
<1>4. \/ Outcome(a, "ok") /\ Replied(a, g)
      \/ Outcome(a, "err") /\ Finished(a)
    BY <1>2, <1>3, Zenon DEF Restarted, Replied
<1>5. LockTypes' /\ LockInv' /\ (\A q \in Plugins : SameStage(q)) /\ LockTypes
    BY <1>1, <1>4, OutcomeLocks, TypeParts, Zenon DEF HostInv
<1>6. ask'[a].at = "none" /\ \A b \in Actors : b # a => ask'[b] = ask[b]
    BY <1>1, <1>4, <1>5 DEF Outcome, LockTypes, NoAsk
<1>7. ManagerTypes' /\ ManagerInv' /\ PhaseInv' /\ GenInv'
    BY <1>1, <1>5, <1>6, CallerInv, ActorFacts, Zenon
<1>8. /\ handler' \in [Admins -> {"off", "idle", "routed", "restart", "replied"}]
      /\ req' \in [Admins -> Requests] /\ body' \in [Admins -> Nat]
      /\ handler'[a] \in {"idle", "replied"}
      /\ \A b \in Admins : b # a =>
            handler'[b] = handler[b] /\ req'[b] = req[b] /\ body'[b] = body[b]
    BY <1>4, RepliedFacts, FinishedFacts, AdminFacts, Zenon
<1>9. pub' = pub /\ client' = client
    BY <1>1, Zenon DEF managers
<1>10. AdminFrame(a) /\ ReqOK(a)'
    BY <1>1, <1>6, <1>8, <1>9 DEF AdminFrame, ReqOK
<1>11. AnswerOK(a)'
    <2>1. CASE Outcome(a, "ok") /\ Replied(a, g)
        <3>1. handler'[a] = "replied" /\ body'[a] = g /\ req'[a] = req[a]
            BY <2>1, RepliedFacts, Zenon
        <3>2. req[a].gen <= pub[p] /\ (req[a].healthy => req[a].gen < pub[p])
            BY <2>1, <1>2, AdminFacts, Zenon DEF Outcome, ReqOK
        <3>3. pub[p] <= gen[p] /\ pub[p] \in Nat /\ req[a].gen \in Nat
            BY <1>1, PluginInv, AdminFacts DEF GenOK, Requests
        <3> QED
            BY <1>3, <3>1, <3>2, <3>3 DEF AnswerOK
    <2>2. CASE Outcome(a, "err") /\ Finished(a)
        BY <2>2, FinishedFacts, Zenon DEF AnswerOK
    <2> QED
        BY <1>4, <2>1, <2>2, Zenon
<1> QED
    BY <1>1, <1>5, <1>6, <1>7, <1>8, <1>10, <1>11, AdminInv, Zenon

-----------------------------------------------------------------------------
(* The main goroutine. *)

(* What the main goroutine asks for, and when the context is set. *)
MainAsk ==
    /\ ask[Main].at # "none" =>
          /\ main \in {"start", "unwind", "close"} /\ ask[Main].op = MainOp[main]
          /\ ask[Main].plugin = idx
    /\ main \in {"new", "start", "unwind", "supervise"} => ctx = "unset"
    /\ main \in {"listen", "serve"} => ctx # "unset"

(* A step of the main goroutine that leaves the managers and the services   *)
(* alone keeps the invariant if it keeps what is about the main goroutine.  *)
LEMMA MainInv ==
    ASSUME HostInv, UNCHANGED <<managers, mon, admin>>,
           DaemonTypes', LockTypes', LockInv', \A q \in Plugins : SameStage(q),
           \A b \in Actors : b # Main => ask'[b] = ask[b],
           Alive' => Alive, ctx' = "unset" => ctx = "unset", MainAsk', PhaseInv'
    PROVE  HostInv'
<1>0. ManagerTypes /\ ServiceTypes /\ AskInv /\ ManagerInv /\ GenInv
    BY TypeParts DEF HostInv
<1>1. /\ UNCHANGED <<gen, healthy, client, cmd, closed, child, pub, mon>>
      /\ UNCHANGED <<handler, req, body>>
    BY Zenon DEF managers, admin
<1>2. ManagerTypes' /\ ServiceTypes'
    BY <1>0, <1>1, Zenon DEF ManagerTypes, ServiceTypes
<1>3. ManagerInv' /\ GenInv'
    BY <1>0, <1>1, SameManagerOK, Zenon DEF ManagerInv, GenInv, SameManager
<1>4. AskInv'
    BY <1>0, <1>1, ActorFacts DEF AskInv, MainAsk
<1>5. ReqInv' /\ AnswerNotOlder'
    BY <1>1, SameRequests, ActorFacts, Zenon
<1> QED
    BY <1>2, <1>3, <1>4, <1>5, TypeParts, Zenon DEF HostInv

(* The main goroutine asks for nothing outside its loops over the plugins,  *)
(* and as long as it is the only one there no lock is held but for it.      *)
LEMMA MainFacts ==
    ASSUME HostInv
    PROVE  /\ DaemonTypes /\ MainAsk /\ PhaseInv /\ LockTypes /\ LockInv
           /\ Main \in Actors
           /\ ask[Main].at # "none" => idx \in Plugins
           /\ ask[Main].at = "none" /\ ctx = "unset" => \A p \in Plugins : stage[p] = "free"
           /\ ask[Main].at # "hold" => \A p \in Plugins : stage[p] # "free" => Op(p) = "restart"
<1>0. TypeOK /\ DaemonTypes /\ LockTypes /\ LockInv /\ AskInv /\ PhaseInv
    BY TypeParts, Zenon DEF HostInv
<1>1. MainAsk /\ Main \in Actors /\ (ask[Main].at # "none" => idx \in Plugins)
    BY <1>0, ActorFacts DEF AskInv, MainAsk, LockInv
<1>2. \A p \in Plugins : stage[p] # "free" => ask[holder[p]].at = "hold"
    BY <1>0, HolderFacts, Zenon
<1>3. ask[Main].at = "none" /\ ctx = "unset" => \A p \in Plugins : stage[p] = "free"
    BY <1>0, <1>2, HolderKinds, Zenon
<1>4. ask[Main].at # "hold" => \A p \in Plugins : stage[p] # "free" => Op(p) = "restart"
    BY <1>0, <1>2, HolderKinds, Zenon
<1> QED
    BY <1>0, <1>1, <1>3, <1>4

(* A request of the main goroutine for the plugin at which its loop is. *)
LEMMA MainRequestInv ==
    ASSUME HostInv, NEW o \in {"start", "kill", "close"}, idx \in Plugins,
           Request(Main, idx, o), UNCHANGED <<daemon, managers, mon, admin>>,
           main \in {"start", "unwind", "close"}, o = MainOp[main],
           main = "unwind" => idx <= started
    PROVE  HostInv'
<1>1. PICK p \in Plugins : Request(Main, p, o)
    BY Zenon DEF Request
<1>2. LockTypes' /\ LockInv' /\ \A q \in Plugins : SameStage(q)
    BY <1>1, MainFacts, RequestLocks, Zenon
<1>3. /\ ask[Main].at = "none" /\ ask'[Main].at = "wait"
      /\ ask'[Main].op = o /\ ask'[Main].plugin = idx
      /\ \A b \in Actors : b # Main => ask'[b] = ask[b]
    BY MainFacts DEF Request, LockTypes
<1>4. /\ UNCHANGED <<main, idx, started, ctx, adminSock>>
      /\ UNCHANGED <<gen, healthy, client, cmd, closed, child, pub>>
    BY DEF daemon, managers
<1>5. DaemonTypes' /\ MainAsk'
    BY <1>3, <1>4, MainFacts, Zenon DEF DaemonTypes, MainAsk
<1>6. PhaseInv'
    BY <1>3, <1>4, MainFacts, Zenon DEF PhaseInv
<1> QED
    BY <1>2, <1>3, <1>4, <1>5, <1>6, MainInv DEF Alive

(* It asks for a start, in the unwinding for a kill, and for a close. *)
LEMMA MainNextInv ==
    ASSUME HostInv, StartNext \/ UnwindNext \/ CloseNext
    PROVE  HostInv'
<1>1. CASE StartNext
    <2>1. idx \in Plugins
        BY <1>1, MainFacts, PluginFacts DEF StartNext, PhaseInv, DaemonTypes, Plugins
    <2> QED
        BY <1>1, <2>1, MainRequestInv, Zenon DEF StartNext, MainOp
<1>2. CASE UnwindNext
    <2>1. idx \in Plugins
        BY <1>2, MainFacts, PluginFacts DEF UnwindNext, DaemonTypes, Plugins
    <2> QED
        BY <1>2, <2>1, MainRequestInv, Zenon DEF UnwindNext, MainOp
<1>3. CASE CloseNext
    <2>1. idx \in Plugins
        BY <1>3, MainFacts, PluginFacts DEF CloseNext, DaemonTypes, Plugins
    <2> QED
        BY <1>3, <2>1, MainRequestInv, Zenon DEF CloseNext, MainOp
<1> QED
    BY <1>1, <1>2, <1>3, Zenon

(* What noting an outcome does to the locks. *)
LEMMA MainOutcome ==
    ASSUME HostInv, NEW r \in {"ok", "err"}, Outcome(Main, r)
    PROVE  /\ LockTypes' /\ LockInv' /\ \A q \in Plugins : SameStage(q)
           /\ ask[Main].at = r /\ ask'[Main].at = "none" /\ idx \in Plugins
           /\ \A b \in Actors : b # Main => ask'[b] = ask[b]
<1>1. LockTypes' /\ LockInv' /\ \A q \in Plugins : SameStage(q)
    BY MainFacts, OutcomeLocks, Zenon
<1>2. /\ ask[Main].at = r /\ ask'[Main].at = "none"
      /\ \A b \in Actors : b # Main => ask'[b] = ask[b]
    BY MainFacts, Zenon DEF Outcome, LockTypes, NoAsk
<1> QED
    BY <1>1, <1>2, MainFacts, Zenon

(* StartAll goes on after a start ... *)
LEMMA StartDoneInv ==
    ASSUME HostInv, StartDone
    PROVE  HostInv'
<1>1. /\ main = "start" /\ Outcome(Main, "ok") /\ idx' = idx + 1
      /\ main' = IF idx = N THEN "supervise" ELSE "start"
      /\ UNCHANGED <<started, ctx, adminSock>> /\ UNCHANGED <<managers, mon, admin>>
      /\ UNCHANGED <<gen, healthy, client, cmd, closed, child, pub>>
    BY Zenon DEF StartDone, managers
<1>2. /\ LockTypes' /\ LockInv' /\ \A q \in Plugins : SameStage(q)
      /\ ask[Main].at = "ok" /\ ask'[Main].at = "none" /\ idx \in Plugins
      /\ \A b \in Actors : b # Main => ask'[b] = ask[b]
    BY <1>1, MainOutcome
<1>3. idx \in Int /\ 1 <= idx /\ idx <= N /\ N \in Int
    BY <1>2, PluginFacts, Zenon
<1>4. DaemonTypes' /\ MainAsk'
    BY <1>1, <1>2, <1>3, MainFacts DEF DaemonTypes, MainAsk
<1>5. PhaseInv'
    <2>1. /\ \A p \in Plugins : p <= idx => client[p]
          /\ \A p \in Plugins : p > idx => ~cmd[p]
          /\ \A p \in Plugins : ~closed[p]
          /\ ~adminSock
        BY <1>1, <1>2, MainFacts, PluginFacts DEF PhaseInv
    <2>2. CASE idx = N
        BY <1>1, <2>1, <2>2, PluginFacts, Zenon DEF PhaseInv
    <2>3. CASE idx # N
        <3>1. idx + 1 \in Plugins
            BY <1>3, <2>3 DEF Plugins
        <3>2. /\ idx' <= N
              /\ \A p \in Plugins : p < idx' => client[p]
              /\ \A p \in Plugins : p > idx' => ~cmd[p]
              /\ ~cmd[idx']
            BY <1>1, <1>3, <2>1, <2>3, <3>1, PluginFacts
        <3> QED
            BY <1>1, <1>2, <2>1, <2>3, <3>2, Zenon DEF PhaseInv
    <2> QED
        BY <2>2, <2>3, Zenon
<1> QED
    BY <1>1, <1>2, <1>4, <1>5, MainInv, Zenon DEF Alive

(* ... and kills what it has started when one has failed. *)
LEMMA StartFailedInv ==
    ASSUME HostInv, StartFailed
    PROVE  HostInv'
<1>1. /\ main = "start" /\ Outcome(Main, "err") /\ idx' = 1 /\ main' = "unwind"
      /\ started' = idx - 1
      /\ UNCHANGED <<ctx, adminSock>> /\ UNCHANGED <<managers, mon, admin>>
      /\ UNCHANGED <<gen, healthy, client, cmd, closed, child, pub>>
    BY Zenon DEF StartFailed, managers
<1>2. /\ LockTypes' /\ LockInv' /\ \A q \in Plugins : SameStage(q)
      /\ ask[Main].at = "err" /\ ask'[Main].at = "none" /\ idx \in Plugins
      /\ \A b \in Actors : b # Main => ask'[b] = ask[b]
    BY <1>1, MainOutcome, Zenon
<1>3. idx \in Int /\ 1 <= idx /\ idx <= N /\ N \in Int
    BY <1>2, PluginFacts, Zenon
<1>4. DaemonTypes' /\ MainAsk'
    BY <1>1, <1>2, <1>3, MainFacts DEF DaemonTypes, MainAsk
<1>5. PhaseInv'
    <2>1. /\ \A p \in Plugins : p >= idx => ~cmd[p]
          /\ \A p \in Plugins : ~closed[p]
          /\ ~adminSock
        BY <1>1, <1>2, MainFacts, PluginFacts DEF PhaseInv
    <2> QED
        BY <1>1, <1>2, <1>3, <2>1, PluginFacts DEF PhaseInv
<1> QED
    BY <1>1, <1>2, <1>4, <1>5, MainInv, Zenon DEF Alive

(* The unwinding of StartAll goes on, or is over. *)
LEMMA UnwindDoneInv ==
    ASSUME HostInv, UnwindDone
    PROVE  HostInv'
<1>1. /\ main = "unwind" /\ UNCHANGED <<started, ctx, adminSock>>
      /\ UNCHANGED <<managers, mon, admin>>
      /\ UNCHANGED <<gen, healthy, client, cmd, closed, child, pub>>
    BY DEF UnwindDone, managers
<1>2. CASE (\E r \in {"ok", "err"} : Outcome(Main, r)) /\ idx' = idx + 1 /\ main' = main
    <2>1. /\ LockTypes' /\ LockInv' /\ \A q \in Plugins : SameStage(q)
          /\ ask[Main].at \in {"ok", "err"} /\ ask'[Main].at = "none" /\ idx \in Plugins
          /\ \A b \in Actors : b # Main => ask'[b] = ask[b]
        BY <1>2, MainOutcome
    <2>2. idx \in Int /\ 1 <= idx /\ idx <= N /\ N \in Int
        BY <2>1, PluginFacts, Zenon
    <2>3. DaemonTypes' /\ MainAsk'
        BY <1>1, <1>2, <2>1, <2>2, MainFacts DEF DaemonTypes, MainAsk
    <2>4. PhaseInv'
        <3>1. /\ \A p \in Plugins : p < idx + 1 \/ p > started => ~cmd[p]
              /\ \A p \in Plugins : ~closed[p]
              /\ ~adminSock
            BY <1>1, <2>1, <2>2, MainFacts, PluginFacts DEF PhaseInv
        <3> QED
            BY <1>1, <1>2, <2>1, <3>1, Zenon DEF PhaseInv
    <2> QED
        BY <1>1, <1>2, <2>1, <2>3, <2>4, MainInv, Zenon DEF Alive
<1>3. CASE idx > started /\ main' = "close" /\ idx' = 1 /\ UNCHANGED locks
    <2>1. ask[Main].at = "none" /\ ctx = "unset" /\ ask' = ask
        BY <1>1, <1>3, MainFacts DEF PhaseInv, MainAsk, locks, DaemonTypes
    <2>2. \A p \in Plugins : ~child[p]
        <3> TAKE p \in Plugins
        <3>1. stage[p] = "free"
            BY <2>1, MainFacts, Zenon
        <3>2. p < idx \/ p > started
            BY <1>3, MainFacts, PluginFacts DEF DaemonTypes
        <3>3. ~cmd[p]
            BY <1>1, <3>2, MainFacts, Zenon DEF PhaseInv
        <3> QED
            BY <1>1, <3>1, <3>3, PluginInv DEF ManagerOK, Alive
    <2>3. DaemonTypes' /\ MainAsk'
        BY <1>1, <1>3, <2>1, MainFacts, PluginFacts DEF DaemonTypes, MainAsk
    <2>4. PhaseInv'
        BY <1>1, <1>3, <2>1, <2>2, MainFacts, PluginFacts DEF PhaseInv
    <2> QED
        BY <1>1, <1>3, <2>1, <2>3, <2>4, SameLocks, MainInv, Zenon DEF Alive
<1> QED
    BY <1>2, <1>3, Zenon DEF UnwindDone

(* Host.Close goes on. *)
LEMMA CloseDoneInv ==
    ASSUME HostInv, CloseDone
    PROVE  HostInv'
<1>1. /\ main = "close" /\ idx' = idx + 1 /\ \E r \in {"ok", "err"} : Outcome(Main, r)
      /\ UNCHANGED <<main, started, ctx, adminSock>> /\ UNCHANGED <<managers, mon, admin>>
      /\ UNCHANGED <<gen, healthy, client, cmd, closed, child, pub>>
    BY DEF CloseDone, managers
<1>2. /\ LockTypes' /\ LockInv' /\ \A q \in Plugins : SameStage(q)
      /\ ask[Main].at \in {"ok", "err"} /\ ask'[Main].at = "none" /\ idx \in Plugins
      /\ \A b \in Actors : b # Main => ask'[b] = ask[b]
    BY <1>1, MainOutcome, Zenon
<1>3. idx \in Int /\ 1 <= idx /\ idx <= N /\ N \in Int
    BY <1>2, PluginFacts
<1>4. DaemonTypes' /\ MainAsk'
    BY <1>1, <1>2, <1>3, MainFacts DEF DaemonTypes, MainAsk
<1>5. PhaseInv'
    <2>1. /\ \A p \in Plugins : p < idx + 1 => closed[p]
          /\ ctx = "unset" => \A p \in Plugins : ~child[p]
          /\ ~adminSock
        BY <1>1, <1>2, <1>3, MainFacts, PluginFacts DEF PhaseInv
    <2> QED
        BY <1>1, <1>2, <2>1, Zenon DEF PhaseInv
<1> QED
    BY <1>1, <1>2, <1>4, <1>5, MainInv, Zenon DEF Alive

(* NewHost has made the managers, or the listener comes and goes. *)
LEMMA MainAloneInv ==
    ASSUME HostInv,
           NewHost \/ Listen \/ ListenFails \/ ServeCancelled \/ AcceptFails \/ Signal
    PROVE  HostInv'
<1>1. /\ UNCHANGED <<managers, mon, admin>> /\ UNCHANGED locks /\ UNCHANGED started
      /\ \/ main = "new" /\ main' = "start" /\ UNCHANGED <<idx, ctx, adminSock>>
         \/ main = "listen" /\ main' = "serve" /\ adminSock' = TRUE /\ UNCHANGED <<idx, ctx>>
         \/ main \in {"listen", "serve"} /\ main' = "close" /\ adminSock' = FALSE
            /\ ctx' = "done" /\ idx' = 1
         \/ main \in {"listen", "serve"} /\ main' = main /\ ctx' = "done"
            /\ UNCHANGED <<idx, adminSock>>
    BY DEF NewHost, Listen, ListenFails, ServeCancelled, AcceptFails, ServeReturns, Signal
<1>2. /\ UNCHANGED <<gen, healthy, client, cmd, closed, child, pub, ask>>
      /\ ask[Main].at = "none" /\ main \in {"new", "listen", "serve"}
      /\ ctx' = "unset" => ctx = "unset"
    <2>1. UNCHANGED <<gen, healthy, client, cmd, closed, child, pub, ask>>
        BY <1>1 DEF managers, locks
    <2>2. main \in {"new", "listen", "serve"} /\ (ctx' = "unset" => ctx = "unset")
        BY <1>1, Zenon
    <2>3. ask[Main].at = "none"
        BY <2>2, MainFacts DEF MainAsk
    <2> QED
        BY <2>1, <2>2, <2>3, Zenon
<1>3. DaemonTypes'
    <2>1. 1 \in 1..(N + 1)
        BY PluginFacts
    <2> QED
        BY <2>1, <1>1, MainFacts, Zenon DEF DaemonTypes
<1>4. MainAsk'
    BY <1>1, <1>2, MainFacts, Zenon DEF MainAsk
<1>5. PhaseInv'
    BY <1>1, <1>2, MainFacts, PluginFacts DEF PhaseInv
<1> QED
    BY <1>1, <1>2, <1>3, <1>4, <1>5, SameLocks, MainInv, Zenon DEF Alive

(* NewHost fails before there is a process. *)
LEMMA NewHostFailsInv ==
    ASSUME HostInv, NewHostFails
    PROVE  HostInv'
<1>1. /\ main = "new" /\ main' = "exited" /\ UNCHANGED <<idx, started, ctx, adminSock>>
      /\ UNCHANGED <<gen, healthy, client, cmd, child, pub>>
      /\ UNCHANGED <<locks, mon, admin>> /\ closed' \in [Plugins -> BOOLEAN]
      /\ UNCHANGED <<ask, handler, req, body>>
    BY DEF NewHostFails, locks, admin
<1>2. LockTypes' /\ LockInv' /\ \A q \in Plugins : SameStage(q)
    BY <1>1, SameLocks
<1>3. ask[Main].at = "none" /\ ctx = "unset"
    BY <1>1, MainFacts, Zenon DEF MainAsk
<1>4. \A p \in Plugins : /\ stage[p] = "free" /\ stage'[p] = "free"
                         /\ ~cmd[p] /\ ~child[p] /\ ~client[p] /\ ~healthy[p]
    <2> TAKE p \in Plugins
    <2>1. stage[p] = "free" /\ ~cmd[p]
        BY <1>1, <1>3, MainFacts, Zenon DEF PhaseInv
    <2> QED
        BY <1>1, <1>2, <2>1, PluginInv, Zenon DEF ManagerOK, SameStage, Alive
<1>5. ManagerInv' /\ GenInv'
    BY <1>1, <1>4, Zenon DEF ManagerInv, ManagerOK, GenInv, GenOK, Alive, Starting
<1>6. TypeOK'
    BY <1>1, <1>2, TypeParts, Zenon DEF HostInv, DaemonTypes, ManagerTypes, ServiceTypes
<1>7. AskInv'
    BY <1>1, <1>3, Zenon DEF HostInv, AskInv
<1>8. PhaseInv'
    BY <1>1, <1>4, MainFacts, Zenon DEF PhaseInv
<1>9. ReqInv' /\ AnswerNotOlder'
    BY <1>1, SameRequests
<1> QED
    BY <1>2, <1>5, <1>6, <1>7, <1>8, <1>9, Zenon DEF HostInv

(* The monitors begin when all plugins are started. *)
LEMMA SuperviseInv ==
    ASSUME HostInv, Supervise
    PROVE  HostInv'
<1>1. /\ main = "supervise" /\ main' = "listen" /\ ctx' = "live"
      /\ mon' = [p \in Plugins |-> "tick"]
      /\ UNCHANGED <<idx, started, adminSock>> /\ UNCHANGED <<managers, locks, admin>>
      /\ UNCHANGED <<gen, healthy, client, cmd, closed, child, pub>>
      /\ UNCHANGED <<ask, handler, req, body>>
    BY DEF Supervise, managers, locks, admin
<1>2. LockTypes' /\ LockInv' /\ \A q \in Plugins : SameStage(q)
    BY <1>1, SameLocks, Zenon
<1>3. AskInv /\ ask[Main].at = "none" /\ ctx = "unset"
    BY <1>1, MainFacts, Zenon DEF MainAsk, HostInv
<1>4. TypeOK'
    BY <1>1, <1>2, TypeParts, Zenon DEF HostInv, DaemonTypes, ManagerTypes, ServiceTypes
<1>5. AskInv'
    BY <1>1, <1>3, Zenon DEF AskInv
<1>6. ManagerInv' /\ GenInv'
    BY <1>1, <1>2, SameManagerOK, Zenon DEF HostInv, ManagerInv, GenInv, SameManager, Alive
<1>7. PhaseInv'
    BY <1>1, MainFacts, Zenon DEF PhaseInv
<1>8. ReqInv' /\ AnswerNotOlder'
    BY <1>1, SameRequests, Zenon
<1> QED
    BY <1>2, <1>4, <1>5, <1>6, <1>7, <1>8, Zenon DEF HostInv

(* The daemon ends: it leaves processes behind only if a signal ends it. *)
LEMMA EndInv ==
    ASSUME HostInv, SignalKills \/ Exit
    PROVE  HostInv'
<1>1. /\ main \in {"new", "start", "unwind", "supervise", "close"}
      /\ main' \in {"killed", "exited"} /\ GoroutinesEnd
      /\ main' = "exited" => main = "close" /\ idx > N
      /\ UNCHANGED <<idx, started, ctx, adminSock>>
      /\ UNCHANGED <<gen, healthy, client, cmd, closed, child, pub>>
    BY Zenon DEF SignalKills, Exit, managers
<1>2. /\ LockTypes' /\ LockInv' /\ \A p \in Plugins : stage'[p] = "free"
      /\ \A a \in Actors : ask'[a].at = "none"
    BY <1>1, EndLocks
<1>3. /\ \A p \in Plugins : mon'[p] = "off"
      /\ \A a \in Admins : handler'[a] = "off"
    BY <1>1, Zenon DEF GoroutinesEnd
<1>4. ServiceTypes'
    BY <1>1, PluginFacts DEF GoroutinesEnd, ServiceTypes, NoReq
<1>5. TypeOK'
    BY <1>1, <1>2, <1>4, TypeParts, Zenon DEF HostInv, DaemonTypes, ManagerTypes
<1>6. AskInv'
    BY <1>1, <1>2, <1>3, ActorFacts, Zenon DEF AskInv
<1>7. ManagerInv' /\ GenInv'
    BY <1>1, <1>2, Zenon DEF HostInv, ManagerInv, ManagerOK, GenInv, GenOK, Alive, Starting
<1>8. main' = "exited" => \A p \in Plugins : ~child[p]
    <2> SUFFICES ASSUME main' = "exited", NEW p \in Plugins PROVE ~child[p]
        OBVIOUS
    <2>1. main = "close" /\ idx > N /\ idx \notin Plugins
        BY <1>1, PluginFacts DEF Plugins
    <2>2. closed[p]
        BY <2>1, MainFacts, PluginFacts DEF PhaseInv, DaemonTypes
    <2>3. ask[Main].at = "none" /\ (stage[p] # "free" => Op(p) = "restart")
        BY <2>1, MainFacts, Zenon
    <2> QED
        BY <2>1, <2>2, <2>3, PluginInv DEF ManagerOK, Alive, Starting
<1>9. PhaseInv'
    BY <1>1, <1>8, MainFacts, Zenon DEF PhaseInv
<1>10. ReqInv' /\ AnswerNotOlder'
    BY <1>2, <1>3, ActorFacts DEF ReqInv, ReqOK, AnswerNotOlder
<1> QED
    BY <1>2, <1>5, <1>6, <1>7, <1>9, <1>10, Zenon DEF HostInv

-----------------------------------------------------------------------------
(* The theorems. *)

(* The invariant holds of a daemon that has done nothing yet. *)
LEMMA HostInitInv == Init => HostInv
<1> SUFFICES ASSUME Init PROVE HostInv
    OBVIOUS
<1>1. NoAsk \in Asks /\ NoAsk.at = "none" /\ NoReq \in Requests
    BY PluginFacts DEF NoAsk, NoReq, Asks, Requests
<1>2. DaemonTypes /\ ManagerTypes /\ LockTypes /\ ServiceTypes
    <2>1. DaemonTypes
        <3>1. 1 \in 1..(N + 1) /\ 0 \in 0..N
            BY PluginFacts
        <3> QED
            BY <3>1, Zenon DEF Init, DaemonTypes
    <2>2. ManagerTypes
        BY PluginFacts DEF Init, ManagerTypes
    <2>3. LockTypes
        BY <1>1, Zenon DEF Init, LockTypes, Stages
    <2>4. ServiceTypes
        BY <1>1, Zenon DEF Init, ServiceTypes, Requests
    <2> QED
        BY <2>1, <2>2, <2>3, <2>4
<1>3. LockInv /\ AskInv
    BY <1>1, ActorFacts, Zenon DEF Init, LockInv, AskInv, Starting, Stopping
<1>4. ManagerInv /\ GenInv
    BY PluginFacts, Zenon DEF Init, ManagerInv, ManagerOK, GenInv, GenOK, Starting
<1>5. PhaseInv
    BY Zenon DEF Init, PhaseInv
<1>6. ReqInv /\ AnswerNotOlder
    BY <1>1, ActorFacts, Zenon DEF Init, ReqInv, ReqOK, AnswerNotOlder
<1> QED
    BY <1>2, <1>3, <1>4, <1>5, <1>6, TypeParts, Zenon DEF HostInv

(* No step of any goroutine breaks it. *)
LEMMA HostStepInv == HostInv /\ [Next]_vars => HostInv'
<1> SUFFICES ASSUME HostInv, [Next]_vars PROVE HostInv'
    OBVIOUS
<1>1. CASE MainStep \/ AcceptFails \/ Signal \/ SignalKills
    BY <1>1, MainAloneInv, NewHostFailsInv, MainNextInv, StartDoneInv, StartFailedInv,
       UnwindDoneInv, SuperviseInv, CloseDoneInv, EndInv, Zenon DEF MainStep
<1>2. CASE \E a \in Actors : Acquire(a)
    BY <1>2, AcquireInv
<1>3. ASSUME NEW p \in Plugins, ManagerStep(p) PROVE HostInv'
    BY <1>3, StopRejectedInv, StopFenceInv, StopReapInv, StartBeginInv, StartSpawnInv,
       StartFailsInv, StartPublishInv, Zenon DEF ManagerStep
<1>4. ASSUME NEW p \in Plugins, MonitorStep(p) PROVE HostInv'
    BY <1>4, MonitorRpcInv, MonitorRecoverInv, MonitorEndsInv, Zenon DEF MonitorStep
<1>5. ASSUME NEW a \in Admins, AdminStep(a) PROVE HostInv'
    BY <1>5, ConnectInv, RouteTargetInv, CallRepliedInv, CallFailsInv, RestartPluginInv,
       RestartedInv, Zenon DEF AdminStep
<1>6. CASE UNCHANGED vars
    <2>1. /\ UNCHANGED <<daemon, managers, locks, mon, admin>>
          /\ UNCHANGED <<main, idx, started, ctx, adminSock, ask, client, pub>>
        BY <1>6, Zenon DEF vars, daemon, managers, locks
    <2>2. MainAsk' /\ DaemonTypes' /\ PhaseInv'
        BY <2>1, MainFacts DEF MainAsk, DaemonTypes, PhaseInv, managers
    <2> QED
        BY <2>1, <2>2, SameLocks, MainInv, Zenon DEF Alive
<1> QED
    BY <1>1, <1>2, <1>3, <1>4, <1>5, <1>6, Zenon DEF Next, Ended

(* The inductive invariant holds of every reachable state of the daemon. *)
THEOREM HostInvariant == Spec => []HostInv
BY HostInitInv, HostStepInv, PTL DEF Spec

(* The state stays within its types: however often restarts fail and give   *)
(* back their generation id, it is a natural number and at most one above   *)
(* that of the last generation that may exist.                              *)
THEOREM HostTypeCorrect == Spec => []TypeOK
<1>1. HostInv => TypeOK
    BY DEF HostInv
<1> QED
    BY HostInvariant, <1>1, PTL

(* When run returns there is no plugin process and no admin socket left,    *)
(* for any number of plugins and of admin RPCs that restart them.           *)
THEOREM HostExitLeavesNothing == Spec => []ExitLeavesNothing
<1>1. HostInv => ExitLeavesNothing
    BY Zenon DEF HostInv, PhaseInv, ExitLeavesNothing
<1> QED
    BY HostInvariant, <1>1, PTL

(* StartAll starts every one of any number of plugins, or leaves none. *)
THEOREM HostStartAllOrNothing == Spec => []StartAllOrNothing
<1>1. HostInv => StartAllOrNothing
    BY DEF HostInv, PhaseInv, StartAllOrNothing
<1> QED
    BY HostInvariant, <1>1, PTL

(* The answer to an admin RPC is not older than its route, however many     *)
(* other RPCs and monitors restart the plugin meanwhile.                    *)
THEOREM HostAnswerNotOlder == Spec => []AnswerNotOlder
<1>1. HostInv => AnswerNotOlder
    BY Zenon DEF HostInv
<1> QED
    BY HostInvariant, <1>1, PTL

-----------------------------------------------------------------------------
(* Every step of the daemon is, for each manager, a step of the promise or  *)
(* none at all.                                                             *)
LEMMA StepKeepsTrust ==
    ASSUME HostInv, [Next]_vars, NEW p \in Plugins
    PROVE  Trust(p)!Next \/ UNCHANGED Trust(p)!vars
<1>1. CASE UNCHANGED managers
    BY <1>1 DEF managers, Trust!vars
<1>2. CASE NewHostFails
    <2>1. ~cmd[p] /\ ~closed[p]
        BY <1>2, MainFacts, Zenon DEF NewHostFails, PhaseInv
    <2>2. client[p] = FALSE /\ healthy[p] = FALSE /\ closed[p] = FALSE
        <3>1. ~client[p] /\ ~healthy[p]
            BY <2>1, PluginInv, Zenon DEF ManagerOK
        <3>2. client[p] \in BOOLEAN /\ healthy[p] \in BOOLEAN /\ closed[p] \in BOOLEAN
            BY PluginInv, Zenon DEF ManagerTypes
        <3> QED
            BY <2>1, <3>1, <3>2, Zenon
    <2>3. closed'[p] \in BOOLEAN /\ UNCHANGED <<client, healthy, pub>>
        BY <1>2 DEF NewHostFails
    <2>4. CASE closed'[p] = TRUE
        BY <2>2, <2>3, <2>4 DEF Trust!Next, Trust!Close
    <2>5. CASE closed'[p] = FALSE
        BY <2>2, <2>3, <2>5, Zenon DEF Trust!vars
    <2> QED
        BY <2>3, <2>4, <2>5, Zenon
<1>3. ASSUME NEW q \in Plugins, ManagerStep(q)
      PROVE  Trust(p)!Next \/ UNCHANGED Trust(p)!vars
    BY <1>3, ManagerKeepsTrust
<1>4. ASSUME NEW q \in Plugins, MonitorTick(q) \/ MonitorHeartbeatFails(q)
      PROVE  Trust(p)!Next \/ UNCHANGED Trust(p)!vars
    BY <1>4, HealthKeepsTrust, Zenon DEF MonitorTick, MonitorHeartbeatFails, Poison, managers
<1>5. ASSUME NEW a \in Admins, CallReplied(a) \/ CallFails(a)
      PROVE  Trust(p)!Next \/ UNCHANGED Trust(p)!vars
    <2>1. PICK q \in Plugins : q = req[a].plugin
        BY <1>5, AdminFacts, Zenon DEF CallReplied, CallFails, ReqOK
    <2>2. /\ UNCHANGED <<closed, pub>>
          /\ \/ Poison(q) \/ UNCHANGED managers
             \/ /\ client[q] /\ UNCHANGED client
                /\ \E h \in BOOLEAN : healthy' = [healthy EXCEPT ![q] = h]
        BY <1>5, <2>1, Zenon DEF CallReplied, CallFails, Poison, managers
    <2> QED
        BY <2>2, HealthKeepsTrust, Zenon
<1>6. CASE MainStep \/ AcceptFails \/ Signal \/ SignalKills
    <2>1. UNCHANGED managers \/ NewHostFails
        BY <1>6 DEF MainStep, AcceptFails, Signal, SignalKills, NewHost, StartNext, StartDone,
               StartFailed, UnwindNext, UnwindDone, Supervise, Listen, ListenFails,
               ServeCancelled, ServeReturns, CloseNext, CloseDone, Exit
    <2> QED
        BY <2>1, <1>1, <1>2, Zenon
<1>7. CASE (\E a \in Actors : Acquire(a)) \/ UNCHANGED vars
    BY <1>1, <1>7, Zenon DEF Acquire, vars
<1>8. ASSUME NEW q \in Plugins, MonitorStep(q)
      PROVE  Trust(p)!Next \/ UNCHANGED Trust(p)!vars
    BY <1>1, <1>4, <1>8, Zenon DEF MonitorStep, MonitorRecover, MonitorRestarted, MonitorCancelled
<1>9. ASSUME NEW a \in Admins, AdminStep(a)
      PROVE  Trust(p)!Next \/ UNCHANGED Trust(p)!vars
    BY <1>1, <1>5, <1>9, Zenon DEF AdminStep, Connect, RouteTarget, RestartPlugin, Restarted, Answered
<1> QED
    BY <1>3, <1>6, <1>7, <1>8, <1>9, Zenon DEF Next, Ended

(* Each of any number of managers trusts at most one generation at a time,  *)
(* each under a higher id than the one before and none once it is closed,   *)
(* whatever monitors, admin RPCs and the main goroutine do at once.         *)
THEOREM HostKeepsTrust == Spec => ManagersKeepTrust
<1>1. HostInv /\ [Next]_vars =>
          [\A p \in Plugins : Trust(p)!Next \/ UNCHANGED Trust(p)!vars]_vars
    BY StepKeepsTrust
<1> QED
    BY HostInvariant, <1>1, PTL DEF Spec, ManagersKeepTrust
=============================================================================
