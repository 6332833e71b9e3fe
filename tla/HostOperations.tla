--------------------------- MODULE HostOperations ---------------------------
(***************************************************************************)
(* The invariant of the daemon, and that the steps of the managers'        *)
(* operations, which hold a manager's lock, the RPCs and the callers of    *)
(* operations keep it.                                                     *)
(***************************************************************************)
EXTENDS Host, TLAPS

Starting == {"start", "spawn", "boot"}
Stopping == {"stop", "reap", "stopped"}

(* A manager is busy exactly while somebody holds its lock, who then has an *)
(* operation on it that can come to this stage.                             *)
LockInv ==
    /\ \A p \in Plugins :
          /\ stage[p] = "free" <=> holder[p] = Nobody
          /\ holder[p] # Nobody => ask[holder[p]].at = "hold" /\ ask[holder[p]].plugin = p
          /\ stage[p] \in Starting => Op(p) \in {"start", "restart"}
          /\ stage[p] \in Stopping => Op(p) \in {"restart", "kill", "close"}
    /\ \A a \in Actors :
          /\ ask[a].at # "none" => ask[a].plugin \in Plugins /\ ask[a].op # "none"
          /\ ask[a].at = "hold" => holder[ask[a].plugin] = a

MainOp == [start |-> "start", unwind |-> "kill", close |-> "close"]

(* Who asks for what: only the main goroutine until the context is set, and *)
(* nobody but the main goroutine ever asks for anything but a Restart.      *)
AskInv ==
    /\ ask[Main].at # "none" =>
          /\ main \in {"start", "unwind", "close"} /\ ask[Main].op = MainOp[main]
          /\ ask[Main].plugin = idx
    /\ \A p \in Plugins : ask[p].at # "none" =>
          ask[p].op = "restart" /\ ask[p].plugin = p /\ mon[p] = "restart"
    /\ \A a \in Admins : ask[a].at # "none" =>
          /\ ask[a].op = "restart" /\ ask[a].plugin = req[a].plugin
          /\ handler[a] = "restart"
    /\ ctx = "unset" => /\ \A p \in Plugins : mon[p] = "off"
                        /\ \A a \in Admins : handler[a] = "off"
    /\ main \in {"new", "start", "unwind", "supervise"} => ctx = "unset"
    /\ main \in {"listen", "serve"} => ctx # "unset"

(* What a manager has at each stage of an operation. *)
ManagerOK(p) ==
    /\ healthy[p] => client[p]
    /\ client[p] => cmd[p]
    /\ cmd[p] => child[p] /\ ~closed[p]
    /\ Alive /\ child[p] => cmd[p] \/ stage[p] \in {"reap", "boot"}
    /\ stage[p] \in {"reap", "stopped"} \cup Starting => ~cmd[p]
    /\ stage[p] \in Starting => ~closed[p]
    /\ stage[p] = "boot" => child[p]
    /\ stage[p] \in {"reap", "stopped"} => (closed[p] <=> Op(p) = "close")

ManagerInv == \A p \in Plugins : ManagerOK(p)

(* How far the main goroutine has come with the plugins. *)
PhaseInv ==
    /\ adminSock => main = "serve"
    /\ main \in {"new", "start", "unwind", "supervise"} => \A p \in Plugins : ~closed[p]
    /\ main = "new" => idx = 1 /\ \A p \in Plugins : ~cmd[p]
    /\ main = "start" =>
          /\ idx <= N
          /\ \A p \in Plugins : /\ p < idx => client[p]
                                /\ p > idx => ~cmd[p]
          /\ IF ask[Main].at = "ok" THEN client[idx] ELSE ~cmd[idx]
    /\ main = "unwind" =>
          /\ ask[Main].at # "none" => idx <= started
          /\ \A p \in Plugins : p < idx \/ p > started => ~cmd[p]
          /\ ask[Main].at \in {"ok", "err"} => ~cmd[idx]
    /\ main = "supervise" => \A p \in Plugins : client[p]
    /\ main = "close" =>
          /\ \A p \in Plugins : p < idx => closed[p]
          /\ ask[Main].at \in {"ok", "err"} => closed[idx]
          /\ ctx = "unset" => \A p \in Plugins : ~child[p]
    /\ main = "exited" => \A p \in Plugins : ~child[p]

(* A generation id beyond the one published last is that of a start. *)
GenOK(p) ==
    Alive => /\ gen[p] = IF stage[p] \in {"spawn", "boot"} THEN pub[p] + 1 ELSE pub[p]
             /\ stage[p] = "boot" => gen[p] <= MaxGen[p]

GenInv == \A p \in Plugins : GenOK(p)

(* What a route read of a plugin, against what has been published since. *)
ReqOK(a) ==
    LET p == req[a].plugin IN
    /\ handler[a] \in {"routed", "restart"} =>
          /\ p \in Plugins
          /\ req[a].gen <= pub[p] + 1
          /\ client[p] \/ req[a].healthy => req[a].gen <= pub[p]
    /\ ask[a].at = "ok" =>
          /\ req[a].gen <= pub[p]
          /\ req[a].healthy => req[a].gen < pub[p]

ReqInv == \A a \in Admins : ReqOK(a)

HostInv ==
    /\ TypeOK /\ LockInv /\ AskInv /\ ManagerInv /\ PhaseInv /\ GenInv /\ ReqInv
    /\ AnswerNotOlder

-----------------------------------------------------------------------------
(* The main goroutine, the monitors and the admin RPCs are told apart. *)
LEMMA ActorFacts ==
    /\ Main \in Actors /\ Main \notin Plugins /\ Main \notin Admins
    /\ Plugins \subseteq Actors /\ Admins \subseteq Actors /\ Nobody \notin Actors
    /\ \A a \in Actors : a = Main \/ a \in Plugins \/ a \in Admins
    /\ \A p \in Plugins : p \notin Admins
BY HostConstants DEF Actors, Plugins, Main, Nobody

(* Plugins are numbered from one. *)
LEMMA PluginFacts ==
    /\ N \in Nat /\ 1 \in Plugins /\ N \in Plugins
    /\ \A p \in Plugins : p \in Int /\ 1 <= p /\ p <= N /\ p \in 0..N /\ MaxGen[p] \in Nat
BY HostConstants DEF Plugins

-----------------------------------------------------------------------------
(* The locks and the operations that wait for them. *)

Stages == {"free", "stop", "reap", "stopped", "start", "spawn", "boot"}
Asks == [op : {"none", "start", "restart", "kill", "close"}, plugin : 0..N,
         at : {"none", "wait", "hold", "ok", "err"}]

LockTypes ==
    /\ holder \in [Plugins -> Actors \cup {Nobody}]
    /\ stage \in [Plugins -> Stages]
    /\ ask \in [Actors -> Asks]

(* The operation on a plugin stays what it is and where it is. *)
SameStage(q) == stage'[q] = stage[q] /\ (stage[q] # "free" => Op(q)' = Op(q))

(* The holder of a lock is a goroutine. *)
LEMMA HolderFacts ==
    ASSUME LockTypes, LockInv, NEW p \in Plugins, stage[p] # "free"
    PROVE  /\ holder[p] \in Actors /\ holder[p] # Nobody
           /\ ask[holder[p]].at = "hold" /\ ask[holder[p]].plugin = p
           /\ Op(p) = ask[holder[p]].op
BY DEF LockTypes, LockInv, Op

(* A goroutine that holds no lock may ask for an operation, or take note of *)
(* the outcome of one.                                                      *)
LEMMA AskLocks ==
    ASSUME LockTypes, LockInv, NEW a \in Actors, NEW r \in Asks,
           ask[a].at # "hold", r.at # "hold",
           r.at # "none" => r.plugin \in Plugins /\ r.op # "none",
           ask' = [ask EXCEPT ![a] = r], UNCHANGED <<holder, stage>>
    PROVE  LockTypes' /\ LockInv' /\ \A q \in Plugins : SameStage(q)
<1>1. LockTypes'
    BY DEF LockTypes
<1>2. /\ ask'[a] = r
      /\ \A b \in Actors : b # a => ask'[b] = ask[b]
      /\ \A q \in Plugins : holder[q] # a
    BY ActorFacts DEF LockTypes, LockInv
<1>3. \A q \in Plugins : holder[q] # Nobody =>
          holder[q] \in Actors /\ ask'[holder[q]] = ask[holder[q]]
    BY <1>2 DEF LockTypes
<1>4. \A q \in Plugins : stage[q] # "free" => Op(q)' = Op(q)
    BY <1>3 DEF Op, LockInv
<1>5. \A q \in Plugins :
          /\ stage'[q] = "free" <=> holder'[q] = Nobody
          /\ holder'[q] # Nobody => ask'[holder'[q]].at = "hold" /\ ask'[holder'[q]].plugin = q
          /\ stage'[q] \in Starting => Op(q)' \in {"start", "restart"}
          /\ stage'[q] \in Stopping => Op(q)' \in {"restart", "kill", "close"}
    BY <1>3, <1>4 DEF LockInv, Starting, Stopping
<1>6. \A b \in Actors :
          /\ ask'[b].at # "none" => ask'[b].plugin \in Plugins /\ ask'[b].op # "none"
          /\ ask'[b].at = "hold" => holder'[ask'[b].plugin] = b
    BY <1>2 DEF LockInv
<1> QED
    BY <1>1, <1>4, <1>5, <1>6 DEF LockInv, SameStage

(* Request is such a step ... *)
LEMMA RequestLocks ==
    ASSUME LockTypes, LockInv, NEW a \in Actors, NEW p \in Plugins,
           NEW o \in {"start", "restart", "kill", "close"}, Request(a, p, o)
    PROVE  LockTypes' /\ LockInv' /\ \A q \in Plugins : SameStage(q)
<1> DEFINE r == [op |-> o, plugin |-> p, at |-> "wait"]
<1>1. r \in Asks /\ r.at = "wait" /\ r.plugin = p /\ r.op # "none"
    BY PluginFacts DEF Asks
<1>2. ask' = [ask EXCEPT ![a] = r] /\ UNCHANGED <<holder, stage>> /\ ask[a].at = "none"
    BY DEF Request
<1> HIDE DEF r
<1> QED
    BY <1>1, <1>2, AskLocks, Zenon

(* ... and so is Outcome. *)
LEMMA OutcomeLocks ==
    ASSUME LockTypes, LockInv, NEW a \in Actors, NEW r \in {"ok", "err"}, Outcome(a, r)
    PROVE  LockTypes' /\ LockInv' /\ \A q \in Plugins : SameStage(q)
<1>1. NoAsk \in Asks /\ NoAsk.at = "none"
    BY PluginFacts DEF Asks, NoAsk
<1>2. /\ ask' = [ask EXCEPT ![a] = NoAsk] /\ UNCHANGED <<holder, stage>>
      /\ ask[a].at # "hold"
    BY DEF Outcome
<1> QED
    BY <1>1, <1>2, AskLocks, Zenon

(* A waiting goroutine takes a lock that nobody holds. *)
LEMMA AcquireLocks ==
    ASSUME LockTypes, LockInv, NEW a \in Actors, Acquire(a)
    PROVE  /\ LockTypes' /\ LockInv'
           /\ ask'[a] = [ask[a] EXCEPT !.at = "hold"]
           /\ \A b \in Actors : b # a => ask'[b] = ask[b]
           /\ ask[a].plugin \in Plugins /\ stage[ask[a].plugin] = "free"
           /\ stage'[ask[a].plugin] = IF ask[a].op = "start" THEN "start" ELSE "stop"
           /\ \A q \in Plugins : q # ask[a].plugin => SameStage(q)
<1>0. PICK p \in Plugins : p = ask[a].plugin
    BY DEF Acquire, LockInv
<1> DEFINE s == IF ask[a].op = "start" THEN "start" ELSE "stop"
<1>1. /\ ask[a].at = "wait" /\ holder[p] = Nobody /\ ask[a].op # "none"
      /\ stage[p] = "free" /\ ask[a] \in Asks
    BY <1>0 DEF Acquire, LockInv, LockTypes
<1>2. s \in {"start", "stop"} /\ s \in Stages
    BY DEF Stages
<1>3. /\ ask' = [ask EXCEPT ![a].at = "hold"]
      /\ holder' = [holder EXCEPT ![p] = a] /\ stage' = [stage EXCEPT ![p] = s]
    BY <1>0 DEF Acquire
<1>4. /\ ask'[a] = [ask[a] EXCEPT !.at = "hold"]
      /\ \A b \in Actors : b # a => ask'[b] = ask[b]
    BY <1>3 DEF LockTypes
<1>5. /\ ask'[a] \in Asks /\ ask'[a].at = "hold" /\ ask'[a].plugin = p
      /\ ask'[a].op = ask[a].op
    BY <1>0, <1>1, <1>4 DEF Asks
<1>6. /\ stage'[p] = s /\ holder'[p] = a
      /\ \A q \in Plugins : q # p => stage'[q] = stage[q] /\ holder'[q] = holder[q]
    BY <1>1, <1>3 DEF LockTypes
<1>7. LockTypes'
    BY <1>1, <1>2, <1>3, <1>4, <1>5 DEF LockTypes
<1>8. \A q \in Plugins : holder[q] # Nobody => holder[q] \in Actors /\ holder[q] # a /\ q # p
    BY <1>1 DEF LockTypes, LockInv
<1>9. \A q \in Plugins : q # p /\ stage[q] # "free" => Op(q)' = Op(q)
    BY <1>4, <1>6, <1>8 DEF Op, LockInv
<1>10. Op(p)' = ask[a].op /\ ask[a].op \in {"start", "restart", "kill", "close"}
    BY <1>1, <1>5, <1>6 DEF Op, Asks
<1> HIDE DEF s
<1>11. ASSUME NEW q \in Plugins
       PROVE  /\ stage'[q] = "free" <=> holder'[q] = Nobody
              /\ holder'[q] # Nobody =>
                    ask'[holder'[q]].at = "hold" /\ ask'[holder'[q]].plugin = q
              /\ stage'[q] \in Starting => Op(q)' \in {"start", "restart"}
              /\ stage'[q] \in Stopping => Op(q)' \in {"restart", "kill", "close"}
    <2>1. CASE q = p
        <3>1. stage'[q] # "free" /\ holder'[q] = a /\ a # Nobody
            BY <2>1, <1>2, <1>6, ActorFacts
        <3>2. ask'[holder'[q]].at = "hold" /\ ask'[holder'[q]].plugin = q
            BY <2>1, <3>1, <1>5
        <3>3. /\ stage'[q] \in Starting => Op(q)' \in {"start", "restart"}
              /\ stage'[q] \in Stopping => Op(q)' \in {"restart", "kill", "close"}
            BY <2>1, <1>6, <1>10 DEF Starting, Stopping, s
        <3> QED
            BY <3>1, <3>2, <3>3
    <2>2. CASE q # p
        <3>1. /\ stage'[q] = stage[q] /\ holder'[q] = holder[q]
              /\ stage[q] # "free" => Op(q)' = Op(q)
            BY <2>2, <1>6, <1>9
        <3>2. holder[q] # Nobody => ask'[holder[q]] = ask[holder[q]]
            BY <1>4, <1>8
        <3> QED
            BY <3>1, <3>2 DEF LockInv, Starting, Stopping
    <2> QED
        BY <2>1, <2>2
<1>12. ASSUME NEW b \in Actors
       PROVE  /\ ask'[b].at # "none" => ask'[b].plugin \in Plugins /\ ask'[b].op # "none"
              /\ ask'[b].at = "hold" => holder'[ask'[b].plugin] = b
    <2>1. CASE b = a
        BY <2>1, <1>1, <1>5, <1>6
    <2>2. CASE b # a
        <3>1. ask'[b] = ask[b]
            BY <2>2, <1>4
        <3>2. ask[b].at = "hold" => ask[b].plugin \in Plugins /\ ask[b].plugin # p
            BY <1>1, ActorFacts DEF LockInv
        <3> QED
            BY <3>1, <3>2, <1>6 DEF LockInv
    <2> QED
        BY <2>1, <2>2
<1>13. LockInv'
    BY <1>11, <1>12 DEF LockInv
<1>14. stage'[ask[a].plugin] = IF ask[a].op = "start" THEN "start" ELSE "stop"
    BY <1>0, <1>6 DEF s
<1>15. \A q \in Plugins : q # ask[a].plugin => SameStage(q)
    BY <1>0, <1>6, <1>9 DEF SameStage
<1> QED
    BY <1>0, <1>1, <1>4, <1>7, <1>13, <1>14, <1>15

(* The operation that holds a lock goes on ... *)
LEMMA ProceedLocks ==
    ASSUME LockTypes, LockInv, NEW p \in Plugins, NEW next \in Stages \ {"free"},
           stage[p] # "free", Proceed(p, next),
           next \in Starting => Op(p) \in {"start", "restart"},
           next \in Stopping => Op(p) \in {"restart", "kill", "close"}
    PROVE  /\ LockTypes' /\ LockInv'
           /\ ask' = ask /\ holder' = holder /\ stage'[p] = next /\ Op(p)' = Op(p)
           /\ \A q \in Plugins : q # p => SameStage(q)
<1>1. stage' = [stage EXCEPT ![p] = next] /\ holder' = holder /\ ask' = ask
    BY DEF Proceed
<1>2. stage'[p] = next /\ \A q \in Plugins : q # p => stage'[q] = stage[q]
    BY <1>1 DEF LockTypes
<1>3. \A q \in Plugins : Op(q)' = Op(q)
    BY <1>1 DEF Op
<1>4. LockTypes'
    BY <1>1 DEF LockTypes
<1>5. ASSUME NEW q \in Plugins
      PROVE  /\ stage'[q] = "free" <=> holder[q] = Nobody
             /\ stage'[q] \in Starting => Op(q)' \in {"start", "restart"}
             /\ stage'[q] \in Stopping => Op(q)' \in {"restart", "kill", "close"}
    BY <1>2, <1>3 DEF LockInv
<1>6. LockInv'
    BY <1>1, <1>5 DEF LockInv
<1> QED
    BY <1>1, <1>2, <1>3, <1>4, <1>6 DEF SameStage

(* ... or returns and lets go of the lock. *)
LEMMA ReturnLocks ==
    ASSUME LockTypes, LockInv, NEW p \in Plugins, NEW r \in {"ok", "err"},
           stage[p] # "free", Return(p, r)
    PROVE  /\ LockTypes' /\ LockInv' /\ stage'[p] = "free"
           /\ ask'[holder[p]] = [ask[holder[p]] EXCEPT !.at = r]
           /\ \A b \in Actors : b # holder[p] => ask'[b] = ask[b]
           /\ \A q \in Plugins : q # p => SameStage(q)
<1>1. PICK h \in Actors : h = holder[p]
    BY HolderFacts
<1>2. h # Nobody /\ ask[h].at = "hold" /\ ask[h].plugin = p /\ ask[h] \in Asks
    BY <1>1, HolderFacts DEF LockTypes
<1>3. /\ stage' = [stage EXCEPT ![p] = "free"] /\ holder' = [holder EXCEPT ![p] = Nobody]
      /\ ask' = [ask EXCEPT ![h].at = r]
    BY <1>1 DEF Return
<1>4. /\ stage'[p] = "free" /\ holder'[p] = Nobody
      /\ \A q \in Plugins : q # p => stage'[q] = stage[q] /\ holder'[q] = holder[q]
    BY <1>3 DEF LockTypes
<1>5. /\ ask'[h] = [ask[h] EXCEPT !.at = r]
      /\ \A b \in Actors : b # h => ask'[b] = ask[b]
    BY <1>3 DEF LockTypes
<1>6. ask'[h] \in Asks /\ ask'[h].at = r /\ ask'[h].plugin = p /\ ask'[h].op = ask[h].op
    BY <1>2, <1>5 DEF Asks
<1>7. LockTypes'
    BY <1>3, <1>5, <1>6 DEF LockTypes, Stages
<1>8. \A q \in Plugins : q # p /\ holder[q] # Nobody => holder[q] \in Actors /\ holder[q] # h
    BY <1>2 DEF LockTypes, LockInv
<1>9. \A q \in Plugins : q # p => SameStage(q)
    BY <1>4, <1>5, <1>8 DEF SameStage, Op, LockInv
<1>10. ASSUME NEW q \in Plugins
       PROVE  /\ stage'[q] = "free" <=> holder'[q] = Nobody
              /\ holder'[q] # Nobody =>
                    ask'[holder'[q]].at = "hold" /\ ask'[holder'[q]].plugin = q
              /\ stage'[q] \in Starting => Op(q)' \in {"start", "restart"}
              /\ stage'[q] \in Stopping => Op(q)' \in {"restart", "kill", "close"}
    <2>1. CASE q = p
        BY <2>1, <1>4 DEF Starting, Stopping
    <2>2. CASE q # p
        <3>1. holder[q] # Nobody => ask'[holder[q]] = ask[holder[q]]
            BY <2>2, <1>5, <1>8
        <3> QED
            BY <2>2, <3>1, <1>4, <1>9 DEF LockInv, Starting, Stopping, SameStage
    <2> QED
        BY <2>1, <2>2
<1>11. ASSUME NEW b \in Actors
       PROVE  /\ ask'[b].at # "none" => ask'[b].plugin \in Plugins /\ ask'[b].op # "none"
              /\ ask'[b].at = "hold" => holder'[ask'[b].plugin] = b
    <2>1. CASE b = h
        BY <2>1, <1>2, <1>6 DEF LockInv
    <2>2. CASE b # h
        <3>1. ask'[b] = ask[b]
            BY <2>2, <1>5
        <3>2. ask[b].at = "hold" => ask[b].plugin \in Plugins /\ ask[b].plugin # p
            BY <2>2, <1>1 DEF LockInv
        <3> QED
            BY <3>1, <3>2, <1>4 DEF LockInv
    <2> QED
        BY <2>1, <2>2
<1>12. LockInv'
    BY <1>10, <1>11 DEF LockInv
<1> QED
    BY <1>1, <1>4, <1>5, <1>7, <1>9, <1>12

(* With the process all operations end. *)
LEMMA EndLocks ==
    ASSUME GoroutinesEnd
    PROVE  /\ LockTypes' /\ LockInv'
           /\ \A p \in Plugins : stage'[p] = "free"
           /\ \A a \in Actors : ask'[a].at = "none"
<1>1. NoAsk \in Asks /\ NoAsk.at = "none"
    BY PluginFacts DEF Asks, NoAsk
<1>2. /\ \A p \in Plugins : stage'[p] = "free" /\ holder'[p] = Nobody
      /\ \A a \in Actors : ask'[a].at = "none"
    BY <1>1 DEF GoroutinesEnd
<1>3. LockTypes'
    BY <1>1 DEF GoroutinesEnd, LockTypes, Stages
<1>4. LockInv'
    BY <1>2 DEF LockInv, Starting, Stopping
<1> QED
    BY <1>2, <1>3, <1>4

-----------------------------------------------------------------------------
(* The steps of an operation that holds the lock of plugin p. *)

DaemonTypes ==
    /\ main \in {"new", "start", "unwind", "supervise", "listen", "serve",
                 "close", "exited", "killed"}
    /\ idx \in 1..(N + 1) /\ started \in 0..N
    /\ ctx \in {"unset", "live", "done"} /\ adminSock \in BOOLEAN

ManagerTypes ==
    /\ gen \in [Plugins -> Nat] /\ pub \in [Plugins -> Nat]
    /\ \A p \in Plugins : pub[p] <= MaxGen[p] /\ gen[p] <= MaxGen[p] + 1
    /\ healthy \in [Plugins -> BOOLEAN] /\ client \in [Plugins -> BOOLEAN]
    /\ cmd \in [Plugins -> BOOLEAN] /\ closed \in [Plugins -> BOOLEAN]
    /\ child \in [Plugins -> BOOLEAN]

ServiceTypes ==
    /\ mon \in [Plugins -> {"off", "tick", "failed", "restart", "done"}]
    /\ handler \in [Admins -> {"off", "idle", "routed", "restart", "replied"}]
    /\ req \in [Admins -> [kind : {"none", "call", "restart"}, plugin : 0..N,
                           gen : Nat, healthy : BOOLEAN]]
    /\ body \in [Admins -> Nat]

(* The type invariant, part by part. *)
LEMMA TypeParts ==
    /\ TypeOK <=> DaemonTypes /\ ManagerTypes /\ LockTypes /\ ServiceTypes
    /\ TypeOK' <=> DaemonTypes' /\ ManagerTypes' /\ LockTypes' /\ ServiceTypes'
BY Zenon DEF TypeOK, DaemonTypes, ManagerTypes, LockTypes, ServiceTypes, Stages, Asks

SameManager(q) ==
    /\ gen'[q] = gen[q] /\ healthy'[q] = healthy[q] /\ client'[q] = client[q]
    /\ cmd'[q] = cmd[q] /\ closed'[q] = closed[q] /\ child'[q] = child[q]
    /\ pub'[q] = pub[q]

(* What such a step may do to the plugin, and what it tells its caller. *)
OperationEffect(p) ==
    /\ closed[p] => closed'[p]
    /\ closed'[p] => closed[p] \/ Op(p) = "close"
    /\ cmd'[p] => cmd[p] \/ Op(p) \in {"start", "restart"}
    /\ child'[p] => child[p] \/ Op(p) \in {"start", "restart"}
    /\ pub'[p] \in {pub[p], pub[p] + 1}
    /\ client'[p] => client[p] \/ pub'[p] = pub[p] + 1
    /\ ask'[holder[p]].op = Op(p) /\ ask'[holder[p]].plugin = p
    /\ ask'[holder[p]].at \in {"hold", "ok", "err"}
    /\ Op(p) = "start" => IF ask'[holder[p]].at = "ok" THEN client'[p] ELSE ~cmd'[p]
    /\ Op(p) = "kill" /\ ask'[holder[p]].at # "hold" => ~cmd'[p]
    /\ Op(p) = "close" /\ ask'[holder[p]].at # "hold" => closed'[p]
    /\ Op(p) = "restart" /\ ask'[holder[p]].at = "ok" => pub'[p] = pub[p] + 1

(* ... and that it leaves everything else alone. *)
OperationFrame(p) ==
    /\ UNCHANGED <<daemon, mon, admin>>
    /\ \A q \in Plugins : q # p => SameManager(q) /\ SameStage(q)
    /\ \A b \in Actors : b # holder[p] => ask'[b] = ask[b]

(* A plugin that a step leaves alone stays as the invariant wants it. *)
LEMMA SameManagerOK ==
    ASSUME NEW q \in Plugins, SameManager(q), SameStage(q), Alive' => Alive,
           ManagerOK(q), GenOK(q)
    PROVE  ManagerOK(q)' /\ GenOK(q)'
BY Zenon DEF SameManager, SameStage, ManagerOK, GenOK, Starting

(* Operations that go on, or are over, are still those that were asked for. *)
LEMMA SameAsks ==
    ASSUME AskInv, UNCHANGED <<main, idx, ctx, mon, handler, req>>,
           \A b \in Actors : ask'[b].at # "none" =>
               /\ ask[b].at # "none" /\ ask'[b].op = ask[b].op /\ ask'[b].plugin = ask[b].plugin
    PROVE  AskInv'
<1>1. /\ ask'[Main].at # "none" =>
            /\ main' \in {"start", "unwind", "close"} /\ ask'[Main].op = MainOp[main']
            /\ ask'[Main].plugin = idx'
      /\ \A p \in Plugins : ask'[p].at # "none" =>
            ask'[p].op = "restart" /\ ask'[p].plugin = p /\ mon'[p] = "restart"
    BY ActorFacts DEF AskInv
<1>2. \A a \in Admins : ask'[a].at # "none" =>
            /\ ask'[a].op = "restart" /\ ask'[a].plugin = req'[a].plugin
            /\ handler'[a] = "restart"
    BY ActorFacts DEF AskInv
<1> QED
    BY <1>1, <1>2, Zenon DEF AskInv

(* Whose operation it may be. *)
LEMMA HolderKinds ==
    ASSUME TypeOK, LockInv, AskInv, NEW p \in Plugins, stage[p] # "free"
    PROVE  \/ /\ holder[p] = Main /\ main \in {"start", "unwind", "close"}
              /\ Op(p) = MainOp[main] /\ p = idx
           \/ /\ holder[p] # Main /\ Op(p) = "restart"
              /\ ctx # "unset" /\ main \notin {"new", "start", "unwind", "supervise"}
<1>1. /\ holder[p] \in Actors /\ ask[holder[p]].at = "hold" /\ ask[holder[p]].plugin = p
      /\ Op(p) = ask[holder[p]].op
    BY HolderFacts, TypeParts
<1>2. CASE holder[p] = Main
    BY <1>1, <1>2 DEF AskInv
<1>3. CASE holder[p] \in Plugins
    BY <1>1, <1>3, ActorFacts DEF AskInv
<1>4. CASE holder[p] \in Admins
    BY <1>1, <1>4, ActorFacts DEF AskInv
<1> QED
    BY <1>1, <1>2, <1>3, <1>4, ActorFacts

(* A step with this effect keeps the invariant. *)
LEMMA OperationInv ==
    ASSUME HostInv, NEW p \in Plugins, stage[p] # "free", Alive,
           TypeOK', LockInv', ManagerOK(p)', GenOK(p)',
           OperationEffect(p), OperationFrame(p)
    PROVE  HostInv'
<1>0. TypeOK /\ LockInv /\ AskInv /\ ManagerInv /\ PhaseInv /\ GenInv /\ ReqInv /\ AnswerNotOlder
    BY DEF HostInv
<1>1. PICK h \in Actors : h = holder[p]
    BY <1>0, HolderFacts, TypeParts, Zenon
<1>2. /\ ask[h].at = "hold" /\ ask[h].plugin = p /\ Op(p) = ask[h].op
      /\ ask'[h].op = Op(p) /\ ask'[h].plugin = p /\ ask'[h].at \in {"hold", "ok", "err"}
    BY <1>0, <1>1, HolderFacts, TypeParts, Zenon DEF OperationEffect
<1>3. /\ UNCHANGED <<main, idx, started, ctx, adminSock, mon, handler, req, body>>
      /\ \A q \in Plugins : q # p => SameManager(q) /\ SameStage(q)
      /\ \A b \in Actors : b # h => ask'[b] = ask[b]
    BY <1>1 DEF OperationFrame, daemon, admin
<1>4. \A b \in Actors : ask'[b].at # "none" =>
          /\ ask[b].at # "none" /\ ask'[b].op = ask[b].op /\ ask'[b].plugin = ask[b].plugin
    BY <1>2, <1>3, Zenon
<1>5. AskInv'
    BY <1>0, <1>3, <1>4, SameAsks, Zenon
<1>6. ManagerInv' /\ GenInv'
    BY <1>0, <1>3, SameManagerOK DEF ManagerInv, GenInv, Alive
<1>7. PhaseInv'
    <2>1. \/ /\ h = Main /\ main \in {"start", "unwind", "close"}
             /\ Op(p) = MainOp[main] /\ p = idx
          \/ /\ h # Main /\ Op(p) = "restart" /\ ask'[Main] = ask[Main]
             /\ ctx # "unset" /\ main \notin {"new", "start", "unwind", "supervise"}
        BY <1>0, <1>1, <1>3, HolderKinds, ActorFacts, Zenon
    <2>2. CASE main = "start"
        <3>1. h = Main /\ Op(p) = "start" /\ p = idx /\ ~closed'[p]
            BY <2>1, <2>2, <1>0, Zenon DEF MainOp, OperationEffect, PhaseInv
        <3>2. IF ask'[Main].at = "ok" THEN client'[idx] ELSE ~cmd'[idx]
            BY <3>1, <1>1, Zenon DEF OperationEffect
        <3> QED
            BY <2>2, <3>1, <3>2, <1>0, <1>3, PluginFacts DEF PhaseInv, SameManager
    <2>3. CASE main = "unwind"
        <3>1. h = Main /\ Op(p) = "kill" /\ p = idx /\ ~closed'[p] /\ (cmd'[p] => cmd[p])
            BY <2>1, <2>3, <1>0, Zenon DEF MainOp, OperationEffect, PhaseInv
        <3>2. ask'[Main].at \in {"ok", "err"} => ~cmd'[idx]
            BY <3>1, <1>1, Zenon DEF OperationEffect
        <3>3. idx <= started
            BY <2>3, <3>1, <1>0, <1>2, Zenon DEF PhaseInv
        <3> QED
            BY <2>3, <3>1, <3>2, <3>3, <1>0, <1>3, PluginFacts DEF PhaseInv, SameManager
    <2>4. CASE main = "close"
        <3>1. \A q \in Plugins : closed[q] => closed'[q]
            BY <1>3, Zenon DEF OperationEffect, SameManager
        <3>2. ask'[Main].at \in {"ok", "err"} => closed'[idx]
            <4>1. CASE h = Main
                BY <4>1, <2>1, <2>4, <1>1, Zenon DEF MainOp, OperationEffect
            <4>2. CASE h # Main
                <5> HAVE ask'[Main].at \in {"ok", "err"}
                <5>1. ask[Main].at \in {"ok", "err"} /\ idx \in Plugins
                    BY <4>2, <2>1, <1>0, ActorFacts DEF LockInv, AskInv
                <5> QED
                    BY <5>1, <2>4, <3>1, <1>0 DEF PhaseInv
            <4> QED
                BY <4>1, <4>2, Zenon
        <3>3. ctx = "unset" => \A q \in Plugins : ~child'[q]
            <4> SUFFICES ASSUME ctx = "unset", NEW q \in Plugins PROVE ~child'[q]
                OBVIOUS
            <4>1. Op(p) = "close" /\ ~child[q]
                BY <2>1, <2>4, <1>0, Zenon DEF MainOp, PhaseInv
            <4> QED
                BY <4>1, <1>3, Zenon DEF OperationEffect, SameManager
        <3> QED
            BY <2>4, <3>1, <3>2, <3>3, <1>0, <1>3, Zenon DEF PhaseInv
    <2>5. CASE main \notin {"start", "unwind", "close"}
        <3>1. main \notin {"new", "supervise", "exited"}
            BY <2>1, <2>5, Zenon DEF Alive
        <3> QED
            BY <2>5, <3>1, <1>0, <1>3, Zenon DEF PhaseInv
    <2> QED
        BY <2>2, <2>3, <2>4, <2>5, Zenon
<1>8. ReqInv'
    <2>1. \A q \in Plugins : /\ pub[q] \in Nat /\ pub'[q] \in {pub[q], pub[q] + 1}
                             /\ client'[q] => client[q] \/ pub'[q] = pub[q] + 1
        BY <1>0, <1>3 DEF OperationEffect, SameManager, TypeOK
    <2> SUFFICES ASSUME NEW a \in Admins
                 PROVE  /\ handler[a] \in {"routed", "restart"} =>
                              /\ req[a].plugin \in Plugins
                              /\ req[a].gen <= pub'[req[a].plugin] + 1
                              /\ client'[req[a].plugin] \/ req[a].healthy =>
                                    req[a].gen <= pub'[req[a].plugin]
                        /\ ask'[a].at = "ok" =>
                              /\ req[a].gen <= pub'[req[a].plugin]
                              /\ req[a].healthy => req[a].gen < pub'[req[a].plugin]
        BY <1>3, Zenon DEF ReqInv, ReqOK
    <2>2. req[a].gen \in Nat
        BY <1>0, Zenon DEF TypeOK
    <2>3. handler[a] \in {"routed", "restart"} =>
              /\ req[a].plugin \in Plugins
              /\ req[a].gen <= pub[req[a].plugin] + 1
              /\ client[req[a].plugin] \/ req[a].healthy => req[a].gen <= pub[req[a].plugin]
        BY <1>0, Zenon DEF ReqInv, ReqOK
    <2>4. ask'[a].at = "ok" => handler[a] = "restart" /\ ask[a].op = "restart"
                               /\ req[a].plugin = ask[a].plugin
        BY <1>0, <1>4, ActorFacts DEF AskInv
    <2>5. CASE a = h
        <3>1. ask'[a].at = "ok" => req[a].plugin = p /\ pub'[p] = pub[p] + 1
            BY <2>4, <2>5, <1>1, <1>2, Zenon DEF OperationEffect
        <3> QED
            BY <2>1, <2>2, <2>3, <2>4, <3>1
    <2>6. CASE a # h
        <3>1. ask'[a].at = "ok" =>
                  /\ req[a].gen <= pub[req[a].plugin]
                  /\ req[a].healthy => req[a].gen < pub[req[a].plugin]
            BY <2>6, <1>0, <1>3, ActorFacts, Zenon DEF ReqInv, ReqOK
        <3> QED
            BY <2>1, <2>2, <2>3, <2>4, <3>1
    <2> QED
        BY <2>5, <2>6, Zenon
<1>9. AnswerNotOlder'
    BY <1>0, <1>3, Zenon DEF AnswerNotOlder
<1> QED
    BY <1>5, <1>6, <1>7, <1>8, <1>9 DEF HostInv

(* The parts of the invariant that speak of one plugin. *)
LEMMA PluginInv ==
    ASSUME HostInv, NEW p \in Plugins
    PROVE  /\ LockTypes /\ LockInv /\ ManagerTypes /\ ManagerOK(p) /\ GenOK(p)
           /\ pub[p] \in Nat /\ gen[p] \in Nat /\ MaxGen[p] \in Nat
           /\ stage[p] # "free" => /\ holder[p] \in Actors /\ ask[holder[p]].at = "hold"
                                   /\ ask[holder[p]].plugin = p /\ ask[holder[p]] \in Asks
                                   /\ Op(p) = ask[holder[p]].op
BY TypeParts, HolderFacts, PluginFacts DEF HostInv, ManagerInv, GenInv, ManagerTypes, LockTypes

(* What the caller of an operation that has returned is told. *)
LEMMA ReturnAsk ==
    ASSUME HostInv, NEW p \in Plugins, NEW r \in {"ok", "err"}, stage[p] # "free", Return(p, r)
    PROVE  /\ LockTypes' /\ LockInv' /\ stage'[p] = "free"
           /\ ask'[holder[p]].op = Op(p) /\ ask'[holder[p]].plugin = p
           /\ ask'[holder[p]].at = r
           /\ \A b \in Actors : b # holder[p] => ask'[b] = ask[b]
           /\ \A q \in Plugins : q # p => SameStage(q)
<1>1. /\ LockTypes /\ LockInv /\ ask[holder[p]] \in Asks
      /\ ask[holder[p]].op = Op(p) /\ ask[holder[p]].plugin = p
    BY PluginInv
<1>2. /\ LockTypes' /\ LockInv' /\ stage'[p] = "free"
      /\ ask'[holder[p]] = [ask[holder[p]] EXCEPT !.at = r]
      /\ \A b \in Actors : b # holder[p] => ask'[b] = ask[b]
      /\ \A q \in Plugins : q # p => SameStage(q)
    BY <1>1, ReturnLocks, Zenon
<1>3. ask'[holder[p]].op = Op(p) /\ ask'[holder[p]].plugin = p /\ ask'[holder[p]].at = r
    BY <1>1, <1>2, Zenon DEF Asks
<1> QED
    BY <1>2, <1>3, Zenon

(* The caller of one that goes on is told nothing. *)
LEMMA ProceedAsk ==
    ASSUME HostInv, NEW p \in Plugins, NEW next \in Stages \ {"free"},
           stage[p] # "free", Proceed(p, next),
           next \in Starting => Op(p) \in {"start", "restart"},
           next \in Stopping => Op(p) \in {"restart", "kill", "close"}
    PROVE  /\ LockTypes' /\ LockInv' /\ stage'[p] = next /\ Op(p)' = Op(p)
           /\ ask'[holder[p]].op = Op(p) /\ ask'[holder[p]].plugin = p
           /\ ask'[holder[p]].at = "hold"
           /\ \A b \in Actors : b # holder[p] => ask'[b] = ask[b]
           /\ \A q \in Plugins : q # p => SameStage(q)
BY PluginInv, ProceedLocks

(* The rest of the types is untouched by an operation. *)
LEMMA OperationTypes ==
    ASSUME HostInv, ManagerTypes', LockTypes', UNCHANGED <<daemon, mon, admin>>
    PROVE  TypeOK'
<1>1. DaemonTypes' /\ ServiceTypes'
    BY TypeParts, Zenon DEF HostInv, DaemonTypes, ServiceTypes, daemon, admin
<1> QED
    BY <1>1, TypeParts, Zenon

-----------------------------------------------------------------------------
(* A closed manager refuses to stop. *)
LEMMA StopRejectedInv ==
    ASSUME HostInv, NEW p \in Plugins, StopRejected(p)
    PROVE  HostInv'
<1>1. /\ Alive /\ stage[p] = "stop" /\ closed[p] /\ UNCHANGED <<daemon, mon, admin>>
      /\ UNCHANGED <<gen, healthy, client, cmd, closed, child, pub, main>>
    BY DEF StopRejected, managers, daemon
<1>2. PICK r \in {"ok", "err"} : r = IF Op(p) = "close" THEN "ok" ELSE "err"
    OBVIOUS
<1>3. Return(p, r)
    BY <1>2, Zenon DEF StopRejected
<1>4. LockTypes' /\ LockInv' /\ ManagerTypes'
    BY <1>1, <1>3, ReturnAsk, PluginInv, Zenon DEF ManagerTypes
<1>5. TypeOK' /\ OperationFrame(p)
    BY <1>1, <1>3, <1>4, ReturnAsk, OperationTypes, Zenon DEF OperationFrame, SameManager
<1>6. ManagerOK(p)' /\ GenOK(p)'
  <2>1. stage'[p] = "free"
    BY <1>1, <1>3, ReturnAsk
  <2>2. ManagerOK(p) /\ GenOK(p)
    BY PluginInv, Zenon
  <2>3. ManagerOK(p)'
    BY <1>1, <2>1, <2>2 DEF ManagerOK, Alive, Starting
  <2>4. GenOK(p)'
    BY <1>1, <2>1, <2>2 DEF GenOK, Alive
  <2> QED
    BY <2>3, <2>4
<1>7. Op(p) \in {"restart", "kill", "close"}
    BY <1>1, PluginInv, Zenon DEF LockInv, Stopping
<1>8. OperationEffect(p)
    BY <1>1, <1>2, <1>3, <1>7, ReturnAsk, PluginInv, Zenon DEF OperationEffect, ManagerOK
<1> QED
    BY <1>1, <1>4, <1>5, <1>6, <1>8, OperationInv, Zenon

(* stopCurrent takes client and process out of the manager. *)
LEMMA StopFenceInv ==
    ASSUME HostInv, NEW p \in Plugins, StopFence(p)
    PROVE  HostInv'
<1>1. /\ Alive /\ stage[p] = "stop" /\ ~closed[p] /\ UNCHANGED <<daemon, mon, admin>>
      /\ UNCHANGED <<gen, child, pub, main>>
      /\ healthy' = [healthy EXCEPT ![p] = FALSE] /\ client' = [client EXCEPT ![p] = FALSE]
      /\ cmd' = [cmd EXCEPT ![p] = FALSE]
      /\ closed' = [closed EXCEPT ![p] = (Op(p) = "close")]
    BY DEF StopFence, daemon
<1>2. PICK next \in {"reap", "stopped"} : next = IF cmd[p] THEN "reap" ELSE "stopped"
    OBVIOUS
<1>3. Proceed(p, next) /\ next \in Stages \ {"free"}
    BY <1>2, Zenon DEF StopFence, Stages
<1>4. Op(p) \in {"restart", "kill", "close"}
    BY <1>1, PluginInv, Zenon DEF LockInv, Stopping
<1>5. /\ LockTypes' /\ LockInv' /\ stage'[p] = next /\ Op(p)' = Op(p)
      /\ ask'[holder[p]].op = Op(p) /\ ask'[holder[p]].plugin = p
      /\ ask'[holder[p]].at = "hold"
      /\ \A b \in Actors : b # holder[p] => ask'[b] = ask[b]
      /\ \A q \in Plugins : q # p => SameStage(q)
    BY <1>1, <1>3, <1>4, ProceedAsk, Zenon DEF Starting, Stopping
<1>6. ManagerTypes'
    BY <1>1, PluginInv, Zenon DEF ManagerTypes
<1>7. /\ ~healthy'[p] /\ ~client'[p] /\ ~cmd'[p] /\ closed'[p] = (Op(p) = "close")
      /\ \A q \in Plugins : q # p => SameManager(q)
    BY <1>1, PluginInv DEF ManagerTypes, SameManager
<1>8. TypeOK' /\ OperationFrame(p)
    BY <1>1, <1>5, <1>6, <1>7, OperationTypes DEF OperationFrame
<1>9. ManagerOK(p)' /\ GenOK(p)'
    BY <1>1, <1>2, <1>5, <1>7, PluginInv, Zenon DEF ManagerOK, GenOK, Alive, Starting
<1>10. OperationEffect(p)
    BY <1>1, <1>4, <1>5, <1>7, PluginInv, Zenon DEF OperationEffect
<1> QED
    BY <1>1, <1>5, <1>8, <1>9, <1>10, OperationInv, Zenon

(* It waits for the process; then the operation is over, or starts another. *)
LEMMA StopReapInv ==
    ASSUME HostInv, NEW p \in Plugins, StopReap(p)
    PROVE  HostInv'
<1>1. /\ Alive /\ stage[p] \in {"reap", "stopped"} /\ UNCHANGED <<daemon, mon, admin>>
      /\ UNCHANGED <<gen, healthy, client, cmd, closed, pub, main>>
      /\ child' = [child EXCEPT ![p] = child[p] /\ stage[p] = "stopped"]
    BY Zenon DEF StopReap, daemon
<1>2. ManagerTypes'
    BY <1>1, PluginInv, Zenon DEF ManagerTypes
<1>3. /\ ~child'[p] /\ ~cmd[p] /\ (closed[p] <=> Op(p) = "close")
      /\ \A q \in Plugins : q # p => SameManager(q)
    BY <1>1, PluginInv DEF ManagerTypes, ManagerOK, SameManager
<1>4. Op(p) \in {"restart", "kill", "close"}
    BY <1>1, PluginInv, Zenon DEF LockInv, Stopping
<1>5. CASE Op(p) = "restart"
    <2>1. Proceed(p, "start") /\ "start" \in Stages \ {"free"}
        BY <1>5, Zenon DEF StopReap, Stages
    <2>2. /\ LockTypes' /\ LockInv' /\ stage'[p] = "start" /\ Op(p)' = Op(p)
          /\ ask'[holder[p]].op = Op(p) /\ ask'[holder[p]].plugin = p
          /\ ask'[holder[p]].at = "hold"
          /\ \A b \in Actors : b # holder[p] => ask'[b] = ask[b]
          /\ \A q \in Plugins : q # p => SameStage(q)
        BY <1>1, <1>5, <2>1, ProceedAsk DEF Starting, Stopping
    <2>3. TypeOK' /\ OperationFrame(p)
        BY <1>1, <1>2, <1>3, <2>2, OperationTypes, Zenon DEF OperationFrame
    <2>4. ManagerOK(p)' /\ GenOK(p)'
        BY <1>1, <1>3, <1>5, <2>2, PluginInv, Zenon DEF ManagerOK, GenOK, Alive, Starting
    <2>5. OperationEffect(p)
        BY <1>1, <1>3, <1>5, <2>2, PluginInv DEF OperationEffect
    <2> QED
        BY <1>1, <2>2, <2>3, <2>4, <2>5, OperationInv, Zenon
<1>6. CASE Op(p) # "restart"
    <2>1. Return(p, "ok")
        BY <1>6 DEF StopReap
    <2>2. TypeOK' /\ LockInv' /\ OperationFrame(p)
        BY <1>1, <1>2, <1>3, <2>1, ReturnAsk, OperationTypes, Zenon DEF OperationFrame
    <2>3. ManagerOK(p)' /\ GenOK(p)'
        BY <1>1, <1>3, <2>1, ReturnAsk, PluginInv, Zenon DEF ManagerOK, GenOK, Alive, Starting
    <2>4. OperationEffect(p)
        BY <1>1, <1>3, <1>4, <1>6, <2>1, ReturnAsk, PluginInv, Zenon DEF OperationEffect
    <2> QED
        BY <1>1, <2>2, <2>3, <2>4, OperationInv
<1> QED
    BY <1>5, <1>6

(* A start takes the next generation id ... *)
LEMMA StartBeginInv ==
    ASSUME HostInv, NEW p \in Plugins, StartBegin(p)
    PROVE  HostInv'
<1>1. /\ Alive /\ stage[p] = "start" /\ UNCHANGED <<daemon, mon, admin>>
      /\ UNCHANGED <<client, cmd, closed, child, pub, main>>
      /\ gen' = [gen EXCEPT ![p] = gen[p] + 1] /\ healthy' = [healthy EXCEPT ![p] = FALSE]
      /\ Proceed(p, "spawn") /\ "spawn" \in Stages \ {"free"}
    BY Zenon DEF StartBegin, daemon, Stages
<1>2. Op(p) \in {"start", "restart"}
    BY <1>1, PluginInv DEF LockInv, Starting
<1>3. /\ LockTypes' /\ LockInv' /\ stage'[p] = "spawn" /\ Op(p)' = Op(p)
      /\ ask'[holder[p]].op = Op(p) /\ ask'[holder[p]].plugin = p
      /\ ask'[holder[p]].at = "hold"
      /\ \A b \in Actors : b # holder[p] => ask'[b] = ask[b]
      /\ \A q \in Plugins : q # p => SameStage(q)
    BY <1>1, <1>2, ProceedAsk, Zenon DEF Starting, Stopping
<1>4. /\ gen'[p] = gen[p] + 1 /\ gen[p] = pub[p] /\ ~healthy'[p] /\ ~cmd[p]
      /\ pub[p] <= MaxGen[p]
      /\ \A q \in Plugins : q # p => SameManager(q)
    <2>1. gen'[p] = gen[p] + 1 /\ ~healthy'[p] /\ \A q \in Plugins : q # p => SameManager(q)
        BY <1>1, PluginInv DEF ManagerTypes, SameManager
    <2>2. gen[p] = pub[p] /\ ~cmd[p]
        BY <1>1, PluginInv DEF ManagerOK, GenOK, Starting
    <2>3. pub[p] <= MaxGen[p]
        BY PluginInv DEF ManagerTypes
    <2> QED
        BY <2>1, <2>2, <2>3, Zenon
<1>5. ManagerTypes'
    BY <1>1, <1>4, PluginInv DEF ManagerTypes, SameManager
<1>6. TypeOK' /\ OperationFrame(p)
    BY <1>1, <1>3, <1>4, <1>5, OperationTypes, Zenon DEF OperationFrame
<1>7. ManagerOK(p)' /\ GenOK(p)'
    BY <1>1, <1>3, <1>4, PluginInv, Zenon DEF ManagerOK, GenOK, Alive, Starting
<1>8. OperationEffect(p)
    BY <1>1, <1>2, <1>3, <1>4, PluginInv, Zenon DEF OperationEffect
<1> QED
    BY <1>1, <1>3, <1>6, <1>7, <1>8, OperationInv, Zenon

(* ... has a process created ... *)
LEMMA StartSpawnInv ==
    ASSUME HostInv, NEW p \in Plugins, StartSpawn(p)
    PROVE  HostInv'
<1>1. /\ Alive /\ stage[p] = "spawn" /\ gen[p] <= MaxGen[p] /\ UNCHANGED <<daemon, mon, admin>>
      /\ UNCHANGED <<gen, healthy, client, cmd, closed, pub, main>>
      /\ child' = [child EXCEPT ![p] = TRUE]
      /\ Proceed(p, "boot") /\ "boot" \in Stages \ {"free"}
    BY Zenon DEF StartSpawn, daemon, Stages
<1>2. Op(p) \in {"start", "restart"}
    BY <1>1, PluginInv, Zenon DEF LockInv, Starting
<1>3. /\ LockTypes' /\ LockInv' /\ stage'[p] = "boot" /\ Op(p)' = Op(p)
      /\ ask'[holder[p]].op = Op(p) /\ ask'[holder[p]].plugin = p
      /\ ask'[holder[p]].at = "hold"
      /\ \A b \in Actors : b # holder[p] => ask'[b] = ask[b]
      /\ \A q \in Plugins : q # p => SameStage(q)
    BY <1>1, <1>2, ProceedAsk, Zenon DEF Starting, Stopping
<1>4. /\ child'[p] /\ ~cmd[p] /\ gen[p] = pub[p] + 1
      /\ \A q \in Plugins : q # p => SameManager(q)
    BY <1>1, PluginInv DEF ManagerTypes, ManagerOK, GenOK, SameManager, Starting
<1>5. ManagerTypes'
    BY <1>1, PluginInv, Zenon DEF ManagerTypes
<1>6. TypeOK' /\ OperationFrame(p)
    BY <1>1, <1>3, <1>4, <1>5, OperationTypes, Zenon DEF OperationFrame
<1>7. ManagerOK(p)' /\ GenOK(p)'
    BY <1>1, <1>3, <1>4, PluginInv, Zenon DEF ManagerOK, GenOK, Alive, Starting
<1>8. OperationEffect(p)
    BY <1>1, <1>2, <1>3, <1>4, PluginInv, Zenon DEF OperationEffect
<1> QED
    BY <1>1, <1>3, <1>6, <1>7, <1>8, OperationInv, Zenon

(* ... fails, and takes process and id back ... *)
LEMMA StartFailsInv ==
    ASSUME HostInv, NEW p \in Plugins, StartFails(p)
    PROVE  HostInv'
<1>1. /\ Alive /\ stage[p] \in {"spawn", "boot"} /\ UNCHANGED <<daemon, mon, admin>>
      /\ UNCHANGED <<healthy, client, cmd, closed, pub, main>>
      /\ child' = [child EXCEPT ![p] = FALSE] /\ gen' = [gen EXCEPT ![p] = gen[p] - 1]
      /\ Return(p, "err")
    BY DEF StartFails, daemon
<1>2. Op(p) \in {"start", "restart"}
    BY <1>1, PluginInv, Zenon DEF LockInv, Starting
<1>3. /\ ~child'[p] /\ ~cmd[p] /\ gen[p] = pub[p] + 1 /\ gen'[p] = pub[p]
      /\ pub[p] <= MaxGen[p]
      /\ \A q \in Plugins : q # p => SameManager(q)
    BY <1>1, PluginInv DEF ManagerTypes, ManagerOK, GenOK, SameManager, Starting
<1>4. ManagerTypes'
    BY <1>1, <1>3, PluginInv DEF ManagerTypes, SameManager
<1>5. TypeOK' /\ LockInv' /\ OperationFrame(p)
    BY <1>1, <1>3, <1>4, ReturnAsk, OperationTypes, Zenon DEF OperationFrame
<1>6. ManagerOK(p)' /\ GenOK(p)'
    BY <1>1, <1>3, ReturnAsk, PluginInv, Zenon DEF ManagerOK, GenOK, Alive, Starting
<1>7. OperationEffect(p)
    BY <1>1, <1>2, <1>3, ReturnAsk, PluginInv, Zenon DEF OperationEffect
<1> QED
    BY <1>1, <1>5, <1>6, <1>7, OperationInv

(* ... or publishes the generation. *)
LEMMA StartPublishInv ==
    ASSUME HostInv, NEW p \in Plugins, StartPublish(p)
    PROVE  HostInv'
<1>1. /\ Alive /\ stage[p] = "boot" /\ UNCHANGED <<daemon, mon, admin>>
      /\ UNCHANGED <<gen, closed, child, main>>
      /\ healthy' = [healthy EXCEPT ![p] = TRUE] /\ client' = [client EXCEPT ![p] = TRUE]
      /\ cmd' = [cmd EXCEPT ![p] = TRUE] /\ pub' = [pub EXCEPT ![p] = gen[p]]
      /\ Return(p, "ok")
    BY Zenon DEF StartPublish, daemon
<1>2. Op(p) \in {"start", "restart"} /\ child[p] /\ ~closed[p]
    BY <1>1, PluginInv, Zenon DEF LockInv, Starting, ManagerOK
<1>3. /\ healthy'[p] /\ client'[p] /\ cmd'[p] /\ pub'[p] = gen[p]
      /\ gen[p] = pub[p] + 1 /\ gen[p] <= MaxGen[p]
      /\ \A q \in Plugins : q # p => SameManager(q)
    BY <1>1, PluginInv DEF ManagerTypes, GenOK, SameManager
<1>4. ManagerTypes'
    BY <1>1, <1>3, PluginInv, Zenon DEF ManagerTypes, SameManager
<1>5. TypeOK' /\ LockInv' /\ OperationFrame(p)
    BY <1>1, <1>3, <1>4, ReturnAsk, OperationTypes, Zenon DEF OperationFrame
<1>6. ManagerOK(p)' /\ GenOK(p)'
    BY <1>1, <1>2, <1>3, ReturnAsk, PluginInv, Zenon DEF ManagerOK, GenOK, Alive, Starting
<1>7. OperationEffect(p)
    BY <1>1, <1>2, <1>3, ReturnAsk, PluginInv, Zenon DEF OperationEffect
<1> QED
    BY <1>1, <1>5, <1>6, <1>7, OperationInv, Zenon

(* An operation gets the lock it waits for. *)
LEMMA AcquireInv ==
    ASSUME HostInv, NEW a \in Actors, Acquire(a)
    PROVE  HostInv'
<1>0. /\ TypeOK /\ LockInv /\ AskInv /\ ManagerInv /\ PhaseInv /\ GenInv /\ ReqInv
      /\ AnswerNotOlder /\ LockTypes
    BY TypeParts DEF HostInv
<1>1. /\ Alive /\ ask[a].at = "wait" /\ UNCHANGED <<daemon, mon, admin>>
      /\ UNCHANGED <<gen, healthy, client, cmd, closed, child, pub>>
      /\ UNCHANGED <<main, idx, started, ctx, adminSock, handler, req, body>>
    BY Zenon DEF Acquire, daemon, managers, admin
<1>2. PICK p \in Plugins : p = ask[a].plugin
    BY <1>0, <1>1, Zenon DEF LockInv
<1>3. /\ LockTypes' /\ LockInv'
      /\ ask'[a] = [ask[a] EXCEPT !.at = "hold"]
      /\ \A b \in Actors : b # a => ask'[b] = ask[b]
      /\ stage[p] = "free" /\ stage'[p] = IF ask[a].op = "start" THEN "start" ELSE "stop"
      /\ \A q \in Plugins : q # p => SameStage(q)
    BY <1>0, <1>2, AcquireLocks
<1>4. \A b \in Actors : /\ ask'[b].op = ask[b].op /\ ask'[b].plugin = ask[b].plugin
                        /\ ask'[b].at # ask[b].at => ask[b].at = "wait" /\ ask'[b].at = "hold"
    BY <1>0, <1>1, <1>3 DEF LockTypes, Asks
<1>5. TypeOK'
    BY <1>0, <1>1, <1>3, TypeParts, OperationTypes, Zenon DEF ManagerTypes
<1>6. AskInv'
    BY <1>0, <1>1, <1>4, SameAsks, Zenon
<1>7. ManagerOK(p)' /\ GenOK(p)'
    <2>1. ask[a].op = "start" => ~cmd[p] /\ ~closed[p]
        <3> HAVE ask[a].op = "start"
        <3>1. a = Main
            BY <1>0, <1>1, ActorFacts, Zenon DEF AskInv
        <3>2. main = "start" /\ p = idx
            <4>1. /\ main \in {"start", "unwind", "close"} /\ ask[Main].op = MainOp[main]
                  /\ ask[Main].plugin = idx
                BY <1>0, <1>1, <3>1, Zenon DEF AskInv
            <4>2. MainOp[main] = "start"
                BY <3>1, <4>1, Zenon
            <4>3. main = "start"
                BY <4>1, <4>2 DEF MainOp
            <4> QED
                BY <1>2, <3>1, <4>1, <4>3, Zenon
        <3> QED
            BY <1>0, <1>1, <3>1, <3>2, Zenon DEF PhaseInv
    <2>2. stage'[p] \in {"start", "stop"} /\ (stage'[p] = "start" => ~cmd[p] /\ ~closed[p])
        BY <2>1, <1>3
    <2> QED
        BY <2>2, <1>0, <1>1, <1>3, Zenon DEF ManagerInv, GenInv, ManagerOK, GenOK, Alive, Starting
<1>8. ManagerInv' /\ GenInv'
    BY <1>0, <1>1, <1>3, <1>7, SameManagerOK, Zenon DEF ManagerInv, GenInv, SameManager, Alive
<1>9. PhaseInv'
    BY <1>0, <1>1, <1>4, ActorFacts, Zenon DEF PhaseInv
<1>10. ReqInv' /\ AnswerNotOlder'
    BY <1>0, <1>1, <1>4, ActorFacts, Zenon DEF ReqInv, ReqOK, AnswerNotOlder
<1> QED
    BY <1>3, <1>5, <1>6, <1>8, <1>9, <1>10 DEF HostInv

-----------------------------------------------------------------------------
(* What monitors and admin RPCs do to a manager. *)

(* What their RPCs may do to the plugin's manager: health is stored for a   *)
(* client that is there, and a broken client is detached.                   *)
HealthEffect(p) ==
    /\ healthy' \in [Plugins -> BOOLEAN] /\ client' \in [Plugins -> BOOLEAN]
    /\ UNCHANGED <<gen, cmd, closed, child, pub>>
    /\ client'[p] => client[p]
    /\ healthy'[p] => client'[p]
    /\ \A q \in Plugins : q # p => SameManager(q)

(* Poison is such an effect. *)
LEMMA PoisonEffect ==
    ASSUME HostInv, NEW p \in Plugins, Poison(p) \/ UNCHANGED managers
    PROVE  HealthEffect(p)
<1>1. ManagerTypes /\ ManagerOK(p)
    BY PluginInv, Zenon
<1>2. CASE Poison(p)
    BY <1>1, <1>2, Zenon DEF Poison, ManagerTypes, HealthEffect, SameManager
<1>3. CASE UNCHANGED managers
    BY <1>1, <1>3, Zenon DEF managers, ManagerTypes, ManagerOK, HealthEffect, SameManager
<1> QED
    BY <1>2, <1>3, Zenon

(* ... and so is a reply of the plugin. *)
LEMMA ReplyEffect ==
    ASSUME HostInv, NEW p \in Plugins, NEW h \in BOOLEAN, client[p],
           healthy' = [healthy EXCEPT ![p] = h],
           UNCHANGED <<gen, client, cmd, closed, child, pub>>
    PROVE  HealthEffect(p)
BY PluginInv DEF ManagerTypes, HealthEffect, SameManager

(* An RPC leaves the managers, and what the main goroutine relies on, in    *)
(* order: it is sent only after the plugins have been started.              *)
LEMMA HealthInv ==
    ASSUME HostInv, NEW p \in Plugins, HealthEffect(p), UNCHANGED <<daemon, locks>>,
           ctx # "unset"
    PROVE  ManagerTypes' /\ LockTypes' /\ LockInv' /\ ManagerInv' /\ PhaseInv' /\ GenInv'
<1>0. TypeOK /\ LockInv /\ AskInv /\ ManagerInv /\ PhaseInv /\ GenInv /\ LockTypes /\ ManagerTypes
    BY TypeParts DEF HostInv
<1>1. /\ UNCHANGED <<main, idx, started, ctx, adminSock, holder, stage, ask>>
      /\ UNCHANGED <<gen, cmd, closed, child, pub>>
    BY Zenon DEF daemon, locks, HealthEffect
<1>2. ManagerTypes' /\ LockTypes'
    BY <1>0, <1>1, Zenon DEF HealthEffect, ManagerTypes, LockTypes
<1>3. LockInv' /\ \A q \in Plugins : SameStage(q)
    BY <1>0, <1>1, Zenon DEF LockInv, Op, SameStage
<1>4. ManagerOK(p)' /\ GenOK(p)'
    BY <1>0, <1>1, <1>3, Zenon DEF HealthEffect, ManagerInv, GenInv, ManagerOK, GenOK, Alive,
                       SameStage, Starting
<1>5. ManagerInv' /\ GenInv'
    BY <1>0, <1>1, <1>3, <1>4, SameManagerOK, Zenon DEF HealthEffect, ManagerInv, GenInv, Alive
<1>6. PhaseInv'
    BY <1>0, <1>1 DEF PhaseInv, AskInv
<1> QED
    BY <1>2, <1>3, <1>5, <1>6

(* So does a step that only asks for an operation or notes its outcome. *)
LEMMA CallerInv ==
    ASSUME HostInv, UNCHANGED <<daemon, managers>>, \A q \in Plugins : SameStage(q),
           ask'[Main].at = ask[Main].at
    PROVE  ManagerTypes' /\ ManagerInv' /\ PhaseInv' /\ GenInv'
<1>0. TypeOK /\ ManagerInv /\ PhaseInv /\ GenInv /\ ManagerTypes
    BY TypeParts DEF HostInv
<1>1. /\ UNCHANGED <<main, idx, started, ctx, adminSock>>
      /\ UNCHANGED <<gen, healthy, client, cmd, closed, child, pub>>
    BY Zenon DEF daemon, managers
<1>2. ManagerTypes' /\ PhaseInv'
    BY <1>0, <1>1, Zenon DEF ManagerTypes, PhaseInv
<1>3. ManagerInv' /\ GenInv'
    BY <1>0, <1>1, SameManagerOK, Zenon DEF ManagerInv, GenInv, SameManager, Alive
<1> QED
    BY <1>2, <1>3, Zenon

(* A step that leaves the locks alone leaves every operation where it is. *)
LEMMA SameLocks ==
    ASSUME HostInv, UNCHANGED locks
    PROVE  LockTypes' /\ LockInv' /\ \A q \in Plugins : SameStage(q)
<1>1. UNCHANGED <<holder, stage, ask>> /\ LockTypes /\ LockInv
    BY TypeParts, Zenon DEF locks, HostInv
<1> QED
    BY <1>1 DEF LockTypes, LockInv, Op, SameStage

(* What the routes have read stays true of what has been published when the *)
(* admin RPCs do nothing.                                                   *)
LEMMA SameRequests ==
    ASSUME HostInv, UNCHANGED <<admin, pub>>,
           \A q \in Plugins : client'[q] => client[q],
           \A a \in Admins : ask'[a].at = "ok" => ask[a].at = "ok"
    PROVE  ReqInv' /\ AnswerNotOlder'
<1>1. UNCHANGED <<handler, req, body, pub>> /\ ReqInv /\ AnswerNotOlder
    BY DEF admin, HostInv
<1> QED
    BY <1>1 DEF ReqInv, ReqOK, AnswerNotOlder

-----------------------------------------------------------------------------
(* A manager keeps the promise of TrustedGeneration when the RPCs of the    *)
(* monitors and of the admin ...                                            *)
LEMMA HealthKeepsTrust ==
    ASSUME HostInv, NEW p \in Plugins, NEW q \in Plugins, UNCHANGED <<closed, pub>>,
           \/ Poison(q) \/ UNCHANGED managers
           \/ /\ client[q] /\ UNCHANGED client
              /\ \E h \in BOOLEAN : healthy' = [healthy EXCEPT ![q] = h]
    PROVE  Trust(p)!Next \/ UNCHANGED Trust(p)!vars
<1>1. ManagerTypes
    BY PluginInv, Zenon
<1>2. CASE UNCHANGED managers \/ p # q
    BY <1>1, <1>2, Zenon DEF Poison, ManagerTypes, managers, Trust!vars
<1>3. CASE Poison(q) /\ p = q
    BY <1>1, <1>3, Zenon DEF Poison, ManagerTypes, Trust!Next, Trust!Distrust
<1>4. CASE /\ client[q] /\ UNCHANGED client /\ p = q
           /\ \E h \in BOOLEAN : healthy' = [healthy EXCEPT ![q] = h]
    BY <1>1, <1>4 DEF ManagerTypes, Trust!Next, Trust!Report
<1> QED
    BY <1>2, <1>3, <1>4, Zenon

(* ... and the steps of its operations are done. *)
LEMMA ManagerKeepsTrust ==
    ASSUME HostInv, NEW p \in Plugins, NEW q \in Plugins, ManagerStep(q)
    PROVE  Trust(p)!Next \/ UNCHANGED Trust(p)!vars
<1>1. ManagerTypes /\ ManagerOK(p) /\ GenOK(p)
    BY PluginInv, Zenon
<1>2. CASE StopRejected(q) \/ StopReap(q) \/ StartSpawn(q) \/ StartFails(q)
    BY <1>2, Zenon DEF StopRejected, StopReap, StartSpawn, StartFails, managers, Trust!vars
<1>3. CASE p # q /\ (StopFence(q) \/ StartBegin(q) \/ StartPublish(q))
    BY <1>1, <1>3, Zenon DEF StopFence, StartBegin, StartPublish, ManagerTypes, Trust!vars
<1>4. CASE p = q /\ StopFence(q)
    <2>1. /\ ~client'[p] /\ ~healthy'[p] /\ pub' = pub /\ ~closed[p]
          /\ closed'[p] = (Op(p) = "close")
        BY <1>1, <1>4, Zenon DEF StopFence, ManagerTypes
    <2>2. client'[p] = FALSE /\ healthy'[p] = FALSE /\ closed'[p] \in BOOLEAN /\ closed[p] = FALSE
        BY <1>1, <1>4, Zenon DEF StopFence, ManagerTypes
    <2>3. CASE closed'[p] = TRUE
        BY <2>1, <2>2, <2>3, Zenon DEF Trust!Next, Trust!Close
    <2>4. CASE closed'[p] = FALSE
        BY <2>1, <2>2, <2>4, Zenon DEF Trust!Next, Trust!Distrust
    <2> QED
        BY <2>2, <2>3, <2>4, Zenon
<1>5. CASE p = q /\ StartBegin(q)
    BY <1>1, <1>5, Zenon DEF StartBegin, ManagerTypes, Trust!Next, Trust!Distrust
<1>6. CASE p = q /\ StartPublish(q)
    <2>1. ~client[p] /\ ~closed[p] /\ gen[p] = pub[p] + 1
        BY <1>1, <1>6, Zenon DEF StartPublish, ManagerOK, GenOK, Starting
    <2> QED
        BY <1>1, <1>6, <2>1, Zenon DEF StartPublish, ManagerTypes, Trust!Next, Trust!Trust
<1> QED
    BY <1>2, <1>3, <1>4, <1>5, <1>6, Zenon DEF ManagerStep
=============================================================================
