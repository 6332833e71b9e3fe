-------------------------- MODULE BootstrapProofs --------------------------
(***************************************************************************)
(* Proofs about the bootstrap of trust, for any number of processes,       *)
(* starts, daemons that die and requests of other clients.                 *)
(***************************************************************************)
EXTENDS Bootstrap, TLAPS

HasChild   == {"dial", "peer", "auth", "authwait", "caps", "capswait",
               "unwind", "undo", "up", "shut"}
HasPeer    == {"peer", "auth", "authwait", "caps", "capswait", "up", "shut"}
PeerIsOwn  == {"auth", "authwait", "caps", "capswait", "up", "shut"}
HasAuthed  == {"caps", "capswait", "up"}
Bound(p)   == life[p] \in {"chmod", "fail", "serve", "end"}

(* What the manager knows at each stage of an operation. *)
StageInv ==
    /\ stage \in Starting => gen > 0
    /\ stage \in HasChild => cur \in Procs /\ life[cur] # "none" /\ env[cur] = gen
    /\ stage \in HasPeer => conn \in Procs
    /\ stage \in PeerIsOwn => conn = cur
    /\ stage \in HasAuthed => tokenFile = 0

(* A server has accepted as many tokens as it remembers, and only a process *)
(* that has come to serve has accepted one.                                 *)
SpentInv ==
    \A p \in Procs :
        /\ used[p] => grants[p] = 1 /\ life[p] \in {"serve", "end"}
        /\ ~used[p] => grants[p] = 0

(* A request past the gate is in a server whose token is spent, and a       *)
(* process that does not exist yet has no requests.                         *)
SlotInv ==
    \A r \in Slots :
        /\ at[r] = "core" => used[To(r)]
        /\ life[To(r)] = "none" => at[r] = "none"

(* The child's token is spent by the manager, on the token of this start. *)
Spent == used[cur] /\ spentBy[cur] = "kernel" /\ tok[cur] = secret

(* How far the manager's own request to the child has come. *)
CallInv ==
    /\ stage \in {"dial", "peer", "auth"} => at[Kernel(cur)] = "none"
    /\ stage = "authwait" =>
          \/ at[Kernel(cur)] = "none"
          \/ /\ at[Kernel(cur)] \in {"sent", "auth"}
             /\ req[Kernel(cur)] = [method |-> "Auth", token |-> secret]
          \/ at[Kernel(cur)] = "ok" /\ Spent
    /\ stage \in HasAuthed => Spent

(* A process that a start has met in place of its child is not at the path  *)
(* of a later one.                                                          *)
PathInv ==
    /\ \A p \in Procs : /\ sock = p => Bound(p)
                        /\ mismatches[p] > 0 => Bound(p)
                        /\ mismatches[p] <= 1
    /\ stage \notin {"idle", "unwind", "undo", "sweep"} /\ sock # 0
          => mismatches[sock] = 0
    /\ stage = "peer" => mismatches[conn] = 0 /\ Bound(conn)

BootInv == BootTypeOK /\ StageInv /\ SpentInv /\ SlotInv /\ CallInv /\ PathInv

-----------------------------------------------------------------------------
(* A slot is a process and a sender. *)
LEMMA SlotFacts ==
    /\ \A r \in Slots : To(r) \in Procs /\ From(r) \in Senders
    /\ \A p \in Procs : /\ Kernel(p) \in Slots
                        /\ To(Kernel(p)) = p /\ From(Kernel(p)) = "kernel"
BY DEF Slots, To, From, Kernel, Senders

(* Processes are positive numbers. *)
LEMMA ProcFacts == 0 \notin Procs /\ \A p \in Procs : p \in 0..MaxProcs /\ p \in Nat /\ p # 0
BY ServerConstants DEF Procs

(* The first state satisfies the invariant: nothing exists yet. *)
LEMMA BootInitInv == Init => BootInv
<1> SUFFICES ASSUME Init PROVE BootInv
    OBVIOUS
<1> USE SlotFacts, ProcFacts, BootConstants, ServerConstants DEF Init, ServerInit
<1>1. BootTypeOK
    <2>1. at \in [Slots -> Places] /\ life \in [Procs -> Lives]
        BY DEF Places, InServer, Lives
    <2>2. req \in [Slots -> [method : Methods, token : Nat]]
        BY DEF NoRequest, Methods
    <2>3. left \in [starts : Nat, crashes : Nat, clients : Nat] /\ stage \in Stages
        BY DEF Stages
    <2> QED
        BY <2>1, <2>2, <2>3 DEF BootTypeOK
<1>2. StageInv /\ CallInv
    BY DEF StageInv, CallInv, Starting, HasChild, HasPeer, PeerIsOwn, HasAuthed
<1>3. SpentInv /\ SlotInv /\ PathInv
    BY DEF SpentInv, SlotInv, PathInv
<1> QED
    BY <1>1, <1>2, <1>3 DEF BootInv

-----------------------------------------------------------------------------
(* What a step of a process may do to the system, whichever step it is. *)
ProcessEffect(p) ==
    /\ life' \in [Procs -> Lives] /\ tok' \in [Procs -> Nat]
    /\ ear' \in [Procs -> BOOLEAN] /\ sock' \in 0..MaxProcs
    /\ at' \in [Slots -> Places] /\ req' \in [Slots -> [method : Methods, token : Nat]]
    /\ UNCHANGED <<env, used, grants, spentBy, tokenFile>>
    /\ \A q \in Procs : q # p => life'[q] = life[q]
    /\ life[p] # "none" /\ life'[p] # "none"
    /\ Bound(p) => Bound(p)'
    /\ life[p] = "serve" => life'[p] \in {"serve", "end"}
    /\ life[p] # "end"
    /\ \A q \in Procs : life[q] # "boot" => tok'[q] = tok[q]
    /\ \A r \in Slots :
          \/ at'[r] = at[r] /\ req'[r] = req[r]
          \/ at'[r] = "none"
          \/ at'[r] = at[r] /\ at[r] \notin InServer
    /\ \A r \in Slots : To(r) # p => at'[r] = at[r]
    /\ \/ sock' = sock
       \/ sock' = 0
       \/ sock' = p /\ life[p] = "bind" /\ Bound(p)'

(* The end of a process is such a step. *)
LEMMA EndsEffect ==
    ASSUME BootTypeOK, NEW p \in Procs, Running(p), Ends(p), UNCHANGED tokenFile,
           sock' = sock \/ sock' = 0
    PROVE  ProcessEffect(p) /\ life'[p] = "end"
<1> USE ProcFacts DEF BootTypeOK
<1>1. /\ life' = [life EXCEPT ![p] = "end"] /\ "end" \in Lives
      /\ ear' = [ear EXCEPT ![p] = FALSE]
      /\ UNCHANGED <<env, tok, used, grants, spentBy>>
    BY DEF Ends, Lives, history
<1>2. life' \in [Procs -> Lives] /\ ear' \in [Procs -> BOOLEAN] /\ sock' \in 0..MaxProcs
    BY <1>1, ServerConstants
<1>3. /\ at' \in [Slots -> Places]
      /\ \A r \in Slots : at'[r] = at[r] \/ at'[r] = "none"
    BY DEF Ends, Places
<1>4. /\ req' \in [Slots -> [method : Methods, token : Nat]]
      /\ \A r \in Slots : req'[r] = req[r] \/ To(r) = p
    BY DEF Ends, NoRequest, Methods
<1>5. \A r \in Slots : To(r) = p => at'[r] = "none" \/ (at'[r] = at[r] /\ at[r] \notin InServer)
    <2> TAKE r \in Slots
    <2> HAVE To(r) = p
    <2>1. at'[r] = IF To(r) = p /\ at[r] \in InServer THEN "none" ELSE at[r]
        BY DEF Ends
    <2> QED
        BY <2>1
<1>6. life'[p] = "end" /\ \A q \in Procs : q # p => life'[q] = life[q]
    BY <1>1
<1>7. \A r \in Slots :
          \/ at'[r] = at[r] /\ req'[r] = req[r]
          \/ at'[r] = "none"
          \/ at'[r] = at[r] /\ at[r] \notin InServer
    BY <1>3, <1>4, <1>5
<1>8. /\ life[p] # "none" /\ life[p] # "end" /\ life'[p] # "none"
      /\ Bound(p)' /\ life'[p] \in {"serve", "end"}
    BY <1>6 DEF Running, Bound
<1>9. tok' \in [Procs -> Nat] /\ \A q \in Procs : tok'[q] = tok[q]
    BY <1>1
<1>10. \A r \in Slots : To(r) # p => at'[r] = at[r]
    BY DEF Ends
<1> QED
    BY <1>1, <1>2, <1>3, <1>4, <1>6, <1>7, <1>8, <1>9, <1>10 DEF ProcessEffect

(* A step that only moves a process along its life, as most of them do. *)
LEMMA MoveEffect ==
    ASSUME BootTypeOK, NEW p \in Procs, NEW l \in Lives, Running(p), l # "none",
           life' = [life EXCEPT ![p] = l], Bound(p) => l \in {"chmod", "fail", "serve", "end"},
           life[p] = "serve" => l = "serve",
           ear' \in [Procs -> BOOLEAN],
           tok' \in [Procs -> Nat], \A q \in Procs : life[q] # "boot" => tok'[q] = tok[q],
           sock' = sock \/ sock' = 0 \/ (sock' = p /\ life[p] = "bind" /\ l = "chmod"),
           UNCHANGED <<env, used, tokenFile, requests, history>>
    PROVE  ProcessEffect(p)
<1> USE ProcFacts DEF BootTypeOK
<1>1. life' \in [Procs -> Lives] /\ life'[p] = l /\ sock' \in 0..MaxProcs
    BY ServerConstants
<1>2. \A q \in Procs : q # p => life'[q] = life[q]
    OBVIOUS
<1>3. UNCHANGED <<at, req, grants, spentBy>>
    BY DEF requests, history
<1>4. /\ life[p] # "none" /\ life[p] # "end" /\ life'[p] # "none"
      /\ life[p] = "serve" => life'[p] \in {"serve", "end"}
    BY <1>1 DEF Running
<1>5. (Bound(p) => Bound(p)') /\ (l = "chmod" => Bound(p)')
    BY <1>1 DEF Bound
<1>6. at' \in [Slots -> Places] /\ req' \in [Slots -> [method : Methods, token : Nat]]
    BY <1>3
<1> QED
    BY <1>1, <1>2, <1>3, <1>4, <1>5, <1>6 DEF ProcessEffect

(* Every step of a process has such an effect. *)
LEMMA ProcessSteps ==
    ASSUME BootTypeOK, NEW p \in Procs, ProcessStep(p)
    PROVE  ProcessEffect(p)
<1> USE DEF Lives, Bound, Running
<1>1. CASE LoadConfig(p)
    <2>1. CASE tokenFile # 0
        <3>1. /\ life' = [life EXCEPT ![p] = "listen"] /\ life[p] = "boot"
              /\ tok' = [tok EXCEPT ![p] = tokenFile]
              /\ UNCHANGED <<env, ear, used, sock, tokenFile, requests, history>>
            BY <1>1, <2>1 DEF LoadConfig
        <3>2. tok' \in [Procs -> Nat] /\ \A q \in Procs : life[q] # "boot" => tok'[q] = tok[q]
            BY <3>1 DEF BootTypeOK
        <3>3. ear' \in [Procs -> BOOLEAN]
            BY <3>1 DEF BootTypeOK
        <3> QED
            BY <3>1, <3>2, <3>3, MoveEffect, Zenon
    <2>2. CASE tokenFile = 0
        BY <1>1, <2>2, EndsEffect DEF LoadConfig
    <2> QED
        BY <2>1, <2>2
<1>2. CASE ListenRemove(p)
    <2>1. /\ life' = [life EXCEPT ![p] = "bind"] /\ life[p] = "listen" /\ sock' = 0
          /\ UNCHANGED <<env, tok, ear, used, tokenFile, requests, history>>
        BY <1>2 DEF ListenRemove
    <2>2. ear' \in [Procs -> BOOLEAN] /\ tok' \in [Procs -> Nat]
        BY <2>1 DEF BootTypeOK
    <2> QED
        BY <2>1, <2>2, MoveEffect, Zenon
<1>3. CASE ListenBind(p)
    <2>1. CASE sock = 0
        <3>1. /\ life' = [life EXCEPT ![p] = "chmod"] /\ life[p] = "bind" /\ sock' = p
              /\ ear' = [ear EXCEPT ![p] = TRUE]
              /\ UNCHANGED <<env, tok, used, tokenFile, requests, history>>
            BY <1>3, <2>1 DEF ListenBind
        <3>2. ear' \in [Procs -> BOOLEAN] /\ tok' \in [Procs -> Nat]
            BY <3>1 DEF BootTypeOK
        <3> QED
            BY <3>1, <3>2, MoveEffect, Zenon
    <2>2. CASE sock # 0
        BY <1>3, <2>2, EndsEffect DEF ListenBind
    <2> QED
        BY <2>1, <2>2
<1>4. CASE ListenChmod(p)
    <2>1. PICK l \in {"serve", "fail"} : life' = [life EXCEPT ![p] = l]
        BY <1>4 DEF ListenChmod
    <2>2. /\ life[p] = "chmod"
          /\ UNCHANGED <<env, tok, ear, used, sock, tokenFile, requests, history>>
        BY <1>4 DEF ListenChmod
    <2>3. ear' \in [Procs -> BOOLEAN] /\ tok' \in [Procs -> Nat]
        BY <2>2 DEF BootTypeOK
    <2> QED
        BY <2>1, <2>2, <2>3, MoveEffect, Zenon
<1>5. CASE ListenFails(p)
    BY <1>5, EndsEffect DEF ListenFails
<1>6. CASE ListenerCloses(p)
    <2>1. /\ life' = life /\ life[p] = "serve" /\ sock' = 0
          /\ ear' = [ear EXCEPT ![p] = FALSE]
          /\ UNCHANGED <<env, tok, used, tokenFile, requests, history>>
        BY <1>6 DEF ListenerCloses
    <2>2. /\ ear' \in [Procs -> BOOLEAN] /\ tok' \in [Procs -> Nat]
          /\ life' = [life EXCEPT ![p] = "serve"]
        BY <2>1 DEF BootTypeOK
    <2> QED
        BY <2>1, <2>2, MoveEffect, Zenon
<1>7. CASE ServeReturns(p)
    BY <1>7, EndsEffect DEF ServeReturns
<1>8. CASE Exit(p)
    BY <1>8, EndsEffect DEF Exit
<1> QED
    BY <1>1, <1>2, <1>3, <1>4, <1>5, <1>6, <1>7, <1>8 DEF ProcessStep

(* Such a step preserves the invariant. *)
LEMMA ProcessInv ==
    ASSUME BootInv, NEW p \in Procs, ProcessEffect(p), UNCHANGED <<manager, left, mismatches>>
    PROVE  BootInv'
<1> USE SlotFacts, ProcFacts DEF BootInv, manager
<1>1. BootTypeOK'
    BY DEF BootTypeOK, ProcessEffect
<1>2. \A q \in Procs : (life[q] = "none" <=> life'[q] = "none") /\ (Bound(q) => Bound(q)')
    BY Zenon DEF ProcessEffect, Bound
<1>3. StageInv'
    BY <1>2, Zenon DEF StageInv, ProcessEffect
<1>4. SpentInv'
    BY Zenon DEF SpentInv, ProcessEffect
<1>5. SlotInv'
    BY <1>2 DEF SlotInv, ProcessEffect
<1>6. CallInv'
    <2>1. stage \in HasAuthed \cup {"authwait"} => cur \in Procs
        BY Zenon DEF StageInv, HasChild, HasAuthed
    <2>2. stage \in HasAuthed \cup {"authwait"} /\ Spent => Spent'
        BY <2>1 DEF Spent, SpentInv, ProcessEffect
    <2>3. stage \in {"dial", "peer", "auth", "authwait"} => cur \in Procs /\ Kernel(cur) \in Slots
        BY DEF StageInv, HasChild
    <2>4. stage \in {"dial", "peer", "auth", "authwait"} => Kernel(cur)' = Kernel(cur)
        BY Zenon DEF Kernel
    <2>5. stage \in {"dial", "peer", "auth"} => at'[Kernel(cur)] = "none"
        BY <2>3, Zenon DEF CallInv, ProcessEffect, InServer
    <2>6. stage = "authwait" =>
             \/ at'[Kernel(cur)] = "none"
             \/ /\ at'[Kernel(cur)] \in {"sent", "auth"}
                /\ req'[Kernel(cur)] = [method |-> "Auth", token |-> secret]
             \/ at'[Kernel(cur)] = "ok" /\ Spent
        BY <2>3 DEF CallInv, ProcessEffect, InServer
    <2> QED
        BY <2>2, <2>4, <2>5, <2>6 DEF CallInv
<1>7. PathInv'
    <2>1. sock' # 0 => sock' = sock \/ (sock' = p /\ mismatches[p] = 0 /\ Bound(p)')
        BY DEF ProcessEffect, PathInv, Bound, BootTypeOK
    <2>2. sock # 0 => sock \in Procs
        BY ServerConstants DEF BootTypeOK, Procs
    <2>3. stage = "peer" => conn \in Procs
        BY Zenon DEF StageInv, HasPeer
    <2> QED
        BY <1>2, <2>1, <2>2, <2>3, Zenon DEF PathInv
<1> QED
    BY <1>1, <1>3, <1>4, <1>5, <1>6, <1>7

-----------------------------------------------------------------------------
(* What a step of a handler may do: only an accepted Auth spends the token. *)
HandlerEffect(r) ==
    /\ UNCHANGED <<life, env, tok, ear, sock, tokenFile>>
    /\ life[To(r)] = "serve"
    /\ at' \in [Slots -> Places] /\ req' \in [Slots -> [method : Methods, token : Nat]]
    /\ \A x \in Slots : x # r => at'[x] = at[x] /\ req'[x] = req[x]
    /\ \/ /\ UNCHANGED <<used, grants, spentBy>>
          /\ \/ at'[r] = "none"
             \/ at[r] = "sent" /\ at'[r] = "auth" /\ req'[r] = req[r]
             \/ at[r] = "sent" /\ at'[r] = "core" /\ req[r].method # "Auth" /\ used[To(r)]
             \/ at[r] = "core" /\ at'[r] = "ok"
       \/ /\ at[r] = "auth" /\ at'[r] \in {"none", "ok"}
          /\ ~used[To(r)] /\ req[r].token = tok[To(r)]
          /\ used' = [used EXCEPT ![To(r)] = TRUE]
          /\ grants' = [grants EXCEPT ![To(r)] = @ + 1]
          /\ spentBy' = [spentBy EXCEPT ![To(r)] = From(r)]

(* What returning does to the slots. *)
LEMMA ReturnsIs ==
    ASSUME BootTypeOK, NEW r \in Slots, NEW ok \in BOOLEAN, Returns(r, ok)
    PROVE  /\ UNCHANGED <<life, env, tok, ear, sock, tokenFile>>
           /\ life[To(r)] = "serve"
           /\ at' \in [Slots -> Places] /\ req' \in [Slots -> [method : Methods, token : Nat]]
           /\ \A x \in Slots : x # r => at'[x] = at[x] /\ req'[x] = req[x]
           /\ at'[r] \in {"none", "ok"} /\ (~ok => at'[r] = "none")
<1> USE DEF BootTypeOK
<1>1. PICK place \in {"none", "ok"} : Moves(r, place) /\ (~ok => place = "none")
    BY DEF Returns
<1>2. at' = [at EXCEPT ![r] = place] /\ place \in Places
    BY <1>1 DEF Moves, Places
<1>3. NoRequest \in [method : Methods, token : Nat]
    BY DEF NoRequest, Methods
<1>4. req' \in [Slots -> [method : Methods, token : Nat]]
    BY <1>3 DEF Returns
<1>5. \A x \in Slots : x # r => at'[x] = at[x] /\ req'[x] = req[x]
    BY <1>2 DEF Returns
<1>6. at' \in [Slots -> Places] /\ at'[r] = place
    BY <1>2
<1> QED
    BY <1>1, <1>4, <1>5, <1>6 DEF Moves

(* What going on does to them. *)
LEMMA ContinuesIs ==
    ASSUME BootTypeOK, NEW r \in Slots, NEW place \in Places, Continues(r, place)
    PROVE  /\ UNCHANGED <<life, env, tok, ear, sock, tokenFile>>
           /\ life[To(r)] = "serve"
           /\ at' \in [Slots -> Places] /\ req' \in [Slots -> [method : Methods, token : Nat]]
           /\ \A x \in Slots : x # r => at'[x] = at[x] /\ req'[x] = req[x]
           /\ at'[r] = place /\ req'[r] = req[r]
BY DEF BootTypeOK, Continues, Moves

(* Every step of a handler has such an effect. *)
LEMMA HandlerSteps ==
    ASSUME BootInv, NEW r \in Slots, HandlerStep(r)
    PROVE  HandlerEffect(r)
<1> USE DEF BootInv
<1> "auth" \in Places /\ "core" \in Places
    BY DEF Places, InServer
<1>1. CASE AuthHook(r)
    <2>1. CASE Continues(r, "auth")
        BY <1>1, <2>1, ContinuesIs DEF HandlerEffect, AuthHook, history
    <2>2. CASE Returns(r, FALSE)
        BY <1>1, <2>2, ReturnsIs, Zenon DEF HandlerEffect, AuthHook, history
    <2> QED
        BY <1>1, <2>1, <2>2, Zenon DEF AuthHook
<1>2. CASE Auth(r)
    <2>1. CASE Accept(r) /\ ~used[To(r)] /\ req[r].token = tok[To(r)]
        BY <1>2, <2>1, ReturnsIs DEF HandlerEffect, Auth, Accept
    <2>2. CASE Reject(r)
        BY <1>2, <2>2, ReturnsIs, Zenon DEF HandlerEffect, Auth, Reject, history
    <2> QED
        BY <1>2, <2>1, <2>2, Zenon DEF Auth
<1>3. CASE RequireAuth(r)
    <2>1. CASE Continues(r, "core") /\ used[To(r)]
        BY <1>3, <2>1, ContinuesIs DEF HandlerEffect, RequireAuth, history
    <2>2. CASE Returns(r, FALSE)
        BY <1>3, <2>2, ReturnsIs, Zenon DEF HandlerEffect, RequireAuth, history
    <2> QED
        BY <1>3, <2>1, <2>2, Zenon DEF RequireAuth
<1>4. CASE CoreReturns(r)
    <2>1. PICK ok \in BOOLEAN : Returns(r, ok)
        BY <1>4 DEF CoreReturns
    <2> QED
        BY <1>4, <2>1, ReturnsIs DEF HandlerEffect, CoreReturns, history
<1> QED
    BY <1>1, <1>2, <1>3, <1>4 DEF HandlerStep

(* Such a step preserves the invariant. *)
LEMMA HandlerInv ==
    ASSUME BootInv, NEW r \in Slots, HandlerEffect(r), UNCHANGED <<manager, left, mismatches>>
    PROVE  BootInv'
<1> USE SlotFacts, ProcFacts DEF BootInv, manager
<1>1. /\ used' \in [Procs -> BOOLEAN] /\ grants' \in [Procs -> Nat]
      /\ spentBy' \in [Procs -> Senders \cup {"none"}]
    <2>1. CASE UNCHANGED <<used, grants, spentBy>>
        BY <2>1 DEF BootTypeOK
    <2>2. CASE /\ used' = [used EXCEPT ![To(r)] = TRUE]
               /\ grants' = [grants EXCEPT ![To(r)] = @ + 1]
               /\ spentBy' = [spentBy EXCEPT ![To(r)] = From(r)]
        <3>1. used' \in [Procs -> BOOLEAN] /\ grants' \in [Procs -> Nat]
            BY <2>2 DEF BootTypeOK
        <3>2. From(r) \in Senders \cup {"none"}
            OBVIOUS
        <3>3. spentBy' \in [Procs -> Senders \cup {"none"}]
            BY <2>2, <3>2, Zenon DEF BootTypeOK
        <3> QED
            BY <3>1, <3>3
    <2> QED
        BY <2>1, <2>2 DEF HandlerEffect
<1>2. BootTypeOK'
    BY <1>1, Zenon DEF BootTypeOK, HandlerEffect
<1>3. StageInv' /\ PathInv'
    BY DEF StageInv, PathInv, HandlerEffect, Bound
<1>4. SpentInv'
    BY DEF SpentInv, HandlerEffect, BootTypeOK
<1>5. \A p \in Procs : used[p] => used'[p] /\ spentBy'[p] = spentBy[p]
    BY DEF HandlerEffect, BootTypeOK
<1>6. SlotInv'
    BY <1>5 DEF SlotInv, HandlerEffect
<1>7. CallInv'
    <2>1. stage \in HasAuthed \cup {"authwait"} => cur \in Procs
        BY Zenon DEF StageInv, HasChild, HasAuthed
    <2>2. stage \in HasAuthed \cup {"authwait"} /\ Spent => Spent'
        BY <1>5, <2>1 DEF Spent, HandlerEffect
    <2>3. stage \in {"dial", "peer", "auth", "authwait"} => cur \in Procs /\ Kernel(cur) \in Slots
        BY DEF StageInv, HasChild
    <2>4. stage \in {"dial", "peer", "auth", "authwait"} => Kernel(cur)' = Kernel(cur)
        BY Zenon DEF Kernel
    <2>5. stage \in {"dial", "peer", "auth"} => at'[Kernel(cur)] = "none"
        BY <2>3, Zenon DEF CallInv, HandlerEffect
    <2>6. ASSUME stage = "authwait"
          PROVE  \/ at'[Kernel(cur)] = "none"
                 \/ /\ at'[Kernel(cur)] \in {"sent", "auth"}
                    /\ req'[Kernel(cur)] = [method |-> "Auth", token |-> secret]
                 \/ at'[Kernel(cur)] = "ok" /\ Spent'
        <3>1. CASE r # Kernel(cur)
            BY <2>2, <2>3, <2>6, <3>1, Zenon DEF CallInv, HandlerEffect
        <3>2. CASE r = Kernel(cur) /\ UNCHANGED <<used, grants, spentBy>>
            <4>0. \/ at[r] \in {"none", "ok"}
                  \/ /\ at[r] \in {"sent", "auth"}
                     /\ req[r] = [method |-> "Auth", token |-> secret]
                BY ONLY <2>6, <3>2, CallInv, Zenon DEF CallInv
            <4>1. ~(at[r] = "sent" /\ req[r].method # "Auth") /\ at[r] # "core"
                BY ONLY <4>0
            <4>2. ~used[cur] => used' # [used EXCEPT ![cur] = TRUE]
                BY <2>3, <2>6, <3>2, Zenon DEF BootTypeOK
            <4>3. at'[r] = "none" \/ (at[r] = "sent" /\ at'[r] = "auth" /\ req'[r] = req[r])
                BY <2>3, <2>6, <3>2, <4>1, <4>2, Zenon DEF HandlerEffect
            <4> QED
                BY <2>6, <3>2, <4>3, Zenon DEF CallInv
        <3>3. CASE r = Kernel(cur) /\ at[r] = "auth" /\ ~used[cur]
            BY <2>3, <2>6, <3>3 DEF CallInv, HandlerEffect, Spent, BootTypeOK
        <3> QED
            BY <2>3, <2>6, <3>1, <3>2, <3>3 DEF HandlerEffect
    <2> QED
        BY <2>2, <2>4, <2>5, <2>6 DEF CallInv
<1> QED
    BY <1>2, <1>3, <1>4, <1>6, <1>7, Zenon

-----------------------------------------------------------------------------
(* The steps of the manager that touch no process and no request: each of   *)
(* them preserves the invariant.                                            *)
LEMMA QuietInv ==
    ASSUME BootInv, UNCHANGED <<processes, requests, history>>,
           \/ StartBegin \/ StartToken \/ StartDial \/ StartPeer \/ StartAuthed
           \/ StartPublish \/ StartUndo \/ StopSweep \/ DaemonCrash
    PROVE  BootInv'
<1> USE SlotFacts, ProcFacts, ServerConstants
    DEF BootInv, processes, requests, history, servers, RemoveArtifacts
<1>1. SpentInv' /\ SlotInv'
    BY DEF SpentInv, SlotInv
<1>2. sock # 0 => sock \in Procs
    BY DEF BootTypeOK, Procs
<1>3. \A p \in Procs : Bound(p)' <=> Bound(p)
    BY Zenon DEF Bound
<1> USE DEF Starting, HasChild, HasPeer, PeerIsOwn, HasAuthed
<1>4. BootTypeOK'
    <2>1. /\ gen' \in Nat /\ secret' \in Nat /\ tokenFile' \in Nat /\ sock' \in 0..MaxProcs
          /\ cur' \in 0..MaxProcs /\ conn' \in 0..MaxProcs
        BY DEF BootTypeOK, StageInv, StartBegin, StartToken, StartDial, StartPeer,
               StartAuthed, StartPublish, StartUndo, StopSweep, DaemonCrash
    <2>2. stage' \in Stages
        BY Zenon DEF Stages, StartBegin, StartToken, StartDial, StartPeer,
               StartAuthed, StartPublish, StartUndo, StopSweep, DaemonCrash
    <2>3. left' \in [starts : Nat, crashes : Nat, clients : Nat]
        BY DEF BootTypeOK, StartBegin, StartToken, StartDial, StartPeer,
               StartAuthed, StartPublish, StartUndo, StopSweep, DaemonCrash
    <2>4. mismatches' \in [Procs -> Nat]
        BY DEF BootTypeOK, StageInv, StartBegin, StartToken, StartDial, StartPeer,
               StartAuthed, StartPublish, StartUndo, StopSweep, DaemonCrash
    <2> QED
        BY <2>1, <2>2, <2>3, <2>4, Zenon DEF BootTypeOK
<1>5. StageInv'
    BY <1>2 DEF StageInv, BootTypeOK, StartBegin, StartToken, StartDial, StartPeer,
           StartAuthed, StartPublish, StartUndo, StopSweep, DaemonCrash
<1>6. CallInv'
    <2>1. (stage = "authwait" \/ stage \in HasAuthed) /\ UNCHANGED <<cur, secret>> /\ Spent => Spent'
        BY Zenon DEF Spent
    <2>2. CASE StartBegin \/ StartToken \/ StartUndo \/ StopSweep \/ DaemonCrash
        BY <2>2, Zenon DEF CallInv, StartBegin, StartToken, StartUndo, StopSweep, DaemonCrash
    <2>3. CASE StartDial \/ StartPeer
        BY <2>3, Zenon DEF CallInv, StartDial, StartPeer, Kernel
    <2>4. CASE StartAuthed
        <3>1. stage' = "caps" => Spent
            BY <2>4, Zenon DEF CallInv, StartAuthed, Trusted, StageInv, Kernel
        <3> QED
            BY <2>1, <2>4, <3>1, Zenon DEF CallInv, StartAuthed
    <2>5. CASE StartPublish
        BY <2>1, <2>5 DEF CallInv, StartPublish
    <2> QED
        BY <2>2, <2>3, <2>4, <2>5
<1>7. PathInv'
    <2>1. CASE StartBegin \/ StartToken \/ StartUndo \/ StopSweep \/ DaemonCrash
        BY <1>2, <1>3, <2>1, Zenon DEF PathInv, StartBegin, StartToken, StartUndo, StopSweep, DaemonCrash
    <2>2. CASE StartDial
        BY <1>2, <1>3, <2>2 DEF PathInv, StartDial
    <2>3. CASE StartPeer
        <3>1. CASE conn = cur
            BY <1>3, <2>3, <3>1, Zenon DEF PathInv, StartPeer
        <3>2. CASE conn # cur
            <4>1. /\ mismatches' = [mismatches EXCEPT ![conn] = @ + 1] /\ stage' = "unwind"
                  /\ sock' = sock /\ conn \in Procs /\ mismatches[conn] = 0 /\ Bound(conn)
                BY <2>3, <3>2, Zenon DEF StartPeer, PathInv, StageInv
            <4>2. mismatches'[conn] = 1 /\ \A p \in Procs : p # conn => mismatches'[p] = mismatches[p]
                BY <4>1 DEF BootTypeOK
            <4> QED
                BY <1>3, <4>1, <4>2 DEF PathInv
        <3> QED
            BY <3>1, <3>2, Zenon
    <2>4. CASE StartAuthed \/ StartPublish
        BY <1>3, <2>4, Zenon DEF PathInv, StartAuthed, StartPublish
    <2> QED
        BY <2>1, <2>2, <2>3, <2>4, Zenon
<1> QED
    BY <1>1, <1>4, <1>5, <1>6, <1>7, Zenon

(* Creating the child preserves the invariant. *)
LEMMA SpawnInv ==
    ASSUME BootInv, StartSpawn
    PROVE  BootInv'
<1> USE SlotFacts, ProcFacts DEF BootInv, requests, history
<1>1. CASE stage' = "idle" /\ gen' = gen - 1 /\ UNCHANGED <<life, env, cur>>
    <2>1. gen' \in Nat /\ stage' \in Stages
        BY <1>1 DEF BootTypeOK, StageInv, StartSpawn, Starting, Stages
    <2>2. BootTypeOK' /\ SpentInv' /\ SlotInv'
        BY <1>1, <2>1, Zenon DEF BootTypeOK, SpentInv, SlotInv, StartSpawn
    <2>3. StageInv' /\ CallInv' /\ PathInv'
        BY <1>1, Zenon DEF StageInv, CallInv, PathInv, StartSpawn, Bound, Starting, HasChild, HasPeer,
                    PeerIsOwn, HasAuthed
    <2> QED
        BY <2>2, <2>3, Zenon
<1>2. ASSUME NEW p \in Procs, life[p] = "none", life' = [life EXCEPT ![p] = "boot"],
             env' = [env EXCEPT ![p] = gen], cur' = p, stage' = "dial", UNCHANGED gen
      PROVE  BootInv'
    <2>1. /\ UNCHANGED <<tok, ear, used, sock, tokenFile, at, req, grants, spentBy, conn,
                         secret, left, mismatches>>
          /\ stage = "spawn"
        BY Zenon DEF StartSpawn
    <2>2. life'[p] = "boot" /\ env'[p] = gen /\ \A q \in Procs : q # p => life'[q] = life[q]
        BY <1>2, Zenon DEF BootTypeOK
    <2>3. BootTypeOK'
        <3>1. life' \in [Procs -> Lives] /\ env' \in [Procs -> Nat]
            BY <1>2 DEF BootTypeOK, Lives
        <3>2. stage' \in Stages /\ cur' \in 0..MaxProcs
            BY <1>2, Zenon DEF Stages, Starting
        <3> QED
            BY <1>2, <2>1, <3>1, <3>2, Zenon DEF BootTypeOK
    <2>4. StageInv'
        BY <1>2, <2>1, <2>2, Zenon DEF StageInv, Starting, HasChild, HasPeer, PeerIsOwn, HasAuthed
    <2>5. SpentInv' /\ SlotInv'
        BY <1>2, <2>1, <2>2, Zenon DEF SpentInv, SlotInv
    <2>6. CallInv'
        <3>1. at[Kernel(p)] = "none" /\ Kernel(cur)' = Kernel(p)
            BY <1>2, Zenon DEF SlotInv, Kernel
        <3> QED
            BY <1>2, <2>1, <3>1, Zenon DEF CallInv, HasAuthed
    <2>7. PathInv'
        <3>1. \A q \in Procs : Bound(q) => Bound(q)'
            BY <1>2, <2>2, Zenon DEF Bound
        <3> QED
            BY <1>2, <2>1, <3>1 DEF PathInv
    <2> QED
        BY <2>3, <2>4, <2>5, <2>6, <2>7, Zenon
<1> QED
    BY <1>1, <1>2, Zenon DEF StartSpawn

-----------------------------------------------------------------------------
(* What sending a request does. *)
LEMMA SendIs ==
    ASSUME BootTypeOK, NEW r \in Slots, NEW method \in Methods, NEW token \in Nat,
           Send(r, method, token)
    PROVE  /\ at' \in [Slots -> Places] /\ req' \in [Slots -> [method : Methods, token : Nat]]
           /\ \A x \in Slots : x # r => at'[x] = at[x] /\ req'[x] = req[x]
           /\ at[r] \notin InServer /\ life[To(r)] # "none"
           /\ at'[r] = "sent" /\ req'[r] = [method |-> method, token |-> token]
<1> USE DEF BootTypeOK
<1>1. "sent" \in Places
    BY DEF Places, InServer
<1>2. at' \in [Slots -> Places] /\ at'[r] = "sent"
    BY <1>1 DEF Send
<1>3. req' \in [Slots -> [method : Methods, token : Nat]]
    BY DEF Send
<1>4. req'[r] = [method |-> method, token |-> token]
    BY DEF Send
<1>5. \A x \in Slots : x # r => at'[x] = at[x] /\ req'[x] = req[x]
    BY DEF Send
<1> QED
    BY <1>2, <1>3, <1>4, <1>5 DEF Send, Running

(* A request to the child by the manager preserves the invariant. *)
LEMMA AskInv ==
    ASSUME BootInv, StartAuth \/ StartCaps \/ Stop
    PROVE  BootInv'
<1> USE SlotFacts, ProcFacts DEF BootInv, processes, history
<1> USE DEF Starting, HasChild, HasPeer, PeerIsOwn, HasAuthed
<1>1. /\ UNCHANGED <<life, env, tok, ear, used, sock, tokenFile, grants, spentBy, gen, cur,
                     conn, secret, left, mismatches>>
      /\ stage' \in {"authwait", "capswait", "unwind", "sweep", "shut"}
      /\ stage' = "authwait" => stage = "auth" /\ Send(Kernel(conn), "Auth", secret)
      /\ stage' = "capswait" => stage = "caps"
      /\ stage' = "unwind" => stage \in {"auth", "caps"}
      /\ stage' = "shut" => stage = "up"
    BY DEF StartAuth, StartCaps, Stop, Ask
<1>2. \/ UNCHANGED requests
      \/ /\ stage \in {"auth", "caps", "up"}
         /\ \E method \in Methods, token \in Nat : Send(Kernel(cur), method, token)
    <2>1. stage \in {"auth", "caps", "up"} => conn = cur
        BY DEF StageInv
    <2>2. secret \in Nat /\ 0 \in Nat /\ {"Auth", "Capabilities", "Shutdown"} \subseteq Methods
        BY Zenon DEF BootTypeOK, Methods
    <2>3. CASE StartAuth
        BY <2>1, <2>2, <2>3, Zenon DEF StartAuth, Ask
    <2>4. CASE StartCaps
        BY <2>1, <2>2, <2>4, Zenon DEF StartCaps, Ask
    <2>5. CASE Stop
        BY <2>1, <2>2, <2>5 DEF Stop
    <2> QED
        BY <2>3, <2>4, <2>5
<1>3. stage \in {"auth", "caps", "up"} => cur \in Procs /\ Kernel(cur) \in Slots
    BY Zenon DEF StageInv
<1>4. /\ at' \in [Slots -> Places] /\ req' \in [Slots -> [method : Methods, token : Nat]]
      /\ \A r \in Slots : at'[r] = at[r] \/ (at'[r] = "sent" /\ life[To(r)] # "none")
    <2>1. CASE UNCHANGED requests
        BY <2>1 DEF requests, BootTypeOK
    <2>2. CASE ~UNCHANGED requests
        BY <1>2, <1>3, <2>2, SendIs, Zenon
    <2> QED
        BY <2>1, <2>2, Zenon
<1>5. BootTypeOK'
    BY <1>1, <1>4, Zenon DEF BootTypeOK, Stages, Stopping
<1>6. StageInv'
    BY <1>1, Zenon DEF StageInv
<1>7. SpentInv' /\ SlotInv'
    BY <1>1, <1>4, Zenon DEF SpentInv, SlotInv
<1>8. CallInv'
    <2>1. Spent => Spent'
        BY <1>1, Zenon DEF Spent
    <2>2. ASSUME stage' = "authwait"
          PROVE  /\ at'[Kernel(cur)] = "sent"
                 /\ req'[Kernel(cur)] = [method |-> "Auth", token |-> secret]
        <3>1. conn = cur /\ stage = "auth"
            BY <1>1, <2>2, Zenon DEF StageInv
        <3>2. Send(Kernel(cur), "Auth", secret) /\ secret \in Nat /\ "Auth" \in Methods
            BY <1>1, <2>2, <3>1, Zenon DEF BootTypeOK, Methods
        <3> QED
            BY <1>3, <3>1, <3>2, SendIs
    <2>3. Kernel(cur)' = Kernel(cur)
        BY <1>1, Zenon DEF Kernel
    <2> QED
        BY <1>1, <2>1, <2>2, <2>3, Zenon DEF CallInv
<1>9. PathInv'
    BY <1>1 DEF PathInv, Bound
<1> QED
    BY <1>5, <1>6, <1>7, <1>8, <1>9, Zenon

(* So does a request of another client. *)
LEMMA ClientInv ==
    ASSUME BootInv, ClientCall
    PROVE  BootInv'
<1> USE SlotFacts, ProcFacts DEF BootInv, processes, history, manager
<1>1. PICK p \in Procs : \E method \in Methods, token \in Nat : Send(<<p, "client">>, method, token)
    <2>1. \A p \in Procs : tok[p] \in Nat /\ 0 \in Nat /\ {"Auth", "Work"} \subseteq Methods
        BY Zenon DEF BootTypeOK, Methods
    <2> QED
        BY <2>1, Zenon DEF ClientCall
<1>2. <<p, "client">> \in Slots /\ \A q \in Procs : Kernel(q) # <<p, "client">>
    BY DEF Slots, Senders, Kernel
<1>3. /\ at' \in [Slots -> Places] /\ req' \in [Slots -> [method : Methods, token : Nat]]
      /\ \A r \in Slots : at'[r] = at[r] \/ (at'[r] = "sent" /\ life[To(r)] # "none")
      /\ \A q \in Procs : at'[Kernel(q)] = at[Kernel(q)] /\ req'[Kernel(q)] = req[Kernel(q)]
    BY <1>1, <1>2, SendIs, Zenon
<1>4. /\ UNCHANGED <<life, env, tok, ear, used, sock, tokenFile, grants, spentBy, stage, gen,
                     cur, conn, secret, mismatches>>
      /\ left' \in [starts : Nat, crashes : Nat, clients : Nat]
    <2>1. UNCHANGED <<life, env, tok, ear, used, sock, tokenFile, grants, spentBy, stage, gen,
                      cur, conn, secret, mismatches>>
        BY Zenon DEF ClientCall
    <2>2. left.clients > 0 /\ left' = [left EXCEPT !.clients = @ - 1]
        BY Zenon DEF ClientCall
    <2>3. left \in [starts : Nat, crashes : Nat, clients : Nat]
        BY Zenon DEF BootTypeOK
    <2>4. left' \in [starts : Nat, crashes : Nat, clients : Nat]
        BY <2>2, <2>3
    <2> QED
        BY <2>1, <2>4, Zenon
<1>5. BootTypeOK' /\ StageInv'
    BY <1>3, <1>4, Zenon DEF BootTypeOK, StageInv
<1>6. SpentInv' /\ SlotInv' /\ PathInv'
    BY <1>3, <1>4 DEF SpentInv, SlotInv, PathInv, Bound
<1>7. CallInv'
    <2>1. stage \in {"dial", "peer", "auth", "authwait"} => cur \in Procs
        BY Zenon DEF StageInv, HasChild
    <2>2. Kernel(cur)' = Kernel(cur) /\ (Spent => Spent')
        BY <1>4 DEF Kernel, Spent
    <2> QED
        BY <1>3, <1>4, <2>1, <2>2, Zenon DEF CallInv
<1> QED
    BY <1>5, <1>6, <1>7

(* So do the steps that end the child. *)
LEMMA KillInv ==
    ASSUME BootInv, StartUnwind \/ StopReap
    PROVE  BootInv'
<1> USE SlotFacts, ProcFacts DEF BootInv, processes, requests, history
<1> USE DEF Starting, HasChild, HasPeer, PeerIsOwn, HasAuthed
<1>1. /\ cur \in Procs /\ UNCHANGED <<sock, tokenFile, gen, secret, left, mismatches>>
      /\ stage' \in {"undo", "idle", "sweep"}
      /\ stage' = "undo" => stage = "unwind" /\ cur' = cur /\ conn' = conn
      /\ cur' \in {0, cur} /\ conn' \in {0, conn}
    BY DEF StartUnwind, StopReap, StageInv
<1> PICK p \in Procs : p = cur
    BY <1>1, Zenon
<1>2. ProcessEffect(p) \/ UNCHANGED <<processes, requests, history>>
    BY <1>1, EndsEffect DEF StartUnwind, StopReap, Kill
<1>3. /\ life' \in [Procs -> Lives] /\ tok' \in [Procs -> Nat] /\ ear' \in [Procs -> BOOLEAN]
      /\ at' \in [Slots -> Places] /\ req' \in [Slots -> [method : Methods, token : Nat]]
      /\ UNCHANGED <<env, used, grants, spentBy>>
      /\ \A q \in Procs : (life[q] = "none" <=> life'[q] = "none") /\ (Bound(q) => Bound(q)')
      /\ \A q \in Procs : life[q] \in {"serve", "end"} => life'[q] \in {"serve", "end"}
      /\ \A r \in Slots : at'[r] = at[r] \/ at'[r] = "none"
    <2>1. CASE ProcessEffect(p)
        BY <2>1, Zenon DEF ProcessEffect, Bound
    <2>2. CASE UNCHANGED <<processes, requests, history>>
        BY <2>2, Zenon DEF BootTypeOK, Bound
    <2> QED
        BY <1>2, <2>1, <2>2, Zenon
<1>4. BootTypeOK'
    BY <1>1, <1>3, ServerConstants DEF BootTypeOK, Stages, Stopping
<1>5. StageInv'
    BY <1>1, <1>3, Zenon DEF StageInv
<1>6. SpentInv' /\ SlotInv'
    BY <1>3 DEF SpentInv, SlotInv
<1>7. CallInv' /\ PathInv'
    BY <1>1, <1>3 DEF CallInv, PathInv
<1> QED
    BY <1>4, <1>5, <1>6, <1>7, Zenon

(* Every step preserves the invariant. *)
LEMMA BootStepInv == BootInv /\ [Next]_vars => BootInv'
<1> SUFFICES ASSUME BootInv, [Next]_vars PROVE BootInv'
    OBVIOUS
<1>1. CASE StartBegin \/ StartToken \/ StartDial \/ StartPeer \/ StartAuthed
           \/ StartPublish \/ StartUndo \/ StopSweep \/ DaemonCrash
    <2>1. UNCHANGED <<processes, requests, history>>
        BY <1>1 DEF StartBegin, StartToken, StartDial, StartPeer, StartAuthed, StartPublish,
                    StartUndo, StopSweep, DaemonCrash, servers
    <2> QED
        BY <1>1, <2>1, QuietInv
<1>2. CASE StartSpawn
    BY <1>2, SpawnInv
<1>3. CASE StartAuth \/ StartCaps \/ Stop
    BY <1>3, AskInv
<1>4. CASE StartUnwind \/ StopReap
    BY <1>4, KillInv, Zenon
<1>5. CASE ClientCall
    BY <1>5, ClientInv
<1>6. CASE PluginStep /\ UNCHANGED <<manager, left, mismatches>>
    BY <1>6, ProcessSteps, ProcessInv, HandlerSteps, HandlerInv, Zenon DEF PluginStep, BootInv
<1>7. CASE UNCHANGED vars
    <2>1. UNCHANGED <<processes, sock, tokenFile, requests, history, manager, left, mismatches>>
        BY <1>7, Zenon DEF vars, servers
    <2> USE <2>1 DEF processes, requests, history, manager
    <2>2. BootTypeOK'
        BY Zenon DEF BootInv, BootTypeOK
    <2>3. StageInv' /\ SpentInv' /\ SlotInv'
        BY Zenon DEF BootInv, StageInv, SpentInv, SlotInv
    <2>4. CallInv'
        BY Zenon DEF BootInv, CallInv, Spent, Kernel
    <2>5. PathInv'
        BY DEF BootInv, PathInv, Bound
    <2> QED
        BY <2>2, <2>3, <2>4, <2>5 DEF BootInv
<1> QED
    BY <1>1, <1>2, <1>3, <1>4, <1>5, <1>6, <1>7 DEF Next, ManagerStep

-----------------------------------------------------------------------------
(* The invariant holds throughout. *)
LEMMA BootInvariant == Spec => []BootInv
<1>1. Init => BootInv
    BY BootInitInv
<1>2. BootInv /\ [Next]_vars => BootInv'
    BY BootStepInv
<1> QED
    BY <1>1, <1>2, PTL DEF Spec

(* Every variable keeps its type; in particular the generation is never     *)
(* rolled back below zero, whatever fails and whichever daemon dies.        *)
THEOREM BootTypes == Spec => []BootTypeOK
<1>1. BootInv => BootTypeOK
    BY DEF BootInv
<1> QED
    BY <1>1, BootInvariant, PTL

(* For any number of processes, starts, dying daemons and other clients,    *)
(* what startLocked publishes is the child it has created, with the token   *)
(* of this start spent by the manager.                                      *)
THEOREM PublishedIsOwn == Spec => []PublishedIsOwnChild
<1>1. BootInv => PublishedIsOwnChild
    <2> SUFFICES ASSUME BootInv, stage = "up" PROVE PublishedIsOwnChild
        BY Zenon DEF PublishedIsOwnChild
    <2>1. cur \in Procs /\ env[cur] = gen /\ conn = cur /\ tokenFile = 0 /\ Spent
        BY Zenon DEF BootInv, StageInv, CallInv, HasChild, PeerIsOwn, HasAuthed
    <2>2. grants[cur] = 1
        BY <2>1 DEF BootInv, SpentInv, Spent
    <2> QED
        BY <2>1, <2>2, Zenon DEF PublishedIsOwnChild, Spent
<1> QED
    BY <1>1, BootInvariant, PTL

(* However many processes are left behind, each of them makes at most one   *)
(* start fail by answering in place of its child.                           *)
THEOREM LeftoverFailsOne == Spec => []LeftoverFailsOneStart
<1>1. BootInv => LeftoverFailsOneStart
    BY Zenon DEF BootInv, PathInv, LeftoverFailsOneStart
<1> QED
    BY <1>1, BootInvariant, PTL

-----------------------------------------------------------------------------
Working == [p \in Procs |-> {s \in Senders : at[<<p, s>>] = "core"}]

(* The requests past the gate of each server, a function of the servers. *)
LEMMA WorkingType ==
    /\ Working \in [Procs -> SUBSET Senders]
    /\ Working' \in [Procs -> SUBSET Senders]
BY DEF Working

(* A step of one server that lets nothing new past its gate is one that     *)
(* OneTimeAuth allows.                                                      *)
LEMMA GateLeave ==
    ASSUME NEW p \in Procs, UNCHANGED grants,
           \A r \in Slots : To(r) # p => (at'[r] = "core" <=> at[r] = "core"),
           \A r \in Slots : at'[r] = "core" => at[r] = "core"
    PROVE  Gate!Next
<1>1. \A q \in Procs, s \in Senders : <<q, s>> \in Slots /\ To(<<q, s>>) = q
    BY Zenon DEF Slots, To
<1>2. \A q \in Procs : q # p => Working'[q] = Working[q]
    BY <1>1 DEF Working
<1>3. Working'[p] \in SUBSET Working[p]
    BY <1>1, Zenon DEF Working
<1>4. Working' = [Working EXCEPT ![p] = Working'[p]]
    BY <1>2, WorkingType
<1>5. \E w \in SUBSET Working[p] : Working' = [Working EXCEPT ![p] = w]
    BY <1>3, <1>4, Zenon
<1>6. Gate!Leave(p)
    BY <1>5, Zenon DEF Gate!Leave, Working
<1> QED
    BY <1>6, Zenon DEF Gate!Next

(* A step that leaves the grants and the requests past the gates alone. *)
LEMMA GateStutter ==
    ASSUME UNCHANGED grants, \A r \in Slots : at'[r] = "core" <=> at[r] = "core"
    PROVE  UNCHANGED <<grants, Working>>
<1>1. \A q \in Procs, s \in Senders : <<q, s>> \in Slots
    BY DEF Slots
<1>2. \A q \in Procs : {s \in Senders : at'[<<q, s>>] = "core"} = {s \in Senders : at[<<q, s>>] = "core"}
    BY <1>1, Zenon
<1> QED
    BY <1>2, Zenon DEF Working

(* A step of a handler, seen through the gate. *)
LEMMA GateHandler ==
    ASSUME BootInv, NEW r \in Slots, HandlerEffect(r)
    PROVE  Gate!Next \/ UNCHANGED <<grants, Working>>
<1> USE SlotFacts DEF BootInv
<1>1. CASE UNCHANGED <<used, grants, spentBy>> /\ at'[r] # "core"
    BY <1>1, GateLeave, Zenon DEF HandlerEffect
<1>2. CASE UNCHANGED <<used, grants, spentBy>> /\ at'[r] = "core"
    <2>1. PICK p \in Procs : p = To(r)
        OBVIOUS
    <2>2. PICK s \in Senders : s = From(r)
        OBVIOUS
    <2>3. r = <<p, s>>
        BY <2>1, <2>2 DEF Slots, To, From
    <2>4. CASE at[r] = "core"
        BY <1>2, <2>4, GateStutter DEF HandlerEffect
    <2>5. CASE at[r] # "core"
        <3>1. used[p]
            BY <1>2, <2>1, <2>5, Zenon DEF HandlerEffect, BootTypeOK
        <3>2. grants[p] = 1
            BY <3>1 DEF SpentInv
        <3>3. \A q \in Procs, t \in Senders : <<q, t>> \in Slots /\ (<<q, t>> = r <=> q = p /\ t = s)
            BY <2>3, Zenon DEF Slots
        <3>4. \A q \in Procs : q # p => Working'[q] = Working[q]
            BY <3>3 DEF Working, HandlerEffect
        <3>5. Working'[p] = Working[p] \cup {s}
            BY <1>2, <3>3 DEF Working, HandlerEffect
        <3>6. Working' = [Working EXCEPT ![p] = @ \cup {s}]
            BY <3>4, <3>5, WorkingType
        <3>7. \E w \in Senders : Working' = [Working EXCEPT ![p] = @ \cup {w}]
            BY <3>6, Zenon
        <3>8. Gate!Enter(p)
            BY <1>2, <3>2, <3>7, Zenon DEF Gate!Enter, Working
        <3> QED
            BY <3>8, Zenon DEF Gate!Next
    <2> QED
        BY <2>4, <2>5
<1>3. CASE /\ at[r] = "auth" /\ at'[r] \in {"none", "ok"} /\ ~used[To(r)]
           /\ grants' = [grants EXCEPT ![To(r)] = @ + 1]
    <2>1. PICK p \in Procs : p = To(r)
        OBVIOUS
    <2>2. grants[p] = 0
        BY <1>3, <2>1, Zenon DEF SpentInv
    <2>3. grants' = [grants EXCEPT ![p] = 1]
        BY <1>3, <2>1, <2>2 DEF BootTypeOK
    <2>4. \A x \in Slots : at'[x] = "core" <=> at[x] = "core"
        BY <1>3, Zenon DEF HandlerEffect
    <2>5. \A q \in Procs, t \in Senders : <<q, t>> \in Slots
        BY Zenon DEF Slots
    <2>6. UNCHANGED Working
        BY <2>4, <2>5 DEF Working
    <2>7. Gate!Grant(p)
        BY <2>2, <2>3, <2>6, Zenon DEF Gate!Grant, Working
    <2> QED
        BY <2>7, Zenon DEF Gate!Next
<1> QED
    BY <1>1, <1>2, <1>3, Zenon DEF HandlerEffect

(* Every step of the system is one of the gate, or one it does not see. *)
LEMMA GateStep ==
    ASSUME BootInv, [Next]_vars
    PROVE  Gate!Next \/ UNCHANGED <<grants, Working>>
<1> USE SlotFacts, ProcFacts DEF BootInv
<1>1. CASE UNCHANGED <<at, grants>>
    BY <1>1, GateStutter, Zenon
<1>2. CASE StartSpawn \/ StartBegin \/ StartToken \/ StartDial \/ StartPeer \/ StartAuthed
           \/ StartPublish \/ StartUndo \/ StopSweep \/ DaemonCrash \/ UNCHANGED vars
    BY <1>1, <1>2 DEF StartSpawn, StartBegin, StartToken, StartDial, StartPeer, StartAuthed,
                      StartPublish, StartUndo, StopSweep, DaemonCrash, vars, servers, requests, history
<1>3. ASSUME NEW r \in Slots, NEW method, NEW token, Send(r, method, token), UNCHANGED grants
      PROVE  UNCHANGED <<grants, Working>>
    <2>1. \A x \in Slots : at'[x] = "core" <=> at[x] = "core"
        BY <1>3, Zenon DEF Send, InServer, BootTypeOK
    <2> QED
        BY <1>3, <2>1, GateStutter, Zenon
<1>4. CASE StartAuth \/ StartCaps \/ Stop
    <2>1. UNCHANGED grants
        BY <1>4, Zenon DEF StartAuth, StartCaps, Stop, Ask, history
    <2>2. stage \in {"auth", "caps", "up"} => Kernel(conn) \in Slots
        BY DEF StageInv, HasPeer
    <2> QED
        BY <1>1, <1>3, <1>4, <2>1, <2>2, Zenon DEF StartAuth, StartCaps, Stop, Ask, requests
<1>5. CASE ClientCall
    <2>1. UNCHANGED grants
        BY <1>5 DEF ClientCall, history
    <2>2. \A p \in Procs : <<p, "client">> \in Slots
        BY Zenon DEF Slots, Senders
    <2> QED
        BY <1>3, <1>5, <2>1, <2>2 DEF ClientCall
<1>6. ASSUME NEW p \in Procs, ProcessEffect(p)
      PROVE  Gate!Next
    BY <1>6, GateLeave, Zenon DEF ProcessEffect
<1>7. CASE StartUnwind \/ StopReap
    <2>1. PICK p \in Procs : p = cur
        BY <1>7, Zenon DEF StartUnwind, StopReap, StageInv, HasChild
    <2>2. ProcessEffect(p) \/ UNCHANGED <<processes, requests, history>>
        BY <1>7, <2>1, EndsEffect, Zenon DEF StartUnwind, StopReap, Kill
    <2> QED
        BY <1>1, <1>6, <2>2, Zenon DEF requests, history
<1>8. CASE PluginStep
    BY <1>6, <1>8, ProcessSteps, HandlerSteps, GateHandler DEF PluginStep
<1> QED
    BY <1>2, <1>4, <1>5, <1>7, <1>8, Zenon DEF Next, ManagerStep

(* The servers implement OneTimeAuth: each spends its token at most once    *)
(* and works on no request before that.                                     *)
THEOREM GateKept == Spec => ServersKeepGate
<1>1. Init => Gate!Init
    BY DEF Init, ServerInit, Gate!Init, Slots
<1>2. BootInv /\ [Next]_vars => [Gate!Next]_<<grants, Working>>
    BY GateStep
<1> QED
    BY <1>1, <1>2, BootInvariant, PTL DEF Spec, ServersKeepGate, Gate!Spec, Working

=============================================================================
