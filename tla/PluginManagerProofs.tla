------------------------ MODULE PluginManagerProofs ------------------------
(***************************************************************************)
(* Proofs, for every value of the constants, of the safety properties of   *)
(* PluginManager.  The inductive invariant says, for every stage of the    *)
(* lifecycle operation that holds lifecycleMu, what the manager's fields,  *)
(* the processes and the files look like.                                  *)
(***************************************************************************)
EXTENDS PluginManager, TLAPS

\* lifecycleMu and stage agree; a stop has emptied the manager and a start
\* keeps it empty until it publishes; a closed manager starts nothing.
LifecycleInv ==
    /\ lifecycleMu = None <=> stage = "free"
    /\ \A t \in Threads : pc[t] = "op" <=> lifecycleMu = t
    /\ stage \in StopStages \cup StartStages => cmd = 0 /\ client = 0
    /\ closed => cmd = 0 /\ client = 0 /\ stage \notin StartStages
    /\ closedCh => closed /\ stage \notin StopStages \ {"purge"}

\* What is published is the last incarnation published, and it is attached.
PublishedInv ==
    /\ lastPub <= starts
    /\ cmd # 0 => cmd = lastPub /\ state.PID = cmd
    /\ client # 0 => client = cmd /\ conn[client]
    /\ state.Healthy => client # 0

\* The stages in which the generation of a start in progress is in the state.
Bumped == StartStages \ {"discard"}

\* The generation in the state is the last published one, or its successor
\* while a start is in progress; the process being started carries it.
GenerationInv ==
    /\ state.GenerationID = IF stage \in Bumped THEN LastGeneration + 1
                                                ELSE LastGeneration
    /\ stage \in Bumped \cup {"shutdown", "reap", "cleanup"} => lc.gen = state.GenerationID
    /\ stage \in BootStages \cup {"rollback", "discard"} =>
           lc.proc = starts /\ lastPub < starts
    /\ stage \in BootStages => procGen[lc.proc] = lc.gen
    /\ stage \in {"peercred", "auth", "caps", "publish"} =>
           lc.client = lc.proc /\ conn[lc.proc]
    /\ stage = "discard" => state.PID = 0 /\ ~state.SocketPath

\* A call in flight goes to the last published incarnation with its generation,
\* or to an earlier one with a smaller generation.  A client about to be closed
\* is detached.
CallInv ==
    \A t \in Threads : InCall(t) =>
        /\ call[t].client # 0
        /\ \/ call[t].client = lastPub /\ call[t].gen = LastGeneration
           \/ call[t].client < lastPub /\ call[t].gen < LastGeneration
        /\ pc[t] = "detach" => client # call[t].client

\* A process the manager has not waited for is the published one or the one
\* the current operation has in hand; only the latter may still be unbound.
ProcessInv ==
    /\ lc.proc <= starts
    /\ \A n \in Incarnations :
         /\ n > starts => proc[n] = "none"
         /\ proc[n] = "spawned" => n = lc.proc /\ stage \in {"dial", "unwind"}
         /\ Unreaped(n) /\ ~StopFaults =>
              \/ n = cmd
              \/ n = lc.proc /\ stage \in {"shutdown", "reap"} \cup BootStages

\* Who answers for a socket file, and when there is no token file.
FileInv ==
    /\ sockFile # 0 /\ ~StopFaults =>
           cmd # 0 \/ stage \in {"shutdown", "reap", "cleanup", "rollback", "discard"}
                                  \cup BootStages
    /\ cmd # 0 \/ stage \in {"caps", "publish"} => ~authFile
    /\ closedCh /\ stage # "purge" => sockFile = 0 /\ ~authFile

IInv == TypeOK /\ LifecycleInv /\ PublishedInv /\ GenerationInv /\ CallInv
               /\ ProcessInv /\ FileInv

USE DEF mgrVars, lcVars, thrVars, procVars, fileVars

-----------------------------------------------------------------------------
(* Types of the records the actions build. *)

\* The State literals and assignments of startLocked, rollbackGeneration,
\* Heartbeat, poisonClient and stopCurrent build states.
LEMMA StateTypes ==
    /\ \A g \in Nat, b \in BOOLEAN : ResetState(g, b) \in StateType
    /\ \A g \in Nat, n \in 0..MaxStarts : PublishedState(g, n) \in StateType
    /\ \A s \in StateType, b \in BOOLEAN : WithHealth(s, b) \in StateType
    /\ \A s \in StateType : Stopped(s) \in StateType
  BY ConstantsAssumption
     DEF ResetState, PublishedState, WithHealth, Stopped, StateType

\* The locals of a lifecycle operation, and those of no call, have their types.
LEMMA LocalTypes ==
    /\ \A c, p \in 0..MaxStarts, g \in Nat : Locals(c, p, g) \in LocalsType
    /\ NoLocals \in LocalsType
    /\ NoCall \in CallType
  BY ConstantsAssumption
     DEF Locals, NoLocals, LocalsType, NoCall, CallType, Methods

\* The types of the fields that the proofs compute with.
LEMMA FieldTypes ==
    ASSUME TypeOK
    PROVE  /\ state.GenerationID \in Nat /\ LastGeneration \in Nat
           /\ lc.gen \in Nat /\ lc.proc \in 0..MaxStarts
           /\ lc.client \in 0..MaxStarts
           /\ starts \in Nat /\ lastPub \in Nat
  BY ConstantsAssumption
     DEF TypeOK, StateType, LocalsType, LastGeneration, Incarnations

\* The types of a call in flight.
LEMMA CallFields ==
    ASSUME TypeOK, NEW t \in Threads
    PROVE  /\ call[t].client \in 0..MaxStarts
           /\ call[t].gen \in Nat /\ call[t].epoch \in Nat
  BY DEF TypeOK, CallType

\* rollbackGeneration goes back to the last published generation.
LEMMA RolledBackIs ==
    ASSUME IInv, stage \in Bumped
    PROVE  RolledBack(lc.gen) = ResetState(LastGeneration, FALSE)
  <1>1. lc.gen = state.GenerationID /\ lc.gen = LastGeneration + 1
    BY DEF IInv, GenerationInv
  <1>2. LastGeneration \in Nat /\ lc.gen - 1 = LastGeneration
    BY <1>1, FieldTypes DEF IInv
  <1> QED
    BY <1>1, <1>2 DEF RolledBack

-----------------------------------------------------------------------------
(* Frames: what the steps outside lifecycleMu leave alone. *)

\* The steps by which a goroutine enters or leaves the manager.
CallerStep ==
    \/ \E t \in Threads, m \in Methods : BeginCall(t, m)
    \/ \E t \in Workers, o \in Ops : Request(t, o)
    \/ \E t \in Threads : CallReply(t) \/ CallServerError(t) \/ CallBroken(t)
                             \/ CallFence(t)
    \/ MonitorTick \/ MonitorRecover \/ MonitorCancelled

\* Next, with the caller steps gathered.
LEMMA NextCases ==
    ASSUME Next
    PROVE  \/ CallerStep
           \/ \E t \in Threads :
                 \/ PoisonDetach(t) \/ PoisonClose(t) \/ Acquire(t)
                 \/ \E h \in BOOLEAN : ApplyHeartbeat(t, h)
           \/ StopStep \/ StartStep
           \/ \E n \in Incarnations : PluginBind(n) \/ PluginExit(n)
  BY Zenon DEF Next, Answer, CallStep, CallerStep, Threads

\* A caller step only moves its goroutine.
LEMMA CallerFrame ==
    ASSUME CallerStep
    PROVE  UNCHANGED <<mgrVars, lcVars, procVars, fileVars, lastPub>>
  BY DEF CallerStep, BeginCall, Request, CallReply, CallServerError, CallBroken,
         CallFence, MonitorTick, MonitorRecover, MonitorCancelled

\* A caller step neither takes lifecycleMu nor gives it up.
LEMMA CallerLock ==
    ASSUME TypeOK, CallerStep
    PROVE  \A t \in Threads : pc'[t] = "op" <=> pc[t] = "op"
  <1>a. pc \in [Threads -> PCs] /\ Monitor \in Threads
    BY DEF TypeOK, Threads
  <1> USE <1>a DEF Goto, ReturnCall, ReturnOK, ReturnError, Free
  <1>1. ASSUME NEW t \in Threads, NEW m \in Methods, BeginCall(t, m)
        PROVE  \A u \in Threads : pc'[u] = "op" <=> pc[u] = "op"
    BY <1>1 DEF BeginCall
  <1>2. ASSUME NEW t \in Threads, CallFence(t)
        PROVE  \A u \in Threads : pc'[u] = "op" <=> pc[u] = "op"
    BY <1>2 DEF CallFence
  <1>3. ASSUME NEW t \in Threads, CallReply(t) \/ CallServerError(t) \/ CallBroken(t)
        PROVE  \A u \in Threads : pc'[u] = "op" <=> pc[u] = "op"
    BY <1>3 DEF CallReply, CallServerError, CallBroken
  <1>4. ASSUME NEW t \in Workers, NEW o \in Ops, Request(t, o)
        PROVE  \A u \in Threads : pc'[u] = "op" <=> pc[u] = "op"
    BY <1>4 DEF Request, Threads
  <1>5. CASE MonitorTick
    <2>1. CASE BeginCall(Monitor, "Heartbeat")
      BY <2>1, <1>1 DEF Methods
    <2> QED
      BY <1>5, <2>1 DEF MonitorTick
  <1>6. CASE MonitorRecover
    BY <1>6 DEF MonitorRecover
  <1>7. CASE MonitorCancelled
    BY <1>7 DEF MonitorCancelled
  <1> QED
    BY <1>1, <1>2, <1>3, <1>4, <1>5, <1>6, <1>7 DEF CallerStep

-----------------------------------------------------------------------------
(* Preservation of the conjuncts of the invariant, one lemma each. *)

\* The files: cleanups own what they remove, and late binds are answered for.
LEMMA FileStep == ASSUME IInv, Next PROVE FileInv'
  <1> USE DEF IInv, FileInv, BootStages, Proceed, Return
  <1>1. CASE CallerStep
    BY <1>1, CallerFrame
  <1>2. ASSUME NEW t \in Threads, PoisonDetach(t) PROVE FileInv'
    BY <1>2 DEF PoisonDetach
  <1>3. ASSUME NEW t \in Threads, PoisonClose(t) PROVE FileInv'
    BY <1>3 DEF PoisonClose
  <1>4. ASSUME NEW t \in Threads, Acquire(t) PROVE FileInv'
    BY <1>4 DEF Acquire, LifecycleInv
  <1>5. ASSUME NEW t \in Threads, NEW h \in BOOLEAN, ApplyHeartbeat(t, h) PROVE FileInv'
    BY <1>5 DEF ApplyHeartbeat
  <1>6. CASE StopRejected
    BY <1>6 DEF StopRejected
  <1>7. CASE StopFence
    BY <1>7 DEF StopFence
  <1>8. CASE StopShutdown
    BY <1>8 DEF StopShutdown
  <1>9. CASE StopReap
    BY <1>9 DEF StopReap
  <1>10. CASE StopReapFails
    BY <1>10 DEF StopReapFails
  <1>11. CASE StopCleanup
    BY <1>11 DEF StopCleanup, GenerationInv, StopStages,
       CleanupRuntimeArtifacts, OwnsRuntimeArtifacts, RemoveArtifacts
  <1>12. CASE CloseFinish
    BY <1>12 DEF CloseFinish, LifecycleInv, StopStages
  <1>12c. CASE CloseCleanup
    BY <1>12c DEF CloseCleanup, CleanupRuntimeArtifacts, RemoveArtifacts
  <1>13. CASE StartRejected
    BY <1>13 DEF StartRejected
  <1>14. CASE StartBegin
    BY <1>14 DEF StartBegin
  <1>15. CASE StartToken
    BY <1>15 DEF StartToken, LifecycleInv, StartStages, BootStages
  <1>16. CASE StartTokenFails
    BY <1>16 DEF StartTokenFails, LifecycleInv, StartStages, BootStages
  <1>17. CASE StartSpawn
    BY <1>17 DEF StartSpawn
  <1>18. CASE StartSpawnFails
    BY <1>18 DEF StartSpawnFails
  <1>19. CASE StartDial
    BY <1>19 DEF StartDial
  <1>20. CASE StartPeerCred
    BY <1>20 DEF StartPeerCred
  <1>21. CASE StartAuth
    BY <1>21 DEF StartAuth
  <1>22. CASE StartCapabilities
    BY <1>22 DEF StartCapabilities
  <1>23. CASE StartFails
    BY <1>23 DEF StartFails
  <1>24. CASE StartUnwind
    BY <1>24 DEF StartUnwind
  <1>25. CASE StartRollback
    BY <1>25, Zenon DEF StartRollback
  <1>26. CASE StartDiscard
    BY <1>26, Zenon DEF StartDiscard, GenerationInv, LifecycleInv, StartStages,
       CleanupRuntimeArtifacts, OwnsRuntimeArtifacts, RemoveArtifacts
  <1>27. CASE StartPublish
    BY <1>27, FieldTypes DEF StartPublish, TypeOK, GenerationInv,
       LifecycleInv, StartStages
  <1>28. ASSUME NEW n \in Incarnations, PluginBind(n) PROVE FileInv'
    BY <1>28, ConstantsAssumption DEF PluginBind, LifecycleInv, ProcessInv,
       StartStages, Incarnations
  <1>29. ASSUME NEW n \in Incarnations, PluginExit(n) PROVE FileInv'
    BY <1>29 DEF PluginExit
  <1> QED
    BY <1>1, <1>2, <1>3, <1>4, <1>5, <1>6, <1>7, <1>8, <1>9, <1>10, <1>11,
       <1>12, <1>12c, <1>13, <1>14, <1>15, <1>16, <1>17, <1>18, <1>19, <1>20, <1>21,
       <1>22, <1>23, <1>24, <1>25, <1>26, <1>27, <1>28, <1>29, NextCases, Zenon DEF
       StopStep, StartStep

\* The processes: every one is waited for before it is forgotten.
LEMMA ProcessStep == ASSUME IInv, Next PROVE ProcessInv'
  <1> USE DEF IInv, ProcessInv, BootStages, Unreaped, Proceed, Return,
     Locals, NoLocals
  <1>a. starts \in Nat
    BY ConstantsAssumption DEF TypeOK
  <1> USE <1>a
  <1>1. CASE CallerStep
    BY <1>1, CallerFrame
  <1>2. ASSUME NEW t \in Threads, PoisonDetach(t) PROVE ProcessInv'
    BY <1>2, Zenon DEF PoisonDetach
  <1>3. ASSUME NEW t \in Threads, PoisonClose(t) PROVE ProcessInv'
    BY <1>3, Zenon DEF PoisonClose
  <1>4. ASSUME NEW t \in Threads, Acquire(t) PROVE ProcessInv'
    BY <1>4, Zenon DEF Acquire, LifecycleInv
  <1>5. ASSUME NEW t \in Threads, NEW h \in BOOLEAN, ApplyHeartbeat(t, h) PROVE ProcessInv'
    BY <1>5 DEF ApplyHeartbeat
  <1>6. CASE StopRejected
    BY <1>6 DEF StopRejected
  <1>7. CASE StopFence
    BY <1>7 DEF StopFence, TypeOK, PublishedInv, Locals
  <1>8. CASE StopShutdown
    BY <1>8, Zenon DEF StopShutdown
  <1>9. CASE StopReap
    BY <1>9, FieldTypes DEF StopReap, TypeOK, Incarnations
  <1>10. CASE StopReapFails
    BY <1>10 DEF StopReapFails
  <1>11. CASE StopCleanup
    BY <1>11 DEF StopCleanup, NoLocals
  <1>12. CASE CloseFinish
    BY <1>12 DEF CloseFinish
  <1>12c. CASE CloseCleanup
    BY <1>12c DEF CloseCleanup
  <1>13. CASE StartRejected
    BY <1>13 DEF StartRejected
  <1>14. CASE StartBegin
    BY <1>14 DEF StartBegin, TypeOK
  <1>15. CASE StartToken
    BY <1>15 DEF StartToken
  <1>16. CASE StartTokenFails
    BY <1>16 DEF StartTokenFails
  <1>17. CASE StartSpawn
    BY <1>17, ConstantsAssumption DEF StartSpawn, TypeOK, Locals,
       Incarnations
  <1>18. CASE StartSpawnFails
    BY <1>18 DEF StartSpawnFails
  <1>19. CASE StartDial
    BY <1>19 DEF StartDial, TypeOK, Locals
  <1>20. CASE StartPeerCred
    BY <1>20 DEF StartPeerCred
  <1>21. CASE StartAuth
    BY <1>21 DEF StartAuth
  <1>22. CASE StartCapabilities
    BY <1>22 DEF StartCapabilities
  <1>23. CASE StartFails
    BY <1>23, Zenon DEF StartFails
  <1>24. CASE StartUnwind
    BY <1>24, FieldTypes DEF StartUnwind, TypeOK, Incarnations, GenerationInv
  <1>25. CASE StartRollback
    BY <1>25 DEF StartRollback
  <1>26. CASE StartDiscard
    BY <1>26 DEF StartDiscard
  <1>27. CASE StartPublish
    BY <1>27, FieldTypes DEF StartPublish, TypeOK, LifecycleInv, StartStages,
       Incarnations, NoLocals, Locals
  <1>28. ASSUME NEW n \in Incarnations, PluginBind(n) PROVE ProcessInv'
    BY <1>28, Zenon DEF PluginBind, TypeOK
  <1>29. ASSUME NEW n \in Incarnations, PluginExit(n) PROVE ProcessInv'
    BY <1>29 DEF PluginExit, TypeOK, Running
  <1> QED
    BY <1>1, <1>2, <1>3, <1>4, <1>5, <1>6, <1>7, <1>8, <1>9, <1>10, <1>11,
       <1>12, <1>12c, <1>13, <1>14, <1>15, <1>16, <1>17, <1>18, <1>19, <1>20, <1>21,
       <1>22, <1>23, <1>24, <1>25, <1>26, <1>27, <1>28, <1>29, NextCases, Zenon DEF
       StopStep, StartStep

\* The generation: bumped by a start, rolled back by its failure, else fixed.
LEMMA GenerationStep == ASSUME IInv, Next PROVE GenerationInv'
  <1> USE DEF IInv, GenerationInv, Bumped, StopStages, StartStages,
     BootStages, LastGeneration, Proceed, Return, Locals, NoLocals
  <1>a. state.GenerationID \in Nat /\ lc.gen \in Nat
    BY FieldTypes
  <1>b. starts \in Nat /\ lastPub \in Nat /\ lastPub <= starts
    BY ConstantsAssumption DEF TypeOK, PublishedInv
  <1> USE <1>a, <1>b
  <1>1. CASE CallerStep
    BY <1>1, CallerFrame, Zenon
  <1>2. ASSUME NEW t \in Threads, PoisonDetach(t) PROVE GenerationInv'
    BY <1>2 DEF PoisonDetach, WithHealth
  <1>3. ASSUME NEW t \in Threads, PoisonClose(t) PROVE GenerationInv'
    BY <1>3, FieldTypes, CallFields DEF PoisonClose, TypeOK, CallInv, InCall,
       Incarnations
  <1>4. ASSUME NEW t \in Threads, Acquire(t) PROVE GenerationInv'
    BY <1>4, Zenon DEF Acquire, LifecycleInv
  <1>5. ASSUME NEW t \in Threads, NEW h \in BOOLEAN, ApplyHeartbeat(t, h) PROVE GenerationInv'
    BY <1>5 DEF ApplyHeartbeat, WithHealth, ReturnOK, ReturnError, ReturnCall
  <1>6. CASE StopRejected
    BY <1>6, Zenon DEF StopRejected
  <1>7. CASE StopFence
    BY <1>7 DEF StopFence, Stopped
  <1>8. CASE StopShutdown
    BY <1>8 DEF StopShutdown
  <1>9. CASE StopReap
    BY <1>9, Zenon DEF StopReap
  <1>10. CASE StopReapFails
    BY <1>10, Zenon DEF StopReapFails
  <1>11. CASE StopCleanup
    BY <1>11 DEF StopCleanup
  <1>12. CASE CloseFinish
    BY <1>12, Zenon DEF CloseFinish
  <1>12c. CASE CloseCleanup
    BY <1>12c, Zenon DEF CloseCleanup
  <1>13. CASE StartRejected
    BY <1>13, Zenon DEF StartRejected
  <1>14. CASE StartBegin
    BY <1>14, Zenon DEF StartBegin, ResetState
  <1>15. CASE StartToken
    BY <1>15, Zenon DEF StartToken
  <1>16. CASE StartTokenFails
    BY <1>16, RolledBackIs DEF StartTokenFails, ResetState
  <1>17. CASE StartSpawn
    BY <1>17, ConstantsAssumption DEF StartSpawn, TypeOK, Incarnations
  <1>18. CASE StartSpawnFails
    BY <1>18, RolledBackIs DEF StartSpawnFails, ResetState
  <1>19. CASE StartDial
    BY <1>19, FieldTypes DEF StartDial, TypeOK, Incarnations
  <1>20. CASE StartPeerCred
    BY <1>20, Zenon DEF StartPeerCred
  <1>21. CASE StartAuth
    BY <1>21, Zenon DEF StartAuth
  <1>22. CASE StartCapabilities
    BY <1>22, Zenon DEF StartCapabilities
  <1>23. CASE StartFails
    BY <1>23, Zenon DEF StartFails
  <1>24. CASE StartUnwind
    BY <1>24, FieldTypes, Zenon DEF StartUnwind
  <1>25. CASE StartRollback
    BY <1>25, RolledBackIs DEF StartRollback, ResetState
  <1>26. CASE StartDiscard
    BY <1>26, Zenon DEF StartDiscard
  <1>27. CASE StartPublish
    BY <1>27, FieldTypes DEF StartPublish, TypeOK, Incarnations,
       PublishedState
  <1>28. ASSUME NEW n \in Incarnations, PluginBind(n) PROVE GenerationInv'
    BY <1>28, Zenon DEF PluginBind
  <1>29. ASSUME NEW n \in Incarnations, PluginExit(n) PROVE GenerationInv'
    BY <1>29 DEF PluginExit
  <1> QED
    BY <1>1, <1>2, <1>3, <1>4, <1>5, <1>6, <1>7, <1>8, <1>9, <1>10, <1>11,
       <1>12, <1>12c, <1>13, <1>14, <1>15, <1>16, <1>17, <1>18, <1>19, <1>20, <1>21,
       <1>22, <1>23, <1>24, <1>25, <1>26, <1>27, <1>28, <1>29, NextCases, Zenon DEF
       StopStep, StartStep

\* What is published: attached by StartPublish alone, detached before its
\* connection is closed.
LEMMA PublishedStep == ASSUME IInv, Next PROVE PublishedInv'
  <1> USE DEF IInv, PublishedInv, Proceed, Return
  <1>1. CASE CallerStep
    BY <1>1, CallerFrame, Zenon
  <1>2. ASSUME NEW t \in Threads, PoisonDetach(t) PROVE PublishedInv'
    BY <1>2 DEF PoisonDetach, TypeOK, StateType, WithHealth
  <1>3. ASSUME NEW t \in Threads, PoisonClose(t) PROVE PublishedInv'
    BY <1>3, CallFields DEF PoisonClose, TypeOK, CallInv, InCall,
       Incarnations
  <1>4. ASSUME NEW t \in Threads, Acquire(t) PROVE PublishedInv'
    BY <1>4, Zenon DEF Acquire
  <1>5. ASSUME NEW t \in Threads, NEW h \in BOOLEAN, ApplyHeartbeat(t, h) PROVE PublishedInv'
    BY <1>5 DEF ApplyHeartbeat, WithHealth, StaleHeartbeat, CallInv, InCall,
       ReturnOK, ReturnError, ReturnCall
  <1>6. CASE StopRejected
    BY <1>6, Zenon DEF StopRejected
  <1>7. CASE StopFence
    BY <1>7, Zenon DEF StopFence, Stopped
  <1>8. CASE StopShutdown
    BY <1>8, Zenon DEF StopShutdown, LifecycleInv, StopStages
  <1>9. CASE StopReap
    BY <1>9, Zenon DEF StopReap
  <1>10. CASE StopReapFails
    BY <1>10, Zenon DEF StopReapFails
  <1>11. CASE StopCleanup
    BY <1>11, Zenon DEF StopCleanup
  <1>12. CASE CloseFinish
    BY <1>12 DEF CloseFinish
  <1>12c. CASE CloseCleanup
    BY <1>12c DEF CloseCleanup
  <1>13. CASE StartRejected
    BY <1>13, Zenon DEF StartRejected
  <1>14. CASE StartBegin
    BY <1>14 DEF StartBegin, ResetState
  <1>15. CASE StartToken
    BY <1>15, Zenon DEF StartToken
  <1>16. CASE StartTokenFails
    BY <1>16, RolledBackIs DEF StartTokenFails, LifecycleInv, StartStages,
       BootStages, Bumped, ResetState
  <1>17. CASE StartSpawn
    BY <1>17, ConstantsAssumption DEF StartSpawn, TypeOK
  <1>18. CASE StartSpawnFails
    BY <1>18, RolledBackIs DEF StartSpawnFails, LifecycleInv, StartStages,
       BootStages, Bumped, ResetState
  <1>19. CASE StartDial
    BY <1>19 DEF StartDial, TypeOK, Incarnations
  <1>20. CASE StartPeerCred
    BY <1>20, Zenon DEF StartPeerCred
  <1>21. CASE StartAuth
    BY <1>21, Zenon DEF StartAuth
  <1>22. CASE StartCapabilities
    BY <1>22 DEF StartCapabilities
  <1>23. CASE StartFails
    BY <1>23 DEF StartFails
  <1>24. CASE StartUnwind
    BY <1>24, Zenon DEF StartUnwind, LifecycleInv, StartStages, BootStages
  <1>25. CASE StartRollback
    BY <1>25, RolledBackIs DEF StartRollback, LifecycleInv, StartStages,
       BootStages, Bumped, ResetState
  <1>26. CASE StartDiscard
    BY <1>26, Zenon DEF StartDiscard
  <1>27. CASE StartPublish
    BY <1>27, ConstantsAssumption DEF StartPublish, TypeOK, GenerationInv,
       BootStages, PublishedState
  <1>28. ASSUME NEW n \in Incarnations, PluginBind(n) PROVE PublishedInv'
    BY <1>28, Zenon DEF PluginBind
  <1>29. ASSUME NEW n \in Incarnations, PluginExit(n) PROVE PublishedInv'
    BY <1>29 DEF PluginExit
  <1> QED
    BY <1>1, <1>2, <1>3, <1>4, <1>5, <1>6, <1>7, <1>8, <1>9, <1>10, <1>11,
       <1>12, <1>12c, <1>13, <1>14, <1>15, <1>16, <1>17, <1>18, <1>19, <1>20, <1>21,
       <1>22, <1>23, <1>24, <1>25, <1>26, <1>27, <1>28, <1>29, NextCases, Zenon DEF
       StopStep, StartStep

\* The lock: stages move only under it, and a stop or a start keeps the manager
\* empty.
LEMMA LifecycleStep == ASSUME IInv, Next PROVE LifecycleInv'
  <1> USE DEF IInv, LifecycleInv, StopStages, StartStages, BootStages, Goto,
     ReturnCall, ReturnOK, ReturnError, Proceed, Return
  <1>a. None \notin Threads /\ pc \in [Threads -> PCs]
    BY ConstantsAssumption, Zenon DEF TypeOK, Threads
  <1>b. lifecycleMu \in Threads \cup {None}
    BY Zenon DEF TypeOK
  <1> USE <1>a, <1>b
  <1>1. CASE CallerStep
    BY <1>1, CallerFrame, CallerLock
  <1>2. ASSUME NEW t \in Threads, PoisonDetach(t) PROVE LifecycleInv'
    BY <1>2, Zenon DEF PoisonDetach
  <1>3. ASSUME NEW t \in Threads, PoisonClose(t) PROVE LifecycleInv'
    BY <1>3, Zenon DEF PoisonClose
  <1>4. ASSUME NEW t \in Threads, Acquire(t) PROVE LifecycleInv'
    BY <1>4, Zenon DEF Acquire
  <1>5. ASSUME NEW t \in Threads, NEW h \in BOOLEAN, ApplyHeartbeat(t, h) PROVE LifecycleInv'
    BY <1>5, Zenon DEF ApplyHeartbeat
  <1>6. CASE StopRejected
    BY <1>6, Zenon DEF StopRejected
  <1>7. CASE StopFence
    BY <1>7, Zenon DEF StopFence
  <1>8. CASE StopShutdown
    BY <1>8, Zenon DEF StopShutdown
  <1>9. CASE StopReap
    BY <1>9, Zenon DEF StopReap
  <1>10. CASE StopReapFails
    BY <1>10, Zenon DEF StopReapFails
  <1>11. CASE StopCleanup
    BY <1>11, Zenon DEF StopCleanup
  <1>12. CASE CloseFinish
    BY <1>12, Zenon DEF CloseFinish
  <1>12c. CASE CloseCleanup
    BY <1>12c, Zenon DEF CloseCleanup
  <1>13. CASE StartRejected
    BY <1>13, Zenon DEF StartRejected
  <1>14. CASE StartBegin
    BY <1>14, Zenon DEF StartBegin
  <1>15. CASE StartToken
    BY <1>15, Zenon DEF StartToken
  <1>16. CASE StartTokenFails
    BY <1>16, Zenon DEF StartTokenFails
  <1>17. CASE StartSpawn
    BY <1>17, Zenon DEF StartSpawn
  <1>18. CASE StartSpawnFails
    BY <1>18, Zenon DEF StartSpawnFails
  <1>19. CASE StartDial
    BY <1>19, Zenon DEF StartDial
  <1>20. CASE StartPeerCred
    BY <1>20, Zenon DEF StartPeerCred
  <1>21. CASE StartAuth
    BY <1>21, Zenon DEF StartAuth
  <1>22. CASE StartCapabilities
    BY <1>22, Zenon DEF StartCapabilities
  <1>23. CASE StartFails
    BY <1>23, Zenon DEF StartFails
  <1>24. CASE StartUnwind
    BY <1>24, Zenon DEF StartUnwind
  <1>25. CASE StartRollback
    BY <1>25, Zenon DEF StartRollback
  <1>26. CASE StartDiscard
    BY <1>26, Zenon DEF StartDiscard
  <1>27. CASE StartPublish
    BY <1>27, Zenon DEF StartPublish
  <1>28. ASSUME NEW n \in Incarnations, PluginBind(n) PROVE LifecycleInv'
    BY <1>28, Zenon DEF PluginBind
  <1>29. ASSUME NEW n \in Incarnations, PluginExit(n) PROVE LifecycleInv'
    BY <1>29 DEF PluginExit
  <1> QED
    BY <1>1, <1>2, <1>3, <1>4, <1>5, <1>6, <1>7, <1>8, <1>9, <1>10, <1>11,
       <1>12, <1>12c, <1>13, <1>14, <1>15, <1>16, <1>17, <1>18, <1>19, <1>20, <1>21,
       <1>22, <1>23, <1>24, <1>25, <1>26, <1>27, <1>28, <1>29, NextCases, Zenon DEF
       StopStep, StartStep

\* The calls in flight: a new one goes to the published incarnation, and
\* publishing the next one leaves every call of an earlier one behind.
LEMMA CallInvStep == ASSUME IInv, Next PROVE CallInv'
  <1> USE DEF IInv, CallInv, InCall, Goto, ReturnCall, ReturnOK, ReturnError,
     Proceed, Return
  <1>a. pc \in [Threads -> PCs] /\ call \in [Threads -> CallType]
    BY Zenon DEF TypeOK
  <1>b. Monitor \in Threads /\ \A u \in Workers : u \in Threads
    BY Zenon DEF Threads
  <1>c. UNCHANGED <<procGen, lastPub>> => LastGeneration' = LastGeneration
    BY Zenon DEF LastGeneration
  <1> USE <1>a, <1>b, <1>c
  <1>1. ASSUME NEW t \in Threads, NEW m \in Methods, BeginCall(t, m) PROVE CallInv'
    BY <1>1 DEF BeginCall, Free, LifecycleInv, PublishedInv, GenerationInv,
       Bumped
  <1>2. ASSUME NEW t \in Workers, NEW o \in Ops, Request(t, o) PROVE CallInv'
    BY <1>2, Zenon DEF Request, Free
  <1>3. ASSUME NEW t \in Threads, CallReply(t) PROVE CallInv'
    BY <1>3, Zenon DEF CallReply
  <1>4. ASSUME NEW t \in Threads, CallServerError(t) PROVE CallInv'
    BY <1>4, Zenon DEF CallServerError
  <1>5. ASSUME NEW t \in Threads, CallBroken(t) PROVE CallInv'
    BY <1>5, Zenon DEF CallBroken
  <1>6. ASSUME NEW t \in Threads, CallFence(t) PROVE CallInv'
    BY <1>6 DEF CallFence
  <1>7. CASE MonitorTick
    <2>1. CASE BeginCall(Monitor, "Heartbeat")
      BY <2>1, <1>1, Zenon DEF Methods
    <2> QED
      BY <1>7, <2>1, Zenon DEF MonitorTick, Free
  <1>8. CASE MonitorRecover
    BY <1>8, Zenon DEF MonitorRecover
  <1>9. CASE MonitorCancelled
    BY <1>9 DEF MonitorCancelled
  <1>10. ASSUME NEW t \in Threads, PoisonDetach(t) PROVE CallInv'
    BY <1>10, Zenon DEF PoisonDetach
  <1>11. ASSUME NEW t \in Threads, PoisonClose(t) PROVE CallInv'
    BY <1>11, Zenon DEF PoisonClose
  <1>12. ASSUME NEW t \in Threads, Acquire(t) PROVE CallInv'
    BY <1>12, Zenon DEF Acquire
  <1>13. ASSUME NEW t \in Threads, NEW h \in BOOLEAN, ApplyHeartbeat(t, h) PROVE CallInv'
    BY <1>13 DEF ApplyHeartbeat
  <1>14. CASE StopRejected
    BY <1>14, Zenon DEF StopRejected
  <1>15. CASE StopFence
    BY <1>15 DEF StopFence
  <1>16. CASE StopShutdown
    BY <1>16, Zenon DEF StopShutdown
  <1>17. CASE StopReap
    BY <1>17, Zenon DEF StopReap
  <1>18. CASE StopReapFails
    BY <1>18, Zenon DEF StopReapFails
  <1>19. CASE StopCleanup
    BY <1>19, Zenon DEF StopCleanup
  <1>20. CASE CloseFinish
    BY <1>20, Zenon DEF CloseFinish
  <1>20c. CASE CloseCleanup
    BY <1>20c, Zenon DEF CloseCleanup
  <1>21. CASE StartRejected
    BY <1>21, Zenon DEF StartRejected
  <1>22. CASE StartBegin
    BY <1>22, Zenon DEF StartBegin
  <1>23. CASE StartToken
    BY <1>23, Zenon DEF StartToken
  <1>24. CASE StartTokenFails
    BY <1>24, Zenon DEF StartTokenFails
  <1>25. CASE StartSpawn
    <2>1. lastPub \in 0..starts /\ starts + 1 \in Incarnations
      BY <1>25, ConstantsAssumption DEF TypeOK, PublishedInv, StartSpawn, Incarnations
    <2>2. LastGeneration' = LastGeneration
      BY <1>25, <2>1, ConstantsAssumption DEF StartSpawn, LastGeneration, TypeOK, Incarnations
    <2> QED
      BY <1>25, <2>2, Zenon DEF StartSpawn
  <1>26. CASE StartSpawnFails
    BY <1>26, Zenon DEF StartSpawnFails
  <1>27. CASE StartDial
    BY <1>27, Zenon DEF StartDial
  <1>28. CASE StartPeerCred
    BY <1>28, Zenon DEF StartPeerCred
  <1>29. CASE StartAuth
    BY <1>29, Zenon DEF StartAuth
  <1>30. CASE StartCapabilities
    BY <1>30, Zenon DEF StartCapabilities
  <1>31. CASE StartFails
    BY <1>31, Zenon DEF StartFails
  <1>32. CASE StartUnwind
    BY <1>32, Zenon DEF StartUnwind
  <1>33. CASE StartRollback
    BY <1>33, Zenon DEF StartRollback
  <1>34. CASE StartDiscard
    BY <1>34, Zenon DEF StartDiscard
  <1>35. CASE StartPublish
    <2>1. lc.proc \in Nat \ {0} /\ lastPub \in Nat /\ lastPub < lc.proc
      BY <1>35, ConstantsAssumption DEF TypeOK, GenerationInv, BootStages, StartPublish
    <2>2. LastGeneration' = LastGeneration + 1
      BY <1>35, <2>1, Zenon DEF StartPublish, LastGeneration, GenerationInv, Bumped,
         StartStages, BootStages
    <2>3. client' = lc.proc
      BY <1>35, Zenon DEF StartPublish, GenerationInv
    <2> SUFFICES ASSUME NEW t \in Threads, InCall(t)'
                 PROVE  /\ call'[t].client # 0
                        /\ call'[t].client < lastPub' /\ call'[t].gen < LastGeneration'
                        /\ client' # call'[t].client
      OBVIOUS
    <2>4. InCall(t) /\ call' = call /\ lastPub' = lc.proc
      BY <1>35, Zenon DEF StartPublish
    <2>5. call[t].client # 0 /\ call[t].client <= lastPub /\ call[t].gen <= LastGeneration
      BY <2>1, <2>4, FieldTypes, CallFields
    <2> QED
      BY <2>1, <2>2, <2>3, <2>4, <2>5, FieldTypes, CallFields
  <1>36. ASSUME NEW n \in Incarnations, PluginBind(n) PROVE CallInv'
    BY <1>36, Zenon DEF PluginBind
  <1>37. ASSUME NEW n \in Incarnations, PluginExit(n) PROVE CallInv'
    BY <1>37 DEF PluginExit
  <1> QED
    BY <1>1, <1>2, <1>3, <1>4, <1>5, <1>6, <1>7, <1>8, <1>9, <1>10, <1>11,
       <1>12, <1>13, <1>14, <1>15, <1>16, <1>17, <1>18, <1>19, <1>20, <1>20c, <1>21,
       <1>22, <1>23, <1>24, <1>25, <1>26, <1>27, <1>28, <1>29, <1>30, <1>31,
       <1>32, <1>33, <1>34, <1>35, <1>36, <1>37, NextCases, Zenon DEF StopStep,
       StartStep, CallerStep

\* The types after the return of a lifecycle operation.
LEMMA ReturnTypes ==
    ASSUME TypeOK, Return
    PROVE  /\ lifecycleMu' \in Threads \cup {None} /\ stage' \in Stages
           /\ lc' \in LocalsType
           /\ pc' \in [Threads -> PCs] /\ op' \in [Threads -> Ops \cup {"none"}]
           /\ call' \in [Threads -> CallType]
  BY LocalTypes, Zenon DEF TypeOK, Return, Goto, Stages, PCs

\* The types after the return of an RPC.
LEMMA CallReturnTypes ==
    ASSUME TypeOK, NEW t \in Threads, ReturnOK(t) \/ ReturnError(t)
    PROVE  pc' \in [Threads -> PCs] /\ call' \in [Threads -> CallType]
  BY LocalTypes DEF TypeOK, ReturnOK, ReturnError, ReturnCall, Goto, PCs

\* The types after a cleanup.
LEMMA CleanupTypes ==
    ASSUME TypeOK, NEW g, CleanupRuntimeArtifacts(g)
    PROVE  sockFile' \in 0..MaxStarts /\ authFile' \in BOOLEAN
  <1>1. CASE UNCHANGED fileVars
    BY <1>1 DEF TypeOK
  <1>2. CASE RemoveArtifacts
    <2>1. 0 \in 0..MaxStarts
      BY ConstantsAssumption
    <2> QED
      BY <1>2, <2>1, Zenon DEF RemoveArtifacts
  <1> QED
    BY <1>1, <1>2, Zenon DEF CleanupRuntimeArtifacts

\* Every step preserves the types.
LEMMA TypeStep == ASSUME IInv, Next PROVE TypeOK'
  <1>a. TypeOK
    BY DEF IInv
  <1>b. Monitor \in Threads /\ \A u \in Workers : u \in Threads
    BY Zenon DEF Threads
  <1> USE <1>a, <1>b DEF TypeOK
  <1>1. ASSUME NEW t \in Threads, NEW m \in Methods, BeginCall(t, m) PROVE TypeOK'
    <2>1. [method |-> m, client |-> client, gen |-> state.GenerationID, epoch |-> rpcEpoch] \in CallType
      BY FieldTypes, Zenon DEF CallType
    <2> QED
      BY <1>1, <2>1, Zenon DEF BeginCall, Goto, PCs
  <1>2. ASSUME NEW t \in Workers, NEW o \in Ops, Request(t, o) PROVE TypeOK'
    BY <1>2, Zenon DEF Request, Goto, PCs
  <1>3. ASSUME NEW t \in Threads, CallReply(t) PROVE TypeOK'
    BY <1>3, Zenon DEF CallReply, Goto, PCs
  <1>4. ASSUME NEW t \in Threads, CallServerError(t) PROVE TypeOK'
    BY <1>4, CallReturnTypes, Zenon DEF CallServerError
  <1>5. ASSUME NEW t \in Threads, CallBroken(t) PROVE TypeOK'
    BY <1>5, Zenon DEF CallBroken, Goto, PCs
  <1>6. ASSUME NEW t \in Threads, CallFence(t) PROVE TypeOK'
    <2>1. pc' \in [Threads -> PCs] /\ call' \in [Threads -> CallType]
      <3>1. CASE ReturnOK(t) \/ ReturnError(t)
        BY <3>1, CallReturnTypes, Zenon
      <3>2. CASE Goto(t, "apply") /\ UNCHANGED call
        BY <3>2, Zenon DEF Goto, PCs
      <3> QED
        BY <1>6, <3>1, <3>2, Zenon DEF CallFence
    <2> QED
      BY <1>6, <2>1, Zenon DEF CallFence
  <1>7. CASE MonitorTick
    <2>1. CASE BeginCall(Monitor, "Heartbeat")
      BY <2>1, <1>1, Zenon DEF Methods
    <2> QED
      BY <1>7, <2>1, Zenon DEF MonitorTick, Goto, PCs
  <1>8. CASE MonitorRecover
    BY <1>8, Zenon DEF MonitorRecover, Goto, PCs, Ops
  <1>9. CASE MonitorCancelled
    BY <1>9, Zenon DEF MonitorCancelled, Goto, PCs
  <1>10. ASSUME NEW t \in Threads, PoisonDetach(t) PROVE TypeOK'
    <2>1. state' \in StateType
      BY <1>10, StateTypes, Zenon DEF PoisonDetach
    <2>2. client' \in 0..MaxStarts
      <3>1. 0 \in 0..MaxStarts
        BY ConstantsAssumption
      <3> QED
        BY <1>10, <3>1, Zenon DEF PoisonDetach
    <2>3. pc' \in [Threads -> PCs]
      BY <1>10 DEF PoisonDetach, Goto, PCs
    <2> QED
      BY <1>10, <2>1, <2>2, <2>3 DEF PoisonDetach
  <1>11. ASSUME NEW t \in Threads, PoisonClose(t) PROVE TypeOK'
    BY <1>11, CallReturnTypes, Zenon DEF PoisonClose
  <1>12. ASSUME NEW t \in Threads, Acquire(t) PROVE TypeOK'
    BY <1>12, Zenon DEF Acquire, Goto, PCs, Proceed, Stages, StopStages,
       StartStages, BootStages
  <1>13. ASSUME NEW t \in Threads, NEW h \in BOOLEAN, ApplyHeartbeat(t, h) PROVE TypeOK'
    <2>1. state' \in StateType
      BY <1>13, StateTypes, Zenon DEF ApplyHeartbeat
    <2> QED
      BY <1>13, <2>1, CallReturnTypes, Zenon DEF ApplyHeartbeat
  <1>14. CASE StopRejected
    BY <1>14, ReturnTypes, Zenon DEF StopRejected
  <1>15. CASE StopFence
    <2>1. state' \in StateType
      BY <1>15, StateTypes, Zenon DEF StopFence
    <2>2. lc' \in LocalsType
      BY <1>15, LocalTypes, FieldTypes, Zenon DEF StopFence
    <2> QED
      BY <1>15, <2>1, <2>2, ConstantsAssumption DEF StopFence, Proceed, Stages, StopStages
  <1>16. CASE StopShutdown
    BY <1>16, Zenon DEF StopShutdown, Proceed, Stages, StopStages, StartStages,
       BootStages
  <1>17. CASE StopReap
    BY <1>17, Zenon DEF StopReap, Proceed, Stages, StopStages, StartStages,
       BootStages, ProcStates
  <1>18. CASE StopReapFails
    BY <1>18, ReturnTypes, Zenon DEF StopReapFails, Proceed, Stages, StopStages,
       StartStages, BootStages
  <1>19. CASE StopCleanup
    BY <1>19, ReturnTypes, CleanupTypes, LocalTypes, Zenon DEF StopCleanup, Proceed,
       Stages, StopStages, StartStages, BootStages
  <1>20. CASE CloseFinish
    BY <1>20 DEF CloseFinish, Proceed, Stages, StopStages
  <1>20c. CASE CloseCleanup
    BY <1>20c, ReturnTypes, CleanupTypes, Zenon DEF CloseCleanup
  <1>21. CASE StartRejected
    BY <1>21, ReturnTypes DEF StartRejected
  <1>22. CASE StartBegin
    <2>1. state.GenerationID + 1 \in Nat /\ 0 \in 0..MaxStarts
      BY FieldTypes, ConstantsAssumption
    <2>2. state' \in StateType
      BY <1>22, <2>1, StateTypes, Zenon DEF StartBegin
    <2>3. lc' \in LocalsType
      BY <1>22, <2>1, LocalTypes, Zenon DEF StartBegin
    <2> QED
      BY <1>22, <2>2, <2>3, Zenon DEF StartBegin, Proceed, Stages, StartStages
  <1>23. CASE StartToken
    BY <1>23, ConstantsAssumption DEF StartToken, Proceed, Stages,
       StopStages, StartStages, BootStages
  <1>24. CASE StartTokenFails
    <2>1. state' \in StateType
      BY <1>24, StateTypes, RolledBackIs, FieldTypes, Zenon DEF StartTokenFails, Bumped,
         StartStages
    <2> QED
      BY <1>24, <2>1, ReturnTypes, ConstantsAssumption DEF StartTokenFails
  <1>25. CASE StartSpawn
    <2>1. starts + 1 \in Incarnations /\ starts + 1 \in 0..MaxStarts
      BY <1>25, ConstantsAssumption DEF StartSpawn, Incarnations
    <2>2. lc' \in LocalsType
      BY <1>25, <2>1, LocalTypes, FieldTypes, ConstantsAssumption DEF StartSpawn
    <2> QED
      BY <1>25, <2>1, <2>2, FieldTypes, Zenon DEF StartSpawn, Proceed, Stages, StartStages,
         BootStages, ProcStates
  <1>26. CASE StartSpawnFails
    <2>1. state' \in StateType
      BY <1>26, StateTypes, RolledBackIs, FieldTypes, Zenon DEF StartSpawnFails, Bumped,
         StartStages
    <2> QED
      BY <1>26, <2>1, ReturnTypes DEF StartSpawnFails
  <1>27. CASE StartDial
    BY <1>27, LocalTypes, FieldTypes, Zenon DEF StartDial, Proceed, Stages,
       StopStages, StartStages, BootStages
  <1>28. CASE StartPeerCred
    BY <1>28 DEF StartPeerCred, Proceed, Stages, StopStages, StartStages,
       BootStages
  <1>29. CASE StartAuth
    BY <1>29, Zenon DEF StartAuth, Proceed, Stages, StopStages, StartStages,
       BootStages
  <1>30. CASE StartCapabilities
    BY <1>30, Zenon DEF StartCapabilities, Proceed, Stages, StopStages, StartStages,
       BootStages
  <1>31. CASE StartFails
    BY <1>31 DEF StartFails, Proceed, Stages, StopStages, StartStages,
       BootStages
  <1>32. CASE StartUnwind
    BY <1>32, Zenon DEF StartUnwind, Proceed, Stages, StopStages, StartStages,
       BootStages, ProcStates
  <1>33. CASE StartRollback
    <2>1. state' \in StateType
      BY <1>33, StateTypes, RolledBackIs, FieldTypes, Zenon DEF StartRollback, Bumped,
         StartStages
    <2> QED
      BY <1>33, <2>1 DEF StartRollback, Proceed, Stages, StopStages, StartStages,
         BootStages
  <1>34. CASE StartDiscard
    BY <1>34, ReturnTypes, CleanupTypes, Zenon DEF StartDiscard
  <1>35. CASE StartPublish
    <2>1. state' \in StateType
      BY <1>35, StateTypes, FieldTypes, Zenon DEF StartPublish
    <2> QED
      BY <1>35, <2>1, ReturnTypes, FieldTypes, Zenon DEF StartPublish
  <1>36. ASSUME NEW n \in Incarnations, PluginBind(n) PROVE TypeOK'
    BY <1>36, ConstantsAssumption DEF PluginBind, Incarnations, ProcStates
  <1>37. ASSUME NEW n \in Incarnations, PluginExit(n) PROVE TypeOK'
    BY <1>37, ConstantsAssumption DEF PluginExit, ProcStates
  <1> QED
    BY <1>1, <1>2, <1>3, <1>4, <1>5, <1>6, <1>7, <1>8, <1>9, <1>10, <1>11,
       <1>12, <1>13, <1>14, <1>15, <1>16, <1>17, <1>18, <1>19, <1>20, <1>20c, <1>21,
       <1>22, <1>23, <1>24, <1>25, <1>26, <1>27, <1>28, <1>29, <1>30, <1>31,
       <1>32, <1>33, <1>34, <1>35, <1>36, <1>37, NextCases, Zenon DEF StopStep,
       StartStep, CallerStep

-----------------------------------------------------------------------------
(* The invariant, and the properties that follow from it. *)

\* The manager New returns satisfies the invariant.
LEMMA InitInv == Init => IInv
  <1> SUFFICES ASSUME Init PROVE IInv
    OBVIOUS
  <1> USE DEF Init
  <1>a. 0 \in 0..MaxStarts /\ 0 \in Nat /\ None \notin Threads
    BY ConstantsAssumption DEF Threads
  <1>1. TypeOK
    BY <1>a, StateTypes, LocalTypes, Zenon DEF TypeOK, Stages, PCs, ProcStates
  <1>2. LifecycleInv
    BY <1>a, Zenon DEF LifecycleInv, StopStages, StartStages, BootStages
  <1>3. PublishedInv
    BY DEF PublishedInv, ResetState
  <1>4. GenerationInv
    BY Zenon DEF GenerationInv, Bumped, StopStages, StartStages, BootStages,
       LastGeneration, ResetState
  <1>5. CallInv
    BY Zenon DEF CallInv, InCall
  <1>6. ProcessInv
    BY ConstantsAssumption
       DEF ProcessInv, Incarnations, Unreaped, NoLocals, Locals
  <1>7. FileInv
    BY Zenon DEF FileInv
  <1> QED
    BY <1>1, <1>2, <1>3, <1>4, <1>5, <1>6, <1>7 DEF IInv

\* The invariant depends on nothing but the variables of the manager.
LEMMA StutterInv == IInv /\ UNCHANGED vars => IInv'
  <1> SUFFICES ASSUME IInv, UNCHANGED vars PROVE IInv'
    OBVIOUS
  <1> USE DEF vars, IInv
  <1>1. TypeOK'
    BY Zenon DEF TypeOK
  <1>2. LifecycleInv'
    BY Zenon DEF LifecycleInv
  <1>3. PublishedInv'
    BY Zenon DEF PublishedInv
  <1>4. GenerationInv'
    BY DEF GenerationInv, LastGeneration
  <1>5. CallInv'
    BY Zenon DEF CallInv, InCall, LastGeneration
  <1>6. ProcessInv'
    BY Zenon DEF ProcessInv, Unreaped
  <1>7. FileInv'
    BY DEF FileInv
  <1> QED
    BY <1>1, <1>2, <1>3, <1>4, <1>5, <1>6, <1>7

\* Every reachable state of the manager, its callers, the monitor and the
\* plugin processes satisfies the inductive invariant.
THEOREM Invariance == Spec => []IInv
  <1>1. IInv /\ [Next]_vars => IInv'
    <2>1. ASSUME IInv, Next PROVE IInv'
      BY <2>1, TypeStep, LifecycleStep, PublishedStep, GenerationStep,
         CallInvStep, ProcessStep, FileStep DEF IInv
    <2> QED
      BY <2>1, StutterInv, Zenon
  <1> QED
    BY <1>1, InitInv, PTL DEF Spec

\* The fields of the manager always have their types; in particular the
\* generation id stays a natural number through every rollbackGeneration.
THEOREM TypeCorrect == Spec => []TypeOK
  <1>1. IInv => TypeOK
    BY Zenon DEF IInv
  <1> QED
    BY <1>1, Invariance, PTL

\* state.Healthy is true only of the generation the manager is connected to,
\* whatever heartbeats, poisoned clients and lifecycle operations overlap.
THEOREM HealthyOnlyWhileTrusted == Spec => []HealthyIsTrusted
  <1>1. IInv => HealthyIsTrusted
    <2> SUFFICES ASSUME IInv, state.Healthy PROVE HealthyIsTrusted
      BY Zenon DEF HealthyIsTrusted
    <2>1. client # 0 /\ client = cmd /\ state.PID = cmd /\ client = lastPub
      BY Zenon DEF IInv, PublishedInv, TypeOK
    <2>2. ~closed /\ stage \notin StartStages
      BY <2>1, Zenon DEF IInv, LifecycleInv
    <2>3. procGen[client] = state.GenerationID
      BY <2>1, <2>2 DEF IInv, GenerationInv, Bumped, LastGeneration
    <2> QED
      BY <2>1, <2>2, <2>3, Zenon DEF HealthyIsTrusted
  <1> QED
    BY <1>1, Invariance, PTL

\* The attached client's connection is open: poisonClient and stopCurrent
\* detach a client before they close it.
THEOREM AttachedIsOpen == Spec => []PoisonedNotReused
  <1>1. IInv => PoisonedNotReused
    BY DEF IInv, PublishedInv, PoisonedNotReused
  <1> QED
    BY <1>1, Invariance, PTL

\* Unless waiting or signalling fails, the manager never has two processes it
\* has not waited for.
THEOREM AtMostOneProcess == Spec => []SingleProcess
  <1>1. IInv => SingleProcess
    <2> SUFFICES ASSUME IInv, ~StopFaults,
                        NEW m \in Incarnations, NEW n \in Incarnations,
                        Unreaped(m), Unreaped(n)
                 PROVE  m = n
      BY DEF SingleProcess
    <2>1. /\ m = cmd \/ (m = lc.proc /\ stage \in {"shutdown", "reap"} \cup BootStages)
          /\ n = cmd \/ (n = lc.proc /\ stage \in {"shutdown", "reap"} \cup BootStages)
      BY DEF IInv, ProcessInv
    <2>2. stage \in {"shutdown", "reap"} \cup BootStages => cmd = 0
      BY DEF IInv, LifecycleInv, StopStages, StartStages
    <2>3. m # 0 /\ n # 0
      BY DEF Incarnations
    <2> QED
      BY <2>1, <2>2, <2>3
  <1> QED
    BY <1>1, Invariance, PTL

\* A stopped manager leaves no zombie and no socket file behind.
THEOREM StoppedLeavesNothing == Spec => []StoppedIsClean
  <1>1. IInv => StoppedIsClean
    <2> SUFFICES ASSUME IInv, lifecycleMu = None, cmd = 0, ~StopFaults
                 PROVE  sockFile = 0 /\ \A n \in Incarnations : ~Unreaped(n)
      BY DEF StoppedIsClean
    <2>1. stage = "free"
      BY DEF IInv, LifecycleInv
    <2>2. sockFile = 0
      BY <2>1 DEF IInv, FileInv, BootStages
    <2>3. ASSUME NEW n \in Incarnations, Unreaped(n) PROVE FALSE
      BY <2>1, <2>3 DEF IInv, ProcessInv, BootStages, Incarnations
    <2> QED
      BY <2>2, <2>3
  <1> QED
    BY <1>1, Invariance, PTL

\* No runtime artifact exists once closedCh is closed, even if stopCurrent
\* could not stop the process.
THEOREM ClosedLeavesNothing == Spec => []ClosedIsClean
  <1>1. IInv => ClosedIsClean
    BY DEF IInv, FileInv, ClosedIsClean
  <1> QED
    BY <1>1, Invariance, PTL

\* No token file exists while a generation is published.
THEOREM TokenIsGone == Spec => []NoTokenWhilePublished
  <1>1. IInv => NoTokenWhilePublished
    BY Zenon DEF IInv, FileInv, NoTokenWhilePublished
  <1> QED
    BY <1>1, Invariance, PTL

\* A reply that passes the fence of Manager.call comes from the generation
\* published last.
THEOREM RepliesAreCurrent == Spec => []NoReplyFromReplaced
  <1>1. IInv => NoReplyFromReplaced
    <2> SUFFICES ASSUME IInv, NEW t \in Threads, pc[t] = "replied",
                        ~StaleResponse(call[t])
                 PROVE  call[t].client = lastPub
      BY Zenon DEF NoReplyFromReplaced
    <2>1. call[t].gen = state.GenerationID
      BY Zenon DEF StaleResponse
    <2>2. state.GenerationID \in {LastGeneration, LastGeneration + 1}
      BY Zenon DEF IInv, GenerationInv
    <2>3. ~(call[t].gen < LastGeneration)
      BY <2>1, <2>2, FieldTypes DEF IInv
    <2> QED
      BY <2>3, Zenon DEF IInv, CallInv, InCall
  <1> QED
    BY <1>1, Invariance, PTL

\* From Close's fence on no process is created.
THEOREM ClosedStartsNothing == Spec => NoStartAfterClose
  <1>1. IInv /\ [Next]_vars => [closed => starts' = starts]_vars
    <2> SUFFICES ASSUME IInv, Next, closed PROVE starts' = starts
      OBVIOUS
    <2>1. stage # "spawn"
      BY Zenon DEF IInv, LifecycleInv, StartStages
    <2>2. CASE CallerStep
      BY <2>2, CallerFrame
    <2>3. ASSUME NEW t \in Threads,
                 \/ PoisonDetach(t) \/ PoisonClose(t) \/ Acquire(t)
                 \/ \E h \in BOOLEAN : ApplyHeartbeat(t, h)
          PROVE  starts' = starts
      BY <2>3, Zenon DEF PoisonDetach, PoisonClose, Acquire, ApplyHeartbeat
    <2>4. CASE StopStep
      BY <2>4, Zenon DEF StopStep, StopRejected, StopFence, StopShutdown, StopReap,
         StopReapFails, StopCleanup, CloseFinish, CloseCleanup
    <2>5. CASE StartStep
      BY <2>1, <2>5, Zenon DEF StartStep, StartRejected, StartBegin, StartToken,
         StartTokenFails, StartSpawn, StartSpawnFails, StartDial, StartPeerCred,
         StartAuth, StartCapabilities, StartFails, StartUnwind, StartRollback,
         StartDiscard, StartPublish
    <2>6. ASSUME NEW n \in Incarnations, PluginBind(n) \/ PluginExit(n)
          PROVE  starts' = starts
      BY <2>6, Zenon DEF PluginBind, PluginExit
    <2> QED
      BY <2>2, <2>3, <2>4, <2>5, <2>6, NextCases
  <1> QED
    BY <1>1, Invariance, PTL DEF Spec, NoStartAfterClose

-----------------------------------------------------------------------------
(* The refinement. *)

\* Health and trust are gone in every stage of a stop or a start.
LEMMA NotTrusted ==
    ASSUME IInv, stage \in StopStages \cup StartStages
    PROVE  client = 0 /\ state.Healthy = FALSE
  BY Zenon DEF IInv, LifecycleInv, PublishedInv, TypeOK, StateType

\* The steps outside the critical sections that change client, state, closed or
\* the last publication are stuttering steps of TrustedGeneration.
LEMMA TrustFrame ==
    ASSUME UNCHANGED <<client, state.Healthy, closed, procGen, lastPub>>
    PROVE  UNCHANGED Trusted!vars
  BY DEF Trusted!vars, LastGeneration

\* Every step of the manager is a step of TrustedGeneration, or none.
LEMMA TrustStep ==
    ASSUME IInv, Next
    PROVE  Trusted!Next \/ UNCHANGED Trusted!vars
  <1> USE DEF Return, Proceed
  <1>t. state \in StateType /\ closed \in BOOLEAN
    BY DEF IInv, TypeOK
  <1>g. UNCHANGED <<procGen, lastPub>> => LastGeneration' = LastGeneration
    BY Zenon DEF LastGeneration
  <1>1. CASE CallerStep
    BY TrustFrame, <1>1, CallerFrame
  <1>2. ASSUME NEW t \in Threads, PoisonDetach(t)
        PROVE  Trusted!Next \/ UNCHANGED Trusted!vars
    <2>1. CASE client = call[t].client
      <3>1. client' = 0 /\ state'.Healthy = FALSE
        BY <1>2, <2>1 DEF PoisonDetach, WithHealth
      <3>2. Trusted!Distrust
        BY <1>2, <3>1, <1>g, Zenon DEF PoisonDetach, Trusted!Distrust
      <3> QED
        BY <3>2, Zenon DEF Trusted!Next
    <2>2. CASE client # call[t].client
      BY TrustFrame, <1>2, <2>2 DEF PoisonDetach
    <2> QED
      BY <2>1, <2>2
  <1>3. ASSUME NEW t \in Threads, PoisonClose(t) \/ Acquire(t)
        PROVE  UNCHANGED Trusted!vars
    BY TrustFrame, <1>3, Zenon DEF PoisonClose, Acquire
  <1>4. ASSUME NEW t \in Threads, NEW h \in BOOLEAN, ApplyHeartbeat(t, h)
        PROVE  Trusted!Next \/ UNCHANGED Trusted!vars
    <2>1. CASE StaleHeartbeat(call[t])
      BY TrustFrame, <1>4, <2>1, Zenon DEF ApplyHeartbeat
    <2>2. CASE ~StaleHeartbeat(call[t])
      <3>1. client # 0
        BY <1>4, <2>2, Zenon DEF ApplyHeartbeat, StaleHeartbeat, IInv, CallInv, InCall
      <3>2. state'.Healthy = h
        BY <1>4, <2>2 DEF ApplyHeartbeat, WithHealth
      <3>3. Trusted!Report
        BY <1>4, <1>g, <3>1, <3>2, Zenon DEF ApplyHeartbeat, Trusted!Report
      <3> QED
        BY <3>3, Zenon DEF Trusted!Next
    <2> QED
      BY <2>1, <2>2
  <1>5. CASE StopFence
    <2>1. client' = 0 /\ state'.Healthy = FALSE /\ closed = FALSE /\ closed' \in BOOLEAN
      BY <1>5, <1>t DEF StopFence, Stopped
    <2>2. Trusted!Distrust \/ Trusted!Close
      BY <1>5, <1>g, <2>1, Zenon DEF StopFence, Trusted!Distrust, Trusted!Close
    <2> QED
      BY <2>2, Zenon DEF Trusted!Next
  <1>6. CASE CloseFinish
    <2>1. client = 0 /\ state.Healthy = FALSE
      BY <1>6, NotTrusted, Zenon DEF CloseFinish, StopStages
    <2>2. Trusted!Close
      BY <1>6, <1>g, <2>1 DEF CloseFinish, Trusted!Close
    <2> QED
      BY <2>2 DEF Trusted!Next
  <1>7. CASE \/ StopRejected \/ StopShutdown \/ StopReap \/ StopReapFails
             \/ StopCleanup \/ CloseCleanup
    BY TrustFrame, <1>7, Zenon DEF StopRejected, StopShutdown, StopReap, StopReapFails,
       StopCleanup, CloseCleanup
  <1>8. CASE StartBegin
    <2>1. state.Healthy = FALSE /\ state'.Healthy = FALSE
      BY <1>8, <1>t DEF StartBegin, ResetState, IInv, PublishedInv, StateType
    <2> QED
      BY TrustFrame, <1>8, <2>1, Zenon DEF StartBegin
  <1>9. CASE StartTokenFails \/ StartSpawnFails \/ StartRollback
    <2>1. state.Healthy = FALSE /\ stage \in Bumped
      BY <1>9, NotTrusted, Zenon
         DEF StartTokenFails, StartSpawnFails, StartRollback, StartStages, Bumped
    <2>2. state'.Healthy = FALSE
      BY <1>9, <2>1, RolledBackIs
         DEF StartTokenFails, StartSpawnFails, StartRollback, ResetState
    <2> QED
      BY TrustFrame, <1>9, <2>1, <2>2, Zenon DEF StartTokenFails, StartSpawnFails, StartRollback
  <1>10. CASE StartSpawn
    <2>1. lastPub \in 0..starts /\ starts \in Nat /\ procGen \in [Incarnations -> Nat]
      <3>1. lastPub \in Nat /\ starts \in Nat /\ procGen \in [Incarnations -> Nat]
        BY FieldTypes, Zenon DEF IInv, TypeOK
      <3> QED
        BY <3>1 DEF IInv, PublishedInv
    <2>2. LastGeneration' = LastGeneration
      BY <1>10, <2>1, ConstantsAssumption DEF StartSpawn, LastGeneration, Incarnations
    <2> QED
      BY <1>10, <2>2 DEF StartSpawn, Trusted!vars
  <1>11. CASE StartPublish
    <2>1. client = 0 /\ state.Healthy = FALSE /\ ~closed
      BY <1>11, NotTrusted, Zenon DEF StartPublish, StartStages, BootStages, IInv, LifecycleInv
    <2>2. lc.proc \in Nat \ {0} /\ lc.client = lc.proc
      <3>1. lc.proc = starts /\ lastPub < starts /\ lc.client = lc.proc
        BY <1>11, Zenon DEF StartPublish, IInv, GenerationInv, BootStages
      <3> QED
        BY <3>1, FieldTypes DEF IInv
    <2>3. LastGeneration' = LastGeneration + 1
      BY <1>11, <2>2, Zenon DEF StartPublish, LastGeneration, IInv, GenerationInv, Bumped,
         StartStages, BootStages
    <2>4. client' # 0 /\ state'.Healthy = TRUE
      BY <1>11, <2>2, Zenon DEF StartPublish, PublishedState
    <2>5. Trusted!Trust
      BY <1>11, <2>1, <2>3, <2>4 DEF StartPublish, Trusted!Trust
    <2> QED
      BY <2>5 DEF Trusted!Next
  <1>12. CASE \/ StartRejected \/ StartToken \/ StartDial \/ StartPeerCred \/ StartAuth
              \/ StartCapabilities \/ StartFails \/ StartUnwind \/ StartDiscard
    BY TrustFrame, <1>12, Zenon DEF StartRejected, StartToken, StartDial, StartPeerCred, StartAuth,
       StartCapabilities, StartFails, StartUnwind, StartDiscard
  <1>13. ASSUME NEW n \in Incarnations, PluginBind(n) \/ PluginExit(n)
         PROVE  UNCHANGED Trusted!vars
    BY TrustFrame, <1>13 DEF PluginBind, PluginExit
  <1> QED
    BY <1>1, <1>2, <1>3, <1>4, <1>5, <1>6, <1>7, <1>8, <1>9, <1>10, <1>11,
       <1>12, <1>13, NextCases, Zenon DEF StopStep, StartStep

\* The manager implements the abstract specification of trusted generations.
THEOREM Refinement == Spec => ImplementsTrustedGeneration
  <1>1. Init => Trusted!Init
    BY DEF Init, Trusted!Init, LastGeneration, ResetState
  <1>2. IInv /\ [Next]_vars => [Trusted!Next]_(Trusted!vars)
    <2>1. ASSUME UNCHANGED vars PROVE UNCHANGED Trusted!vars
      BY <2>1, TrustFrame DEF vars
    <2> QED
      BY <2>1, TrustStep, Zenon
  <1> QED
    BY <1>1, <1>2, Invariance, PTL
       DEF Spec, ImplementsTrustedGeneration, Trusted!Spec

=============================================================================
