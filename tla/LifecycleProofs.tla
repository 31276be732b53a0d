-------------------------- MODULE LifecycleProofs --------------------------
(* Theorems about Lifecycle, for every value of its constants. *)
EXTENDS Lifecycle, TLAPS

-----------------------------------------------------------------------------
(* The inductive invariant *)

Looping == {"look", "recover", "claim", "wait"}
Beating == {"wait", "renew"}

\* What has begun at each stage of the start-up.  Readiness is set after an
\* await; it is backed because whatever could have failed meanwhile left a stop.
Begun ==
  /\ pc \in Startup \ {"started"} => loop = "none" /\ heartbeat = "none" /\ monitor = "none"
  /\ pc \in Startup \cup {"serve"} /\ ~stopRequested => ~lost /\ armed = Signal
  /\ pc \in {"started", "serve"} /\ ~stopRequested => loop \in Looping /\ heartbeat \in Beating
  /\ pc = "serve" /\ ~stopRequested => monitor = "running"
  /\ operational => pc = "serve" /\ ~stopRequested

\* Users outlive what they use, and only the loop makes new ones.
Tended ==
  /\ loop \in Looping /\ ~lost => heartbeat \in Beating
  /\ pc \in {"workers", "heartbeat", "release", "server", "host", "redis", "ended"} =>
       loop \in {"none", "ended"}

\* Why an exit code of 0 speaks of the lease: each way to keep one raises it.
Codes ==
  /\ lost => exit = 1
  /\ lease = "mine" /\ heartbeat = "none" => exit = 1
  /\ exit = 0 /\ pc \in {"server", "host", "redis", "ended"} => lease # "mine"

Inv == TypeOK /\ Begun /\ Tended /\ DrainOrder /\ Codes

-----------------------------------------------------------------------------
(* Each part is preserved *)

\* A stop leaves the flags and the exit code typed.
LEMMA StopTyped ==
  ASSUME exit \in 0..1, NEW code \in 0..1, RequestStop(code)
  PROVE  operational' \in BOOLEAN /\ stopRequested' \in BOOLEAN /\ exit' \in 0..1
<1>1. CASE code > exit
  BY <1>1 DEF RequestStop
<1>2. CASE ~(code > exit)
  BY <1>2 DEF RequestStop
<1> QED
  BY <1>1, <1>2

\* Losing the lease keeps the types.
LEMMA LoseTyped ==
  ASSUME exit \in 0..1, Lose
  PROVE  operational' \in BOOLEAN /\ stopRequested' \in BOOLEAN /\ lost' \in BOOLEAN /\ exit' \in 0..1
<1> QED
  BY StopTyped, 1 \in 0..1 DEF Lose

\* Every step keeps the types.
LEMMA TypeStep ==
  ASSUME TypeOK, [Next]_vars
  PROVE  TypeOK'
<1> USE LifecycleAssumption DEF TypeOK, mainVars, stopVars, taskVars, worldVars,
        Startup, Cleanup, End
<1>1. CASE Connect
  BY <1>1 DEF Connect, Proceed, StartupFails
<1>2. CASE CreateRepository
  BY <1>2 DEF CreateRepository, Proceed, StartupFails
<1>3. CASE Listen
  BY <1>3 DEF Listen, Proceed, StartupFails
<1>4. CASE Start
  BY <1>4 DEF Start
<1>5. CASE StartRefused
  BY <1>5, LoseTyped DEF StartRefused
<1>6. CASE StartFails
  BY <1>6 DEF StartFails, StartupFails, Fault
<1>7. CASE Started
  BY <1>7 DEF Started, Proceed
<1>8. CASE BridgeSeen
  BY <1>8 DEF BridgeSeen, Proceed
<1>9. CASE ServeEnds
  BY <1>9 DEF ServeEnds
<1>10. CASE DrainLoop
  BY <1>10 DEF DrainLoop, CleanupStep
<1>11. CASE DrainWorkers
  BY <1>11 DEF DrainWorkers, CleanupStep
<1>12. CASE DrainHeartbeat
  BY <1>12 DEF DrainHeartbeat, CleanupStep
<1>13. CASE Release
  BY <1>13 DEF Release, CleanupStep
<1>14. CASE CloseServer
  BY <1>14 DEF CloseServer, CleanupStep
<1>15. CASE CloseHost
  BY <1>15 DEF CloseHost, CleanupStep
<1>16. CASE CloseRedis
  BY <1>16 DEF CloseRedis, CleanupStep
<1>17. CASE ProbeFails
  BY <1>17, LoseTyped DEF ProbeFails
<1>18. CASE MonitorStops
  BY <1>18 DEF MonitorStops
<1>19. CASE \E s \in Signal : Signalled(s)
  BY <1>19, StopTyped, 0 \in 0..1 DEF Signalled
<1>20. CASE Look
  BY <1>20 DEF Look, Scheduling
<1>21. CASE Poll
  BY <1>21 DEF Poll
<1>22. CASE LoopFails
  BY <1>22, LoseTyped DEF LoopFails
<1>23. CASE Recover
  BY <1>23 DEF Recover, Scheduling
<1>24. CASE Claim
  BY <1>24 DEF Claim, Scheduling
<1>25. CASE ClaimLost
  BY <1>25, LoseTyped DEF ClaimLost
<1>26. CASE Beat
  BY <1>26 DEF Beat, HeartbeatStops
<1>27. CASE Renew
  BY <1>27, LoseTyped DEF Renew
<1>28. CASE HostLoads
  BY <1>28 DEF HostLoads
<1>29. ASSUME NEW c \in Chat, OpenHost(c)
      PROVE  TypeOK'
  BY <1>29 DEF OpenHost, SetWorker, AtGate
<1>30. ASSUME NEW c \in Chat, Prompt(c)
      PROVE  TypeOK'
  BY <1>30 DEF Prompt, SetWorker, AtGate
<1>31. ASSUME NEW c \in Chat, Finish(c)
      PROVE  TypeOK'
  BY <1>31 DEF Finish, SetWorker, AtGate
<1>32. ASSUME NEW c \in Chat, WorkerPauses(c)
      PROVE  TypeOK'
  BY <1>32 DEF WorkerPauses, SetWorker, AtGate, Report
<1>33. ASSUME NEW c \in Chat, WorkerLoses(c)
      PROVE  TypeOK'
  BY <1>33, LoseTyped DEF WorkerLoses, SetWorker, AtGate, Fault
<1>34. ASSUME NEW c \in Chat, Dispose(c)
      PROVE  TypeOK'
  BY <1>34 DEF Dispose, SetWorker, Report
<1>35. ASSUME NEW r \in Request, Admit(r)
      PROVE  TypeOK'
  BY <1>35 DEF Admit, SetRequest
<1>36. ASSUME NEW r \in Request, ReadBody(r)
      PROVE  TypeOK'
  BY <1>36 DEF ReadBody, SetRequest
<1>37. ASSUME NEW r \in Request, Answer(r)
      PROVE  TypeOK'
  BY <1>37 DEF Answer, SetRequest, Report
<1>38. CASE StoreBreaks
  BY <1>38 DEF StoreBreaks, Fault
<1>39. CASE LeaseLapses
  BY <1>39 DEF LeaseLapses, Fault
<1>40. CASE OtherTakes
  BY <1>40 DEF OtherTakes
<1>41. CASE OtherReleases
  BY <1>41 DEF OtherReleases
<1>42. CASE UNCHANGED vars
  BY <1>42 DEF vars
<1> QED
  BY <1>1, <1>2, <1>3, <1>4, <1>5, <1>6, <1>7, <1>8, <1>9, <1>10, <1>11, <1>12, <1>13, <1>14,
     <1>15, <1>16, <1>17, <1>18, <1>19, <1>20, <1>21, <1>22, <1>23, <1>24, <1>25, <1>26,
     <1>27, <1>28, <1>29, <1>30, <1>31, <1>32, <1>33, <1>34, <1>35, <1>36, <1>37, <1>38,
     <1>39, <1>40, <1>41, <1>42
     DEF Next, StartupStep, CleanupSteps, LoopStep, HeartbeatStep, WorkerStep, RequestStep

\* Every step keeps what must have begun before what.
LEMMA BegunStep ==
  ASSUME TypeOK, Begun, [Next]_vars
  PROVE  Begun'
<1> USE DEF TypeOK, Begun, Looping, Beating, mainVars, stopVars, taskVars, worldVars, Startup
<1>1. CASE Connect
  BY <1>1 DEF Connect, Proceed, StartupFails
<1>2. CASE CreateRepository
  BY <1>2 DEF CreateRepository, Proceed, StartupFails
<1>3. CASE Listen
  BY <1>3 DEF Listen, Proceed, StartupFails
<1>4. CASE Start
  BY <1>4 DEF Start
<1>5. CASE StartRefused
  BY <1>5 DEF StartRefused, Lose, RequestStop
<1>6. CASE StartFails
  BY <1>6 DEF StartFails, StartupFails, Fault
<1>7. CASE Started
  BY <1>7 DEF Started, Proceed
<1>8. CASE BridgeSeen
  BY <1>8 DEF BridgeSeen, Proceed
<1>9. CASE ServeEnds
  BY <1>9 DEF ServeEnds
<1>10. CASE DrainLoop
  BY <1>10 DEF DrainLoop, CleanupStep
<1>11. CASE DrainWorkers
  BY <1>11 DEF DrainWorkers, CleanupStep
<1>12. CASE DrainHeartbeat
  BY <1>12 DEF DrainHeartbeat, CleanupStep
<1>13. CASE Release
  BY <1>13 DEF Release, CleanupStep
<1>14. CASE CloseServer
  BY <1>14 DEF CloseServer, CleanupStep
<1>15. CASE CloseHost
  BY <1>15 DEF CloseHost, CleanupStep
<1>16. CASE CloseRedis
  BY <1>16 DEF CloseRedis, CleanupStep
<1>17. CASE ProbeFails
  BY <1>17 DEF ProbeFails, Lose, RequestStop
<1>18. CASE MonitorStops
  BY <1>18 DEF MonitorStops
<1>19. CASE \E s \in Signal : Signalled(s)
  BY <1>19 DEF Signalled, Signal, RequestStop, Alive
<1>20. CASE Look
  BY <1>20 DEF Look, Scheduling, Cleanup
<1>21. CASE Poll
  BY <1>21 DEF Poll
<1>22. CASE LoopFails
  BY <1>22 DEF LoopFails, Lose, RequestStop
<1>23. CASE Recover
  BY <1>23 DEF Recover, Scheduling
<1>24. CASE Claim
  BY <1>24 DEF Claim, Scheduling
<1>25. CASE ClaimLost
  BY <1>25 DEF ClaimLost, Lose, RequestStop
<1>26. CASE Beat
  BY <1>26 DEF Beat, HeartbeatStops
<1>27. CASE Renew
  BY <1>27 DEF Renew, Lose, RequestStop
<1>28. CASE HostLoads
  BY <1>28 DEF HostLoads
<1>29. ASSUME NEW c \in Chat, OpenHost(c)
      PROVE  Begun'
  BY <1>29 DEF OpenHost, SetWorker, AtGate
<1>30. ASSUME NEW c \in Chat, Prompt(c)
      PROVE  Begun'
  BY <1>30 DEF Prompt, SetWorker, AtGate
<1>31. ASSUME NEW c \in Chat, Finish(c)
      PROVE  Begun'
  BY <1>31 DEF Finish, SetWorker, AtGate
<1>32. ASSUME NEW c \in Chat, WorkerPauses(c)
      PROVE  Begun'
  BY <1>32 DEF WorkerPauses, SetWorker, AtGate, Report
<1>33. ASSUME NEW c \in Chat, WorkerLoses(c)
      PROVE  Begun'
  BY <1>33 DEF WorkerLoses, SetWorker, AtGate, Lose, RequestStop, Fault
<1>34. ASSUME NEW c \in Chat, Dispose(c)
      PROVE  Begun'
  BY <1>34 DEF Dispose, SetWorker, Report
<1>35. ASSUME NEW r \in Request, Admit(r)
      PROVE  Begun'
  BY <1>35 DEF Admit, SetRequest
<1>36. ASSUME NEW r \in Request, ReadBody(r)
      PROVE  Begun'
  BY <1>36 DEF ReadBody, SetRequest
<1>37. ASSUME NEW r \in Request, Answer(r)
      PROVE  Begun'
  BY <1>37 DEF Answer, SetRequest, Report
<1>38. CASE StoreBreaks
  BY <1>38 DEF StoreBreaks, Fault
<1>39. CASE LeaseLapses
  BY <1>39 DEF LeaseLapses, Fault
<1>40. CASE OtherTakes
  BY <1>40 DEF OtherTakes
<1>41. CASE OtherReleases
  BY <1>41 DEF OtherReleases
<1>42. CASE UNCHANGED vars
  BY <1>42 DEF vars
<1> QED
  BY <1>1, <1>2, <1>3, <1>4, <1>5, <1>6, <1>7, <1>8, <1>9, <1>10, <1>11, <1>12, <1>13, <1>14,
     <1>15, <1>16, <1>17, <1>18, <1>19, <1>20, <1>21, <1>22, <1>23, <1>24, <1>25, <1>26,
     <1>27, <1>28, <1>29, <1>30, <1>31, <1>32, <1>33, <1>34, <1>35, <1>36, <1>37, <1>38,
     <1>39, <1>40, <1>41, <1>42
     DEF Next, StartupStep, CleanupSteps, LoopStep, HeartbeatStep, WorkerStep, RequestStep

\* Every step keeps the running tasks tended.
LEMMA TendedStep ==
  ASSUME TypeOK, Begun, Tended, [Next]_vars
  PROVE  Tended'
<1> USE DEF Begun, Tended, Looping, Beating, mainVars, stopVars, taskVars, worldVars, Startup
<1>1. CASE Connect
  BY <1>1 DEF Connect, Proceed, StartupFails
<1>2. CASE CreateRepository
  BY <1>2 DEF CreateRepository, Proceed, StartupFails
<1>3. CASE Listen
  BY <1>3 DEF Listen, Proceed, StartupFails
<1>4. CASE Start
  BY <1>4 DEF Start
<1>5. CASE StartRefused
  BY <1>5 DEF StartRefused, Lose, RequestStop
<1>6. CASE StartFails
  BY <1>6 DEF StartFails, StartupFails, Fault
<1>7. CASE Started
  BY <1>7 DEF Started, Proceed
<1>8. CASE BridgeSeen
  BY <1>8 DEF BridgeSeen, Proceed
<1>9. CASE ServeEnds
  BY <1>9 DEF ServeEnds
<1>10. CASE DrainLoop
  BY <1>10 DEF DrainLoop, CleanupStep
<1>11. CASE DrainWorkers
  BY <1>11 DEF DrainWorkers, CleanupStep
<1>12. CASE DrainHeartbeat
  BY <1>12 DEF DrainHeartbeat, CleanupStep
<1>13. CASE Release
  BY <1>13 DEF Release, CleanupStep
<1>14. CASE CloseServer
  BY <1>14 DEF CloseServer, CleanupStep
<1>15. CASE CloseHost
  BY <1>15 DEF CloseHost, CleanupStep
<1>16. CASE CloseRedis
  BY <1>16 DEF CloseRedis, CleanupStep
<1>17. CASE ProbeFails
  BY <1>17 DEF ProbeFails, Lose, RequestStop
<1>18. CASE MonitorStops
  BY <1>18 DEF MonitorStops
<1>19. CASE \E s \in Signal : Signalled(s)
  BY <1>19 DEF Signalled, Signal, RequestStop, Alive
<1>20. CASE Look
  BY <1>20 DEF Look, Scheduling, Cleanup
<1>21. CASE Poll
  BY <1>21 DEF Poll
<1>22. CASE LoopFails
  BY <1>22 DEF LoopFails, Lose, RequestStop
<1>23. CASE Recover
  BY <1>23 DEF Recover, Scheduling
<1>24. CASE Claim
  BY <1>24 DEF Claim, Scheduling
<1>25. CASE ClaimLost
  BY <1>25 DEF ClaimLost, Lose, RequestStop
<1>26. CASE Beat
  BY <1>26 DEF Beat, HeartbeatStops
<1>27. CASE Renew
  BY <1>27 DEF Renew, Lose, RequestStop
<1>28. CASE HostLoads
  BY <1>28 DEF HostLoads
<1>29. ASSUME NEW c \in Chat, OpenHost(c)
      PROVE  Tended'
  BY <1>29 DEF OpenHost, SetWorker, AtGate
<1>30. ASSUME NEW c \in Chat, Prompt(c)
      PROVE  Tended'
  BY <1>30 DEF Prompt, SetWorker, AtGate
<1>31. ASSUME NEW c \in Chat, Finish(c)
      PROVE  Tended'
  BY <1>31 DEF Finish, SetWorker, AtGate
<1>32. ASSUME NEW c \in Chat, WorkerPauses(c)
      PROVE  Tended'
  BY <1>32 DEF WorkerPauses, SetWorker, AtGate, Report
<1>33. ASSUME NEW c \in Chat, WorkerLoses(c)
      PROVE  Tended'
  BY <1>33 DEF WorkerLoses, SetWorker, AtGate, Lose, RequestStop, Fault
<1>34. ASSUME NEW c \in Chat, Dispose(c)
      PROVE  Tended'
  BY <1>34 DEF Dispose, SetWorker, Report
<1>35. ASSUME NEW r \in Request, Admit(r)
      PROVE  Tended'
  BY <1>35 DEF Admit, SetRequest
<1>36. ASSUME NEW r \in Request, ReadBody(r)
      PROVE  Tended'
  BY <1>36 DEF ReadBody, SetRequest
<1>37. ASSUME NEW r \in Request, Answer(r)
      PROVE  Tended'
  BY <1>37 DEF Answer, SetRequest, Report
<1>38. CASE StoreBreaks
  BY <1>38 DEF StoreBreaks, Fault
<1>39. CASE LeaseLapses
  BY <1>39 DEF LeaseLapses, Fault
<1>40. CASE OtherTakes
  BY <1>40 DEF OtherTakes
<1>41. CASE OtherReleases
  BY <1>41 DEF OtherReleases
<1>42. CASE UNCHANGED vars
  BY <1>42 DEF vars
<1> QED
  BY <1>1, <1>2, <1>3, <1>4, <1>5, <1>6, <1>7, <1>8, <1>9, <1>10, <1>11, <1>12, <1>13, <1>14,
     <1>15, <1>16, <1>17, <1>18, <1>19, <1>20, <1>21, <1>22, <1>23, <1>24, <1>25, <1>26,
     <1>27, <1>28, <1>29, <1>30, <1>31, <1>32, <1>33, <1>34, <1>35, <1>36, <1>37, <1>38,
     <1>39, <1>40, <1>41, <1>42
     DEF Next, StartupStep, CleanupSteps, LoopStep, HeartbeatStep, WorkerStep, RequestStep

\* Every step keeps the order of the drain.
LEMMA OrderStep ==
  ASSUME TypeOK, Begun, Tended, DrainOrder, [Next]_vars
  PROVE  DrainOrder'
<1> USE DEF TypeOK, Begun, Tended, DrainOrder, Active, Looping, Beating, mainVars, stopVars,
        taskVars, worldVars, Startup
<1>1. CASE Connect
  BY <1>1 DEF Connect, Proceed, StartupFails
<1>2. CASE CreateRepository
  BY <1>2 DEF CreateRepository, Proceed, StartupFails
<1>3. CASE Listen
  BY <1>3 DEF Listen, Proceed, StartupFails
<1>4. CASE Start
  BY <1>4 DEF Start
<1>5. CASE StartRefused
  BY <1>5 DEF StartRefused, Lose, RequestStop
<1>6. CASE StartFails
  BY <1>6 DEF StartFails, StartupFails, Fault
<1>7. CASE Started
  BY <1>7 DEF Started, Proceed
<1>8. CASE BridgeSeen
  BY <1>8 DEF BridgeSeen, Proceed
<1>9. CASE ServeEnds
  BY <1>9 DEF ServeEnds
<1>10. CASE DrainLoop
  BY <1>10 DEF DrainLoop, CleanupStep
<1>11. CASE DrainWorkers
  BY <1>11 DEF DrainWorkers, CleanupStep
<1>12. CASE DrainHeartbeat
  BY <1>12 DEF DrainHeartbeat, CleanupStep
<1>13. CASE Release
  BY <1>13 DEF Release, CleanupStep
<1>14. CASE CloseServer
  BY <1>14 DEF CloseServer, CleanupStep
<1>15. CASE CloseHost
  BY <1>15 DEF CloseHost, CleanupStep
<1>16. CASE CloseRedis
  BY <1>16 DEF CloseRedis, CleanupStep
<1>17. CASE ProbeFails
  BY <1>17 DEF ProbeFails, Lose, RequestStop
<1>18. CASE MonitorStops
  BY <1>18 DEF MonitorStops
<1>19. CASE \E s \in Signal : Signalled(s)
  BY <1>19 DEF Signalled, Signal, RequestStop, Alive
<1>20. CASE Look
  BY <1>20 DEF Look, Scheduling, Cleanup
<1>21. CASE Poll
  BY <1>21 DEF Poll
<1>22. CASE LoopFails
  BY <1>22 DEF LoopFails, Lose, RequestStop
<1>23. CASE Recover
  BY <1>23 DEF Recover, Scheduling
<1>24. CASE Claim
  BY <1>24 DEF Claim, Scheduling, Cleanup
<1>25. CASE ClaimLost
  BY <1>25 DEF ClaimLost, Lose, RequestStop
<1>26. CASE Beat
  BY <1>26 DEF Beat, HeartbeatStops
<1>27. CASE Renew
  BY <1>27 DEF Renew, Lose, RequestStop
<1>28. CASE HostLoads
  BY <1>28 DEF HostLoads
<1>29. ASSUME NEW c \in Chat, OpenHost(c)
      PROVE  DrainOrder'
  BY <1>29 DEF OpenHost, SetWorker, AtGate
<1>30. ASSUME NEW c \in Chat, Prompt(c)
      PROVE  DrainOrder'
  BY <1>30 DEF Prompt, SetWorker, AtGate
<1>31. ASSUME NEW c \in Chat, Finish(c)
      PROVE  DrainOrder'
  BY <1>31 DEF Finish, SetWorker, AtGate
<1>32. ASSUME NEW c \in Chat, WorkerPauses(c)
      PROVE  DrainOrder'
  BY <1>32 DEF WorkerPauses, SetWorker, AtGate, Report
<1>33. ASSUME NEW c \in Chat, WorkerLoses(c)
      PROVE  DrainOrder'
  BY <1>33 DEF WorkerLoses, SetWorker, AtGate, Lose, RequestStop, Fault
<1>34. ASSUME NEW c \in Chat, Dispose(c)
      PROVE  DrainOrder'
  BY <1>34 DEF Dispose, SetWorker, Report
<1>35. ASSUME NEW r \in Request, Admit(r)
      PROVE  DrainOrder'
  BY <1>35 DEF Admit, SetRequest, Ready, Cleanup, Alive, End
<1>36. ASSUME NEW r \in Request, ReadBody(r)
      PROVE  DrainOrder'
  BY <1>36 DEF ReadBody, SetRequest, Ready, Cleanup, Alive, End
<1>37. ASSUME NEW r \in Request, Answer(r)
      PROVE  DrainOrder'
  BY <1>37 DEF Answer, SetRequest, Report
<1>38. CASE StoreBreaks
  BY <1>38 DEF StoreBreaks, Fault
<1>39. CASE LeaseLapses
  BY <1>39 DEF LeaseLapses, Fault
<1>40. CASE OtherTakes
  BY <1>40 DEF OtherTakes
<1>41. CASE OtherReleases
  BY <1>41 DEF OtherReleases
<1>42. CASE UNCHANGED vars
  BY <1>42 DEF vars
<1> QED
  BY <1>1, <1>2, <1>3, <1>4, <1>5, <1>6, <1>7, <1>8, <1>9, <1>10, <1>11, <1>12, <1>13, <1>14,
     <1>15, <1>16, <1>17, <1>18, <1>19, <1>20, <1>21, <1>22, <1>23, <1>24, <1>25, <1>26,
     <1>27, <1>28, <1>29, <1>30, <1>31, <1>32, <1>33, <1>34, <1>35, <1>36, <1>37, <1>38,
     <1>39, <1>40, <1>41, <1>42
     DEF Next, StartupStep, CleanupSteps, LoopStep, HeartbeatStep, WorkerStep, RequestStep

\* Every step keeps the exit codes.
LEMMA CodesStep ==
  ASSUME TypeOK, Begun, Tended, DrainOrder, Codes, [Next]_vars
  PROVE  Codes'
<1> USE DEF TypeOK, Codes, mainVars, stopVars, taskVars, worldVars
<1>1. CASE Connect
  BY <1>1 DEF Connect, Proceed, StartupFails
<1>2. CASE CreateRepository
  BY <1>2 DEF CreateRepository, Proceed, StartupFails
<1>3. CASE Listen
  BY <1>3 DEF Listen, Proceed, StartupFails
<1>4. CASE Start
  BY <1>4 DEF Start, Begun, Startup
<1>5. CASE StartRefused
  BY <1>5 DEF StartRefused, Lose, RequestStop
<1>6. CASE StartFails
  BY <1>6 DEF StartFails, StartupFails, Fault
<1>7. CASE Started
  BY <1>7 DEF Started, Proceed
<1>8. CASE BridgeSeen
  BY <1>8 DEF BridgeSeen, Proceed
<1>9. CASE ServeEnds
  BY <1>9 DEF ServeEnds
<1>10. CASE DrainLoop
  BY <1>10 DEF DrainLoop, CleanupStep
<1>11. CASE DrainWorkers
  BY <1>11 DEF DrainWorkers, CleanupStep
<1>12. CASE DrainHeartbeat
  BY <1>12 DEF DrainHeartbeat, CleanupStep
<1>13. CASE Release
  BY <1>13 DEF Release, CleanupStep
<1>14. CASE CloseServer
  BY <1>14 DEF CloseServer, CleanupStep
<1>15. CASE CloseHost
  BY <1>15 DEF CloseHost, CleanupStep
<1>16. CASE CloseRedis
  BY <1>16 DEF CloseRedis, CleanupStep
<1>17. CASE ProbeFails
  BY <1>17 DEF ProbeFails, Lose, RequestStop
<1>18. CASE MonitorStops
  BY <1>18 DEF MonitorStops
<1>19. CASE \E s \in Signal : Signalled(s)
  BY <1>19 DEF Signalled, Signal, RequestStop, Alive
<1>20. CASE Look
  BY <1>20 DEF Look, Scheduling
<1>21. CASE Poll
  BY <1>21 DEF Poll
<1>22. CASE LoopFails
  BY <1>22 DEF LoopFails, Lose, RequestStop
<1>23. CASE Recover
  BY <1>23 DEF Recover, Scheduling
<1>24. CASE Claim
  BY <1>24 DEF Claim, Scheduling
<1>25. CASE ClaimLost
  BY <1>25 DEF ClaimLost, Lose, RequestStop
<1>26. CASE Beat
  BY <1>26 DEF Beat, HeartbeatStops
<1>27. CASE Renew
  BY <1>27 DEF Renew, Lose, RequestStop
<1>28. CASE HostLoads
  BY <1>28 DEF HostLoads
<1>29. ASSUME NEW c \in Chat, OpenHost(c)
      PROVE  Codes'
  BY <1>29 DEF OpenHost, SetWorker, AtGate
<1>30. ASSUME NEW c \in Chat, Prompt(c)
      PROVE  Codes'
  BY <1>30 DEF Prompt, SetWorker, AtGate
<1>31. ASSUME NEW c \in Chat, Finish(c)
      PROVE  Codes'
  BY <1>31 DEF Finish, SetWorker, AtGate
<1>32. ASSUME NEW c \in Chat, WorkerPauses(c)
      PROVE  Codes'
  BY <1>32 DEF WorkerPauses, SetWorker, AtGate, Report
<1>33. ASSUME NEW c \in Chat, WorkerLoses(c)
      PROVE  Codes'
  BY <1>33 DEF WorkerLoses, SetWorker, AtGate, Lose, RequestStop, Fault
<1>34. ASSUME NEW c \in Chat, Dispose(c)
      PROVE  Codes'
  BY <1>34 DEF Dispose, SetWorker, Report
<1>35. ASSUME NEW r \in Request, Admit(r)
      PROVE  Codes'
  BY <1>35 DEF Admit, SetRequest
<1>36. ASSUME NEW r \in Request, ReadBody(r)
      PROVE  Codes'
  BY <1>36 DEF ReadBody, SetRequest
<1>37. ASSUME NEW r \in Request, Answer(r)
      PROVE  Codes'
  BY <1>37 DEF Answer, SetRequest, Report
<1>38. CASE StoreBreaks
  BY <1>38 DEF StoreBreaks, Fault
<1>39. CASE LeaseLapses
  BY <1>39 DEF LeaseLapses, Fault
<1>40. CASE OtherTakes
  BY <1>40 DEF OtherTakes
<1>41. CASE OtherReleases
  BY <1>41 DEF OtherReleases
<1>42. CASE UNCHANGED vars
  BY <1>42 DEF vars
<1> QED
  BY <1>1, <1>2, <1>3, <1>4, <1>5, <1>6, <1>7, <1>8, <1>9, <1>10, <1>11, <1>12, <1>13, <1>14,
     <1>15, <1>16, <1>17, <1>18, <1>19, <1>20, <1>21, <1>22, <1>23, <1>24, <1>25, <1>26,
     <1>27, <1>28, <1>29, <1>30, <1>31, <1>32, <1>33, <1>34, <1>35, <1>36, <1>37, <1>38,
     <1>39, <1>40, <1>41, <1>42
     DEF Next, StartupStep, CleanupSteps, LoopStep, HeartbeatStep, WorkerStep, RequestStep

-----------------------------------------------------------------------------
(* Theorems *)

\* The inductive invariant, for any number of chats.
LEMMA Invariance == Spec => []Inv
<1>1. Init => Inv
  <2> SUFFICES ASSUME Init PROVE Inv
    OBVIOUS
  <2>1. TypeOK
    <3>1. worker \in [Chat -> {"idle", "gate", "open", "prompt", "dispose"}]
      BY DEF Init
    <3>2. request \in [Request -> {"idle", "body", "accept"}]
      BY DEF Init
    <3>3. faults \in 0..MaxFaults
      BY LifecycleAssumption DEF Init
    <3>4. exit \in 0..1 /\ armed \subseteq Signal /\ lease \in {"free", "mine", "other"}
      BY DEF Init
    <3>5. /\ pc \in Startup /\ store \in {"down", "up", "closed"} /\ target \in Chat \cup {NoChat}
          /\ operational \in BOOLEAN /\ stopRequested \in BOOLEAN /\ lost \in BOOLEAN
      BY DEF Init, Startup
    <3>6. /\ monitor = "none" /\ loop = "none" /\ heartbeat = "none" /\ host = "none"
      BY DEF Init
    <3> QED
      BY <3>1, <3>2, <3>3, <3>4, <3>5, <3>6 DEF TypeOK
  <2>2. Begun /\ Tended
    BY DEF Init, Begun, Tended, Looping, Startup
  <2>3. DrainOrder
    BY DEF Init, DrainOrder, Active
  <2>4. Codes
    BY DEF Init, Codes
  <2> QED
    BY <2>1, <2>2, <2>3, <2>4 DEF Inv
<1>2. Inv /\ [Next]_vars => Inv'
  BY TypeStep, BegunStep, TendedStep, OrderStep, CodesStep DEF Inv
<1> QED
  BY <1>1, <1>2, PTL DEF Spec

\* Every variable keeps its type, however many chats, requests and faults there are.
THEOREM TypeCorrect == Spec => []TypeOK
<1>1. Inv => TypeOK
  BY DEF Inv
<1> QED
  BY <1>1, Invariance, PTL

\* Readiness is never reported without what it promises.
THEOREM ReadinessBacked == Spec => []ReadyIsBacked
<1>1. Inv => ReadyIsBacked
  BY DEF Inv, Begun, ReadyIsBacked, Looping, Beating, Startup
<1> QED
  BY <1>1, Invariance, PTL

\* Nothing is taken down under its users, in whatever order the troubles came.
THEOREM DrainOrdered == Spec => []DrainOrder
<1>1. Inv => DrainOrder
  BY DEF Inv
<1> QED
  BY <1>1, Invariance, PTL

\* An exit with 0 leaves no lease behind.
THEOREM ExitClean == Spec => []CleanExit
<1>1. Inv => CleanExit
  BY DEF Inv, Codes, CleanExit, TypeOK
<1> QED
  BY <1>1, Invariance, PTL

\* What one step may do once a stop is ordered, scheduling over, or the lease lost.
StopHolds ==
  /\ stopRequested =>
       /\ ~operational'
       /\ \A r \in Request : request'[r] = "accept" => request[r] = "accept"
  /\ ~Scheduling => \A c \in Chat : worker[c] = "idle" => worker'[c] = "idle"
  /\ lost => \A c \in Chat : worker'[c] = "prompt" => worker[c] = "prompt"

\* What a step may do once a stop was requested.
LEMMA StopStep ==
  ASSUME TypeOK, Begun, [Next]_vars
  PROVE  StopHolds
<1> USE DEF TypeOK, Begun, StopHolds, Scheduling, mainVars, stopVars, taskVars, worldVars
<1>1. CASE Connect
  BY <1>1 DEF Connect, Proceed, StartupFails
<1>2. CASE CreateRepository
  BY <1>2 DEF CreateRepository, Proceed, StartupFails
<1>3. CASE Listen
  BY <1>3 DEF Listen, Proceed, StartupFails
<1>4. CASE Start
  BY <1>4 DEF Start
<1>5. CASE StartRefused
  BY <1>5 DEF StartRefused, Lose, RequestStop
<1>6. CASE StartFails
  BY <1>6 DEF StartFails, StartupFails, Fault
<1>7. CASE Started
  BY <1>7 DEF Started, Proceed
<1>8. CASE BridgeSeen
  BY <1>8 DEF BridgeSeen, Proceed
<1>9. CASE ServeEnds
  BY <1>9 DEF ServeEnds
<1>10. CASE DrainLoop
  BY <1>10 DEF DrainLoop, CleanupStep
<1>11. CASE DrainWorkers
  BY <1>11 DEF DrainWorkers, CleanupStep
<1>12. CASE DrainHeartbeat
  BY <1>12 DEF DrainHeartbeat, CleanupStep
<1>13. CASE Release
  BY <1>13 DEF Release, CleanupStep
<1>14. CASE CloseServer
  BY <1>14 DEF CloseServer, CleanupStep
<1>15. CASE CloseHost
  BY <1>15 DEF CloseHost, CleanupStep
<1>16. CASE CloseRedis
  BY <1>16 DEF CloseRedis, CleanupStep
<1>17. CASE ProbeFails
  BY <1>17 DEF ProbeFails, Lose, RequestStop
<1>18. CASE MonitorStops
  BY <1>18 DEF MonitorStops
<1>19. CASE \E s \in Signal : Signalled(s)
  BY <1>19 DEF Signalled, Signal, RequestStop, Alive
<1>20. CASE Look
  BY <1>20 DEF Look, Scheduling
<1>21. CASE Poll
  BY <1>21 DEF Poll
<1>22. CASE LoopFails
  BY <1>22 DEF LoopFails, Lose, RequestStop
<1>23. CASE Recover
  BY <1>23 DEF Recover, Scheduling
<1>24. CASE Claim
  BY <1>24 DEF Claim, Scheduling
<1>25. CASE ClaimLost
  BY <1>25 DEF ClaimLost, Lose, RequestStop
<1>26. CASE Beat
  BY <1>26 DEF Beat, HeartbeatStops
<1>27. CASE Renew
  BY <1>27 DEF Renew, Lose, RequestStop
<1>28. CASE HostLoads
  BY <1>28 DEF HostLoads
<1>29. ASSUME NEW c \in Chat, OpenHost(c)
      PROVE  StopHolds
  BY <1>29 DEF OpenHost, SetWorker, AtGate
<1>30. ASSUME NEW c \in Chat, Prompt(c)
      PROVE  StopHolds
  BY <1>30 DEF Prompt, SetWorker, AtGate, Current
<1>31. ASSUME NEW c \in Chat, Finish(c)
      PROVE  StopHolds
  BY <1>31 DEF Finish, SetWorker, AtGate
<1>32. ASSUME NEW c \in Chat, WorkerPauses(c)
      PROVE  StopHolds
  BY <1>32 DEF WorkerPauses, SetWorker, AtGate, Report
<1>33. ASSUME NEW c \in Chat, WorkerLoses(c)
      PROVE  StopHolds
  BY <1>33 DEF WorkerLoses, SetWorker, AtGate, Lose, RequestStop, Fault
<1>34. ASSUME NEW c \in Chat, Dispose(c)
      PROVE  StopHolds
  BY <1>34 DEF Dispose, SetWorker, Report
<1>35. ASSUME NEW r \in Request, Admit(r)
      PROVE  StopHolds
  BY <1>35 DEF Admit, SetRequest
<1>36. ASSUME NEW r \in Request, ReadBody(r)
      PROVE  StopHolds
  BY <1>36 DEF ReadBody, SetRequest, Ready
<1>37. ASSUME NEW r \in Request, Answer(r)
      PROVE  StopHolds
  BY <1>37 DEF Answer, SetRequest, Report
<1>38. CASE StoreBreaks
  BY <1>38 DEF StoreBreaks, Fault
<1>39. CASE LeaseLapses
  BY <1>39 DEF LeaseLapses, Fault
<1>40. CASE OtherTakes
  BY <1>40 DEF OtherTakes
<1>41. CASE OtherReleases
  BY <1>41 DEF OtherReleases
<1>42. CASE UNCHANGED vars
  BY <1>42 DEF vars
<1> QED
  BY <1>1, <1>2, <1>3, <1>4, <1>5, <1>6, <1>7, <1>8, <1>9, <1>10, <1>11, <1>12, <1>13, <1>14,
     <1>15, <1>16, <1>17, <1>18, <1>19, <1>20, <1>21, <1>22, <1>23, <1>24, <1>25, <1>26,
     <1>27, <1>28, <1>29, <1>30, <1>31, <1>32, <1>33, <1>34, <1>35, <1>36, <1>37, <1>38,
     <1>39, <1>40, <1>41, <1>42
     DEF Next, StartupStep, CleanupSteps, LoopStep, HeartbeatStep, WorkerStep, RequestStep

\* A stop is final: no accept, no worker and no turn begins after what forbids it.
THEOREM StopFinal == Spec => StopIsFinal
<1>1. Inv /\ [Next]_vars => [StopHolds]_vars
  BY StopStep DEF Inv
<1> QED
  BY <1>1, Invariance, PTL DEF Spec, StopIsFinal, StopHolds
=============================================================================
