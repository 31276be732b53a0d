--------------------------- MODULE ConnectionProofs ---------------------------
(* Theorems about Connection, for every value of its constants. *)
EXTENDS Connection, TLAPS

-----------------------------------------------------------------------------
(* Type correctness *)

\* One field of one call changes.
LEMMA CallTyped ==
  ASSUME loop \in [Callers -> Call], NEW l \in Callers, NEW s \in Steps
  PROVE  /\ [loop EXCEPT ![l].step = s] \in [Callers -> Call]
         /\ [loop EXCEPT ![l] = Resting] \in [Callers -> Call]
BY DEF Call, Steps, Resting

\* A new generation is a set of calls.
LEMMA ScheduledTyped ==
  ASSUME loop \in [Callers -> Call], NEW l \in Callers
  PROVE  Scheduled(loop, l) \in [Callers -> Call]
BY DEF Scheduled, Call, Steps

\* So are the calls after a Connected event.
LEMMA ConnectedTyped ==
  ASSUME loop \in [Callers -> Call]
  PROVE  Connected(loop) \in [Callers -> Call]
BY DEF Connected, Call

\* What the end of a call may change.
LEMMA ReturnTyped ==
  ASSUME TypeOK, NEW l \in Callers, NEW o \in {"ok", "error", "permanent", "qr_timeout"},
         Return(l, o)
  PROVE  loop' \in [Callers -> Call] /\ result' \in {"none", "ok", "error", "permanent", "qr_timeout"}
<1>1. loop \in [Callers -> Call] /\ result \in {"none", "ok", "error", "permanent", "qr_timeout"}
  BY DEF TypeOK
<1>2. [loop EXCEPT ![l] = Resting] \in [Callers -> Call]
  <2>1. Resting \in Call
    BY DEF Resting, Call, Steps
  <2> QED
    BY <1>1, <2>1
<1>3. [loop EXCEPT ![l].step = "again"] \in [Callers -> Call]
  BY <1>1, CallTyped DEF Steps
<1>4. loop' = [loop EXCEPT ![l] = Resting] \/ loop' = [loop EXCEPT ![l].step = "again"]
  BY DEF Return, Move, Rest
<1>5. result' = o \/ result' = result
  BY DEF Return
<1> QED
  BY <1>1, <1>2, <1>3, <1>4, <1>5

\* Counting keep-alive timeouts stays below the limit.
LEMMA StrikesTyped ==
  ASSUME strikes \in 0..(MaxStrikes - 1)
  PROVE  (strikes + 1) % MaxStrikes \in 0..(MaxStrikes - 1)
BY ConnectionAssumption

\* What a step of a goroutine or of the first Connect may change.
LEMMA LoopTyped ==
  ASSUME TypeOK, NEW l \in Callers, LoopStep(l)
  PROVE  loop' \in [Callers -> Call] /\ result' \in {"none", "ok", "error", "permanent", "qr_timeout"}
<1>0. /\ loop \in [Callers -> Call]
      /\ result \in {"none", "ok", "error", "permanent", "qr_timeout"}
      /\ Lossy("ok") \in {"ok", "permanent"} /\ Lossy("error") \in {"error", "permanent"}
  BY DEF TypeOK, Lossy
<1>1. CASE ResetConnectedCh(l)
  <2>1. CASE permanent
    BY <1>1, <2>1, ReturnTyped DEF ResetConnectedCh
  <2>2. CASE ~permanent
    <3>1. \A c \in Callers : /\ [loop[c] EXCEPT !.step = "dial", !.chan = "open"] \in Call
                             /\ [loop[c] EXCEPT !.chan = "lost"] \in Call /\ loop[c] \in Call
      BY <1>0 DEF Call, Steps
    <3>2. loop' = [c \in Callers |->
                  IF c = l THEN [loop[c] EXCEPT !.step = "dial", !.chan = "open"]
                  ELSE IF loop[c].chan = "open"
                       THEN [loop[c] EXCEPT !.chan = "lost"] ELSE loop[c]]
          /\ result' = result
      BY <1>1, <2>2 DEF ResetConnectedCh
    <3> QED
      BY <1>0, <3>1, <3>2
  <2> QED
    BY <2>1, <2>2
<1>2. CASE DialFails(l) \/ WaitConnected(l) \/ WaitTimesOut(l) \/ WaitStopped(l)
  <2>1. PICK o \in {"ok", "error", "permanent"} : Return(l, o)
    BY <1>0, <1>2 DEF DialFails, WaitConnected, WaitTimesOut, WaitStopped
  <2> QED
    BY <2>1, ReturnTyped
<1>3. CASE DelayEnds(l) \/ CheckGeneration(l) \/ GoConnecting(l)
  <2>1. Rest(l) \/ \E s \in Steps : Move(l, s)
    BY <1>3 DEF DelayEnds, CheckGeneration, GoConnecting, Steps
  <2>2. ASSUME Rest(l) PROVE loop' \in [Callers -> Call]
    BY <1>0, <2>2, CallTyped DEF Rest, Steps
  <2>3. ASSUME NEW s \in Steps, Move(l, s) PROVE loop' \in [Callers -> Call]
    BY <1>0, <2>3, CallTyped DEF Move
  <2> QED
    BY <1>0, <1>3, <2>1, <2>2, <2>3 DEF DelayEnds, CheckGeneration, GoConnecting, process
<1>4. CASE TryAgain(l)
  <2>1. Rest(l) \/ loop' = Scheduled(loop, l)
    BY <1>4 DEF TryAgain
  <2>2. ASSUME Rest(l) PROVE loop' \in [Callers -> Call]
    BY <1>0, <2>2, CallTyped DEF Rest, Steps
  <2>3. ASSUME loop' = Scheduled(loop, l) PROVE loop' \in [Callers -> Call]
    BY <1>0, <2>3, ScheduledTyped
  <2> QED
    BY <1>0, <1>4, <2>1, <2>2, <2>3 DEF TryAgain, process
<1> QED
  BY <1>1, <1>2, <1>3, <1>4 DEF LoopStep

\* Every variable keeps the type TypeOK gives it.
THEOREM TypeCorrect == Spec => []TypeOK
<1>1. Init => TypeOK
  <2> SUFFICES ASSUME Init PROVE TypeOK
    OBVIOUS
  <2>1. Resting \in Call
    BY DEF Resting, Call, Steps
  <2>2. loop \in [Callers -> Call] /\ strikes \in 0..(MaxStrikes - 1)
    BY <2>1, ConnectionAssumption DEF Init
  <2> QED
    BY <2>2 DEF Init, TypeOK
<1>2. TypeOK /\ [Next]_vars => TypeOK'
  <2> SUFFICES ASSUME TypeOK, [Next]_vars
               PROVE  TypeOK'
    OBVIOUS
  <2>0. /\ Main \in Callers /\ Loops \subseteq Callers /\ loop \in [Callers -> Call]
        /\ Transient \subseteq Events /\ {"connected", "lost"} \subseteq Events
    BY DEF Callers, TypeOK, Transient, Events
  <2> DEFINE Flags == /\ permanent' \in BOOLEAN /\ stopped' \in BOOLEAN /\ terminal' \in BOOLEAN
                      /\ losing' \in BOOLEAN /\ kick' \in BOOLEAN
                      /\ paired' \in BOOLEAN /\ marker' \in BOOLEAN
             States == /\ phase' \in {"off", "connecting", "qr", "running", "closing",
                                      "stopping", "closed"}
                       /\ result' \in {"none", "ok", "error", "permanent", "qr_timeout"}
                       /\ state' \in {"disconnected", "connecting", "qr", "connected", "permanent"}
                       /\ socket' \in {"down", "open", "live"}
  <2>a. ASSUME Flags, States, loop' \in [Callers -> Call], strikes' \in 0..(MaxStrikes - 1),
               pending' \subseteq Events
        PROVE  TypeOK'
    BY <2>a DEF TypeOK
  <2> USE DEF process, world, Emit, Transition, Lossy
  <2>1. ASSUME NEW l \in Callers, LoopStep(l)
        PROVE  TypeOK'
    <3>1. loop' \in [Callers -> Call] /\ result' \in {"none", "ok", "error", "permanent", "qr_timeout"}
      BY <2>1, LoopTyped
    <3>2. /\ UNCHANGED <<phase, permanent, stopped, terminal, losing, strikes, kick, world>>
          /\ state' \in {state, "disconnected", "connecting"}
      BY <2>1 DEF LoopStep, ResetConnectedCh, DialFails, WaitConnected, WaitTimesOut, WaitStopped,
         DelayEnds, CheckGeneration, GoConnecting, TryAgain
    <3> QED
      BY <2>a, <3>1, <3>2 DEF TypeOK
  <2>2. ASSUME NEW l \in Callers, DialSucceeds(l)
        PROVE  TypeOK'
    <3>1. loop' \in [Callers -> Call]
      BY <2>0, <2>2, CallTyped DEF DialSucceeds, Move, Steps
    <3> QED
      BY <2>2, <3>1 DEF DialSucceeds, TypeOK
  <2>3. CASE HandleConnected
    <3>1. loop' \in [Callers -> Call]
      BY <2>0, <2>3, ConnectedTyped DEF HandleConnected
    <3> QED
      BY <2>3, <3>1 DEF HandleConnected, TypeOK
  <2>4. ASSUME NEW event \in Transient, NEW l \in Loops, HandleTransient(event, l)
        PROVE  TypeOK'
    <3>1. loop' \in [Callers -> Call]
      BY <2>0, <2>4, ScheduledTyped DEF HandleTransient
    <3> QED
      BY <2>4, <3>1 DEF HandleTransient, TypeOK
  <2>5. CASE HandlePermanentDisconnect
    BY <2>5 DEF HandlePermanentDisconnect, TypeOK
  <2>6. CASE PublishPermanentDisconnect
    <3>1. losing' = FALSE /\ stopped' = TRUE /\ terminal' = TRUE
      BY <2>6 DEF PublishPermanentDisconnect
    <3>2. UNCHANGED <<phase, result, state, permanent, loop, strikes, kick, socket, pending,
                      paired, marker>>
      BY <2>6 DEF PublishPermanentDisconnect
    <3>3. Flags
      BY <3>1, <3>2 DEF TypeOK
    <3>4. States /\ UNCHANGED <<loop, strikes, pending>>
      BY <3>2 DEF TypeOK
    <3> HIDE DEF Flags, States
    <3> QED
      BY <2>a, <3>3, <3>4 DEF TypeOK
  <2>8. CASE ForceDisconnect
    <3>1. pending' \subseteq Events
      <4>1. pending' \in {pending, pending \union {}, pending \union {"disconnected"}}
        BY <2>8 DEF ForceDisconnect
      <4>2. pending \subseteq Events /\ "disconnected" \in Events
        BY DEF TypeOK, Events, Transient
      <4> QED
        BY <4>1, <4>2
    <3>2. kick' \in BOOLEAN /\ socket' = "down"
      BY <2>8 DEF ForceDisconnect
    <3>3. UNCHANGED <<phase, result, state, permanent, stopped, terminal, losing, loop, strikes,
                      paired, marker>>
      BY <2>8 DEF ForceDisconnect
    <3> QED
      BY <3>1, <3>2, <3>3 DEF TypeOK
  <2>9. CASE Authenticate
    <3>1. pending' \subseteq Events
      BY <2>0, <2>9 DEF Authenticate, TypeOK
    <3> QED
      BY <2>9, <3>1 DEF Authenticate, TypeOK
  <2>10. ASSUME NEW events \in SUBSET Transient, SocketDrops(events)
         PROVE  TypeOK'
    <3>1. pending' \subseteq Events
      BY <2>0, <2>10 DEF SocketDrops, TypeOK
    <3> QED
      BY <2>10, <3>1 DEF SocketDrops, TypeOK
  <2>11. ASSUME NEW unpairs \in BOOLEAN, ServerRejects(unpairs)
         PROVE  TypeOK'
    <3>1. pending' \subseteq Events
      BY <2>0, <2>11 DEF ServerRejects, TypeOK
    <3>2. paired' \in BOOLEAN
      BY <2>11 DEF ServerRejects
    <3> QED
      BY <2>11, <3>1, <3>2 DEF ServerRejects, TypeOK
  <2>12. CASE KeepAliveTimeout
    <3>1. strikes' \in 0..(MaxStrikes - 1)
      BY <2>12, StrikesTyped DEF KeepAliveTimeout, TypeOK
    <3>2. kick' \in BOOLEAN
      BY <2>12 DEF KeepAliveTimeout
    <3> QED
      BY <2>12, <3>1, <3>2 DEF KeepAliveTimeout, TypeOK
  <2>13. CASE KeepAliveRestored
    BY <2>13, ConnectionAssumption DEF KeepAliveRestored, TypeOK
  <2>14. CASE QRSucceeds
    <3>1. loop' \in [Callers -> Call]
      BY <2>0, <2>14, ConnectedTyped DEF QRSucceeds
    <3> QED
      BY <2>14, <3>1 DEF QRSucceeds, TypeOK
  <2>15. ASSUME NEW outcome \in {"error", "qr_timeout"}, QREnds(outcome)
         PROVE  TypeOK'
    BY <2>15 DEF QREnds, TypeOK
  <2>16. CASE QRStops
    BY <2>16 DEF QRStops, TypeOK
  <2>17. CASE QRCloses
    BY <2>17 DEF QRCloses, TypeOK
  <2>18. CASE QRCancelled
    <3>1. pending' \subseteq Events
      BY <2>0, <2>18 DEF QRCancelled, TypeOK, Events, Transient
    <3> QED
      BY <2>18, <3>1 DEF QRCancelled, TypeOK
  <2>19. ASSUME NEW cause \in {"connect", "qr", "loss", "interrupt"}, Exit(cause)
         PROVE  TypeOK'
    <3>1. marker' \in BOOLEAN /\ terminal' \in BOOLEAN
      BY <2>19 DEF Exit
    <3> QED
      BY <2>19, <3>1 DEF Exit, TypeOK
  <2>20. CASE Start
    <3>1. [Resting EXCEPT !.step = "reset", !.fresh = TRUE] \in Call
      BY DEF Resting, Call, Steps
    <3>2. loop' \in [Callers -> Call]
      BY <2>0, <2>20, <3>1 DEF Start
    <3> QED
      BY <2>20, <3>2 DEF Start, TypeOK
  <2>21. CASE ConnectEstablished
    BY <2>21 DEF ConnectEstablished, TypeOK
  <2>22. CASE Stop
    BY <2>22 DEF Stop, TypeOK
  <2>23. CASE Disconnect
    BY <2>23 DEF Disconnect, TypeOK
  <2>24. CASE CooldownExpires
    <3>1. /\ marker' \in BOOLEAN
          /\ UNCHANGED <<phase, result, state, permanent, stopped, terminal, losing, loop,
                         strikes, kick, socket, pending, paired>>
      BY <2>24 DEF CooldownExpires
    <3> QED
      BY <3>1 DEF TypeOK
  <2>25. CASE End
    <3>1. Resting \in Call
      BY DEF Resting, Call, Steps
    <3>2. loop' \in [Callers -> Call] /\ strikes' \in 0..(MaxStrikes - 1)
      BY <2>25, <3>1, ConnectionAssumption DEF End
    <3> QED
      BY <2>25, <3>2 DEF End, TypeOK
  <2>26. CASE UNCHANGED vars
    BY <2>26 DEF vars, TypeOK
  <2> QED
    BY <2>1, <2>2, <2>3, <2>4, <2>5, <2>6, <2>8, <2>9, <2>10, <2>11, <2>12, <2>13, <2>14,
       <2>15, <2>16, <2>17, <2>18, <2>19, <2>20, <2>21, <2>22, <2>23, <2>24, <2>25, <2>26
       DEF Next, Handler, Library, QR, Leave
<1> QED
  BY <1>1, <1>2, PTL DEF Spec

-----------------------------------------------------------------------------
(* The inductive invariant *)

\* The bridge means to be connected: it starts, or runs.
Trying == (phase \in {"connecting", "qr"} /\ result \in {"none", "ok"}) \/ phase = "running"

\* c is on its way to a dial, superseded by nobody it could hand over to.
BeforeDial(c) ==
  \/ loop[c].step \in {"connecting", "reset", "dial", "again"}
  \/ loop[c].step \in {"delay", "check"} /\ loop[c].fresh

\* Why: nothing is left of a process that ended.
Off == phase = "off" =>
  /\ result = "none" /\ ~permanent /\ ~stopped /\ ~losing /\ ~kick
  /\ socket = "down" /\ pending = {} /\ \A c \in Callers : loop[c].step = "idle"

\* Why: the first Connect dials before anything can have been lost.
FirstConnect ==
  /\ phase = "running" => result = "ok"
  /\ phase = "qr" => loop[Main].step = "idle"
  /\ loop[Main].step \in {"idle", "reset", "dial", "wait"}
  /\ loop[Main].step # "idle" => result = "none" /\ phase # "running"
  /\ loop[Main].step \in {"reset", "dial"} =>
       ~permanent /\ pending = {} /\ socket = "down" /\ \A l \in Loops : loop[l].step = "idle"

\* Why: until the exit only a loss stops the goroutines.
Losses == (losing => permanent) /\ (Trying /\ stopped => permanent)

\* Why: whoever waits for Connected has an open socket, so a socket that is down
\* was reported after that, and the report made a new generation.
Chased == Trying /\ ~permanent =>
  /\ socket = "down" => pending \cap (Transient \cup {"lost"}) # {} \/ \E c \in Callers : BeforeDial(c)
  /\ socket = "live" => state = "connected" \/ pending # {} \/ \E c \in Callers : BeforeDial(c)

ConnectionInv == TypeOK /\ Off /\ FirstConnect /\ Losses /\ Chased

-----------------------------------------------------------------------------
(* What a step may change *)

\* A new generation is on its way to a dial; the others stay where they are.
LEMMA NewGeneration ==
  ASSUME loop \in [Callers -> Call], NEW l \in Callers, loop' = Scheduled(loop, l)
  PROVE  BeforeDial(l)' /\ \A c \in Callers : c # l => loop'[c].step = loop[c].step
<1>1. loop'[l] = [step |-> "delay", fresh |-> TRUE, chan |-> "lost"]
  BY DEF Scheduled
<1>2. ASSUME NEW c \in Callers, c # l
      PROVE  loop'[c].step = loop[c].step
  <2>1. loop'[c] = [loop[c] EXCEPT !.fresh = FALSE] /\ loop[c] \in Call
    BY <1>2 DEF Scheduled
  <2> QED
    BY <2>1 DEF Call
<1> QED
  BY <1>1, <1>2 DEF BeforeDial

\* An attempt that takes the channel goes on to its dial and moves nobody else.
LEMMA ResetMoves ==
  ASSUME loop \in [Callers -> Call], NEW l \in Callers, ResetConnectedCh(l), ~permanent
  PROVE  /\ loop'[l].step = "dial"
         /\ \A c \in Callers : c # l =>
              loop'[c].step = loop[c].step /\ loop'[c].fresh = loop[c].fresh
<1>1. \A c \in Callers : loop[c] \in Call
  OBVIOUS
<1>2. loop'[l] = [loop[l] EXCEPT !.step = "dial", !.chan = "open"]
  BY DEF ResetConnectedCh
<1>3. ASSUME NEW c \in Callers, c # l
      PROVE  loop'[c].step = loop[c].step /\ loop'[c].fresh = loop[c].fresh
  <2>1. loop'[c] = loop[c] \/ loop'[c] = [loop[c] EXCEPT !.chan = "lost"]
    BY <1>3 DEF ResetConnectedCh
  <2> QED
    BY <1>1, <2>1 DEF Call
<1> QED
  BY <1>1, <1>2, <1>3 DEF Call

\* A call that goes on leaves the others where they are, and takes their
\* generation only by scheduling a new one.
LEMMA LoopMoves ==
  ASSUME TypeOK, NEW l \in Callers, LoopStep(l)
  PROVE  /\ loop[l].step # "idle"
         /\ \A c \in Callers : c # l =>
              /\ loop'[c].step = loop[c].step
              /\ loop'[c].fresh = loop[c].fresh \/ BeforeDial(l)'
         /\ UNCHANGED <<phase, permanent, stopped, terminal, losing, kick, socket, pending>>
         /\ l # Main => result' = result
<1>0. loop \in [Callers -> Call]
  BY DEF TypeOK
<1> USE DEF process, world, Return, Move, Rest
<1>1. CASE ResetConnectedCh(l)
  <2>1. CASE permanent
    BY <1>0, <1>1, <2>1 DEF ResetConnectedCh
  <2>2. CASE ~permanent
    BY <1>0, <1>1, <2>2, ResetMoves DEF ResetConnectedCh
  <2> QED
    BY <2>1, <2>2
<1>2. CASE DialFails(l) \/ WaitConnected(l) \/ WaitTimesOut(l) \/ WaitStopped(l)
  BY <1>0, <1>2 DEF DialFails, WaitConnected, WaitTimesOut, WaitStopped
<1>3. CASE DelayEnds(l) \/ CheckGeneration(l) \/ GoConnecting(l)
  BY <1>0, <1>3 DEF DelayEnds, CheckGeneration, GoConnecting
<1>4. CASE TryAgain(l)
  <2>1. CASE permanent
    BY <1>0, <1>4, <2>1 DEF TryAgain
  <2>2. CASE ~permanent
    BY <1>0, <1>4, <2>2, NewGeneration DEF TryAgain
  <2> QED
    BY <2>1, <2>2
<1> QED
  BY <1>1, <1>2, <1>3, <1>4 DEF LoopStep

\* The first Connect goes on to its dial or returns.
LEMMA MainMoves ==
  ASSUME TypeOK, FirstConnect, LoopStep(Main)
  PROVE  \/ /\ loop[Main].step = "reset" /\ loop'[Main].step = "dial" /\ result' = result
         \/ /\ loop'[Main].step = "idle" /\ result' # "none"
            /\ result' = "ok" => loop[Main].step = "wait" /\ state' = state
<1>0. loop \in [Callers -> Call] /\ Main \in Callers
  BY DEF TypeOK, Callers
<1>1. CASE ResetConnectedCh(Main)
  <2>1. CASE permanent
    BY <1>0, <1>1, <2>1 DEF ResetConnectedCh, Return, Rest, Resting
  <2>2. CASE ~permanent
    BY <1>0, <1>1, <2>2, ResetMoves DEF ResetConnectedCh
  <2> QED
    BY <2>1, <2>2
<1>2. CASE DialFails(Main) \/ WaitConnected(Main) \/ WaitTimesOut(Main) \/ WaitStopped(Main)
  BY <1>0, <1>2 DEF DialFails, WaitConnected, WaitTimesOut, WaitStopped, Return, Rest, Resting, Lossy
<1>3. ~DelayEnds(Main) /\ ~CheckGeneration(Main) /\ ~GoConnecting(Main) /\ ~TryAgain(Main)
  BY DEF DelayEnds, CheckGeneration, GoConnecting, TryAgain, FirstConnect
<1> QED
  BY <1>1, <1>2, <1>3 DEF LoopStep

\* A Connected event moves nobody.
LEMMA ConnectedMoves ==
  ASSUME loop \in [Callers -> Call], loop' = Connected(loop)
  PROVE  \A c \in Callers : loop'[c].step = loop[c].step /\ loop'[c].fresh = loop[c].fresh
BY DEF Connected, Call

\* Every step keeps the first Connect ahead of any loss.
LEMMA FirstConnectKept ==
  ASSUME TypeOK, Off, FirstConnect, [Next]_vars
  PROVE  Off' /\ FirstConnect'
<1>0. loop \in [Callers -> Call] /\ Main \in Callers /\ Loops \subseteq Callers /\ Main \notin Loops
  BY ConnectionAssumption DEF TypeOK, Callers
<1> USE DEF process, world, Emit
\* Steps at which nothing dials for the first time.
<1>a. ASSUME phase \notin {"off"}, phase' = phase, result' = result,
             loop'[Main].step = loop[Main].step, loop[Main].step \notin {"reset", "dial"}
      PROVE  Off' /\ FirstConnect'
  BY <1>a DEF Off, FirstConnect
<1>1. ASSUME NEW l \in Loops, LoopStep(l)
      PROVE  Off' /\ FirstConnect'
  <2>1. l \in Callers /\ l # Main /\ loop[l].step # "idle" /\ phase' = phase /\ result' = result
        /\ loop'[Main].step = loop[Main].step
    BY <1>0, <1>1, LoopMoves
  <2> QED
    BY <1>0, <1>1, <1>a, <2>1 DEF Off, FirstConnect
<1>2. CASE LoopStep(Main)
  <2>1. /\ loop[Main].step # "idle" /\ \A c \in Callers : c # Main => loop'[c].step = loop[c].step
        /\ UNCHANGED <<phase, permanent, socket, pending>>
    BY <1>0, <1>2, LoopMoves
  <2>2. phase \notin {"off", "running", "qr"}
    BY <1>0, <2>1 DEF Off, FirstConnect
  <2> QED
    BY <1>0, <1>2, <2>1, <2>2, MainMoves DEF Off, FirstConnect
<1>3. ASSUME NEW l \in Callers, DialSucceeds(l)
      PROVE  Off' /\ FirstConnect'
  <2>1. /\ loop[l].step = "dial" /\ loop' = [loop EXCEPT ![l].step = "wait"]
        /\ UNCHANGED <<phase, result>>
    BY <1>3 DEF DialSucceeds, Move
  <2>2. phase # "off"
    BY <2>1 DEF Off
  <2>3. CASE l = Main
    BY <1>0, <2>1, <2>2, <2>3 DEF Off, FirstConnect
  <2>4. CASE l # Main
    <3>1. loop[Main].step \notin {"reset", "dial"}
      BY <2>1, <2>4 DEF FirstConnect, Callers
    <3> QED
      BY <1>0, <1>a, <2>1, <2>2, <2>4, <3>1
  <2> QED
    BY <2>3, <2>4
<1>4. ASSUME NEW e \in pending, phase \notin {"off"}, phase' = phase, result' = result,
             loop'[Main].step = loop[Main].step
      PROVE  Off' /\ FirstConnect'
  BY <1>4, <1>a DEF FirstConnect
<1>5. CASE HandleConnected \/ HandlePermanentDisconnect
  BY <1>0, <1>4, <1>5, ConnectedMoves DEF HandleConnected, HandlePermanentDisconnect, Alive
<1>6. ASSUME NEW event \in Transient, NEW l \in Loops, HandleTransient(event, l)
      PROVE  Off' /\ FirstConnect'
  BY <1>0, <1>4, <1>6, NewGeneration DEF HandleTransient, Alive
<1>7. CASE PublishPermanentDisconnect
  BY <1>7 DEF PublishPermanentDisconnect, Off, FirstConnect
<1>8. CASE ForceDisconnect
  BY <1>8 DEF ForceDisconnect, Off, FirstConnect
<1>9. CASE Authenticate \/ Library
  <2>1. socket # "down" /\ UNCHANGED <<phase, result, loop>>
    BY <1>9 DEF Authenticate, Library, SocketDrops, ServerRejects, KeepAliveTimeout, KeepAliveRestored
  <2> QED
    BY <1>a, <2>1 DEF Off, FirstConnect
<1>10. CASE QR
  <2>1. /\ phase' = phase /\ phase # "off" /\ loop[Main].step = "idle" /\ phase # "running"
        /\ loop' = loop \/ loop' = Connected(loop)
    BY <1>10 DEF QR, QRSucceeds, QREnds, QRCloses, QRStops, QRCancelled, FirstConnect, Cancelled
  <2>2. loop'[Main].step = "idle"
    BY <1>0, <2>1, ConnectedMoves
  <2> QED
    BY <2>1, <2>2 DEF Off, FirstConnect
<1>11. CASE Start
  <2>1. \A c \in Callers : loop[c].step = "idle"
    BY <1>11 DEF Start, Off
  <2>2. CASE paired
    <3>1. loop'[Main].step = "reset" /\ \A l \in Loops : loop'[l] = loop[l]
      BY <1>0, <1>11, <2>2 DEF Start
    <3> QED
      BY <1>0, <1>11, <2>1, <2>2, <3>1 DEF Start, Off, FirstConnect
  <2>3. CASE ~paired
    BY <1>0, <1>11, <2>1, <2>3 DEF Start, Off, FirstConnect
  <2> QED
    BY <2>2, <2>3
<1>12. CASE Leave \/ ConnectEstablished \/ Stop
  BY <1>12 DEF Leave, Exit, ConnectEstablished, Stop, Off, FirstConnect
<1>13. CASE Disconnect
  BY <1>13 DEF Disconnect, Off, FirstConnect
<1>14. CASE End
  <2>1. \A c \in Callers : loop'[c].step = "idle"
    BY <1>14 DEF End, Resting
  <2> QED
    BY <1>0, <1>14, <2>1 DEF End, Off, FirstConnect
<1>15. CASE CooldownExpires \/ UNCHANGED vars
  BY <1>15 DEF CooldownExpires, vars, Off, FirstConnect
<1> QED
  BY <1>1, <1>2, <1>3, <1>5, <1>6, <1>7, <1>8, <1>9, <1>10, <1>11, <1>12, <1>13, <1>14, <1>15
     DEF Next, Handler, Callers

\* The bridge keeps meaning to be connected, or has just been started.
LEMMA TryingBefore ==
  ASSUME TypeOK, Off, FirstConnect, [Next]_vars, Trying'
  PROVE  Trying \/ Start
<1>0. Main \in Callers /\ Loops \subseteq Callers
  BY DEF Callers
<1> USE DEF process, world, Trying
<1>1. ASSUME NEW l \in Callers, LoopStep(l)
      PROVE  Trying
  <2>1. phase' = phase /\ (l # Main => result' = result)
    BY <1>1, LoopMoves
  <2>2. CASE l = Main
    <3>1. loop[Main].step # "idle"
      BY <1>0, <1>1, <2>2, LoopMoves
    <3>2. result = "none"
      BY <3>1 DEF FirstConnect
    <3> QED
      BY <2>1, <3>2 DEF FirstConnect
  <2>3. CASE l # Main
    BY <2>1, <2>3
  <2> QED
    BY <2>2, <2>3
<1>2. ASSUME NEW l \in Callers, DialSucceeds(l)
      PROVE  Trying
  BY <1>2 DEF DialSucceeds
<1>3. CASE Handler \/ Authenticate \/ Library
  BY <1>3 DEF Handler, HandleConnected, HandleTransient, HandlePermanentDisconnect,
     PublishPermanentDisconnect, ForceDisconnect, Authenticate, Library, SocketDrops,
     ServerRejects, KeepAliveTimeout, KeepAliveRestored
<1>4. CASE QR
  BY <1>4 DEF QR, QRSucceeds, QREnds, QRCloses, QRStops, QRCancelled, Cancelled
<1>5. CASE Leave \/ ConnectEstablished \/ Stop \/ Disconnect \/ End \/ CooldownExpires
  BY <1>5 DEF Leave, Exit, ConnectEstablished, Stop, Disconnect, End, CooldownExpires
<1>6. CASE UNCHANGED vars
  BY <1>6 DEF vars
<1> QED
  BY <1>1, <1>2, <1>3, <1>4, <1>5, <1>6 DEF Next

\* Every step keeps a stop before the exit the work of a loss.
LEMMA LossesKept ==
  ASSUME TypeOK, Off, FirstConnect, Losses, [Next]_vars
  PROVE  Losses'
<1> USE DEF process, world
<1>1. CASE Start
  BY <1>1 DEF Start, Off, Losses
<1>2. CASE HandlePermanentDisconnect
  BY <1>2 DEF HandlePermanentDisconnect, Losses
<1>3. CASE PublishPermanentDisconnect
  BY <1>3 DEF PublishPermanentDisconnect, Losses
<1>4. CASE Stop
  BY <1>4 DEF Stop, Losses, Trying
<1>5. CASE End
  BY <1>5 DEF End, Losses
<1>6. ASSUME ~Start, ~HandlePermanentDisconnect, ~PublishPermanentDisconnect, ~Stop, ~End
      PROVE  UNCHANGED <<permanent, stopped, losing>>
  <2>1. ASSUME NEW l \in Callers, LoopStep(l) \/ DialSucceeds(l)
        PROVE  UNCHANGED <<permanent, stopped, losing>>
    BY <2>1, LoopMoves DEF DialSucceeds
  <2> QED
    BY <1>6, <2>1 DEF Next, Handler, HandleConnected, HandleTransient, ForceDisconnect,
       Authenticate, Library, SocketDrops, ServerRejects, KeepAliveTimeout, KeepAliveRestored,
       QR, QRSucceeds, QREnds, QRCloses, QRStops, QRCancelled, Leave, Exit,
       ConnectEstablished, Disconnect, CooldownExpires, vars
<1> QED
  BY <1>1, <1>2, <1>3, <1>4, <1>5, <1>6, TryingBefore DEF Losses

\* A goroutine that was on its way to a dial stays so, dials, or was superseded by
\* one that is.
LEMMA DialsGoOn ==
  ASSUME TypeOK, FirstConnect, Losses, Trying, Trying', ~permanent, NEW l \in Callers, LoopStep(l),
         NEW c \in Callers, BeforeDial(c)
  PROVE  \E d \in Callers : BeforeDial(d)'
<1>0. loop \in [Callers -> Call] /\ ~stopped
  BY DEF TypeOK, Losses
<1>1. CASE c # l
  <2>1. loop'[c].step = loop[c].step /\ (loop'[c].fresh = loop[c].fresh \/ BeforeDial(l)')
    BY <1>1, LoopMoves
  <2> QED
    BY <2>1 DEF BeforeDial
<1>2. CASE c = l
  <2>1. CASE ResetConnectedCh(l)
    BY <1>0, <2>1, ResetMoves DEF BeforeDial
  <2>2. CASE DialFails(l)
    <3>1. CASE l = Main
      <4>1. loop[Main].step = "dial" /\ result' = "error" /\ phase' = phase
        BY <2>2, <3>1 DEF DialFails, Return
      <4> QED
        BY <4>1 DEF FirstConnect, Trying
    <3>2. CASE l # Main
      <4>1. loop'[l].step = "again"
        BY <1>0, <2>2, <3>2 DEF DialFails, Return, Move, Call
      <4> QED
        BY <4>1 DEF BeforeDial
    <3> QED
      BY <3>1, <3>2
  <2>3. CASE DelayEnds(l)
    <3>1. loop' = [loop EXCEPT ![l].step = "check"] /\ loop[l].fresh
      BY <1>0, <1>2, <2>3 DEF DelayEnds, Move, BeforeDial
    <3>2. loop'[l].step = "check" /\ loop'[l].fresh = loop[l].fresh
      BY <1>0, <3>1 DEF Call
    <3> QED
      BY <3>1, <3>2 DEF BeforeDial
  <2>4. CASE CheckGeneration(l) \/ GoConnecting(l)
    <3>1. loop'[l].step \in {"connecting", "reset"}
      BY <1>0, <1>2, <2>4 DEF CheckGeneration, GoConnecting, Move, BeforeDial, Call
    <3> QED
      BY <3>1 DEF BeforeDial
  <2>5. CASE TryAgain(l)
    BY <1>0, <2>5, NewGeneration DEF TryAgain
  <2>6. CASE WaitConnected(l) \/ WaitTimesOut(l) \/ WaitStopped(l)
    BY <1>2, <2>6 DEF WaitConnected, WaitTimesOut, WaitStopped, BeforeDial
  <2> QED
    BY <2>1, <2>2, <2>3, <2>4, <2>5, <2>6 DEF LoopStep
<1> QED
  BY <1>1, <1>2

\* A step of a goroutine that takes the state away from a live connection is
\* followed by an attempt of its own.
LEMMA StateTaken ==
  ASSUME TypeOK, FirstConnect, Losses, Trying, Trying', ~permanent, NEW l \in Callers, LoopStep(l),
         state' # state
  PROVE  \E d \in Callers : BeforeDial(d)'
<1>0. loop \in [Callers -> Call] /\ ~stopped
  BY DEF TypeOK, Losses
<1>1. CASE DialFails(l) \/ WaitTimesOut(l)
  <2>1. CASE l = Main
    <3>1. loop[Main].step \in {"dial", "wait"} /\ result' = "error" /\ phase' = phase
      BY <1>1, <2>1 DEF DialFails, WaitTimesOut, Return, Lossy
    <3> QED
      BY <3>1 DEF FirstConnect, Trying
  <2>2. CASE l # Main
    <3>1. loop'[l].step = "again"
      BY <1>0, <1>1, <2>2 DEF DialFails, WaitTimesOut, Return, Move, Lossy, Call
    <3> QED
      BY <3>1 DEF BeforeDial
  <2> QED
    BY <2>1, <2>2
<1>2. CASE GoConnecting(l)
  <2>1. loop'[l].step = "reset"
    BY <1>0, <1>2 DEF GoConnecting, Move, Call
  <2> QED
    BY <2>1 DEF BeforeDial
<1>3. CASE TryAgain(l)
  BY <1>0, <1>3, NewGeneration DEF TryAgain
<1>4. ~ResetConnectedCh(l) /\ ~WaitConnected(l) /\ ~WaitStopped(l) /\ ~DelayEnds(l)
      /\ ~CheckGeneration(l)
  BY DEF ResetConnectedCh, WaitConnected, WaitStopped, DelayEnds, CheckGeneration
<1> QED
  BY <1>1, <1>2, <1>3, <1>4 DEF LoopStep

\* Every step keeps the chase.
LEMMA ChasedKept ==
  ASSUME ConnectionInv, [Next]_vars
  PROVE  Chased'
<1> SUFFICES ASSUME Trying', ~permanent'
             PROVE  /\ socket' = "down" => \/ pending' \cap (Transient \cup {"lost"}) # {}
                                           \/ \E c \in Callers : BeforeDial(c)'
                    /\ socket' = "live" => \/ state' = "connected" \/ pending' # {}
                                           \/ \E c \in Callers : BeforeDial(c)'
  BY DEF Chased
<1> DEFINE Goal == /\ socket' = "down" => \/ pending' \cap (Transient \cup {"lost"}) # {}
                                          \/ \E c \in Callers : BeforeDial(c)'
                   /\ socket' = "live" => \/ state' = "connected" \/ pending' # {}
                                          \/ \E c \in Callers : BeforeDial(c)'
<1>0. loop \in [Callers -> Call] /\ Main \in Callers /\ Loops \subseteq Callers
  BY DEF ConnectionInv, TypeOK, Callers
<1> USE DEF process, world
<1>1. CASE Start
  <2>1. CASE paired
    <3>1. loop'[Main].step = "reset"
      BY <1>0, <1>1, <2>1 DEF Start
    <3> QED
      BY <1>0, <3>1 DEF BeforeDial
  <2>2. CASE ~paired
    BY <1>1, <2>2 DEF Start
  <2> QED
    BY <2>1, <2>2
<1>2. ASSUME ~Start
      PROVE  Goal
  <2>1. Trying
    BY <1>2, TryingBefore DEF ConnectionInv
  <2>2. ASSUME permanent
        PROVE  FALSE
    <3>1. ASSUME NEW l \in Callers, LoopStep(l) \/ DialSucceeds(l)
          PROVE  UNCHANGED permanent
      BY <3>1, LoopMoves DEF DialSucceeds, ConnectionInv
    <3>2. ~End
      BY DEF End, Trying
    <3> QED
      BY <1>2, <2>2, <3>1, <3>2 DEF Next, Handler, HandleConnected, HandleTransient,
         HandlePermanentDisconnect, PublishPermanentDisconnect, ForceDisconnect,
         Authenticate, Library, SocketDrops, ServerRejects, KeepAliveTimeout, KeepAliveRestored,
         QR, QRSucceeds, QREnds, QRCloses, QRStops, QRCancelled, Leave, Exit,
         ConnectEstablished, Stop, Disconnect, CooldownExpires, vars
  <2>3. /\ socket = "down" => \/ pending \cap (Transient \cup {"lost"}) # {}
                              \/ \E c \in Callers : BeforeDial(c)
        /\ socket = "live" => \/ state = "connected" \/ pending # {}
                              \/ \E c \in Callers : BeforeDial(c)
    BY <2>1, <2>2 DEF ConnectionInv, Chased
  <2>4. Alive
    BY <2>1 DEF Trying, Alive
  <2>5. ASSUME UNCHANGED <<socket, state, loop>>, pending \subseteq pending'
        PROVE  Goal
    BY <2>3, <2>5 DEF BeforeDial
  <2>6. ASSUME NEW l \in Callers, LoopStep(l)
        PROVE  Goal
    <3>1. CASE \E c \in Callers : BeforeDial(c)
      BY <2>1, <2>2, <2>6, <3>1, DialsGoOn DEF ConnectionInv
    <3>2. CASE state' # state
      BY <2>1, <2>2, <2>6, <3>2, StateTaken DEF ConnectionInv
    <3>3. UNCHANGED <<socket, pending>>
      BY <2>6, LoopMoves DEF ConnectionInv
    <3> QED
      BY <2>3, <3>1, <3>2, <3>3
  <2>7. ASSUME NEW l \in Callers, DialSucceeds(l)
        PROVE  Goal
    BY <2>7 DEF DialSucceeds
  <2>8. CASE HandleConnected
    <3>1. /\ state' = "connected" /\ socket' = socket /\ pending' = pending \ {"connected"}
          /\ loop' = Connected(loop)
      BY <2>2, <2>8 DEF HandleConnected, Transition
    <3>2. \A c \in Callers : BeforeDial(c) => BeforeDial(c)'
      BY <1>0, <3>1, ConnectedMoves DEF BeforeDial
    <3>3. pending' \cap (Transient \cup {"lost"}) = pending \cap (Transient \cup {"lost"})
      BY <3>1 DEF Transient
    <3> QED
      BY <2>3, <3>1, <3>2, <3>3
  <2>9. ASSUME NEW event \in Transient, NEW l \in Loops, HandleTransient(event, l)
        PROVE  Goal
    BY <1>0, <2>2, <2>9, NewGeneration DEF HandleTransient
  <2>10. ~HandlePermanentDisconnect
    BY DEF HandlePermanentDisconnect
  <2>11. CASE PublishPermanentDisconnect
    BY <2>5, <2>11 DEF PublishPermanentDisconnect
  <2>12. CASE ForceDisconnect
    <3>1. CASE socket = "down"
      BY <2>3, <2>12, <3>1 DEF ForceDisconnect, BeforeDial, Emit
    <3>2. CASE socket # "down"
      BY <2>4, <2>12, <3>2 DEF ForceDisconnect, Emit, Transient
    <3> QED
      BY <3>1, <3>2
  <2>13. CASE Authenticate
    BY <2>4, <2>13 DEF Authenticate, Emit
  <2>14. ASSUME NEW events \in (SUBSET Transient) \ {{}}, SocketDrops(events)
         PROVE  Goal
    BY <2>4, <2>14 DEF SocketDrops, Emit
  <2>15. ASSUME NEW unpairs \in BOOLEAN, ServerRejects(unpairs)
         PROVE  Goal
    <3>1. pending \subseteq pending'
      BY <2>15 DEF ServerRejects, Emit
    <3> QED
      BY <2>5, <2>15, <3>1 DEF ServerRejects
  <2>16. CASE KeepAliveTimeout \/ KeepAliveRestored \/ QRCloses
    BY <2>5, <2>16 DEF KeepAliveTimeout, KeepAliveRestored, QRCloses
  <2>17. CASE QRSucceeds
    BY <2>17 DEF QRSucceeds
  <2>18. ~QRStops /\ ~QRCancelled /\ \A o \in {"error", "qr_timeout"} : ~QREnds(o)
    BY <2>1, <2>2 DEF QRStops, QRCancelled, QREnds, Cancelled, Lossy, Trying
  <2>19. ~Leave /\ ~Stop /\ ~Disconnect /\ ~End
    BY DEF Leave, Exit, Stop, Disconnect, End, Trying
  <2>20. CASE ConnectEstablished \/ CooldownExpires \/ UNCHANGED vars
    BY <2>5, <2>20 DEF ConnectEstablished, CooldownExpires, vars
  <2> QED
    BY <1>2, <2>6, <2>7, <2>8, <2>9, <2>10, <2>11, <2>12, <2>13, <2>14, <2>15, <2>16, <2>17,
       <2>18, <2>19, <2>20 DEF Next, Handler, Library, QR
<1> QED
  BY <1>1, <1>2

\* The invariant of the connection, for any number of goroutines.
LEMMA ConnectionHolds == Spec => []ConnectionInv
<1>1. Init => Off /\ FirstConnect /\ Losses /\ Chased
  BY DEF Init, Off, FirstConnect, Losses, Chased, Trying, Resting, Callers
<1>2. TypeOK /\ Off /\ FirstConnect /\ Losses /\ Chased /\ [Next]_vars
        => Off' /\ FirstConnect' /\ Losses' /\ Chased'
  BY FirstConnectKept, LossesKept, ChasedKept DEF ConnectionInv
<1> QED
  BY <1>1, <1>2, TypeCorrect, PTL DEF Spec, ConnectionInv

-----------------------------------------------------------------------------
(* Theorems *)

\* A running bridge that has not lost for good is connected and says so, has an
\* event of the disconnect to handle, or has an attempt that nobody superseded.
THEOREM NeverAbandoned == Spec => []AlwaysRecovering
<1>1. ConnectionInv => AlwaysRecovering
  <2> SUFFICES ASSUME ConnectionInv, phase = "running", ~permanent, socket # "open"
               PROVE  \/ socket = "live" /\ state = "connected"
                      \/ pending # {}
                      \/ WillDial
    BY DEF AlwaysRecovering
  <2>1. socket \in {"down", "live"}
    BY DEF ConnectionInv, TypeOK
  <2>2. (\E c \in Callers : BeforeDial(c)) => WillDial
    BY DEF BeforeDial, WillDial
  <2> QED
    BY <2>1, <2>2 DEF ConnectionInv, Chased, Trying
<1> QED
  BY <1>1, ConnectionHolds, PTL

\* Connect never reports an ordinary failure, or a success, once a loss has won:
\* its dial fails before anything can be lost, and every later return asks.
THEOREM LossReported == Spec => LossNotMasked
<1>1. ASSUME ConnectionInv, [Next]_vars, ~Cancelled, result = "none",
             result' \in {"ok", "error", "qr_timeout"}
      PROVE  ~permanent
  <2> USE DEF process, world
  <2>0. loop \in [Callers -> Call] /\ Main \in Callers
    BY <1>1 DEF ConnectionInv, TypeOK, Callers
  <2>1. ASSUME NEW l \in Callers, LoopStep(l)
        PROVE  ~permanent
    <3>1. l = Main
      BY <1>1, <2>1, LoopMoves DEF ConnectionInv
    <3>2. CASE DialFails(l)
      BY <1>1, <3>1, <3>2 DEF DialFails, ConnectionInv, FirstConnect
    <3>3. CASE WaitConnected(l) \/ WaitTimesOut(l) \/ WaitStopped(l) \/ ResetConnectedCh(l)
      BY <1>1, <3>1, <3>3 DEF WaitConnected, WaitTimesOut, WaitStopped, ResetConnectedCh,
         Return, Lossy
    <3>4. ~DelayEnds(l) /\ ~CheckGeneration(l) /\ ~GoConnecting(l) /\ ~TryAgain(l)
      BY <1>1, <3>1 DEF DelayEnds, CheckGeneration, GoConnecting, TryAgain, ConnectionInv, FirstConnect
    <3> QED
      BY <2>1, <3>2, <3>3, <3>4 DEF LoopStep
  <2>2. CASE QR
    BY <1>1, <2>2 DEF QR, QRSucceeds, QREnds, QRCloses, QRStops, QRCancelled, Lossy
  <2>3. ASSUME \A l \in Callers : ~LoopStep(l), ~QR
        PROVE  result' \in {result, "none"}
    BY <1>1, <2>3 DEF Next, DialSucceeds, Handler, HandleConnected, HandleTransient,
       HandlePermanentDisconnect, PublishPermanentDisconnect, ForceDisconnect,
       Authenticate, Library, SocketDrops, ServerRejects, KeepAliveTimeout, KeepAliveRestored,
       Leave, Exit, Start, ConnectEstablished, Stop, Disconnect, End, CooldownExpires, vars
  <2> QED
    BY <1>1, <2>1, <2>2, <2>3
<1>2. ConnectionInv /\ [Next]_vars
        => [~Cancelled /\ result = "none" /\ result' \in {"ok", "error", "qr_timeout"}
              => ~permanent]_vars
  BY <1>1
<1> QED
  BY <1>2, ConnectionHolds, PTL DEF Spec, LossNotMasked
=============================================================================
