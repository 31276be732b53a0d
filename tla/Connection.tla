----------------------------- MODULE Connection -----------------------------
(***************************************************************************)
(* The bridge's WhatsApp connection (bridge/connection, client/events.go)  *)
(* and the process around it (bridge/main.go): the first connection, the   *)
(* goroutines that reconnect, permanent loss, shutdown, the cooldown       *)
(* marker on disk and the restart by a supervisor.                         *)
(*                                                                         *)
(* A generation matters only by whether it is the latest, so each          *)
(* goroutine carries `fresh`.  A connected channel is seen only by the     *)
(* call that waits on it: it is "open", "closed" (by a Connected event) or *)
(* "lost" (replaced by a later attempt's channel).  Delays and timeouts    *)
(* have no length, so the retry count, which only selects a delay, is left *)
(* out.                                                                    *)
(***************************************************************************)
EXTENDS Naturals, FiniteSets

CONSTANTS
    Loops,       \* slots for reconnect goroutines (bounds how many at once)
    Main,        \* the caller of the first Connect
    MaxStrikes   \* keep-alive timeouts that force a reconnect

ASSUME ConnectionAssumption ==
    /\ Main \notin Loops
    /\ MaxStrikes \in Nat \ {0}

VARIABLES
    phase,       \* of the process, from start-up to exit
    result,      \* what the first Connect returned
    state,       \* Connection.state
    permanent,   \* Connection.permanent
    stopped,     \* stopCh is closed
    terminal,    \* the one-shot permanent event is in its channel
    losing,      \* a handler won the permanent transition, publication is next
    loop,        \* the running reconnect calls
    strikes,     \* consecutive keep-alive timeouts
    kick,        \* the goroutine that forces a disconnect is about to run
    socket,      \* the library's connection: down, open, live (logged in)
    pending,     \* library events not handled yet
    paired,      \* the device has an identity
    marker       \* an unexpired cooldown marker is on disk

process == <<phase, result, terminal, losing, strikes, kick>>
world == <<socket, pending, paired, marker>>
vars == <<phase, result, state, permanent, stopped, terminal, losing, loop,
          strikes, kick, socket, pending, paired, marker>>

Callers == Loops \union {Main}
Steps == {"idle", "delay", "check", "connecting", "reset", "dial", "wait",
          "again"}
Call == [step : Steps, fresh : BOOLEAN, chan : {"open", "closed", "lost"}]
Resting == [step |-> "idle", fresh |-> FALSE, chan |-> "lost"]
Alive == phase \in {"connecting", "qr", "running", "closing", "stopping"}
Cancelled == phase \in {"closing", "stopping", "closed"}
Transient == {"disconnected", "streamerror"}
Events == Transient \union {"connected", "lost"}

TypeOK ==
    /\ phase \in {"off", "connecting", "qr", "running", "closing", "stopping",
                  "closed"}
    /\ result \in {"none", "ok", "error", "permanent", "qr_timeout"}
    /\ state \in {"disconnected", "connecting", "qr", "connected", "permanent"}
    /\ permanent \in BOOLEAN /\ stopped \in BOOLEAN /\ terminal \in BOOLEAN
    /\ losing \in BOOLEAN /\ kick \in BOOLEAN
    /\ loop \in [Callers -> Call]
    /\ strikes \in 0..(MaxStrikes - 1)
    /\ socket \in {"down", "open", "live"}
    /\ pending \subseteq Events
    /\ paired \in BOOLEAN /\ marker \in BOOLEAN

-----------------------------------------------------------------------------
\* connection/state.go: every ordinary transition is refused after a loss.

Transition(next) == state' = IF permanent THEN state ELSE next

\* scheduleReconnect: the new goroutine l is the latest generation.
Scheduled(calls, l) ==
    [c \in Callers |->
        IF c = l THEN [step |-> "delay", fresh |-> TRUE, chan |-> "lost"]
        ELSE [calls[c] EXCEPT !.fresh = FALSE]]

Connected(calls) ==
    [c \in Callers |->
        IF calls[c].chan = "open" THEN [calls[c] EXCEPT !.chan = "closed"]
        ELSE calls[c]]

Emit(events) ==
    pending' = IF Alive THEN pending \union events ELSE pending

Move(l, step) == loop' = [loop EXCEPT ![l].step = step]
Rest(l) == loop' = [loop EXCEPT ![l] = Resting]

-----------------------------------------------------------------------------
\* reconnect(), run by the first Connect and by each goroutine.  Its outcome is
\* Connect's result, or for a goroutine the end or the step that goes on.

Return(l, outcome) ==
    IF l = Main
    THEN /\ Rest(l)
         /\ result' = outcome
    ELSE /\ IF outcome = "error" THEN Move(l, "again") ELSE Rest(l)
         /\ UNCHANGED result

Lossy(outcome) == IF permanent THEN "permanent" ELSE outcome

ResetConnectedCh(l) ==
    /\ loop[l].step = "reset"
    /\ IF permanent
       THEN Return(l, "permanent")
       ELSE /\ loop' = [c \in Callers |->
                  IF c = l THEN [loop[c] EXCEPT !.step = "dial", !.chan = "open"]
                  ELSE IF loop[c].chan = "open"
                       THEN [loop[c] EXCEPT !.chan = "lost"] ELSE loop[c]]
            /\ UNCHANGED result
    /\ UNCHANGED <<phase, state, permanent, stopped, terminal, losing, strikes,
                   kick, world>>

DialSucceeds(l) ==
    /\ loop[l].step = "dial"
    /\ socket = "down"
    /\ socket' = "open"
    /\ Move(l, "wait")
    /\ UNCHANGED <<process, state, permanent, stopped, pending, paired, marker>>

DialFails(l) ==
    /\ loop[l].step = "dial"
    /\ Transition("disconnected")
    /\ Return(l, "error")
    /\ UNCHANGED <<phase, permanent, stopped, terminal, losing, strikes, kick,
                   world>>

WaitConnected(l) ==
    /\ loop[l].step = "wait"
    /\ loop[l].chan = "closed"
    /\ Return(l, Lossy("ok"))
    /\ UNCHANGED <<phase, state, permanent, stopped, terminal, losing, strikes,
                   kick, world>>

\* Mutant: the timeout returns its error without asking about a loss.
WaitTimesOut_Masks(l) ==
    /\ loop[l].step = "wait"
    /\ Transition("disconnected")
    /\ Return(l, "error")
    /\ UNCHANGED <<phase, permanent, stopped, terminal, losing, strikes, kick,
                   world>>

WaitTimesOut(l) ==
    /\ loop[l].step = "wait"
    /\ Transition("disconnected")
    /\ Return(l, Lossy("error"))
    /\ UNCHANGED <<phase, permanent, stopped, terminal, losing, strikes, kick,
                   world>>

\* stopCh is closed, or for the first Connect its context is cancelled.
WaitStopped(l) ==
    /\ loop[l].step = "wait"
    /\ \/ stopped /\ Return(l, Lossy("error"))
       \/ Cancelled /\ l = Main /\ Return(l, "error")
    /\ UNCHANGED <<phase, state, permanent, stopped, terminal, losing, strikes,
                   kick, world>>

\* The goroutine of scheduleReconnect.
DelayEnds(l) ==
    /\ loop[l].step = "delay"
    /\ IF stopped THEN Rest(l) ELSE Move(l, "check")
    /\ UNCHANGED <<process, state, permanent, stopped, world>>

CheckGeneration(l) ==
    /\ loop[l].step = "check"
    /\ IF loop[l].fresh /\ ~permanent THEN Move(l, "connecting") ELSE Rest(l)
    /\ UNCHANGED <<process, state, permanent, stopped, world>>

GoConnecting(l) ==
    /\ loop[l].step = "connecting"
    /\ Transition("connecting")
    /\ IF permanent THEN Rest(l) ELSE Move(l, "reset")
    /\ UNCHANGED <<process, permanent, stopped, world>>

\* Mutant: a goroutine whose attempt failed ends without a successor.
TryAgain_GivesUp(l) ==
    /\ loop[l].step = "again"
    /\ Transition("disconnected")
    /\ Rest(l)
    /\ UNCHANGED <<process, permanent, stopped, world>>

TryAgain(l) ==
    /\ loop[l].step = "again"
    /\ Transition("disconnected")
    /\ IF permanent THEN Rest(l) ELSE loop' = Scheduled(loop, l)
    /\ UNCHANGED <<process, permanent, stopped, world>>

-----------------------------------------------------------------------------
\* Event handlers (client/events.go); the library runs them concurrently with
\* the goroutines.

HandleConnected ==
    /\ Alive
    /\ "connected" \in pending
    /\ pending' = pending \ {"connected"}
    /\ Transition("connected")
    /\ loop' = IF permanent THEN loop ELSE Connected(loop)
    /\ UNCHANGED <<process, permanent, stopped, socket, paired, marker>>

\* Mutant: a disconnect schedules nothing while an attempt is under way.
HandleTransient_OnceOnly(event, l) ==
    /\ Alive
    /\ event \in pending
    /\ pending' = pending \ {event}
    /\ loop[l].step = "idle"
    /\ Transition("disconnected")
    /\ loop' = IF permanent \/ \E c \in Callers : loop[c].step # "idle"
               THEN loop ELSE Scheduled(loop, l)
    /\ UNCHANGED <<process, permanent, stopped, socket, paired, marker>>

\* HandleDisconnected and HandleStreamError.
HandleTransient(event, l) ==
    /\ Alive
    /\ event \in pending
    /\ pending' = pending \ {event}
    /\ loop[l].step = "idle"
    /\ Transition("disconnected")
    /\ loop' = IF permanent THEN loop ELSE Scheduled(loop, l)
    /\ UNCHANGED <<process, permanent, stopped, socket, paired, marker>>

\* LoggedOut, ConnectFailure, TemporaryBan, ClientOutdated, StreamReplaced.
\* The winner of the transition then closes stopCh and publishes.
HandlePermanentDisconnect ==
    /\ Alive
    /\ "lost" \in pending
    /\ pending' = pending \ {"lost"}
    /\ permanent' = TRUE
    /\ state' = "permanent"
    /\ losing' = (losing \/ ~permanent)
    /\ UNCHANGED <<phase, result, stopped, terminal, loop, strikes, kick,
                   socket, paired, marker>>

\* Mutant: the loss stops the reconnects but is not published.
PublishPermanentDisconnect_Silent ==
    /\ losing
    /\ losing' = FALSE
    /\ stopped' = TRUE
    /\ UNCHANGED <<phase, result, terminal, state, permanent, loop, strikes,
                   kick, world>>

PublishPermanentDisconnect ==
    /\ losing
    /\ losing' = FALSE
    /\ stopped' = TRUE
    /\ terminal' = TRUE
    /\ UNCHANGED <<phase, result, state, permanent, loop, strikes, kick, world>>

\* Mutant: the count is not reset when the disconnect is forced.
KeepAliveTimeout_NoReset ==
    /\ Alive /\ socket = "live"
    /\ strikes' = strikes + 1
    /\ kick' = (kick \/ strikes + 1 = MaxStrikes)
    /\ UNCHANGED <<phase, result, state, permanent, stopped, terminal, losing,
                   loop, world>>

KeepAliveTimeout ==
    /\ Alive /\ socket = "live"
    /\ strikes' = (strikes + 1) % MaxStrikes
    /\ kick' = (kick \/ strikes + 1 = MaxStrikes)
    /\ UNCHANGED <<phase, result, state, permanent, stopped, terminal, losing,
                   loop, world>>

KeepAliveRestored ==
    /\ Alive /\ socket = "live"
    /\ strikes' = 0
    /\ UNCHANGED <<phase, result, state, permanent, stopped, terminal, losing,
                   loop, kick, world>>

\* The goroutine KeepAliveTimeout starts; events.go counts on the Disconnected
\* event that follows.
ForceDisconnect ==
    /\ kick
    /\ kick' = FALSE
    /\ socket' = "down"
    /\ Emit(IF socket = "down" THEN {} ELSE {"disconnected"})
    /\ UNCHANGED <<phase, result, state, permanent, stopped, terminal, losing,
                   loop, strikes, paired, marker>>

-----------------------------------------------------------------------------
\* The library and the server (external).

Authenticate ==
    /\ socket = "open" /\ paired
    /\ socket' = "live"
    /\ Emit({"connected"})
    /\ UNCHANGED <<process, state, permanent, stopped, loop, paired, marker>>

SocketDrops(events) ==
    /\ socket # "down"
    /\ socket' = "down"
    /\ Emit(events)
    /\ UNCHANGED <<process, state, permanent, stopped, loop, paired, marker>>

\* A refusal for good; a logout also removes the pairing.
ServerRejects(unpairs) ==
    /\ socket # "down"
    /\ Emit({"lost"})
    /\ paired' = (paired /\ ~unpairs)
    /\ UNCHANGED <<process, state, permanent, stopped, loop, socket, marker>>

-----------------------------------------------------------------------------
\* bridge/main.go and Client.Disconnect.

\* An unpaired managed process holds, as does one that finds a marker.
Start ==
    /\ phase = "off" /\ ~marker
    /\ phase' = IF paired THEN "connecting" ELSE "qr"
    /\ state' = IF paired THEN "connecting" ELSE "qr"
    /\ loop' = IF paired
               THEN [loop EXCEPT ![Main] = [Resting EXCEPT !.step = "reset",
                                                           !.fresh = TRUE]]
               ELSE loop
    /\ socket' = IF paired THEN "down" ELSE "open"
    /\ UNCHANGED <<result, permanent, stopped, terminal, losing, strikes, kick,
                   pending, paired, marker>>

\* qrConnect.  The channel may also close with nothing said: then Connect
\* returns success without a connection.
QRSucceeds ==
    /\ phase = "qr" /\ result = "none" /\ socket = "open"
    /\ Transition("connected")
    /\ result' = Lossy("ok")
    /\ loop' = IF permanent THEN loop ELSE Connected(loop)
    /\ paired' = TRUE
    /\ UNCHANGED <<phase, permanent, stopped, terminal, losing, strikes, kick,
                   socket, pending, marker>>

QREnds(outcome) ==
    /\ phase = "qr" /\ result = "none"
    /\ Transition("disconnected")
    /\ result' = Lossy(outcome)
    /\ UNCHANGED <<phase, permanent, stopped, terminal, losing, loop, strikes,
                   kick, world>>

QRCloses ==
    /\ phase = "qr" /\ result = "none"
    /\ result' = IF permanent \/ terminal THEN "permanent" ELSE "ok"
    /\ terminal' = (terminal /\ permanent)
    /\ UNCHANGED <<phase, state, permanent, stopped, losing, loop, strikes,
                   kick, world>>

QRStops ==
    /\ phase = "qr" /\ result = "none" /\ stopped
    /\ Transition("disconnected")
    /\ result' = Lossy("error")
    /\ UNCHANGED <<phase, permanent, stopped, terminal, losing, loop, strikes,
                   kick, world>>

\* The exit cancelled its context.
QRCancelled ==
    /\ Cancelled /\ result = "none" /\ loop[Main].step = "idle"
    /\ Transition("disconnected")
    /\ result' = "error"
    /\ socket' = "down"
    /\ Emit(IF socket = "down" THEN {} ELSE {"disconnected"})
    /\ UNCHANGED <<phase, permanent, stopped, terminal, losing, loop, strikes,
                   kick, paired, marker>>

ConnectEstablished ==
    /\ phase \in {"connecting", "qr"} /\ result = "ok"
    /\ phase' = "running"
    /\ marker' = FALSE
    /\ UNCHANGED <<result, state, permanent, stopped, terminal, losing, loop,
                   strikes, kick, socket, pending, paired>>

\* finalizeBridgeExit: only a QR timeout or a loss leaves a marker.
Exit(cause) ==
    /\ phase \in {"connecting", "qr", "running"}
    /\ CASE cause = "connect"   -> phase # "running" /\ result = "error"
         [] cause = "qr"        -> phase # "running" /\ result = "qr_timeout"
         [] cause = "loss"      -> IF phase = "running" THEN terminal
                                                        ELSE result = "permanent"
         [] cause = "interrupt" -> TRUE   \* a signal, or the HTTP server failed
    /\ phase' = "closing"
    /\ marker' = (marker \/ cause \in {"qr", "loss"})
    /\ terminal' = (terminal /\ ~(cause = "loss" /\ phase = "running"))
    /\ UNCHANGED <<result, state, permanent, stopped, losing, loop, strikes,
                   kick, socket, pending, paired>>

Stop ==
    /\ phase = "closing"
    /\ phase' = "stopping"
    /\ stopped' = TRUE
    /\ UNCHANGED <<result, state, permanent, terminal, losing, loop, strikes,
                   kick, world>>

\* wa.Disconnect, then the handler is removed once no callback is running.
Disconnect ==
    /\ phase = "stopping" /\ ~losing
    /\ phase' = "closed"
    /\ socket' = "down"
    /\ pending' = {}
    /\ UNCHANGED <<result, state, permanent, stopped, terminal, losing, loop,
                   strikes, kick, paired, marker>>

\* The process ends, after its clean-up or by a crash in any step.
End ==
    /\ phase # "off"
    /\ phase' = "off" /\ result' = "none" /\ state' = "disconnected"
    /\ permanent' = FALSE /\ stopped' = FALSE /\ terminal' = FALSE
    /\ losing' = FALSE /\ strikes' = 0 /\ kick' = FALSE
    /\ loop' = [c \in Callers |-> Resting]
    /\ socket' = "down" /\ pending' = {}
    /\ UNCHANGED <<paired, marker>>

CooldownExpires ==
    /\ marker
    /\ marker' = FALSE
    /\ UNCHANGED <<process, state, permanent, stopped, loop, socket, pending,
                   paired>>

-----------------------------------------------------------------------------
Init ==
    /\ phase = "off" /\ result = "none" /\ state = "disconnected"
    /\ permanent = FALSE /\ stopped = FALSE /\ terminal = FALSE
    /\ losing = FALSE /\ strikes = 0 /\ kick = FALSE
    /\ loop = [c \in Callers |-> Resting]
    /\ socket = "down" /\ pending = {}
    /\ paired \in BOOLEAN /\ marker = FALSE

LoopStep(l) ==
    \/ DelayEnds(l) \/ CheckGeneration(l) \/ GoConnecting(l) \/ TryAgain(l)
    \/ ResetConnectedCh(l) \/ DialFails(l)
    \/ WaitConnected(l) \/ WaitTimesOut(l) \/ WaitStopped(l)

Handler ==
    \/ HandleConnected
    \/ \E event \in Transient, l \in Loops : HandleTransient(event, l)
    \/ HandlePermanentDisconnect \/ PublishPermanentDisconnect
    \/ ForceDisconnect

Library ==
    \/ \E events \in (SUBSET Transient) \ {{}} : SocketDrops(events)
    \/ \E unpairs \in BOOLEAN : ServerRejects(unpairs)
    \/ KeepAliveTimeout \/ KeepAliveRestored

QR ==
    \/ QRSucceeds \/ QRCloses \/ QRStops \/ QRCancelled
    \/ \E outcome \in {"error", "qr_timeout"} : QREnds(outcome)

Leave == \E cause \in {"connect", "qr", "loss", "interrupt"} : Exit(cause)

Next ==
    \/ \E l \in Callers : LoopStep(l) \/ DialSucceeds(l)
    \/ Handler \/ Authenticate \/ Library \/ QR \/ Leave
    \/ Start \/ ConnectEstablished \/ Stop \/ Disconnect \/ End
    \/ CooldownExpires

Spec == Init /\ [][Next]_vars

\* The scheduler runs every goroutine, the handler and main; the network lets
\* an attempt through if attempts never stop.
FairSpec ==
    /\ Spec
    /\ \A l \in Callers : WF_vars(LoopStep(l) \/ DialSucceeds(l))
    /\ WF_vars(HandleConnected) /\ WF_vars(HandlePermanentDisconnect)
    /\ \A event \in Transient :
           WF_vars(\E l \in Loops : HandleTransient(event, l))
    /\ WF_vars(PublishPermanentDisconnect) /\ WF_vars(ForceDisconnect)
    /\ WF_vars(QRStops \/ ConnectEstablished)
    /\ WF_vars(\E cause \in {"connect", "qr", "loss"} : Exit(cause))
    /\ SF_vars(\E l \in Callers : DialSucceeds(l))
    /\ SF_vars(Authenticate)

-----------------------------------------------------------------------------
(* While the bridge runs and the loss is not final, it is connected and says *)
(* so, or an event that reports the disconnect is on its way, or a goroutine *)
(* that nobody has superseded is going to dial.  The generation check drops  *)
(* goroutines; it must never drop the last one.  A socket that is open but   *)
(* not logged in is still deciding, as after a QR channel closed in silence. *)
WillDial ==
    \E l \in Callers :
        \/ loop[l].step \in {"connecting", "reset", "dial", "wait", "again"}
        \/ loop[l].step \in {"delay", "check"} /\ loop[l].fresh

AlwaysRecovering ==
    phase = "running" /\ ~permanent /\ socket # "open" =>
        \/ socket = "live" /\ state = "connected"
        \/ pending # {}
        \/ WillDial

(* Connect never reports an ordinary failure once a permanent loss has won:  *)
(* the process would exit 1, leave no marker, and be restarted at once into  *)
(* an account that was banned or logged out.                                 *)
LossNotMasked ==
    [][~Cancelled /\ result = "none" /\ result' \in {"ok", "error", "qr_timeout"}
        => ~permanent]_vars

(* A bridge that lost its socket gets it back, is told the loss is final, or *)
(* ends, as long as the network lets some attempt through.                   *)
Reconnects ==
    phase = "running" /\ socket = "down" /\ paired /\ state # "qr"
        ~> socket = "live" \/ permanent \/ phase # "running" \/ ~paired

(* A permanent loss ends the process, whatever Connect and the reconnect     *)
(* goroutines were doing when it came.                                       *)
LossEndsProcess == permanent ~> phase \notin {"connecting", "qr", "running"}

(* manager.go:39-41 says the generation counter guards against stale         *)
(* reconnect loops: an attempt that was superseded and still waits for its   *)
(* Connected event does not take the state away from a connected bridge.     *)
StaleLoopIsInert ==
    [][\A l \in Loops :
        ( /\ socket = "live" /\ state = "connected" /\ phase' = "running"
          /\ loop[l].step = "wait" /\ ~loop[l].fresh /\ loop'[l] # loop[l] )
        => state' = "connected"]_vars
=============================================================================
