---------------------------- MODULE ProxySession ----------------------------
(***************************************************************************)
(* Runner.Run and runHop of internal/proxy/proxy.go: a listener accepts    *)
(* the client of a session, the client's login dials the upstream server,  *)
(* two loops forward packets, and a Transfer from the server makes the     *)
(* client reconnect to the listener for the next hop.                      *)
(*                                                                         *)
(* The goroutines are: Run itself; the listener with one handler for each  *)
(* physical connection, which runs the FetchResourcePacks callback inside  *)
(* the login; the Accept helper; the two forward loops of the hop; and the *)
(* context.AfterFunc callbacks.  They share the current and the pending    *)
(* hop, the context of the connection that is entering the listener, and a *)
(* channel of one disconnect notification.                                 *)
(*                                                                         *)
(* A Minecraft connection is open, or closed for a cause; its transport    *)
(* may end later (gone), as RakNet waits for the peer's acknowledgement.   *)
(***************************************************************************)
EXTENDS Naturals, Sequences, FiniteSets

CONSTANTS
    NumConns,         \* bound: physical client connections in a behaviour
    Scopes,           \* bound: configurations, each with the strangers that may connect
                      \* and whether the caller may cancel the run
    maxFollowedHops,  \* 64 in the code
    Breaks            \* whether the recorder may fail

Conns  == 1..NumConns
NoConn == 0
Hops   == 1..(maxFollowedHops + 1)
NoHop  == 0
Loops  == {"c2s", "s2c"}
Sides  == {"client", "server"}

ASSUME SessionAssumption ==
    /\ NumConns \in Nat /\ Breaks \in BOOLEAN
    /\ Scopes \subseteq [strangers : SUBSET Conns, follow : BOOLEAN, cancels : BOOLEAN]
    /\ maxFollowedHops \in Nat \ {0}

\* Why a connection is closed: context.Canceled, or net.ErrClosed or a DisconnectError.
\* All three are expected at shutdown; only the first is asked for by name.
Causes == {"canceled", "closed"}

\* What a forward loop returns to runHop.
LoopErrors == Causes \cup {"rewrite", "capture", "transfer"}

VARIABLES
    scope,        \* the configuration of this run
    \* Run
    run,          \* where Run is
    result,       \* what it returned
    state,        \* the hop it works for
    client,       \* the accepted connection
    current, pending,       \* the hops getAcceptState chooses from
    acceptedResult,         \* the channel of the Accept helper
    runDone,      \* runCtx is done
    listening,    \* the listener is open
    broken,       \* the recorder has failed
    failure,      \* FailureSink.err is set
    \* the physical connections
    phase,        \* how far each has come in the listener
    cause,        \* "open", or why the Minecraft connection is closed
    gone,         \* its transport context is done
    flow,         \* the hop its packets are attributed to, from transport-open on
    fetched,      \* the hop whose slot its login used
    ahead,        \* the connections that were waiting for Accept before it
    \* downstreamContext and downstreamDisconnect
    ctx, generation, gen, notified, downstreamDisconnect,
    \* the hopState records
    downstreamConn, slot, linked, transferReady, upstream,
    \* runHop
    game,         \* the two goroutines of startGame
    loop, first, shuttingDown,
    \* history
    delivered,    \* hops whose Transfer reached the client
    bridgeErrors, \* expected shutdown errors recorded, by hop
    closes        \* session.close events, by hop

runVars  == <<run, result, state, client, current, pending, acceptedResult>>
ctlVars  == <<runDone, listening, broken, failure>>
connVars == <<phase, cause, gone, flow, fetched, ahead>>
ctxVars  == <<ctx, generation, gen, notified, downstreamDisconnect>>
hopVars  == <<downstreamConn, slot, linked, transferReady, upstream>>
loopVars == <<game, loop, first, shuttingDown>>
histVars == <<delivered, bridgeErrors, closes>>
vars == <<scope, runVars, ctlVars, connVars, ctxVars, hopVars, loopVars, histVars>>

Strangers == scope.strangers  \* the connections that are not the session's own client
FollowTransfers == scope.follow  \* Config.FollowTransfers

RunPlaces ==
    {"drain", "accept", "acceptJoin", "cancelJoin", "spawn", "start", "bridge", "second",
     "prepare", "grace", "slot", "returned"}
InHop == {"spawn", "start", "bridge", "second"}

Phases == {"none", "opened", "login", "fetch", "offered", "ready", "taken", "left"}

Slots == {"new", "waiting", "dialing", "ok", "cancelled", "failed"}

Init ==
    /\ scope \in Scopes
    /\ run = "drain" /\ result = "none" /\ state = 1 /\ client = NoConn
    /\ current = 1 /\ pending = NoHop /\ acceptedResult = "idle"
    /\ runDone = FALSE /\ listening = TRUE /\ broken = FALSE /\ failure = FALSE
    /\ phase = [c \in Conns |-> "none"] /\ cause = [c \in Conns |-> "open"]
    /\ gone = [c \in Conns |-> FALSE]
    /\ flow = [c \in Conns |-> NoHop] /\ fetched = [c \in Conns |-> NoHop]
    /\ ahead = [c \in Conns |-> {}]
    /\ ctx = NoConn /\ generation = 0 /\ gen = [c \in Conns |-> 0]
    /\ notified = [c \in Conns |-> FALSE] /\ downstreamDisconnect = << >>
    /\ downstreamConn = [h \in Hops |-> NoConn] /\ slot = [h \in Hops |-> "new"]
    /\ linked = [h \in Hops |-> NoConn] /\ transferReady = {1}
    /\ upstream = [h \in Hops |-> "none"]
    /\ game = [s \in Sides |-> "off"]
    /\ loop = [l \in Loops |-> "off"] /\ first = << >>
    /\ shuttingDown = FALSE
    /\ delivered = {} /\ bridgeErrors = [h \in Hops |-> 0] /\ closes = [h \in Hops |-> 0]

-----------------------------------------------------------------------------
(* Shared helpers.                                                         *)

\* Faulty variant: the pending hop is not looked at.
getCurrentState == current

getAcceptState == IF pending # NoHop THEN pending ELSE current

Open(c) == cause[c] = "open"

\* Close() of client connections, which keeps an earlier cause.
Closing(cs, old) == [c \in Conns |-> IF c \in cs /\ old[c] = "open" THEN "closed" ELSE old[c]]

CloseUpstream(h) == [upstream EXCEPT ![h] = IF @ = "open" THEN "closed" ELSE @]

(***************************************************************************)
(* The listener's player count: admitted connections whose handler has not *)
(* returned.                                                               *)
(***************************************************************************)
Players == {c \in Conns : phase[c] \notin {"none", "opened", "left"}}

(***************************************************************************)
(* Run's deferred calls: the run context is cancelled, the listener closed.*)
(***************************************************************************)
Return(r) ==
    /\ run' = "returned" /\ result' = r
    /\ runDone' = TRUE /\ listening' = FALSE
    /\ UNCHANGED <<broken, failure>>

-----------------------------------------------------------------------------
(* The clients.                                                            *)

(***************************************************************************)
(* The session's own client opens a first connection, and another when it  *)
(* has received a Transfer or lost the one it had.  A stranger may open    *)
(* one at any time.                                                        *)
(***************************************************************************)
MayOpen(c) ==
    \/ c \in Strangers
    \/ \A b \in Conns \ Strangers :
         b < c => phase[b] # "none" /\ (~Open(b) \/ flow[b] \in delivered)

(***************************************************************************)
(* Network.wrap on the listener's side: the flow gets the identity of the  *)
(* hop that accepts now, and ConnectionContextFunc takes the connection's  *)
(* transport context.                                                      *)
(***************************************************************************)
OpenTransport(c) ==
    /\ phase[c] = "none" /\ listening /\ MayOpen(c)
    /\ \A b \in Conns : phase[b] # "opened"
    /\ phase' = [phase EXCEPT ![c] = "opened"]
    /\ flow' = [flow EXCEPT ![c] = getAcceptState]
    /\ ctx' = c /\ generation' = generation + 1
    /\ gen' = [gen EXCEPT ![c] = generation + 1]
    /\ UNCHANGED <<runVars, ctlVars, cause, gone, fetched, ahead, notified,
                   downstreamDisconnect, hopVars, loopVars, histVars>>

(***************************************************************************)
(* transport.connection_open cannot be recorded: the failure is set, the   *)
(* transport is closed before anyone has seen it, and the error of its     *)
(* Accept ends the listener.                                               *)
(***************************************************************************)
OpenTransportFails ==
    /\ broken /\ listening
    /\ \E c \in Conns : phase[c] = "none" /\ MayOpen(c)
    /\ \A b \in Conns : phase[b] # "opened"
    /\ failure' = TRUE /\ listening' = FALSE
    /\ UNCHANGED <<runVars, runDone, broken, connVars, ctxVars, hopVars, loopVars, histVars>>

\* Faulty variant: any number of players.
AdmitUnlimited(c) ==
    /\ phase[c] = "opened"
    /\ phase' = [phase EXCEPT ![c] = "login"]
    /\ downstreamConn' = [downstreamConn EXCEPT ![getAcceptState] = c]
    /\ UNCHANGED <<runVars, ctlVars, cause, gone, flow, fetched, ahead, ctxVars, slot, linked,
                   transferReady, upstream, loopVars, histVars>>

(***************************************************************************)
(* createConn: a full server refuses the connection; without transfers the *)
(* listener has one place, with them any number.                           *)
(***************************************************************************)
Admit(c) ==
    /\ phase[c] = "opened"
    /\ IF ~FollowTransfers /\ Players # {}
       THEN /\ phase' = [phase EXCEPT ![c] = "left"]
            /\ cause' = Closing({c}, cause)
            /\ UNCHANGED downstreamConn
       ELSE /\ phase' = [phase EXCEPT ![c] = "login"]
            /\ downstreamConn' = [downstreamConn EXCEPT ![getAcceptState] = c]
            /\ UNCHANGED cause
    /\ UNCHANGED <<runVars, ctlVars, gone, flow, fetched, ahead, ctxVars, slot, linked,
                   transferReady, upstream, loopVars, histVars>>

(***************************************************************************)
(* The client leaves: its transport ends, which cancels the Minecraft      *)
(* connection, or that is closed first and its transport ends later.       *)
(***************************************************************************)
ClientLeaves(c) ==
    /\ phase[c] \notin {"none", "left"} /\ Open(c)
    /\ \E why \in Causes :
         /\ cause' = [cause EXCEPT ![c] = why]
         /\ gone' = [gone EXCEPT ![c] = (why = "canceled")]
    /\ UNCHANGED <<runVars, ctlVars, phase, flow, fetched, ahead, ctxVars, hopVars, loopVars,
                   histVars>>

\* The transport of a closed connection, or of a closed listener, ends.
TransportEnds(c) ==
    /\ phase[c] # "none" /\ ~gone[c] /\ (~Open(c) \/ ~listening)
    /\ gone' = [gone EXCEPT ![c] = TRUE]
    /\ cause' = IF Open(c) THEN [cause EXCEPT ![c] = "canceled"] ELSE cause
    /\ UNCHANGED <<runVars, ctlVars, phase, flow, fetched, ahead, ctxVars, hopVars, loopVars,
                   histVars>>

\* Faulty variant: notifications queue up.
NotifyQueued(c) ==
    /\ gone[c] /\ ~notified[c]
    /\ notified' = [notified EXCEPT ![c] = TRUE]
    /\ downstreamDisconnect' = Append(downstreamDisconnect, gen[c])
    /\ UNCHANGED <<runVars, ctlVars, connVars, ctx, generation, gen, hopVars, loopVars, histVars>>

(***************************************************************************)
(* The AfterFunc of ConnectionContextFunc: a send that gives up when the   *)
(* channel is full.                                                        *)
(***************************************************************************)
Notify(c) ==
    /\ gone[c] /\ ~notified[c]
    /\ notified' = [notified EXCEPT ![c] = TRUE]
    /\ downstreamDisconnect' = IF downstreamDisconnect = << >> THEN <<gen[c]>> ELSE downstreamDisconnect
    /\ UNCHANGED <<runVars, ctlVars, connVars, ctx, generation, gen, hopVars, loopVars, histVars>>

\* The handler of a closed connection returns, unless a callback or Accept holds it.
HandlerReturns(c) ==
    /\ \/ phase[c] \in {"login", "offered", "taken"} /\ ~Open(c)
       \/ phase[c] = "ready" /\ ~listening
    /\ phase' = [phase EXCEPT ![c] = "left"]
    /\ cause' = Closing({c}, cause)
    /\ UNCHANGED <<runVars, ctlVars, gone, flow, fetched, ahead, ctxVars, hopVars, loopVars,
                   histVars>>

-----------------------------------------------------------------------------
(* The login callback FetchResourcePacks and its once-only dial.           *)

\* Faulty variant: the work belongs to the run alone.
lifecycleNone(h) == NoConn

(***************************************************************************)
(* connectionLifecycleContext: the tracked context, or else the context of *)
(* the connection the hop knows.                                           *)
(***************************************************************************)
lifecycleConn(h) == IF ctx # NoConn THEN ctx ELSE downstreamConn[h]

(***************************************************************************)
(* The callback is entered; the first one of a hop runs the slot's dial.   *)
(***************************************************************************)
Fetch(c) ==
    /\ phase[c] = "login" /\ Open(c)
    /\ LET h == getAcceptState IN
         /\ fetched' = [fetched EXCEPT ![c] = h]
         /\ IF slot[h] = "new"
            THEN /\ linked' = [linked EXCEPT ![h] = lifecycleConn(h)]
                 /\ slot' = [slot EXCEPT ![h] = "waiting"]
            ELSE UNCHANGED <<linked, slot>>
    /\ phase' = [phase EXCEPT ![c] = "fetch"]
    /\ UNCHANGED <<runVars, ctlVars, cause, gone, flow, ahead, ctxVars, downstreamConn,
                   transferReady, upstream, loopVars, histVars>>

\* linkedConnectionContext: the run or the linked connection has ended.
connectDone(h) == runDone \/ (linked[h] # NoConn /\ gone[linked[h]])

slotRest == <<runVars, ctlVars, connVars, ctxVars, downstreamConn, linked, transferReady,
              loopVars, histVars>>

\* Faulty variant: the dial does not wait for transferReady.
DialStartEarly(h) ==
    /\ slot[h] = "waiting"
    /\ slot' = [slot EXCEPT ![h] = "dialing"]
    /\ UNCHANGED <<slotRest, upstream>>

(***************************************************************************)
(* The dial of a followed hop starts when Run has closed transferReady.    *)
(***************************************************************************)
DialStart(h) ==
    /\ slot[h] = "waiting" /\ h \in transferReady
    /\ slot' = [slot EXCEPT ![h] = "dialing"]
    /\ UNCHANGED <<slotRest, upstream>>

DialCancelled(h) ==
    /\ slot[h] \in {"waiting", "dialing"} /\ connectDone(h)
    /\ slot' = [slot EXCEPT ![h] = "cancelled"]
    /\ UNCHANGED <<slotRest, upstream>>

(***************************************************************************)
(* connectUpstream returns: a connection with its packs recorded, or an    *)
(* error, with which the run ends once the login is over (refused, timed   *)
(* out, or the capture failed).  A connection that a dial leaves behind    *)
(* when its time is up is no longer the run's; see PackExchange.           *)
(***************************************************************************)
DialReturns(h) ==
    /\ slot[h] = "dialing"
    /\ \/ /\ ~broken
          /\ slot' = [slot EXCEPT ![h] = "ok"]
          /\ upstream' = [upstream EXCEPT ![h] = "open"]
       \/ /\ slot' = [slot EXCEPT ![h] = "failed"]
          /\ UNCHANGED upstream
    /\ UNCHANGED slotRest

\* The callback returns the packs, or none after an error, and the login goes on.
FetchReturns(c) ==
    /\ phase[c] = "fetch" /\ slot[fetched[c]] \in {"ok", "cancelled", "failed"}
    /\ phase' = [phase EXCEPT ![c] = "offered"]
    /\ UNCHANGED <<runVars, ctlVars, cause, gone, flow, fetched, ahead, ctxVars, hopVars,
                   loopVars, histVars>>

\* The login is complete: the handler waits to hand the connection to Accept.
LoginDone(c) ==
    /\ phase[c] = "offered" /\ Open(c)
    /\ phase' = [phase EXCEPT ![c] = "ready"]
    /\ ahead' = [ahead EXCEPT ![c] = {b \in Conns : phase[b] = "ready"}]
    /\ UNCHANGED <<runVars, ctlVars, cause, gone, flow, fetched, ctxVars, hopVars, loopVars,
                   histVars>>

\* The upstream server ends a connection.
ServerLeaves(h) ==
    /\ upstream[h] = "open"
    /\ \E why \in Causes : upstream' = [upstream EXCEPT ![h] = why]
    /\ UNCHANGED <<slotRest, slot>>

-----------------------------------------------------------------------------
(* Failures and cancellation.                                              *)

RecorderBreaks ==
    /\ Breaks /\ ~broken
    /\ broken' = TRUE
    /\ UNCHANGED <<runVars, runDone, listening, failure, connVars, ctxVars, hopVars, loopVars,
                   histVars>>

(***************************************************************************)
(* FailureSink.Set, from any observer whose Record fails; the first error  *)
(* cancels the run in a step of its own.                                   *)
(***************************************************************************)
FailureSet ==
    /\ broken /\ ~failure
    /\ failure' = TRUE
    /\ UNCHANGED <<runVars, runDone, listening, broken, connVars, ctxVars, hopVars, loopVars,
                   histVars>>

\* onFailure, or the caller's context.
CancelRun ==
    /\ ~runDone /\ (failure \/ scope.cancels)
    /\ runDone' = TRUE
    /\ UNCHANGED <<runVars, listening, broken, failure, connVars, ctxVars, hopVars, loopVars,
                   histVars>>

\* stopAccept's AfterFunc.
StopAccept ==
    /\ runDone /\ listening
    /\ listening' = FALSE
    /\ UNCHANGED <<runVars, runDone, broken, failure, connVars, ctxVars, hopVars, loopVars,
                   histVars>>

(***************************************************************************)
(* stopConnections' AfterFunc, during a hop: the flag, then both closes.   *)
(***************************************************************************)
StopConnections ==
    /\ run \in InHop /\ runDone /\ (Open(client) \/ upstream[state] = "open" \/ ~shuttingDown)
    /\ shuttingDown' = TRUE
    /\ cause' = Closing({client}, cause)
    /\ upstream' = CloseUpstream(state)
    /\ UNCHANGED <<runVars, ctlVars, phase, gone, flow, fetched, ahead, ctxVars, downstreamConn,
                   slot, linked, transferReady, game, loop, first, histVars>>

-----------------------------------------------------------------------------
(* Run: waiting for a client.                                              *)

Clear == ctx' = NoConn /\ generation' = generation + 1

(***************************************************************************)
(* The draining loop: an old notification is discarded, one of the tracked *)
(* connection ends the run.                                                *)
(***************************************************************************)
Drain ==
    /\ run = "drain" /\ downstreamDisconnect # << >>
    /\ downstreamDisconnect' = << >>
    /\ IF Head(downstreamDisconnect) = generation /\ ctx # NoConn /\ gone[ctx]
       THEN Clear /\ Return("nil")
       ELSE UNCHANGED <<ctx, generation, run, result, ctlVars>>
    /\ UNCHANGED <<state, client, current, pending, acceptedResult, connVars, gen, notified,
                   hopVars, loopVars, histVars>>

(***************************************************************************)
(* The channel is empty: the tracked context is looked at itself, then the *)
(* Accept helper is started for the hop that accepts now.                  *)
(***************************************************************************)
Drained ==
    /\ run = "drain" /\ downstreamDisconnect = << >>
    /\ IF ctx # NoConn /\ gone[ctx]
       THEN Clear /\ Return("nil") /\ UNCHANGED <<state, acceptedResult>>
       ELSE /\ run' = "accept" /\ state' = getAcceptState /\ acceptedResult' = "waiting"
            /\ UNCHANGED <<ctx, generation, result, ctlVars>>
    /\ UNCHANGED <<client, current, pending, connVars, gen, notified, downstreamDisconnect,
                   hopVars, loopVars, histVars>>

\* The handlers block on one unbuffered channel; the Go runtime serves its senders in the
\* order in which they came.
FirstWaiting(c) == phase[c] = "ready" /\ \A b \in ahead[c] : phase[b] # "ready"

\* listener.Accept in the helper: a finished login, or an error once closed.
AcceptHelper ==
    /\ acceptedResult = "waiting"
    /\ \/ \E c \in Conns :
            /\ FirstWaiting(c)
            /\ phase' = [phase EXCEPT ![c] = "taken"] /\ client' = c
            /\ acceptedResult' = "conn"
       \/ ~listening /\ acceptedResult' = "error" /\ UNCHANGED <<phase, client>>
    /\ UNCHANGED <<run, result, state, current, pending, ctlVars, cause, gone, flow, fetched,
                   ahead, ctxVars, hopVars, loopVars, histVars>>

(***************************************************************************)
(* A notification while Run waits: an old one is ignored; for the tracked  *)
(* connection, and for a cancelled run, the listener is closed and the     *)
(* helper awaited.                                                         *)
(***************************************************************************)
WaitNotified ==
    /\ run = "accept" /\ downstreamDisconnect # << >>
    /\ downstreamDisconnect' = << >>
    /\ IF Head(downstreamDisconnect) # generation \/ ctx = NoConn
       THEN UNCHANGED <<run, listening>>
       ELSE run' = "acceptJoin" /\ listening' = FALSE
    /\ UNCHANGED <<result, state, client, current, pending, acceptedResult, runDone, broken,
                   failure, connVars, ctx, generation, gen, notified, hopVars, loopVars,
                   histVars>>

WaitCancelled ==
    /\ run = "accept" /\ runDone
    /\ run' = "cancelJoin" /\ listening' = FALSE
    /\ UNCHANGED <<result, state, client, current, pending, acceptedResult, runDone, broken,
                   failure, connVars, ctxVars, hopVars, loopVars, histVars>>

AcceptJoin ==
    /\ run \in {"acceptJoin", "cancelJoin"} /\ acceptedResult \in {"conn", "error"}
    /\ cause' = IF acceptedResult = "conn" THEN Closing({client}, cause) ELSE cause
    /\ IF run = "acceptJoin" THEN Clear ELSE UNCHANGED <<ctx, generation>>
    /\ Return("nil")
    /\ UNCHANGED <<state, client, current, pending, acceptedResult, phase, gone, flow, fetched,
                   ahead, gen, notified, downstreamDisconnect, hopVars, loopVars, histVars>>

AcceptFailed ==
    /\ run = "accept" /\ acceptedResult = "error"
    /\ Return(IF ~failure /\ runDone THEN "nil" ELSE "error")
    /\ UNCHANGED <<state, client, current, pending, acceptedResult, connVars, ctxVars, hopVars,
                   loopVars, histVars>>

(***************************************************************************)
(* A client is accepted.  Its login ran the hop's dial: without an         *)
(* upstream connection the client is sent away and the run is over.        *)
(***************************************************************************)
Accepted ==
    /\ run = "accept" /\ acceptedResult = "conn"
    /\ downstreamConn' = [downstreamConn EXCEPT ![state] = client]
    /\ Clear /\ acceptedResult' = "idle"
    /\ IF slot[state] = "ok"
       THEN /\ run' = "spawn"
            /\ shuttingDown' = FALSE
            /\ UNCHANGED <<result, ctlVars, cause>>
       ELSE /\ Return("error")
            /\ cause' = Closing({client}, cause)
            /\ UNCHANGED shuttingDown
    /\ UNCHANGED <<state, client, current, pending, phase, gone, flow, fetched, ahead, gen,
                   notified, downstreamDisconnect, slot, linked, transferReady, upstream, game,
                   loop, first, histVars>>

-----------------------------------------------------------------------------
(* runHop: spawning.                                                       *)

\* runHop returns an error: its deferred calls close both connections, and Run returns.
HopFails ==
    /\ Return("error")
    /\ cause' = Closing({client}, cause)
    /\ upstream' = CloseUpstream(state)

hopRest == <<state, client, current, pending, acceptedResult, phase, gone, flow, fetched, ahead,
             ctxVars, downstreamConn, slot, linked, transferReady>>

(***************************************************************************)
(* DoSpawnContext, bounded by a minute and by the client's context, and    *)
(* the records of the negotiated session.                                  *)
(***************************************************************************)
Spawn ==
    /\ run = "spawn"
    /\ \/ /\ upstream[state] = "open" /\ ~broken
          /\ run' = "start" /\ game' = [s \in Sides |-> "run"]
          /\ UNCHANGED <<result, ctlVars, cause, upstream>>
       \/ HopFails /\ UNCHANGED game
    /\ UNCHANGED <<hopRest, loop, first, shuttingDown, histVars>>

SideOpen(s) == IF s = "client" THEN Open(client) ELSE upstream[state] = "open"

\* One of startGame's goroutines, bounded by a minute each.
GameEnds(s) ==
    /\ run = "start" /\ game[s] = "run"
    /\ \E r \in {"ok", "err"} :
         /\ r = "ok" => SideOpen(s)
         /\ game' = [game EXCEPT ![s] = r]
    /\ UNCHANGED <<runVars, ctlVars, connVars, ctxVars, hopVars, loop, first, shuttingDown,
                   histVars>>

\* startGame's first result is an error: both connections are closed.
StartFirst ==
    /\ run = "start" /\ \E s \in Sides : game[s] = "err"
    /\ \E s \in Sides : game[s] = "run" /\ SideOpen(s)
    /\ cause' = Closing({client}, cause) /\ upstream' = CloseUpstream(state)
    /\ UNCHANGED <<run, result, ctlVars, hopRest, loopVars, histVars>>

\* Both results are in: the forward loops start, or runHop returns the error.
StartJoin ==
    /\ run = "start" /\ \A s \in Sides : game[s] # "run"
    /\ game' = [s \in Sides |-> "off"]
    /\ IF ~broken /\ \A s \in Sides : game[s] = "ok"
       THEN /\ run' = "bridge" /\ loop' = [l \in Loops |-> "read"] /\ first' = << >>
            /\ UNCHANGED <<result, ctlVars, cause, upstream>>
       ELSE HopFails /\ UNCHANGED <<loop, first>>
    /\ UNCHANGED <<hopRest, shuttingDown, histVars>>

-----------------------------------------------------------------------------
(* The forward loops.                                                      *)

SourceCause(l) == IF l = "c2s" THEN cause[client] ELSE upstream[state]
DestCause(l)   == IF l = "c2s" THEN upstream[state] ELSE cause[client]

loopRest == <<runVars, ctlVars, connVars, ctxVars, downstreamConn, slot, linked, transferReady,
              upstream, game>>

MoveLoop(l, place) == loop' = [loop EXCEPT ![l] = place]

\* forward returns err, and the goroutine sends it to Run.
LoopReturns(l, err) ==
    /\ MoveLoop(l, "done")
    /\ first' = Append(first, err)

\* Faulty variant: the flag is only read, and Run sets it later.
finishForwardLate(l, isWrite, err) ==
    /\ LoopReturns(l, err)
    /\ bridgeErrors' =
         IF err \in Causes /\ ~shuttingDown /\ ~isWrite /\ ~broken
         THEN [bridgeErrors EXCEPT ![state] = @ + 1] ELSE bridgeErrors
    /\ UNCHANGED shuttingDown

(***************************************************************************)
(* finishForwardAtHop: the first loop to end claims shuttingDown; an       *)
(* expected shutdown error is recorded only by that loop, and only if it   *)
(* met it while reading.                                                   *)
(***************************************************************************)
finishForwardAtHop(l, isWrite, err) ==
    /\ LoopReturns(l, err)
    /\ shuttingDown' = TRUE
    /\ bridgeErrors' =
         IF err \in Causes /\ ~shuttingDown /\ ~isWrite /\ ~broken
         THEN [bridgeErrors EXCEPT ![state] = @ + 1] ELSE bridgeErrors

\* An ordinary packet is read and recorded.
LoopRead(l) ==
    /\ loop[l] = "read" /\ SourceCause(l) = "open" /\ ~broken
    /\ MoveLoop(l, "write")
    /\ UNCHANGED <<loopRest, first, shuttingDown, histVars>>

(***************************************************************************)
(* A Transfer is read, perhaps from the queue of a closed connection, its  *)
(* rewrite is recorded, and onTransfer publishes the next hop before the   *)
(* packet is written.                                                      *)
(***************************************************************************)
LoopTransfer ==
    /\ FollowTransfers /\ loop["s2c"] = "read" /\ ~broken
    /\ MoveLoop("s2c", "xwrite")
    /\ pending' = state + 1
    /\ UNCHANGED <<run, result, state, client, current, acceptedResult, ctlVars, connVars,
                   ctxVars, hopVars, game, first, shuttingDown, histVars>>

\* A Transfer whose address cannot be rewritten ends the loop.
LoopRewriteError ==
    /\ FollowTransfers /\ loop["s2c"] = "read" /\ ~broken
    /\ finishForwardAtHop("s2c", FALSE, "rewrite")
    /\ UNCHANGED <<loopRest, delivered, closes>>

\* The source is closed; the read returns the cause.
LoopReadError(l) ==
    /\ loop[l] = "read" /\ SourceCause(l) # "open"
    /\ finishForwardAtHop(l, FALSE, SourceCause(l))
    /\ UNCHANGED <<loopRest, delivered, closes>>

\* Recorder.Err, FailureSink.Err or a failed Record ends the loop.
LoopCapture(l) ==
    /\ loop[l] \in {"read", "write", "sent"} /\ broken
    /\ LoopReturns(l, "capture")
    /\ UNCHANGED <<loopRest, shuttingDown, histVars>>

LoopWrite(l) ==
    /\ loop[l] = "write"
    /\ IF DestCause(l) = "open"
       THEN MoveLoop(l, "read") /\ UNCHANGED <<first, shuttingDown, bridgeErrors>>
       ELSE finishForwardAtHop(l, TRUE, DestCause(l))
    /\ UNCHANGED <<loopRest, delivered, closes>>

(***************************************************************************)
(* The rewritten Transfer is written and flushed; the client has it before *)
(* the loop returns.                                                       *)
(***************************************************************************)
LoopWriteTransfer ==
    /\ loop["s2c"] = "xwrite"
    /\ IF Open(client)
       THEN /\ MoveLoop("s2c", "sent") /\ delivered' = delivered \cup {state}
            /\ UNCHANGED <<first, shuttingDown, bridgeErrors>>
       ELSE finishForwardAtHop("s2c", TRUE, cause[client]) /\ UNCHANGED delivered
    /\ UNCHANGED <<loopRest, closes>>

LoopReturnsTransfer ==
    /\ loop["s2c"] = "sent" /\ ~broken
    /\ LoopReturns("s2c", "transfer")
    /\ UNCHANGED <<loopRest, shuttingDown, histVars>>

-----------------------------------------------------------------------------
(* runHop: the end of a hop.                                               *)

\* Faulty variant: only the loop that ended first is asked for a transfer.
transferFirstOnly(e1, e2) == e1 = "transfer"

transferFromLoops(e1, e2) == e1 = "transfer" \/ (e1 = "canceled" /\ e2 = "transfer")

\* Faulty variant: the upstream connection is left to the deferred close.
HopFirstClientOnly ==
    /\ run = "bridge" /\ Len(first) >= 1
    /\ run' = "second" /\ shuttingDown' = TRUE
    /\ cause' = Closing({client}, cause)
    /\ UNCHANGED <<result, ctlVars, hopRest, upstream, game, loop, first, histVars>>

(***************************************************************************)
(* The first loop has ended.  After a transfer the upstream connection is  *)
(* released at once and the client is left to leave by itself; otherwise   *)
(* both are closed.                                                        *)
(***************************************************************************)
HopFirst ==
    /\ run = "bridge" /\ Len(first) >= 1
    /\ run' = "second" /\ shuttingDown' = TRUE
    /\ upstream' = CloseUpstream(state)
    /\ IF FollowTransfers /\ transferFromLoops(first[1], "none")
       THEN UNCHANGED cause
       ELSE cause' = Closing({client}, cause)
    /\ UNCHANGED <<result, ctlVars, hopRest, game, loop, first, histVars>>

(***************************************************************************)
(* The second loop has ended: session.close is recorded, and runHop        *)
(* returns the transfer, nil or the capture's error.                       *)
(***************************************************************************)
HopSecond ==
    /\ run = "second" /\ Len(first) = 2
    /\ loop' = [l \in Loops |-> "off"] /\ shuttingDown' = FALSE /\ first' = << >>
    /\ IF broken
       THEN HopFails /\ UNCHANGED closes
       ELSE /\ closes' = [closes EXCEPT ![state] = @ + 1]
            /\ upstream' = CloseUpstream(state)
            /\ IF FollowTransfers /\ transferFromLoops(first[1], first[2])
               THEN run' = "prepare" /\ UNCHANGED <<result, ctlVars, cause>>
               ELSE Return("nil") /\ cause' = Closing({client}, cause)
    /\ UNCHANGED <<hopRest, game, delivered, bridgeErrors>>

-----------------------------------------------------------------------------
(* Run: following a transfer.                                              *)

followRest == <<state, client, current, acceptedResult, phase, gone, flow, fetched, ahead,
                ctxVars, downstreamConn, slot, linked, upstream, loopVars, histVars>>

(***************************************************************************)
(* The hop limit; prepareTransferHop, whose probes are bounded in time;    *)
(* then transferReady is closed.  The route may be the HTTPS one, whose    *)
(* failed record ends Run, or the RakNet one, whose failures are only      *)
(* reported.                                                               *)
(***************************************************************************)
Prepare ==
    /\ run = "prepare"
    /\ \/ /\ state >= maxFollowedHops \/ broken
          /\ Return("error") /\ UNCHANGED transferReady
       \/ /\ state < maxFollowedHops
          /\ run' = "grace" /\ transferReady' = transferReady \cup {state + 1}
          /\ UNCHANGED <<result, ctlVars>>
    /\ UNCHANGED <<followRest, cause, pending>>

\* Faulty variant: the next hop is used for the dial but never made current.
GraceEndsUnpromoted ==
    /\ run = "grace"
    /\ run' = "slot" /\ pending' = NoHop
    /\ cause' = Closing({client}, cause)
    /\ UNCHANGED <<result, state, client, current, acceptedResult, ctlVars, phase, gone, flow,
                   fetched, ahead, ctxVars, hopVars, loopVars, histVars>>

(***************************************************************************)
(* The client has left, or the grace period is over: promotePendingState,  *)
(* and the old connection is closed.                                       *)
(***************************************************************************)
GraceEnds ==
    /\ run = "grace"
    /\ run' = "slot" /\ current' = pending /\ pending' = NoHop
    /\ cause' = Closing({client}, cause)
    /\ UNCHANGED <<result, state, client, acceptedResult, ctlVars, phase, gone, flow, fetched,
                   ahead, ctxVars, hopVars, loopVars, histVars>>

\* The run is cancelled in the grace period or while waiting for the slot.
FollowCancelled ==
    /\ run \in {"grace", "slot"} /\ runDone
    /\ Return("nil")
    /\ cause' = IF run = "grace" THEN Closing({client}, cause) ELSE cause
    /\ UNCHANGED <<followRest, pending, transferReady>>

(***************************************************************************)
(* The listener's player count is zero, or a second grace period is over:  *)
(* Run waits for the next client.                                          *)
(***************************************************************************)
SlotFree ==
    /\ run = "slot"
    /\ run' = "drain"
    /\ UNCHANGED <<result, ctlVars, followRest, cause, pending, transferReady>>

-----------------------------------------------------------------------------
(* Specification.                                                          *)

LoopStep(l) == LoopRead(l) \/ LoopReadError(l) \/ LoopCapture(l) \/ LoopWrite(l)

TransferStep == LoopTransfer \/ LoopRewriteError \/ LoopWriteTransfer \/ LoopReturnsTransfer

RunStep ==
    \/ Drain \/ Drained \/ WaitNotified \/ WaitCancelled \/ AcceptJoin \/ AcceptFailed \/ Accepted
    \/ Spawn \/ StartFirst \/ StartJoin \/ HopFirst \/ HopSecond
    \/ Prepare \/ GraceEnds \/ FollowCancelled \/ SlotFree

Environment ==
    \/ RecorderBreaks \/ OpenTransportFails \/ FailureSet \/ CancelRun
    \/ \E c \in Conns : OpenTransport(c) \/ ClientLeaves(c)
    \/ \E h \in Hops : ServerLeaves(h)

ListenerStep(c) ==
    Admit(c) \/ TransportEnds(c) \/ Notify(c) \/ HandlerReturns(c) \/ Fetch(c) \/ FetchReturns(c)
    \/ LoginDone(c)

DialStep(h) == DialStart(h) \/ DialCancelled(h) \/ DialReturns(h)

\* A behaviour is followed until Run returns.
Next ==
  /\ run # "returned" /\ UNCHANGED scope
  /\ \/ Environment \/ RunStep \/ AcceptHelper \/ StopAccept \/ StopConnections
     \/ \E c \in Conns : ListenerStep(c)
     \/ \E h \in Hops : DialStep(h)
     \/ \E s \in Sides : GameEnds(s)
     \/ \E l \in Loops : LoopStep(l)
     \/ TransferStep

Spec == Init /\ [][Next]_vars

InScope(A) == A /\ UNCHANGED scope

(***************************************************************************)
(* Every goroutine that can go on does, timers fire (the grace periods, a  *)
(* minute for each part of the spawn, the dial deadline), a failure        *)
(* cancels the run, and the transport of a closed connection ends.         *)
(* Nothing is assumed of clients, of servers or of the traffic.            *)
(***************************************************************************)
Fairness ==
    /\ WF_vars(InScope(RunStep)) /\ WF_vars(InScope(AcceptHelper))
    /\ WF_vars(InScope(StopAccept)) /\ WF_vars(InScope(StopConnections))
    /\ WF_vars(InScope(failure /\ CancelRun))
    /\ \A c \in Conns :
         /\ WF_vars(InScope(Admit(c))) /\ WF_vars(InScope(TransportEnds(c)))
         /\ WF_vars(InScope(Notify(c)))
         /\ WF_vars(InScope(HandlerReturns(c))) /\ WF_vars(InScope(FetchReturns(c)))
    /\ \A h \in Hops : WF_vars(InScope(DialStep(h)))
    /\ \A s \in Sides : WF_vars(InScope(GameEnds(s)))
    /\ \A l \in Loops : WF_vars(InScope(LoopReadError(l))) /\ WF_vars(InScope(LoopWrite(l)))
    /\ WF_vars(InScope(LoopWriteTransfer))
    /\ WF_vars(InScope(LoopReturnsTransfer \/ (loop["s2c"] = "sent" /\ LoopCapture("s2c"))))

FairSpec == Spec /\ Fairness

RunTypeOK ==
    /\ scope \in Scopes
    /\ run \in RunPlaces /\ result \in {"none", "nil", "error"}
    /\ state \in Hops /\ client \in Conns \cup {NoConn}
    /\ current \in Hops /\ pending \in Hops \cup {NoHop}
    /\ acceptedResult \in {"idle", "waiting", "conn", "error"}

CtlTypeOK ==
    runDone \in BOOLEAN /\ listening \in BOOLEAN /\ broken \in BOOLEAN /\ failure \in BOOLEAN

ConnTypeOK ==
    /\ phase \in [Conns -> Phases] /\ cause \in [Conns -> Causes \cup {"open"}]
    /\ gone \in [Conns -> BOOLEAN] /\ ahead \in [Conns -> SUBSET Conns]
    /\ flow \in [Conns -> Hops \cup {NoHop}] /\ fetched \in [Conns -> Hops \cup {NoHop}]

CtxTypeOK ==
    /\ ctx \in Conns \cup {NoConn} /\ generation \in Nat /\ gen \in [Conns -> Nat]
    /\ notified \in [Conns -> BOOLEAN]
    /\ downstreamDisconnect \in Seq(Nat) /\ Len(downstreamDisconnect) <= 1

HopTypeOK ==
    /\ downstreamConn \in [Hops -> Conns \cup {NoConn}] /\ linked \in [Hops -> Conns \cup {NoConn}]
    /\ slot \in [Hops -> Slots] /\ transferReady \subseteq Hops
    /\ upstream \in [Hops -> Causes \cup {"open", "none"}]

LoopTypeOK ==
    /\ game \in [Sides -> {"off", "run", "ok", "err"}]
    /\ loop \in [Loops -> {"off", "read", "write", "xwrite", "sent", "done"}]
    /\ first \in Seq(LoopErrors) /\ shuttingDown \in BOOLEAN

HistTypeOK ==
    delivered \subseteq Hops /\ bridgeErrors \in [Hops -> Nat] /\ closes \in [Hops -> Nat]

\* The type invariant; the disconnect channel holds at most one notification.
TypeOK ==
    /\ RunTypeOK /\ CtlTypeOK /\ ConnTypeOK /\ CtxTypeOK /\ HopTypeOK /\ LoopTypeOK /\ HistTypeOK

-----------------------------------------------------------------------------
(* Safety.                                                                 *)

(***************************************************************************)
(* The dial of a followed hop reuses the UDP source address of the hop     *)
(* before it, so it must not begin while that hop's connection is open,    *)
(* however early the client reconnects (transferReady in                   *)
(* FetchResourcePacks, CloseImmediately in runHop).                        *)
(***************************************************************************)
DialAfterRelease ==
    \A h \in Hops \ {1} : slot[h] \in {"dialing", "ok"} => upstream[h - 1] # "open"

(***************************************************************************)
(* The connection that Run bridges as hop n was attributed to n when its   *)
(* transport opened and logged in with the slot of n, although the three   *)
(* read the mutable accept state at three different times (Network.wrap,   *)
(* FetchResourcePacks, the accept loop).  A stranger that connects while   *)
(* transfers are followed may be of any hop: the listener tells no client  *)
(* from another.                                                           *)
(***************************************************************************)
IdentityMatches ==
    run \in InHop /\ (FollowTransfers => Strangers = {}) =>
        flow[client] = state /\ fetched[client] = state

(***************************************************************************)
(* However the two loops race to see the end of a connection, at most one  *)
(* bridge error of an expected shutdown is recorded for a hop (the claim   *)
(* of shuttingDown in finishForwardAtHop).                                 *)
(***************************************************************************)
BridgeErrorOnce == \A h \in Hops : bridgeErrors[h] <= 1

(***************************************************************************)
(* The resource-pack work and the dial of a hop are cancelled with a       *)
(* connection that logs in for that hop (connectionLifecycleContext), as   *)
(* long as only the session's own client connects.                         *)
(***************************************************************************)
PackWorkTied ==
    Strangers = {} => \A h \in Hops : slot[h] \in {"waiting", "dialing"} =>
        linked[h] # NoConn /\ fetched[linked[h]] = h

(***************************************************************************)
(* Without transfer following, no second connection gets past the listener *)
(* while Run serves one that is open: MaximumPlayers 1 against handlers    *)
(* that return late.                                                       *)
(***************************************************************************)
SoleClient ==
    ~FollowTransfers /\ run \in InHop /\ Open(client) => Players = {client}

(***************************************************************************)
(* A Transfer that reached the client of a hop is followed when the client *)
(* leaves because of it, in whichever order the loops end                  *)
(* (transferFromLoops in runHop).                                          *)
(***************************************************************************)
TransferFollowed ==
    [][run = "second" /\ run' = "returned" /\ state \in delivered =>
         broken \/ first[1] \notin {"canceled", "transfer"}]_vars

(***************************************************************************)
(* Run implements the chain of hops.                                       *)
(***************************************************************************)
modeOfRun ==
    CASE run \in InHop -> "active"
      [] run \in {"prepare", "grace"} -> "between"
      [] run = "returned" -> "over"
      [] OTHER -> "waiting"

Hop == INSTANCE SessionHops WITH MaxHops <- maxFollowedHops, hop <- current, mode <- modeOfRun,
                                 closed <- closes

ImplementsHops == Hop!HopsSpec

-----------------------------------------------------------------------------
(* Liveness, under FairSpec.                                               *)

\* A cancelled run returns from wherever it is: from Accept, from a dial
\* inside a login, from the join of the loops, from a grace period.
RunEnds == runDone ~> run = "returned"

\* When the client of a hop is gone, both loops end and Run goes on: to
\* the next hop or to its end.
HopJoins == (run \in InHop /\ ~Open(client)) ~> run \notin InHop

(***************************************************************************)
(* A session does not hang: a cancelled run ends, and so does a hop whose  *)
(* client is gone (Run, runHop, forward).                                  *)
(***************************************************************************)
SessionProgress == RunEnds /\ HopJoins

(***************************************************************************)
(* After a Transfer a client that does nothing more cannot hold the        *)
(* session: runHop ends and the grace period begins.                       *)
(***************************************************************************)
StalledClientReleased == (run = "second") ~> (run # "second")

-----------------------------------------------------------------------------
(* The inductive invariant behind the theorems of ProxySessionProofs.      *)

Bridging == {"bridge", "second"}
Between  == {"prepare", "grace"}

\* Which hops Run knows at each of its places.
HopInv ==
    /\ state <= maxFollowedHops /\ current <= maxFollowedHops
    /\ run \notin {"drain", "slot", "returned"} => state = current
    /\ run \notin Bridging \cup Between \cup {"returned"} => pending = NoHop
    /\ pending # NoHop => FollowTransfers /\ pending = state + 1
    /\ run \in Between => pending # NoHop
    /\ run = "grace" => state < maxFollowedHops

\* The accepted connection is past the listener; one that left is closed.
AcceptInv ==
    /\ run \notin {"accept", "acceptJoin", "cancelJoin", "returned"} => acceptedResult = "idle"
    /\ acceptedResult = "conn" \/ run \in InHop \cup Between =>
         client \in Conns /\ phase[client] \in {"taken", "left"}
    /\ \A c \in Conns : phase[c] = "left" => ~Open(c)
    /\ ~FollowTransfers => \A b, c \in Players : b = c

\* How many forward loops have returned, and whether one returned a transfer.
Ended(l) == IF loop[l] = "done" THEN 1 ELSE 0
TransferEnded == \E i \in DOMAIN first : first[i] = "transfer"

LoopInv ==
    /\ \A l \in Loops : loop[l] = "off" <=> run \notin Bridging
    /\ Len(first) = Ended("c2s") + Ended("s2c")
    /\ loop["c2s"] \notin {"xwrite", "sent"}
    /\ loop["s2c"] \in {"xwrite", "sent"} => pending # NoHop
    /\ loop["s2c"] = "sent" \/ TransferEnded => state \in delivered
    /\ run \in Bridging /\ state \in delivered =>
         /\ pending # NoHop
         /\ loop["s2c"] = "sent" \/ (loop["s2c"] = "done" /\ (broken \/ TransferEnded))
    /\ run # "start" => game["client"] # "ok"

\* Nothing is recorded of a hop before it is bridged, and one error with the claim.
RecordInv ==
    /\ \A h \in Hops : h > current => bridgeErrors[h] = 0 /\ h \notin delivered
    /\ run \notin Bridging \cup Between \cup {"returned"} =>
         bridgeErrors[current] = 0 /\ current \notin delivered
    /\ run \in Bridging /\ ~shuttingDown => bridgeErrors[state] = 0
    /\ run \in Between => state \in delivered
    /\ BridgeErrorOnce

\* A hop is made ready when the one before it has had its connection and released it.
DialInv ==
    /\ \A h \in Hops : slot[h] = "ok" => upstream[h] # "none"
    /\ \A h \in Hops : slot[h] \in {"dialing", "ok"} => h \in transferReady
    /\ \A h \in transferReady \ {1} : slot[h - 1] = "ok" /\ upstream[h - 1] # "open"
    /\ run \in InHop \cup Between => slot[state] = "ok"
    /\ run \in Between => upstream[state] # "open"

IndInv == TypeOK /\ HopInv /\ AcceptInv /\ LoopInv /\ RecordInv /\ DialInv

(***************************************************************************)
(* The identity of a hop's client, when only the session's own client      *)
(* connects.  A connection that is open and not yet accepted is the last   *)
(* one; it belongs to the hop that accepts now unless the hop that is      *)
(* served has lost its client, after which Run can only return.            *)
(***************************************************************************)
Entering == {"opened", "login", "fetch", "offered", "ready"}

Lost == run \in InHop /\ ~Open(client) /\ state \notin delivered

\* The client opens its connections one after the other, and the handlers wait in that order.
OrderInv ==
    \A b, c \in Conns : b < c /\ phase[c] # "none" =>
        /\ phase[b] # "none"
        /\ ~Open(b) \/ flow[b] \in delivered
        /\ phase[b] = "ready" /\ phase[c] = "ready" => b \in ahead[c]

LoginInv ==
    \A c \in Conns :
        /\ phase[c] \in Entering /\ Open(c) =>
             flow[c] \notin delivered /\ (flow[c] = getAcceptState \/ Lost)
        /\ phase[c] = "ready" \/ (phase[c] \in {"fetch", "offered"} /\ Open(c)) =>
             fetched[c] = flow[c] \/ Lost
        /\ phase[c] \in {"none", "opened", "login"} => fetched[c] = NoHop
        /\ phase[c] \in {"opened", "login"} /\ Open(c) =>
             ctx = c \/ (run \in {"spawn", "start"} /\ ~Open(client) /\ game["client"] # "ok")

ClientInv ==
    /\ run \notin InHop \cup Between => \A c \in Conns :
         phase[c] = "ready" \/ (acceptedResult = "conn" /\ c = client) =>
             flow[c] = current /\ fetched[c] = current
    /\ run \in InHop \cup Between =>
         /\ flow[client] = state /\ fetched[client] = state
         /\ \A c \in Conns : client < c /\ phase[c] # "none" =>
              \/ ~Open(client) /\ state \notin delivered
              \/ flow[c] = state + 1 /\ state \in delivered
    /\ acceptedResult = "conn" \/ run \in InHop \cup Between =>
         \A b \in Conns : b < client => phase[b] # "ready"

OwnInv == Strangers = {} =>
    PackWorkTied /\ (run # "returned" => OrderInv /\ LoginInv /\ ClientInv)

\* Without transfers there is one hop, and every connection is of it.
SingleInv == ~FollowTransfers =>
    /\ current = 1 /\ state = 1
    /\ \A c \in Conns : phase[c] # "none" => flow[c] = 1
    /\ \A c \in Conns : phase[c] \in {"fetch", "offered", "ready"} => fetched[c] = 1
    /\ acceptedResult = "conn" \/ run \in InHop => fetched[client] = 1
=============================================================================
