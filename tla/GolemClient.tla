---------------------------- MODULE GolemClient -----------------------------
(***************************************************************************)
(* golem network: the client of internal/golemnet with its two goroutines, *)
(* readLoop and inputLoop, driven by the scenario loop of runGolemNetwork  *)
(* in the main goroutine.  A connection is named by its hop.               *)
(*                                                                         *)
(* Three goroutines may end the session.  finish runs once; who calls it   *)
(* while it runs waits for it.                                             *)
(***************************************************************************)
EXTENDS Integers, Sequences

CONSTANTS
    MaxHops,      \* Config.MaxHops
    Buffer,       \* maxEventBuffer
    Buttons       \* bound: how many buttons a form can have

ASSUME GolemAssumption ==
    MaxHops \in Nat \ {0} /\ Buffer \in Nat \ {0} /\ Buttons \subseteq Nat

Hops == 1..MaxHops
Goroutines == {"main", "reader", "input"}

(***************************************************************************)
(* A form remembers the hop it came from.  Events that are neither packets *)
(* nor forms are "notice".                                                 *)
(***************************************************************************)
Forms == [hop : Hops, buttons : Buttons]
NoForm == [hop |-> 0, buttons |-> 0]
Raw == -1  \* the response of submit_form, which is no index
NoAnswer == [form |-> NoForm, index |-> Raw]

VARIABLES
    conns,      \* per hop: "none", "open", "broken" by the server, "closed" by us
    conn,       \* Client.conn and Client.hop; 0 is nil
    cancelled,  \* Client.ctx is done
    inputMu,    \* who holds it: "none", "reader", "input"
    paused,     \* Client.inputPaused
    events,     \* Client.events: "form" or "notice"
    form,       \* Client.currentForm
    hops,       \* Client.hops
    transfers,  \* per hop, its Transfer: "none", "seen", "followed", "failed"
    terminal,   \* Client.terminalErr: what failed, or "none"
    once,       \* Client.closeOnce: "free", "taken", "done"
    fin,        \* per goroutine: "no", or where it is in finish
    closed, readerStarted, done,
    rpc, ipc, mpc,
    chosen,     \* SelectForm and SubmitForm's locals
    failed,     \* the command's status is not 0
    closeErr,   \* the cause for finishCapture: Close timed out, or the start failed
    evidence,   \* golemCapture.firstError is not nil
    capture,    \* the manifest: "open", "closed", "failed", or "drainFailed" (see FinishCapture)
    session     \* the cli_session check: "none", "pass", "not_observed"

netVars    == <<conns, conn, inputMu, paused>>
stateVars  == <<events, form, hops, transfers>>
endVars    == <<cancelled, terminal, once, fin, closed, done>>
mainLocals == <<readerStarted, chosen, failed, closeErr, capture, session>>
vars == <<netVars, stateVars, endVars, mainLocals, rpc, ipc, mpc, evidence>>

Init ==
    /\ conns = [h \in Hops |-> "none"] /\ conn = 0 /\ inputMu = "none" /\ paused = FALSE
    /\ events = << >> /\ form = NoForm /\ hops = 0
    /\ transfers = [h \in Hops |-> "none"]
    /\ cancelled = FALSE /\ terminal = "none" /\ once = "free" /\ fin = [g \in Goroutines |-> "no"]
    /\ closed = FALSE /\ done = FALSE /\ readerStarted = FALSE
    /\ rpc = "absent" /\ ipc = "absent" /\ mpc = "dial"
    /\ chosen = NoAnswer
    /\ failed = FALSE /\ closeErr = FALSE /\ evidence = FALSE /\ capture = "open" /\ session = "none"

Running(g) == mpc # "exited" /\ fin[g] = "no"

-----------------------------------------------------------------------------
(* fail and finish.                                                        *)

CallFinish(g) == fin' = [fin EXCEPT ![g] = "want"] /\ UNCHANGED <<cancelled, terminal, once, closed, done>>

fail(g, why) ==
    /\ terminal' = IF terminal = "none" THEN why ELSE terminal
    /\ fin' = [fin EXCEPT ![g] = "want"]
    /\ UNCHANGED <<cancelled, once, closed, done>>

closeIt(h) == IF h # 0 /\ conns[h] = "open" THEN [conns EXCEPT ![h] = "closed"] ELSE conns

\* Faulty variant: closed is looked at in place of a sync.Once.
FinishBeginOpen(g) ==
    /\ mpc # "exited" /\ fin[g] = "want" /\ ~closed
    /\ once' = "taken" /\ cancelled' = TRUE /\ fin' = [fin EXCEPT ![g] = "close"]
    /\ UNCHANGED <<netVars, stateVars, mainLocals, rpc, ipc, mpc, evidence, terminal, closed, done>>

\* The one that enters cancels the context, then closes the connection.
FinishBegin(g) ==
    /\ mpc # "exited" /\ fin[g] = "want" /\ once = "free"
    /\ once' = "taken" /\ cancelled' = TRUE /\ fin' = [fin EXCEPT ![g] = "close"]
    /\ UNCHANGED <<netVars, stateVars, mainLocals, rpc, ipc, mpc, evidence, terminal, closed, done>>

FinishClose(g) ==
    /\ mpc # "exited" /\ fin[g] = "close"
    /\ conns' = closeIt(conn) /\ fin' = [fin EXCEPT ![g] = "mark"]
    /\ UNCHANGED <<conn, inputMu, paused, stateVars, mainLocals, rpc, ipc, mpc, evidence>>
    /\ UNCHANGED <<cancelled, terminal, once, closed, done>>

FinishMark(g) ==
    /\ mpc # "exited" /\ fin[g] = "mark"
    /\ closed' = TRUE /\ done' = (done \/ ~readerStarted)
    /\ once' = "done" /\ fin' = [fin EXCEPT ![g] = "no"]
    /\ UNCHANGED <<netVars, stateVars, mainLocals, rpc, ipc, mpc, evidence, cancelled, terminal>>

\* closeOnce.Do of the others, after the first has returned.
FinishSkip(g) ==
    /\ mpc # "exited" /\ fin[g] = "want" /\ once = "done"
    /\ fin' = [fin EXCEPT ![g] = "no"]
    /\ UNCHANGED <<netVars, stateVars, mainLocals, rpc, ipc, mpc, evidence>>
    /\ UNCHANGED <<cancelled, terminal, once, closed, done>>

Finish(g) == FinishBegin(g) \/ FinishClose(g) \/ FinishMark(g) \/ FinishSkip(g)

\* The server ends a connection, or the network does.
Break(h) ==
    /\ mpc # "exited" /\ conns[h] = "open"
    /\ conns' = [conns EXCEPT ![h] = "broken"]
    /\ UNCHANGED <<conn, inputMu, paused, stateVars, endVars, mainLocals, rpc, ipc, mpc, evidence>>

\* An interrupt cancels the context without finish.
Interrupt ==
    /\ mpc # "exited" /\ ~cancelled /\ cancelled' = TRUE
    /\ UNCHANGED <<netVars, stateVars, mainLocals, rpc, ipc, mpc, evidence>>
    /\ UNCHANGED <<terminal, once, fin, closed, done>>

(***************************************************************************)
(* golemCapture.onPacket: a packet cannot be decoded or recorded.  The     *)
(* error stays and finishCapture is the first to look at it, so only one   *)
(* that comes after that needs a step of its own.                          *)
(***************************************************************************)
onPacketFails ==
    /\ mpc = "report" /\ ~evidence /\ \E h \in Hops : conns[h] = "open"
    /\ evidence' = TRUE
    /\ UNCHANGED <<netVars, stateVars, endVars, mainLocals, rpc, ipc, mpc>>

-----------------------------------------------------------------------------
(* readLoop.                                                               *)

ReaderAt(place) == rpc = place /\ Running("reader")
ReaderRest == UNCHANGED <<mainLocals, ipc, mpc, evidence>>

ReadFails ==
    /\ ReaderAt("read") /\ conns[conn] # "open"
    /\ IF cancelled THEN CallFinish("reader") ELSE fail("reader", "read")
    /\ rpc' = "exit"
    /\ UNCHANGED <<netVars, stateVars>> /\ ReaderRest

(***************************************************************************)
(* A packet that is an event; a connection that has ended may still hand   *)
(* out what it had read.  record fails when nobody has taken the events.   *)
(***************************************************************************)
record(kind, place) ==
    \/ Len(events) < Buffer /\ events' = Append(events, kind) /\ rpc' = place /\ UNCHANGED endVars
    \/ Len(events) = Buffer /\ fail("reader", "overflow") /\ rpc' = "exit" /\ UNCHANGED events

ReadForm ==
    /\ ReaderAt("read")
    /\ \E f \in Forms : f.hop = conn /\ form' = f
    /\ record("form", "read")
    /\ UNCHANGED <<netVars, hops, transfers>> /\ ReaderRest

ReadNotice ==
    /\ ReaderAt("read") /\ record("notice", "read")
    /\ UNCHANGED <<netVars, form, hops, transfers>> /\ ReaderRest

ReadTransfer ==
    /\ ReaderAt("read") /\ transfers' = [transfers EXCEPT ![conn] = "seen"]
    /\ record("notice", "follow")
    /\ UNCHANGED <<netVars, form, hops>> /\ ReaderRest

\* Faulty variant: a transfer that fails lets the input loop go on.
FollowFailsUnpaused(left) ==
    /\ transfers' = [transfers EXCEPT ![conn] = "failed"]
    /\ conns' = left /\ inputMu' = "none" /\ paused' = FALSE
    /\ rpc' = "followFailed"
    /\ UNCHANGED <<conn, events, form, hops, endVars>> /\ ReaderRest

\* followTransfer's error returns, with the connections they leave.
FollowFails(left) ==
    /\ transfers' = [transfers EXCEPT ![conn] = "failed"]
    /\ conns' = left /\ inputMu' = "none" /\ UNCHANGED paused
    /\ rpc' = "followFailed"
    /\ UNCHANGED <<conn, events, form, hops, endVars>> /\ ReaderRest

FollowBegin ==
    /\ ReaderAt("follow") /\ inputMu = "none"
    /\ inputMu' = "reader" /\ paused' = TRUE /\ rpc' = "validate"
    /\ UNCHANGED <<conns, conn, stateVars, endVars>> /\ ReaderRest

\* The hop limit is reached or the target is no address.
FollowRefused == ReaderAt("validate") /\ FollowFails(conns)

\* Faulty variant: the previous connection is left to the server.
FollowCloseLate ==
    /\ ReaderAt("validate") /\ conn < MaxHops
    /\ rpc' = "redial"
    /\ UNCHANGED <<netVars, stateVars, endVars>> /\ ReaderRest

FollowClose ==
    /\ ReaderAt("validate") /\ conn < MaxHops
    /\ conns' = closeIt(conn) /\ rpc' = "redial"
    /\ UNCHANGED <<conn, inputMu, paused, stateVars, endVars>> /\ ReaderRest

(***************************************************************************)
(* A dial that fails may leave an open connection with nobody to close it: *)
(* gophertunnel's dialer returns at the end of its context, or when its    *)
(* own write fails, without closing what it had opened.                    *)
(***************************************************************************)
Left(h) == {conns, [conns EXCEPT ![h] = "open"]}

FollowDial ==
    /\ ReaderAt("redial")
    /\ \/ /\ ~cancelled /\ conns' = [conns EXCEPT ![conn + 1] = "open"] /\ rpc' = "respawn"
          /\ UNCHANGED <<conn, inputMu, paused, stateVars, endVars>> /\ ReaderRest
       \/ \E left \in Left(conn + 1) : FollowFails(left)

(***************************************************************************)
(* DoSpawnContext and ResourcePackObserver.  When the context ends at the  *)
(* moment of the spawn, select may still choose the spawn.  Here an error  *)
(* closes the new connection.                                              *)
(***************************************************************************)
FollowSpawn ==
    /\ ReaderAt("respawn")
    /\ \/ rpc' = "connect" /\ UNCHANGED <<netVars, stateVars, endVars>> /\ ReaderRest
       \/ FollowFails(closeIt(conn + 1))

SetConnection ==
    /\ ReaderAt("connect")
    /\ conn' = conn + 1 /\ rpc' = "publish"
    /\ UNCHANGED <<conns, inputMu, paused, stateVars, endVars>> /\ ReaderRest

\* Faulty variant: the report's entry of the transfer is left as it was seen.
FollowPublishOnly ==
    /\ ReaderAt("publish")
    /\ hops' = conn /\ paused' = FALSE /\ rpc' = "announce"
    /\ UNCHANGED <<conns, conn, inputMu, events, form, transfers, endVars>> /\ ReaderRest

\* A hop has one Transfer: the entry with its target and hop is the hop's own.
FollowPublish ==
    /\ ReaderAt("publish")
    /\ hops' = conn /\ transfers' = [transfers EXCEPT ![conn - 1] = "followed"]
    /\ paused' = FALSE /\ rpc' = "announce"
    /\ UNCHANGED <<conns, conn, inputMu, events, form, endVars>> /\ ReaderRest

\* record's answer is not looked at here.
FollowAnnounce ==
    /\ ReaderAt("announce") /\ rpc' = "observe"
    /\ \/ Len(events) < Buffer /\ events' = Append(events, "notice") /\ UNCHANGED endVars
       \/ Len(events) = Buffer /\ fail("reader", "overflow") /\ UNCHANGED events
    /\ UNCHANGED <<netVars, form, hops, transfers>> /\ ReaderRest

\* SpawnObserver, whose error ends the session.
FollowObserve ==
    /\ ReaderAt("observe") /\ inputMu' = "none"
    /\ rpc' \in {"read", "followFailed"}
    /\ UNCHANGED <<conns, conn, paused, stateVars, endVars>> /\ ReaderRest

FollowFailed ==
    /\ ReaderAt("followFailed") /\ fail("reader", "follow") /\ rpc' = "exit"
    /\ UNCHANGED <<netVars, stateVars>> /\ ReaderRest

\* The deferred closeDone.
ReaderExit ==
    /\ ReaderAt("exit") /\ rpc' = "gone" /\ done' = TRUE
    /\ UNCHANGED <<netVars, stateVars, cancelled, terminal, once, fin, closed>> /\ ReaderRest

ReaderStep ==
    \/ ReadFails \/ ReadForm \/ ReadNotice \/ ReadTransfer
    \/ FollowBegin \/ FollowRefused \/ FollowClose \/ FollowDial \/ FollowSpawn \/ SetConnection
    \/ FollowPublish \/ FollowAnnounce \/ FollowObserve \/ FollowFailed \/ ReaderExit

-----------------------------------------------------------------------------
(* inputLoop.                                                              *)

InputRest == UNCHANGED <<mainLocals, rpc, mpc, evidence>>

InputTick ==
    /\ ipc = "tick" /\ Running("input") /\ inputMu = "none" /\ ~paused
    /\ inputMu' = "input" /\ ipc' = "write"
    /\ UNCHANGED <<conns, conn, paused, stateVars, endVars>> /\ InputRest

sendClientInput ==
    /\ ipc = "write" /\ Running("input") /\ inputMu' = "none"
    /\ \/ conns[conn] = "open" /\ ipc' = "tick" /\ UNCHANGED endVars
       \/ /\ conns[conn] # "open" /\ ipc' = "gone"
          /\ IF cancelled THEN UNCHANGED endVars ELSE fail("input", "input")
    /\ UNCHANGED <<conns, conn, paused, stateVars>> /\ InputRest

InputStop ==
    /\ ipc = "tick" /\ Running("input") /\ (cancelled \/ done) /\ ipc' = "gone"
    /\ UNCHANGED <<netVars, stateVars, endVars>> /\ InputRest

InputStep == InputTick \/ sendClientInput \/ InputStop

-----------------------------------------------------------------------------
(* Start.                                                                  *)

MainAt(place) == mpc = place /\ Running("main")
MainRest == UNCHANGED <<rpc, ipc, evidence>>

StartFails(left) ==
    /\ conns' = left /\ fail("main", "start") /\ mpc' = "startFailed"
    /\ UNCHANGED <<conn, inputMu, paused, stateVars, mainLocals>> /\ MainRest

StartDial ==
    /\ MainAt("dial")
    /\ \/ /\ ~cancelled /\ conns' = [conns EXCEPT ![1] = "open"] /\ mpc' = "spawn"
          /\ UNCHANGED <<conn, inputMu, paused, stateVars, endVars, mainLocals>> /\ MainRest
       \/ \E left \in Left(1) : StartFails(left)

\* DoSpawnContext and ResourcePackObserver, then the connection is published.
StartSpawn ==
    /\ MainAt("spawn")
    /\ \/ /\ conn' = 1 /\ hops' = 1 /\ readerStarted' = TRUE /\ events' = <<"notice">> /\ mpc' = "observe"
          /\ UNCHANGED <<conns, inputMu, paused, form, transfers, endVars>>
          /\ UNCHANGED <<chosen, failed, closeErr, capture, session>> /\ MainRest
       \/ StartFails(closeIt(1))

\* SpawnObserver; then the two goroutines start.
StartLoops ==
    /\ MainAt("observe")
    /\ \/ /\ rpc' = "read" /\ ipc' = "tick" /\ mpc' = "greet"
          /\ UNCHANGED <<netVars, stateVars, endVars, mainLocals, evidence>>
       \/ StartFails(conns)

\* Start failed, or the connect response or the opening of the scenario after it.
StartFailed ==
    /\ MainAt("startFailed") \/ MainAt("greet")
    /\ failed' = TRUE /\ closeErr' = TRUE /\ mpc' = "close"
    /\ UNCHANGED <<netVars, stateVars, endVars, readerStarted, chosen, capture, session>> /\ MainRest

-----------------------------------------------------------------------------
(* runNetworkScenario: one request after the other.                        *)

Quiet == UNCHANGED <<netVars, stateVars, endVars, readerStarted, closeErr, capture, session>> /\ MainRest

Greet == MainAt("greet") /\ mpc' = "idle" /\ UNCHANGED <<chosen, failed>> /\ Quiet

EndOfInput == MainAt("idle") /\ mpc' = "close" /\ UNCHANGED <<chosen, failed>> /\ Quiet

\* quit closes the client on its own; the end of runGolemNetwork does so again.
Quit ==
    /\ MainAt("idle") /\ mpc' = "quitting" /\ CallFinish("main")
    /\ UNCHANGED <<netVars, stateVars, mainLocals>> /\ MainRest

(***************************************************************************)
(* A line is no request, its operation fails or its response cannot be     *)
(* written: the command ends with status 1 or 2.  chat, wait, stability,   *)
(* observe, report and current_form change nothing when they succeed.      *)
(***************************************************************************)
RequestFails ==
    /\ failed' = TRUE /\ mpc' = "close" /\ UNCHANGED chosen /\ Quiet

OtherFails == MainAt("idle") /\ RequestFails

WaitForForm ==
    /\ MainAt("idle") /\ mpc' = "waitForm" /\ UNCHANGED <<chosen, failed>> /\ Quiet

NextEvent ==
    /\ MainAt("waitForm") /\ events # << >>
    /\ events' = Tail(events) /\ mpc' = IF Head(events) = "form" THEN "idle" ELSE "waitForm"
    /\ UNCHANGED <<netVars, form, hops, transfers, endVars, mainLocals>> /\ MainRest

\* The request's deadline, an interrupt, or the end of the session.
NextEventEnds == MainAt("waitForm") /\ RequestFails

\* SelectForm looks at the form and checks the index; SubmitForm looks again.
SelectForm ==
    /\ MainAt("idle") /\ form # NoForm
    /\ \E i \in 0..(form.buttons - 1) : chosen' = [NoAnswer EXCEPT !.index = i]
    /\ mpc' = "submit"
    /\ UNCHANGED failed /\ Quiet

\* submit_form, or what follows the check of select_form.
SubmitForm ==
    /\ (MainAt("idle") /\ chosen = NoAnswer) \/ MainAt("submit")
    /\ form # NoForm
    /\ chosen' = [chosen EXCEPT !.form = form] /\ mpc' = "respond"
    /\ UNCHANGED failed /\ Quiet

WriteResponse ==
    /\ MainAt("respond")
    /\ IF conns[conn] = "open"
       THEN /\ chosen' = NoAnswer /\ mpc' = "idle"
            /\ UNCHANGED failed /\ Quiet
       ELSE RequestFails

-----------------------------------------------------------------------------
(* The end of runGolemNetwork.                                             *)

Close ==
    /\ MainAt("close") /\ mpc' = "closing" /\ CallFinish("main")
    /\ UNCHANGED <<netVars, stateVars, mainLocals>> /\ MainRest

Closed(timedOut) ==
    /\ closeErr' = (closeErr \/ timedOut) /\ failed' = (failed \/ timedOut) /\ mpc' = "finishCapture"
    /\ UNCHANGED <<netVars, stateVars, endVars, readerStarted, chosen, capture, session>> /\ MainRest

CloseDone == MainAt("closing") /\ done /\ Closed(FALSE)

QuitEnds ==
    /\ MainAt("quitting") /\ mpc' = "close"
    /\ failed' = (failed \/ ~done)  \* without done, after five seconds
    /\ UNCHANGED <<netVars, stateVars, endVars, readerStarted, chosen, closeErr, capture, session>> /\ MainRest

\* Faulty variant: a session that was started is waited for without a deadline.
CloseTimesOutUnstarted == MainAt("closing") /\ ~done /\ ~readerStarted /\ Closed(TRUE)

\* Five seconds pass without done.
CloseTimesOut == MainAt("closing") /\ ~done /\ Closed(TRUE)

(***************************************************************************)
(* finishCapture: the session.close event may not be taken; the capture is *)
(* closed and the artifact reader finished, either of which may fail.  The *)
(* status is decided before recorder.Close.  When the writer fails on the  *)
(* events that Close drains, the manifest says failed all the same and     *)
(* Close returns nil: nobody in this command learns of it.                 *)
(***************************************************************************)
FinishCapture ==
    /\ MainAt("finishCapture") /\ mpc' = "report"
    /\ evidence' \in {evidence, TRUE}
    /\ capture' \in IF closeErr \/ evidence' THEN {"failed"} ELSE {"closed", "drainFailed"}
    /\ failed' \in {failed, TRUE}
    /\ UNCHANGED <<netVars, stateVars, endVars, readerStarted, chosen, closeErr, session, rpc, ipc>>

\* Faulty variant: the report's errors are not looked at.
PassesStatus == ~failed /\ hops > 0 /\ closed

\* golemValidationChecks.
Passes == ~failed /\ hops > 0 /\ closed /\ terminal = "none" /\ ~evidence

\* A command that did not get to its scenario writes no report: no pass either.
Report ==
    /\ MainAt("report") /\ mpc' = "exited"
    /\ session' = IF Passes THEN "pass" ELSE "not_observed"
    /\ UNCHANGED <<netVars, stateVars, endVars, readerStarted, chosen, failed, closeErr, capture>> /\ MainRest

EndStep == QuitEnds \/ Close \/ CloseDone \/ CloseTimesOut \/ FinishCapture \/ Report

Scenario ==
    \/ Greet \/ EndOfInput \/ Quit \/ OtherFails \/ WaitForForm \/ NextEvent \/ NextEventEnds
    \/ SelectForm \/ SubmitForm \/ WriteResponse

MainStep == StartDial \/ StartSpawn \/ StartLoops \/ StartFailed \/ Scenario \/ EndStep

Next ==
    \/ MainStep \/ ReaderStep \/ InputStep
    \/ \E g \in Goroutines : Finish(g)
    \/ \E h \in Hops : Break(h)
    \/ Interrupt \/ onPacketFails

Spec == Init /\ [][Next]_vars

(***************************************************************************)
(* The main goroutine goes on, and so does whoever is in finish.  Nothing  *)
(* is assumed of the server, nor of the reader that waits for it.          *)
(***************************************************************************)
FairSpec == Spec /\ WF_vars(EndStep) /\ \A g \in Goroutines : WF_vars(Finish(g))

-----------------------------------------------------------------------------
TypeOK ==
    /\ conns \in [Hops -> {"none", "open", "broken", "closed"}] /\ conn \in 0..MaxHops
    /\ inputMu \in {"none", "reader", "input"}
    /\ Len(events) <= Buffer /\ form \in Forms \cup {NoForm} /\ hops \in {conn, conn - 1}
    /\ transfers \in [Hops -> {"none", "seen", "followed", "failed"}]
    /\ terminal \in {"none", "start", "read", "overflow", "follow", "input"}
    /\ once = "taken" <=> \E g \in Goroutines : fin[g] \in {"close", "mark"}
    /\ \A g, k \in Goroutines : fin[g] \in {"close", "mark"} /\ fin[k] \in {"close", "mark"} => g = k
    /\ closed <=> once = "done"

(***************************************************************************)
(* followTransfer closes the connection of a hop before it dials the next: *)
(* a server never sees the player twice.                                   *)
(***************************************************************************)
OneConnection == \A g, h \in Hops : conns[g] = "open" /\ conns[h] = "open" => g = h

(***************************************************************************)
(* The report blames a connection only when the server's side ended it.    *)
(* Neither the client's own Close, nor an interrupt, nor the swap of       *)
(* connections in a transfer makes readLoop or inputLoop record an error.  *)
(***************************************************************************)
BlameRemote == terminal \in {"read", "input"} => \E h \in Hops : conns[h] = "broken"

(***************************************************************************)
(* The report's transfers and its hop count agree: a transfer is followed  *)
(* exactly when the next hop was reached, and only the last one can have   *)
(* failed.                                                                 *)
(***************************************************************************)
TransfersExact ==
    \A h \in Hops :
        /\ transfers[h] = "followed" <=> h < hops
        /\ transfers[h] = "failed" => h = hops /\ rpc \in {"followFailed", "exit", "gone"}

(***************************************************************************)
(* cli_session=pass, which a release report builds on, is only given to a  *)
(* session without error whose reader has ended and which has left no      *)
(* connection open, that of a failed dial included; and the capture was    *)
(* closed as a good one.  Its manifest may still say failed, but only for  *)
(* the events that recorder.Close drained.                                 *)
(***************************************************************************)
PassMeansClean ==
    session = "pass" =>
        /\ terminal = "none" /\ ~evidence /\ capture \in {"closed", "drainFailed"}
        /\ done /\ \A h \in Hops : conns[h] # "open"

(***************************************************************************)
(* The command ends once it begins to close, whatever the reader does.     *)
(***************************************************************************)
CloseEnds == mpc \in {"quitting", "close"} ~> mpc = "exited"

(***************************************************************************)
(* client.go: "Close stops the session and releases the active network     *)
(* connection."                                                            *)
(***************************************************************************)
CloseReleases == mpc \in {"finishCapture", "report", "exited"} /\ conn # 0 => conns[conn] # "open"

-----------------------------------------------------------------------------
(* The inductive invariant behind the theorems of GolemClientProofs.       *)

\* The places of followTransfer, which runs with inputMu held.
Swapping == {"redial", "respawn", "connect"}
FollowPlaces == Swapping \cup {"validate", "publish", "announce", "observe"}
Ending == {"followFailed", "exit", "gone"}

PlaceInv ==
    /\ events \in Seq({"form", "notice"}) /\ fin \in [Goroutines -> {"no", "want", "close", "mark"}]
    /\ once \in {"free", "taken", "done"}
    /\ {cancelled, paused, closed, done, readerStarted, failed, closeErr, evidence} \subseteq BOOLEAN
    /\ rpc \in {"absent", "read", "follow"} \cup FollowPlaces \cup Ending
    /\ ipc \in {"absent", "tick", "write", "gone"} /\ (ipc = "absent" <=> rpc = "absent")
    /\ rpc \in FollowPlaces <=> inputMu = "reader"
    /\ ipc = "write" <=> inputMu = "input"
    /\ inputMu = "input" => ~paused
    /\ conn = IF rpc = "publish" THEN hops + 1 ELSE hops
    /\ rpc \in Swapping => conn < MaxHops
    /\ rpc \in Swapping \cup {"validate", "publish"} => paused

\* Until the loops start only main runs, and nobody has called finish.
StartInv ==
    /\ mpc \in {"dial", "spawn", "observe"} =>
         /\ rpc = "absent" /\ ipc = "absent" /\ once = "free" /\ terminal = "none" /\ ~done
         /\ \A g \in Goroutines : fin[g] = "no"
    /\ rpc = "absent" => fin["reader"] = "no" /\ conn \in {0, 1}
    /\ mpc \in {"dial", "spawn"} => conn = 0
    /\ mpc = "observe" => conn = 1
    /\ conn = 0 => rpc = "absent"
    /\ conn # 0 <=> readerStarted

\* Which connections there are.  The one that is dialed is only the reader's; one
\* that a failed dial has left stays with an error of the session.
ConnInv ==
    /\ \A h \in Hops : conns[h] = "open" =>
         \/ h = conn
         \/ h = 1 /\ conn = 0 /\ (mpc = "spawn" \/ terminal # "none")
         \/ h = conn + 1 /\ rpc \in {"respawn", "connect", "followFailed"}
         \/ h = conn + 1 /\ rpc \in {"exit", "gone"} /\ terminal # "none"
    /\ \A h \in Hops : h > conn /\ conns[h] # "none" =>
         \/ h = 1 /\ conn = 0 /\ mpc # "dial"
         \/ h = conn + 1 /\ rpc \in {"respawn", "connect"} \cup Ending
    /\ mpc = "spawn" => conns[1] \in {"open", "broken"}
    /\ rpc \in {"respawn", "connect"} => conns[conn + 1] \in {"open", "broken"}
    /\ rpc \in Swapping => conns[conn] # "open"
    /\ \A h \in Hops : conn # 0 /\ h = conn + 1 /\ conns[h] # "none" => conns[conn] # "open"

\* The current connection is closed by finish, after the cancellation, or by a transfer.
ClosedInv ==
    /\ conn # 0 => conns[conn] # "none"
    /\ conn # 0 /\ conns[conn] = "closed" => cancelled \/ (paused /\ rpc \in Swapping \cup Ending)
    /\ once # "free" => cancelled

\* What a reader that has ended, done and the command's status stand for.
EndInv ==
    /\ rpc \in {"exit", "gone"} /\ terminal = "none" => conns[conn] # "open"
    /\ done => rpc = "gone" \/ (~readerStarted /\ mpc \notin {"dial", "spawn"})
    /\ closeErr => failed
    /\ mpc \in {"finishCapture", "report"} /\ ~failed => done
    /\ mpc = "report" /\ ~failed /\ ~evidence => capture \in {"closed", "drainFailed"}
    /\ session # "none" => mpc = "exited"

IndInv ==
    /\ TypeOK /\ PlaceInv /\ StartInv /\ ConnInv /\ ClosedInv /\ EndInv
    /\ BlameRemote /\ TransfersExact /\ PassMeansClean
=============================================================================
