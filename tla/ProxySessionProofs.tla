------------------------- MODULE ProxySessionProofs -------------------------
(***************************************************************************)
(* The theorems of ProxySession, for any number of connections and         *)
(* followed hops and for every configuration.                              *)
(*                                                                         *)
(* IndInv is shown inductive part by part: the hops that Run knows, the    *)
(* accepted connection, the forward loops, what is recorded of a hop, and  *)
(* the dials.  Each part is one lemma with a step for each action that     *)
(* can disturb it; the frame lemmas say which those are.  The second half  *)
(* adds the order of the client's connections, from which the identity of  *)
(* a hop's client follows.                                                 *)
(***************************************************************************)
EXTENDS ProxySession, TLAPS

USE DEF runVars, ctlVars, connVars, ctxVars, hopVars, loopVars, histVars

-----------------------------------------------------------------------------
(* Hops, and what the shared helpers do.                                   *)

LEMMA HopFacts ==
    /\ 1 \in Hops /\ NoHop \notin Hops /\ NoConn \notin Conns
    /\ \A h \in Hops : h \in Nat /\ (h <= maxFollowedHops => h + 1 \in Hops)
    /\ \A h \in Hops \ {1} : h - 1 \in Hops
  BY SessionAssumption DEF Hops, Conns, NoHop, NoConn

\* Closing closes the connections it is given and touches no other.
LEMMA ClosingFacts ==
    ASSUME ConnTypeOK, NEW cs
    PROVE  /\ Closing(cs, cause) \in [Conns -> Causes \cup {"open"}]
           /\ \A c \in Conns : Closing(cs, cause)[c] = "open" <=> cause[c] = "open" /\ c \notin cs
           /\ \A c \in Conns : cause[c] # "open" \/ c \notin cs => Closing(cs, cause)[c] = cause[c]
  BY DEF Closing, ConnTypeOK, Causes

LEMMA UpstreamFacts ==
    ASSUME HopTypeOK, NEW h \in Hops
    PROVE  /\ CloseUpstream(h) \in [Hops -> Causes \cup {"open", "none"}]
           /\ CloseUpstream(h)[h] # "open"
           /\ \A g \in Hops : CloseUpstream(h)[g] = "open" => upstream[g] = "open"
           /\ \A g \in Hops : CloseUpstream(h)[g] = "none" => upstream[g] = "none"
  BY DEF CloseUpstream, HopTypeOK, Causes

-----------------------------------------------------------------------------
(* What the steps of the other goroutines leave alone.                     *)

LEMMA ControlFrame ==
    ASSUME RecorderBreaks \/ OpenTransportFails \/ FailureSet \/ CancelRun \/ StopAccept
    PROVE  /\ UNCHANGED <<runVars, connVars, ctxVars, hopVars, loopVars, histVars>>
           /\ broken' \in {broken, TRUE} /\ runDone' \in {runDone, TRUE}
           /\ failure' \in {failure, TRUE} /\ listening' \in {listening, FALSE}
  BY DEF RecorderBreaks, OpenTransportFails, FailureSet, CancelRun, StopAccept

LEMMA ConnFrame ==
    ASSUME NEW c \in Conns, OpenTransport(c) \/ ClientLeaves(c) \/ ListenerStep(c)
    PROVE  UNCHANGED <<runVars, ctlVars, transferReady, upstream, loopVars, histVars>>
  BY DEF OpenTransport, ClientLeaves, ListenerStep, Admit, TransportEnds, Notify,
     HandlerReturns,
         Fetch, FetchReturns, LoginDone

LEMMA DialFrame ==
    ASSUME NEW h \in Hops, DialStep(h) \/ ServerLeaves(h) PROVE UNCHANGED slotRest
  BY DEF DialStep, DialStart, DialCancelled, DialReturns, ServerLeaves

LEMMA GameFrame ==
    ASSUME NEW s \in Sides, GameEnds(s)
    PROVE  UNCHANGED <<runVars, ctlVars, connVars, ctxVars, hopVars, loop, first, shuttingDown,
                       histVars>>
  BY DEF GameEnds

LEMMA LoopFrame ==
    ASSUME NEW l \in Loops, LoopStep(l)
    PROVE  UNCHANGED <<runVars, ctlVars, connVars, ctxVars, hopVars, game, delivered, closes>>
  BY DEF LoopStep, LoopRead, LoopReadError, LoopCapture, LoopWrite, loopRest, histVars

LEMMA TransferFrame ==
    ASSUME TransferStep
    PROVE  /\ UNCHANGED <<run, result, state, client, current, acceptedResult, ctlVars, connVars,
                          ctxVars, hopVars, game, closes>>
           /\ UNCHANGED pending \/ LoopTransfer
  BY DEF TransferStep, LoopTransfer, LoopRewriteError, LoopWriteTransfer,
     LoopReturnsTransfer,
         loopRest

\* The steps of Next, for the case distinctions below.
Outside ==
    \/ RecorderBreaks \/ OpenTransportFails \/ FailureSet \/ CancelRun \/ StopAccept
    \/ \E c \in Conns : OpenTransport(c) \/ ClientLeaves(c) \/ ListenerStep(c)
    \/ \E h \in Hops : DialStep(h) \/ ServerLeaves(h)

LEMMA NextCases ==
    Next => \/ Outside \/ StopConnections \/ AcceptHelper \/ RunStep \/ TransferStep
            \/ \E s \in Sides : GameEnds(s)
            \/ \E l \in Loops : LoopStep(l)
  BY DEF Next, Environment, Outside

\* Neither clients, servers, dials nor failures change what Run, the loops and the history are.
LEMMA OutsideFrame ==
    ASSUME Outside
    PROVE  UNCHANGED <<runVars, transferReady, loopVars, histVars>> /\ broken' \in {broken, TRUE}
  BY ControlFrame, ConnFrame, DialFrame DEF Outside, slotRest

-----------------------------------------------------------------------------
(* The hops that Run knows, and the connection it has accepted.            *)

LEMMA HopKeeps == IndInv /\ Next => HopInv'
<1> SUFFICES ASSUME IndInv, Next PROVE HopInv'
  OBVIOUS
<1> USE HopFacts DEF HopInv, FollowTransfers, Bridging, Between
<1>0. HopInv /\ RunTypeOK /\ LoopInv /\ UNCHANGED scope /\ run # "returned"
  BY DEF IndInv, TypeOK, Next
<1>1. CASE UNCHANGED <<run, state, current, pending>>
  BY <1>0, <1>1
<1>2. CASE Drain \/ Drained
  BY <1>0, <1>2 DEF Drain, Drained, Return, getAcceptState
<1>3. CASE WaitNotified \/ WaitCancelled \/ AcceptJoin \/ AcceptFailed \/ Accepted
  BY <1>0, <1>3 DEF WaitNotified, WaitCancelled, AcceptJoin, AcceptFailed, Accepted, Return
<1>4. CASE Spawn \/ StartFirst \/ StartJoin \/ HopFirst
  BY <1>0, <1>4 DEF Spawn, StartFirst, StartJoin, HopFirst, HopFails, hopRest, Return, InHop
<1>5. CASE HopSecond
  <2>1. run = "second" /\ UNCHANGED <<state, current, pending>> /\ run' \in {"prepare",
                                      "returned"}
    BY <1>5 DEF HopSecond, HopFails, hopRest, Return
  <2>2. run' = "prepare" => TransferEnded
    <3>1. ASSUME run' = "prepare" PROVE transferFromLoops(first[1], first[2]) /\ Len(first) = 2
      BY <1>5, <3>1 DEF HopSecond, HopFails, Return
    <3>2. QED
      BY <3>1, <1>0 DEF transferFromLoops, TransferEnded, IndInv, TypeOK, LoopTypeOK
  <2>3. run' = "prepare" => pending # NoHop
    BY <2>1, <2>2, <1>0 DEF LoopInv
  <2>4. QED
    BY <1>0, <2>1, <2>3
<1>6. CASE Prepare \/ FollowCancelled \/ SlotFree
  BY <1>0, <1>6 DEF Prepare, FollowCancelled, SlotFree, Return, followRest, RunTypeOK
<1>7. CASE GraceEnds
  BY <1>0, <1>7, SessionAssumption DEF GraceEnds, RunTypeOK
<1>8. CASE LoopTransfer
  <2>1. run \in Bridging
    BY <1>0, <1>8 DEF LoopTransfer, LoopInv, Loops
  <2>2. QED
    BY <1>0, <1>8, <2>1 DEF LoopTransfer, RunTypeOK
<1>9. QED
  <2>1. CASE Outside \/ StopConnections \/ AcceptHelper
    BY <2>1, <1>1, OutsideFrame DEF StopConnections, AcceptHelper
  <2>2. CASE (\E s \in Sides : GameEnds(s)) \/ (\E l \in Loops : LoopStep(l)) \/ TransferStep
    BY <2>2, <1>1, <1>8, GameFrame, LoopFrame, TransferFrame
  <2>3. QED
    BY <2>1, <2>2, <1>2, <1>3, <1>4, <1>5, <1>6, <1>7, NextCases DEF RunStep

LEMMA AcceptKeeps == IndInv /\ Next => AcceptInv'
<1> SUFFICES ASSUME IndInv, Next PROVE AcceptInv'
  OBVIOUS
<1> USE HopFacts DEF AcceptInv, FollowTransfers, Bridging, Between, InHop, Open, Players
<1>0. AcceptInv /\ RunTypeOK /\ ConnTypeOK /\ UNCHANGED scope /\ run # "returned"
  BY DEF IndInv, TypeOK, Next
<1>1. CASE UNCHANGED <<run, client, acceptedResult, phase, cause>>
  BY <1>0, <1>1
<1>2. ASSUME NEW c \in Conns, OpenTransport(c) \/ ClientLeaves(c) \/ ListenerStep(c)
      PROVE  AcceptInv'
  <2>1. UNCHANGED <<run, client, acceptedResult>>
    BY <1>2, ConnFrame
  <2>2. CASE OpenTransport(c) \/ Fetch(c) \/ FetchReturns(c) \/ LoginDone(c)
    BY <1>0, <2>1, <2>2 DEF OpenTransport, Fetch, FetchReturns, LoginDone, ConnTypeOK
  <2>3. CASE ClientLeaves(c) \/ TransportEnds(c) \/ Notify(c)
    BY <1>0, <2>1, <2>3 DEF ClientLeaves, TransportEnds, Notify, ConnTypeOK, Causes
  <2>4. CASE HandlerReturns(c)
    BY <1>0, <2>1, <2>4, ClosingFacts DEF HandlerReturns, ConnTypeOK
  <2>5. CASE Admit(c)
    <3>1. CASE phase' = [phase EXCEPT ![c] = "left"] /\ cause' = Closing({c}, cause)
      BY <1>0, <2>1, <2>5, <3>1, ClosingFacts DEF Admit, ConnTypeOK
    <3>2. CASE /\ phase' = [phase EXCEPT ![c] = "login"] /\ UNCHANGED cause
               /\ FollowTransfers \/ Players = {}
      BY <1>0, <2>1, <2>5, <3>2 DEF Admit, ConnTypeOK
    <3>3. QED
      BY <2>5, <3>1, <3>2 DEF Admit
  <2>6. QED
    BY <1>2, <2>2, <2>3, <2>4, <2>5 DEF ListenerStep
<1>3. CASE AcceptHelper
  <2>1. CASE UNCHANGED <<phase, client>> /\ acceptedResult' = "error"
    BY <1>0, <1>3, <2>1 DEF AcceptHelper
  <2>2. ASSUME NEW c \in Conns, phase[c] = "ready", phase' = [phase EXCEPT ![c] = "taken"],
               client' = c, acceptedResult' = "conn"
        PROVE  AcceptInv'
    BY <1>0, <1>3, <2>2 DEF AcceptHelper, ConnTypeOK
  <2>3. QED
    BY <1>3, <2>1, <2>2 DEF AcceptHelper, FirstWaiting
<1>4. ASSUME NEW cs, cause' = Closing(cs, cause) \/ UNCHANGED cause, UNCHANGED <<client, phase>>,
             acceptedResult' # "conn" \/ acceptedResult' = acceptedResult,
             run' \notin {"accept", "acceptJoin", "cancelJoin", "returned"} => acceptedResult' = "idle",
             run' \in InHop \cup Between => run \in InHop \cup Between \/ acceptedResult = "conn"
      PROVE  AcceptInv'
  BY <1>0, <1>4, ClosingFacts DEF ConnTypeOK
<1>5. CASE Drain \/ Drained \/ WaitNotified \/ WaitCancelled \/ AcceptFailed
  BY <1>0, <1>4, <1>5 DEF Drain, Drained, WaitNotified, WaitCancelled, AcceptFailed, Return
<1>6. CASE AcceptJoin
  BY <1>0, <1>4, <1>6 DEF AcceptJoin, Return
<1>7. CASE Accepted
  BY <1>0, <1>4, <1>7 DEF Accepted, Return
<1>8. CASE StopConnections \/ Spawn \/ StartFirst \/ StartJoin \/ HopFirst \/ HopSecond
  BY <1>0, <1>4, <1>8 DEF StopConnections, Spawn, StartFirst, StartJoin, HopFirst,
     HopSecond,
     HopFails, hopRest, Return
<1>9. CASE Prepare \/ GraceEnds \/ FollowCancelled \/ SlotFree
  BY <1>0, <1>4, <1>9 DEF Prepare, GraceEnds, FollowCancelled, SlotFree, followRest, Return
<1>10. QED
  <2>1. CASE Outside
    BY <2>1, <1>1, <1>2, ControlFrame, DialFrame DEF Outside, slotRest
  <2>2. CASE (\E s \in Sides : GameEnds(s)) \/ (\E l \in Loops : LoopStep(l)) \/ TransferStep
    BY <2>2, <1>1, GameFrame, LoopFrame, TransferFrame
  <2>3. QED
    BY <2>1, <2>2, <1>3, <1>5, <1>6, <1>7, <1>8, <1>9, NextCases DEF RunStep

-----------------------------------------------------------------------------
(* The forward loops.                                                      *)

LEMMA LoopNames == /\ "c2s" \in Loops /\ "s2c" \in Loops
                   /\ \A l \in Loops : l = "c2s" \/ l = "s2c"
                   /\ "client" \in Sides /\ "server" \in Sides
  BY DEF Loops, Sides

\* A loop that returns is done, and what it returns is the last of the results.
LEMMA ReturnFacts ==
    ASSUME LoopTypeOK, NEW l \in Loops, NEW err \in LoopErrors, LoopReturns(l, err),
           loop[l] \notin {"off", "done"}, Len(first) = Ended("c2s") + Ended("s2c")
    PROVE  /\ first' \in Seq(LoopErrors) /\ loop' = [loop EXCEPT ![l] = "done"]
           /\ Len(first') = (Ended("c2s") + Ended("s2c"))'
           /\ TransferEnded' <=> TransferEnded \/ err = "transfer"
<1>1. first' = Append(first, err) /\ loop' = [loop EXCEPT ![l] = "done"]
  BY DEF LoopReturns, MoveLoop
<1>2. /\ first' \in Seq(LoopErrors) /\ Len(first') = Len(first) + 1 /\ Len(first) \in Nat
      /\ \A i \in 1..Len(first) : first'[i] = first[i]
      /\ first'[Len(first) + 1] = err
      /\ DOMAIN first = 1..Len(first) /\ DOMAIN first' = 1..(Len(first) + 1)
  BY <1>1 DEF LoopTypeOK
<1>3. Len(first') = (Ended("c2s") + Ended("s2c"))'
  BY <1>1, <1>2, LoopNames DEF Ended, LoopTypeOK
<1>4. TransferEnded' <=> TransferEnded \/ err = "transfer"
  BY <1>2 DEF TransferEnded
<1>5. QED
  BY <1>1, <1>2, <1>3, <1>4

\* What a loop returns when it meets a closed connection is the cause.
LEMMA CauseFacts ==
    ASSUME IndInv, run \in Bridging
    PROVE  /\ cause[client] # "open" => cause[client] \in Causes
           /\ upstream[state] # "open" => upstream[state] \in Causes
           /\ Causes \subseteq LoopErrors /\ {"rewrite", "capture", "transfer"} \subseteq LoopErrors
           /\ "transfer" \notin Causes
  BY DEF IndInv, TypeOK, RunTypeOK, ConnTypeOK, HopTypeOK, AcceptInv, DialInv, InHop,
     Bridging,
         LoopErrors, Causes

\* A loop that goes on or returns without having sent a transfer.
LEMMA LoopsKeep ==
    ASSUME IndInv, Next, (\E l \in Loops : LoopStep(l)) \/ TransferStep
    PROVE  LoopInv' /\ LoopTypeOK'
<1> USE LoopNames DEF Bridging
<1>0. LoopInv /\ LoopTypeOK /\ RunTypeOK /\ CtlTypeOK
  BY DEF IndInv, TypeOK
<1>1. UNCHANGED <<run, state, game, broken>> /\ (UNCHANGED pending \/ LoopTransfer)
  BY LoopFrame, TransferFrame
<1>2. ASSUME NEW l \in Loops, NEW err \in LoopErrors, LoopReturns(l, err), loop[l] \notin {"off", "done"},
             shuttingDown' \in {shuttingDown, TRUE}, UNCHANGED <<delivered, pending>>,
             loop[l] = "sent" => broken \/ err = "transfer",
             err = "transfer" => loop[l] = "sent"
      PROVE  LoopInv' /\ LoopTypeOK'
  <2>1. /\ first' \in Seq(LoopErrors) /\ loop' = [loop EXCEPT ![l] = "done"]
        /\ Len(first') = (Ended("c2s") + Ended("s2c"))'
        /\ TransferEnded' <=> TransferEnded \/ err = "transfer"
    BY <1>0, <1>2, ReturnFacts DEF LoopInv
  <2>2. LoopTypeOK'
    BY <1>0, <1>1, <1>2, <2>1 DEF LoopTypeOK
  <2>3. run \in Bridging
    BY <1>0, <1>2 DEF LoopInv
  <2>4. QED
    BY <1>0, <1>1, <1>2, <2>1, <2>2, <2>3 DEF LoopInv, LoopTypeOK, TransferEnded
<1>3. ASSUME NEW l \in Loops, NEW place \in {"read", "write", "xwrite"}, MoveLoop(l, place),
             loop[l] \in {"read", "write"}, UNCHANGED <<first, shuttingDown, delivered>>,
             place = "xwrite" => l = "s2c" /\ pending' # NoHop,
             pending # NoHop => pending' # NoHop
      PROVE  LoopInv' /\ LoopTypeOK'
  <2>1. loop' = [loop EXCEPT ![l] = place]
    BY <1>3 DEF MoveLoop
  <2>2. LoopTypeOK'
    BY <1>0, <1>1, <1>3, <2>1 DEF LoopTypeOK
  <2>3. Ended("c2s")' = Ended("c2s") /\ Ended("s2c")' = Ended("s2c") /\ TransferEnded' = TransferEnded
    BY <1>0, <1>3, <2>1 DEF Ended, LoopTypeOK, TransferEnded
  <2>4. QED
    BY <1>0, <1>1, <1>3, <2>1, <2>2, <2>3 DEF LoopInv, LoopTypeOK
<1>4. ASSUME NEW l \in Loops, LoopRead(l) PROVE LoopInv' /\ LoopTypeOK'
  BY <1>1, <1>3, <1>4 DEF LoopRead, loopRest
<1>5. ASSUME NEW l \in Loops, LoopReadError(l) PROVE LoopInv' /\ LoopTypeOK'
  <2>1. run \in Bridging
    BY <1>0, <1>5 DEF LoopReadError, LoopInv
  <2>2. SourceCause(l) \in Causes
    BY <2>1, <1>5, CauseFacts DEF LoopReadError, SourceCause
  <2>3. QED
    BY <2>1, <2>2, <1>2, <1>5, CauseFacts DEF LoopReadError, finishForwardAtHop, loopRest
<1>6. ASSUME NEW l \in Loops, LoopCapture(l) PROVE LoopInv' /\ LoopTypeOK'
  BY <1>2, <1>6 DEF LoopCapture, loopRest, LoopErrors
<1>7. ASSUME NEW l \in Loops, LoopWrite(l) PROVE LoopInv' /\ LoopTypeOK'
  <2>1. run \in Bridging
    BY <1>0, <1>7 DEF LoopWrite, LoopInv
  <2>2. CASE DestCause(l) = "open"
    BY <1>3, <1>7, <2>2 DEF LoopWrite, loopRest
  <2>3. CASE DestCause(l) # "open"
    <3>1. DestCause(l) \in Causes
      BY <2>1, <2>3, CauseFacts DEF DestCause
    <3>2. QED
      BY <2>1, <2>3, <3>1, <1>2, <1>7, CauseFacts DEF LoopWrite, finishForwardAtHop,
         loopRest
  <2>4. QED
    BY <2>2, <2>3
<1>8. CASE LoopTransfer
  BY <1>3, <1>8, <1>0, HopFacts DEF LoopTransfer, RunTypeOK, NoHop
<1>9. CASE LoopRewriteError
  BY <1>2, <1>9 DEF LoopRewriteError, finishForwardAtHop, loopRest, LoopErrors
<1>10. CASE LoopWriteTransfer
  <2>1. run \in Bridging
    BY <1>0, <1>10 DEF LoopWriteTransfer, LoopInv
  <2>2. CASE Open(client)
    <3>1. /\ loop' = [loop EXCEPT !["s2c"] = "sent"] /\ delivered' = delivered \cup {state}
          /\ UNCHANGED <<first, shuttingDown, pending>>
      BY <1>10, <2>2 DEF LoopWriteTransfer, MoveLoop, loopRest
    <3>2. LoopTypeOK'
      BY <1>0, <1>1, <3>1 DEF LoopTypeOK
    <3>3. Ended("c2s")' = Ended("c2s") /\ Ended("s2c")' = Ended("s2c") /\ TransferEnded' = TransferEnded
      BY <1>0, <1>10, <3>1 DEF Ended, LoopTypeOK, TransferEnded, LoopWriteTransfer
    <3>4. QED
      BY <1>0, <1>1, <1>10, <3>1, <3>2, <3>3 DEF LoopInv, LoopTypeOK, LoopWriteTransfer
  <2>3. CASE ~Open(client)
    BY <2>1, <2>3, <1>2, <1>10, CauseFacts DEF LoopWriteTransfer, finishForwardAtHop,
       loopRest, Open
  <2>4. QED
    BY <2>2, <2>3
<1>11. CASE LoopReturnsTransfer
  BY <1>2, <1>11 DEF LoopReturnsTransfer, loopRest, LoopErrors
<1>12. QED
  BY <1>4, <1>5, <1>6, <1>7, <1>8, <1>9, <1>10, <1>11 DEF LoopStep, TransferStep

LEMMA LoopKeeps == IndInv /\ Next => LoopInv' /\ LoopTypeOK'
<1> SUFFICES ASSUME IndInv, Next PROVE LoopInv' /\ LoopTypeOK'
  OBVIOUS
<1> USE LoopNames DEF Bridging
<1>0. LoopInv /\ LoopTypeOK /\ CtlTypeOK /\ HopInv /\ RecordInv
  BY DEF IndInv, TypeOK
<1>1. Ended("c2s") \in Nat /\ Ended("s2c") \in Nat
  BY DEF Ended
<1>2. ASSUME UNCHANGED <<run, state, pending, delivered, game, loop, first>>,
             shuttingDown' \in {shuttingDown, TRUE}, broken' \in {broken, TRUE}
      PROVE  LoopInv' /\ LoopTypeOK'
  <2>1. LoopTypeOK'
    BY <1>0, <1>2 DEF LoopTypeOK
  <2>2. Ended("c2s")' = Ended("c2s") /\ Ended("s2c")' = Ended("s2c") /\ TransferEnded' = TransferEnded
    BY <1>2 DEF Ended, TransferEnded
  <2>3. broken => broken'
    BY <1>2
  <2>4. QED
    BY <1>0, <1>2, <2>1, <2>2, <2>3 DEF LoopInv
<1>3. ASSUME UNCHANGED <<loop, first>>, game' \in [Sides -> {"off", "run", "ok", "err"}],
             game'["client"] # "ok" \/ run' = "start", shuttingDown' \in BOOLEAN,
             run \notin Bridging, run' \notin Bridging
      PROVE  LoopInv' /\ LoopTypeOK'
  <2>1. Len(first) = 0
    BY <1>0, <1>3 DEF LoopInv, Ended
  <2>2. DOMAIN first = {}
    BY <1>0, <2>1 DEF LoopTypeOK
  <2>3. ~TransferEnded'
    BY <1>3, <2>2 DEF TransferEnded
  <2>4. QED
    BY <1>0, <1>3, <2>1, <2>3 DEF LoopInv, LoopTypeOK, Ended
<1>4. ASSUME NEW place \in {"off", "read"}, loop' = [l \in Loops |-> place], first' = << >>,
             run' \in Bridging <=> place = "read", shuttingDown' \in BOOLEAN,
             game' \in [Sides -> {"off", "run", "ok", "err"}],
             game'["client"] # "ok", run' \in Bridging => state' \notin delivered'
      PROVE  LoopInv' /\ LoopTypeOK'
  <2>1. loop' \in [Loops -> {"off", "read"}] /\ \A l \in Loops : loop'[l] = place
    BY <1>4
  <2>2. Ended("c2s")' = 0 /\ Ended("s2c")' = 0 /\ Len(first') = 0 /\ ~TransferEnded'
    BY <1>4, <2>1 DEF Ended, TransferEnded
  <2>3. LoopTypeOK'
    BY <1>4, <2>1 DEF LoopTypeOK
  <2>4. QED
    BY <1>4, <2>1, <2>2, <2>3 DEF LoopInv
<1>5. CASE Outside \/ AcceptHelper \/ StopConnections
  BY <1>2, <1>5, OutsideFrame DEF AcceptHelper, StopConnections
<1>6. CASE Drain \/ Drained \/ WaitNotified \/ WaitCancelled \/ AcceptJoin \/ AcceptFailed \/ Accepted
  BY <1>0, <1>3, <1>6 DEF Drain, Drained, WaitNotified, WaitCancelled, AcceptJoin,
     AcceptFailed, Accepted,
     Return, LoopTypeOK, LoopInv
<1>7. CASE Spawn
  BY <1>0, <1>3, <1>7 DEF Spawn, HopFails, Return, hopRest, LoopInv, LoopTypeOK, Ended,
     TransferEnded
<1>8. CASE StartFirst
  BY <1>2, <1>8, <1>0 DEF StartFirst, hopRest
<1>9. CASE StartJoin
  <2>1. game' = [s \in Sides |-> "off"] /\ run = "start" /\ UNCHANGED <<state, delivered,
                                                                        shuttingDown>>
    BY <1>9 DEF StartJoin, hopRest
  <2>2. game' \in [Sides -> {"off", "run", "ok", "err"}] /\ game'["client"] # "ok"
    BY <2>1
  <2>3. state \notin delivered /\ shuttingDown \in BOOLEAN
    BY <1>0, <2>1 DEF HopInv, RecordInv, Between, LoopTypeOK
  <2>4. CASE run' = "bridge" /\ loop' = [l \in Loops |-> "read"] /\ first' = << >>
    BY <1>4, <2>1, <2>2, <2>3, <2>4
  <2>5. CASE run' = "returned" /\ UNCHANGED <<loop, first>>
    BY <1>3, <2>1, <2>2, <2>3, <2>5
  <2>6. QED
    BY <1>9, <2>4, <2>5 DEF StartJoin, HopFails, Return
<1>10. CASE HopFirst
  BY <1>0, <1>10 DEF HopFirst, hopRest, LoopInv, LoopTypeOK, Ended, TransferEnded
<1>11. CASE HopSecond
  <2>1. /\ loop' = [l \in Loops |-> "off"] /\ first' = << >> /\ shuttingDown' = FALSE
        /\ UNCHANGED game /\ run = "second" /\ run' \in {"prepare", "returned"}
    BY <1>11 DEF HopSecond, HopFails, Return
  <2>2. game \in [Sides -> {"off", "run", "ok", "err"}] /\ game["client"] # "ok"
    BY <1>0, <2>1 DEF LoopTypeOK, LoopInv
  <2>3. QED
    BY <1>4, <2>1, <2>2
<1>12. CASE Prepare \/ GraceEnds \/ FollowCancelled \/ SlotFree
  BY <1>0, <1>3, <1>12 DEF Prepare, GraceEnds, FollowCancelled, SlotFree, followRest,
     Return, LoopTypeOK, LoopInv
<1>13. ASSUME NEW s \in Sides, GameEnds(s) PROVE LoopInv' /\ LoopTypeOK'
  BY <1>0, <1>13 DEF GameEnds, LoopInv, LoopTypeOK, Ended, TransferEnded
<1>14. QED
  BY <1>5, <1>6, <1>7, <1>8, <1>9, <1>10, <1>11, <1>12, <1>13, LoopsKeep,
     NextCases DEF RunStep

-----------------------------------------------------------------------------
(* What is recorded of a hop.                                              *)

LEMMA RecordKeeps == IndInv /\ Next => RecordInv' /\ HistTypeOK'
<1> SUFFICES ASSUME IndInv, Next PROVE RecordInv' /\ HistTypeOK'
  OBVIOUS
<1> USE HopFacts, LoopNames DEF Bridging, Between, BridgeErrorOnce
<1>0. /\ RecordInv /\ HistTypeOK /\ RunTypeOK /\ HopInv /\ LoopInv /\ shuttingDown \in BOOLEAN
      /\ run # "returned"
  BY DEF IndInv, TypeOK, LoopTypeOK, Next
<1>1. ASSUME UNCHANGED <<run, state, current, histVars>>, shuttingDown' \in {shuttingDown, TRUE}
      PROVE  RecordInv' /\ HistTypeOK'
  BY <1>0, <1>1 DEF RecordInv, HistTypeOK
<1>2. ASSUME UNCHANGED <<current, histVars>>, run \notin Bridging,
                         state' = current' \/ run' \notin Bridging,
             run' \in Between => run \in Between /\ state' = state,
             run \in Between => run' \in Between \cup {"returned"}
      PROVE  RecordInv' /\ HistTypeOK'
  BY <1>0, <1>2 DEF RecordInv, HistTypeOK
<1>3. CASE Outside \/ AcceptHelper \/ StopConnections
  BY <1>1, <1>3, OutsideFrame DEF AcceptHelper, StopConnections
<1>4. CASE Drain \/ Drained \/ WaitNotified \/ WaitCancelled \/ AcceptJoin \/ AcceptFailed \/ Accepted
  BY <1>2, <1>4 DEF Drain, Drained, WaitNotified, WaitCancelled, AcceptJoin, AcceptFailed,
     Accepted, Return
<1>5. CASE Spawn \/ StartFirst \/ StartJoin
  BY <1>0, <1>2, <1>5 DEF Spawn, StartFirst, StartJoin, HopFails, hopRest, Return, HopInv
<1>6. CASE HopFirst
  BY <1>0, <1>6 DEF HopFirst, hopRest, RecordInv, HistTypeOK
<1>7. CASE HopSecond
  <2>1. /\ run = "second" /\ run' \in {"prepare", "returned"}
        /\ UNCHANGED <<state, current, delivered, bridgeErrors>>
    BY <1>7 DEF HopSecond, HopFails, hopRest, Return
  <2>2. closes' \in [Hops -> Nat]
    BY <1>0, <1>7 DEF HopSecond, HistTypeOK, RunTypeOK
  <2>3. ASSUME run' = "prepare" PROVE state \in delivered
    <3>1. transferFromLoops(first[1], first[2]) /\ Len(first) = 2
      BY <1>7, <2>3 DEF HopSecond, HopFails, Return
    <3>2. TransferEnded
      BY <3>1, <1>0 DEF transferFromLoops, TransferEnded, IndInv, TypeOK, LoopTypeOK
    <3>3. QED
      BY <3>2, <1>0 DEF LoopInv
  <2>4. QED
    BY <1>0, <2>1, <2>2, <2>3 DEF RecordInv, HistTypeOK
<1>8. CASE Prepare \/ FollowCancelled \/ SlotFree
  BY <1>0, <1>2, <1>8 DEF Prepare, FollowCancelled, SlotFree, followRest, Return
<1>9. CASE GraceEnds
  <2>1. current' = current + 1 /\ run' = "slot" /\ UNCHANGED histVars
    BY <1>0, <1>9 DEF GraceEnds, HopInv
  <2>2. current \in Nat /\ current + 1 \in Hops
    BY <1>0 DEF RunTypeOK, HopInv
  <2>3. QED
    BY <1>0, <2>1, <2>2 DEF RecordInv, HistTypeOK
<1>10. ASSUME NEW l \in Loops, NEW isWrite, NEW err, finishForwardAtHop(l, isWrite, err),
              loop[l] # "off", UNCHANGED <<run, state, current, delivered, closes>>
       PROVE  RecordInv' /\ HistTypeOK'
  <2>1. run \in Bridging /\ state = current /\ shuttingDown' = TRUE
    BY <1>0, <1>10 DEF finishForwardAtHop, LoopInv, HopInv
  <2>2. CASE UNCHANGED bridgeErrors
    BY <1>0, <1>10, <2>1, <2>2 DEF RecordInv, HistTypeOK
  <2>3. CASE bridgeErrors' = [bridgeErrors EXCEPT ![state] = @ + 1] /\ ~shuttingDown
    <3>1. bridgeErrors' \in [Hops -> Nat] /\ bridgeErrors'[state] = 1
      BY <1>0, <2>1, <2>3 DEF RecordInv, HistTypeOK, RunTypeOK
    <3>2. \A h \in Hops \ {state} : bridgeErrors'[h] = bridgeErrors[h]
      BY <1>0, <2>3 DEF HistTypeOK
    <3>3. QED
      BY <1>0, <1>10, <2>1, <3>1, <3>2 DEF RecordInv, HistTypeOK, RunTypeOK
  <2>4. QED
    BY <1>10, <2>2, <2>3 DEF finishForwardAtHop
<1>11. ASSUME NEW l \in Loops, LoopStep(l) PROVE RecordInv' /\ HistTypeOK'
  <2>1. UNCHANGED <<run, state, current, delivered, closes>>
    BY <1>11, LoopFrame
  <2>2. CASE LoopRead(l) \/ LoopCapture(l) \/ (LoopWrite(l) /\ DestCause(l) = "open")
    BY <1>1, <2>1, <2>2 DEF LoopRead, LoopCapture, LoopWrite
  <2>3. CASE LoopReadError(l)
    BY <1>10, <2>1, <2>3 DEF LoopReadError
  <2>4. CASE LoopWrite(l) /\ DestCause(l) # "open"
    BY <1>10, <2>1, <2>4 DEF LoopWrite
  <2>5. QED
    BY <1>11, <2>2, <2>3, <2>4 DEF LoopStep
<1>12. CASE TransferStep
  <2>1. UNCHANGED <<run, state, current, closes>>
    BY <1>12, TransferFrame
  <2>2. CASE LoopTransfer \/ LoopReturnsTransfer
    BY <1>1, <2>1, <2>2 DEF LoopTransfer, LoopReturnsTransfer
  <2>3. CASE LoopRewriteError
    BY <1>10, <2>1, <2>3 DEF LoopRewriteError
  <2>4. CASE LoopWriteTransfer
    <3>1. run \in Bridging /\ state = current /\ state \in Hops
      BY <1>0, <2>4 DEF LoopWriteTransfer, LoopInv, HopInv, RunTypeOK
    <3>2. CASE Open(client)
      BY <1>0, <2>1, <2>4, <3>1, <3>2 DEF LoopWriteTransfer, RecordInv, HistTypeOK,
         RunTypeOK
    <3>3. CASE ~Open(client)
      BY <1>10, <2>1, <2>4, <3>3 DEF LoopWriteTransfer
    <3>4. QED
      BY <3>2, <3>3
  <2>5. QED
    BY <1>12, <2>2, <2>3, <2>4 DEF TransferStep
<1>13. ASSUME NEW s \in Sides, GameEnds(s) PROVE RecordInv' /\ HistTypeOK'
  BY <1>1, <1>13, GameFrame
<1>14. QED
  BY <1>3, <1>4, <1>5, <1>6, <1>7, <1>8, <1>9, <1>11, <1>12, <1>13, NextCases DEF RunStep

-----------------------------------------------------------------------------
(* The dials.                                                              *)

LEMMA DialKeeps == IndInv /\ Next => DialInv' /\ HopTypeOK'
<1> SUFFICES ASSUME IndInv, Next PROVE DialInv' /\ HopTypeOK'
  OBVIOUS
<1> USE HopFacts DEF Bridging, Between, InHop
<1>0. DialInv /\ HopTypeOK /\ RunTypeOK /\ CtxTypeOK /\ HopInv /\ AcceptInv
  BY DEF IndInv, TypeOK
<1>1. CASE UNCHANGED <<run, state, hopVars>>
  BY <1>0, <1>1 DEF DialInv, HopTypeOK
<1>2. ASSUME UNCHANGED <<linked, slot, transferReady>>, UNCHANGED downstreamConn \/
                downstreamConn' \in [Hops -> Conns \cup {NoConn}],
             UNCHANGED upstream \/ upstream' = CloseUpstream(state),
             run' \in InHop => state' = state /\ slot[state] = "ok",
             run' \in Between => state' = state /\ slot[state] = "ok" /\ upstream'[state] # "open"
      PROVE  DialInv' /\ HopTypeOK'
  <2>1. HopTypeOK'
    BY <1>0, <1>2, UpstreamFacts DEF HopTypeOK, RunTypeOK
  <2>2. \A g \in Hops : /\ upstream'[g] = "open" => upstream[g] = "open"
                        /\ upstream'[g] = "none" => upstream[g] = "none"
    BY <1>0, <1>2, UpstreamFacts DEF RunTypeOK
  <2>3. QED
    BY <1>0, <1>2, <2>1, <2>2 DEF DialInv, HopTypeOK
<1>3. ASSUME NEW c \in Conns, OpenTransport(c) \/ ClientLeaves(c) \/ ListenerStep(c)
      PROVE  DialInv' /\ HopTypeOK'
  <2>1. UNCHANGED <<run, state, transferReady, upstream>>
    BY <1>3, ConnFrame
  <2>2. getAcceptState \in Hops
    BY <1>0 DEF getAcceptState, RunTypeOK
  <2>3. CASE UNCHANGED <<linked, slot>>
    <3>1. CASE UNCHANGED downstreamConn
      BY <1>1, <2>1, <2>3, <3>1
    <3>2. CASE downstreamConn' = [downstreamConn EXCEPT ![getAcceptState] = c]
      BY <1>0, <2>1, <2>2, <2>3, <3>2 DEF DialInv, HopTypeOK
    <3>3. QED
      BY <1>3, <3>1, <3>2 DEF OpenTransport, ClientLeaves, ListenerStep, Admit,
         TransportEnds, Notify,
         HandlerReturns, Fetch, FetchReturns, LoginDone
  <2>4. CASE Fetch(c) /\ slot[getAcceptState] = "new"
    <3>1. /\ linked' = [linked EXCEPT ![getAcceptState] = lifecycleConn(getAcceptState)]
          /\ slot' = [slot EXCEPT ![getAcceptState] = "waiting"] /\ UNCHANGED downstreamConn
      BY <2>4 DEF Fetch
    <3>2. lifecycleConn(getAcceptState) \in Conns \cup {NoConn}
      BY <1>0, <2>2 DEF lifecycleConn, CtxTypeOK, HopTypeOK
    <3>3. HopTypeOK'
      BY <1>0, <2>1, <3>1, <3>2 DEF HopTypeOK, Slots
    <3>4. QED
      BY <1>0, <2>1, <2>2, <2>4, <3>1, <3>3 DEF DialInv, HopTypeOK
  <2>5. QED
    BY <1>3, <2>3, <2>4 DEF OpenTransport, ClientLeaves, ListenerStep, Admit,
       TransportEnds, Notify,
       HandlerReturns, Fetch, FetchReturns, LoginDone
<1>4. ASSUME NEW h \in Hops, DialStep(h) \/ ServerLeaves(h) PROVE DialInv' /\ HopTypeOK'
  <2>1. UNCHANGED <<run, state, transferReady, downstreamConn, linked>>
    BY <1>4, DialFrame DEF slotRest
  <2>2. CASE DialStart(h) \/ DialCancelled(h)
    <3>1. PICK place \in {"dialing", "cancelled"} :
             slot' = [slot EXCEPT ![h] = place] /\ (place = "dialing" => h \in transferReady)
      BY <2>2 DEF DialStart, DialCancelled
    <3>2. UNCHANGED upstream /\ slot[h] # "ok"
      BY <2>2 DEF DialStart, DialCancelled
    <3>3. HopTypeOK'
      BY <1>0, <2>1, <3>1, <3>2 DEF HopTypeOK, Slots
    <3>4. /\ \A g \in Hops : slot[g] = "ok" <=> slot'[g] = "ok"
          /\ \A g \in Hops \ {h} : slot'[g] = slot[g]
          /\ slot'[h] = place
      BY <1>0, <3>1, <3>2 DEF HopTypeOK
    <3>5. QED
      BY <1>0, <2>1, <3>1, <3>2, <3>3, <3>4 DEF DialInv, HopTypeOK, RunTypeOK
  <2>3. CASE DialReturns(h)
    <3>1. slot[h] = "dialing" /\ h \in transferReady
      BY <1>0, <2>3 DEF DialReturns, DialInv
    <3>2. \/ slot' = [slot EXCEPT ![h] = "failed"] /\ UNCHANGED upstream
          \/ slot' = [slot EXCEPT ![h] = "ok"] /\ upstream' = [upstream EXCEPT ![h] = "open"]
      BY <2>3 DEF DialReturns
    <3>3. HopTypeOK'
      BY <1>0, <2>1, <3>2 DEF HopTypeOK, Slots
    <3>4. \A g \in Hops \ {h} : slot'[g] = slot[g] /\ upstream'[g] = upstream[g]
      BY <1>0, <3>2 DEF HopTypeOK
    <3>5. slot'[h] = "ok" => upstream'[h] = "open"
      BY <1>0, <3>2 DEF HopTypeOK
    <3>6. \A g \in transferReady \ {1} : g - 1 # h
      BY <1>0, <3>1 DEF DialInv
    <3>7. run \in InHop \cup Between => state # h
      BY <1>0, <3>1 DEF DialInv
    <3>8. QED
      BY <1>0, <2>1, <3>1, <3>3, <3>4, <3>5, <3>6, <3>7 DEF DialInv, HopTypeOK, RunTypeOK
  <2>4. CASE ServerLeaves(h)
    <3>1. PICK why \in Causes : upstream' = [upstream EXCEPT ![h] = why]
      BY <2>4 DEF ServerLeaves
    <3>2. UNCHANGED slot
      BY <2>4 DEF ServerLeaves
    <3>3. HopTypeOK'
      BY <1>0, <2>1, <3>1, <3>2 DEF HopTypeOK
    <3>4. \A g \in Hops : /\ upstream'[g] = "open" => upstream[g] = "open"
                          /\ upstream'[g] = "none" => upstream[g] = "none"
      BY <1>0, <3>1 DEF HopTypeOK, Causes
    <3>5. QED
      BY <1>0, <2>1, <3>2, <3>3, <3>4 DEF DialInv, HopTypeOK, RunTypeOK
  <2>5. QED
    BY <1>4, <2>2, <2>3, <2>4 DEF DialStep
<1>5. CASE Drain \/ Drained \/ WaitNotified \/ WaitCancelled \/ AcceptJoin \/ AcceptFailed
  BY <1>2, <1>5 DEF Drain, Drained, WaitNotified, WaitCancelled, AcceptJoin, AcceptFailed,
     Return
<1>6. CASE Accepted
  <2>1. downstreamConn' \in [Hops -> Conns \cup {NoConn}]
    BY <1>0, <1>6 DEF Accepted, HopTypeOK, RunTypeOK
  <2>2. QED
    BY <1>2, <1>6, <2>1 DEF Accepted, Return
<1>7. CASE StopConnections \/ Spawn \/ StartFirst \/ StartJoin \/ HopFirst
  BY <1>0, <1>2, <1>7 DEF StopConnections, Spawn, StartFirst, StartJoin, HopFirst,
     HopFails, hopRest, Return,
     DialInv
<1>8. CASE HopSecond
  BY <1>0, <1>2, <1>8, UpstreamFacts DEF HopSecond, HopFails, hopRest, Return, DialInv,
     RunTypeOK
<1>9. CASE Prepare
  <2>1. CASE run' = "returned" /\ UNCHANGED hopVars
    BY <1>0, <2>1 DEF DialInv, HopTypeOK
  <2>2. CASE run' = "grace" /\ transferReady' = transferReady \cup {state + 1}
    <3>1. UNCHANGED <<state, downstreamConn, slot, linked, upstream>> /\ run = "prepare"
      BY <1>9 DEF Prepare, followRest
    <3>2. state + 1 \in Hops /\ (state + 1) - 1 = state /\ state \in Nat
      BY <1>0 DEF RunTypeOK, HopInv
    <3>3. HopTypeOK'
      BY <1>0, <2>2, <3>1, <3>2 DEF HopTypeOK
    <3>4. \A h \in transferReady' \ {1} : slot[h - 1] = "ok" /\ upstream[h - 1] # "open"
      BY <1>0, <2>2, <3>1, <3>2 DEF DialInv
    <3>5. QED
      BY <1>0, <2>2, <3>1, <3>3, <3>4 DEF DialInv
  <2>3. QED
    BY <1>9, <2>1, <2>2 DEF Prepare, Return, followRest
<1>10. CASE GraceEnds \/ FollowCancelled \/ SlotFree
  BY <1>0, <1>2, <1>10 DEF GraceEnds, FollowCancelled, SlotFree, followRest, Return
<1>11. QED
  <2>1. CASE Outside
    BY <2>1, <1>1, <1>3, <1>4, ControlFrame DEF Outside
  <2>2. CASE (\E s \in Sides : GameEnds(s)) \/ (\E l \in Loops : LoopStep(l)) \/ TransferStep \/ AcceptHelper
    BY <2>2, <1>1, GameFrame, LoopFrame, TransferFrame DEF AcceptHelper
  <2>3. QED
    BY <2>1, <2>2, <1>5, <1>6, <1>7, <1>8, <1>9, <1>10, NextCases DEF RunStep

-----------------------------------------------------------------------------
(* The remaining types.                                                    *)

LEMMA RunTypes == IndInv /\ Next => RunTypeOK'
<1> SUFFICES ASSUME IndInv, Next PROVE RunTypeOK'
  OBVIOUS
<1> USE HopFacts DEF RunTypeOK
<1>0. RunTypeOK /\ HopInv /\ UNCHANGED scope
  BY DEF IndInv, TypeOK, Next
<1>1. CASE UNCHANGED runVars
  BY <1>0, <1>1
<1>2. CASE TransferStep
  BY <1>0, <1>2, TransferFrame DEF LoopTransfer, HopInv
<1>3. CASE AcceptHelper
  BY <1>0, <1>3 DEF AcceptHelper
<1>4. CASE Drain \/ Drained \/ WaitNotified \/ WaitCancelled
  BY <1>0, <1>4 DEF Drain, Drained, WaitNotified, WaitCancelled, Return, RunPlaces,
     getAcceptState
<1>5. CASE AcceptJoin \/ AcceptFailed \/ Accepted
  BY <1>0, <1>5 DEF AcceptJoin, AcceptFailed, Accepted, Return, RunPlaces
<1>6. CASE Spawn \/ StartFirst \/ StartJoin \/ HopFirst \/ HopSecond
  <2>1. UNCHANGED <<state, client, current, pending, acceptedResult>> /\ run' \in RunPlaces
    BY <1>0, <1>6 DEF Spawn, StartFirst, StartJoin, HopFirst, HopSecond, HopFails, hopRest,
       Return, RunPlaces
  <2>2. result' \in {"none", "nil", "error"}
    BY <1>0, <1>6 DEF Spawn, StartFirst, StartJoin, HopFirst, HopSecond, HopFails, Return
  <2>3. QED
    BY <1>0, <2>1, <2>2
<1>7. CASE Prepare \/ FollowCancelled \/ SlotFree
  BY <1>0, <1>7 DEF Prepare, FollowCancelled, SlotFree, followRest, Return, RunPlaces
<1>8. CASE GraceEnds
  BY <1>0, <1>8 DEF GraceEnds, RunPlaces, HopInv, Between
<1>9. QED
  <2>1. CASE Outside \/ StopConnections
    BY <2>1, <1>1, OutsideFrame DEF StopConnections
  <2>2. CASE (\E s \in Sides : GameEnds(s)) \/ (\E l \in Loops : LoopStep(l))
    BY <2>2, <1>1, GameFrame, LoopFrame
  <2>3. QED
    BY <2>1, <2>2, <1>2, <1>3, <1>4, <1>5, <1>6, <1>7, <1>8, NextCases DEF RunStep

LEMMA ControlTypes == IndInv /\ Next => CtlTypeOK'
<1> SUFFICES ASSUME IndInv, Next PROVE CtlTypeOK'
  OBVIOUS
<1>1. /\ runDone' \in {runDone, TRUE} /\ listening' \in {listening, FALSE}
      /\ broken' \in {broken, TRUE} /\ failure' \in {failure, TRUE}
  <2>1. CASE Outside \/ StopConnections \/ AcceptHelper
    BY <2>1, ControlFrame, ConnFrame, DialFrame DEF Outside, slotRest, StopConnections,
       AcceptHelper
  <2>2. CASE (\E s \in Sides : GameEnds(s)) \/ (\E l \in Loops : LoopStep(l)) \/ TransferStep
    BY <2>2, GameFrame, LoopFrame, TransferFrame
  <2>3. CASE RunStep
    BY <2>3 DEF RunStep, Return, HopFails, Drain, Drained, WaitNotified, WaitCancelled,
       AcceptJoin,
       AcceptFailed, Accepted, Spawn, StartFirst, StartJoin, HopFirst, HopSecond, Prepare,
       GraceEnds,
       FollowCancelled, SlotFree
  <2>4. QED
    BY <2>1, <2>2, <2>3, NextCases
<1>2. QED
  BY <1>1 DEF IndInv, TypeOK, CtlTypeOK

LEMMA ConnTypes == IndInv /\ Next => ConnTypeOK' /\ CtxTypeOK'
<1> SUFFICES ASSUME IndInv, Next PROVE ConnTypeOK' /\ CtxTypeOK'
  OBVIOUS
<1> USE HopFacts
<1>0. ConnTypeOK /\ CtxTypeOK /\ RunTypeOK
  BY DEF IndInv, TypeOK
<1>1. ASSUME UNCHANGED <<phase, gone, flow, fetched, ahead, gen, notified>>,
             UNCHANGED cause \/ cause' = Closing({client}, cause),
             UNCHANGED <<ctx, generation>> \/ Clear,
             UNCHANGED downstreamDisconnect \/ downstreamDisconnect' = << >>
      PROVE  ConnTypeOK' /\ CtxTypeOK'
  <2>1. ConnTypeOK'
    BY <1>0, <1>1, ClosingFacts DEF ConnTypeOK
  <2>2. CtxTypeOK'
    <3>1. downstreamDisconnect' \in Seq(Nat) /\ Len(downstreamDisconnect') <= 1
      <4>1. << >> \in Seq(Nat) /\ Len(<< >>) <= 1
        OBVIOUS
      <4>2. QED
        BY <1>0, <1>1, <4>1 DEF CtxTypeOK
    <3>2. ctx' \in Conns \cup {NoConn} /\ generation' \in Nat
      BY <1>0, <1>1 DEF CtxTypeOK, Clear
    <3>3. QED
      BY <1>0, <1>1, <3>1, <3>2 DEF CtxTypeOK
  <2>3. QED
    BY <2>1, <2>2
<1>2. ASSUME NEW c \in Conns, OpenTransport(c) PROVE ConnTypeOK' /\ CtxTypeOK'
  BY <1>0, <1>2 DEF OpenTransport, getAcceptState, RunTypeOK, ConnTypeOK, CtxTypeOK, Phases
<1>3. ASSUME NEW c \in Conns, ClientLeaves(c) \/ TransportEnds(c) PROVE ConnTypeOK' /\ CtxTypeOK'
  <2>1. CASE ClientLeaves(c)
    <3>1. PICK why \in Causes : /\ cause' = [cause EXCEPT ![c] = why]
                               /\ gone' = [gone EXCEPT ![c] = (why = "canceled")]
      BY <2>1 DEF ClientLeaves
    <3>2. (why = "canceled") \in BOOLEAN
      OBVIOUS
    <3>3. gone' \in [Conns -> BOOLEAN]
      BY <1>0, <3>1, <3>2, Zenon DEF ConnTypeOK
    <3>4. cause' \in [Conns -> Causes \cup {"open"}]
      BY <1>0, <3>1 DEF ConnTypeOK
    <3>5. UNCHANGED <<phase, flow, fetched, ahead, ctxVars>>
      BY <2>1 DEF ClientLeaves
    <3>6. QED
      BY <1>0, <3>3, <3>4, <3>5 DEF ConnTypeOK, CtxTypeOK
  <2>2. CASE TransportEnds(c)
    BY <1>0, <2>2 DEF TransportEnds, ConnTypeOK, CtxTypeOK, Causes
  <2>3. QED
    BY <1>3, <2>1, <2>2
<1>4. ASSUME NEW c \in Conns, Notify(c) PROVE ConnTypeOK' /\ CtxTypeOK'
  BY <1>0, <1>4 DEF Notify, ConnTypeOK, CtxTypeOK
<1>5. ASSUME NEW c \in Conns, Admit(c) \/ HandlerReturns(c) PROVE ConnTypeOK' /\ CtxTypeOK'
  <2>1. ConnTypeOK'
    BY <1>0, <1>5, ClosingFacts DEF Admit, HandlerReturns, ConnTypeOK, Phases
  <2>2. UNCHANGED ctxVars
    BY <1>5 DEF Admit, HandlerReturns
  <2>3. QED
    BY <1>0, <2>1, <2>2 DEF CtxTypeOK
<1>6. ASSUME NEW c \in Conns, Fetch(c) PROVE ConnTypeOK' /\ CtxTypeOK'
  BY <1>0, <1>6 DEF Fetch, getAcceptState, RunTypeOK, ConnTypeOK, CtxTypeOK, Phases
<1>7. ASSUME NEW c \in Conns, FetchReturns(c) \/ LoginDone(c) PROVE ConnTypeOK' /\ CtxTypeOK'
  <2>1. ConnTypeOK'
    BY <1>0, <1>7 DEF FetchReturns, LoginDone, ConnTypeOK, Phases
  <2>2. UNCHANGED ctxVars
    BY <1>7 DEF FetchReturns, LoginDone
  <2>3. QED
    BY <1>0, <2>1, <2>2 DEF CtxTypeOK
<1>8. CASE AcceptHelper
  BY <1>0, <1>8 DEF AcceptHelper, ConnTypeOK, CtxTypeOK, Phases
<1>9. CASE RunStep \/ StopConnections
  <2>1. CASE Drain \/ Drained \/ WaitNotified \/ WaitCancelled \/ AcceptJoin \/ AcceptFailed \/ Accepted
    BY <1>1, <2>1 DEF Drain, Drained, WaitNotified, WaitCancelled, AcceptJoin,
       AcceptFailed, Accepted
  <2>2. CASE StopConnections \/ Spawn \/ StartFirst \/ StartJoin \/ HopFirst \/ HopSecond
    BY <1>1, <2>2 DEF StopConnections, Spawn, StartFirst, StartJoin, HopFirst, HopSecond,
       HopFails, hopRest
  <2>3. CASE Prepare \/ GraceEnds \/ FollowCancelled \/ SlotFree
    BY <1>1, <2>3 DEF Prepare, GraceEnds, FollowCancelled, SlotFree, followRest
  <2>4. QED
    BY <1>9, <2>1, <2>2, <2>3 DEF RunStep
<1>10. QED
  <2>1. CASE Outside
    BY <2>1, <1>1, <1>2, <1>3, <1>4, <1>5, <1>6, <1>7, ControlFrame, DialFrame DEF Outside,
       ListenerStep, slotRest
  <2>2. CASE (\E s \in Sides : GameEnds(s)) \/ (\E l \in Loops : LoopStep(l)) \/ TransferStep
    BY <2>2, <1>1, GameFrame, LoopFrame, TransferFrame
  <2>3. QED
    BY <2>1, <2>2, <1>8, <1>9, NextCases

-----------------------------------------------------------------------------
(* The theorems.                                                           *)

LEMMA InitIndInv == Init => IndInv
<1> SUFFICES ASSUME Init PROVE IndInv
  OBVIOUS
<1> USE HopFacts, LoopNames, SessionAssumption DEF Init
<1>1. RunTypeOK /\ CtlTypeOK
  BY DEF RunTypeOK, CtlTypeOK, RunPlaces
<1>2. ConnTypeOK /\ HopTypeOK /\ HistTypeOK
  BY DEF ConnTypeOK, HopTypeOK, HistTypeOK, Phases, Causes, Slots
<1>3. CtxTypeOK /\ LoopTypeOK
  <2>1. << >> \in Seq(Nat) /\ << >> \in Seq(LoopErrors) /\ Len(<< >>) = 0
    OBVIOUS
  <2>2. CtxTypeOK
    BY <2>1 DEF CtxTypeOK
  <2>3. LoopTypeOK
    BY <2>1 DEF LoopTypeOK
  <2>4. QED
    BY <2>2, <2>3
<1>4. HopInv /\ AcceptInv
  BY DEF HopInv, AcceptInv, Bridging, Between, InHop, Players
<1>5. LoopInv
  BY DEF LoopInv, Ended, TransferEnded, Bridging
<1>6. RecordInv /\ DialInv
  BY DEF RecordInv, BridgeErrorOnce, DialInv, Bridging, Between, InHop
<1>7. QED
  BY <1>1, <1>2, <1>3, <1>4, <1>5, <1>6 DEF IndInv, TypeOK

LEMMA StutterIndInv == IndInv /\ UNCHANGED vars => IndInv'
<1> SUFFICES ASSUME IndInv, UNCHANGED vars PROVE IndInv'
  OBVIOUS
<1>1. UNCHANGED <<scope, runVars, ctlVars, connVars, ctxVars, hopVars, loopVars, histVars>>
  BY DEF vars
<1>2. TypeOK'
  BY <1>1 DEF IndInv, TypeOK, RunTypeOK, CtlTypeOK, ConnTypeOK, CtxTypeOK, HopTypeOK,
     LoopTypeOK, HistTypeOK
<1>3. HopInv' /\ AcceptInv' /\ LoopInv'
  BY <1>1 DEF IndInv, HopInv, FollowTransfers, AcceptInv, Players, Open, LoopInv, Ended,
     TransferEnded
<1>4. RecordInv' /\ DialInv'
  BY <1>1 DEF IndInv, RecordInv, BridgeErrorOnce, DialInv
<1>5. QED
  BY <1>2, <1>3, <1>4 DEF IndInv

(***************************************************************************)
(* The inductive invariant holds in every state of a session.              *)
(***************************************************************************)
THEOREM Invariance == Spec => []IndInv
<1>1. IndInv /\ [Next]_vars => IndInv'
  BY HopKeeps, AcceptKeeps, LoopKeeps, RecordKeeps, DialKeeps, RunTypes, ControlTypes,
     ConnTypes, StutterIndInv
     DEF IndInv, TypeOK
<1>2. QED
  BY <1>1, InitIndInv, PTL DEF Spec

(***************************************************************************)
(* Run, the listener, the dials and the loops keep their state well typed. *)
(***************************************************************************)
THEOREM TypeCorrect == Spec => []TypeOK
<1>1. IndInv => TypeOK
  BY DEF IndInv
<1>2. QED
  BY <1>1, Invariance, PTL

(***************************************************************************)
(* No hop's dial begins while the upstream connection of the hop before it *)
(* is open, for any number of hops (transferReady in FetchResourcePacks,   *)
(* CloseImmediately in runHop).                                            *)
(***************************************************************************)
THEOREM DialAlwaysAfterRelease == Spec => []DialAfterRelease
<1>1. IndInv => DialAfterRelease
  BY HopFacts DEF IndInv, DialInv, DialAfterRelease
<1>2. QED
  BY <1>1, Invariance, PTL

(***************************************************************************)
(* Of the two forward loops of a hop, at most one records a bridge error   *)
(* of an expected shutdown (the claim of shuttingDown in                   *)
(* finishForwardAtHop).                                                    *)
(***************************************************************************)
THEOREM BridgeErrorAlwaysOnce == Spec => []BridgeErrorOnce
<1>1. IndInv => BridgeErrorOnce
  BY DEF IndInv, RecordInv
<1>2. QED
  BY <1>1, Invariance, PTL

(***************************************************************************)
(* Without transfer following the connection that Run serves is the only   *)
(* one past the listener while it is open (MaximumPlayers 1).              *)
(***************************************************************************)
THEOREM AlwaysSoleClient == Spec => []SoleClient
<1>1. IndInv => SoleClient
  <2> SUFFICES ASSUME IndInv, ~FollowTransfers, run \in InHop, Open(client)
               PROVE  Players = {client}
    BY DEF SoleClient
  <2>1. client \in Players
    BY DEF IndInv, AcceptInv, Players
  <2>2. QED
    BY <2>1 DEF IndInv, AcceptInv
<1>2. QED
  BY <1>1, Invariance, PTL

(***************************************************************************)
(* When a Transfer has reached the client and the recorder works, runHop   *)
(* does not end the session because of the way the client left, in         *)
(* whichever order the two loops return (transferFromLoops).               *)
(***************************************************************************)
THEOREM TransferAlwaysFollowed == Spec => TransferFollowed
<1>1. ASSUME IndInv, Next, run = "second", run' = "returned", state \in delivered, ~broken,
             first[1] \in {"canceled", "transfer"}
      PROVE  FALSE
  <2>1. HopSecond
    <3>1. CASE Outside \/ StopConnections \/ AcceptHelper
      BY <1>1, <3>1, OutsideFrame DEF StopConnections, AcceptHelper
    <3>2. CASE (\E s \in Sides : GameEnds(s)) \/ (\E l \in Loops : LoopStep(l)) \/ TransferStep
      BY <1>1, <3>2, GameFrame, LoopFrame, TransferFrame
    <3>3. CASE RunStep
      BY <1>1, <3>3 DEF RunStep, Drain, Drained, WaitNotified, WaitCancelled, AcceptJoin,
         AcceptFailed,
         Accepted, Spawn, StartFirst, StartJoin, HopFirst, Prepare, GraceEnds,
         FollowCancelled, SlotFree
    <3>4. QED
      BY <1>1, <3>1, <3>2, <3>3, NextCases
  <2>2. Len(first) = 2 /\ ~(FollowTransfers /\ transferFromLoops(first[1], first[2]))
    BY <1>1, <2>1 DEF HopSecond
  <2>3. pending # NoHop /\ (loop["s2c"] = "sent" \/ TransferEnded)
    BY <1>1 DEF IndInv, LoopInv, Bridging
  <2>4. loop["s2c"] # "sent"
    BY <1>1, <2>2 DEF IndInv, LoopInv, Ended
  <2>5. FollowTransfers
    BY <1>1, <2>3 DEF IndInv, HopInv
  <2>6. first[1] = "transfer" \/ first[2] = "transfer"
    BY <2>2, <2>3, <2>4 DEF TransferEnded, IndInv, TypeOK, LoopTypeOK
  <2>7. QED
    BY <1>1, <2>2, <2>5, <2>6 DEF transferFromLoops
<1>2. IndInv /\ [Next]_vars =>
        [run = "second" /\ run' = "returned" /\ state \in delivered =>
           broken \/ first[1] \notin {"canceled", "transfer"}]_vars
  BY <1>1
<1>3. QED
  BY <1>2, Invariance, PTL DEF Spec, TransferFollowed

-----------------------------------------------------------------------------
(* Run implements the chain of hops of SessionHops.                        *)

LEMMA HopsStart == Init => Hop!HopsInit
  BY DEF Init, Hop!HopsInit, modeOfRun, InHop, Hops

LEMMA HopsStep == IndInv /\ Next => [Hop!Join \/ Hop!Close \/ Hop!Follow \/ Hop!End]_(Hop!hopsVars)
<1> SUFFICES ASSUME IndInv, Next
             PROVE  Hop!Join \/ Hop!Close \/ Hop!Follow \/ Hop!End \/ UNCHANGED Hop!hopsVars
  OBVIOUS
<1> USE DEF modeOfRun, InHop, Hop!hopsVars
<1>0. HopInv /\ RunTypeOK /\ run # "returned"
  BY DEF IndInv, TypeOK, Next
<1>1. CASE UNCHANGED <<run, current, closes>>
  BY <1>1
<1>2. ASSUME run' = "returned", UNCHANGED <<current, closes>> PROVE Hop!End
  BY <1>0, <1>2 DEF Hop!End, RunTypeOK, RunPlaces
<1>3. CASE Drain \/ Drained \/ WaitNotified \/ WaitCancelled \/ AcceptJoin \/ AcceptFailed
  BY <1>1, <1>2, <1>3 DEF Drain, Drained, WaitNotified, WaitCancelled, AcceptJoin,
     AcceptFailed, Return
<1>4. CASE Accepted
  BY <1>2, <1>4 DEF Accepted, Return, Hop!Join
<1>5. CASE Spawn \/ StartFirst \/ StartJoin \/ HopFirst
  BY <1>1, <1>2, <1>5 DEF Spawn, StartFirst, StartJoin, HopFirst, HopFails, hopRest, Return
<1>6. CASE HopSecond
  <2>1. CASE broken
    BY <1>2, <1>6, <2>1 DEF HopSecond, HopFails, hopRest, Return
  <2>2. CASE ~broken
    BY <1>0, <1>6, <2>2 DEF HopSecond, hopRest, Return, Hop!Close, HopInv
  <2>3. QED
    BY <2>1, <2>2
<1>7. CASE Prepare \/ FollowCancelled \/ SlotFree
  BY <1>1, <1>2, <1>7 DEF Prepare, FollowCancelled, SlotFree, followRest, Return
<1>8. CASE GraceEnds
  BY <1>0, <1>8 DEF GraceEnds, Hop!Follow, HopInv, Between
<1>9. QED
  <2>1. CASE Outside \/ StopConnections \/ AcceptHelper
    BY <2>1, <1>1, OutsideFrame DEF StopConnections, AcceptHelper
  <2>2. CASE (\E s \in Sides : GameEnds(s)) \/ (\E l \in Loops : LoopStep(l)) \/ TransferStep
    BY <2>2, <1>1, GameFrame, LoopFrame, TransferFrame
  <2>3. QED
    BY <2>1, <2>2, <1>3, <1>4, <1>5, <1>6, <1>7, <1>8, NextCases DEF RunStep

(***************************************************************************)
(* Run implements SessionHops: hops are joined, closed and followed one    *)
(* after the other, each closed at most once, and nothing follows the end. *)
(***************************************************************************)
THEOREM HopsImplemented == Spec => ImplementsHops
<1>1. UNCHANGED vars => UNCHANGED Hop!hopsVars
  BY DEF vars, Hop!hopsVars, modeOfRun
<1>2. IndInv /\ [Next]_vars => [Hop!Join \/ Hop!Close \/ Hop!Follow \/ Hop!End]_(Hop!hopsVars)
  BY <1>1, HopsStep
<1>3. QED
  BY <1>2, HopsStart, Invariance, PTL DEF Spec, ImplementsHops, Hop!HopsSpec

-----------------------------------------------------------------------------
(***************************************************************************)
(* The identity of a hop's client: the hop that Run bridges, the one its   *)
(* packets are attributed to and the one its login dialled are the same.   *)
(*                                                                         *)
(* The argument is about the session's own client, which opens its         *)
(* connections one after the other.  Of those, only the last can be open   *)
(* and not yet accepted (OrderInv), it belongs to the hop that accepts now *)
(* unless the client of the hop in progress is lost (LoginInv), and those  *)
(* that wait for Accept from an earlier hop are gone when the next hop     *)
(* accepts, because Accept takes them in the order they came (ClientInv).  *)
(***************************************************************************)

(* The order of the connections.                                           *)

LEMMA ConnOrder == \A b, c \in Conns : b < c \/ c < b \/ b = c
  BY SessionAssumption DEF Conns

\* The hop that accepts now has not had its Transfer.
LEMMA AcceptFacts ==
    ASSUME IndInv, run # "returned"
    PROVE  /\ getAcceptState \in Hops /\ getAcceptState \notin delivered
           /\ run \notin Bridging \cup Between => getAcceptState = current
           /\ run \in InHop \cup Between /\ state \in delivered => getAcceptState = state + 1
<1> USE HopFacts DEF getAcceptState, Bridging, Between, InHop
<1>1. RunTypeOK /\ HopInv /\ LoopInv /\ RecordInv
  BY DEF IndInv, TypeOK
<1>2. CASE pending # NoHop
  BY <1>1, <1>2 DEF RunTypeOK, HopInv, RecordInv
<1>3. CASE pending = NoHop
  BY <1>1, <1>3 DEF RunTypeOK, HopInv, RecordInv, LoopInv
<1>4. QED
  BY <1>2, <1>3

\* A step that neither opens a connection nor completes a login only moves connections on.
Onward ==
    /\ UNCHANGED <<flow, ahead>> /\ delivered \subseteq delivered'
    /\ \A c \in Conns : /\ phase'[c] = "none" <=> phase[c] = "none"
                        /\ phase'[c] = "ready" => phase[c] = "ready"
                        /\ cause'[c] = "open" => cause[c] = "open"

LEMMA OnwardSteps ==
    IndInv /\ Next => Onward \/ \E c \in Conns : OpenTransport(c) \/ LoginDone(c)
<1> SUFFICES ASSUME IndInv, Next PROVE Onward \/ \E c \in Conns : OpenTransport(c) \/ LoginDone(c)
  OBVIOUS
<1>0. ConnTypeOK
  BY DEF IndInv, TypeOK
<1>1. ASSUME UNCHANGED <<phase, flow, ahead>>, delivered \subseteq delivered',
             UNCHANGED cause \/ cause' = Closing({client}, cause)
      PROVE  Onward
  BY <1>0, <1>1, ClosingFacts DEF Onward
<1>2. ASSUME NEW c \in Conns, ClientLeaves(c) \/ TransportEnds(c) \/ Notify(c) PROVE Onward
  BY <1>0, <1>2 DEF ClientLeaves, TransportEnds, Notify, Onward, ConnTypeOK, Open
<1>3. ASSUME NEW c \in Conns, Admit(c) \/ HandlerReturns(c) PROVE Onward
  BY <1>0, <1>3, ClosingFacts DEF Admit, HandlerReturns, Onward, ConnTypeOK
<1>4. ASSUME NEW c \in Conns, Fetch(c) \/ FetchReturns(c) PROVE Onward
  BY <1>0, <1>4 DEF Fetch, FetchReturns, Onward, ConnTypeOK
<1>5. CASE AcceptHelper
  BY <1>0, <1>5 DEF AcceptHelper, FirstWaiting, Onward, ConnTypeOK
<1>6. CASE TransferStep
  <2>1. delivered \subseteq delivered'
    BY <1>6 DEF TransferStep, LoopTransfer, LoopRewriteError, LoopWriteTransfer,
       LoopReturnsTransfer
  <2>2. QED
    BY <1>1, <1>6, <2>1, TransferFrame
<1>7. CASE RunStep \/ StopConnections
  <2>1. CASE Drain \/ Drained \/ WaitNotified \/ WaitCancelled \/ AcceptJoin \/ AcceptFailed \/ Accepted
    BY <1>1, <2>1 DEF Drain, Drained, WaitNotified, WaitCancelled, AcceptJoin,
       AcceptFailed, Accepted
  <2>2. CASE StopConnections \/ Spawn \/ StartFirst \/ StartJoin \/ HopFirst \/ HopSecond
    BY <1>1, <2>2 DEF StopConnections, Spawn, StartFirst, StartJoin, HopFirst, HopSecond,
       HopFails, hopRest
  <2>3. CASE Prepare \/ GraceEnds \/ FollowCancelled \/ SlotFree
    BY <1>1, <2>3 DEF Prepare, GraceEnds, FollowCancelled, SlotFree, followRest
  <2>4. QED
    BY <1>7, <2>1, <2>2, <2>3 DEF RunStep
<1>8. QED
  <2>1. CASE Outside
    BY <2>1, <1>1, <1>2, <1>3, <1>4, ControlFrame, DialFrame DEF Outside, ListenerStep,
       slotRest
  <2>2. CASE (\E s \in Sides : GameEnds(s)) \/ (\E l \in Loops : LoopStep(l))
    BY <2>2, <1>1, GameFrame, LoopFrame
  <2>3. QED
    BY <2>1, <2>2, <1>5, <1>6, <1>7, NextCases

\* A session of the own client alone that still runs.
Own == IndInv /\ Strangers = {} /\ run # "returned" /\ OrderInv /\ LoginInv /\ ClientInv

\* An open connection that is not accepted yet is the last one.
LEMMA LastOpen ==
    ASSUME Own, NEW b \in Conns, NEW c \in Conns, phase[b] \in Entering, Open(b), phase[c] # "none"
    PROVE  ~(b < c)
  BY DEF Own, OrderInv, LoginInv

LEMMA OrderKeeps == Own /\ Next => OrderInv'
<1> SUFFICES ASSUME Own, Next PROVE OrderInv'
  OBVIOUS
<1>0. OrderInv /\ ConnTypeOK
  BY DEF Own, IndInv, TypeOK
<1>1. CASE Onward
  BY <1>0, <1>1 DEF OrderInv, Onward, Open
<1>2. ASSUME NEW c \in Conns, OpenTransport(c) PROVE OrderInv'
  <2>1. /\ phase' = [phase EXCEPT ![c] = "opened"] /\ flow' = [flow EXCEPT ![c] = getAcceptState]
        /\ phase[c] = "none" /\ UNCHANGED <<cause, ahead, delivered>>
    BY <1>2 DEF OpenTransport
  <2>2. \A b \in Conns : b < c => phase[b] # "none" /\ (~Open(b) \/ flow[b] \in delivered)
    BY <1>2 DEF OpenTransport, MayOpen, Own
  <2>3. \A d \in Conns : c < d => phase[d] = "none"
    BY <1>0, <2>1 DEF OrderInv
  <2>4. QED
    BY <1>0, <2>1, <2>2, <2>3, ConnOrder DEF OrderInv, ConnTypeOK, Open
<1>3. ASSUME NEW c \in Conns, LoginDone(c) PROVE OrderInv'
  <2>1. /\ phase' = [phase EXCEPT ![c] = "ready"] /\ phase[c] = "offered" /\ Open(c)
        /\ ahead' = [ahead EXCEPT ![c] = {b \in Conns : phase[b] = "ready"}]
        /\ UNCHANGED <<cause, flow, delivered>>
    BY <1>3 DEF LoginDone
  <2>2. \A d \in Conns : c < d => phase[d] = "none"
    BY <2>1, LastOpen DEF Entering
  <2>3. QED
    BY <1>0, <2>1, <2>2, ConnOrder DEF OrderInv, ConnTypeOK, Open
<1>4. QED
  BY <1>1, <1>2, <1>3, OnwardSteps DEF Own

-----------------------------------------------------------------------------
(* The login of an own connection.                                         *)

\* What Own says where Run is waiting, serving and between two hops.
LEMMA PlaceFacts ==
    ASSUME Own
    PROVE  /\ run \in InHop \cup Between =>
                /\ client \in Conns /\ phase[client] \in {"taken", "left"} /\ state = current
                /\ flow[client] = state /\ fetched[client] = state
           /\ run \in Between => state \in delivered /\ ~Lost
           /\ run \notin InHop => ~Lost
           /\ acceptedResult = "conn" => client \in Conns /\ phase[client] \in {"taken", "left"}
  BY DEF Own, IndInv, AcceptInv, HopInv, RecordInv, ClientInv, Lost, InHop, Between

\* When the loop is about to send a Transfer, or reads one, no other connection is entering
\* unless the client is lost.
LEMMA NoneEntering ==
    ASSUME Own, run \in Bridging, loop["s2c"] \in {"read", "xwrite"}, ~Lost,
           NEW d \in Conns, phase[d] # "none"
    PROVE  ~(client < d) /\ ~(phase[d] \in Entering /\ Open(d))
<1>1. state \notin delivered /\ client \in Conns /\ phase[client] \in {"taken", "left"}
  BY PlaceFacts DEF Own, IndInv, LoopInv, Bridging, InHop
<1>2. ~(client < d)
  BY <1>1 DEF Own, ClientInv, Lost, Bridging, InHop
<1>3. QED
  BY <1>1, <1>2, LastOpen, ConnOrder DEF Entering

LEMMA LoginKeeps == Own /\ Next /\ run' # "returned" => LoginInv'
<1> SUFFICES ASSUME Own, Next, run' # "returned" PROVE LoginInv'
  OBVIOUS
<1> USE HopFacts DEF Entering
<1>0. LoginInv /\ ConnTypeOK /\ RunTypeOK /\ CtxTypeOK /\ HopInv /\ run # "returned"
  BY DEF Own, IndInv, TypeOK
<1>1. ASSUME UNCHANGED <<phase, flow, fetched, ctx, delivered, game>>,
                         getAcceptState' = getAcceptState,
             \A c \in Conns : cause'[c] = "open" => cause[c] = "open",
             Lost => Lost',
             run \in {"spawn", "start"} => run' \in {"spawn", "start"} /\ client' = client /\ client \in Conns
      PROVE  LoginInv'
  BY <1>0, <1>1 DEF LoginInv, Open
<1>2. ASSUME UNCHANGED <<run, state, current, pending, client, delivered>>,
                         \A c \in Conns : cause'[c] = "open" => cause[c] = "open"
      PROVE  (Lost => Lost') /\ getAcceptState' = getAcceptState
             /\ (run \in {"spawn", "start"} => client \in Conns)
  BY <1>2, PlaceFacts DEF Lost, getAcceptState, Open, InHop
<1>3. ASSUME NEW c \in Conns, OpenTransport(c) PROVE LoginInv'
  <2>1. /\ phase' = [phase EXCEPT ![c] = "opened"] /\ flow' = [flow EXCEPT ![c] = getAcceptState]
        /\ ctx' = c /\ phase[c] = "none"
        /\ UNCHANGED <<run, state, current, pending, client, delivered, cause, fetched, game>>
    BY <1>3 DEF OpenTransport
  <2>2. (Lost <=> Lost') /\ getAcceptState' = getAcceptState
    BY <2>1 DEF Lost, getAcceptState, Open
  <2>3. \A d \in Conns \ {c} : phase[d] \in Entering => ~Open(d)
    <3>1. SUFFICES ASSUME NEW d \in Conns \ {c}, phase[d] \in Entering, Open(d) PROVE FALSE
      OBVIOUS
    <3>2. ~(d < c)
      <4>1. d < c => ~Open(d) \/ flow[d] \in delivered
        BY <1>3 DEF OpenTransport, MayOpen, Own
      <4>2. QED
        BY <4>1, <3>1, <1>0 DEF LoginInv
    <3>3. ~(c < d)
      BY <2>1, <3>1 DEF Own, OrderInv
    <3>4. QED
      BY <3>2, <3>3, ConnOrder
  <2>4. getAcceptState \notin delivered
    BY AcceptFacts DEF Own
  <2>5. \A d \in Conns \ {c} : phase'[d] = phase[d] /\ flow'[d] = flow[d]
    BY <1>0, <2>1 DEF ConnTypeOK
  <2>6. phase'[c] = "opened" /\ flow'[c] = getAcceptState /\ fetched[c] = NoHop
    BY <1>0, <2>1 DEF ConnTypeOK, LoginInv
  <2>7. QED
    BY <1>0, <2>1, <2>2, <2>3, <2>4, <2>5, <2>6 DEF LoginInv, Open
<1>4. ASSUME NEW c \in Conns, ClientLeaves(c) \/ TransportEnds(c) \/ Notify(c) PROVE LoginInv'
  <2>1. \A d \in Conns : cause'[d] = "open" => cause[d] = "open"
    BY <1>0, <1>4 DEF ClientLeaves, TransportEnds, Notify, ConnTypeOK, Open
  <2>2. QED
    BY <1>1, <1>2, <1>4, <2>1 DEF ClientLeaves, TransportEnds, Notify
<1>5. ASSUME NEW c \in Conns, Admit(c) \/ HandlerReturns(c) \/ FetchReturns(c) \/ LoginDone(c)
      PROVE  LoginInv'
  <2>1. /\ \A d \in Conns : cause'[d] = "open" => cause[d] = "open"
        /\ UNCHANGED <<run, state, current, pending, client, delivered, flow, fetched, ctx, game>>
    BY <1>0, <1>5, ClosingFacts DEF Admit, HandlerReturns, FetchReturns, LoginDone
  <2>2. \A d \in Conns \ {c} : phase'[d] = phase[d]
    BY <1>0, <1>5 DEF Admit, HandlerReturns, FetchReturns, LoginDone, ConnTypeOK
  <2>3. \/ phase'[c] = "left"
        \/ phase[c] = "opened" /\ phase'[c] = "login"
        \/ phase[c] = "fetch" /\ phase'[c] = "offered"
        \/ phase[c] = "offered" /\ phase'[c] = "ready" /\ Open(c)
    BY <1>0, <1>5 DEF Admit, HandlerReturns, FetchReturns, LoginDone, ConnTypeOK
  <2>4. (Lost => Lost') /\ getAcceptState' = getAcceptState /\ (run \in {"spawn", "start"} => client \in Conns)
    BY <1>2, <2>1
  <2>5. QED
    BY <1>0, <2>1, <2>2, <2>3, <2>4 DEF LoginInv, Open
<1>6. ASSUME NEW c \in Conns, Fetch(c) PROVE LoginInv'
  <2>1. /\ phase' = [phase EXCEPT ![c] = "fetch"] /\ fetched' = [fetched EXCEPT ![c] = getAcceptState]
        /\ phase[c] = "login" /\ Open(c)
        /\ UNCHANGED <<run, state, current, pending, client, delivered, cause, flow, ctx, game>>
    BY <1>6 DEF Fetch
  <2>2. (Lost <=> Lost') /\ getAcceptState' = getAcceptState
    BY <2>1 DEF Lost, getAcceptState, Open
  <2>3. \A d \in Conns \ {c} : phase'[d] = phase[d] /\ fetched'[d] = fetched[d]
    BY <1>0, <2>1 DEF ConnTypeOK
  <2>4. phase'[c] = "fetch" /\ fetched'[c] = getAcceptState
    BY <1>0, <2>1 DEF ConnTypeOK
  <2>5. QED
    BY <1>0, <2>1, <2>2, <2>3, <2>4 DEF LoginInv, Open
<1>7. CASE AcceptHelper
  <2>1. run \notin InHop /\ UNCHANGED <<run, state, current, pending, delivered, cause, flow,
                                        fetched, ctx>>
    BY <1>7 DEF AcceptHelper, Own, IndInv, AcceptInv, InHop
  <2>2. ~Lost /\ getAcceptState' = getAcceptState
    BY <2>1 DEF Lost, getAcceptState
  <2>3. \A d \in Conns : phase'[d] = phase[d] \/ phase'[d] = "taken"
    BY <1>0, <1>7 DEF AcceptHelper, ConnTypeOK
  <2>4. QED
    BY <1>0, <2>1, <2>2, <2>3 DEF LoginInv, Open, InHop
<1>8. CASE Drain \/ Drained \/ WaitNotified \/ WaitCancelled \/ AcceptJoin \/ AcceptFailed
  <2>1. /\ run \notin InHop /\ run' \notin InHop
        /\ UNCHANGED <<current, pending, delivered, cause, phase, flow, fetched, ctx, game>>
    BY <1>8 DEF Drain, Drained, WaitNotified, WaitCancelled, AcceptJoin, AcceptFailed,
       Return, InHop
  <2>2. ~Lost /\ getAcceptState' = getAcceptState
    BY <2>1 DEF Lost, getAcceptState
  <2>3. QED
    BY <1>1, <2>1, <2>2 DEF InHop
<1>9. CASE Accepted
  <2>1. /\ run = "accept" /\ run' = "spawn" /\ acceptedResult = "conn" /\ ctx' = NoConn
        /\ UNCHANGED <<client, state, current, pending, delivered, cause, phase, flow, fetched,
                       game>>
    BY <1>9 DEF Accepted, Return, Clear
  <2>2. client \in Conns /\ phase[client] \in {"taken", "left"} /\ flow[client] = current /\ current \notin delivered
    BY <2>1, PlaceFacts DEF Own, IndInv, RecordInv, ClientInv, InHop, Bridging, Between
  <2>3. ~Lost /\ getAcceptState' = getAcceptState /\ game["client"] # "ok"
    BY <2>1 DEF Lost, InHop, getAcceptState, Own, IndInv, LoopInv
  <2>4. ASSUME NEW d \in Conns, phase[d] \in {"opened", "login"}, Open(d) PROVE ~Open(client)
    <3>1. ~(d < client) /\ d # client
      BY <2>2, <2>4, LastOpen
    <3>2. client < d
      BY <2>2, <3>1, ConnOrder
    <3>3. QED
      BY <2>2, <2>4, <3>2 DEF Own, OrderInv
  <2>5. QED
    BY <1>0, <2>1, <2>2, <2>3, <2>4 DEF LoginInv, Open
<1>10. CASE StopConnections \/ StartFirst
  <2>1. /\ UNCHANGED <<run, state, current, pending, client, delivered, phase, flow, fetched,
                       ctx, game>>
        /\ cause' = Closing({client}, cause)
    BY <1>10 DEF StopConnections, StartFirst, hopRest
  <2>2. \A d \in Conns : cause'[d] = "open" => cause[d] = "open"
    BY <1>0, <2>1, ClosingFacts
  <2>3. QED
    BY <1>1, <1>2, <2>1, <2>2
<1>11. CASE Spawn
  <2>1. /\ run = "spawn" /\ run' = "start" /\ game'["client"] = "run"
        /\ UNCHANGED <<state, current, pending, client, delivered, cause, phase, flow, fetched,
                       ctx>>
    BY <1>11, LoopNames DEF Spawn, HopFails, Return, hopRest
  <2>2. (Lost <=> Lost') /\ getAcceptState' = getAcceptState
    BY <2>1 DEF Lost, InHop, getAcceptState, Open
  <2>3. QED
    BY <1>0, <2>1, <2>2 DEF LoginInv, Open
<1>12. ASSUME NEW s \in Sides, GameEnds(s) PROVE LoginInv'
  <2>1. UNCHANGED <<run, state, current, pending, client, delivered, cause, phase, flow,
                    fetched, ctx>>
    BY <1>12, GameFrame
  <2>2. (Lost <=> Lost') /\ getAcceptState' = getAcceptState
    BY <2>1 DEF Lost, getAcceptState, Open
  <2>3. ~Open(client) /\ game["client"] # "ok" => game'["client"] # "ok"
    BY <1>12, LoopNames DEF GameEnds, SideOpen, Own, IndInv, TypeOK, LoopTypeOK
  <2>4. QED
    BY <1>0, <2>1, <2>2, <2>3 DEF LoginInv, Open
<1>13. CASE StartJoin
  <2>1. /\ run = "start" /\ run' = "bridge" /\ game["client"] = "ok"
        /\ UNCHANGED <<state, current, pending, client, delivered, cause, phase, flow, fetched,
                       ctx>>
    BY <1>13, LoopNames DEF StartJoin, HopFails, Return, hopRest
  <2>2. (Lost <=> Lost') /\ getAcceptState' = getAcceptState
    BY <2>1 DEF Lost, InHop, getAcceptState, Open
  <2>3. QED
    BY <1>0, <2>1, <2>2 DEF LoginInv, Open
<1>14. ASSUME NEW l \in Loops, LoopStep(l) PROVE LoginInv'
  BY <1>1, <1>2, <1>14, LoopFrame
<1>15. CASE LoopRewriteError \/ LoopReturnsTransfer
  BY <1>1, <1>2, <1>15 DEF LoopRewriteError, LoopReturnsTransfer, loopRest
<1>16. CASE LoopTransfer
  <2>1. /\ pending' = state + 1 /\ loop["s2c"] = "read"
        /\ UNCHANGED <<run, state, current, client, delivered, cause, phase, flow, fetched,
                       ctx, game>>
    BY <1>16 DEF LoopTransfer
  <2>2. (Lost <=> Lost') /\ run \in Bridging
    BY <2>1, LoopNames DEF Lost, Open, Own, IndInv, LoopInv
  <2>3. CASE Lost
    BY <1>0, <2>1, <2>2, <2>3 DEF LoginInv, Open, Lost
  <2>4. CASE ~Lost
    <3>1. \A d \in Conns : phase[d] \in Entering => ~Open(d)
      BY <2>1, <2>2, <2>4, NoneEntering
    <3>2. QED
      BY <1>0, <2>1, <2>2, <3>1 DEF LoginInv, Open
  <2>5. QED
    BY <2>3, <2>4
<1>17. CASE LoopWriteTransfer
  <2>1. /\ UNCHANGED <<run, state, current, pending, client, cause, phase, flow, fetched, ctx,
                       game>>
        /\ loop["s2c"] = "xwrite"
    BY <1>17 DEF LoopWriteTransfer, loopRest
  <2>2. CASE UNCHANGED delivered
    BY <1>1, <1>2, <2>1, <2>2
  <2>3. CASE Open(client)
    <3>1. ~Lost /\ run \in Bridging
      BY <2>1, <2>3, LoopNames DEF Lost, Own, IndInv, LoopInv
    <3>2. \A d \in Conns : phase[d] \in Entering => ~Open(d)
      BY <2>1, <3>1, NoneEntering
    <3>3. QED
      BY <1>0, <2>1, <3>1, <3>2 DEF LoginInv, Open
  <2>4. QED
    BY <1>17, <2>2, <2>3 DEF LoopWriteTransfer
<1>18. CASE HopFirst \/ HopSecond
  <2>1. /\ run \in Bridging /\ run' \in {"second", "prepare"}
        /\ UNCHANGED <<state, current, pending, client, delivered, phase, flow, fetched, ctx,
                       game>>
        /\ UNCHANGED cause \/ cause' = Closing({client}, cause)
    BY <1>18 DEF HopFirst, HopSecond, HopFails, Return, hopRest, Bridging
  <2>2. \A d \in Conns : cause'[d] = "open" => cause[d] = "open"
    BY <1>0, <2>1, ClosingFacts
  <2>3. run' = "prepare" => state \in delivered
    BY <1>18, <2>1, RecordKeeps DEF Own, RecordInv, Between, HopFirst
  <2>4. client \in Conns /\ (Lost => Lost') /\ getAcceptState' = getAcceptState
    BY <2>1, <2>2, <2>3, PlaceFacts DEF Lost, InHop, Bridging, Open, getAcceptState
  <2>5. QED
    BY <1>1, <2>1, <2>2, <2>4 DEF Bridging
<1>19. CASE Prepare \/ FollowCancelled \/ SlotFree
  BY <1>1, <1>19, PlaceFacts DEF Prepare, FollowCancelled, SlotFree, followRest, Return,
     InHop, getAcceptState
<1>20. CASE GraceEnds
  <2>1. /\ run = "grace" /\ run' = "slot" /\ current' = pending /\ pending' = NoHop
        /\ cause' = Closing({client}, cause)
        /\ UNCHANGED <<state, client, delivered, phase, flow, fetched, ctx, game>>
    BY <1>20 DEF GraceEnds
  <2>2. getAcceptState' = getAcceptState /\ ~Lost
    BY <1>0, <2>1, PlaceFacts DEF getAcceptState, HopInv, Between
  <2>3. \A d \in Conns : cause'[d] = "open" => cause[d] = "open"
    BY <1>0, <2>1, ClosingFacts
  <2>4. QED
    BY <1>1, <2>1, <2>2, <2>3
<1>21. QED
  <2>1. CASE Outside
    BY <2>1, <1>1, <1>2, <1>3, <1>4, <1>5, <1>6, ControlFrame, DialFrame DEF Outside,
       ListenerStep, slotRest
  <2>2. CASE TransferStep
    BY <2>2, <1>15, <1>16, <1>17 DEF TransferStep
  <2>3. QED
    BY <2>1, <2>2, <1>7, <1>8, <1>9, <1>10, <1>11, <1>12, <1>13, <1>14, <1>18, <1>19,
       <1>20, NextCases DEF RunStep

-----------------------------------------------------------------------------
(* The client of a hop.                                                    *)

LEMMA ClientKeeps == Own /\ Next /\ run' # "returned" => ClientInv'
<1> SUFFICES ASSUME Own, Next, run' # "returned" PROVE ClientInv'
  OBVIOUS
<1> USE HopFacts
<1>0. ClientInv /\ ConnTypeOK /\ RunTypeOK /\ HopInv /\ AcceptInv /\ run # "returned"
  BY DEF Own, IndInv, TypeOK
\* Run stays where it is served or waiting, and connections only move on.
<1>1. ASSUME Onward, UNCHANGED <<client, state, current, delivered>>,
             run' \in InHop \cup Between <=> run \in InHop \cup Between,
             acceptedResult' = "conn" => acceptedResult = "conn",
             \A d \in Conns : fetched'[d] = fetched[d] \/ (phase[d] \in Entering /\ phase'[d] # "ready")
      PROVE  ClientInv'
  <2>1. run \in InHop \cup Between \/ acceptedResult = "conn" =>
           client \in Conns /\ phase[client] \in {"taken", "left"} /\ fetched'[client] = fetched[client]
    BY <1>1, PlaceFacts DEF Entering
  <2>2. QED
    BY <1>0, <1>1, <2>1 DEF ClientInv, Onward, Open
<1>2. ASSUME NEW c \in Conns, OpenTransport(c) PROVE ClientInv'
  <2>1. /\ phase' = [phase EXCEPT ![c] = "opened"] /\ flow' = [flow EXCEPT ![c] = getAcceptState]
        /\ phase[c] = "none"
        /\ UNCHANGED <<run, state, current, client, acceptedResult, delivered, cause, fetched>>
    BY <1>2 DEF OpenTransport
  <2>2. \A d \in Conns \ {c} : phase'[d] = phase[d] /\ flow'[d] = flow[d]
    BY <1>0, <2>1 DEF ConnTypeOK
  <2>3. phase'[c] = "opened" /\ flow'[c] = getAcceptState
    BY <1>0, <2>1 DEF ConnTypeOK
  <2>4. run \in InHop \cup Between \/ acceptedResult = "conn" => client \in Conns \ {c}
    BY <2>1, PlaceFacts
  <2>5. ASSUME run \in InHop \cup Between, client < c
        PROVE  \/ ~Open(client) /\ state \notin delivered
               \/ getAcceptState = state + 1 /\ state \in delivered
    <3>1. ~Open(client) \/ flow[client] \in delivered
      BY <1>2, <2>4, <2>5 DEF OpenTransport, MayOpen, Own
    <3>2. flow[client] = state
      BY <2>5, PlaceFacts
    <3>3. QED
      BY <2>5, <3>1, <3>2, AcceptFacts DEF Own
  <2>6. QED
    BY <1>0, <2>1, <2>2, <2>3, <2>4, <2>5 DEF ClientInv, Open
<1>3. ASSUME NEW c \in Conns, LoginDone(c) PROVE ClientInv'
  <2>1. /\ phase' = [phase EXCEPT ![c] = "ready"] /\ phase[c] = "offered" /\ Open(c)
        /\ UNCHANGED <<run, state, current, client, acceptedResult, delivered, cause, fetched,
                       flow>>
    BY <1>3 DEF LoginDone
  <2>2. \A d \in Conns \ {c} : phase'[d] = phase[d]
    BY <1>0, <2>1 DEF ConnTypeOK
  <2>3. run \in InHop \cup Between \/ acceptedResult = "conn" => client \in Conns \ {c} /\ ~(c < client)
    BY <2>1, PlaceFacts, LastOpen DEF Entering
  <2>4. run \notin InHop \cup Between => flow[c] = current /\ fetched[c] = current
    BY <2>1, PlaceFacts, AcceptFacts DEF Own, LoginInv, Entering, InHop, Bridging
  <2>5. QED
    BY <1>0, <2>1, <2>2, <2>3, <2>4 DEF ClientInv, Open
<1>4. CASE AcceptHelper
  <2>1. /\ run \notin InHop \cup Between /\ acceptedResult = "waiting"
        /\ UNCHANGED <<run, state, current, delivered, cause, fetched, flow>>
    BY <1>4 DEF AcceptHelper, Own, IndInv, AcceptInv, InHop, Between
  <2>2. CASE UNCHANGED <<phase, client>> /\ acceptedResult' = "error"
    BY <1>0, <2>1, <2>2 DEF ClientInv
  <2>3. ASSUME NEW c \in Conns, FirstWaiting(c), phase' = [phase EXCEPT ![c] = "taken"], client' = c
        PROVE  ClientInv'
    <3>1. \A b \in Conns : b < c => phase[b] # "ready"
      BY <2>3 DEF FirstWaiting, Own, OrderInv
    <3>2. \A d \in Conns : phase'[d] = phase[d] \/ (d = c /\ phase'[d] = "taken")
      BY <1>0, <2>3 DEF ConnTypeOK
    <3>3. QED
      BY <1>0, <2>1, <2>3, <3>1, <3>2 DEF ClientInv, FirstWaiting
  <2>4. QED
    BY <1>4, <2>2, <2>3 DEF AcceptHelper
<1>5. CASE Accepted
  <2>1. /\ run = "accept" /\ run' = "spawn" /\ acceptedResult = "conn" /\ state = current
        /\ UNCHANGED <<client, state, current, delivered, cause, phase, flow, fetched>>
    BY <1>0, <1>5 DEF Accepted, Return, HopInv
  <2>2. client \in Conns /\ flow[client] = current /\ fetched[client] = current /\ current \notin delivered
    BY <2>1, PlaceFacts DEF Own, IndInv, RecordInv, ClientInv, InHop, Bridging, Between
  <2>3. \A d \in Conns : client < d /\ phase[d] # "none" => ~Open(client)
    BY <2>2 DEF Own, OrderInv
  <2>4. QED
    BY <1>0, <2>1, <2>2, <2>3 DEF ClientInv, Open, InHop
<1>6. CASE GraceEnds
  <2>1. /\ run = "grace" /\ run' = "slot" /\ current' = state + 1 /\ acceptedResult' = "idle"
        /\ UNCHANGED <<client, phase, flow, fetched>>
    BY <1>0, <1>6 DEF GraceEnds, HopInv, AcceptInv, Between
  <2>2. client \in Conns /\ phase[client] \in {"taken", "left"} /\ state \in delivered /\ ~Lost
    BY <2>1, PlaceFacts DEF Between
  <2>3. ASSUME NEW c \in Conns, phase[c] = "ready"
        PROVE  flow[c] = state + 1 /\ fetched[c] = state + 1
    <3>1. client < c
      BY <2>1, <2>2, <2>3, <1>0, ConnOrder DEF ClientInv, Between
    <3>2. flow[c] = state + 1
      BY <2>1, <2>2, <2>3, <3>1, <1>0 DEF ClientInv, Between
    <3>3. fetched[c] = flow[c]
      BY <2>2, <2>3 DEF Own, LoginInv
    <3>4. QED
      BY <3>2, <3>3
  <2>4. QED
    BY <2>1, <2>3 DEF ClientInv, InHop, Between
<1>7. CASE LoopWriteTransfer
  <2>1. /\ UNCHANGED <<run, state, current, client, acceptedResult, cause, phase, flow, fetched>>
        /\ loop["s2c"] = "xwrite" /\ delivered' \in {delivered, delivered \cup {state}}
    BY <1>7 DEF LoopWriteTransfer, loopRest
  <2>2. run \in Bridging /\ run \in InHop
    BY <2>1, LoopNames DEF Own, IndInv, LoopInv, Bridging, InHop
  <2>3. CASE UNCHANGED delivered
    BY <1>0, <2>1, <2>3 DEF ClientInv, Open
  <2>4. CASE Open(client)
    <3>1. \A d \in Conns : phase[d] # "none" => ~(client < d)
      BY <2>1, <2>2, <2>4, NoneEntering DEF Lost
    <3>2. QED
      BY <1>0, <2>1, <2>2, <3>1 DEF ClientInv, Open
  <2>5. QED
    BY <1>7, <2>3, <2>4 DEF LoopWriteTransfer
\* All other steps.
<1>8. ASSUME NEW c \in Conns, ClientLeaves(c) \/ ListenerStep(c), ~LoginDone(c), Onward
      PROVE  ClientInv'
  <2>1. UNCHANGED <<run, client, state, current, delivered, acceptedResult>>
    BY <1>8, ConnFrame
  <2>2. \A d \in Conns : fetched'[d] = fetched[d] \/ (phase[d] \in Entering /\ phase'[d] # "ready")
    BY <1>0, <1>8 DEF ListenerStep, ClientLeaves, Admit, TransportEnds, Notify,
       HandlerReturns, Fetch,
       FetchReturns, ConnTypeOK, Entering
  <2>3. QED
    BY <1>1, <1>8, <2>1, <2>2
<1>9. CASE Onward /\ (Drain \/ WaitNotified \/ WaitCancelled \/ AcceptJoin \/ AcceptFailed)
  BY <1>1, <1>9 DEF Drain, WaitNotified, WaitCancelled, AcceptJoin, AcceptFailed, Return,
     InHop, Between
<1>10. CASE Drained
  <2>1. /\ run = "drain" /\ run' = "accept" /\ acceptedResult' = "waiting"
        /\ UNCHANGED <<current, phase, flow, fetched>>
    BY <1>10 DEF Drained, Return
  <2>2. QED
    BY <1>0, <2>1 DEF ClientInv, InHop, Between
<1>11. CASE Onward /\ (StopConnections \/ Spawn \/ StartFirst \/ StartJoin \/ HopFirst \/ HopSecond)
  BY <1>1, <1>11 DEF StopConnections, Spawn, StartFirst, StartJoin, HopFirst, HopSecond,
     HopFails, hopRest,
     Return, InHop, Between
<1>12. CASE Onward /\ (Prepare \/ FollowCancelled \/ SlotFree)
  BY <1>1, <1>12 DEF Prepare, FollowCancelled, SlotFree, followRest, Return, InHop, Between
<1>13. CASE Onward /\ (LoopTransfer \/ LoopRewriteError \/ LoopReturnsTransfer)
  BY <1>1, <1>13 DEF LoopTransfer, LoopRewriteError, LoopReturnsTransfer, loopRest
<1>14. CASE Onward /\ ((\E s \in Sides : GameEnds(s)) \/ (\E l \in Loops : LoopStep(l)))
  BY <1>1, <1>14, GameFrame, LoopFrame
<1>15. ASSUME Onward, RecorderBreaks \/ OpenTransportFails \/ FailureSet \/ CancelRun \/ StopAccept \/
                \E h \in Hops : DialStep(h) \/ ServerLeaves(h)
       PROVE  ClientInv'
  BY <1>1, <1>15, ControlFrame, DialFrame DEF slotRest
<1>16. QED
  <2>1. CASE \E c \in Conns : OpenTransport(c) \/ LoginDone(c)
    BY <2>1, <1>2, <1>3
  <2>2. CASE Onward /\ Outside
    BY <2>2, <1>2, <1>3, <1>8, <1>15 DEF Outside
  <2>3. CASE Onward /\ TransferStep
    BY <2>3, <1>7, <1>13 DEF TransferStep
  <2>4. CASE Onward /\ RunStep
    BY <2>4, <1>5, <1>6, <1>9, <1>10, <1>11, <1>12 DEF RunStep
  <2>5. QED
    BY <2>1, <2>2, <2>3, <2>4, <1>4, <1>11, <1>14, NextCases, OnwardSteps DEF Own

-----------------------------------------------------------------------------
(* The work of the login callback.                                         *)

LEMMA TiedKeeps == Own /\ PackWorkTied /\ Next => PackWorkTied'
<1> SUFFICES ASSUME Own, PackWorkTied, Next PROVE PackWorkTied'
  OBVIOUS
<1> USE HopFacts
<1>0. /\ HopTypeOK /\ RunTypeOK /\ ConnTypeOK /\ Strangers' = {}
      /\ \A h \in Hops : slot[h] \in {"waiting", "dialing"} => linked[h] # NoConn /\ fetched[linked[h]] = h
  BY DEF Own, IndInv, TypeOK, PackWorkTied, Strangers, Next
<1>1. ASSUME UNCHANGED <<linked, fetched>>,
             \A h \in Hops : slot'[h] \in {"waiting", "dialing"} => slot[h] \in {"waiting", "dialing"}
      PROVE  PackWorkTied'
  BY <1>0, <1>1 DEF PackWorkTied
<1>2. ASSUME NEW c \in Conns, Fetch(c) PROVE PackWorkTied'
  <2>1. /\ phase[c] = "login" /\ Open(c) /\ fetched[c] = NoHop
        /\ fetched' = [fetched EXCEPT ![c] = getAcceptState]
    BY <1>2 DEF Fetch, Own, LoginInv
  <2>2. getAcceptState \in Hops
    BY AcceptFacts DEF Own
  <2>3. \A h \in Hops : linked[h] \in Conns /\ fetched[linked[h]] = h => fetched'[linked[h]] = h
    BY <1>0, <2>1 DEF ConnTypeOK
  <2>4. \A h \in Hops : linked[h] # NoConn => linked[h] \in Conns
    BY <1>0 DEF HopTypeOK
  <2>5. CASE UNCHANGED <<linked, slot>>
    BY <1>0, <2>3, <2>4, <2>5 DEF PackWorkTied
  <2>6. CASE /\ slot[getAcceptState] = "new"
             /\ linked' = [linked EXCEPT ![getAcceptState] = lifecycleConn(getAcceptState)]
             /\ slot' = [slot EXCEPT ![getAcceptState] = "waiting"]
    <3>1. ctx = c
      <4>1. ASSUME run \in {"spawn", "start"} PROVE slot[getAcceptState] = "ok"
        BY <4>1 DEF getAcceptState, Own, IndInv, HopInv, DialInv, InHop, Bridging, Between
      <4>2. QED
        BY <2>1, <2>6, <4>1 DEF Own, LoginInv
    <3>2. lifecycleConn(getAcceptState) = c
      BY <3>1 DEF lifecycleConn
    <3>3. linked'[getAcceptState] = c /\ fetched'[c] = getAcceptState
      BY <1>0, <2>1, <2>2, <2>6, <3>2 DEF HopTypeOK, ConnTypeOK
    <3>4. \A h \in Hops \ {getAcceptState} : slot'[h] = slot[h] /\ linked'[h] = linked[h]
      BY <1>0, <2>6 DEF HopTypeOK
    <3>5. QED
      BY <1>0, <2>2, <2>3, <2>4, <3>3, <3>4 DEF PackWorkTied
  <2>7. QED
    BY <1>2, <2>5, <2>6 DEF Fetch
<1>3. ASSUME NEW c \in Conns, OpenTransport(c) \/ ClientLeaves(c) \/ ListenerStep(c), ~Fetch(c)
      PROVE  PackWorkTied'
  BY <1>1, <1>3 DEF OpenTransport, ClientLeaves, ListenerStep, Admit, TransportEnds,
     Notify, HandlerReturns,
     FetchReturns, LoginDone
<1>4. ASSUME NEW h \in Hops, DialStep(h) \/ ServerLeaves(h) PROVE PackWorkTied'
  <2>1. UNCHANGED <<linked, fetched>>
    BY <1>4, DialFrame DEF slotRest
  <2>2. \A g \in Hops : slot'[g] \in {"waiting", "dialing"} => slot[g] \in {"waiting", "dialing"}
    BY <1>0, <1>4 DEF DialStep, DialStart, DialCancelled, DialReturns, ServerLeaves,
       HopTypeOK
  <2>3. QED
    BY <1>1, <2>1, <2>2
<1>5. CASE RunStep \/ StopConnections \/ AcceptHelper
  BY <1>1, <1>5 DEF RunStep, StopConnections, AcceptHelper, Drain, Drained, WaitNotified,
     WaitCancelled,
     AcceptJoin, AcceptFailed, Accepted, Spawn, StartFirst, StartJoin, HopFirst, HopSecond,
     hopRest, Prepare,
     GraceEnds, FollowCancelled, SlotFree, followRest
<1>6. QED
  <2>1. CASE Outside
    BY <2>1, <1>1, <1>2, <1>3, <1>4, ControlFrame DEF Outside
  <2>2. CASE (\E s \in Sides : GameEnds(s)) \/ (\E l \in Loops : LoopStep(l)) \/ TransferStep
    BY <2>2, <1>1, GameFrame, LoopFrame, TransferFrame
  <2>3. QED
    BY <2>1, <2>2, <1>5, NextCases

(***************************************************************************)
(* As long as only the session's own client connects, its connections come *)
(* in order, log in for the hop that accepts, and the one that is served   *)
(* has the hop's identity.                                                 *)
(***************************************************************************)
THEOREM OwnInvariance == Spec => []OwnInv
<1>1. Init => OwnInv
  <2> SUFFICES ASSUME Init PROVE OwnInv
    OBVIOUS
  <2> USE HopFacts DEF Init
  <2>1. PackWorkTied
    BY DEF PackWorkTied
  <2>2. OrderInv /\ ClientInv
    BY DEF OrderInv, ClientInv, InHop, Between
  <2>3. LoginInv
    BY DEF LoginInv, Entering
  <2>4. QED
    BY <2>1, <2>2, <2>3 DEF OwnInv
<1>2. ASSUME IndInv, OwnInv, Next PROVE OwnInv'
  <2> SUFFICES ASSUME Strangers' = {}
               PROVE  PackWorkTied' /\ (run' # "returned" => OrderInv' /\ LoginInv' /\ ClientInv')
    BY DEF OwnInv
  <2>1. Own /\ PackWorkTied
    BY <1>2 DEF Own, OwnInv, Strangers, Next
  <2>2. QED
    BY <1>2, <2>1, OrderKeeps, LoginKeeps, ClientKeeps, TiedKeeps
<1>3. ASSUME OwnInv, UNCHANGED vars PROVE OwnInv'
  <2>1. UNCHANGED <<scope, runVars, ctlVars, connVars, ctxVars, hopVars, loopVars, histVars>>
    BY <1>3 DEF vars
  <2>2. /\ PackWorkTied' = PackWorkTied /\ OrderInv' = OrderInv /\ ClientInv' = ClientInv
        /\ LoginInv' = LoginInv /\ Strangers' = Strangers
    BY <2>1 DEF PackWorkTied, OrderInv, ClientInv, LoginInv, Strangers, Open, Lost,
       getAcceptState
  <2>3. QED
    BY <1>3, <2>1, <2>2 DEF OwnInv
<1>4. QED
  BY <1>1, <1>2, <1>3, Invariance, PTL DEF Spec

-----------------------------------------------------------------------------
(* Without transfers.                                                      *)

LEMMA SingleKeeps == IndInv /\ IndInv' /\ SingleInv /\ Next => SingleInv'
<1> SUFFICES ASSUME IndInv, IndInv', SingleInv, Next, ~FollowTransfers PROVE SingleInv'
  BY DEF SingleInv, FollowTransfers, Next
<1> USE HopFacts DEF SingleInv
<1>0. /\ ConnTypeOK /\ HopInv /\ AcceptInv /\ AcceptInv' /\ run # "returned" /\ getAcceptState = 1
      /\ run \notin Between
  BY DEF IndInv, TypeOK, Next, HopInv, getAcceptState
\* Run's hop stays, and connections only move on.
<1>1. ASSUME UNCHANGED <<client, state, current, flow>>,
             run' \in InHop => run \in InHop \/ acceptedResult = "conn",
             acceptedResult' = "conn" => acceptedResult = "conn",
             \A d \in Conns : phase'[d] = "none" <=> phase[d] = "none",
             \A d \in Conns : fetched'[d] = fetched[d] \/ (phase[d] \in Entering /\ fetched'[d] = 1),
             \A d \in Conns : phase'[d] \in {"fetch", "offered", "ready"} =>
                 phase[d] \in {"fetch", "offered", "ready"} \/ fetched'[d] = 1
      PROVE  SingleInv'
  <2>1. acceptedResult = "conn" \/ run \in InHop => client \in Conns /\ phase[client] \notin Entering
    BY <1>0 DEF AcceptInv, Entering
  <2>2. QED
    BY <1>1, <2>1
<1>2. CASE UNCHANGED <<run, client, state, current, acceptedResult, flow, phase, fetched>>
  BY <1>1, <1>2
<1>3. ASSUME NEW c \in Conns, OpenTransport(c) PROVE SingleInv'
  <2>1. /\ phase' = [phase EXCEPT ![c] = "opened"] /\ flow' = [flow EXCEPT ![c] = 1]
        /\ UNCHANGED <<run, client, state, current, acceptedResult, fetched>>
    BY <1>0, <1>3 DEF OpenTransport
  <2>2. QED
    BY <1>0, <2>1 DEF ConnTypeOK
<1>4. ASSUME NEW c \in Conns, ClientLeaves(c) \/ ListenerStep(c) PROVE SingleInv'
  <2>1. UNCHANGED <<run, client, state, current, acceptedResult, flow>>
    BY <1>4, ConnFrame DEF ClientLeaves, ListenerStep, Admit, TransportEnds, Notify,
       HandlerReturns, Fetch,
       FetchReturns, LoginDone
  <2>2. CASE Fetch(c)
    <3>1. phase[c] = "login" /\ phase' = [phase EXCEPT ![c] = "fetch"] /\ fetched' = [fetched EXCEPT ![c] = 1]
      BY <1>0, <2>2 DEF Fetch
    <3>2. QED
      BY <1>0, <1>1, <2>1, <3>1 DEF ConnTypeOK, Entering
  <2>3. CASE ~Fetch(c)
    <3>1. UNCHANGED fetched
      BY <1>4, <2>3 DEF ClientLeaves, ListenerStep, Admit, TransportEnds, Notify,
         HandlerReturns,
         FetchReturns, LoginDone
    <3>2. \A d \in Conns : /\ phase'[d] = "none" <=> phase[d] = "none"
                           /\ phase'[d] \in {"fetch", "offered", "ready"} =>
                                phase[d] \in {"fetch", "offered", "ready"}
      BY <1>0, <1>4, <2>3 DEF ClientLeaves, ListenerStep, Admit, TransportEnds, Notify,
         HandlerReturns,
         FetchReturns, LoginDone, ConnTypeOK
    <3>3. QED
      BY <1>1, <2>1, <3>1, <3>2
  <2>4. QED
    BY <2>2, <2>3
<1>5. CASE AcceptHelper
  <2>1. UNCHANGED <<run, state, current, flow, fetched>> /\ run \notin InHop
    BY <1>0, <1>5 DEF AcceptHelper, AcceptInv, InHop, Between
  <2>2. CASE UNCHANGED <<phase, client>> /\ acceptedResult' = "error"
    BY <2>1, <2>2
  <2>3. ASSUME NEW c \in Conns, FirstWaiting(c), phase' = [phase EXCEPT ![c] = "taken"], client' = c
        PROVE  SingleInv'
    BY <1>0, <2>1, <2>3 DEF FirstWaiting, ConnTypeOK
  <2>4. QED
    BY <1>5, <2>2, <2>3 DEF AcceptHelper
<1>6. CASE Drain \/ Drained \/ WaitNotified \/ WaitCancelled \/ AcceptJoin \/ AcceptFailed \/ Accepted
  BY <1>0, <1>1, <1>6 DEF Drain, Drained, WaitNotified, WaitCancelled, AcceptJoin,
     AcceptFailed, Accepted,
     Return, InHop
<1>7. CASE StopConnections \/ Spawn \/ StartFirst \/ StartJoin \/ HopFirst \/ HopSecond
  BY <1>1, <1>7 DEF StopConnections, Spawn, StartFirst, StartJoin, HopFirst, HopSecond,
     HopFails, hopRest,
     Return, InHop
<1>8. CASE Prepare \/ GraceEnds \/ FollowCancelled \/ SlotFree
  BY <1>0, <1>1, <1>8 DEF Prepare, GraceEnds, FollowCancelled, SlotFree, followRest,
     Return, InHop, Between
<1>9. QED
  <2>1. CASE Outside
    BY <2>1, <1>2, <1>3, <1>4, ControlFrame, DialFrame DEF Outside, slotRest
  <2>2. CASE (\E s \in Sides : GameEnds(s)) \/ (\E l \in Loops : LoopStep(l)) \/ TransferStep
    BY <2>2, <1>2, GameFrame, LoopFrame, TransferFrame
  <2>3. QED
    BY <2>1, <2>2, <1>5, <1>6, <1>7, <1>8, NextCases DEF RunStep

(***************************************************************************)
(* Without transfer following every connection, a stranger's too, is of    *)
(* the first hop.                                                          *)
(***************************************************************************)
THEOREM SingleInvariance == Spec => []SingleInv
<1>1. Init => SingleInv
  BY HopFacts DEF Init, SingleInv, InHop
<1>2. IndInv /\ IndInv' /\ SingleInv /\ Next => SingleInv'
  BY SingleKeeps
<1>3. SingleInv /\ UNCHANGED vars => SingleInv'
  BY DEF SingleInv, FollowTransfers, vars
<1>4. QED
  BY <1>1, <1>2, <1>3, Invariance, PTL DEF Spec

(***************************************************************************)
(* What Run bridges as a hop is attributed to that hop and was dialled for *)
(* it, however late or often the client reconnects (Network.wrap,          *)
(* FetchResourcePacks and Run's accept loop).                              *)
(***************************************************************************)
THEOREM IdentityAlwaysMatches == Spec => []IdentityMatches
<1>1. ASSUME IndInv, OwnInv, SingleInv PROVE IdentityMatches
  <2> SUFFICES ASSUME run \in InHop, FollowTransfers => Strangers = {}
               PROVE  flow[client] = state /\ fetched[client] = state
    BY DEF IdentityMatches
  <2>1. CASE Strangers = {}
    BY <1>1, <2>1 DEF OwnInv, ClientInv, InHop
  <2>2. CASE ~FollowTransfers
    <3>1. client \in Conns /\ phase[client] # "none"
      BY <1>1 DEF IndInv, AcceptInv
    <3>2. QED
      BY <1>1, <2>2, <3>1 DEF SingleInv
  <2>3. QED
    BY <2>1, <2>2
<1>2. QED
  BY <1>1, Invariance, OwnInvariance, SingleInvariance, PTL

(***************************************************************************)
(* The pack work and the dial of a hop always end with a connection that   *)
(* logs in for that hop (connectionLifecycleContext).                      *)
(***************************************************************************)
THEOREM PackWorkAlwaysTied == Spec => []PackWorkTied
<1>1. OwnInv => PackWorkTied
  BY DEF OwnInv, PackWorkTied
<1>2. QED
  BY <1>1, OwnInvariance, PTL
=============================================================================
