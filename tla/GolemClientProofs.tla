------------------------- MODULE GolemClientProofs --------------------------
(***************************************************************************)
(* The safety theorems of GolemClient, for any hop limit, any event buffer *)
(* and any forms.                                                          *)
(*                                                                         *)
(* IndInv is inductive.  The lemmas follow the goroutines: each says that  *)
(* the steps of one keep IndInv, with one case per action.                 *)
(***************************************************************************)
EXTENDS GolemClient, TLAPS

USE GolemAssumption
USE DEF netVars, stateVars, endVars, mainLocals, Hops, Goroutines, Running,
        ReaderAt, ReaderRest, InputRest, MainAt, MainRest, Quiet, Swapping, FollowPlaces,
        Ending

\* A send on Client.events keeps it a queue of events and adds one.
LEMMA AppendEvent ==
    ASSUME NEW q \in Seq({"form", "notice"}), NEW k \in {"form", "notice"}
    PROVE  Append(q, k) \in Seq({"form", "notice"}) /\ Len(Append(q, k)) = Len(q) + 1
  OBVIOUS

\* A receive keeps it one too.
LEMMA TailEvent ==
    ASSUME NEW q \in Seq({"form", "notice"}), q # << >>
    PROVE  Tail(q) \in Seq({"form", "notice"}) /\ Len(Tail(q)) = Len(q) - 1
  OBVIOUS

-----------------------------------------------------------------------------
(* finish, which three goroutines may call, and what happens to the client *)
(* from outside.                                                           *)

LEMMA FinishKeeps == ASSUME IndInv, NEW g \in Goroutines, Finish(g) PROVE IndInv'
<1> USE DEF IndInv, TypeOK, PlaceInv, StartInv, ConnInv, ClosedInv, EndInv, BlameRemote, TransfersExact,
            PassMeansClean
<1>1. CASE FinishBegin(g)
  BY <1>1 DEF FinishBegin
<1>2. CASE FinishClose(g)
  BY <1>2 DEF FinishClose, closeIt
<1>3. CASE FinishMark(g)
  BY <1>3 DEF FinishMark
<1>4. CASE FinishSkip(g)
  BY <1>4 DEF FinishSkip
<1>5. QED
  BY <1>1, <1>2, <1>3, <1>4 DEF Finish

LEMMA OutsideKeeps ==
    ASSUME IndInv, (\E h \in Hops : Break(h)) \/ Interrupt \/ onPacketFails PROVE IndInv'
<1> USE DEF IndInv, TypeOK, PlaceInv, StartInv, ConnInv, ClosedInv, EndInv, BlameRemote, TransfersExact,
            PassMeansClean
<1>1. ASSUME NEW h \in Hops, Break(h) PROVE IndInv'
  BY <1>1 DEF Break
<1>2. CASE Interrupt
  BY <1>2 DEF Interrupt
<1>3. CASE onPacketFails
  BY <1>3 DEF onPacketFails
<1>4. QED
  BY <1>1, <1>2, <1>3

-----------------------------------------------------------------------------
(* readLoop.                                                               *)

\* What record does with the events and with the reader, and what it leaves alone.
LEMMA RecordEffect ==
    ASSUME IndInv, NEW kind \in {"form", "notice"}, NEW place, record(kind, place)
    PROVE  /\ events' \in Seq({"form", "notice"}) /\ Len(events') <= Buffer
           /\ \/ rpc' = place /\ UNCHANGED endVars
              \/ rpc' = "exit" /\ fail("reader", "overflow")
<1>1. events \in Seq({"form", "notice"}) /\ Len(events) <= Buffer /\ Len(events) \in Nat
  BY DEF IndInv, TypeOK, PlaceInv
<1>2. CASE Len(events) < Buffer /\ events' = Append(events, kind)
  BY <1>1, <1>2, AppendEvent DEF record
<1>3. CASE UNCHANGED events
  BY <1>1, <1>3 DEF record
<1>4. QED
  BY <1>2, <1>3 DEF record

LEMMA ReadKeeps ==
    ASSUME IndInv, ReadFails \/ ReadForm \/ ReadNotice \/ ReadTransfer \/ ReaderExit
    PROVE IndInv'
<1> USE DEF IndInv, TypeOK, PlaceInv, StartInv, ConnInv, ClosedInv, EndInv, BlameRemote, TransfersExact,
            PassMeansClean
<1>1. CASE ReadFails
  BY <1>1 DEF ReadFails, CallFinish, fail
<1>2. CASE ReadForm
  <2>1. form' \in Forms
    BY <1>2 DEF ReadForm
  <2>2. QED
    BY <1>2, <2>1, RecordEffect DEF ReadForm, fail
<1>3. CASE ReadNotice
  BY <1>3, RecordEffect DEF ReadNotice, fail
<1>4. CASE ReadTransfer
  BY <1>4, RecordEffect DEF ReadTransfer, fail
<1>5. CASE ReaderExit
  BY <1>5 DEF ReaderExit
<1>6. QED
  BY <1>1, <1>2, <1>3, <1>4, <1>5

\* followTransfer's error returns: before the dial, from the dial, and after it.
LEMMA FollowFailsKeeps ==
    ASSUME IndInv, Running("reader"),
           NEW left, FollowFails(left),
           \/ left = conns /\ rpc = "validate"
           \/ left \in Left(conn + 1) /\ rpc = "redial"
           \/ left = closeIt(conn + 1) /\ rpc = "respawn"
    PROVE  IndInv'
<1> USE DEF IndInv, TypeOK, PlaceInv, StartInv, ConnInv, ClosedInv, EndInv, BlameRemote, TransfersExact,
            PassMeansClean
<1>1. CASE left = conns /\ rpc \in {"validate", "redial"}
  BY <1>1 DEF FollowFails
<1>2. CASE left = [conns EXCEPT ![conn + 1] = "open"] /\ rpc = "redial"
  BY <1>2 DEF FollowFails
<1>3. CASE left = closeIt(conn + 1) /\ rpc = "respawn"
  BY <1>3 DEF FollowFails, closeIt
<1>4. QED
  BY <1>1, <1>2, <1>3 DEF Left

LEMMA FollowKeeps ==
    ASSUME IndInv, FollowBegin \/ FollowRefused \/ FollowClose \/ FollowDial \/ FollowSpawn
    PROVE  IndInv'
<1> USE DEF IndInv, TypeOK, PlaceInv, StartInv, ConnInv, ClosedInv, EndInv, BlameRemote, TransfersExact,
            PassMeansClean
<1>1. CASE FollowBegin
  BY <1>1 DEF FollowBegin
<1>2. CASE FollowRefused
  BY <1>2, FollowFailsKeeps DEF FollowRefused
<1>3. CASE FollowClose
  BY <1>3 DEF FollowClose, closeIt
<1>4. CASE FollowDial
  <2>1. CASE \E left \in Left(conn + 1) : FollowFails(left)
    BY <1>4, <2>1, FollowFailsKeeps DEF FollowDial
  <2>2. CASE /\ ~cancelled /\ conns' = [conns EXCEPT ![conn + 1] = "open"] /\ rpc' = "respawn"
             /\ UNCHANGED <<conn, inputMu, paused, stateVars, endVars>> /\ ReaderRest
    <3>1. ReaderAt("redial")
      BY <1>4 DEF FollowDial
    <3>2. TypeOK' /\ PlaceInv' /\ StartInv'
      BY <2>2, <3>1
    <3>3. ConnInv'
      BY <2>2, <3>1
    <3>4. ClosedInv' /\ EndInv' /\ BlameRemote' /\ TransfersExact' /\ PassMeansClean'
      BY <2>2, <3>1
    <3>5. QED
      BY <3>2, <3>3, <3>4
  <2>3. QED
    BY <1>4, <2>1, <2>2 DEF FollowDial
<1>5. CASE FollowSpawn
  <2>1. CASE FollowFails(closeIt(conn + 1))
    BY <1>5, <2>1, FollowFailsKeeps DEF FollowSpawn
  <2>2. CASE rpc' = "connect" /\ UNCHANGED <<netVars, stateVars, endVars>> /\ ReaderRest
    <3>1. ReaderAt("respawn")
      BY <1>5 DEF FollowSpawn
    <3>2. TypeOK' /\ PlaceInv' /\ StartInv'
      BY <2>2, <3>1
    <3>3. ConnInv'
      BY <2>2, <3>1
    <3>4. ClosedInv' /\ EndInv' /\ BlameRemote' /\ TransfersExact' /\ PassMeansClean'
      BY <2>2, <3>1
    <3>5. QED
      BY <3>2, <3>3, <3>4
  <2>3. QED
    BY <1>5, <2>1, <2>2 DEF FollowSpawn
<1>6. QED
  BY <1>1, <1>2, <1>3, <1>4, <1>5

\* The new connection is set, published, announced and observed.
LEMMA PublishKeeps ==
    ASSUME IndInv, SetConnection \/ FollowPublish \/ FollowAnnounce \/ FollowObserve \/ FollowFailed
    PROVE  IndInv'
<1> USE DEF IndInv, TypeOK, PlaceInv, StartInv, ConnInv, ClosedInv, EndInv, BlameRemote, TransfersExact,
            PassMeansClean
<1>1. CASE SetConnection
  BY <1>1 DEF SetConnection
<1>2. CASE FollowPublish
  <2>1. conn \in 1..MaxHops /\ conn - 1 \in Nat /\ hops = conn - 1
    BY <1>2 DEF FollowPublish
  <2>2. TransfersExact'
    BY <1>2, <2>1 DEF FollowPublish
  <2>3. TypeOK' /\ PlaceInv' /\ StartInv'
    BY <1>2, <2>1 DEF FollowPublish
  <2>4. ConnInv' /\ ClosedInv' /\ EndInv' /\ BlameRemote' /\ PassMeansClean'
    BY <1>2, <2>1 DEF FollowPublish
  <2>5. QED
    BY <2>2, <2>3, <2>4
<1>3. CASE FollowAnnounce
  <2>1. CASE Len(events) < Buffer /\ events' = Append(events, "notice") /\ UNCHANGED endVars
    <3>1. events' \in Seq({"form", "notice"}) /\ Len(events') <= Buffer
      BY <2>1, AppendEvent
    <3>2. QED
      BY <1>3, <2>1, <3>1 DEF FollowAnnounce
  <2>2. CASE fail("reader", "overflow") /\ UNCHANGED events
    BY <1>3, <2>2 DEF FollowAnnounce, fail
  <2>3. QED
    BY <1>3, <2>1, <2>2 DEF FollowAnnounce
<1>4. CASE FollowObserve
  BY <1>4 DEF FollowObserve
<1>5. CASE FollowFailed
  BY <1>5 DEF FollowFailed, fail
<1>6. QED
  BY <1>1, <1>2, <1>3, <1>4, <1>5

LEMMA ReaderKeeps == ASSUME IndInv, ReaderStep PROVE IndInv'
  BY ReadKeeps, FollowKeeps, PublishKeeps DEF ReaderStep

-----------------------------------------------------------------------------
(* inputLoop.                                                              *)

LEMMA InputKeeps == ASSUME IndInv, InputStep PROVE IndInv'
<1> USE DEF IndInv, TypeOK, PlaceInv, StartInv, ConnInv, ClosedInv, EndInv, BlameRemote, TransfersExact,
            PassMeansClean
<1>1. CASE InputTick
  BY <1>1 DEF InputTick
<1>2. CASE sendClientInput
  <2>1. CASE UNCHANGED endVars
    BY <1>2, <2>1 DEF sendClientInput
  <2>2. CASE ~cancelled /\ conns[conn] # "open" /\ fail("input", "input")
    <3>1. conn \in Hops /\ conns[conn] = "broken"
      BY <1>2, <2>2 DEF sendClientInput
    <3>2. QED
      BY <1>2, <2>2, <3>1 DEF sendClientInput, fail
  <2>3. QED
    BY <1>2, <2>1, <2>2 DEF sendClientInput
<1>3. CASE InputStop
  BY <1>3 DEF InputStop
<1>4. QED
  BY <1>1, <1>2, <1>3 DEF InputStep

-----------------------------------------------------------------------------
(* runGolemNetwork.                                                        *)

\* Start's error returns: from the dial, from the spawn and from SpawnObserver.
LEMMA StartFailsKeeps ==
    ASSUME IndInv, Running("main"),
           NEW left, StartFails(left),
           \/ left \in Left(1) /\ mpc = "dial"
           \/ left = closeIt(1) /\ mpc = "spawn"
           \/ left = conns /\ mpc = "observe"
    PROVE  IndInv'
<1> USE DEF IndInv, TypeOK, PlaceInv, StartInv, ConnInv, ClosedInv, EndInv, BlameRemote, TransfersExact,
            PassMeansClean
<1>1. CASE left = conns /\ mpc \in {"dial", "observe"}
  BY <1>1 DEF StartFails, fail
<1>2. CASE left = [conns EXCEPT ![1] = "open"] /\ mpc = "dial"
  BY <1>2 DEF StartFails, fail
<1>3. CASE left = closeIt(1) /\ mpc = "spawn"
  BY <1>3 DEF StartFails, closeIt, fail
<1>4. QED
  BY <1>1, <1>2, <1>3 DEF Left

LEMMA StartKeeps == ASSUME IndInv,
StartDial \/ StartSpawn \/ StartLoops \/ StartFailed PROVE IndInv'
<1> USE DEF IndInv, TypeOK, PlaceInv, StartInv, ConnInv, ClosedInv, EndInv, BlameRemote, TransfersExact,
            PassMeansClean
<1>1. CASE StartDial
  <2>1. CASE \E left \in Left(1) : StartFails(left)
    BY <1>1, <2>1, StartFailsKeeps DEF StartDial
  <2>2. CASE /\ ~cancelled /\ conns' = [conns EXCEPT ![1] = "open"] /\ mpc' = "spawn"
             /\ UNCHANGED <<conn, inputMu, paused, stateVars, endVars, mainLocals>> /\ MainRest
    <3>1. MainAt("dial")
      BY <1>1 DEF StartDial
    <3>2. QED
      BY <2>2, <3>1
  <2>3. QED
    BY <1>1, <2>1, <2>2 DEF StartDial
<1>2. CASE StartSpawn
  <2>1. CASE StartFails(closeIt(1))
    BY <1>2, <2>1, StartFailsKeeps DEF StartSpawn
  <2>2. CASE /\ conn' = 1 /\ hops' = 1 /\ readerStarted' = TRUE /\ events' = <<"notice">> /\ mpc' = "observe"
             /\ UNCHANGED <<conns, inputMu, paused, form, transfers, endVars>>
             /\ UNCHANGED <<chosen, failed, closeErr, capture, session>> /\ MainRest
    <3>1. MainAt("spawn")
      BY <1>2 DEF StartSpawn
    <3>2. events' \in Seq({"form", "notice"}) /\ Len(events') = 1
      BY <2>2
    <3>3. QED
      BY <2>2, <3>1, <3>2
  <2>3. QED
    BY <1>2, <2>1, <2>2 DEF StartSpawn
<1>3. CASE StartLoops
  <2>1. CASE StartFails(conns)
    BY <1>3, <2>1, StartFailsKeeps DEF StartLoops
  <2>2. CASE /\ rpc' = "read" /\ ipc' = "tick" /\ mpc' = "greet"
             /\ UNCHANGED <<netVars, stateVars, endVars, mainLocals, evidence>>
    <3>1. MainAt("observe")
      BY <1>3 DEF StartLoops
    <3>2. QED
      BY <2>2, <3>1
  <2>3. QED
    BY <1>3, <2>1, <2>2 DEF StartLoops
<1>4. CASE StartFailed
  BY <1>4 DEF StartFailed
<1>5. QED
  BY <1>1, <1>2, <1>3, <1>4

LEMMA ScenarioKeeps == ASSUME IndInv, Scenario PROVE IndInv'
<1> USE DEF IndInv, TypeOK, PlaceInv, StartInv, ConnInv, ClosedInv, EndInv, BlameRemote, TransfersExact,
            PassMeansClean
<1>1. CASE Greet \/ EndOfInput \/ WaitForForm
  BY <1>1 DEF Greet, EndOfInput, WaitForForm
<1>2. CASE Quit
  BY <1>2 DEF Quit, CallFinish
<1>3. ASSUME RequestFails, mpc \notin {"dial", "spawn", "observe", "exited"} PROVE IndInv'
  BY <1>3 DEF RequestFails
<1>4. CASE OtherFails \/ NextEventEnds
  BY <1>3, <1>4 DEF OtherFails, NextEventEnds
<1>5. CASE NextEvent
  <2>1. events' \in Seq({"form", "notice"}) /\ Len(events') <= Buffer
    BY <1>5, TailEvent DEF NextEvent
  <2>2. QED
    BY <1>5, <2>1 DEF NextEvent
<1>6. CASE SelectForm
  BY <1>6 DEF SelectForm
<1>7. CASE SubmitForm
  BY <1>7 DEF SubmitForm
<1>8. CASE WriteResponse
  <2>1. CASE conns[conn] = "open"
    <3>1. mpc = "respond" /\ mpc' = "idle" /\ UNCHANGED failed /\ Quiet
      BY <1>8, <2>1 DEF WriteResponse
    <3>2. TypeOK' /\ PlaceInv' /\ StartInv'
      BY <3>1
    <3>3. ConnInv'
      BY <3>1
    <3>4. ClosedInv' /\ EndInv' /\ BlameRemote' /\ TransfersExact' /\ PassMeansClean'
      BY <3>1
    <3>5. QED
      BY <3>2, <3>3, <3>4
  <2>2. CASE conns[conn] # "open"
    BY <1>3, <1>8, <2>2 DEF WriteResponse
  <2>3. QED
    BY <2>1, <2>2
<1>9. QED
  BY <1>1, <1>2, <1>4, <1>5, <1>6, <1>7, <1>8 DEF Scenario

LEMMA EndKeeps == ASSUME IndInv, EndStep PROVE IndInv'
<1> USE DEF IndInv, TypeOK, PlaceInv, StartInv, ConnInv, ClosedInv, EndInv, BlameRemote, TransfersExact,
            PassMeansClean
<1>1. CASE QuitEnds
  BY <1>1 DEF QuitEnds
<1>2. CASE Close
  BY <1>2 DEF Close, CallFinish
<1>3. CASE CloseDone
  BY <1>3 DEF CloseDone, Closed
<1>4. CASE CloseTimesOut
  <2>1. closeErr' = TRUE /\ failed' = TRUE
    BY <1>4 DEF CloseTimesOut, Closed
  <2>2. QED
    BY <1>4, <2>1 DEF CloseTimesOut, Closed
<1>5. CASE FinishCapture
  <2>1. /\ evidence' \in BOOLEAN /\ (evidence => evidence')
        /\ failed' \in BOOLEAN /\ (failed => failed') /\ (closeErr => failed')
    <3>1. evidence' = evidence \/ evidence' = TRUE
      BY <1>5 DEF FinishCapture
    <3>2. failed' = failed \/ failed' = TRUE
      BY <1>5 DEF FinishCapture
    <3>3. evidence \in BOOLEAN /\ failed \in BOOLEAN /\ (closeErr => failed)
      OBVIOUS
    <3>4. QED
      BY ONLY <3>1, <3>2, <3>3
  <2>2. ~failed' /\ ~evidence' => capture' \in {"closed", "drainFailed"}
    BY <1>5, <2>1 DEF FinishCapture
  <2>3. QED
    BY <1>5, <2>1, <2>2 DEF FinishCapture
<1>6. CASE Report
  BY <1>6 DEF Report, Passes
<1>7. QED
  BY <1>1, <1>2, <1>3, <1>4, <1>5, <1>6 DEF EndStep

-----------------------------------------------------------------------------
LEMMA InitInv == ASSUME Init PROVE IndInv
<1>1. conns \in [Hops -> {"none", "open", "broken", "closed"}]
  BY DEF Init
<1>2. transfers \in [Hops -> {"none", "seen", "followed", "failed"}]
  BY DEF Init
<1>3. fin \in [Goroutines -> {"no", "want", "close", "mark"}]
  BY DEF Init
<1>4. TypeOK
  BY <1>1, <1>2, <1>3 DEF Init, TypeOK
<1>5. PlaceInv
  <2>1. events \in Seq({"form", "notice"})
    BY DEF Init
  <2>2. {cancelled, paused, closed, done, readerStarted, failed, closeErr, evidence} \subseteq BOOLEAN
    BY Zenon DEF Init
  <2>3. QED
    BY <1>3, <2>1, <2>2 DEF Init, PlaceInv
<1>6. StartInv
  BY <1>3 DEF Init, StartInv
<1>7. ConnInv /\ ClosedInv /\ EndInv
  BY DEF Init, ConnInv, ClosedInv, EndInv
<1>8. BlameRemote /\ TransfersExact /\ PassMeansClean
  BY DEF Init, BlameRemote, TransfersExact, PassMeansClean
<1>9. QED
  BY <1>4, <1>5, <1>6, <1>7, <1>8 DEF IndInv

(***************************************************************************)
(* IndInv is an invariant of the client.                                   *)
(***************************************************************************)
THEOREM Invariance == Spec => []IndInv
<1>1. Init => IndInv
  BY InitInv
<1>2. IndInv /\ [Next]_vars => IndInv'
  <2> SUFFICES ASSUME IndInv, [Next]_vars PROVE IndInv'
    OBVIOUS
  <2>1. CASE UNCHANGED vars
    BY <2>1 DEF vars, IndInv, TypeOK, PlaceInv, StartInv, ConnInv, ClosedInv, EndInv,
       BlameRemote,
                TransfersExact, PassMeansClean
  <2>2. QED
    BY <2>1, FinishKeeps, OutsideKeeps, ReaderKeeps, InputKeeps, StartKeeps, ScenarioKeeps,
       EndKeeps
    DEF Next, MainStep
<1>3. QED
  BY <1>1, <1>2, PTL DEF Spec

(***************************************************************************)
(* Type correctness: of the fields of Client, of closeOnce and of who is   *)
(* in finish.                                                              *)
(***************************************************************************)
THEOREM TypeCorrect == Spec => []TypeOK
<1>1. IndInv => TypeOK
  BY DEF IndInv
<1>2. QED
  BY <1>1, Invariance, PTL

(***************************************************************************)
(* However many transfers a server orders and whatever they race with,     *)
(* followTransfer never has two connections open.                          *)
(***************************************************************************)
THEOREM NeverTwoConnections == Spec => []OneConnection
<1>1. IndInv => OneConnection
  BY DEF IndInv, TypeOK, PlaceInv, StartInv, ConnInv, OneConnection
<1>2. QED
  BY <1>1, Invariance, PTL

(***************************************************************************)
(* readLoop and inputLoop record the loss of a connection only when the    *)
(* server's side ended one: never for the client's own Close, an interrupt *)
(* or the swap of connections in followTransfer.                           *)
(***************************************************************************)
THEOREM OnlyRemoteBlamed == Spec => []BlameRemote
<1>1. IndInv => BlameRemote
  BY DEF IndInv
<1>2. QED
  BY <1>1, Invariance, PTL

(***************************************************************************)
(* The report's transfers and its hop count agree at every moment a        *)
(* snapshot may be taken, for any hop limit.                               *)
(***************************************************************************)
THEOREM TransfersAlwaysExact == Spec => []TransfersExact
<1>1. IndInv => TransfersExact
  BY DEF IndInv
<1>2. QED
  BY <1>1, Invariance, PTL

(***************************************************************************)
(* cli_session=pass is given only to a session without error whose reader  *)
(* and connections have ended, and over a capture that was closed as good: *)
(* its manifest says failed at most for what recorder.Close drained.       *)
(***************************************************************************)
THEOREM PassAlwaysClean == Spec => []PassMeansClean
<1>1. IndInv => PassMeansClean
  BY DEF IndInv
<1>2. QED
  BY <1>1, Invariance, PTL
=============================================================================
