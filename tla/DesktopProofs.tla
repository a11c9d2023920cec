--------------------------- MODULE DesktopProofs ---------------------------
(***************************************************************************)
(* Proofs about the desktop application with an arbitrary peer, for every  *)
(* transport, every length of the messages and every number of clicks.     *)
(*                                                                         *)
(* The argument: there is one token, which is in turn the CONNECTED        *)
(* result, a read in flight and a MSG_RECEIVED result.  Accept creates it, *)
(* once; the end of the stream, an empty message or the end of the program *)
(* destroys it; everything else passes it on.                              *)
(***************************************************************************)
EXTENDS DesktopOpen, TLAPS

IInv == /\ TypeOK
        /\ OneReadInFlight
        /\ ReadChainUnbroken
        /\ ClickIsSendable
        /\ LifeCycle

(* The constructor establishes the inductive invariant.                    *)
LEMMA InitIInv == Init => IInv
<1> SUFFICES ASSUME Init PROVE IInv
    OBVIOUS
<1> USE DEF Init, AppInit, LinkInit
<1>1. ioResults \in [IOResultType -> Nat] /\ ReadingOrRead = 0
      BY DEF NoResults, IOResultType, ReadingOrRead
<1>2. commands \in 0..MaxClicks /\ uiEvents \in 0..1
      BY MaxClicksAssumption
<1>3. /\ stopFlag \in BOOLEAN /\ windowShouldClose \in BOOLEAN
      /\ connected \in BOOLEAN
      /\ isSendingBlinkCommand \in BOOLEAN
      BY Zenon
<1>4. TypeOK
      BY <1>1, <1>2, <1>3 DEF TypeOK, AppTypeOK, LinkTypeOK, Phases, LinkStates
<1>5. OneReadInFlight /\ ReadChainUnbroken /\ ClickIsSendable
      BY <1>1 DEF OneReadInFlight, ReadChainUnbroken, ClickIsSendable
<1>6. LifeCycle
      BY <1>1, MaxClicksAssumption DEF LifeCycle, NoResults, IOResultType
<1> QED
    BY <1>4, <1>5, <1>6 DEF IInv

(* A frame hands the token back to a read, and lets a click through only   *)
(* with a connection and no command outstanding.                           *)
LEMMA FrameIInv == IInv /\ Frame => IInv'
<1> SUFFICES ASSUME IInv, Frame PROVE IInv'
    OBVIOUS
<1> USE DEF IInv, TypeOK, AppTypeOK, LinkTypeOK, IOResultType
<1>1. /\ phase = "running" /\ UNCHANGED <<phase, acceptor, written, readEnded>>
      /\ UNCHANGED <<connType, stopFlag, windowShouldClose, link, toEsp, toDesk>>
      BY DEF Frame, callerVars, linkVars
<1>2. /\ ioResults' \in [IOResultType -> Nat]
      /\ ioResults'["CONNECTED"] = 0
      /\ ioResults'["MSG_RECEIVED"] = 0
      BY DEF Frame, processIOResults, NoResults
<1>3. reads' = ReadingOrRead /\ ReadingOrRead' = ReadingOrRead
      BY <1>2 DEF Frame, processIOResults, ReadingOrRead
<1>4. connected' = IF ioResults["CONNECTED"] > 0 THEN TRUE ELSE connected
      BY DEF Frame, processIOResults
<1>5. connected' \in BOOLEAN /\ isSendingBlinkCommand' \in BOOLEAN
      BY DEF Frame, processIOResults
<1>6. /\ uiEvents' \in 0..1 /\ commands' \in 0..MaxClicks
      /\ commands' + uiEvents' <= MaxClicks
      BY MaxClicksAssumption DEF Frame, processUiEvents, render, LifeCycle
<1>7. reads' \in Nat /\ writes' \in Nat /\ latencies' \in Nat
      BY DEF Frame, processUiEvents, processIOResults
<1>8. TypeOK'
      BY <1>1, <1>2, <1>5, <1>6, <1>7
<1>9. OneReadInFlight'
      BY <1>3 DEF OneReadInFlight
<1>10. ReadChainUnbroken'
  <2>1. CASE connected
        BY <2>1, <1>1, <1>3 DEF ReadChainUnbroken, EndOfStream
  <2>2. CASE ioResults["CONNECTED"] > 0
        BY <2>2, <1>3 DEF ReadChainUnbroken, OneReadInFlight, ReadingOrRead
  <2>3. CASE ~connected /\ ~(ioResults["CONNECTED"] > 0)
        BY <2>3, <1>4 DEF ReadChainUnbroken
  <2> QED BY <2>1, <2>2, <2>3
<1>11. ClickIsSendable'
      BY DEF Frame, render, ClickIsSendable
<1>12. LifeCycle'
  <2>1. ReadingOrRead = 0 => ioResults["CONNECTED"] = 0 /\ connected' = connected
    <3>1. SUFFICES ASSUME ReadingOrRead = 0
                   PROVE  /\ ioResults["CONNECTED"] = 0
                          /\ connected' = connected
          OBVIOUS
    <3>2. ioResults["CONNECTED"] = 0
          BY <3>1 DEF ReadingOrRead
    <3> QED
        BY <3>2, <1>4
  <2>2. acceptor' = "listening" => ReadingOrRead' = 0 /\ ~connected'
        BY <1>1, <1>3, <2>1 DEF LifeCycle
  <2>3. ~connected' => reads' = 0 /\ ioResults'["MSG_RECEIVED"] = 0
    <3>1. SUFFICES ASSUME ~connected' PROVE ReadingOrRead = 0
          BY <1>2, <1>3
    <3>2. ~connected /\ ioResults["CONNECTED"] = 0
          BY <3>1, <1>4
    <3> QED
        BY <3>2 DEF LifeCycle, ReadingOrRead
  <2>4. readEnded' # "no" => ReadingOrRead' = 0 /\ connected'
        BY <1>1, <1>3, <2>1 DEF LifeCycle
  <2> QED
      BY <1>1, <1>2, <1>6, <2>2, <2>3, <2>4 DEF LifeCycle
<1> QED
    BY <1>8, <1>9, <1>10, <1>11, <1>12

(* Every other handler and every step of the peer preserves it too.        *)
LEMMA NextIInv == IInv /\ [Next]_vars => IInv'
<1> SUFFICES ASSUME IInv, [Next]_vars PROVE IInv'
    OBVIOUS
<1> USE LengthsAssumption, MaxClicksAssumption, ConnTypesAssumption
<1> USE DEF IInv, TypeOK, AppTypeOK, LinkTypeOK, ReadingOrRead, OneReadInFlight,
            ReadChainUnbroken, EndOfStream, ClickIsSendable, LifeCycle,
            Push, NoResults, IOResultType, Phases, LinkStates,
            linkVars, appVars, ioVars, uiVars, callerVars
<1>1. CASE AcceptFails
      BY <1>1 DEF AcceptFails
<1>2. CASE AcceptCancelled
      BY <1>2 DEF AcceptCancelled
<1>3. CASE Accept
      BY <1>3 DEF Accept, ConnectionType
<1>4. CASE HandshakeDone
      BY <1>4 DEF HandshakeDone
<1>5. CASE HandshakeFails
      BY <1>5 DEF HandshakeFails
<1>6. CASE ReadCompletes
      BY <1>6 DEF ReadCompletes
<1>7. CASE ReadFails \/ ReadEmptyMessage
  <2>1. PICK why \in {"failed", "empty"} : ReadEnds(why) /\ (why = "failed" => EndOfStream)
        BY <1>7 DEF ReadFails, ReadEmptyMessage
  <2>2. ReadingOrRead = 1 /\ ReadingOrRead' = 0 /\ connected
        BY <2>1 DEF ReadEnds
  <2>3. ReadChainUnbroken'
        BY <2>1 DEF ReadEnds
  <2>4. TypeOK'
        BY <2>1 DEF ReadEnds
  <2>5. OneReadInFlight' /\ ClickIsSendable' /\ LifeCycle'
        BY <2>1, <2>2 DEF ReadEnds
  <2> QED
      BY <2>3, <2>4, <2>5
<1>8. CASE WriteCompletes
      BY <1>8 DEF WriteCompletes
<1>8a. CASE WriteHandled
      BY <1>8a DEF WriteHandled
<1>9. CASE Frame
      BY <1>9, FrameIInv
<1>10. CASE Stop
      BY <1>10 DEF Stop
<1>11. CASE RequestStop
      BY <1>11 DEF RequestStop
<1>12. CASE PeerConnects
      BY <1>12 DEF PeerConnects
<1>13. CASE PeerReads \/ PeerSends
  <2>1. /\ toEsp' \in Nat /\ toDesk' \in Nat /\ UNCHANGED <<appVars, link>>
        /\ link = "closed" => toDesk' = toDesk
        BY <1>13 DEF PeerReads, PeerSends
  <2> QED BY <2>1
<1>14. CASE PeerLeaves
  <2>1. /\ toEsp' \in Nat /\ toDesk' \in Nat /\ link' \in LinkStates
        /\ UNCHANGED appVars /\ link # "closed" /\ toDesk' <= toDesk
        BY <1>14 DEF PeerLeaves
  <2> QED BY <2>1
<1>15. CASE UNCHANGED vars
      BY <1>15 DEF vars
<1> QED
    BY <1>1, <1>2, <1>3, <1>4, <1>5, <1>6, <1>7, <1>8, <1>9, <1>10, <1>11,
       <1>12, <1>13, <1>14, <1>15, <1>8a DEF Next

(* The inductive invariant holds in every reachable state.                 *)
THEOREM Inductive == Spec => []IInv
<1>1. Init => IInv
      BY InitIInv
<1>2. IInv /\ [Next]_vars => IInv'
      BY NextIInv
<1> QED
    BY <1>1, <1>2, PTL DEF Spec

(* Type correctness of the desktop application.                            *)
THEOREM TypeCorrect == Spec => []TypeOK
<1>1. IInv => TypeOK
      BY DEF IInv
<1> QED
    BY <1>1, Inductive, PTL

(* There are never two reads on the connection, nor one and a result that  *)
(* starts another (wsAsyncRead, tcpAsyncRead, processIOResults).           *)
THEOREM NeverTwoReads == Spec => []OneReadInFlight
<1>1. IInv => OneReadInFlight
      BY DEF IInv
<1> QED
    BY <1>1, Inductive, PTL

(* The application reads until the stream has come to its end, whatever    *)
(* the peer does, short of sending an empty WebSocket message: no failure  *)
(* of a read and no handler ends the chain while there may still be a      *)
(* reply (wsAsyncRead, tcpAsyncRead, processIOResults).                    *)
THEOREM KeepsReading == Spec => []ReadChainUnbroken
<1>1. IInv => ReadChainUnbroken
      BY DEF IInv
<1> QED
    BY <1>1, Inductive, PTL

(* The order of the application's life: nothing is read or clicked before  *)
(* there is a connection, and a read chain that ended is not resumed (the  *)
(* accept handlers, processIOResults, render).                             *)
THEOREM LivesInOrder == Spec => []LifeCycle
<1>1. IInv => LifeCycle
      BY DEF IInv
<1> QED
    BY <1>1, Inductive, PTL

(* handleSendButtonClick always has a stream to write to.                  *)
THEOREM NeverSendsOnNull == Spec => []ClickIsSendable
<1>1. IInv => ClickIsSendable
      BY DEF IInv
<1> QED
    BY <1>1, Inductive, PTL

(* A command is only issued when the one before it has been answered.      *)
THEOREM OneCommandAtATime == Spec => CommandsDoNotOverlap
<1> USE DEF IInv, TypeOK, AppTypeOK, ClickIsSendable
<1>1. IInv /\ [Next]_vars =>
        [commands' # commands => commands' = commands + 1
                                 /\ ~isSendingBlinkCommand]_vars
  <2> SUFFICES ASSUME IInv, Next, commands' # commands
               PROVE  commands' = commands + 1 /\ ~isSendingBlinkCommand
      BY DEF vars
  <2>1. Frame
        BY DEF Next, AcceptFails, AcceptCancelled, Accept, HandshakeDone,
               HandshakeFails, ReadCompletes, ReadFails, ReadEmptyMessage,
               ReadEnds, WriteCompletes, WriteHandled, Stop, RequestStop,
               PeerConnects, PeerReads, PeerSends, PeerLeaves, appVars, uiVars
  <2>2. commands' = commands + uiEvents
        BY <2>1 DEF Frame, processUiEvents
  <2>3. uiEvents = 1
        BY <2>2
  <2> QED
      BY <2>2, <2>3
<1> QED
    BY <1>1, Inductive, PTL DEF Spec, CommandsDoNotOverlap
=============================================================================
