---------------------------- MODULE DsTwr_proofs ----------------------------
(***************************************************************************)
(* For all times and disturbances: the variables keep their types, a board *)
(* ends what its radio does before it begins something else, and the       *)
(* distance is computed from one exchange of frames.                       *)
(***************************************************************************)
EXTENDS DsTwr, TLAPS

Initiator == "initiator"
Responder == "responder"

LEMMA Boards ==
    /\ Board = {Initiator, Responder} /\ Initiator # Responder
    /\ Initiator \in Board /\ Responder \in Board
    /\ Peer(Initiator) = Responder /\ Peer(Responder) = Initiator
    /\ \A b \in Board : Peer(b) \in Board /\ Peer(b) # b /\ Peer(Peer(b)) = b
BY DEF Board, Peer, Initiator, Responder

(* TypeOK in parts that are proved one by one.                             *)
LoopTypes ==
    /\ state \in [Board -> State]
    /\ next \in [Board -> Case \cup {None}]
    /\ since \in [Board -> 0..Longest]
    /\ timer \in [Board -> 0..OverallTimeout \cup {None}]
    /\ stamps \in [Board -> Stamps]
    /\ measured \in (Stamps \X (Stamps \cup {None})) \cup {None}
    /\ cycle \in [Board -> 0..1]
FlagTypes ==
    /\ TxDone \in [Board -> BOOLEAN]
    /\ Rx0Done \in [Board -> BOOLEAN]
    /\ ahead \in -1..1
    /\ lost \in Nat /\ foreign \in Nat /\ late \in Nat /\ reboots \in Nat
    /\ Bearable(lost, foreign, late, reboots)
AirTypes ==
    /\ radio \in [Board -> Radio]
    /\ locked \in [Board -> BOOLEAN]
    /\ txFrame \in [Board -> Frame]
    /\ txTsu \in [Board -> Frame]
    /\ rxFrame \in [Board -> Frame]

LEMMA Parts == TypeOK <=> LoopTypes /\ FlagTypes /\ AirTypes
<1>1. {TxDone, Rx0Done} \subseteq [Board -> BOOLEAN]
        <=> TxDone \in [Board -> BOOLEAN] /\ Rx0Done \in [Board -> BOOLEAN]
  BY Zenon
<1>2. {txFrame, txTsu, rxFrame} \subseteq [Board -> Frame]
        <=> txFrame \in [Board -> Frame] /\ txTsu \in [Board -> Frame]
            /\ rxFrame \in [Board -> Frame]
  BY Zenon
<1>3. {lost, foreign, late, reboots} \subseteq Nat
        <=> lost \in Nat /\ foreign \in Nat /\ late \in Nat /\ reboots \in Nat
  BY Zenon
<1> QED
  BY <1>1, <1>2, <1>3, Zenon DEF TypeOK, LoopTypes, FlagTypes, AirTypes

(* The longest wait is one of those that are measured.                     *)
LEMMA LongestWait ==
    /\ Longest \in Nat /\ OverallTimeout \in Nat \ {0}
<1>1. CycleTime \in [Board -> Nat] /\ SyncAckTimeout \in Nat
      /\ SyncRxRestart \in Nat /\ WaitTime \in Nat /\ OverallTimeout \in Nat \ {0}
  <2>1. {SyncAckTimeout, OverallTimeout, SyncRxRestart} \subseteq Nat \ {0}
    BY DsTwrAssumption
  <2> QED
    BY <2>1, DsTwrAssumption
<1> DEFINE waits == {SyncAckTimeout, SyncRxRestart, WaitTime}
                       \cup {CycleTime[b] : b \in Board}
<1>2. waits = {SyncAckTimeout, SyncRxRestart, WaitTime,
               CycleTime[Initiator], CycleTime[Responder]}
  BY Boards
<1>3. CycleTime[Initiator] \in Nat /\ CycleTime[Responder] \in Nat
  BY <1>1, Boards
<1>4. \E t \in waits : \A w \in waits : w <= t
  <2> DEFINE m(x, y) == IF x <= y THEN y ELSE x
             t == m(m(CycleTime[Initiator], CycleTime[Responder]),
                    m(m(SyncAckTimeout, SyncRxRestart), WaitTime))
  <2>1. t \in waits
    BY <1>2
  <2>2. \A w \in waits : w <= t
    BY <1>1, <1>2, <1>3
  <2> QED
    BY <2>1, <2>2
<1>5. Longest \in waits
  BY <1>4 DEF Longest
<1> QED
  BY <1>1, <1>2, <1>3, <1>5

(* What a board will do next is a case.                                    *)
LEMMA GoTypes ==
    ASSUME NEW b \in Board, NEW to \in State, NEW end \in BOOLEAN, LoopTypes,
           Go(b, to, end)
    PROVE  next' \in [Board -> Case \cup {None}]
BY DEF LoopTypes, Go, Case

LEMMA States ==
    /\ Idle \in State /\ Terminate \in State
    /\ \A m \in Message : Start(m) \in State /\ Wait(m) \in State
    /\ \A m \in Message : m # "RESULT" => Following[m] \in Message
    /\ \A m \in Message : Start(m) # Idle /\ Start(m) # Terminate
                          /\ Wait(m) # Idle /\ Wait(m) # Terminate
    /\ \A m, n \in Message : Start(m) # Wait(n)
    /\ \A m, n \in Message : Start(m) = Start(n) => m = n
    /\ \A m, n \in Message : Wait(m) = Wait(n) => m = n
    /\ Idle # Terminate
<1>1. \A m \in Message : m # "RESULT" => Following[m] \in Message
  BY DEF Message, Following
<1> QED
  BY <1>1 DEF State, Idle, Terminate, Start, Wait

LEMMA Followers ==
    /\ Following["SYNC"] = "ACK" /\ Following["ACK"] = "POLL"
    /\ Following["POLL"] = "RESPONSE" /\ Following["RESPONSE"] = "FINAL"
    /\ Following["FINAL"] = "RESULT"
BY DEF Following

LEMMA Frames ==
    /\ NoFrame \in Frame /\ OtherFrame \in Frame
    /\ NoStamps \in Stamps
    /\ \A m \in Message, c \in 0..1 : <<m, c>> \in FrameId
<1>1. <<"none", 0>> \in FrameId /\ <<"other", 0>> \in FrameId
  BY DEF FrameId
<1> QED
  BY <1>1 DEF NoFrame, OtherFrame, NoStamps, Frame, Stamps, FrameId

LEMMA AfterTypes ==
    ASSUME NEW b \in Board, NEW m \in Message
    PROVE  /\ AfterReceived(b, m) \in State
           /\ (IF m = "RESULT" THEN Terminate ELSE Start(Following[m])) \in State
<1>1. Start("SYNC") \in State /\ Terminate \in State
  BY States DEF Message
<1>2. m # "RESULT" => Start(Following[m]) \in State
  BY States
<1> QED
  BY <1>1, <1>2 DEF AfterReceived

LEMMA InitTypes == Init => TypeOK
<1> SUFFICES ASSUME Init PROVE TypeOK
  OBVIOUS
<1>1. LoopTypes
  <2>1. Start("SYNC") \in State
    BY States DEF Message
  <2> QED
    BY <2>1, LongestWait, Frames DEF Init, LoopTypes
<1>3. AirTypes
  <2>1. "off" \in Radio
    BY DEF Radio
  <2> QED
    BY <2>1, Frames DEF Init, AirTypes
<1>2. FlagTypes
  <2>1. PICK bound \in Bounds : TRUE
    BY DsTwrAssumption
  <2>2. /\ 0 <= bound.lost /\ 0 <= bound.foreign
        /\ 0 <= bound.late /\ 0 <= bound.reboots
    BY DsTwrAssumption
  <2>3. Bearable(0, 0, 0, 0)
    BY <2>2 DEF Bearable
  <2> QED
    BY <2>3 DEF Init, FlagTypes
<1> QED
  BY <1>1, <1>2, <1>3, Parts

(* Every step keeps the types.                                             *)
LEMMA LoopTypesNext ==
    ASSUME TypeOK, Next
    PROVE  LoopTypes'
<1> USE DEF LoopTypes
<1>1. LoopTypes /\ FlagTypes /\ AirTypes
  BY Parts
<1>2. PICK b \in Board : \/ MainLoop(b) \/ TimerIrq(b)
                         \/ Air(b) \/ Missed(b) \/ FrameLost(b)
                         \/ ForeignFrame(b)
                         \/ Tick(b) \/ Reboot(b)
  BY DEF Next
<1>3. CASE IdleOver(b)
  <2>1. Start("SYNC") \in State
    BY States DEF Message
  <2>2. next' \in [Board -> Case \cup {None}]
    BY <1>1, <1>3, <2>1, GoTypes DEF IdleOver
  <2> QED
    BY <1>1, <1>3, <2>2 DEF IdleOver
<1>4. ASSUME NEW m \in Message, Transmit(b, m) PROVE LoopTypes'
  <2>1. next' \in [Board -> Case \cup {None}]
    BY <1>1, <1>4, States, GoTypes DEF Transmit
  <2>2. timer' \in [Board -> 0..OverallTimeout \cup {None}]
    BY <1>1, <1>4, LongestWait DEF Transmit, TimerInit
  <2> QED
    BY <1>1, <1>4, <2>1, <2>2 DEF Transmit
<1>5. ASSUME NEW m \in Message, Receive(b, m) PROVE LoopTypes'
  <2>1. next' \in [Board -> Case \cup {None}]
    BY <1>1, <1>5, States, GoTypes DEF Receive
  <2>2. timer' \in [Board -> 0..OverallTimeout \cup {None}]
    BY <1>1, <1>5, LongestWait DEF Receive, TimerInit
  <2>3. since' \in [Board -> 0..Longest]
    BY <1>1, <1>5, LongestWait DEF Receive
  <2> QED
    BY <1>1, <1>5, <2>1, <2>2, <2>3 DEF Receive
<1>6. ASSUME NEW m \in Message, Transmitted(b, m) PROVE LoopTypes'
  <2>1. next' \in [Board -> Case \cup {None}]
    <3> DEFINE to == IF m = "RESULT" THEN Terminate ELSE Start(Following[m])
    <3>1. to \in State
      BY AfterTypes
    <3>2. Go(b, to, TRUE)
      BY <1>6 DEF Transmitted
    <3> QED
      BY <1>1, <3>1, <3>2, GoTypes
  <2>2. stamps' \in [Board -> Stamps]
    <3>1. txTsu[b].id \in FrameId
      BY <1>1 DEF AirTypes, Frame
    <3>2. \A s \in Stamps : [s EXCEPT ![m] = txTsu[b].id] \in Stamps
      BY <3>1 DEF Stamps
    <3> QED
      BY <1>1, <1>6, <3>1, <3>2 DEF Transmitted, Stamps
  <2> QED
    BY <1>1, <1>6, <2>1, <2>2 DEF Transmitted
<1>7. ASSUME NEW m \in Message, Received(b, m) PROVE LoopTypes'
  <2>1. next' \in [Board -> Case \cup {None}]
    <3>1. Go(b, AfterReceived(b, m), TRUE)
      BY <1>7 DEF Received
    <3> QED
      BY <1>1, <3>1, AfterTypes, GoTypes
  <2>2. stamps' \in [Board -> Stamps]
    <3>1. rxFrame[b].id \in FrameId
      BY <1>1 DEF AirTypes, Frame
    <3> QED
      BY <1>1, <1>7, <3>1 DEF Received, Stamps
  <2>3. measured' \in (Stamps \X (Stamps \cup {None})) \cup {None}
    <3>1. rxFrame[b].data \in Stamps \cup {None} /\ stamps[b] \in Stamps
      BY <1>1 DEF AirTypes, Frame
    <3> QED
      BY <1>1, <1>7, <3>1 DEF Received
  <2>4. since' \in [Board -> 0..Longest]
    BY <1>1, <1>7, LongestWait DEF Received
  <2> QED
    BY <1>1, <1>7, <2>1, <2>2, <2>3, <2>4 DEF Received
<1>8. ASSUME NEW m \in Message, SyncTimeout(b, m) PROVE LoopTypes'
  <2>1. Start("SYNC") \in State
    BY States DEF Message
  <2>2. next' \in [Board -> Case \cup {None}]
    BY <1>1, <1>8, <2>1, GoTypes DEF SyncTimeout
  <2> QED
    BY <1>1, <1>8, <2>2 DEF SyncTimeout
<1>9. CASE Terminated(b)
  <2>1. next' \in [Board -> Case \cup {None}]
    BY <1>1, <1>9, States, GoTypes DEF Terminated
  <2>2. cycle' \in [Board -> 0..1]
    BY <1>1, <1>9 DEF Terminated
  <2> QED
    BY <1>1, <1>9, <2>1, <2>2 DEF Terminated
<1>10. CASE EndCase(b)
  <2>1. next[b].to \in State
    BY <1>1, <1>10 DEF EndCase, Case
  <2>2. since' \in [Board -> 0..Longest]
    BY <1>1, <1>10, LongestWait DEF EndCase
  <2> QED
    BY <1>1, <1>10, <2>1, <2>2 DEF EndCase
<1>11. CASE TimerIrq(b)
  BY <1>1, <1>11, States DEF TimerIrq
<1>12. CASE Air(b) \/ Missed(b)
  BY <1>1, <1>12 DEF Air, Scheduled, FrameEnding, FrameSent, Sent, Missed, loop
<1>13. CASE FrameLost(b) \/ ForeignFrame(b)
  BY <1>1, <1>13 DEF FrameLost, ForeignFrame, Sent, loop
<1>14. CASE Tick(b)
  <2>1. since' \in [Board -> 0..Longest]
    BY <1>1, <1>14, LongestWait DEF Tick
  <2>2. timer' \in [Board -> 0..OverallTimeout \cup {None}]
    BY <1>1, <1>14, LongestWait DEF Tick
  <2> QED
    BY <1>1, <1>14, <2>1, <2>2 DEF Tick
<1>15. CASE Reboot(b)
  <2>1. Start("SYNC") \in State
    BY States DEF Message
  <2> QED
    BY <1>1, <1>15, <2>1, LongestWait, Frames DEF Reboot
<1> QED
  BY <1>2, <1>3, <1>4, <1>5, <1>6, <1>7, <1>8, <1>9, <1>10, <1>11, <1>12,
     <1>13, <1>14, <1>15 DEF MainLoop

LEMMA FlagTypesNext ==
    ASSUME TypeOK, Next
    PROVE  FlagTypes'
<1> USE DEF FlagTypes
<1>1. FlagTypes
  BY Parts
<1>2. PICK b \in Board : \/ MainLoop(b) \/ TimerIrq(b)
                         \/ Air(b) \/ Missed(b) \/ FrameLost(b)
                         \/ ForeignFrame(b)
                         \/ Tick(b) \/ Reboot(b)
  BY DEF Next
<1>3. CASE MainLoop(b)
  BY <1>1, <1>3 DEF MainLoop, IdleOver, Transmit, Receive, Transmitted,
                    SyncTimeout, Received, Terminated, EndCase, flags, env
<1>4. CASE TimerIrq(b)
  BY <1>1, <1>4 DEF TimerIrq, env
<1>5. CASE Scheduled(b) \/ FrameEnding(b) \/ Missed(b)
  BY <1>1, <1>5 DEF Scheduled, FrameEnding, Missed, flags, env
<1>6. ASSUME NEW ok \in BOOLEAN, NEW arrives \in BOOLEAN, Sent(b, ok, arrives)
      PROVE  TxDone' \in [Board -> BOOLEAN] /\ Rx0Done' \in [Board -> BOOLEAN]
  BY <1>1, <1>6 DEF Sent
<1>7. CASE FrameSent(b)
  BY <1>1, <1>6, <1>7 DEF FrameSent, env
<1>8. CASE FrameLost(b)
  <2>1. TxDone' \in [Board -> BOOLEAN] /\ Rx0Done' \in [Board -> BOOLEAN]
    BY <1>6, <1>8 DEF FrameLost
  <2>2. UNCHANGED <<ahead, foreign, late, reboots>> /\ lost' = lost + 1
        /\ Bearable(lost', foreign', late', reboots')
    BY <1>8 DEF FrameLost
  <2> QED
    BY <1>1, <2>1, <2>2
<1>9. CASE ForeignFrame(b)
  BY <1>1, <1>9 DEF ForeignFrame
<1>10. CASE Tick(b)
  <2>1. UNCHANGED <<lost, foreign, reboots>> /\ late' \in Nat
        /\ Bearable(lost', foreign', late', reboots')
    BY <1>1, <1>10 DEF Tick
  <2> QED
    BY <1>1, <1>10, <2>1 DEF Tick, flags
<1>11. CASE Reboot(b)
  <2>1. UNCHANGED <<ahead, lost, foreign, late>> /\ reboots' = reboots + 1
        /\ Bearable(lost', foreign', late', reboots')
    BY <1>11 DEF Reboot
  <2> QED
    BY <1>1, <1>11, <2>1 DEF Reboot
<1> QED
  BY <1>2, <1>3, <1>4, <1>5, <1>7, <1>8, <1>9, <1>10, <1>11 DEF Air

LEMMA AirTypesNext ==
    ASSUME TypeOK, Next
    PROVE  AirTypes'
<1> USE DEF AirTypes
<1>1. AirTypes /\ LoopTypes
  BY Parts
<1>2. PICK b \in Board : \/ MainLoop(b) \/ TimerIrq(b)
                         \/ Air(b) \/ Missed(b) \/ FrameLost(b)
                         \/ ForeignFrame(b)
                         \/ Tick(b) \/ Reboot(b)
  BY DEF Next
<1>3. CASE IdleOver(b) \/ Terminated(b) \/ TimerIrq(b)
  BY <1>1, <1>3, Frames DEF IdleOver, Terminated, TimerIrq, air
<1>4. ASSUME NEW m \in Message, Transmit(b, m) PROVE AirTypes'
  <2>1. <<m, cycle[b]>> \in FrameId /\ stamps[b] \in Stamps
    BY <1>1, Frames DEF LoopTypes
  <2>2. [id |-> <<m, cycle[b]>>, ok |-> TRUE,
         data |-> IF m = "RESULT" THEN stamps[b] ELSE None] \in Frame
    BY <2>1 DEF Frame
  <2> QED
    BY <1>1, <1>4, <2>2 DEF Transmit, Radio
<1>5. ASSUME NEW m \in Message, Receive(b, m) PROVE AirTypes'
  BY <1>1, <1>5, Frames DEF Receive, Radio
<1>6. ASSUME NEW m \in Message, Transmitted(b, m) \/ SyncTimeout(b, m)
      PROVE  AirTypes'
  BY <1>1, <1>6 DEF Transmitted, SyncTimeout, air
<1>7. ASSUME NEW m \in Message, Received(b, m) PROVE AirTypes'
  BY <1>1, <1>7, Frames DEF Received
<1>8. CASE EndCase(b)
  BY <1>1, <1>8 DEF EndCase, Radio
<1>9. CASE Scheduled(b) \/ Missed(b)
  BY <1>1, <1>9 DEF Scheduled, Missed, Radio
<1>10. CASE FrameEnding(b)
  BY <1>1, <1>10, Boards DEF FrameEnding, Radio
<1>11. ASSUME NEW ok \in BOOLEAN, NEW arrives \in BOOLEAN, Sent(b, ok, arrives)
       PROVE  AirTypes'
  <2>1. [txFrame[b] EXCEPT !.ok = FALSE, !.data = None] \in Frame
    BY <1>1, ZenonT(60) DEF Frame
  <2> QED
    BY <1>1, <1>11, <2>1, Frames, Boards DEF Sent, Radio
<1>12. CASE FrameSent(b) \/ FrameLost(b)
  BY <1>11, <1>12 DEF FrameSent, FrameLost
<1>13. CASE ForeignFrame(b)
  BY <1>1, <1>13, Frames DEF ForeignFrame, Radio
<1>14. CASE Tick(b)
  BY <1>1, <1>14 DEF Tick, air
<1>15. CASE Reboot(b)
  BY <1>1, <1>15, Frames DEF Reboot, Radio
<1> QED
  BY <1>2, <1>3, <1>4, <1>5, <1>6, <1>7, <1>8, <1>9, <1>10, <1>12, <1>13,
     <1>14, <1>15 DEF MainLoop, Air

(* The types and the bounds of the variables of both boards.               *)
THEOREM DsTwrTypes == Spec => []TypeOK
<1>1. TypeOK /\ [Next]_vars => TypeOK'
  <2> SUFFICES ASSUME TypeOK, [Next]_vars PROVE TypeOK'
    OBVIOUS
  <2>1. CASE Next
    <3>1. LoopTypes' /\ FlagTypes' /\ AirTypes'
      BY <2>1, LoopTypesNext, FlagTypesNext, AirTypesNext
    <3>2. /\ {TxDone', Rx0Done'} \subseteq [Board -> BOOLEAN]
          /\ {txFrame', txTsu', rxFrame'} \subseteq [Board -> Frame]
          /\ {lost', foreign', late', reboots'} \subseteq Nat
      BY <3>1, Zenon DEF FlagTypes, AirTypes
    <3> QED
      BY <3>1, <3>2 DEF TypeOK, LoopTypes, FlagTypes, AirTypes
  <2>2. CASE UNCHANGED vars
    BY <2>2 DEF TypeOK, vars, loop, flags, air, env, Bearable
  <2> QED
    BY <2>1, <2>2
<1> QED
  BY <1>1, InitTypes, PTL DEF Spec
-----------------------------------------------------------------------------
(* What the steps do to a board, its position being the state it is in or, *)
(* within a case, the one the case ends with.                              *)
Pos(b) == IF next[b] = None THEN state[b] ELSE next[b].to

(* The step leaves board b as it is, but for its timer and its clock and,  *)
(* possibly, the frame it receives: its sender may have stopped.           *)
Alike(b) ==
    /\ Pos(b)' = Pos(b) /\ next'[b] = next[b]
    /\ radio'[b] = radio[b]
    /\ TxDone'[b] = TxDone[b] /\ Rx0Done'[b] = Rx0Done[b]
    /\ txFrame'[b] = txFrame[b] /\ txTsu'[b] = txTsu[b]
    /\ rxFrame'[b] = rxFrame[b]
    /\ cycle'[b] = cycle[b] /\ stamps'[b] = stamps[b]
Same(b) == Alike(b) /\ (locked'[b] => locked[b])

LEMMA GoMoves ==
    ASSUME TypeOK, NEW b \in Board, NEW to \in State, NEW end \in BOOLEAN,
           next[b] = None, Go(b, to, end), state' = state
    PROVE  /\ Pos(b) = state[b] /\ Pos(b)' = to
           /\ next'[b] # None /\ next'[b].end = end
           /\ \A c \in Board : c # b => Pos(c)' = Pos(c) /\ next'[c] = next[c]
<1>1. [to |-> to, end |-> end] \in Case
  BY DEF Case
<1>2. next'[b] = [to |-> to, end |-> end]
      /\ \A c \in Board : c # b => next'[c] = next[c]
  BY Parts DEF LoopTypes, Go
<1> QED
  BY <1>1, <1>2, NoneAssumption DEF Pos

LEMMA TransmitEffect ==
    ASSUME TypeOK, NEW b \in Board, NEW m \in Message, Transmit(b, m)
    PROVE  /\ Sender(m) = b /\ Pos(b) = Start(m) /\ next[b] = None
           /\ Pos(b)' = Wait(m) /\ next'[b] # None /\ ~next'[b].end
           /\ radio'[b] = (IF Deferred(m) THEN "txLater" ELSE "tx")
           /\ txFrame'[b].id = <<m, cycle[b]>>
           /\ m = "RESULT" => txFrame'[b].data = stamps[b]
           /\ locked'[b] = locked[b] /\ txTsu'[b] = txTsu[b]
           /\ TxDone'[b] = TxDone[b] /\ Rx0Done'[b] = Rx0Done[b]
           /\ rxFrame'[b] = rxFrame[b]
           /\ cycle'[b] = cycle[b] /\ stamps'[b] = stamps[b]
           /\ \A c \in Board : c # b => Same(c)
           /\ measured' = measured /\ foreign' = foreign
<1>1. LoopTypes /\ AirTypes
  BY Parts
<1>2. /\ Pos(b) = state[b] /\ Pos(b)' = Wait(m)
      /\ next'[b] # None /\ next'[b].end = FALSE
      /\ \A c \in Board : c # b => Pos(c)' = Pos(c) /\ next'[c] = next[c]
  BY GoMoves, States DEF Transmit, Ready
<1>3. /\ radio'[b] = (IF Deferred(m) THEN "txLater" ELSE "tx")
      /\ txFrame'[b].id = <<m, cycle[b]>>
      /\ m = "RESULT" => txFrame'[b].data = stamps[b]
      /\ \A c \in Board : c # b => radio'[c] = radio[c] /\ txFrame'[c] = txFrame[c]
  BY <1>1 DEF Transmit, AirTypes
<1> QED
  BY <1>2, <1>3 DEF Transmit, Ready, Same, Alike, flags, env

LEMMA ReceiveEffect ==
    ASSUME TypeOK, NEW b \in Board, NEW m \in Message, Receive(b, m)
    PROVE  /\ Sender(m) # b /\ Pos(b) = Start(m) /\ next[b] = None
           /\ Pos(b)' = Wait(m) /\ next'[b] # None /\ ~next'[b].end
           /\ radio'[b] = (IF Deferred(m) THEN "rxLater" ELSE "rx")
           /\ rxFrame'[b] = NoFrame
           /\ locked'[b] = locked[b] /\ txTsu'[b] = txTsu[b]
           /\ TxDone'[b] = TxDone[b] /\ Rx0Done'[b] = Rx0Done[b]
           /\ txFrame'[b] = txFrame[b]
           /\ cycle'[b] = cycle[b] /\ stamps'[b] = stamps[b]
           /\ \A c \in Board : c # b => Same(c)
           /\ measured' = measured /\ foreign' = foreign
<1>1. LoopTypes /\ AirTypes
  BY Parts
<1>2. /\ Pos(b) = state[b] /\ Pos(b)' = Wait(m)
      /\ next'[b] # None /\ next'[b].end = FALSE
      /\ \A c \in Board : c # b => Pos(c)' = Pos(c) /\ next'[c] = next[c]
  BY GoMoves, States DEF Receive, Ready
<1>3. /\ radio'[b] = (IF Deferred(m) THEN "rxLater" ELSE "rx")
      /\ rxFrame'[b] = NoFrame
      /\ \A c \in Board : c # b => radio'[c] = radio[c] /\ rxFrame'[c] = rxFrame[c]
  BY <1>1 DEF Receive, AirTypes
<1> QED
  BY <1>2, <1>3 DEF Receive, Ready, Same, Alike, flags, env

LEMMA TransmittedEffect ==
    ASSUME TypeOK, NEW b \in Board, NEW m \in Message, Transmitted(b, m)
    PROVE  /\ Sender(m) = b /\ Pos(b) = Wait(m) /\ next[b] = None /\ TxDone[b]
           /\ Pos(b)' = (IF m = "RESULT" THEN Terminate ELSE Start(Following[m]))
           /\ next'[b] # None /\ next'[b].end
           /\ ~TxDone'[b]
           /\ m \notin Timed => stamps'[b] = stamps[b]
           /\ m \in Timed => stamps'[b] = [stamps[b] EXCEPT ![m] = txTsu[b].id]
           /\ radio'[b] = radio[b] /\ locked'[b] = locked[b]
           /\ Rx0Done'[b] = Rx0Done[b]
           /\ txFrame'[b] = txFrame[b] /\ txTsu'[b] = txTsu[b]
           /\ rxFrame'[b] = rxFrame[b] /\ cycle'[b] = cycle[b]
           /\ \A c \in Board : c # b => Same(c)
           /\ measured' = measured /\ foreign' = foreign
<1>1. LoopTypes /\ FlagTypes
  BY Parts
<1> DEFINE to == IF m = "RESULT" THEN Terminate ELSE Start(Following[m])
<1>a. to \in State /\ Go(b, to, TRUE)
  BY AfterTypes DEF Transmitted
<1>b. /\ Sender(m) = b /\ state[b] = Wait(m) /\ next[b] = None
      /\ state' = state
  BY DEF Transmitted, Ready
<1>c. TxDone[b]
  BY <1>1, <1>b, States DEF Transmitted, Ready, FlagTypes
<1> HIDE DEF to
<1>2. /\ Pos(b) = state[b] /\ Pos(b)' = to
      /\ next'[b] # None /\ next'[b].end = TRUE
      /\ \A c \in Board : c # b => Pos(c)' = Pos(c) /\ next'[c] = next[c]
  BY <1>a, <1>b, GoMoves
<1>3. /\ ~TxDone'[b]
      /\ \A c \in Board : c # b => TxDone'[c] = TxDone[c]
  BY <1>1 DEF Transmitted, FlagTypes
<1>4. /\ m \notin Timed => stamps'[b] = stamps[b]
      /\ m \in Timed => stamps'[b] = [stamps[b] EXCEPT ![m] = txTsu[b].id]
      /\ \A c \in Board : c # b => stamps'[c] = stamps[c]
  BY <1>1 DEF Transmitted, LoopTypes
<1> QED
  BY <1>b, <1>c, <1>2, <1>3, <1>4 DEF Transmitted, Same, Alike, air, env, to

LEMMA SyncTimeoutEffect ==
    ASSUME TypeOK, NEW b \in Board, NEW m \in Message, SyncTimeout(b, m)
    PROVE  /\ Sender(m) # b /\ Pos(b) = Wait(m) /\ next[b] = None
           /\ m \in {"SYNC", "ACK"}
           /\ Pos(b)' = Start("SYNC") /\ next'[b] # None /\ next'[b].end
           /\ radio'[b] = radio[b] /\ locked'[b] = locked[b]
           /\ TxDone'[b] = TxDone[b] /\ Rx0Done'[b] = Rx0Done[b]
           /\ txFrame'[b] = txFrame[b] /\ txTsu'[b] = txTsu[b]
           /\ rxFrame'[b] = rxFrame[b]
           /\ cycle'[b] = cycle[b] /\ stamps'[b] = stamps[b]
           /\ \A c \in Board : c # b => Same(c)
           /\ measured' = measured /\ foreign' = foreign
<1>1. Start("SYNC") \in State
  BY States DEF Message
<1>2. /\ Pos(b) = state[b] /\ Pos(b)' = Start("SYNC")
      /\ next'[b] # None /\ next'[b].end = TRUE
      /\ \A c \in Board : c # b => Pos(c)' = Pos(c) /\ next'[c] = next[c]
  BY <1>1, GoMoves DEF SyncTimeout, Ready
<1> QED
  BY <1>2 DEF SyncTimeout, Ready, Expired, Same, Alike, flags, air, env

LEMMA ReceivedEffect ==
    ASSUME TypeOK, NEW b \in Board, NEW m \in Message, Received(b, m)
    PROVE  /\ Sender(m) # b /\ Pos(b) = Wait(m) /\ next[b] = None /\ Rx0Done[b]
           /\ Pos(b)' = AfterReceived(b, m) /\ next'[b] # None /\ next'[b].end
           /\ ~Rx0Done'[b]
           /\ m \notin Timed => stamps'[b] = stamps[b]
           /\ m \in Timed => stamps'[b] = [stamps[b] EXCEPT ![m] = rxFrame[b].id]
           /\ measured' = (IF m = "RESULT" /\ rxFrame[b].ok
                             THEN <<stamps[b], rxFrame[b].data>> ELSE measured)
           /\ rxFrame'[b] = NoFrame
           /\ radio'[b] = radio[b] /\ locked'[b] = locked[b]
           /\ TxDone'[b] = TxDone[b]
           /\ txFrame'[b] = txFrame[b] /\ txTsu'[b] = txTsu[b]
           /\ cycle'[b] = cycle[b]
           /\ \A c \in Board : c # b => Same(c)
           /\ foreign' = foreign
<1>1. LoopTypes /\ FlagTypes /\ AirTypes
  BY Parts
<1> DEFINE to == AfterReceived(b, m)
<1>a. to \in State /\ Go(b, to, TRUE)
  BY AfterTypes DEF Received
<1>b. /\ Sender(m) # b /\ state[b] = Wait(m) /\ next[b] = None
      /\ state' = state
  BY DEF Received, Ready
<1>c. Rx0Done[b]
  <2>1. ~Expired(b, m) /\ Ready(b)
    BY DEF Received
  <2>2. \A k \in Message : state[b] = Wait(k) => k = m
    BY <1>b, States
  <2>3. state[b] # Idle /\ state[b] # Terminate
        /\ \A k \in Message : state[b] # Start(k)
    BY <1>b, States
  <2>4. Rx0Done[b] \/ Expired(b, m)
    <3> HIDE DEF to
    <3> QED
      BY <1>b, <2>1, <2>2, <2>3 DEF Ready
  <2> QED
    BY <1>1, <2>1, <2>4
<1> HIDE DEF to
<1>2. /\ Pos(b) = state[b] /\ Pos(b)' = to
      /\ next'[b] # None /\ next'[b].end = TRUE
      /\ \A c \in Board : c # b => Pos(c)' = Pos(c) /\ next'[c] = next[c]
  BY <1>a, <1>b, GoMoves
<1>3. /\ ~Rx0Done'[b] /\ rxFrame'[b] = NoFrame
      /\ \A c \in Board : c # b => /\ Rx0Done'[c] = Rx0Done[c]
                                   /\ rxFrame'[c] = rxFrame[c]
  BY <1>1 DEF Received, FlagTypes, AirTypes
<1>4. /\ m \notin Timed => stamps'[b] = stamps[b]
      /\ m \in Timed => stamps'[b] = [stamps[b] EXCEPT ![m] = rxFrame[b].id]
      /\ \A c \in Board : c # b => stamps'[c] = stamps[c]
  BY <1>1 DEF Received, LoopTypes
<1>5. measured' = (IF m = "RESULT" /\ rxFrame[b].ok
                     THEN <<stamps[b], rxFrame[b].data>> ELSE measured)
  BY DEF Received, Valid
<1>6. /\ \A c \in Board : /\ radio'[c] = radio[c] /\ locked'[c] = locked[c]
                          /\ TxDone'[c] = TxDone[c] /\ txFrame'[c] = txFrame[c]
                          /\ txTsu'[c] = txTsu[c] /\ cycle'[c] = cycle[c]
      /\ foreign' = foreign
  BY DEF Received, env
<1> QED
  BY <1>b, <1>c, <1>2, <1>3, <1>4, <1>5, <1>6 DEF Same, Alike, to

(* The board, but for where it is and what it will do.                     *)
Stays(b) ==
    /\ radio'[b] = radio[b] /\ (locked'[b] => locked[b])
    /\ TxDone'[b] = TxDone[b] /\ Rx0Done'[b] = Rx0Done[b]
    /\ txFrame'[b] = txFrame[b] /\ txTsu'[b] = txTsu[b]
    /\ rxFrame'[b] = rxFrame[b]
    /\ cycle'[b] = cycle[b] /\ stamps'[b] = stamps[b]

LEMMA IdleOverEffect ==
    ASSUME TypeOK, NEW b \in Board, IdleOver(b)
    PROVE  /\ Pos(b) = Idle /\ next[b] = None
           /\ Pos(b)' = Start("SYNC") /\ next'[b] # None /\ ~next'[b].end
           /\ Stays(b)
           /\ \A c \in Board : c # b => Same(c)
           /\ measured' = measured /\ foreign' = foreign
<1>1. Start("SYNC") \in State
  BY States DEF Message
<1>2. /\ Pos(b) = state[b] /\ Pos(b)' = Start("SYNC")
      /\ next'[b] # None /\ next'[b].end = FALSE
      /\ \A c \in Board : c # b => Pos(c)' = Pos(c) /\ next'[c] = next[c]
  BY <1>1, GoMoves DEF IdleOver, Ready
<1> QED
  BY <1>2 DEF IdleOver, Ready, Same, Alike, Stays, flags, air, env

LEMMA TerminatedEffect ==
    ASSUME TypeOK, NEW b \in Board, Terminated(b)
    PROVE  /\ Pos(b) = Terminate /\ next[b] = None
           /\ Pos(b)' = Idle /\ next'[b] # None /\ next'[b].end
           /\ ~TxDone'[b] /\ ~Rx0Done'[b] /\ txTsu'[b] = NoFrame
           /\ radio'[b] = radio[b] /\ locked'[b] = locked[b]
           /\ txFrame'[b] = txFrame[b] /\ rxFrame'[b] = rxFrame[b]
           /\ stamps'[b] = stamps[b]
           /\ \A c \in Board : c # b => Same(c)
           /\ measured' = (IF b = Initiator THEN None ELSE measured)
           /\ foreign' = foreign
<1>1. LoopTypes /\ FlagTypes /\ AirTypes
  BY Parts
<1>2. /\ Pos(b) = state[b] /\ Pos(b)' = Idle
      /\ next'[b] # None /\ next'[b].end = TRUE
      /\ \A c \in Board : c # b => Pos(c)' = Pos(c) /\ next'[c] = next[c]
  BY GoMoves, States DEF Terminated, Ready
<1>3. /\ ~TxDone'[b] /\ ~Rx0Done'[b] /\ txTsu'[b] = NoFrame
      /\ \A c \in Board : c # b => /\ TxDone'[c] = TxDone[c]
                                   /\ Rx0Done'[c] = Rx0Done[c]
                                   /\ txTsu'[c] = txTsu[c]
                                   /\ cycle'[c] = cycle[c]
  BY <1>1 DEF Terminated, FlagTypes, AirTypes, LoopTypes
<1> QED
  BY <1>2, <1>3 DEF Terminated, Ready, Same, Alike, env, Initiator

LEMMA EndCaseEffect ==
    ASSUME TypeOK, NEW b \in Board, EndCase(b)
    PROVE  /\ Pos(b)' = Pos(b) /\ next[b] # None /\ next'[b] = None
           /\ radio'[b] = (IF next[b].end THEN "off" ELSE radio[b])
           /\ locked'[b] => locked[b] /\ ~next[b].end
           /\ TxDone'[b] = TxDone[b] /\ Rx0Done'[b] = Rx0Done[b]
           /\ txFrame'[b] = txFrame[b] /\ txTsu'[b] = txTsu[b]
           /\ rxFrame'[b] = rxFrame[b]
           /\ cycle'[b] = cycle[b] /\ stamps'[b] = stamps[b]
           /\ \A c \in Board : c # b => Same(c)
           /\ measured' = measured /\ foreign' = foreign
<1>1. LoopTypes /\ FlagTypes /\ AirTypes
  BY Parts
<1>2. /\ Pos(b)' = Pos(b) /\ next[b] # None /\ next'[b] = None
      /\ \A c \in Board : c # b => Pos(c)' = Pos(c) /\ next'[c] = next[c]
  BY <1>1 DEF EndCase, LoopTypes, Pos
<1>3. /\ radio'[b] = (IF next[b].end THEN "off" ELSE radio[b])
      /\ locked'[b] => locked[b] /\ ~next[b].end
      /\ \A c \in Board : c # b => /\ radio'[c] = radio[c]
                                   /\ (locked'[c] => locked[c])
  BY <1>1 DEF EndCase, AirTypes
<1> QED
  BY <1>2, <1>3 DEF EndCase, Same, Alike, flags, env

LEMMA TimerIrqEffect ==
    ASSUME TypeOK, NEW b \in Board, TimerIrq(b)
    PROVE  /\ Pos(b)' = (IF next[b] = None THEN Terminate ELSE Pos(b))
           /\ next'[b] = next[b] /\ Stays(b)
           /\ \A c \in Board : c # b => Same(c)
           /\ measured' = measured /\ foreign' = foreign
<1>1. LoopTypes
  BY Parts
<1>2. /\ Pos(b)' = (IF next[b] = None THEN Terminate ELSE Pos(b))
      /\ \A c \in Board : c # b => Pos(c)' = Pos(c)
  BY <1>1 DEF TimerIrq, LoopTypes, Pos
<1> QED
  BY <1>2 DEF TimerIrq, Stays, Same, Alike, air, env

LEMMA ScheduledEffect ==
    ASSUME TypeOK, NEW b \in Board, Scheduled(b)
    PROVE  /\ Pos(b)' = Pos(b) /\ next'[b] = next[b] /\ next[b] = None
           /\ \/ radio[b] = "txLater" /\ radio'[b] = "tx"
              \/ radio[b] = "rxLater" /\ radio'[b] = "rx"
           /\ locked'[b] = locked[b]
           /\ TxDone'[b] = TxDone[b] /\ Rx0Done'[b] = Rx0Done[b]
           /\ txFrame'[b] = txFrame[b] /\ txTsu'[b] = txTsu[b]
           /\ rxFrame'[b] = rxFrame[b]
           /\ cycle'[b] = cycle[b] /\ stamps'[b] = stamps[b]
           /\ \A c \in Board : c # b => Same(c)
           /\ measured' = measured /\ foreign' = foreign
<1>1. AirTypes
  BY Parts
<1>2. /\ \/ radio[b] = "txLater" /\ radio'[b] = "tx"
         \/ radio[b] = "rxLater" /\ radio'[b] = "rx"
      /\ \A c \in Board : c # b => radio'[c] = radio[c]
  BY <1>1 DEF Scheduled, AirTypes
<1> QED
  BY <1>2 DEF Scheduled, Settled, Same, Alike, Pos, loop, flags, env

LEMMA MissedEffect ==
    ASSUME TypeOK, NEW b \in Board, Missed(b)
    PROVE  /\ Pos(b)' = Pos(b) /\ next'[b] = next[b]
           /\ radio[b] \in {"txLater", "rxLater"} /\ radio'[b] = "missed"
           /\ locked'[b] = locked[b]
           /\ TxDone'[b] = TxDone[b] /\ Rx0Done'[b] = Rx0Done[b]
           /\ txFrame'[b] = txFrame[b] /\ txTsu'[b] = txTsu[b]
           /\ rxFrame'[b] = rxFrame[b]
           /\ cycle'[b] = cycle[b] /\ stamps'[b] = stamps[b]
           /\ \A c \in Board : c # b => Same(c)
           /\ measured' = measured /\ foreign' = foreign
<1>1. AirTypes
  BY Parts
<1>2. /\ radio'[b] = "missed"
      /\ \A c \in Board : c # b => radio'[c] = radio[c]
  BY <1>1 DEF Missed, AirTypes
<1> QED
  BY <1>2 DEF Missed, Same, Alike, Pos, loop, flags

LEMMA FrameEndingEffect ==
    ASSUME TypeOK, NEW b \in Board, FrameEnding(b)
    PROVE  /\ Settled
           /\ radio[b] = "tx" /\ radio'[b] = "txEnding"
           /\ locked'[b] = locked[b]
           /\ \A c \in Board : c # b => /\ radio'[c] = radio[c]
                                        /\ locked'[c] <=> radio[c] = "rx"
           /\ \A c \in Board :
                 /\ Pos(c)' = Pos(c) /\ next'[c] = next[c]
                 /\ TxDone'[c] = TxDone[c] /\ Rx0Done'[c] = Rx0Done[c]
                 /\ txFrame'[c] = txFrame[c] /\ txTsu'[c] = txTsu[c]
                 /\ rxFrame'[c] = rxFrame[c]
                 /\ cycle'[c] = cycle[c] /\ stamps'[c] = stamps[c]
           /\ measured' = measured /\ foreign' = foreign
<1>1. AirTypes
  BY Parts
<1>2. /\ radio'[b] = "txEnding" /\ locked'[b] = locked[b]
      /\ \A c \in Board : c # b => /\ radio'[c] = radio[c]
                                   /\ locked'[c] <=> radio[c] = "rx"
  BY <1>1, Boards DEF FrameEnding, AirTypes
<1> QED
  BY <1>2 DEF FrameEnding, Pos, loop, flags, env

(* A frame has ended; `gets' is whether the other board received it.       *)
SentEffect(b, gets) ==
    LET c == Peer(b)
    IN  /\ Pos(b)' = Pos(b) /\ next'[b] = next[b]
        /\ radio[b] = "txEnding" /\ radio'[b] = "sent"
        /\ locked'[b] = locked[b]
        /\ TxDone'[b] /\ txTsu'[b] = txFrame[b] /\ txFrame'[b] = NoFrame
        /\ Rx0Done'[b] = Rx0Done[b] /\ rxFrame'[b] = rxFrame[b]
        /\ cycle'[b] = cycle[b] /\ stamps'[b] = stamps[b]
        /\ ~gets => Same(c)
        /\ gets => /\ locked[c] /\ ~locked'[c] /\ radio'[c] = "received"
                   /\ Pos(c)' = Pos(c) /\ next'[c] = next[c]
                   /\ Rx0Done'[c] /\ rxFrame'[c].id = txFrame[b].id
                   /\ rxFrame'[c].ok => rxFrame'[c].data = txFrame[b].data
                   /\ TxDone'[c] = TxDone[c] /\ txFrame'[c] = txFrame[c]
                   /\ txTsu'[c] = txTsu[c]
                   /\ cycle'[c] = cycle[c] /\ stamps'[c] = stamps[c]
        /\ measured' = measured

LEMMA SentHasEffect ==
    ASSUME TypeOK, NEW b \in Board, NEW ok \in BOOLEAN, NEW arrives \in BOOLEAN,
           Sent(b, ok, arrives)
    PROVE  \E gets \in BOOLEAN : SentEffect(b, gets)
<1> DEFINE c == Peer(b)
           gets == locked[c] /\ arrives
<1>1. LoopTypes /\ FlagTypes /\ AirTypes /\ c \in Board /\ c # b
  BY Parts, Boards
<1>2. gets \in BOOLEAN
  BY <1>1 DEF AirTypes
<1>3. UNCHANGED loop /\ radio[b] = "txEnding"
  BY DEF Sent
<1>4. /\ radio'[b] = "sent"
      /\ radio'[c] = IF gets THEN "received" ELSE radio[c]
  BY <1>1 DEF Sent, AirTypes
<1>5. /\ TxDone'[b] /\ TxDone'[c] = TxDone[c]
      /\ Rx0Done'[b] = Rx0Done[b]
      /\ Rx0Done'[c] = (Rx0Done[c] \/ gets)
      /\ locked'[b] = locked[b] /\ ~locked'[c]
  BY <1>1 DEF Sent, FlagTypes, AirTypes
<1>6. /\ txTsu'[b] = txFrame[b] /\ txFrame'[b] = NoFrame
      /\ txTsu'[c] = txTsu[c] /\ txFrame'[c] = txFrame[c]
  BY <1>1 DEF Sent, AirTypes
<1>7. /\ rxFrame'[b] = rxFrame[b]
      /\ ~gets => rxFrame'[c] = rxFrame[c]
      /\ gets => /\ rxFrame'[c].id = txFrame[b].id
                 /\ rxFrame'[c].ok => rxFrame'[c].data = txFrame[b].data
  <2>1. /\ rxFrame'[b] = rxFrame[b]
        /\ rxFrame'[c] = (IF ~gets THEN rxFrame[c]
                          ELSE IF ok THEN txFrame[b]
                          ELSE [txFrame[b] EXCEPT !.ok = FALSE, !.data = None])
    BY <1>1 DEF Sent, AirTypes
  <2>2. txFrame[b] \in Frame
    BY <1>1 DEF AirTypes
  <2>3. LET f == [txFrame[b] EXCEPT !.ok = FALSE, !.data = None]
        IN  f.id = txFrame[b].id /\ ~f.ok
    BY <2>2 DEF Frame
  <2> QED
    BY <2>1, <2>3
<1>8. Rx0Done[c] \in BOOLEAN
  BY <1>1 DEF FlagTypes
<1>9. ~gets => Same(c)
  BY <1>1, <1>3, <1>4, <1>5, <1>6, <1>7, <1>8 DEF Same, Alike, loop, Pos
<1>10. SentEffect(b, gets)
  BY <1>1, <1>3, <1>4, <1>5, <1>6, <1>7, <1>9 DEF SentEffect, loop, Pos
<1> QED
  BY <1>2, <1>10

LEMMA ForeignFrameEffect ==
    ASSUME TypeOK, NEW b \in Board, ForeignFrame(b)
    PROVE  /\ Pos(b)' = Pos(b) /\ next'[b] = next[b]
           /\ radio[b] = "rx" /\ radio'[b] = "received" /\ ~locked'[b]
           /\ rxFrame'[b] = OtherFrame /\ Rx0Done'[b]
           /\ TxDone'[b] = TxDone[b] /\ txFrame'[b] = txFrame[b]
           /\ txTsu'[b] = txTsu[b]
           /\ cycle'[b] = cycle[b] /\ stamps'[b] = stamps[b]
           /\ \A c \in Board : c # b => Same(c)
           /\ measured' = measured /\ foreign' = foreign + 1
<1>1. LoopTypes /\ FlagTypes /\ AirTypes
  BY Parts
<1>2. /\ radio'[b] = "received" /\ ~locked'[b]
      /\ rxFrame'[b] = OtherFrame /\ Rx0Done'[b]
      /\ \A c \in Board : c # b => /\ radio'[c] = radio[c]
                                   /\ locked'[c] = locked[c]
                                   /\ rxFrame'[c] = rxFrame[c]
                                   /\ Rx0Done'[c] = Rx0Done[c]
  BY <1>1 DEF ForeignFrame, FlagTypes, AirTypes
<1> QED
  BY <1>2 DEF ForeignFrame, Same, Alike, Pos, loop

LEMMA TickEffect ==
    ASSUME TypeOK, NEW b \in Board, Tick(b)
    PROVE  /\ \A c \in Board : Same(c)
           /\ measured' = measured /\ foreign' = foreign
BY DEF Tick, Same, Alike, Pos, flags, air

LEMMA RebootEffect ==
    ASSUME TypeOK, NEW b \in Board, Reboot(b)
    PROVE  /\ Pos(b)' = Start("SYNC") /\ next'[b] = None
           /\ radio'[b] = "off" /\ ~locked'[b]
           /\ ~TxDone'[b] /\ ~Rx0Done'[b] /\ rxFrame'[b] = NoFrame
           /\ \A c \in Board : c # b => Same(c)
           /\ measured' = (IF b = Initiator THEN None ELSE measured)
           /\ foreign' = foreign
<1>1. LoopTypes /\ FlagTypes /\ AirTypes
  BY Parts
<1>2. /\ Pos(b)' = Start("SYNC") /\ next'[b] = None
      /\ \A c \in Board : c # b => Pos(c)' = Pos(c) /\ next'[c] = next[c]
  BY <1>1 DEF Reboot, LoopTypes, Pos
<1>3. /\ radio'[b] = "off" /\ ~locked'[b] /\ rxFrame'[b] = NoFrame
      /\ \A c \in Board : c # b => /\ radio'[c] = radio[c]
                                   /\ (locked'[c] => locked[c])
                                   /\ txFrame'[c] = txFrame[c]
                                   /\ txTsu'[c] = txTsu[c]
                                   /\ rxFrame'[c] = rxFrame[c]
  BY <1>1 DEF Reboot, AirTypes
<1>4. /\ ~TxDone'[b] /\ ~Rx0Done'[b]
      /\ \A c \in Board : c # b => /\ TxDone'[c] = TxDone[c]
                                   /\ Rx0Done'[c] = Rx0Done[c]
                                   /\ cycle'[c] = cycle[c]
                                   /\ stamps'[c] = stamps[c]
  BY <1>1 DEF Reboot, FlagTypes, LoopTypes
<1>5. measured' = (IF b = Initiator THEN None ELSE measured)
      /\ foreign' = foreign
  BY DEF Reboot, Initiator
<1> QED
  BY <1>2, <1>3, <1>4, <1>5 DEF Same, Alike
-----------------------------------------------------------------------------
(* What each board keeps to by itself, whatever the other one and the      *)
(* boards nearby do.                                                       *)
Own(b, m) == Sender(m) = b
AtStart(b) == \E m \in Message : Pos(b) = Start(m)
AtWait(b) == \E m \in Message : Pos(b) = Wait(m)
Over(b) == Pos(b) \in {Terminate, Idle}
Sends(b) == radio[b] \in {"txLater", "tx", "txEnding"}

(* Where a flag that an earlier cycle has left set may still be found.     *)
Early(m) == {Idle, Start("SYNC"), Wait("SYNC")}
                \cup (IF m = "ACK" THEN {Start("ACK"), Wait("ACK")} ELSE {})
StaleTx(b) == Early(IF b = Initiator THEN "SYNC" ELSE "ACK")
StaleRx(b) == Early(IF b = Responder THEN "SYNC" ELSE "ACK")

(* The transceiver is off where something is about to be started.          *)
Ended(b) ==
    /\ AtStart(b) \/ Pos(b) = Idle
          => radio[b] = "off" \/ (next[b] # None /\ next[b].end)
    /\ AtWait(b) /\ next[b] # None => ~next[b].end
    /\ locked[b] => radio[b] = "rx"

(* What is sent is the message waited for, of this cycle.                  *)
TxLoc(b) ==
    /\ Sends(b) => \/ \E m \in Message : /\ Pos(b) = Wait(m) /\ Own(b, m)
                                         /\ txFrame[b].id = <<m, cycle[b]>>
                   \/ Over(b)
                   \/ AtStart(b) /\ radio[b] # "txEnding"
    /\ radio[b] = "txEnding" /\ AtWait(b) => next[b] = None /\ ~TxDone[b]
    /\ TxDone[b] => \/ \E m \in Message : /\ Pos(b) = Wait(m) /\ Own(b, m)
                                          /\ radio[b] = "sent"
                                          /\ txTsu[b].id = <<m, cycle[b]>>
                    \/ Pos(b) = Terminate \/ Pos(b) \in StaleTx(b)

(* What is received is received where it is waited for.                    *)
Listens(b) == \E m \in Message : Pos(b) = Wait(m) /\ ~Own(b, m)
RxLoc(b) ==
    /\ radio[b] \in {"rx", "rxLater"}
          => Listens(b) \/ Over(b) \/ Pos(b) = Start("SYNC")
    /\ Rx0Done[b] => \/ Listens(b) /\ radio[b] = "received"
                     \/ Pos(b) = Terminate \/ Pos(b) \in StaleRx(b)
    /\ Listens(b) /\ rxFrame[b] # NoFrame => radio[b] = "received"

LocOf(b) == Ended(b) /\ TxLoc(b) /\ RxLoc(b)
Loc == \A b \in Board : LocOf(b)

LEMMA SameLoc ==
    ASSUME NEW b \in Board, LocOf(b), Same(b)
    PROVE  LocOf(b)'
<1> USE DEF LocOf, Same, Alike, AtStart, AtWait, Over, Sends, StaleTx, StaleRx
<1>1. Ended(b)'
  BY DEF Ended
<1>2. TxLoc(b)'
  BY DEF TxLoc
<1>3. RxLoc(b)'
  BY SMTT(60) DEF RxLoc, Listens
<1> QED
  BY <1>1, <1>2, <1>3

LEMMA LocMainLoop ==
    ASSUME TypeOK, NEW b \in Board, LocOf(b), MainLoop(b)
    PROVE  LocOf(b)'
<1> USE Boards DEF LocOf, Ended, TxLoc, RxLoc, Listens, AtStart, AtWait,
        Over, Sends, StaleTx, StaleRx, Early, Own,
        Idle, Terminate, Start, Wait, Message, Sender, Initiator, Responder
<1>1. CASE IdleOver(b)
  BY <1>1, IdleOverEffect DEF Stays
<1>2. ASSUME NEW m \in Message, Transmit(b, m) PROVE LocOf(b)'
  BY <1>2, TransmitEffect DEF Deferred
<1>3. ASSUME NEW m \in Message, Receive(b, m) PROVE LocOf(b)'
  BY <1>3, ReceiveEffect DEF Deferred
<1>4. ASSUME NEW m \in Message, Transmitted(b, m) PROVE LocOf(b)'
  BY <1>4, TransmittedEffect DEF Following
<1>5. ASSUME NEW m \in Message, SyncTimeout(b, m) PROVE LocOf(b)'
  BY <1>5, SyncTimeoutEffect
<1>6. ASSUME NEW m \in Message, Received(b, m) PROVE LocOf(b)'
  <2>1. Pos(b)' \in {Start("SYNC"), Terminate} \/ Pos(b)' = Start(Following[m])
    BY <1>6, ReceivedEffect DEF AfterReceived
  <2>2. m = "RESULT" => Pos(b)' = Terminate
    BY <1>6, ReceivedEffect DEF AfterReceived
  <2>3. m # "RESULT" => Following[m] \in Message
    BY States
  <2>4. Ended(b)'
    BY <1>6, <2>1, <2>2, <2>3, ReceivedEffect
  <2>5. TxLoc(b)'
    BY <1>6, <2>1, <2>2, ReceivedEffect DEF Following
  <2>6. RxLoc(b)'
    <3>1. m \in {"SYNC", "ACK"} /\ rxFrame[b] = NoFrame
             => Pos(b)' = Start("SYNC")
      BY <1>6, ReceivedEffect DEF AfterReceived, Valid, NoFrame
    <3> QED
      BY <1>6, <2>1, <2>2, <3>1, ReceivedEffect DEF Following
  <2> QED
    BY <2>4, <2>5, <2>6
<1>7. CASE Terminated(b)
  BY <1>7, TerminatedEffect
<1>8. CASE EndCase(b)
  BY <1>8, EndCaseEffect
<1> QED
  BY <1>1, <1>2, <1>3, <1>4, <1>5, <1>6, <1>7, <1>8 DEF MainLoop

LEMMA LocIrqs ==
    ASSUME TypeOK, NEW b \in Board, Loc,
           \/ TimerIrq(b) \/ Scheduled(b) \/ Missed(b)
           \/ ForeignFrame(b) \/ Reboot(b)
    PROVE  LocOf(b)'
<1> USE Boards DEF Loc, LocOf, Ended, TxLoc, RxLoc, Listens, AtStart, AtWait,
        Over, Sends, StaleTx, StaleRx, Early, Own,
        Idle, Terminate, Start, Wait, Message, Sender, Initiator, Responder
<1>1. CASE TimerIrq(b)
  BY <1>1, TimerIrqEffect DEF Stays
<1>2. CASE Scheduled(b)
  BY <1>2, ScheduledEffect
<1>3. CASE Missed(b)
  BY <1>3, MissedEffect
<1>4. CASE ForeignFrame(b)
  BY <1>4, ForeignFrameEffect
<1>5. CASE Reboot(b)
  BY <1>5, RebootEffect
<1> QED
  BY <1>1, <1>2, <1>3, <1>4, <1>5

LEMMA LocFrame ==
    ASSUME TypeOK, NEW b \in Board, Loc,
           FrameEnding(b) \/ \E gets \in BOOLEAN : SentEffect(b, gets)
    PROVE  Loc'
<1> USE DEF Loc
<1> SUFFICES ASSUME NEW c \in Board PROVE LocOf(c)'
  OBVIOUS
<1> USE Boards DEF LocOf, Ended, TxLoc, RxLoc, Listens, AtStart, AtWait,
        Over, Sends, StaleTx, StaleRx, Early, Own,
        Idle, Terminate, Start, Wait, Message, Sender, Initiator, Responder
<1>1. CASE FrameEnding(b)
  <2>1. next[c] = None /\ next[b] = None /\ ~Ready(b)
    BY <1>1, SMTT(60) DEF FrameEnding, Settled
  <2>2. \A m \in Message : Pos(b) = Wait(m) /\ Own(b, m) => ~TxDone[b]
    BY <2>1 DEF Ready, Pos
  <2>3. ~AtStart(b) /\ Pos(b) # Idle /\ radio[b] = "tx"
    BY <1>1, <2>1, FrameEndingEffect
  <2>4. CASE c = b
    <3>1. Ended(b)' /\ RxLoc(b)'
      BY <1>1, <2>1, <2>3, FrameEndingEffect
    <3>2. TxLoc(b)'
      BY <1>1, <2>1, <2>2, <2>3, FrameEndingEffect
    <3> QED
      BY <2>4, <3>1, <3>2
  <2>5. CASE c # b
    BY <1>1, <2>1, <2>5, FrameEndingEffect
  <2> QED
    BY <2>4, <2>5
<1>2. ASSUME NEW gets \in BOOLEAN, SentEffect(b, gets) PROVE LocOf(c)'
  <2>1. CASE c = b
    BY <1>2, <2>1 DEF SentEffect
  <2>2. CASE c = Peer(b) /\ gets
    BY <1>2, <2>2 DEF SentEffect
  <2>3. CASE c = Peer(b) /\ ~gets
    <3>1. Same(c)
      BY <1>2, <2>3 DEF SentEffect
    <3> QED
      BY <3>1, SameLoc
  <2> QED
    BY <2>1, <2>2, <2>3 DEF Board, Peer
<1> QED
  BY <1>1, <1>2

(* Steps of a board that leave the other one alone.                        *)
LEMMA OthersStay ==
    ASSUME TypeOK, NEW b \in Board, NEW c \in Board, c # b,
           \/ MainLoop(b) \/ TimerIrq(b) \/ Scheduled(b) \/ Missed(b)
           \/ ForeignFrame(b) \/ Tick(b) \/ Reboot(b)
    PROVE  Same(c)
<1>1. CASE MainLoop(b)
  <2>1. CASE IdleOver(b) \/ Terminated(b) \/ EndCase(b)
    BY <2>1, IdleOverEffect, TerminatedEffect, EndCaseEffect
  <2>2. ASSUME NEW m \in Message, Transmit(b, m) \/ Receive(b, m)
        PROVE  Same(c)
    BY <2>2, TransmitEffect, ReceiveEffect
  <2>3. ASSUME NEW m \in Message, \/ Transmitted(b, m) \/ Received(b, m)
                                  \/ SyncTimeout(b, m)
        PROVE  Same(c)
    BY <2>3, TransmittedEffect, ReceivedEffect, SyncTimeoutEffect
  <2> QED
    BY <1>1, <2>1, <2>2, <2>3 DEF MainLoop
<1>2. CASE \/ TimerIrq(b) \/ Scheduled(b) \/ Missed(b)
           \/ ForeignFrame(b) \/ Tick(b) \/ Reboot(b)
  BY <1>2, TimerIrqEffect, ScheduledEffect, MissedEffect,
     ForeignFrameEffect, TickEffect, RebootEffect
<1> QED
  BY <1>1, <1>2

LEMMA LocNext ==
    ASSUME TypeOK, Loc, Next
    PROVE  Loc'
<1>1. PICK b \in Board : \/ MainLoop(b) \/ TimerIrq(b)
                         \/ Air(b) \/ Missed(b) \/ FrameLost(b)
                         \/ ForeignFrame(b)
                         \/ Tick(b) \/ Reboot(b)
  BY DEF Next
<1>2. CASE FrameSent(b) \/ FrameLost(b)
  <2>1. \E gets \in BOOLEAN : SentEffect(b, gets)
    BY <1>2, SentHasEffect DEF FrameSent, FrameLost
  <2> QED
    BY <2>1, LocFrame
<1>3. CASE FrameEnding(b)
  BY <1>3, LocFrame
<1>4. CASE \/ MainLoop(b) \/ TimerIrq(b) \/ Scheduled(b) \/ Missed(b)
           \/ ForeignFrame(b) \/ Reboot(b)
  <2>1. LocOf(b)'
    BY <1>4, LocMainLoop, LocIrqs DEF Loc
  <2>2. ASSUME NEW c \in Board, c # b PROVE Same(c)
    BY <1>4, <2>2, OthersStay
  <2>3. ASSUME NEW c \in Board, c # b PROVE LocOf(c)'
    BY <2>2, <2>3, SameLoc DEF Loc
  <2> QED
    BY <2>1, <2>3 DEF Loc
<1>5. CASE Tick(b)
  BY <1>5, TickEffect, SameLoc DEF Loc
<1> QED
  BY <1>1, <1>2, <1>3, <1>4, <1>5 DEF Air

LEMMA LocInvariant == Spec => [](TypeOK /\ Loc)
<1>1. Init => Loc
  BY DEF Init, Loc, LocOf, Ended, TxLoc, RxLoc, Listens, AtStart, AtWait, Over,
         Sends, Pos, Start, Wait
<1>2. TypeOK /\ Loc /\ [Next]_vars => Loc'
  <2> SUFFICES ASSUME TypeOK, Loc, [Next]_vars PROVE Loc'
    OBVIOUS
  <2>1. CASE UNCHANGED vars
    <3>1. ASSUME NEW b \in Board PROVE Same(b)
      BY <2>1 DEF Same, Alike, Pos, vars, loop, flags, air, env
    <3> QED
      BY <3>1, SameLoc DEF Loc
  <2> QED
    BY <2>1, LocNext
<1> QED
  BY <1>1, <1>2, DsTwrTypes, PTL DEF Spec

(* Whatever happens, a board that sends or listens has ended what its radio*)
(* did before (cb_framework_uwb_tx_start and ..._rx_start find it off).    *)
THEOREM EndsBeforeItStarts == Spec => []RadioEnded
<1>1. TypeOK /\ Loc => RadioEnded
  <2> SUFFICES ASSUME TypeOK, Loc, NEW b \in Board,
                      state[b][1] = "start", next[b] = None
               PROVE  radio[b] = "off"
    BY DEF RadioEnded
  <2>1. state[b] \in State
    BY Parts DEF LoopTypes
  <2>2. AtStart(b)
    BY <2>1 DEF AtStart, Pos, State, Idle, Terminate, Start
  <2> QED
    BY <2>2 DEF Loc, LocOf, Ended
<1> QED
  BY <1>1, LocInvariant, PTL
-----------------------------------------------------------------------------
(* One exchange.  The stages of the initiator, by what it has yet to do... *)
Id(m) == <<m, cycle[Initiator]>>
ToPoll == \/ Pos(Initiator) = Wait("ACK") /\ rxFrame[Initiator].id[1] = "ACK"
          \/ Pos(Initiator) = Start("POLL")
          \/ Pos(Initiator) = Wait("POLL") /\ radio[Initiator] # "sent"
ToResponse == \/ Pos(Initiator) = Wait("POLL") /\ radio[Initiator] = "sent"
              \/ Pos(Initiator) = Start("RESPONSE")
              \/ Pos(Initiator) = Wait("RESPONSE") /\ ~Rx0Done[Initiator]
ToFinal == \/ Pos(Initiator) = Wait("RESPONSE") /\ Rx0Done[Initiator]
           \/ Pos(Initiator) = Start("FINAL")
           \/ Pos(Initiator) = Wait("FINAL") /\ radio[Initiator] # "sent"
ToResult == \/ Pos(Initiator) = Wait("FINAL") /\ radio[Initiator] = "sent"
            \/ Pos(Initiator) = Start("RESULT")
            \/ Pos(Initiator) = Wait("RESULT") /\ ~Rx0Done[Initiator]
HasResult == /\ Pos(Initiator) = Wait("RESULT") /\ Rx0Done[Initiator]
             /\ rxFrame[Initiator].ok

(* ... and what the responder does meanwhile, unless it has left the       *)
(* exchange; x is the RESPONSE the initiator has received.                 *)
Out == Pos(Responder) \in {Terminate, Idle, Start("SYNC"), Wait("SYNC")}
AwaitsPoll == /\ ~Sends(Responder)
              /\ \/ Pos(Responder) = Wait("ACK") /\ radio[Responder] = "sent"
                 \/ Pos(Responder) = Start("POLL")
                 \/ Pos(Responder) = Wait("POLL") /\ ~Rx0Done[Responder]
GotPoll == \/ /\ Pos(Responder) = Wait("POLL") /\ Rx0Done[Responder]
              /\ rxFrame[Responder].id = Id("POLL")
           \/ /\ Pos(Responder) \in {Start("RESPONSE"), Wait("RESPONSE"),
                                     Start("FINAL"), Wait("FINAL")}
              /\ stamps[Responder]["POLL"] = Id("POLL")
              /\ ~Rx0Done[Responder]
AwaitsFinal(x) ==
    /\ ~Sends(Responder)
    /\ stamps[Responder]["POLL"] = Id("POLL") /\ ~Rx0Done[Responder]
    /\ \/ /\ Pos(Responder) = Wait("RESPONSE") /\ radio[Responder] = "sent"
          /\ txTsu[Responder].id = x
       \/ /\ Pos(Responder) \in {Start("FINAL"), Wait("FINAL")}
          /\ stamps[Responder]["RESPONSE"] = x
Full(x) == [m \in Timed |-> IF m = "RESPONSE" THEN x ELSE Id(m)]
GotFinal(x) == \/ /\ Pos(Responder) = Wait("FINAL") /\ Rx0Done[Responder]
                  /\ rxFrame[Responder].id = Id("FINAL")
                  /\ stamps[Responder]["POLL"] = Id("POLL")
                  /\ stamps[Responder]["RESPONSE"] = x
               \/ /\ Pos(Responder) \in {Start("RESULT"), Wait("RESULT")}
                  /\ stamps[Responder] = Full(x)

PollRole == ~Sends(Responder) /\ (AwaitsPoll \/ Out)
ResponseRole == /\ Sends(Responder) => txFrame[Responder].id[1] = "RESPONSE"
                /\ AwaitsPoll \/ GotPoll \/ Out
FinalRole(x) == ~Sends(Responder) /\ (AwaitsFinal(x) \/ Out)
ResultRole(x) == /\ Sends(Responder) => /\ txFrame[Responder].id[1] = "RESULT"
                                       /\ txFrame[Responder].data = Full(x)
                 /\ AwaitsFinal(x) \/ GotFinal(x) \/ Out

(* The RESPONSE the initiator has received.                                *)
X == IF Pos(Initiator) = Wait("RESPONSE") THEN rxFrame[Initiator].id
                                          ELSE stamps[Initiator]["RESPONSE"]

NoSync == ToPoll \/ ToResponse \/ ToFinal \/ ToResult
              => rxFrame[Responder].id[1] # "SYNC"
AtPoll == ToPoll => PollRole
AtResponse == ToResponse =>
    /\ ResponseRole
    /\ Pos(Initiator) # Wait("POLL") => stamps[Initiator]["POLL"] = Id("POLL")
AtFinal == ToFinal =>
    /\ FinalRole(X)
    /\ X[1] = "RESPONSE" /\ stamps[Initiator]["POLL"] = Id("POLL")
AtResult == ToResult =>
    /\ X[1] = "RESPONSE" /\ stamps[Initiator]["POLL"] = Id("POLL")
    /\ Pos(Initiator) # Wait("FINAL") => stamps[Initiator]["FINAL"] = Id("FINAL")
    /\ ResultRole(X)
ResultFits == HasResult =>
    /\ rxFrame[Initiator].data = stamps[Initiator]
    /\ \A m \in Timed : stamps[Initiator][m][1] = m
OneExchange ==
    measured # None =>
        measured[1] = measured[2] /\ \A m \in Timed : measured[1][m][1] = m

Exchange == /\ NoSync /\ AtPoll /\ AtResponse /\ AtFinal /\ AtResult
            /\ ResultFits /\ OneExchange

(* The responder has no frame left when it comes to send.                  *)
NoneLeft ==
    \/ Sends(Responder)
    \/ \E m \in Message : Own(Responder, m) /\ Pos(Responder) \in {Start(m), Wait(m)}
    => rxFrame[Responder] = NoFrame

ExchangeInv == NoneLeft /\ (foreign = 0 => Exchange)

LEMMA NoneLeftNext ==
    ASSUME TypeOK, Loc, NoneLeft, Next
    PROVE  NoneLeft'
<1> USE Boards DEF NoneLeft, Sends, Own
<1>1. PICK b \in Board : \/ MainLoop(b) \/ TimerIrq(b)
                         \/ Air(b) \/ Missed(b) \/ FrameLost(b)
                         \/ ForeignFrame(b)
                         \/ Tick(b) \/ Reboot(b)
  BY DEF Next
<1> DEFINE r == Responder
<1>2. LocOf(r)
  BY DEF Loc
<1>3. ASSUME Same(r) PROVE NoneLeft'
  BY <1>3 DEF Same, Alike
<1>4. ASSUME NEW gets \in BOOLEAN, SentEffect(b, gets) PROVE NoneLeft'
  <2>1. CASE b = r
    BY <1>4, <2>1 DEF SentEffect
  <2>2. CASE b = Initiator /\ ~gets
    <3>1. Same(r)
      BY <1>4, <2>2 DEF SentEffect
    <3> QED
      BY <3>1, <1>3
  <2>3. CASE b = Initiator /\ gets
    <3>1. radio[r] = "rx" /\ Pos(r)' = Pos(r) /\ radio'[r] = "received"
      BY <1>2, <1>4, <2>3 DEF SentEffect, LocOf, Ended
    <3> QED
      BY <1>2, <3>1 DEF LocOf, RxLoc, Listens, Over, Terminate, Idle, Start,
                        Wait, Message, Sender, Responder
  <2> QED
    BY <2>1, <2>2, <2>3
<1>5. CASE FrameEnding(b)
  BY <1>5, FrameEndingEffect
<1>6. CASE Tick(b)
  BY <1>3, <1>6, TickEffect
<1>7. CASE b = Initiator /\ ~(FrameSent(b) \/ FrameLost(b) \/ FrameEnding(b))
  <2>1. Same(r)
    BY <1>1, <1>7, OthersStay DEF Air, Initiator, Responder
  <2> QED
    BY <2>1, <1>3
<1>8. CASE b = r /\ ~(FrameSent(b) \/ FrameLost(b) \/ FrameEnding(b))
  <2> USE DEF Idle, Terminate, Start, Wait, Message, Sender, Responder
  <2>1. CASE IdleOver(b) \/ Terminated(b) \/ EndCase(b)
    BY <1>8, <2>1, IdleOverEffect, TerminatedEffect, EndCaseEffect DEF Stays
  <2>2. ASSUME NEW m \in Message, Transmit(b, m) \/ Receive(b, m)
        PROVE  NoneLeft'
    BY <1>8, <2>2, TransmitEffect, ReceiveEffect
  <2>3. ASSUME NEW m \in Message, Transmitted(b, m) \/ Received(b, m)
        PROVE  NoneLeft'
    BY <1>8, <2>3, TransmittedEffect, ReceivedEffect DEF Following
  <2>4. ASSUME NEW m \in Message, SyncTimeout(b, m)
        PROVE  NoneLeft'
    BY <1>2, <1>8, <2>4, SyncTimeoutEffect DEF LocOf, TxLoc, Over, AtStart, Own
  <2>5. CASE TimerIrq(b) \/ Scheduled(b) \/ Missed(b)
    BY <1>8, <2>5, TimerIrqEffect, ScheduledEffect, MissedEffect DEF Stays
  <2>6. CASE ForeignFrame(b)
    BY <1>2, <1>8, <2>6, ForeignFrameEffect DEF LocOf, RxLoc, Listens, Over
  <2>7. CASE Reboot(b)
    BY <1>8, <2>7, RebootEffect
  <2> QED
    BY <1>1, <1>6, <1>8, <2>1, <2>2, <2>3, <2>4, <2>5, <2>6, <2>7
    DEF MainLoop, Air
<1>9. CASE FrameSent(b) \/ FrameLost(b)
  BY <1>4, <1>9, SentHasEffect DEF FrameSent, FrameLost
<1> QED
  BY <1>5, <1>7, <1>8, <1>9 DEF Board, Initiator, Responder

(* The initiator's steps that leave the exchange.                          *)
LEMMA InitiatorOut ==
    ASSUME OneExchange,
           Pos(Initiator)' \in {Terminate, Idle, Start("SYNC"), Wait("SYNC"),
                                Start("ACK")},
           measured' \in {None, measured}
    PROVE  Exchange'
<1>1. ~(ToPoll \/ ToResponse \/ ToFinal \/ ToResult \/ HasResult)'
  BY DEF ToPoll, ToResponse, ToFinal, ToResult, HasResult,
         Terminate, Idle, Start, Wait
<1> QED
  BY <1>1 DEF Exchange, NoSync, AtPoll, AtResponse, AtFinal, AtResult,
              ResultFits, OneExchange

(* A step that leaves the responder alone and enters no stage.             *)
StagesKept ==
    /\ ToPoll' => ToPoll
    /\ ToResponse' => /\ ToResponse
                      /\ \/ Pos(Initiator)' = Wait("POLL")
                         \/ stamps'[Initiator]["POLL"] = Id("POLL")
    /\ ToFinal' => /\ ToFinal /\ X' = X
                   /\ stamps'[Initiator]["POLL"] = stamps[Initiator]["POLL"]
    /\ ToResult' => /\ ToResult /\ X' = X
                    /\ stamps'[Initiator]["POLL"] = stamps[Initiator]["POLL"]
                    /\ \/ Pos(Initiator)' = Wait("FINAL")
                       \/ stamps'[Initiator]["FINAL"] = Id("FINAL")
    /\ HasResult' => /\ HasResult
                     /\ rxFrame'[Initiator] = rxFrame[Initiator]
                     /\ stamps'[Initiator] = stamps[Initiator]

LEMMA SameRoles ==
    ASSUME Alike(Responder), cycle'[Initiator] = cycle[Initiator]
    PROVE  /\ rxFrame'[Responder] = rxFrame[Responder]
           /\ PollRole' <=> PollRole
           /\ ResponseRole' <=> ResponseRole
           /\ X' = X => /\ FinalRole(X)' <=> FinalRole(X)
                        /\ ResultRole(X)' <=> ResultRole(X)
<1> USE DEF Same, Alike
<1>1. /\ Sends(Responder)' <=> Sends(Responder)
      /\ Out' <=> Out
      /\ \A m : Id(m)' = Id(m)
      /\ AwaitsPoll' <=> AwaitsPoll
      /\ GotPoll' <=> GotPoll
  BY DEF Sends, Out, Id, AwaitsPoll, GotPoll
<1>2. ASSUME X' = X
      PROVE  /\ FinalRole(X)' <=> FinalRole(X)
             /\ ResultRole(X)' <=> ResultRole(X)
  <2>1. Full(X)' = Full(X)
    BY <1>2 DEF Full, Id
  <2>2. AwaitsFinal(X)' <=> AwaitsFinal(X)
    BY <1>1, <1>2 DEF AwaitsFinal
  <2>3. GotFinal(X)' <=> GotFinal(X)
    BY <1>1, <1>2, <2>1 DEF GotFinal
  <2> QED
    BY <1>1, <2>1, <2>2, <2>3 DEF FinalRole, ResultRole
<1> QED
  BY <1>1, <1>2 DEF PollRole, ResponseRole

LEMMA KeepsStages ==
    ASSUME Exchange, Alike(Responder), cycle'[Initiator] = cycle[Initiator],
           StagesKept, OneExchange'
    PROVE  Exchange'
<1>1. Id("POLL")' = Id("POLL") /\ Id("FINAL")' = Id("FINAL")
  BY DEF Id
<1>2. NoSync' /\ AtPoll'
  BY SameRoles DEF Exchange, NoSync, AtPoll, StagesKept
<1>3. AtResponse'
  BY <1>1, SameRoles DEF Exchange, AtResponse, StagesKept
<1>4. AtFinal'
  <2>1. ToFinal' => /\ ToFinal /\ X' = X
                    /\ stamps'[Initiator]["POLL"] = stamps[Initiator]["POLL"]
    BY DEF StagesKept
  <2>2. X' = X => (FinalRole(X)' <=> FinalRole(X))
    BY SameRoles
  <2> QED
    BY <1>1, <2>1, <2>2 DEF Exchange, AtFinal
<1>5. AtResult'
  BY <1>1, SameRoles DEF Exchange, AtResult, StagesKept
<1>6. ResultFits'
  BY DEF Exchange, ResultFits, StagesKept
<1> QED
  BY <1>2, <1>3, <1>4, <1>5, <1>6 DEF Exchange

LEMMA SameExchange ==
    ASSUME Exchange, Alike(Initiator), Alike(Responder), measured' = measured
    PROVE  Exchange'
<1>1. OneExchange'
  BY DEF Exchange, OneExchange
<1>2. StagesKept
  BY DEF StagesKept, Same, Alike, ToPoll, ToResponse, ToFinal, ToResult, HasResult, X,
         Exchange, AtResponse, AtResult
<1> QED
  BY <1>1, <1>2, KeepsStages DEF Same, Alike

(* The initiator's main loop, and its radio until a frame ends.            *)
LEMMA InitiatorStep ==
    ASSUME TypeOK, Loc, Exchange,
           \/ MainLoop(Initiator) \/ TimerIrq(Initiator)
           \/ Scheduled(Initiator) \/ Missed(Initiator)
    PROVE  Exchange'
<1> DEFINE i == Initiator
<1>1. Alike(Responder)
  BY OthersStay, Boards DEF Same
<1>2. LocOf(i) /\ i \in Board
  BY Boards DEF Loc
<1>3. OneExchange
  BY DEF Exchange
<1>4. CASE IdleOver(i)
  BY <1>2, <1>3, <1>4, IdleOverEffect, InitiatorOut
<1>5. CASE Terminated(i)
  BY <1>2, <1>3, <1>5, TerminatedEffect, InitiatorOut
<1>6. ASSUME NEW m \in Message, SyncTimeout(i, m) PROVE Exchange'
  BY <1>2, <1>3, <1>6, SyncTimeoutEffect, InitiatorOut
<1>7. CASE TimerIrq(i)
  <2>1. CASE next[i] = None
    BY <1>2, <1>3, <1>7, <2>1, TimerIrqEffect, InitiatorOut
  <2>2. CASE next[i] # None
    <3>1. Alike(i) /\ measured' = measured
      BY <1>2, <1>7, <2>2, TimerIrqEffect DEF Same, Alike, Stays
    <3> QED
      BY <1>1, <3>1, SameExchange
  <2> QED
    BY <2>1, <2>2
<1>15. /\ ToResponse => \/ Pos(i) = Wait("POLL")
                        \/ stamps[i]["POLL"] = Id("POLL")
       /\ ToResult => \/ Pos(i) = Wait("FINAL")
                      \/ stamps[i]["FINAL"] = Id("FINAL")
  BY DEF Exchange, AtResponse, AtResult
<1>16. stamps[i] \in [Timed -> FrameId]
  BY <1>2, Parts DEF LoopTypes, Stamps
<1>17. measured' = measured => OneExchange'
  BY <1>3 DEF OneExchange
<1>10. ASSUME NEW m \in Message, Transmitted(i, m) PROVE Exchange'
  <2>6. cycle'[i] = cycle[i] /\ measured' = measured
    BY <1>2, <1>10, TransmittedEffect
  <2>7. m \in Timed => stamps'[i] = [stamps[i] EXCEPT ![m] = txTsu[i].id]
    BY <1>2, <1>10, TransmittedEffect
  <2>8. m \notin Timed => stamps'[i] = stamps[i]
    BY <1>2, <1>10, TransmittedEffect
  <2>9. m # "RESULT" => Pos(i)' = Start(Following[m])
    BY <1>2, <1>10, TransmittedEffect
  <2>1. m \in Timed => radio[i] = "sent" /\ txTsu[i].id = Id(m)
    <3>1. TxDone[i] /\ Pos(i) = Wait(m)
      BY <1>2, <1>10, TransmittedEffect
    <3>2. m \in Timed => Wait(m) # Terminate /\ Wait(m) \notin StaleTx(i)
      BY DEF StaleTx, Early, Start, Wait, Idle, Terminate, Timed
    <3> QED
      BY <1>2, <3>1, <3>2, States DEF LocOf, TxLoc, Id
  <2>3. m \in {"SYNC", "POLL", "FINAL"}
    BY <1>2, <1>10, TransmittedEffect DEF Sender, Initiator
  <2>4. /\ m = "POLL" => stamps'[i]["POLL"] = Id("POLL")
        /\ m = "FINAL" => /\ stamps'[i]["FINAL"] = Id("FINAL")
                         /\ stamps'[i]["POLL"] = stamps[i]["POLL"]
        /\ stamps'[i]["RESPONSE"] = stamps[i]["RESPONSE"]
    BY <1>16, <2>1, <2>3, <2>7, <2>8 DEF Timed
  <2>5. /\ m = "SYNC" => Pos(i)' = Start("ACK")
        /\ m = "POLL" => Pos(i)' = Start("RESPONSE")
        /\ m = "FINAL" => Pos(i)' = Start("RESULT")
    BY <2>3, <2>9, Followers
  <2>2. StagesKept
    <3>1. /\ Pos(i) = Wait(m) /\ radio'[i] = radio[i] /\ rxFrame'[i] = rxFrame[i]
          /\ Rx0Done'[i] = Rx0Done[i]
      BY <1>2, <1>10, TransmittedEffect
    <3> QED
      BY <1>15, <2>1, <2>3, <2>4, <2>5, <3>1
      DEF StagesKept, ToPoll, ToResponse, ToFinal, ToResult, HasResult, X,
          Start, Wait, Timed
  <2> QED
    BY <1>1, <1>17, <2>2, <2>6, KeepsStages
<1>11. ASSUME NEW m \in Message, Received(i, m) PROVE Exchange'
  <2>6. m \in Timed => stamps'[i] = [stamps[i] EXCEPT ![m] = rxFrame[i].id]
    BY <1>2, <1>11, ReceivedEffect
  <2>7. m \notin Timed => stamps'[i] = stamps[i]
    BY <1>2, <1>11, ReceivedEffect
  <2>8. Pos(i)' = AfterReceived(i, m)
    BY <1>2, <1>11, ReceivedEffect
  <2>3. m \in {"ACK", "RESPONSE", "RESULT"}
    <3>1. Sender(m) # i
      BY <1>2, <1>11, ReceivedEffect
    <3> QED
      BY <3>1 DEF Sender, Initiator, Message
  <2>4. /\ m = "RESPONSE" => stamps'[i]["RESPONSE"] = rxFrame[i].id
        /\ m # "RESPONSE" => stamps'[i]["RESPONSE"] = stamps[i]["RESPONSE"]
        /\ stamps'[i]["POLL"] = stamps[i]["POLL"]
    BY <1>16, <2>3, <2>6, <2>7 DEF Timed
  <2>5. /\ m = "ACK" => \/ Pos(i)' = Start("SYNC")
                        \/ Pos(i)' = Start("POLL") /\ rxFrame[i].id[1] = "ACK"
        /\ m = "RESPONSE" => Pos(i)' = Start("FINAL")
        /\ m = "RESULT" => Pos(i)' = Terminate
    BY <2>3, <2>8, Followers DEF AfterReceived, Valid
  <2>1. StagesKept
    <3>1. Pos(i) = Wait(m) /\ radio'[i] = radio[i] /\ Rx0Done[i]
      BY <1>2, <1>11, ReceivedEffect
    <3> QED
      BY <1>15, <2>3, <2>4, <2>5, <3>1
      DEF StagesKept, ToPoll, ToResponse, ToFinal, ToResult, HasResult, X,
          Start, Wait, Terminate
  <2>2. OneExchange'
    <3>1. HasResult => /\ rxFrame[i].data = stamps[i]
                       /\ \A n \in Timed : stamps[i][n][1] = n
      BY DEF Exchange, ResultFits
    <3>2. m = "RESULT" /\ rxFrame[i].ok => HasResult
      BY <1>2, <1>11, ReceivedEffect DEF HasResult
    <3>3. CASE m = "RESULT" /\ rxFrame[i].ok
      <4>1. measured' = <<stamps[i], rxFrame[i].data>>
        BY <1>2, <1>11, <3>3, ReceivedEffect
      <4>2. measured'[1] = stamps[i] /\ measured'[2] = rxFrame[i].data
        BY <4>1
      <4> QED
        BY <3>1, <3>2, <3>3, <4>2 DEF OneExchange
    <3>4. CASE ~(m = "RESULT" /\ rxFrame[i].ok)
      BY <1>2, <1>11, <1>17, <3>4, ReceivedEffect
    <3> QED
      BY <3>3, <3>4
  <2> QED
    BY <1>1, <1>2, <1>11, <2>1, <2>2, KeepsStages, ReceivedEffect
<1> USE DEF StagesKept, ToPoll, ToResponse, ToFinal, ToResult, HasResult,
            Id, X, Idle, Terminate, Start, Wait, Message, Timed
<1>8. ASSUME NEW m \in Message, Transmit(i, m) PROVE Exchange'
  <2>1. StagesKept
    BY <1>2, <1>15, <1>8, TransmitEffect DEF Deferred, Sender, Initiator
  <2> QED
    BY <1>1, <1>2, <1>17, <1>8, <2>1, KeepsStages, TransmitEffect
<1>9. ASSUME NEW m \in Message, Receive(i, m) PROVE Exchange'
  <2>1. ~Rx0Done[i] \/ m \in {"SYNC", "ACK"}
    BY <1>2, <1>9, ReceiveEffect
    DEF LocOf, RxLoc, Listens, StaleRx, Early, Initiator, Responder
  <2>2. StagesKept
    BY <1>2, <1>15, <1>9, <2>1, ReceiveEffect DEF Sender, NoFrame, Initiator
  <2> QED
    BY <1>1, <1>2, <1>17, <1>9, <2>2, KeepsStages, ReceiveEffect
<1>12. CASE EndCase(i)
  <2>1. StagesKept
    BY <1>2, <1>15, <1>12, EndCaseEffect DEF LocOf, Ended, AtWait
  <2> QED
    BY <1>1, <1>2, <1>17, <1>12, <2>1, KeepsStages, EndCaseEffect
<1>13. CASE Scheduled(i)
  <2>1. StagesKept
    BY <1>2, <1>15, <1>13, ScheduledEffect
  <2> QED
    BY <1>1, <1>2, <1>17, <1>13, <2>1, KeepsStages, ScheduledEffect
<1>14. CASE Missed(i)
  <2>1. StagesKept
    BY <1>2, <1>15, <1>14, MissedEffect
  <2> QED
    BY <1>1, <1>2, <1>17, <1>14, <2>1, KeepsStages, MissedEffect
<1> QED
  BY <1>4, <1>5, <1>6, <1>7, <1>8, <1>9, <1>10, <1>11, <1>12, <1>13, <1>14
  DEF MainLoop

(* A step that leaves the initiator alone, and the responder in its role.  *)
RolesKept ==
    rxFrame[Responder].id[1] # "SYNC" =>
        /\ rxFrame'[Responder].id[1] # "SYNC"
        /\ PollRole => PollRole'
        /\ ResponseRole => ResponseRole'
        /\ \A x : FinalRole(x) => FinalRole(x)'
        /\ \A x : ResultRole(x) => ResultRole(x)'

LEMMA KeepsRoles ==
    ASSUME Exchange, Alike(Initiator), RolesKept, measured' = measured
    PROVE  Exchange'
<1>1. /\ ToPoll' <=> ToPoll
      /\ ToResponse' <=> ToResponse
      /\ ToFinal' <=> ToFinal
      /\ ToResult' <=> ToResult
      /\ HasResult' <=> HasResult
      /\ X' = X /\ Id("POLL")' = Id("POLL") /\ Id("FINAL")' = Id("FINAL")
      /\ Pos(Initiator)' = Pos(Initiator)
      /\ stamps'[Initiator] = stamps[Initiator]
      /\ rxFrame'[Initiator] = rxFrame[Initiator]
  BY DEF Same, Alike, ToPoll, ToResponse, ToFinal, ToResult, HasResult, X, Id
<1>2. NoSync' /\ AtPoll'
  BY <1>1 DEF Exchange, NoSync, AtPoll, RolesKept
<1>3. AtResponse'
  BY <1>1 DEF Exchange, NoSync, AtResponse, RolesKept
<1>4. ASSUME NEW x, X = x
      PROVE  /\ ToFinal => FinalRole(X)'
             /\ ToResult => ResultRole(X)'
  <2>1. X' = x
    BY <1>1, <1>4
  <2>2. /\ FinalRole(X) <=> FinalRole(x)
        /\ FinalRole(X)' <=> FinalRole(x)'
        /\ ResultRole(X) <=> ResultRole(x)
        /\ ResultRole(X)' <=> ResultRole(x)'
    BY <1>4, <2>1
  <2> QED
    BY <2>2 DEF Exchange, NoSync, AtFinal, AtResult, RolesKept
<1>5. AtFinal' /\ AtResult'
  BY <1>1, <1>4 DEF Exchange, AtFinal, AtResult
<1>6. ResultFits' /\ OneExchange'
  BY <1>1 DEF Exchange, ResultFits, OneExchange
<1> QED
  BY <1>2, <1>3, <1>5, <1>6 DEF Exchange

(* Once out of the exchange and not sending what it should not.            *)
LEMMA OutKeepsRoles ==
    ASSUME Out', rxFrame'[Responder] \in {rxFrame[Responder], NoFrame},
           txFrame'[Responder] = txFrame[Responder],
           cycle'[Initiator] = cycle[Initiator],
           Sends(Responder)' => Sends(Responder)
    PROVE  RolesKept
<1>1. NoFrame.id[1] = "none"
  BY DEF NoFrame
<1>2. \A x : Full(x)' = Full(x)
  BY DEF Full, Id
<1> QED
  BY <1>1, <1>2 DEF RolesKept, PollRole, ResponseRole, FinalRole, ResultRole

(* A step of the responder's radio, before anything has been sent.         *)
LEMMA RadioKeepsRoles ==
    ASSUME Pos(Responder)' = Pos(Responder),
           Sends(Responder)' => Sends(Responder),
           AtWait(Responder) /\ radio[Responder] = "sent"
               => radio'[Responder] = "sent",
           Rx0Done'[Responder] = Rx0Done[Responder],
           rxFrame'[Responder] = rxFrame[Responder],
           txFrame'[Responder] = txFrame[Responder],
           txTsu'[Responder] = txTsu[Responder],
           stamps'[Responder] = stamps[Responder],
           cycle'[Initiator] = cycle[Initiator]
    PROVE  RolesKept
<1>1. Pos(Responder) \in {Wait("ACK"), Wait("RESPONSE")} => AtWait(Responder)
  BY DEF AtWait, Message
<1>2. (Out' <=> Out) /\ (AwaitsPoll => AwaitsPoll') /\ (GotPoll' <=> GotPoll)
  BY <1>1 DEF Out, AwaitsPoll, GotPoll, Id
<1>3. ASSUME NEW x
      PROVE  /\ AwaitsFinal(x) => AwaitsFinal(x)'
             /\ GotFinal(x) => GotFinal(x)'
             /\ Full(x)' = Full(x)
  BY <1>1 DEF AwaitsFinal, GotFinal, Full, Id
<1> QED
  BY <1>2, <1>3 DEF RolesKept, PollRole, ResponseRole, FinalRole, ResultRole

(* The responder's main loop, and its radio until a frame ends.            *)
LEMMA ResponderStep ==
    ASSUME TypeOK, Loc, Exchange,
           \/ MainLoop(Responder) \/ TimerIrq(Responder)
           \/ Scheduled(Responder) \/ Missed(Responder) \/ Reboot(Responder)
    PROVE  Exchange'
<1> DEFINE r == Responder
<1>1. Alike(Initiator)
  BY OthersStay, Boards DEF Same
<1>2. LocOf(r) /\ r \in Board /\ r # Initiator
  BY Boards DEF Loc
<1>3. cycle'[Initiator] = cycle[Initiator]
  BY <1>1 DEF Same, Alike
<1>4. CASE IdleOver(r)
  <2>1. Out' /\ Stays(r) /\ measured' = measured
    BY <1>2, <1>4, IdleOverEffect DEF Out
  <2>2. RolesKept
    BY <1>3, <2>1, OutKeepsRoles DEF Stays, Sends
  <2> QED
    BY <1>1, <2>1, <2>2, KeepsRoles
<1>5. CASE Terminated(r)
  <2>1. /\ Out' /\ rxFrame'[r] = rxFrame[r] /\ txFrame'[r] = txFrame[r]
        /\ radio'[r] = radio[r] /\ measured' = measured
    BY <1>2, <1>5, TerminatedEffect DEF Out
  <2>2. RolesKept
    BY <1>3, <2>1, OutKeepsRoles DEF Sends
  <2> QED
    BY <1>1, <2>1, <2>2, KeepsRoles
<1>6. ASSUME NEW m \in Message, SyncTimeout(r, m) PROVE Exchange'
  <2>1. /\ Out' /\ rxFrame'[r] = rxFrame[r] /\ txFrame'[r] = txFrame[r]
        /\ radio'[r] = radio[r] /\ measured' = measured
    BY <1>2, <1>6, SyncTimeoutEffect DEF Out
  <2>2. RolesKept
    BY <1>3, <2>1, OutKeepsRoles DEF Sends
  <2> QED
    BY <1>1, <2>1, <2>2, KeepsRoles
<1>7. CASE TimerIrq(r)
  <2>1. Stays(r) /\ measured' = measured /\ next'[r] = next[r]
        /\ Pos(r)' = (IF next[r] = None THEN Terminate ELSE Pos(r))
    BY <1>2, <1>7, TimerIrqEffect
  <2>2. CASE next[r] = None
    <3>1. RolesKept
      BY <1>3, <2>1, <2>2, OutKeepsRoles DEF Stays, Sends, Out
    <3> QED
      BY <1>1, <2>1, <3>1, KeepsRoles
  <2>3. CASE next[r] # None
    <3>1. Alike(r)
      BY <2>1, <2>3 DEF Same, Alike, Stays
    <3> QED
      BY <1>1, <2>1, <3>1, SameExchange
  <2> QED
    BY <2>2, <2>3
<1>8. CASE Reboot(r)
  <2>1. /\ Pos(r)' = Start("SYNC") /\ radio'[r] = "off" /\ rxFrame'[r] = NoFrame
        /\ measured' = measured
    BY <1>2, <1>8, RebootEffect
  <2>2. Out' /\ ~Sends(r)'
    BY <2>1 DEF Out, Sends
  <2>3. NoFrame.id[1] = "none"
    BY DEF NoFrame
  <2>4. RolesKept
    BY <2>1, <2>2, <2>3
    DEF RolesKept, PollRole, ResponseRole, FinalRole, ResultRole
  <2> QED
    BY <1>1, <2>1, <2>4, KeepsRoles
<1>9. CASE EndCase(r)
  <2>1. /\ Pos(r)' = Pos(r) /\ next[r] # None
        /\ radio'[r] = (IF next[r].end THEN "off" ELSE radio[r])
        /\ Rx0Done'[r] = Rx0Done[r] /\ rxFrame'[r] = rxFrame[r]
        /\ txFrame'[r] = txFrame[r] /\ txTsu'[r] = txTsu[r]
        /\ stamps'[r] = stamps[r] /\ measured' = measured
    BY <1>2, <1>9, EndCaseEffect
  <2>2. AtWait(r) => radio'[r] = radio[r]
    BY <1>2, <2>1 DEF LocOf, Ended
  <2>3. Sends(r)' => Sends(r)
    BY <2>1 DEF Sends
  <2>4. RolesKept
    BY <1>3, <2>1, <2>2, <2>3, RadioKeepsRoles
  <2> QED
    BY <1>1, <2>1, <2>4, KeepsRoles
<1>10. CASE Scheduled(r) \/ Missed(r)
  <2>1. /\ Pos(r)' = Pos(r)
        /\ radio[r] \in {"txLater", "rxLater"}
        /\ radio[r] = "rxLater" => radio'[r] \in {"rx", "missed"}
        /\ Rx0Done'[r] = Rx0Done[r] /\ rxFrame'[r] = rxFrame[r]
        /\ txFrame'[r] = txFrame[r] /\ txTsu'[r] = txTsu[r]
        /\ stamps'[r] = stamps[r] /\ measured' = measured
    BY <1>2, <1>10, ScheduledEffect, MissedEffect
  <2>2. Sends(r)' => Sends(r)
    BY <2>1 DEF Sends
  <2>3. RolesKept
    BY <1>3, <2>1, <2>2, RadioKeepsRoles
  <2> QED
    BY <1>1, <2>1, <2>3, KeepsRoles
<1>11. ASSUME NEW m \in Message, Transmit(r, m) PROVE Exchange'
  <2>1. /\ Pos(r) = Start(m) /\ Pos(r)' = Wait(m) /\ Sender(m) = r
        /\ Rx0Done'[r] = Rx0Done[r] /\ rxFrame'[r] = rxFrame[r]
        /\ txFrame'[r].id = <<m, cycle[r]>>
        /\ m = "RESULT" => txFrame'[r].data = stamps[r]
        /\ stamps'[r] = stamps[r] /\ measured' = measured
    BY <1>2, <1>11, TransmitEffect
  <2>2. m \in {"ACK", "RESPONSE", "RESULT"} /\ txFrame'[r].id[1] = m
    BY <2>1 DEF Sender, Responder, Message
  <2>3. /\ Out => FALSE
        /\ AwaitsPoll => FALSE
        /\ GotPoll => m = "RESPONSE" /\ GotPoll'
    BY <1>3, <2>1, <2>2 DEF Out, AwaitsPoll, GotPoll, Id, Terminate, Idle,
                            Start, Wait
  <2>4. ASSUME NEW x
        PROVE  /\ ~AwaitsFinal(x)
               /\ GotFinal(x) => /\ m = "RESULT" /\ GotFinal(x)'
                                 /\ txFrame'[r].data = Full(x)'
    BY <1>3, <2>1, <2>2 DEF AwaitsFinal, GotFinal, Full, Id, Start, Wait
  <2>5. RolesKept
    BY <2>1, <2>2, <2>3, <2>4
    DEF RolesKept, PollRole, ResponseRole, FinalRole, ResultRole
  <2> QED
    BY <1>1, <2>1, <2>5, KeepsRoles
<1>12. ASSUME NEW m \in Message, Receive(r, m) PROVE Exchange'
  <2>1. /\ Pos(r) = Start(m) /\ Pos(r)' = Wait(m) /\ Sender(m) # r
        /\ Rx0Done'[r] = Rx0Done[r] /\ rxFrame'[r] = NoFrame
        /\ radio'[r] = (IF Deferred(m) THEN "rxLater" ELSE "rx")
        /\ stamps'[r] = stamps[r] /\ measured' = measured
    BY <1>2, <1>12, ReceiveEffect
  <2>2. m \in {"SYNC", "POLL", "FINAL"} /\ ~Sends(r)'
    BY <2>1 DEF Sender, Responder, Message, Sends
  <2>3. m # "SYNC" => ~Rx0Done[r]
    BY <1>2, <2>1, <2>2
    DEF LocOf, RxLoc, Listens, StaleRx, Early, Start, Wait, Terminate, Idle
  <2>4. /\ Out => Out'
        /\ AwaitsPoll => AwaitsPoll'
        /\ GotPoll => GotPoll'
    BY <1>3, <2>1, <2>2, <2>3 DEF Out, AwaitsPoll, GotPoll, Id, Terminate, Idle,
                                  Start, Wait
  <2>5. ASSUME NEW x
        PROVE  /\ AwaitsFinal(x) => AwaitsFinal(x)'
               /\ ~GotFinal(x)
    BY <1>3, <2>1, <2>2, <2>3 DEF AwaitsFinal, GotFinal, Id, Start, Wait
  <2>6. NoFrame.id[1] = "none"
    BY DEF NoFrame
  <2>7. RolesKept
    BY <2>1, <2>2, <2>4, <2>5, <2>6
    DEF RolesKept, PollRole, ResponseRole, FinalRole, ResultRole
  <2> QED
    BY <1>1, <2>1, <2>7, KeepsRoles
<1>13. stamps[r] \in [Timed -> FrameId]
  BY <1>2, Parts DEF LoopTypes, Stamps
<1>14. ASSUME NEW m \in Message, Transmitted(r, m) PROVE Exchange'
  <2>1. /\ Pos(r) = Wait(m) /\ Sender(m) = r /\ TxDone[r]
        /\ radio'[r] = radio[r] /\ Rx0Done'[r] = Rx0Done[r]
        /\ rxFrame'[r] = rxFrame[r] /\ txFrame'[r] = txFrame[r]
        /\ measured' = measured
    BY <1>2, <1>14, TransmittedEffect
  <2>2. Pos(r)' = (IF m = "RESULT" THEN Terminate ELSE Start(Following[m]))
    BY <1>2, <1>14, TransmittedEffect
  <2>3. m \in Timed => stamps'[r] = [stamps[r] EXCEPT ![m] = txTsu[r].id]
    BY <1>2, <1>14, TransmittedEffect
  <2>4. m \notin Timed => stamps'[r] = stamps[r]
    BY <1>2, <1>14, TransmittedEffect
  <2>5. m \in {"ACK", "RESPONSE", "RESULT"}
    BY <2>1 DEF Sender, Responder, Message
  <2>6. /\ m = "ACK" => Pos(r)' = Start("POLL") /\ stamps'[r] = stamps[r]
        /\ m = "RESPONSE" => /\ Pos(r)' = Start("FINAL")
                             /\ stamps'[r]["RESPONSE"] = txTsu[r].id
                             /\ stamps'[r]["POLL"] = stamps[r]["POLL"]
        /\ m = "RESULT" => Pos(r)' = Terminate
    BY <1>13, <2>2, <2>3, <2>4, <2>5, Followers DEF Timed
  <2>7. Sends(r)' <=> Sends(r)
    BY <2>1 DEF Sends
  <2>8. /\ Out => FALSE
        /\ AwaitsPoll => AwaitsPoll'
        /\ GotPoll => GotPoll'
    BY <1>3, <2>1, <2>5, <2>6, <2>7
    DEF Out, AwaitsPoll, GotPoll, Id, Terminate, Idle, Start, Wait
  <2>9. ASSUME NEW x
        PROVE  /\ AwaitsFinal(x) => AwaitsFinal(x)'
               /\ GotFinal(x) => Out'
               /\ Full(x)' = Full(x)
    BY <1>3, <2>1, <2>5, <2>6, <2>7
    DEF Out, AwaitsFinal, GotFinal, Full, Id, Start, Wait
  <2>10. RolesKept
    BY <2>1, <2>7, <2>8, <2>9
    DEF RolesKept, PollRole, ResponseRole, FinalRole, ResultRole
  <2> QED
    BY <1>1, <2>1, <2>10, KeepsRoles
<1>15. ASSUME NEW m \in Message, Received(r, m) PROVE Exchange'
  <2>1. /\ Pos(r) = Wait(m) /\ Sender(m) # r /\ Rx0Done[r] /\ ~Rx0Done'[r]
        /\ radio'[r] = radio[r] /\ rxFrame'[r] = NoFrame
        /\ txFrame'[r] = txFrame[r]
    BY <1>2, <1>15, ReceivedEffect
  <2>2. Pos(r)' = AfterReceived(r, m)
    BY <1>2, <1>15, ReceivedEffect
  <2>3. m \in Timed => stamps'[r] = [stamps[r] EXCEPT ![m] = rxFrame[r].id]
    BY <1>2, <1>15, ReceivedEffect
  <2>4. m \in {"SYNC", "POLL", "FINAL"}
    BY <2>1 DEF Sender, Responder, Message
  <2>5. measured' = measured
    BY <1>2, <1>15, <2>4, ReceivedEffect
  <2>6. /\ m = "SYNC" /\ rxFrame[r].id[1] # "SYNC" => Pos(r)' = Start("SYNC")
        /\ m = "POLL" => /\ Pos(r)' = Start("RESPONSE")
                         /\ stamps'[r]["POLL"] = rxFrame[r].id
        /\ m = "FINAL" => /\ Pos(r)' = Start("RESULT")
                          /\ stamps'[r] = [stamps[r] EXCEPT !["FINAL"] =
                                                         rxFrame[r].id]
    BY <1>13, <2>2, <2>3, <2>4, Followers DEF AfterReceived, Valid, Timed
  <2>7. Sends(r)' <=> Sends(r)
    BY <2>1 DEF Sends
  <2>8. /\ Out /\ rxFrame[r].id[1] # "SYNC" => Out'
        /\ ~AwaitsPoll
        /\ GotPoll => GotPoll'
    BY <1>3, <2>1, <2>4, <2>6
    DEF Out, AwaitsPoll, GotPoll, Id, Terminate, Idle, Start, Wait
  <2>9. ASSUME NEW x
        PROVE  /\ ~AwaitsFinal(x)
               /\ GotFinal(x) => GotFinal(x)'
               /\ Full(x)' = Full(x)
    <3>1. Full(x)' = Full(x)
      BY <1>3 DEF Full, Id
    <3>2. ~AwaitsFinal(x)
      BY <2>1 DEF AwaitsFinal
    <3>3. ASSUME GotFinal(x) PROVE GotFinal(x)'
      <4>1. /\ m = "FINAL" /\ rxFrame[r].id = Id("FINAL")
            /\ stamps[r]["POLL"] = Id("POLL") /\ stamps[r]["RESPONSE"] = x
        BY <2>1, <2>4, <3>3 DEF GotFinal, Start, Wait
      <4>2. [stamps[r] EXCEPT !["FINAL"] = Id("FINAL")] = Full(x)
        BY <1>13, <4>1 DEF Full, Timed
      <4> QED
        BY <2>6, <3>1, <4>1, <4>2 DEF GotFinal
    <3> QED
      BY <3>1, <3>2, <3>3
  <2>10. NoFrame.id[1] = "none"
    BY DEF NoFrame
  <2>11. RolesKept
    BY <2>1, <2>7, <2>8, <2>9, <2>10
    DEF RolesKept, PollRole, ResponseRole, FinalRole, ResultRole
  <2> QED
    BY <1>1, <2>5, <2>11, KeepsRoles
<1> QED
  BY <1>4, <1>5, <1>6, <1>7, <1>8, <1>9, <1>10, <1>11, <1>12, <1>14, <1>15
  DEF MainLoop

(* The initiator's frame has ended: POLL and FINAL begin a stage, and the  *)
(* responder may have received them.                                       *)
LEMMA InitiatorSent ==
    ASSUME TypeOK, Loc, Exchange, NEW gets \in BOOLEAN,
           SentEffect(Initiator, gets)
    PROVE  Exchange'
<1> DEFINE i == Initiator
           r == Responder
<1>1. /\ Pos(i)' = Pos(i) /\ radio[i] = "txEnding" /\ radio'[i] = "sent"
      /\ Rx0Done'[i] = Rx0Done[i] /\ rxFrame'[i] = rxFrame[i]
      /\ cycle'[i] = cycle[i] /\ stamps'[i] = stamps[i]
      /\ measured' = measured /\ (~gets => Alike(r))
  BY Boards DEF SentEffect, Same
<1>2. gets => /\ locked[r] /\ radio'[r] = "received"
              /\ Pos(r)' = Pos(r) /\ Rx0Done'[r]
              /\ rxFrame'[r].id = txFrame[i].id
              /\ txFrame'[r] = txFrame[r] /\ txTsu'[r] = txTsu[r]
              /\ stamps'[r] = stamps[r]
  BY Boards DEF SentEffect
<1>3. LocOf(i) /\ LocOf(r)
  BY Boards DEF Loc
<1>4. OneExchange /\ OneExchange'
  BY <1>1 DEF Exchange, OneExchange
<1>5. gets => radio[r] = "rx" /\ ~Sends(r) /\ ~Sends(r)'
  BY <1>2, <1>3 DEF LocOf, Ended, Sends
<1>6. \/ Over(i)
      \/ Pos(i) = Wait("SYNC")
      \/ Pos(i) = Wait("POLL") /\ txFrame[i].id = Id("POLL")
      \/ Pos(i) = Wait("FINAL") /\ txFrame[i].id = Id("FINAL")
  <2>1. \/ \E m \in Message : /\ Pos(i) = Wait(m) /\ Own(i, m)
                              /\ txFrame[i].id = <<m, cycle[i]>>
        \/ Over(i)
    BY <1>1, <1>3 DEF LocOf, TxLoc, Sends
  <2> QED
    BY <2>1 DEF Own, Sender, Message, Id, Initiator
<1>7. CASE Over(i) \/ Pos(i) = Wait("SYNC")
  BY <1>1, <1>4, <1>7, InitiatorOut DEF Over
<1>8. CASE Pos(i) = Wait("POLL") /\ txFrame[i].id = Id("POLL")
  <2>1. ToPoll /\ ~ToPoll' /\ ~ToFinal' /\ ~ToResult' /\ ~HasResult'
    BY <1>1, <1>8 DEF ToPoll, ToFinal, ToResult, HasResult, Start, Wait
  <2>2. PollRole /\ rxFrame[r].id[1] # "SYNC"
    BY <2>1 DEF Exchange, NoSync, AtPoll
  <2>3. rxFrame'[r].id[1] # "SYNC" /\ ResponseRole'
    <3>1. CASE ~gets
      <4>1. Alike(r) /\ ResponseRole
        BY <1>1, <2>2, <3>1 DEF PollRole, ResponseRole
      <4> QED
        BY <1>1, <2>2, <4>1, SameRoles
    <3>2. CASE gets
      <4>1. rxFrame'[r].id = Id("POLL") /\ Id("POLL")[1] = "POLL"
        BY <1>2, <1>8, <3>2 DEF Id
      <4>2. Out => Out'
        BY <1>2, <3>2 DEF Out
      <4>3. AwaitsPoll => GotPoll' \/ Pos(r) = Start("POLL")
        BY <1>1, <1>2, <1>5, <3>2, <4>1 DEF AwaitsPoll, GotPoll, Id
      <4>4. Pos(r) # Start("POLL")
        BY <1>3, <1>5, <3>2 DEF LocOf, RxLoc, Listens, Over, Start, Wait,
                                Terminate, Idle
      <4> QED
        BY <1>5, <2>2, <3>2, <4>1, <4>2, <4>3, <4>4 DEF PollRole, ResponseRole
    <3> QED
      BY <3>1, <3>2
  <2> QED
    BY <1>1, <1>4, <1>8, <2>1, <2>3
    DEF Exchange, NoSync, AtPoll, AtResponse, AtFinal, AtResult, ResultFits
<1>9. CASE Pos(i) = Wait("FINAL") /\ txFrame[i].id = Id("FINAL")
  <2>1. ToFinal /\ ~ToPoll' /\ ~ToResponse' /\ ~ToFinal' /\ ~HasResult'
    BY <1>1, <1>9
    DEF ToPoll, ToFinal, ToResponse, ToResult, HasResult, Start, Wait
  <2>2. FinalRole(X) /\ rxFrame[r].id[1] # "SYNC"
        /\ X[1] = "RESPONSE" /\ stamps[i]["POLL"] = Id("POLL")
    BY <2>1 DEF Exchange, NoSync, AtFinal
  <2>3. X' = X
    BY <1>1, <1>9 DEF X, Wait
  <2>4. rxFrame'[r].id[1] # "SYNC" /\ ResultRole(X)'
    <3>1. CASE ~gets
      <4>1. Alike(r) /\ ResultRole(X)
        BY <1>1, <2>2, <3>1 DEF FinalRole, ResultRole
      <4> QED
        BY <1>1, <2>2, <2>3, <4>1, SameRoles
    <3>2. CASE gets
      <4>1. rxFrame'[r].id = Id("FINAL") /\ Id("FINAL")[1] = "FINAL"
        BY <1>2, <1>9, <3>2 DEF Id
      <4>2. Out => Out'
        BY <1>2, <3>2 DEF Out
      <4>3. Pos(r) # Start("FINAL")
        BY <1>3, <1>5, <3>2 DEF LocOf, RxLoc, Listens, Over, Start, Wait,
                                Terminate, Idle
      <4>4. AwaitsFinal(X) => GotFinal(X)'
        BY <1>1, <1>2, <1>5, <2>3, <3>2, <4>1, <4>3
        DEF AwaitsFinal, GotFinal, Id
      <4> QED
        BY <1>5, <2>2, <3>2, <4>1, <4>2, <4>4 DEF FinalRole, ResultRole
    <3> QED
      BY <3>1, <3>2
  <2>5. Id("POLL")' = Id("POLL")
    BY <1>1 DEF Id
  <2> QED
    BY <1>1, <1>4, <1>9, <2>1, <2>2, <2>3, <2>4, <2>5
    DEF Exchange, NoSync, AtPoll, AtResponse, AtFinal, AtResult, ResultFits
<1> QED
  BY <1>6, <1>7, <1>8, <1>9

(* The responder's frame has ended: ACK, RESPONSE and RESULT begin a stage *)
(* when the initiator receives them.                                       *)
LEMMA ResponderSent ==
    ASSUME TypeOK, Loc, NoneLeft, Exchange, NEW gets \in BOOLEAN,
           SentEffect(Responder, gets)
    PROVE  Exchange'
<1> DEFINE i == Initiator
           r == Responder
<1>1. /\ Pos(r)' = Pos(r) /\ radio[r] = "txEnding" /\ radio'[r] = "sent"
      /\ Rx0Done'[r] = Rx0Done[r] /\ rxFrame'[r] = rxFrame[r]
      /\ txTsu'[r] = txFrame[r] /\ stamps'[r] = stamps[r]
      /\ measured' = measured /\ (~gets => Alike(i))
  BY Boards DEF SentEffect, Same
<1>2. gets => /\ locked[i] /\ radio'[i] = "received"
              /\ Pos(i)' = Pos(i) /\ Rx0Done'[i]
              /\ rxFrame'[i].id = txFrame[r].id
              /\ rxFrame'[i].ok => rxFrame'[i].data = txFrame[r].data
              /\ cycle'[i] = cycle[i] /\ stamps'[i] = stamps[i]
  BY Boards DEF SentEffect
<1>3. LocOf(i) /\ LocOf(r)
  BY Boards DEF Loc
<1>4. OneExchange /\ OneExchange'
  BY <1>1 DEF Exchange, OneExchange
<1>5. /\ Sends(r) /\ ~Sends(r)'
      /\ rxFrame[r] = NoFrame /\ NoFrame.id[1] = "none"
      /\ cycle'[i] = cycle[i]
  BY <1>1, <1>2 DEF Sends, NoneLeft, NoFrame, Same, Alike
<1>6. /\ ~AwaitsPoll /\ ~PollRole
      /\ \A x : ~AwaitsFinal(x) /\ ~FinalRole(x)
  BY <1>5 DEF AwaitsPoll, PollRole, AwaitsFinal, FinalRole
<1>7. \/ Over(r)
      \/ \E m \in {"ACK", "RESPONSE", "RESULT"} :
            Pos(r) = Wait(m) /\ txFrame[r].id[1] = m
  <2>1. \/ \E m \in Message : /\ Pos(r) = Wait(m) /\ Own(r, m)
                              /\ txFrame[r].id = <<m, cycle[r]>>
        \/ Over(r)
    BY <1>1, <1>3 DEF LocOf, TxLoc, Sends
  <2> QED
    BY <2>1 DEF Own, Sender, Message, Responder
<1>8. CASE ~gets
  <2>1. (Out' <=> Out) /\ (GotPoll' <=> GotPoll)
    BY <1>1, <1>5 DEF Out, GotPoll, Id
  <2>2. \A x : (GotFinal(x)' <=> GotFinal(x)) /\ Full(x)' = Full(x)
    BY <1>1, <1>5 DEF GotFinal, Full, Id
  <2>3. RolesKept
    BY <1>1, <1>5, <1>6, <2>1, <2>2 DEF RolesKept, ResponseRole, ResultRole
  <2> QED
    BY <1>1, <1>8, <2>3, KeepsRoles
<1>9. CASE gets
  <2>1. /\ radio[i] = "rx"
        /\ \/ Over(i) \/ Pos(i) = Start("SYNC")
           \/ Pos(i) \in {Wait("ACK"), Wait("RESPONSE"), Wait("RESULT")}
    <3>1. radio[i] = "rx"
      BY <1>2, <1>3, <1>9 DEF LocOf, Ended
    <3> QED
      BY <1>3, <3>1 DEF LocOf, RxLoc, Listens, Own, Sender, Message, Initiator
  <2>2. Pos(i) \in {Wait("RESPONSE"), Wait("RESULT")} => ~Rx0Done[i]
    BY <1>3, <2>1 DEF LocOf, RxLoc, StaleRx, Early, Start, Wait, Terminate, Idle,
                      Initiator, Responder
  <2>3. CASE Over(i) \/ Pos(i) = Start("SYNC")
    BY <1>1, <1>2, <1>4, <1>9, <2>3, InitiatorOut DEF Over
  <2>4. CASE Pos(i) = Wait("ACK")
    <3>1. /\ ~ToResponse' /\ ~ToFinal' /\ ~ToResult' /\ ~HasResult'
          /\ ToPoll' => txFrame[r].id[1] = "ACK"
      BY <1>2, <1>9, <2>4
      DEF ToPoll, ToResponse, ToFinal, ToResult, HasResult, Start, Wait
    <3>2. txFrame[r].id[1] = "ACK" => AwaitsPoll' \/ Out'
      BY <1>1, <1>5, <1>7 DEF Over, Out, AwaitsPoll
    <3>3. rxFrame'[r].id[1] # "SYNC" /\ (ToPoll' => PollRole')
      BY <1>1, <1>5, <3>1, <3>2 DEF PollRole
    <3> QED
      BY <1>4, <3>1, <3>3
      DEF Exchange, NoSync, AtPoll, AtResponse, AtFinal, AtResult, ResultFits
  <2>5. CASE Pos(i) = Wait("RESPONSE")
    <3>1. /\ ToResponse
          /\ ~ToPoll' /\ ~ToResponse' /\ ~ToResult' /\ ~HasResult'
      BY <1>2, <1>9, <2>2, <2>5
      DEF ToPoll, ToResponse, ToFinal, ToResult, HasResult, Start, Wait
    <3>2. ResponseRole /\ stamps[i]["POLL"] = Id("POLL")
      BY <2>5, <3>1 DEF Exchange, AtResponse, Wait
    <3>3. X' = txFrame[r].id
      BY <1>2, <1>9, <2>5 DEF X
    <3>4. txFrame[r].id[1] = "RESPONSE"
      BY <1>5, <3>2 DEF ResponseRole
    <3>5. AwaitsFinal(X)' \/ Out'
      <4>1. CASE Out
        BY <1>1, <4>1 DEF Out
      <4>2. CASE GotPoll
        <5>1. Pos(r) = Wait("RESPONSE")
          BY <1>7, <3>4, <4>2 DEF GotPoll, Over, Terminate, Idle, Start, Wait
        <5> QED
          BY <1>1, <1>5, <3>3, <4>2, <5>1 DEF GotPoll, AwaitsFinal, Id, Wait
      <4> QED
        BY <1>6, <3>2, <4>1, <4>2 DEF ResponseRole
    <3>6. FinalRole(X)' /\ X'[1] = "RESPONSE"
          /\ stamps'[i]["POLL"] = Id("POLL")' /\ rxFrame'[r].id[1] # "SYNC"
      BY <1>1, <1>2, <1>5, <1>9, <3>2, <3>3, <3>4, <3>5 DEF FinalRole, Id
    <3> QED
      BY <1>4, <3>1, <3>6
      DEF Exchange, NoSync, AtPoll, AtResponse, AtFinal, AtResult, ResultFits
  <2>6. CASE Pos(i) = Wait("RESULT")
    <3>1. /\ ToResult
          /\ ~ToPoll' /\ ~ToResponse' /\ ~ToFinal' /\ ~ToResult'
      BY <1>2, <1>9, <2>2, <2>6
      DEF ToPoll, ToResponse, ToFinal, ToResult, Start, Wait
    <3>2. /\ ResultRole(X) /\ X[1] = "RESPONSE"
          /\ stamps[i]["POLL"] = Id("POLL") /\ stamps[i]["FINAL"] = Id("FINAL")
      BY <2>6, <3>1 DEF Exchange, AtResult, Wait
    <3>3. X = stamps[i]["RESPONSE"]
      BY <2>6 DEF X, Wait
    <3>4. txFrame[r].data = Full(X)
      BY <1>5, <3>2 DEF ResultRole
    <3>5. stamps[i] \in [Timed -> FrameId]
      BY Parts, Boards DEF LoopTypes, Stamps
    <3>6. stamps[i] = Full(X) /\ \A m \in Timed : stamps[i][m][1] = m
      BY <3>2, <3>3, <3>5 DEF Full, Timed, Id
    <3>7. ResultFits'
      BY <1>2, <1>9, <3>4, <3>6 DEF ResultFits, HasResult
    <3> QED
      BY <1>4, <3>1, <3>7
      DEF Exchange, NoSync, AtPoll, AtResponse, AtFinal, AtResult
  <2> QED
    BY <2>1, <2>3, <2>4, <2>5, <2>6
<1> QED
  BY <1>8, <1>9

LEMMA ExchangeNext ==
    ASSUME TypeOK, Loc, NoneLeft, foreign = 0 => Exchange, Next, foreign' = 0
    PROVE  Exchange'
<1>1. PICK b \in Board : \/ MainLoop(b) \/ TimerIrq(b)
                         \/ Air(b) \/ Missed(b) \/ FrameLost(b)
                         \/ ForeignFrame(b)
                         \/ Tick(b) \/ Reboot(b)
  BY DEF Next
<1>2. CASE ForeignFrame(b)
  <2>1. foreign' = foreign + 1 /\ foreign \in Nat
    BY <1>2, ForeignFrameEffect, Parts DEF FlagTypes
  <2> QED
    BY <2>1
<1>3. CASE FrameSent(b) \/ FrameLost(b)
  <2>1. foreign' = foreign
    BY <1>3 DEF FrameSent, FrameLost, env
  <2>2. PICK gets \in BOOLEAN : SentEffect(b, gets)
    BY <1>3, SentHasEffect DEF FrameSent, FrameLost
  <2> QED
    BY <2>1, <2>2, InitiatorSent, ResponderSent DEF Board, Initiator, Responder
<1>4. CASE FrameEnding(b)
  <2>1. /\ radio[b] = "tx" /\ radio'[b] = "txEnding"
        /\ \A c \in Board : c # b => Alike(c)
        /\ Pos(b)' = Pos(b) /\ Rx0Done'[b] = Rx0Done[b]
        /\ txFrame'[b] = txFrame[b] /\ txTsu'[b] = txTsu[b]
        /\ rxFrame'[b] = rxFrame[b]
        /\ cycle'[b] = cycle[b] /\ stamps'[b] = stamps[b]
        /\ measured' = measured /\ foreign' = foreign
    BY <1>4, FrameEndingEffect DEF Alike
  <2>2. CASE b = Initiator
    <3>1. OneExchange'
      BY <2>1 DEF Exchange, OneExchange
    <3>2. StagesKept
      BY <2>1, <2>2
      DEF StagesKept, ToPoll, ToResponse, ToFinal, ToResult, HasResult, X,
          Exchange, AtResponse, AtResult, Id
    <3> QED
      BY <2>1, <2>2, <3>1, <3>2, KeepsStages, Boards
  <2>3. CASE b = Responder
    <3>1. Sends(Responder) /\ Sends(Responder)'
      BY <2>1, <2>3 DEF Sends
    <3>2. Alike(Initiator)
      BY <2>1, <2>3, Boards
    <3>3. RolesKept
      BY <2>1, <2>3, <3>1, <3>2, RadioKeepsRoles DEF Alike
    <3> QED
      BY <2>1, <3>2, <3>3, KeepsRoles
  <2> QED
    BY <2>2, <2>3 DEF Board, Initiator, Responder
<1>5. CASE Tick(b)
  BY <1>5, TickEffect, SameExchange, Boards DEF Same
<1>6. CASE Reboot(b) /\ b = Initiator
  BY <1>6, RebootEffect, InitiatorOut DEF Exchange
<1>7. CASE \/ MainLoop(b) \/ TimerIrq(b) \/ Scheduled(b) \/ Missed(b)
           \/ Reboot(b) /\ b = Responder
  <2>1. foreign' = foreign
    <3>1. CASE MainLoop(b)
      BY <3>1 DEF MainLoop, IdleOver, Transmit, Receive, Transmitted, Received,
                  SyncTimeout, Terminated, EndCase, env
    <3> QED
      BY <1>7, <3>1, RebootEffect, MissedEffect, ScheduledEffect, TimerIrqEffect
  <2> QED
    BY <1>7, <2>1, InitiatorStep, ResponderStep DEF Board, Initiator, Responder
<1> QED
  BY <1>1, <1>2, <1>3, <1>4, <1>5, <1>6, <1>7
  DEF Air, Board, Initiator, Responder

(* The distance is computed from one exchange of frames, and from all of   *)
(* it, as long as no frame of other boards has come (the time stamps that  *)
(* EN_APP_STATE_RESULT_WAIT_RX_DONE puts into its formula).                *)
THEOREM DistanceIsOfOneExchange == Spec => []DistanceFromOneExchange
<1>1. Init => ExchangeInv
  <2> SUFFICES ASSUME Init PROVE ExchangeInv
    OBVIOUS
  <2>1. /\ Pos(Initiator) = Start("SYNC") /\ rxFrame[Responder] = NoFrame
        /\ measured = None
    BY Boards DEF Init, Pos
  <2> QED
    BY <2>1
    DEF ExchangeInv, NoneLeft, Exchange, NoSync, AtPoll, AtResponse, AtFinal, AtResult,
        ResultFits, OneExchange, ToPoll, ToResponse, ToFinal, ToResult,
        HasResult, Start, Wait
<1>2. TypeOK /\ Loc /\ ExchangeInv /\ [Next]_vars => ExchangeInv'
  <2> SUFFICES ASSUME TypeOK, Loc, ExchangeInv, [Next]_vars
               PROVE  ExchangeInv'
    OBVIOUS
  <2>1. CASE Next
    BY <2>1, NoneLeftNext, ExchangeNext DEF ExchangeInv
  <2>2. CASE UNCHANGED vars
    <3>1. /\ \A b \in Board : Alike(b)
          /\ measured' = measured /\ foreign' = foreign
      BY <2>2 DEF Alike, Pos, vars, loop, flags, air, env
    <3>2. NoneLeft'
      BY <3>1, Boards DEF ExchangeInv, NoneLeft, Alike, Sends
    <3> QED
      BY <3>1, <3>2, SameExchange, Boards DEF ExchangeInv
  <2> QED
    BY <2>1, <2>2
<1>3. ExchangeInv => DistanceFromOneExchange
  BY Zenon DEF ExchangeInv, Exchange, OneExchange, DistanceFromOneExchange
<1> QED
  BY <1>1, <1>2, <1>3, LocInvariant, PTL DEF Spec
=============================================================================
