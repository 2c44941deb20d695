----------------------------- MODULE Pdoa_proofs -----------------------------
(***************************************************************************)
(* For all times, numbers of frames and disturbances: the variables keep   *)
(* their types, and SYNC is never received with the gain of a series.      *)
(*                                                                         *)
(* With the main loops keeping up with the frames (MaxLate = 0) and no     *)
(* board reset: the angles are computed from frames of one cycle, whatever *)
(* is lost; and with no ACK and at most one PDOA frame lost, a series is   *)
(* complete before the timer ends it, and is one of PDOA frames.           *)
(***************************************************************************)
EXTENDS Pdoa, TLAPS

(* A transmitter that is on has a frame.                                   *)
HasFrame ==
    \A b \in Board :
       tx[b] \in {"later", "preamble", "sfd", "data"} => txFrame[b] \in Frame

(* What the responder does, and will do next, while the gain is fixed; the *)
(* timer can send it to TERMINATE, whatever it will do next.               *)
Fixed ==
    bypass =>
      /\ state["responder"] \in {"PDOA_PREPARE", "PDOA_RECEIVE",
                                 "PDOA_WAIT_RX_DONE", "TERMINATE"}
      /\ \/ next["responder"] = None
         \/ next["responder"].to \in {"PDOA_RECEIVE", "PDOA_WAIT_RX_DONE"}

PdoaInv == TypeOK /\ HasFrame /\ Fixed

(* TypeOK in parts that are proved one by one.                             *)
LoopTypes ==
    /\ state \in [Board -> State]
    /\ next \in [Board -> {None} \cup
                    [to : State, end : SUBSET (Port \cup {"tx"})]]
    /\ since \in [Board -> 0..Longest]
    /\ count["initiator"] \in 0..RepeatedTx /\ count["responder"] \in Index
    /\ DOMAIN count = Board
    /\ cycle \in 0..1 /\ sent \in 0..1
    /\ timer \in 0..OverallTimeout \cup {None}
    /\ bypass \in BOOLEAN
    /\ slots \in [Index -> Frame \cup {None, Mixed}]
FlagTypes ==
    /\ {TxDone, Rx0Done} \subseteq [Board -> BOOLEAN]
    /\ RxSfdDetected \subseteq Port /\ sfdIrq \subseteq Port
    /\ ahead \in -1..1 /\ lost \in [Kind -> 0..MaxLost]
    /\ late \in 0..MaxLate /\ reboots \in 0..MaxReboots
AirTypes ==
    /\ ports \in [Board -> SUBSET Port]
    /\ cir \in [Port -> Frame \cup {None}]
    /\ tx \in [Board -> {"off", "later", "preamble", "sfd", "data", "sent"}]
    /\ txFrame \in [Board -> Frame \cup {None}]
    /\ taking \in [Board -> SUBSET Port]
    /\ rxFrame \in [Board -> Kind \cup {None}]

LEMMA Parts == TypeOK <=> LoopTypes /\ FlagTypes /\ AirTypes
BY DEF TypeOK, LoopTypes, FlagTypes, AirTypes

(* The longest wait is one of those that are measured.                     *)
LEMMA LongestWait ==
    /\ Longest \in Nat
    /\ NumOfPackage \in Nat \ {0} /\ RepeatedTx \in Nat
    /\ OverallTimeout \in Nat \ {0} /\ TxStartWait <= Longest
    /\ MaxLost \in Nat /\ MaxLate \in Nat /\ MaxReboots \in Nat
<1>1. CycleTime \in [Board -> Nat] /\ SyncTimeout \in [Board -> Nat]
      /\ TxStartWait \in Nat
  BY PdoaAssumption
<1> DEFINE waits == UNION {{CycleTime[b], SyncTimeout[b], TxStartWait} : b \in Board}
<1>2. waits = {CycleTime["initiator"], SyncTimeout["initiator"],
               CycleTime["responder"], SyncTimeout["responder"], TxStartWait}
  BY DEF Board
<1>3. \E t \in waits : \A w \in waits : w <= t
  <2> DEFINE m(x, y) == IF x <= y THEN y ELSE x
             t == m(m(CycleTime["initiator"], SyncTimeout["initiator"]),
                    m(m(CycleTime["responder"], SyncTimeout["responder"]),
                      TxStartWait))
  <2>1. t \in waits
    BY <1>2
  <2>2. \A w \in waits : w <= t
    BY <1>1, <1>2 DEF Board
  <2> QED
    BY <2>1, <2>2
<1>4. Longest \in waits /\ \A w \in waits : w <= Longest
  BY <1>3 DEF Longest
<1> QED
  BY <1>1, <1>2, <1>4, PdoaAssumption DEF Board

LEMMA InitPdoaInv == Init => PdoaInv
<1> SUFFICES ASSUME Init PROVE PdoaInv
  OBVIOUS
<1>1. LoopTypes
  <2>1. 0 \in Index /\ state \in [Board -> State]
    BY LongestWait DEF Init, FirstState, Board, State, Index
  <2>2. count["initiator"] = 0 /\ count["responder"] = 0 /\ DOMAIN count = Board
    BY DEF Init, Board
  <2>3. slots \in [Index -> Frame \cup {None, Mixed}]
    BY DEF Init, NoCir
  <2>4. since \in [Board -> 0..Longest]
    BY LongestWait DEF Init
  <2>5. next \in [Board -> {None} \cup
                     [to : State, end : SUBSET (Port \cup {"tx"})]]
    BY DEF Init
  <2>6. /\ cycle \in 0..1 /\ sent \in 0..1 /\ 0 \in 0..RepeatedTx
        /\ timer \in 0..OverallTimeout \cup {None}
    BY LongestWait DEF Init
  <2>7. bypass \in BOOLEAN
    BY Zenon DEF Init
  <2> QED
    BY <2>1, <2>2, <2>3, <2>4, <2>5, <2>6, <2>7, Zenon DEF LoopTypes
<1>2. FlagTypes
  BY LongestWait DEF Init, FlagTypes
<1>3. AirTypes
  BY DEF Init, AirTypes
<1>4. HasFrame /\ Fixed
  BY DEF Init, HasFrame, Fixed
<1> QED
  BY <1>1, <1>2, <1>3, <1>4, Parts DEF PdoaInv
-----------------------------------------------------------------------------
LEMMA Boards == /\ "initiator" \in Board /\ "responder" \in Board
                /\ \A b \in Board : Peer(b) \in Board /\ FirstState[b] \in State
BY DEF Board, Peer, FirstState, State

(* A case goes to a state of the list and ends ports or the transmitter.   *)
LEMMA GoTypes ==
    ASSUME NEW b \in Board, NEW to \in State,
           NEW end \in SUBSET (Port \cup {"tx"}),
           LoopTypes, Go(b, to, end)
    PROVE  next' \in [Board -> {None} \cup
                        [to : State, end : SUBSET (Port \cup {"tx"})]]
BY DEF LoopTypes, Go

(* Every step keeps the types of the loop's variables.                     *)
LEMMA NextLoopTypes == LoopTypes /\ AirTypes /\ Next => LoopTypes'
<1> SUFFICES ASSUME LoopTypes, AirTypes, Next PROVE LoopTypes'
  OBVIOUS
<1> USE Boards DEF In
<1>1. ASSUME NEW b \in Board, IdleOver(b) PROVE LoopTypes'
  BY <1>1, GoTypes, LongestWait DEF IdleOver, Go, State, Port, Rx0, LoopTypes
<1>2. ASSUME NEW b \in Board, SyncTransmit(b) PROVE LoopTypes'
  BY <1>2, GoTypes, LongestWait DEF SyncTransmit, TxStart, Go, State, Port, Rx0,
     LoopTypes
<1>3. ASSUME NEW b \in Board, SyncTransmitted(b) PROVE LoopTypes'
  BY <1>3, GoTypes, LongestWait DEF SyncTransmitted, Go, State, Port, Rx0,
     LoopTypes
<1>4. ASSUME NEW b \in Board, SyncReceive(b) PROVE LoopTypes'
  BY <1>4, GoTypes, LongestWait DEF SyncReceive, Go, State, Port, Rx0, LoopTypes
<1>5. ASSUME NEW b \in Board, SyncTimedOut(b) PROVE LoopTypes'
  BY <1>5, GoTypes, LongestWait DEF SyncTimedOut, Go, State, Port, Rx0,
     LoopTypes
<1>6. ASSUME NEW b \in Board, SyncReceived(b) PROVE LoopTypes'
  BY <1>6, GoTypes, LongestWait DEF SyncReceived, Go, State, Port, Rx0,
     LoopTypes
<1>7. ASSUME NEW b \in Board, EndCase(b) PROVE LoopTypes'
  BY <1>7, GoTypes, LongestWait DEF EndCase, Go, State, Port, Rx0, LoopTypes
<1>8. CASE ResponderAwaited
  BY <1>8, GoTypes, LongestWait DEF ResponderAwaited, Go, State, Port, Rx0,
     LoopTypes
<1>9. CASE PdoaTransmit
  BY <1>9, GoTypes, LongestWait DEF PdoaTransmit, TxStart, Go, State, Port, Rx0,
     LoopTypes
<1>10. CASE PdoaTransmitted
  <2>1. /\ count'["initiator"] \in 0..RepeatedTx
        /\ count'["responder"] = count["responder"] /\ DOMAIN count' = Board
    BY <1>10, LongestWait DEF PdoaTransmitted, MoreTx, TxStart, LoopTypes
  <2>2. next' \in [Board -> {None} \cup
                     [to : State, end : SUBSET (Port \cup {"tx"})]]
    BY <1>10, GoTypes DEF PdoaTransmitted, State, LoopTypes
  <2>3. sent' \in 0..1
    BY <1>10 DEF PdoaTransmitted, TxStart, LoopTypes
  <2> QED
    BY <1>10, <2>1, <2>2, <2>3 DEF PdoaTransmitted, LoopTypes
<1>11. CASE InitiatorTerminate
  BY <1>11, GoTypes, LongestWait DEF InitiatorTerminate, Go, State, Port, Rx0,
     LoopTypes
<1>12. CASE PdoaPrepare
  BY <1>12, GoTypes, LongestWait DEF PdoaPrepare, Go, State, Port, Rx0,
     LoopTypes
<1>13. CASE PdoaReceive
  BY <1>13, GoTypes, LongestWait DEF PdoaReceive, RxAll, Go, State, Port, Rx0,
     LoopTypes
<1>14. CASE PdoaReceived
  <2>1. /\ count'["responder"] \in Index
        /\ count'["initiator"] = count["initiator"] /\ DOMAIN count' = Board
    BY <1>14, LongestWait DEF PdoaReceived, MoreRx, Index, LoopTypes
  <2>2. next' \in [Board -> {None} \cup
                     [to : State, end : SUBSET (Port \cup {"tx"})]]
    BY <1>14, GoTypes DEF PdoaReceived, State, LoopTypes
  <2>3. slots' \in [Index -> Frame \cup {None, Mixed}]
    <3>1. cir[Rx0] \in Frame \cup {None}
      BY DEF AirTypes, Port
    <3> QED
      BY <1>14, <3>1 DEF PdoaReceived, StoreCir, LoopTypes
  <2>4. bypass' \in BOOLEAN
    BY <1>14 DEF PdoaReceived, LoopTypes
  <2> QED
    BY <1>14, <2>1, <2>2, <2>3, <2>4 DEF PdoaReceived, LoopTypes
<1>15. CASE PdoaPostingProcessing
  BY <1>15, GoTypes, LongestWait DEF PdoaPostingProcessing, Go, State, Port,
     Rx0, LoopTypes
<1>16. CASE ResponderTerminate
  <2>1. /\ count'["responder"] \in Index
        /\ count'["initiator"] = count["initiator"] /\ DOMAIN count' = Board
    BY <1>16, LongestWait DEF ResponderTerminate, Reset, Index, LoopTypes
  <2>2. next' \in [Board -> {None} \cup
                     [to : State, end : SUBSET (Port \cup {"tx"})]]
    BY <1>16, GoTypes DEF ResponderTerminate, State, Port, Rx0
  <2>3. slots' \in [Index -> Frame \cup {None, Mixed}]
    BY <1>16 DEF ResponderTerminate, Reset, NoCir
  <2>4. bypass' \in BOOLEAN
    BY <1>16 DEF ResponderTerminate, Reset
  <2> QED
    BY <1>16, <2>1, <2>2, <2>3, <2>4 DEF ResponderTerminate, LoopTypes
<1>17. CASE TimerIrq
  BY <1>17, GoTypes, LongestWait DEF TimerIrq, Go, State, Port, Rx0, LoopTypes
<1>18. CASE UNCHANGED loop
  BY <1>18 DEF LoopTypes, loop
<1>19. ASSUME NEW b \in Board, Tick(b) PROVE LoopTypes'
  BY <1>19, GoTypes, LongestWait DEF Tick, LoopTypes
<1>20. ASSUME NEW b \in Board, Reboot(b) PROVE LoopTypes'
  <2>1. /\ count'["initiator"] \in 0..RepeatedTx /\ count'["responder"] \in Index
        /\ DOMAIN count' = Board
    BY <1>20, LongestWait DEF Reboot, Index, LoopTypes
  <2>2. /\ state' \in [Board -> State] /\ since' \in [Board -> 0..Longest]
        /\ next' \in [Board -> {None} \cup
                         [to : State, end : SUBSET (Port \cup {"tx"})]]
    BY <1>20, LongestWait DEF Reboot, LoopTypes
  <2>3. /\ slots' \in [Index -> Frame \cup {None, Mixed}]
        /\ timer' \in 0..OverallTimeout \cup {None}
    BY <1>20 DEF Reboot, NoCir, LoopTypes
  <2>4. bypass' \in BOOLEAN
    BY <1>20 DEF Reboot, LoopTypes
  <2> QED
    BY <1>20, <2>1, <2>2, <2>3, <2>4 DEF Reboot, LoopTypes
<1> QED
  BY <1>1, <1>2, <1>3, <1>4, <1>5, <1>6, <1>7, <1>8, <1>9, <1>10, <1>11, <1>12,
     <1>13, <1>14, <1>15, <1>16, <1>17, <1>18, <1>19, <1>20 DEF Next, Initiator,
     Responder,
     Shared, Air, Scheduled, FrameBegins, SfdDetected, FrameSent, FrameDamaged,
     FrameMissed, Sent
-----------------------------------------------------------------------------
(* Every step keeps the types of the flags and of the bounds.              *)
LEMMA NextFlagTypes == FlagTypes /\ AirTypes /\ HasFrame /\ Next => FlagTypes'
<1> SUFFICES ASSUME FlagTypes, AirTypes, HasFrame, Next PROVE FlagTypes'
  OBVIOUS
<1> USE Boards
<1>1. CASE UNCHANGED <<TxDone, Rx0Done, RxSfdDetected, sfdIrq, env>>
  BY <1>1 DEF FlagTypes, env
<1>2. ASSUME NEW b \in Board, SyncTransmitted(b) PROVE FlagTypes'
  BY <1>2 DEF SyncTransmitted, FlagTypes, air, env
<1>3. ASSUME NEW b \in Board, SyncReceived(b) PROVE FlagTypes'
  BY <1>3 DEF SyncReceived, FlagTypes, air, env
<1>4. CASE PdoaTransmitted
  BY <1>4 DEF PdoaTransmitted, FlagTypes, env
<1>5. CASE PdoaReceive
  BY <1>5 DEF PdoaReceive, RxAll, FlagTypes, flags, env
<1>6. CASE PdoaReceived
  BY <1>6 DEF PdoaReceived, RxAll, FlagTypes, env
<1>7. CASE ResponderTerminate
  BY <1>7 DEF ResponderTerminate, Reset, FlagTypes, air, env
<1>8. ASSUME NEW b \in Board, SfdDetected(b) PROVE FlagTypes'
  <2>1. taking["responder"] \subseteq Port
    BY DEF AirTypes
  <2> QED
    BY <1>8, <2>1 DEF SfdDetected, FlagTypes, env
<1>9. ASSUME NEW b \in Board, NEW u \in BOOLEAN, Sent(b, u)
      PROVE  /\ {TxDone', Rx0Done'} \subseteq [Board -> BOOLEAN]
             /\ UNCHANGED <<RxSfdDetected, sfdIrq>>
  BY <1>9 DEF Sent, FlagTypes
<1>10. ASSUME NEW b \in Board, Lose(b), tx[b] \in {"sfd", "data"}
       PROVE  /\ lost' \in [Kind -> 0..MaxLost]
              /\ UNCHANGED <<ahead, late, reboots>>
  <2>1. txFrame[b][1] \in Kind
    BY <1>10 DEF HasFrame, Frame
  <2>2. \A k \in Kind : lost[k] \in Nat /\ lost[k] + 1 \in 0..MaxLost
    BY <1>10, LongestWait DEF Lose, Losses, FlagTypes, Kind
  <2> QED
    BY <1>10, <2>1, <2>2 DEF Lose, FlagTypes
<1>11. ASSUME NEW b \in Board, FrameSent(b) PROVE FlagTypes'
  BY <1>9, <1>11 DEF FrameSent, FlagTypes, env
<1>12. ASSUME NEW b \in Board, FrameDamaged(b) PROVE FlagTypes'
  BY <1>9, <1>10, <1>12 DEF FrameDamaged, Sent, FlagTypes
<1>13. ASSUME NEW b \in Board, FrameMissed(b) PROVE FlagTypes'
  BY <1>10, <1>13 DEF FrameMissed, FlagTypes, flags
<1>14. ASSUME NEW b \in Board, Tick(b) PROVE FlagTypes'
  BY <1>14, LongestWait DEF Tick, FlagTypes, flags, air
<1>15. ASSUME NEW b \in Board, Reboot(b) PROVE FlagTypes'
  BY <1>15, LongestWait DEF Reboot, FlagTypes
<1>16. ASSUME NEW b \in Board, Shared(b) PROVE FlagTypes'
  BY <1>1, <1>2, <1>3, <1>16 DEF Shared, IdleOver, SyncTransmit, SyncReceive,
     SyncTimedOut, EndCase, flags, air
<1>17. CASE Initiator
  BY <1>1, <1>4, <1>16, <1>17 DEF Initiator, ResponderAwaited, PdoaTransmit,
     InitiatorTerminate, flags, air
<1>18. CASE Responder
  BY <1>1, <1>5, <1>6, <1>7, <1>16, <1>18 DEF Responder, PdoaPrepare,
     PdoaPostingProcessing, flags, air
<1> QED
  BY <1>1, <1>8, <1>11, <1>12, <1>13, <1>14, <1>15, <1>17, <1>18
     DEF Next, Air, TimerIrq, Scheduled, FrameBegins, flags, air
-----------------------------------------------------------------------------
LEMMA TxStartTypes ==
    ASSUME AirTypes, HasFrame, LoopTypes, NEW b \in Board, NEW kind \in Kind,
           NEW when \in {"later", "preamble"}, TxStart(b, kind, when)
    PROVE  /\ tx' \in [Board -> {"off", "later", "preamble", "sfd", "data", "sent"}]
           /\ txFrame' \in [Board -> Frame \cup {None}]
           /\ HasFrame'
<1>1. <<kind, cycle, sent>> \in Frame
  BY DEF LoopTypes, Frame
<1> QED
  BY <1>1 DEF AirTypes, HasFrame, TxStart

(* Every step keeps the types of the radio, and a frame for a transmitter. *)
LEMMA NextAirTypes ==
    LoopTypes /\ AirTypes /\ HasFrame /\ Next => AirTypes' /\ HasFrame'
<1> SUFFICES ASSUME LoopTypes, AirTypes, HasFrame, Next PROVE AirTypes' /\ HasFrame'
  OBVIOUS
<1> USE Boards
<1>1. CASE UNCHANGED <<ports, cir, tx, txFrame, taking, rxFrame>>
  BY <1>1 DEF AirTypes, HasFrame
<1>2. ASSUME NEW b \in Board, SyncTransmit(b) PROVE AirTypes' /\ HasFrame'
  BY <1>2, TxStartTypes DEF SyncTransmit, Kind, AirTypes
<1>3. ASSUME NEW b \in Board, SyncReceive(b) PROVE AirTypes' /\ HasFrame'
  BY <1>3 DEF SyncReceive, Port, Rx0, AirTypes, HasFrame
<1>4. ASSUME NEW b \in Board, EndCase(b) PROVE AirTypes' /\ HasFrame'
  BY <1>4 DEF EndCase, AirTypes, HasFrame
<1>5. CASE PdoaTransmit
  BY <1>5, TxStartTypes DEF PdoaTransmit, Kind, AirTypes
<1>6. CASE PdoaTransmitted
  BY <1>6, TxStartTypes DEF PdoaTransmitted, Kind, AirTypes, HasFrame
<1>7. CASE PdoaReceive
  BY <1>7 DEF PdoaReceive, RxAll, AirTypes, HasFrame
<1>8. CASE PdoaReceived
  BY <1>8 DEF PdoaReceived, RxAll, AirTypes, HasFrame
<1>9. ASSUME NEW b \in Board, Scheduled(b) PROVE AirTypes' /\ HasFrame'
  BY <1>9 DEF Scheduled, AirTypes, HasFrame
<1>10. ASSUME NEW b \in Board, FrameBegins(b) PROVE AirTypes' /\ HasFrame'
  BY <1>10 DEF FrameBegins, Port, Rx0, AirTypes, HasFrame
<1>11. ASSUME NEW b \in Board, SfdDetected(b) PROVE AirTypes' /\ HasFrame'
  BY <1>11 DEF SfdDetected, AirTypes, HasFrame
<1>12. ASSUME NEW b \in Board, NEW u \in BOOLEAN, Sent(b, u)
       PROVE  AirTypes' /\ HasFrame'
  <2>1. txFrame[b][1] \in Kind
    BY <1>12 DEF Sent, HasFrame, Frame
  <2>2. HasFrame'
    BY <1>12 DEF Sent, HasFrame, AirTypes
  <2> QED
    BY <1>12, <2>1, <2>2 DEF Sent, AirTypes
<1>13. ASSUME NEW b \in Board, FrameMissed(b) PROVE AirTypes' /\ HasFrame'
  BY <1>13 DEF FrameMissed, AirTypes, HasFrame
<1>14. ASSUME NEW b \in Board, Reboot(b) PROVE AirTypes' /\ HasFrame'
  BY <1>14 DEF Reboot, AirTypes, HasFrame
<1>15. ASSUME NEW b \in Board, Shared(b) PROVE AirTypes' /\ HasFrame'
  BY <1>1, <1>2, <1>3, <1>4, <1>15 DEF Shared, IdleOver, SyncTransmitted,
     SyncTimedOut, SyncReceived, air
<1>16. CASE Initiator
  BY <1>1, <1>5, <1>6, <1>15, <1>16 DEF Initiator, ResponderAwaited,
     InitiatorTerminate, air
<1>17. CASE Responder
  BY <1>1, <1>7, <1>8, <1>15, <1>17 DEF Responder, PdoaPrepare,
     PdoaPostingProcessing, ResponderTerminate, air
<1> QED
  BY <1>1, <1>9, <1>10, <1>11, <1>12, <1>13, <1>14, <1>16, <1>17
     DEF Next, Air, TimerIrq, FrameSent, FrameDamaged, Tick, air
-----------------------------------------------------------------------------
(* Every step keeps the fixed gain to the reception of PDOA frames.        *)
LEMMA NextFixed == LoopTypes /\ Fixed /\ Next => Fixed'
<1> SUFFICES ASSUME LoopTypes, Fixed, Next PROVE Fixed'
  OBVIOUS
<1> DEFINE own == <<state["responder"], next["responder"], bypass>>
<1>1. CASE UNCHANGED own
  BY <1>1 DEF Fixed
<1>2. ASSUME NEW b \in Board, Shared(b), b = "responder" PROVE Fixed'
  <2>1. CASE EndCase(b)
    BY <1>2, <2>1, Boards DEF EndCase, Fixed, LoopTypes
  <2>2. CASE ~EndCase(b)
    <3>1. state[b] \in {"IDLE", "SYNC_TRANSMIT", "SYNC_WAIT_TX_DONE",
                        "SYNC_RECEIVE", "SYNC_WAIT_RX_DONE"}
      BY <1>2, <2>2 DEF Shared, In, IdleOver, SyncTransmit, SyncTransmitted,
         SyncReceive, SyncTimedOut, SyncReceived
    <3>2. ~bypass
      BY <1>2, <3>1 DEF Fixed
    <3> QED
      BY <1>2, <2>2, <3>2 DEF Shared, Fixed, IdleOver, SyncTransmit,
         SyncTransmitted, SyncReceive, SyncTimedOut, SyncReceived
  <2> QED
    BY <2>1, <2>2
<1>3. CASE Initiator
  <2>1. UNCHANGED own
    BY <1>3, Boards DEF Initiator, Shared, IdleOver, SyncTransmit,
       SyncTransmitted,
       SyncReceive, SyncTimedOut, SyncReceived, EndCase, ResponderAwaited,
       PdoaTransmit, PdoaTransmitted, InitiatorTerminate, Go, LoopTypes, Board
  <2> QED
    BY <1>1, <2>1
<1>4. CASE PdoaPrepare
  BY <1>4 DEF PdoaPrepare, In, Go, Fixed, LoopTypes, Board
<1>5. CASE PdoaReceive
  BY <1>5 DEF PdoaReceive, In, Go, Fixed, LoopTypes, Board
<1>6. CASE PdoaReceived
  BY <1>6 DEF PdoaReceived, Fixed
<1>7. CASE PdoaPostingProcessing
  BY <1>7 DEF PdoaPostingProcessing, In, Fixed
<1>8. CASE ResponderTerminate
  BY <1>8 DEF ResponderTerminate, Reset, Fixed
<1>9. CASE TimerIrq
  BY <1>9, Boards DEF TimerIrq, Fixed, LoopTypes
<1>10. ASSUME NEW b \in Board, Reboot(b) PROVE Fixed'
  BY <1>10 DEF Reboot, Fixed, LoopTypes, Board
<1>11. CASE UNCHANGED <<state, next, bypass>>
  BY <1>1, <1>11
<1> QED
  BY <1>2, <1>3, <1>4, <1>5, <1>6, <1>7, <1>8, <1>9, <1>10, <1>11, Boards
     DEF Next, Responder, Air, Scheduled, FrameBegins, SfdDetected, FrameSent,
     FrameDamaged, FrameMissed, Sent, Tick, loop
-----------------------------------------------------------------------------
LEMMA Inductive == Spec => []PdoaInv
<1>1. PdoaInv /\ [Next]_vars => PdoaInv'
  <2> SUFFICES ASSUME PdoaInv, [Next]_vars PROVE PdoaInv'
    OBVIOUS
  <2>1. CASE Next
    <3>1. LoopTypes' /\ FlagTypes' /\ AirTypes' /\ HasFrame' /\ Fixed'
      BY <2>1, Parts, NextLoopTypes, NextFlagTypes, NextAirTypes, NextFixed
         DEF PdoaInv
    <3>2. TypeOK'
      BY <3>1 DEF TypeOK, LoopTypes, FlagTypes, AirTypes
    <3> QED
      BY <3>1, <3>2 DEF PdoaInv
  <2>2. CASE UNCHANGED vars
    BY <2>2 DEF PdoaInv, TypeOK, HasFrame, Fixed, vars, loop, flags, air, env,
       Index
  <2> QED
    BY <2>1, <2>2
<1> QED
  BY <1>1, InitPdoaInv, PTL DEF Spec

(* The loop's variables, the flags and the radio have their types: no more *)
(* frames than wanted are counted, sent or taken down                      *)
(* (s_countOfPdoaScheduledTx, s_countOfPdoaScheduledRx).                   *)
THEOREM PdoaTypes == Spec => []TypeOK
<1>1. PdoaInv => TypeOK
  BY DEF PdoaInv
<1> QED
  BY <1>1, Inductive, PTL

(* SYNC is received with automatic gain and frequency offset, whichever    *)
(* way the series before it ended (app_pdoa_reset).                        *)
THEOREM GainIsAutomatic == Spec => []AutomaticInSync
<1>1. PdoaInv => AutomaticInSync
  BY DEF PdoaInv, Fixed, AutomaticInSync
<1> QED
  BY <1>1, Inductive, PTL
-----------------------------------------------------------------------------
I == "initiator"
R == "responder"

On == {"later", "preamble", "sfd", "data"}
OnAir == {"sfd", "data"}

(* The case in progress, and what it ends.                                 *)
Move(b, from, to, end) == state[b] = from /\ next[b] = [to |-> to, end |-> end]

MovesI ==
    /\ state[I] \in {"IDLE", "SYNC_TRANSMIT", "SYNC_WAIT_TX_DONE",
                     "SYNC_RECEIVE", "SYNC_WAIT_RX_DONE",
                     "WAIT_RESPONDER_READY", "PDOA_TRANSMIT",
                     "PDOA_WAIT_TX_DONE_N_REPEATED_TX", "TERMINATE"}
    /\ \/ next[I] = None
       \/ Move(I, "IDLE", "SYNC_TRANSMIT", {})
       \/ Move(I, "SYNC_TRANSMIT", "SYNC_WAIT_TX_DONE", {})
       \/ Move(I, "SYNC_WAIT_TX_DONE", "SYNC_RECEIVE", {"tx"})
       \/ Move(I, "SYNC_RECEIVE", "SYNC_WAIT_RX_DONE", {})
       \/ Move(I, "SYNC_WAIT_RX_DONE", "SYNC_TRANSMIT", {Rx0})
       \/ Move(I, "SYNC_WAIT_RX_DONE", "WAIT_RESPONDER_READY", {Rx0})
       \/ Move(I, "WAIT_RESPONDER_READY", "PDOA_TRANSMIT", {})
       \/ Move(I, "PDOA_TRANSMIT", "PDOA_WAIT_TX_DONE_N_REPEATED_TX", {})
       \/ Move(I, "PDOA_WAIT_TX_DONE_N_REPEATED_TX", "TERMINATE", {"tx"})
       \/ Move(I, "TERMINATE", "IDLE", {})
MovesR ==
    /\ state[R] \in {"IDLE", "SYNC_TRANSMIT", "SYNC_WAIT_TX_DONE",
                     "SYNC_RECEIVE", "SYNC_WAIT_RX_DONE", "PDOA_PREPARE",
                     "PDOA_RECEIVE", "PDOA_WAIT_RX_DONE",
                     "PDOA_POSTINGPROCESSING", "TERMINATE"}
    /\ \/ next[R] = None
       \/ Move(R, "IDLE", "SYNC_RECEIVE", {})
       \/ Move(R, "SYNC_RECEIVE", "SYNC_WAIT_RX_DONE", {})
       \/ Move(R, "SYNC_WAIT_RX_DONE", "SYNC_RECEIVE", {Rx0})
       \/ Move(R, "SYNC_WAIT_RX_DONE", "SYNC_TRANSMIT", {Rx0}) /\ rxFrame[R] = "SYNC"
       \/ Move(R, "SYNC_TRANSMIT", "SYNC_WAIT_TX_DONE", {})
       \/ Move(R, "SYNC_WAIT_TX_DONE", "PDOA_PREPARE", {"tx"})
       \/ Move(R, "PDOA_PREPARE", "PDOA_RECEIVE", {})
       \/ Move(R, "PDOA_RECEIVE", "PDOA_WAIT_RX_DONE", {})
       \/ Move(R, "PDOA_WAIT_RX_DONE", "PDOA_POSTINGPROCESSING", Port)
       \/ Move(R, "PDOA_POSTINGPROCESSING", "TERMINATE", {})
       \/ Move(R, "TERMINATE", "IDLE", {"tx", Rx0})

(* What a transmitter does in a state, and sends.                          *)
TxRule(b) ==
    /\ state[b] \in {"SYNC_TRANSMIT", "PDOA_TRANSMIT"} =>
          ~TxDone[b] /\ tx[b] = IF next[b] = None THEN "off" ELSE "preamble"
    /\ state[b] \in {"SYNC_WAIT_TX_DONE", "PDOA_WAIT_TX_DONE_N_REPEATED_TX"} =>
          /\ tx[b] # "off"
          /\ TxDone[b] => next[b] = None
          /\ (tx[b] = "sent") <=> (TxDone[b] \/ next[b] # None)
    /\ state[b] \notin {"SYNC_TRANSMIT", "PDOA_TRANSMIT", "SYNC_WAIT_TX_DONE",
                        "PDOA_WAIT_TX_DONE_N_REPEATED_TX"} =>
          tx[b] = "off" /\ ~TxDone[b]
KindRule ==
    /\ tx[I] \in On =>
          /\ txFrame[I][2] = cycle
          /\ txFrame[I][1] = IF state[I] \in {"SYNC_TRANSMIT", "SYNC_WAIT_TX_DONE"}
                               THEN "SYNC" ELSE "PDOA"
    /\ tx[R] \in On => txFrame[R][1] = "ACK"

(* Who listens.                                                            *)
Listens(b) == /\ state[b] = "SYNC_WAIT_RX_DONE" /\ next[b] = None
              /\ ~Rx0Done[b] /\ since[b] < SyncTimeout[b]
RxRule ==
    /\ ports[I] = IF \/ state[I] = "SYNC_WAIT_RX_DONE"
                     \/ state[I] = "SYNC_RECEIVE" /\ next[I] # None
                    THEN {Rx0} ELSE {}
    /\ Rx0 \in ports[R] =>
          \/ state[R] \in {"SYNC_WAIT_RX_DONE", "PDOA_WAIT_RX_DONE", "TERMINATE"}
          \/ state[R] \in {"SYNC_RECEIVE", "PDOA_RECEIVE"} /\ next[R] # None
    /\ taking[I] # {} => tx[R] \in OnAir /\ Listens(I) /\ taking[I] = {Rx0}
    /\ taking[R] # {} => /\ tx[I] \in OnAir /\ Rx0 \in taking[R]
                         /\ Listens(R) \/ state[R] = "PDOA_WAIT_RX_DONE"
    /\ state[R] = "SYNC_RECEIVE" /\ next[R] # None => rxFrame[R] = None
    /\ state[R] = "SYNC_WAIT_RX_DONE" /\ rxFrame[R] = "SYNC" =>
          Rx0Done[R] \/ next[R] # None

(* From a SYNC on until its ports listen, the responder is never at rest:  *)
(* the initiator does not get as far as its series, and it listens until   *)
(* the ACK is out.                                                         *)
ToAnswer == \/ state[R] = "SYNC_WAIT_RX_DONE" /\ rxFrame[R] = "SYNC"
            \/ state[R] = "SYNC_TRANSMIT"
            \/ state[R] = "SYNC_WAIT_TX_DONE" /\ tx[R] # "sent"
Answered == \/ state[R] = "SYNC_WAIT_TX_DONE" /\ tx[R] = "sent"
            \/ state[R] \in {"PDOA_PREPARE", "PDOA_RECEIVE"}
AckRule ==
    /\ ToAnswer =>
          \/ state[I] = "SYNC_WAIT_TX_DONE" /\ tx[I] = "sent"
          \/ state[I] = "SYNC_RECEIVE"
          \/ /\ state[I] = "SYNC_WAIT_RX_DONE" /\ next[I] = None
             /\ ~Rx0Done[I] /\ since[I] = 0
    /\ Answered =>
          /\ tx[I] \notin OnAir
          /\ \/ state[I] \in {"SYNC_TRANSMIT", "SYNC_WAIT_TX_DONE", "SYNC_RECEIVE",
                              "SYNC_WAIT_RX_DONE"}
             \/ /\ state[I] = "WAIT_RESPONDER_READY" /\ next[I] = None
                /\ since[I] = 0
    /\ Rx0Done[I] => /\ state[I] = "SYNC_WAIT_RX_DONE" /\ next[I] = None
                     /\ since[I] < SyncTimeout[I]

(* The timer runs in a series, and expires when all is at rest.            *)
TimerRule ==
    /\ timer # None =>
          \/ state[R] = "PDOA_PREPARE" /\ next[R] # None
          \/ state[R] \in {"PDOA_RECEIVE", "PDOA_WAIT_RX_DONE",
                           "PDOA_POSTINGPROCESSING"}
          \/ state[R] = "TERMINATE" /\ next[R] = None
    /\ state[R] \in {"PDOA_RECEIVE", "PDOA_WAIT_RX_DONE",
                     "PDOA_POSTINGPROCESSING"} => timer # None
    /\ state[R] = "PDOA_PREPARE" => next[R] = None \/ timer = OverallTimeout
    /\ state[R] = "PDOA_RECEIVE" => timer = OverallTimeout
    /\ timer = 0 => /\ state[R] = "PDOA_WAIT_RX_DONE"
                    /\ \A b \in Board : next[b] = None /\ ~Ready(b)
                    /\ \A b \in Board : tx[b] \in {"off", "sent"}

Rules == MovesI /\ MovesR /\ TxRule(I) /\ TxRule(R) /\ KindRule /\ RxRule
         /\ AckRule /\ TimerRule

-----------------------------------------------------------------------------
(* For FromOneCycle.  The responder begins a series with a count of zero.  *)
Counted ==
    /\ state[R] \notin {"PDOA_WAIT_RX_DONE", "TERMINATE"} => count[R] = 0
    /\ state[R] \in {"PDOA_WAIT_RX_DONE", "TERMINATE"} /\ next[R] # None =>
          count[R] = 0

(* Which ports hear a frame.                                               *)
PortRule ==
    /\ "RX_1" \in ports[R] <=> "RX_2" \in ports[R]
    /\ state[R] = "PDOA_WAIT_RX_DONE" => ports[R] = Port
    /\ state[R] = "PDOA_RECEIVE" /\ next[R] # None => ports[R] = Port
    /\ taking[R] # {} =>
          taking[R] = IF RunOn \/ state[R] = "PDOA_WAIT_RX_DONE" THEN ports[R]
                                                                 ELSE {Rx0}
    /\ \/ RxSfdDetected \subseteq {Rx0}
       \/ state[R] = "PDOA_WAIT_RX_DONE"
       \/ RunOn /\ {"RX_1", "RX_2"} \subseteq ports[R]
       \/ state[R] = "PDOA_RECEIVE"
       \/ state[R] = "TERMINATE" /\ next[R] = None
    /\ state[R] = "PDOA_WAIT_RX_DONE" /\ next[R] # None => RxSfdDetected = {}
    /\ state[R] = "PDOA_WAIT_RX_DONE" /\ tx[I] = "sfd" =>
          next[R] = None /\ RxSfdDetected # Port

(* All ports hold the CIR of one frame of the cycle c.                     *)
CirOf(c) == \A p \in Port : cir[p] = cir[Rx0] /\ cir[p] \in FrameOf(Kind, {c})

(* The ports that take down a SYNC have the CIR of it.                     *)
Heard == tx[I] = "data" /\ state[R] = "SYNC_WAIT_RX_DONE" =>
            \A p \in taking[R] : cir[p] = txFrame[I]

InSeries == state[R] \in {"PDOA_WAIT_RX_DONE", "PDOA_POSTINGPROCESSING"}

(* The initiator rests after its series for longer than the timer runs.    *)
Rests == \/ state[I] = "TERMINATE" /\ next[I] # None
         \/ /\ state[I] = "IDLE" /\ next[I] = None
            /\ since[I] <= OverallTimeout - timer + ahead + 1

(* The frames that the responder has of its series are of the cycle c,     *)
(* and the initiator is still in c, or does not begin the next one before  *)
(* the timer has run out.                                                  *)
Label(c) ==
    /\ c = cycle \/ Rests
    /\ RxSfdDetected = Port /\ state[R] = "PDOA_WAIT_RX_DONE" => CirOf(c)
    /\ IF state[R] = "PDOA_WAIT_RX_DONE" /\ next[R] = None
         THEN \A j \in Index : j < count[R] => slots[j] \in FrameOf(Kind, {c})
         ELSE \A j \in Index : slots[j] \in FrameOf(Kind, {c})

(* What is left of a SYNC at the three ports when a series begins.         *)
AnswerCir == (ToAnswer \/ Answered) /\ RxSfdDetected = Port => CirOf(cycle)

SeriesCir == InSeries => \E c \in 0..1 : Label(c)

OneCycle == Counted /\ PortRule /\ Heard /\ AnswerCir /\ SeriesCir
-----------------------------------------------------------------------------
(* For FrameToSpare and FromPdoaFrames.                                    *)
Undisturbed == reboots = 0 /\ lost["ACK"] = 0 /\ lost["PDOA"] <= 1

(* The initiator has the ACK in time, and will go on to its series.        *)
Acked(b) == \/ Move(b, "SYNC_WAIT_RX_DONE", "WAIT_RESPONDER_READY", {Rx0})
            \/ /\ state[b] = "SYNC_WAIT_RX_DONE" /\ next[b] = None
               /\ Rx0Done[b] /\ rxFrame[b] = "ACK" /\ since[b] = 0

(* The responder is about to take down a frame, or has just done so.       *)
Armed == /\ ports[R] = Port
         /\ \/ sfdIrq = Port /\ RxSfdDetected = {}
            \/ sfdIrq = {} /\ RxSfdDetected = Port

Clean == /\ ports[R] \subseteq {Rx0} /\ sfdIrq = {} /\ RxSfdDetected = {}

PortsInStep ==
    /\ state[R] = "PDOA_RECEIVE" /\ next[R] # None =>
          ports[R] = Port /\ sfdIrq = Port /\ RxSfdDetected = {}
    /\ state[R] = "PDOA_WAIT_RX_DONE" /\ next[R] = None => Armed
    /\ state[R] = "PDOA_WAIT_RX_DONE" /\ next[R] # None =>
          sfdIrq = {} /\ RxSfdDetected = {}
    /\ state[R] \notin {"PDOA_RECEIVE", "PDOA_WAIT_RX_DONE"} => Clean
    /\ state[R] = "PDOA_RECEIVE" /\ next[R] = None => Clean

(* The ACK is received, and the initiator goes on.                         *)
AckInStep ==
    /\ Rx0Done[I] => rxFrame[I] = "ACK" /\ since[I] = 0
    /\ tx[R] \in OnAir => taking[I] = {Rx0}
    /\ Answered => \/ Acked(I)
                   \/ state[I] = "WAIT_RESPONDER_READY"

(* Frames of the series whose start is over.                               *)
Begun ==
    IF state[I] = "PDOA_WAIT_TX_DONE_N_REPEATED_TX" /\ next[I] = None
      THEN IF tx[I] \in {"data", "sent"} \/ (tx[I] = "sfd" /\ taking[R] = {})
             THEN count[I] + 1 ELSE count[I]
    ELSE IF state[I] \in {"PDOA_WAIT_TX_DONE_N_REPEATED_TX", "TERMINATE", "IDLE"}
      THEN RepeatedTx + 1
    ELSE 0

(* Where the initiator is while the responder waits for its frames: on the *)
(* way to its series, in it, or just after it.                             *)
OnSchedule ==
    \/ Acked(I) /\ timer = OverallTimeout
    \/ /\ state[I] = "WAIT_RESPONDER_READY"
       /\ since[I] >= OverallTimeout - timer + ahead - 1
    \/ state[I] \in {"PDOA_TRANSMIT", "PDOA_WAIT_TX_DONE_N_REPEATED_TX",
                     "TERMINATE"}
    \/ state[I] = "IDLE" /\ next[I] = None /\ since[I] = 0

(* What has begun has been taken down or is, but for what was lost.        *)
Gathered ==
    next[R] = None =>
       count[R] + (IF RxSfdDetected = Port THEN 1 ELSE 0) + lost["PDOA"] >= Begun

Prepared == next[R] = None /\ RxSfdDetected = {}

SeriesInStep ==
    state[R] = "PDOA_WAIT_RX_DONE" =>
       /\ OnSchedule
       /\ Gathered
       /\ tx[I] = "sfd" => Prepared
       /\ Acked(I) \/ state[I] = "WAIT_RESPONDER_READY" => Prepared

CountI == /\ state[I] \notin {"PDOA_WAIT_TX_DONE_N_REPEATED_TX"} => count[I] = 0
          /\ next[I] # None => count[I] = 0

(* What is taken down is a PDOA frame.                                     *)
PdoaCir == \A p \in Port : cir[p] = cir[Rx0] /\ cir[p] \in FrameOf({"PDOA"}, 0..1)

PdoaSlots ==
    /\ state[R] = "PDOA_WAIT_RX_DONE" /\ next[R] = None =>
          /\ \A j \in Index : j < count[R] => slots[j] \in FrameOf({"PDOA"}, 0..1)
          /\ RxSfdDetected = Port => PdoaCir
    /\ (state[R] = "PDOA_WAIT_RX_DONE" /\ next[R] # None) \/ Computing =>
          \A j \in Index : slots[j] \in FrameOf({"PDOA"}, 0..1)

InStep == /\ timer # 0 /\ Counted /\ CountI /\ PortRule
          /\ PortsInStep /\ AckInStep
          /\ SeriesInStep /\ PdoaSlots

-----------------------------------------------------------------------------
LEMMA TwoBoards ==
    /\ Board = {I, R} /\ Peer(I) = R /\ Peer(R) = I /\ I # R
    /\ FirstState[I] = "SYNC_TRANSMIT" /\ FirstState[R] = "SYNC_RECEIVE"
BY DEF Board, Peer, I, R, FirstState

LEMMA NoneIsNoKind == /\ None # "SYNC" /\ None # "ACK" /\ None # "PDOA"
                      /\ None # OverallTimeout /\ None # 0
BY NoneAssumption, LongestWait DEF Kind

LEMMA PortSets == /\ {Rx0} \ {} = {Rx0} /\ {Rx0} \ {Rx0} = {} /\ {} \cup {Rx0} = {Rx0}
                  /\ \A e : {} \ e = {}
                  /\ "tx" \notin {} /\ "tx" \notin {Rx0} /\ "tx" \notin Port
                  /\ Rx0 \in Port
BY DEF Rx0, Port

(* When a wait is over.                                                    *)
LEMMA Waiting ==
    ASSUME NEW b \in Board
    PROVE  Elapsed(b) <=> \/ state[b] = "IDLE" /\ since[b] >= CycleTime[b]
                          \/ /\ state[b] = "SYNC_WAIT_RX_DONE"
                             /\ since[b] >= SyncTimeout[b]
                          \/ /\ state[b] = "WAIT_RESPONDER_READY"
                             /\ since[b] >= TxStartWait
<1>1. DOMAIN Waits(b) = {"IDLE", "SYNC_WAIT_RX_DONE", "WAIT_RESPONDER_READY"}
  BY DEF Waits
<1>2. CASE state[b] = "IDLE"
  BY <1>1, <1>2 DEF Waits, Elapsed
<1>3. CASE state[b] = "SYNC_WAIT_RX_DONE"
  BY <1>1, <1>3 DEF Waits, Elapsed
<1>4. CASE state[b] = "WAIT_RESPONDER_READY"
  BY <1>1, <1>4 DEF Waits, Elapsed
<1> QED
  BY <1>1, <1>2, <1>3, <1>4 DEF Elapsed

Types == LoopTypes /\ FlagTypes /\ AirTypes /\ HasFrame

(* A case goes to a state and is to end something.                         *)
Goes(b, from, to, end) ==
    /\ Ready(b) /\ state[b] = from /\ next[b] = None
    /\ next'[b] = [to |-> to, end |-> end] /\ next'[b] # None
    /\ next'[Peer(b)] = next[Peer(b)]

LEMMA GoEffect ==
    ASSUME Types, NEW b \in Board, NEW s, In(b, s), NEW to \in State,
           NEW end \in SUBSET (Port \cup {"tx"}), Go(b, to, end)
    PROVE  Goes(b, s, to, end)
<1>1. [to |-> to, end |-> end] # None
  BY NoneAssumption
<1>2. Ready(b) /\ next[b] = None
  BY DEF In, Ready
<1> QED
  BY <1>1, <1>2, Boards DEF Go, Goes, In, Types, LoopTypes, Peer, Board

(* What each step changes, board by board.                                 *)
LEMMA IdleOverEffect ==
    ASSUME Types, NEW b \in Board, IdleOver(b)
    PROVE  /\ Goes(b, "IDLE", FirstState[b], {}) /\ since[b] >= CycleTime[b]
           /\ UNCHANGED <<state, since, count, cycle, sent, timer, slots, flags,
                          air, env>>
<1>1. Goes(b, "IDLE", FirstState[b], {})
  BY GoEffect, Boards DEF IdleOver
<1> QED
  BY <1>1, Waiting DEF IdleOver, In, Ready

LEMMA SyncTransmitEffect ==
    ASSUME Types, NEW b \in Board, SyncTransmit(b)
    PROVE  /\ Goes(b, "SYNC_TRANSMIT", "SYNC_WAIT_TX_DONE", {})
           /\ tx'[b] = "preamble" /\ tx'[Peer(b)] = tx[Peer(b)]
           /\ txFrame'[b] = <<IF b = I THEN "SYNC" ELSE "ACK", cycle, sent>>
           /\ txFrame'[Peer(b)] = txFrame[Peer(b)]
           /\ UNCHANGED <<state, since, count, cycle, timer, slots, flags,
                          sfdIrq, ports, cir, taking, rxFrame, env>>
<1>1. Goes(b, "SYNC_TRANSMIT", "SYNC_WAIT_TX_DONE", {})
  BY GoEffect DEF SyncTransmit, State
<1> QED
  BY <1>1, Boards DEF SyncTransmit, TxStart, Types, AirTypes, Peer, Board, I

LEMMA SyncTransmittedEffect ==
    ASSUME Types, NEW b \in Board, SyncTransmitted(b)
    PROVE  /\ Goes(b, "SYNC_WAIT_TX_DONE",
                   IF b = I THEN "SYNC_RECEIVE" ELSE "PDOA_PREPARE", {"tx"})
           /\ TxDone[b] /\ ~TxDone'[b] /\ (TxDone'[Peer(b)] <=> TxDone[Peer(b)])
           /\ UNCHANGED <<state, since, count, cycle, sent, timer, slots, Rx0Done,
                          RxSfdDetected, air, env>>
<1>1. Goes(b, "SYNC_WAIT_TX_DONE",
           IF b = I THEN "SYNC_RECEIVE" ELSE "PDOA_PREPARE", {"tx"})
  BY GoEffect DEF SyncTransmitted, State, I
<1>2. TxDone[b]
  BY <1>1, Waiting DEF SyncTransmitted, In, Ready
<1> QED
  BY <1>1, <1>2, Boards DEF SyncTransmitted, Types, FlagTypes, Peer, Board

LEMMA SyncReceiveEffect ==
    ASSUME Types, NEW b \in Board, SyncReceive(b)
    PROVE  /\ Goes(b, "SYNC_RECEIVE", "SYNC_WAIT_RX_DONE", {})
           /\ ports'[b] = ports[b] \cup {Rx0} /\ ports'[Peer(b)] = ports[Peer(b)]
           /\ rxFrame'[b] = None /\ rxFrame'[Peer(b)] = rxFrame[Peer(b)]
           /\ UNCHANGED <<state, since, count, cycle, sent, timer, slots, flags,
                          sfdIrq, cir, tx, txFrame, taking, env>>
<1>1. Goes(b, "SYNC_RECEIVE", "SYNC_WAIT_RX_DONE", {})
  BY GoEffect DEF SyncReceive, State
<1> QED
  BY <1>1, Boards DEF SyncReceive, Types, AirTypes, Peer, Board

LEMMA SyncTimedOutEffect ==
    ASSUME Types, NEW b \in Board, SyncTimedOut(b)
    PROVE  /\ Goes(b, "SYNC_WAIT_RX_DONE", FirstState[b], {Rx0})
           /\ ~(since[b] < SyncTimeout[b]) /\ since[b] # 0
           /\ UNCHANGED <<state, since, count, cycle, sent, timer, slots, flags,
                          air, env>>
<1>1. Goes(b, "SYNC_WAIT_RX_DONE", FirstState[b], {Rx0})
  BY GoEffect, Boards DEF SyncTimedOut, Port
<1> QED
  BY <1>1, Waiting, PdoaAssumption DEF SyncTimedOut, Goes, Types, LoopTypes

LEMMA SyncReceivedEffect ==
    ASSUME Types, NEW b \in Board, SyncReceived(b)
    PROVE  /\ \/ /\ Goes(b, "SYNC_WAIT_RX_DONE", FirstState[b], {Rx0})
                 /\ rxFrame[b] # IF b = I THEN "ACK" ELSE "SYNC"
              \/ /\ b = I /\ rxFrame[b] = "ACK"
                 /\ Goes(b, "SYNC_WAIT_RX_DONE", "WAIT_RESPONDER_READY", {Rx0})
              \/ /\ b = R /\ rxFrame[b] = "SYNC"
                 /\ Goes(b, "SYNC_WAIT_RX_DONE", "SYNC_TRANSMIT", {Rx0})
           /\ Rx0Done[b] /\ ~Rx0Done'[b]
           /\ (Rx0Done'[Peer(b)] <=> Rx0Done[Peer(b)])
           /\ since[b] < SyncTimeout[b]
           /\ UNCHANGED <<state, since, count, cycle, sent, timer, slots, TxDone,
                          RxSfdDetected, air, env>>
<1>1. state[b] = "SYNC_WAIT_RX_DONE" /\ ~Elapsed(b) /\ Rx0Done[b]
  BY DEF SyncReceived, In, Ready
<1>2. since[b] < SyncTimeout[b]
  BY <1>1, Waiting, PdoaAssumption DEF Types, LoopTypes
<1>3. CASE ~Valid(b)
  <2>1. In(b, "SYNC_WAIT_RX_DONE") /\ Go(b, FirstState[b], {Rx0})
    BY <1>3 DEF SyncReceived
  <2>2. Goes(b, "SYNC_WAIT_RX_DONE", FirstState[b], {Rx0})
    BY <2>1, GoEffect, Boards DEF Port
  <2> QED
    BY <1>1, <1>2, <1>3, <2>2, Boards
       DEF SyncReceived, Valid, Types, FlagTypes, Peer, Board, I
<1>4. CASE Valid(b) /\ b = I
  <2>1. Goes(b, "SYNC_WAIT_RX_DONE", "WAIT_RESPONDER_READY", {Rx0})
    BY <1>4, GoEffect DEF SyncReceived, Port, State, I
  <2> QED
    BY <1>1, <1>2, <1>4, <2>1, Boards
       DEF SyncReceived, Valid, Types, FlagTypes, Peer, Board, I
<1>5. CASE Valid(b) /\ b = R
  <2>1. Goes(b, "SYNC_WAIT_RX_DONE", "SYNC_TRANSMIT", {Rx0})
    BY <1>5, GoEffect DEF SyncReceived, Port, State, R
  <2> QED
    BY <1>1, <1>2, <1>5, <2>1, Boards
       DEF SyncReceived, Valid, Types, FlagTypes, Peer, Board, R
<1> QED
  BY <1>3, <1>4, <1>5, TwoBoards

LEMMA EndCaseEffect ==
    ASSUME Types, NEW b \in Board, EndCase(b)
    PROVE  /\ next[b] # None
           /\ state'[b] = next[b].to /\ next'[b] = None /\ since'[b] = 0
           /\ ports'[b] = ports[b] \ next[b].end
           /\ tx'[b] = IF "tx" \in next[b].end THEN "off" ELSE tx[b]
           /\ taking'[b] = taking[b] \ next[b].end
           /\ state'[Peer(b)] = state[Peer(b)] /\ next'[Peer(b)] = next[Peer(b)]
           /\ since'[Peer(b)] = since[Peer(b)] /\ ports'[Peer(b)] = ports[Peer(b)]
           /\ tx'[Peer(b)] = tx[Peer(b)] /\ taking'[Peer(b)] = taking[Peer(b)]
           /\ UNCHANGED <<count, cycle, sent, timer, slots, flags, sfdIrq, cir,
                          txFrame, rxFrame, env>>
BY Boards DEF EndCase, Types, LoopTypes, AirTypes, Peer, Board

LEMMA ResponderAwaitedEffect ==
    ASSUME Types, ResponderAwaited
    PROVE  /\ Goes(I, "WAIT_RESPONDER_READY", "PDOA_TRANSMIT", {})
           /\ since[I] >= TxStartWait /\ since[I] # 0
           /\ UNCHANGED <<state, since, count, cycle, sent, timer, slots, flags,
                          air, env>>
<1>1. Goes(I, "WAIT_RESPONDER_READY", "PDOA_TRANSMIT", {})
  BY GoEffect, Boards DEF ResponderAwaited, State, I
<1> QED
  BY <1>1, Waiting, Boards, PdoaAssumption DEF ResponderAwaited, In, Ready, I

LEMMA PdoaTransmitEffect ==
    ASSUME Types, PdoaTransmit
    PROVE  /\ Goes(I, "PDOA_TRANSMIT", "PDOA_WAIT_TX_DONE_N_REPEATED_TX", {})
           /\ tx'[I] = "preamble" /\ tx'[R] = tx[R]
           /\ txFrame'[I] = <<"PDOA", cycle, sent>> /\ txFrame'[R] = txFrame[R]
           /\ UNCHANGED <<state, since, count, cycle, timer, slots, flags,
                          sfdIrq, ports, cir, taking, rxFrame, env>>
<1>1. Goes(I, "PDOA_TRANSMIT", "PDOA_WAIT_TX_DONE_N_REPEATED_TX", {})
  BY GoEffect, Boards DEF PdoaTransmit, State, I
<1> QED
  BY <1>1 DEF PdoaTransmit, TxStart, Types, AirTypes, Board, I, R

LEMMA PdoaTransmittedEffect ==
    ASSUME Types, PdoaTransmitted
    PROVE  /\ Ready(I)
           /\ state[I] = "PDOA_WAIT_TX_DONE_N_REPEATED_TX" /\ next[I] = None
           /\ TxDone[I] /\ ~TxDone'[I] /\ (TxDone'[R] <=> TxDone[R])
           /\ \/ /\ count[I] + 1 <= RepeatedTx /\ count'[I] = count[I] + 1
                 /\ tx'[I] = "later" /\ tx'[R] = tx[R]
                 /\ txFrame'[I] = <<"PDOA", cycle, sent>>
                 /\ txFrame'[R] = txFrame[R] /\ next' = next
              \/ /\ count[I] + 1 > RepeatedTx /\ count'[I] = 0
                 /\ Goes(I, "PDOA_WAIT_TX_DONE_N_REPEATED_TX", "TERMINATE", {"tx"})
                 /\ UNCHANGED <<tx, txFrame>>
           /\ count'[R] = count[R]
           /\ UNCHANGED <<state, since, cycle, timer, slots, Rx0Done,
                          RxSfdDetected, sfdIrq, ports, cir, taking, rxFrame, env>>
<1>1. In(I, "PDOA_WAIT_TX_DONE_N_REPEATED_TX")
  BY DEF PdoaTransmitted, I
<1>2. TxDone[I]
  BY <1>1, Waiting, Boards DEF In, Ready, I
<1>3. CASE MoreTx
  BY <1>1, <1>2, <1>3 DEF PdoaTransmitted, MoreTx, TxStart, In, Ready, Types,
     LoopTypes, AirTypes, FlagTypes, Board, I, R
<1>4. CASE ~MoreTx
  <2>1. Goes(I, "PDOA_WAIT_TX_DONE_N_REPEATED_TX", "TERMINATE", {"tx"})
    BY <1>1, <1>4, GoEffect, Boards DEF PdoaTransmitted, State, I
  <2> QED
    BY <1>1, <1>2, <1>4, <2>1, LongestWait DEF PdoaTransmitted, MoreTx, In,
       Ready,
       Types, LoopTypes, FlagTypes, Board, I, R
<1> QED
  BY <1>3, <1>4

LEMMA InitiatorTerminateEffect ==
    ASSUME Types, InitiatorTerminate
    PROVE  /\ Goes(I, "TERMINATE", "IDLE", {})
           /\ cycle' = 1 - cycle
           /\ UNCHANGED <<state, since, count, timer, slots, flags, air, env>>
<1>1. Goes(I, "TERMINATE", "IDLE", {})
  BY GoEffect, Boards DEF InitiatorTerminate, State, I
<1> QED
  BY <1>1 DEF InitiatorTerminate

LEMMA PdoaPrepareEffect ==
    ASSUME Types, PdoaPrepare
    PROVE  /\ Goes(R, "PDOA_PREPARE", "PDOA_RECEIVE", {})
           /\ timer' = OverallTimeout /\ timer' # None /\ timer' # 0
           /\ UNCHANGED <<state, since, count, cycle, slots, flags, air, env>>
<1>1. Goes(R, "PDOA_PREPARE", "PDOA_RECEIVE", {})
  BY GoEffect, Boards DEF PdoaPrepare, State, R
<1> QED
  BY <1>1, NoneAssumption, LongestWait DEF PdoaPrepare

(* All ports of the responder are started, for a frame that is to come.    *)
Armed0 ==
    /\ ports'[R] = Port /\ ports'[I] = ports[I] /\ sfdIrq' = Port
    /\ taking'[R] = {} /\ taking'[I] = taking[I]
    /\ rxFrame'[R] = None /\ rxFrame'[I] = rxFrame[I]

LEMMA PdoaReceiveEffect ==
    ASSUME Types, PdoaReceive
    PROVE  /\ Goes(R, "PDOA_RECEIVE", "PDOA_WAIT_RX_DONE", {})
           /\ Armed0
           /\ UNCHANGED <<state, since, count, cycle, timer, slots, flags, cir, tx,
                          txFrame, env>>
<1>1. Goes(R, "PDOA_RECEIVE", "PDOA_WAIT_RX_DONE", {})
  BY GoEffect, Boards DEF PdoaReceive, State, R
<1> QED
  BY <1>1 DEF PdoaReceive, RxAll, Armed0, Types, AirTypes, Board, I, R

LEMMA PdoaReceivedEffect ==
    ASSUME Types, PdoaReceived
    PROVE  /\ Ready(R) /\ state[R] = "PDOA_WAIT_RX_DONE" /\ next[R] = None
           /\ RxSfdDetected = Port /\ RxSfdDetected' = {}
           /\ StoreCir(count[R]) /\ cir' = [p \in Port |-> None]
           /\ \/ /\ count[R] + 1 < NumOfPackage /\ count'[R] = count[R] + 1
                 /\ Armed0 /\ next' = next
              \/ /\ count[R] + 1 >= NumOfPackage /\ count'[R] = 0
                 /\ Goes(R, "PDOA_WAIT_RX_DONE", "PDOA_POSTINGPROCESSING", Port)
                 /\ UNCHANGED <<ports, sfdIrq, taking, rxFrame>>
           /\ count'[I] = count[I]
           /\ UNCHANGED <<state, since, cycle, timer, TxDone, Rx0Done, tx, txFrame,
                          env>>
<1>1. In(R, "PDOA_WAIT_RX_DONE")
  BY DEF PdoaReceived, R
<1>2. RxSfdDetected = Port
  BY <1>1, Waiting, Boards DEF In, Ready, R
<1>3. CASE MoreRx
  BY <1>1, <1>2, <1>3 DEF PdoaReceived, MoreRx, RxAll, Armed0, In, Ready, Types,
     LoopTypes, AirTypes, Board, I, R
<1>4. CASE ~MoreRx
  <2>1. Goes(R, "PDOA_WAIT_RX_DONE", "PDOA_POSTINGPROCESSING", Port)
    BY <1>1, <1>4, GoEffect, Boards DEF PdoaReceived, State, R
  <2> QED
    BY <1>1, <1>2, <1>4, <2>1, LongestWait DEF PdoaReceived, MoreRx, In, Ready,
       Types, LoopTypes, Index, Board, I, R
<1> QED
  BY <1>3, <1>4

LEMMA PdoaPostingProcessingEffect ==
    ASSUME Types, PdoaPostingProcessing
    PROVE  /\ Goes(R, "PDOA_POSTINGPROCESSING", "TERMINATE", {})
           /\ UNCHANGED <<state, since, count, cycle, timer, slots, flags, air, env>>
<1>1. Goes(R, "PDOA_POSTINGPROCESSING", "TERMINATE", {})
  BY GoEffect, Boards DEF PdoaPostingProcessing, State, R
<1> QED
  BY <1>1 DEF PdoaPostingProcessing

LEMMA ResponderTerminateEffect ==
    ASSUME Types, ResponderTerminate
    PROVE  /\ Goes(R, "TERMINATE", "IDLE", {"tx", Rx0})
           /\ timer' = None /\ timer' # 0 /\ count'[R] = 0 /\ count'[I] = count[I]
           /\ ~TxDone'[R] /\ (TxDone'[I] <=> TxDone[I])
           /\ ~Rx0Done'[R] /\ (Rx0Done'[I] <=> Rx0Done[I])
           /\ RxSfdDetected' = {}
           /\ UNCHANGED <<state, since, cycle, air, env>>
<1>1. Goes(R, "TERMINATE", "IDLE", {"tx", Rx0})
  BY GoEffect, Boards DEF ResponderTerminate, State, Port, R
<1> QED
  BY <1>1, NoneAssumption, LongestWait DEF ResponderTerminate, Reset, Types,
     LoopTypes, FlagTypes, Board, I, R

LEMMA TimerIrqEffect ==
    ASSUME Types, TimerIrq
    PROVE  /\ timer = 0 /\ timer' = None
           /\ state'[R] = "TERMINATE" /\ state'[I] = state[I]
           /\ UNCHANGED <<next, since, count, cycle, slots, flags, air, env>>
BY DEF TimerIrq, Types, LoopTypes, Board, I, R
-----------------------------------------------------------------------------
(* What both boards wait for while all is at rest.                         *)
LEMMA AtRest ==
    ASSUME Types, Settled, NEW b \in Board
    PROVE  /\ timer # 0 /\ next[b] = None
           /\ state[b] \in {"IDLE", "SYNC_WAIT_TX_DONE", "SYNC_WAIT_RX_DONE",
                            "WAIT_RESPONDER_READY", "PDOA_WAIT_RX_DONE",
                            "PDOA_WAIT_TX_DONE_N_REPEATED_TX"}
           /\ state[b] = "IDLE" => since[b] < CycleTime[b]
           /\ state[b] = "WAIT_RESPONDER_READY" => since[b] < TxStartWait
           /\ state[b] = "SYNC_WAIT_RX_DONE" =>
                 ~Rx0Done[b] /\ since[b] < SyncTimeout[b]
           /\ state[b] \in {"SYNC_WAIT_TX_DONE", "PDOA_WAIT_TX_DONE_N_REPEATED_TX"}
                 => ~TxDone[b]
           /\ state[b] = "PDOA_WAIT_RX_DONE" => RxSfdDetected # Port
<1>1. timer # 0 /\ next[b] = None /\ ~Ready(b)
  BY DEF Settled
<1>2. ~Elapsed(b)
  BY <1>1 DEF Ready
<1>3. since[b] \in Nat /\ CycleTime[b] \in Nat /\ SyncTimeout[b] \in Nat
      /\ TxStartWait \in Nat
  BY PdoaAssumption, LongestWait DEF Types, LoopTypes
<1>4. state[b] \in State
  BY DEF Types, LoopTypes
<1> QED
  BY <1>1, <1>2, <1>3, <1>4, Waiting DEF Ready, State

(* The radio's steps and those of time.                                    *)
LEMMA ScheduledEffect ==
    ASSUME Types, NEW b \in Board, Scheduled(b)
    PROVE  /\ Settled
           /\ tx[b] = "later" /\ tx'[b] = "preamble" /\ tx'[Peer(b)] = tx[Peer(b)]
           /\ UNCHANGED <<loop, flags, sfdIrq, ports, cir, txFrame, taking,
                          rxFrame, env>>
BY Boards DEF Scheduled, Types, AirTypes, Peer, Board

LEMMA FrameBeginsEffect ==
    ASSUME Types, NEW b \in Board, FrameBegins(b)
    PROVE  /\ Settled
           /\ tx[b] = "preamble" /\ tx'[b] = "sfd" /\ tx'[Peer(b)] = tx[Peer(b)]
           /\ taking'[Peer(b)] =
                 IF Rx0 \notin ports[Peer(b)] THEN {}
                 ELSE IF RunOn \/ state[Peer(b)] = "PDOA_WAIT_RX_DONE"
                        THEN ports[Peer(b)] ELSE {Rx0}
           /\ taking'[b] = taking[b]
           /\ UNCHANGED <<loop, flags, sfdIrq, ports, cir, txFrame, rxFrame, env>>
BY Boards DEF FrameBegins, Types, AirTypes, Peer, Board

LEMMA SfdDetectedEffect ==
    ASSUME Types, NEW b \in Board, SfdDetected(b)
    PROVE  /\ tx[b] = "sfd" /\ tx'[b] = "data" /\ tx'[Peer(b)] = tx[Peer(b)]
           /\ b = I =>
                 /\ cir' = [p \in Port |-> IF p \in taking[R] THEN txFrame[I]
                                                              ELSE cir[p]]
                 /\ RxSfdDetected' = RxSfdDetected \cup (taking[R] \cap sfdIrq)
                 /\ sfdIrq' = sfdIrq \ taking[R]
           /\ b = R => UNCHANGED <<cir, RxSfdDetected, sfdIrq>>
           /\ UNCHANGED <<loop, TxDone, Rx0Done, ports, txFrame, taking, rxFrame,
                          env>>
<1>1. CASE b = I
  BY <1>1, TwoBoards DEF SfdDetected, Types, AirTypes, I, R, Board
<1>2. CASE b = R
  <2>1. cir' = [p \in Port |-> cir[p]] /\ cir = [p \in Port |-> cir[p]]
    BY <1>2 DEF SfdDetected, Types, AirTypes, R
  <2> QED
    BY <1>2, <2>1, TwoBoards DEF SfdDetected, Types, AirTypes, I, R, Board
<1> QED
  BY <1>1, <1>2, TwoBoards

LEMMA SentEffect ==
    ASSUME Types, NEW b \in Board, NEW undamaged \in BOOLEAN, Sent(b, undamaged)
    PROVE  LET c == Peer(b)
           IN  /\ tx[b] = "data" /\ tx'[b] = "sent" /\ tx'[c] = tx[c]
               /\ txFrame'[c] = txFrame[c]
               /\ TxDone'[b] /\ (TxDone'[c] <=> TxDone[c])
               /\ Rx0Done'[c] <=>
                     \/ Rx0Done[c]
                     \/ Rx0 \in taking[c] /\ state[c] = "SYNC_WAIT_RX_DONE"
               /\ Rx0Done'[b] <=> Rx0Done[b]
               /\ rxFrame'[c] = IF Rx0 \in taking[c]
                                  THEN IF undamaged THEN txFrame[b][1] ELSE None
                                  ELSE rxFrame[c]
               /\ rxFrame'[b] = rxFrame[b]
               /\ taking'[c] = {} /\ taking'[b] = taking[b]
               /\ UNCHANGED <<loop, RxSfdDetected, sfdIrq, ports, cir>>
BY Boards DEF Sent, Types, AirTypes, FlagTypes, Peer, Board

LEMMA LoseEffect ==
    ASSUME Types, NEW b \in Board, Lose(b), tx[b] \in OnAir
    PROVE  /\ taking[Peer(b)] # {}
           /\ lost'[txFrame[b][1]] = lost[txFrame[b][1]] + 1
           /\ \A k \in Kind \ {txFrame[b][1]} : lost'[k] = lost[k]
           /\ UNCHANGED <<ahead, late, reboots>>
<1>1. txFrame[b][1] \in Kind
  BY DEF Types, HasFrame, OnAir, Frame
<1> QED
  BY <1>1 DEF Lose, Types, FlagTypes

LEMMA FrameMissedEffect ==
    ASSUME Types, NEW b \in Board, FrameMissed(b)
    PROVE  /\ tx[b] = "sfd" /\ Lose(b)
           /\ taking'[Peer(b)] = {} /\ taking'[b] = taking[b]
           /\ UNCHANGED <<loop, flags, sfdIrq, ports, cir, tx, txFrame, rxFrame>>
BY Boards DEF FrameMissed, Types, AirTypes, Peer, Board

(* A frame is shorter than a tick, which finds all at rest.                *)
LEMMA TickEffect ==
    ASSUME Types, MaxLate = 0, NEW b \in Board, Tick(b)
    PROVE  /\ Settled /\ tx[I] \in {"off", "sent"} /\ tx[R] \in {"off", "sent"}
           /\ ahead' = IF b = I THEN ahead + 1 ELSE ahead - 1
           /\ ahead' \in -1..1
           /\ since'[b] = IF /\ state[b] \in {"IDLE", "SYNC_WAIT_RX_DONE",
                                              "WAIT_RESPONDER_READY"}
                             /\ since[b] < Longest
                            THEN since[b] + 1 ELSE since[b]
           /\ since'[Peer(b)] = since[Peer(b)]
           /\ timer' = IF b = R /\ timer # None THEN timer - 1 ELSE timer
           /\ timer' # None <=> timer # None
           /\ UNCHANGED <<state, next, count, cycle, slots, flags, air, lost, reboots>>
<1>1. Quiet
  BY DEF Tick, Types, FlagTypes
<1>2. DOMAIN Waits(b) = {"IDLE", "SYNC_WAIT_RX_DONE", "WAIT_RESPONDER_READY"}
  BY DEF Waits
<1>3. timer # None => timer \in 1..OverallTimeout
  BY <1>1, NoneAssumption DEF Quiet, Settled, Types, LoopTypes
<1>4. /\ timer' = IF b = R /\ timer # None THEN timer - 1 ELSE timer
      /\ timer' # None <=> timer # None
  BY <1>1, <1>3, NoneAssumption, LongestWait, TwoBoards DEF Tick, Quiet,
     Settled, R
<1> QED
  BY <1>1, <1>2, <1>4, Boards DEF Tick, Quiet, Types, LoopTypes, Peer, Board, I,
     R
-----------------------------------------------------------------------------
(* Every step keeps the rules while no board is reset.                     *)
LEMMA InitRules == Init => Rules
BY TwoBoards, NoneAssumption, LongestWait
   DEF Init, Rules, MovesI, MovesR, TxRule, KindRule, RxRule, AckRule, ToAnswer, Answered,
   TimerRule, On, Kind, I, R, Board, FirstState

(* The timer expires only when all is at rest.                             *)
LEMMA NotExpired ==
    ASSUME Rules, NEW b \in Board, next[b] # None \/ Ready(b)
    PROVE  timer # 0
BY DEF Rules, TimerRule

LEMMA NextRules ==
    ASSUME Types, Rules, MaxLate = 0, Next, reboots' = 0
    PROVE  Rules'
<1> USE TwoBoards DEF Goes, MovesI, MovesR, Move, TxRule, KindRule, On, OnAir,
        RxRule, Listens, AckRule, ToAnswer, Answered, TimerRule, loop, flags, air, env
<1>1. CASE IdleOver(I)
  <2>1. timer # 0
    BY <1>1, IdleOverEffect, NotExpired
  <2>2. MovesI'
    BY <1>1, <2>1, IdleOverEffect DEF Rules
  <2>3. MovesR'
    BY <1>1, <2>1, IdleOverEffect DEF Rules
  <2>4. TxRule(I)' /\ TxRule(R)'
    BY <1>1, <2>1, IdleOverEffect DEF Rules
  <2>5. KindRule'
    BY <1>1, <2>1, IdleOverEffect DEF Rules
  <2>6. RxRule'
    BY <1>1, <2>1, IdleOverEffect DEF Rules
  <2>7. AckRule'
    BY <1>1, <2>1, IdleOverEffect DEF Rules
  <2>8. TimerRule'
    BY <1>1, <2>1, IdleOverEffect DEF Rules
  <2> QED
    BY ONLY <2>2, <2>3, <2>4, <2>5, <2>6, <2>7, <2>8 DEF Rules
<1>2. CASE IdleOver(R)
  <2>1. timer # 0
    BY <1>2, IdleOverEffect, NotExpired
  <2>2. MovesI'
    BY <1>2, <2>1, IdleOverEffect DEF Rules
  <2>3. MovesR'
    BY <1>2, <2>1, IdleOverEffect DEF Rules
  <2>4. TxRule(I)' /\ TxRule(R)'
    BY <1>2, <2>1, IdleOverEffect DEF Rules
  <2>5. KindRule'
    BY <1>2, <2>1, IdleOverEffect DEF Rules
  <2>6. RxRule'
    BY <1>2, <2>1, IdleOverEffect DEF Rules
  <2>7. AckRule'
    BY <1>2, <2>1, IdleOverEffect DEF Rules
  <2>8. TimerRule'
    BY <1>2, <2>1, IdleOverEffect DEF Rules
  <2> QED
    BY ONLY <2>2, <2>3, <2>4, <2>5, <2>6, <2>7, <2>8 DEF Rules
<1>3. CASE SyncTransmit(I)
  <2>1. timer # 0
    BY <1>3, SyncTransmitEffect, NotExpired
  <2> QED
    BY <1>3, <2>1, SyncTransmitEffect DEF Rules
<1>4. CASE SyncTransmit(R)
  <2>1. timer # 0
    BY <1>4, SyncTransmitEffect, NotExpired
  <2> QED
    BY <1>4, <2>1, SyncTransmitEffect DEF Rules
<1>5. CASE SyncTransmitted(I)
  <2>1. timer # 0
    BY <1>5, SyncTransmittedEffect, NotExpired
  <2> QED
    BY <1>5, <2>1, SyncTransmittedEffect DEF Rules
<1>6. CASE SyncTransmitted(R)
  <2>1. timer # 0
    BY <1>6, SyncTransmittedEffect, NotExpired
  <2>2. MovesI'
    BY <1>6, <2>1, SyncTransmittedEffect DEF Rules
  <2>3. MovesR'
    BY <1>6, <2>1, SyncTransmittedEffect DEF Rules
  <2>4. TxRule(I)' /\ TxRule(R)'
    BY <1>6, <2>1, SyncTransmittedEffect DEF Rules
  <2>5. KindRule'
    BY <1>6, <2>1, SyncTransmittedEffect DEF Rules
  <2>6. RxRule'
    BY <1>6, <2>1, SyncTransmittedEffect DEF Rules
  <2>7. AckRule'
    BY <1>6, <2>1, SyncTransmittedEffect DEF Rules
  <2>8. TimerRule'
    BY <1>6, <2>1, SyncTransmittedEffect DEF Rules
  <2> QED
    BY ONLY <2>2, <2>3, <2>4, <2>5, <2>6, <2>7, <2>8 DEF Rules
<1>7. CASE SyncReceive(I)
  <2>1. timer # 0
    BY <1>7, SyncReceiveEffect, NotExpired
  <2>a. ports'[I] = {Rx0} /\ taking[I] = {}
    BY <1>7, SyncReceiveEffect, PortSets DEF Rules
  <2>2. MovesI'
    BY <1>7, <2>1, SyncReceiveEffect DEF Rules
  <2>3. MovesR'
    BY <1>7, <2>1, SyncReceiveEffect DEF Rules
  <2>4. TxRule(I)' /\ TxRule(R)'
    BY <1>7, <2>1, SyncReceiveEffect DEF Rules
  <2>5. KindRule'
    BY <1>7, <2>1, SyncReceiveEffect DEF Rules
  <2>6. RxRule'
    BY <1>7, <2>1, <2>a, SyncReceiveEffect DEF Rules
  <2>7. AckRule'
    BY <1>7, <2>1, SyncReceiveEffect DEF Rules
  <2>8. TimerRule'
    BY <1>7, <2>1, SyncReceiveEffect DEF Rules
  <2> QED
    BY ONLY <2>2, <2>3, <2>4, <2>5, <2>6, <2>7, <2>8 DEF Rules
<1>8. CASE SyncReceive(R)
  <2>1. timer # 0
    BY <1>8, SyncReceiveEffect, NotExpired
  <2> QED
    BY <1>8, <2>1, SyncReceiveEffect DEF Rules
<1>9. CASE SyncTimedOut(I)
  <2>1. timer # 0
    BY <1>9, SyncTimedOutEffect, NotExpired
  <2>2. MovesI'
    BY <1>9, <2>1, SyncTimedOutEffect DEF Rules
  <2>3. MovesR'
    BY <1>9, <2>1, SyncTimedOutEffect DEF Rules
  <2>4. TxRule(I)' /\ TxRule(R)'
    BY <1>9, <2>1, SyncTimedOutEffect DEF Rules
  <2>5. KindRule'
    BY <1>9, <2>1, SyncTimedOutEffect DEF Rules
  <2>6. RxRule'
    BY <1>9, <2>1, SyncTimedOutEffect DEF Rules
  <2>7. AckRule'
    BY <1>9, <2>1, SyncTimedOutEffect DEF Rules
  <2>8. TimerRule'
    BY <1>9, <2>1, SyncTimedOutEffect DEF Rules
  <2> QED
    BY ONLY <2>2, <2>3, <2>4, <2>5, <2>6, <2>7, <2>8 DEF Rules
<1>10. CASE SyncTimedOut(R)
  <2>1. timer # 0
    BY <1>10, SyncTimedOutEffect, NotExpired
  <2>2. MovesI'
    BY <1>10, <2>1, SyncTimedOutEffect DEF Rules
  <2>3. MovesR'
    BY <1>10, <2>1, SyncTimedOutEffect DEF Rules
  <2>4. TxRule(I)' /\ TxRule(R)'
    BY <1>10, <2>1, SyncTimedOutEffect DEF Rules
  <2>5. KindRule'
    BY <1>10, <2>1, SyncTimedOutEffect DEF Rules
  <2>6. RxRule'
    BY <1>10, <2>1, SyncTimedOutEffect DEF Rules
  <2>7. AckRule'
    BY <1>10, <2>1, SyncTimedOutEffect DEF Rules
  <2>8. TimerRule'
    BY <1>10, <2>1, SyncTimedOutEffect DEF Rules
  <2> QED
    BY ONLY <2>2, <2>3, <2>4, <2>5, <2>6, <2>7, <2>8 DEF Rules
<1>11. CASE SyncReceived(I)
  <2>1. timer # 0
    BY <1>11, SyncReceivedEffect, NotExpired
  <2>2. MovesI'
    BY <1>11, <2>1, SyncReceivedEffect DEF Rules
  <2>3. MovesR'
    <3>1. UNCHANGED <<state, rxFrame>> /\ next'[R] = next[R]
      BY <1>11, SyncReceivedEffect
    <3> QED
      BY ONLY <3>1, Rules DEF Rules, MovesR, Move
  <2>4. TxRule(I)' /\ TxRule(R)'
    BY <1>11, <2>1, SyncReceivedEffect DEF Rules
  <2>5. KindRule'
    BY <1>11, <2>1, SyncReceivedEffect DEF Rules
  <2>6. RxRule'
    BY <1>11, <2>1, SyncReceivedEffect DEF Rules
  <2>7. AckRule'
    BY <1>11, <2>1, SyncReceivedEffect DEF Rules
  <2>8. TimerRule'
    BY <1>11, <2>1, SyncReceivedEffect DEF Rules
  <2> QED
    BY ONLY <2>2, <2>3, <2>4, <2>5, <2>6, <2>7, <2>8 DEF Rules
<1>12. CASE SyncReceived(R)
  <2>1. timer # 0
    BY <1>12, SyncReceivedEffect, NotExpired
  <2>2. MovesI'
    BY <1>12, <2>1, SyncReceivedEffect DEF Rules
  <2>3. MovesR'
    <3>1. /\ UNCHANGED <<state, rxFrame>> /\ state[R] = "SYNC_WAIT_RX_DONE"
          /\ \/ next'[R] = [to |-> "SYNC_RECEIVE", end |-> {Rx0}]
             \/ /\ next'[R] = [to |-> "SYNC_TRANSMIT", end |-> {Rx0}]
                /\ rxFrame[R] = "SYNC"
      BY <1>12, SyncReceivedEffect
    <3> QED
      BY ONLY <3>1 DEF MovesR, Move
  <2>4. TxRule(I)' /\ TxRule(R)'
    BY <1>12, <2>1, SyncReceivedEffect DEF Rules
  <2>5. KindRule'
    BY <1>12, <2>1, SyncReceivedEffect DEF Rules
  <2>6. RxRule'
    BY <1>12, <2>1, SyncReceivedEffect DEF Rules
  <2>7. AckRule'
    BY <1>12, <2>1, SyncReceivedEffect DEF Rules
  <2>8. TimerRule'
    BY <1>12, <2>1, SyncReceivedEffect DEF Rules
  <2> QED
    BY ONLY <2>2, <2>3, <2>4, <2>5, <2>6, <2>7, <2>8 DEF Rules
<1>13. CASE EndCase(I)
  <2>1. timer # 0
    BY <1>13, EndCaseEffect, NotExpired
  <2>a. taking[I] = {} /\ taking'[I] = {}
    BY <1>13, EndCaseEffect, PortSets DEF Rules
  <2>b. ports'[I] = ports[I] \ next[I].end /\ next[I] # None
    BY <1>13, EndCaseEffect
  <2>c. ports'[I] = IF next[I].to = "SYNC_WAIT_RX_DONE" THEN {Rx0} ELSE {}
    BY ONLY <2>b, PortSets, Rules DEF Rules, MovesI, Move, RxRule
  <2>2. MovesI'
    BY <1>13, <2>1, EndCaseEffect DEF Rules
  <2>3. MovesR'
    BY <1>13, <2>1, EndCaseEffect DEF Rules
  <2>4. TxRule(I)' /\ TxRule(R)'
    BY <1>13, <2>1, EndCaseEffect DEF Rules
  <2>5. KindRule'
    BY <1>13, <2>1, EndCaseEffect DEF Rules
  <2>6. RxRule'
    BY <1>13, <2>1, <2>a, <2>c, EndCaseEffect DEF Rules
  <2>7. AckRule'
    BY <1>13, <2>1, EndCaseEffect DEF Rules
  <2>8. TimerRule'
    BY <1>13, <2>1, EndCaseEffect DEF Rules
  <2> QED
    BY ONLY <2>2, <2>3, <2>4, <2>5, <2>6, <2>7, <2>8 DEF Rules
<1>14. CASE EndCase(R)
  <2>1. timer # 0
    BY <1>14, EndCaseEffect, NotExpired
  <2>a. /\ next[R] # None /\ next'[R] = None /\ state'[R] = next[R].to
        /\ taking'[R] = taking[R] \ next[R].end /\ timer' = timer
    BY <1>14, EndCaseEffect
  <2>b. taking[R] # {} => next[R].end = Port /\ taking[R] \subseteq Port
    BY ONLY <2>a, Rules, Types DEF Rules, MovesR, Move, RxRule, Listens, Types,
       AirTypes, Board, R
  <2>c. taking'[R] = {}
    BY ONLY <2>a, <2>b
  <2>d. Rx0 \in ports'[R] => next[R].to \in {"SYNC_WAIT_RX_DONE", "PDOA_WAIT_RX_DONE"}
    BY <1>14, EndCaseEffect, PortSets DEF Rules
  <2>e. tx'[R] = IF next[R].to \in {"PDOA_PREPARE", "IDLE"} THEN "off" ELSE tx[R]
    BY <1>14, EndCaseEffect, PortSets DEF Rules
  <2>2. MovesI'
    BY <1>14, <2>1, EndCaseEffect DEF Rules
  <2>3. MovesR'
    BY <1>14, <2>1, EndCaseEffect DEF Rules
  <2>4. TxRule(I)' /\ TxRule(R)'
    BY <1>14, <2>1, EndCaseEffect DEF Rules
  <2>5. KindRule'
    BY <1>14, <2>1, EndCaseEffect DEF Rules
  <2>6. RxRule'
    BY <1>14, <2>1, <2>c, <2>d, NoneIsNoKind, EndCaseEffect DEF Rules
  <2>7. AckRule'
    BY <1>14, <2>1, <2>e, NoneIsNoKind, EndCaseEffect DEF Rules
  <2>8. TimerRule'
    BY ONLY <2>1, <2>a, NoneIsNoKind, Rules DEF Rules, MovesR, Move, TimerRule
  <2> QED
    BY ONLY <2>2, <2>3, <2>4, <2>5, <2>6, <2>7, <2>8 DEF Rules
<1>15. CASE ResponderAwaited
  <2>1. timer # 0
    BY <1>15, ResponderAwaitedEffect, NotExpired
  <2>2. MovesI'
    BY <1>15, <2>1, ResponderAwaitedEffect DEF Rules
  <2>3. MovesR'
    BY <1>15, <2>1, ResponderAwaitedEffect DEF Rules
  <2>4. TxRule(I)' /\ TxRule(R)'
    BY <1>15, <2>1, ResponderAwaitedEffect DEF Rules
  <2>5. KindRule'
    BY <1>15, <2>1, ResponderAwaitedEffect DEF Rules
  <2>6. RxRule'
    BY <1>15, <2>1, ResponderAwaitedEffect DEF Rules
  <2>7. AckRule'
    BY <1>15, <2>1, ResponderAwaitedEffect DEF Rules
  <2>8. TimerRule'
    BY <1>15, <2>1, ResponderAwaitedEffect DEF Rules
  <2> QED
    BY ONLY <2>2, <2>3, <2>4, <2>5, <2>6, <2>7, <2>8 DEF Rules
<1>16. CASE PdoaTransmit
  <2>1. timer # 0
    BY <1>16, PdoaTransmitEffect, NotExpired
  <2>2. MovesI'
    BY <1>16, <2>1, PdoaTransmitEffect DEF Rules
  <2>3. MovesR'
    BY <1>16, <2>1, PdoaTransmitEffect DEF Rules
  <2>4. TxRule(I)' /\ TxRule(R)'
    BY <1>16, <2>1, PdoaTransmitEffect DEF Rules
  <2>5. KindRule'
    BY <1>16, <2>1, PdoaTransmitEffect DEF Rules
  <2>6. RxRule'
    BY <1>16, <2>1, PdoaTransmitEffect DEF Rules
  <2>7. AckRule'
    BY <1>16, <2>1, PdoaTransmitEffect DEF Rules
  <2>8. TimerRule'
    BY <1>16, <2>1, PdoaTransmitEffect DEF Rules
  <2> QED
    BY ONLY <2>2, <2>3, <2>4, <2>5, <2>6, <2>7, <2>8 DEF Rules
<1>17. CASE PdoaTransmitted
  <2>1. timer # 0
    BY <1>17, PdoaTransmittedEffect, NotExpired
  <2> QED
    BY <1>17, <2>1, PdoaTransmittedEffect DEF Rules
<1>18. CASE InitiatorTerminate
  <2>1. timer # 0
    BY <1>18, InitiatorTerminateEffect, NotExpired
  <2> QED
    BY <1>18, <2>1, InitiatorTerminateEffect DEF Rules
<1>19. CASE PdoaPrepare
  <2>1. timer # 0
    BY <1>19, PdoaPrepareEffect, NotExpired
  <2>2. MovesI'
    BY <1>19, <2>1, PdoaPrepareEffect DEF Rules
  <2>3. MovesR'
    BY <1>19, <2>1, PdoaPrepareEffect DEF Rules
  <2>4. TxRule(I)' /\ TxRule(R)'
    BY <1>19, <2>1, PdoaPrepareEffect DEF Rules
  <2>5. KindRule'
    BY <1>19, <2>1, PdoaPrepareEffect DEF Rules
  <2>6. RxRule'
    BY <1>19, <2>1, PdoaPrepareEffect DEF Rules
  <2>7. AckRule'
    BY <1>19, <2>1, PdoaPrepareEffect DEF Rules
  <2>8. TimerRule'
    BY <1>19, <2>1, PdoaPrepareEffect DEF Rules
  <2> QED
    BY ONLY <2>2, <2>3, <2>4, <2>5, <2>6, <2>7, <2>8 DEF Rules
<1>20. CASE PdoaReceive
  <2>1. timer # 0
    BY <1>20, PdoaReceiveEffect, NotExpired
  <2> QED
    BY <1>20, <2>1, PdoaReceiveEffect DEF Armed0, Rules
<1>21. CASE PdoaReceived
  <2>1. timer # 0
    BY <1>21, PdoaReceivedEffect, NotExpired
  <2> QED
    BY <1>21, <2>1, PdoaReceivedEffect DEF Armed0, Rules
<1>22. CASE PdoaPostingProcessing
  <2>1. timer # 0
    BY <1>22, PdoaPostingProcessingEffect, NotExpired
  <2> QED
    BY <1>22, <2>1, PdoaPostingProcessingEffect DEF Rules
<1>23. CASE ResponderTerminate
  <2>1. timer # 0
    BY <1>23, ResponderTerminateEffect, NotExpired
  <2>2. MovesI'
    BY <1>23, <2>1, ResponderTerminateEffect DEF Rules
  <2>3. MovesR'
    BY <1>23, <2>1, ResponderTerminateEffect DEF Rules
  <2>4. TxRule(I)' /\ TxRule(R)'
    BY <1>23, <2>1, ResponderTerminateEffect DEF Rules
  <2>5. KindRule'
    BY <1>23, <2>1, ResponderTerminateEffect DEF Rules
  <2>6. RxRule'
    BY <1>23, <2>1, ResponderTerminateEffect DEF Rules
  <2>7. AckRule'
    BY <1>23, <2>1, ResponderTerminateEffect DEF Rules
  <2>8. TimerRule'
    BY <1>23, <2>1, ResponderTerminateEffect DEF Rules
  <2> QED
    BY ONLY <2>2, <2>3, <2>4, <2>5, <2>6, <2>7, <2>8 DEF Rules
<1>24. CASE TimerIrq
  BY <1>24, TimerIrqEffect DEF Rules
<1>25. CASE Scheduled(I)
  BY <1>25, ScheduledEffect, AtRest DEF Rules
<1>26. CASE Scheduled(R)
  BY <1>26, ScheduledEffect, AtRest DEF Rules
<1>27. CASE FrameBegins(I)
  <2>2. MovesI'
    BY <1>27, FrameBeginsEffect, AtRest DEF Rules
  <2>3. MovesR'
    BY <1>27, FrameBeginsEffect, AtRest DEF Rules
  <2>4. TxRule(I)' /\ TxRule(R)'
    BY <1>27, FrameBeginsEffect, AtRest DEF Rules
  <2>5. KindRule'
    BY <1>27, FrameBeginsEffect, AtRest DEF Rules
  <2>6. RxRule'
    BY <1>27, FrameBeginsEffect, AtRest DEF Rules
  <2>7. AckRule'
    BY <1>27, FrameBeginsEffect, AtRest DEF Rules
  <2>8. TimerRule'
    BY <1>27, FrameBeginsEffect, AtRest DEF Rules
  <2> QED
    BY ONLY <2>2, <2>3, <2>4, <2>5, <2>6, <2>7, <2>8 DEF Rules
<1>28. CASE FrameBegins(R)
  <2>2. MovesI'
    BY <1>28, FrameBeginsEffect, AtRest DEF Rules
  <2>3. MovesR'
    BY <1>28, FrameBeginsEffect, AtRest DEF Rules
  <2>4. TxRule(I)' /\ TxRule(R)'
    BY <1>28, FrameBeginsEffect, AtRest DEF Rules
  <2>5. KindRule'
    BY <1>28, FrameBeginsEffect, AtRest DEF Rules
  <2>6. RxRule'
    BY <1>28, FrameBeginsEffect, AtRest DEF Rules
  <2>7. AckRule'
    BY <1>28, FrameBeginsEffect, AtRest DEF Rules
  <2>8. TimerRule'
    BY <1>28, FrameBeginsEffect, AtRest DEF Rules
  <2> QED
    BY ONLY <2>2, <2>3, <2>4, <2>5, <2>6, <2>7, <2>8 DEF Rules
<1>29. CASE SfdDetected(I)
  BY <1>29, SfdDetectedEffect DEF Rules
<1>30. CASE SfdDetected(R)
  BY <1>30, SfdDetectedEffect DEF Rules
<1>31. ASSUME NEW u \in BOOLEAN, Sent(I, u) PROVE Rules'
  <2>2. MovesI'
    BY <1>31, SentEffect DEF Rules
  <2>3. MovesR'
    BY <1>31, SentEffect DEF Rules
  <2>4. TxRule(I)' /\ TxRule(R)'
    BY <1>31, SentEffect DEF Rules
  <2>5. KindRule'
    BY <1>31, SentEffect DEF Rules
  <2>6. RxRule'
    BY <1>31, SentEffect DEF Rules
  <2>7. AckRule'
    BY <1>31, NoneIsNoKind, SentEffect DEF Rules
  <2>8. TimerRule'
    BY <1>31, SentEffect DEF Rules
  <2> QED
    BY ONLY <2>2, <2>3, <2>4, <2>5, <2>6, <2>7, <2>8 DEF Rules
<1>32. ASSUME NEW u \in BOOLEAN, Sent(R, u) PROVE Rules'
  BY <1>32, SentEffect DEF Rules
<1>33. CASE FrameMissed(I)
  BY <1>33, FrameMissedEffect DEF Rules
<1>34. CASE FrameMissed(R)
  BY <1>34, FrameMissedEffect DEF Rules
<1>35. CASE Tick(I)
  <2>2. MovesI'
    BY <1>35, TickEffect, AtRest DEF Rules
  <2>3. MovesR'
    BY <1>35, TickEffect, AtRest DEF Rules
  <2>4. TxRule(I)' /\ TxRule(R)'
    BY <1>35, TickEffect, AtRest DEF Rules
  <2>5. KindRule'
    BY <1>35, TickEffect, AtRest DEF Rules
  <2>6. RxRule'
    BY <1>35, TickEffect, AtRest DEF Rules
  <2>7. AckRule'
    BY <1>35, TickEffect, AtRest DEF Rules
  <2>8. TimerRule'
    BY <1>35, TickEffect, AtRest DEF Rules
  <2> QED
    BY ONLY <2>2, <2>3, <2>4, <2>5, <2>6, <2>7, <2>8 DEF Rules
<1>36. CASE Tick(R)
  <2>2. MovesI'
    BY <1>36, TickEffect, AtRest DEF Rules
  <2>3. MovesR'
    BY <1>36, TickEffect, AtRest DEF Rules
  <2>4. TxRule(I)' /\ TxRule(R)'
    BY <1>36, TickEffect, AtRest DEF Rules
  <2>5. KindRule'
    BY <1>36, TickEffect, AtRest DEF Rules
  <2>6. RxRule'
    BY <1>36, TickEffect, AtRest DEF Rules
  <2>7. AckRule'
    BY <1>36, TickEffect, AtRest DEF Rules
  <2>8. TimerRule'
    <3>1. timer' = 0 => state[R] = "PDOA_WAIT_RX_DONE"
      BY <1>36, TickEffect, AtRest DEF Rules
    <3>2. state[R] = "PDOA_WAIT_RX_DONE" => ~Ready(R)'
      BY <1>36, TickEffect, AtRest, Waiting DEF Ready, Elapsed, Waits
    <3>3. ~Ready(I)'
      BY <1>36, TickEffect DEF Ready, Elapsed, Settled
    <3> QED
      BY <1>36, <3>1, <3>2, <3>3, TickEffect, AtRest DEF Rules
  <2> QED
    BY ONLY <2>2, <2>3, <2>4, <2>5, <2>6, <2>7, <2>8 DEF Rules
<1>37. reboots \in Nat
  BY LongestWait DEF Types, FlagTypes
<1>38. ASSUME NEW b \in Board, Shared(b) PROVE Rules'
  BY <1>38, <1>1, <1>2, <1>3, <1>4, <1>5, <1>6, <1>7, <1>8, <1>9, <1>10, <1>11,
     <1>12, <1>13, <1>14 DEF Shared
<1>39. ASSUME NEW b \in Board, Air(b) \/ FrameDamaged(b) \/ FrameMissed(b) \/ Tick(b)
       PROVE  Rules'
  BY <1>39, <1>25, <1>26, <1>27, <1>28, <1>29, <1>30, <1>31, <1>32, <1>33,
     <1>34,
     <1>35, <1>36 DEF Air, FrameSent, FrameDamaged
<1>40. ASSUME NEW b \in Board, Reboot(b) PROVE Rules'
  BY <1>37, <1>40 DEF Reboot
<1> QED
  BY <1>15, <1>16, <1>17, <1>18, <1>19, <1>20, <1>21, <1>22, <1>23, <1>24,
     <1>38,
     <1>39, <1>40, Boards DEF Next, Initiator, Responder, I, R
-----------------------------------------------------------------------------
(* What a case of the responder's may be going to do.                      *)
LEMMA MoveOfR ==
    ASSUME MovesR, next[R] # None
    PROVE  /\ next[R].to = "PDOA_WAIT_RX_DONE" =>
                 state[R] = "PDOA_RECEIVE" /\ next[R].end = {}
           /\ next[R].to = "PDOA_POSTINGPROCESSING" =>
                 state[R] = "PDOA_WAIT_RX_DONE" /\ next[R].end = Port
<1> DEFINE n == next[R]
<1>1. CASE Move(R, "PDOA_RECEIVE", "PDOA_WAIT_RX_DONE", {})
  BY <1>1 DEF Move
<1>2. CASE Move(R, "PDOA_WAIT_RX_DONE", "PDOA_POSTINGPROCESSING", Port)
  BY <1>2 DEF Move
<1>3. \A s, e, t : Move(R, s, t, e) => next[R].to = t
  BY DEF Move
<1> QED
  BY <1>1, <1>2, <1>3 DEF MovesR

LEMMA NextCounted ==
    ASSUME Types, Rules, Counted, MaxLate = 0, Next, reboots' = 0
    PROVE  Counted'
<1> USE TwoBoards DEF Goes, Counted, Rules, MovesR, Move, loop, flags, air, env
<1>1. CASE IdleOver(I)
  BY <1>1, IdleOverEffect
<1>2. CASE IdleOver(R)
  BY <1>2, IdleOverEffect
<1>3. CASE SyncTransmit(I)
  BY <1>3, SyncTransmitEffect
<1>4. CASE SyncTransmit(R)
  BY <1>4, SyncTransmitEffect
<1>5. CASE SyncTransmitted(I)
  BY <1>5, SyncTransmittedEffect
<1>6. CASE SyncTransmitted(R)
  BY <1>6, SyncTransmittedEffect
<1>7. CASE SyncReceive(I)
  BY <1>7, SyncReceiveEffect
<1>8. CASE SyncReceive(R)
  BY <1>8, SyncReceiveEffect
<1>9. CASE SyncTimedOut(I)
  BY <1>9, SyncTimedOutEffect
<1>10. CASE SyncTimedOut(R)
  BY <1>10, SyncTimedOutEffect
<1>11. CASE SyncReceived(I)
  BY <1>11, SyncReceivedEffect
<1>12. CASE SyncReceived(R)
  BY <1>12, SyncReceivedEffect
<1>13. CASE EndCase(I)
  BY <1>13, EndCaseEffect
<1>14. CASE EndCase(R)
  BY <1>14, EndCaseEffect
<1>15. CASE ResponderAwaited
  BY <1>15, ResponderAwaitedEffect
<1>16. CASE PdoaTransmit
  BY <1>16, PdoaTransmitEffect
<1>17. CASE PdoaTransmitted
  BY <1>17, PdoaTransmittedEffect
<1>18. CASE InitiatorTerminate
  BY <1>18, InitiatorTerminateEffect
<1>19. CASE PdoaPrepare
  BY <1>19, PdoaPrepareEffect
<1>20. CASE PdoaReceive
  BY <1>20, PdoaReceiveEffect DEF Armed0
<1>21. CASE PdoaReceived
  BY <1>21, PdoaReceivedEffect DEF Armed0
<1>22. CASE PdoaPostingProcessing
  BY <1>22, PdoaPostingProcessingEffect
<1>23. CASE ResponderTerminate
  BY <1>23, ResponderTerminateEffect
<1>24. CASE TimerIrq
  BY <1>24, TimerIrqEffect
<1>25. CASE Scheduled(I)
  BY <1>25, ScheduledEffect
<1>26. CASE Scheduled(R)
  BY <1>26, ScheduledEffect
<1>27. CASE FrameBegins(I)
  BY <1>27, FrameBeginsEffect
<1>28. CASE FrameBegins(R)
  BY <1>28, FrameBeginsEffect
<1>29. CASE SfdDetected(I)
  BY <1>29, SfdDetectedEffect
<1>30. CASE SfdDetected(R)
  BY <1>30, SfdDetectedEffect
<1>31. ASSUME NEW u \in BOOLEAN, Sent(I, u) PROVE Counted'
  BY <1>31, SentEffect
<1>32. ASSUME NEW u \in BOOLEAN, Sent(R, u) PROVE Counted'
  BY <1>32, SentEffect
<1>33. CASE FrameMissed(I)
  BY <1>33, FrameMissedEffect
<1>34. CASE FrameMissed(R)
  BY <1>34, FrameMissedEffect
<1>35. CASE Tick(I)
  BY <1>35, TickEffect
<1>36. CASE Tick(R)
  BY <1>36, TickEffect
<1>37. reboots \in Nat
  BY LongestWait DEF Types, FlagTypes
<1>38. ASSUME NEW b \in Board, Shared(b) PROVE Counted'
  BY <1>38, <1>1, <1>2, <1>3, <1>4, <1>5, <1>6, <1>7, <1>8, <1>9, <1>10, <1>11,
     <1>12, <1>13, <1>14 DEF Shared
<1>39. ASSUME NEW b \in Board, Air(b) \/ FrameDamaged(b) \/ FrameMissed(b) \/ Tick(b)
       PROVE  Counted'
  BY <1>39, <1>25, <1>26, <1>27, <1>28, <1>29, <1>30, <1>31, <1>32, <1>33,
     <1>34,
     <1>35, <1>36 DEF Air, FrameSent, FrameDamaged
<1>40. ASSUME NEW b \in Board, Reboot(b) PROVE Counted'
  BY <1>37, <1>40 DEF Reboot
<1> QED
  BY <1>15, <1>16, <1>17, <1>18, <1>19, <1>20, <1>21, <1>22, <1>23, <1>24,
     <1>38,
     <1>39, <1>40, Boards DEF Next, Initiator, Responder, I, R

LEMMA NextPortRule ==
    ASSUME Types, Rules, PortRule, MaxLate = 0, Next, reboots' = 0
    PROVE  PortRule'
<1> USE TwoBoards DEF Goes, PortRule, loop, flags, air, env
<1>1. CASE IdleOver(I)
  BY <1>1, IdleOverEffect DEF Rules, MovesR, Move, RxRule, Listens, OnAir
<1>2. CASE IdleOver(R)
  BY <1>2, IdleOverEffect DEF Rules, MovesR, Move, RxRule, Listens, OnAir
<1>3. CASE SyncTransmit(I)
  BY <1>3, SyncTransmitEffect DEF Rules, MovesR, Move, RxRule, Listens, OnAir
<1>4. CASE SyncTransmit(R)
  BY <1>4, SyncTransmitEffect DEF Rules, MovesR, Move, RxRule, Listens, OnAir
<1>5. CASE SyncTransmitted(I)
  BY <1>5, SyncTransmittedEffect DEF Rules, MovesR, Move, RxRule, Listens, OnAir
<1>6. CASE SyncTransmitted(R)
  BY <1>6, SyncTransmittedEffect DEF Rules, MovesR, Move, RxRule, Listens, OnAir
<1>7. CASE SyncReceive(I)
  BY <1>7, SyncReceiveEffect DEF Rules, MovesR, Move, RxRule, Listens, OnAir
<1>8. CASE SyncReceive(R)
  BY <1>8, SyncReceiveEffect DEF Rules, MovesR, Move, RxRule, Listens, OnAir,
     Port, Rx0
<1>9. CASE SyncTimedOut(I)
  BY <1>9, SyncTimedOutEffect DEF Rules, MovesR, Move, RxRule, Listens, OnAir
<1>10. CASE SyncTimedOut(R)
  BY <1>10, SyncTimedOutEffect DEF Rules, MovesR, Move, RxRule, Listens, OnAir
<1>11. CASE SyncReceived(I)
  BY <1>11, SyncReceivedEffect DEF Rules, MovesR, Move, RxRule, Listens, OnAir
<1>12. CASE SyncReceived(R)
  BY <1>12, SyncReceivedEffect DEF Rules, MovesR, Move, RxRule, Listens, OnAir
<1>13. CASE EndCase(I)
  BY <1>13, EndCaseEffect DEF Rules, MovesR, Move, RxRule, Listens, OnAir
<1>14. CASE EndCase(R)
  <2>1. /\ next[R] # None /\ next'[R] = None /\ state'[R] = next[R].to
        /\ ports'[R] = ports[R] \ next[R].end
        /\ taking'[R] = taking[R] \ next[R].end
        /\ RxSfdDetected' = RxSfdDetected /\ tx'[I] = tx[I]
    BY <1>14, EndCaseEffect DEF Rules
  <2>2. taking'[R] = {}
    BY ONLY <2>1, Rules, Types DEF Rules, MovesR, Move, RxRule, Listens, Types,
       AirTypes, Board, R
  <2>3. "RX_1" \in ports'[R] <=> "RX_2" \in ports'[R]
    BY ONLY <2>1, Rules, PortRule DEF Rules, MovesR, Move, PortRule, Port, Rx0
  <2>4. state'[R] = "PDOA_WAIT_RX_DONE" => ports'[R] = Port /\ tx'[I] # "sfd"
    <3>1. state'[R] = "PDOA_WAIT_RX_DONE" =>
             state[R] = "PDOA_RECEIVE" /\ next[R].end = {}
      BY ONLY <2>1, Rules, MoveOfR DEF Rules
    <3>2. state[R] = "PDOA_RECEIVE" => ports[R] = Port /\ tx[I] # "sfd"
      BY ONLY <2>1, Rules, PortRule DEF Rules, PortRule, AckRule, Answered,
         OnAir
    <3> QED
      BY ONLY <2>1, <3>1, <3>2
  <2>5. \/ RxSfdDetected \subseteq {Rx0} \/ state'[R] = "PDOA_WAIT_RX_DONE"
        \/ RunOn /\ {"RX_1", "RX_2"} \subseteq ports'[R]
    BY ONLY <2>1, Rules, PortRule DEF Rules, MovesR, Move, PortRule, Port, Rx0
  <2> QED
    BY ONLY <2>1, <2>2, <2>3, <2>4, <2>5 DEF PortRule
<1>15. CASE ResponderAwaited
  BY <1>15, ResponderAwaitedEffect DEF Rules, MovesR, Move, RxRule, Listens,
     OnAir
<1>16. CASE PdoaTransmit
  BY <1>16, PdoaTransmitEffect DEF Rules, MovesR, Move, RxRule, Listens, OnAir
<1>17. CASE PdoaTransmitted
  BY <1>17, PdoaTransmittedEffect DEF Rules, MovesR, Move, RxRule, Listens,
     OnAir
<1>18. CASE InitiatorTerminate
  BY <1>18, InitiatorTerminateEffect DEF Rules, MovesR, Move, RxRule, Listens,
     OnAir
<1>19. CASE PdoaPrepare
  BY <1>19, PdoaPrepareEffect DEF Rules, MovesR, Move, RxRule, Listens, OnAir
<1>20. CASE PdoaReceive
  BY <1>20, PdoaReceiveEffect DEF Rules, MovesR, Move, RxRule, Listens, OnAir,
     Port, Armed0
<1>21. CASE PdoaReceived
  BY <1>21, PdoaReceivedEffect DEF Rules, MovesR, Move, RxRule, Listens, OnAir,
     Armed0
<1>22. CASE PdoaPostingProcessing
  BY <1>22, PdoaPostingProcessingEffect DEF Rules, MovesR, Move, RxRule,
     Listens, OnAir
<1>23. CASE ResponderTerminate
  BY <1>23, ResponderTerminateEffect DEF Rules, MovesR, Move, RxRule, Listens,
     OnAir
<1>24. CASE TimerIrq
  BY <1>24, TimerIrqEffect DEF Rules, MovesR, Move, RxRule, Listens, OnAir,
     TimerRule
<1>25. CASE Scheduled(I)
  BY <1>25, ScheduledEffect DEF Rules, MovesR, Move, RxRule, Listens, OnAir
<1>26. CASE Scheduled(R)
  BY <1>26, ScheduledEffect DEF Rules, MovesR, Move, RxRule, Listens, OnAir
<1>27. CASE FrameBegins(I)
  BY <1>27, AtRest, FrameBeginsEffect DEF Rules, MovesR, Move, RxRule, Listens,
     OnAir, Port
<1>28. CASE FrameBegins(R)
  BY <1>28, FrameBeginsEffect DEF Rules, MovesR, Move, RxRule, Listens, OnAir
<1>29. CASE SfdDetected(I)
  <2>1. taking[R] = {} \/ state[R] \in {"SYNC_WAIT_RX_DONE", "PDOA_WAIT_RX_DONE"}
    BY DEF Rules, RxRule, Listens
  <2>2. state[R] = "PDOA_WAIT_RX_DONE" => next[R] = None
    BY <1>29, SfdDetectedEffect DEF PortRule
  <2>3. \/ taking[R] \subseteq {Rx0} \/ state[R] = "PDOA_WAIT_RX_DONE"
        \/ RunOn /\ taking[R] = ports[R]
    BY DEF PortRule
  <2>4. \/ RxSfdDetected' \subseteq {Rx0}
        \/ state[R] \in {"PDOA_WAIT_RX_DONE", "PDOA_RECEIVE"}
        \/ RunOn /\ {"RX_1", "RX_2"} \subseteq ports[R]
        \/ state[R] = "TERMINATE" /\ next[R] = None
    <3>1. RxSfdDetected' = RxSfdDetected \cup (taking[R] \cap sfdIrq)
      BY <1>29, SfdDetectedEffect
    <3>2. CASE taking[R] \subseteq {Rx0}
      BY <3>1, <3>2 DEF PortRule
    <3>3. CASE RunOn /\ taking[R] = ports[R]
      <4>1. taking[R] \subseteq Port
        BY DEF Types, AirTypes, Board, R
      <4> QED
        BY <3>1, <3>3, <4>1 DEF PortRule, Port, Rx0
    <3> QED
      BY <2>3, <3>2, <3>3
  <2> QED
    BY <1>29, <2>2, <2>4, SfdDetectedEffect DEF PortRule
<1>30. CASE SfdDetected(R)
  BY <1>30, SfdDetectedEffect DEF Rules, MovesR, Move, RxRule, Listens, OnAir
<1>31. ASSUME NEW u \in BOOLEAN, Sent(I, u) PROVE PortRule'
  BY <1>31, SentEffect DEF Rules, MovesR, Move, RxRule, Listens, OnAir
<1>32. ASSUME NEW u \in BOOLEAN, Sent(R, u) PROVE PortRule'
  BY <1>32, SentEffect DEF Rules, MovesR, Move, RxRule, Listens, OnAir
<1>33. CASE FrameMissed(I)
  BY <1>33, FrameMissedEffect DEF Rules, MovesR, Move, RxRule, Listens, OnAir
<1>34. CASE FrameMissed(R)
  BY <1>34, FrameMissedEffect DEF Rules, MovesR, Move, RxRule, Listens, OnAir
<1>35. CASE Tick(I)
  BY <1>35, TickEffect DEF Rules, MovesR, Move, RxRule, Listens, OnAir
<1>36. CASE Tick(R)
  BY <1>36, TickEffect DEF Rules, MovesR, Move, RxRule, Listens, OnAir
<1>37. reboots \in Nat
  BY LongestWait DEF Types, FlagTypes
<1>38. ASSUME NEW b \in Board, Shared(b) PROVE PortRule'
  BY <1>38, <1>1, <1>2, <1>3, <1>4, <1>5, <1>6, <1>7, <1>8, <1>9, <1>10, <1>11,
     <1>12, <1>13, <1>14 DEF Shared
<1>39. ASSUME NEW b \in Board, Air(b) \/ FrameDamaged(b) \/ FrameMissed(b) \/ Tick(b)
       PROVE  PortRule'
  BY <1>39, <1>25, <1>26, <1>27, <1>28, <1>29, <1>30, <1>31, <1>32, <1>33,
     <1>34,
     <1>35, <1>36 DEF Air, FrameSent, FrameDamaged
<1>40. ASSUME NEW b \in Board, Reboot(b) PROVE PortRule'
  BY <1>37, <1>40 DEF Reboot
<1> QED
  BY <1>15, <1>16, <1>17, <1>18, <1>19, <1>20, <1>21, <1>22, <1>23, <1>24,
     <1>38,
     <1>39, <1>40, Boards DEF Next, Initiator, Responder, I, R

-----------------------------------------------------------------------------
(* No port of the responder is in the middle of a frame when a case ends.  *)
LEMMA NothingTaken ==
    ASSUME Types, Rules, EndCase(R)
    PROVE  taking'[R] = {}
<1>1. next[R] # None /\ taking'[R] = taking[R] \ next[R].end
  BY EndCaseEffect, TwoBoards
<1> QED
  BY ONLY <1>1, Rules, Types DEF Rules, MovesR, Move, RxRule, Listens, Types,
     AirTypes, Board, R

LEMMA NextHeard ==
    ASSUME Types, Rules, Heard, MaxLate = 0, Next, reboots' = 0
    PROVE  Heard'
<1> USE TwoBoards DEF Goes, Heard, loop, flags, air, env
<1>1. CASE IdleOver(I)
  BY <1>1, IdleOverEffect
<1>2. CASE IdleOver(R)
  BY <1>2, IdleOverEffect
<1>3. CASE SyncTransmit(I)
  BY <1>3, SyncTransmitEffect
<1>4. CASE SyncTransmit(R)
  BY <1>4, SyncTransmitEffect
<1>5. CASE SyncTransmitted(I)
  BY <1>5, SyncTransmittedEffect
<1>6. CASE SyncTransmitted(R)
  BY <1>6, SyncTransmittedEffect
<1>7. CASE SyncReceive(I)
  BY <1>7, SyncReceiveEffect
<1>8. CASE SyncReceive(R)
  BY <1>8, SyncReceiveEffect
<1>9. CASE SyncTimedOut(I)
  BY <1>9, SyncTimedOutEffect
<1>10. CASE SyncTimedOut(R)
  BY <1>10, SyncTimedOutEffect
<1>11. CASE SyncReceived(I)
  BY <1>11, SyncReceivedEffect
<1>12. CASE SyncReceived(R)
  BY <1>12, SyncReceivedEffect
<1>13. CASE EndCase(I)
  BY <1>13, EndCaseEffect
<1>14. CASE EndCase(R)
  BY <1>14, EndCaseEffect, NothingTaken
<1>15. CASE ResponderAwaited
  BY <1>15, ResponderAwaitedEffect
<1>16. CASE PdoaTransmit
  BY <1>16, PdoaTransmitEffect
<1>17. CASE PdoaTransmitted
  BY <1>17, PdoaTransmittedEffect
<1>18. CASE InitiatorTerminate
  BY <1>18, InitiatorTerminateEffect
<1>19. CASE PdoaPrepare
  BY <1>19, PdoaPrepareEffect
<1>20. CASE PdoaReceive
  BY <1>20, PdoaReceiveEffect DEF Armed0
<1>21. CASE PdoaReceived
  BY <1>21, PdoaReceivedEffect DEF Armed0
<1>22. CASE PdoaPostingProcessing
  BY <1>22, PdoaPostingProcessingEffect
<1>23. CASE ResponderTerminate
  BY <1>23, ResponderTerminateEffect
<1>24. CASE TimerIrq
  BY <1>24, TimerIrqEffect
<1>25. CASE Scheduled(I)
  BY <1>25, ScheduledEffect
<1>26. CASE Scheduled(R)
  BY <1>26, ScheduledEffect
<1>27. CASE FrameBegins(I)
  BY <1>27, FrameBeginsEffect
<1>28. CASE FrameBegins(R)
  BY <1>28, FrameBeginsEffect
<1>29. CASE SfdDetected(I)
  BY <1>29, SfdDetectedEffect DEF Types, AirTypes, Board, R
<1>30. CASE SfdDetected(R)
  BY <1>30, SfdDetectedEffect
<1>31. ASSUME NEW u \in BOOLEAN, Sent(I, u) PROVE Heard'
  BY <1>31, SentEffect
<1>32. ASSUME NEW u \in BOOLEAN, Sent(R, u) PROVE Heard'
  BY <1>32, SentEffect
<1>33. CASE FrameMissed(I)
  BY <1>33, FrameMissedEffect
<1>34. CASE FrameMissed(R)
  BY <1>34, FrameMissedEffect
<1>35. CASE Tick(I)
  BY <1>35, TickEffect
<1>36. CASE Tick(R)
  BY <1>36, TickEffect
<1>37. reboots \in Nat
  BY LongestWait DEF Types, FlagTypes
<1>38. ASSUME NEW b \in Board, Shared(b) PROVE Heard'
  BY <1>38, <1>1, <1>2, <1>3, <1>4, <1>5, <1>6, <1>7, <1>8, <1>9, <1>10, <1>11,
     <1>12, <1>13, <1>14 DEF Shared
<1>39. ASSUME NEW b \in Board, Air(b) \/ FrameDamaged(b) \/ FrameMissed(b) \/ Tick(b)
       PROVE  Heard'
  BY <1>39, <1>25, <1>26, <1>27, <1>28, <1>29, <1>30, <1>31, <1>32, <1>33,
     <1>34,
     <1>35, <1>36 DEF Air, FrameSent, FrameDamaged
<1>40. ASSUME NEW b \in Board, Reboot(b) PROVE Heard'
  BY <1>37, <1>40 DEF Reboot
<1> QED
  BY <1>15, <1>16, <1>17, <1>18, <1>19, <1>20, <1>21, <1>22, <1>23, <1>24,
     <1>38,
     <1>39, <1>40, Boards DEF Next, Initiator, Responder, I, R

(* What is kept of the answers when neither the taps nor the cycle change. *)
LEMMA AnswerCirKept ==
    ASSUME AnswerCir, UNCHANGED <<cir, cycle>>,
           RxSfdDetected' = Port => RxSfdDetected = Port,
           (ToAnswer \/ Answered)' => ToAnswer \/ Answered
    PROVE  AnswerCir'
BY DEF AnswerCir, CirOf

LEMMA NextAnswerCir ==
    ASSUME Types, Rules, PortRule, Heard, AnswerCir, MaxLate = 0, Next, reboots' = 0
    PROVE  AnswerCir'
<1> USE TwoBoards DEF Goes, loop, flags, air, env
<1>1. CASE IdleOver(I)
  <2>1. UNCHANGED <<cir, cycle>> /\ (RxSfdDetected' = Port => RxSfdDetected = Port)
    BY <1>1, IdleOverEffect
  <2>2. (ToAnswer \/ Answered)' => ToAnswer \/ Answered
    BY <1>1, IdleOverEffect DEF ToAnswer, Answered
  <2> QED
    BY ONLY <2>1, <2>2, AnswerCir, AnswerCirKept
<1>2. CASE IdleOver(R)
  <2>1. UNCHANGED <<cir, cycle>> /\ (RxSfdDetected' = Port => RxSfdDetected = Port)
    BY <1>2, IdleOverEffect
  <2>2. (ToAnswer \/ Answered)' => ToAnswer \/ Answered
    BY <1>2, IdleOverEffect DEF Rules, MovesR, Move, ToAnswer, Answered
  <2> QED
    BY ONLY <2>1, <2>2, AnswerCir, AnswerCirKept
<1>3. CASE SyncTransmit(I)
  <2>1. UNCHANGED <<cir, cycle>> /\ (RxSfdDetected' = Port => RxSfdDetected = Port)
    BY <1>3, SyncTransmitEffect
  <2>2. (ToAnswer \/ Answered)' => ToAnswer \/ Answered
    BY <1>3, SyncTransmitEffect DEF ToAnswer, Answered
  <2> QED
    BY ONLY <2>1, <2>2, AnswerCir, AnswerCirKept
<1>4. CASE SyncTransmit(R)
  <2>1. UNCHANGED <<cir, cycle>> /\ (RxSfdDetected' = Port => RxSfdDetected = Port)
    BY <1>4, SyncTransmitEffect
  <2>2. (ToAnswer \/ Answered)' => ToAnswer \/ Answered
    BY <1>4, SyncTransmitEffect DEF Rules, MovesR, Move, ToAnswer, Answered
  <2> QED
    BY ONLY <2>1, <2>2, AnswerCir, AnswerCirKept
<1>5. CASE SyncTransmitted(I)
  <2>1. UNCHANGED <<cir, cycle>> /\ (RxSfdDetected' = Port => RxSfdDetected = Port)
    BY <1>5, SyncTransmittedEffect
  <2>2. (ToAnswer \/ Answered)' => ToAnswer \/ Answered
    BY <1>5, SyncTransmittedEffect DEF ToAnswer, Answered
  <2> QED
    BY ONLY <2>1, <2>2, AnswerCir, AnswerCirKept
<1>6. CASE SyncTransmitted(R)
  <2>1. UNCHANGED <<cir, cycle>> /\ (RxSfdDetected' = Port => RxSfdDetected = Port)
    BY <1>6, SyncTransmittedEffect
  <2>2. (ToAnswer \/ Answered)' => ToAnswer \/ Answered
    BY <1>6, SyncTransmittedEffect DEF Rules, MovesR, Move, ToAnswer, Answered
  <2> QED
    BY ONLY <2>1, <2>2, AnswerCir, AnswerCirKept
<1>7. CASE SyncReceive(I)
  <2>1. UNCHANGED <<cir, cycle>> /\ (RxSfdDetected' = Port => RxSfdDetected = Port)
    BY <1>7, SyncReceiveEffect
  <2>2. (ToAnswer \/ Answered)' => ToAnswer \/ Answered
    BY <1>7, SyncReceiveEffect DEF ToAnswer, Answered
  <2> QED
    BY ONLY <2>1, <2>2, AnswerCir, AnswerCirKept
<1>8. CASE SyncReceive(R)
  <2>1. UNCHANGED <<cir, cycle>> /\ (RxSfdDetected' = Port => RxSfdDetected = Port)
    BY <1>8, SyncReceiveEffect
  <2>2. (ToAnswer \/ Answered)' => ToAnswer \/ Answered
    BY <1>8, SyncReceiveEffect DEF Rules, MovesR, Move, ToAnswer, Answered
  <2> QED
    BY ONLY <2>1, <2>2, AnswerCir, AnswerCirKept
<1>9. CASE SyncTimedOut(I)
  <2>1. UNCHANGED <<cir, cycle>> /\ (RxSfdDetected' = Port => RxSfdDetected = Port)
    BY <1>9, SyncTimedOutEffect
  <2>2. (ToAnswer \/ Answered)' => ToAnswer \/ Answered
    BY <1>9, SyncTimedOutEffect DEF ToAnswer, Answered
  <2> QED
    BY ONLY <2>1, <2>2, AnswerCir, AnswerCirKept
<1>10. CASE SyncTimedOut(R)
  <2>1. UNCHANGED <<cir, cycle>> /\ (RxSfdDetected' = Port => RxSfdDetected = Port)
    BY <1>10, SyncTimedOutEffect
  <2>2. (ToAnswer \/ Answered)' => ToAnswer \/ Answered
    BY <1>10, SyncTimedOutEffect DEF Rules, MovesR, Move, ToAnswer, Answered
  <2> QED
    BY ONLY <2>1, <2>2, AnswerCir, AnswerCirKept
<1>11. CASE SyncReceived(I)
  <2>1. UNCHANGED <<cir, cycle>> /\ (RxSfdDetected' = Port => RxSfdDetected = Port)
    BY <1>11, SyncReceivedEffect
  <2>2. (ToAnswer \/ Answered)' => ToAnswer \/ Answered
    BY <1>11, SyncReceivedEffect DEF ToAnswer, Answered
  <2> QED
    BY ONLY <2>1, <2>2, AnswerCir, AnswerCirKept
<1>12. CASE SyncReceived(R)
  <2>1. UNCHANGED <<cir, cycle>> /\ (RxSfdDetected' = Port => RxSfdDetected = Port)
    BY <1>12, SyncReceivedEffect
  <2>2. (ToAnswer \/ Answered)' => ToAnswer \/ Answered
    BY <1>12, SyncReceivedEffect DEF Rules, MovesR, Move, ToAnswer, Answered
  <2> QED
    BY ONLY <2>1, <2>2, AnswerCir, AnswerCirKept
<1>13. CASE EndCase(I)
  <2>1. UNCHANGED <<cir, cycle>> /\ (RxSfdDetected' = Port => RxSfdDetected = Port)
    BY <1>13, EndCaseEffect
  <2>2. (ToAnswer \/ Answered)' => ToAnswer \/ Answered
    BY <1>13, EndCaseEffect DEF ToAnswer, Answered
  <2> QED
    BY ONLY <2>1, <2>2, AnswerCir, AnswerCirKept
<1>14. CASE EndCase(R)
  <2>1. /\ next[R] # None /\ state'[R] = next[R].to /\ rxFrame' = rxFrame
        /\ UNCHANGED <<RxSfdDetected, cir, cycle>>
    BY <1>14, EndCaseEffect
  <2>2. (ToAnswer \/ Answered)' => ToAnswer \/ Answered
    BY ONLY <2>1, Rules, NoneIsNoKind
       DEF Rules, MovesR, Move, RxRule, ToAnswer, Answered
  <2> QED
    BY ONLY <2>1, <2>2, AnswerCir DEF AnswerCir, CirOf
<1>15. CASE ResponderAwaited
  <2>1. UNCHANGED <<cir, cycle>> /\ (RxSfdDetected' = Port => RxSfdDetected = Port)
    BY <1>15, ResponderAwaitedEffect
  <2>2. (ToAnswer \/ Answered)' => ToAnswer \/ Answered
    BY <1>15, ResponderAwaitedEffect DEF ToAnswer, Answered
  <2> QED
    BY ONLY <2>1, <2>2, AnswerCir, AnswerCirKept
<1>16. CASE PdoaTransmit
  <2>1. UNCHANGED <<cir, cycle>> /\ (RxSfdDetected' = Port => RxSfdDetected = Port)
    BY <1>16, PdoaTransmitEffect
  <2>2. (ToAnswer \/ Answered)' => ToAnswer \/ Answered
    BY <1>16, PdoaTransmitEffect DEF ToAnswer, Answered
  <2> QED
    BY ONLY <2>1, <2>2, AnswerCir, AnswerCirKept
<1>17. CASE PdoaTransmitted
  <2>1. UNCHANGED <<cir, cycle>> /\ (RxSfdDetected' = Port => RxSfdDetected = Port)
    BY <1>17, PdoaTransmittedEffect
  <2>2. (ToAnswer \/ Answered)' => ToAnswer \/ Answered
    BY <1>17, PdoaTransmittedEffect DEF ToAnswer, Answered
  <2> QED
    BY ONLY <2>1, <2>2, AnswerCir, AnswerCirKept
<1>18. CASE InitiatorTerminate
  BY <1>18, InitiatorTerminateEffect DEF AnswerCir, CirOf, ToAnswer, Answered,
     Rules, AckRule, TxRule
<1>19. CASE PdoaPrepare
  <2>1. UNCHANGED <<cir, cycle>> /\ (RxSfdDetected' = Port => RxSfdDetected = Port)
    BY <1>19, PdoaPrepareEffect
  <2>2. (ToAnswer \/ Answered)' => ToAnswer \/ Answered
    BY <1>19, PdoaPrepareEffect DEF Rules, MovesR, Move, ToAnswer, Answered
  <2> QED
    BY ONLY <2>1, <2>2, AnswerCir, AnswerCirKept
<1>20. CASE PdoaReceive
  <2>1. UNCHANGED <<cir, cycle>> /\ (RxSfdDetected' = Port => RxSfdDetected = Port)
    BY <1>20, PdoaReceiveEffect DEF Armed0
  <2>2. (ToAnswer \/ Answered)' => ToAnswer \/ Answered
    BY <1>20, PdoaReceiveEffect DEF Rules, MovesR, Move, ToAnswer, Answered,
       Armed0
  <2> QED
    BY ONLY <2>1, <2>2, AnswerCir, AnswerCirKept
<1>21. CASE PdoaReceived
  BY <1>21, PdoaReceivedEffect DEF AnswerCir, CirOf, ToAnswer, Answered, Rules,
     MovesR, Move, Armed0
<1>22. CASE PdoaPostingProcessing
  <2>1. UNCHANGED <<cir, cycle>> /\ (RxSfdDetected' = Port => RxSfdDetected = Port)
    BY <1>22, PdoaPostingProcessingEffect
  <2>2. (ToAnswer \/ Answered)' => ToAnswer \/ Answered
    BY <1>22, PdoaPostingProcessingEffect DEF Rules, MovesR, Move, ToAnswer,
       Answered
  <2> QED
    BY ONLY <2>1, <2>2, AnswerCir, AnswerCirKept
<1>23. CASE ResponderTerminate
  BY <1>23, ResponderTerminateEffect DEF AnswerCir, CirOf, ToAnswer, Answered,
     Rules, MovesR, Move
<1>24. CASE TimerIrq
  <2>1. UNCHANGED <<cir, cycle>> /\ (RxSfdDetected' = Port => RxSfdDetected = Port)
    BY <1>24, TimerIrqEffect
  <2>2. (ToAnswer \/ Answered)' => ToAnswer \/ Answered
    BY <1>24, TimerIrqEffect DEF ToAnswer, Answered
  <2> QED
    BY ONLY <2>1, <2>2, AnswerCir, AnswerCirKept
<1>25. CASE Scheduled(I)
  <2>1. UNCHANGED <<cir, cycle>> /\ (RxSfdDetected' = Port => RxSfdDetected = Port)
    BY <1>25, ScheduledEffect
  <2>2. (ToAnswer \/ Answered)' => ToAnswer \/ Answered
    BY <1>25, ScheduledEffect DEF ToAnswer, Answered
  <2> QED
    BY ONLY <2>1, <2>2, AnswerCir, AnswerCirKept
<1>26. CASE Scheduled(R)
  <2>1. UNCHANGED <<cir, cycle>> /\ (RxSfdDetected' = Port => RxSfdDetected = Port)
    BY <1>26, ScheduledEffect
  <2>2. (ToAnswer \/ Answered)' => ToAnswer \/ Answered
    BY <1>26, ScheduledEffect DEF ToAnswer, Answered
  <2> QED
    BY ONLY <2>1, <2>2, AnswerCir, AnswerCirKept
<1>27. CASE FrameBegins(I)
  <2>1. UNCHANGED <<cir, cycle>> /\ (RxSfdDetected' = Port => RxSfdDetected = Port)
    BY <1>27, FrameBeginsEffect
  <2>2. (ToAnswer \/ Answered)' => ToAnswer \/ Answered
    BY <1>27, FrameBeginsEffect DEF ToAnswer, Answered
  <2> QED
    BY ONLY <2>1, <2>2, AnswerCir, AnswerCirKept
<1>28. CASE FrameBegins(R)
  <2>1. UNCHANGED <<cir, cycle>> /\ (RxSfdDetected' = Port => RxSfdDetected = Port)
    BY <1>28, FrameBeginsEffect
  <2>2. (ToAnswer \/ Answered)' => ToAnswer \/ Answered
    BY <1>28, FrameBeginsEffect DEF ToAnswer, Answered
  <2> QED
    BY ONLY <2>1, <2>2, AnswerCir, AnswerCirKept
<1>29. CASE SfdDetected(I)
  BY <1>29, SfdDetectedEffect DEF AnswerCir, CirOf, ToAnswer, Answered, Rules,
     AckRule, TxRule, OnAir
<1>30. CASE SfdDetected(R)
  <2>1. UNCHANGED <<cir, cycle>> /\ (RxSfdDetected' = Port => RxSfdDetected = Port)
    BY <1>30, SfdDetectedEffect
  <2>2. (ToAnswer \/ Answered)' => ToAnswer \/ Answered
    BY <1>30, SfdDetectedEffect DEF ToAnswer, Answered
  <2> QED
    BY ONLY <2>1, <2>2, AnswerCir, AnswerCirKept
<1>31. ASSUME NEW u \in BOOLEAN, Sent(I, u) PROVE AnswerCir'
  <2>1. SUFFICES ASSUME (ToAnswer \/ Answered)', RxSfdDetected' = Port
                 PROVE  CirOf(cycle)'
    BY DEF AnswerCir
  <2>2. cir' = cir /\ cycle' = cycle /\ RxSfdDetected = Port /\ state' = state
        /\ tx[I] = "data"
    BY <1>31, <2>1, SentEffect
  <2>3. state[R] = "SYNC_WAIT_RX_DONE" /\ Rx0 \in taking[R]
    BY <1>31, <2>1, <2>2, SentEffect
       DEF ToAnswer, Answered, Rules, AckRule, TxRule, OnAir
  <2>4. taking[R] = Port
    <3>1. taking[R] \subseteq Port
      BY DEF Types, AirTypes, Board, R
    <3> QED
      BY <2>2, <2>3, <3>1 DEF PortRule, Port, Rx0
  <2>5. \A p \in Port : cir[p] = txFrame[I]
    BY <2>2, <2>3, <2>4 DEF Heard
  <2>6. txFrame[I] \in Frame /\ txFrame[I][2] = cycle
    BY <2>2, Boards DEF Rules, KindRule, On, Types, HasFrame, I
  <2>7. txFrame[I] \in FrameOf(Kind, {cycle})
    BY <2>6 DEF Frame, FrameOf
  <2>8. CirOf(cycle)
    BY ONLY <2>5, <2>7, PortSets DEF CirOf
  <2> QED
    BY ONLY <2>2, <2>8 DEF CirOf
<1>32. ASSUME NEW u \in BOOLEAN, Sent(R, u) PROVE AnswerCir'
  <2>1. UNCHANGED <<cir, cycle>> /\ (RxSfdDetected' = Port => RxSfdDetected = Port)
    BY <1>32, SentEffect
  <2>2. (ToAnswer \/ Answered)' => ToAnswer \/ Answered
    BY <1>32, SentEffect DEF ToAnswer, Answered
  <2> QED
    BY ONLY <2>1, <2>2, AnswerCir, AnswerCirKept
<1>33. CASE FrameMissed(I)
  <2>1. UNCHANGED <<cir, cycle>> /\ (RxSfdDetected' = Port => RxSfdDetected = Port)
    BY <1>33, FrameMissedEffect
  <2>2. (ToAnswer \/ Answered)' => ToAnswer \/ Answered
    BY <1>33, FrameMissedEffect DEF ToAnswer, Answered
  <2> QED
    BY ONLY <2>1, <2>2, AnswerCir, AnswerCirKept
<1>34. CASE FrameMissed(R)
  <2>1. UNCHANGED <<cir, cycle>> /\ (RxSfdDetected' = Port => RxSfdDetected = Port)
    BY <1>34, FrameMissedEffect
  <2>2. (ToAnswer \/ Answered)' => ToAnswer \/ Answered
    BY <1>34, FrameMissedEffect DEF ToAnswer, Answered
  <2> QED
    BY ONLY <2>1, <2>2, AnswerCir, AnswerCirKept
<1>35. CASE Tick(I)
  <2>1. UNCHANGED <<cir, cycle>> /\ (RxSfdDetected' = Port => RxSfdDetected = Port)
    BY <1>35, TickEffect
  <2>2. (ToAnswer \/ Answered)' => ToAnswer \/ Answered
    BY <1>35, TickEffect DEF ToAnswer, Answered
  <2> QED
    BY ONLY <2>1, <2>2, AnswerCir, AnswerCirKept
<1>36. CASE Tick(R)
  <2>1. UNCHANGED <<cir, cycle>> /\ (RxSfdDetected' = Port => RxSfdDetected = Port)
    BY <1>36, TickEffect
  <2>2. (ToAnswer \/ Answered)' => ToAnswer \/ Answered
    BY <1>36, TickEffect DEF ToAnswer, Answered
  <2> QED
    BY ONLY <2>1, <2>2, AnswerCir, AnswerCirKept
<1>37. reboots \in Nat
  BY LongestWait DEF Types, FlagTypes
<1>38. ASSUME NEW b \in Board, Shared(b) PROVE AnswerCir'
  BY <1>38, <1>1, <1>2, <1>3, <1>4, <1>5, <1>6, <1>7, <1>8, <1>9, <1>10, <1>11,
     <1>12, <1>13, <1>14 DEF Shared
<1>39. ASSUME NEW b \in Board, Air(b) \/ FrameDamaged(b) \/ FrameMissed(b) \/ Tick(b)
       PROVE  AnswerCir'
  BY <1>39, <1>25, <1>26, <1>27, <1>28, <1>29, <1>30, <1>31, <1>32, <1>33,
     <1>34,
     <1>35, <1>36 DEF Air, FrameSent, FrameDamaged
<1>40. ASSUME NEW b \in Board, Reboot(b) PROVE AnswerCir'
  BY <1>37, <1>40 DEF Reboot
<1> QED
  BY <1>15, <1>16, <1>17, <1>18, <1>19, <1>20, <1>21, <1>22, <1>23, <1>24,
     <1>38,
     <1>39, <1>40, Boards DEF Next, Initiator, Responder, I, R

-----------------------------------------------------------------------------
(* What the timer and the clocks are in a series.                          *)
LEMMA InTheSeries ==
    ASSUME Types, Rules, InSeries
    PROVE  /\ timer \in 0..OverallTimeout /\ timer # None
           /\ ahead \in -1..1 /\ since[I] \in Nat /\ OverallTimeout \in Nat
           /\ \A b \in Board : next[b] # None \/ Ready(b) => timer >= 1
           /\ ~(ToAnswer \/ Answered)
<1>1. timer # None
  BY DEF Rules, TimerRule, InSeries
<1>2. timer \in 0..OverallTimeout /\ ahead \in -1..1 /\ since[I] \in Nat
  BY <1>1, Boards DEF Types, LoopTypes, FlagTypes, I
<1>3. \A b \in Board : next[b] # None \/ Ready(b) => timer # 0
  BY NotExpired
<1> QED
  BY <1>1, <1>2, <1>3, LongestWait DEF InSeries, ToAnswer, Answered

(* A label lasts while the responder's series does not change.             *)
LEMMA LabelKept ==
    ASSUME NEW c, Label(c), c = cycle \/ Rests => c = cycle' \/ Rests',
           state'[R] = state[R], next'[R] = next[R], count'[R] = count[R],
           UNCHANGED <<slots, cir, RxSfdDetected>>
    PROVE  Label(c)'
<1>1. CirOf(c) => CirOf(c)'
  BY DEF CirOf
<1> QED
  BY <1>1 DEF Label

LEMMA SeriesCirKept ==
    ASSUME SeriesCir, \A c \in 0..1 : c = cycle \/ Rests => c = cycle' \/ Rests',
           state'[R] = state[R], next'[R] = next[R], count'[R] = count[R],
           UNCHANGED <<slots, cir, RxSfdDetected>>
    PROVE  SeriesCir'
<1>1. SUFFICES ASSUME InSeries' PROVE \E c \in 0..1 : Label(c)'
  BY DEF SeriesCir
<1>2. PICK c \in 0..1 : Label(c)
  BY <1>1 DEF SeriesCir, InSeries
<1>3. Label(c)'
  BY <1>2, LabelKept
<1> QED
  BY <1>3

(* The end of a frame does not touch a rest.                               *)
LEMMA SentKeepsRest ==
    ASSUME Types, NEW b \in Board, NEW u \in BOOLEAN, Sent(b, u),
           FrameSent(b) \/ FrameDamaged(b)
    PROVE  cycle' = cycle /\ (Rests => Rests')
<1>1. UNCHANGED <<state, next, since, cycle, timer>> /\ tx[b] = "data"
  BY SentEffect DEF loop
<1>2. ahead' = ahead
  BY <1>1, LoseEffect DEF FrameSent, FrameDamaged, env, OnAir
<1> QED
  BY <1>1, <1>2 DEF Rests

(* The initiator's rest lasts as long as the timer may run.                *)
LEMMA RestKept ==
    ASSUME Types, Rules, OverallTimeout + 1 < CycleTime[I], MaxLate = 0, InSeries, Rests,
           \/ IdleOver(I) \/ EndCase(I)
           \/ \E b \in Board : Tick(b)
    PROVE  Rests'
<1> USE TwoBoards DEF Rests
<1>1. CASE IdleOver(I)
  <2>1. state[I] = "IDLE" /\ Ready(I) /\ since[I] >= CycleTime[I]
    BY <1>1, IdleOverEffect DEF Goes
  <2>2. CycleTime[I] \in Nat
    BY PdoaAssumption, LongestWait
  <2> QED
    BY <2>1, <2>2, InTheSeries
<1>2. CASE EndCase(I)
  <2>1. /\ next[I] # None /\ state'[I] = next[I].to /\ next'[I] = None
        /\ since'[I] = 0 /\ timer' = timer /\ ahead' = ahead
    BY <1>2, EndCaseEffect DEF env
  <2>2. state'[I] = "IDLE"
    BY ONLY <2>1, Rules, Rests DEF Rules, MovesI, Move
  <2> QED
    BY <2>1, <2>2, InTheSeries
<1>3. CASE Tick(I)
  BY <1>3, TickEffect, InTheSeries, AtRest
<1>4. CASE Tick(R)
  BY <1>4, TickEffect, InTheSeries, AtRest
<1> QED
  BY <1>1, <1>2, <1>3, <1>4

LEMMA NextSeriesCir ==
    ASSUME Types, Rules, Counted, PortRule, AnswerCir, SeriesCir, MaxLate = 0, Next, reboots' = 0,
           OverallTimeout + 1 < CycleTime[I]
    PROVE  SeriesCir'
<1> USE TwoBoards DEF loop, flags, air, env
<1>1. CASE IdleOver(I)
  <2>1. SUFFICES ASSUME InSeries PROVE SeriesCir'
    BY <1>1, IdleOverEffect DEF SeriesCir, InSeries
  <2>2. cycle' = cycle /\ (Rests => Rests')
    BY <1>1, <2>1, IdleOverEffect, RestKept
  <2> QED
    BY <1>1, <2>2, IdleOverEffect, SeriesCirKept DEF Goes
<1>2. CASE IdleOver(R)
  BY <1>2, IdleOverEffect DEF Goes, SeriesCir, InSeries
<1>3. CASE SyncTransmit(I)
  <2>1. cycle' = cycle /\ (Rests => Rests')
    BY <1>3, SyncTransmitEffect DEF Goes, Rests, env
  <2> QED
    BY <1>3, <2>1, SyncTransmitEffect, SeriesCirKept DEF Goes
<1>4. CASE SyncTransmit(R)
  BY <1>4, SyncTransmitEffect DEF Goes, SeriesCir, InSeries
<1>5. CASE SyncTransmitted(I)
  <2>1. cycle' = cycle /\ (Rests => Rests')
    BY <1>5, SyncTransmittedEffect DEF Goes, Rests, env
  <2> QED
    BY <1>5, <2>1, SyncTransmittedEffect, SeriesCirKept DEF Goes
<1>6. CASE SyncTransmitted(R)
  BY <1>6, SyncTransmittedEffect DEF Goes, SeriesCir, InSeries
<1>7. CASE SyncReceive(I)
  <2>1. cycle' = cycle /\ (Rests => Rests')
    BY <1>7, SyncReceiveEffect DEF Goes, Rests, env
  <2> QED
    BY <1>7, <2>1, SyncReceiveEffect, SeriesCirKept DEF Goes
<1>8. CASE SyncReceive(R)
  BY <1>8, SyncReceiveEffect DEF Goes, SeriesCir, InSeries
<1>9. CASE SyncTimedOut(I)
  <2>1. cycle' = cycle /\ (Rests => Rests')
    BY <1>9, SyncTimedOutEffect DEF Goes, Rests, env
  <2> QED
    BY <1>9, <2>1, SyncTimedOutEffect, SeriesCirKept DEF Goes
<1>10. CASE SyncTimedOut(R)
  BY <1>10, SyncTimedOutEffect DEF Goes, SeriesCir, InSeries
<1>11. CASE SyncReceived(I)
  <2>1. cycle' = cycle /\ (Rests => Rests')
    BY <1>11, SyncReceivedEffect DEF Goes, Rests, env
  <2> QED
    BY <1>11, <2>1, SyncReceivedEffect, SeriesCirKept DEF Goes
<1>12. CASE SyncReceived(R)
  BY <1>12, SyncReceivedEffect DEF Goes, SeriesCir, InSeries
<1>13. CASE EndCase(I)
  <2>1. SUFFICES ASSUME InSeries PROVE SeriesCir'
    BY <1>13, EndCaseEffect DEF SeriesCir, InSeries
  <2>2. cycle' = cycle /\ (Rests => Rests')
    BY <1>13, <2>1, EndCaseEffect, RestKept
  <2> QED
    BY <1>13, <2>2, EndCaseEffect, SeriesCirKept DEF Goes
<1>14. CASE EndCase(R)
  <2> DEFINE Old == /\ state[R] = "PDOA_WAIT_RX_DONE" /\ next[R] # None
                   /\ state'[R] = "PDOA_POSTINGPROCESSING"
             New == state[R] = "PDOA_RECEIVE" /\ state'[R] = "PDOA_WAIT_RX_DONE"
  <2>1. /\ next[R] # None /\ state'[R] = next[R].to /\ next'[R] = None
        /\ state'[I] = state[I] /\ next'[I] = next[I] /\ since'[I] = since[I]
        /\ UNCHANGED <<count, cycle, slots, cir, RxSfdDetected, timer, ahead>>
    BY <1>14, EndCaseEffect
  <2>2. InSeries' => Old \/ New
    BY ONLY <2>1, Rules, MoveOfR DEF Rules, InSeries
  <2>3. CASE Old
    <3>1. PICK c \in 0..1 : Label(c)
      BY <2>3 DEF SeriesCir, InSeries
    <3>2. c = cycle' \/ Rests'
      BY <2>1, <3>1 DEF Label, Rests
    <3>3. Label(c)'
      BY <2>1, <2>3, <3>1, <3>2 DEF Label
    <3> QED
      BY <3>3 DEF SeriesCir
  <2>4. CASE New
    <3>1. cycle \in 0..1 /\ count[R] = 0
      BY <2>4 DEF Counted, Types, LoopTypes
    <3>2. RxSfdDetected = Port => CirOf(cycle)
      BY <2>4 DEF AnswerCir, Answered
    <3>3. CirOf(cycle) => CirOf(cycle)'
      BY <2>1 DEF CirOf
    <3>4. \A j \in Index : ~(j < 0)
      BY DEF Index
    <3>5. Label(cycle)'
      BY <2>1, <2>4, <3>1, <3>2, <3>3, <3>4 DEF Label
    <3> QED
      BY <2>1, <3>1, <3>5 DEF SeriesCir
  <2> QED
    BY <2>2, <2>3, <2>4 DEF SeriesCir
<1>15. CASE ResponderAwaited
  <2>1. cycle' = cycle /\ (Rests => Rests')
    BY <1>15, ResponderAwaitedEffect DEF Goes, Rests, env
  <2> QED
    BY <1>15, <2>1, ResponderAwaitedEffect, SeriesCirKept DEF Goes
<1>16. CASE PdoaTransmit
  <2>1. cycle' = cycle /\ (Rests => Rests')
    BY <1>16, PdoaTransmitEffect DEF Goes, Rests, env
  <2> QED
    BY <1>16, <2>1, PdoaTransmitEffect, SeriesCirKept DEF Goes
<1>17. CASE PdoaTransmitted
  <2>1. cycle' = cycle /\ (Rests => Rests')
    BY <1>17, PdoaTransmittedEffect DEF Goes, Rests, env
  <2> QED
    BY <1>17, <2>1, PdoaTransmittedEffect, SeriesCirKept DEF Goes
<1>18. CASE InitiatorTerminate
  <2>1. Rests'
    BY <1>18, InitiatorTerminateEffect DEF Goes, Rests
  <2> QED
    BY <1>18, <2>1, InitiatorTerminateEffect, SeriesCirKept DEF Goes
<1>19. CASE PdoaPrepare
  BY <1>19, PdoaPrepareEffect DEF Goes, SeriesCir, InSeries
<1>20. CASE PdoaReceive
  BY <1>20, PdoaReceiveEffect DEF Goes, SeriesCir, InSeries
<1>21. CASE PdoaReceived
  <2>1. PICK c \in 0..1 : Label(c)
    BY <1>21, PdoaReceivedEffect DEF SeriesCir, InSeries
  <2>2. CirOf(c)
    BY <1>21, <2>1, PdoaReceivedEffect DEF Label
  <2>3. /\ \A j \in Index : j < count[R] => slots[j] \in FrameOf(Kind, {c})
        /\ count[R] \in Index
    BY <1>21, <2>1, PdoaReceivedEffect DEF Label, Types, LoopTypes, R
  <2>4. slots' = [slots EXCEPT ![count[R]] = cir[Rx0]] /\ slots \in [Index -> Frame \cup {None, Mixed}]
    BY <1>21, <2>2, PdoaReceivedEffect DEF CirOf, StoreCir, Types, LoopTypes
  <2>5. cir[Rx0] \in FrameOf(Kind, {c})
    BY <2>2, PortSets DEF CirOf
  <2>6. \A j \in Index : j <= count[R] => slots'[j] \in FrameOf(Kind, {c})
    <3>1. TAKE j \in Index
    <3>2. j < count[R] \/ j = count[R] \/ ~(j <= count[R])
      BY <2>3, PdoaAssumption DEF Index
    <3>3. j < count[R] => j # count[R]
      BY <2>3, PdoaAssumption DEF Index
    <3>4. slots'[j] = IF j = count[R] THEN cir[Rx0] ELSE slots[j]
      BY ONLY <2>4, j \in Index
    <3> QED
      BY ONLY <2>3, <2>5, <3>2, <3>3, <3>4, j \in Index
  <2>7. c = cycle' \/ Rests'
    BY <1>21, <2>1, PdoaReceivedEffect DEF Label, Rests, Goes
  <2>8. Label(c)'
    <3>1. state'[R] = "PDOA_WAIT_RX_DONE" /\ RxSfdDetected' # Port
      BY <1>21, PdoaReceivedEffect, PortSets
    <3>2. \A j \in Index : j \in Nat /\ j <= NumOfPackage - 1
      BY LongestWait, PdoaAssumption DEF Index
    <3>3. NumOfPackage \in Nat /\ count[R] \in Nat
      BY <2>3, <3>2, PdoaAssumption
    <3>4. CASE count[R] + 1 < NumOfPackage /\ count'[R] = count[R] + 1 /\ next' = next
      <4>1. next[R] = None
        BY <1>21, PdoaReceivedEffect
      <4>2. \A j \in Index : j < count'[R] => j <= count[R]
        BY ONLY <3>2, <3>3, <3>4
      <4> QED
        BY ONLY <2>6, <2>7, <3>1, <3>4, <4>1, <4>2 DEF Label
    <3>5. CASE count[R] + 1 >= NumOfPackage /\ next'[R] # None
      <4>1. \A j \in Index : j <= count[R]
        BY ONLY <3>2, <3>3, <3>5
      <4> QED
        BY ONLY <2>6, <2>7, <3>1, <3>5, <4>1 DEF Label
    <3> QED
      BY <1>21, <3>4, <3>5, PdoaReceivedEffect DEF Goes
  <2> QED
    BY <2>8 DEF SeriesCir
<1>22. CASE PdoaPostingProcessing
  <2>1. PICK c \in 0..1 : Label(c)
    BY <1>22, PdoaPostingProcessingEffect DEF SeriesCir, InSeries, Goes
  <2>2. c = cycle' \/ Rests'
    BY <1>22, <2>1, PdoaPostingProcessingEffect DEF Label, Rests, Goes
  <2>3. Label(c)'
    BY <1>22, <2>1, <2>2, PdoaPostingProcessingEffect DEF Label, Goes
  <2> QED
    BY <2>3 DEF SeriesCir
<1>23. CASE ResponderTerminate
  BY <1>23, ResponderTerminateEffect DEF Goes, SeriesCir, InSeries
<1>24. CASE TimerIrq
  BY <1>24, TimerIrqEffect DEF Goes, SeriesCir, InSeries
<1>25. CASE Scheduled(I)
  <2>1. cycle' = cycle /\ (Rests => Rests')
    BY <1>25, ScheduledEffect DEF Goes, Rests, env
  <2> QED
    BY <1>25, <2>1, ScheduledEffect, SeriesCirKept DEF Goes
<1>26. CASE Scheduled(R)
  <2>1. cycle' = cycle /\ (Rests => Rests')
    BY <1>26, ScheduledEffect DEF Goes, Rests, env
  <2> QED
    BY <1>26, <2>1, ScheduledEffect, SeriesCirKept DEF Goes
<1>27. CASE FrameBegins(I)
  <2>1. cycle' = cycle /\ (Rests => Rests')
    BY <1>27, FrameBeginsEffect DEF Goes, Rests, env
  <2> QED
    BY <1>27, <2>1, FrameBeginsEffect, SeriesCirKept DEF Goes
<1>28. CASE FrameBegins(R)
  <2>1. cycle' = cycle /\ (Rests => Rests')
    BY <1>28, FrameBeginsEffect DEF Goes, Rests, env
  <2> QED
    BY <1>28, <2>1, FrameBeginsEffect, SeriesCirKept DEF Goes
<1>29. CASE SfdDetected(I)
  <2>1. CASE state[R] = "PDOA_WAIT_RX_DONE"
    <3>1. PICK c \in 0..1 : Label(c)
      BY <2>1 DEF SeriesCir, InSeries
    <3>2. tx[I] = "sfd" /\ next[R] = None /\ RxSfdDetected # Port
      BY <1>29, <2>1, SfdDetectedEffect DEF PortRule
    <3>3. ~Rests /\ c = cycle
      BY <3>1, <3>2 DEF Rules, TxRule, Rests, Label
    <3>4. txFrame[I] \in FrameOf(Kind, {c})
      <4>1. txFrame[I] \in Frame /\ txFrame[I][2] = cycle
        BY <3>2, Boards DEF Rules, KindRule, On, Types, HasFrame, I
      <4> QED
        BY <3>3, <4>1 DEF Frame, FrameOf
    <3>5. RxSfdDetected' = Port => taking[R] = Port
      <4>1. CASE taking[R] = {}
        BY <1>29, <3>2, <4>1, SfdDetectedEffect
      <4>2. CASE taking[R] # {}
        BY <2>1, <4>2 DEF PortRule
      <4> QED
        BY <4>1, <4>2
    <3>6. RxSfdDetected' = Port => CirOf(c)'
      BY <1>29, <3>4, <3>5, SfdDetectedEffect, PortSets DEF CirOf
    <3>7. c = cycle'
      BY <1>29, <3>3, SfdDetectedEffect
    <3>8. Label(c)'
      BY <1>29, <2>1, <3>1, <3>2, <3>6, <3>7, SfdDetectedEffect DEF Label
    <3> QED
      BY <3>8 DEF SeriesCir
  <2>2. CASE state[R] # "PDOA_WAIT_RX_DONE"
    <3>1. SUFFICES ASSUME InSeries' PROVE SeriesCir'
      BY DEF SeriesCir
    <3>2. PICK c \in 0..1 : Label(c)
      BY <1>29, <3>1, SfdDetectedEffect DEF SeriesCir, InSeries
    <3>3. c = cycle' \/ Rests'
      BY <1>29, <3>2, SfdDetectedEffect DEF Label, Rests
    <3>4. Label(c)'
      BY <1>29, <2>2, <3>2, <3>3, SfdDetectedEffect DEF Label
    <3> QED
      BY <3>4 DEF SeriesCir
  <2> QED
    BY <2>1, <2>2
<1>30. CASE SfdDetected(R)
  <2>1. cycle' = cycle /\ (Rests => Rests')
    BY <1>30, SfdDetectedEffect DEF Goes, Rests, env
  <2> QED
    BY <1>30, <2>1, SfdDetectedEffect, SeriesCirKept DEF Goes
<1>31. ASSUME NEW u \in BOOLEAN, Sent(I, u), FrameSent(I) \/ FrameDamaged(I)
       PROVE  SeriesCir'
  BY <1>31, SentEffect, SentKeepsRest, SeriesCirKept
<1>32. ASSUME NEW u \in BOOLEAN, Sent(R, u), FrameSent(R) \/ FrameDamaged(R)
       PROVE  SeriesCir'
  BY <1>32, SentEffect, SentKeepsRest, SeriesCirKept
<1>33. CASE FrameMissed(I)
  <2>1. Rests <=> Rests'
    BY <1>33, FrameMissedEffect, LoseEffect DEF Rests, OnAir
  <2> QED
    BY <1>33, <2>1, FrameMissedEffect, SeriesCirKept
<1>34. CASE FrameMissed(R)
  <2>1. Rests <=> Rests'
    BY <1>34, FrameMissedEffect, LoseEffect DEF Rests, OnAir
  <2> QED
    BY <1>34, <2>1, FrameMissedEffect, SeriesCirKept
<1>35. CASE Tick(I)
  <2>1. SUFFICES ASSUME InSeries PROVE SeriesCir'
    BY <1>35, TickEffect DEF SeriesCir, InSeries
  <2>2. cycle' = cycle /\ (Rests => Rests')
    BY <1>35, <2>1, TickEffect, RestKept
  <2> QED
    BY <1>35, <2>2, TickEffect, SeriesCirKept DEF Goes
<1>36. CASE Tick(R)
  <2>1. SUFFICES ASSUME InSeries PROVE SeriesCir'
    BY <1>36, TickEffect DEF SeriesCir, InSeries
  <2>2. cycle' = cycle /\ (Rests => Rests')
    BY <1>36, <2>1, TickEffect, RestKept
  <2> QED
    BY <1>36, <2>2, TickEffect, SeriesCirKept DEF Goes
<1>37. reboots \in Nat
  BY LongestWait DEF Types, FlagTypes
<1>38. ASSUME NEW b \in Board, Shared(b) PROVE SeriesCir'
  BY <1>38, <1>1, <1>2, <1>3, <1>4, <1>5, <1>6, <1>7, <1>8, <1>9, <1>10, <1>11,
     <1>12, <1>13, <1>14 DEF Shared
<1>39. ASSUME NEW b \in Board, Air(b) \/ FrameDamaged(b) \/ FrameMissed(b) \/ Tick(b)
       PROVE  SeriesCir'
  BY <1>39, <1>25, <1>26, <1>27, <1>28, <1>29, <1>30, <1>31, <1>32, <1>33,
     <1>34,
     <1>35, <1>36 DEF Air, FrameSent, FrameDamaged
<1>40. ASSUME NEW b \in Board, Reboot(b) PROVE SeriesCir'
  BY <1>37, <1>40 DEF Reboot
<1> QED
  BY <1>15, <1>16, <1>17, <1>18, <1>19, <1>20, <1>21, <1>22, <1>23, <1>24,
     <1>38,
     <1>39, <1>40, Boards DEF Next, Initiator, Responder, I, R

(* Resets are counted.                                                     *)
LEMMA RebootsGrow ==
    ASSUME Types, Next, reboots' = 0
    PROVE  reboots = 0
<1>1. ASSUME reboots' = reboots PROVE reboots = 0
  BY <1>1
<1>2. ASSUME NEW b \in Board, Shared(b) PROVE reboots' = reboots
  BY <1>2 DEF Shared, IdleOver, SyncTransmit, SyncTransmitted, SyncReceive,
     SyncTimedOut, SyncReceived, EndCase, env
<1>3. ASSUME Initiator \/ Responder \/ TimerIrq PROVE reboots' = reboots
  BY <1>2, <1>3, Boards DEF Initiator, Responder, ResponderAwaited,
     PdoaTransmit,
     PdoaTransmitted, InitiatorTerminate, PdoaPrepare, PdoaReceive, PdoaReceived,
     PdoaPostingProcessing, ResponderTerminate, TimerIrq, env
<1>4. ASSUME NEW b \in Board, Air(b) \/ FrameDamaged(b) \/ FrameMissed(b) \/ Tick(b)
      PROVE  reboots' = reboots
  BY <1>4 DEF Air, Scheduled, FrameBegins, SfdDetected, FrameSent, FrameDamaged,
     FrameMissed, Lose, Tick, env
<1>5. ASSUME NEW b \in Board, Reboot(b) PROVE FALSE
  <2>1. reboots \in Nat /\ reboots' = reboots + 1
    BY <1>5, LongestWait DEF Reboot, Types, FlagTypes
  <2> QED
    BY <2>1
<1> QED
  BY <1>1, <1>3, <1>4, <1>5 DEF Next

LEMMA InitOneCycle == Init => OneCycle
BY TwoBoards, LongestWait
   DEF Init, OneCycle, Counted, PortRule, Heard, AnswerCir, SeriesCir, ToAnswer,
       Answered, InSeries, Port, Rx0, I, R, Board, FirstState

(* A step that changes nothing keeps all of it.                            *)
LEMMA StutterRules ==
    ASSUME Rules, UNCHANGED vars
    PROVE  Rules'
<1> USE DEF vars, loop, flags, air, env
<1>1. MovesI' /\ MovesR'
  BY DEF Rules, MovesI, MovesR, Move
<1>2. TxRule(I)' /\ TxRule(R)' /\ KindRule'
  BY DEF Rules, TxRule, KindRule
<1>3. RxRule'
  BY DEF Rules, RxRule, Listens
<1>4. AckRule'
  BY DEF Rules, AckRule, ToAnswer, Answered
<1>5. TimerRule'
  BY DEF Rules, TimerRule, Ready, Elapsed, Waits
<1> QED
  BY ONLY <1>1, <1>2, <1>3, <1>4, <1>5 DEF Rules

LEMMA StutterOneCycle ==
    ASSUME OneCycle, UNCHANGED vars
    PROVE  OneCycle'
<1> USE DEF vars, loop, flags, air, env
<1>1. Counted' /\ PortRule' /\ Heard'
  BY DEF OneCycle, Counted, PortRule, Heard
<1>2. AnswerCir'
  BY DEF OneCycle, AnswerCir, ToAnswer, Answered, CirOf
<1>3. SeriesCir'
  BY DEF OneCycle, SeriesCir, InSeries, Label, Rests, CirOf
<1> QED
  BY ONLY <1>1, <1>2, <1>3 DEF OneCycle

(* The angles are computed from frames of one cycle of the initiator, as   *)
(* long as no board is reset: whichever frames are lost, and whichever     *)
(* other frames are taken for those of the series                          *)
(* (EN_APP_STATE_PDOA_POSTINGPROCESSING).  The initiator has to idle for   *)
(* longer than the responder's timer runs.                                 *)
THEOREM AnglesFromOneCycle ==
    ASSUME MaxLate = 0, OverallTimeout + 1 < CycleTime["initiator"]
    PROVE  Spec => []FromOneCycle
<1> DEFINE Inv == PdoaInv /\ (reboots = 0 => Rules /\ OneCycle)
<1>1. Init => Inv
  BY InitPdoaInv, InitRules, InitOneCycle
<1>2. Inv /\ PdoaInv' /\ [Next]_vars => Inv'
  <2>1. SUFFICES ASSUME Inv, PdoaInv', [Next]_vars, reboots' = 0
                 PROVE  (Rules /\ OneCycle)'
    OBVIOUS
  <2>2. CASE UNCHANGED vars
    <3>1. reboots = 0
      BY <2>1, <2>2 DEF vars, env
    <3> QED
      BY <2>1, <2>2, <3>1, StutterRules, StutterOneCycle
  <2>3. CASE Next
    <3>1. Types
      BY <2>1, Parts DEF PdoaInv, Types
    <3>2. reboots = 0
      BY <2>1, <2>3, <3>1, RebootsGrow
    <3>3. Rules /\ OneCycle
      BY <2>1, <3>2
    <3>4. OverallTimeout + 1 < CycleTime[I]
      BY DEF I
    <3>5. Counted' /\ PortRule' /\ Heard' /\ AnswerCir'
      BY <2>1, <2>3, <3>1, <3>3, NextCounted, NextPortRule, NextHeard,
         NextAnswerCir
         DEF OneCycle
    <3>6. SeriesCir'
      BY <2>1, <2>3, <3>1, <3>3, <3>4, NextSeriesCir DEF OneCycle
    <3>7. Rules'
      BY <2>1, <2>3, <3>1, <3>3, NextRules
    <3> QED
      BY ONLY <3>5, <3>6, <3>7 DEF OneCycle
  <2> QED
    BY <2>1, <2>2, <2>3
<1>3. Inv => FromOneCycle
  BY DEF OneCycle, SeriesCir, InSeries, Label, FromOneCycle, Computing, R
<1> QED
  BY <1>1, <1>2, <1>3, Inductive, PTL DEF Spec
-----------------------------------------------------------------------------
LEMMA NextCountI ==
    ASSUME Types, Rules, CountI, MaxLate = 0, Next, Undisturbed'
    PROVE  CountI'
<1> USE TwoBoards DEF Goes, CountI, loop, flags, air, env
<1>1. CASE IdleOver(I)
  BY <1>1, IdleOverEffect
<1>2. CASE IdleOver(R)
  BY <1>2, IdleOverEffect
<1>3. CASE SyncTransmit(I)
  BY <1>3, SyncTransmitEffect
<1>4. CASE SyncTransmit(R)
  BY <1>4, SyncTransmitEffect
<1>5. CASE SyncTransmitted(I)
  BY <1>5, SyncTransmittedEffect
<1>6. CASE SyncTransmitted(R)
  BY <1>6, SyncTransmittedEffect
<1>7. CASE SyncReceive(I)
  BY <1>7, SyncReceiveEffect
<1>8. CASE SyncReceive(R)
  BY <1>8, SyncReceiveEffect
<1>9. CASE SyncTimedOut(I)
  BY <1>9, SyncTimedOutEffect
<1>10. CASE SyncTimedOut(R)
  BY <1>10, SyncTimedOutEffect
<1>11. CASE SyncReceived(I)
  BY <1>11, SyncReceivedEffect
<1>12. CASE SyncReceived(R)
  BY <1>12, SyncReceivedEffect
<1>13. CASE EndCase(I)
  BY <1>13, EndCaseEffect
<1>14. CASE EndCase(R)
  BY <1>14, EndCaseEffect
<1>15. CASE ResponderAwaited
  BY <1>15, ResponderAwaitedEffect
<1>16. CASE PdoaTransmit
  BY <1>16, PdoaTransmitEffect
<1>17. CASE PdoaTransmitted
  BY <1>17, PdoaTransmittedEffect
<1>18. CASE InitiatorTerminate
  BY <1>18, InitiatorTerminateEffect
<1>19. CASE PdoaPrepare
  BY <1>19, PdoaPrepareEffect
<1>20. CASE PdoaReceive
  BY <1>20, PdoaReceiveEffect DEF Armed0
<1>21. CASE PdoaReceived
  BY <1>21, PdoaReceivedEffect DEF Armed0
<1>22. CASE PdoaPostingProcessing
  BY <1>22, PdoaPostingProcessingEffect
<1>23. CASE ResponderTerminate
  BY <1>23, ResponderTerminateEffect
<1>24. CASE TimerIrq
  BY <1>24, TimerIrqEffect
<1>25. CASE Scheduled(I)
  BY <1>25, ScheduledEffect
<1>26. CASE Scheduled(R)
  BY <1>26, ScheduledEffect
<1>27. CASE FrameBegins(I)
  BY <1>27, FrameBeginsEffect
<1>28. CASE FrameBegins(R)
  BY <1>28, FrameBeginsEffect
<1>29. CASE SfdDetected(I)
  BY <1>29, SfdDetectedEffect
<1>30. CASE SfdDetected(R)
  BY <1>30, SfdDetectedEffect
<1>31. ASSUME NEW u \in BOOLEAN, Sent(I, u), (u /\ UNCHANGED env) \/ Lose(I)
       PROVE  CountI'
  BY <1>31, SentEffect
<1>32. ASSUME NEW u \in BOOLEAN, Sent(R, u), (u /\ UNCHANGED env) \/ Lose(R)
       PROVE  CountI'
  BY <1>32, SentEffect
<1>33. CASE FrameMissed(I)
  BY <1>33, FrameMissedEffect
<1>34. CASE FrameMissed(R)
  BY <1>34, FrameMissedEffect
<1>35. CASE Tick(I)
  BY <1>35, TickEffect
<1>36. CASE Tick(R)
  BY <1>36, TickEffect
<1>37. reboots \in Nat
  BY LongestWait DEF Types, FlagTypes
<1>38. ASSUME NEW b \in Board, Shared(b) PROVE CountI'
  BY <1>38, <1>1, <1>2, <1>3, <1>4, <1>5, <1>6, <1>7, <1>8, <1>9, <1>10, <1>11,
     <1>12, <1>13, <1>14 DEF Shared
<1>39. ASSUME NEW b \in Board, Air(b) \/ FrameDamaged(b) \/ FrameMissed(b) \/ Tick(b)
       PROVE  CountI'
  BY <1>39, <1>25, <1>26, <1>27, <1>28, <1>29, <1>30, <1>31, <1>32, <1>33,
     <1>34,
     <1>35, <1>36 DEF Air, FrameSent, FrameDamaged
<1>40. ASSUME NEW b \in Board, Reboot(b) PROVE CountI'
  BY <1>37, <1>40 DEF Reboot, Undisturbed
<1> QED
  BY <1>15, <1>16, <1>17, <1>18, <1>19, <1>20, <1>21, <1>22, <1>23, <1>24,
     <1>38,
     <1>39, <1>40, Boards DEF Next, Initiator, Responder, I, R

(* What a case of the responder's is that may be going to do the rest.     *)
LEMMA CleanMoves ==
    ASSUME MovesR, next[R] # None,
           next[R].to \notin {"PDOA_WAIT_RX_DONE", "PDOA_POSTINGPROCESSING"}
    PROVE  state[R] \notin {"PDOA_RECEIVE", "PDOA_WAIT_RX_DONE"}
<1>1. \A s, e, t : Move(R, s, t, e) => state[R] = s /\ next[R].to = t
  BY DEF Move
<1> QED
  BY <1>1 DEF MovesR

LEMMA NextPortsInStep ==
    ASSUME Types, Rules, InStep, PortsInStep, MaxLate = 0, Next, Undisturbed'
    PROVE  PortsInStep'
<1> USE TwoBoards DEF Goes, PortsInStep, loop, flags, air, env
<1>1. CASE IdleOver(I)
  BY <1>1, IdleOverEffect DEF Armed, Clean
<1>2. CASE IdleOver(R)
  BY <1>2, IdleOverEffect DEF Armed, Clean
<1>3. CASE SyncTransmit(I)
  BY <1>3, SyncTransmitEffect DEF Armed, Clean
<1>4. CASE SyncTransmit(R)
  BY <1>4, SyncTransmitEffect DEF Armed, Clean
<1>5. CASE SyncTransmitted(I)
  BY <1>5, SyncTransmittedEffect DEF Armed, Clean
<1>6. CASE SyncTransmitted(R)
  BY <1>6, SyncTransmittedEffect DEF Armed, Clean
<1>7. CASE SyncReceive(I)
  BY <1>7, SyncReceiveEffect DEF Armed, Clean
<1>8. CASE SyncReceive(R)
  BY <1>8, PortSets, SyncReceiveEffect DEF Clean, InStep, Armed
<1>9. CASE SyncTimedOut(I)
  BY <1>9, SyncTimedOutEffect DEF Armed, Clean
<1>10. CASE SyncTimedOut(R)
  BY <1>10, SyncTimedOutEffect DEF Armed, Clean
<1>11. CASE SyncReceived(I)
  BY <1>11, SyncReceivedEffect DEF Armed, Clean
<1>12. CASE SyncReceived(R)
  BY <1>12, SyncReceivedEffect DEF Armed, Clean
<1>13. CASE EndCase(I)
  BY <1>13, EndCaseEffect DEF Armed, Clean
<1>14. CASE EndCase(R)
  <2>1. /\ next[R] # None /\ next'[R] = None /\ state'[R] = next[R].to
        /\ ports'[R] = ports[R] \ next[R].end
        /\ UNCHANGED <<sfdIrq, RxSfdDetected>>
    BY <1>14, EndCaseEffect
  <2>2. CASE next[R].to = "PDOA_WAIT_RX_DONE"
    <3>1. ports[R] \ {} = ports[R]
      OBVIOUS
    <3> QED
      BY <2>1, <2>2, <3>1, MoveOfR DEF Rules, Armed
  <2>3. CASE next[R].to = "PDOA_POSTINGPROCESSING"
    <3>1. ports[R] \ Port = {} /\ {} \subseteq {Rx0}
      BY DEF Types, AirTypes, Board, R
    <3> QED
      BY <2>1, <2>3, <3>1, MoveOfR DEF Rules, Clean
  <2>4. CASE next[R].to \notin {"PDOA_WAIT_RX_DONE", "PDOA_POSTINGPROCESSING"}
    <3>1. state[R] \notin {"PDOA_RECEIVE", "PDOA_WAIT_RX_DONE"}
      BY <2>1, <2>4, CleanMoves DEF Rules
    <3> QED
      BY <2>1, <2>4, <3>1 DEF Clean
  <2> QED
    BY <2>2, <2>3, <2>4
<1>15. CASE ResponderAwaited
  BY <1>15, ResponderAwaitedEffect DEF Armed, Clean
<1>16. CASE PdoaTransmit
  BY <1>16, PdoaTransmitEffect DEF Armed, Clean
<1>17. CASE PdoaTransmitted
  BY <1>17, PdoaTransmittedEffect DEF Armed, Clean
<1>18. CASE InitiatorTerminate
  BY <1>18, InitiatorTerminateEffect DEF Armed, Clean
<1>19. CASE PdoaPrepare
  BY <1>19, PdoaPrepareEffect DEF Armed, Clean
<1>20. CASE PdoaReceive
  BY <1>20, PdoaReceiveEffect DEF Clean, InStep, Armed, Armed0
<1>21. CASE PdoaReceived
  BY <1>21, PortSets, PdoaReceivedEffect DEF Armed, InStep, Clean, Armed0
<1>22. CASE PdoaPostingProcessing
  BY <1>22, PdoaPostingProcessingEffect DEF Armed, Clean
<1>23. CASE ResponderTerminate
  BY <1>23, ResponderTerminateEffect DEF Armed, Clean
<1>24. CASE TimerIrq
  BY <1>24, TimerIrqEffect DEF InStep, Clean, Armed
<1>25. CASE Scheduled(I)
  BY <1>25, ScheduledEffect DEF Armed, Clean
<1>26. CASE Scheduled(R)
  BY <1>26, ScheduledEffect DEF Armed, Clean
<1>27. CASE FrameBegins(I)
  BY <1>27, FrameBeginsEffect DEF Armed, Clean
<1>28. CASE FrameBegins(R)
  BY <1>28, FrameBeginsEffect DEF Armed, Clean
<1>29. CASE SfdDetected(I)
  <2>1. /\ UNCHANGED <<state, next, ports>> /\ tx[I] = "sfd"
        /\ RxSfdDetected' = RxSfdDetected \cup (taking[R] \cap sfdIrq)
        /\ sfdIrq' = sfdIrq \ taking[R]
    BY <1>29, SfdDetectedEffect
  <2>2. state[R] = "PDOA_WAIT_RX_DONE" =>
           next[R] = None /\ (taking[R] = {} \/ taking[R] = Port)
    BY <2>1 DEF InStep, PortRule
  <2>3. state[R] = "PDOA_RECEIVE" => taking[R] = {}
    BY DEF Rules, RxRule, Listens
  <2>4. \A s : s \ {} = s /\ s \cup {} = s /\ {} \ s = {} /\ s \cap {} = {} /\ s \cap s = s
               /\ {} \cup s = s /\ s \ s = {} /\ {} \cap s = {}
    OBVIOUS
  <2>5. Armed => Armed' \/ state[R] # "PDOA_WAIT_RX_DONE"
    BY <2>1, <2>2, <2>4 DEF Armed
  <2>6. Clean => Clean'
    BY <2>1, <2>4 DEF Clean
  <2> QED
    BY <2>1, <2>2, <2>3, <2>4, <2>5, <2>6
<1>30. CASE SfdDetected(R)
  BY <1>30, SfdDetectedEffect DEF Armed, Clean
<1>31. ASSUME NEW u \in BOOLEAN, Sent(I, u), (u /\ UNCHANGED env) \/ Lose(I)
       PROVE  PortsInStep'
  BY <1>31, SentEffect DEF Armed, Clean
<1>32. ASSUME NEW u \in BOOLEAN, Sent(R, u), (u /\ UNCHANGED env) \/ Lose(R)
       PROVE  PortsInStep'
  BY <1>32, SentEffect DEF Armed, Clean
<1>33. CASE FrameMissed(I)
  BY <1>33, FrameMissedEffect DEF Armed, Clean
<1>34. CASE FrameMissed(R)
  BY <1>34, FrameMissedEffect DEF Armed, Clean
<1>35. CASE Tick(I)
  BY <1>35, TickEffect DEF Armed, Clean
<1>36. CASE Tick(R)
  BY <1>36, TickEffect DEF Armed, Clean
<1>37. reboots \in Nat
  BY LongestWait DEF Types, FlagTypes
<1>38. ASSUME NEW b \in Board, Shared(b) PROVE PortsInStep'
  BY <1>38, <1>1, <1>2, <1>3, <1>4, <1>5, <1>6, <1>7, <1>8, <1>9, <1>10, <1>11,
     <1>12, <1>13, <1>14 DEF Shared
<1>39. ASSUME NEW b \in Board, Air(b) \/ FrameDamaged(b) \/ FrameMissed(b) \/ Tick(b)
       PROVE  PortsInStep'
  BY <1>39, <1>25, <1>26, <1>27, <1>28, <1>29, <1>30, <1>31, <1>32, <1>33,
     <1>34,
     <1>35, <1>36 DEF Air, FrameSent, FrameDamaged
<1>40. ASSUME NEW b \in Board, Reboot(b) PROVE PortsInStep'
  BY <1>37, <1>40 DEF Reboot, Undisturbed
<1> QED
  BY <1>15, <1>16, <1>17, <1>18, <1>19, <1>20, <1>21, <1>22, <1>23, <1>24,
     <1>38,
     <1>39, <1>40, Boards DEF Next, Initiator, Responder, I, R

-----------------------------------------------------------------------------
LEMMA Numbers ==
    ASSUME Types
    PROVE  /\ count[I] \in 0..RepeatedTx /\ count[R] \in 0..(NumOfPackage - 1)
           /\ lost["PDOA"] \in Nat /\ lost["ACK"] \in Nat /\ RepeatedTx \in Nat
           /\ ahead \in -1..1 /\ since[I] \in Nat /\ OverallTimeout \in Nat
           /\ timer # None => timer \in 0..OverallTimeout
           /\ TxStartWait \in Nat /\ NumOfPackage \in Nat \ {0}
           /\ CycleTime[I] \in Nat \ {0}
BY LongestWait, PdoaAssumption, Boards
   DEF Types, LoopTypes, FlagTypes, Index, Kind, I, R

(* Which losses are possible while the boards are in step.                 *)
LEMMA OnlyPdoaIsLost ==
    ASSUME Types, Rules, Undisturbed', NEW b \in Board, Lose(b), tx[b] \in OnAir
    PROVE  /\ b = I
           /\ lost'["PDOA"] = IF txFrame[I][1] = "PDOA" THEN lost["PDOA"] + 1
                                                       ELSE lost["PDOA"]
           /\ UNCHANGED <<ahead, late, reboots>>
<1>1. "ACK" \in Kind /\ "PDOA" \in Kind /\ "SYNC" # "PDOA" /\ tx[b] \in On
  BY DEF Kind, On, OnAir
<1>2. b = R => txFrame[b][1] = "ACK"
  BY <1>1 DEF Rules, KindRule
<1>3. b # R
  BY <1>2, LoseEffect, Numbers DEF Undisturbed
<1>4. b = I
  BY <1>3, TwoBoards
<1>5. txFrame[I][1] # "PDOA" => lost'["PDOA"] = lost["PDOA"]
  BY <1>1, <1>4, LoseEffect
<1>6. txFrame[I][1] = "PDOA" => lost'["PDOA"] = lost["PDOA"] + 1
  BY <1>4, LoseEffect
<1> QED
  BY <1>4, <1>5, <1>6, LoseEffect

(* While the responder sends, or has sent, the ACK, the initiator listens. *)
LEMMA AckIsAwaited ==
    ASSUME Types, Rules, tx[R] \in OnAir
    PROVE  ToAnswer /\ ~Answered /\ state[R] = "SYNC_WAIT_TX_DONE"
BY DEF Rules, MovesR, TxRule, OnAir, ToAnswer, Answered

(* An ACK is either still to be looked at, or the case that has is ending. *)
LEMMA AckIsSeen ==
    ASSUME Acked(I), next[I] = None
    PROVE  /\ state[I] = "SYNC_WAIT_RX_DONE" /\ Rx0Done[I] /\ rxFrame[I] = "ACK"
           /\ since[I] = 0 /\ Ready(I)
<1>1. [to |-> "WAIT_RESPONDER_READY", end |-> {Rx0}] # None
  BY NoneAssumption DEF State, Port
<1> QED
  BY <1>1 DEF Acked, Move, Ready

LEMMA NextAckInStep ==
    ASSUME Types, Rules, InStep, AckInStep, MaxLate = 0, Next, Undisturbed'
    PROVE  AckInStep'
<1> USE TwoBoards DEF loop, flags, air, env
<1>1. CASE IdleOver(I)
  <2>1. (Rx0Done[I] => rxFrame[I] = "ACK" /\ since[I] = 0)'
    BY <1>1, IdleOverEffect DEF Goes, AckInStep
  <2>2. (tx[R] \in OnAir => taking[I] = {Rx0})'
    BY <1>1, IdleOverEffect DEF Goes, AckInStep, OnAir
  <2>3. (Answered => Acked(I) \/ state[I] = "WAIT_RESPONDER_READY")'
    BY <1>1, IdleOverEffect DEF Goes, AckInStep, Acked, Move, Answered
  <2> QED
    BY ONLY <2>1, <2>2, <2>3 DEF AckInStep
<1>2. CASE IdleOver(R)
  <2>1. (Rx0Done[I] => rxFrame[I] = "ACK" /\ since[I] = 0)'
    BY <1>2, IdleOverEffect DEF Goes, AckInStep
  <2>2. (tx[R] \in OnAir => taking[I] = {Rx0})'
    BY <1>2, IdleOverEffect DEF Goes, AckInStep, OnAir
  <2>3. (Answered => Acked(I) \/ state[I] = "WAIT_RESPONDER_READY")'
    BY <1>2, IdleOverEffect DEF Goes, AckInStep, Acked, Move, Answered
  <2> QED
    BY ONLY <2>1, <2>2, <2>3 DEF AckInStep
<1>3. CASE SyncTransmit(I)
  <2>1. (Rx0Done[I] => rxFrame[I] = "ACK" /\ since[I] = 0)'
    BY <1>3, SyncTransmitEffect DEF Goes, AckInStep
  <2>2. (tx[R] \in OnAir => taking[I] = {Rx0})'
    BY <1>3, SyncTransmitEffect DEF Goes, AckInStep, OnAir
  <2>3. (Answered => Acked(I) \/ state[I] = "WAIT_RESPONDER_READY")'
    BY <1>3, SyncTransmitEffect DEF Goes, AckInStep, Acked, Move, Answered
  <2> QED
    BY ONLY <2>1, <2>2, <2>3 DEF AckInStep
<1>4. CASE SyncTransmit(R)
  <2>1. (Rx0Done[I] => rxFrame[I] = "ACK" /\ since[I] = 0)'
    BY <1>4, SyncTransmitEffect DEF Goes, AckInStep
  <2>2. (tx[R] \in OnAir => taking[I] = {Rx0})'
    BY <1>4, SyncTransmitEffect DEF Goes, AckInStep, OnAir
  <2>3. (Answered => Acked(I) \/ state[I] = "WAIT_RESPONDER_READY")'
    BY <1>4, SyncTransmitEffect DEF Goes, AckInStep, Acked, Move, Answered
  <2> QED
    BY ONLY <2>1, <2>2, <2>3 DEF AckInStep
<1>5. CASE SyncTransmitted(I)
  <2>1. (Rx0Done[I] => rxFrame[I] = "ACK" /\ since[I] = 0)'
    BY <1>5, SyncTransmittedEffect DEF Goes, AckInStep
  <2>2. (tx[R] \in OnAir => taking[I] = {Rx0})'
    BY <1>5, SyncTransmittedEffect DEF Goes, AckInStep, OnAir
  <2>3. (Answered => Acked(I) \/ state[I] = "WAIT_RESPONDER_READY")'
    BY <1>5, SyncTransmittedEffect DEF Goes, AckInStep, Acked, Move, Answered
  <2> QED
    BY ONLY <2>1, <2>2, <2>3 DEF AckInStep
<1>6. CASE SyncTransmitted(R)
  <2>1. (Rx0Done[I] => rxFrame[I] = "ACK" /\ since[I] = 0)'
    BY <1>6, SyncTransmittedEffect DEF Goes, AckInStep
  <2>2. (tx[R] \in OnAir => taking[I] = {Rx0})'
    BY <1>6, SyncTransmittedEffect DEF Goes, AckInStep, OnAir
  <2>3. (Answered => Acked(I) \/ state[I] = "WAIT_RESPONDER_READY")'
    BY <1>6, SyncTransmittedEffect DEF Goes, AckInStep, Acked, Move, Answered
  <2> QED
    BY ONLY <2>1, <2>2, <2>3 DEF AckInStep
<1>7. CASE SyncReceive(I)
  <2>1. (Rx0Done[I] => rxFrame[I] = "ACK" /\ since[I] = 0)'
    BY <1>7, SyncReceiveEffect DEF Goes, AckInStep, Rules, AckRule
  <2>2. (tx[R] \in OnAir => taking[I] = {Rx0})'
    BY <1>7, SyncReceiveEffect DEF Goes, AckInStep, OnAir
  <2>3. (Answered => Acked(I) \/ state[I] = "WAIT_RESPONDER_READY")'
    BY <1>7, SyncReceiveEffect DEF Goes, AckInStep, Acked, Move, Answered,
       Rules, AckRule, OnAir
  <2> QED
    BY ONLY <2>1, <2>2, <2>3 DEF AckInStep
<1>8. CASE SyncReceive(R)
  <2>1. (Rx0Done[I] => rxFrame[I] = "ACK" /\ since[I] = 0)'
    BY <1>8, SyncReceiveEffect DEF Goes, AckInStep
  <2>2. (tx[R] \in OnAir => taking[I] = {Rx0})'
    BY <1>8, SyncReceiveEffect DEF Goes, AckInStep, OnAir
  <2>3. (Answered => Acked(I) \/ state[I] = "WAIT_RESPONDER_READY")'
    BY <1>8, SyncReceiveEffect DEF Goes, AckInStep, Acked, Move, Answered
  <2> QED
    BY ONLY <2>1, <2>2, <2>3 DEF AckInStep
<1>9. CASE SyncTimedOut(I)
  <2>1. (Rx0Done[I] => rxFrame[I] = "ACK" /\ since[I] = 0)'
    BY <1>9, SyncTimedOutEffect DEF Goes, AckInStep
  <2>2. (tx[R] \in OnAir => taking[I] = {Rx0})'
    BY <1>9, SyncTimedOutEffect DEF Goes, AckInStep, OnAir
  <2>3. (Answered => Acked(I) \/ state[I] = "WAIT_RESPONDER_READY")'
    <3>1. next[I] = None /\ since[I] # 0 /\ state[I] # "WAIT_RESPONDER_READY"
      BY <1>9, SyncTimedOutEffect DEF Goes
    <3>2. ~Answered
      BY <3>1, AckIsSeen DEF AckInStep
    <3> QED
      BY <1>9, <3>2, SyncTimedOutEffect DEF Answered
  <2> QED
    BY ONLY <2>1, <2>2, <2>3 DEF AckInStep
<1>10. CASE SyncTimedOut(R)
  <2>1. (Rx0Done[I] => rxFrame[I] = "ACK" /\ since[I] = 0)'
    BY <1>10, SyncTimedOutEffect DEF Goes, AckInStep
  <2>2. (tx[R] \in OnAir => taking[I] = {Rx0})'
    BY <1>10, SyncTimedOutEffect DEF Goes, AckInStep, OnAir
  <2>3. (Answered => Acked(I) \/ state[I] = "WAIT_RESPONDER_READY")'
    BY <1>10, SyncTimedOutEffect DEF Goes, AckInStep, Acked, Move, Answered
  <2> QED
    BY ONLY <2>1, <2>2, <2>3 DEF AckInStep
<1>11. CASE SyncReceived(I)
  <2>1. (Rx0Done[I] => rxFrame[I] = "ACK" /\ since[I] = 0)'
    BY <1>11, SyncReceivedEffect DEF Goes, AckInStep
  <2>2. (tx[R] \in OnAir => taking[I] = {Rx0})'
    BY <1>11, SyncReceivedEffect DEF Goes, AckInStep, OnAir
  <2>3. (Answered => Acked(I) \/ state[I] = "WAIT_RESPONDER_READY")'
    BY <1>11, SyncReceivedEffect DEF Goes, AckInStep, Acked, Move, Answered
  <2> QED
    BY ONLY <2>1, <2>2, <2>3 DEF AckInStep
<1>12. CASE SyncReceived(R)
  <2>1. (Rx0Done[I] => rxFrame[I] = "ACK" /\ since[I] = 0)'
    BY <1>12, SyncReceivedEffect DEF Goes, AckInStep
  <2>2. (tx[R] \in OnAir => taking[I] = {Rx0})'
    BY <1>12, SyncReceivedEffect DEF Goes, AckInStep, OnAir
  <2>3. (Answered => Acked(I) \/ state[I] = "WAIT_RESPONDER_READY")'
    BY <1>12, SyncReceivedEffect DEF Goes, AckInStep, Acked, Move, Answered
  <2> QED
    BY ONLY <2>1, <2>2, <2>3 DEF AckInStep
<1>13. CASE EndCase(I)
  <2>1. (Rx0Done[I] => rxFrame[I] = "ACK" /\ since[I] = 0)'
    BY <1>13, EndCaseEffect DEF Goes, AckInStep, Rules, AckRule
  <2>2. (tx[R] \in OnAir => taking[I] = {Rx0})'
    BY <1>13, EndCaseEffect DEF Goes, AckInStep, OnAir, Rules, RxRule, Listens
  <2>3. (Answered => Acked(I) \/ state[I] = "WAIT_RESPONDER_READY")'
    <3>1. /\ next[I] # None /\ state'[I] = next[I].to
          /\ state'[R] = state[R] /\ tx'[R] = tx[R]
      BY <1>13, EndCaseEffect
    <3>2. SUFFICES ASSUME Answered PROVE state'[I] = "WAIT_RESPONDER_READY"
      BY <3>1 DEF Answered
    <3>3. Acked(I)
      BY <3>1, <3>2 DEF AckInStep, Rules, AckRule
    <3> QED
      BY <3>1, <3>3 DEF Acked, Move
  <2> QED
    BY ONLY <2>1, <2>2, <2>3 DEF AckInStep
<1>14. CASE EndCase(R)
  <2>1. (Rx0Done[I] => rxFrame[I] = "ACK" /\ since[I] = 0)'
    BY <1>14, EndCaseEffect DEF Goes, AckInStep
  <2>2. (tx[R] \in OnAir => taking[I] = {Rx0})'
    BY <1>14, EndCaseEffect DEF Goes, AckInStep, OnAir
  <2>3. (Answered => Acked(I) \/ state[I] = "WAIT_RESPONDER_READY")'
    <3>1. /\ next[R] # None /\ state'[R] = next[R].to /\ tx'[R] \in {tx[R], "off"}
          /\ state'[I] = state[I] /\ next'[I] = next[I] /\ since'[I] = since[I]
          /\ UNCHANGED <<Rx0Done, rxFrame>>
      BY <1>14, EndCaseEffect
    <3>2. Answered' => Answered
      BY ONLY <3>1, Rules DEF Rules, MovesR, Move, TxRule, Answered
    <3> QED
      BY <3>1, <3>2 DEF AckInStep, Acked, Move
  <2> QED
    BY ONLY <2>1, <2>2, <2>3 DEF AckInStep
<1>15. CASE ResponderAwaited
  <2>1. (Rx0Done[I] => rxFrame[I] = "ACK" /\ since[I] = 0)'
    BY <1>15, ResponderAwaitedEffect DEF Goes, AckInStep
  <2>2. (tx[R] \in OnAir => taking[I] = {Rx0})'
    BY <1>15, ResponderAwaitedEffect DEF Goes, AckInStep, OnAir
  <2>3. (Answered => Acked(I) \/ state[I] = "WAIT_RESPONDER_READY")'
    BY <1>15, ResponderAwaitedEffect DEF Goes, AckInStep, Acked, Move, Answered,
       Rules, AckRule, OnAir
  <2> QED
    BY ONLY <2>1, <2>2, <2>3 DEF AckInStep
<1>16. CASE PdoaTransmit
  <2>1. (Rx0Done[I] => rxFrame[I] = "ACK" /\ since[I] = 0)'
    BY <1>16, PdoaTransmitEffect DEF Goes, AckInStep
  <2>2. (tx[R] \in OnAir => taking[I] = {Rx0})'
    BY <1>16, PdoaTransmitEffect DEF Goes, AckInStep, OnAir
  <2>3. (Answered => Acked(I) \/ state[I] = "WAIT_RESPONDER_READY")'
    BY <1>16, PdoaTransmitEffect DEF Goes, AckInStep, Acked, Move, Answered
  <2> QED
    BY ONLY <2>1, <2>2, <2>3 DEF AckInStep
<1>17. CASE PdoaTransmitted
  <2>1. (Rx0Done[I] => rxFrame[I] = "ACK" /\ since[I] = 0)'
    BY <1>17, PdoaTransmittedEffect DEF Goes, AckInStep
  <2>2. (tx[R] \in OnAir => taking[I] = {Rx0})'
    BY <1>17, PdoaTransmittedEffect DEF Goes, AckInStep, OnAir
  <2>3. (Answered => Acked(I) \/ state[I] = "WAIT_RESPONDER_READY")'
    BY <1>17, PdoaTransmittedEffect DEF Goes, AckInStep, Acked, Move, Answered
  <2> QED
    BY ONLY <2>1, <2>2, <2>3 DEF AckInStep
<1>18. CASE InitiatorTerminate
  <2>1. (Rx0Done[I] => rxFrame[I] = "ACK" /\ since[I] = 0)'
    BY <1>18, InitiatorTerminateEffect DEF Goes, AckInStep
  <2>2. (tx[R] \in OnAir => taking[I] = {Rx0})'
    BY <1>18, InitiatorTerminateEffect DEF Goes, AckInStep, OnAir
  <2>3. (Answered => Acked(I) \/ state[I] = "WAIT_RESPONDER_READY")'
    BY <1>18, InitiatorTerminateEffect DEF Goes, AckInStep, Acked, Move,
       Answered
  <2> QED
    BY ONLY <2>1, <2>2, <2>3 DEF AckInStep
<1>19. CASE PdoaPrepare
  <2>1. (Rx0Done[I] => rxFrame[I] = "ACK" /\ since[I] = 0)'
    BY <1>19, PdoaPrepareEffect DEF Goes, AckInStep
  <2>2. (tx[R] \in OnAir => taking[I] = {Rx0})'
    BY <1>19, PdoaPrepareEffect DEF Goes, AckInStep, OnAir
  <2>3. (Answered => Acked(I) \/ state[I] = "WAIT_RESPONDER_READY")'
    BY <1>19, PdoaPrepareEffect DEF Goes, AckInStep, Acked, Move, Answered
  <2> QED
    BY ONLY <2>1, <2>2, <2>3 DEF AckInStep
<1>20. CASE PdoaReceive
  <2>1. (Rx0Done[I] => rxFrame[I] = "ACK" /\ since[I] = 0)'
    BY <1>20, PdoaReceiveEffect DEF Goes, AckInStep, Armed0
  <2>2. (tx[R] \in OnAir => taking[I] = {Rx0})'
    BY <1>20, PdoaReceiveEffect DEF Goes, AckInStep, OnAir, Armed0
  <2>3. (Answered => Acked(I) \/ state[I] = "WAIT_RESPONDER_READY")'
    BY <1>20, PdoaReceiveEffect DEF Goes, AckInStep, Acked, Move, Answered,
       Armed0
  <2> QED
    BY ONLY <2>1, <2>2, <2>3 DEF AckInStep
<1>21. CASE PdoaReceived
  <2>1. (Rx0Done[I] => rxFrame[I] = "ACK" /\ since[I] = 0)'
    BY <1>21, PdoaReceivedEffect DEF Goes, AckInStep, Armed0
  <2>2. (tx[R] \in OnAir => taking[I] = {Rx0})'
    BY <1>21, PdoaReceivedEffect DEF Goes, AckInStep, OnAir, Armed0
  <2>3. (Answered => Acked(I) \/ state[I] = "WAIT_RESPONDER_READY")'
    BY <1>21, PdoaReceivedEffect DEF Goes, AckInStep, Acked, Move, Answered,
       Armed0
  <2> QED
    BY ONLY <2>1, <2>2, <2>3 DEF AckInStep
<1>22. CASE PdoaPostingProcessing
  <2>1. (Rx0Done[I] => rxFrame[I] = "ACK" /\ since[I] = 0)'
    BY <1>22, PdoaPostingProcessingEffect DEF Goes, AckInStep
  <2>2. (tx[R] \in OnAir => taking[I] = {Rx0})'
    BY <1>22, PdoaPostingProcessingEffect DEF Goes, AckInStep, OnAir
  <2>3. (Answered => Acked(I) \/ state[I] = "WAIT_RESPONDER_READY")'
    BY <1>22, PdoaPostingProcessingEffect DEF Goes, AckInStep, Acked, Move,
       Answered
  <2> QED
    BY ONLY <2>1, <2>2, <2>3 DEF AckInStep
<1>23. CASE ResponderTerminate
  <2>1. (Rx0Done[I] => rxFrame[I] = "ACK" /\ since[I] = 0)'
    BY <1>23, ResponderTerminateEffect DEF Goes, AckInStep
  <2>2. (tx[R] \in OnAir => taking[I] = {Rx0})'
    BY <1>23, ResponderTerminateEffect DEF Goes, AckInStep, OnAir
  <2>3. (Answered => Acked(I) \/ state[I] = "WAIT_RESPONDER_READY")'
    BY <1>23, ResponderTerminateEffect DEF Goes, AckInStep, Acked, Move,
       Answered
  <2> QED
    BY ONLY <2>1, <2>2, <2>3 DEF AckInStep
<1>24. CASE TimerIrq
  <2>1. (Rx0Done[I] => rxFrame[I] = "ACK" /\ since[I] = 0)'
    BY <1>24, TimerIrqEffect DEF Goes, AckInStep
  <2>2. (tx[R] \in OnAir => taking[I] = {Rx0})'
    BY <1>24, TimerIrqEffect DEF Goes, AckInStep, OnAir
  <2>3. (Answered => Acked(I) \/ state[I] = "WAIT_RESPONDER_READY")'
    BY <1>24, TimerIrqEffect DEF Goes, AckInStep, Acked, Move, Answered
  <2> QED
    BY ONLY <2>1, <2>2, <2>3 DEF AckInStep
<1>25. CASE Scheduled(I)
  <2>1. (Rx0Done[I] => rxFrame[I] = "ACK" /\ since[I] = 0)'
    BY <1>25, ScheduledEffect, AtRest DEF Goes, AckInStep
  <2>2. (tx[R] \in OnAir => taking[I] = {Rx0})'
    BY <1>25, ScheduledEffect, AtRest DEF Goes, AckInStep, OnAir
  <2>3. (Answered => Acked(I) \/ state[I] = "WAIT_RESPONDER_READY")'
    BY <1>25, ScheduledEffect, AtRest DEF Goes, AckInStep, Acked, Move, Answered
  <2> QED
    BY ONLY <2>1, <2>2, <2>3 DEF AckInStep
<1>26. CASE Scheduled(R)
  <2>1. (Rx0Done[I] => rxFrame[I] = "ACK" /\ since[I] = 0)'
    BY <1>26, ScheduledEffect, AtRest DEF Goes, AckInStep
  <2>2. (tx[R] \in OnAir => taking[I] = {Rx0})'
    BY <1>26, ScheduledEffect, AtRest DEF Goes, AckInStep, OnAir
  <2>3. (Answered => Acked(I) \/ state[I] = "WAIT_RESPONDER_READY")'
    BY <1>26, ScheduledEffect, AtRest DEF Goes, AckInStep, Acked, Move, Answered
  <2> QED
    BY ONLY <2>1, <2>2, <2>3 DEF AckInStep
<1>27. CASE FrameBegins(I)
  <2>1. (Rx0Done[I] => rxFrame[I] = "ACK" /\ since[I] = 0)'
    BY <1>27, FrameBeginsEffect, AtRest DEF Goes, AckInStep
  <2>2. (tx[R] \in OnAir => taking[I] = {Rx0})'
    BY <1>27, FrameBeginsEffect, AtRest DEF Goes, AckInStep, OnAir
  <2>3. (Answered => Acked(I) \/ state[I] = "WAIT_RESPONDER_READY")'
    BY <1>27, FrameBeginsEffect, AtRest DEF Goes, AckInStep, Acked, Move,
       Answered
  <2> QED
    BY ONLY <2>1, <2>2, <2>3 DEF AckInStep
<1>28. CASE FrameBegins(R)
  <2>1. (Rx0Done[I] => rxFrame[I] = "ACK" /\ since[I] = 0)'
    BY <1>28, FrameBeginsEffect, AtRest DEF Goes, AckInStep
  <2>2. (tx[R] \in OnAir => taking[I] = {Rx0})'
    <3>1. ToAnswer
      BY <1>28, FrameBeginsEffect, AtRest DEF Rules, MovesR, TxRule, ToAnswer
    <3>2. state[I] = "SYNC_WAIT_RX_DONE"
      BY <1>28, <3>1, FrameBeginsEffect, AtRest DEF Rules, AckRule, TxRule
    <3>3. ports[I] = {Rx0}
      BY <3>2 DEF Rules, RxRule
    <3> QED
      BY <1>28, <3>2, <3>3, FrameBeginsEffect
  <2>3. (Answered => Acked(I) \/ state[I] = "WAIT_RESPONDER_READY")'
    BY <1>28, FrameBeginsEffect, AtRest DEF Goes, AckInStep, Acked, Move,
       Answered
  <2> QED
    BY ONLY <2>1, <2>2, <2>3 DEF AckInStep
<1>29. CASE SfdDetected(I)
  <2>1. (Rx0Done[I] => rxFrame[I] = "ACK" /\ since[I] = 0)'
    BY <1>29, SfdDetectedEffect DEF Goes, AckInStep
  <2>2. (tx[R] \in OnAir => taking[I] = {Rx0})'
    BY <1>29, SfdDetectedEffect DEF Goes, AckInStep, OnAir
  <2>3. (Answered => Acked(I) \/ state[I] = "WAIT_RESPONDER_READY")'
    BY <1>29, SfdDetectedEffect DEF Goes, AckInStep, Acked, Move, Answered
  <2> QED
    BY ONLY <2>1, <2>2, <2>3 DEF AckInStep
<1>30. CASE SfdDetected(R)
  <2>1. (Rx0Done[I] => rxFrame[I] = "ACK" /\ since[I] = 0)'
    BY <1>30, SfdDetectedEffect DEF Goes, AckInStep
  <2>2. (tx[R] \in OnAir => taking[I] = {Rx0})'
    BY <1>30, SfdDetectedEffect DEF Goes, AckInStep, OnAir
  <2>3. (Answered => Acked(I) \/ state[I] = "WAIT_RESPONDER_READY")'
    BY <1>30, SfdDetectedEffect DEF Goes, AckInStep, Acked, Move, Answered
  <2> QED
    BY ONLY <2>1, <2>2, <2>3 DEF AckInStep
<1>31. ASSUME NEW u \in BOOLEAN, Sent(I, u), (u /\ UNCHANGED env) \/ Lose(I)
       PROVE  AckInStep'
  <2>1. (Rx0Done[I] => rxFrame[I] = "ACK" /\ since[I] = 0)'
    BY <1>31, SentEffect DEF Goes, AckInStep
  <2>2. (tx[R] \in OnAir => taking[I] = {Rx0})'
    BY <1>31, SentEffect DEF Goes, AckInStep, OnAir
  <2>3. (Answered => Acked(I) \/ state[I] = "WAIT_RESPONDER_READY")'
    BY <1>31, SentEffect DEF Goes, AckInStep, Acked, Move, Answered, Rules,
       AckRule, OnAir
  <2> QED
    BY ONLY <2>1, <2>2, <2>3 DEF AckInStep
<1>32. ASSUME NEW u \in BOOLEAN, Sent(R, u), (u /\ UNCHANGED env) \/ Lose(R)
       PROVE  AckInStep'
  <2>1. (Rx0Done[I] => rxFrame[I] = "ACK" /\ since[I] = 0)'
    <3>1. SUFFICES ASSUME Rx0Done'[I] PROVE rxFrame'[I] = "ACK" /\ since'[I] = 0
      OBVIOUS
    <3>2. u /\ tx[R] = "data"
      BY <1>32, OnlyPdoaIsLost, SentEffect DEF OnAir
    <3>3. taking[I] = {Rx0} /\ ToAnswer
      BY <3>2, AckIsAwaited DEF AckInStep, OnAir
    <3>4. since[I] = 0 /\ txFrame[R][1] = "ACK"
      BY <3>2, <3>3 DEF Rules, RxRule, Listens, AckRule, KindRule, On
    <3>5. /\ rxFrame'[I] = IF Rx0 \in taking[I]
                            THEN IF u THEN txFrame[R][1] ELSE None
                            ELSE rxFrame[I]
          /\ since' = since
      BY <1>32, SentEffect DEF loop
    <3> QED
      BY ONLY <3>2, <3>3, <3>4, <3>5
  <2>2. (tx[R] \in OnAir => taking[I] = {Rx0})'
    BY <1>32, SentEffect DEF Goes, AckInStep, OnAir
  <2>3. (Answered => Acked(I) \/ state[I] = "WAIT_RESPONDER_READY")'
    <3>1. u /\ tx[R] = "data"
      BY <1>32, OnlyPdoaIsLost, SentEffect DEF OnAir
    <3>2. taking[I] = {Rx0} /\ ToAnswer
      BY <3>1, AckIsAwaited DEF AckInStep, OnAir
    <3>3. /\ state[I] = "SYNC_WAIT_RX_DONE" /\ next[I] = None /\ since[I] = 0
          /\ txFrame[R][1] = "ACK"
      BY <3>1, <3>2 DEF Rules, RxRule, Listens, AckRule, KindRule, On
    <3>4. /\ Rx0Done'[I] <=>
                \/ Rx0Done[I]
                \/ Rx0 \in taking[I] /\ state[I] = "SYNC_WAIT_RX_DONE"
          /\ rxFrame'[I] = IF Rx0 \in taking[I]
                            THEN IF u THEN txFrame[R][1] ELSE None
                            ELSE rxFrame[I]
          /\ UNCHANGED <<state, next, since>>
      BY <1>32, SentEffect DEF loop
    <3> QED
      BY ONLY <3>1, <3>2, <3>3, <3>4 DEF Acked
  <2> QED
    BY ONLY <2>1, <2>2, <2>3 DEF AckInStep
<1>33. CASE FrameMissed(I)
  <2>1. (Rx0Done[I] => rxFrame[I] = "ACK" /\ since[I] = 0)'
    BY <1>33, FrameMissedEffect DEF Goes, AckInStep
  <2>2. (tx[R] \in OnAir => taking[I] = {Rx0})'
    BY <1>33, FrameMissedEffect DEF Goes, AckInStep, OnAir
  <2>3. (Answered => Acked(I) \/ state[I] = "WAIT_RESPONDER_READY")'
    BY <1>33, FrameMissedEffect DEF Goes, AckInStep, Acked, Move, Answered
  <2> QED
    BY ONLY <2>1, <2>2, <2>3 DEF AckInStep
<1>34. CASE FrameMissed(R)
  <2>1. (Rx0Done[I] => rxFrame[I] = "ACK" /\ since[I] = 0)'
    BY <1>34, FrameMissedEffect DEF Goes, AckInStep
  <2>2. (tx[R] \in OnAir => taking[I] = {Rx0})'
    BY <1>34, FrameMissedEffect, OnlyPdoaIsLost DEF OnAir
  <2>3. (Answered => Acked(I) \/ state[I] = "WAIT_RESPONDER_READY")'
    BY <1>34, FrameMissedEffect DEF Goes, AckInStep, Acked, Move, Answered
  <2> QED
    BY ONLY <2>1, <2>2, <2>3 DEF AckInStep
<1>35. CASE Tick(I)
  <2>1. (Rx0Done[I] => rxFrame[I] = "ACK" /\ since[I] = 0)'
    BY <1>35, TickEffect, AtRest DEF Goes, AckInStep, Rules, AckRule
  <2>2. (tx[R] \in OnAir => taking[I] = {Rx0})'
    BY <1>35, TickEffect, AtRest DEF Goes, AckInStep, OnAir
  <2>3. (Answered => Acked(I) \/ state[I] = "WAIT_RESPONDER_READY")'
    BY <1>35, TickEffect, AtRest DEF Goes, AckInStep, Acked, Move, Answered,
       Rules, AckRule, OnAir
  <2> QED
    BY ONLY <2>1, <2>2, <2>3 DEF AckInStep
<1>36. CASE Tick(R)
  <2>1. (Rx0Done[I] => rxFrame[I] = "ACK" /\ since[I] = 0)'
    BY <1>36, TickEffect, AtRest DEF Goes, AckInStep
  <2>2. (tx[R] \in OnAir => taking[I] = {Rx0})'
    BY <1>36, TickEffect, AtRest DEF Goes, AckInStep, OnAir
  <2>3. (Answered => Acked(I) \/ state[I] = "WAIT_RESPONDER_READY")'
    BY <1>36, TickEffect, AtRest DEF Goes, AckInStep, Acked, Move, Answered,
       Rules, AckRule, OnAir
  <2> QED
    BY ONLY <2>1, <2>2, <2>3 DEF AckInStep
<1>37. reboots \in Nat
  BY LongestWait DEF Types, FlagTypes
<1>38. ASSUME NEW b \in Board, Shared(b) PROVE AckInStep'
  BY <1>38, <1>1, <1>2, <1>3, <1>4, <1>5, <1>6, <1>7, <1>8, <1>9, <1>10, <1>11,
     <1>12, <1>13, <1>14 DEF Shared
<1>39. ASSUME NEW b \in Board, Air(b) \/ FrameDamaged(b) \/ FrameMissed(b) \/ Tick(b)
       PROVE  AckInStep'
  BY <1>39, <1>25, <1>26, <1>27, <1>28, <1>29, <1>30, <1>31, <1>32, <1>33,
     <1>34,
     <1>35, <1>36 DEF Air, FrameSent, FrameDamaged
<1>40. ASSUME NEW b \in Board, Reboot(b) PROVE AckInStep'
  BY <1>37, <1>40 DEF Reboot, Undisturbed
<1> QED
  BY <1>15, <1>16, <1>17, <1>18, <1>19, <1>20, <1>21, <1>22, <1>23, <1>24,
     <1>38,
     <1>39, <1>40, Boards DEF Next, Initiator, Responder, I, R

-----------------------------------------------------------------------------
(* Nothing but the wait before its first frame lets time pass while the    *)
(* responder waits for frames: after its series it has all it needs.       *)
LEMMA SeriesAtRest ==
    ASSUME Types, Rules, InStep, Settled, state[R] = "PDOA_WAIT_RX_DONE",
           tx[I] \in {"off", "sent"}, lost["PDOA"] <= 1, NumOfPackage <= RepeatedTx
    PROVE  /\ state[I] = "WAIT_RESPONDER_READY" /\ since[I] < TxStartWait
           /\ since[I] >= OverallTimeout - timer + ahead - 1
           /\ timer \in 1..OverallTimeout /\ timer # None
<1>1. OnSchedule /\ Gathered /\ Armed
  BY AtRest, TwoBoards DEF InStep, SeriesInStep, PortsInStep
<1>2. timer # None /\ timer # 0
  BY DEF Rules, TimerRule, InStep
<1>3. ~Acked(I)
  BY AckIsSeen, TwoBoards DEF Settled
<1>4. state[I] # "IDLE"
  <2>1. SUFFICES ASSUME state[I] = "IDLE" PROVE FALSE
    OBVIOUS
  <2>2. next[R] = None /\ RxSfdDetected # Port
    BY AtRest, TwoBoards
  <2>3. Begun = RepeatedTx + 1
    BY <2>1 DEF Begun
  <2> QED
    BY <1>1, <2>2, <2>3, Numbers DEF Gathered
<1>5. state[I] \notin {"PDOA_TRANSMIT", "PDOA_WAIT_TX_DONE_N_REPEATED_TX",
                       "TERMINATE"}
  BY AtRest, TwoBoards DEF Rules, TxRule
<1>6. state[I] = "WAIT_RESPONDER_READY"
  BY <1>1, <1>3, <1>4, <1>5 DEF OnSchedule
<1> QED
  BY <1>1, <1>2, <1>3, <1>6, AtRest, TwoBoards, Numbers DEF OnSchedule

LEMMA NextTimerRuns ==
    ASSUME Types, Rules, InStep, MaxLate = 0, Next, Undisturbed',
           NumOfPackage <= RepeatedTx, TxStartWait + 1 < OverallTimeout
    PROVE  timer' # 0
<1> USE TwoBoards DEF Goes, loop, flags, air, env
<1>1. CASE IdleOver(I)
  BY <1>1, IdleOverEffect DEF InStep
<1>2. CASE IdleOver(R)
  BY <1>2, IdleOverEffect DEF InStep
<1>3. CASE SyncTransmit(I)
  BY <1>3, SyncTransmitEffect DEF InStep
<1>4. CASE SyncTransmit(R)
  BY <1>4, SyncTransmitEffect DEF InStep
<1>5. CASE SyncTransmitted(I)
  BY <1>5, SyncTransmittedEffect DEF InStep
<1>6. CASE SyncTransmitted(R)
  BY <1>6, SyncTransmittedEffect DEF InStep
<1>7. CASE SyncReceive(I)
  BY <1>7, SyncReceiveEffect DEF InStep
<1>8. CASE SyncReceive(R)
  BY <1>8, SyncReceiveEffect DEF InStep
<1>9. CASE SyncTimedOut(I)
  BY <1>9, SyncTimedOutEffect DEF InStep
<1>10. CASE SyncTimedOut(R)
  BY <1>10, SyncTimedOutEffect DEF InStep
<1>11. CASE SyncReceived(I)
  BY <1>11, SyncReceivedEffect DEF InStep
<1>12. CASE SyncReceived(R)
  BY <1>12, SyncReceivedEffect DEF InStep
<1>13. CASE EndCase(I)
  BY <1>13, EndCaseEffect DEF InStep
<1>14. CASE EndCase(R)
  BY <1>14, EndCaseEffect DEF InStep
<1>15. CASE ResponderAwaited
  BY <1>15, ResponderAwaitedEffect DEF InStep
<1>16. CASE PdoaTransmit
  BY <1>16, PdoaTransmitEffect DEF InStep
<1>17. CASE PdoaTransmitted
  BY <1>17, PdoaTransmittedEffect DEF InStep
<1>18. CASE InitiatorTerminate
  BY <1>18, InitiatorTerminateEffect DEF InStep
<1>19. CASE PdoaPrepare
  BY <1>19, PdoaPrepareEffect DEF InStep
<1>20. CASE PdoaReceive
  BY <1>20, PdoaReceiveEffect DEF InStep
<1>21. CASE PdoaReceived
  BY <1>21, PdoaReceivedEffect DEF InStep
<1>22. CASE PdoaPostingProcessing
  BY <1>22, PdoaPostingProcessingEffect DEF InStep
<1>23. CASE ResponderTerminate
  BY <1>23, ResponderTerminateEffect DEF InStep
<1>24. CASE TimerIrq
  BY <1>24, TimerIrqEffect, NoneIsNoKind
<1>25. CASE Scheduled(I)
  BY <1>25, ScheduledEffect DEF InStep
<1>26. CASE Scheduled(R)
  BY <1>26, ScheduledEffect DEF InStep
<1>27. CASE FrameBegins(I)
  BY <1>27, FrameBeginsEffect DEF InStep
<1>28. CASE FrameBegins(R)
  BY <1>28, FrameBeginsEffect DEF InStep
<1>29. CASE SfdDetected(I)
  BY <1>29, SfdDetectedEffect DEF InStep
<1>30. CASE SfdDetected(R)
  BY <1>30, SfdDetectedEffect DEF InStep
<1>31. ASSUME NEW u \in BOOLEAN, Sent(I, u), (u /\ UNCHANGED env) \/ Lose(I)
       PROVE  timer' # 0
  BY <1>31, SentEffect DEF InStep
<1>32. ASSUME NEW u \in BOOLEAN, Sent(R, u), (u /\ UNCHANGED env) \/ Lose(R)
       PROVE  timer' # 0
  BY <1>32, SentEffect DEF InStep
<1>33. CASE FrameMissed(I)
  BY <1>33, FrameMissedEffect DEF InStep
<1>34. CASE FrameMissed(R)
  BY <1>34, FrameMissedEffect DEF InStep
<1>35. CASE Tick(I)
  BY <1>35, TickEffect DEF InStep
<1>36. CASE Tick(R)
  <2>1. CASE timer = None
    BY <1>36, <2>1, TickEffect, NoneIsNoKind
  <2>2. CASE timer # None
    <3>1. Settled /\ tx[I] \in {"off", "sent"} /\ timer' = timer - 1 /\ ahead' \in -1..1
          /\ ahead' = ahead - 1 /\ lost["PDOA"] <= 1
      BY <1>36, <2>2, TickEffect DEF Undisturbed
    <3>2. state[R] = "PDOA_WAIT_RX_DONE"
      BY <2>2, <3>1, AtRest DEF Rules, TimerRule
    <3> QED
      BY <3>1, <3>2, SeriesAtRest, Numbers
  <2> QED
    BY <2>1, <2>2
<1>37. reboots \in Nat
  BY LongestWait DEF Types, FlagTypes
<1>38. ASSUME NEW b \in Board, Shared(b) PROVE timer' # 0
  BY <1>38, <1>1, <1>2, <1>3, <1>4, <1>5, <1>6, <1>7, <1>8, <1>9, <1>10, <1>11,
     <1>12, <1>13, <1>14 DEF Shared
<1>39. ASSUME NEW b \in Board, Air(b) \/ FrameDamaged(b) \/ FrameMissed(b) \/ Tick(b)
       PROVE  timer' # 0
  BY <1>39, <1>25, <1>26, <1>27, <1>28, <1>29, <1>30, <1>31, <1>32, <1>33,
     <1>34,
     <1>35, <1>36 DEF Air, FrameSent, FrameDamaged
<1>40. ASSUME NEW b \in Board, Reboot(b) PROVE timer' # 0
  BY <1>37, <1>40 DEF Reboot, Undisturbed
<1> QED
  BY <1>15, <1>16, <1>17, <1>18, <1>19, <1>20, <1>21, <1>22, <1>23, <1>24,
     <1>38,
     <1>39, <1>40, Boards DEF Next, Initiator, Responder, I, R

(* What a case of the initiator's may be going to do in a series.          *)
LEMMA MoveOfI ==
    ASSUME MovesI, next[I] # None
    PROVE  /\ state[I] = "WAIT_RESPONDER_READY" => next[I].to = "PDOA_TRANSMIT"
           /\ state[I] = "PDOA_TRANSMIT" =>
                 /\ next[I].to = "PDOA_WAIT_TX_DONE_N_REPEATED_TX"
                 /\ next[I].end = {}
           /\ state[I] = "PDOA_WAIT_TX_DONE_N_REPEATED_TX" =>
                 next[I].to = "TERMINATE"
           /\ state[I] = "TERMINATE" => next[I].to = "IDLE"
BY DEF MovesI, Move

LEMMA NextSeriesInStep ==
    ASSUME Types, Rules, InStep, SeriesInStep, NumOfPackage <= RepeatedTx, MaxLate = 0, Next, Undisturbed'
    PROVE  SeriesInStep'
<1> USE TwoBoards DEF loop, flags, air, env
<1>1. CASE IdleOver(I)
  <2>1. state[R] # "PDOA_WAIT_RX_DONE"
    BY <1>1, IdleOverEffect, Numbers DEF Goes, SeriesInStep, OnSchedule, Acked,
       Move
  <2> QED
    BY <1>1, <2>1, IdleOverEffect DEF SeriesInStep
<1>2. CASE IdleOver(R)
  BY <1>2, IdleOverEffect DEF Goes, SeriesInStep
<1>3. CASE SyncTransmit(I)
  <2>1. state[R] # "PDOA_WAIT_RX_DONE"
    BY <1>3, SyncTransmitEffect, Numbers DEF Goes, SeriesInStep, OnSchedule,
       Acked, Move
  <2> QED
    BY <1>3, <2>1, SyncTransmitEffect DEF SeriesInStep
<1>4. CASE SyncTransmit(R)
  BY <1>4, SyncTransmitEffect DEF Goes, SeriesInStep
<1>5. CASE SyncTransmitted(I)
  <2>1. state[R] # "PDOA_WAIT_RX_DONE"
    BY <1>5, SyncTransmittedEffect, Numbers DEF Goes, SeriesInStep, OnSchedule,
       Acked, Move
  <2> QED
    BY <1>5, <2>1, SyncTransmittedEffect DEF SeriesInStep
<1>6. CASE SyncTransmitted(R)
  BY <1>6, SyncTransmittedEffect DEF Goes, SeriesInStep
<1>7. CASE SyncReceive(I)
  <2>1. state[R] # "PDOA_WAIT_RX_DONE"
    BY <1>7, SyncReceiveEffect, Numbers DEF Goes, SeriesInStep, OnSchedule,
       Acked, Move
  <2> QED
    BY <1>7, <2>1, SyncReceiveEffect DEF SeriesInStep
<1>8. CASE SyncReceive(R)
  BY <1>8, SyncReceiveEffect DEF Goes, SeriesInStep
<1>9. CASE SyncTimedOut(I)
  <2>1. state[R] # "PDOA_WAIT_RX_DONE"
    <3>1. state[I] = "SYNC_WAIT_RX_DONE" /\ next[I] = None /\ since[I] # 0
      BY <1>9, SyncTimedOutEffect DEF Goes
    <3> QED
      BY <3>1, AckIsSeen DEF SeriesInStep, OnSchedule
  <2> QED
    BY <1>9, <2>1, SyncTimedOutEffect DEF SeriesInStep
<1>10. CASE SyncTimedOut(R)
  BY <1>10, SyncTimedOutEffect DEF Goes, SeriesInStep
<1>11. CASE SyncReceived(I)
  <2>1. SUFFICES ASSUME state[R] = "PDOA_WAIT_RX_DONE"
                 PROVE  /\ OnSchedule' /\ Gathered'
                        /\ (tx[I] = "sfd" => Prepared)'
                        /\ (Acked(I) \/ state[I] = "WAIT_RESPONDER_READY" => Prepared)'
    BY <1>11, SyncReceivedEffect DEF Goes, SeriesInStep
  <2>2. /\ OnSchedule /\ Gathered /\ (tx[I] = "sfd" => Prepared)
        /\ Acked(I) \/ state[I] = "WAIT_RESPONDER_READY" => Prepared
    BY <2>1 DEF SeriesInStep
  <2>a. state[I] = "SYNC_WAIT_RX_DONE" /\ next[I] = None
    BY <1>11, SyncReceivedEffect DEF Goes
  <2>b. Acked(I) /\ timer = OverallTimeout /\ rxFrame[I] = "ACK"
    BY <2>a, <2>2, AckIsSeen DEF OnSchedule
  <2>c. next'[I] = [to |-> "WAIT_RESPONDER_READY", end |-> {Rx0}]
    BY <1>11, <2>b, SyncReceivedEffect DEF Goes
  <2>3. OnSchedule'
    BY <1>11, <2>a, <2>b, <2>c, SyncReceivedEffect DEF OnSchedule, Acked, Move
  <2>4. Gathered'
    BY <1>11, <2>1, <2>2, <2>a, SyncReceivedEffect DEF Goes, Gathered, Begun
  <2>5. (tx[I] = "sfd" => Prepared)'
    BY <1>11, <2>1, <2>2, SyncReceivedEffect DEF Goes, Prepared
  <2>6. (Acked(I) \/ state[I] = "WAIT_RESPONDER_READY" => Prepared)'
    BY <1>11, <2>b, <2>2, SyncReceivedEffect DEF Goes, Prepared
  <2> QED
    BY ONLY <2>3, <2>4, <2>5, <2>6
<1>12. CASE SyncReceived(R)
  BY <1>12, SyncReceivedEffect DEF Goes, SeriesInStep
<1>13. CASE EndCase(I)
  <2>1. SUFFICES ASSUME state[R] = "PDOA_WAIT_RX_DONE"
                 PROVE  /\ OnSchedule' /\ Gathered'
                        /\ (tx[I] = "sfd" => Prepared)'
                        /\ (Acked(I) \/ state[I] = "WAIT_RESPONDER_READY" => Prepared)'
    BY <1>13, EndCaseEffect DEF Goes, SeriesInStep
  <2>2. /\ OnSchedule /\ Gathered /\ (tx[I] = "sfd" => Prepared)
        /\ Acked(I) \/ state[I] = "WAIT_RESPONDER_READY" => Prepared
    BY <2>1 DEF SeriesInStep
  <2>a. /\ next[I] # None /\ state'[I] = next[I].to /\ next'[I] = None
        /\ since'[I] = 0 /\ tx'[I] \in {tx[I], "off"} /\ next'[R] = next[R]
        /\ next[I].end = {} => tx'[I] = tx[I]
        /\ UNCHANGED <<count, timer, ahead, lost, RxSfdDetected>>
    BY <1>13, EndCaseEffect, PortSets
  <2>b. /\ Acked(I) => state'[I] = "WAIT_RESPONDER_READY"
        /\ state[I] # "IDLE"
        /\ Acked(I) => state[I] = "SYNC_WAIT_RX_DONE"
        /\ state[I] = "SYNC_WAIT_RX_DONE" => Acked(I) /\ timer = OverallTimeout
    BY <2>a, <2>2 DEF Acked, Move, OnSchedule
  <2>c. /\ state[I] \in {"SYNC_WAIT_RX_DONE", "WAIT_RESPONDER_READY", "PDOA_TRANSMIT",
                         "PDOA_WAIT_TX_DONE_N_REPEATED_TX", "TERMINATE"}
    BY <2>b, <2>2 DEF OnSchedule
  <2>3. OnSchedule'
    BY <2>a, <2>b, <2>c, MoveOfI, Numbers, NoneIsNoKind DEF OnSchedule, Rules
  <2>4. Gathered'
    <3>1. state[I] = "PDOA_TRANSMIT" => count[I] = 0 /\ tx[I] = "preamble"
      BY <2>a DEF InStep, CountI, Rules, TxRule
    <3>2. Begun' = Begun
      BY <2>a, <2>b, <2>c, <3>1, MoveOfI, Numbers DEF Begun, Rules
    <3> QED
      BY <2>2, <2>a, <3>2 DEF Gathered
  <2>5. (tx[I] = "sfd" => Prepared)'
    BY <2>2, <2>a DEF Prepared
  <2>6. (Acked(I) \/ state[I] = "WAIT_RESPONDER_READY" => Prepared)'
    <3>1. /\ state'[I] # "SYNC_WAIT_RX_DONE"
          /\ state'[I] = "WAIT_RESPONDER_READY" => Acked(I)
      BY <2>a, <2>b, <2>c, MoveOfI DEF Rules
    <3>2. ~Acked(I)'
      BY <3>1 DEF Acked, Move
    <3> QED
      BY <2>2, <2>a, <3>1, <3>2 DEF Prepared
  <2> QED
    BY ONLY <2>3, <2>4, <2>5, <2>6
<1>14. CASE EndCase(R)
  <2>1. SUFFICES ASSUME state'[R] = "PDOA_WAIT_RX_DONE"
                 PROVE  /\ OnSchedule' /\ Gathered'
                        /\ (tx[I] = "sfd" => Prepared)'
                        /\ (Acked(I) \/ state[I] = "WAIT_RESPONDER_READY" => Prepared)'
    BY DEF SeriesInStep
  <2>a. /\ next[R] # None /\ state'[R] = next[R].to /\ next'[R] = None
        /\ state'[I] = state[I] /\ next'[I] = next[I] /\ since'[I] = since[I]
        /\ tx'[I] = tx[I]
        /\ UNCHANGED <<count, timer, ahead, lost, RxSfdDetected, Rx0Done, rxFrame>>
    BY <1>14, EndCaseEffect
  <2>b. state[R] = "PDOA_RECEIVE" /\ Answered
    BY <2>1, <2>a, MoveOfR DEF Rules, Answered
  <2>c. /\ timer = OverallTimeout /\ count[R] = 0 /\ RxSfdDetected = {}
        /\ Acked(I) \/ (state[I] = "WAIT_RESPONDER_READY" /\ since[I] = 0)
    BY <2>a, <2>b DEF Rules, TimerRule, AckRule, InStep, Counted, PortsInStep,
       AckInStep
  <2>d. state[I] \in {"SYNC_WAIT_RX_DONE", "WAIT_RESPONDER_READY"}
    BY <2>c DEF Acked, Move
  <2>3. OnSchedule'
    BY <2>a, <2>c, Numbers, NoneIsNoKind DEF OnSchedule, Acked, Move
  <2>4. Gathered'
    <3>1. Begun' = 0
      BY <2>a, <2>d DEF Begun
    <3> QED
      BY <2>a, <2>c, <3>1, Numbers DEF Gathered
  <2>5. (tx[I] = "sfd" => Prepared)'
    BY <2>a, <2>d DEF Rules, TxRule
  <2>6. (Acked(I) \/ state[I] = "WAIT_RESPONDER_READY" => Prepared)'
    BY <2>a, <2>c DEF Prepared
  <2> QED
    BY ONLY <2>3, <2>4, <2>5, <2>6
<1>15. CASE ResponderAwaited
  <2>1. SUFFICES ASSUME state[R] = "PDOA_WAIT_RX_DONE"
                 PROVE  /\ OnSchedule' /\ Gathered'
                        /\ (tx[I] = "sfd" => Prepared)'
                        /\ (Acked(I) \/ state[I] = "WAIT_RESPONDER_READY" => Prepared)'
    BY <1>15, ResponderAwaitedEffect DEF Goes, SeriesInStep
  <2>2. /\ OnSchedule /\ Gathered /\ (tx[I] = "sfd" => Prepared)
        /\ Acked(I) \/ state[I] = "WAIT_RESPONDER_READY" => Prepared
    BY <2>1 DEF SeriesInStep
  <2>3. OnSchedule'
    BY <1>15, <2>1, <2>2, ResponderAwaitedEffect, Numbers DEF Goes, OnSchedule,
       Acked, Move
  <2>4. Gathered'
    BY <1>15, <2>1, <2>2, ResponderAwaitedEffect, Numbers DEF Goes, Gathered,
       Begun, InStep, CountI
  <2>5. (tx[I] = "sfd" => Prepared)'
    BY <1>15, <2>1, <2>2, ResponderAwaitedEffect DEF Goes, Prepared
  <2>6. (Acked(I) \/ state[I] = "WAIT_RESPONDER_READY" => Prepared)'
    BY <1>15, <2>1, <2>2, ResponderAwaitedEffect DEF Goes, Prepared, Acked, Move
  <2> QED
    BY ONLY <2>3, <2>4, <2>5, <2>6
<1>16. CASE PdoaTransmit
  <2>1. SUFFICES ASSUME state[R] = "PDOA_WAIT_RX_DONE"
                 PROVE  /\ OnSchedule' /\ Gathered'
                        /\ (tx[I] = "sfd" => Prepared)'
                        /\ (Acked(I) \/ state[I] = "WAIT_RESPONDER_READY" => Prepared)'
    BY <1>16, PdoaTransmitEffect DEF Goes, SeriesInStep
  <2>2. /\ OnSchedule /\ Gathered /\ (tx[I] = "sfd" => Prepared)
        /\ Acked(I) \/ state[I] = "WAIT_RESPONDER_READY" => Prepared
    BY <2>1 DEF SeriesInStep
  <2>3. OnSchedule'
    BY <1>16, <2>1, <2>2, PdoaTransmitEffect, Numbers DEF Goes, OnSchedule,
       Acked, Move
  <2>4. Gathered'
    BY <1>16, <2>1, <2>2, PdoaTransmitEffect, Numbers DEF Goes, Gathered, Begun,
       InStep, CountI
  <2>5. (tx[I] = "sfd" => Prepared)'
    BY <1>16, <2>1, <2>2, PdoaTransmitEffect DEF Goes, Prepared
  <2>6. (Acked(I) \/ state[I] = "WAIT_RESPONDER_READY" => Prepared)'
    BY <1>16, <2>1, <2>2, PdoaTransmitEffect DEF Goes, Prepared, Acked, Move
  <2> QED
    BY ONLY <2>3, <2>4, <2>5, <2>6
<1>17. CASE PdoaTransmitted
  <2>1. SUFFICES ASSUME state[R] = "PDOA_WAIT_RX_DONE"
                 PROVE  /\ OnSchedule' /\ Gathered'
                        /\ (tx[I] = "sfd" => Prepared)'
                        /\ (Acked(I) \/ state[I] = "WAIT_RESPONDER_READY" => Prepared)'
    BY <1>17, PdoaTransmittedEffect DEF Goes, SeriesInStep
  <2>2. /\ OnSchedule /\ Gathered /\ (tx[I] = "sfd" => Prepared)
        /\ Acked(I) \/ state[I] = "WAIT_RESPONDER_READY" => Prepared
    BY <2>1 DEF SeriesInStep
  <2>3. OnSchedule'
    BY <1>17, <2>1, <2>2, PdoaTransmittedEffect, Numbers DEF Goes, OnSchedule,
       Acked, Move
  <2>4. Gathered'
    <3>1. tx[I] = "sent" /\ Begun = count[I] + 1
      BY <1>17, PdoaTransmittedEffect DEF Rules, TxRule, Begun
    <3>2. Begun' = count[I] + 1
      BY <1>17, PdoaTransmittedEffect, Numbers DEF Goes, Begun
    <3> QED
      BY <1>17, <2>2, <3>1, <3>2, PdoaTransmittedEffect DEF Goes, Gathered, env
  <2>5. (tx[I] = "sfd" => Prepared)'
    BY <1>17, <2>1, <2>2, PdoaTransmittedEffect DEF Goes, Prepared
  <2>6. (Acked(I) \/ state[I] = "WAIT_RESPONDER_READY" => Prepared)'
    BY <1>17, <2>1, <2>2, PdoaTransmittedEffect DEF Goes, Prepared, Acked, Move
  <2> QED
    BY ONLY <2>3, <2>4, <2>5, <2>6
<1>18. CASE InitiatorTerminate
  <2>1. SUFFICES ASSUME state[R] = "PDOA_WAIT_RX_DONE"
                 PROVE  /\ OnSchedule' /\ Gathered'
                        /\ (tx[I] = "sfd" => Prepared)'
                        /\ (Acked(I) \/ state[I] = "WAIT_RESPONDER_READY" => Prepared)'
    BY <1>18, InitiatorTerminateEffect DEF Goes, SeriesInStep
  <2>2. /\ OnSchedule /\ Gathered /\ (tx[I] = "sfd" => Prepared)
        /\ Acked(I) \/ state[I] = "WAIT_RESPONDER_READY" => Prepared
    BY <2>1 DEF SeriesInStep
  <2>3. OnSchedule'
    BY <1>18, <2>1, <2>2, InitiatorTerminateEffect, Numbers DEF Goes,
       OnSchedule, Acked, Move
  <2>4. Gathered'
    BY <1>18, <2>1, <2>2, InitiatorTerminateEffect, Numbers DEF Goes, Gathered,
       Begun, InStep, CountI
  <2>5. (tx[I] = "sfd" => Prepared)'
    BY <1>18, <2>1, <2>2, InitiatorTerminateEffect DEF Goes, Prepared
  <2>6. (Acked(I) \/ state[I] = "WAIT_RESPONDER_READY" => Prepared)'
    BY <1>18, <2>1, <2>2, InitiatorTerminateEffect DEF Goes, Prepared, Acked,
       Move
  <2> QED
    BY ONLY <2>3, <2>4, <2>5, <2>6
<1>19. CASE PdoaPrepare
  BY <1>19, PdoaPrepareEffect DEF Goes, SeriesInStep
<1>20. CASE PdoaReceive
  BY <1>20, PdoaReceiveEffect DEF Goes, SeriesInStep, Armed0
<1>21. CASE PdoaReceived
  <2>1. SUFFICES ASSUME state[R] = "PDOA_WAIT_RX_DONE"
                 PROVE  /\ OnSchedule' /\ Gathered'
                        /\ (tx[I] = "sfd" => Prepared)'
                        /\ (Acked(I) \/ state[I] = "WAIT_RESPONDER_READY" => Prepared)'
    BY <1>21, PdoaReceivedEffect DEF Goes, SeriesInStep
  <2>2. /\ OnSchedule /\ Gathered /\ (tx[I] = "sfd" => Prepared)
        /\ Acked(I) \/ state[I] = "WAIT_RESPONDER_READY" => Prepared
    BY <2>1 DEF SeriesInStep
  <2>a. /\ tx[I] # "sfd" /\ ~Acked(I) /\ state[I] # "WAIT_RESPONDER_READY"
        /\ RxSfdDetected = Port /\ RxSfdDetected' # Port /\ next[R] = None
    BY <1>21, <2>2, PdoaReceivedEffect, PortSets DEF Prepared
  <2>b. UNCHANGED <<tx, state, since, timer, Rx0Done>> /\ next'[I] = next[I]
        /\ rxFrame'[I] = rxFrame[I] /\ lost' = lost /\ count'[I] = count[I]
    BY <1>21, PdoaReceivedEffect DEF Goes, Armed0, env
  <2>3. OnSchedule'
    BY <1>21, <2>1, <2>2, PdoaReceivedEffect, Numbers DEF Goes, OnSchedule,
       Acked, Move, Armed0
  <2>4. Gathered'
    <3>1. Begun' = Begun
      BY <2>a, <2>b DEF Begun
    <3>2. next'[R] # None \/ count'[R] = count[R] + 1
      BY <1>21, PdoaReceivedEffect DEF Goes
    <3> QED
      BY <2>2, <2>a, <2>b, <3>1, <3>2, Numbers DEF Gathered
  <2>5. (tx[I] = "sfd" => Prepared)'
    BY <2>a, <2>b
  <2>6. (Acked(I) \/ state[I] = "WAIT_RESPONDER_READY" => Prepared)'
    BY <2>a, <2>b DEF Acked, Move
  <2> QED
    BY ONLY <2>3, <2>4, <2>5, <2>6
<1>22. CASE PdoaPostingProcessing
  BY <1>22, PdoaPostingProcessingEffect DEF Goes, SeriesInStep
<1>23. CASE ResponderTerminate
  BY <1>23, ResponderTerminateEffect DEF Goes, SeriesInStep
<1>24. CASE TimerIrq
  BY <1>24, TimerIrqEffect DEF Goes, SeriesInStep
<1>25. CASE Scheduled(I)
  <2>1. SUFFICES ASSUME state[R] = "PDOA_WAIT_RX_DONE"
                 PROVE  /\ OnSchedule' /\ Gathered'
                        /\ (tx[I] = "sfd" => Prepared)'
                        /\ (Acked(I) \/ state[I] = "WAIT_RESPONDER_READY" => Prepared)'
    BY <1>25, ScheduledEffect DEF Goes, SeriesInStep
  <2>2. /\ OnSchedule /\ Gathered /\ (tx[I] = "sfd" => Prepared)
        /\ Acked(I) \/ state[I] = "WAIT_RESPONDER_READY" => Prepared
    BY <2>1 DEF SeriesInStep
  <2>3. OnSchedule'
    BY <1>25, <2>1, <2>2, ScheduledEffect, Numbers DEF Goes, OnSchedule, Acked,
       Move
  <2>4. Gathered'
    BY <1>25, <2>1, <2>2, ScheduledEffect, Numbers DEF Goes, Gathered, Begun,
       InStep, CountI
  <2>5. (tx[I] = "sfd" => Prepared)'
    BY <1>25, <2>1, <2>2, ScheduledEffect DEF Goes, Prepared
  <2>6. (Acked(I) \/ state[I] = "WAIT_RESPONDER_READY" => Prepared)'
    BY <1>25, <2>1, <2>2, ScheduledEffect DEF Goes, Prepared, Acked, Move
  <2> QED
    BY ONLY <2>3, <2>4, <2>5, <2>6
<1>26. CASE Scheduled(R)
  <2>1. SUFFICES ASSUME state[R] = "PDOA_WAIT_RX_DONE"
                 PROVE  /\ OnSchedule' /\ Gathered'
                        /\ (tx[I] = "sfd" => Prepared)'
                        /\ (Acked(I) \/ state[I] = "WAIT_RESPONDER_READY" => Prepared)'
    BY <1>26, ScheduledEffect DEF Goes, SeriesInStep
  <2>2. /\ OnSchedule /\ Gathered /\ (tx[I] = "sfd" => Prepared)
        /\ Acked(I) \/ state[I] = "WAIT_RESPONDER_READY" => Prepared
    BY <2>1 DEF SeriesInStep
  <2>3. OnSchedule'
    BY <1>26, <2>1, <2>2, ScheduledEffect, Numbers DEF Goes, OnSchedule, Acked,
       Move
  <2>4. Gathered'
    BY <1>26, <2>1, <2>2, ScheduledEffect, Numbers DEF Goes, Gathered, Begun,
       InStep, CountI
  <2>5. (tx[I] = "sfd" => Prepared)'
    BY <1>26, <2>1, <2>2, ScheduledEffect DEF Goes, Prepared
  <2>6. (Acked(I) \/ state[I] = "WAIT_RESPONDER_READY" => Prepared)'
    BY <1>26, <2>1, <2>2, ScheduledEffect DEF Goes, Prepared, Acked, Move
  <2> QED
    BY ONLY <2>3, <2>4, <2>5, <2>6
<1>27. CASE FrameBegins(I)
  <2>1. SUFFICES ASSUME state[R] = "PDOA_WAIT_RX_DONE"
                 PROVE  /\ OnSchedule' /\ Gathered'
                        /\ (tx[I] = "sfd" => Prepared)'
                        /\ (Acked(I) \/ state[I] = "WAIT_RESPONDER_READY" => Prepared)'
    BY <1>27, FrameBeginsEffect DEF Goes, SeriesInStep
  <2>2. /\ OnSchedule /\ Gathered /\ (tx[I] = "sfd" => Prepared)
        /\ Acked(I) \/ state[I] = "WAIT_RESPONDER_READY" => Prepared
    BY <2>1 DEF SeriesInStep
  <2>a. Prepared
    BY <1>27, <2>1, FrameBeginsEffect, AtRest DEF Prepared, InStep, PortsInStep,
       Armed
  <2>b. taking'[R] # {}
    BY <1>27, <2>1, FrameBeginsEffect, PortSets DEF InStep, PortRule
  <2>3. OnSchedule'
    BY <1>27, <2>1, <2>2, FrameBeginsEffect, Numbers DEF Goes, OnSchedule,
       Acked, Move
  <2>4. Gathered'
    <3>1. Begun' = Begun
      BY <1>27, <2>b, FrameBeginsEffect DEF Begun
    <3> QED
      BY <1>27, <2>2, <3>1, FrameBeginsEffect DEF Gathered
  <2>5. (tx[I] = "sfd" => Prepared)'
    BY <1>27, <2>a, FrameBeginsEffect DEF Prepared
  <2>6. (Acked(I) \/ state[I] = "WAIT_RESPONDER_READY" => Prepared)'
    BY <1>27, <2>1, <2>2, FrameBeginsEffect DEF Goes, Prepared, Acked, Move
  <2> QED
    BY ONLY <2>3, <2>4, <2>5, <2>6
<1>28. CASE FrameBegins(R)
  <2>1. SUFFICES ASSUME state[R] = "PDOA_WAIT_RX_DONE"
                 PROVE  /\ OnSchedule' /\ Gathered'
                        /\ (tx[I] = "sfd" => Prepared)'
                        /\ (Acked(I) \/ state[I] = "WAIT_RESPONDER_READY" => Prepared)'
    BY <1>28, FrameBeginsEffect DEF Goes, SeriesInStep
  <2>2. /\ OnSchedule /\ Gathered /\ (tx[I] = "sfd" => Prepared)
        /\ Acked(I) \/ state[I] = "WAIT_RESPONDER_READY" => Prepared
    BY <2>1 DEF SeriesInStep
  <2>3. OnSchedule'
    BY <1>28, <2>1, <2>2, FrameBeginsEffect, Numbers DEF Goes, OnSchedule,
       Acked, Move
  <2>4. Gathered'
    BY <1>28, <2>1, <2>2, FrameBeginsEffect, Numbers DEF Goes, Gathered, Begun,
       InStep, CountI
  <2>5. (tx[I] = "sfd" => Prepared)'
    BY <1>28, <2>1, <2>2, FrameBeginsEffect DEF Goes, Prepared
  <2>6. (Acked(I) \/ state[I] = "WAIT_RESPONDER_READY" => Prepared)'
    BY <1>28, <2>1, <2>2, FrameBeginsEffect DEF Goes, Prepared, Acked, Move
  <2> QED
    BY ONLY <2>3, <2>4, <2>5, <2>6
<1>29. CASE SfdDetected(I)
  <2>1. SUFFICES ASSUME state[R] = "PDOA_WAIT_RX_DONE"
                 PROVE  /\ OnSchedule' /\ Gathered'
                        /\ (tx[I] = "sfd" => Prepared)'
                        /\ (Acked(I) \/ state[I] = "WAIT_RESPONDER_READY" => Prepared)'
    BY <1>29, SfdDetectedEffect DEF Goes, SeriesInStep
  <2>2. /\ OnSchedule /\ Gathered /\ (tx[I] = "sfd" => Prepared)
        /\ Acked(I) \/ state[I] = "WAIT_RESPONDER_READY" => Prepared
    BY <2>1 DEF SeriesInStep
  <2>a. /\ state[I] = "PDOA_WAIT_TX_DONE_N_REPEATED_TX" /\ next[I] = None
    BY <1>29, <2>2, SfdDetectedEffect DEF OnSchedule, Acked, Move, Rules, TxRule
  <2>b. Prepared /\ sfdIrq = Port /\ (taking[R] = {} \/ taking[R] = Port)
    BY <1>29, <2>1, <2>2, SfdDetectedEffect, PortSets
       DEF Prepared, InStep, PortsInStep, PortRule, Armed
  <2>3. OnSchedule'
    BY <1>29, <2>1, <2>2, SfdDetectedEffect, Numbers DEF Goes, OnSchedule,
       Acked, Move
  <2>4. Gathered'
    <3>1. RxSfdDetected' = taking[R]
      BY <1>29, <2>b, SfdDetectedEffect DEF Prepared
    <3>2. Begun = (IF taking[R] = {} THEN count[I] + 1 ELSE count[I])
      BY <1>29, <2>a, SfdDetectedEffect DEF Begun
    <3>3. Begun' = count[I] + 1
      BY <1>29, <2>a, SfdDetectedEffect DEF Begun
    <3>4. RxSfdDetected # Port /\ next'[R] = next[R] /\ count' = count /\ lost' = lost
      BY <1>29, <2>b, SfdDetectedEffect, PortSets DEF Prepared, env
    <3> QED
      BY <2>2, <2>b, <3>1, <3>2, <3>3, <3>4, Numbers, PortSets DEF Gathered,
         Prepared
  <2>5. (tx[I] = "sfd" => Prepared)'
    BY <1>29, <2>1, <2>2, SfdDetectedEffect DEF Goes, Prepared
  <2>6. (Acked(I) \/ state[I] = "WAIT_RESPONDER_READY" => Prepared)'
    BY <1>29, <2>a, SfdDetectedEffect DEF Acked, Move
  <2> QED
    BY ONLY <2>3, <2>4, <2>5, <2>6
<1>30. CASE SfdDetected(R)
  <2>1. SUFFICES ASSUME state[R] = "PDOA_WAIT_RX_DONE"
                 PROVE  /\ OnSchedule' /\ Gathered'
                        /\ (tx[I] = "sfd" => Prepared)'
                        /\ (Acked(I) \/ state[I] = "WAIT_RESPONDER_READY" => Prepared)'
    BY <1>30, SfdDetectedEffect DEF Goes, SeriesInStep
  <2>2. /\ OnSchedule /\ Gathered /\ (tx[I] = "sfd" => Prepared)
        /\ Acked(I) \/ state[I] = "WAIT_RESPONDER_READY" => Prepared
    BY <2>1 DEF SeriesInStep
  <2>3. OnSchedule'
    BY <1>30, <2>1, <2>2, SfdDetectedEffect, Numbers DEF Goes, OnSchedule,
       Acked, Move
  <2>4. Gathered'
    BY <1>30, <2>1, <2>2, SfdDetectedEffect, Numbers DEF Goes, Gathered, Begun,
       InStep, CountI
  <2>5. (tx[I] = "sfd" => Prepared)'
    BY <1>30, <2>1, <2>2, SfdDetectedEffect DEF Goes, Prepared
  <2>6. (Acked(I) \/ state[I] = "WAIT_RESPONDER_READY" => Prepared)'
    BY <1>30, <2>1, <2>2, SfdDetectedEffect DEF Goes, Prepared, Acked, Move
  <2> QED
    BY ONLY <2>3, <2>4, <2>5, <2>6
<1>31. ASSUME NEW u \in BOOLEAN, Sent(I, u), (u /\ UNCHANGED env) \/ Lose(I)
       PROVE  SeriesInStep'
  <2>1. SUFFICES ASSUME state[R] = "PDOA_WAIT_RX_DONE"
                 PROVE  /\ OnSchedule' /\ Gathered'
                        /\ (tx[I] = "sfd" => Prepared)'
                        /\ (Acked(I) \/ state[I] = "WAIT_RESPONDER_READY" => Prepared)'
    BY <1>31, SentEffect DEF Goes, SeriesInStep
  <2>2. /\ OnSchedule /\ Gathered /\ (tx[I] = "sfd" => Prepared)
        /\ Acked(I) \/ state[I] = "WAIT_RESPONDER_READY" => Prepared
    BY <2>1 DEF SeriesInStep
  <2>a. /\ state[I] = "PDOA_WAIT_TX_DONE_N_REPEATED_TX" /\ next[I] = None
    BY <1>31, <2>2, SentEffect DEF OnSchedule, Acked, Move, Rules, TxRule
  <2>b. ahead' = ahead /\ lost'["PDOA"] \in Nat /\ lost'["PDOA"] >= lost["PDOA"]
    BY <1>31, SentEffect, OnlyPdoaIsLost, Numbers DEF OnAir, env
  <2>c. UNCHANGED <<state, next, since, count, timer, RxSfdDetected>>
    BY <1>31, SentEffect DEF loop
  <2>3. OnSchedule'
    BY <2>2, <2>a, <2>c DEF OnSchedule
  <2>4. Gathered'
    <3>1. Begun = count[I] + 1 /\ Begun' = count[I] + 1
      BY <1>31, <2>a, <2>c, SentEffect DEF Begun
    <3> QED
      BY <2>2, <2>b, <2>c, <3>1, Numbers DEF Gathered
  <2>5. (tx[I] = "sfd" => Prepared)'
    BY <1>31, <2>1, <2>2, SentEffect DEF Goes, Prepared
  <2>6. (Acked(I) \/ state[I] = "WAIT_RESPONDER_READY" => Prepared)'
    BY <2>a, <2>c DEF Acked, Move
  <2> QED
    BY ONLY <2>3, <2>4, <2>5, <2>6
<1>32. ASSUME NEW u \in BOOLEAN, Sent(R, u), (u /\ UNCHANGED env) \/ Lose(R)
       PROVE  SeriesInStep'
  <2>1. state[R] # "PDOA_WAIT_RX_DONE"
    BY <1>32, SentEffect, AckIsAwaited DEF OnAir
  <2> QED
    BY <1>32, <2>1, SentEffect DEF SeriesInStep, loop
<1>33. CASE FrameMissed(I)
  <2>1. SUFFICES ASSUME state[R] = "PDOA_WAIT_RX_DONE"
                 PROVE  /\ OnSchedule' /\ Gathered'
                        /\ (tx[I] = "sfd" => Prepared)'
                        /\ (Acked(I) \/ state[I] = "WAIT_RESPONDER_READY" => Prepared)'
    BY <1>33, FrameMissedEffect DEF Goes, SeriesInStep
  <2>2. /\ OnSchedule /\ Gathered /\ (tx[I] = "sfd" => Prepared)
        /\ Acked(I) \/ state[I] = "WAIT_RESPONDER_READY" => Prepared
    BY <2>1 DEF SeriesInStep
  <2>a. /\ state[I] = "PDOA_WAIT_TX_DONE_N_REPEATED_TX" /\ next[I] = None
    BY <1>33, <2>2, FrameMissedEffect DEF OnSchedule, Acked, Move, Rules, TxRule
  <2>b. ahead' = ahead /\ lost'["PDOA"] = lost["PDOA"] + 1 /\ taking[R] # {}
    BY <1>33, <2>a, FrameMissedEffect, OnlyPdoaIsLost, LoseEffect
       DEF OnAir, Rules, KindRule, On
  <2>c. UNCHANGED <<state, next, since, count, timer, tx, RxSfdDetected>>
    BY <1>33, FrameMissedEffect DEF loop, flags
  <2>3. OnSchedule'
    BY <2>2, <2>a, <2>c DEF OnSchedule
  <2>4. Gathered'
    <3>1. Begun = count[I] /\ Begun' = count[I] + 1
      BY <1>33, <2>a, <2>b, <2>c, FrameMissedEffect DEF Begun
    <3> QED
      BY <2>2, <2>b, <2>c, <3>1, Numbers DEF Gathered
  <2>5. (tx[I] = "sfd" => Prepared)'
    BY <1>33, <2>1, <2>2, FrameMissedEffect DEF Goes, Prepared
  <2>6. (Acked(I) \/ state[I] = "WAIT_RESPONDER_READY" => Prepared)'
    BY <1>33, <2>1, <2>2, FrameMissedEffect DEF Goes, Prepared, Acked, Move
  <2> QED
    BY ONLY <2>3, <2>4, <2>5, <2>6
<1>34. CASE FrameMissed(R)
  BY <1>34, FrameMissedEffect, OnlyPdoaIsLost DEF OnAir
<1>35. CASE Tick(I)
  <2>1. SUFFICES ASSUME state[R] = "PDOA_WAIT_RX_DONE"
                 PROVE  /\ OnSchedule' /\ Gathered'
                        /\ (tx[I] = "sfd" => Prepared)'
                        /\ (Acked(I) \/ state[I] = "WAIT_RESPONDER_READY" => Prepared)'
    BY <1>35, TickEffect DEF Goes, SeriesInStep
  <2>2. /\ OnSchedule /\ Gathered /\ (tx[I] = "sfd" => Prepared)
        /\ Acked(I) \/ state[I] = "WAIT_RESPONDER_READY" => Prepared
    BY <2>1 DEF SeriesInStep
  <2>3. OnSchedule'
    <3>1. Settled /\ tx[I] \in {"off", "sent"} /\ lost["PDOA"] <= 1
      BY <1>35, TickEffect DEF Undisturbed
    <3>2. /\ state[I] = "WAIT_RESPONDER_READY" /\ since[I] < TxStartWait
          /\ since[I] >= OverallTimeout - timer + ahead - 1
          /\ timer \in 1..OverallTimeout /\ timer # None
      BY <2>1, <3>1, SeriesAtRest
    <3>3. TxStartWait <= Longest /\ Longest \in Nat
      BY LongestWait
    <3> QED
      BY <1>35, <3>2, <3>3, TickEffect, Numbers DEF OnSchedule
  <2>4. Gathered'
    BY <1>35, <2>1, <2>2, TickEffect, AtRest, SeriesAtRest, Numbers DEF Goes,
       Gathered, Begun, InStep, CountI
  <2>5. (tx[I] = "sfd" => Prepared)'
    BY <1>35, <2>1, <2>2, TickEffect, AtRest, SeriesAtRest DEF Goes, Prepared
  <2>6. (Acked(I) \/ state[I] = "WAIT_RESPONDER_READY" => Prepared)'
    BY <1>35, <2>1, <2>2, TickEffect, AtRest, SeriesAtRest DEF Goes, Prepared,
       Acked, Move
  <2> QED
    BY ONLY <2>3, <2>4, <2>5, <2>6
<1>36. CASE Tick(R)
  <2>1. SUFFICES ASSUME state[R] = "PDOA_WAIT_RX_DONE"
                 PROVE  /\ OnSchedule' /\ Gathered'
                        /\ (tx[I] = "sfd" => Prepared)'
                        /\ (Acked(I) \/ state[I] = "WAIT_RESPONDER_READY" => Prepared)'
    BY <1>36, TickEffect DEF Goes, SeriesInStep
  <2>2. /\ OnSchedule /\ Gathered /\ (tx[I] = "sfd" => Prepared)
        /\ Acked(I) \/ state[I] = "WAIT_RESPONDER_READY" => Prepared
    BY <2>1 DEF SeriesInStep
  <2>3. OnSchedule'
    <3>1. Settled /\ tx[I] \in {"off", "sent"} /\ lost["PDOA"] <= 1
      BY <1>36, TickEffect DEF Undisturbed
    <3>2. /\ state[I] = "WAIT_RESPONDER_READY" /\ since[I] < TxStartWait
          /\ since[I] >= OverallTimeout - timer + ahead - 1
          /\ timer \in 1..OverallTimeout /\ timer # None
      BY <2>1, <3>1, SeriesAtRest
    <3>3. TxStartWait <= Longest /\ Longest \in Nat
      BY LongestWait
    <3> QED
      BY <1>36, <3>2, <3>3, TickEffect, Numbers DEF OnSchedule
  <2>4. Gathered'
    BY <1>36, <2>1, <2>2, TickEffect, AtRest, SeriesAtRest, Numbers DEF Goes,
       Gathered, Begun, InStep, CountI
  <2>5. (tx[I] = "sfd" => Prepared)'
    BY <1>36, <2>1, <2>2, TickEffect, AtRest, SeriesAtRest DEF Goes, Prepared
  <2>6. (Acked(I) \/ state[I] = "WAIT_RESPONDER_READY" => Prepared)'
    BY <1>36, <2>1, <2>2, TickEffect, AtRest, SeriesAtRest DEF Goes, Prepared,
       Acked, Move
  <2> QED
    BY ONLY <2>3, <2>4, <2>5, <2>6
<1>37. reboots \in Nat
  BY LongestWait DEF Types, FlagTypes
<1>38. ASSUME NEW b \in Board, Shared(b) PROVE SeriesInStep'
  BY <1>38, <1>1, <1>2, <1>3, <1>4, <1>5, <1>6, <1>7, <1>8, <1>9, <1>10, <1>11,
     <1>12, <1>13, <1>14 DEF Shared
<1>39. ASSUME NEW b \in Board, Air(b) \/ FrameDamaged(b) \/ FrameMissed(b) \/ Tick(b)
       PROVE  SeriesInStep'
  BY <1>39, <1>25, <1>26, <1>27, <1>28, <1>29, <1>30, <1>31, <1>32, <1>33,
     <1>34,
     <1>35, <1>36 DEF Air, FrameSent, FrameDamaged
<1>40. ASSUME NEW b \in Board, Reboot(b) PROVE SeriesInStep'
  BY <1>37, <1>40 DEF Reboot, Undisturbed
<1> QED
  BY <1>15, <1>16, <1>17, <1>18, <1>19, <1>20, <1>21, <1>22, <1>23, <1>24,
     <1>38,
     <1>39, <1>40, Boards DEF Next, Initiator, Responder, I, R

-----------------------------------------------------------------------------
LEMMA PdoaSlotsKept ==
    ASSUME PdoaSlots, state'[R] = state[R], next'[R] = next[R], count'[R] = count[R],
           UNCHANGED <<slots, cir, RxSfdDetected>>
    PROVE  PdoaSlots'
<1>1. PdoaCir => PdoaCir'
  BY DEF PdoaCir
<1> QED
  BY <1>1 DEF PdoaSlots, Computing, R

LEMMA NextPdoaSlots ==
    ASSUME Types, Rules, InStep, PdoaSlots, MaxLate = 0, Next, Undisturbed'
    PROVE  PdoaSlots'
<1> USE TwoBoards DEF loop, flags, air, env
<1>1. CASE IdleOver(I)
  BY <1>1, IdleOverEffect, PdoaSlotsKept DEF Goes
<1>2. CASE IdleOver(R)
  BY <1>2, IdleOverEffect DEF Goes, PdoaSlots, Computing, R
<1>3. CASE SyncTransmit(I)
  BY <1>3, SyncTransmitEffect, PdoaSlotsKept DEF Goes
<1>4. CASE SyncTransmit(R)
  BY <1>4, SyncTransmitEffect DEF Goes, PdoaSlots, Computing, R
<1>5. CASE SyncTransmitted(I)
  BY <1>5, SyncTransmittedEffect, PdoaSlotsKept DEF Goes
<1>6. CASE SyncTransmitted(R)
  BY <1>6, SyncTransmittedEffect DEF Goes, PdoaSlots, Computing, R
<1>7. CASE SyncReceive(I)
  BY <1>7, SyncReceiveEffect, PdoaSlotsKept DEF Goes
<1>8. CASE SyncReceive(R)
  BY <1>8, SyncReceiveEffect DEF Goes, PdoaSlots, Computing, R
<1>9. CASE SyncTimedOut(I)
  BY <1>9, SyncTimedOutEffect, PdoaSlotsKept DEF Goes
<1>10. CASE SyncTimedOut(R)
  BY <1>10, SyncTimedOutEffect DEF Goes, PdoaSlots, Computing, R
<1>11. CASE SyncReceived(I)
  BY <1>11, SyncReceivedEffect, PdoaSlotsKept DEF Goes
<1>12. CASE SyncReceived(R)
  BY <1>12, SyncReceivedEffect DEF Goes, PdoaSlots, Computing, R
<1>13. CASE EndCase(I)
  BY <1>13, EndCaseEffect, PdoaSlotsKept DEF Goes
<1>14. CASE EndCase(R)
  <2>1. /\ next[R] # None /\ state'[R] = next[R].to /\ next'[R] = None
        /\ UNCHANGED <<count, slots, RxSfdDetected>>
    BY <1>14, EndCaseEffect
  <2>2. CASE next[R].to = "PDOA_WAIT_RX_DONE"
    <3>1. state[R] = "PDOA_RECEIVE" /\ count[R] = 0 /\ RxSfdDetected # Port
      BY <2>1, <2>2, MoveOfR, PortSets DEF Rules, InStep, Counted, PortsInStep
    <3>2. \A j \in Index : ~(j < 0)
      BY DEF Index
    <3> QED
      BY <2>1, <2>2, <3>1, <3>2 DEF PdoaSlots, Computing, R
  <2>3. CASE next[R].to = "PDOA_POSTINGPROCESSING"
    BY <2>1, <2>3, MoveOfR DEF Rules, PdoaSlots, Computing, R
  <2> QED
    BY <2>1, <2>2, <2>3 DEF PdoaSlots, Computing, R
<1>15. CASE ResponderAwaited
  BY <1>15, ResponderAwaitedEffect, PdoaSlotsKept DEF Goes
<1>16. CASE PdoaTransmit
  BY <1>16, PdoaTransmitEffect, PdoaSlotsKept DEF Goes
<1>17. CASE PdoaTransmitted
  BY <1>17, PdoaTransmittedEffect, PdoaSlotsKept DEF Goes
<1>18. CASE InitiatorTerminate
  BY <1>18, InitiatorTerminateEffect, PdoaSlotsKept DEF Goes
<1>19. CASE PdoaPrepare
  BY <1>19, PdoaPrepareEffect DEF Goes, PdoaSlots, Computing, R
<1>20. CASE PdoaReceive
  BY <1>20, PdoaReceiveEffect DEF Goes, PdoaSlots, Computing, R
<1>21. CASE PdoaReceived
  <2>1. PdoaCir
    BY <1>21, PdoaReceivedEffect DEF PdoaSlots
  <2>2. /\ \A j \in Index : j < count[R] => slots[j] \in FrameOf({"PDOA"}, 0..1)
        /\ count[R] \in Index
    BY <1>21, PdoaReceivedEffect DEF PdoaSlots, Types, LoopTypes, R
  <2>3. slots' = [slots EXCEPT ![count[R]] = cir[Rx0]]
        /\ slots \in [Index -> Frame \cup {None, Mixed}]
    BY <1>21, <2>1, PdoaReceivedEffect DEF PdoaCir, StoreCir, Types, LoopTypes
  <2>4. cir[Rx0] \in FrameOf({"PDOA"}, 0..1)
    BY <2>1, PortSets DEF PdoaCir
  <2>5. \A j \in Index : j <= count[R] => slots'[j] \in FrameOf({"PDOA"}, 0..1)
    <3>1. TAKE j \in Index
    <3>2. j < count[R] \/ j = count[R] \/ ~(j <= count[R])
      BY <2>2, PdoaAssumption DEF Index
    <3>3. slots'[j] = IF j = count[R] THEN cir[Rx0] ELSE slots[j]
      BY ONLY <2>3, j \in Index
    <3> QED
      BY ONLY <2>2, <2>4, <3>2, <3>3, j \in Index
  <2>6. state'[R] = "PDOA_WAIT_RX_DONE" /\ RxSfdDetected' # Port
    BY <1>21, PdoaReceivedEffect, PortSets
  <2>7. \A j \in Index : j \in Nat /\ j <= NumOfPackage - 1
    BY LongestWait, PdoaAssumption DEF Index
  <2>8. NumOfPackage \in Nat /\ count[R] \in Nat
    BY <2>2, <2>7, PdoaAssumption
  <2>9. CASE count[R] + 1 < NumOfPackage /\ count'[R] = count[R] + 1 /\ next' = next
    <3>1. next[R] = None
      BY <1>21, PdoaReceivedEffect
    <3>2. \A j \in Index : j < count'[R] => j <= count[R]
      BY ONLY <2>7, <2>8, <2>9
    <3> QED
      BY ONLY <2>5, <2>6, <2>9, <3>1, <3>2 DEF PdoaSlots, Computing, R
  <2>10. CASE count[R] + 1 >= NumOfPackage /\ next'[R] # None
    <3>1. \A j \in Index : j <= count[R]
      BY ONLY <2>7, <2>8, <2>10
    <3> QED
      BY ONLY <2>5, <2>6, <2>10, <3>1 DEF PdoaSlots, Computing, R
  <2> QED
    BY <1>21, <2>9, <2>10, PdoaReceivedEffect DEF Goes
<1>22. CASE PdoaPostingProcessing
  BY <1>22, PdoaPostingProcessingEffect DEF Goes, PdoaSlots, Computing, R
<1>23. CASE ResponderTerminate
  BY <1>23, ResponderTerminateEffect DEF Goes, PdoaSlots, Computing, R
<1>24. CASE TimerIrq
  BY <1>24, TimerIrqEffect DEF PdoaSlots, Computing, R
<1>25. CASE Scheduled(I)
  BY <1>25, ScheduledEffect, PdoaSlotsKept DEF Goes
<1>26. CASE Scheduled(R)
  BY <1>26, ScheduledEffect, PdoaSlotsKept DEF Goes
<1>27. CASE FrameBegins(I)
  BY <1>27, FrameBeginsEffect, PdoaSlotsKept DEF Goes
<1>28. CASE FrameBegins(R)
  BY <1>28, FrameBeginsEffect, PdoaSlotsKept DEF Goes
<1>29. CASE SfdDetected(I)
  <2>1. CASE state[R] = "PDOA_WAIT_RX_DONE"
    <3>1. tx[I] = "sfd" /\ RxSfdDetected = {} /\ next[R] = None
      BY <1>29, <2>1, SfdDetectedEffect DEF InStep, SeriesInStep, Prepared
    <3>2. state[I] = "PDOA_WAIT_TX_DONE_N_REPEATED_TX"
      BY <2>1, <3>1 DEF InStep, SeriesInStep, OnSchedule, Acked, Move, Rules,
         TxRule
    <3>3. txFrame[I] \in FrameOf({"PDOA"}, 0..1)
      <4>1. txFrame[I] \in Frame /\ txFrame[I][1] = "PDOA"
        BY <3>1, <3>2, Boards DEF Rules, KindRule, On, Types, HasFrame, I
      <4> QED
        BY <4>1 DEF Frame, FrameOf
    <3>4. RxSfdDetected' = Port => taking[R] = Port
      BY <1>29, <2>1, <3>1, SfdDetectedEffect, PortSets DEF InStep, PortRule
    <3>5. RxSfdDetected' = Port => PdoaCir'
      BY <1>29, <3>3, <3>4, SfdDetectedEffect, PortSets DEF PdoaCir
    <3> QED
      BY <1>29, <2>1, <3>1, <3>5, SfdDetectedEffect DEF PdoaSlots, Computing, R
  <2>2. CASE state[R] # "PDOA_WAIT_RX_DONE"
    BY <1>29, <2>2, SfdDetectedEffect DEF PdoaSlots, Computing, R
  <2> QED
    BY <2>1, <2>2
<1>30. CASE SfdDetected(R)
  BY <1>30, SfdDetectedEffect, PdoaSlotsKept DEF Goes
<1>31. ASSUME NEW u \in BOOLEAN, Sent(I, u), (u /\ UNCHANGED env) \/ Lose(I)
       PROVE  PdoaSlots'
  BY <1>31, SentEffect, PdoaSlotsKept DEF Goes
<1>32. ASSUME NEW u \in BOOLEAN, Sent(R, u), (u /\ UNCHANGED env) \/ Lose(R)
       PROVE  PdoaSlots'
  BY <1>32, SentEffect, PdoaSlotsKept DEF Goes
<1>33. CASE FrameMissed(I)
  BY <1>33, FrameMissedEffect, PdoaSlotsKept DEF Goes
<1>34. CASE FrameMissed(R)
  BY <1>34, FrameMissedEffect, PdoaSlotsKept DEF Goes
<1>35. CASE Tick(I)
  BY <1>35, TickEffect, PdoaSlotsKept DEF Goes
<1>36. CASE Tick(R)
  BY <1>36, TickEffect, PdoaSlotsKept DEF Goes
<1>37. reboots \in Nat
  BY LongestWait DEF Types, FlagTypes
<1>38. ASSUME NEW b \in Board, Shared(b) PROVE PdoaSlots'
  BY <1>38, <1>1, <1>2, <1>3, <1>4, <1>5, <1>6, <1>7, <1>8, <1>9, <1>10, <1>11,
     <1>12, <1>13, <1>14 DEF Shared
<1>39. ASSUME NEW b \in Board, Air(b) \/ FrameDamaged(b) \/ FrameMissed(b) \/ Tick(b)
       PROVE  PdoaSlots'
  BY <1>39, <1>25, <1>26, <1>27, <1>28, <1>29, <1>30, <1>31, <1>32, <1>33,
     <1>34,
     <1>35, <1>36 DEF Air, FrameSent, FrameDamaged
<1>40. ASSUME NEW b \in Board, Reboot(b) PROVE PdoaSlots'
  BY <1>37, <1>40 DEF Reboot, Undisturbed
<1> QED
  BY <1>15, <1>16, <1>17, <1>18, <1>19, <1>20, <1>21, <1>22, <1>23, <1>24,
     <1>38,
     <1>39, <1>40, Boards DEF Next, Initiator, Responder, I, R

(* Losses and resets are never undone.                                     *)
LEMMA DisturbancesGrow ==
    ASSUME Types, FlagTypes', Next, Undisturbed'
    PROVE  Undisturbed
<1>1. reboots = 0
  BY RebootsGrow DEF Undisturbed
<1> DEFINE Kept == \A k \in Kind : lost[k] <= lost'[k]
<1>2. /\ \A k \in Kind : lost[k] \in Nat /\ lost'[k] \in Nat
      /\ lost \in [Kind -> 0..MaxLost]
  BY LongestWait DEF Types, FlagTypes
<1>3. ASSUME lost' = lost PROVE Kept
  BY <1>2, <1>3
<1>4. ASSUME NEW b \in Board, Shared(b) PROVE lost' = lost
  BY <1>4 DEF Shared, IdleOver, SyncTransmit, SyncTransmitted, SyncReceive,
     SyncTimedOut, SyncReceived, EndCase, env
<1>5. ASSUME Initiator \/ Responder \/ TimerIrq PROVE lost' = lost
  BY <1>4, <1>5, Boards DEF Initiator, Responder, ResponderAwaited,
     PdoaTransmit,
     PdoaTransmitted, InitiatorTerminate, PdoaPrepare, PdoaReceive, PdoaReceived,
     PdoaPostingProcessing, ResponderTerminate, TimerIrq, env
<1>6. ASSUME NEW b \in Board, Air(b) \/ Tick(b) \/ Reboot(b) PROVE lost' = lost
  BY <1>6 DEF Air, Scheduled, FrameBegins, SfdDetected, FrameSent, Tick, Reboot,
     env
<1>7. ASSUME NEW b \in Board, FrameDamaged(b) \/ FrameMissed(b) PROVE Kept
  <2>1. lost' = [lost EXCEPT ![txFrame[b][1]] = lost[txFrame[b][1]] + 1]
    BY <1>7 DEF FrameDamaged, FrameMissed, Lose
  <2> QED
    BY <1>2, <2>1
<1>8. Kept
  BY <1>3, <1>5, <1>6, <1>7 DEF Next
<1>9. lost["ACK"] <= lost'["ACK"] /\ lost["PDOA"] <= lost'["PDOA"]
      /\ lost["ACK"] \in Nat /\ lost["PDOA"] \in Nat
      /\ lost'["PDOA"] \in Nat /\ lost'["ACK"] \in Nat
  BY <1>2, <1>8 DEF Kind
<1> QED
  BY <1>1, <1>9 DEF Undisturbed
-----------------------------------------------------------------------------
LEMMA InitInStep == Init => InStep
BY TwoBoards, NoneIsNoKind, LongestWait
   DEF Init, InStep, Counted, CountI, PortRule, PortsInStep, Clean, AckInStep,
       Answered, SeriesInStep, PdoaSlots, Computing, OnAir, Port, Rx0, I, R, Board,
       FirstState

LEMMA StutterInStep ==
    ASSUME InStep, UNCHANGED vars
    PROVE  InStep'
<1> USE DEF vars, loop, flags, air, env
<1>1. (timer # 0)' /\ Counted' /\ CountI' /\ PortRule'
  BY DEF InStep, Counted, CountI, PortRule
<1>2. PortsInStep'
  BY DEF InStep, PortsInStep, Armed, Clean
<1>3. AckInStep'
  BY DEF InStep, AckInStep, Answered, Acked, Move
<1>4. SeriesInStep'
  BY DEF InStep, SeriesInStep, OnSchedule, Gathered, Begun, Prepared, Acked,
     Move
<1>5. PdoaSlots'
  BY DEF InStep, PdoaSlots, PdoaCir, Computing
<1> QED
  BY ONLY <1>1, <1>2, <1>3, <1>4, <1>5 DEF InStep

(* The boards stay in step as long as neither is reset, no ACK is lost and *)
(* at most one PDOA frame is.                                              *)
LEMMA StaysInStep ==
    ASSUME MaxLate = 0, NumOfPackage <= RepeatedTx, TxStartWait + 1 < OverallTimeout
    PROVE  Spec => [](PdoaInv /\ (Undisturbed => Rules /\ InStep))
<1> DEFINE Inv == PdoaInv /\ (Undisturbed => Rules /\ InStep)
<1>1. Init => Inv
  BY InitPdoaInv, InitRules, InitInStep
<1>2. Inv /\ PdoaInv' /\ [Next]_vars => Inv'
  <2>1. SUFFICES ASSUME Inv, PdoaInv', [Next]_vars, Undisturbed'
                 PROVE  (Rules /\ InStep)'
    OBVIOUS
  <2>2. CASE UNCHANGED vars
    <3>1. Undisturbed
      BY <2>1, <2>2 DEF vars, env, Undisturbed
    <3>2. Rules /\ InStep
      BY <2>1, <3>1
    <3> QED
      BY <2>2, <3>2, StutterRules, StutterInStep
  <2>3. CASE Next
    <3>1. Types /\ FlagTypes'
      BY <2>1, Parts DEF PdoaInv, Types, TypeOK, FlagTypes
    <3>2. Undisturbed
      BY <2>1, <2>3, <3>1, DisturbancesGrow
    <3>3. Rules /\ InStep
      BY <2>1, <3>2
    <3>4. reboots' = 0
      BY <2>1 DEF Undisturbed
    <3>5. Rules' /\ Counted' /\ PortRule'
      BY <2>3, <3>1, <3>3, <3>4, NextRules, NextCounted, NextPortRule DEF InStep
    <3>6. CountI' /\ PortsInStep' /\ AckInStep'
      BY <2>1, <2>3, <3>1, <3>3, NextCountI, NextPortsInStep,
         NextAckInStep DEF InStep
    <3>7. timer' # 0 /\ SeriesInStep' /\ PdoaSlots'
      BY <2>1, <2>3, <3>1, <3>3, NextTimerRuns, NextSeriesInStep, NextPdoaSlots
         DEF InStep
    <3> QED
      BY ONLY <3>5, <3>6, <3>7 DEF InStep
  <2> QED
    BY <2>1, <2>2, <2>3
<1> QED
  BY <1>1, <1>2, Inductive, PTL DEF Spec

(* One frame is sent more than the responder waits for, and one lost frame *)
(* is made up for by it: the overall timer does not expire before the      *)
(* series is complete (DEF_NUMBER_OF_PDOA_REPEATED_TX,                     *)
(* DEF_PDOA_OVERALL_PROCESS_TIMEOUT_MS).  It has to run longer than the    *)
(* initiator waits before its first frame.                                 *)
THEOREM SeriesHasSpareFrame ==
    ASSUME MaxLate = 0, NumOfPackage <= RepeatedTx, TxStartWait + 1 < OverallTimeout
    PROVE  Spec => []FrameToSpare
<1>1. PdoaInv /\ (Undisturbed => Rules /\ InStep) => FrameToSpare
  <2>1. SUFFICES ASSUME PdoaInv, Undisturbed => Rules /\ InStep,
                        timer = 0, reboots = 0, ~(lost["ACK"] > 0), ~(lost["PDOA"] > 1)
                 PROVE  FALSE
    BY DEF FrameToSpare
  <2>2. Undisturbed
    BY <2>1, Numbers, Parts DEF Undisturbed, PdoaInv, Types
  <2> QED
    BY <2>1, <2>2 DEF InStep
<1> QED
  BY <1>1, StaysInStep, PTL

(* "Receive the PDOA packets": with one of them lost or not, the angles    *)
(* are those of PDOA frames, and not of a SYNC that is sent again          *)
(* (EN_APP_STATE_PDOA_WAIT_RX_DONE).                                       *)
THEOREM AnglesFromPdoaFrames ==
    ASSUME MaxLate = 0, NumOfPackage <= RepeatedTx, TxStartWait + 1 < OverallTimeout
    PROVE  Spec => []FromPdoaFrames
<1>1. PdoaInv /\ (Undisturbed => Rules /\ InStep) => FromPdoaFrames
  BY DEF FromPdoaFrames, Undisturbed, InStep, PdoaSlots, Index
<1> QED
  BY <1>1, StaysInStep, PTL
==============================================================================
