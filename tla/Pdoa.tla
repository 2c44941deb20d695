-------------------------------- MODULE Pdoa --------------------------------
(***************************************************************************)
(* Phase difference of arrival: the examples uwb_pdoa_initiator and        *)
(* uwb_pdoa_responder on two boards in radio range.  The initiator sends   *)
(* SYNC until it has an ACK, gives the responder time to get ready, and    *)
(* sends a series of PDOA frames.  The responder takes down the channel's  *)
(* impulse response (CIR) of each at all its antennas, one port of the     *)
(* receiver each, and computes angles from NumOfPackage of them.  Nothing  *)
(* but the start of a frame (its SFD) is waited for, so that any frame     *)
(* will do.  A 10 ms timer ends a series that does not come.               *)
(*                                                                         *)
(* State names are those of the code without EN_APP_STATE_.  Time passes   *)
(* as in module DsTwr, whose two-step cases and fair scheduling are also   *)
(* used here.  A frame comes to all ports that listen, or to none.         *)
(***************************************************************************)
EXTENDS Integers

CONSTANTS
    None,
    NumOfPackage,        \* DEF_NUMBER_OF_PDOA_REPEATED_RX
    RepeatedTx,          \* DEF_NUMBER_OF_PDOA_REPEATED_TX
    CycleTime,           \* DEF_PDOA_APP_CYCLE_TIME_MS, of each board
    SyncTimeout,         \* DEF_PDOA_SYNC_ACK_TIMEOUT_MS of the initiator,
                         \* DEF_PDOA_SYNC_RX_RESTART_TIMEOUT_MS
    TxStartWait,         \* DEF_PDOA_TX_START_WAIT_TIME_MS
    OverallTimeout,      \* DEF_PDOA_OVERALL_PROCESS_TIMEOUT_MS
    RunOn,               \* a port that is not ended receives again when the
                         \* receiver is next switched on for another one
    MaxLost,             \* bound on frames that are lost or damaged
    MaxLate,             \* bound on ticks that find a board still busy
    MaxReboots           \* bound on boards being reset

Rx0 == "RX_0"
Port == {Rx0, "RX_1", "RX_2"}     \* the receiver's; Rx0 is also used alone
Board == {"initiator", "responder"}
Peer(b) == IF b = "initiator" THEN "responder" ELSE "initiator"

ASSUME PdoaAssumption ==
    /\ {NumOfPackage, TxStartWait, OverallTimeout} \subseteq Nat \ {0}
    /\ {CycleTime, SyncTimeout} \subseteq [Board -> Nat \ {0}]
    /\ RunOn \in BOOLEAN
    /\ {RepeatedTx, MaxLost, MaxLate, MaxReboots} \subseteq Nat

VARIABLES
    state,          \* s_enAppPdoaInitiatorState, s_enAppPdoaResponderState
    next,           \* what the case in progress will do at its end
    since,          \* ticks since startTime or iterationTime
    count,          \* s_countOfPdoaScheduledTx, s_countOfPdoaScheduledRx
    cycle, sent,    \* cycles the initiator has ended, and frames it has
                    \* started to send, each modulo 2: they label its frames
    timer,          \* ticks until timer 0 interrupts, or None
    bypass,         \* s_stRxCfg_CfoGainBypass: gain and CFO are fixed
    slots,          \* g_stPdoaRxCirDataContainer
    TxDone, Rx0Done, RxSfdDetected,    \* s_stIrqStatus
    sfdIrq,         \* ports whose SFD interrupt is enabled
    ports,          \* ports each board has started and not ended
    cir,            \* the frame whose CIR a port of the responder holds,
                    \* None again once it has been taken down
    tx, txFrame,    \* what each transmitter does, and sends
    taking,         \* ports that are receiving the frame on the air
    rxFrame,        \* the frame in each board's receive memory
    ahead, lost, late, reboots

loop == <<state, next, since, count, cycle, sent, timer, bypass, slots>>
flags == <<TxDone, Rx0Done, RxSfdDetected>>
air == <<sfdIrq, ports, cir, tx, txFrame, taking, rxFrame>>
env == <<ahead, lost, late, reboots>>
vars == <<loop, flags, air, env>>

Kind == {"SYNC", "ACK", "PDOA"}
Frame == Kind \X (0..1) \X (0..1)
Mixed == <<"mixed", 0, 0>>   \* parts of different frames
State == {"IDLE", "SYNC_TRANSMIT", "SYNC_WAIT_TX_DONE", "SYNC_RECEIVE",
          "SYNC_WAIT_RX_DONE", "WAIT_RESPONDER_READY", "PDOA_TRANSMIT",
          "PDOA_WAIT_TX_DONE_N_REPEATED_TX", "PDOA_PREPARE", "PDOA_RECEIVE",
          "PDOA_WAIT_RX_DONE", "PDOA_POSTINGPROCESSING", "TERMINATE"}
Index == 0..(NumOfPackage - 1)

ASSUME NoneAssumption ==
    /\ None \notin Kind /\ None \notin 0..OverallTimeout
    /\ None \notin [to : State, end : SUBSET (Port \cup {"tx"})]

(* The waits that are measured, and how long each is.                      *)
Waits(b) == [IDLE |-> CycleTime[b],
             SYNC_WAIT_RX_DONE |-> SyncTimeout[b],
             WAIT_RESPONDER_READY |-> TxStartWait]
Longest == LET waits == UNION {{CycleTime[b], SyncTimeout[b], TxStartWait} :
                                  b \in Board}
           IN  CHOOSE t \in waits : \A w \in waits : w <= t

TypeOK ==
    /\ state \in [Board -> State]
    /\ next \in [Board -> {None} \cup
                    [to : State, end : SUBSET (Port \cup {"tx"})]]
    /\ since \in [Board -> 0..Longest]
    /\ count["initiator"] \in 0..RepeatedTx /\ count["responder"] \in Index
    /\ DOMAIN count = Board
    /\ cycle \in 0..1 /\ sent \in 0..1
    /\ timer \in 0..OverallTimeout \cup {None}
    /\ bypass \in BOOLEAN
    /\ slots \in [Index -> Frame \cup {None, Mixed}]
    /\ {TxDone, Rx0Done} \subseteq [Board -> BOOLEAN]
    /\ RxSfdDetected \subseteq Port /\ sfdIrq \subseteq Port
    /\ ports \in [Board -> SUBSET Port]
    /\ cir \in [Port -> Frame \cup {None}]
    /\ tx \in [Board -> {"off", "later", "preamble", "sfd", "data", "sent"}]
    /\ txFrame \in [Board -> Frame \cup {None}]
    /\ taking \in [Board -> SUBSET Port]
    /\ rxFrame \in [Board -> Kind \cup {None}]
    /\ ahead \in -1..1 /\ lost \in [Kind -> 0..MaxLost]
    /\ late \in 0..MaxLate /\ reboots \in 0..MaxReboots

FirstState == [initiator |-> "SYNC_TRANSMIT", responder |-> "SYNC_RECEIVE"]
NoCir == [i \in Index |-> None]

Init == /\ state = FirstState
        /\ next = [b \in Board |-> None]
        /\ since = [b \in Board |-> 0]
        /\ count = [b \in Board |-> 0]
        /\ cycle = 0 /\ sent = 0 /\ timer = None /\ bypass = FALSE /\ slots = NoCir
        /\ TxDone = [b \in Board |-> FALSE]
        /\ Rx0Done = [b \in Board |-> FALSE]
        /\ RxSfdDetected = {} /\ sfdIrq = {}
        /\ ports = [b \in Board |-> {}]
        /\ cir = [p \in Port |-> None]
        /\ tx = [b \in Board |-> "off"]
        /\ txFrame = [b \in Board |-> None]
        /\ taking = [b \in Board |-> {}]
        /\ rxFrame = [b \in Board |-> None]
        /\ ahead = 0 /\ lost = [k \in Kind |-> 0] /\ late = 0 /\ reboots = 0
-----------------------------------------------------------------------------
(* The main loops.                                                         *)
(* Mutant: the ACK is waited for for ever.                                 *)
ElapsedNotAck(b) == /\ state[b] \in DOMAIN Waits(b)
                    /\ since[b] >= Waits(b)[state[b]]
                    /\ state[b] # "SYNC_WAIT_RX_DONE" \/ b = "responder"

Elapsed(b) == /\ state[b] \in DOMAIN Waits(b)
              /\ since[b] >= Waits(b)[state[b]]

Ready(b) ==
    /\ next[b] = None
    /\ \/ state[b] \in {"SYNC_TRANSMIT", "SYNC_RECEIVE", "PDOA_TRANSMIT",
                        "PDOA_PREPARE", "PDOA_RECEIVE",
                        "PDOA_POSTINGPROCESSING", "TERMINATE"}
       \/ Elapsed(b)
       \/ state[b] = "SYNC_WAIT_RX_DONE" /\ Rx0Done[b]
       \/ /\ state[b] \in {"SYNC_WAIT_TX_DONE",
                           "PDOA_WAIT_TX_DONE_N_REPEATED_TX"}
          /\ TxDone[b]
       \/ state[b] = "PDOA_WAIT_RX_DONE" /\ RxSfdDetected = Port

In(b, s) == Ready(b) /\ state[b] = s

(* The case ends ports, and the transmitter, and goes to another state.    *)
Go(b, to, end) == next' = [next EXCEPT ![b] = [to |-> to, end |-> end]]

EndCase(b) ==
    /\ next[b] # None
    /\ state' = [state EXCEPT ![b] = next[b].to]
    /\ next' = [next EXCEPT ![b] = None]
    /\ since' = [since EXCEPT ![b] = 0]
    /\ ports' = [ports EXCEPT ![b] = @ \ next[b].end]
    /\ tx' = [tx EXCEPT ![b] = IF "tx" \in next[b].end THEN "off" ELSE @]
    /\ taking' = [taking EXCEPT ![b] = @ \ next[b].end]
    /\ UNCHANGED <<count, cycle, sent, timer, bypass, slots, flags, sfdIrq, cir,
                   txFrame, rxFrame, env>>

IdleOver(b) == /\ In(b, "IDLE")
               /\ Go(b, FirstState[b], {})
               /\ UNCHANGED <<state, since, count, cycle, sent, timer, bypass, slots,
                              flags, air, env>>

(* cb_framework_uwb_tx_start.                                              *)
TxStart(b, kind, when) ==
    /\ tx' = [tx EXCEPT ![b] = when]
    /\ txFrame' = [txFrame EXCEPT ![b] = <<kind, cycle, sent>>]
    /\ sent' = IF b = "initiator" THEN 1 - sent ELSE sent

SyncTransmit(b) ==
    /\ In(b, "SYNC_TRANSMIT")
    /\ TxStart(b, IF b = "initiator" THEN "SYNC" ELSE "ACK", "preamble")
    /\ Go(b, "SYNC_WAIT_TX_DONE", {})
    /\ UNCHANGED <<state, since, count, cycle, timer, bypass, slots, flags,
                   sfdIrq, ports, cir, taking, rxFrame, env>>

SyncTransmitted(b) ==
    /\ In(b, "SYNC_WAIT_TX_DONE")
    /\ TxDone' = [TxDone EXCEPT ![b] = FALSE]
    /\ Go(b, IF b = "initiator" THEN "SYNC_RECEIVE" ELSE "PDOA_PREPARE", {"tx"})
    /\ UNCHANGED <<state, since, count, cycle, sent, timer, bypass, slots, Rx0Done,
                   RxSfdDetected, air, env>>

(* cb_framework_uwb_rx_start; SFD interrupts stay as they are.             *)
SyncReceive(b) ==
    /\ In(b, "SYNC_RECEIVE")
    /\ ports' = [ports EXCEPT ![b] = @ \cup {Rx0}]
    /\ rxFrame' = [rxFrame EXCEPT ![b] = None]
    /\ Go(b, "SYNC_WAIT_RX_DONE", {})
    /\ UNCHANGED <<state, since, count, cycle, sent, timer, bypass, slots, flags,
                   sfdIrq, cir, tx, txFrame, taking, env>>

SyncTimedOut(b) ==
    /\ In(b, "SYNC_WAIT_RX_DONE") /\ Elapsed(b)
    /\ Go(b, FirstState[b], {Rx0})
    /\ UNCHANGED <<state, since, count, cycle, sent, timer, bypass, slots, flags,
                   air, env>>

(* app_pdoa_validate_sync_ack_payload                                      *)
Valid(b) == rxFrame[b] = IF b = "initiator" THEN "ACK" ELSE "SYNC"

SyncReceived(b) ==
    /\ In(b, "SYNC_WAIT_RX_DONE") /\ ~Elapsed(b)
    /\ Rx0Done' = [Rx0Done EXCEPT ![b] = FALSE]
    /\ Go(b, IF ~Valid(b) THEN FirstState[b]
             ELSE IF b = "initiator" THEN "WAIT_RESPONDER_READY"
             ELSE "SYNC_TRANSMIT", {Rx0})
    /\ UNCHANGED <<state, since, count, cycle, sent, timer, bypass, slots, TxDone,
                   RxSfdDetected, air, env>>
-----------------------------------------------------------------------------
(* The initiator's PDOA frames.                                            *)
ResponderAwaited ==
    /\ In("initiator", "WAIT_RESPONDER_READY")
    /\ Go("initiator", "PDOA_TRANSMIT", {})
    /\ UNCHANGED <<state, since, count, cycle, sent, timer, bypass, slots, flags,
                   air, env>>

PdoaTransmit ==
    /\ In("initiator", "PDOA_TRANSMIT")
    /\ TxStart("initiator", "PDOA", "preamble")
    /\ Go("initiator", "PDOA_WAIT_TX_DONE_N_REPEATED_TX", {})
    /\ UNCHANGED <<state, since, count, cycle, timer, bypass, slots, flags,
                   sfdIrq, ports, cir, taking, rxFrame, env>>

(* Mutant: one frame less.                                                 *)
MoreTxLess == count["initiator"] + 1 < RepeatedTx

MoreTx == count["initiator"] + 1 <= RepeatedTx

(* The absolute timer starts the next frame a while after the last.        *)
PdoaTransmitted ==
    /\ In("initiator", "PDOA_WAIT_TX_DONE_N_REPEATED_TX")
    /\ TxDone' = [TxDone EXCEPT !["initiator"] = FALSE]
    /\ IF MoreTx
         THEN /\ count' = [count EXCEPT !["initiator"] = @ + 1]
              /\ TxStart("initiator", "PDOA", "later")
              /\ UNCHANGED next
         ELSE /\ count' = [count EXCEPT !["initiator"] = 0]
              /\ Go("initiator", "TERMINATE", {"tx"})
              /\ UNCHANGED <<tx, txFrame, sent>>
    /\ UNCHANGED <<state, since, cycle, timer, bypass, slots, Rx0Done,
                   RxSfdDetected, sfdIrq, ports, cir, taking, rxFrame, env>>

InitiatorTerminate ==
    /\ In("initiator", "TERMINATE")
    /\ cycle' = 1 - cycle
    /\ Go("initiator", "IDLE", {})
    /\ UNCHANGED <<state, since, count, sent, timer, bypass, slots, flags, air, env>>
-----------------------------------------------------------------------------
(* The responder's.                                                        *)
PdoaPrepare ==
    /\ In("responder", "PDOA_PREPARE")
    /\ timer' = OverallTimeout
    /\ bypass' = TRUE
    /\ Go("responder", "PDOA_RECEIVE", {})
    /\ UNCHANGED <<state, since, count, cycle, sent, slots, flags, air, env>>

(* cb_framework_uwb_rx_start with EN_UWB_RX_ALL, or ..._rx_restart.        *)
RxAll == /\ ports' = [ports EXCEPT !["responder"] = Port]
         /\ sfdIrq' = Port
         /\ taking' = [taking EXCEPT !["responder"] = {}]
         /\ rxFrame' = [rxFrame EXCEPT !["responder"] = None]

PdoaReceive ==
    /\ In("responder", "PDOA_RECEIVE")
    /\ RxAll
    /\ Go("responder", "PDOA_WAIT_RX_DONE", {})
    /\ UNCHANGED <<state, since, count, cycle, sent, timer, bypass, slots, flags, cir,
                   tx, txFrame, env>>

(* cb_framework_uwb_pdoa_store_cir_data                                    *)
StoreCir(i) == slots' = [slots EXCEPT ![i] =
                           IF \A p \in Port : cir[p] = cir[Rx0] THEN cir[Rx0]
                                                                ELSE Mixed]

(* Mutant: a slot too many.                                                *)
MoreRxOver == count["responder"] + 1 <= NumOfPackage

MoreRx == count["responder"] + 1 < NumOfPackage

PdoaReceived ==
    /\ In("responder", "PDOA_WAIT_RX_DONE")
    /\ RxSfdDetected' = {}
    /\ StoreCir(count["responder"])
    /\ cir' = [p \in Port |-> None]
    /\ IF MoreRx
         THEN /\ count' = [count EXCEPT !["responder"] = @ + 1]
              /\ RxAll
              /\ UNCHANGED <<bypass, next>>
         ELSE /\ count' = [count EXCEPT !["responder"] = 0]
              /\ bypass' = FALSE
              /\ Go("responder", "PDOA_POSTINGPROCESSING", Port)
              /\ UNCHANGED <<ports, sfdIrq, taking, rxFrame>>
    /\ UNCHANGED <<state, since, cycle, sent, timer, TxDone, Rx0Done, tx, txFrame,
                   env>>

(* The result is computed from the slots and printed.                      *)
PdoaPostingProcessing ==
    /\ In("responder", "PDOA_POSTINGPROCESSING")
    /\ Go("responder", "TERMINATE", {})
    /\ UNCHANGED <<state, since, count, cycle, sent, timer, bypass, slots, flags,
                   air, env>>

(* Mutant: the count of a series that was broken off is kept.              *)
ResetKeepsCount == /\ slots' = NoCir
                   /\ RxSfdDetected' = {}
                   /\ bypass' = FALSE
                   /\ UNCHANGED count

(* Mutant: the gain of a series that was broken off is kept.               *)
ResetKeepsGain == /\ slots' = NoCir
                  /\ RxSfdDetected' = {}
                  /\ count' = [count EXCEPT !["responder"] = 0]
                  /\ UNCHANGED bypass

(* app_pdoa_reset, but for cb_framework_uwb_tx_end and ..._rx_end of port  *)
(* 0, its last calls but one; TxDone and Rx0Done are reset as well.        *)
Reset == /\ slots' = NoCir
         /\ RxSfdDetected' = {}
         /\ count' = [count EXCEPT !["responder"] = 0]
         /\ bypass' = FALSE

ResponderTerminate ==
    /\ In("responder", "TERMINATE")
    /\ timer' = None
    /\ TxDone' = [TxDone EXCEPT !["responder"] = FALSE]
    /\ Rx0Done' = [Rx0Done EXCEPT !["responder"] = FALSE]
    /\ Reset
    /\ Go("responder", "IDLE", {"tx", Rx0})
    /\ UNCHANGED <<state, since, cycle, sent, air, env>>

(* cb_timer_0_app_irq_callback                                             *)
TimerIrq == /\ timer = 0
            /\ timer' = None
            /\ state' = [state EXCEPT !["responder"] = "TERMINATE"]
            /\ UNCHANGED <<next, since, count, cycle, sent, bypass, slots, flags,
                           air, env>>

Shared(b) == \/ IdleOver(b) \/ SyncTransmit(b) \/ SyncTransmitted(b)
             \/ SyncReceive(b) \/ SyncTimedOut(b) \/ SyncReceived(b)
             \/ EndCase(b)
Initiator == \/ Shared("initiator") \/ ResponderAwaited \/ PdoaTransmit
             \/ PdoaTransmitted \/ InitiatorTerminate
Responder == \/ Shared("responder") \/ PdoaPrepare \/ PdoaReceive
             \/ PdoaReceived \/ PdoaPostingProcessing \/ ResponderTerminate
-----------------------------------------------------------------------------
(* The radio.  The main loops keep up with the frames.                     *)
Settled == (\A b \in Board : next[b] = None /\ ~Ready(b)) /\ timer # 0

Scheduled(b) == /\ Settled
                /\ tx[b] = "later"
                /\ tx' = [tx EXCEPT ![b] = "preamble"]
                /\ UNCHANGED <<loop, flags, sfdIrq, ports, cir, txFrame, taking,
                               rxFrame, env>>

(* A frame begins.  The receiver is on while port 0 is started.            *)
FrameBegins(b) ==
    /\ Settled
    /\ tx[b] = "preamble"
    /\ tx' = [tx EXCEPT ![b] = "sfd"]
    /\ LET c == Peer(b)
           all == RunOn \/ state[c] = "PDOA_WAIT_RX_DONE"
       IN  taking' = [taking EXCEPT ![c] = IF Rx0 \notin ports[c] THEN {}
                                           ELSE IF all THEN ports[c] ELSE {Rx0}]
    /\ UNCHANGED <<loop, flags, sfdIrq, ports, cir, txFrame, rxFrame, env>>

(* cb_uwbapp_rx0_sfd_detected_irqcb and those of the other ports; each     *)
(* interrupt disables itself.                                              *)
SfdDetected(b) ==
    /\ tx[b] = "sfd"
    /\ tx' = [tx EXCEPT ![b] = "data"]
    /\ LET heard == IF b = "initiator" THEN taking["responder"] ELSE {}
       IN  /\ cir' = [p \in Port |-> IF p \in heard THEN txFrame[b] ELSE cir[p]]
           /\ RxSfdDetected' = RxSfdDetected \cup (heard \cap sfdIrq)
           /\ sfdIrq' = sfdIrq \ heard
    /\ UNCHANGED <<loop, TxDone, Rx0Done, ports, txFrame, taking, rxFrame, env>>

(* cb_uwbapp_tx_done_irqhandler and, at the peer, cb_uwbapp_rx0_done_irqcb,*)
(* which is enabled in the synchronization.                                *)
Sent(b, undamaged) ==
    /\ tx[b] = "data"
    /\ tx' = [tx EXCEPT ![b] = "sent"]
    /\ txFrame' = [txFrame EXCEPT ![b] = None]
    /\ TxDone' = [TxDone EXCEPT ![b] = TRUE]
    /\ LET c == Peer(b)
           gets == Rx0 \in taking[c]
       IN  /\ Rx0Done' = [Rx0Done EXCEPT ![c] =
                           @ \/ (gets /\ state[c] = "SYNC_WAIT_RX_DONE")]
           /\ rxFrame' = [rxFrame EXCEPT ![c] =
                 IF gets THEN IF undamaged THEN txFrame[b][1] ELSE None ELSE @]
           /\ taking' = [taking EXCEPT ![c] = {}]
    /\ UNCHANGED <<loop, RxSfdDetected, sfdIrq, ports, cir>>

FrameSent(b) == Sent(b, TRUE) /\ UNCHANGED env

Losses == lost["SYNC"] + lost["ACK"] + lost["PDOA"]
Lose(b) == LET kind == txFrame[b][1]
           IN  /\ taking[Peer(b)] # {}
               /\ Losses < MaxLost
               /\ lost' = [lost EXCEPT ![kind] = @ + 1]
               /\ UNCHANGED <<ahead, late, reboots>>

FrameDamaged(b) == Lose(b) /\ Sent(b, FALSE)

FrameMissed(b) == /\ tx[b] = "sfd"
                  /\ Lose(b)
                  /\ taking' = [taking EXCEPT ![Peer(b)] = {}]
                  /\ UNCHANGED <<loop, flags, sfdIrq, ports, cir, tx, txFrame,
                                 rxFrame>>
-----------------------------------------------------------------------------
Quiet == Settled /\ \A b \in Board : tx[b] \in {"off", "sent"}

Tick(b) ==
    /\ ahead' = IF b = "initiator" THEN ahead + 1 ELSE ahead - 1
    /\ ahead' \in -1..1
    /\ late' = IF Quiet THEN late ELSE late + 1
    /\ late' <= MaxLate
    /\ since' = [since EXCEPT ![b] =
                    IF state[b] \in DOMAIN Waits(b) /\ @ < Longest
                      THEN @ + 1 ELSE @]
    /\ timer' = IF b = "responder" /\ timer \notin {0, None}
                  THEN timer - 1 ELSE timer
    /\ UNCHANGED <<state, next, count, cycle, sent, bypass, slots, flags, air, lost,
                   reboots>>

Reboot(b) ==
    /\ reboots < MaxReboots
    /\ reboots' = reboots + 1
    /\ state' = [state EXCEPT ![b] = FirstState[b]]
    /\ next' = [next EXCEPT ![b] = None]
    /\ since' = [since EXCEPT ![b] = 0]
    /\ count' = [count EXCEPT ![b] = 0]
    /\ TxDone' = [TxDone EXCEPT ![b] = FALSE]
    /\ Rx0Done' = [Rx0Done EXCEPT ![b] = FALSE]
    /\ ports' = [ports EXCEPT ![b] = {}]
    /\ tx' = [tx EXCEPT ![b] = "off"]
    /\ txFrame' = [txFrame EXCEPT ![b] = None]
    /\ rxFrame' = [rxFrame EXCEPT ![b] = None]
    /\ taking' = [taking EXCEPT ![b] = {},
                                ![Peer(b)] = IF tx[b] \in {"sfd", "data"}
                                               THEN {} ELSE @]
    /\ IF b = "responder"
         THEN /\ timer' = None /\ bypass' = FALSE /\ slots' = NoCir
              /\ RxSfdDetected' = {} /\ sfdIrq' = {}
              /\ cir' = [p \in Port |-> None]
         ELSE UNCHANGED <<timer, bypass, slots, RxSfdDetected, sfdIrq, cir>>
    /\ UNCHANGED <<cycle, sent, ahead, lost, late>>
-----------------------------------------------------------------------------
Air(b) == Scheduled(b) \/ FrameBegins(b) \/ SfdDetected(b) \/ FrameSent(b)

Next == \/ Initiator \/ Responder \/ TimerIrq
        \/ \E b \in Board : \/ Air(b) \/ FrameDamaged(b) \/ FrameMissed(b)
                            \/ Tick(b) \/ Reboot(b)

Spec == Init /\ [][Next]_vars

(* Both processors run, interrupts are taken, frames end, and time passes. *)
FairSpec == /\ Spec
            /\ WF_vars(Initiator) /\ WF_vars(Responder) /\ WF_vars(TimerIrq)
            /\ \A b \in Board : WF_vars(Air(b)) /\ WF_vars(Tick(b))
-----------------------------------------------------------------------------
Computing == state["responder"] = "PDOA_POSTINGPROCESSING"
FrameOf(kinds, cycles) == kinds \X cycles \X (0..1)

(* The angles are computed from NumOfPackage frames of one cycle of the    *)
(* initiator, each taken down at all antennas: nothing is left of a series *)
(* that was broken off (EN_APP_STATE_PDOA_POSTINGPROCESSING).  An          *)
(* initiator that is reset just after its series begins the next cycle     *)
(* while the responder may still take down frames of this one.             *)
FromOneCycle ==
    Computing /\ reboots = 0 =>
        \E c \in 0..1 : \A i \in Index : slots[i] \in FrameOf(Kind, {c})

(* The responder waits for fewer frames than are sent, by one: unless the  *)
(* ACK was lost, or two frames were, the overall timer does not expire     *)
(* (DEF_NUMBER_OF_PDOA_REPEATED_TX frames follow the first).               *)
FrameToSpare ==
    timer = 0 /\ reboots = 0 => lost["ACK"] > 0 \/ lost["PDOA"] > 1

(* The gain and the frequency offset are those measured in SYNC only while *)
(* PDOA frames are received; SYNC is received with automatic ones          *)
(* (cb_framework_uwb_rxconfig_cfo_gain in app_pdoa_reset).                 *)
AutomaticInSync ==
    bypass => state["responder"] \notin {"SYNC_RECEIVE", "SYNC_WAIT_RX_DONE"}

(* When no more frames are lost, angles are computed from PDOA frames for  *)
(* ever, "every 500 ms".                                                   *)
AnglesForEver ==
    []<>(Computing /\ \A i \in Index : slots[i] \in FrameOf({"PDOA"}, 0..1))

(* "Receive the PDOA packets": the angles are those of PDOA frames, with   *)
(* one of them lost or not.  A lost ACK, a second lost frame, or a reset   *)
(* of the initiator in its series, breaks that: this is all the code       *)
(* promises.                                                               *)
FromPdoaFrames ==
    Computing /\ lost["ACK"] = 0 /\ lost["PDOA"] <= 1 /\ reboots = 0 =>
        \A i \in Index : slots[i] \in FrameOf({"PDOA"}, 0..1)
=============================================================================
