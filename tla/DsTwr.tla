------------------------------- MODULE DsTwr -------------------------------
(***************************************************************************)
(* Double-sided two-way ranging: the examples uwb_ds_twr_initiator and     *)
(* uwb_ds_twr_responder on two boards in radio range.  Six messages make a *)
(* cycle; the main loop of each board is a switch over its state, and the  *)
(* interrupts of the radio and of a 10 ms one-shot timer set flags for it. *)
(* The timer's also sets the state, wherever the main loop is: between a   *)
(* case's test and its assignment of the next state, that is lost.         *)
(*                                                                         *)
(* The states of both boards are <<"start", m>>, where message m is to be  *)
(* sent or listened for, and <<"wait", m>>, where its interrupt is waited  *)
(* for: EN_APP_STATE_SYNC_TRANSMIT is <<"start", "SYNC">> on the initiator *)
(* and EN_APP_STATE_SYNC_RECEIVE is the same on the responder.             *)
(*                                                                         *)
(* Time passes in ticks of 1 ms, when nothing is left to do in the present *)
(* one (a frame takes a fraction of it); `late' ticks have come earlier.   *)
(* The boards' ticks are not synchronous: one may be a tick ahead.         *)
(***************************************************************************)
EXTENDS Integers

CONSTANTS
    None,
    CycleTime,       \* DEF_DSTWR_APP_CYCLE_TIME_MS, of each board
    SyncAckTimeout,  \* DEF_DSTWR_SYNC_ACK_TIMEOUT_MS
    OverallTimeout,  \* DEF_DSTWR_OVERALL_PROCESS_TIMEOUT_MS
    SyncRxRestart,   \* DEF_DSTWR_SYNC_RX_RESTART_TIMEOUT_MS
    WaitTime,        \* DEF_DSTWR_POLL_WAIT_TIME_MS, ..._RESULT_WAIT_TIME_MS
    Bounds           \* how many disturbances there may be together: frames
                     \* lost or damaged, frames of other boards nearby,
                     \* ticks that find a board still busy, and resets

Board == {"initiator", "responder"}
Peer(b) == IF b = "initiator" THEN "responder" ELSE "initiator"

Message == {"SYNC", "ACK", "POLL", "RESPONSE", "FINAL", "RESULT"}
Following == [SYNC |-> "ACK", ACK |-> "POLL", POLL |-> "RESPONSE",
              RESPONSE |-> "FINAL", FINAL |-> "RESULT"]
Sender(m) == IF m \in {"SYNC", "POLL", "FINAL"} THEN "initiator"
                                                ELSE "responder"
Timed == {"POLL", "RESPONSE", "FINAL"}

ASSUME DsTwrAssumption ==
    /\ CycleTime \in [Board -> Nat \ {0}]
    /\ {SyncAckTimeout, OverallTimeout, SyncRxRestart} \subseteq Nat \ {0}
    /\ WaitTime \in Nat
    /\ Bounds \subseteq [lost : Nat, foreign : Nat, late : Nat, reboots : Nat]
    /\ Bounds # {}

VARIABLES
    state,               \* s_enAppDstwrState
    next,                \* what the case in progress will do at its end
    TxDone, Rx0Done,     \* s_stIrqStatus
    since,               \* ticks since startTime or iterationTime
    timer,               \* ticks until timer 0 interrupts, or None
    stamps,              \* the frames whose time stamps the board has read
    measured,            \* what the initiator's distance was computed from
    cycle,               \* cycles it has ended, modulo 2: labels its frames
    radio,               \* what the transceiver does
    locked,              \* it is receiving the frame the peer is sending
    txFrame, txTsu,      \* the frame being sent, the last one sent
    rxFrame,             \* the last frame received
    ahead,               \* ticks by which the initiator leads
    lost, foreign, late, reboots

loop == <<state, next, since, timer, stamps, measured, cycle>>
flags == <<TxDone, Rx0Done>>
air == <<radio, locked, txFrame, txTsu, rxFrame>>
env == <<ahead, lost, foreign, late, reboots>>
vars == <<loop, flags, air, env>>

Bearable(l, f, t, r) ==
    \E bound \in Bounds : /\ l <= bound.lost /\ f <= bound.foreign
                         /\ t <= bound.late /\ r <= bound.reboots

Idle == <<"IDLE", None>>
Terminate == <<"TERMINATE", None>>
Start(m) == <<"start", m>>
Wait(m) == <<"wait", m>>
State == {Idle, Terminate} \cup ({"start", "wait"} \X Message)
Case == [to : State, end : BOOLEAN]

ASSUME NoneAssumption == None \notin Case

(* Which frame a time stamp is the time of.                                *)
FrameId == ((Message \cup {"other"}) \X (0..1)) \cup {<<"none", 0>>}
Stamps == [Timed -> FrameId]
Frame == [id : FrameId, ok : BOOLEAN, data : Stamps \cup {None}]
NoFrame == [id |-> <<"none", 0>>, ok |-> FALSE, data |-> None]
OtherFrame == [id |-> <<"other", 0>>, ok |-> TRUE, data |-> None]

Radio == {"off", "txLater", "tx", "txEnding", "sent",
          "rxLater", "rx", "received", "missed"}

(* Elapsed time matters up to the longest wait only.                       *)
Longest == LET waits == {SyncAckTimeout, SyncRxRestart, WaitTime}
                             \cup {CycleTime[b] : b \in Board}
           IN  CHOOSE t \in waits : \A w \in waits : w <= t

TypeOK ==
    /\ state \in [Board -> State]
    /\ next \in [Board -> Case \cup {None}]
    /\ {TxDone, Rx0Done} \subseteq [Board -> BOOLEAN]
    /\ since \in [Board -> 0..Longest]
    /\ timer \in [Board -> 0..OverallTimeout \cup {None}]
    /\ stamps \in [Board -> Stamps]
    /\ measured \in (Stamps \X (Stamps \cup {None})) \cup {None}
    /\ cycle \in [Board -> 0..1]
    /\ radio \in [Board -> Radio]
    /\ locked \in [Board -> BOOLEAN]
    /\ {txFrame, txTsu, rxFrame} \subseteq [Board -> Frame]
    /\ ahead \in -1..1
    /\ {lost, foreign, late, reboots} \subseteq Nat
    /\ Bearable(lost, foreign, late, reboots)

NoStamps == [m \in Timed |-> <<"none", 0>>]

Init == /\ state = [b \in Board |-> Start("SYNC")]
        /\ next = [b \in Board |-> None]
        /\ TxDone = [b \in Board |-> FALSE]
        /\ Rx0Done = [b \in Board |-> FALSE]
        /\ since = [b \in Board |-> 0]
        /\ timer = [b \in Board |-> None]
        /\ stamps = [b \in Board |-> NoStamps]
        /\ measured = None
        /\ cycle = [b \in Board |-> 0]
        /\ radio = [b \in Board |-> "off"]
        /\ locked = [b \in Board |-> FALSE]
        /\ txFrame = [b \in Board |-> NoFrame]
        /\ txTsu = [b \in Board |-> NoFrame]
        /\ rxFrame = [b \in Board |-> NoFrame]
        /\ ahead = 0 /\ lost = 0 /\ foreign = 0 /\ late = 0 /\ reboots = 0
-----------------------------------------------------------------------------
(* The main loop.  A case that has something to do takes two steps: its    *)
(* test and effects, then the assignment of the next state, with the end   *)
(* of the transmission or reception when `end' says so.                    *)

(* The wait before a message is sent.                                      *)
Waited(b, m) == m \in {"POLL", "RESULT"} /\ Sender(m) = b
                    => since[b] >= WaitTime

(* Mutant: the acknowledgement is waited for for ever.                     *)
ExpiredNotAck(b, m) == m = "SYNC" /\ since[b] >= SyncRxRestart

(* SYNC and ACK are not waited for for ever.                               *)
Expired(b, m) == \/ m = "ACK" /\ since[b] >= SyncAckTimeout
                 \/ m = "SYNC" /\ since[b] >= SyncRxRestart

Ready(b) ==
    /\ next[b] = None
    /\ \/ state[b] = Idle /\ since[b] >= CycleTime[b]
       \/ state[b] = Terminate
       \/ \E m \in Message :
             \/ state[b] = Start(m) /\ Waited(b, m)
             \/ state[b] = Wait(m) /\ Sender(m) = b /\ TxDone[b]
             \/ /\ state[b] = Wait(m) /\ Sender(m) # b
                /\ Rx0Done[b] \/ Expired(b, m)

(* Mutant: app_dstwr_reset without its last two calls.                     *)
GoUnended(b, to, end) ==
    next' = [next EXCEPT ![b] = [to |-> to, end |-> end /\ to # Idle]]

Go(b, to, end) == next' = [next EXCEPT ![b] = [to |-> to, end |-> end]]

Deferred(m) == m \in {"RESPONSE", "FINAL"}

(* Mutant: the timer runs one tick longer.                                 *)
TimerInitLonger(b, m) ==
    timer' = IF m = "POLL" THEN [timer EXCEPT ![b] = OverallTimeout + 1]
                           ELSE timer

(* app_dstwr_timer_init, at the beginning of the ranging proper.           *)
TimerInit(b, m) ==
    timer' = IF m = "POLL" THEN [timer EXCEPT ![b] = OverallTimeout] ELSE timer

Sending(b) == radio[b] \in {"tx", "txEnding"}

IdleOver(b) == /\ Ready(b)
               /\ state[b] = Idle
               /\ Go(b, Start("SYNC"), FALSE)
               /\ UNCHANGED <<state, since, timer, stamps, measured, cycle,
                              flags, air, env>>

(* cb_framework_uwb_tx_start, at once or at a time set from the last event.*)
Transmit(b, m) ==
    /\ Ready(b)
    /\ state[b] = Start(m) /\ Sender(m) = b
    /\ radio' = [radio EXCEPT ![b] = IF Deferred(m) THEN "txLater" ELSE "tx"]
    /\ txFrame' = [txFrame EXCEPT ![b] =
           [id |-> <<m, cycle[b]>>, ok |-> TRUE,
            data |-> IF m = "RESULT" THEN stamps[b] ELSE None]]
    /\ TimerInit(b, m)
    /\ Go(b, Wait(m), FALSE)
    /\ UNCHANGED <<state, since, stamps, measured, cycle, flags, locked, txTsu,
                   rxFrame, env>>

(* cb_framework_uwb_rx_start, which clears the memory frames come into.    *)
Receive(b, m) ==
    /\ Ready(b)
    /\ state[b] = Start(m) /\ Sender(m) # b
    /\ radio' = [radio EXCEPT ![b] = IF Deferred(m) THEN "rxLater" ELSE "rx"]
    /\ since' = [since EXCEPT ![b] = IF m \in {"SYNC", "ACK"} THEN 0 ELSE @]
    /\ rxFrame' = [rxFrame EXCEPT ![b] = NoFrame]
    /\ TimerInit(b, m)
    /\ Go(b, Wait(m), FALSE)
    /\ UNCHANGED <<state, stamps, measured, cycle, flags, locked, txFrame,
                   txTsu, env>>

Transmitted(b, m) ==
    /\ Ready(b)
    /\ state[b] = Wait(m) /\ Sender(m) = b
    /\ TxDone' = [TxDone EXCEPT ![b] = FALSE]
    /\ stamps' = IF m \in Timed THEN [stamps EXCEPT ![b][m] = txTsu[b].id]
                                ELSE stamps
    /\ Go(b, IF m = "RESULT" THEN Terminate ELSE Start(Following[m]), TRUE)
    /\ UNCHANGED <<state, since, timer, measured, cycle, Rx0Done,
                   air, env>>

SyncTimeout(b, m) == /\ Ready(b)
                     /\ state[b] = Wait(m) /\ Sender(m) # b
                     /\ Expired(b, m)
                     /\ Go(b, Start("SYNC"), TRUE)
                     /\ UNCHANGED <<state, since, timer, stamps, measured,
                                    cycle, flags, air, env>>

(* Mutant: a damaged RESULT is not noticed.                                *)
ValidResult(b, m) ==
    m \in {"SYNC", "ACK"} => rxFrame[b].ok /\ rxFrame[b].id[1] = m

(* Only SYNC and ACK are checked to be what they should be, and only they  *)
(* and RESULT to be undamaged.                                             *)
Valid(b, m) == rxFrame[b].ok /\ (m \in {"SYNC", "ACK"} => rxFrame[b].id[1] = m)

AfterReceived(b, m) ==
    CASE m \in {"SYNC", "ACK"} /\ ~Valid(b, m) -> Start("SYNC")
      [] m = "RESULT"                          -> Terminate
      [] OTHER                                 -> Start(Following[m])

Received(b, m) ==
    /\ Ready(b)
    /\ state[b] = Wait(m) /\ Sender(m) # b
    /\ ~Expired(b, m)
    /\ Rx0Done' = [Rx0Done EXCEPT ![b] = FALSE]
    /\ stamps' = IF m \in Timed THEN [stamps EXCEPT ![b][m] = rxFrame[b].id]
                                ELSE stamps
    /\ measured' = IF m = "RESULT" /\ Valid(b, m)
                     THEN <<stamps[b], rxFrame[b].data>> ELSE measured
    /\ since' = [since EXCEPT ![b] = IF m \in {"ACK", "FINAL"} THEN 0 ELSE @]
    /\ Go(b, AfterReceived(b, m), TRUE)
    /\ rxFrame' = [rxFrame EXCEPT ![b] = NoFrame]  \* it is not read again
    /\ UNCHANGED <<state, timer, cycle, TxDone, radio, locked,
                   txFrame, txTsu, env>>

(* The log, app_dstwr_timer_off and app_dstwr_reset up to its last two     *)
(* calls, cb_framework_uwb_tx_end and cb_framework_uwb_rx_end.             *)
Terminated(b) ==
    /\ Ready(b)
    /\ state[b] = Terminate
    /\ timer' = [timer EXCEPT ![b] = None]
    /\ TxDone' = [TxDone EXCEPT ![b] = FALSE]
    /\ Rx0Done' = [Rx0Done EXCEPT ![b] = FALSE]
    /\ measured' = IF b = "initiator" THEN None ELSE measured
    /\ cycle' = [cycle EXCEPT ![b] = (@ + 1) % 2]
    /\ txTsu' = [txTsu EXCEPT ![b] = NoFrame]
    /\ Go(b, Idle, TRUE)
    /\ UNCHANGED <<state, since, stamps, radio, locked, txFrame, rxFrame, env>>

(* The states that read the time elapsed since they were entered or, for   *)
(* POLL and RESULT, since the case before.  (It is not kept elsewhere.)    *)
Measures(b, s) == \E m \in Message :
                     \/ s = Wait(m) /\ m \in {"SYNC", "ACK"} /\ Sender(m) # b
                     \/ s = Start(m) /\ m \in {"POLL", "RESULT"}

EndCase(b) ==
    /\ next[b] # None
    /\ state' = [state EXCEPT ![b] = next[b].to]
    /\ next' = [next EXCEPT ![b] = None]
    /\ IF next[b].end
         THEN /\ radio' = [radio EXCEPT ![b] = "off"]
              /\ locked' = [c \in Board |->
                               locked[c] /\ c # b /\ ~Sending(b)]
         ELSE UNCHANGED <<radio, locked>>
    /\ since' = [since EXCEPT ![b] = IF Measures(b, next[b].to) THEN @ ELSE 0]
    /\ UNCHANGED <<timer, stamps, measured, cycle, flags, txFrame, txTsu,
                   rxFrame, env>>

MainLoop(b) == \/ IdleOver(b)
               \/ \E m \in Message : \/ Transmit(b, m) \/ Receive(b, m)
                                     \/ Transmitted(b, m) \/ Received(b, m)
                                     \/ SyncTimeout(b, m)
               \/ Terminated(b)
               \/ EndCase(b)
-----------------------------------------------------------------------------
(* cb_timer_0_app_irq_callback.  (What it notes for the log is left out.)  *)
TimerIrq(b) ==
    /\ timer[b] = 0
    /\ timer' = [timer EXCEPT ![b] = None]
    /\ state' = [state EXCEPT ![b] = Terminate]
    /\ UNCHANGED <<next, since, stamps, measured, cycle, TxDone, Rx0Done,
                   air, env>>
-----------------------------------------------------------------------------
(* The radio.                                                              *)

(* Preambles and the times frames are sent at are long, measured by the    *)
(* work the main loops have to do.                                         *)
Settled == \A b \in Board : next[b] = None /\ ~Ready(b) /\ timer[b] # 0

(* The absolute timer starts the transceiver, the receiver first...        *)
Scheduled(b) ==
    /\ Settled
    /\ \/ /\ radio[b] = "txLater" /\ radio[Peer(b)] # "rxLater"
          /\ radio' = [radio EXCEPT ![b] = "tx"]
       \/ /\ radio[b] = "rxLater"
          /\ radio' = [radio EXCEPT ![b] = "rx"]
    /\ UNCHANGED <<loop, flags, locked, txFrame, txTsu, rxFrame, env>>

(* ... or had fired before the main loop was ready for it.                 *)
Missed(b) == /\ radio[b] \in {"txLater", "rxLater"}
             /\ Bearable(lost + 1, foreign, late, reboots)
             /\ lost' = lost + 1
             /\ radio' = [radio EXCEPT ![b] = "missed"]
             /\ UNCHANGED <<loop, flags, locked, txFrame, txTsu, rxFrame,
                            ahead, foreign, late, reboots>>

(* The preamble is over: a receiver that is on receives the frame.         *)
FrameEnding(b) ==
    /\ Settled
    /\ radio[b] = "tx"
    /\ radio' = [radio EXCEPT ![b] = "txEnding"]
    /\ locked' = [locked EXCEPT ![Peer(b)] = radio[Peer(b)] = "rx"]
    /\ UNCHANGED <<loop, flags, txFrame, txTsu, rxFrame, env>>

(* A frame ends, and cb_uwbapp_tx_done_irqhandler is called; with it, if   *)
(* the peer received the frame, the peer's cb_uwbapp_rx0_done_irqcb.       *)
Sent(b, ok, arrives) ==
    /\ radio[b] = "txEnding"
    /\ TxDone' = [TxDone EXCEPT ![b] = TRUE]
    /\ txTsu' = [txTsu EXCEPT ![b] = txFrame[b]]
    /\ txFrame' = [txFrame EXCEPT ![b] = NoFrame]
    /\ LET c == Peer(b)
           gets == locked[c] /\ arrives
       IN  /\ radio' = [radio EXCEPT ![b] = "sent",
                                     ![c] = IF gets THEN "received" ELSE @]
           /\ Rx0Done' = [Rx0Done EXCEPT ![c] = @ \/ gets]
           /\ rxFrame' = [rxFrame EXCEPT ![c] =
                             IF ~gets THEN @
                             ELSE IF ok THEN txFrame[b]
                             ELSE [txFrame[b] EXCEPT !.ok = FALSE,
                                                     !.data = None]]
           /\ locked' = [locked EXCEPT ![c] = FALSE]
    /\ UNCHANGED loop

FrameSent(b) == Sent(b, TRUE, TRUE) /\ UNCHANGED env

FrameLost(b) == /\ locked[Peer(b)]
                /\ Bearable(lost + 1, foreign, late, reboots)
                /\ lost' = lost + 1
                /\ Sent(b, FALSE, TRUE) \/ Sent(b, FALSE, FALSE)
                /\ UNCHANGED <<ahead, foreign, late, reboots>>

(* A frame of another pair of boards: nothing in a frame says whose it is. *)
ForeignFrame(b) ==
    /\ radio[b] = "rx"
    /\ Bearable(lost, foreign + 1, late, reboots)
    /\ foreign' = foreign + 1
    /\ radio' = [radio EXCEPT ![b] = "received"]
    /\ locked' = [locked EXCEPT ![b] = FALSE]
    /\ rxFrame' = [rxFrame EXCEPT ![b] = OtherFrame]
    /\ Rx0Done' = [Rx0Done EXCEPT ![b] = TRUE]
    /\ UNCHANGED <<loop, TxDone, txFrame, txTsu, ahead, lost, late, reboots>>
-----------------------------------------------------------------------------
Quiet == /\ Settled
         /\ \A b \in Board :
               radio[b] \notin {"txLater", "tx", "txEnding", "rxLater"}

Tick(b) ==
    /\ ahead' = IF b = "initiator" THEN ahead + 1 ELSE ahead - 1
    /\ ahead' \in -1..1
    /\ late' = IF Quiet THEN late ELSE late + 1
    /\ Bearable(lost, foreign, late', reboots)
    /\ since' = [since EXCEPT ![b] =
                    IF @ < Longest /\ (state[b] = Idle \/ Measures(b, state[b]))
                      THEN @ + 1 ELSE @]
    /\ timer' = [timer EXCEPT ![b] = IF @ \in {0, None} THEN @ ELSE @ - 1]
    /\ UNCHANGED <<state, next, stamps, measured, cycle, flags, air, lost,
                   foreign, reboots>>

Reboot(b) ==
    /\ Bearable(lost, foreign, late, reboots + 1)
    /\ reboots' = reboots + 1
    /\ state' = [state EXCEPT ![b] = Start("SYNC")]
    /\ next' = [next EXCEPT ![b] = None]
    /\ TxDone' = [TxDone EXCEPT ![b] = FALSE]
    /\ Rx0Done' = [Rx0Done EXCEPT ![b] = FALSE]
    /\ since' = [since EXCEPT ![b] = 0]
    /\ timer' = [timer EXCEPT ![b] = None]
    /\ stamps' = [stamps EXCEPT ![b] = NoStamps]
    /\ measured' = IF b = "initiator" THEN None ELSE measured
    /\ cycle' = [cycle EXCEPT ![b] = 0]
    /\ radio' = [radio EXCEPT ![b] = "off"]
    /\ locked' = [c \in Board |-> locked[c] /\ c # b /\ ~Sending(b)]
    /\ txFrame' = [txFrame EXCEPT ![b] = NoFrame]
    /\ txTsu' = [txTsu EXCEPT ![b] = NoFrame]
    /\ rxFrame' = [rxFrame EXCEPT ![b] = NoFrame]
    /\ UNCHANGED <<ahead, lost, foreign, late>>
-----------------------------------------------------------------------------
Air(b) == Scheduled(b) \/ FrameEnding(b) \/ FrameSent(b)

Next == \E b \in Board : \/ MainLoop(b) \/ TimerIrq(b)
                         \/ Air(b) \/ Missed(b) \/ FrameLost(b)
                         \/ ForeignFrame(b)
                         \/ Tick(b) \/ Reboot(b)

Spec == Init /\ [][Next]_vars

(* Both processors run, interrupts are taken, frames end, and time passes. *)
FairSpec == /\ Spec
            /\ \A b \in Board : /\ WF_vars(MainLoop(b)) /\ WF_vars(TimerIrq(b))
                                /\ WF_vars(Air(b)) /\ WF_vars(Tick(b))
-----------------------------------------------------------------------------
(* The distance is computed from the two boards' stamps of the same three  *)
(* frames, POLL, RESPONSE and FINAL (EN_APP_STATE_RESULT_WAIT_RX_DONE),    *)
(* unless a frame of other boards was taken for one of them.               *)
DistanceFromOneExchange ==
    measured # None /\ foreign = 0 =>
        measured[1] = measured[2] /\ \A m \in Timed : measured[1][m][1] = m

(* A board sends or listens only when it has ended what it did before      *)
(* (cb_framework_uwb_tx_start and ..._rx_start find the radio off).        *)
RadioEnded == \A b \in Board : state[b][1] = "start" /\ next[b] = None
                                  => radio[b] = "off"

(* Whatever the other board does, each board comes back to the             *)
(* synchronization: app_dstwr_timer_init is there for that.                *)
SyncsAgain == \A b \in Board : []<>(state[b] = Start("SYNC"))

(* The same of two boards that are alone, whose timer never expires at the *)
(* moment at which a frame comes.                                          *)
SyncsAgainAlone ==
    \A b \in Board : []<>(state[b] = Start("SYNC") \/ foreign > 0)
=============================================================================
