----------------------------- MODULE FrameParser ----------------------------
(***************************************************************************)
(* The UART command parser of the boot loader (dfu_uart.c) and of the      *)
(* application (cmd_parser_uart.c): one state machine in two copies.  The  *)
(* host sends a request frame                                              *)
(*                                                                         *)
(*     marker  command  type  length  data ...  checksum                   *)
(*                                                                         *)
(* byte by byte over a line that may lose or damage bytes, waits for the   *)
(* answer and sends the frame again when none comes.  The receiver stores  *)
(* at most MaxRx bytes (uartRxMaxBytes), the parser polls their number and *)
(* the only way it has to drop bytes is to restart the receiver, which     *)
(* drops all of them.  Sizes are scaled down: a byte is one of Width       *)
(* values and the two command bytes are one.                               *)
(*                                                                         *)
(* A round of the parser's loop is one step: a byte that arrives within a  *)
(* round is not distinguished from one that arrived before it.             *)
(***************************************************************************)
EXTENDS Integers, Sequences

CONSTANTS Width,      \* values of a byte, and the size of the parser's buffer
          Marker,     \* DEF_RXMARKER_VAL
          MaxRx,      \* uartRxMaxBytes
          Requests,   \* what the host asks: records of a command and its data
          MaxFaults,  \* bytes the line loses or damages, and answers it loses
          None        \* no request

ASSUME WidthAssumption == Width \in Nat /\ Width > 1
ASSUME MarkerAssumption == Marker \in 1..(Width - 1)
ASSUME MaxRxAssumption == MaxRx \in 1..(Width - 1)
ASSUME MaxFaultsAssumption == MaxFaults \in Nat

VARIABLES request,    \* what the host waits for, or None
          frame,      \* the frame it sent last
          at,         \* the byte of it that is next on the line
          fresh,      \* a first byte was sent since a command was run last
          inStep,     \* the receiver holds this frame from its first byte on,
                      \* none lost, its marker and length not damaged
          faults,     \* line faults so far
          rxOn,       \* the receiver is running
          buf,        \* bytes in the receive buffer
          state,      \* dfu_uart_state
          expected,   \* expected_len
          phase       \* parse, or a part of dfu_uart_polling after it

hostVars   == <<request, frame>>
lineVars   == <<at, fresh, inStep, faults>>
parserVars == <<state, expected, phase>>
vars       == <<hostVars, lineVars, rxOn, buf, parserVars>>

Byte       == 0..(Width - 1)
Req        == 0                       \* the type of a request
HeaderSize == 4                       \* DEF_HEADER_SIZE
LengthAt   == 4                       \* DEF_DL_POS, counted from 1
States     == {"waiting", "marker done", "header done"}
Phases     == {"parse", "run", "rearm"}

TotalUpTo(bytes) == LET t[n \in 0..Len(bytes)] ==
                          IF n = 0 THEN 0 ELSE (t[n - 1] + bytes[n]) % Width
                    IN  t[Len(bytes)]

(* Bytes from the command to the last data byte, first n bytes of a frame. *)
ChecksumSkipsCommand(bytes, n) == TotalUpTo(SubSeq(bytes, 3, n))
Checksum(bytes, n) == TotalUpTo(SubSeq(bytes, 2, n))

Frame(r) == LET body == <<Marker, r.command, Req, Len(r.data)>> \o r.data
            IN  Append(body, Checksum(body, Len(body)))

(* Command and data are bytes, and the data fits the length byte.          *)
ASSUME RequestsAssumption ==
    /\ None \notin Requests
    /\ \A r \in Requests : /\ r.command \in Byte /\ r.data \in Seq(Byte)
                           /\ Len(r.data) \in Byte

TypeOK ==
    /\ request \in Requests \cup {None}
    /\ frame \in Seq(Byte)
    /\ at \in 1..(Len(frame) + 1)
    /\ fresh \in BOOLEAN /\ inStep \in BOOLEAN /\ rxOn \in BOOLEAN
    /\ faults \in 0..MaxFaults
    /\ buf \in Seq(Byte)
    /\ state \in States
    /\ expected \in 1..(HeaderSize + Width)
    /\ phase \in Phases

Init ==
    /\ request = None /\ frame = <<>> /\ at = 1 /\ fresh = FALSE
    /\ inStep = TRUE /\ faults = 0
    /\ rxOn = TRUE /\ buf = <<>>
    /\ state = "waiting" /\ expected = 1 /\ phase = "parse"
-----------------------------------------------------------------------------
(* The host and the line.                                                  *)

ParserBusy == phase = "parse" /\ Len(buf) >= expected

AllSent == at = Len(frame) + 1

Send ==
    /\ request = None /\ AllSent
    /\ \E r \in Requests : request' = r /\ frame' = Frame(r)
    /\ at' = 1 /\ inStep' = FALSE
    /\ UNCHANGED <<fresh, faults, rxOn, buf, parserVars>>

(* The host's time-out is long against a round of the parser's loop, not   *)
(* against the command it runs (an erase).                                 *)
Retry ==
    /\ request # None /\ AllSent /\ ~ParserBusy
    /\ at' = 1
    /\ UNCHANGED <<hostVars, fresh, inStep, faults, rxOn, buf, parserVars>>

(* The next byte leaves the host; whole is FALSE if the frame is then no   *)
(* longer one the parser can find.                                         *)
Leaves(whole) ==
    /\ ~AllSent
    /\ at' = at + 1
    /\ fresh' = (fresh \/ at = 1)
    /\ inStep' = /\ whole /\ rxOn
                 /\ IF at = 1 THEN buf = <<>> ELSE inStep
    /\ UNCHANGED <<hostVars, rxOn, parserVars>>

StoreUnlimited(b) == buf' = IF rxOn THEN Append(buf, b) ELSE buf
Store(b) == buf' = IF rxOn /\ Len(buf) < MaxRx THEN Append(buf, b) ELSE buf

Arrive == Leaves(TRUE) /\ Store(frame[at]) /\ UNCHANGED faults

LoseByte ==
    /\ Leaves(FALSE)
    /\ faults < MaxFaults /\ faults' = faults + 1
    /\ UNCHANGED buf

DamageByte ==
    /\ Leaves(at \notin {1, LengthAt})
    /\ \E b \in Byte \ {frame[at]} : Store(b)
    /\ faults < MaxFaults /\ faults' = faults + 1
-----------------------------------------------------------------------------
(* The parser: cmd_parser_uart_pooling_cmd, one round of its loop a step.  *)

Restart == rxOn' = TRUE /\ buf' = <<>>      \* cb_uart_rx_restart

NothingReceived ==                \* return, and the next call starts over
    /\ phase = "parse" /\ buf = <<>>
    /\ state' = "waiting" /\ expected' = 1
    /\ UNCHANGED <<hostVars, lineVars, rxOn, buf, phase>>

MarkerMatches ==
    /\ ParserBusy /\ state = "waiting" /\ buf[1] = Marker
    /\ state' = "marker done" /\ expected' = HeaderSize
    /\ UNCHANGED <<hostVars, lineVars, rxOn, buf, phase>>

NoMarker ==
    /\ ParserBusy /\ state = "waiting" /\ buf[1] # Marker
    /\ Restart
    /\ UNCHANGED <<hostVars, lineVars, parserVars>>

ReadHeaderAdds ==
    /\ ParserBusy /\ state = "marker done"
    /\ state' = "header done"
    /\ expected' = expected + HeaderSize + buf[LengthAt] + 1
    /\ UNCHANGED <<hostVars, lineVars, rxOn, buf, phase>>

ReadHeader ==
    /\ ParserBusy /\ state = "marker done"
    /\ state' = "header done"
    /\ expected' = HeaderSize + buf[LengthAt] + 1
    /\ UNCHANGED <<hostVars, lineVars, rxOn, buf, phase>>

ChecksumOK == Checksum(buf, expected - 1) = buf[expected]

Accept ==
    /\ ParserBusy /\ state = "header done" /\ ChecksumOK
    /\ rxOn' = FALSE                                  \* cb_uart_rx_stop
    /\ phase' = "run"
    /\ UNCHANGED <<hostVars, lineVars, buf, state, expected>>

RejectStaysStopped ==
    /\ ParserBusy /\ state = "header done" /\ ~ChecksumOK
    /\ rxOn' = FALSE /\ buf' = <<>>
    /\ state' = "waiting" /\ expected' = 1
    /\ UNCHANGED <<hostVars, lineVars, phase>>

Reject ==
    /\ ParserBusy /\ state = "header done" /\ ~ChecksumOK
    /\ Restart
    /\ state' = "waiting" /\ expected' = 1
    /\ UNCHANGED <<hostVars, lineVars, phase>>
-----------------------------------------------------------------------------
(* dfu_uart_polling once a frame is ready.                                 *)

IsRequest == buf[3] = Req

(* The command is run and its answer sent, all of it before the receiver   *)
(* is started again; the host may send its next request at once.  A        *)
(* command answers the request the host waits for if it is its command.    *)
Answers(lost) ==
    request' = IF request # None /\ buf[2] = request.command /\ ~lost
               THEN None ELSE request

RunCommand ==
    /\ phase = "run" /\ IsRequest
    /\ phase' = "rearm"
    /\ fresh' = FALSE
    /\ \/ Answers(FALSE) /\ UNCHANGED faults
       \/ /\ faults < MaxFaults
          /\ faults' = faults + 1
          /\ Answers(TRUE)
    /\ UNCHANGED <<frame, at, inStep, rxOn, buf, state, expected>>

NotARequest ==
    /\ phase = "run" /\ ~IsRequest
    /\ phase' = "rearm"
    /\ UNCHANGED <<hostVars, lineVars, rxOn, buf, state, expected>>

RearmKeepsBytes ==
    /\ phase = "rearm"
    /\ rxOn' = TRUE
    /\ phase' = "parse" /\ state' = "waiting" /\ expected' = 1
    /\ UNCHANGED <<hostVars, lineVars, buf>>

Rearm ==
    /\ phase = "rearm"
    /\ Restart
    /\ phase' = "parse" /\ state' = "waiting" /\ expected' = 1
    /\ UNCHANGED <<hostVars, lineVars>>
-----------------------------------------------------------------------------
Parse == \/ NothingReceived \/ MarkerMatches \/ NoMarker
         \/ ReadHeader \/ Accept \/ Reject
Poll  == RunCommand \/ NotARequest \/ Rearm
Host  == Send \/ Retry
Line  == Arrive \/ LoseByte \/ DamageByte

Next == Parse \/ Poll \/ Host \/ Line

Spec == Init /\ [][Next]_vars

(* The task calls the parser over and over, bytes on the line go on, and   *)
(* the host sends again as long as it has no answer.                       *)
FairSpec == Spec /\ WF_vars(Parse) /\ WF_vars(Poll) /\ WF_vars(Retry)
                 /\ WF_vars(Arrive)
-----------------------------------------------------------------------------
(* What the parser copies fits its buffer, and the position of the         *)
(* checksum fits the eight-bit counter of the checksum loop, although the  *)
(* length byte alone can announce more: the receiver's limit is what keeps *)
(* the frames it cannot hold from being read.                              *)
CopyFits == ParserBusy => expected <= Width /\ expected - 1 < Width

(* One transmission of a frame runs at most one command: a frame is not    *)
(* found again in the buffer after it was answered.                        *)
RunsOncePerSend == [][RunCommand => fresh]_vars

(* As long as the parser sees the frame from its first byte, one damaged   *)
(* byte never gets a command run: what runs is the frame that was sent.    *)
DamageDetected ==
    [][RunCommand /\ inStep => SubSeq(buf, 1, expected) = frame]_vars

(* A header that announces more than the receiver can hold: the parser     *)
(* waits for the rest of it for ever.                                      *)
Oversized == state = "header done" /\ expected > MaxRx

(* The marker value is nowhere in the frame but in front.                  *)
MarkerOnlyInFront(r) == \A i \in 2..Len(Frame(r)) : Frame(r)[i] # Marker

(* A host that sends its request again gets its answer, whatever bytes and *)
(* answers the line lost: an incomplete frame keeps the parser only until  *)
(* the next copy of the frame.  The exceptions are the two the code has:   *)
(* an oversized header, and a frame that holds the marker value again.     *)
Answered ==
    \A r \in Requests :
        MarkerOnlyInFront(r) =>
            (request = r ~> (request = None \/ Oversized))
=============================================================================
