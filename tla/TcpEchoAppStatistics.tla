------------------------ MODULE TcpEchoAppStatistics ------------------------
(***************************************************************************)
(* An echo server that measures the rate at which data arrive: every       *)
(* connection adds the bits of its data to one counter, which a periodic   *)
(* message turns into a rate, records and resets.  The message and data    *)
(* that arrive at the same time are handled in either order.               *)
(***************************************************************************)
EXTENDS Integers

CONSTANTS
  CaptureRate, (* The time from one capture to the next, in ticks.         *)
  Second       (* One second, in ticks.                                    *)

ASSUME CaptureAssumption ==
  CaptureRate \in Nat \ {0} /\ Second \in Nat /\ Second >= CaptureRate

VARIABLES
  bitsRcvdRate, (* The bits received since the last capture.               *)
  untilCapture, (* How long it is until the captureRate message arrives.   *)
  rxBitsRate,   (* The sum of the rates recorded so far.                   *)
  bitsArrived   (* The sum of the bits that reached the application.       *)

echoVars == <<bitsRcvdRate, untilCapture, rxBitsRate, bitsArrived>>

EchoTypeOK ==
  /\ bitsRcvdRate \in Nat
  /\ untilCapture \in 0 .. CaptureRate
  /\ rxBitsRate \in Nat
  /\ bitsArrived \in Nat

EchoInit ==
  /\ bitsRcvdRate = 0
  /\ untilCapture = CaptureRate
  /\ rxBitsRate = 0
  /\ bitsArrived = 0

(* A quotient of two simulation times, converted to a long. *)
CapturesPerSecond == Second \div CaptureRate

WrongNotAgain ==
  /\ untilCapture = 0
  /\ rxBitsRate' = rxBitsRate + bitsRcvdRate * CapturesPerSecond
  /\ bitsRcvdRate' = 0
  /\ untilCapture' = -1
  /\ UNCHANGED bitsArrived

(* A plausible bug: the counter is not reset. *)
WrongNoReset ==
  /\ untilCapture = 0
  /\ rxBitsRate' = rxBitsRate + bitsRcvdRate * CapturesPerSecond
  /\ untilCapture' = CaptureRate
  /\ UNCHANGED <<bitsRcvdRate, bitsArrived>>

(* The captureRate message: record, reset, schedule the message again. *)
Capture ==
  /\ untilCapture = 0
  /\ rxBitsRate' = rxBitsRate + bitsRcvdRate * CapturesPerSecond
  /\ bitsRcvdRate' = 0
  /\ untilCapture' = CaptureRate
  /\ UNCHANGED bitsArrived

(* dataArrived of a connection's thread, with captureBytesAtRate. *)
CaptureBytesAtRate(bits) ==
  /\ bitsRcvdRate' = bitsRcvdRate + bits
  /\ bitsArrived' = bitsArrived + bits
  /\ UNCHANGED <<untilCapture, rxBitsRate>>

(* Time passes when the message is not due. *)
EchoTick ==
  /\ untilCapture > 0
  /\ untilCapture' = untilCapture - 1
  /\ UNCHANGED <<bitsRcvdRate, rxBitsRate, bitsArrived>>

-----------------------------------------------------------------------------
(***************************************************************************)
(* The recorded rates account for every bit once, in one capture interval  *)
(* or the next, whatever the order of data and captures.                   *)
(***************************************************************************)
BitsConserved ==
  rxBitsRate + bitsRcvdRate * CapturesPerSecond = bitsArrived * CapturesPerSecond

(* Bits that have been counted are recorded and the counter starts anew. *)
EveryBitReported == bitsRcvdRate > 0 ~> bitsRcvdRate = 0
=============================================================================
