------------------------------ MODULE RadioLink ------------------------------
(***************************************************************************)
(* transmit_with_autoack of nrf_driver.c on one board and rx_receive_isr   *)
(* of the nrf2401_receive module on another: the retransmission protocol   *)
(* the repository builds in software because the radios run without their  *)
(* own CRC and acknowledgements.  Each board has a thread and an EXTI      *)
(* interrupt on its radio's IRQ pin that pre-empts it; between the boards  *)
(* the air loses and corrupts frames.                                      *)
(***************************************************************************)
EXTENDS RadioDevices

CONSTANTS
  Sender, Receiver,  \* the programs of the two boards
  RetransmitCount,   \* tx_config.retransmitCount: 7, or 2 on the weather node
  MaxCalls           \* bound: calls of transmit_with_autoack

ASSUME RadioAssumption ==
  /\ {Sender, Receiver} \subseteq Programs /\ Sender # Receiver
  /\ RetransmitCount \in Nat \ {0} /\ MaxCalls \in Nat

VARIABLES
  chip,     \* the transceiver of each board
  pending,  \* EXTI pending bit of each board, set by the falling IRQ pin
  isr,      \* where the interrupt handler of each board stands
  thread,   \* where the thread of each board stands
  received, \* receivedAckPackage of the sender
  observe,  \* tx_observe of the sender
  preloaded,\* ackPackagePreloaded of the receiver
  cut,      \* the handler ran inside an SPI transfer of the receiver's thread
  history   \* ghost: message of the running call, last accepted, and a frame before exti_detect

vars == <<chip, pending, isr, thread, received, observe, preloaded, cut, history>>

Boards == {Sender, Receiver}
NoMessage == 0  \* an ack, or a frame whose checksum fails
Messages == 1..MaxCalls

SenderStarts(regs) == ConfigureDevice(PoweredUp, regs, "MASTER")
ReceiverStarts(regs) ==
  StartListening(ClearRxDrFlag(FlushRx(ConfigureDevice(PoweredUp, regs, "SLAVE"))))
NoObservation == [retransmits |-> 0, max |-> 0, total |-> 0, packages |-> 0, lost |-> 0]

\* configure_device has read back what it wrote on both boards.
RadioInit ==
  /\ \E s \in Configs(Sender), r \in Configs(Receiver) :
       /\ chip = [b \in Boards |-> IF b = Sender THEN SenderStarts(s) ELSE ReceiverStarts(r)]
       /\ ReadsBack(chip[Sender], s) /\ ReadsBack(chip[Receiver], r)
  /\ pending = [b \in Boards |-> FALSE]
  /\ isr = [b \in Boards |-> "none"]
  /\ thread = [b \in Boards |-> IF b = Sender THEN "idle" ELSE "unarmed"]
  /\ received = FALSE
  /\ observe = NoObservation
  /\ preloaded = FALSE
  /\ cut = FALSE
  /\ history = [msg |-> 0, last |-> 0, early |-> FALSE]

(* A chip's new state, with the falling edge of its IRQ pin: the EXTI line  *)
(* of the receiver sees edges only from exti_detect_falling_edge on.       *)
SetChips(new) ==
  /\ chip' = new
  /\ pending' = [b \in Boards |-> \/ pending[b]
                                  \/ /\ ~IrqLow(chip[b]) /\ IrqLow(new[b])
                                     /\ thread[b] # "unarmed"]
SetChip(b, c) == SetChips([chip EXCEPT ![b] = c])

Runs(b, pc) == isr[b] = "none" /\ ~pending[b] /\ thread[b] = pc
GoesTo(b, pc) == thread' = [thread EXCEPT ![b] = pc]
Handles(b, pc) == isr[b] = pc
HandlerAt(b, pc) == isr' = [isr EXCEPT ![b] = pc]

----------------------------------------------------------------------------
(* transmit_with_autoack, on the sender's thread.                           *)

Call ==
  /\ Runs(Sender, "idle") /\ history.msg < MaxCalls
  /\ history' = [history EXCEPT !.msg = @ + 1]
  /\ GoesTo(Sender, "load")
  /\ UNCHANGED <<chip, pending, isr, received, observe, preloaded, cut>>

(* A full transmit FIFO refuses the payload; the result is not looked at.   *)
Load ==
  /\ Runs(Sender, "load") /\ observe.retransmits < RetransmitCount
  /\ SetChip(Sender, LoadTxBuffer(chip[Sender], history.msg))
  /\ GoesTo(Sender, "transmit")
  /\ UNCHANGED <<isr, received, observe, preloaded, cut, history>>

(* transmit_single_package raises CE for timeToSettle, long enough for the  *)
(* frame to leave or not, and returns without CE when there is no payload. *)
OpenWindow ==
  /\ Runs(Sender, "transmit")
  /\ IF HasTx(chip[Sender])
     THEN SetChip(Sender, StartListening(chip[Sender])) /\ GoesTo(Sender, "settle")
     ELSE GoesTo(Sender, "listen") /\ UNCHANGED <<chip, pending>>
  /\ UNCHANGED <<isr, received, observe, preloaded, cut, history>>

CloseWindow ==
  /\ Runs(Sender, "settle")
  /\ SetChip(Sender, StopListening(chip[Sender]))
  /\ GoesTo(Sender, "listen")
  /\ UNCHANGED <<isr, received, observe, preloaded, cut, history>>

AwaitAck ==
  /\ Runs(Sender, "listen")
  /\ SetChip(Sender, EnableRxAndListen(chip[Sender]))
  /\ GoesTo(Sender, "await")
  /\ UNCHANGED <<isr, received, observe, preloaded, cut, history>>

\* autoRetransmitDelay has passed.
Timeout ==
  /\ Runs(Sender, "await")
  /\ SetChip(Sender, DisableRx(chip[Sender]))
  /\ GoesTo(Sender, "decide")
  /\ UNCHANGED <<isr, received, observe, preloaded, cut, history>>

(* Mutant: an attempt without an answer is not counted.                     *)
Retry_Uncounted ==
  /\ Runs(Sender, "decide") /\ ~received
  /\ GoesTo(Sender, "load")
  /\ UNCHANGED <<chip, pending, isr, received, observe, preloaded, cut, history>>

Retry ==
  /\ Runs(Sender, "decide") /\ ~received
  /\ observe' = [observe EXCEPT !.retransmits = @ + 1]
  /\ GoesTo(Sender, "load")
  /\ UNCHANGED <<chip, pending, isr, received, preloaded, cut, history>>

(* Mutant: a package is lost only after one attempt more than there are.    *)
Summary_OffByOne(o) ==
  [o EXCEPT !.lost = IF o.retransmits > RetransmitCount THEN @ + 1 ELSE @,
            !.total = @ + o.retransmits, !.retransmits = 0]

(* The end of the call, after the break or when the loop's condition fails. *)
Summary(o) ==
  [o EXCEPT !.lost = IF o.retransmits = RetransmitCount THEN @ + 1 ELSE @,
            !.max = IF o.retransmits > @ THEN o.retransmits ELSE @,
            !.total = @ + o.retransmits,
            !.retransmits = 0]

Returns(o) ==
  /\ observe' = Summary(o)
  /\ received' = FALSE
  /\ GoesTo(Sender, "idle")
  /\ UNCHANGED <<chip, pending, isr, preloaded, cut>>

Succeed ==
  /\ Runs(Sender, "decide") /\ received
  /\ Returns([observe EXCEPT !.packages = @ + 1])
  /\ UNCHANGED history

GiveUp ==
  /\ Runs(Sender, "load") /\ observe.retransmits >= RetransmitCount
  /\ Returns(observe)
  /\ UNCHANGED history

(* tx_receive_isr: clearing RX_DR also clears the TX_DS of the frame that   *)
(* has just left, so that the test for TX_DS never succeeds and the        *)
(* handler looks into the receive FIFO after every cause.                  *)
TxReceiveIsr ==
  /\ Handles(Sender, "none") /\ pending[Sender]
  /\ chip' = [chip EXCEPT ![Sender] = ClearRxDrFlag(@)]
  /\ pending' = [pending EXCEPT ![Sender] = FALSE]
  /\ HandlerAt(Sender, "fifo")
  /\ UNCHANGED <<thread, received, observe, preloaded, cut, history>>

TakeAck ==
  /\ Handles(Sender, "fifo")
  /\ received' = ~FifoEmpty(chip[Sender])
  /\ IF FifoEmpty(chip[Sender]) THEN UNCHANGED <<chip, pending>>
     ELSE SetChip(Sender, CheckForReceivedData(chip[Sender]))
  /\ HandlerAt(Sender, "none")
  /\ UNCHANGED <<thread, observe, preloaded, cut, history>>

----------------------------------------------------------------------------
(* The receiver's thread: nrf2401_receive.                                  *)

\* From here on the falling edge of the IRQ pin is seen.
Arm ==
  /\ Runs(Receiver, "unarmed")
  /\ GoesTo(Receiver, "check")
  /\ UNCHANGED <<chip, pending, isr, received, observe, preloaded, cut, history>>

StartPreload ==
  /\ Runs(Receiver, "check") /\ ~preloaded
  /\ GoesTo(Receiver, IF Len(chip[Receiver].tx) < Depth THEN "writing" ELSE "set")
  /\ cut' = FALSE
  /\ UNCHANGED <<chip, pending, isr, received, observe, preloaded, history>>

(* A handler that ran inside the transfer has ended the SPI transaction     *)
(* when it switched SPE off: the ack may or may not be in the FIFO.        *)
EndPreload ==
  /\ Runs(Receiver, "writing")
  /\ \/ SetChip(Receiver, LoadTxBuffer(chip[Receiver], NoMessage))
     \/ cut /\ UNCHANGED <<chip, pending>>
  /\ GoesTo(Receiver, "set")
  /\ UNCHANGED <<isr, received, observe, preloaded, cut, history>>

(* Mutant: the flag is not set after the load.                              *)
SetPreloaded_Forgotten ==
  /\ Runs(Receiver, "set")
  /\ GoesTo(Receiver, "check")
  /\ UNCHANGED <<chip, pending, isr, received, observe, preloaded, cut, history>>

SetPreloaded ==
  /\ Runs(Receiver, "set")
  /\ preloaded' = TRUE
  /\ GoesTo(Receiver, "check")
  /\ UNCHANGED <<chip, pending, isr, received, observe, cut, history>>

(* rx_receive_isr.                                                          *)
RxReceiveIsr ==
  /\ Handles(Receiver, "none") /\ pending[Receiver]
  /\ pending' = [pending EXCEPT ![Receiver] = FALSE]
  /\ cut' = (cut \/ thread[Receiver] = "writing")
  /\ HandlerAt(Receiver, "drain")
  /\ UNCHANGED <<chip, thread, received, observe, preloaded, history>>

DropCorrupt ==
  /\ Handles(Receiver, "drain") /\ ~FifoEmpty(chip[Receiver])
  /\ Head(chip[Receiver].rx) = NoMessage
  /\ SetChip(Receiver, CheckForReceivedData(chip[Receiver]))
  /\ UNCHANGED <<isr, thread, received, observe, preloaded, cut, history>>

(* Mutant: the radio is not switched from listening to transmitting.        *)
AcceptFrame_StaysReceiver ==
  /\ Handles(Receiver, "drain") /\ ~FifoEmpty(chip[Receiver])
  /\ LET m == Head(chip[Receiver].rx)
         c == CheckForReceivedData(chip[Receiver])
     IN /\ m # NoMessage
        /\ SetChip(Receiver, IF preloaded THEN c ELSE LoadTxBuffer(c, NoMessage))
        /\ history' = [history EXCEPT !.last = m]
  /\ preloaded' = TRUE
  /\ HandlerAt(Receiver, "answer")
  /\ UNCHANGED <<thread, received, observe, cut>>

(* A frame with the right checksum: an ack is loaded unless one is said to  *)
(* be there, and transmit_all_packages raises CE until the FIFO is empty.  *)
AcceptFrame ==
  /\ Handles(Receiver, "drain") /\ ~FifoEmpty(chip[Receiver])
  /\ LET m == Head(chip[Receiver].rx)
         c == DisableRx(CheckForReceivedData(chip[Receiver]))
         l == IF preloaded THEN c ELSE LoadTxBuffer(c, NoMessage)
     IN /\ m # NoMessage
        /\ SetChip(Receiver, IF HasTx(l) THEN StartListening(l) ELSE l)
        /\ history' = [history EXCEPT !.last = m]
  /\ preloaded' = TRUE
  /\ HandlerAt(Receiver, "answer")
  /\ UNCHANGED <<thread, received, observe, cut>>

EndAnswer ==
  /\ Handles(Receiver, "answer") /\ ~HasTx(chip[Receiver])
  /\ SetChip(Receiver, EnableRxAndListen(StopListening(chip[Receiver])))
  /\ preloaded' = FALSE
  /\ HandlerAt(Receiver, "drain")
  /\ UNCHANGED <<thread, received, observe, cut, history>>

SeeFifoEmpty ==
  /\ Handles(Receiver, "drain") /\ FifoEmpty(chip[Receiver])
  /\ HandlerAt(Receiver, "clear")
  /\ UNCHANGED <<chip, pending, thread, received, observe, preloaded, cut, history>>

EndRxReceiveIsr ==
  /\ Handles(Receiver, "clear")
  /\ SetChip(Receiver, ClearRxDrFlag(chip[Receiver]))
  /\ HandlerAt(Receiver, "none")
  /\ UNCHANGED <<thread, received, observe, preloaded, cut, history>>

----------------------------------------------------------------------------
(* The chips and the air: a frame that leaves s is lost, arrives intact, or *)
(* arrives with flipped bits; a full receive FIFO takes nothing.           *)

Arrives(s, r, frame) ==
  /\ Reaches(chip[s], chip[r]) /\ Takes(chip[r])
  /\ SetChips([chip EXCEPT ![s] = Sent(@), ![r] = Arrived(@, frame)])

Transmit(s, r) ==
  /\ Transmitting(chip[s])
  /\ \/ SetChip(s, Sent(chip[s]))
     \/ \E frame \in {Head(chip[s].tx), NoMessage} : Arrives(s, r, frame)
  /\ history' = [history EXCEPT !.early = @ \/ (thread[r] = "unarmed" /\ chip'[r].rx # <<>>)]
  /\ UNCHANGED <<isr, thread, received, observe, preloaded, cut>>

SenderThread == Load \/ OpenWindow \/ CloseWindow \/ AwaitAck \/ Timeout \/ Retry \/ Succeed \/ GiveUp
SenderHandler == TxReceiveIsr \/ TakeAck
ReceiverThread == Arm \/ StartPreload \/ EndPreload \/ SetPreloaded
ReceiverHandler == RxReceiveIsr \/ DropCorrupt \/ AcceptFrame \/ EndAnswer \/ SeeFifoEmpty \/ EndRxReceiveIsr

RadioNext ==
  \/ Call \/ SenderThread \/ SenderHandler \/ ReceiverThread \/ ReceiverHandler
  \/ Transmit(Sender, Receiver) \/ Transmit(Receiver, Sender)

(* The processors execute what they can execute and a chip with a payload   *)
(* and CE high transmits; nothing is assumed about the air, nor that the   *)
(* button of the sender is ever pressed.                                   *)
RadioSpec ==
  /\ RadioInit /\ [][RadioNext]_vars
  /\ WF_vars(SenderThread) /\ WF_vars(SenderHandler)
  /\ WF_vars(ReceiverThread) /\ WF_vars(ReceiverHandler)
  /\ WF_vars(Transmit(Sender, Receiver)) /\ WF_vars(Transmit(Receiver, Sender))

----------------------------------------------------------------------------
(* Properties.                                                              *)

Payloads == Messages \cup {NoMessage}
Fifo(c) == Len(c) <= Depth /\ \A i \in 1..Len(c) : c[i] \in Payloads

\* Type invariant.
RadioTypeOK ==
  /\ \A b \in Boards :
       /\ DOMAIN chip[b].reg = RegisterNames
       /\ chip[b].ce \in BOOLEAN /\ chip[b].reg.status \subseteq Flags
       /\ "PWR_UP" \in chip[b].reg.config /\ "EN_CRC" \notin chip[b].reg.config
       /\ Fifo(chip[b].tx) /\ Fifo(chip[b].rx)
  /\ pending \in [Boards -> BOOLEAN]
  /\ isr[Sender] \in {"none", "fifo"}
  /\ isr[Receiver] \in {"none", "drain", "answer", "clear"}
  /\ thread[Sender] \in {"idle", "load", "transmit", "settle", "listen", "await", "decide"}
  /\ thread[Receiver] \in {"unarmed", "check", "writing", "set"}
  /\ received \in BOOLEAN /\ preloaded \in BOOLEAN /\ cut \in BOOLEAN
  /\ observe.retransmits \in 0..RetransmitCount

\* load_tx_buffer(1, &ack) is called by the thread and by the handler, which
\* do not exclude each other and ignore its result: there is always room.
AckIsNeverRefused == Len(chip[Receiver].tx) < Depth

\* tx_observe accounts for every call: between calls each message has been
\* counted once, as sent or as lost.
CallsAreCounted ==
  thread[Sender] = "idle" => observe.packages + observe.lost = history.msg

\* The handlers acknowledge the edge before they clear its cause: a cause
\* that pulls the IRQ pin down always has a handler running or pending, unless
\* a frame came in between start_listening and exti_detect_falling_edge.
NoInterruptIsLost ==
  \A b \in Boards :
    IrqLow(chip[b]) => isr[b] # "none" \/ pending[b] \/ (b = Receiver /\ history.early)

\* Retransmissions, payloads left over in the transmit FIFO and frames left
\* in the receive FIFO never overtake: messages are accepted in order.
MessagesStayInOrder == [][history'.last >= history.last]_vars

\* transmit_with_autoack returns, whatever the air and the receiver do.
CallReturns == thread[Sender] # "idle" ~> thread[Sender] = "idle"

\* transmit_all_packages waits in the handler for its FIFO to run empty: the
\* receiver always comes back from an answer and clears its interrupt.
HandlerReturns == isr[Receiver] # "none" ~> isr[Receiver] = "none"
=============================================================================
