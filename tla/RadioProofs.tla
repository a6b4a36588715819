----------------------------- MODULE RadioProofs -----------------------------
(***************************************************************************)
(* The retransmission protocol of the radios for any two programs, any     *)
(* number of attempts and any number of calls: its types, what the sender  *)
(* counts, the room for acks, the interrupts and the order of messages.    *)
(***************************************************************************)
EXTENDS RadioLink, TLAPS

(* A record of a transceiver with a register file.                          *)
WellFormed(c) ==
  /\ c = [reg |-> c.reg, ce |-> c.ce, tx |-> c.tx, rx |-> c.rx]
  /\ c.reg = [r \in RegisterNames |-> c.reg[r]] /\ c.ce \in BOOLEAN

(* The CONFIG of a radio in use, and its FIFOs.                             *)
InUse(config) == "PWR_UP" \in config /\ "EN_CRC" \notin config
Fifos == {s \in Seq(Payloads) : Len(s) <= Depth}
ChipOK(c) ==
  /\ WellFormed(c)
  /\ c.reg.status \subseteq Flags /\ InUse(c.reg.config)
  /\ c.tx \in Fifos /\ c.rx \in Fifos

(* d is c but for CE and the bit PRIM_RX of CONFIG, the handlers' masks and *)
(* the causes included.                                                     *)
Directed(c, d) ==
  /\ WellFormed(d) /\ d.tx = c.tx /\ d.rx = c.rx /\ d.reg.status = c.reg.status
  /\ d.reg.config \cup {"PRIM_RX"} = c.reg.config \cup {"PRIM_RX"}

(* What the operations of the driver and of the chip are made of.           *)
WithRegister(c, r, v) == [c EXCEPT !.reg[r] = v]
WithTx(c, fifo) == [c EXCEPT !.tx = fifo]
WithRx(c, fifo) == [c EXCEPT !.rx = fifo]

-----------------------------------------------------------------------------
(* A write changes the register it names. *)
LEMMA WritesOne ==
  ASSUME NEW c, WellFormed(c), NEW r \in RegisterNames, NEW v, NEW d, d = WithRegister(c, r, v)
  PROVE  /\ WellFormed(d)
         /\ \A q \in RegisterNames : d.reg[q] = IF q = r THEN v ELSE c.reg[q]
         /\ d.tx = c.tx /\ d.rx = c.rx
<1> DEFINE file == [c.reg EXCEPT ![r] = v]
<1>1. d = [reg |-> file, ce |-> c.ce, tx |-> c.tx, rx |-> c.rx]
  BY DEF WellFormed, WithRegister
<1>2. file = [q \in RegisterNames |-> IF q = r THEN v ELSE c.reg[q]]
  BY DEF WellFormed
<1> HIDE DEF file
<1> QED
  BY <1>1, <1>2 DEF WellFormed

(* What the driver writes to CONFIG leaves everything else as it was. *)
LEMMA ConfigWritten ==
  ASSUME NEW c, WellFormed(c), NEW v, NEW d, d = ReplaceRegister(c, "config", v)
  PROVE  /\ WellFormed(d) /\ d.reg["config"] = v /\ d.reg["status"] = c.reg["status"]
         /\ d.tx = c.tx /\ d.rx = c.rx
<1>1. "config" \in RegisterNames /\ "status" \in RegisterNames
  BY DEF RegisterNames
<1>2. d = WithRegister(c, "config", v)
  BY DEF ReplaceRegister, Transfer, WithRegister
<1>3. WellFormed(d) /\ d.reg["config"] = v /\ d.tx = c.tx /\ d.rx = c.rx
  BY <1>1, <1>2, WritesOne
<1>4. d.reg["status"] = c.reg["status"]
  BY <1>1, <1>2, WritesOne
<1> QED
  BY <1>3, <1>4

(* The same for STATUS: a cause raised by the chip or cleared by the driver. *)
LEMMA StatusWritten ==
  ASSUME NEW c, WellFormed(c), NEW v, NEW d, d = WithRegister(c, "status", v)
  PROVE  /\ WellFormed(d) /\ d.reg["status"] = v /\ d.reg["config"] = c.reg["config"]
         /\ d.tx = c.tx /\ d.rx = c.rx
<1>1. "config" \in RegisterNames /\ "status" \in RegisterNames
  BY DEF RegisterNames
<1>2. WellFormed(d) /\ d.tx = c.tx /\ d.rx = c.rx
  BY <1>1, WritesOne
<1>4. d.reg["status"] = v
  BY <1>1, WritesOne
<1>3. d.reg["config"] = c.reg["config"]
  BY <1>1, WritesOne
<1> QED
  BY <1>2, <1>3, <1>4

(* Clearing RX_DR clears every cause there is. *)
LEMMA CausesCleared ==
  ASSUME NEW c, WellFormed(c), NEW d, d = ClearRxDrFlag(c)
  PROVE  /\ WellFormed(d) /\ d.reg["status"] = {} /\ d.reg["config"] = c.reg["config"]
         /\ d.tx = c.tx /\ d.rx = c.rx
<1>1. c.reg["status"] \ (c.reg["status"] \cup {"RX_DR"}) = {}
  OBVIOUS
<1>2. d = WithRegister(c, "status", {})
  BY <1>1 DEF ClearRxDrFlag, SetBit, GetRegister, ReplaceRegister, Transfer, WithRegister
<1> QED
  BY <1>2, StatusWritten

(* CE is driven without any other effect. *)
LEMMA CeDriven ==
  ASSUME NEW c, WellFormed(c)
  PROVE  /\ WellFormed(StartListening(c)) /\ StartListening(c).reg = c.reg
         /\ StartListening(c).tx = c.tx /\ StartListening(c).rx = c.rx
         /\ WellFormed(StopListening(c)) /\ StopListening(c).reg = c.reg
         /\ StopListening(c).tx = c.tx /\ StopListening(c).rx = c.rx
<1>1. ASSUME NEW d, NEW v, d = [c EXCEPT !.ce = v], v \in BOOLEAN
      PROVE  WellFormed(d) /\ d.reg = c.reg /\ d.tx = c.tx /\ d.rx = c.rx
  <2>1. d = [reg |-> c.reg, ce |-> v, tx |-> c.tx, rx |-> c.rx]
    BY <1>1 DEF WellFormed
  <2> QED BY <1>1, <2>1 DEF WellFormed
<1> QED
  BY <1>1 DEF StartListening, StopListening

(* The transmit FIFO changes without any other effect. *)
LEMMA TxWritten ==
  ASSUME NEW c, WellFormed(c), NEW v
  PROVE  /\ WellFormed(WithTx(c, v)) /\ WithTx(c, v).reg = c.reg
         /\ WithTx(c, v).tx = v /\ WithTx(c, v).rx = c.rx
<1>1. WithTx(c, v) = [reg |-> c.reg, ce |-> c.ce, tx |-> v, rx |-> c.rx]
  BY DEF WellFormed, WithTx
<1> QED
  BY <1>1 DEF WellFormed

(* The receive FIFO changes without any other effect. *)
LEMMA RxWritten ==
  ASSUME NEW c, WellFormed(c), NEW v
  PROVE  /\ WellFormed(WithRx(c, v)) /\ WithRx(c, v).reg = c.reg
         /\ WithRx(c, v).tx = c.tx /\ WithRx(c, v).rx = v
<1>1. WithRx(c, v) = [reg |-> c.reg, ce |-> c.ce, tx |-> c.tx, rx |-> v]
  BY DEF WellFormed, WithRx
<1> QED
  BY <1>1 DEF WellFormed

(* enable_rx_and_listen and disable_rx: only the direction and CE change. *)
LEMMA RadioTurned ==
  ASSUME NEW c, WellFormed(c), InUse(c.reg.config), NEW d
  PROVE  /\ d = EnableRxAndListen(c) =>
               Directed(c, d) /\ InUse(d.reg.config) /\ "PRIM_RX" \in d.reg.config
         /\ d = DisableRx(c) =>
               Directed(c, d) /\ InUse(d.reg.config) /\ "PRIM_RX" \notin d.reg.config
<1> DEFINE off == PowerOff(c)
           rx == SetBit(off, "config", "PRIM_RX")
           tx == ClearBit(off, "config", "PRIM_RX")
           rxOn == PowerOn(rx)
           txOn == PowerOn(tx)
           Keeps(e) == WellFormed(e) /\ e.tx = c.tx /\ e.rx = c.rx
                       /\ e.reg["status"] = c.reg["status"]
<1>1. Keeps(off) /\ off.reg["config"] = c.reg["config"] \ {"PWR_UP"}
  BY ConfigWritten DEF PowerOff, ClearBit, GetRegister
<1> HIDE DEF off
<1>2. Keeps(rx) /\ rx.reg["config"] = off.reg["config"] \cup {"PRIM_RX"}
  BY <1>1, ConfigWritten DEF SetBit, GetRegister
<1>3. Keeps(tx) /\ tx.reg["config"] = off.reg["config"] \ {"PRIM_RX"}
  BY <1>1, ConfigWritten DEF ClearBit, GetRegister
<1> HIDE DEF rx, tx
<1>4. Keeps(rxOn) /\ rxOn.reg["config"] = rx.reg["config"] \cup {"PWR_UP"}
  BY <1>2, ConfigWritten DEF PowerOn, SetBit, GetRegister
<1>5. Keeps(txOn) /\ txOn.reg["config"] = tx.reg["config"] \cup {"PWR_UP"}
  BY <1>3, ConfigWritten DEF PowerOn, SetBit, GetRegister
<1>6. EnableRxAndListen(c) = StartListening(rxOn)
  BY DEF EnableRxAndListen, rxOn, rx, off
<1>7. DisableRx(c) = StopListening(txOn)
  BY DEF DisableRx, txOn, tx, off
<1> HIDE DEF rxOn, txOn
<1>8. ASSUME d = EnableRxAndListen(c)
      PROVE  Directed(c, d) /\ InUse(d.reg.config) /\ "PRIM_RX" \in d.reg.config
  <2>1. WellFormed(d) /\ d.reg = rxOn.reg /\ d.tx = rxOn.tx /\ d.rx = rxOn.rx
    BY <1>4, <1>6, <1>8, CeDriven
  <2>2. d.reg.config = ((c.reg.config \ {"PWR_UP"}) \cup {"PRIM_RX"}) \cup {"PWR_UP"}
    BY <1>1, <1>2, <1>4, <2>1
  <2> QED
    BY <1>4, <2>1, <2>2 DEF Directed, InUse
<1>9. ASSUME d = DisableRx(c)
      PROVE  Directed(c, d) /\ InUse(d.reg.config) /\ "PRIM_RX" \notin d.reg.config
  <2>1. WellFormed(d) /\ d.reg = txOn.reg /\ d.tx = txOn.tx /\ d.rx = txOn.rx
    BY <1>5, <1>7, <1>9, CeDriven
  <2>2. d.reg.config = ((c.reg.config \ {"PWR_UP"}) \ {"PRIM_RX"}) \cup {"PWR_UP"}
    BY <1>1, <1>3, <1>5, <2>1
  <2> QED
    BY <1>5, <2>1, <2>2 DEF Directed, InUse
<1> QED
  BY <1>8, <1>9

(* check_for_received_data takes the oldest payload and leaves CE high. *)
LEMMA PayloadTaken ==
  ASSUME NEW c, WellFormed(c), NEW d, d = CheckForReceivedData(c)
  PROVE  /\ WellFormed(d) /\ d.reg = c.reg
         /\ d.tx = c.tx /\ d.rx = Tail(c.rx)
<1>1. d = [reg |-> c.reg, ce |-> TRUE, tx |-> c.tx, rx |-> Tail(c.rx)]
  BY DEF WellFormed, CheckForReceivedData, StartListening, StopListening, NrfReceivePayload, Transfer
<1> QED
  BY <1>1 DEF WellFormed

(* load_tx_buffer appends the payload when there is room for it. *)
LEMMA PayloadLoaded ==
  ASSUME NEW c, WellFormed(c), NEW p, NEW d, d = LoadTxBuffer(c, p)
  PROVE  /\ WellFormed(d) /\ d.reg = c.reg /\ d.rx = c.rx
         /\ d.tx = IF Len(c.tx) < Depth THEN Append(c.tx, p) ELSE c.tx
<1>1. CASE Len(c.tx) < Depth
  <2>1. d = [reg |-> c.reg, ce |-> c.ce, tx |-> Append(c.tx, p), rx |-> c.rx]
    BY <1>1 DEF WellFormed, LoadTxBuffer, Transfer
  <2> QED
    BY <1>1, <2>1 DEF WellFormed
<1>2. CASE ~(Len(c.tx) < Depth)
  BY <1>2 DEF LoadTxBuffer
<1> QED
  BY <1>1, <1>2

(* A cause is added to STATUS. *)
LEMMA CauseRaised ==
  ASSUME NEW c, WellFormed(c), NEW cause, NEW d, d = Raised(c, cause)
  PROVE  /\ WellFormed(d) /\ d.reg["config"] = c.reg["config"]
         /\ d.reg["status"] = c.reg["status"] \cup {cause}
         /\ d.tx = c.tx /\ d.rx = c.rx
<1>1. d = WithRegister(c, "status", c.reg["status"] \cup {cause})
  BY DEF Raised, WithRegister
<1> QED
  BY <1>1, StatusWritten

(* The frame that leaves a radio was its oldest payload. *)
LEMMA FrameSent ==
  ASSUME NEW c, WellFormed(c), NEW d, d = Sent(c)
  PROVE  /\ WellFormed(d) /\ d.reg["config"] = c.reg["config"]
         /\ d.reg["status"] = c.reg["status"] \cup {"TX_DS"}
         /\ d.tx = Tail(c.tx) /\ d.rx = c.rx
<1> DEFINE e == WithTx(c, Tail(c.tx))
<1>1. WellFormed(e) /\ e.reg = c.reg /\ e.tx = Tail(c.tx) /\ e.rx = c.rx
  BY TxWritten
<1>2. d = Raised(e, "TX_DS")
  BY DEF Sent, WithTx
<1> HIDE DEF e
<1> QED
  BY <1>1, <1>2, CauseRaised

(* The frame that reaches a radio becomes its newest received payload. *)
LEMMA FrameArrived ==
  ASSUME NEW c, WellFormed(c), NEW f, NEW d, d = Arrived(c, f)
  PROVE  /\ WellFormed(d) /\ d.reg["config"] = c.reg["config"]
         /\ d.reg["status"] = c.reg["status"] \cup {"RX_DR"}
         /\ d.tx = c.tx /\ d.rx = Append(c.rx, f)
<1> DEFINE e == WithRx(c, Append(c.rx, f))
<1>1. WellFormed(e) /\ e.reg = c.reg /\ e.tx = c.tx /\ e.rx = Append(c.rx, f)
  BY RxWritten
<1>2. d = Raised(e, "RX_DR")
  BY DEF Arrived, WithRx
<1> HIDE DEF e
<1> QED
  BY <1>1, <1>2, CauseRaised

(* Payloads leave and enter a FIFO that never holds more than it can. *)
LEMMA FifoSteps ==
  ASSUME NEW s \in Fifos
  PROVE  /\ s # <<>> => Tail(s) \in Fifos /\ Len(Tail(s)) = Len(s) - 1 /\ Head(s) \in Payloads
         /\ \A p \in Payloads : Len(s) < Depth => Append(s, p) \in Fifos
         /\ Len(s) \in Nat /\ Len(s) <= Depth /\ (Len(s) = 0 <=> s = <<>>)
<1>1. s \in Seq(Payloads) /\ Len(s) \in Nat /\ Len(s) <= 3
  BY DEF Fifos, Depth
<1>2. Len(s) = 0 <=> s = <<>>
  BY <1>1
<1>3. ASSUME s # <<>>
      PROVE  Tail(s) \in Seq(Payloads) /\ Len(Tail(s)) = Len(s) - 1 /\ Head(s) \in Payloads
  BY <1>1, <1>3
<1>4. ASSUME NEW p \in Payloads
      PROVE  Append(s, p) \in Seq(Payloads) /\ Len(Append(s, p)) = Len(s) + 1
  BY <1>1
<1>5. ASSUME NEW n \in Nat, n <= 3
      PROVE  n - 1 <= 3 /\ (n < 3 => n + 1 <= 3) /\ n \in 0..3
  BY <1>5
<1>6. s # <<>> => Tail(s) \in Fifos
  BY <1>1, <1>3, <1>5 DEF Fifos, Depth
<1>7. ASSUME NEW p \in Payloads, Len(s) < Depth
      PROVE  Append(s, p) \in Fifos
  BY <1>1, <1>4, <1>5, <1>7 DEF Fifos, Depth
<1>8. Len(s) \in Nat /\ Len(s) <= Depth
  BY <1>1 DEF Depth
<1> QED
  BY <1>2, <1>3, <1>6, <1>7, <1>8

(* The IRQ pin follows the causes that CONFIG does not mask; the direction *)
(* has no part in it.                                                      *)
LEMMA IrqFollowsCauses ==
  ASSUME NEW c, NEW d, d.reg.status = c.reg.status,
         d.reg.config \cup {"PRIM_RX"} = c.reg.config \cup {"PRIM_RX"}
  PROVE  IrqLow(d) <=> IrqLow(c)
<1>1. \A flag : Mask(flag) \in d.reg.config <=> Mask(flag) \in c.reg.config
  BY DEF Mask
<1> QED
  BY <1>1 DEF IrqLow

-----------------------------------------------------------------------------
(* The inductive invariant.                                                 *)

Attempting == {"transmit", "settle", "listen", "await", "decide"}
Observations ==
  [retransmits : 0..RetransmitCount, max : Nat, total : Nat, packages : Nat, lost : Nat]
Histories == [msg : 0..MaxCalls, last : 0..MaxCalls, early : BOOLEAN]

StateOK ==
  /\ chip = [b \in Boards |-> chip[b]] /\ \A b \in Boards : ChipOK(chip[b])
  /\ pending \in [Boards -> BOOLEAN]
  /\ isr = [b \in Boards |-> isr[b]] /\ thread = [b \in Boards |-> thread[b]]
  /\ isr[Sender] \in {"none", "fifo"}
  /\ isr[Receiver] \in {"none", "drain", "answer", "clear"}
  /\ thread[Sender] \in {"idle", "load"} \cup Attempting
  /\ thread[Receiver] \in {"unarmed", "check", "writing", "set"}
  /\ received \in BOOLEAN /\ preloaded \in BOOLEAN /\ cut \in BOOLEAN
  /\ observe \in Observations /\ history \in Histories

(* Every call but the running one has been counted; an attempt is only      *)
(* begun when there is one left.                                           *)
Counted ==
  /\ observe.packages + observe.lost + (IF thread[Sender] = "idle" THEN 0 ELSE 1) = history.msg
  /\ thread[Sender] \in Attempting => observe.retransmits < RetransmitCount

(* A cause of the sender is always pending, one of the receiver pending or  *)
(* being handled.  Before the line is armed no handler runs and the radio  *)
(* only receives.                                                          *)
Served ==
  /\ (IrqLow(chip[Sender]) => pending[Sender])
  /\ (IrqLow(chip[Receiver]) => isr[Receiver] # "none" \/ pending[Receiver] \/ history.early)
  /\ (thread[Receiver] = "unarmed" =>
       isr[Receiver] = "none" /\ ~pending[Receiver] /\ "PRIM_RX" \in chip[Receiver].reg.config)

(* The acks of the receiver: at most one of the thread's and one of the     *)
(* handler's, and none when none is said to be there.                      *)
Acks ==
  LET n == Len(chip[Receiver].tx) IN
  /\ (isr[Receiver] = "answer" => n <= 2)
  /\ (isr[Receiver] # "answer" =>
       /\ n <= 1
       /\ (~preloaded /\ thread[Receiver] # "set" => n = 0)
       /\ (preloaded => thread[Receiver] \in {"unarmed", "check"}))

(* Messages wait in the order of their calls: the last accepted one, those  *)
(* received, those to be sent, the running call's.                         *)
InOrder(last, rx, tx, msg) ==
  /\ \A i \in DOMAIN rx : rx[i] # NoMessage => last <= rx[i] /\ rx[i] <= msg
  /\ \A i, j \in DOMAIN rx : i <= j /\ rx[i] # NoMessage /\ rx[j] # NoMessage => rx[i] <= rx[j]
  /\ \A i \in DOMAIN rx, j \in DOMAIN tx : rx[i] # NoMessage => rx[i] <= tx[j]
  /\ \A i, j \in DOMAIN tx : i <= j => tx[i] <= tx[j]
  /\ \A j \in DOMAIN tx : last <= tx[j] /\ tx[j] <= msg /\ tx[j] # NoMessage
  /\ last <= msg
Ordered ==
  /\ InOrder(history.last, chip[Receiver].rx, chip[Sender].tx, history.msg)
  /\ (thread[Sender] # "idle" => history.msg # 0)

IInv == StateOK /\ Counted /\ Served /\ Acks /\ Ordered

-----------------------------------------------------------------------------
(* The transceiver after its own reset has all its registers. *)
LEMMA ResetWellFormed ==
  WellFormed(PoweredUp) /\ PoweredUp.reg.status = {} /\ PoweredUp.tx = <<>> /\ PoweredUp.rx = <<>>
<1> DEFINE file == PoweredUp.reg
<1>1. DOMAIN file = RegisterNames /\ file["status"] = {}
  BY DEF PoweredUp, RegisterNames
<1>2. file = [r \in DOMAIN file |-> file[r]]
  BY DEF PoweredUp
<1>3. PoweredUp = [reg |-> file, ce |-> FALSE, tx |-> <<>>, rx |-> <<>>]
  BY DEF PoweredUp
<1> HIDE DEF file
<1> QED
  BY <1>1, <1>2, <1>3 DEF WellFormed

(* configure_device: the radio is on, with its CRC off and its FIFOs empty, *)
(* whatever the record holds; a SLAVE listens.                             *)
LEMMA DeviceConfigured ==
  ASSUME NEW regs, NEW mode, NEW d, d = ConfigureDevice(PoweredUp, regs, mode)
  PROVE  /\ WellFormed(d) /\ d.reg["status"] = {} /\ InUse(d.reg["config"])
         /\ d.tx = <<>> /\ d.rx = <<>>
         /\ (mode = "SLAVE" => "PRIM_RX" \in d.reg["config"])
<1> DEFINE Blank(e) == WellFormed(e) /\ e.reg["status"] = {} /\ e.tx = <<>> /\ e.rx = <<>>
           low == StopListening(PoweredUp)
           off == PowerOff(low)
           written == ReplaceRegister(off, "config", regs.config)
           directed == IF mode = "SLAVE" THEN SetBit(written, "config", "PRIM_RX")
                                         ELSE ClearBit(written, "config", "PRIM_RX")
           piped == ReplaceRegister(directed, "en_rxaddr", regs.en_rxaddr)
           plain == DisableCrc(piped)
           filled == WriteSettings(plain, regs)
<1>1. Blank(low)
  BY ResetWellFormed, CeDriven
<1> HIDE DEF low
<1>2. Blank(off)
  BY <1>1, ConfigWritten DEF PowerOff, ClearBit
<1> HIDE DEF off
<1>3. Blank(written)
  BY <1>2, ConfigWritten
<1> HIDE DEF written
<1>4. Blank(directed) /\ (mode = "SLAVE" => "PRIM_RX" \in directed.reg["config"])
  <2>1. CASE mode = "SLAVE"
    <3>1. directed = ReplaceRegister(written, "config", written.reg["config"] \cup {"PRIM_RX"})
      BY <2>1 DEF SetBit, GetRegister
    <3>2. Blank(directed) /\ directed.reg["config"] = written.reg["config"] \cup {"PRIM_RX"}
      BY <1>3, <3>1, ConfigWritten
    <3> QED BY <3>2
  <2>2. CASE mode # "SLAVE"
    <3>1. directed = ReplaceRegister(written, "config", written.reg["config"] \ {"PRIM_RX"})
      BY <2>2 DEF ClearBit, GetRegister
    <3> QED BY <1>3, <2>2, <3>1, ConfigWritten
  <2> QED BY <2>1, <2>2
<1> HIDE DEF directed
<1>5. Blank(piped) /\ piped.reg["config"] = directed.reg["config"]
  <2>1. {"config", "status", "en_rxaddr"} \subseteq RegisterNames
    BY DEF RegisterNames
  <2>2. piped = WithRegister(directed, "en_rxaddr", regs.en_rxaddr)
    BY DEF ReplaceRegister, Transfer, WithRegister
  <2> HIDE DEF piped
  <2>3. WellFormed(piped) /\ piped.tx = directed.tx /\ piped.rx = directed.rx
    BY <1>4, <2>1, <2>2, WritesOne
  <2>4. piped.reg["config"] = directed.reg["config"]
    BY <1>4, <2>1, <2>2, WritesOne
  <2>5. piped.reg["status"] = directed.reg["status"]
    BY <1>4, <2>1, <2>2, WritesOne
  <2> QED BY <1>4, <2>3, <2>4, <2>5
<1> HIDE DEF piped
<1>6. Blank(plain) /\ plain.reg["config"] = piped.reg["config"] \ {"EN_CRC"}
  BY <1>5, ConfigWritten DEF DisableCrc, ClearBit, GetRegister
<1> HIDE DEF plain
<1>7. Blank(filled) /\ filled.reg["config"] = plain.reg["config"]
  <2> DEFINE file == [r \in DOMAIN plain.reg |-> IF r \in Settings THEN regs[r] ELSE plain.reg[r]]
  <2>1. DOMAIN plain.reg = RegisterNames
    BY <1>6 DEF WellFormed
  <2>2. "config" \in RegisterNames \ Settings /\ "status" \in RegisterNames \ Settings
    BY DEF RegisterNames, Settings
  <2>3. /\ file = [r \in RegisterNames |-> file[r]]
        /\ file["config"] = plain.reg["config"] /\ file["status"] = plain.reg["status"]
    BY <2>1, <2>2
  <2>4. filled = [plain EXCEPT !.reg = file]
    BY DEF WriteSettings
  <2> HIDE DEF file
  <2>5. filled = [reg |-> file, ce |-> plain.ce, tx |-> plain.tx, rx |-> plain.rx]
    BY <1>6, <2>4 DEF WellFormed
  <2> HIDE DEF filled
  <2> QED BY <1>6, <2>3, <2>5 DEF WellFormed
<1> HIDE DEF filled
<1>8. d = PowerOn(filled)
  BY DEF ConfigureDevice, filled, plain, piped, directed, written, off, low, StopListening
<1>9. Blank(d) /\ d.reg["config"] = filled.reg["config"] \cup {"PWR_UP"}
  BY <1>7, <1>8, ConfigWritten DEF PowerOn, SetBit, GetRegister
<1>10. d.reg["config"] = (directed.reg["config"] \ {"EN_CRC"}) \cup {"PWR_UP"}
  BY <1>5, <1>6, <1>7, <1>9
<1> QED
  BY <1>4, <1>9, <1>10 DEF InUse

(* Both boards' radios are configured when the protocol starts. *)
LEMMA InitInvariant == RadioInit => IInv
<1> SUFFICES ASSUME RadioInit PROVE IInv
  OBVIOUS
<1>1. PICK s, r : chip = [b \in Boards |-> IF b = Sender THEN SenderStarts(s) ELSE ReceiverStarts(r)]
  BY DEF RadioInit
<1>2. Sender \in Boards /\ Receiver \in Boards /\ Sender # Receiver /\ Boards = {Sender, Receiver}
  BY RadioAssumption DEF Boards
<1>3. chip[Sender] = SenderStarts(s) /\ chip[Receiver] = ReceiverStarts(r)
  BY <1>1, <1>2
<1> DEFINE Silent(c) == WellFormed(c) /\ c.reg["status"] = {} /\ InUse(c.reg["config"])
                        /\ c.tx = <<>> /\ c.rx = <<>>
<1>4. Silent(chip[Sender])
  BY <1>3, DeviceConfigured DEF SenderStarts
<1>5. Silent(chip[Receiver]) /\ "PRIM_RX" \in chip[Receiver].reg["config"]
  <2> DEFINE c == ConfigureDevice(PoweredUp, r, "SLAVE")
             f == FlushRx(c)
             e == ClearRxDrFlag(f)
  <2>1. Silent(c) /\ "PRIM_RX" \in c.reg["config"]
    BY DeviceConfigured
  <2>2. f = WithRx(c, <<>>)
    BY DEF FlushRx, Transfer, WithRx
  <2>3. Silent(f) /\ "PRIM_RX" \in f.reg["config"]
    <3> HIDE DEF c, f
    <3> QED BY <2>1, <2>2, RxWritten
  <2>4. ReceiverStarts(r) = StartListening(e)
    BY DEF ReceiverStarts
  <2>5. Silent(e) /\ "PRIM_RX" \in e.reg["config"]
    <3> HIDE DEF f
    <3> QED BY <2>3, CausesCleared
  <2> HIDE DEF e
  <2> QED BY <1>3, <2>4, <2>5, CeDriven
<1>6. <<>> \in Fifos /\ Len(<<>>) = 0
  BY DEF Fifos, Depth
<1>7. \A b \in Boards : Silent(chip[b]) /\ ChipOK(chip[b]) /\ ~IrqLow(chip[b])
  BY <1>2, <1>4, <1>5, <1>6 DEF ChipOK, IrqLow
<1> HIDE DEF Silent
<1>8. 0 \in 0..RetransmitCount /\ 0 \in 0..MaxCalls
  BY RadioAssumption
<1>9. observe \in Observations /\ history \in Histories
  BY <1>8 DEF RadioInit, NoObservation, Observations, Histories
<1>10. StateOK
  <2>1. chip = [b \in Boards |-> chip[b]] /\ pending \in [Boards -> BOOLEAN]
    BY <1>1 DEF RadioInit
  <2>2. isr = [b \in Boards |-> isr[b]] /\ isr[Sender] = "none" /\ isr[Receiver] = "none"
    BY <1>2 DEF RadioInit
  <2>3. thread = [b \in Boards |-> thread[b]] /\ thread[Sender] = "idle" /\ thread[Receiver] = "unarmed"
    BY <1>2 DEF RadioInit
  <2>4. received \in BOOLEAN /\ preloaded \in BOOLEAN /\ cut \in BOOLEAN
    BY Zenon DEF RadioInit
  <2> QED
    BY <1>7, <1>9, <2>1, <2>2, <2>3, <2>4 DEF StateOK
<1>11. Counted
  BY <1>2 DEF RadioInit, NoObservation, Counted, Attempting
<1>12. Served
  BY <1>2, <1>5, <1>7 DEF RadioInit, Served
<1>13. chip[Sender].tx = <<>> /\ chip[Receiver].tx = <<>> /\ chip[Receiver].rx = <<>>
  BY <1>2, <1>7 DEF Silent
<1>14. Acks
  BY <1>2, <1>6, <1>13 DEF RadioInit, Acks
<1>15. Ordered
  <2>1. DOMAIN <<>> = {}
    OBVIOUS
  <2>2. history.last = 0 /\ history.msg = 0 /\ thread[Sender] = "idle"
    BY <1>2 DEF RadioInit
  <2> QED BY <1>13, <2>1, <2>2 DEF Ordered, InOrder
<1> QED
  BY <1>10, <1>11, <1>12, <1>14, <1>15 DEF IInv

-----------------------------------------------------------------------------
(* What an operation on the chip of one board does to both. *)
LEMMA ChipSet ==
  ASSUME StateOK, NEW b \in Boards, NEW d, ChipOK(d), SetChip(b, d)
  PROVE  /\ chip' = [o \in Boards |-> chip'[o]] /\ chip'[b] = d
         /\ \A o \in Boards : (o # b => chip'[o] = chip[o]) /\ ChipOK(chip'[o])
         /\ pending' \in [Boards -> BOOLEAN]
         /\ \A o \in Boards : pending'[o] <=>
               (pending[o] \/ (~IrqLow(chip[o]) /\ IrqLow(chip'[o]) /\ thread[o] # "unarmed"))
<1>1. chip' = [chip EXCEPT ![b] = d]
  BY DEF SetChip, SetChips
<1>2. chip' = [o \in Boards |-> chip'[o]] /\ chip'[b] = d /\ \A o \in Boards : o # b => chip'[o] = chip[o]
  BY <1>1 DEF StateOK
<1> DEFINE Falls(o) == ~IrqLow(chip[o]) /\ IrqLow(chip'[o]) /\ thread[o] # "unarmed"
<1>3. pending' = [o \in Boards |-> pending[o] \/ Falls(o)]
  BY <1>1 DEF SetChip, SetChips
<1>4. \A o \in Boards : pending'[o] = (pending[o] \/ Falls(o))
  BY <1>3, Zenon
<1> HIDE DEF Falls
<1>6. pending' \in [Boards -> BOOLEAN]
  BY <1>3
<1>7. \A o \in Boards : pending'[o] <=> (pending[o] \/ Falls(o))
  BY <1>4, Zenon
<1>5. \A o \in Boards : ChipOK(chip'[o])
  BY <1>2 DEF StateOK
<1> QED
  BY <1>2, <1>5, <1>6, <1>7 DEF Falls

(* d comes from c by an operation that leaves the causes alone: only the    *)
(* FIFOs, the direction and CE change.                                     *)
Driven(c, d, tx, rx) == ChipOK(d) /\ d.tx = tx /\ d.rx = rx /\ (IrqLow(d) <=> IrqLow(c))

(* Every operation of the driver keeps a transceiver in order. *)
LEMMA DriverOperations ==
  ASSUME NEW c, ChipOK(c)
  PROVE  /\ Driven(c, StartListening(c), c.tx, c.rx) /\ Driven(c, StopListening(c), c.tx, c.rx)
         /\ Driven(c, EnableRxAndListen(c), c.tx, c.rx) /\ Driven(c, DisableRx(c), c.tx, c.rx)
         /\ (c.rx # <<>> => Driven(c, CheckForReceivedData(c), c.tx, Tail(c.rx)))
         /\ \A p \in Payloads : Driven(c, LoadTxBuffer(c, p),
                                       IF Len(c.tx) < Depth THEN Append(c.tx, p) ELSE c.tx, c.rx)
         /\ ChipOK(ClearRxDrFlag(c)) /\ ~IrqLow(ClearRxDrFlag(c))
         /\ ClearRxDrFlag(c).tx = c.tx /\ ClearRxDrFlag(c).rx = c.rx
<1>1. WellFormed(c) /\ InUse(c.reg.config) /\ c.tx \in Fifos /\ c.rx \in Fifos /\ c.reg.status \subseteq Flags
  BY DEF ChipOK
<1>2. ASSUME NEW d, WellFormed(d), d.reg = c.reg, d.tx \in Fifos, d.rx \in Fifos
      PROVE  ChipOK(d) /\ (IrqLow(d) <=> IrqLow(c))
  BY <1>1, <1>2 DEF ChipOK, IrqLow
<1>3. Driven(c, StartListening(c), c.tx, c.rx) /\ Driven(c, StopListening(c), c.tx, c.rx)
  BY <1>1, <1>2, CeDriven DEF Driven
<1>4. ASSUME NEW d, Directed(c, d), InUse(d.reg.config)
      PROVE  Driven(c, d, c.tx, c.rx)
  BY <1>1, <1>4, IrqFollowsCauses DEF Directed, Driven, ChipOK
<1>5. Driven(c, EnableRxAndListen(c), c.tx, c.rx) /\ Driven(c, DisableRx(c), c.tx, c.rx)
  BY <1>1, <1>4, RadioTurned
<1>6. c.rx # <<>> => Driven(c, CheckForReceivedData(c), c.tx, Tail(c.rx))
  BY <1>1, <1>2, PayloadTaken, FifoSteps DEF Driven
<1>7. ASSUME NEW p \in Payloads
      PROVE  Driven(c, LoadTxBuffer(c, p), IF Len(c.tx) < Depth THEN Append(c.tx, p) ELSE c.tx, c.rx)
  BY <1>1, <1>2, PayloadLoaded, FifoSteps DEF Driven
<1>8. ChipOK(ClearRxDrFlag(c)) /\ ~IrqLow(ClearRxDrFlag(c))
      /\ ClearRxDrFlag(c).tx = c.tx /\ ClearRxDrFlag(c).rx = c.rx
  BY <1>1, CausesCleared DEF ChipOK, IrqLow
<1> QED
  BY <1>3, <1>5, <1>6, <1>7, <1>8

(* The chip itself: a frame leaves or arrives, and its cause is raised. *)
LEMMA ChipEvents ==
  ASSUME NEW c, ChipOK(c)
  PROVE  /\ (c.tx # <<>> => ChipOK(Sent(c)) /\ Sent(c).tx = Tail(c.tx) /\ Sent(c).rx = c.rx
                           /\ Sent(c).reg.config = c.reg.config)
         /\ \A f \in Payloads : Len(c.rx) < Depth =>
               /\ ChipOK(Arrived(c, f)) /\ Arrived(c, f).tx = c.tx
               /\ Arrived(c, f).rx = Append(c.rx, f) /\ Arrived(c, f).reg.config = c.reg.config
<1>1. WellFormed(c) /\ InUse(c.reg.config) /\ c.tx \in Fifos /\ c.rx \in Fifos /\ c.reg.status \subseteq Flags
  BY DEF ChipOK
<1>2. "TX_DS" \in Flags /\ "RX_DR" \in Flags
  BY DEF Flags
<1>3. c.tx # <<>> => ChipOK(Sent(c)) /\ Sent(c).tx = Tail(c.tx) /\ Sent(c).rx = c.rx
                     /\ Sent(c).reg.config = c.reg.config
  BY <1>1, <1>2, FrameSent, FifoSteps DEF ChipOK
<1>4. ASSUME NEW f \in Payloads, Len(c.rx) < Depth
      PROVE  /\ ChipOK(Arrived(c, f)) /\ Arrived(c, f).tx = c.tx
             /\ Arrived(c, f).rx = Append(c.rx, f) /\ Arrived(c, f).reg.config = c.reg.config
  <2> DEFINE d == Arrived(c, f)
  <2>1. /\ WellFormed(d) /\ d.reg["config"] = c.reg["config"]
        /\ d.reg["status"] = c.reg["status"] \cup {"RX_DR"} /\ d.tx = c.tx /\ d.rx = Append(c.rx, f)
    BY <1>1, FrameArrived
  <2>2. Append(c.rx, f) \in Fifos
    BY <1>1, <1>4, FifoSteps
  <2> HIDE DEF d
  <2>3. ChipOK(d) /\ d.tx = c.tx /\ d.rx = Append(c.rx, f) /\ d.reg.config = c.reg.config
    BY <1>1, <1>2, <2>1, <2>2 DEF ChipOK
  <2> QED BY <2>3 DEF d
<1> QED
  BY <1>3, <1>4

(* A step in which the driver works on the chip of board b or on none; no   *)
(* interrupt comes of it.                                                   *)
DriverStep(b, tx, rx) ==
  /\ Driven(chip[b], chip'[b], tx, rx)
  /\ \A o \in Boards : o # b => chip'[o] = chip[o]
  /\ chip' = [o \in Boards |-> chip'[o]] /\ pending' = pending

(* There are two boards, each with a chip of its own. *)
LEMMA BoardsAreTwo == Boards = {Sender, Receiver} /\ Sender # Receiver
BY RadioAssumption DEF Boards

(* What the driver does to one chip is a DriverStep when it leaves the      *)
(* causes and the direction of the IRQ pin as they were.                   *)
LEMMA DrivenStep ==
  ASSUME StateOK, NEW b \in Boards, NEW d, NEW tx, NEW rx, Driven(chip[b], d, tx, rx), SetChip(b, d)
  PROVE  DriverStep(b, tx, rx)
<1>1. ChipOK(d) /\ (IrqLow(d) <=> IrqLow(chip[b]))
  BY DEF Driven
<1>2. /\ chip' = [o \in Boards |-> chip'[o]] /\ chip'[b] = d
      /\ \A o \in Boards : o # b => chip'[o] = chip[o]
      /\ pending' \in [Boards -> BOOLEAN]
      /\ \A o \in Boards : pending'[o] <=>
           (pending[o] \/ (~IrqLow(chip[o]) /\ IrqLow(chip'[o]) /\ thread[o] # "unarmed"))
  BY <1>1, ChipSet
<1>3. \A o \in Boards : IrqLow(chip'[o]) <=> IrqLow(chip[o])
  <2> TAKE o \in Boards
  <2>1. CASE o = b
    BY <1>1, <1>2, <2>1
  <2>2. CASE o # b
    BY <1>2, <2>2
  <2> QED BY <2>1, <2>2
<1>4. \A o \in Boards : pending'[o] <=> pending[o]
  BY <1>2, <1>3, Zenon
<1>5. pending \in [Boards -> BOOLEAN]
  BY DEF StateOK
<1>6. pending' = pending
  BY <1>2, <1>4, <1>5
<1> QED
  BY <1>2, <1>6 DEF DriverStep

(* The chips that nobody works on stay as they are. *)
LEMMA IdleStep ==
  ASSUME StateOK, NEW b \in Boards, UNCHANGED <<chip, pending>>
  PROVE  DriverStep(b, chip[b].tx, chip[b].rx)
<1>1. ChipOK(chip[b]) /\ chip = [o \in Boards |-> chip[o]]
  BY DEF StateOK
<1> QED
  BY <1>1 DEF DriverStep, Driven

(* What load_tx_buffer makes of a transmit FIFO. *)
Loaded(fifo, p) == IF Len(fifo) < Depth THEN Append(fifo, p) ELSE fifo

(* What the actions of the sender's board do to its chip. *)
LEMMA SenderChip ==
  ASSUME StateOK
  PROVE  LET c == chip[Sender] IN
         /\ (Call \/ OpenWindow \/ CloseWindow \/ AwaitAck \/ Timeout \/ Retry \/ Succeed \/ GiveUp
               => DriverStep(Sender, c.tx, c.rx))
         /\ (Load => DriverStep(Sender, Loaded(c.tx, history.msg), c.rx))
         /\ (TakeAck => \E rx \in Fifos : DriverStep(Sender, c.tx, rx))
<1> DEFINE c == chip[Sender]
<1>1. Sender \in Boards /\ ChipOK(c)
  BY BoardsAreTwo DEF StateOK
<1>2. c.rx \in Fifos
  BY <1>1 DEF ChipOK
<1>3. history.msg \in Payloads
  BY DEF StateOK, Histories, Payloads, Messages, NoMessage
<1>4. ASSUME Call \/ Retry \/ Succeed \/ GiveUp
      PROVE  DriverStep(Sender, c.tx, c.rx)
  BY <1>1, <1>4, IdleStep DEF Call, Retry, Succeed, GiveUp, Returns
<1>5. ASSUME OpenWindow
      PROVE  DriverStep(Sender, c.tx, c.rx)
  <2>1. CASE HasTx(c)
    <3>1. SetChip(Sender, StartListening(c))
      BY <1>5, <2>1 DEF OpenWindow
    <3> QED BY <1>1, <3>1, DriverOperations, DrivenStep
  <2>2. CASE ~HasTx(c)
    <3>1. UNCHANGED <<chip, pending>>
      BY <1>5, <2>2 DEF OpenWindow
    <3> QED BY <1>1, <3>1, IdleStep
  <2> QED BY <2>1, <2>2
<1>6. ASSUME CloseWindow PROVE DriverStep(Sender, c.tx, c.rx)
  <2>1. SetChip(Sender, StopListening(c))
    BY <1>6 DEF CloseWindow
  <2> QED BY <1>1, <2>1, DriverOperations, DrivenStep
<1>7. ASSUME AwaitAck PROVE DriverStep(Sender, c.tx, c.rx)
  <2>1. SetChip(Sender, EnableRxAndListen(c))
    BY <1>7 DEF AwaitAck
  <2> QED BY <1>1, <2>1, DriverOperations, DrivenStep
<1>8. ASSUME Timeout PROVE DriverStep(Sender, c.tx, c.rx)
  <2>1. SetChip(Sender, DisableRx(c))
    BY <1>8 DEF Timeout
  <2> QED BY <1>1, <2>1, DriverOperations, DrivenStep
<1>9. ASSUME Load PROVE DriverStep(Sender, Loaded(c.tx, history.msg), c.rx)
  <2>1. SetChip(Sender, LoadTxBuffer(c, history.msg))
    BY <1>9 DEF Load
  <2>2. Driven(c, LoadTxBuffer(c, history.msg), Loaded(c.tx, history.msg), c.rx)
    BY <1>1, <1>3, DriverOperations DEF Loaded
  <2> QED BY <1>1, <2>1, <2>2, DrivenStep
<1>10. ASSUME TakeAck PROVE \E rx \in Fifos : DriverStep(Sender, c.tx, rx)
  <2>1. CASE FifoEmpty(c)
    <3>1. UNCHANGED <<chip, pending>>
      BY <1>10, <2>1 DEF TakeAck
    <3> QED BY <1>1, <1>2, <3>1, IdleStep
  <2>2. CASE ~FifoEmpty(c)
    <3>1. SetChip(Sender, CheckForReceivedData(c)) /\ c.rx # <<>>
      BY <1>10, <2>2 DEF TakeAck, FifoEmpty
    <3>2. DriverStep(Sender, c.tx, Tail(c.rx))
      BY <1>1, <3>1, DriverOperations, DrivenStep
    <3> QED BY <1>2, <3>1, <3>2, FifoSteps
  <2> QED BY <2>1, <2>2
<1> QED
  BY <1>4, <1>5, <1>6, <1>7, <1>8, <1>9, <1>10

(* What the actions of the receiver's board do to its chip. *)
LEMMA ReceiverChip ==
  ASSUME StateOK
  PROVE  LET c == chip[Receiver] IN
         /\ (Arm \/ StartPreload \/ SetPreloaded \/ SeeFifoEmpty \/ EndAnswer
               => DriverStep(Receiver, c.tx, c.rx))
         /\ (EndPreload => \E tx \in {c.tx, Loaded(c.tx, NoMessage)} : DriverStep(Receiver, tx, c.rx))
         /\ (DropCorrupt => c.rx # <<>> /\ DriverStep(Receiver, c.tx, Tail(c.rx)))
         /\ (AcceptFrame => c.rx # <<>> /\ DriverStep(Receiver,
                              IF preloaded THEN c.tx ELSE Loaded(c.tx, NoMessage), Tail(c.rx)))
<1> DEFINE c == chip[Receiver]
<1>1. Receiver \in Boards /\ ChipOK(c)
  BY BoardsAreTwo DEF StateOK
<1>2. NoMessage \in Payloads
  BY DEF Payloads
<1>3. ASSUME Arm \/ StartPreload \/ SetPreloaded \/ SeeFifoEmpty
      PROVE  DriverStep(Receiver, c.tx, c.rx)
  BY <1>1, <1>3, IdleStep DEF Arm, StartPreload, SetPreloaded, SeeFifoEmpty
<1>4. ASSUME EndAnswer PROVE DriverStep(Receiver, c.tx, c.rx)
  <2> DEFINE d == StopListening(c)
             e == EnableRxAndListen(d)
  <2>1. SetChip(Receiver, e)
    BY <1>4 DEF EndAnswer
  <2>2. Driven(c, d, c.tx, c.rx)
    BY <1>1, DriverOperations
  <2> HIDE DEF d
  <2>3. Driven(d, e, d.tx, d.rx)
    BY <2>2, DriverOperations DEF Driven
  <2> HIDE DEF e
  <2>4. Driven(c, e, c.tx, c.rx)
    BY <2>2, <2>3 DEF Driven
  <2> QED BY <1>1, <2>1, <2>4, DrivenStep
<1>5. ASSUME EndPreload
      PROVE  \E tx \in {c.tx, Loaded(c.tx, NoMessage)} : DriverStep(Receiver, tx, c.rx)
  <2>1. CASE SetChip(Receiver, LoadTxBuffer(c, NoMessage))
    <3>1. Driven(c, LoadTxBuffer(c, NoMessage), Loaded(c.tx, NoMessage), c.rx)
      BY <1>1, <1>2, DriverOperations DEF Loaded
    <3> QED BY <1>1, <2>1, <3>1, DrivenStep
  <2>2. CASE UNCHANGED <<chip, pending>>
    BY <1>1, <2>2, IdleStep
  <2> QED BY <1>5, <2>1, <2>2 DEF EndPreload
<1>6. ASSUME DropCorrupt
      PROVE  c.rx # <<>> /\ DriverStep(Receiver, c.tx, Tail(c.rx))
  <2>1. SetChip(Receiver, CheckForReceivedData(c)) /\ c.rx # <<>>
    BY <1>6 DEF DropCorrupt, FifoEmpty
  <2> QED BY <1>1, <2>1, DriverOperations, DrivenStep
<1>7. ASSUME AcceptFrame
      PROVE  c.rx # <<>> /\ DriverStep(Receiver, IF preloaded THEN c.tx ELSE Loaded(c.tx, NoMessage), Tail(c.rx))
  <2> DEFINE t == CheckForReceivedData(c)
             d == DisableRx(t)
             l == IF preloaded THEN d ELSE LoadTxBuffer(d, NoMessage)
             e == IF HasTx(l) THEN StartListening(l) ELSE l
             tx == IF preloaded THEN c.tx ELSE Loaded(c.tx, NoMessage)
  <2>1. SetChip(Receiver, e) /\ c.rx # <<>>
    BY <1>7 DEF AcceptFrame, FifoEmpty
  <2>2. Driven(c, t, c.tx, Tail(c.rx))
    BY <1>1, <2>1, DriverOperations
  <2> HIDE DEF t
  <2>3. Driven(t, d, t.tx, t.rx)
    BY <2>2, DriverOperations DEF Driven
  <2> HIDE DEF d
  <2>4. Driven(d, l, IF preloaded THEN d.tx ELSE Loaded(d.tx, NoMessage), d.rx)
    <3>1. CASE preloaded
      BY <2>3, <3>1 DEF Driven
    <3>2. CASE ~preloaded
      BY <1>2, <2>3, <3>2, DriverOperations DEF Driven, Loaded
    <3> QED BY <3>1, <3>2
  <2> HIDE DEF l
  <2>5. Driven(l, e, l.tx, l.rx)
    BY <2>4, DriverOperations DEF Driven
  <2> HIDE DEF e
  <2>6. Driven(c, e, tx, Tail(c.rx))
    BY <2>2, <2>3, <2>4, <2>5 DEF Driven
  <2> QED BY <1>1, <2>1, <2>6, DrivenStep
<1> QED
  BY <1>3, <1>4, <1>5, <1>6, <1>7

(* The handlers acknowledge the edge and clear its causes. *)
LEMMA HandlerChip ==
  ASSUME StateOK
  PROVE  /\ (TxReceiveIsr =>
               /\ chip' = [o \in Boards |-> chip'[o]] /\ \A o \in Boards : ChipOK(chip'[o])
               /\ pending' \in [Boards -> BOOLEAN] /\ pending'[Receiver] = pending[Receiver]
               /\ chip'[Receiver] = chip[Receiver] /\ ~IrqLow(chip'[Sender])
               /\ chip'[Sender].tx = chip[Sender].tx)
         /\ (RxReceiveIsr =>
               /\ chip' = chip /\ pending' \in [Boards -> BOOLEAN]
               /\ pending'[Sender] = pending[Sender])
         /\ (EndRxReceiveIsr =>
               /\ chip' = [o \in Boards |-> chip'[o]] /\ \A o \in Boards : ChipOK(chip'[o])
               /\ pending' = pending
               /\ chip'[Sender] = chip[Sender] /\ ~IrqLow(chip'[Receiver])
               /\ chip'[Receiver].tx = chip[Receiver].tx /\ chip'[Receiver].rx = chip[Receiver].rx)
<1>1. Sender \in Boards /\ Receiver \in Boards /\ Sender # Receiver /\ Boards = {Sender, Receiver}
  BY BoardsAreTwo
<1>2. \A b \in Boards : ChipOK(chip[b])
  BY DEF StateOK
<1>3. ASSUME NEW b \in Boards
      PROVE  /\ ChipOK(ClearRxDrFlag(chip[b])) /\ ~IrqLow(ClearRxDrFlag(chip[b]))
             /\ ClearRxDrFlag(chip[b]).tx = chip[b].tx /\ ClearRxDrFlag(chip[b]).rx = chip[b].rx
  BY <1>2, DriverOperations
<1>4. ASSUME TxReceiveIsr
      PROVE  /\ chip' = [o \in Boards |-> chip'[o]] /\ \A o \in Boards : ChipOK(chip'[o])
             /\ pending' \in [Boards -> BOOLEAN] /\ pending'[Receiver] = pending[Receiver]
             /\ chip'[Receiver] = chip[Receiver] /\ ~IrqLow(chip'[Sender])
             /\ chip'[Sender].tx = chip[Sender].tx
  <2>1. /\ chip' = [chip EXCEPT ![Sender] = ClearRxDrFlag(chip[Sender])]
        /\ pending' = [pending EXCEPT ![Sender] = FALSE]
    BY <1>4 DEF TxReceiveIsr
  <2>2. /\ chip' = [o \in Boards |-> chip'[o]] /\ chip'[Sender] = ClearRxDrFlag(chip[Sender])
        /\ chip'[Receiver] = chip[Receiver]
    BY <1>1, <2>1 DEF StateOK
  <2>3. pending' \in [Boards -> BOOLEAN] /\ pending'[Receiver] = pending[Receiver]
    BY <1>1, <2>1 DEF StateOK
  <2> QED BY <1>1, <1>2, <1>3, <2>2, <2>3
<1>5. ASSUME RxReceiveIsr
      PROVE  chip' = chip /\ pending' \in [Boards -> BOOLEAN] /\ pending'[Sender] = pending[Sender]
  BY <1>1, <1>5 DEF RxReceiveIsr, StateOK
<1>6. ASSUME EndRxReceiveIsr
      PROVE  /\ chip' = [o \in Boards |-> chip'[o]] /\ \A o \in Boards : ChipOK(chip'[o])
             /\ pending' = pending
             /\ chip'[Sender] = chip[Sender] /\ ~IrqLow(chip'[Receiver])
             /\ chip'[Receiver].tx = chip[Receiver].tx /\ chip'[Receiver].rx = chip[Receiver].rx
  <2>1. SetChip(Receiver, ClearRxDrFlag(chip[Receiver]))
    BY <1>6 DEF EndRxReceiveIsr
  <2>2. /\ chip' = [o \in Boards |-> chip'[o]] /\ chip'[Receiver] = ClearRxDrFlag(chip[Receiver])
        /\ \A o \in Boards : (o # Receiver => chip'[o] = chip[o]) /\ ChipOK(chip'[o])
        /\ pending' \in [Boards -> BOOLEAN]
        /\ \A o \in Boards : pending'[o] <=>
             (pending[o] \/ (~IrqLow(chip[o]) /\ IrqLow(chip'[o]) /\ thread[o] # "unarmed"))
    BY <1>1, <1>3, <2>1, ChipSet
  <2>3. pending' = pending
    <3>1. pending'[Receiver] <=> pending[Receiver]
      BY <1>1, <1>3, <2>2
    <3>2. pending'[Sender] <=> pending[Sender]
      BY <1>1, <2>2
    <3>3. pending \in [Boards -> BOOLEAN]
      BY DEF StateOK
    <3> QED BY <1>1, <2>2, <3>1, <3>2, <3>3
  <2> QED BY <1>1, <1>3, <2>2, <2>3
<1> QED
  BY <1>4, <1>5, <1>6

(* A frame leaves board s and is lost, or arrives at board r. *)
LEMMA FrameFlies ==
  ASSUME StateOK, NEW s \in Boards, NEW r \in Boards, s # r, Transmit(s, r)
  PROVE  /\ chip' = [o \in Boards |-> chip'[o]] /\ pending' \in [Boards -> BOOLEAN]
         /\ \A o \in Boards : ChipOK(chip'[o]) /\ chip'[o].reg.config = chip[o].reg.config
         /\ \A o \in Boards : pending'[o] <=>
              (pending[o] \/ (~IrqLow(chip[o]) /\ IrqLow(chip'[o]) /\ thread[o] # "unarmed"))
         /\ "PRIM_RX" \notin chip[s].reg.config /\ chip[s].tx # <<>>
         /\ chip'[s].tx = Tail(chip[s].tx) /\ chip'[s].rx = chip[s].rx
         /\ \/ chip'[r] = chip[r]
            \/ /\ chip'[r].tx = chip[r].tx
               /\ \E f \in {Head(chip[s].tx), NoMessage} : chip'[r].rx = Append(chip[r].rx, f)
<1>1. ChipOK(chip[s]) /\ ChipOK(chip[r]) /\ chip[s].tx # <<>> /\ "PRIM_RX" \notin chip[s].reg.config
  BY DEF StateOK, Transmit, Transmitting, HasTx
<1>2. Head(chip[s].tx) \in Payloads /\ NoMessage \in Payloads
  BY <1>1, FifoSteps DEF ChipOK, Payloads
<1>3. \/ SetChip(s, Sent(chip[s]))
      \/ \E f \in {Head(chip[s].tx), NoMessage} : Arrives(s, r, f)
  BY DEF Transmit
<1> DEFINE d == Sent(chip[s])
<1>4. ChipOK(d) /\ d.tx = Tail(chip[s].tx) /\ d.rx = chip[s].rx /\ d.reg.config = chip[s].reg.config
  BY <1>1, ChipEvents
<1> HIDE DEF d
<1>5. CASE SetChip(s, d)
  <2>1. /\ chip' = [o \in Boards |-> chip'[o]] /\ chip'[s] = d
        /\ \A o \in Boards : (o # s => chip'[o] = chip[o]) /\ ChipOK(chip'[o])
        /\ pending' \in [Boards -> BOOLEAN]
        /\ \A o \in Boards : pending'[o] <=>
             (pending[o] \/ (~IrqLow(chip[o]) /\ IrqLow(chip'[o]) /\ thread[o] # "unarmed"))
    BY <1>4, <1>5, ChipSet
  <2>2. \A o \in Boards : chip'[o].reg.config = chip[o].reg.config
    BY <1>4, <2>1
  <2> QED BY <1>1, <1>4, <2>1, <2>2
<1>6. CASE \E f \in {Head(chip[s].tx), NoMessage} : Arrives(s, r, f)
  <2>1. PICK f \in {Head(chip[s].tx), NoMessage} : Arrives(s, r, f)
    BY <1>6
  <2> DEFINE e == Arrived(chip[r], f)
             new == [chip EXCEPT ![s] = d, ![r] = e]
             Falls(o) == ~IrqLow(chip[o]) /\ IrqLow(chip'[o]) /\ thread[o] # "unarmed"
  <2>2. Len(chip[r].rx) < Depth /\ SetChips(new)
    BY <2>1 DEF Arrives, Takes, d
  <2>3. ChipOK(e) /\ e.tx = chip[r].tx /\ e.rx = Append(chip[r].rx, f) /\ e.reg.config = chip[r].reg.config
    BY <1>1, <1>2, <2>2, ChipEvents
  <2> HIDE DEF e
  <2>4. chip' = new /\ pending' = [o \in Boards |-> pending[o] \/ Falls(o)]
    BY <2>2 DEF SetChips
  <2>5. /\ chip' = [o \in Boards |-> chip'[o]] /\ chip'[s] = d /\ chip'[r] = e
        /\ \A o \in Boards : o # s /\ o # r => chip'[o] = chip[o]
    BY <2>4 DEF StateOK
  <2>6. \A o \in Boards : ChipOK(chip'[o]) /\ chip'[o].reg.config = chip[o].reg.config
    <3> TAKE o \in Boards
    <3>1. o = s \/ o = r
      BY BoardsAreTwo
    <3> QED BY <1>4, <2>3, <2>5, <3>1
  <2>7. \A o \in Boards : pending'[o] = (pending[o] \/ Falls(o))
    BY <2>4, Zenon
  <2> HIDE DEF new, Falls
  <2>8. pending' \in [Boards -> BOOLEAN]
    BY <2>4
  <2>9. \A o \in Boards : pending'[o] <=> (pending[o] \/ Falls(o))
    BY <2>7, Zenon
  <2>10. /\ chip'[s].tx = Tail(chip[s].tx) /\ chip'[s].rx = chip[s].rx
         /\ chip'[r].tx = chip[r].tx /\ chip'[r].rx = Append(chip[r].rx, f)
    BY <1>4, <2>3, <2>5
  <2> QED BY <1>1, <2>1, <2>5, <2>6, <2>8, <2>9, <2>10 DEF Falls
<1> QED
  BY <1>3, <1>5, <1>6 DEF d

-----------------------------------------------------------------------------
(* Where the thread and the handler of one board go, the other's stay. *)
LEMMA PcMoves ==
  ASSUME StateOK, NEW b \in Boards, NEW pc
  PROVE  /\ (GoesTo(b, pc) => /\ thread' = [o \in Boards |-> thread'[o]] /\ thread'[b] = pc
                             /\ \A o \in Boards : o # b => thread'[o] = thread[o])
         /\ (HandlerAt(b, pc) => /\ isr' = [o \in Boards |-> isr'[o]] /\ isr'[b] = pc
                                /\ \A o \in Boards : o # b => isr'[o] = isr[o])
<1>1. thread = [o \in Boards |-> thread[o]] /\ isr = [o \in Boards |-> isr[o]]
  BY DEF StateOK
<1> QED
  BY <1>1 DEF GoesTo, HandlerAt

(* The chips and the pending bits keep their types. *)
LEMMA ChipsKept ==
  ASSUME StateOK, [RadioNext]_vars
  PROVE  /\ chip' = [b \in Boards |-> chip'[b]] /\ \A b \in Boards : ChipOK(chip'[b])
         /\ pending' \in [Boards -> BOOLEAN]
<1> DEFINE Goal == /\ chip' = [b \in Boards |-> chip'[b]] /\ \A b \in Boards : ChipOK(chip'[b])
                   /\ pending' \in [Boards -> BOOLEAN]
<1>1. /\ chip = [b \in Boards |-> chip[b]] /\ \A b \in Boards : ChipOK(chip[b])
      /\ pending \in [Boards -> BOOLEAN]
  BY DEF StateOK
<1>2. ASSUME NEW b \in Boards, NEW tx, NEW rx, DriverStep(b, tx, rx) PROVE Goal
  BY <1>1, <1>2 DEF DriverStep, Driven
<1>3. Sender \in Boards /\ Receiver \in Boards /\ Sender # Receiver
  BY BoardsAreTwo
<1>4. ASSUME UNCHANGED vars PROVE Goal
  BY <1>1, <1>4 DEF vars
<1>5. ASSUME Call \/ SenderThread \/ TakeAck PROVE Goal
  BY <1>2, <1>3, <1>5, SenderChip DEF SenderThread
<1>6. ASSUME ReceiverThread \/ DropCorrupt \/ AcceptFrame \/ EndAnswer \/ SeeFifoEmpty PROVE Goal
  BY <1>2, <1>3, <1>6, ReceiverChip DEF ReceiverThread
<1>7. ASSUME TxReceiveIsr \/ RxReceiveIsr \/ EndRxReceiveIsr PROVE Goal
  BY <1>1, <1>7, HandlerChip
<1>8. ASSUME Transmit(Sender, Receiver) \/ Transmit(Receiver, Sender) PROVE Goal
  BY <1>3, <1>8, FrameFlies
<1> QED
  BY <1>4, <1>5, <1>6, <1>7, <1>8 DEF RadioNext, SenderHandler, ReceiverHandler

(* So do the places where threads and handlers stand. *)
LEMMA PlacesKept ==
  ASSUME StateOK, [RadioNext]_vars
  PROVE  /\ isr' = [b \in Boards |-> isr'[b]] /\ thread' = [b \in Boards |-> thread'[b]]
         /\ isr'[Sender] \in {"none", "fifo"}
         /\ isr'[Receiver] \in {"none", "drain", "answer", "clear"}
         /\ thread'[Sender] \in {"idle", "load"} \cup Attempting
         /\ thread'[Receiver] \in {"unarmed", "check", "writing", "set"}
<1> DEFINE IsrOK == /\ isr = [b \in Boards |-> isr[b]] /\ isr[Sender] \in {"none", "fifo"}
                    /\ isr[Receiver] \in {"none", "drain", "answer", "clear"}
           ThreadOK == /\ thread = [b \in Boards |-> thread[b]]
                       /\ thread[Sender] \in {"idle", "load"} \cup Attempting
                       /\ thread[Receiver] \in {"unarmed", "check", "writing", "set"}
<1>1. Sender \in Boards /\ Receiver \in Boards /\ Sender # Receiver
  BY BoardsAreTwo
<1>2. IsrOK /\ ThreadOK
  BY DEF StateOK
<1>3. \A pc \in {"none", "fifo"} : HandlerAt(Sender, pc) => IsrOK'
  BY <1>1, <1>2, PcMoves
<1>4. \A pc \in {"none", "drain", "answer", "clear"} : HandlerAt(Receiver, pc) => IsrOK'
  BY <1>1, <1>2, PcMoves
<1>5. \A pc \in {"idle", "load"} \cup Attempting : GoesTo(Sender, pc) => ThreadOK'
  BY <1>1, <1>2, PcMoves
<1>6. \A pc \in {"unarmed", "check", "writing", "set"} : GoesTo(Receiver, pc) => ThreadOK'
  BY <1>1, <1>2, PcMoves
<1>7. (UNCHANGED isr => IsrOK') /\ (UNCHANGED thread => ThreadOK')
  BY <1>2
<1> HIDE DEF IsrOK, ThreadOK
<1>8. ASSUME Call \/ SenderThread PROVE IsrOK' /\ ThreadOK'
  BY <1>5, <1>7, <1>8 DEF SenderThread, Call, Load, OpenWindow, CloseWindow, AwaitAck, Timeout, Retry,
                         Succeed, GiveUp, Returns, Attempting
<1>9. ASSUME SenderHandler PROVE IsrOK' /\ ThreadOK'
  BY <1>3, <1>7, <1>9 DEF SenderHandler, TxReceiveIsr, TakeAck
<1>10. ASSUME ReceiverThread PROVE IsrOK' /\ ThreadOK'
  BY <1>6, <1>7, <1>10 DEF ReceiverThread, Arm, StartPreload, EndPreload, SetPreloaded
<1>11. ASSUME ReceiverHandler PROVE IsrOK' /\ ThreadOK'
  BY <1>4, <1>7, <1>11 DEF ReceiverHandler, RxReceiveIsr, DropCorrupt, AcceptFrame, EndAnswer,
                           SeeFifoEmpty, EndRxReceiveIsr
<1>12. ASSUME Transmit(Sender, Receiver) \/ Transmit(Receiver, Sender) PROVE IsrOK' /\ ThreadOK'
  BY <1>7, <1>12 DEF Transmit
<1>13. ASSUME UNCHANGED vars PROVE IsrOK' /\ ThreadOK'
  BY <1>7, <1>13 DEF vars
<1>14. IsrOK' /\ ThreadOK'
  BY <1>8, <1>9, <1>10, <1>11, <1>12, <1>13 DEF RadioNext
<1> QED
  BY <1>14 DEF IsrOK, ThreadOK

(* And the flags of the two programs. *)
LEMMA FlagsKept ==
  ASSUME StateOK, [RadioNext]_vars
  PROVE  received' \in BOOLEAN /\ preloaded' \in BOOLEAN /\ cut' \in BOOLEAN
<1>1. received \in BOOLEAN /\ preloaded \in BOOLEAN /\ cut \in BOOLEAN
  BY DEF StateOK
<1>2. received' \in BOOLEAN
  <2>1. CASE UNCHANGED received
    BY <1>1, <2>1
  <2>2. CASE TakeAck
    <3>1. received' = ~FifoEmpty(chip[Sender])
      BY <2>2 DEF TakeAck
    <3> QED BY <3>1, Zenon
  <2>3. CASE received' = FALSE
    BY <2>3, Zenon
  <2>4. Call \/ SenderThread \/ TxReceiveIsr => UNCHANGED received \/ received' = FALSE
    BY DEF SenderThread, TxReceiveIsr, Call, Load, OpenWindow, CloseWindow, AwaitAck, Timeout, Retry,
           Succeed, GiveUp, Returns
  <2>5. ReceiverThread \/ ReceiverHandler => UNCHANGED received
    BY DEF ReceiverThread, Arm, StartPreload, EndPreload, SetPreloaded, ReceiverHandler, RxReceiveIsr,
           DropCorrupt, AcceptFrame, EndAnswer, SeeFifoEmpty, EndRxReceiveIsr
  <2>6. Transmit(Sender, Receiver) \/ Transmit(Receiver, Sender) \/ UNCHANGED vars => UNCHANGED received
    BY DEF Transmit, vars
  <2> QED BY <2>1, <2>2, <2>3, <2>4, <2>5, <2>6 DEF RadioNext, SenderHandler
<1>3. preloaded' \in BOOLEAN /\ cut' \in BOOLEAN
  <2>1. \/ UNCHANGED <<preloaded, cut>>
        \/ UNCHANGED preloaded /\ (cut' = FALSE \/ cut' = (cut \/ thread[Receiver] = "writing"))
        \/ UNCHANGED cut /\ (preloaded' = TRUE \/ preloaded' = FALSE)
    <3>1. Call \/ SenderThread \/ SenderHandler => UNCHANGED <<preloaded, cut>>
      BY DEF SenderThread, SenderHandler, TxReceiveIsr, TakeAck, Call, Load, OpenWindow, CloseWindow,
             AwaitAck, Timeout, Retry, Succeed, GiveUp, Returns
    <3>2. Transmit(Sender, Receiver) \/ Transmit(Receiver, Sender) \/ UNCHANGED vars
            => UNCHANGED <<preloaded, cut>>
      BY DEF Transmit, vars
    <3>3. Arm \/ EndPreload \/ DropCorrupt \/ SeeFifoEmpty \/ EndRxReceiveIsr => UNCHANGED <<preloaded, cut>>
      BY DEF Arm, EndPreload, DropCorrupt, SeeFifoEmpty, EndRxReceiveIsr
    <3>4. StartPreload => UNCHANGED preloaded /\ cut' = FALSE
      BY DEF StartPreload
    <3>5. RxReceiveIsr => UNCHANGED preloaded /\ cut' = (cut \/ thread[Receiver] = "writing")
      BY DEF RxReceiveIsr
    <3>6. SetPreloaded \/ AcceptFrame => UNCHANGED cut /\ preloaded' = TRUE
      BY DEF SetPreloaded, AcceptFrame
    <3>7. EndAnswer => UNCHANGED cut /\ preloaded' = FALSE
      BY DEF EndAnswer
    <3> QED
      BY <3>1, <3>2, <3>3, <3>4, <3>5, <3>6, <3>7 DEF RadioNext, ReceiverThread, ReceiverHandler
  <2> QED BY <1>1, <2>1, Zenon
<1> QED
  BY <1>2, <1>3

(* The summary of a call counts it as lost exactly when no attempt is left. *)
LEMMA Summarised ==
  ASSUME NEW o \in Observations
  PROVE  /\ Summary(o) \in Observations /\ Summary(o).retransmits = 0
         /\ Summary(o).packages = o.packages
         /\ Summary(o).lost = IF o.retransmits = RetransmitCount THEN o.lost + 1 ELSE o.lost
<1>1. RetransmitCount \in Nat
  BY RadioAssumption
<1>2. /\ o.retransmits \in Nat /\ o.max \in Nat /\ o.total \in Nat /\ o.packages \in Nat /\ o.lost \in Nat
      /\ o.retransmits \in 0..RetransmitCount
  BY <1>1 DEF Observations
<1>3. 0 \in 0..RetransmitCount /\ o.total + o.retransmits \in Nat /\ o.lost + 1 \in Nat
  BY <1>1, <1>2
<1> DEFINE lost == IF o.retransmits = RetransmitCount THEN o.lost + 1 ELSE o.lost
           most == IF o.retransmits > o.max THEN o.retransmits ELSE o.max
           total == o.total + o.retransmits
<1>4. lost \in Nat /\ most \in Nat /\ total \in Nat
  BY <1>2, <1>3
<1>5. Summary(o) = [o EXCEPT !.lost = lost, !.max = most, !.total = total, !.retransmits = 0]
  BY DEF Summary
<1> HIDE DEF lost, most, total
<1>6. Summary(o) = [retransmits |-> 0, max |-> most, total |-> total, packages |-> o.packages, lost |-> lost]
  BY <1>5 DEF Observations
<1>7. /\ Summary(o) \in Observations /\ Summary(o).retransmits = 0
      /\ Summary(o).packages = o.packages /\ Summary(o).lost = lost
  BY <1>2, <1>3, <1>4, <1>6 DEF Observations
<1> QED
  BY <1>7 DEF lost

(* Every call is counted once: when it succeeds or when it gives up. *)
LEMMA CountedKept ==
  ASSUME StateOK, Counted, [RadioNext]_vars
  PROVE  observe' \in Observations /\ Counted'
<1> DEFINE Running == IF thread[Sender] = "idle" THEN 0 ELSE 1
           Goal == observe' \in Observations /\ Counted'
<1>1. RetransmitCount \in Nat \ {0} /\ Sender \in Boards /\ Receiver \in Boards /\ Sender # Receiver
  BY RadioAssumption, BoardsAreTwo
<1>2. /\ observe \in Observations /\ history.msg \in Nat
      /\ observe.packages \in Nat /\ observe.lost \in Nat /\ observe.retransmits \in 0..RetransmitCount
  BY RadioAssumption DEF StateOK, Observations, Histories
<1>3. observe.packages + observe.lost + Running = history.msg
      /\ (thread[Sender] \in Attempting => observe.retransmits < RetransmitCount)
  BY DEF Counted
<1>4. ASSUME UNCHANGED <<observe, thread[Sender], history.msg>> PROVE Goal
  BY <1>2, <1>3, <1>4 DEF Counted
<1>5. ASSUME NEW pc, GoesTo(Sender, pc) PROVE thread'[Sender] = pc
  BY <1>1, <1>5, PcMoves
<1>6. ASSUME Call PROVE Goal
  <2>1. thread[Sender] = "idle" /\ thread'[Sender] = "load" /\ UNCHANGED observe
    BY <1>5, <1>6 DEF Call, Runs
  <2>2. history'.msg = history.msg + 1
    BY <1>6 DEF Call, StateOK, Histories
  <2> QED BY <1>2, <1>3, <2>1, <2>2 DEF Counted, Attempting
<1>7. ASSUME Load PROVE Goal
  <2>1. thread[Sender] = "load" /\ thread'[Sender] = "transmit" /\ UNCHANGED <<observe, history>>
    BY <1>5, <1>7 DEF Load, Runs
  <2>2. observe.retransmits < RetransmitCount
    BY <1>7 DEF Load
  <2> QED BY <1>2, <1>3, <2>1, <2>2 DEF Counted
<1>8. ASSUME OpenWindow \/ CloseWindow \/ AwaitAck \/ Timeout PROVE Goal
  <2>1. /\ thread[Sender] \in Attempting /\ thread'[Sender] \in Attempting
        /\ UNCHANGED <<observe, history>>
    BY <1>5, <1>8 DEF OpenWindow, CloseWindow, AwaitAck, Timeout, Runs, Attempting
  <2>2. "idle" \notin Attempting
    BY DEF Attempting
  <2> QED BY <1>2, <1>3, <2>1, <2>2 DEF Counted
<1>9. ASSUME Retry PROVE Goal
  <2>1. thread[Sender] = "decide" /\ thread'[Sender] = "load" /\ UNCHANGED history
    BY <1>5, <1>9 DEF Retry, Runs
  <2>2. observe' = [observe EXCEPT !.retransmits = @ + 1]
    BY <1>9 DEF Retry
  <2>3. observe.retransmits + 1 \in 0..RetransmitCount
    BY <1>1, <1>2, <1>3, <2>1 DEF Attempting
  <2>4. observe' \in Observations /\ observe'.packages = observe.packages /\ observe'.lost = observe.lost
    BY <1>2, <2>2, <2>3 DEF Observations
  <2> QED BY <1>2, <1>3, <2>1, <2>4 DEF Counted, Attempting
<1>10. ASSUME Succeed PROVE Goal
  <2> DEFINE o == [observe EXCEPT !.packages = @ + 1]
  <2>1. thread[Sender] = "decide" /\ thread'[Sender] = "idle" /\ UNCHANGED history /\ observe' = Summary(o)
    BY <1>5, <1>10 DEF Succeed, Returns, Runs
  <2>2. /\ o \in Observations /\ o.packages = observe.packages + 1 /\ o.lost = observe.lost
        /\ o.retransmits = observe.retransmits
    BY <1>2 DEF Observations
  <2>3. observe.retransmits # RetransmitCount
    BY <1>1, <1>2, <1>3, <2>1 DEF Attempting
  <2> HIDE DEF o
  <2>4. observe' \in Observations /\ observe'.packages = observe.packages + 1 /\ observe'.lost = observe.lost
    BY <2>1, <2>2, <2>3, Summarised
  <2> QED BY <1>2, <1>3, <2>1, <2>4 DEF Counted, Attempting
<1>11. ASSUME GiveUp PROVE Goal
  <2>1. /\ thread[Sender] = "load" /\ thread'[Sender] = "idle" /\ UNCHANGED history
        /\ observe' = Summary(observe) /\ observe.retransmits >= RetransmitCount
    BY <1>5, <1>11 DEF GiveUp, Returns, Runs
  <2>2. observe.retransmits = RetransmitCount
    BY <1>1, <1>2, <2>1
  <2>3. observe' \in Observations /\ observe'.packages = observe.packages /\ observe'.lost = observe.lost + 1
    BY <1>2, <2>1, <2>2, Summarised
  <2> QED BY <1>2, <1>3, <2>1, <2>3 DEF Counted, Attempting
<1>12. ASSUME SenderHandler \/ UNCHANGED vars PROVE Goal
  BY <1>4, <1>12 DEF SenderHandler, TxReceiveIsr, TakeAck, vars
<1>13. ASSUME ReceiverThread PROVE Goal
  <2>1. UNCHANGED <<observe, history>> /\ thread'[Sender] = thread[Sender]
    BY <1>1, <1>13, PcMoves DEF ReceiverThread, Arm, StartPreload, EndPreload, SetPreloaded
  <2> QED BY <1>4, <2>1
<1>14. ASSUME ReceiverHandler PROVE Goal
  <2>1. UNCHANGED <<observe, thread>> /\ history'.msg = history.msg
    BY <1>14 DEF ReceiverHandler, RxReceiveIsr, DropCorrupt, AcceptFrame, EndAnswer, SeeFifoEmpty,
                 EndRxReceiveIsr, StateOK, Histories
  <2> QED BY <1>4, <2>1
<1>15. ASSUME NEW s, NEW r, Transmit(s, r) PROVE Goal
  <2>1. UNCHANGED <<observe, thread>> /\ history'.msg = history.msg
    BY <1>15 DEF Transmit, StateOK, Histories
  <2> QED BY <1>4, <2>1
<1> QED
  BY <1>6, <1>7, <1>8, <1>9, <1>10, <1>11, <1>12, <1>13, <1>14, <1>15 DEF RadioNext, SenderThread

(* A driver's step leaves the causes and the pending bits of both boards. *)
LEMMA DriverStepIsSilent ==
  ASSUME StateOK, NEW b \in Boards, NEW tx, NEW rx, DriverStep(b, tx, rx)
  PROVE  /\ \A o \in Boards : IrqLow(chip'[o]) <=> IrqLow(chip[o])
         /\ \A o \in Boards : o # b => chip'[o] = chip[o]
         /\ pending' = pending /\ chip'[b].tx = tx /\ chip'[b].rx = rx
<1>1. (IrqLow(chip'[b]) <=> IrqLow(chip[b])) /\ chip'[b].tx = tx /\ chip'[b].rx = rx
  BY DEF DriverStep, Driven
<1>2. (\A o \in Boards : o # b => chip'[o] = chip[o]) /\ pending' = pending
  BY DEF DriverStep
<1>3. ASSUME NEW o \in Boards PROVE IrqLow(chip'[o]) <=> IrqLow(chip[o])
  <2>1. CASE o = b
    BY <1>1, <2>1
  <2>2. CASE o # b
    <3>1. chip'[o] = chip[o]
      BY <1>2, <2>2
    <3> QED BY <3>1
  <2> QED BY <2>1, <2>2
<1> QED
  BY <1>1, <1>2, <1>3

(* No cause stays without a handler. *)
LEMMA ServedKept ==
  ASSUME StateOK, Served, [RadioNext]_vars
  PROVE  Served'
<1> DEFINE SenderServed == IrqLow(chip[Sender]) => pending[Sender]
           ReceiverServed == IrqLow(chip[Receiver]) =>
                               isr[Receiver] # "none" \/ pending[Receiver] \/ history.early
           Unarmed == thread[Receiver] = "unarmed" =>
                        isr[Receiver] = "none" /\ ~pending[Receiver] /\ "PRIM_RX" \in chip[Receiver].reg.config
<1>1. SenderServed /\ ReceiverServed /\ Unarmed
  BY DEF Served
<1>2. SenderServed' /\ ReceiverServed' /\ Unarmed' => Served'
  BY DEF Served
<1>3. Sender \in Boards /\ Receiver \in Boards /\ Sender # Receiver
  BY BoardsAreTwo
<1>4. ASSUME NEW tx, NEW rx, DriverStep(Sender, tx, rx),
             UNCHANGED <<isr[Receiver], thread[Receiver], history.early>>
      PROVE  Served'
  <2>1. /\ IrqLow(chip'[Sender]) <=> IrqLow(chip[Sender])
        /\ chip'[Receiver] = chip[Receiver] /\ pending' = pending
    BY <1>3, <1>4, DriverStepIsSilent
  <2> QED BY <1>1, <1>2, <1>4, <2>1
<1>5. ASSUME NEW tx, NEW rx, DriverStep(Receiver, tx, rx), UNCHANGED history.early,
             isr'[Receiver] = isr[Receiver] \/ isr'[Receiver] # "none", thread'[Receiver] # "unarmed"
      PROVE  Served'
  <2>1. /\ IrqLow(chip'[Receiver]) <=> IrqLow(chip[Receiver])
        /\ chip'[Sender] = chip[Sender] /\ pending' = pending
    BY <1>3, <1>5, DriverStepIsSilent
  <2> QED BY <1>1, <1>2, <1>5, <2>1
<1>6. ASSUME Call \/ SenderThread \/ TakeAck PROVE Served'
  <2>1. \E tx, rx : DriverStep(Sender, tx, rx)
    BY <1>6, SenderChip DEF SenderThread
  <2>2. UNCHANGED thread[Receiver]
    BY <1>3, <1>6, PcMoves DEF SenderThread, Call, Load, OpenWindow, CloseWindow, AwaitAck, Timeout, Retry,
          Succeed, GiveUp, Returns, TakeAck
  <2>3. UNCHANGED isr[Receiver]
    BY <1>3, <1>6, PcMoves DEF SenderThread, Call, Load, OpenWindow, CloseWindow, AwaitAck, Timeout, Retry,
          Succeed, GiveUp, Returns, TakeAck
  <2>4. UNCHANGED history.early
    BY <1>6 DEF SenderThread, Call, Load, OpenWindow, CloseWindow, AwaitAck, Timeout, Retry,
          Succeed, GiveUp, Returns, TakeAck, StateOK, Histories
  <2> QED BY <1>4, <2>1, <2>2, <2>3, <2>4
<1>7. ASSUME ReceiverThread PROVE Served'
  <2>1. \E tx, rx : DriverStep(Receiver, tx, rx)
    BY <1>7, ReceiverChip DEF ReceiverThread
  <2>2. UNCHANGED <<isr, history>> /\ thread'[Receiver] # "unarmed"
    BY <1>3, <1>7, PcMoves DEF ReceiverThread, Arm, StartPreload, EndPreload, SetPreloaded
  <2> QED BY <1>5, <2>1, <2>2
<1>8. ASSUME DropCorrupt \/ AcceptFrame \/ EndAnswer \/ SeeFifoEmpty PROVE Served'
  <2>1. \E tx, rx : DriverStep(Receiver, tx, rx)
    BY <1>8, ReceiverChip
  <2>2. isr[Receiver] # "none" /\ UNCHANGED thread
    BY <1>8 DEF DropCorrupt, AcceptFrame, EndAnswer, SeeFifoEmpty, Handles
  <2>3. isr'[Receiver] = isr[Receiver] \/ isr'[Receiver] # "none"
    BY <1>3, <1>8, PcMoves DEF DropCorrupt, AcceptFrame, EndAnswer, SeeFifoEmpty
  <2>4. UNCHANGED history.early
    BY <1>8 DEF DropCorrupt, AcceptFrame, EndAnswer, SeeFifoEmpty, StateOK, Histories
  <2> QED BY <1>1, <1>5, <2>1, <2>2, <2>3, <2>4
<1>9. ASSUME TxReceiveIsr PROVE Served'
  <2>1. ~IrqLow(chip'[Sender]) /\ chip'[Receiver] = chip[Receiver] /\ pending'[Receiver] = pending[Receiver]
    BY <1>9, HandlerChip
  <2>2. UNCHANGED <<thread, history, isr[Receiver]>>
    BY <1>3, <1>9, PcMoves DEF TxReceiveIsr
  <2> QED BY <1>1, <1>2, <2>1, <2>2
<1>10. ASSUME RxReceiveIsr PROVE Served'
  <2>1. chip' = chip /\ pending'[Sender] = pending[Sender]
    BY <1>10, HandlerChip
  <2>2. isr'[Receiver] = "drain" /\ UNCHANGED thread /\ pending[Receiver]
    BY <1>3, <1>10, PcMoves DEF RxReceiveIsr
  <2> QED BY <1>1, <1>2, <2>1, <2>2
<1>11. ASSUME EndRxReceiveIsr PROVE Served'
  <2>1. ~IrqLow(chip'[Receiver]) /\ chip'[Sender] = chip[Sender] /\ pending' = pending
    BY <1>11, HandlerChip
  <2>2. isr[Receiver] # "none" /\ UNCHANGED thread
    BY <1>11 DEF EndRxReceiveIsr, Handles
  <2> QED BY <1>1, <1>2, <2>1, <2>2
<1>12. ASSUME NEW s \in Boards, NEW r \in Boards, s # r, Transmit(s, r) PROVE Served'
  <2>1. /\ UNCHANGED <<isr, thread>>
        /\ history'.early = (history.early \/ (thread[r] = "unarmed" /\ chip'[r].rx # <<>>))
    BY <1>12 DEF Transmit, StateOK, Histories
  <2>2. /\ \A o \in Boards : chip'[o].reg.config = chip[o].reg.config
        /\ \A o \in Boards : pending'[o] <=>
             (pending[o] \/ (~IrqLow(chip[o]) /\ IrqLow(chip'[o]) /\ thread[o] # "unarmed"))
        /\ "PRIM_RX" \notin chip[s].reg.config
        /\ chip'[r] = chip[r] \/ \E f \in {Head(chip[s].tx), NoMessage} : chip'[r].rx = Append(chip[r].rx, f)
    BY <1>12, FrameFlies
  <2>3. thread[Sender] # "unarmed"
    BY DEF StateOK, Attempting
  <2>4. SenderServed'
    BY <1>1, <1>3, <2>2, <2>3
  <2>5. Unarmed'
    BY <1>1, <1>3, <2>1, <2>2
  <2>6. CASE thread[Receiver] # "unarmed"
    BY <1>1, <1>2, <1>3, <2>1, <2>2, <2>4, <2>5, <2>6
  <2>7. CASE thread[Receiver] = "unarmed"
    <3>1. r = Receiver
      BY <1>1, <1>12, <2>2, <2>7, BoardsAreTwo
    <3>2. chip'[r] = chip[r] \/ chip'[r].rx # <<>>
      <4>1. chip[r].rx \in Seq(Payloads)
        BY DEF StateOK, ChipOK, Fifos
      <4>2. \A f : Len(Append(chip[r].rx, f)) = Len(chip[r].rx) + 1
        BY <4>1
      <4>3. Len(<<>>) = 0 /\ Len(chip[r].rx) \in Nat
        BY <4>1
      <4> QED BY <2>2, <4>2, <4>3
    <3>3. CASE chip'[r] = chip[r]
      BY <1>1, <1>2, <2>1, <2>2, <2>4, <2>5, <3>1, <3>3
    <3>4. CASE chip'[r].rx # <<>>
      BY <1>2, <2>1, <2>4, <2>5, <2>7, <3>1, <3>4
    <3> QED BY <3>2, <3>3, <3>4
  <2> QED BY <2>6, <2>7
<1>13. ASSUME UNCHANGED vars PROVE Served'
  BY <1>1, <1>2, <1>13 DEF vars
<1> QED
  BY <1>3, <1>6, <1>7, <1>8, <1>9, <1>10, <1>11, <1>12, <1>13 DEF RadioNext, SenderHandler, ReceiverHandler

(* The thread's ack and the handler's are all that ever wait together. *)
LEMMA AcksKept ==
  ASSUME StateOK, Acks, [RadioNext]_vars
  PROVE  Acks'
<1> DEFINE tx == chip[Receiver].tx
           n == Len(tx)
           InAnswer == isr[Receiver] = "answer" => n <= 2
           Outside == isr[Receiver] # "answer" =>
                        /\ n <= 1
                        /\ (~preloaded /\ thread[Receiver] # "set" => n = 0)
                        /\ (preloaded => thread[Receiver] \in {"unarmed", "check"})
<1>1. InAnswer /\ Outside
  BY DEF Acks
<1>2. InAnswer' /\ Outside' => Acks'
  BY DEF Acks
<1>3. Sender \in Boards /\ Receiver \in Boards /\ Sender # Receiver
  BY BoardsAreTwo
<1>4. tx \in Fifos /\ n \in Nat /\ (n = 0 <=> tx = <<>>)
  <2>1. tx \in Fifos
    BY <1>3 DEF StateOK, ChipOK
  <2> QED BY <2>1, FifoSteps
<1>5. Len(Loaded(tx, NoMessage)) = IF n < Depth THEN n + 1 ELSE n
  BY <1>4 DEF Loaded, Fifos
<1>6. ASSUME UNCHANGED <<tx, isr[Receiver], thread[Receiver], preloaded>> PROVE Acks'
  BY <1>1, <1>2, <1>6
<1>7. ASSUME Call \/ SenderThread \/ TakeAck PROVE Acks'
  <2>1. \E t, r : DriverStep(Sender, t, r)
    BY <1>7, SenderChip DEF SenderThread
  <2>2. UNCHANGED tx
    BY <1>3, <2>1, DriverStepIsSilent
  <2>3. UNCHANGED <<isr[Receiver], thread[Receiver], preloaded>>
    BY <1>3, <1>7, PcMoves DEF SenderThread, Call, Load, OpenWindow, CloseWindow, AwaitAck, Timeout, Retry,
          Succeed, GiveUp, Returns, TakeAck
  <2> QED BY <1>6, <2>2, <2>3
<1>8. ASSUME TxReceiveIsr PROVE Acks'
  <2>1. UNCHANGED tx /\ UNCHANGED <<isr[Receiver], thread[Receiver], preloaded>>
    BY <1>3, <1>8, HandlerChip, PcMoves DEF TxReceiveIsr
  <2> QED BY <1>6, <2>1
<1>9. ASSUME Arm \/ StartPreload \/ SetPreloaded PROVE Acks'
  <2>1. UNCHANGED tx
    BY <1>3, <1>9, ReceiverChip, DriverStepIsSilent
  <2>2. UNCHANGED isr /\ isr[Receiver] = "none"
    BY <1>9 DEF Arm, StartPreload, SetPreloaded, Runs
  <2>3. CASE Arm
    <3>1. thread[Receiver] = "unarmed" /\ thread'[Receiver] = "check" /\ UNCHANGED preloaded
      BY <1>3, <2>3, PcMoves DEF Arm, Runs
    <3> QED BY <1>1, <1>2, <2>1, <2>2, <3>1
  <2>4. CASE StartPreload
    <3>1. thread[Receiver] = "check" /\ UNCHANGED preloaded /\ ~preloaded
      BY <1>3, <2>4, PcMoves DEF StartPreload, Runs
    <3> QED BY <1>1, <1>2, <2>1, <2>2, <3>1
  <2>5. CASE SetPreloaded
    <3>1. thread'[Receiver] = "check" /\ preloaded' = TRUE
      BY <1>3, <2>5, PcMoves DEF SetPreloaded, Runs
    <3> QED BY <1>1, <1>2, <2>1, <2>2, <3>1
  <2> QED BY <1>9, <2>3, <2>4, <2>5
<1>10. ASSUME EndPreload PROVE Acks'
  <2>1. /\ thread[Receiver] = "writing" /\ thread'[Receiver] = "set"
        /\ isr[Receiver] = "none" /\ UNCHANGED <<isr, preloaded>>
    BY <1>3, <1>10, PcMoves DEF EndPreload, Runs
  <2>2. ~preloaded /\ n = 0
    BY <1>1, <2>1
  <2>3. tx' = tx \/ tx' = Loaded(tx, NoMessage)
    BY <1>3, <1>10, ReceiverChip, DriverStepIsSilent
  <2>4. n' <= 1
    <3>1. CASE tx' = tx
      BY <2>2, <3>1
    <3>2. CASE tx' = Loaded(tx, NoMessage)
      <4>1. Len(Loaded(tx, NoMessage)) = 1
        BY <1>5, <2>2 DEF Depth
      <4>2. n' = 1
        BY <3>2, <4>1
      <4> QED BY <4>2
    <3> QED BY <2>3, <3>1, <3>2
  <2> QED BY <1>2, <2>1, <2>2, <2>4
<1>11. ASSUME RxReceiveIsr PROVE Acks'
  <2>1. UNCHANGED <<tx, thread, preloaded>> /\ isr[Receiver] = "none" /\ isr'[Receiver] = "drain"
    BY <1>3, <1>11, PcMoves DEF RxReceiveIsr, Handles
  <2> QED BY <1>1, <1>2, <2>1
<1>12. ASSUME DropCorrupt \/ SeeFifoEmpty PROVE Acks'
  <2>1. UNCHANGED tx
    BY <1>3, <1>12, ReceiverChip, DriverStepIsSilent
  <2>2. UNCHANGED <<thread, preloaded>> /\ isr[Receiver] # "answer" /\ isr'[Receiver] # "answer"
    BY <1>3, <1>12, PcMoves DEF DropCorrupt, SeeFifoEmpty, Handles
  <2> QED BY <1>1, <1>2, <2>1, <2>2
<1>13. ASSUME AcceptFrame PROVE Acks'
  <2>1. isr[Receiver] = "drain" /\ isr'[Receiver] = "answer"
    BY <1>3, <1>13, PcMoves DEF AcceptFrame, Handles
  <2>2. tx' = IF preloaded THEN tx ELSE Loaded(tx, NoMessage)
    BY <1>3, <1>13, ReceiverChip, DriverStepIsSilent
  <2>3. n' <= 2
    BY <1>1, <1>4, <1>5, <2>1, <2>2 DEF Depth
  <2> QED BY <1>2, <2>1, <2>3
<1>14. ASSUME EndAnswer PROVE Acks'
  <2>1. UNCHANGED tx
    BY <1>3, <1>14, ReceiverChip, DriverStepIsSilent
  <2>2. tx = <<>> /\ preloaded' = FALSE /\ isr'[Receiver] = "drain"
    BY <1>3, <1>14, PcMoves DEF EndAnswer, HasTx
  <2> QED BY <1>2, <1>4, <2>1, <2>2
<1>15. ASSUME EndRxReceiveIsr PROVE Acks'
  <2>1. UNCHANGED tx
    BY <1>15, HandlerChip
  <2>2. UNCHANGED <<thread, preloaded>> /\ isr[Receiver] # "answer" /\ isr'[Receiver] # "answer"
    BY <1>3, <1>15, PcMoves DEF EndRxReceiveIsr, Handles
  <2> QED BY <1>1, <1>2, <2>1, <2>2
<1>16. ASSUME NEW s \in Boards, NEW r \in Boards, s # r, Transmit(s, r) PROVE Acks'
  <2>1. UNCHANGED <<isr, thread, preloaded>>
    BY <1>16 DEF Transmit
  <2>2. CASE r = Receiver
    <3>1. UNCHANGED tx
      BY <1>16, <2>2, FrameFlies
    <3> QED BY <1>6, <2>1, <3>1
  <2>3. CASE s = Receiver
    <3>1. tx # <<>> /\ tx' = Tail(tx)
      BY <1>16, <2>3, FrameFlies
    <3>2. n' = n - 1 /\ n # 0
      BY <1>4, <3>1, FifoSteps
    <3> QED BY <1>1, <1>2, <1>4, <2>1, <3>2
  <2> QED BY <1>16, <2>2, <2>3, BoardsAreTwo
<1>17. ASSUME UNCHANGED vars PROVE Acks'
  BY <1>6, <1>17 DEF vars
<1> QED
  BY <1>3, <1>7, <1>8, <1>9, <1>10, <1>11, <1>12, <1>13, <1>14, <1>15, <1>16, <1>17
  DEF RadioNext, SenderHandler, ReceiverHandler, ReceiverThread

-----------------------------------------------------------------------------
(* What happens to messages in order: a new call, a retransmission, a frame *)
(* that flies, a frame that is dropped and one that is accepted.           *)
LEMMA OrderSteps ==
  ASSUME NEW last \in Nat, NEW msg \in Nat, NEW rx \in Seq(Nat), NEW tx \in Seq(Nat),
         InOrder(last, rx, tx, msg)
  PROVE  /\ InOrder(last, rx, tx, msg + 1)
         /\ (msg # NoMessage => InOrder(last, rx, Append(tx, msg), msg))
         /\ (tx # <<>> => /\ InOrder(last, rx, Tail(tx), msg)
                         /\ \A f \in {Head(tx), NoMessage} : InOrder(last, Append(rx, f), Tail(tx), msg))
         /\ (rx # <<>> => InOrder(last, Tail(rx), tx, msg))
         /\ (rx # <<>> /\ Head(rx) # NoMessage =>
               last <= Head(rx) /\ InOrder(Head(rx), Tail(rx), tx, msg))
<1>1. /\ DOMAIN rx = 1..Len(rx) /\ DOMAIN tx = 1..Len(tx) /\ Len(rx) \in Nat /\ Len(tx) \in Nat
      /\ \A i \in DOMAIN rx : rx[i] \in Nat
      /\ \A i \in DOMAIN tx : tx[i] \in Nat
  OBVIOUS
<1>2. InOrder(last, rx, tx, msg + 1)
  BY <1>1 DEF InOrder
<1>3. ASSUME msg # NoMessage PROVE InOrder(last, rx, Append(tx, msg), msg)
  <2> DEFINE t == Append(tx, msg)
  <2>1. /\ DOMAIN t = 1..(Len(tx) + 1) /\ t[Len(tx) + 1] = msg
        /\ \A i \in DOMAIN tx : t[i] = tx[i]
    OBVIOUS
  <2>2. \A j \in DOMAIN t : j \in DOMAIN tx \/ j = Len(tx) + 1
    BY <1>1, <2>1
  <2> HIDE DEF t
  <2> QED BY <1>1, <1>3, <2>1, <2>2 DEF InOrder
<1>4. ASSUME tx # <<>>
      PROVE  /\ InOrder(last, rx, Tail(tx), msg)
             /\ \A f \in {Head(tx), NoMessage} : InOrder(last, Append(rx, f), Tail(tx), msg)
  <2> DEFINE t == Tail(tx)
  <2>1. /\ 1 \in DOMAIN tx /\ Head(tx) = tx[1]
        /\ \A j \in DOMAIN t : j \in Nat /\ j + 1 \in DOMAIN tx /\ t[j] = tx[j + 1] /\ 1 <= j + 1
    BY <1>1, <1>4
  <2> HIDE DEF t
  <2>2. InOrder(last, rx, t, msg)
    BY <1>1, <2>1 DEF InOrder
  <2>3. ASSUME NEW f \in {Head(tx), NoMessage} PROVE InOrder(last, Append(rx, f), t, msg)
    <3> DEFINE r == Append(rx, f)
    <3>1. /\ DOMAIN r = 1..(Len(rx) + 1) /\ r[Len(rx) + 1] = f
          /\ \A i \in DOMAIN rx : r[i] = rx[i]
      OBVIOUS
    <3>2. \A i \in DOMAIN r : i \in DOMAIN rx \/ i = Len(rx) + 1
      BY <1>1, <3>1
    <3>3. f \in Nat /\ (f # NoMessage => f = tx[1])
      BY <1>1, <2>1 DEF NoMessage
    <3> HIDE DEF r
    <3>4. \A i \in DOMAIN r : r[i] # NoMessage => last <= r[i] /\ r[i] <= msg
      BY <1>1, <2>1, <3>1, <3>2, <3>3 DEF InOrder
    <3>5. \A i, j \in DOMAIN r : i <= j /\ r[i] # NoMessage /\ r[j] # NoMessage => r[i] <= r[j]
      <4> TAKE i, j \in DOMAIN r
      <4> HAVE i <= j /\ r[i] # NoMessage /\ r[j] # NoMessage
      <4>1. CASE j \in DOMAIN rx
        <5>1. i \in DOMAIN rx
          BY <1>1, <3>2, <4>1
        <5> QED BY <3>1, <4>1, <5>1 DEF InOrder
      <4>2. CASE j = Len(rx) + 1 /\ i \in DOMAIN rx
        BY <2>1, <3>1, <3>3, <4>2 DEF InOrder
      <4>3. CASE j = Len(rx) + 1 /\ i = Len(rx) + 1
        BY <3>1, <3>3, <4>3
      <4> QED BY <3>2, <4>1, <4>2, <4>3
    <3>6. \A i \in DOMAIN r, j \in DOMAIN t : r[i] # NoMessage => r[i] <= t[j]
      BY <1>1, <2>1, <3>1, <3>2, <3>3 DEF InOrder
    <3>7. InOrder(last, r, t, msg)
      BY <2>2, <3>4, <3>5, <3>6 DEF InOrder
    <3> QED BY <3>7 DEF r
  <2> QED BY <2>2, <2>3 DEF t
<1>5. ASSUME rx # <<>>
      PROVE  /\ InOrder(last, Tail(rx), tx, msg)
             /\ Head(rx) # NoMessage => last <= Head(rx) /\ InOrder(Head(rx), Tail(rx), tx, msg)
  <2> DEFINE r == Tail(rx)
  <2>1. /\ 1 \in DOMAIN rx /\ Head(rx) = rx[1]
        /\ \A j \in DOMAIN r : j \in Nat /\ j + 1 \in DOMAIN rx /\ r[j] = rx[j + 1] /\ 1 <= j + 1
    BY <1>1, <1>5
  <2> HIDE DEF r
  <2>2. InOrder(last, r, tx, msg)
    BY <1>1, <2>1 DEF InOrder
  <2>3. ASSUME Head(rx) # NoMessage PROVE last <= Head(rx) /\ InOrder(Head(rx), r, tx, msg)
    BY <1>1, <2>1, <2>3 DEF InOrder
  <2> QED BY <2>2, <2>3 DEF r
<1> QED
  BY <1>2, <1>3, <1>4, <1>5

(* Nothing overtakes on the way, and what is accepted was called for last   *)
(* or later than what was accepted before.                                 *)
LEMMA OrderedKept ==
  ASSUME StateOK, Ordered, [RadioNext]_vars
  PROVE  history' \in Histories /\ Ordered' /\ history'.last >= history.last
<1> DEFINE last == history.last
           msg == history.msg
           rx == chip[Receiver].rx
           tx == chip[Sender].tx
           Queued == InOrder(last, rx, tx, msg)
           Called == thread[Sender] # "idle" => msg # 0
           Goal == history' \in Histories /\ Ordered' /\ last' >= last
<1>1. Queued /\ Called
  BY DEF Ordered
<1>2. Queued' /\ Called' => Ordered'
  BY DEF Ordered
<1>3. Sender \in Boards /\ Receiver \in Boards /\ Sender # Receiver
  BY BoardsAreTwo
<1>4. /\ history \in Histories /\ last \in Nat /\ msg \in Nat /\ MaxCalls \in Nat
      /\ last \in 0..MaxCalls /\ msg \in 0..MaxCalls /\ history.early \in BOOLEAN
  BY RadioAssumption DEF StateOK, Histories
<1>5. rx \in Seq(Nat) /\ tx \in Seq(Nat)
  <2>1. rx \in Seq(Payloads) /\ tx \in Seq(Payloads)
    BY <1>3 DEF StateOK, ChipOK, Fifos
  <2>2. Payloads \subseteq Nat
    BY DEF Payloads, Messages, NoMessage
  <2>3. ASSUME NEW s \in Seq(Payloads) PROVE s \in Seq(Nat)
    <3>1. Len(s) \in Nat /\ s \in [1..Len(s) -> Payloads]
      OBVIOUS
    <3>2. s \in [1..Len(s) -> Nat]
      BY <2>2, <3>1
    <3> QED BY <3>1, <3>2
  <2> QED BY <2>1, <2>3
<1>6. /\ InOrder(last, rx, tx, msg + 1)
      /\ (msg # 0 => InOrder(last, rx, Append(tx, msg), msg))
      /\ (tx # <<>> => /\ InOrder(last, rx, Tail(tx), msg)
                      /\ \A f \in {Head(tx), NoMessage} : InOrder(last, Append(rx, f), Tail(tx), msg))
      /\ (rx # <<>> => InOrder(last, Tail(rx), tx, msg))
      /\ (rx # <<>> /\ Head(rx) # NoMessage =>
            last <= Head(rx) /\ InOrder(Head(rx), Tail(rx), tx, msg))
  BY <1>1, <1>4, <1>5, OrderSteps DEF NoMessage
<1>7. ASSUME UNCHANGED <<history, thread[Sender], tx>>, rx' = rx \/ (rx # <<>> /\ rx' = Tail(rx)) PROVE Goal
  <2>1. Queued'
    BY <1>1, <1>6, <1>7
  <2> QED BY <1>1, <1>2, <1>4, <1>7, <2>1
<1>8. ASSUME NEW pc, GoesTo(Sender, pc) PROVE thread'[Sender] = pc
  BY <1>3, <1>8, PcMoves
<1>9. ASSUME Call PROVE Goal
  <2>1. UNCHANGED <<tx, rx>>
    BY <1>3, <1>9, SenderChip, DriverStepIsSilent
  <2>2. history' = [history EXCEPT !.msg = msg + 1] /\ msg < MaxCalls
    BY <1>9 DEF Call
  <2>3. msg + 1 \in 0..MaxCalls
    BY <1>4, <2>2
  <2>4. history' \in Histories /\ last' = last /\ msg' = msg + 1
    BY <1>4, <2>2, <2>3 DEF Histories
  <2> QED BY <1>2, <1>4, <1>6, <2>1, <2>4
<1>10. ASSUME Load PROVE Goal
  <2>1. UNCHANGED rx /\ tx' = Loaded(tx, msg)
    BY <1>3, <1>10, SenderChip, DriverStepIsSilent
  <2>2. UNCHANGED history /\ thread[Sender] = "load"
    BY <1>10 DEF Load, Runs
  <2>3. msg # 0
    BY <1>1, <2>2
  <2>4. Queued'
    BY <1>1, <1>6, <2>1, <2>2, <2>3 DEF Loaded
  <2> QED BY <1>2, <1>4, <2>2, <2>3, <2>4
<1>11. ASSUME OpenWindow \/ CloseWindow \/ AwaitAck \/ Timeout \/ Retry \/ Succeed \/ GiveUp PROVE Goal
  <2>1. UNCHANGED <<tx, rx>>
    BY <1>3, <1>11, SenderChip, DriverStepIsSilent
  <2>2. UNCHANGED history /\ thread[Sender] # "idle"
    BY <1>11 DEF OpenWindow, CloseWindow, AwaitAck, Timeout, Retry, Succeed, GiveUp, Runs
  <2> QED BY <1>1, <1>2, <1>4, <2>1, <2>2
<1>12. ASSUME SenderHandler PROVE Goal
  <2>1. UNCHANGED <<tx, rx>>
    BY <1>3, <1>12, SenderChip, HandlerChip, DriverStepIsSilent DEF SenderHandler
  <2>2. UNCHANGED <<history, thread>>
    BY <1>12 DEF SenderHandler, TxReceiveIsr, TakeAck
  <2> QED BY <1>7, <2>1, <2>2
<1>13. ASSUME ReceiverThread PROVE Goal
  <2>1. UNCHANGED <<tx, rx>>
    BY <1>3, <1>13, ReceiverChip, DriverStepIsSilent DEF ReceiverThread
  <2>2. UNCHANGED <<history, thread[Sender]>>
    BY <1>3, <1>13, PcMoves DEF ReceiverThread, Arm, StartPreload, EndPreload, SetPreloaded
  <2> QED BY <1>7, <2>1, <2>2
<1>14. ASSUME RxReceiveIsr \/ SeeFifoEmpty \/ EndAnswer \/ EndRxReceiveIsr PROVE Goal
  <2>1. UNCHANGED <<tx, rx>>
    BY <1>3, <1>14, ReceiverChip, HandlerChip, DriverStepIsSilent
  <2>2. UNCHANGED <<history, thread>>
    BY <1>14 DEF RxReceiveIsr, SeeFifoEmpty, EndAnswer, EndRxReceiveIsr
  <2> QED BY <1>7, <2>1, <2>2
<1>15. ASSUME DropCorrupt PROVE Goal
  <2>1. UNCHANGED tx /\ rx # <<>> /\ rx' = Tail(rx)
    BY <1>3, <1>15, ReceiverChip, DriverStepIsSilent
  <2>2. UNCHANGED <<history, thread>>
    BY <1>15 DEF DropCorrupt
  <2> QED BY <1>7, <2>1, <2>2
<1>16. ASSUME AcceptFrame PROVE Goal
  <2>1. UNCHANGED tx /\ rx # <<>> /\ rx' = Tail(rx)
    BY <1>3, <1>16, ReceiverChip, DriverStepIsSilent
  <2>2. /\ UNCHANGED thread /\ Head(rx) # NoMessage
        /\ history' = [history EXCEPT !.last = Head(rx)]
    BY <1>16 DEF AcceptFrame
  <2>3. Head(rx) \in 0..MaxCalls
    <3>1. rx \in Fifos
      BY <1>3 DEF StateOK, ChipOK
    <3>2. Head(rx) \in Payloads
      BY <2>1, <3>1, FifoSteps
    <3> QED BY <1>4, <3>2 DEF Payloads, Messages, NoMessage
  <2>4. history' \in Histories /\ last' = Head(rx) /\ msg' = msg
    BY <1>4, <2>2, <2>3 DEF Histories
  <2>5. last <= Head(rx) /\ InOrder(Head(rx), Tail(rx), tx, msg)
    BY <1>6, <2>1, <2>2
  <2>6. Queued' /\ Called'
    BY <1>1, <2>1, <2>2, <2>4, <2>5
  <2>7. Head(rx) \in Nat
    BY <1>4, <2>3
  <2> QED BY <1>2, <1>4, <2>4, <2>5, <2>6, <2>7
<1>17. ASSUME NEW s \in Boards, NEW r \in Boards, s # r, Transmit(s, r) PROVE Goal
  <2>1. /\ UNCHANGED thread
        /\ history' = [history EXCEPT !.early = history.early \/ (thread[r] = "unarmed" /\ chip'[r].rx # <<>>)]
    BY <1>17 DEF Transmit
  <2>2. history' \in Histories /\ last' = last /\ msg' = msg
    BY <1>4, <2>1 DEF Histories
  <2>3. CASE s = Sender
    <3>1. r = Receiver
      BY <1>17, <2>3, BoardsAreTwo
    <3>2. /\ tx # <<>> /\ tx' = Tail(tx)
          /\ rx' = rx \/ \E f \in {Head(tx), NoMessage} : rx' = Append(rx, f)
      BY <1>17, <2>3, <3>1, FrameFlies
    <3>3. Queued'
      BY <1>6, <2>2, <3>2
    <3> QED BY <1>1, <1>2, <1>4, <2>1, <2>2, <3>3
  <2>4. CASE s = Receiver
    <3>1. r = Sender
      BY <1>17, <2>4, BoardsAreTwo
    <3>2. tx' = tx /\ rx' = rx
      BY <1>17, <2>4, <3>1, FrameFlies
    <3> QED BY <1>1, <1>2, <1>4, <2>1, <2>2, <3>2
  <2> QED BY <2>3, <2>4, BoardsAreTwo
<1>18. ASSUME UNCHANGED vars PROVE Goal
  BY <1>7, <1>18 DEF vars
<1> QED
  BY <1>3, <1>9, <1>10, <1>11, <1>12, <1>13, <1>14, <1>15, <1>16, <1>17, <1>18
  DEF RadioNext, SenderThread, ReceiverHandler

-----------------------------------------------------------------------------
(* Every step keeps all parts of the invariant. *)
LEMMA StepKeepsInvariant == IInv /\ [RadioNext]_vars => IInv'
<1> SUFFICES ASSUME IInv, [RadioNext]_vars PROVE IInv'
  OBVIOUS
<1>1. StateOK /\ Counted /\ Served /\ Acks /\ Ordered
  BY DEF IInv
<1>2. observe' \in Observations /\ Counted'
  BY <1>1, CountedKept
<1>3. history' \in Histories /\ Ordered'
  BY <1>1, OrderedKept
<1>4. Served' /\ Acks'
  BY <1>1, ServedKept, AcksKept
<1>5. /\ chip' = [b \in Boards |-> chip'[b]] /\ \A b \in Boards : ChipOK(chip'[b])
      /\ pending' \in [Boards -> BOOLEAN]
  BY <1>1, ChipsKept
<1>6. /\ isr' = [b \in Boards |-> isr'[b]] /\ thread' = [b \in Boards |-> thread'[b]]
      /\ isr'[Sender] \in {"none", "fifo"}
      /\ isr'[Receiver] \in {"none", "drain", "answer", "clear"}
      /\ thread'[Sender] \in {"idle", "load"} \cup Attempting
      /\ thread'[Receiver] \in {"unarmed", "check", "writing", "set"}
  BY <1>1, PlacesKept
<1>7. received' \in BOOLEAN /\ preloaded' \in BOOLEAN /\ cut' \in BOOLEAN
  BY <1>1, FlagsKept
<1>8. StateOK'
  BY <1>2, <1>3, <1>5, <1>6, <1>7, Zenon DEF StateOK
<1> QED
  BY <1>2, <1>3, <1>4, <1>8 DEF IInv

(* The invariant holds in every reachable state. *)
LEMMA InvariantHolds == RadioSpec => []IInv
<1> QED
  BY InitInvariant, StepKeepsInvariant, PTL DEF RadioSpec

(* Whatever the programs configure and the air does, the radios stay powered *)
(* up without their own CRC, no FIFO holds more than it can and no call     *)
(* counts more attempts than retransmitCount.                              *)
THEOREM RadioTypeCorrect == RadioSpec => []RadioTypeOK
<1>1. IInv => RadioTypeOK
  <2> SUFFICES ASSUME IInv PROVE RadioTypeOK
    OBVIOUS
  <2>1. StateOK
    BY DEF IInv
  <2>2. ASSUME NEW s \in Fifos PROVE Fifo(s)
    BY DEF Fifos, Fifo
  <2>3. ASSUME NEW b \in Boards
        PROVE  /\ DOMAIN chip[b].reg = RegisterNames
               /\ chip[b].ce \in BOOLEAN /\ chip[b].reg.status \subseteq Flags
               /\ "PWR_UP" \in chip[b].reg.config /\ "EN_CRC" \notin chip[b].reg.config
               /\ Fifo(chip[b].tx) /\ Fifo(chip[b].rx)
    <3>1. ChipOK(chip[b])
      BY <2>1 DEF StateOK
    <3>2. DOMAIN chip[b].reg = RegisterNames
      BY <3>1, Zenon DEF ChipOK, WellFormed
    <3> QED BY <2>2, <3>1, <3>2 DEF ChipOK, WellFormed, InUse
  <2>4. observe.retransmits \in 0..RetransmitCount
    BY <2>1 DEF StateOK, Observations
  <2> QED BY <2>1, <2>3, <2>4 DEF StateOK, Attempting, RadioTypeOK
<1> QED
  BY <1>1, InvariantHolds, PTL

(* load_tx_buffer never meets a full FIFO on the receiver, although thread  *)
(* and handler load acks without excluding each other and ignore what it   *)
(* returns.                                                                *)
THEOREM AcksAreLoaded == RadioSpec => []AckIsNeverRefused
<1>1. IInv => AckIsNeverRefused
  <2> SUFFICES ASSUME IInv PROVE AckIsNeverRefused
    OBVIOUS
  <2>1. StateOK /\ Acks /\ Receiver \in Boards
    BY BoardsAreTwo DEF IInv
  <2>2. Len(chip[Receiver].tx) \in Nat
    BY <2>1, FifoSteps DEF StateOK, ChipOK
  <2>3. Len(chip[Receiver].tx) <= 2
    BY <2>1, <2>2 DEF Acks
  <2> QED BY <2>2, <2>3 DEF AckIsNeverRefused, Depth
<1> QED
  BY <1>1, InvariantHolds, PTL

(* tx_observe counts each call of transmit_with_autoack once, as sent or as *)
(* lost, for any number of attempts and of calls.                          *)
THEOREM CallsAreCountedOnce == RadioSpec => []CallsAreCounted
<1>1. IInv => CallsAreCounted
  <2> SUFFICES ASSUME IInv, thread[Sender] = "idle"
               PROVE  observe.packages + observe.lost = history.msg
    BY DEF CallsAreCounted
  <2>1. observe \in Observations /\ Counted
    BY DEF IInv, StateOK
  <2> QED BY <2>1 DEF Counted, Observations
<1> QED
  BY <1>1, InvariantHolds, PTL

(* Acknowledging the edge before clearing its cause loses no interrupt,     *)
(* wherever thread, handler and air interleave.                            *)
THEOREM InterruptsAreServed == RadioSpec => []NoInterruptIsLost
<1>1. IInv => NoInterruptIsLost
  BY BoardsAreTwo DEF IInv, Served, NoInterruptIsLost
<1> QED
  BY <1>1, InvariantHolds, PTL

(* rx_receive_isr accepts messages in the order of their calls, although    *)
(* payloads of earlier calls stay in the FIFOs.                            *)
THEOREM MessagesAreAcceptedInOrder == RadioSpec => MessagesStayInOrder
<1>1. IInv /\ [RadioNext]_vars => [history'.last >= history.last]_vars
  BY OrderedKept DEF IInv
<1> QED
  BY <1>1, InvariantHolds, PTL DEF RadioSpec, MessagesStayInOrder
=============================================================================
