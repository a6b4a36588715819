---------------------------- MODULE RadioDevices ----------------------------
(***************************************************************************)
(* The nRF24L01 transceivers of the field as their programs configure      *)
(* them (apply_nrf_config of each package or module, configure_device of   *)
(* nrf_driver.c), and the driver's operations on them, each one or more    *)
(* transfers over SPI (nrf_io.c).  The chip itself is external: its FIFOs, *)
(* its IRQ pin and what the air does are modelled from the way the driver  *)
(* uses them.                                                              *)
(***************************************************************************)
EXTENDS Naturals, Sequences, TLC

Programs == {"nrf2401_transmit", "weathernodeV2", "nrf2401_receive_module",
             "nrf2401_receive", "drone_rpm", "remote"}

(* Bits of CONFIG and causes in STATUS; MAX_RT needs EN_AA, which every     *)
(* program clears.                                                         *)
ConfigBits == {"PRIM_RX", "PWR_UP", "CRCO", "EN_CRC", "MASK_MAX_RT", "MASK_TX_DS", "MASK_RX_DR"}
Flags == {"RX_DR", "TX_DS"}
Depth == 3  \* payloads a FIFO of the chip holds

(* What each apply_nrf_config fills in; memset_byte has cleared the rest.   *)
(* Pipes 0 and 1 have an address, a payload width and a bit of EN_RXADDR.  *)
Common == [config |-> {}, en_aa |-> {}, setup_aw |-> 3, setup_retr |-> 0, rf_ch |-> 3, rf_setup |-> 6]
Pipes(p0, w0, p1, w1) == [rx_addr_p0 |-> p0, rx_pw_p0 |-> w0, rx_addr_p1 |-> p1, rx_pw_p1 |-> w1]

TransmitConfig == Common @@ [tx_addr |-> "c5", en_rxaddr |-> {0}] @@ Pipes("c8", 1, "00", 0)
WeatherConfig == Common @@ [tx_addr |-> "c5", en_rxaddr |-> {0}] @@ Pipes("c8", 1, "00", 0)
ModuleConfig == Common @@ [tx_addr |-> "c8", en_rxaddr |-> {0, 1}] @@ Pipes("c5", 31, "c6", 6)
PackageConfig == Common @@ [tx_addr |-> "12", en_rxaddr |-> {0, 1}] @@ Pipes("c6", 6, "c5", 6)
DroneConfig == Common @@ [tx_addr |-> "12", en_rxaddr |-> {0, 1}] @@ Pipes("c6", 4, "c5", 4)

(* The remote control's record is on the stack and never cleared: CONFIG,   *)
(* the enabled pipes and pipe 1 are what happens to lie there.             *)
RemoteConfigs ==
  {[rf_ch |-> 2, tx_addr |-> "12", config |-> bits, en_rxaddr |-> pipes] @@ Common @@ Pipes("e7", w, "??", w) :
     bits \in SUBSET ConfigBits, pipes \in SUBSET {0, 1}, w \in {0, 31}}

Configs(program) ==
  CASE program = "nrf2401_transmit" -> {TransmitConfig}
    [] program = "weathernodeV2" -> {WeatherConfig}
    [] program = "nrf2401_receive_module" -> {ModuleConfig}
    [] program = "nrf2401_receive" -> {PackageConfig}
    [] program = "drone_rpm" -> {DroneConfig}
    [] program = "remote" -> RemoteConfigs

----------------------------------------------------------------------------
(* SPI transfers.  The chip after its own reset (external) has its CRC on.  *)

PoweredUp ==
  [reg |-> [config |-> {"EN_CRC"}, status |-> {}, en_aa |-> 0..5, en_rxaddr |-> {0, 1}, setup_aw |-> 3,
            setup_retr |-> 3, rf_ch |-> 2, rf_setup |-> 14, tx_addr |-> "e7",
            rx_addr_p0 |-> "e7", rx_pw_p0 |-> 0, rx_addr_p1 |-> "c2", rx_pw_p1 |-> 0],
   ce |-> FALSE, tx |-> <<>>, rx |-> <<>>]

\* The registers the driver writes or configure_device compares.
RegisterNames == {"config", "en_aa", "en_rxaddr", "setup_aw", "setup_retr", "rf_ch", "rf_setup", "status",
                  "rx_addr_p0", "rx_addr_p1", "tx_addr", "rx_pw_p0", "rx_pw_p1"}

(* A transfer by its type; reads change nothing but RRxPayload takes the    *)
(* payload out of the FIFO.  Ones written to STATUS clear their causes.    *)
Transfer(c, type, target, buffer) ==
  CASE type = "WriteRegister" ->
         [c EXCEPT !.reg[target] = IF target = "status" THEN @ \ buffer ELSE buffer]
    [] type = "WTxPayload" -> [c EXCEPT !.tx = Append(@, buffer)]
    [] type = "RRxPayload" -> [c EXCEPT !.rx = Tail(@)]
    [] type = "FlushRX" -> [c EXCEPT !.rx = <<>>]

GetRegister(c, r) == c.reg[r]
ReplaceRegister(c, r, value) == Transfer(c, "WriteRegister", r, value)
SetBit(c, r, bit) == ReplaceRegister(c, r, GetRegister(c, r) \cup {bit})
ClearBit(c, r, bit) == ReplaceRegister(c, r, GetRegister(c, r) \ {bit})

PowerOff(c) == ClearBit(c, "config", "PWR_UP")
PowerOn(c) == SetBit(c, "config", "PWR_UP")
DisableCrc(c) == ClearBit(c, "config", "EN_CRC")

\* The registers configure_device fills from the record: one write each, none read in between.
Settings == {"rx_addr_p0", "rx_addr_p1", "rx_pw_p0", "rx_pw_p1", "tx_addr", "rf_ch", "rf_setup",
             "en_aa", "en_rxaddr", "setup_aw", "setup_retr"}
WriteSettings(c, regs) ==
  [c EXCEPT !.reg = [r \in DOMAIN @ |-> IF r \in Settings THEN regs[r] ELSE @[r]]]

(* configure_device: CE low, CONFIG from the record with PRIM_RX by the     *)
(* mode and the chip's CRC off, the settings, power on.                    *)
ConfigureDevice(chip, regs, mode) ==
  LET written == ReplaceRegister(PowerOff([chip EXCEPT !.ce = FALSE]), "config", regs.config)
      directed == IF mode = "SLAVE" THEN SetBit(written, "config", "PRIM_RX")
                                    ELSE ClearBit(written, "config", "PRIM_RX")
      plain == DisableCrc(ReplaceRegister(directed, "en_rxaddr", regs.en_rxaddr))
  IN PowerOn(WriteSettings(plain, regs))

GetNrfConfig(c) == [r \in RegisterNames |-> GetRegister(c, r)]

(* What configure_device reads back to decide whether it succeeded.         *)
ReadsBack(c, regs) ==
  \A r \in {"rf_ch", "rf_setup", "setup_aw", "en_rxaddr"} : GetNrfConfig(c)[r] = regs[r]

(* A frame of s reaches r: same channel, rate, address width and CRC, and   *)
(* an enabled pipe of r with a width carries the address s transmits to.   *)
Reaches(s, r) ==
  /\ \A f \in {"rf_ch", "rf_setup", "setup_aw"} : s.reg[f] = r.reg[f]
  /\ "EN_CRC" \in s.reg.config <=> "EN_CRC" \in r.reg.config
  /\ \/ 0 \in r.reg.en_rxaddr /\ r.reg.rx_pw_p0 > 0 /\ r.reg.rx_addr_p0 = s.reg.tx_addr
     \/ 1 \in r.reg.en_rxaddr /\ r.reg.rx_pw_p1 > 0 /\ r.reg.rx_addr_p1 = s.reg.tx_addr

----------------------------------------------------------------------------
(* Driver operations on one chip.                                          *)

StartListening(c) == [c EXCEPT !.ce = TRUE]
StopListening(c) == [c EXCEPT !.ce = FALSE]
EnableRxAndListen(c) == StartListening(PowerOn(SetBit(PowerOff(c), "config", "PRIM_RX")))
DisableRx(c) == StopListening(PowerOn(ClearBit(PowerOff(c), "config", "PRIM_RX")))
FlushRx(c) == Transfer(c, "FlushRX", "", <<>>)

(* Mutant: only the cause that is meant is written.                         *)
ClearRxDrFlag_OneCause(c) == ReplaceRegister(c, "status", {"RX_DR"})

(* set_bit_nrf_register writes back every cause it has read, so that all    *)
(* that were set are cleared with the one that was meant.                  *)
ClearRxDrFlag(c) == SetBit(c, "status", "RX_DR")

(* Mutant: FIFO_STATUS is not looked at.                                    *)
LoadTxBuffer_Unchecked(c, payload) == Transfer(c, "WTxPayload", "", payload)

(* Mutant: the newest payload leaves first.                                 *)
LoadTxBuffer_Front(c, payload) ==
  IF Len(c.tx) < Depth THEN [c EXCEPT !.tx = <<payload>> \o @] ELSE c

LoadTxBuffer(c, payload) ==
  IF Len(c.tx) < Depth THEN Transfer(c, "WTxPayload", "", payload) ELSE c
HasTx(c) == c.tx # <<>>                    \* check_tx_availability
FifoEmpty(c) == c.rx = <<>>                \* get_nrf_fifo() & 1
NrfReceivePayload(c) == Transfer(c, "RRxPayload", "", <<>>)
CheckForReceivedData(c) == StartListening(NrfReceivePayload(StopListening(c)))

(* The chip: powered up, it transmits while CE is high and PRIM_RX low, and *)
(* listens while both are high.  The IRQ pin falls with the first cause    *)
(* that CONFIG does not mask.                                              *)
Transmitting(c) == c.ce /\ "PWR_UP" \in c.reg.config /\ "PRIM_RX" \notin c.reg.config /\ HasTx(c)
Listening(c) == c.ce /\ {"PWR_UP", "PRIM_RX"} \subseteq c.reg.config
Mask(flag) == IF flag = "RX_DR" THEN "MASK_RX_DR" ELSE "MASK_TX_DS"
IrqLow(c) == \E flag \in c.reg.status : Mask(flag) \notin c.reg.config
Raised(c, flag) == [c EXCEPT !.reg.status = @ \cup {flag}]
Sent(c) == Raised([c EXCEPT !.tx = Tail(@)], "TX_DS")
Arrived(c, frame) == Raised([c EXCEPT !.rx = Append(@, frame)], "RX_DR")
Takes(c) == Listening(c) /\ Len(c.rx) < Depth
=============================================================================
