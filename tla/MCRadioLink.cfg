SPECIFICATION RadioSpec
CONSTANTS
  Sender = "nrf2401_transmit"
  Receiver = "nrf2401_receive_module"
  RetransmitCount = 2
  MaxCalls = 2
CHECK_DEADLOCK FALSE
INVARIANTS RadioTypeOK AckIsNeverRefused CallsAreCounted NoInterruptIsLost
PROPERTIES MessagesStayInOrder CallReturns HandlerReturns
