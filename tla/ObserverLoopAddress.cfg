SPECIFICATION Spec
CONSTANTS
  Lag = 0
  MaxHead = 4
INVARIANTS
  AddressMessagesDelivered
