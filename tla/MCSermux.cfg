SPECIFICATION Spec
CONSTANTS
  Services = {208, 209}
  Traffic <- MCTraffic
  MaxSends = 3
  MaxRestarts = 1
INVARIANTS DeliveredAsSent NoProtocolError
PROPERTY EverythingArrives
CHECK_DEADLOCK FALSE
