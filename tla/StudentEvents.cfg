\* Two events, doubled records, one fault.
CONSTANTS
  Event = {e1, e2}
  Malformed = Malformed
  MaxFaults = 1
SPECIFICATION Spec
INVARIANTS TypeOK CommittedIsProcessed RepeatNeedsExcuse
PROPERTIES SentIsProcessed
CHECK_DEADLOCK FALSE
