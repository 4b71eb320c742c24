SPECIFICATION PSpec
CONSTANTS
  Value = {"mail", "phone"}
  CallName = {"f"}
  Order <- MCOrder
  Operation <- MCOperation
  Request <- MCRequest
  Reply <- MCReply
INVARIANTS EditsAreSent InstructionsKept UntouchedKept Shielded Restored
CHECK_DEADLOCK FALSE
