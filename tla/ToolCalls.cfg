SPECIFICATION WrapperSpec
INVARIANTS GateInOrder KeepaliveWithinWait
CHECK_DEADLOCK FALSE
