\* One thread suffices.
SPECIFICATION Spec
CONSTANTS
    Users = {"user"}
PROPERTIES
    StartReturns
CHECK_DEADLOCK FALSE
