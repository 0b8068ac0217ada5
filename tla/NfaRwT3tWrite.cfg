SPECIFICATION Spec
CONSTANTS
    Environments <- T3tBlockEnvironments
    TagOf <- Tags
    SystemCodesOf <- SystemCodes
    RW_MAX_RETRIES = 1
    LONG_NDEF_MIN_LEN = 7
    T1tInit <- T1tInits
    T2tInit <- T2tInits
    T4T_MAX_LENGTH = 4
    I93_READ_MULTI_SIZE = 8
    I93_STM_SECTOR = 4
    I93_SEC_SIZE = 2
INVARIANT WriteEndsWithEvent
CHECK_DEADLOCK FALSE
