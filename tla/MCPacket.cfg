\* Every message size either program can produce, with the real constants.
CONSTANTS
    Block = 16
    MAX_MSG_DATA_LENGTH = 65516
    PACKET_BUFFER_SIZE = 65536
    TS_PACKET_PAYLOAD_LENGTH = 65536
SPECIFICATION Spec
INVARIANTS
    IInv
    EveryMessageArrives
    LengthIsTrue
