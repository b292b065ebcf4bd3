------------------------------- MODULE Packet -------------------------------
(***************************************************************************)
(* The size of a message on its way from sendMessage or sendData through   *)
(* sendTSPacket (src/utils.cpp) to recvTSPacket and recvMessage or         *)
(* recvData: the header, the padding, the 16-bit length fields and every   *)
(* size check.  The bytes are those that were sent (Padding has the bytes  *)
(* of the padding), the pipe delivers what was written.                    *)
(***************************************************************************)
EXTENDS Blocks

CONSTANTS
    MAX_MSG_DATA_LENGTH,        \* bytes of InnerMsg.data
    PACKET_BUFFER_SIZE,         \* bytes of the buffers of sendTSPacket and recvTSPacket
    TS_PACKET_PAYLOAD_LENGTH    \* bytes of TSPacket.msgData

ASSUME SixteenAssumption == Block = 16

\* constants.h
ASSUME LengthAssumption ==
    /\ MAX_MSG_DATA_LENGTH = 65536 - 20
    /\ PACKET_BUFFER_SIZE = 65536
    /\ TS_PACKET_PAYLOAD_LENGTH = 65536

AES_MAX_DATA_LENGTH == MAX_MSG_DATA_LENGTH - 32

InnerHeader == 20       \* cSeq, sSeq, msgType, dataLength
OuterHeader == 5        \* contentType, tsVersion, length
RandomAndMac == 32
LocalFdSize == 4

\* A slip: a signed field of 16 bits.
Int16(n) == n % 32768

UInt16(n) == n % 65536

\* A slip: the whole of what encrypt takes is kept for the host's data.
FullReadBuf == 1 .. AES_MAX_DATA_LENGTH - LocalFdSize

\* What recv can return for a host (readBuf) and for a local user (readBuf2).
HostReads == 1 .. AES_MAX_DATA_LENGTH - 36 - LocalFdSize
UserReads == 1 .. AES_MAX_DATA_LENGTH - 72

\* The sizes of the messages' data: handshake; request (a command, a type and
\* address that may be cut short, a localFd); reply; traffic to the server;
\* traffic to the client (3 after a failed recv).
Payloads ==
    {0} \cup (1 + 1 + 4 .. 1 + (1 + 1 + 255 + 2) + 4) \cup {12}
        \cup {n + LocalFdSize : n \in UserReads}
        \cup {n + LocalFdSize : n \in HostReads \cup {-1}}

VARIABLES
    nbyte,      \* what sendMessage or sendData was asked to send
    dataLength, \* InnerMsg.dataLength
    plain,      \* the size encrypt was given
    size,       \* the size of the message in its present form
    length,     \* TSPacket.length
    at          \* where the message is

vars == <<nbyte, dataLength, plain, size, length, at>>

Stages == {"send", "assemble", "encrypt", "wrap", "pipe", "decrypt", "unpack",
           "deliver", "delivered", "failed"}

Init ==
    /\ nbyte \in Payloads
    /\ dataLength = 0
    /\ plain = 0
    /\ size = 0
    /\ length = 0
    /\ at = "send"

\* A function is called and either passes the message on or returns an error.
Call(from, ok, to) == at = from /\ at' = IF ok THEN to ELSE "failed"

\* sendMessage, sendData: the size check and the 16-bit field.
Send ==
    /\ Call("send", nbyte <= MAX_MSG_DATA_LENGTH, "assemble")
    /\ dataLength' = UInt16(nbyte)
    /\ UNCHANGED <<nbyte, plain, size, length>>

\* assembleInnerMsg; its second check forgets the two bytes of msgType.
AssembleInnerMsg ==
    /\ Call("assemble", PACKET_BUFFER_SIZE - (InnerHeader - 2) >= dataLength, "encrypt")
    /\ size' = InnerHeader + dataLength
    /\ UNCHANGED <<nbyte, dataLength, plain, length>>

\* encrypt
Encrypt ==
    /\ Call("encrypt",
            /\ ValidSize(size) <= AES_MAX_DATA_LENGTH
            /\ ValidSize(size) <= TS_PACKET_PAYLOAD_LENGTH,
            "wrap")
    /\ plain' = size
    /\ size' = ValidSize(size)
    /\ UNCHANGED <<nbyte, dataLength, length>>

\* assembleTSPacket, with the length field it was given (realMsgLen of a length
\* below 32 would wrap around); writeNBytes.
Wrap ==
    /\ length' = UInt16(size + RandomAndMac)
    /\ Call("wrap",
            /\ RandomAndMac <= length'
            /\ length' <= PACKET_BUFFER_SIZE - OuterHeader,
            "pipe")
    /\ size' = OuterHeader + length'
    /\ UNCHANGED <<nbyte, dataLength, plain>>

\* recvTSPacket reads the header and length bytes more; disAssembleTSPacket.
Receive ==
    /\ Call("pipe", TRUE, "decrypt")
    /\ size' = length - RandomAndMac
    /\ UNCHANGED <<nbyte, dataLength, plain, length>>

\* decrypt and decode; the padding is found where it was put.
Decrypt ==
    /\ Call("decrypt",
            /\ size <= AES_MAX_DATA_LENGTH
            /\ size - 16 <= PACKET_BUFFER_SIZE
            /\ size # 0 /\ size % 16 = 0,
            "unpack")
    /\ size' = plain
    /\ UNCHANGED <<nbyte, dataLength, plain, length>>

\* disAssembleInnerMsg
DisAssembleInnerMsg ==
    /\ Call("unpack", size >= InnerHeader, "deliver")
    /\ UNCHANGED <<nbyte, dataLength, plain, size, length>>

\* recvMessage, recvData: both callers' buffers have MAX_MSG_DATA_LENGTH bytes.
Deliver ==
    /\ Call("deliver", dataLength <= MAX_MSG_DATA_LENGTH, "delivered")
    /\ size' = dataLength
    /\ UNCHANGED <<nbyte, dataLength, plain, length>>

Stop == at \in {"delivered", "failed"} /\ UNCHANGED vars

Next ==
    \/ Send \/ AssembleInnerMsg \/ Encrypt \/ Wrap
    \/ Receive \/ Decrypt \/ DisAssembleInnerMsg \/ Deliver
    \/ Stop

Spec == Init /\ [][Next]_vars

-----------------------------------------------------------------------------
TypeOK ==
    /\ nbyte \in Payloads
    /\ {dataLength, plain, size, length} \subseteq Nat
    /\ at \in Stages

\* Every message the two programs build, the longest recv of either side
\* included, passes all the size checks of both sides and arrives with the
\* length it was sent with: no caller ever sees sendData, sendMessage, recvData
\* or recvMessage fail for a size (a failed sendData cuts a host and a client).
EveryMessageArrives ==
    /\ at # "failed"
    /\ at = "delivered" => size = nbyte

\* recvTSPacket reads as many bytes as the length field says behind the header,
\* without a check: they fit its buffer, and the field, 16 bits wide, was not
\* too narrow for what the sender wrote.
LengthIsTrue ==
    at = "pipe" => size <= PACKET_BUFFER_SIZE /\ size = OuterHeader + ValidSize(plain) + RandomAndMac

\* Where each form of the message gets its size from.
StageInv ==
    /\ at # "send" => dataLength = nbyte
    /\ at = "encrypt" => size = InnerHeader + nbyte
    /\ at \in {"wrap", "pipe", "decrypt", "unpack", "deliver"} => plain = InnerHeader + nbyte
    /\ at \in {"wrap", "decrypt"} => size = ValidSize(plain)
    /\ at \in {"pipe", "decrypt"} => length = ValidSize(plain) + RandomAndMac
    /\ at = "pipe" => size = OuterHeader + length
    /\ at \in {"unpack", "deliver"} => size = plain

IInv == TypeOK /\ StageInv /\ EveryMessageArrives
=============================================================================
