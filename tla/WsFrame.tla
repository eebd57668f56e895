------------------------------- MODULE WsFrame --------------------------------
(***************************************************************************)
(* Frames of RFC 6455 as api/websocket.cpp reads and writes them.  Bytes   *)
(* are numbers from 0 to 255, and nothing about them is abstracted: the    *)
(* header is parsed bit by bit, as in the code.                            *)
(***************************************************************************)
EXTENDS Integers, Sequences

Byte == 0..255

Continuation == 0
Text         == 1
Binary       == 2
Close        == 8
Ping         == 9
Pong         == 10

(* The bits of a byte; what they are worth; exclusive or.                  *)
Worth == <<1, 2, 4, 8, 16, 32, 64, 128>>

Bit(byte, i) == (byte \div Worth[i + 1]) % 2

Sum(x) == x[1] + x[2] * 2 + x[3] * 4 + x[4] * 8 + x[5] * 16 + x[6] * 32 + x[7] * 64 + x[8] * 128

Xor(a, b) == Sum([i \in 1..8 |-> (Bit(a, i - 1) + Bit(b, i - 1)) % 2])

(* FrameHeader; the bytes of an extended length, and where the mask goes.  *)
Extra(data)  == CASE data[2] % 128 = 126 -> 2 [] data[2] % 128 = 127 -> 8 [] OTHER -> 0
Masked(data) == Bit(data[2], 7) = 1
HeaderLen(data) == 2 + Extra(data) + (IF Masked(data) THEN 4 ELSE 0)

(* The top byte of a 64-bit length decides it here as in the code: a value *)
(* with its top bit set is refused, and one that needs more than the three *)
(* low bytes is more than any buffer holds (FarTooLong stands for it).     *)
FarTooLong == 1073741824

PayloadLenSwapped(data) ==
    CASE Extra(data) = 0 -> data[2] % 128
      [] Extra(data) = 2 -> data[3] + data[4] * 256
      [] OTHER           -> FarTooLong

PayloadLen(data) ==
    CASE Extra(data) = 0 -> data[2] % 128
      [] Extra(data) = 2 -> data[3] * 256 + data[4]
      [] OTHER           -> IF \E i \in 3..7 : data[i] # 0 THEN FarTooLong
                            ELSE (data[8] * 256 + data[9]) * 256 + data[10]

FrameHeader(data) ==
    [fin        |-> Bit(data[1], 7) = 1,
     opcode     |-> data[1] % 16,
     masked     |-> Masked(data),
     payloadLen |-> PayloadLen(data),
     maskKey    |-> IF Masked(data) THEN SubSeq(data, 3 + Extra(data), 6 + Extra(data))
                                    ELSE <<0, 0, 0, 0>>,
     headerLen  |-> HeaderLen(data)]

Reserved(data) == (data[1] \div 16) % 8 # 0
Control(data)  == Bit(data[1], 3) = 1

(* parseHeader, in the order of its returns: what can be told from the     *)
(* first bytes is not kept waiting for the rest.                           *)
parseHeader(data) ==
    IF Len(data) < 2 THEN "incomplete"
    ELSE IF Reserved(data) THEN "unsupported"
    ELSE IF Len(data) < 2 + Extra(data) THEN "incomplete"
    ELSE IF Extra(data) = 8 /\ Bit(data[3], 7) = 1 THEN "unsupported"
    ELSE IF Control(data) /\ (PayloadLen(data) > 125 \/ Bit(data[1], 7) = 0) THEN "unsupported"
    ELSE IF Len(data) < HeaderLen(data) THEN "incomplete"
    ELSE "ok"

(* Byte i of the payload goes with byte i modulo 4 of the key.             *)
unmask(payload, maskKey) ==
    [i \in DOMAIN payload |-> Xor(payload[i], maskKey[((i - 1) % 4) + 1])]

(* The answer to a ping: always final, never masked *)
encodePong(payload) == <<128 + Pong, Len(payload)>> \o payload

(* The board's last word, and the code a peer reads in it *)
encodeClose(code) == <<128 + Close, 2, code \div 256, code % 256>>
CloseCode(frame)  == IF frame = <<>> THEN 0 ELSE frame[3] * 256 + frame[4]

(* A frame as whoever wrote it means it, and its bytes on the wire.  The    *)
(* size field need not be the shortest one there is, nor tell the truth:   *)
(* a frame is whole if it has the payload its size announces.              *)
SizeFits(size) ==
    CASE Len(size) = 1 -> size[1] < 126
      [] Len(size) = 3 -> size[1] = 126
      [] Len(size) = 9 -> size[1] = 127
      [] OTHER         -> FALSE

IsFrame(f) ==
    /\ f.fin \in BOOLEAN /\ f.reserved \in 0..7 /\ f.opcode \in 0..15 /\ f.masked \in BOOLEAN
    /\ f.size \in Seq(Byte) /\ SizeFits(f.size)
    /\ f.key \in Seq(Byte) /\ Len(f.key) = 4 /\ f.payload \in Seq(Byte)

Announced(size) ==
    CASE Len(size) = 1 -> size[1]
      [] Len(size) = 3 -> size[2] * 256 + size[3]
      [] OTHER         -> IF \E i \in 2..6 : size[i] # 0 THEN FarTooLong
                          ELSE (size[7] * 256 + size[8]) * 256 + size[9]

WholeFrame(f) == Announced(f.size) = Len(f.payload)

Bytes(f) ==
    <<(IF f.fin THEN 128 ELSE 0) + f.reserved * 16 + f.opcode>>
        \o [f.size EXCEPT ![1] = @ + (IF f.masked THEN 128 ELSE 0)]
        \o (IF f.masked THEN f.key \o unmask(f.payload, f.key) ELSE f.payload)

(* The answer to the key of a handshake.  SHA-1 and Base64 are what tells  *)
(* one text from another: no two keys have one answer.                     *)
kGuid            == "258EAFA5-E914-47DA-95CA-C5AB0DC85B11"
Sha1(text)       == <<"SHA-1", text>>
base64Encode(in) == <<"Base64", in>>
acceptKey(key)   == base64Encode(Sha1(key \o <<kGuid>>))

==============================================================================
