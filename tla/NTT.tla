-------------------------------- MODULE NTT ----------------------------------
(***************************************************************************)
(* The wire format of portal messages.  A payload travels in a manager     *)
(* message, and that in a transceiver message.  The peers are contracts on *)
(* other chains with encoders of their own, so the parsers meet more than  *)
(* what this module encodes.                                               *)
(*                                                                         *)
(* Sizes are scaled down: a byte has Base values, a length takes two bytes *)
(* as in the code, and every other field takes one, but for a recipient,   *)
(* which has one byte of padding.  A header of 79 bytes is one of 7.       *)
(*                                                                         *)
(* A slice is a window on a buffer: Go lets one be cut from another up to  *)
(* the end of the buffer, not of the window.  The parsers that check no    *)
(* length therefore read what follows, and panic only where the buffer     *)
(* ends.  Errors and panics both revert the delivery: they are Failed.     *)
(***************************************************************************)
EXTENDS Integers, Sequences, SequencesExt

Base == 5
Byte == 0 .. Base - 1

TransceiverMessagePrefix == 4
NativeTokenTransferPrefix == 3
M0IT == 2
Decimals == 4           \* the code writes 6 and ignores what it reads

ThisChain == 1
Peer == 2               \* the manager of the peer the message comes from
PaddedManagerAddress == 3
RawToken == 1

Failed == [ok |-> FALSE]

AppendUint16(bz, n) ==
    LET field == n % (Base * Base) IN bz \o <<field \div Base, field % Base>>

Uint16(hi, lo) == hi * Base + lo

\* uint64 to int64 and back.
Int64(byte)  == IF byte <= Base \div 2 THEN byte ELSE byte - Base
Uint64(int)  == int % Base

\* The bytes within a slice.
Bytes(slice) == SubSeq(slice.buffer, 1, slice.len)

\* slice[from : from + len]
Cut(slice, from, len) ==
    [buffer |-> SubSeq(slice.buffer, from + 1, Len(slice.buffer)), len |-> len]

-----------------------------------------------------------------------------
(* Payloads. *)

EncodeAdditionalPayload(index, destinationToken) == <<Uint64(index), destinationToken>>

\* Mutant of DecodeAdditionalPayload: the length is not checked.
DecodeAdditionalPayloadUnchecked(slice) ==
    IF Len(slice.buffer) < 2 THEN Failed
    ELSE [ok |-> TRUE, index |-> Int64(slice.buffer[1]), token |-> slice.buffer[2]]

\* What follows the token is ignored.
DecodeAdditionalPayload(slice) ==
    IF slice.len < 2 THEN Failed
    ELSE [ok |-> TRUE, index |-> Int64(slice.buffer[1]), token |-> slice.buffer[2]]

EncodeNativeTokenTransfer(ntt) ==
    LET transfer == <<NativeTokenTransferPrefix, Decimals, ntt.amount, ntt.sourceToken>>
                        \o ntt.to \o <<ntt.toChain>>
    IN  IF ntt.additional = <<>> THEN transfer
        ELSE AppendUint16(transfer, Len(ntt.additional)) \o ntt.additional

\* The fields of a transfer whose additional payload starts at offset from.
TransferFields(slice, from) ==
    [ ok          |-> TRUE,
      amount      |-> slice.buffer[3],
      sourceToken |-> slice.buffer[4],
      to          |-> <<slice.buffer[5], slice.buffer[6]>>,
      toChain     |-> slice.buffer[7],
      additional  |-> IF from <= slice.len THEN Cut(slice, from, slice.len - from)
                      ELSE [buffer |-> <<>>, len |-> 0] ]

ParseNativeTokenTransfer(slice) ==
    IF \/ slice.len < 7
       \/ slice.buffer[1] # NativeTokenTransferPrefix
       \/ slice.len = 8
       \/ slice.len > 8 /\ slice.len - 9 # Uint16(slice.buffer[8], slice.buffer[9])
    THEN Failed ELSE TransferFields(slice, 9)

\* The error of ParseNativeTokenTransfer is ignored, but the recipient is then
\* cut from an empty slice, which panics.  The error of DecodeAdditionalPayload
\* is ignored and leaves an index of zero and an empty token.
DecodeTokenPayload(slice) ==
    LET ntt     == ParseNativeTokenTransfer(slice)
        decoded == DecodeAdditionalPayload(ntt.additional)
    IN  IF ~ntt.ok THEN Failed
        ELSE [ ok |-> TRUE, amount |-> ntt.amount, recipient |-> ntt.to[2],
               chain |-> ntt.toChain,
               index |-> IF decoded.ok THEN decoded.index ELSE 0,
               token |-> IF decoded.ok THEN <<decoded.token>> ELSE <<>> ]

EncodeIndexPayload(index, destination) == <<M0IT, Uint64(index), destination>>

\* No length is checked here.
DecodeIndexPayload(slice) ==
    IF Len(slice.buffer) < 3 THEN Failed
    ELSE [ok |-> TRUE, index |-> Int64(slice.buffer[2]), chain |-> slice.buffer[3]]

GetPayloadType(slice) ==
    IF slice.len < 1 THEN "unknown"
    ELSE CASE slice.buffer[1] = NativeTokenTransferPrefix -> "token"
           [] slice.buffer[1] = M0IT                      -> "index"
           [] OTHER                                       -> "unknown"

-----------------------------------------------------------------------------
(* Envelopes. *)

EncodeManagerMessage(msg) ==
    AppendUint16(<<msg.id, msg.sender>>, Len(msg.payload)) \o msg.payload

\* Mutant of ParseManagerMessage: the stated length may differ.
ParseManagerMessageAnyLength(slice) ==
    IF slice.len < 4 THEN Failed
    ELSE [ ok |-> TRUE, id |-> slice.buffer[1], sender |-> slice.buffer[2],
           payload |-> Cut(slice, 4, slice.len - 4) ]

ParseManagerMessage(slice) ==
    IF \/ slice.len < 4
       \/ slice.len - 4 # Uint16(slice.buffer[3], slice.buffer[4])
    THEN Failed
    ELSE [ ok |-> TRUE, id |-> slice.buffer[1], sender |-> slice.buffer[2],
           payload |-> Cut(slice, 4, slice.len - 4) ]

\* What the digest of a message is taken of.
ManagerMessageDigest(sourceChain, msg) ==
    <<sourceChain>> \o EncodeManagerMessage([msg EXCEPT !.payload = Bytes(@)])

\* Mutant of EncodeTransceiverMessage: no length for an empty payload, as in
\* EncodeNativeTokenTransfer.
EncodeTransceiverMessageNoLength(msg) ==
    LET header  == <<TransceiverMessagePrefix, msg.source, msg.recipient>>
        manager == AppendUint16(header, Len(msg.manager)) \o msg.manager
    IN  IF msg.transceiver = <<>> THEN manager
        ELSE AppendUint16(manager, Len(msg.transceiver)) \o msg.transceiver

EncodeTransceiverMessage(msg) ==
    LET header  == <<TransceiverMessagePrefix, msg.source, msg.recipient>>
        manager == AppendUint16(header, Len(msg.manager)) \o msg.manager
    IN  AppendUint16(manager, Len(msg.transceiver)) \o msg.transceiver

\* No length is checked here, and trailing bytes are ignored.
ParseTransceiverMessage(slice) ==
    LET buffer      == slice.buffer
        capacity    == Len(buffer)
        manager     == Uint16(buffer[4], buffer[5])
        transceiver == Uint16(buffer[manager + 6], buffer[manager + 7])
    IN  IF \/ capacity < 5
           \/ buffer[1] # TransceiverMessagePrefix
           \/ capacity < manager + 7
           \/ capacity < manager + 7 + transceiver
        THEN Failed
        ELSE [ ok |-> TRUE, source |-> buffer[2], recipient |-> buffer[3],
               manager |-> Cut(slice, 5, manager),
               transceiver |-> Cut(slice, manager + 7, transceiver) ]

-----------------------------------------------------------------------------
(* Delivery. *)

\* HandlePayload up to the point where it mints or updates the index.
HandlePayload(slice) ==
    LET token == DecodeTokenPayload(slice)
        index == DecodeIndexPayload(slice)
    IN  CASE GetPayloadType(slice) = "unknown" -> [ok |-> TRUE, type |-> "unknown"]
          [] GetPayloadType(slice) = "token" ->
                 IF token.ok /\ token.chain = ThisChain /\ token.token = <<RawToken>>
                 THEN [ ok |-> TRUE, type |-> "token", recipient |-> token.recipient,
                        amount |-> token.amount, index |-> token.index ]
                 ELSE Failed
          [] GetPayloadType(slice) = "index" ->
                 IF index.ok /\ index.chain = ThisChain
                 THEN [ok |-> TRUE, type |-> "index", index |-> index.index]
                 ELSE Failed

\* What Keeper.Deliver makes of a VAA's payload.
Delivered(slice) ==
    LET transceiver == ParseTransceiverMessage(slice)
        message     == ParseManagerMessage(transceiver.manager)
    IN  IF \/ ~transceiver.ok
           \/ transceiver.source # Peer
           \/ transceiver.recipient # PaddedManagerAddress
           \/ ~message.ok
        THEN Failed
        ELSE HandlePayload(message.payload)

=============================================================================
