------------------------------- MODULE MCNTT ---------------------------------
(***************************************************************************)
(* The messages that peers send, altered on the way out: a peer may put    *)
(* any layer together differently than this module would.                  *)
(***************************************************************************)
EXTENDS NTT

CONSTANTS
    MaxAltered,     \* bound on the alterations of one message
    Spare           \* the numbers of zero bytes a buffer may have left

ASSUME SpareAssumption == Spare \subseteq Nat

VARIABLES
    meant,          \* the payload that was encoded
    layer,          \* how far the encoding got
    bz,             \* the bytes so far
    altered,        \* the number of alterations
    outcome         \* what the delivery made of them

wireVars == <<meant, layer, bz, altered, outcome>>

\* A transfer with a full additional payload, with more, less or none, and an
\* index update.
Transfer(additional) ==
    [ type |-> "token", amount |-> 1, sourceToken |-> RawToken, to |-> <<0, 2>>,
      toChain |-> ThisChain, additional |-> additional ]

Meanings ==
    { Transfer(EncodeAdditionalPayload(1, RawToken)),
      Transfer(EncodeAdditionalPayload(1, RawToken) \o <<4>>),
      Transfer(<<1>>), Transfer(<<>>),
      [type |-> "index", index |-> 1] }

Encoded(meaning) ==
    IF meaning.type = "token" THEN EncodeNativeTokenTransfer(meaning)
    ELSE EncodeIndexPayload(meaning.index, ThisChain)

NTTInit ==
    /\ meant \in Meanings
    /\ layer = "payload"
    /\ bz = Encoded(meant)
    /\ altered = 0
    /\ outcome = Failed

\* A message that ends early, has one byte that differs, or one more.
Alter ==
    /\ layer # "delivered"
    /\ altered < MaxAltered
    /\ \/ \E n \in 0 .. Len(bz) - 1 : bz' = SubSeq(bz, 1, n)
       \/ \E i \in 1 .. Len(bz), byte \in Byte : byte # bz[i] /\ bz' = ReplaceAt(bz, i, byte)
       \/ \E byte \in Byte : bz' = Append(bz, byte)
    /\ altered' = altered + 1
    /\ UNCHANGED <<meant, layer, outcome>>

WrapInManagerMessage ==
    /\ layer = "payload"
    /\ layer' = "manager"
    /\ bz' = EncodeManagerMessage([id |-> 0, sender |-> 1, payload |-> bz])
    /\ UNCHANGED <<meant, altered, outcome>>

WrapInTransceiverMessage ==
    /\ layer = "manager"
    /\ layer' = "transceiver"
    /\ bz' = EncodeTransceiverMessage(
                 [ source |-> Peer, recipient |-> PaddedManagerAddress, manager |-> bz,
                   transceiver |-> <<>> ])
    /\ UNCHANGED <<meant, altered, outcome>>

Deliver(spare) ==
    /\ layer = "transceiver"
    /\ layer' = "delivered"
    /\ outcome' = Delivered([buffer |-> bz \o [i \in 1 .. spare |-> 0], len |-> Len(bz)])
    /\ UNCHANGED <<meant, bz, altered>>

NTTNext ==
    \/ Alter
    \/ WrapInManagerMessage
    \/ WrapInTransceiverMessage
    \/ \E spare \in Spare : Deliver(spare)

NTTSpec == NTTInit /\ [][NTTNext]_wireVars

-----------------------------------------------------------------------------
(* Properties. *)

\* Both ends agree: a message that nobody alters is delivered as it was meant,
\* through three layers of encoders and parsers that share no length, and
\* wherever its buffer ends.
DeliveredAsMeant ==
    layer = "delivered" /\ altered = 0 =>
        outcome = CASE meant.type = "index" ->
                           [ok |-> TRUE, type |-> "index", index |-> meant.index]
                    [] meant.type = "token" /\ Len(meant.additional) >= 2 ->
                           [ ok |-> TRUE, type |-> "token", recipient |-> meant.to[2],
                             amount |-> meant.amount, index |-> meant.additional[1] ]
                    [] OTHER -> Failed

\* The manager message in what was delivered.
ReceivedManager ==
    LET received == [buffer |-> bz \o [i \in 1 .. 2 * Base * Base |-> 0], len |-> Len(bz)]
    IN  ParseTransceiverMessage(received).manager

\* The bytes that the message id is a digest of, behind those of the source chain.
Digested == Tail(ManagerMessageDigest(0, ParseManagerMessage(ReceivedManager)))

\* What the digested bytes make of a delivery on their own, with nothing behind them.
PayloadOnItsOwn == ParseManagerMessage([buffer |-> Digested, len |-> Len(Digested)]).payload

\* The one payload that is executed with bytes from behind its end:
\* DecodeIndexPayload checks no length.
CutIndexPayload(payload) == GetPayloadType(payload) = "index" /\ payload.len < 3

\* The message id names what was executed: it is a digest of the manager message
\* as it arrived, byte by byte, and these bytes decide on their own what Deliver
\* does, whatever stands around them in the VAA and although the parsers read past
\* the end of slices.  Only the index and chain of an index payload that was cut
\* short may come from elsewhere.
DigestDecidesOutcome ==
    layer = "delivered" /\ outcome.ok =>
        /\ Digested = Bytes(ReceivedManager)
        /\ \/ outcome = HandlePayload(PayloadOnItsOwn)
           \/ outcome.type = "index" /\ CutIndexPayload(PayloadOnItsOwn)

\* DecodeTokenPayload ignores two errors, and the parsers below it read past the
\* end of slices.  Still $USDN is issued only for a payload that is, but for its
\* decimals, what the encoder makes of the amount, recipient and index.
TokensWellFormed ==
    layer = "delivered" /\ outcome.ok /\ outcome.type = "token" =>
        LET payload == ParseManagerMessage(ReceivedManager).payload
            ntt     == ParseNativeTokenTransfer(payload)
            parsed  == [ntt EXCEPT !.additional = Bytes(@)]
        IN  /\ Bytes(payload) = [EncodeNativeTokenTransfer(parsed) EXCEPT ![2] = Bytes(payload)[2]]
            /\ IsPrefix(EncodeAdditionalPayload(outcome.index, RawToken), parsed.additional)
            /\ outcome.amount = parsed.amount
            /\ outcome.recipient = parsed.to[2]

=============================================================================
