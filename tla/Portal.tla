------------------------------- MODULE Portal -------------------------------
(***************************************************************************)
(* The Noble Dollar Portal: the only way $USDN is issued and redeemed.     *)
(* Messages from peers on other chains arrive as VAAs and mint tokens or   *)
(* move the index; transfers out of Noble burn tokens and post a message.  *)
(* The owner configures peers and bridging paths and may pause the portal. *)
(*                                                                         *)
(* The module extends Token: every step that issues, redeems or re-indexes *)
(* $USDN is a step of Token taken under the portal's own conditions.       *)
(*                                                                         *)
(* Wormhole is external.  ParseAndVerifyVAA accepts a VAA that guardians   *)
(* signed and remembers it, so that it is never accepted again; the portal *)
(* keeps no record of delivered messages itself.                           *)
(***************************************************************************)
EXTENDS Token, Sequences

CONSTANTS
    ChainId,        \* Wormhole chain ids
    ThisChain,      \* Noble's own chain id
    Contract,       \* transceiver and manager addresses on other chains
    NoContract,     \* the 32 zero bytes
    Manager,        \* portal.PaddedManagerAddress
    RemoteToken,    \* destination tokens on other chains
    RawToken,       \* portal.RawToken: $USDN itself
    NoOwner,        \* the empty owner
    Vaa,            \* the VAAs that guardians sign
    NonceModulus    \* 2^32: the nonce is a uint32

\* The payload of a manager message.  Key and list messages of the M0 registrar
\* are of type "unknown".
Payload ==
    [type : {"token"}, recipient : Account \cup {Yield}, amount : Amounts,
     index : Indices, chain : ChainId, token : RemoteToken \cup {RawToken}]
    \cup [type : {"index"}, index : Indices, chain : ChainId]
    \cup [type : {"unknown"}]

ASSUME PortalAssumption ==
    /\ ThisChain \in ChainId /\ ChainId \subseteq Nat
    /\ NoContract \notin Contract
    /\ RawToken \notin RemoteToken
    /\ NoOwner \notin Account
    /\ NonceModulus \in Nat \ {0}
    /\ IsFiniteSet(Vaa)
    /\ Vaa \subseteq [emitterChain : ChainId, emitterAddress : Contract,
                      sourceManager : Contract, recipientManager : Contract \cup {Manager},
                      payload : Payload]

Peer == [transceiver : Contract, manager : Contract]

VARIABLES
    portalPaused,           \* Keeper.PortalPaused
    portalOwner,            \* Keeper.PortalOwner
    portalPeers,            \* Keeper.PortalPeers: chain -> peer, where set
    portalBridgingPaths,    \* Keeper.PortalBridgingPaths, where set
    portalNonce,            \* Keeper.PortalNonce
    archive,                \* Wormhole: the VAAs already accepted
    posted                  \* Wormhole: the messages posted, in order

config == <<portalPaused, portalOwner, portalPeers, portalBridgingPaths>>
portalVars == <<config, portalNonce, archive, posted>>
allVars == <<vars, portalVars>>

\* A genesis that configures an owner or none, and nothing else.
PortalGenesis ==
    /\ portalPaused = FALSE
    /\ portalOwner \in Signer \cup {NoOwner}
    /\ portalPeers = <<>>
    /\ portalBridgingPaths = <<>>
    /\ portalNonce = 0
    /\ archive = {}
    /\ posted = <<>>

PortalInit == Init /\ PortalGenesis

-----------------------------------------------------------------------------
(* Messages from other chains. *)

HandlePayload(payload) ==
    \/ /\ payload.type = "unknown"
       /\ UNCHANGED vars
    \/ /\ payload.type = "token"
       /\ payload.chain = ThisChain
       /\ payload.token = RawToken
       /\ Mint(payload.recipient, payload.amount, payload.index)
    \/ /\ payload.type = "index"
       /\ payload.chain = ThisChain
       /\ UpdateIndex(payload.index)

\* wormhole.ParseAndVerifyVAA, in a transaction that succeeds.
ParseAndVerifyVAA(vaa) ==
    /\ vaa \notin archive
    /\ archive' = archive \cup {vaa}

\* The message comes from the peer configured for its chain and is meant for
\* Noble's manager.
FromPeer(vaa) ==
    /\ vaa.emitterChain \in DOMAIN portalPeers
    /\ portalPeers[vaa.emitterChain].transceiver = vaa.emitterAddress
    /\ portalPeers[vaa.emitterChain].manager = vaa.sourceManager
    /\ vaa.recipientManager = Manager

\* Mutant of Deliver: the pause is not checked.
DeliverWhilePaused(vaa) ==
    /\ ParseAndVerifyVAA(vaa)
    /\ FromPeer(vaa)
    /\ HandlePayload(vaa.payload)
    /\ UNCHANGED <<config, portalNonce, posted>>

Deliver(vaa) ==
    /\ ~portalPaused
    /\ ParseAndVerifyVAA(vaa)
    /\ FromPeer(vaa)
    /\ HandlePayload(vaa.payload)
    /\ UNCHANGED <<config, portalNonce, posted>>

-----------------------------------------------------------------------------
(* Messages to other chains. *)

\* Mutants of IncrementPortalNonce: the nonce is wider than a uint32; the
\* incremented nonce is not stored.
IncrementPortalNonceWide == portalNonce' = portalNonce + 1
IncrementPortalNonceForgotten == UNCHANGED portalNonce

\* The nonce is read, then stored incremented as a uint32.
IncrementPortalNonce == portalNonce' = (portalNonce + 1) % NonceModulus

\* The paths that queries report as supported.
GetPortalBridgingPaths ==
    {path \in DOMAIN portalBridgingPaths : portalBridgingPaths[path]}

\* portalMsgServer.Transfer.  That the path has an entry is all that is asked
\* of it.
PortalTransfer(sender, amount, chain, token) ==
    /\ ~portalPaused
    /\ chain \in DOMAIN portalPeers
    /\ <<chain, token>> \in DOMAIN portalBridgingPaths
    /\ IncrementPortalNonce
    /\ Burn(sender, amount)
    /\ posted' = Append(posted,
           [ nonce   |-> portalNonce,
             index   |-> ledger.index,
             amount  |-> amount,
             chain   |-> chain,
             token   |-> token,
             manager |-> portalPeers[chain].manager ])
    /\ UNCHANGED <<config, archive>>

-----------------------------------------------------------------------------
(* Administration. *)

EnsureOwner(signer) == portalOwner # NoOwner /\ signer = portalOwner

PortalSetPausedState(signer, pause) ==
    /\ EnsureOwner(signer)
    /\ portalPaused' = pause
    /\ UNCHANGED <<vars, portalOwner, portalPeers, portalBridgingPaths,
                   portalNonce, archive, posted>>

\* Mutant of SetPeer: Noble's own chain may be set as a peer.
SetPeerOwnChain(signer, chain, transceiver, manager) ==
    /\ EnsureOwner(signer)
    /\ chain # 0
    /\ transceiver # NoContract /\ manager # NoContract
    /\ portalPeers' = [c \in DOMAIN portalPeers \cup {chain} |->
                          IF c = chain
                          THEN [transceiver |-> transceiver, manager |-> manager]
                          ELSE portalPeers[c]]
    /\ UNCHANGED <<vars, portalPaused, portalOwner, portalBridgingPaths,
                   portalNonce, archive, posted>>

SetPeer(signer, chain, transceiver, manager) ==
    /\ EnsureOwner(signer)
    /\ chain # 0 /\ chain # ThisChain
    /\ transceiver # NoContract /\ manager # NoContract
    /\ portalPeers' = [c \in DOMAIN portalPeers \cup {chain} |->
                          IF c = chain
                          THEN [transceiver |-> transceiver, manager |-> manager]
                          ELSE portalPeers[c]]
    /\ UNCHANGED <<vars, portalPaused, portalOwner, portalBridgingPaths,
                   portalNonce, archive, posted>>

SetBridgingPath(signer, chain, token, supported) ==
    /\ EnsureOwner(signer)
    /\ chain # ThisChain
    /\ portalBridgingPaths' =
           [p \in DOMAIN portalBridgingPaths \cup {<<chain, token>>} |->
               IF p = <<chain, token>> THEN supported ELSE portalBridgingPaths[p]]
    /\ UNCHANGED <<vars, portalPaused, portalOwner, portalPeers,
                   portalNonce, archive, posted>>

TransferOwnership(signer, newOwner) ==
    /\ EnsureOwner(signer)
    /\ newOwner # signer
    /\ portalOwner' = newOwner
    /\ UNCHANGED <<vars, portalPaused, portalPeers, portalBridgingPaths,
                   portalNonce, archive, posted>>

-----------------------------------------------------------------------------
(* The steps of Token that do not go through the portal. *)
LocalStep ==
    /\ \/ \E sender \in Account, recipient \in Account, amount \in Amounts :
              Transfer(sender, recipient, amount)
       \/ \E account \in Signer : ClaimYield(account)
       \/ \E pause \in BOOLEAN : SetPausedState(pause)
    /\ UNCHANGED portalVars

Administration ==
    \/ \E signer \in Signer, pause \in BOOLEAN : PortalSetPausedState(signer, pause)
    \/ \E signer \in Signer, chain \in ChainId,
          transceiver, manager \in Contract \cup {NoContract} :
           SetPeer(signer, chain, transceiver, manager)
    \/ \E signer \in Signer, chain \in ChainId, token \in RemoteToken, supported \in BOOLEAN :
           SetBridgingPath(signer, chain, token, supported)
    \/ \E signer \in Signer, newOwner \in Signer \cup {StakedVault} :
           TransferOwnership(signer, newOwner)

PortalNext ==
    \/ \E vaa \in Vaa : Deliver(vaa)
    \/ \E sender \in Signer, amount \in Amounts, chain \in ChainId, token \in RemoteToken :
           PortalTransfer(sender, amount, chain, token)
    \/ Administration
    \/ LocalStep

PortalSpec == PortalInit /\ [][PortalNext]_allVars

\* The VAAs that deposit $USDN with Noble.
Deposits ==
    {vaa \in Vaa : /\ vaa.emitterChain # ThisChain
                   /\ vaa.recipientManager = Manager
                   /\ vaa.payload.type = "token"
                   /\ vaa.payload.chain = ThisChain
                   /\ vaa.payload.token = RawToken}

\* A transaction that delivers a deposit would succeed: ENABLED Deliver(vaa),
\* written out because TLC would evaluate the whole update for it.
CanDeliver(vaa) ==
    /\ ~portalPaused
    /\ vaa \notin archive
    /\ FromPeer(vaa)
    /\ MintSucceeds(vaa.payload.index)

\* Anyone may relay a VAA and a VAA does not expire: strong fairness of the
\* delivery of each deposit.
PortalFairness ==
    \A vaa \in Deposits : []<>CanDeliver(vaa) => []<><<Deliver(vaa)>>_allVars

-----------------------------------------------------------------------------
(* Properties. *)

\* Every portal variable has its type; the ledger has Token's.
PortalTypeOK ==
    /\ TypeOK
    /\ portalPaused \in BOOLEAN
    /\ portalOwner \in Account \cup {NoOwner}
    /\ DOMAIN portalPeers \subseteq ChainId
    /\ \A c \in DOMAIN portalPeers : portalPeers[c] \in Peer
    /\ DOMAIN portalBridgingPaths \subseteq ChainId \X RemoteToken
    /\ \A p \in DOMAIN portalBridgingPaths : portalBridgingPaths[p] \in BOOLEAN
    /\ portalNonce \in 0 .. NonceModulus - 1
    /\ archive \subseteq Vaa
    /\ posted \in Seq([nonce : Nat, index : Nat, amount : Amounts, chain : ChainId,
                       token : RemoteToken, manager : Contract])

\* What a VAA issued when it was accepted.
Issued(vaa) == IF vaa.payload.type = "token" THEN vaa.payload.amount ELSE 0

\* Conservation across the bridge: the supply is what delivered token messages
\* issued, plus the yield UpdateIndex minted, less what posted messages took to
\* other chains.  No message is counted twice or lost, whatever index update
\* inside Mint failed halfway.
SupplyAccounted ==
    ledger.supply + SumFunction([i \in DOMAIN posted |-> posted[i].amount])
        = ledger.totalYieldAccrued
          + SumFunction([vaa \in archive |-> Issued(vaa)])

\* The coins a VAA deposits with each holder.
Deposited(vaa) ==
    [h \in Address |-> IF vaa.payload.type = "token" /\ vaa.payload.recipient = h
                       THEN vaa.payload.amount ELSE 0]

\* The portal implements IdealDollar: forget principals and configuration.
Ideal == INSTANCE IdealDollar WITH
    Holder   <- Address,
    Pot      <- Yield,
    Sink     <- {Collector, Warp},
    Message  <- Vaa,
    Credit   <- [vaa \in Vaa |-> Deposited(vaa)],
    balance  <- ledger.balance,
    yield    <- ledger.totalYieldAccrued,
    index    <- ledger.index,
    accepted <- archive,
    outbox   <- [i \in DOMAIN posted |-> [amount |-> posted[i].amount,
                                          index  |-> posted[i].index]]

\* Whatever VAAs, transfers, claims and reconfigurations interleave, a coin is
\* only issued for a message that is accepted for the first time or as yield on
\* a rising index, only destroyed against a posted message that carries the
\* index of that moment, and nobody's balance shrinks unless it sends, with the
\* vault's and the warp account's yield handled on the way.
ImplementsIdeal == Ideal!Spec

\* Until the uint32 nonce wraps around, no two posted messages share a nonce,
\* and so no two share a manager message id.
NoncesFresh ==
    Len(posted) <= NonceModulus =>
        \A i, j \in DOMAIN posted : posted[i].nonce = posted[j].nonce => i = j

\* The index a message carries is never behind that of an earlier message nor
\* ahead of the current one: no chain that applies Noble's messages in order
\* sees a decreasing index.
PostedIndicesOrdered ==
    \A j \in DOMAIN posted :
        /\ posted[j].index <= ledger.index
        /\ \A i \in 1 .. j : posted[i].index <= posted[j].index

\* No message that claims to come from Noble itself is ever accepted: Deliver
\* trusts the peers, and SetPeer does not let Noble be its own.
NoSelfDelivery == \A vaa \in archive : vaa.emitterChain # ThisChain

\* While the portal is paused nothing issues or redeems $USDN, and the index
\* stands still: no handler gets around Deliver and Transfer.
PauseFreezesSupply ==
    [][portalPaused => /\ ledger'.supply = ledger.supply
                       /\ ledger'.index = ledger.index]_allVars

\* What can be said of a deposit without knowing what its index update will do:
\* its peer is the one of the moment, and it is late, its index reached by others
\* already, or the present value of the total principal covers the supply.
Welcome(vaa) ==
    /\ ~portalPaused
    /\ FromPeer(vaa)
    /\ \/ vaa.payload.index <= ledger.index
       \/ ledger.supply * Scale <= ledger.totalPrincipal * ledger.index

\* A deposit that was burned on another chain is issued here, sooner or later.
\* That its peer was rotated away, that the portal was paused or that later
\* messages overtook it only delays it, and so does an index update that fails in
\* the middle of its Mint: Mint must go on after every error of UpdateIndex.
DepositsDelivered ==
    \A vaa \in Deposits : []<>Welcome(vaa) => <>(vaa \in archive)

=============================================================================
