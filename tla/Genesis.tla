------------------------------- MODULE Genesis --------------------------------
(***************************************************************************)
(* Stopping the chain, exporting its state and starting a chain from the   *)
(* export.  Between the two there is only the genesis document: what the   *)
(* export leaves out or writes differently is lost.                        *)
(*                                                                         *)
(* The document has maps and lists where the store has keyed collections.  *)
(* The bank, Wormhole, IBC and Hyperlane export and import their own       *)
(* state; they are external and keep it.                                   *)
(***************************************************************************)
EXTENDS Dollar

\* GetVaultsPositions: one entry per position.
GetVaultsPositions ==
    {[address |-> key[1], vault |-> key[2], time |-> key[3], position |-> positions[key]] :
        key \in DOMAIN positions}

\* GetVaultsRewards: one entry per record.
GetVaultsRewards == {[index |-> i, record |-> rewards[i]] : i \in DOMAIN rewards}

\* GetRetryAmounts and GetTotalExternalYield: the amounts that are not zero.
NonZero(amounts) ==
    [d \in {d \in DOMAIN amounts : amounts[d] # 0} |-> amounts[d]]

ExportGenesis ==
    [ paused             |-> paused,
      index              |-> ledger.index,
      principal          |-> ledger.principal,
      stats              |-> [totalHolders      |-> ledger.totalHolders,
                              totalPrincipal    |-> ledger.totalPrincipal,
                              totalYieldAccrued |-> ledger.totalYieldAccrued],
      totalExternalYield |-> NonZero(totalExternal),
      yieldRecipients    |-> yieldRecipients,
      retryAmounts       |-> NonZero(retryAmounts),
      portal             |-> [owner         |-> portalOwner,
                              paused        |-> portalPaused,
                              peers         |-> portalPeers,
                              bridgingPaths |-> GetPortalBridgingPaths,
                              nonce         |-> portalNonce],
      vaults             |-> [positions              |-> GetVaultsPositions,
                              rewards                |-> GetVaultsRewards,
                              totalFlexiblePrincipal |-> totalFlexible,
                              paused                 |-> vaultsPaused,
                              seasonOneEnded         |-> ended,
                              stats                  |-> stats] ]

\* The ledger of the new chain: the bank's part of it is external.
ImportedLedger(genesis) ==
    [ index             |-> genesis.index,
      principal         |-> genesis.principal,
      balance           |-> ledger.balance,
      supply            |-> ledger.supply,
      totalPrincipal    |-> genesis.stats.totalPrincipal,
      totalHolders      |-> genesis.stats.totalHolders,
      totalYieldAccrued |-> genesis.stats.totalYieldAccrued ]

\* An absent amount reads as zero.
Imported(amounts) ==
    [d \in Destination |-> IF d \in DOMAIN amounts THEN amounts[d] ELSE 0]

\* The positions of a list of entries: a later entry would overwrite an earlier
\* one with the same key.
ImportedPositions(entries) ==
    [key \in {<<e.address, e.vault, e.time>> : e \in entries} |->
        (CHOOSE e \in entries : <<e.address, e.vault, e.time>> = key).position]

ImportedRewards(entries) ==
    [i \in {e.index : e \in entries} |-> (CHOOSE e \in entries : e.index = i).record]

\* Mutant of InitPortal: the nonce starts over.
InitPortalFreshNonce(portal) ==
    /\ portalOwner' = portal.owner
    /\ portalPaused' = portal.paused
    /\ portalPeers' = portal.peers
    /\ portalBridgingPaths' = [path \in portal.bridgingPaths |-> TRUE]
    /\ portalNonce' = 0

\* Every bridging path of the document is stored as supported.
InitPortal(portal) ==
    /\ portalOwner' = portal.owner
    /\ portalPaused' = portal.paused
    /\ portalPeers' = portal.peers
    /\ portalBridgingPaths' = [path \in portal.bridgingPaths |-> TRUE]
    /\ portalNonce' = portal.nonce

InitVaults(vaults) ==
    /\ positions' = ImportedPositions(vaults.positions)
    /\ rewards' = ImportedRewards(vaults.rewards)
    /\ vaultsPaused' = vaults.paused
    /\ ended' = vaults.seasonOneEnded
    /\ stats' = vaults.stats
    /\ totalFlexible' = vaults.totalFlexiblePrincipal

InitGenesis(genesis) ==
    /\ paused' = genesis.paused
    /\ ledger' = ImportedLedger(genesis)
    /\ totalExternal' = Imported(genesis.totalExternalYield)
    /\ yieldRecipients' = genesis.yieldRecipients
    /\ retryAmounts' = Imported(genesis.retryAmounts)
    /\ InitPortal(genesis.portal)
    /\ InitVaults(genesis.vaults)

Restart ==
    /\ InitGenesis(ExportGenesis)
    /\ UNCHANGED <<burns, donated, archive, posted, now, packets, vouchers, collateral,
                   routers, delivered>>

GenesisNext == DollarNext \/ Restart

GenesisSpec == DollarInit /\ [][GenesisNext]_dollarVars

-----------------------------------------------------------------------------
(* Properties. *)

\* What the queries answer, in all components.
Answers ==
    << ledger, paused, portalOwner, portalPaused, portalPeers, portalNonce,
       GetPortalBridgingPaths, positions, totalFlexible, rewards, stats, vaultsPaused,
       ended, yieldRecipients, retryAmounts, totalExternal >>

\* A restart shows in no query, and it ends the difference between the paths that
\* queries report and those that Transfer accepts, in favour of the report: a
\* path that was set to unsupported does not come back as supported.
RestartKeepsAnswers ==
    [][Restart => /\ Answers' = Answers
                  /\ DOMAIN portalBridgingPaths' = GetPortalBridgingPaths]_dollarVars

=============================================================================
