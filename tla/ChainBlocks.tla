----------------------------- MODULE ChainBlocks -----------------------------
(***************************************************************************)
(* The blocks that both hash chains of the gateway are made of: MAIN       *)
(* (collection MerkleChain) and the LOCAL chain of each network incident   *)
(* (collection LocalChain).                                                *)
(*                                                                         *)
(* SHA-256 is assumed free of collisions, so a root is modelled by what it *)
(* commits to: the sequence of the merkle roots hashed into it since the   *)
(* genesis root.  Two roots are equal exactly when they commit to the same *)
(* merkle roots in the same order.  The merkle root of a batch depends on  *)
(* the rows it is computed from, which carry their own status and batchId: *)
(* rows read before the batch was written and rows read after it differ.   *)
(* An Ed25519 signature is modelled by the payload it was made for.        *)
(***************************************************************************)
EXTENDS Naturals, Sequences

\* GENESIS_ROOT and LOCAL_GENESIS are the same constant, 32 zero bytes.
GENESIS_ROOT == << >>

ChainHash(previousRoot, merkleRoot) == Append(previousRoot, merkleRoot)

\* generateMerkleRoot over the rows of a batch in one of their two states.
RowStates == {"PENDING", "BATCHED"}
MerkleRoot(batchId, rowState) == << batchId, rowState >>

SignablePayload(batchId, previousRoot, currentRoot, eventCount) ==
    << batchId, previousRoot, currentRoot, eventCount >>

\* The signed part of a block chained onto previousRoot.
ChainedBlock(batchId, previousRoot, merkleRoot, eventCount) ==
    LET currentRoot == ChainHash(previousRoot, merkleRoot) IN
    [ batchId      |-> batchId,
      previousRoot |-> previousRoot,
      currentRoot  |-> currentRoot,
      eventCount   |-> eventCount,
      signature    |-> SignablePayload(batchId, previousRoot, currentRoot, eventCount) ]

\* Check 1 of verifyChain and of verifyLocalChain.
SignatureOk(block) ==
    block.signature =
        SignablePayload(block.batchId, block.previousRoot, block.currentRoot, block.eventCount)

\* Check 2 compares previousRoot with the currentRoot of the block before.
ExpectedPreviousRoot(blocks, n) ==
    IF n = 1 THEN GENESIS_ROOT ELSE blocks[n - 1].currentRoot

\* verifyChain: the positions at which it reports an error.
ChainErrors(blocks) ==
    { n \in DOMAIN blocks :
        \/ ~SignatureOk(blocks[n])
        \/ blocks[n].previousRoot # ExpectedPreviousRoot(blocks, n) }

\* getLastMainRoot, and the tail read of createChainedRoot.
LastRoot(blocks) ==
    IF blocks = << >> THEN GENESIS_ROOT ELSE blocks[Len(blocks)].currentRoot

=============================================================================
