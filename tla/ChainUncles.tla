---------------------------- MODULE ChainUncles ----------------------------
(***************************************************************************)
(* Uncle inclusion over a growing chain (agreement/epvhash/consensus.go):  *)
(* EPVhash.VerifyUncles decides whether a block with its uncle list may    *)
(* extend the chain, and Finalize's accumulateRewards credits the block's  *)
(* and the uncles' coinbases.  Other miners add side headers that later    *)
(* blocks may name as uncles.                                              *)
(*                                                                         *)
(* A header is [hash, parent, number, valid]: `valid` is the verdict of    *)
(* verifyHeader on it (modelled in HeaderRules).  Each header has its own  *)
(* coinbase, identified with its hash.  A block adds its `uncles`, a       *)
(* sequence of headers.  Hash 0 is the genesis block, whose parent hash    *)
(* (NoHash) names no block.                                                *)
(***************************************************************************)
EXTENDS Naturals, Sequences, SequencesExt, FiniteSets

CONSTANTS
    PowMode,              \* epvhash.config.PowMode
    MaxUncles,            \* maxUncles
    FrontierBlockReward,  \* FrontierBlockReward, scaled
    ByzantiumBlockReward, \* ByzantiumBlockReward, scaled
    ByzantiumBlock,       \* config.ByzantiumBlock
    NumberBits,           \* width of NumberU64 (64 in the code)
    MaxHeight,            \* bound on the blocks of the chain, genesis included
    MaxSide,              \* bound on the side headers mined
    OverlongUncles        \* one uncle list longer than maxUncles

MaxHeaders == MaxHeight + MaxSide
NoHash == MaxHeaders

VARIABLES
    chain,     \* the canonical chain, genesis first: blocks with their uncles
    side,      \* side headers, uncle candidates
    balance,   \* balance[h]: what the coinbase of header h has been credited
    nextHash,  \* hash of the next header created
    verdict    \* what VerifyUncles returned for the last imported block

vars == <<chain, side, balance, nextHash, verdict>>

Hashes == 0..(MaxHeaders - 1)
Genesis == [hash |-> 0, parent |-> NoHash, number |-> 0, valid |-> TRUE, uncles |-> <<>>]
ChainHead == chain[Len(chain)]
HeaderOf(b) == [hash |-> b.hash, parent |-> b.parent, number |-> b.number, valid |-> b.valid]

Init ==
    /\ chain = <<Genesis>>
    /\ side = {}
    /\ balance = [h \in Hashes |-> 0]
    /\ nextHash = 1
    /\ verdict = "nil"

-----------------------------------------------------------------------------
\* number-1 on a uint64 NumberBits wide: below genesis it wraps around.
PrevNumber(n) == (n + 2 ^ NumberBits - 1) % 2 ^ NumberBits

(* The ancestor walk: chain.GetBlock(parent, number) up to 7 times,        *)
(* stopping at the first lookup that finds nothing.  It yields the         *)
(* positions in `chain` of the blocks found.                               *)
RECURSIVE Walk(_, _, _)
Walk(parent, number, i) ==
    LET found == {k \in 1..Len(chain) : chain[k].hash = parent /\ chain[k].number = number} IN
    IF i = 7 \/ found = {} THEN {}
    ELSE LET k == CHOOSE k \in found : TRUE
         IN {k} \cup Walk(chain[k].parent, PrevNumber(number), i + 1)

\* The hashes of the uncles the walked ancestors included.
AncestorUncles(anc) == UNION {{chain[k].uncles[j].hash : j \in 1..Len(chain[k].uncles)} : k \in anc}

(* A check that forgets to mark an uncle as seen once it passes: the same  *)
(* uncle twice in one block goes through.                                  *)
RECURSIVE CheckUnclesNoMark(_, _, _, _)
CheckUnclesNoMark(block, ancestors, uncles, i) ==
    IF i > Len(block.uncles) THEN "nil"
    ELSE LET u == block.uncles[i] IN
         IF u.hash \in uncles THEN "errDuplicateUncle"
         ELSE IF u.hash \in ancestors THEN "errUncleIsAncestor"
         ELSE IF u.parent \notin ancestors \/ u.parent = block.parent THEN "errDanglingUncle"
         ELSE IF ~u.valid THEN "errInvalidUncleHeader"
         ELSE CheckUnclesNoMark(block, ancestors, uncles, i + 1)

(* A check without the ancestor test: only the dangling-parent test guards *)
(* against naming a block of the chain itself.                             *)
RECURSIVE CheckUnclesNoAncestor(_, _, _, _)
CheckUnclesNoAncestor(block, ancestors, uncles, i) ==
    IF i > Len(block.uncles) THEN "nil"
    ELSE LET u == block.uncles[i] IN
         IF u.hash \in uncles THEN "errDuplicateUncle"
         ELSE IF u.parent \notin ancestors \/ u.parent = block.parent THEN "errDanglingUncle"
         ELSE IF ~u.valid THEN "errInvalidUncleHeader"
         ELSE CheckUnclesNoAncestor(block, ancestors, uncles \cup {u.hash}, i + 1)

(* The loop over block.Uncles(): a duplicate of an uncle already seen (in  *)
(* this block or an ancestor's), an ancestor, an uncle whose parent is not *)
(* an ancestor or is the block's own parent, or a header verifyHeader      *)
(* rejects.  `ancestors` and `uncles` are sets of hashes.                  *)
RECURSIVE CheckUncles(_, _, _, _)
CheckUncles(block, ancestors, uncles, i) ==
    IF i > Len(block.uncles) THEN "nil"
    ELSE LET u == block.uncles[i] IN
         IF u.hash \in uncles THEN "errDuplicateUncle"
         ELSE IF u.hash \in ancestors THEN "errUncleIsAncestor"
         ELSE IF u.parent \notin ancestors \/ u.parent = block.parent THEN "errDanglingUncle"
         ELSE IF ~u.valid THEN "errInvalidUncleHeader"
         ELSE CheckUncles(block, ancestors, uncles \cup {u.hash}, i + 1)

(* VerifyUncles: nothing in full-fake mode; at most maxUncles uncles; the  *)
(* ancestor and known-uncle sets, each seeded with the block itself.       *)
VerifyUncles(block) ==
    IF PowMode = "fullfake" THEN "nil"
    ELSE IF Len(block.uncles) > MaxUncles THEN "errTooManyUncles"
    ELSE LET anc == Walk(block.parent, PrevNumber(block.number), 0) IN
         CheckUncles(block,
                     {chain[k].hash : k \in anc} \cup {block.hash},
                     AncestorUncles(anc) \cup {block.hash},
                     1)

-----------------------------------------------------------------------------
BlockReward(number) ==
    IF number >= ByzantiumBlock THEN ByzantiumBlockReward ELSE FrontierBlockReward

\* The uncle credit with the operands of the subtraction swapped.
UncleRewardSwapped(header, uncle) ==
    ((header.number + 8 - uncle.number) * BlockReward(header.number)) \div 8

\* The uncle credit without the +8: negative for every uncle.
UncleRewardNoOffset(header, uncle) ==
    ((uncle.number - header.number) * BlockReward(header.number)) \div 8

\* r = (uncle.Number + 8 - header.Number) * blockReward / 8
UncleReward(header, uncle) ==
    ((uncle.number + 8 - header.number) * BlockReward(header.number)) \div 8

(* accumulateRewards: each uncle's coinbase gets its credit, and the       *)
(* block's coinbase the block reward plus blockReward/32 per uncle.        *)
AccumulateRewards(bal, header) ==
    [h \in Hashes |->
        bal[h]
        + FoldLeft(LAMBDA acc, u : acc + IF u.hash = h THEN UncleReward(header, u) ELSE 0,
                   0, header.uncles)
        + IF h = header.hash
          THEN BlockReward(header.number)
               + Len(header.uncles) * (BlockReward(header.number) \div 32)
          ELSE 0]

-----------------------------------------------------------------------------
\* Every header a block may name as an uncle: side headers and chain blocks.
Candidates == side \cup {HeaderOf(chain[k]) : k \in 1..Len(chain)}

(* The uncle lists a block may carry: every list of up to maxUncles        *)
(* candidates, and one longer list, which is rejected before its contents  *)
(* are looked at.                                                          *)
UncleLists == SeqOf(Candidates, MaxUncles) \cup {OverlongUncles}

(* Another miner seals a header on a block of the chain; verifyHeader may  *)
(* accept it or not.                                                       *)
MineSide ==
    /\ Cardinality(side) < MaxSide
    /\ \E p \in ToSet(chain), v \in BOOLEAN :
          side' = side \cup {[hash |-> nextHash, parent |-> p.hash,
                              number |-> p.number + 1, valid |-> v]}
    /\ nextHash' = nextHash + 1
    /\ UNCHANGED <<chain, balance, verdict>>

(* A block on the head with a proposed uncle list is verified; if          *)
(* VerifyUncles accepts it, Finalize credits the rewards and the block     *)
(* joins the chain.                                                        *)
ImportBlock ==
    /\ Len(chain) < MaxHeight
    /\ \E us \in UncleLists :
         LET block == [hash |-> nextHash, parent |-> ChainHead.hash, number |-> ChainHead.number + 1,
                       valid |-> TRUE, uncles |-> us]
             v == VerifyUncles(block)
         IN /\ verdict' = v
            /\ IF v = "nil"
                 THEN /\ chain' = Append(chain, block)
                      /\ balance' = AccumulateRewards(balance, block)
                      /\ nextHash' = nextHash + 1
                 ELSE UNCHANGED <<chain, balance, nextHash>>
    /\ UNCHANGED side

Next == MineSide \/ ImportBlock

Spec == Init /\ [][Next]_vars

-----------------------------------------------------------------------------
\* Every uncle included by the chain, with the block that includes it.
Inclusions == UNION {{<<i, k>> : k \in 1..Len(chain[i].uncles)} : i \in 1..Len(chain)}
UncleAt(p) == chain[p[1]].uncles[p[2]]

\* The types, with every reward accumulateRewards pays a natural number.
TypeOK ==
    /\ chain \in Seq([hash : Hashes, parent : Hashes \cup {NoHash}, number : Nat,
                      valid : BOOLEAN, uncles : Seq([hash : Hashes, parent : Hashes,
                                                     number : Nat, valid : BOOLEAN])])
    /\ side \subseteq [hash : Hashes, parent : Hashes, number : Nat, valid : BOOLEAN]
    /\ balance \in [Hashes -> Nat]
    /\ nextHash \in 1..MaxHeaders /\ Len(chain) <= MaxHeight /\ Cardinality(side) <= MaxSide

(* Spec 4.5: no header is rewarded as an uncle twice: across the whole     *)
(* chain, however long, a hash appears in at most one uncle list and at    *)
(* most once in it, although VerifyUncles only looks 7 blocks back.        *)
NoUncleTwice ==
    \A p, q \in Inclusions : UncleAt(p).hash = UncleAt(q).hash => p = q

(* Spec 4.5: a block of the chain is never included as an uncle by a       *)
(* later block of the same chain.                                          *)
UncleNotAncestor ==
    \A p \in Inclusions, b \in ToSet(chain) : UncleAt(p).hash # b.hash

(* Spec 4.6: every included uncle's coinbase holds a positive credit       *)
(* below a full block reward, as the distance bound of VerifyUncles is to  *)
(* guarantee for R * (uncle + 8 - header) / 8.                             *)
UnclePaidPartly ==
    \A p \in Inclusions :
        0 < balance[UncleAt(p).hash] /\ balance[UncleAt(p).hash] < BlockReward(chain[p[1]].number)
=============================================================================
