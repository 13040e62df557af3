---------------------------- MODULE HeaderRules ----------------------------
(***************************************************************************)
(* Single-header validation of agreement/epvhash/consensus.go:             *)
(* EPVhash.VerifyHeader, verifyHeader, VerifySeal, and VerifyForkHashes of *)
(* agreement/misc/forks.go.  Each is a chain of early returns; a call is   *)
(* one step from "pending" to the error it returns.                        *)
(*                                                                         *)
(* The PoW hash is abstracted to whether its digest matches the header's   *)
(* mix digest and the result value it yields.  Gas limits are unsigned    *)
(* integers of GasBits bits (64 in the code), converted to signed ones     *)
(* with wrap-around as Go's int64() does.  VerifyDAOHeaderExtraData is not *)
(* in this repository; its verdict is a field of the header.               *)
(***************************************************************************)
EXTENDS DifficultyRules, Sequences, SequencesExt

CONSTANTS
    MaximumExtraDataSize,   \* params.MaximumExtraDataSize
    AllowedFutureBlockTime, \* allowedFutureBlockTime, in ms (15 s)
    MaxBigTime,             \* math.MaxBig256, the bound on an uncle's time
    GasBits,                \* width of GasLimit/GasUsed (64)
    GasLimitBoundDivisor,   \* params.GasLimitBoundDivisor
    MinGasLimit,            \* params.MinGasLimit
    EpochLength,            \* epochLength
    MaxEpoch,               \* maxEpoch
    MaxHash,                \* maxUint256, the top of the hash space
    EIP150Block,            \* config.EIP150Block
    EIP150Hash,             \* config.EIP150Hash (0 means unset)
    FakeFail,               \* epvhash.fakeFail
    Modes,                  \* PowModes an engine may be built with
    Parents,                \* candidate parent headers
    HeadersFor(_),          \* candidate headers for a given parent
    Nows                    \* values time.Now() may return, in ms

\* Go's int64(u) for an unsigned value of GasBits bits.
ToSigned(u) == IF u >= 2 ^ (GasBits - 1) THEN u - 2 ^ GasBits ELSE u
\* Go's wrapping signed arithmetic.
WrapSigned(x) == ((x + 2 ^ (GasBits - 1)) % 2 ^ GasBits) - 2 ^ (GasBits - 1)
\* Go's uint64(i) for a signed value.
ToUnsigned(i) == i % 2 ^ GasBits

\* cap := uint64(0x7fffffffffffffff)
GasCap == 2 ^ (GasBits - 1) - 1

\* diff := int64(parent.GasLimit) - int64(header.GasLimit), made positive.
GasDiff(header, parent) ==
    LET d == WrapSigned(ToSigned(parent.gasLimit) - ToSigned(header.gasLimit))
    IN IF d < 0 THEN WrapSigned(-d) ELSE d

-----------------------------------------------------------------------------
(* VerifyForkHashes: an uncle passes; a header at the EIP150 block must    *)
(* carry the configured hash, when one is configured.                      *)
VerifyForkHashes(header, uncle) ==
    IF ~uncle /\ EIP150Block = header.number /\ EIP150Hash # 0 /\ EIP150Hash # header.hash
    THEN "errForkHash" ELSE "nil"

(* VerifySeal: fake modes fail only at the fakeFail height; otherwise the  *)
(* epoch bound, a positive difficulty, the mix digest, then the result     *)
(* against maxUint256 / difficulty.                                        *)
VerifySeal(mode, header) ==
    IF mode \in {"fake", "fullfake"}
    THEN IF FakeFail = header.number THEN "errInvalidPoW" ELSE "nil"
    ELSE IF header.number \div EpochLength >= MaxEpoch THEN "errNonceOutOfRange"
    ELSE IF header.difficulty <= 0 THEN "errInvalidDifficulty"
    ELSE IF ~header.digestOK THEN "errInvalidMixDigest"
    ELSE IF header.powResult > MaxHash \div header.difficulty THEN "errInvalidPoW"
    ELSE "nil"

-----------------------------------------------------------------------------
(* A plausible bug of verifyHeader, used by the mutation check in place    *)
(* of it.                                                                  *)

\* The gas-limit bound with > instead of >=: a change of exactly the bound passes.
verifyHeaderGasBound(mode, now, header, parent, uncle, seal) ==
    IF header.extra > MaximumExtraDataSize THEN "errExtraTooLong"
    ELSE IF uncle /\ header.timeMS > MaxBigTime THEN "errLargeBlockTime"
    ELSE IF ~uncle /\ header.timeMS > now + AllowedFutureBlockTime THEN "ErrFutureBlock"
    ELSE IF header.timeMS <= parent.timeMS THEN "errZeroBlockTime"
    ELSE IF CalcDifficulty(header.timeMS, parent) # header.difficulty THEN "errDifficulty"
    ELSE IF header.gasLimit > GasCap THEN "errGasLimitCap"
    ELSE IF header.gasUsed > header.gasLimit THEN "errGasUsed"
    ELSE IF ToUnsigned(GasDiff(header, parent)) > parent.gasLimit \div GasLimitBoundDivisor
            \/ header.gasLimit < MinGasLimit THEN "errGasLimit"
    ELSE IF header.number - parent.number # 1 THEN "ErrInvalidNumber"
    ELSE IF seal /\ VerifySeal(mode, header) # "nil" THEN VerifySeal(mode, header)
    ELSE IF ~header.daoOK THEN "errDAOExtra"
    ELSE VerifyForkHashes(header, uncle)

-----------------------------------------------------------------------------
(* verifyHeader: extra-data size; an uncle's time below MaxBig256, or a    *)
(* header's time at most 15 s ahead of now; time after the parent's; the   *)
(* expected difficulty; gas limit cap, gas used, gas-limit bound and       *)
(* minimum; number = parent + 1; the seal if asked; the DAO extra-data     *)
(* rule; the fork hashes.                                                  *)
verifyHeader(mode, now, header, parent, uncle, seal) ==
    IF header.extra > MaximumExtraDataSize THEN "errExtraTooLong"
    ELSE IF uncle /\ header.timeMS > MaxBigTime THEN "errLargeBlockTime"
    ELSE IF ~uncle /\ header.timeMS > now + AllowedFutureBlockTime THEN "ErrFutureBlock"
    ELSE IF header.timeMS <= parent.timeMS THEN "errZeroBlockTime"
    ELSE IF CalcDifficulty(header.timeMS, parent) # header.difficulty THEN "errDifficulty"
    ELSE IF header.gasLimit > GasCap THEN "errGasLimitCap"
    ELSE IF header.gasUsed > header.gasLimit THEN "errGasUsed"
    ELSE IF ToUnsigned(GasDiff(header, parent)) >= parent.gasLimit \div GasLimitBoundDivisor
            \/ header.gasLimit < MinGasLimit THEN "errGasLimit"
    ELSE IF header.number - parent.number # 1 THEN "ErrInvalidNumber"
    ELSE IF seal /\ VerifySeal(mode, header) # "nil" THEN VerifySeal(mode, header)
    ELSE IF ~header.daoOK THEN "errDAOExtra"
    ELSE VerifyForkHashes(header, uncle)

-----------------------------------------------------------------------------
(***************************************************************************)
(* The rules of spec 4.3 and 4.2 in their order, each with the error it    *)
(* yields, over unbounded integers: a header passes when no rule fails.    *)
(***************************************************************************)
SpecRulesOf(mode, now, header, parent, uncle, seal) ==
    << [ok |-> header.extra <= MaximumExtraDataSize,          err |-> "errExtraTooLong"],
       [ok |-> ~uncle \/ header.timeMS <= MaxBigTime,          err |-> "errLargeBlockTime"],
       [ok |-> uncle \/ header.timeMS <= now + AllowedFutureBlockTime, err |-> "ErrFutureBlock"],
       [ok |-> header.timeMS > parent.timeMS,                 err |-> "errZeroBlockTime"],
       [ok |-> header.difficulty = CalcDifficulty(header.timeMS, parent), err |-> "errDifficulty"],
       [ok |-> header.gasLimit <= GasCap,                     err |-> "errGasLimitCap"],
       [ok |-> header.gasUsed <= header.gasLimit,             err |-> "errGasUsed"],
       [ok |-> /\ IntMax(header.gasLimit - parent.gasLimit, parent.gasLimit - header.gasLimit)
                     < parent.gasLimit \div GasLimitBoundDivisor
               /\ header.gasLimit >= MinGasLimit,            err |-> "errGasLimit"],
       [ok |-> header.number = parent.number + 1,            err |-> "ErrInvalidNumber"],
       [ok |-> ~seal \/ mode # "normal" \/ header.number \div EpochLength < MaxEpoch,
                                                             err |-> "errNonceOutOfRange"],
       [ok |-> ~seal \/ mode # "normal" \/ header.difficulty > 0, err |-> "errInvalidDifficulty"],
       [ok |-> ~seal \/ mode # "normal" \/ header.digestOK,   err |-> "errInvalidMixDigest"],
       [ok |-> ~seal \/ mode # "normal" \/ header.powResult * header.difficulty <= MaxHash,
                                                             err |-> "errInvalidPoW"],
       [ok |-> ~seal \/ mode = "normal" \/ header.number # FakeFail, err |-> "errInvalidPoW"],
       [ok |-> header.daoOK,                                  err |-> "errDAOExtra"],
       [ok |-> uncle \/ header.number # EIP150Block \/ EIP150Hash = 0 \/ header.hash = EIP150Hash,
                                                             err |-> "errForkHash"] >>

\* The index of the first rule a header breaks, 0 if none.
FirstBrokenRuleOf(rules) == SelectInSeq(rules, LAMBDA r : ~r.ok)

-----------------------------------------------------------------------------
VARIABLES
    mode,         \* epvhash.config.PowMode
    now,          \* time.Now() at the call
    header,       \* the header under verification
    parent,       \* the header the chain returns for its parent
    parentFound,  \* whether the chain has that parent
    entry,        \* which call: VerifyHeader or verifyHeader for an uncle
    seal,         \* the seal flag of the call
    path,         \* which early return the call took
    result        \* the error returned

vars == <<mode, now, header, parent, parentFound, entry, seal, path, result>>

Init ==
    /\ mode \in Modes
    /\ now \in Nows
    /\ parent \in Parents
    /\ header \in HeadersFor(parent)
    /\ parentFound \in BOOLEAN
    /\ entry \in {"VerifyHeader", "uncle"}
    /\ seal \in BOOLEAN
    /\ entry = "uncle" => seal
    /\ path = "pending"
    /\ result = "pending"

(* VerifyHeader: nothing to check in full-fake mode or for a header the    *)
(* chain already has; ErrUnknownAncestor without the parent; else          *)
(* verifyHeader(chain, header, parent, false, seal).                       *)
VerifyHeader ==
    /\ entry = "VerifyHeader" /\ result = "pending"
    /\ \/ /\ mode = "fullfake"
          /\ path' = "fullfake" /\ result' = "nil"
       \/ /\ mode # "fullfake" /\ header.known
          /\ path' = "known" /\ result' = "nil"
       \/ /\ mode # "fullfake" /\ ~header.known /\ ~parentFound
          /\ path' = "noParent" /\ result' = "ErrUnknownAncestor"
       \/ /\ mode # "fullfake" /\ ~header.known /\ parentFound
          /\ path' = "full"
          /\ result' = verifyHeader(mode, now, header, parent, FALSE, seal)
    /\ UNCHANGED <<mode, now, header, parent, parentFound, entry, seal>>

\* VerifyUncles' call verifyHeader(chain, uncle, ancestor, true, true).
VerifyUncleHeader ==
    /\ entry = "uncle" /\ result = "pending" /\ seal
    /\ path' = "full"
    /\ result' = verifyHeader(mode, now, header, parent, TRUE, TRUE)
    /\ UNCHANGED <<mode, now, header, parent, parentFound, entry, seal>>

Next == VerifyHeader \/ VerifyUncleHeader

Spec == Init /\ [][Next]_vars

-----------------------------------------------------------------------------
\* The rules applied to the call's own header, parent and flags.
Uncle == entry = "uncle"

SpecRules == SpecRulesOf(mode, now, header, parent, Uncle, seal)

FirstBrokenRule == FirstBrokenRuleOf(SpecRules)

(* Spec 4.3: a header that verifyHeader accepts satisfies every rule, the  *)
(* gas-limit bound included, computed on the true (unwrapped) values.      *)
AcceptedHeaderSound ==
    (path = "full" /\ result = "nil") => FirstBrokenRule = 0

(* Spec 4.3: the checks short-circuit in the documented order: the error   *)
(* verifyHeader returns is the one of the first rule the header breaks.    *)
FirstFailureReported ==
    (path = "full" /\ FirstBrokenRule # 0) => result = SpecRules[FirstBrokenRule].err
=============================================================================
