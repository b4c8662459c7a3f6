------------------------------- MODULE Rounds -------------------------------
(***************************************************************************)
(* The pure part of forging rounds: slots, rounds and the reward that a    *)
(* finished round pays (core/service/round.ts, core/service/slot.ts,       *)
(* core/util/round.ts, core/util/slot.ts).                                 *)
(*                                                                         *)
(* A slot is a number of SLOT_INTERVAL seconds since the epoch.  A block   *)
(* is a record; its createdAt is kept as the slot it falls in, its id is   *)
(* an opaque name, its payload only as the fee it collects.                *)
(***************************************************************************)
EXTENDS Integers, SequencesExt

CONSTANTS
  Delegates,  \* public keys of the registered delegates
  BlockIds,   \* the ids (hashes) of all blocks considered
  Schedule    \* id of a block |-> the active delegates in the order in which
              \* they forge in a round generated on top of that block

ASSUME ScheduleAssumption ==
  /\ Schedule \in [BlockIds -> Seq(Delegates)]
  /\ \A id \in BlockIds : Schedule[id] # <<>> /\ IsInjective(Schedule[id])

-----------------------------------------------------------------------------
(* Rounds: the slots first, first+1, ... are given to the delegates of     *)
(* order; forged holds the delegates whose slot has isForged set.          *)

NewRound(firstSlot, lastBlockId) ==
  [first |-> firstSlot, order |-> Schedule[lastBlockId], forged |-> {}]

LastSlot(r) == r.first + Len(r.order) - 1

InRound(r, s) == r.first <= s /\ s <= LastSlot(r)

Active(r) == {r.order[i] : i \in DOMAIN r.order}

SlotOf(r, d) == r.first + (CHOOSE i \in DOMAIN r.order : r.order[i] = d) - 1

\* The code counts down until slot % n = n - 1.
FirstSlotInRound(slot, n) == slot - ((slot + 1) % n)

-----------------------------------------------------------------------------
(* What a finished round pays to whom.                                     *)

\* The blocks above height offset, at most limit of them, up to the first
\* height that the map from heights to blocks does not know.
GetMany(byHeight, limit, offset) ==
  LET known == {k \in 0..limit :
                  \A h \in offset + 1..offset + k : h \in DOMAIN byHeight}
  IN  [i \in 1..Max(known) |-> byHeight[offset + i]]

CeilDiv(a, b) == (a + b - 1) \div b

\* Every one of a set of forged blocks earns the same share of their fees.
FeeShare(blocks) ==
  IF blocks = {}
  THEN 0
  ELSE CeilDiv(SumFunction([b \in blocks |-> b.fee]), Cardinality(blocks))

ForgedBy(blocks, d) == Cardinality({b \in blocks : b.generator = d})

\* sign = 1 pays the reward of round r for blocks, sign = -1 takes it back.
ProcessReward(ledger, r, blocks, sign) ==
  IF r.forged = {}
  THEN ledger
  ELSE [d \in Delegates |->
         [balance      |-> ledger[d].balance
                           + sign * (FeeShare(blocks) * ForgedBy(blocks, d)),
          forgedBlocks |-> ledger[d].forgedBlocks + sign * ForgedBy(blocks, d),
          missedBlocks |-> ledger[d].missedBlocks
                           + (IF d \in Active(r) \ r.forged
                              THEN sign ELSE 0)]]
=============================================================================
