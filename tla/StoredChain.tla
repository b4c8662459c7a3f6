----------------------------- MODULE StoredChain -----------------------------
(***************************************************************************)
(* What the block table promises: one chain that starts with the genesis   *)
(* block and changes at its end only.  It is what BlockPGRepo              *)
(* (core/repository/block/pg.ts) is used for by the rest of the node,      *)
(* without memory, rounds, tasks or crashes.                               *)
(***************************************************************************)
EXTENDS SequencesExt

CONSTANTS Blocks, Genesis

VARIABLE store

TypeOK == store \in Seq(Blocks)

Init == store = <<>>

StoreGenesis == store = <<>> /\ store' = <<Genesis>>

\* The block names the last one and is one higher.  (That the chain changes
\* follows; saying so first spares TLC the search for b in other steps.)
StoreNext ==
  /\ store # <<>> /\ store' # store
  /\ \E b \in Blocks :
       /\ b.height = Len(store) + 1
       /\ b.previousBlockId = Last(store).id
       /\ store' = Append(store, b)

DeleteLast == Len(store) > 1 /\ store' = Front(store)

Next == StoreGenesis \/ StoreNext \/ DeleteLast

Spec == Init /\ [][Next]_store
=============================================================================
