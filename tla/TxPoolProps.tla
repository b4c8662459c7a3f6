----------------------------- MODULE TxPoolProps -----------------------------
(***************************************************************************)
(* What the queue, the pool and the ledger promise.                        *)
(***************************************************************************)
EXTENDS TxPool

Quiet == main.task \in {"idle", "replace", "syncWait", "sync"}

InFlight == IF Quiet THEN <<>> ELSE main.block

Queued == IdsOf(queue) \cup IdsOf(conflicted)
Confirmations == FlattenSeq(chain)

-----------------------------------------------------------------------------
\* The accounts are those that the chain, the pool and the block being saved
\* produce when they are applied to the genesis ledger one after the other:
\* popping, undoing and returning transactions around blocks that are
\* generated, received, refused, replaced and rolled back leaves nothing behind
\* and loses nothing.  Lists are compared as sets: removing a vote or a stake
\* and adding it again changes its place only.
Canonical(l) ==
    [l EXCEPT !.acct = [a \in Address |->
        [@[a] EXCEPT !.votes = ToSet(@), !.stakes = ToSet(@)]]]
LedgerExact ==
    unverified \/
    Canonical(ledger)
        = Canonical(FoldLeft(ApplyUnconfirmed, Replay(Genesis, chain), Sorted(pool \o InFlight)))

\* No money is made or lost by any of it, not even half way through a task:
\* balances, active stakes and the fees of what is applied sum up to what the
\* genesis block gave out (reward.ts, send.ts, stake.ts, vote.ts).
Wealth(l) ==
    FoldFunctionOnSet(+, 0, [a \in Address |->
        l.acct[a].bal + SumOver(ActiveStakes(l.acct[a]), LAMBDA s : s.amount)], Address)
Conserved ==
    Wealth(ledger) + SumOver(Confirmations \o pool \o InFlight, LAMBDA x : x.fee)
        = Wealth(Genesis)

\* Between two tasks nobody owes money, whatever was taken out of the pool and
\* put back.
Solvent == Quiet /\ ~unverified => \A a \in Address : ledger.acct[a].bal >= 0

\* generateBlock does not verify the transactions it pops; the block it would
\* forge now passes the verification of every other node.
NextBlock == PopSorted(Memory, MaxPerBlock).taken
BlockValid ==
    LET confirmed == Replay(Genesis, chain)
    IN  Check(confirmed, Check(confirmed, NextBlock, FALSE).done, TRUE).ok
ForgedBlockValid == Quiet /\ ~unverified => BlockValid

\* Whether a block is accepted depends on its content and on the chain, never
\* on the payments and second keys that happen to wait in the pool of this node:
\* batchRemove takes out all that could make a difference.  It leaves the names
\* and the airdrop as the other types have made them.
VerdictIndependent ==
    Quiet /\ ~unverified /\ (\A i \in DOMAIN pool : Type(pool[i]) \in {"SEND", "SIGNATURE"}) =>
        LET confirmed == Replay(Genesis, chain) IN
        \A ids \in Contents :
            LET txs == Forged(confirmed, ids)
            IN  Check(BatchRemove(Memory, txs).m.ledger, txs, TRUE).ok
                    = Check(confirmed, txs, TRUE).ok

NoneTwice(s) == \A i, j \in DOMAIN s : s[i].id = s[j].id => i = j
ConfirmedIds == UNION {IdsOf(chain[k]) : k \in DOMAIN chain}

\* A transaction is confirmed at most once, and never waits in the pool for a
\* second confirmation.
ConfirmedOnce ==
    /\ \A k \in DOMAIN chain : NoneTwice(chain[k])
    /\ \A j, k \in DOMAIN chain : j # k => IdsOf(chain[j]) \cap IdsOf(chain[k]) = {}
    /\ NoneTwice(pool)
    /\ IdsOf(pool) \cap (ConfirmedIds \cup IdsOf(InFlight)) = {}
    /\ ledger.stored = ConfirmedIds

-----------------------------------------------------------------------------
\* A transaction the node took in leaves it only as part of a block or because
\* it failed its verification; a block that is refused, or cannot be saved,
\* returns what was taken out of the pool for it.  Only when generating a block
\* throws, on a vote for an account that is no delegate any more, are the
\* transactions popped for it forgotten.
Held == Queued \cup IdsOf(pool) \cup IdsOf(InFlight)
            \cup IF main.task \in {"receive", "syncReceive"} THEN IdsOf(main.removed) ELSE {}
NothingForgotten ==
    [][\A id \in Held :
          \/ id \in Held' \cup ledger'.stored
          \/ /\ queue # <<>> /\ id = Head(queue).id /\ queue' = Tail(queue)
             /\ ~VerifyUnconfirmed(ledger, AtProcessing(Head(queue)), FALSE)
          \/ GenerateBlock /\ main' = Idle /\ id \in IdsOf(NextBlock)]_vars

-----------------------------------------------------------------------------
\* With its timers, its database and its tasks served, the node works off its
\* queue, whatever the blocks do in between; only a chain of timers that ended
\* early leaves it standing until the next block.
QueueDrains == []<>(queue = <<>> \/ stalled \/ ~online \/ sync)

\* The timers of the queue are served, and the running task goes on: each of
\* its awaits is answered.  This is WF_vars(Process) /\ WF_vars(MainStep) with
\* the conditions that enable the two, ticks > 0 and main # Idle, spelled out.
MainStep == BlockGenerated \/ BlockReceived \/ BlockDeleted \/ SyncBegin \/ SyncEnd

Fairness ==
    /\ []<>(ticks = 0) \/ []<><<Process>>_vars
    /\ []<>(main = Idle) \/ []<><<MainStep>>_vars

FairSpec == Spec /\ Fairness
=============================================================================
