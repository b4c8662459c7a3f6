------------------------------ MODULE MCTxPool ------------------------------
(***************************************************************************)
(* Instances of TxPool.                                                    *)
(***************************************************************************)
EXTENDS TxPoolProps

MCAddress == {"A", "B", "C", "airdrop", "supply"}
AllAddress == MCAddress \cup {"D", "voter"}

MCFees == [SEND |-> 1, STAKE |-> 1, VOTE |-> 1, DELEGATE |-> 5, SIGNATURE |-> 1]
MCMilestones == <<10, 10>>
MCReferralPercent == <<5, 3>>

\* A transaction with the fields its type has, the others neutral.
Blank == [second |-> FALSE, amount |-> 0, to |-> "", name |-> "", referral |-> "",
          votes |-> <<>>, down |-> FALSE, reward |-> 0, unstake |-> 0, sponsors |-> NoSponsors]
Tx(type, sender, time, asset) ==
    asset @@ [type |-> type, sender |-> sender, createdAt |-> time] @@ Blank

Funded(a, b, c) ==
    Credit(Credit(Credit(Credit(Credit(EmptyLedger, "A", a), "B", b), "C", c),
                  "airdrop", 1000), "supply", 100000)

-----------------------------------------------------------------------------
\* Payments that depend on each other and a second signature.
SpendTrs == <<
    Tx("SEND", "A", 1, [to |-> "B", amount |-> 10]),
    Tx("SEND", "B", 2, [to |-> "A", amount |-> 10]),
    Tx("SIGNATURE", "A", 2, << >>),
    Tx("SEND", "A", 3, [to |-> "C", amount |-> 10])
    >>
SpendGenesis == Funded(14, 5, 0)

\* A new account with a referral, a payment to it, and its delegate.
NewcomerTrs == <<
    Tx("REGISTER", "D", 1, [referral |-> "C"]),
    Tx("SEND", "C", 2, [to |-> "D", amount |-> 10]),
    Tx("DELEGATE", "D", 3, [name |-> "name"])
    >>

\* A voter with a stake that earns at its next vote and is paid back at the
\* one after it, the delegate B, and the sponsor C who spends what the airdrop gives.
VoteTrs == <<
    Tx("STAKE", "voter", 1, [amount |-> 10, sponsors |-> "C" :> 1]),
    Tx("VOTE", "voter", 2, [votes |-> <<"B">>, reward |-> 10, sponsors |-> "C" :> 1]),
    Tx("VOTE", "voter", 3, [votes |-> <<"B">>, down |-> TRUE]),
    Tx("VOTE", "voter", 4, [votes |-> <<"B">>, unstake |-> 100])
    >>

AllTrs == SpendTrs \o NewcomerTrs \o VoteTrs
AllGenesis ==
    [Funded(14, 5, 21) EXCEPT
        !.acct["voter"] = [@ EXCEPT !.bal = 30, !.referrals = <<"C">>,
                    !.stakes = <<[src |-> 0, amount |-> 100, active |-> TRUE, voteCount |-> 1,
                                  next |-> 1, prev |-> <<0>>]>>],
                !.acct["B"].delegate = "forger", !.names = {"forger"}]

-----------------------------------------------------------------------------
\* What may happen; each transaction there is arrives at most once.
Budget(ids, blocks, deletes, syncs, faults, drops) ==
    [ids |-> ids, arrivals |-> [id \in ids |-> 1], blocks |-> blocks, deletes |-> deletes,
     syncs |-> syncs, faults |-> faults, drops |-> drops]

\* A failing write around payments and newcomers, and one block of all stakes and
\* votes or two of votes; then payments, newcomers and a stake with votes in a
\* block that gives way to another one or is rolled back.
LedgerBudgets == {Budget(1..4, 1, 0, 0, 1, 0), Budget(5..7, 1, 0, 0, 1, 0),
                  Budget(8..11, 1, 0, 0, 0, 0), Budget(9..11, 2, 0, 0, 0, 0),
                  Budget(1..2, 2, 1, 1, 0, 0), Budget(5..7, 2, 1, 0, 0, 0),
                  Budget(8..10, 2, 1, 0, 0, 0)}

\* Replaced and rolled back blocks, with a synchronization or with failures, and
\* a pool that is larger than a block.
ForkBudgets == {Budget(1..3, 2, 1, 1, 0, 0), Budget({1, 3}, 2, 1, 0, 1, 1),
                Budget({1, 2, 4}, 1, 0, 0, 0, 0)}
=============================================================================
