------------------------------- MODULE Ledger -------------------------------
(***************************************************************************)
(* The accounts of a node and what the six types of transactions do to     *)
(* them: src/core/service/transaction.ts and the services of the types     *)
(* under src/core/service/transaction/, the rewards of                     *)
(* src/core/util/reward.ts and the two repositories they write, of         *)
(* accounts and of delegates.  Operators only: a ledger is a record, an    *)
(* operation returns the ledger after it.                                  *)
(*                                                                         *)
(* A transaction is a record of Trs, fixed when its wallet created it; the *)
(* fee travels with each copy of it, [id, fee], because the fee of a vote  *)
(* is calculated again when the vote is processed.  All signatures are     *)
(* those of the sender; whether a second one is there is a field.          *)
(***************************************************************************)
EXTENDS Integers, Sequences, FiniteSets, TLC, SequencesExt, Functions

CONSTANTS
    Address,            \* the accounts
    TotalSupply,        \* the account rewards are paid from
    Airdrop,            \* the account that rewards the sponsors
    NoName,             \* the username of an account that is no delegate
    Trs,                \* the transactions, a sequence: the index is the id
    Blacklist,          \* senders whose transactions are refused
    TotalPercentage,    \* the whole a percentage is taken of
    Fees,               \* [SEND, STAKE, VOTE (percentages), DELEGATE, SIGNATURE]
    VoteMilestone,      \* seconds between two votes that count for a stake
    RewardVoteCount,    \* a stake earns at every so many votes
    UnstakeVoteCount,   \* and is paid back at this one
    Milestones,         \* reward percentages, by height
    Distance,           \* blocks between two milestones of the reward
    StakePercent,       \* the first sponsor's share of a stake
    ReferralPercent,    \* the sponsors' shares of a reward, by level
    MaxReferrals,       \* REFERRAL.MAX_COUNT
    MaxVotes,           \* votes an account may have cast
    MoneyFactor         \* stakes are multiples of it

ASSUME AddressAssumption == {TotalSupply, Airdrop} \subseteq Address

Ids == DOMAIN Trs
Types == {"REGISTER", "SEND", "SIGNATURE", "DELEGATE", "STAKE", "VOTE"}

ASSUME TrsAssumption ==
    /\ Trs \in Seq(ToSet(Trs))
    /\ \A id \in Ids : Trs[id].sender \in Address /\ Trs[id].type \in Types

Type(x) == Trs[x.id].type

EmptyAccount == [bal |-> 0, second |-> FALSE, delegate |-> NoName, votes |-> <<>>,
                 referrals |-> <<>>, stakes |-> <<>>, unconfirmed |-> 0, confirmed |-> 0]

(***************************************************************************)
(* A ledger: the accounts, with the delegate of each; the usernames taken; *)
(* the ids of confirmed transactions; and the height of the last block.    *)
(***************************************************************************)
EmptyLedger == [acct |-> [a \in Address |-> EmptyAccount], names |-> {},
                stored |-> {}, height |-> 1]

Credit(l, a, n) == [l EXCEPT !.acct[a].bal = @ + n]

CeilDiv(n, d) == (n + d - 1) \div d
Percent(p, n) == CeilDiv(p * n, TotalPercentage)

(***************************************************************************)
(* The order of transactions in the queue, the pool and a block.           *)
(***************************************************************************)
Priority(type) == CASE type = "REGISTER" -> 0 [] type = "SEND" -> 10 [] type = "SIGNATURE" -> 20
                    [] type = "DELEGATE" -> 30 [] type = "STAKE" -> 40 [] type = "VOTE" -> 60

Before(x, y) ==
    LET p == Priority(Type(x))  q == Priority(Type(y))
        c == Trs[x.id].createdAt  d == Trs[y.id].createdAt
    IN  \/ p < q
        \/ p = q /\ c < d
        \/ p = q /\ c = d /\ x.id < y.id

\* Sorting is stable: x goes behind everything that is not after it.
Insert(s, x) == InsertAt(s, 1 + Cardinality({i \in DOMAIN s : ~Before(x, s[i])}), x)
Sorted(s) == FoldLeft(Insert, <<>>, s)

SumOver(s, Value(_)) == FoldLeft(LAMBDA n, e : n + Value(e), 0, s)

(***************************************************************************)
(* The fees.                                                               *)
(***************************************************************************)
ActiveStakes(account) == SelectSeq(account.stakes, LAMBDA s : s.active)

CalculateFee(l, id) ==
    LET t == Trs[id] IN
    CASE t.type = "REGISTER" -> 0
      [] t.type \in {"SEND", "STAKE"} -> Percent(Fees[t.type], t.amount)
      [] t.type \in {"SIGNATURE", "DELEGATE"} -> Fees[t.type]
      [] t.type = "VOTE" ->
           Percent(Fees["VOTE"], SumOver(ActiveStakes(l.acct[t.sender]), LAMBDA s : s.amount))

Copy(l, id) == [id |-> id, fee |-> CalculateFee(l, id)]

-----------------------------------------------------------------------------
(***************************************************************************)
(* Rewards.                                                                *)
(***************************************************************************)
RewardPercent(height) ==
    LET location == height \div Distance IN
    Milestones[IF location > Len(Milestones) - 1 THEN Len(Milestones) ELSE location + 1]

\* The stakes a vote counts for.
Counted(stake, t) == stake.active /\ t.createdAt >= stake.next

RewardAndUnstake(l, t) ==
    LET stakes == SelectSeq(l.acct[t.sender].stakes, LAMBDA s : Counted(s, t))
        earning == SelectSeq(stakes, LAMBDA s : s.voteCount > 0
                                            /\ (s.voteCount + 1) % RewardVoteCount = 0)
        last == SelectSeq(stakes, LAMBDA s : s.voteCount + 1 = UnstakeVoteCount)
    IN  IF t.down THEN [reward |-> 0, unstake |-> 0]
        ELSE [reward |-> SumOver(earning, LAMBDA s : Percent(RewardPercent(l.height), s.amount)),
              unstake |-> SumOver(last, LAMBDA s : s.amount)]

NoSponsors == [a \in {} |-> 0]

\* The shares of the sender's sponsors, nearest first; none when the airdrop
\* cannot pay all of them.
AirdropReward(l, t, amount) ==
    LET all == l.acct[t.sender].referrals
        sponsors == IF t.type = "STAKE" THEN SubSeq(all, 1, 1) ELSE all
        level(a) == CHOOSE i \in DOMAIN sponsors : sponsors[i] = a
        shares == [a \in ToSet(sponsors) |->
                     IF t.type = "STAKE" THEN Percent(StakePercent, amount)
                     ELSE Percent(ReferralPercent[level(a)], amount)]
    IN  IF \/ amount = 0
           \/ all = <<>>
           \/ l.acct[Airdrop].bal < FoldFunction(+, 0, shares)
        THEN NoSponsors
        ELSE shares

\* sign = 1 pays the sponsors of t out of the airdrop, sign = -1 takes it back.
Spread(l, t, sign) ==
    LET share(a) == IF a \in DOMAIN t.sponsors THEN t.sponsors[a] ELSE 0
        total == FoldFunction(+, 0, t.sponsors)
    IN  [l EXCEPT !.acct = [a \in Address |->
            [@[a] EXCEPT !.bal = @ + sign * (share(a) - IF a = Airdrop THEN total ELSE 0)]]]

-----------------------------------------------------------------------------
(***************************************************************************)
(* What a type does to the ledger when a transaction enters the            *)
(* unconfirmed state, and the undoing of it.                               *)
(***************************************************************************)
ApplySend(l, t) == Credit(Credit(l, t.sender, -t.amount), t.to, t.amount)
UndoSend(l, t) == Credit(Credit(l, t.sender, t.amount), t.to, -t.amount)

ApplySignature(l, t) == [l EXCEPT !.acct[t.sender].second = TRUE]
UndoSignature(l, t) == [l EXCEPT !.acct[t.sender].second = FALSE]

WithDelegate(account, name) ==
    [account EXCEPT !.delegate = name, !.unconfirmed = 0, !.confirmed = 0]

ApplyDelegate(l, t) ==
    [l EXCEPT !.acct[t.sender] = WithDelegate(@, t.name), !.names = @ \cup {t.name}]
UndoDelegate(l, t) ==
    [l EXCEPT !.acct[t.sender] = WithDelegate(@, NoName),
              !.names = @ \ {l.acct[t.sender].delegate}]

\* The account is replaced by a new one.
ApplyRegister(l, t) ==
    LET above == l.acct[t.referral].referrals
        upTo(n, s) == SubSeq(s, 1, IF Len(s) < n THEN Len(s) ELSE n)
    IN  [l EXCEPT !.acct[t.sender] =
            [EmptyAccount EXCEPT !.referrals = <<t.referral>> \o upTo(MaxReferrals - 1, above)]]
UndoRegister(l, t) == [l EXCEPT !.acct[t.sender].referrals = <<>>]

ApplyStake(l, t, id) ==
    LET stake == [src |-> id, amount |-> t.amount, active |-> TRUE, voteCount |-> 0,
                  next |-> t.createdAt, prev |-> <<>>]
    IN  Spread([Credit(l, t.sender, -t.amount)
                    EXCEPT !.acct[t.sender].stakes = Append(@, stake)], t, 1)
UndoStake(l, t, id) ==
    Spread([Credit(l, t.sender, t.amount)
                EXCEPT !.acct[t.sender].stakes = SelectSeq(@, LAMBDA s : s.src # id)], t, -1)

(***************************************************************************)
(* Votes.  The delegates of the votes are counted one after the other; an  *)
(* account that is no delegate throws, and the rest is skipped.            *)
(***************************************************************************)
Counts(l, voted) == l.acct[voted].delegate # NoName
Throws(l, t) == t.type = "VOTE" /\ \E i \in DOMAIN t.votes : ~Counts(l, t.votes[i])

\* How many are counted, and what they are counted as.
Reached(l, t) == Cardinality({i \in DOMAIN t.votes : \A j \in 1..i : Counts(l, t.votes[j])})
CountVotes(l, t, n) ==
    LET reached == Reached(l, t)
        votes(a) == Cardinality({i \in 1..reached : t.votes[i] = a})
    IN  [l EXCEPT !.acct = [a \in Address |-> [@[a] EXCEPT !.unconfirmed = @ + n * votes(a)]]]
CountConfirmed(l, t, n) ==
    LET reached == Reached(l, t)
        votes(a) == Cardinality({i \in 1..reached : t.votes[i] = a})
    IN  [l EXCEPT !.acct = [a \in Address |-> [@[a] EXCEPT !.confirmed = @ + n * votes(a)]]]

\* splice(indexOf(voted), 1): the last vote goes when voted is not among them.
Without(votes, voted) ==
    LET at == {i \in DOMAIN votes : votes[i] = voted} IN
    IF votes = <<>> THEN <<>>
    ELSE RemoveAt(votes, IF at = {} THEN Len(votes)
                         ELSE CHOOSE i \in at : \A j \in at : i <= j)
WithoutAll(l, t, n) ==
    [l EXCEPT !.acct[t.sender].votes = FoldLeft(Without, @, SubSeq(t.votes, 1, n))]

CastUp(l, t) ==
    LET m == CountVotes(l, t, 1) IN
    IF Throws(l, t) THEN m ELSE [m EXCEPT !.acct[t.sender].votes = @ \o t.votes]

CastDown(l, t) == WithoutAll(CountVotes(l, t, -1), t, Reached(l, t))

\* A vote is taken out before its delegate is looked up.
TakeBackUp(l, t) ==
    WithoutAll(CountVotes(l, t, -1), t, Reached(l, t) + IF Throws(l, t) THEN 1 ELSE 0)

TakeBackDown(l, t) == CountVotes([l EXCEPT !.acct[t.sender].votes = @ \o t.votes], t, 1)

Never == 1000000        \* undefined: later than every time of an instance

CountVote(stake, t) ==
    IF ~Counted(stake, t) THEN stake
    ELSE [stake EXCEPT !.voteCount = @ + 1, !.prev = Append(@, stake.next),
                       !.next = t.createdAt + VoteMilestone,
                       !.active = stake.voteCount + 1 # UnstakeVoteCount]

UncountVote(stake, t) ==
    IF stake.next # t.createdAt + VoteMilestone THEN stake
    ELSE [stake EXCEPT !.voteCount = @ - 1, !.active = TRUE,
                       !.next = IF stake.prev = <<>> THEN Never ELSE Last(stake.prev),
                       !.prev = IF stake.prev = <<>> THEN <<>> ELSE Front(stake.prev)]

\* Mutant: rewards are not taken from the total supply.
PayVote_FromNothing(l, t, sign) ==
    Spread(Credit(l, t.sender, sign * (t.reward + t.unstake)), t, sign)
PayVote(l, t, sign) ==
    Spread(Credit(Credit(l, t.sender, sign * (t.reward + t.unstake)), TotalSupply, -sign * t.reward),
           t, sign)

ApplyVote(l, t) ==
    LET m == IF t.down THEN CastDown(l, t) ELSE CastUp(l, t) IN
    IF Throws(l, t) \/ t.down THEN m
    ELSE PayVote([m EXCEPT !.acct[t.sender].stakes =
                     [i \in DOMAIN @ |-> CountVote(@[i], t)]], t, 1)

UndoVote(l, t) ==
    LET m == IF t.down THEN TakeBackDown(l, t) ELSE TakeBackUp(l, t) IN
    IF Throws(l, t) \/ t.down THEN m
    ELSE PayVote([m EXCEPT !.acct[t.sender].stakes =
                     [i \in DOMAIN @ |-> UncountVote(@[i], t)]], t, -1)

-----------------------------------------------------------------------------
(***************************************************************************)
(* The operations of the transaction service on a copy x of a transaction. *)
(***************************************************************************)
ApplyUnconfirmed(l, x) ==
    LET t == Trs[x.id]
        paid == Credit(l, t.sender, -x.fee)
    IN  CASE t.type = "REGISTER" -> ApplyRegister(paid, t)
          [] t.type = "SEND" -> ApplySend(paid, t)
          [] t.type = "SIGNATURE" -> ApplySignature(paid, t)
          [] t.type = "DELEGATE" -> ApplyDelegate(paid, t)
          [] t.type = "STAKE" -> ApplyStake(paid, t, x.id)
          [] t.type = "VOTE" -> ApplyVote(paid, t)

UndoUnconfirmed(l, x) ==
    LET t == Trs[x.id]
        back == Credit(l, t.sender, x.fee)
    IN  CASE t.type = "REGISTER" -> UndoRegister(back, t)
          [] t.type = "SEND" -> UndoSend(back, t)
          [] t.type = "SIGNATURE" -> UndoSignature(back, t)
          [] t.type = "DELEGATE" -> UndoDelegate(back, t)
          [] t.type = "STAKE" -> UndoStake(back, t, x.id)
          [] t.type = "VOTE" -> UndoVote(back, t)

\* The confirmed number of votes; a transaction is confirmed once.
Confirm(l, t, n) == IF t.type # "VOTE" THEN l ELSE CountConfirmed(l, t, n)

\* Mutant: the confirmed transactions are not remembered.
ApplyConfirmed_Forgets(l, x) == Confirm(l, Trs[x.id], 1)
ApplyConfirmed(l, x) ==
    IF x.id \in l.stored THEN l
    ELSE Confirm([l EXCEPT !.stored = @ \cup {x.id}], Trs[x.id],
                 IF Trs[x.id].down THEN -1 ELSE 1)

UndoConfirmed(l, x) ==
    IF x.id \notin l.stored THEN l
    ELSE Confirm([l EXCEPT !.stored = @ \ {x.id}], Trs[x.id],
                 IF Trs[x.id].down THEN 1 ELSE -1)

(***************************************************************************)
(* Verification.                                                           *)
(***************************************************************************)
VerifySend(l, x, t, sender) == x.fee + t.amount < sender.bal

VerifyRegister(sender) ==
    sender = [EmptyAccount EXCEPT !.unconfirmed = sender.unconfirmed,
                                  !.confirmed = sender.confirmed]

VerifyDelegate(l, t, sender) == sender.delegate = NoName /\ t.name \notin l.names

VerifyStake(l, t) ==
    /\ t.sponsors = AirdropReward(l, t, t.amount)
    /\ t.amount >= MoneyFactor /\ t.amount % MoneyFactor = 0

VerifyVote(l, t, sender) ==
    LET totals == RewardAndUnstake(l, t)
        cast == ToSet(sender.votes)
    IN  /\ ActiveStakes(sender) # <<>>
        /\ [reward |-> t.reward, unstake |-> t.unstake] = totals
        /\ t.sponsors = AirdropReward(l, t, totals.reward)
        /\ \A i \in DOMAIN t.votes :
               /\ (t.votes[i] \in cast) = t.down
               /\ l.acct[t.votes[i]].delegate # NoName
        /\ t.down \/ Len(sender.votes) + Len(t.votes) <= MaxVotes

CheckBalance(sender, amount) == sender.bal >= amount

\* verifySignature and, for an account with a second key, verifySecondSignature.
Signed(sender, t) == sender.second => t.second

VerifyUnconfirmed(l, x, skipSignature) ==
    LET t == Trs[x.id]
        sender == l.acct[t.sender]
    IN  /\ t.sender \notin Blacklist
        /\ x.id \notin l.stored
        /\ skipSignature \/ Signed(sender, t)
        /\ CheckBalance(sender, t.amount + x.fee)
        /\ CASE t.type = "REGISTER" -> VerifyRegister(sender)
             [] t.type = "SEND" -> VerifySend(l, x, t, sender)
             [] t.type = "SIGNATURE" -> ~sender.second
             [] t.type = "DELEGATE" -> VerifyDelegate(l, t, sender)
             [] t.type = "STAKE" -> VerifyStake(l, t)
             [] t.type = "VOTE" -> VerifyVote(l, t, sender)
=============================================================================
