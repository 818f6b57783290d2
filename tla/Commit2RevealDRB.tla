-------------------------- MODULE Commit2RevealDRB --------------------------
(***************************************************************************)
(* The contract's operators, deposits and payments.  Every external call   *)
(* is one action, but for the loops of requestRandomNumber and             *)
(* generateRandomNumber, whose iterations are steps of their own: `call`   *)
(* is the loop that is running, and nonReentrant keeps other calls out.    *)
(* A call that reverts changes nothing: its requires are guards.           *)
(* Roots, secrets and signatures are the business of module Chain.         *)
(***************************************************************************)
EXTENDS Integers, Sequences, FiniteSets, Functions, FiniteSetsExt

CONSTANTS
    Accounts,      \* those who may become operators
    Threshold,     \* s_activationThreshold
    MaxActivated,  \* s_maxActivatedOperators
    Price,         \* what a request must at least be paid
    Amounts,       \* bound: the values calls may carry
    MaxBalance,    \* bound: what the contract may be paid before it stops
    MaxRounds,     \* bound: how many rounds are requested
    MaxGenerated   \* bound: how often a round's random number is generated

\* An address has twenty bytes.
ASSUME AccountsAssumption == IsFiniteSet(Accounts)

ASSUME AmountsAssumption == Amounts \subseteq Nat

ASSUME LimitsAssumption ==
    {Threshold, MaxActivated, Price, MaxBalance, MaxRounds, MaxGenerated} \subseteq Nat

VARIABLES
    s_depositAmount,
    s_activatedOperators,       \* without the address(0) at index 0
    s_activatedOperatorOrder,
    s_forceDeactivated,
    rounds,    \* s_requestInfo, s_activatedOperatorsAtRound and s_roundInfo
    balance,   \* what the contract holds
    call       \* the loop in progress

registry == <<s_activatedOperators, s_activatedOperatorOrder>>
vars == <<s_depositAmount, registry, s_forceDeactivated, rounds, balance, call>>

NoCall == [loop |-> "none", round |-> 0, next |-> 0]

Round == [cost : Nat, operators : Seq(Accounts), root : BOOLEAN,
          generated : 0..MaxGenerated]

TypeOK ==
    /\ s_depositAmount \in [Accounts -> Nat]
    /\ s_activatedOperators \in Seq(Accounts)
    /\ Len(s_activatedOperators) <= MaxActivated
    /\ s_activatedOperatorOrder \in [Accounts -> Nat]
    /\ s_forceDeactivated \in [Accounts -> BOOLEAN]
    /\ rounds \in Seq(Round)
    /\ balance \in Nat
    /\ call \in [loop : {"none", "charge", "pay"}, round : Nat, next : Nat]
    /\ call # NoCall => /\ call.loop # "none"
                        /\ call.round \in DOMAIN rounds
                        /\ call.next \in DOMAIN rounds[call.round].operators

Init ==
    /\ s_depositAmount = [a \in Accounts |-> 0]
    /\ s_activatedOperators = <<>>
    /\ s_activatedOperatorOrder = [a \in Accounts |-> 0]
    /\ s_forceDeactivated = [a \in Accounts |-> FALSE]
    /\ rounds = <<>>
    /\ balance = 0
    /\ call = NoCall

-----------------------------------------------------------------------------
\* Faulty variant: the address(0) at index 0 is not counted.
ActivateOneMore(operator) ==
    LET length == Len(s_activatedOperators)
    IN  /\ s_activatedOperatorOrder[operator] = 0
        /\ length <= MaxActivated
        /\ s_activatedOperatorOrder' =
               [s_activatedOperatorOrder EXCEPT ![operator] = length + 1]
        /\ s_activatedOperators' = Append(s_activatedOperators, operator)

\* _activate: the array's length counts address(0).
_activate(operator) ==
    LET length == Len(s_activatedOperators) + 1
    IN  /\ s_activatedOperatorOrder[operator] = 0
        /\ length <= MaxActivated
        /\ s_activatedOperatorOrder' =
               [s_activatedOperatorOrder EXCEPT ![operator] = length]
        /\ s_activatedOperators' = Append(s_activatedOperators, operator)

\* Faulty variant: the order of the leaving operator is deleted first.
DeactivateDeleteFirst(index, operator) ==
    LET length == Len(s_activatedOperators)
        lastOperator == s_activatedOperators[length]
    IN  /\ s_activatedOperators' =
               [i \in 1..(length - 1) |->
                   IF i = index THEN lastOperator ELSE s_activatedOperators[i]]
        /\ s_activatedOperatorOrder' =
               [s_activatedOperatorOrder EXCEPT ![operator] = 0, ![lastOperator] = index]

\* _deactivate: the last operator takes the place of the one that leaves, which
\* may be itself.
_deactivate(index, operator) ==
    LET length == Len(s_activatedOperators)
        lastOperator == s_activatedOperators[length]
    IN  /\ s_activatedOperators' =
               [i \in 1..(length - 1) |->
                   IF i = index THEN lastOperator ELSE s_activatedOperators[i]]
        /\ s_activatedOperatorOrder' =
               [s_activatedOperatorOrder EXCEPT ![lastOperator] = index, ![operator] = 0]

Paid(v) == balance' = balance + v

Deposit(a, v) ==
    /\ call = NoCall
    /\ balance + v <= MaxBalance
    /\ Paid(v)
    /\ s_depositAmount' = [s_depositAmount EXCEPT ![a] = @ + v]
    /\ UNCHANGED <<registry, s_forceDeactivated, rounds, call>>

Activate(a) ==
    /\ call = NoCall
    /\ s_depositAmount[a] >= Threshold
    /\ _activate(a)
    /\ s_forceDeactivated' = [s_forceDeactivated EXCEPT ![a] = FALSE]
    /\ UNCHANGED <<s_depositAmount, rounds, balance, call>>

\* Unlike activate it leaves s_forceDeactivated as it is.
DepositAndActivate(a, v) ==
    /\ call = NoCall
    /\ balance + v <= MaxBalance
    /\ Paid(v)
    /\ s_depositAmount' = [s_depositAmount EXCEPT ![a] = @ + v]
    /\ s_depositAmount[a] + v >= Threshold
    /\ _activate(a)
    /\ UNCHANGED <<s_forceDeactivated, rounds, call>>

Deactivate(a) ==
    /\ call = NoCall
    /\ s_activatedOperatorOrder[a] # 0
    /\ ~s_forceDeactivated[a]
    /\ s_forceDeactivated' = [s_forceDeactivated EXCEPT ![a] = TRUE]
    /\ _deactivate(s_activatedOperatorOrder[a], a)
    /\ UNCHANGED <<s_depositAmount, rounds, balance, call>>

\* A deposit that has become too small costs the operator its place.
DropIf(drop, a) ==
    IF drop THEN _deactivate(s_activatedOperatorOrder[a], a) ELSE UNCHANGED registry

Withdraw(a, v) ==
    /\ call = NoCall
    /\ s_depositAmount[a] >= v
    /\ s_depositAmount' = [s_depositAmount EXCEPT ![a] = @ - v]
    /\ DropIf(s_activatedOperatorOrder[a] # 0 /\ s_depositAmount[a] - v < Threshold, a)
    /\ balance >= v
    /\ balance' = balance - v
    /\ UNCHANGED <<s_forceDeactivated, rounds, call>>

-----------------------------------------------------------------------------
\* The loop goes on with the round's next operator, or the call returns.
Enter(loop, r) == call' = [loop |-> loop, round |-> r, next |-> 1]
Advance ==
    call' = IF call.next < Len(rounds[call.round].operators)
            THEN [call EXCEPT !.next = @ + 1] ELSE NoCall

Current  == rounds[call.round]
Operator == Current.operators[call.next]

\* Every operator must be able to pay, or the subtraction reverts.
RequestRandomNumber(v) ==
    /\ call = NoCall
    /\ Len(rounds) < MaxRounds /\ balance + v <= MaxBalance
    /\ Len(s_activatedOperators) >= 2
    /\ v >= Price
    /\ \A a \in Range(s_activatedOperators) : s_depositAmount[a] >= v
    /\ rounds' = Append(rounds, [cost |-> v, operators |-> s_activatedOperators,
                                 root |-> FALSE, generated |-> 0])
    /\ Paid(v)
    /\ Enter("charge", Len(rounds) + 1)
    /\ UNCHANGED <<s_depositAmount, registry, s_forceDeactivated>>

\* Faulty variant: the deposit is checked before it is charged.
ChargeAfterCheck ==
    /\ call.loop = "charge"
    /\ s_depositAmount' = [s_depositAmount EXCEPT ![Operator] = @ - Current.cost]
    /\ DropIf(s_depositAmount[Operator] < Threshold, Operator)
    /\ Advance
    /\ UNCHANGED <<s_forceDeactivated, rounds, balance>>

\* Nobody asks whether the operator still has a place.
ChargeOperator ==
    /\ call.loop = "charge"
    /\ s_depositAmount' = [s_depositAmount EXCEPT ![Operator] = @ - Current.cost]
    /\ DropIf(s_depositAmount[Operator] - Current.cost < Threshold, Operator)
    /\ Advance
    /\ UNCHANGED <<s_forceDeactivated, rounds, balance>>

\* Only an operator of the round may submit its root.
SubmitMerkleRoot(a, r) ==
    /\ call = NoCall
    /\ a \in Range(rounds[r].operators)
    /\ rounds' = [rounds EXCEPT ![r].root = TRUE]
    /\ UNCHANGED <<s_depositAmount, registry, s_forceDeactivated, balance, call>>

\* Faulty variant: address(0) shares the reward.
RewardOfAll(round) == round.cost + round.cost \div (Len(round.operators) - 1)

CostWithReward(round) == round.cost + round.cost \div Len(round.operators)

Reactivated(round, a) ==
    /\ s_activatedOperatorOrder[a] = 0
    /\ s_depositAmount[a] + CostWithReward(round) >= Threshold
    /\ ~s_forceDeactivated[a]

\* Every operator the payments bring back must find a place, or _activate
\* reverts the whole call.
PlacesFor(round) ==
    Len(s_activatedOperators)
        + Cardinality({a \in Range(round.operators) : Reactivated(round, a)})
    <= MaxActivated

GenerateRandomNumber(r) ==
    /\ call = NoCall
    /\ rounds[r].root /\ rounds[r].generated < MaxGenerated
    /\ PlacesFor(rounds[r])
    /\ rounds' = [rounds EXCEPT ![r].generated = @ + 1]
    /\ Enter("pay", r)
    /\ UNCHANGED <<s_depositAmount, registry, s_forceDeactivated, balance>>

PayOperator ==
    /\ call.loop = "pay"
    /\ s_depositAmount' =
           [s_depositAmount EXCEPT ![Operator] = @ + CostWithReward(Current)]
    /\ IF Reactivated(Current, Operator) THEN _activate(Operator)
                                         ELSE UNCHANGED registry
    /\ Advance
    /\ UNCHANGED <<s_forceDeactivated, rounds, balance>>

-----------------------------------------------------------------------------
OperatorCall(a) ==
    \/ Activate(a) \/ Deactivate(a)
    \/ \E v \in Amounts : Deposit(a, v) \/ DepositAndActivate(a, v) \/ Withdraw(a, v)

Next ==
    \/ \E a \in Accounts : OperatorCall(a)
    \/ \E v \in Amounts : RequestRandomNumber(v)
    \/ ChargeOperator
    \/ \E r \in DOMAIN rounds : \/ \E a \in Accounts : SubmitMerkleRoot(a, r)
                                \/ GenerateRandomNumber(r)
    \/ PayOperator

Spec == Init /\ [][Next]_vars

-----------------------------------------------------------------------------
\* Array and index agree: every operator in s_activatedOperators has its position
\* in s_activatedOperatorOrder, nobody else has one.  So nobody is listed twice,
\* charged twice or paid twice, however operators come, go, are dropped in the
\* middle of the charging loop and come back in the paying loop.
RegistryConsistent ==
    /\ \A i \in DOMAIN s_activatedOperators :
           s_activatedOperatorOrder[s_activatedOperators[i]] = i
    /\ \A a \in Accounts : s_activatedOperatorOrder[a] # 0 =>
           /\ s_activatedOperatorOrder[a] \in DOMAIN s_activatedOperators
           /\ s_activatedOperators[s_activatedOperatorOrder[a]] = a

\* An operator is activated only while its deposit is at least the threshold,
\* although deposits shrink by withdrawals and by other people's requests.
StakeCoversActivation ==
    \A a \in Accounts :
        s_activatedOperatorOrder[a] # 0 => s_depositAmount[a] >= Threshold

\* What the contract still has to pay for a round, rewards included, and what a
\* repeated generateRandomNumber has paid again.
Owed(round)  == IF round.generated = 0
                THEN Len(round.operators) * CostWithReward(round) ELSE 0
Again(round) == IF round.generated > 1
                THEN (round.generated - 1) * Len(round.operators) * CostWithReward(round)
                ELSE 0

Total(f) == MapThenSumSet(LAMBDA x : f[x], DOMAIN f)

\* Between calls the contract holds what it owes: all deposits and, for every
\* round still open, the charges and the reward - but for what it has paid again
\* for rounds whose random number was generated more than once.
DepositsBacked ==
    call = NoCall =>
        Total(s_depositAmount) + Total([r \in DOMAIN rounds |-> Owed(rounds[r])])
            <= balance + Total([r \in DOMAIN rounds |-> Again(rounds[r])])

=============================================================================
