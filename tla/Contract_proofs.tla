--------------------------- MODULE Contract_proofs ---------------------------
(***************************************************************************)
(* The contract's registry of operators stays consistent, no charge is     *)
(* larger than the deposit it is taken from, and between calls the balance *)
(* covers what the contract owes, for any number of accounts, rounds and   *)
(* calls.                                                                  *)
(***************************************************************************)
EXTENDS Commit2RevealDRB, TLAPS, SequenceTheorems, FiniteSetTheorems,
        WellFoundedInduction

RegistryTyped ==
    /\ s_activatedOperators \in Seq(Accounts)
    /\ Len(s_activatedOperators) <= MaxActivated
    /\ s_activatedOperatorOrder \in [Accounts -> Nat]

RegistryOK == RegistryTyped /\ RegistryConsistent

Activated(a) == s_activatedOperatorOrder[a] # 0

\* The operators of a round are at least two and all different.
RoundsOK ==
    \A r \in DOMAIN rounds :
        /\ Len(rounds[r].operators) >= 2
        /\ \A i, j \in DOMAIN rounds[r].operators :
              rounds[r].operators[i] = rounds[r].operators[j] => i = j

\* The operators the charging loop has not come to can still pay and still have
\* their places.
CanBeCharged(a) ==
    Activated(a) /\ s_depositAmount[a] >= Current.cost
ChargesCovered ==
    call.loop = "charge" =>
        \A i \in DOMAIN Current.operators :
            i >= call.next => CanBeCharged(Current.operators[i])

\* TypeOK is not inductive: that a deposit stays a natural number in the charging
\* loop rests on the check made when the request came in, and on the round's
\* operators being different, which rests on the registry.
Inv == TypeOK /\ RegistryConsistent /\ StakeCoversActivation /\ RoundsOK /\ ChargesCovered

-----------------------------------------------------------------------------
LEMMA ActivateRegistry ==
    ASSUME RegistryOK, NEW op \in Accounts, _activate(op)
    PROVE  /\ RegistryOK'
           /\ \A a \in Accounts : Activated(a)' => Activated(a) \/ a = op
  <1> DEFINE ops == s_activatedOperators
             order == s_activatedOperatorOrder
             n == Len(s_activatedOperators)
  <1>1. /\ n \in Nat /\ DOMAIN ops = 1..n
        /\ \A i \in 1..n : ops[i] \in Accounts
    BY LenProperties, ElementOfSeq DEF RegistryOK, RegistryTyped
  <1>2. /\ order[op] = 0 /\ n + 1 <= MaxActivated
        /\ order' = [order EXCEPT ![op] = n + 1]
        /\ ops' = Append(ops, op)
    BY DEF _activate
  <1>3. /\ ops' \in Seq(Accounts) /\ Len(ops') = n + 1
        /\ \A i \in 1..n : ops'[i] = ops[i]
        /\ ops'[n + 1] = op
    BY <1>1, <1>2, AppendProperties DEF RegistryOK, RegistryTyped
  <1>4. order' \in [Accounts -> Nat]
    BY <1>1, <1>2 DEF RegistryOK, RegistryTyped
  <1>5. \A a \in Accounts : order'[a] = IF a = op THEN n + 1 ELSE order[a]
    BY <1>2 DEF RegistryOK, RegistryTyped
  <1>6. DOMAIN ops' = 1..(n + 1)
    BY <1>3, LenProperties
  <1>7. \A i \in 1..n : ops[i] # op /\ order[ops[i]] = i
    BY <1>1, <1>2 DEF RegistryOK, RegistryConsistent
  <1>8. \A i \in DOMAIN ops' : order'[ops'[i]] = i
    BY <1>1, <1>3, <1>5, <1>6, <1>7
  <1>9. ASSUME NEW a \in Accounts, order'[a] # 0
        PROVE  order'[a] \in DOMAIN ops' /\ ops'[order'[a]] = a
    <2>1. CASE a = op
      BY <2>1, <1>1, <1>3, <1>5, <1>6
    <2>2. CASE a # op
      <3>1. order[a] \in 1..n /\ ops[order[a]] = a /\ order'[a] = order[a]
        BY <2>2, <1>1, <1>5, <1>9 DEF RegistryOK, RegistryConsistent
      <3> QED BY <3>1, <1>1, <1>3, <1>6
    <2> QED BY <2>1, <2>2
  <1> QED BY <1>2, <1>3, <1>4, <1>5, <1>8, <1>9
         DEF RegistryOK, RegistryTyped, RegistryConsistent, Activated

\* The last operator moves to the place of the one that leaves.
LEMMA DeactivateRegistry ==
    ASSUME RegistryOK, NEW op \in Accounts, Activated(op),
           _deactivate(s_activatedOperatorOrder[op], op)
    PROVE  /\ RegistryOK'
           /\ \A a \in Accounts : Activated(a)' <=> Activated(a) /\ a # op
  <1> DEFINE ops == s_activatedOperators
             order == s_activatedOperatorOrder
             n == Len(s_activatedOperators)
             k == s_activatedOperatorOrder[op]
             last == s_activatedOperators[Len(s_activatedOperators)]
  <1>1. /\ n \in Nat /\ DOMAIN ops = 1..n
        /\ \A i \in 1..n : ops[i] \in Accounts
    BY LenProperties, ElementOfSeq DEF RegistryOK, RegistryTyped
  <1>2. /\ \A i \in 1..n : order[ops[i]] = i
        /\ \A a \in Accounts : order[a] # 0 => order[a] \in 1..n /\ ops[order[a]] = a
    BY <1>1 DEF RegistryOK, RegistryConsistent
  <1>3. k \in 1..n /\ ops[k] = op /\ n \in 1..n /\ last \in Accounts /\ order[last] = n
    BY <1>1, <1>2 DEF Activated
  <1>4. /\ ops' = [i \in 1..(n - 1) |-> IF i = k THEN last ELSE ops[i]]
        /\ order' = [order EXCEPT ![last] = k, ![op] = 0]
    BY DEF _deactivate
  <1>5. order' \in [Accounts -> Nat]
        /\ \A a \in Accounts : order'[a] = IF a = op THEN 0
                                           ELSE IF a = last THEN k ELSE order[a]
    BY <1>3, <1>4 DEF RegistryOK, RegistryTyped
  <1>6. /\ n - 1 \in Nat
        /\ ops' \in [1..(n - 1) -> Accounts]
        /\ \A i \in 1..(n - 1) : ops'[i] = IF i = k THEN last ELSE ops[i]
    BY <1>1, <1>3, <1>4
  <1>7. ops' \in Seq(Accounts) /\ Len(ops') = n - 1 /\ DOMAIN ops' = 1..(n - 1)
    <2>1. ops' \in Seq(Accounts)
      BY <1>6, SeqDef
    <2>2. DOMAIN ops' = 1..(n - 1)
      BY <1>6
    <2> QED BY <2>1, <2>2, <1>6, LenProperties
  <1>8. ASSUME NEW i \in 1..(n - 1)
        PROVE  order'[ops'[i]] = i
    <2>1. i \in 1..n /\ ops[i] \in Accounts /\ order[ops[i]] = i /\ i # n
      BY <1>1, <1>2, <1>8
    <2>2. CASE i = k
      <3>1. last # op
        BY <2>1, <2>2, <1>3
      <3> QED BY <2>1, <2>2, <3>1, <1>3, <1>5, <1>6
    <2>3. CASE i # k
      <3>1. ops[i] # op /\ ops[i] # last
        BY <2>1, <2>3, <1>3
      <3> QED BY <2>1, <2>3, <3>1, <1>5, <1>6
    <2> QED BY <2>2, <2>3
  <1>9. ASSUME NEW a \in Accounts, order'[a] # 0
        PROVE  order'[a] \in 1..(n - 1) /\ ops'[order'[a]] = a /\ order[a] # 0 /\ a # op
    <2>1. a # op
      BY <1>5, <1>9
    <2>2. CASE a = last
      <3>1. order'[a] = k /\ k # n
        BY <2>1, <2>2, <1>3, <1>5
      <3> QED BY <2>1, <2>2, <3>1, <1>1, <1>3, <1>6
    <2>3. CASE a # last
      <3>1. order'[a] = order[a] /\ order[a] \in 1..n /\ ops[order[a]] = a
        BY <2>1, <2>3, <1>2, <1>5, <1>9
      <3>2. order[a] # n /\ order[a] # k
        BY <3>1, <2>1, <2>3, <1>3
      <3> QED BY <3>1, <3>2, <2>1, <1>1, <1>6, <1>9
    <2> QED BY <2>2, <2>3
  <1>10. Len(ops') <= MaxActivated
    BY <1>1, <1>7, LimitsAssumption DEF RegistryOK, RegistryTyped
  <1>11. \A a \in Accounts : order[a] # 0 /\ a # op => order'[a] # 0
    BY <1>3, <1>5
  <1> QED BY <1>5, <1>7, <1>8, <1>9, <1>10, <1>11
         DEF RegistryOK, RegistryTyped, RegistryConsistent, Activated

-----------------------------------------------------------------------------
LEMMA InitInv == Init => Inv
  <1> SUFFICES ASSUME Init PROVE Inv
    OBVIOUS
  <1>1. /\ s_activatedOperators \in Seq(Accounts) /\ rounds \in Seq(Round)
        /\ Len(s_activatedOperators) = 0
        /\ DOMAIN s_activatedOperators = {} /\ DOMAIN rounds = {}
    BY EmptySeq DEF Init
  <1>2. TypeOK
    BY <1>1, LimitsAssumption DEF Init, TypeOK, NoCall
  <1> QED BY <1>1, <1>2
         DEF Init, Inv, RegistryConsistent, StakeCoversActivation, RoundsOK,
             ChargesCovered, NoCall

\* What an action that leaves rounds and call alone owes the invariant.
LEMMA OutsideCalls ==
    ASSUME Inv, call = NoCall, UNCHANGED <<rounds, call>>,
           s_depositAmount' \in [Accounts -> Nat], balance' \in Nat,
           s_forceDeactivated' \in [Accounts -> BOOLEAN],
           RegistryOK', StakeCoversActivation'
    PROVE  Inv'
  BY DEF Inv, TypeOK, RegistryOK, RegistryTyped, RoundsOK, ChargesCovered, NoCall

LEMMA RegistryFromInv == Inv => RegistryOK
  BY DEF Inv, TypeOK, RegistryOK, RegistryTyped

LEMMA DepositInv ==
    ASSUME Inv, NEW a \in Accounts, NEW v \in Amounts, Deposit(a, v)
    PROVE  Inv'
  <1>1. /\ v \in Nat /\ balance \in Nat /\ s_depositAmount \in [Accounts -> Nat]
        /\ s_forceDeactivated \in [Accounts -> BOOLEAN]
    BY AmountsAssumption DEF Inv, TypeOK
  <1>2. /\ s_depositAmount' = [s_depositAmount EXCEPT ![a] = @ + v]
        /\ balance' = balance + v
        /\ call = NoCall
        /\ UNCHANGED <<registry, s_forceDeactivated, rounds, call>>
    BY DEF Deposit, Paid
  <1>3. /\ s_depositAmount' \in [Accounts -> Nat]
        /\ \A b \in Accounts : s_depositAmount'[b] >= s_depositAmount[b]
    BY <1>1, <1>2
  <1>4. RegistryOK'
    BY <1>2, RegistryFromInv DEF registry, RegistryOK, RegistryTyped, RegistryConsistent
  <1>5. StakeCoversActivation'
    BY <1>1, <1>2, <1>3, LimitsAssumption DEF Inv, StakeCoversActivation, registry
  <1> QED BY <1>1, <1>2, <1>3, <1>4, <1>5, OutsideCalls

LEMMA ActivateInv ==
    ASSUME Inv, NEW a \in Accounts, Activate(a)
    PROVE  Inv'
  <1>1. RegistryOK' /\ \A b \in Accounts : Activated(b)' => Activated(b) \/ b = a
    BY RegistryFromInv, ActivateRegistry DEF Activate
  <1>2. StakeCoversActivation'
    BY <1>1 DEF Inv, StakeCoversActivation, Activate, Activated
  <1> QED BY <1>1, <1>2, OutsideCalls DEF Activate, Inv, TypeOK

LEMMA DepositAndActivateInv ==
    ASSUME Inv, NEW a \in Accounts, NEW v \in Amounts, DepositAndActivate(a, v)
    PROVE  Inv'
  <1>1. /\ v \in Nat /\ balance \in Nat /\ s_depositAmount \in [Accounts -> Nat]
        /\ s_forceDeactivated \in [Accounts -> BOOLEAN]
    BY AmountsAssumption DEF Inv, TypeOK
  <1>2. /\ s_depositAmount' = [s_depositAmount EXCEPT ![a] = @ + v]
        /\ s_depositAmount[a] + v >= Threshold
        /\ balance' = balance + v
        /\ call = NoCall
        /\ UNCHANGED <<s_forceDeactivated, rounds, call>>
    BY DEF DepositAndActivate, Paid
  <1>3. RegistryOK' /\ \A b \in Accounts : Activated(b)' => Activated(b) \/ b = a
    BY RegistryFromInv, ActivateRegistry DEF DepositAndActivate
  <1>4. /\ s_depositAmount' \in [Accounts -> Nat]
        /\ s_depositAmount'[a] >= Threshold
        /\ \A b \in Accounts : b # a => s_depositAmount'[b] = s_depositAmount[b]
    BY <1>1, <1>2
  <1>5. StakeCoversActivation'
    BY <1>3, <1>4 DEF Inv, StakeCoversActivation, Activated
  <1> QED BY <1>1, <1>2, <1>3, <1>4, <1>5, OutsideCalls

LEMMA DeactivateInv ==
    ASSUME Inv, NEW a \in Accounts, Deactivate(a)
    PROVE  Inv'
  <1>1. RegistryOK' /\ \A b \in Accounts : Activated(b)' <=> Activated(b) /\ b # a
    BY RegistryFromInv, DeactivateRegistry DEF Deactivate, Activated
  <1>2. StakeCoversActivation'
    BY <1>1 DEF Inv, StakeCoversActivation, Deactivate, Activated
  <1> QED BY <1>1, <1>2, OutsideCalls DEF Deactivate, Inv, TypeOK

\* Taking v from a's deposit and dropping a when too little is left.
LEMMA DropKeepsStake ==
    ASSUME Inv, NEW a \in Accounts, NEW v \in Nat, s_depositAmount[a] >= v,
           s_depositAmount' = [s_depositAmount EXCEPT ![a] = @ - v],
           DropIf(Activated(a) /\ s_depositAmount[a] - v < Threshold, a)
    PROVE  /\ s_depositAmount' \in [Accounts -> Nat]
           /\ \A b \in Accounts : b # a => s_depositAmount'[b] = s_depositAmount[b]
           /\ RegistryOK'
           /\ StakeCoversActivation'
           /\ \A b \in Accounts : Activated(b) /\ b # a => Activated(b)'
  <1>1. s_depositAmount \in [Accounts -> Nat] /\ Threshold \in Nat
    BY LimitsAssumption DEF Inv, TypeOK
  <1>2. /\ s_depositAmount' \in [Accounts -> Nat]
        /\ s_depositAmount'[a] = s_depositAmount[a] - v
        /\ \A b \in Accounts : b # a => s_depositAmount'[b] = s_depositAmount[b]
    BY <1>1
  <1>3. CASE Activated(a) /\ s_depositAmount[a] - v < Threshold
    <2>1. RegistryOK' /\ \A b \in Accounts : Activated(b)' <=> Activated(b) /\ b # a
      BY <1>3, RegistryFromInv, DeactivateRegistry DEF DropIf, Activated
    <2> QED BY <2>1, <1>2 DEF Inv, StakeCoversActivation, Activated
  <1>4. CASE ~(Activated(a) /\ s_depositAmount[a] - v < Threshold)
    <2>1. UNCHANGED registry
      BY <1>4 DEF DropIf
    <2>2. RegistryOK'
      BY <2>1, RegistryFromInv DEF registry, RegistryOK, RegistryTyped, RegistryConsistent
    <2>3. ASSUME NEW b \in Accounts, s_activatedOperatorOrder'[b] # 0
          PROVE  s_depositAmount'[b] >= Threshold
      <3>1. CASE b = a
        BY <3>1, <2>1, <2>3, <1>1, <1>2, <1>4 DEF registry, Activated
      <3>2. CASE b # a
        BY <3>2, <2>1, <2>3, <1>2 DEF registry, Inv, StakeCoversActivation
      <3> QED BY <3>1, <3>2
    <2> QED BY <2>1, <2>2, <2>3, <1>2 DEF StakeCoversActivation, registry, Activated
  <1> QED BY <1>3, <1>4

LEMMA WithdrawInv ==
    ASSUME Inv, NEW a \in Accounts, NEW v \in Amounts, Withdraw(a, v)
    PROVE  Inv'
  <1>1. v \in Nat /\ balance \in Nat /\ s_forceDeactivated \in [Accounts -> BOOLEAN]
    BY AmountsAssumption DEF Inv, TypeOK
  <1>2. /\ s_depositAmount' \in [Accounts -> Nat]
        /\ RegistryOK'
        /\ StakeCoversActivation'
    BY <1>1, DropKeepsStake DEF Withdraw, Activated
  <1>3. balance' \in Nat
    BY <1>1 DEF Withdraw
  <1> QED BY <1>1, <1>2, <1>3, OutsideCalls DEF Withdraw

-----------------------------------------------------------------------------
LEMMA RequestRandomNumberInv ==
    ASSUME Inv, NEW v \in Amounts, RequestRandomNumber(v)
    PROVE  Inv'
  <1> DEFINE ops == s_activatedOperators
             n == Len(rounds)
             new == [cost |-> v, operators |-> ops, root |-> FALSE, generated |-> 0]
  <1>1. /\ v \in Nat /\ balance \in Nat /\ rounds \in Seq(Round)
        /\ ops \in Seq(Accounts) /\ Len(ops) >= 2 /\ DOMAIN ops = 1..Len(ops)
        /\ n \in Nat /\ DOMAIN rounds = 1..n
    BY AmountsAssumption, LenProperties DEF Inv, TypeOK, RequestRandomNumber
  <1>2. /\ rounds' = Append(rounds, new)
        /\ balance' = balance + v
        /\ call' = [loop |-> "charge", round |-> n + 1, next |-> 1]
        /\ UNCHANGED <<s_depositAmount, s_activatedOperators, s_activatedOperatorOrder,
                       s_forceDeactivated>>
        /\ \A a \in Range(ops) : s_depositAmount[a] >= v
    BY DEF RequestRandomNumber, Paid, Enter, registry
  <1>3. new \in Round
    BY <1>1, LimitsAssumption DEF Round
  <1>4. /\ rounds' \in Seq(Round) /\ DOMAIN rounds' = 1..(n + 1)
        /\ \A r \in 1..n : rounds'[r] = rounds[r]
        /\ rounds'[n + 1] = new
    <2>1. rounds' \in Seq(Round) /\ Len(rounds') = n + 1
          /\ (\A r \in 1..n : rounds'[r] = rounds[r]) /\ rounds'[n + 1] = new
      BY <1>1, <1>2, <1>3, AppendProperties
    <2> QED BY <2>1, LenProperties
  <1>5. TypeOK'
    <2>1. call' # NoCall => /\ call'.loop # "none" /\ call'.round \in DOMAIN rounds'
                            /\ call'.next \in DOMAIN rounds'[call'.round].operators
      BY <1>1, <1>2, <1>4
    <2> QED BY <2>1, <1>1, <1>2, <1>4 DEF Inv, TypeOK, NoCall
  <1>6. RegistryConsistent' /\ StakeCoversActivation'
    BY <1>2 DEF Inv, RegistryConsistent, StakeCoversActivation
  <1>7. \A i, j \in DOMAIN ops : ops[i] = ops[j] => i = j
    BY DEF Inv, RegistryConsistent
  <1>8. RoundsOK'
    <2>1. ASSUME NEW r \in 1..(n + 1)
          PROVE  /\ Len(rounds'[r].operators) >= 2
                 /\ \A i, j \in DOMAIN rounds'[r].operators :
                       rounds'[r].operators[i] = rounds'[r].operators[j] => i = j
      <3>1. CASE r = n + 1
        BY <3>1, <1>1, <1>4, <1>7
      <3>2. CASE r # n + 1
        <4>1. r \in DOMAIN rounds /\ rounds'[r] = rounds[r]
          BY <3>2, <2>1, <1>1, <1>4
        <4> QED BY <4>1 DEF Inv, RoundsOK
      <3> QED BY <3>1, <3>2
    <2> QED BY <2>1, <1>4 DEF RoundsOK
  <1>9. ChargesCovered'
    <2>1. Current' = new
      BY <1>2, <1>4 DEF Current
    <2>2. \A i \in DOMAIN ops : s_depositAmount[ops[i]] >= v
      BY <1>2 DEF Range
    <2>3. \A i \in DOMAIN ops : Activated(ops[i])
      BY <1>1 DEF Inv, RegistryConsistent, Activated
    <2> QED BY <2>1, <2>2, <2>3, <1>2 DEF ChargesCovered, CanBeCharged, Activated
  <1> QED BY <1>5, <1>6, <1>8, <1>9 DEF Inv

\* What the running loop works on.
LEMMA LoopFacts ==
    ASSUME Inv, call # NoCall
    PROVE  /\ call.round \in DOMAIN rounds /\ call.next \in Nat
           /\ Current \in Round
           /\ Len(Current.operators) \in Nat
           /\ DOMAIN Current.operators = 1..Len(Current.operators)
           /\ call.next \in 1..Len(Current.operators)
           /\ Operator \in Accounts
  <1>1. /\ rounds \in Seq(Round) /\ call.round \in DOMAIN rounds /\ call.next \in Nat
        /\ call.next \in DOMAIN Current.operators
    BY DEF Inv, TypeOK, Current
  <1>2. Current \in Round
    BY <1>1, LenProperties, ElementOfSeq DEF Current
  <1>3. Current.operators \in Seq(Accounts)
    BY <1>2 DEF Round
  <1>4. /\ Len(Current.operators) \in Nat
        /\ DOMAIN Current.operators = 1..Len(Current.operators)
    BY <1>3, LenProperties
  <1> QED BY <1>1, <1>2, <1>3, <1>4, ElementOfSeq DEF Operator

\* The loop comes to the next operator or the call ends.
LEMMA AdvanceTyped ==
    ASSUME Inv, call # NoCall, Advance, UNCHANGED rounds
    PROVE  /\ call' \in [loop : {"none", "charge", "pay"}, round : Nat, next : Nat]
           /\ call' # NoCall => /\ call'.loop = call.loop
                                /\ call'.loop # "none"
                                /\ call'.round = call.round
                                /\ call'.round \in DOMAIN rounds'
                                /\ call'.next = call.next + 1
                                /\ call'.next \in DOMAIN rounds'[call'.round].operators
  <1>1. call \in [loop : {"none", "charge", "pay"}, round : Nat, next : Nat]
        /\ call.loop # "none"
    BY DEF Inv, TypeOK
  <1>2. CASE call.next < Len(Current.operators)
    <2>1. call' = [call EXCEPT !.next = @ + 1]
      BY <1>2 DEF Advance, Current
    <2>2. /\ call'.loop = call.loop /\ call'.round = call.round
          /\ call'.next = call.next + 1
          /\ call' \in [loop : {"none", "charge", "pay"}, round : Nat, next : Nat]
      BY <2>1, <1>1
    <2>3. call'.next \in DOMAIN Current.operators
      BY <2>2, <1>2, LoopFacts
    <2> QED BY <2>2, <2>3, <1>1, LoopFacts DEF Current
  <1>3. CASE ~(call.next < Len(Current.operators))
    BY <1>3 DEF Advance, Current, NoCall
  <1> QED BY <1>2, <1>3

LEMMA ChargeOperatorInv ==
    ASSUME Inv, ChargeOperator
    PROVE  Inv'
  <1>1. call # NoCall /\ call.loop = "charge" /\ Advance
        /\ UNCHANGED <<s_forceDeactivated, rounds, balance>>
    BY DEF ChargeOperator, NoCall
  <1>2. Current.cost \in Nat /\ Operator \in Accounts
    BY <1>1, LoopFacts DEF Round
  <1>3. CanBeCharged(Operator)
    BY <1>1, LoopFacts DEF Inv, ChargesCovered, Operator
  <1>4. /\ s_depositAmount' \in [Accounts -> Nat]
        /\ \A b \in Accounts : b # Operator => s_depositAmount'[b] = s_depositAmount[b]
        /\ RegistryOK'
        /\ StakeCoversActivation'
        /\ \A b \in Accounts : Activated(b) /\ b # Operator => Activated(b)'
    BY <1>2, <1>3, DropKeepsStake DEF ChargeOperator, CanBeCharged, DropIf
  <1>5. TypeOK'
    BY <1>1, <1>4, AdvanceTyped DEF Inv, TypeOK, RegistryOK, RegistryTyped
  <1>6. RoundsOK'
    BY <1>1 DEF Inv, RoundsOK
  <1>7. ChargesCovered'
    <2> SUFFICES ASSUME call'.loop = "charge",
                        NEW i \in DOMAIN Current'.operators, i >= call'.next
                 PROVE  CanBeCharged(Current.operators[i])'
      BY DEF ChargesCovered
    <2>1. call' # NoCall
      BY DEF NoCall
    <2>2. Current' = Current /\ call'.next = call.next + 1
      BY <2>1, <1>1, AdvanceTyped DEF Current
    <2>3. i \in DOMAIN Current.operators /\ i >= call.next /\ i # call.next
      BY <2>2, <1>1, LoopFacts
    <2>4. Current.operators[i] # Operator
      BY <2>3, <1>1, LoopFacts DEF Inv, RoundsOK, Current, Operator
    <2>5. CanBeCharged(Current.operators[i])
      BY <2>3, <1>1 DEF Inv, ChargesCovered
    <2>6. Current.operators[i] \in Accounts
      <3>1. Current.operators \in Seq(Accounts)
        BY <1>1, LoopFacts DEF Round
      <3> QED BY <3>1, <2>3, LenProperties, ElementOfSeq
    <2>7. /\ s_depositAmount'[Current.operators[i]] = s_depositAmount[Current.operators[i]]
          /\ Activated(Current.operators[i])'
      BY <2>2, <2>4, <2>5, <2>6, <1>4 DEF CanBeCharged, Activated
    <2> QED BY <2>2, <2>5, <2>7 DEF CanBeCharged
  <1> QED BY <1>4, <1>5, <1>6, <1>7 DEF Inv, RegistryOK

\* A round's record changes in nothing but root and generated.
LEMMA RoundUpdate ==
    ASSUME Inv, NEW r \in DOMAIN rounds, NEW x \in Round,
           x.operators = rounds[r].operators, rounds' = [rounds EXCEPT ![r] = x]
    PROVE  /\ rounds' \in Seq(Round) /\ DOMAIN rounds' = DOMAIN rounds
           /\ \A q \in DOMAIN rounds : rounds'[q].operators = rounds[q].operators
           /\ RoundsOK'
  <1>1. rounds \in Seq(Round) /\ DOMAIN rounds = 1..Len(rounds)
    BY LenProperties DEF Inv, TypeOK
  <1>2. /\ rounds' \in Seq(Round) /\ Len(rounds') = Len(rounds)
        /\ \A q \in DOMAIN rounds : rounds'[q] = IF q = r THEN x ELSE rounds[q]
    BY <1>1, ExceptSeq
  <1>3. DOMAIN rounds' = DOMAIN rounds
    BY <1>1, <1>2, LenProperties
  <1> QED BY <1>2, <1>3 DEF Inv, RoundsOK

LEMMA SubmitMerkleRootInv ==
    ASSUME Inv, NEW a \in Accounts, NEW r \in DOMAIN rounds, SubmitMerkleRoot(a, r)
    PROVE  Inv'
  <1> DEFINE x == [rounds[r] EXCEPT !.root = TRUE]
  <1>1. rounds[r] \in Round
    BY LenProperties, ElementOfSeq DEF Inv, TypeOK
  <1>2. x \in Round /\ x.operators = rounds[r].operators
    BY <1>1 DEF Round
  <1>3. /\ rounds' = [rounds EXCEPT ![r] = x] /\ call = NoCall
        /\ UNCHANGED <<s_depositAmount, s_activatedOperators, s_activatedOperatorOrder,
                       s_forceDeactivated, balance, call>>
    BY DEF SubmitMerkleRoot, registry
  <1>4. rounds' \in Seq(Round) /\ RoundsOK'
    BY <1>2, <1>3, RoundUpdate
  <1> QED BY <1>3, <1>4
         DEF Inv, TypeOK, RegistryConsistent, StakeCoversActivation, ChargesCovered, NoCall

LEMMA GenerateRandomNumberInv ==
    ASSUME Inv, NEW r \in DOMAIN rounds, GenerateRandomNumber(r)
    PROVE  Inv'
  <1> DEFINE x == [rounds[r] EXCEPT !.generated = rounds[r].generated + 1]
  <1>1. rounds[r] \in Round
    BY LenProperties, ElementOfSeq DEF Inv, TypeOK
  <1>2. x \in Round /\ x.operators = rounds[r].operators
    <2>1. rounds[r].generated \in 0..MaxGenerated /\ rounds[r].generated < MaxGenerated
      BY <1>1 DEF Round, GenerateRandomNumber
    <2>2. rounds[r].generated + 1 \in 0..MaxGenerated
      BY <2>1, LimitsAssumption
    <2> QED BY <2>2, <1>1 DEF Round
  <1>3. /\ rounds' = [rounds EXCEPT ![r] = x]
        /\ call' = [loop |-> "pay", round |-> r, next |-> 1]
        /\ UNCHANGED <<s_depositAmount, s_activatedOperators, s_activatedOperatorOrder,
                       s_forceDeactivated, balance>>
    BY DEF GenerateRandomNumber, registry, Enter
  <1>4. /\ rounds' \in Seq(Round) /\ RoundsOK' /\ DOMAIN rounds' = DOMAIN rounds
        /\ rounds'[r].operators = rounds[r].operators
    BY <1>2, <1>3, RoundUpdate
  <1>5. r \in Nat /\ 1 \in DOMAIN rounds[r].operators
    <2>1. r \in Nat
      BY LenProperties DEF Inv, TypeOK
    <2>2. rounds[r].operators \in Seq(Accounts) /\ Len(rounds[r].operators) >= 2
      BY <1>1 DEF Round, Inv, RoundsOK
    <2> QED BY <2>1, <2>2, LenProperties
  <1>6. TypeOK'
    BY <1>3, <1>4, <1>5 DEF Inv, TypeOK
  <1> QED BY <1>3, <1>4, <1>6
         DEF Inv, RegistryConsistent, StakeCoversActivation, ChargesCovered

LEMMA PayOperatorInv ==
    ASSUME Inv, PayOperator
    PROVE  Inv'
  <1> DEFINE v == CostWithReward(Current)
  <1>1. call # NoCall /\ call.loop = "pay" /\ Advance
        /\ UNCHANGED <<s_forceDeactivated, rounds, balance>>
    BY DEF PayOperator, NoCall
  <1>2. v \in Nat /\ Operator \in Accounts
    <2>1. Current.cost \in Nat /\ Len(Current.operators) \in Nat \ {0}
      BY <1>1, LoopFacts DEF Round
    <2>2. Current.cost \div Len(Current.operators) \in Nat
      BY <2>1
    <2> QED BY <2>1, <2>2, <1>1, LoopFacts DEF CostWithReward
  <1>3. s_depositAmount' = [s_depositAmount EXCEPT ![Operator] = @ + v]
    BY DEF PayOperator
  <1>4. s_depositAmount \in [Accounts -> Nat] /\ Threshold \in Nat
    BY LimitsAssumption DEF Inv, TypeOK
  <1>5. /\ s_depositAmount' \in [Accounts -> Nat]
        /\ s_depositAmount'[Operator] = s_depositAmount[Operator] + v
        /\ \A b \in Accounts : s_depositAmount'[b] >= s_depositAmount[b]
    BY <1>2, <1>3, <1>4
  <1>6. RegistryOK' /\ StakeCoversActivation'
    <2>1. CASE Reactivated(Current, Operator)
      <3>1. RegistryOK' /\ \A b \in Accounts : Activated(b)' => Activated(b) \/ b = Operator
        BY <2>1, <1>2, RegistryFromInv, ActivateRegistry DEF PayOperator
      <3>2. s_depositAmount'[Operator] >= Threshold
        BY <2>1, <1>5 DEF Reactivated
      <3>3. ASSUME NEW b \in Accounts, Activated(b)'
            PROVE  s_depositAmount'[b] >= Threshold
        BY <3>1, <3>2, <3>3, <1>4, <1>5 DEF Inv, StakeCoversActivation, Activated
      <3> QED BY <3>1, <3>3 DEF StakeCoversActivation, Activated
    <2>2. CASE ~Reactivated(Current, Operator)
      <3>1. UNCHANGED registry
        BY <2>2 DEF PayOperator
      <3>2. RegistryOK'
        BY <3>1, RegistryFromInv DEF registry, RegistryOK, RegistryTyped, RegistryConsistent
      <3>3. StakeCoversActivation'
        BY <3>1, <1>4, <1>5 DEF registry, Inv, StakeCoversActivation
      <3> QED BY <3>2, <3>3
    <2> QED BY <2>1, <2>2
  <1>7. TypeOK'
    BY <1>1, <1>5, <1>6, AdvanceTyped DEF Inv, TypeOK, RegistryOK, RegistryTyped
  <1>8. RoundsOK'
    BY <1>1 DEF Inv, RoundsOK
  <1>9. ChargesCovered'
    BY <1>1, AdvanceTyped DEF ChargesCovered, NoCall
  <1> QED BY <1>6, <1>7, <1>8, <1>9 DEF Inv, RegistryOK

LEMMA NextInv == Inv /\ [Next]_vars => Inv'
  <1> SUFFICES ASSUME Inv, [Next]_vars PROVE Inv'
    OBVIOUS
  <1>1. CASE UNCHANGED vars
    BY <1>1 DEF vars, registry, Inv, TypeOK, RegistryConsistent, StakeCoversActivation,
                RoundsOK, ChargesCovered, CanBeCharged, Activated, Current
  <1>2. ASSUME NEW a \in Accounts, OperatorCall(a)
        PROVE  Inv'
    BY <1>2, ActivateInv, DeactivateInv, DepositInv, DepositAndActivateInv, WithdrawInv
       DEF OperatorCall
  <1>3. ASSUME NEW r \in DOMAIN rounds,
               (\E a \in Accounts : SubmitMerkleRoot(a, r)) \/ GenerateRandomNumber(r)
        PROVE  Inv'
    BY <1>3, SubmitMerkleRootInv, GenerateRandomNumberInv
  <1> QED BY <1>1, <1>2, <1>3, RequestRandomNumberInv, ChargeOperatorInv, PayOperatorInv
         DEF Next

-----------------------------------------------------------------------------
\* The inductive invariant of the contract: what the registry, the rounds and the
\* charging loop owe each other.
THEOREM ContractInvariant == Spec => []Inv
  BY InitInv, NextInv, PTL DEF Spec

\* No subtraction in the charging loop or in a withdrawal goes below zero, and the
\* number of activated operators never exceeds the limit (Commit2RevealDRB.sol).
THEOREM ContractTypeCorrect == Spec => []TypeOK
  <1>1. Inv => TypeOK
    BY DEF Inv
  <1> QED BY <1>1, ContractInvariant, PTL

\* s_activatedOperators and s_activatedOperatorOrder are inverse to each other,
\* although _deactivate moves the last operator and runs in the middle of loops.
THEOREM RegistryStaysConsistent == Spec => []RegistryConsistent
  <1>1. Inv => RegistryConsistent
    BY DEF Inv
  <1> QED BY <1>1, ContractInvariant, PTL

\* Whatever is withdrawn, charged or paid, an activated operator's deposit covers
\* the activation threshold.
THEOREM StakeAlwaysCovers == Spec => []StakeCoversActivation
  <1>1. Inv => StakeCoversActivation
    BY DEF Inv
  <1> QED BY <1>1, ContractInvariant, PTL

-----------------------------------------------------------------------------
(* Sums over finite sets.  The sets of naturals and of subsets that lack what   *)
(* is to be shown have least elements, which stands for induction.             *)

\* A set of subsets of S that has a set whenever it has its strict subsets has
\* every subset of a finite S.
LEMMA SubsetInduction ==
    ASSUME NEW S, IsFiniteSet(S), NEW T,
           \A s \in SUBSET S : (\A t \in SUBSET s : t # s => t \in T) => s \in T
    PROVE  \A s \in SUBSET S : s \in T
  <1> DEFINE out == {s \in SUBSET S : s \notin T}
             R == StrictSubsetOrdering(S)
  <1>1. IsWellFoundedOn(R, SUBSET S)
    BY FS_StrictSubsetOrderingWellFounded, FS_FiniteSubsetsOfFinite
  <1>2. SUFFICES ASSUME out # {} PROVE FALSE
    OBVIOUS
  <1>3. PICK s \in out : \A t \in out : <<t, s>> \notin R
    <2>1. out \subseteq SUBSET S
      OBVIOUS
    <2> HIDE DEF out, R
    <2> QED BY <2>1, <1>1, <1>2, WFMin
  <1>4. \A t \in SUBSET s : t # s => t \in T
    BY <1>3 DEF R, StrictSubsetOrdering
  <1> QED BY <1>3, <1>4

Least(s) == CHOOSE x \in s : TRUE

\* g adds up f over every subset of S of size at most n.
Sums(g, f, S, n) ==
    /\ g \in [{s \in SUBSET S : Cardinality(s) <= n} -> Int]
    /\ \A s \in SUBSET S : Cardinality(s) <= n =>
           g[s] = IF s = {} THEN 0 ELSE f[Least(s)] + g[s \ {Least(s)}]

LEMMA SumsExtend ==
    ASSUME NEW S, IsFiniteSet(S), NEW f \in [S -> Int], NEW n \in Nat, NEW g,
           Sums(g, f, S, n)
    PROVE  \E h : Sums(h, f, S, n + 1)
  <1> DEFINE small(k) == {s \in SUBSET S : Cardinality(s) <= k}
             h == [s \in small(n + 1) |->
                     IF s = {} THEN 0 ELSE f[Least(s)] + g[s \ {Least(s)}]]
  <1>1. ASSUME NEW s \in small(n + 1), s # {}
        PROVE  Least(s) \in S /\ s \ {Least(s)} \in small(n)
    <2>1. Least(s) \in s
      BY <1>1 DEF Least
    <2>2. IsFiniteSet(s) /\ Cardinality(s) \in Nat
      BY FS_Subset, FS_CardinalityType
    <2>3. Cardinality(s \ {Least(s)}) = Cardinality(s) - 1
      BY <2>1, <2>2, FS_RemoveElement
    <2> QED BY <2>1, <2>2, <2>3
  <1>2. \A s \in small(n) : g[s] \in Int
    BY DEF Sums
  <1>3. h \in [small(n + 1) -> Int]
    BY <1>1, <1>2
  <1>4. \A s \in small(n) : h[s] = g[s]
    <2> SUFFICES ASSUME NEW s \in small(n) PROVE h[s] = g[s]
      OBVIOUS
    <2>1. Cardinality(s) \in Nat
      BY FS_Subset, FS_CardinalityType
    <2>2. s \in small(n + 1)
      BY <2>1
    <2>3. g[s] = IF s = {} THEN 0 ELSE f[Least(s)] + g[s \ {Least(s)}]
      BY DEF Sums
    <2> QED BY <2>2, <2>3
  <1>5. \A s \in small(n + 1) :
           h[s] = IF s = {} THEN 0 ELSE f[Least(s)] + h[s \ {Least(s)}]
    BY <1>1, <1>4
  <1> HIDE DEF h
  <1> QED BY <1>3, <1>5 DEF Sums

LEMMA SumsExist ==
    ASSUME NEW S, IsFiniteSet(S), NEW f \in [S -> Int]
    PROVE  \E g : Sums(g, f, S, Cardinality(S))
  <1> DEFINE none == {n \in Nat : ~ \E g : Sums(g, f, S, n)}
             R == OpToRel(<, Nat)
  <1>1. \E g : Sums(g, f, S, 0)
    <2> DEFINE g == [s \in {t \in SUBSET S : Cardinality(t) <= 0} |-> 0]
    <2>1. \A s \in SUBSET S : Cardinality(s) <= 0 => s = {}
      BY FS_Subset, FS_CardinalityType, FS_EmptySet
    <2>2. g \in [{s \in SUBSET S : Cardinality(s) <= 0} -> Int]
      OBVIOUS
    <2>3. \A s \in SUBSET S : Cardinality(s) <= 0 => s = {} /\ g[s] = 0
      BY <2>1
    <2> HIDE DEF g
    <2>4. Sums(g, f, S, 0)
      BY <2>2, <2>3 DEF Sums
    <2> QED BY <2>4
  <1>2. SUFFICES ASSUME none # {} PROVE FALSE
    BY FS_CardinalityType
  <1>3. PICK n \in none : \A m \in none : <<m, n>> \notin R
    <2>1. none \subseteq Nat /\ IsWellFoundedOn(R, Nat)
      BY NatLessThanWellFounded
    <2> HIDE DEF none, R
    <2> QED BY <2>1, <1>2, WFMin
  <1>4. \A m \in none : ~ (m < n)
    BY <1>3 DEF R, OpToRel
  <1>5. n # 0 /\ n - 1 \in Nat /\ n - 1 \notin none
    BY <1>1, <1>4
  <1> QED BY <1>5, SumsExtend

\* g adds up f over every subset of S.
Adds(g, f, S) ==
    /\ g \in [SUBSET S -> Int]
    /\ \A s \in SUBSET S : 
           g[s] = IF s = {} THEN 0 ELSE f[Least(s)] + g[s \ {Least(s)}]

LEMMA TotalAdds ==
    ASSUME NEW S, IsFiniteSet(S), NEW f \in [S -> Int]
    PROVE  \E g : Adds(g, f, S) /\ Total(f) = g[S]
  <1> DEFINE Iter(g) == g = [s \in SUBSET S |-> IF s = {} THEN 0 ELSE f[Least(s)] + g[s \ {Least(s)}]]
             g == CHOOSE g : Iter(g)
  <1>1. PICK h : Sums(h, f, S, Cardinality(S))
    BY SumsExist
  <1>2. {s \in SUBSET S : Cardinality(s) <= Cardinality(S)} = SUBSET S
    BY FS_Subset
  <1>3. Adds(h, f, S)
    BY <1>1, <1>2 DEF Sums, Adds
  <1>4. Iter(h)
    BY <1>3 DEF Adds
  <1>5. Iter(g)
    BY <1>4
  <1>6. Total(f) = g[S]
    BY DEF Total, MapThenSumSet, MapThenFoldSet, Least
  <1>7. g = h
    <2> HIDE DEF g
    <2>1. g = [s \in SUBSET S |-> IF s = {} THEN 0 ELSE f[Least(s)] + g[s \ {Least(s)}]]
      BY <1>5
    <2>2. \A s \in SUBSET S : s \in {t \in SUBSET S : g[t] = h[t]}
      <3> DEFINE T == {t \in SUBSET S : g[t] = h[t]}
      <3>1. ASSUME NEW s \in SUBSET S, \A t \in SUBSET s : t # s => t \in T
            PROVE  s \in T
        <4>1. g[s] = IF s = {} THEN 0 ELSE f[Least(s)] + g[s \ {Least(s)}]
          BY <2>1
        <4>2. h[s] = IF s = {} THEN 0 ELSE f[Least(s)] + h[s \ {Least(s)}]
          BY <1>3 DEF Adds
        <4>3. CASE s # {}
          <5>1. Least(s) \in s
            BY <4>3 DEF Least
          <5>2. s \ {Least(s)} \in T
            BY <5>1, <3>1
          <5> QED BY <5>2, <4>1, <4>2
        <4> QED BY <4>1, <4>2, <4>3
      <3> HIDE DEF T
      <3>2. \A s \in SUBSET S : s \in T
        BY <3>1, SubsetInduction
      <3> QED BY <3>2 DEF T
    <2>3. h = [s \in SUBSET S |-> h[s]]
      BY <1>3 DEF Adds
    <2> QED BY <2>1, <2>2, <2>3
  <1> HIDE DEF g
  <1> QED BY <1>3, <1>6, <1>7

\* The order in which elements are taken makes no difference.
LEMMA AnyElement ==
    ASSUME NEW S, IsFiniteSet(S), NEW f \in [S -> Int], NEW g, Adds(g, f, S)
    PROVE  \A s \in SUBSET S : \A x \in s : g[s] = f[x] + g[s \ {x}]
  <1> DEFINE T == {s \in SUBSET S : \A x \in s : g[s] = f[x] + g[s \ {x}]}
  <1>1. ASSUME NEW s \in SUBSET S, \A t \in SUBSET s : t # s => t \in T
        PROVE  s \in T
    <2> SUFFICES ASSUME NEW x \in s PROVE g[s] = f[x] + g[s \ {x}]
      OBVIOUS
    <2> DEFINE c == Least(s)
    <2>1. c \in s
      BY DEF Least
    <2>2. g[s] = f[c] + g[s \ {c}]
      BY <2>1 DEF Adds
    <2>3. CASE x # c
      <3>1. /\ s \ {c} \in T /\ x \in s \ {c}
            /\ s \ {x} \in T /\ c \in s \ {x}
        BY <2>1, <2>3, <1>1
      <3> DEFINE rest == s \ {c, x}
      <3>2. (s \ {c}) \ {x} = rest /\ (s \ {x}) \ {c} = rest
        OBVIOUS
      <3>3. g[s \ {c}] = f[x] + g[rest] /\ g[s \ {x}] = f[c] + g[rest]
        BY <3>1, <3>2
      <3>4. f[x] \in Int /\ f[c] \in Int /\ g[rest] \in Int
        BY <2>1 DEF Adds
      <3> HIDE DEF c, rest
      <3>5. g[s] = f[c] + (f[x] + g[rest])
        BY <2>2, <3>3
      <3>6. g[s] = f[x] + (f[c] + g[rest])
        BY <3>4, <3>5
      <3> QED BY <3>3, <3>6
    <2> QED BY <2>2, <2>3
  <1> HIDE DEF T
  <1>2. \A s \in SUBSET S : s \in T
    BY <1>1, SubsetInduction
  <1> QED BY <1>2 DEF T

\* What is added up over a set does not depend on the function outside it.
LEMMA SumsAgree ==
    ASSUME NEW S, IsFiniteSet(S), NEW f \in [S -> Int], NEW g, Adds(g, f, S),
           NEW U \in SUBSET S, NEW e \in [U -> Int], NEW h, Adds(h, e, U),
           \A x \in U : e[x] = f[x]
    PROVE  g[U] = h[U]
  <1> DEFINE T == {s \in SUBSET U : g[s] = h[s]}
  <1>1. ASSUME NEW s \in SUBSET U, \A t \in SUBSET s : t # s => t \in T
        PROVE  s \in T
    <2>1. /\ g[s] = IF s = {} THEN 0 ELSE f[Least(s)] + g[s \ {Least(s)}]
          /\ h[s] = IF s = {} THEN 0 ELSE e[Least(s)] + h[s \ {Least(s)}]
      BY DEF Adds
    <2>2. CASE s # {}
      <3>1. Least(s) \in s
        BY <2>2 DEF Least
      <3>2. s \ {Least(s)} \in T
        BY <3>1, <1>1
      <3> QED BY <2>1, <3>1, <3>2
    <2> QED BY <2>1, <2>2
  <1>2. IsFiniteSet(U)
    BY FS_Subset
  <1> HIDE DEF T
  <1>3. \A s \in SUBSET U : s \in T
    BY <1>1, <1>2, SubsetInduction
  <1> QED BY <1>3 DEF T

LEMMA TotalOfNone ==
    ASSUME NEW f \in [{} -> Int] PROVE Total(f) = 0
  <1>1. PICK g : Adds(g, f, {}) /\ Total(f) = g[{}]
    BY FS_EmptySet, TotalAdds
  <1> QED BY <1>1 DEF Adds

LEMMA TotalType ==
    ASSUME NEW S, IsFiniteSet(S), NEW f \in [S -> Int]
    PROVE  Total(f) \in Int
  <1>1. PICK g : Adds(g, f, S) /\ Total(f) = g[S]
    BY TotalAdds
  <1> QED BY <1>1 DEF Adds

\* One element may be set aside.
LEMMA TotalWithout ==
    ASSUME NEW S, IsFiniteSet(S), NEW f \in [S -> Int], NEW a \in S,
           NEW rest \in [S \ {a} -> Int], \A x \in S \ {a} : rest[x] = f[x]
    PROVE  Total(f) = f[a] + Total(rest) /\ Total(rest) \in Int
  <1> DEFINE U == S \ {a}
  <1>1. PICK g : Adds(g, f, S) /\ Total(f) = g[S]
    BY TotalAdds
  <1>2. IsFiniteSet(U) /\ U \in SUBSET S
    BY FS_Subset
  <1>3. PICK h : Adds(h, rest, U) /\ Total(rest) = h[U]
    BY <1>2, TotalAdds
  <1>4. g[S] = f[a] + g[U]
    BY <1>1, AnyElement
  <1>5. g[U] = h[U]
    BY <1>1, <1>2, <1>3, SumsAgree
  <1>6. Total(rest) \in Int
    BY <1>2, TotalType
  <1> QED BY <1>1, <1>3, <1>4, <1>5, <1>6

\* A sum with one summand changed.
LEMMA TotalUpdate ==
    ASSUME NEW S, IsFiniteSet(S), NEW f \in [S -> Int], NEW e \in [S -> Int], NEW a \in S,
           \A x \in S \ {a} : e[x] = f[x]
    PROVE  Total(e) = Total(f) - f[a] + e[a]
  <1> DEFINE rest == [x \in S \ {a} |-> f[x]]
  <1>1. /\ rest \in [S \ {a} -> Int]
        /\ \A x \in S \ {a} : rest[x] = f[x] /\ rest[x] = e[x]
    OBVIOUS
  <1> HIDE DEF rest
  <1>2. Total(f) = f[a] + Total(rest) /\ Total(rest) \in Int
    BY <1>1, TotalWithout
  <1>3. Total(e) = e[a] + Total(rest)
    BY <1>1, TotalWithout
  <1>4. f[a] \in Int /\ e[a] \in Int
    OBVIOUS
  <1> QED BY <1>2, <1>3, <1>4

\* A sum with one summand more.
LEMMA TotalAppend ==
    ASSUME NEW n \in Nat, NEW f \in [1..n -> Int], NEW e \in [1..(n + 1) -> Int],
           \A i \in 1..n : e[i] = f[i]
    PROVE  Total(e) = Total(f) + e[n + 1]
  <1> DEFINE m == n + 1
             N == 1..m
  <1>1. /\ m \in N /\ e \in [N -> Int] /\ IsFiniteSet(N)
        /\ f \in [N \ {m} -> Int] /\ \A i \in N \ {m} : f[i] = e[i]
    <2>1. N \ {m} = 1..n
      OBVIOUS
    <2>2. m \in N /\ e \in [N -> Int]
      OBVIOUS
    <2>3. IsFiniteSet(N)
      BY FS_Interval
    <2> HIDE DEF N
    <2> QED BY <2>1, <2>2, <2>3
  <1>2. e[m] \in Int
    BY <1>1
  <1> HIDE DEF m, N
  <1>3. Total(e) = e[m] + Total(f) /\ Total(f) \in Int
    BY <1>1, TotalWithout
  <1> QED BY <1>2, <1>3 DEF m

\* Nothing adds up to nothing.
LEMMA TotalOfZeros ==
    ASSUME NEW S, IsFiniteSet(S) PROVE Total([x \in S |-> 0]) = 0
  <1> DEFINE f == [x \in S |-> 0]
  <1>1. f \in [S -> Int] /\ \A x \in S : f[x] = 0
    OBVIOUS
  <1> HIDE DEF f
  <1>2. PICK g : Adds(g, f, S) /\ Total(f) = g[S]
    BY <1>1, TotalAdds
  <1> DEFINE T == {s \in SUBSET S : g[s] = 0}
  <1>3. ASSUME NEW s \in SUBSET S, \A t \in SUBSET s : t # s => t \in T
        PROVE  s \in T
    <2>1. g[s] = IF s = {} THEN 0 ELSE f[Least(s)] + g[s \ {Least(s)}]
      BY <1>2 DEF Adds
    <2>2. CASE s # {}
      <3>1. Least(s) \in s
        BY <2>2 DEF Least
      <3>2. s \ {Least(s)} \in T
        BY <3>1, <1>3
      <3> QED BY <2>1, <3>1, <3>2, <1>1
    <2> QED BY <2>1, <2>2
  <1> HIDE DEF T
  <1>4. \A s \in SUBSET S : s \in T
    BY <1>3, SubsetInduction
  <1> QED BY <1>2, <1>4 DEF T, f

-----------------------------------------------------------------------------
\* What the contract owes for each round, and what it has paid again.
Owing  == [r \in DOMAIN rounds |-> Owed(rounds[r])]
Repaid == [r \in DOMAIN rounds |-> Again(rounds[r])]

\* What the running loop has not taken or not given yet.
Left      == Len(Current.operators) - call.next + 1
Uncharged == IF call.loop = "charge" THEN Left * Current.cost ELSE 0
Unpaid    == IF call.loop = "pay" THEN Left * CostWithReward(Current) ELSE 0

\* DepositsBacked says nothing of the states within a call: there the loop's
\* remaining iterations make up for the difference.
Ledger ==
    Total(s_depositAmount) + Total(Owing) + Unpaid
        <= balance + Total(Repaid) + Uncharged

LEMMA Product ==
    ASSUME NEW m \in Nat, NEW n \in Nat PROVE m * n \in Nat
  OBVIOUS

LEMMA Shares ==
    ASSUME NEW c \in Nat, NEW n \in Nat \ {0}
    PROVE  c \div n \in Nat /\ n * (c \div n) <= c
  OBVIOUS

LEMMA RewardBounded ==
    ASSUME NEW x \in Round, Len(x.operators) \in Nat \ {0}
    PROVE  /\ CostWithReward(x) \in Nat
           /\ Len(x.operators) * CostWithReward(x)
                  <= Len(x.operators) * x.cost + x.cost
  <1> DEFINE n == Len(x.operators)
             c == x.cost
             q == c \div n
  <1>1. c \in Nat /\ n \in Nat /\ q \in Nat /\ n * q <= c
    BY Shares DEF Round
  <1>2. CostWithReward(x) = c + q
    BY DEF CostWithReward
  <1> HIDE DEF n, c, q
  <1>3. n * (c + q) = n * c + n * q /\ n * c \in Nat /\ n * q \in Nat
    BY <1>1
  <1>4. n * (c + q) <= n * c + c /\ c + q \in Nat
    BY <1>1, <1>3
  <1> QED BY <1>2, <1>4 DEF n, c

LEMMA DebtTyped ==
    ASSUME NEW x \in Round, Len(x.operators) \in Nat \ {0}
    PROVE  Owed(x) \in Nat /\ Again(x) \in Nat
  <1> DEFINE n == Len(x.operators)
             R == CostWithReward(x)
             g == x.generated
  <1>1. n \in Nat /\ R \in Nat /\ g \in Nat
    BY RewardBounded, LimitsAssumption DEF Round
  <1>2. /\ Owed(x) = IF g = 0 THEN n * R ELSE 0
        /\ Again(x) = IF g > 1 THEN (g - 1) * n * R ELSE 0
    BY DEF Owed, Again
  <1> HIDE DEF n, R, g
  <1>3. n * R \in Nat
    BY <1>1, Product
  <1>4. ASSUME g > 1 PROVE (g - 1) * n * R \in Nat
    <2>1. g - 1 \in Nat
      BY <1>1, <1>4
    <2>2. (g - 1) * n \in Nat
      BY <2>1, <1>1, Product
    <2> QED BY <2>2, <1>1, Product
  <1> QED BY <1>2, <1>3, <1>4

LEMMA RoundsTyped ==
    ASSUME Inv
    PROVE  /\ Len(rounds) \in Nat /\ DOMAIN rounds = 1..Len(rounds)
           /\ IsFiniteSet(DOMAIN rounds)
           /\ \A r \in DOMAIN rounds :
                 rounds[r] \in Round /\ Len(rounds[r].operators) \in Nat \ {0}
  <1>1. /\ Len(rounds) \in Nat /\ DOMAIN rounds = 1..Len(rounds)
        /\ \A r \in DOMAIN rounds : rounds[r] \in Round
    BY LenProperties, ElementOfSeq DEF Inv, TypeOK
  <1>2. IsFiniteSet(DOMAIN rounds)
    BY <1>1, FS_Interval
  <1>3. ASSUME NEW r \in DOMAIN rounds
        PROVE  Len(rounds[r].operators) \in Nat \ {0}
    <2>1. rounds[r].operators \in Seq(Accounts) /\ Len(rounds[r].operators) >= 2
      BY <1>1 DEF Round, Inv, RoundsOK
    <2> QED BY <2>1, LenProperties
  <1> QED BY <1>1, <1>2, <1>3

LEMMA LedgerTyped ==
    ASSUME Inv
    PROVE  /\ s_depositAmount \in [Accounts -> Int] /\ Total(s_depositAmount) \in Int
           /\ Owing \in [DOMAIN rounds -> Int] /\ Total(Owing) \in Int
           /\ Repaid \in [DOMAIN rounds -> Int] /\ Total(Repaid) \in Int
           /\ balance \in Int
  <1>1. s_depositAmount \in [Accounts -> Int] /\ balance \in Int
    BY DEF Inv, TypeOK
  <1>2. Owing \in [DOMAIN rounds -> Int] /\ Repaid \in [DOMAIN rounds -> Int]
    BY RoundsTyped, DebtTyped DEF Owing, Repaid
  <1> QED BY <1>1, <1>2, RoundsTyped, AccountsAssumption, TotalType

\* Between calls the balance moves with a deposit.
LEMMA LedgerOutside ==
    ASSUME Inv, Ledger, call = NoCall, UNCHANGED <<rounds, call>>, NEW d \in Int,
           Total(s_depositAmount') = Total(s_depositAmount) + d,
           balance' = balance + d
    PROVE  Ledger'
  <1>1. Owing' = Owing /\ Repaid' = Repaid
    BY DEF Owing, Repaid
  <1>2. Unpaid' = 0 /\ Uncharged' = 0 /\ Unpaid = 0 /\ Uncharged = 0
    BY DEF Unpaid, Uncharged, NoCall
  <1> QED BY <1>1, <1>2, LedgerTyped DEF Ledger

\* One operator's deposit grows or shrinks by d.
LEMMA DepositChange ==
    ASSUME Inv, NEW a \in Accounts, NEW d \in Int,
           s_depositAmount' \in [Accounts -> Int],
           s_depositAmount'[a] = s_depositAmount[a] + d,
           \A b \in Accounts \ {a} : s_depositAmount'[b] = s_depositAmount[b]
    PROVE  Total(s_depositAmount') = Total(s_depositAmount) + d
  <1>1. /\ s_depositAmount \in [Accounts -> Int] /\ Total(s_depositAmount) \in Int
        /\ s_depositAmount[a] \in Int
    BY LedgerTyped
  <1>2. Total(s_depositAmount')
            = Total(s_depositAmount) - s_depositAmount[a] + s_depositAmount'[a]
    BY <1>1, AccountsAssumption, TotalUpdate
  <1> QED BY <1>1, <1>2

LEMMA OperatorCallLedger ==
    ASSUME Inv, Ledger, NEW a \in Accounts, OperatorCall(a)
    PROVE  Ledger'
  <1> DEFINE dep == s_depositAmount
  <1>1. dep \in [Accounts -> Int] /\ Total(dep) \in Int /\ balance \in Int
    BY LedgerTyped
  <1>2. ASSUME NEW d \in Int, dep' = [dep EXCEPT ![a] = dep[a] + d]
        PROVE  Total(dep') = Total(dep) + d
    <2>1. /\ dep' \in [Accounts -> Int] /\ dep'[a] = dep[a] + d
          /\ \A b \in Accounts \ {a} : dep'[b] = dep[b]
      BY <1>1, <1>2
    <2> QED BY <2>1, DepositChange
  <1>3. CASE Activate(a) \/ Deactivate(a)
    <2>1. UNCHANGED <<dep, balance, rounds, call>> /\ call = NoCall
      BY <1>3 DEF Activate, Deactivate
    <2> QED BY <2>1, <1>1, LedgerOutside
  <1>4. ASSUME NEW v \in Amounts, Deposit(a, v) \/ DepositAndActivate(a, v)
        PROVE  Ledger'
    <2>1. /\ v \in Int /\ dep' = [dep EXCEPT ![a] = dep[a] + v]
          /\ balance' = balance + v /\ UNCHANGED <<rounds, call>> /\ call = NoCall
      BY <1>4, AmountsAssumption DEF Deposit, DepositAndActivate, Paid
    <2> QED BY <2>1, <1>2, LedgerOutside
  <1>5. ASSUME NEW v \in Amounts, Withdraw(a, v)
        PROVE  Ledger'
    <2>1. /\ v \in Nat /\ dep' = [dep EXCEPT ![a] = dep[a] - v]
          /\ balance' = balance - v /\ UNCHANGED <<rounds, call>> /\ call = NoCall
      BY <1>5, AmountsAssumption DEF Withdraw
    <2>2. -v \in Int /\ dep[a] - v = dep[a] + (-v) /\ balance - v = balance + (-v)
      BY <1>1, <2>1
    <2>3. Total(dep') = Total(dep) + (-v)
      BY <2>1, <2>2, <1>2
    <2> QED BY <2>1, <2>2, <2>3, LedgerOutside
  <1> QED BY <1>3, <1>4, <1>5 DEF OperatorCall

\* A round's debts change with its record and with nobody else's.
LEMMA DebtsUpdate ==
    ASSUME Inv, NEW r \in DOMAIN rounds, NEW x \in Round,
           x.operators = rounds[r].operators, rounds' = [rounds EXCEPT ![r] = x]
    PROVE  /\ Total(Owing') = Total(Owing) - Owed(rounds[r]) + Owed(x)
           /\ Total(Repaid') = Total(Repaid) - Again(rounds[r]) + Again(x)
  <1>1. Owed(x) \in Int /\ Again(x) \in Int
    BY RoundsTyped, DebtTyped
  <1>2. DOMAIN rounds' = DOMAIN rounds
    OBVIOUS
  <1>3. /\ Owing' \in [DOMAIN rounds -> Int] /\ Owing'[r] = Owed(x)
        /\ \A q \in DOMAIN rounds \ {r} : Owing'[q] = Owing[q]
    BY <1>1, <1>2, LedgerTyped DEF Owing
  <1>4. /\ Repaid' \in [DOMAIN rounds -> Int] /\ Repaid'[r] = Again(x)
        /\ \A q \in DOMAIN rounds \ {r} : Repaid'[q] = Repaid[q]
    BY <1>1, <1>2, LedgerTyped DEF Repaid
  <1>5. Owing[r] = Owed(rounds[r]) /\ Repaid[r] = Again(rounds[r])
    BY DEF Owing, Repaid
  <1>6. IsFiniteSet(DOMAIN rounds) /\ Owing \in [DOMAIN rounds -> Int]
        /\ Repaid \in [DOMAIN rounds -> Int]
    BY RoundsTyped, LedgerTyped
  <1>7. Total(Owing') = Total(Owing) - Owing[r] + Owing'[r]
    BY <1>3, <1>6, TotalUpdate
  <1>8. Total(Repaid') = Total(Repaid) - Repaid[r] + Repaid'[r]
    BY <1>4, <1>6, TotalUpdate
  <1> QED BY <1>3, <1>4, <1>5, <1>7, <1>8

LEMMA SubmitMerkleRootLedger ==
    ASSUME Inv, Ledger, NEW a \in Accounts, NEW r \in DOMAIN rounds,
           SubmitMerkleRoot(a, r)
    PROVE  Ledger'
  <1> DEFINE x == [rounds[r] EXCEPT !.root = TRUE]
  <1>1. rounds[r] \in Round /\ Len(rounds[r].operators) \in Nat \ {0}
    BY RoundsTyped
  <1>2. /\ x \in Round /\ x.operators = rounds[r].operators
        /\ x.cost = rounds[r].cost /\ x.generated = rounds[r].generated
    BY <1>1 DEF Round
  <1>3. rounds' = [rounds EXCEPT ![r] = x] /\ call = NoCall
        /\ UNCHANGED <<s_depositAmount, balance, call>>
    BY DEF SubmitMerkleRoot
  <1>4. Owed(x) = Owed(rounds[r]) /\ Again(x) = Again(rounds[r])
    BY <1>2 DEF Owed, Again, CostWithReward
  <1>5. Owed(rounds[r]) \in Int /\ Again(rounds[r]) \in Int
    BY <1>1, DebtTyped
  <1> HIDE DEF x
  <1>6. Total(Owing') = Total(Owing) /\ Total(Repaid') = Total(Repaid)
    <2>1. /\ Total(Owing') = Total(Owing) - Owed(rounds[r]) + Owed(x)
          /\ Total(Repaid') = Total(Repaid) - Again(rounds[r]) + Again(x)
      BY <1>2, <1>3, DebtsUpdate
    <2> QED BY <2>1, <1>4, <1>5, LedgerTyped
  <1>7. Unpaid' = 0 /\ Uncharged' = 0 /\ Unpaid = 0 /\ Uncharged = 0
    BY <1>3 DEF Unpaid, Uncharged, NoCall
  <1> QED BY <1>3, <1>6, <1>7 DEF Ledger

\* A first number turns what is owed for the round into payments; each further
\* one is paid without being owed.
LEMMA GenerateRandomNumberLedger ==
    ASSUME Inv, Ledger, NEW r \in DOMAIN rounds, GenerateRandomNumber(r)
    PROVE  Ledger'
  <1> DEFINE x == [rounds[r] EXCEPT !.generated = rounds[r].generated + 1]
             g == rounds[r].generated
             n == Len(rounds[r].operators)
             R == CostWithReward(rounds[r])
  <1>1. /\ rounds[r] \in Round /\ Len(rounds[r].operators) \in Nat \ {0}
        /\ g \in Nat /\ R \in Nat /\ n \in Nat
    BY RoundsTyped, RewardBounded, LimitsAssumption DEF Round
  <1>2. /\ x \in Round /\ x.operators = rounds[r].operators
        /\ x.cost = rounds[r].cost /\ x.generated = g + 1
    <2>1. rounds[r].generated \in 0..MaxGenerated /\ rounds[r].generated < MaxGenerated
      BY <1>1 DEF Round, GenerateRandomNumber
    <2>2. rounds[r].generated + 1 \in 0..MaxGenerated
      BY <2>1, LimitsAssumption
    <2> QED BY <2>2, <1>1 DEF Round
  <1>3. /\ rounds' = [rounds EXCEPT ![r] = x] /\ call = NoCall
        /\ call' = [loop |-> "pay", round |-> r, next |-> 1]
        /\ UNCHANGED <<s_depositAmount, balance>>
    BY DEF GenerateRandomNumber, Enter
  <1>4. CostWithReward(x) = R
    BY <1>2 DEF CostWithReward
  <1>5. Owed(x) = 0 /\ Again(x) = IF g + 1 > 1 THEN g * n * R ELSE 0
    BY <1>1, <1>2, <1>4 DEF Owed, Again
  <1>6. /\ Owed(rounds[r]) = IF g = 0 THEN n * R ELSE 0
        /\ Again(rounds[r]) = IF g > 1 THEN (g - 1) * n * R ELSE 0
    BY DEF Owed, Again
  <1>7. Unpaid' = n * R /\ Uncharged' = 0 /\ Unpaid = 0 /\ Uncharged = 0
    <2>1. Current' = x
      BY <1>1, <1>3 DEF Current
    <2>2. Left' = n
      BY <2>1, <1>1, <1>2, <1>3 DEF Left
    <2> QED BY <2>1, <2>2, <1>2, <1>3, <1>4 DEF Unpaid, Uncharged, NoCall
  <1>8. /\ Total(Owing') = Total(Owing) - Owed(rounds[r]) + Owed(x)
        /\ Total(Repaid') = Total(Repaid) - Again(rounds[r]) + Again(x)
    BY <1>2, <1>3, DebtsUpdate
  <1> HIDE DEF x, g, n, R
  <1>9. n * R \in Nat
    BY <1>1, Product
  <1>10. CASE g = 0
    <2>1. Owed(rounds[r]) = n * R /\ Owed(x) = 0
          /\ Again(rounds[r]) = 0 /\ Again(x) = 0
      BY <1>5, <1>6, <1>10
    <2> QED BY <2>1, <1>3, <1>7, <1>8, <1>9, LedgerTyped DEF Ledger
  <1>11. CASE g # 0
    <2>1. Owed(rounds[r]) = 0 /\ Owed(x) = 0
      BY <1>5, <1>6, <1>11
    <2>2. Again(x) = g * n * R /\ Again(rounds[r]) = (g - 1) * n * R
      <3>1. CASE g = 1
        BY <3>1, <1>1, <1>5, <1>6
      <3>2. CASE g # 1
        BY <3>2, <1>1, <1>5, <1>6, <1>11
      <3> QED BY <3>1, <3>2
    <2>3. g * n * R = (g - 1) * n * R + n * R /\ (g - 1) * n * R \in Int
      BY <1>1
    <2> QED BY <2>1, <2>2, <2>3, <1>3, <1>7, <1>8, <1>9, LedgerTyped DEF Ledger
  <1> QED BY <1>10, <1>11

\* The loop has one iteration less before it.
LEMMA LeftAdvances ==
    ASSUME Inv, call # NoCall, Advance, UNCHANGED rounds, NEW c \in Nat
    PROVE  /\ Left * c \in Nat
           /\ IF call' = NoCall THEN Left * c = c
              ELSE /\ Current' = Current /\ call'.loop = call.loop
                   /\ Left' * c = Left * c - c
  <1>1. /\ call.round \in DOMAIN rounds /\ call.next \in 1..Len(Current.operators)
        /\ Len(Current.operators) \in Nat
    BY LoopFacts
  <1>2. Left \in Nat
    BY <1>1 DEF Left
  <1>3. CASE call' = NoCall
    <2>1. ~(call.next < Len(Current.operators))
      <3> SUFFICES ASSUME call.next < Len(Current.operators) PROVE FALSE
        OBVIOUS
      <3>1. call' = [call EXCEPT !.next = @ + 1]
        BY DEF Advance, Current
      <3> QED BY <3>1, <1>3 DEF NoCall, Inv, TypeOK
    <2>2. Left = 1
      BY <2>1, <1>1 DEF Left
    <2> QED BY <2>2, <1>3
  <1>4. CASE call' # NoCall
    <2>1. /\ call'.loop = call.loop /\ call'.round = call.round
          /\ call'.next = call.next + 1
      BY <1>4, AdvanceTyped
    <2>2. Current' = Current
      BY <2>1 DEF Current
    <2>3. Left' = Left - 1
      BY <2>1, <2>2, <1>1 DEF Left
    <2>4. (Left - 1) * c = Left * c - c
      BY <1>2
    <2> QED BY <2>1, <2>2, <2>3, <2>4, <1>2, <1>4, Product
  <1> QED BY <1>2, <1>3, <1>4, Product

LEMMA ChargeOperatorLedger ==
    ASSUME Inv, Ledger, ChargeOperator
    PROVE  Ledger'
  <1> DEFINE c == Current.cost
  <1>1. /\ call # NoCall /\ call.loop = "charge" /\ Advance
        /\ UNCHANGED <<rounds, balance>>
        /\ s_depositAmount' = [s_depositAmount EXCEPT ![Operator] = @ - c]
    BY DEF ChargeOperator, NoCall
  <1>2. c \in Nat /\ Operator \in Accounts
    BY <1>1, LoopFacts DEF Round
  <1>3. Owing' = Owing /\ Repaid' = Repaid
    BY <1>1 DEF Owing, Repaid
  <1>4. Total(s_depositAmount') = Total(s_depositAmount) - c
    <2>1. /\ s_depositAmount \in [Accounts -> Int] /\ Total(s_depositAmount) \in Int
          /\ -c \in Int
      BY <1>2, LedgerTyped
    <2>2. /\ s_depositAmount' \in [Accounts -> Int]
          /\ s_depositAmount'[Operator] = s_depositAmount[Operator] + (-c)
          /\ \A b \in Accounts \ {Operator} : s_depositAmount'[b] = s_depositAmount[b]
      BY <1>1, <1>2, <2>1
    <2>3. Total(s_depositAmount') = Total(s_depositAmount) + (-c)
      BY <1>2, <2>1, <2>2, DepositChange
    <2> QED BY <2>1, <2>3, <1>2
  <1>5. Unpaid = 0 /\ Unpaid' = 0 /\ Uncharged = Left * c
    BY <1>1, AdvanceTyped DEF Unpaid, Uncharged, NoCall
  <1>6. Uncharged \in Nat /\ Uncharged' = Uncharged - c
    <2>1. CASE call' = NoCall
      BY <2>1, <1>1, <1>2, <1>5, LeftAdvances DEF Uncharged, NoCall
    <2>2. CASE call' # NoCall
      <3>1. /\ Left * c \in Nat /\ Current' = Current /\ call'.loop = "charge"
            /\ Left' * c = Left * c - c
        BY <2>2, <1>1, <1>2, LeftAdvances
      <3> QED BY <3>1, <1>5 DEF Uncharged
    <2> QED BY <2>1, <2>2
  <1> QED BY <1>1, <1>2, <1>3, <1>4, <1>5, <1>6, LedgerTyped DEF Ledger

LEMMA PayOperatorLedger ==
    ASSUME Inv, Ledger, PayOperator
    PROVE  Ledger'
  <1> DEFINE c == CostWithReward(Current)
  <1>1. /\ call # NoCall /\ call.loop = "pay" /\ Advance
        /\ UNCHANGED <<rounds, balance>>
        /\ s_depositAmount' = [s_depositAmount EXCEPT ![Operator] = @ + c]
    BY DEF PayOperator, NoCall
  <1>2. c \in Nat /\ Operator \in Accounts
    <2>1. Current \in Round /\ Len(Current.operators) \in Nat \ {0} /\ Operator \in Accounts
      BY <1>1, LoopFacts
    <2> QED BY <2>1, RewardBounded
  <1>3. Owing' = Owing /\ Repaid' = Repaid
    BY <1>1 DEF Owing, Repaid
  <1>4. Total(s_depositAmount') = Total(s_depositAmount) + c
    <2>1. /\ s_depositAmount' \in [Accounts -> Int]
          /\ s_depositAmount'[Operator] = s_depositAmount[Operator] + c
          /\ \A b \in Accounts \ {Operator} : s_depositAmount'[b] = s_depositAmount[b]
      BY <1>1, <1>2, LedgerTyped
    <2> HIDE DEF c
    <2> QED BY <1>2, <2>1, DepositChange
  <1>5. Uncharged = 0 /\ Uncharged' = 0 /\ Unpaid = Left * c
    BY <1>1, AdvanceTyped DEF Unpaid, Uncharged, NoCall
  <1>6. Unpaid \in Nat /\ Unpaid' = Unpaid - c
    <2>1. CASE call' = NoCall
      <3>1. Left * c \in Nat /\ Left * c = c
        BY <2>1, <1>1, <1>2, LeftAdvances
      <3> QED BY <3>1, <2>1, <1>2, <1>5 DEF Unpaid, NoCall
    <2>2. CASE call' # NoCall
      <3>1. /\ Left * c \in Nat /\ Current' = Current /\ call'.loop = "pay"
            /\ Left' * c = Left * c - c
        BY <2>2, <1>1, <1>2, LeftAdvances
      <3>2. CostWithReward(Current)' = c
        BY <3>1 DEF CostWithReward
      <3> QED BY <3>1, <3>2, <1>5 DEF Unpaid
    <2> QED BY <2>1, <2>2
  <1> HIDE DEF c
  <1> QED BY <1>1, <1>2, <1>3, <1>4, <1>5, <1>6, LedgerTyped DEF Ledger

\* The request adds its round's debt, which its value and the charges to come
\* cover: the rewards are shares of the value, rounded down.
LEMMA RequestRandomNumberLedger ==
    ASSUME Inv, Ledger, NEW v \in Amounts, RequestRandomNumber(v)
    PROVE  Ledger'
  <1> DEFINE n == Len(rounds)
             m == Len(s_activatedOperators)
             new == [cost |-> v, operators |-> s_activatedOperators,
                     root |-> FALSE, generated |-> 0]
  <1>1. /\ v \in Nat /\ m \in Nat \ {0} /\ rounds \in Seq(Round) /\ n \in Nat
        /\ s_activatedOperators \in Seq(Accounts) /\ DOMAIN rounds = 1..n
    BY AmountsAssumption, LenProperties DEF Inv, TypeOK, RequestRandomNumber
  <1>2. /\ rounds' = Append(rounds, new) /\ balance' = balance + v
        /\ call = NoCall /\ call' = [loop |-> "charge", round |-> n + 1, next |-> 1]
        /\ UNCHANGED s_depositAmount
    BY DEF RequestRandomNumber, Paid, Enter
  <1>3. new \in Round
    BY <1>1, LimitsAssumption DEF Round
  <1>4. /\ DOMAIN rounds' = 1..(n + 1)
        /\ \A r \in 1..n : rounds'[r] = rounds[r]
        /\ rounds'[n + 1] = new
    <2>1. rounds' \in Seq(Round) /\ Len(rounds') = n + 1
          /\ (\A r \in 1..n : rounds'[r] = rounds[r]) /\ rounds'[n + 1] = new
      BY <1>1, <1>2, <1>3, AppendProperties
    <2> QED BY <2>1, LenProperties
  <1>5. Owed(new) \in Nat /\ Again(new) \in Nat
    BY <1>1, <1>3, DebtTyped
  <1>6. Owed(new) <= m * v + v /\ Again(new) = 0
    <2>1. Owed(new) = m * CostWithReward(new) /\ Again(new) = 0
      BY DEF Owed, Again
    <2>2. new.cost = v /\ new.operators = s_activatedOperators
      OBVIOUS
    <2> HIDE DEF new
    <2> QED BY <2>1, <2>2, <1>1, <1>3, RewardBounded
  <1>7. Unpaid = 0 /\ Uncharged = 0 /\ Unpaid' = 0 /\ Uncharged' = m * v
    <2>1. Current' = new
      BY <1>2, <1>4 DEF Current
    <2>2. Left' = m
      BY <2>1, <1>1, <1>2 DEF Left
    <2> QED BY <2>1, <2>2, <1>2 DEF Unpaid, Uncharged, NoCall
  <1> HIDE DEF new
  <1>8. Total(Owing') = Total(Owing) + Owed(new)
    <2>1. /\ Owing \in [1..n -> Int] /\ Owing' \in [1..(n + 1) -> Int]
          /\ \A r \in 1..n : Owing'[r] = Owing[r]
          /\ Owing'[n + 1] = Owed(new)
      <3>1. Owing \in [1..n -> Int] /\ \A r \in 1..n : Owing[r] = Owed(rounds[r])
        BY <1>1, LedgerTyped DEF Owing
      <3>2. Owing' = [r \in 1..(n + 1) |-> Owed(rounds'[r])]
        BY <1>4 DEF Owing
      <3>3. /\ \A r \in 1..n : Owed(rounds'[r]) = Owing[r]
            /\ Owed(rounds'[n + 1]) = Owed(new)
        BY <3>1, <1>4
      <3>4. n \in Nat
        BY <1>1
      <3> HIDE DEF n
      <3>5. \A r \in 1..(n + 1) : r \in 1..n \/ r = n + 1
        BY <3>4
      <3>6. \A r \in 1..(n + 1) : Owed(rounds'[r]) \in Int
        BY <3>1, <3>3, <3>5, <1>5
      <3> QED BY <3>1, <3>2, <3>3, <3>4, <3>6
    <2> HIDE DEF n
    <2> QED BY <2>1, <1>1, TotalAppend
  <1>9. Total(Repaid') = Total(Repaid) + Again(new)
    <2>1. /\ Repaid \in [1..n -> Int] /\ Repaid' \in [1..(n + 1) -> Int]
          /\ \A r \in 1..n : Repaid'[r] = Repaid[r]
          /\ Repaid'[n + 1] = Again(new)
      <3>1. Repaid \in [1..n -> Int] /\ \A r \in 1..n : Repaid[r] = Again(rounds[r])
        BY <1>1, LedgerTyped DEF Repaid
      <3>2. Repaid' = [r \in 1..(n + 1) |-> Again(rounds'[r])]
        BY <1>4 DEF Repaid
      <3>3. /\ \A r \in 1..n : Again(rounds'[r]) = Repaid[r]
            /\ Again(rounds'[n + 1]) = Again(new)
        BY <3>1, <1>4
      <3>4. n \in Nat
        BY <1>1
      <3> HIDE DEF n
      <3>5. \A r \in 1..(n + 1) : r \in 1..n \/ r = n + 1
        BY <3>4
      <3>6. \A r \in 1..(n + 1) : Again(rounds'[r]) \in Int
        BY <3>1, <3>3, <3>5, <1>5
      <3> QED BY <3>1, <3>2, <3>3, <3>4, <3>6
    <2> HIDE DEF n
    <2> QED BY <2>1, <1>1, TotalAppend
  <1>10. Uncharged' \in Nat /\ Owed(new) <= Uncharged' + v
    BY <1>1, <1>6, <1>7, Product
  <1>11. Unpaid = 0 /\ Uncharged = 0 /\ Unpaid' = 0 /\ Again(new) = 0
    BY <1>6, <1>7
  <1>12. /\ Total(s_depositAmount') = Total(s_depositAmount)
         /\ balance' = balance + v /\ v \in Nat
    BY <1>1, <1>2
  <1>13. Total(s_depositAmount) + Total(Owing) <= balance + Total(Repaid)
    BY <1>11, LedgerTyped DEF Ledger
  <1> HIDE DEF m, n
  <1>14. Total(s_depositAmount') + Total(Owing') + Unpaid'
             <= balance' + Total(Repaid') + Uncharged'
    BY <1>5, <1>8, <1>9, <1>10, <1>11, <1>12, <1>13, LedgerTyped
  <1> QED BY <1>14 DEF Ledger

LEMMA InitLedger == Init => Ledger
  <1> SUFFICES ASSUME Init PROVE Ledger
    OBVIOUS
  <1>1. Total(s_depositAmount) = 0
    <2>1. Total([a \in Accounts |-> 0]) = 0
      BY AccountsAssumption, TotalOfZeros
    <2> QED BY <2>1 DEF Init
  <1>2. Owing \in [{} -> Int] /\ Repaid \in [{} -> Int]
    BY DEF Init, Owing, Repaid
  <1>3. Total(Owing) = 0 /\ Total(Repaid) = 0
    BY <1>2, TotalOfNone
  <1>4. Unpaid = 0 /\ Uncharged = 0 /\ balance = 0
    BY DEF Init, Unpaid, Uncharged, NoCall
  <1> QED BY <1>1, <1>3, <1>4 DEF Ledger

LEMMA NextLedger == Inv /\ Ledger /\ [Next]_vars => Ledger'
  <1> SUFFICES ASSUME Inv, Ledger, [Next]_vars PROVE Ledger'
    OBVIOUS
  <1>1. CASE UNCHANGED vars
    BY <1>1 DEF vars, Ledger, Owing, Repaid, Unpaid, Uncharged, Left, Current
  <1>2. ASSUME NEW a \in Accounts, OperatorCall(a)
        PROVE  Ledger'
    BY <1>2, OperatorCallLedger
  <1>3. ASSUME NEW r \in DOMAIN rounds,
               (\E a \in Accounts : SubmitMerkleRoot(a, r)) \/ GenerateRandomNumber(r)
        PROVE  Ledger'
    BY <1>3, SubmitMerkleRootLedger, GenerateRandomNumberLedger
  <1> QED BY <1>1, <1>2, <1>3, RequestRandomNumberLedger, ChargeOperatorLedger,
             PayOperatorLedger DEF Next

\* The balance sheet that holds in the middle of the loops as well: what is still
\* to be charged counts as received, what is still to be paid as owed.
THEOREM LedgerInvariant == Spec => []Ledger
  <1>1. Init => Ledger
    BY InitLedger
  <1>2. Inv /\ Ledger /\ [Next]_vars => Ledger'
    BY NextLedger
  <1> QED BY <1>1, <1>2, ContractInvariant, PTL DEF Spec

\* Whoever pays, withdraws, is charged or is rewarded, and however the shares are
\* rounded: after every call the contract holds what it owes, but for what
\* repeated calls of generateRandomNumber have paid again.
THEOREM DepositsAlwaysBacked == Spec => []DepositsBacked
  <1>1. Inv /\ Ledger => DepositsBacked
    <2> SUFFICES ASSUME Inv, Ledger, call = NoCall
                 PROVE  Total(s_depositAmount) + Total(Owing) <= balance + Total(Repaid)
      BY DEF DepositsBacked, Owing, Repaid
    <2>1. Unpaid = 0 /\ Uncharged = 0
      BY DEF Unpaid, Uncharged, NoCall
    <2> QED BY <2>1, LedgerTyped DEF Ledger
  <1> QED BY <1>1, ContractInvariant, LedgerInvariant, PTL

=============================================================================
