-------------------------------- MODULE EthTx --------------------------------
(***************************************************************************)
(* ExecuteTransaction, called by several goroutines of the leader that     *)
(* share one account: the polling loop and the /cos handler send roots,    *)
(* the monitor random numbers, registration handlers activations.  Nonces  *)
(* are asked from the Ethereum node for every call and nothing serialises  *)
(* the calls.  A caller that gets an error tries again later.              *)
(***************************************************************************)
EXTENDS Integers, Sequences, FiniteSets

CONSTANTS
    Calls,       \* contract calls the leader has to make, each by its goroutine
    Once,        \* those the contract refuses once they are done, like activate
    Conditional, \* those it also refuses for the state others leave it in: activate
                 \* and generateRandomNumber, when there is no place for an operator
    Prices,      \* gas prices; a higher one is high enough for a replacement
    MaxAttempts, \* maxAttempt
    MaxTries,    \* bound: how often a caller tries
    MaxFaults,   \* bound: how many RPC queries fail
    MaxCrashes   \* bound: how often the leader restarts

ASSUME CallsAssumption == Once \subseteq Calls /\ Conditional \subseteq Calls
ASSUME BoundsAssumption ==
    /\ Prices \subseteq Nat
    /\ MaxAttempts > 0
    /\ {MaxAttempts, MaxTries, MaxFaults, MaxCrashes} \subseteq Nat

VARIABLES
    pc,       \* where each call is in ExecuteTransaction
    signedTx, \* its transaction
    attempt,  \* how often its gas estimation has failed
    tries,    \* how often its caller has called
    pool,     \* the account's transactions the node has accepted
    mined,    \* the account's transactions in the chain; the next has nonce Len(mined)
    faults, crashes

local == <<pc, signedTx, attempt, tries>>
vars == <<local, pool, mined, faults, crashes>>

Transactions == [call : Calls, nonce : Nat, price : Prices]
NoTx == [nonce |-> -1]
Running == {"send", "estimate", "wait"}

TypeOK ==
    /\ pc \in [Calls -> {"idle", "ok", "failed"} \cup Running]
    /\ signedTx \in [Calls -> Transactions \cup {NoTx}]
    /\ \A c \in Calls : pc[c] \in Running \cup {"ok"} =>
            signedTx[c] # NoTx /\ signedTx[c].call = c
    /\ attempt \in [Calls -> 0..MaxAttempts]
    /\ tries \in [Calls -> 0..MaxTries]
    /\ pool \subseteq Transactions
    /\ \A t, u \in pool : t.nonce = u.nonce => t = u
    /\ \A t \in pool : t.nonce >= Len(mined)
    /\ mined \in Seq([tx : Transactions, success : BOOLEAN])
    /\ \A k \in DOMAIN mined : mined[k].tx.nonce = k - 1
    /\ faults \in 0..MaxFaults
    /\ crashes \in 0..MaxCrashes

Init ==
    /\ pc = [c \in Calls |-> "idle"]
    /\ signedTx = [c \in Calls |-> NoTx]
    /\ attempt = [c \in Calls |-> 0]
    /\ tries = [c \in Calls |-> 0]
    /\ pool = {}
    /\ mined = <<>>
    /\ faults = 0
    /\ crashes = 0

Fault == faults < MaxFaults /\ faults' = faults + 1
Return(c, result) == pc' = [pc EXCEPT ![c] = result]

-----------------------------------------------------------------------------
\* The pending nonce: the first one that is neither mined nor in the pool.
PendingNonceAt ==
    CHOOSE n \in {Len(mined)} \cup {t.nonce + 1 : t \in pool} :
        /\ \A t \in pool : t.nonce # n
        /\ \A k \in Len(mined)..n - 1 : \E t \in pool : t.nonce = k

\* faulty variant: nonces are set aside for the calls about to send
PendingAndReserved ==
    PendingNonceAt + Cardinality({c \in Calls : pc[c] = "send"})

\* A transaction with the nonce of now and the gas price of now is signed.
Nonce == PendingNonceAt

Prepare(c) ==
    /\ pc[c] \in {"idle", "failed"} /\ tries[c] < MaxTries
    /\ tries' = [tries EXCEPT ![c] = @ + 1]
    /\ attempt' = [attempt EXCEPT ![c] = 0]
    /\ \/ /\ \E p \in Prices : signedTx' =
                [signedTx EXCEPT ![c] = [call |-> c, nonce |-> Nonce, price |-> p]]
          /\ Return(c, "send")
          /\ UNCHANGED faults
       \/ Fault /\ Return(c, "failed") /\ UNCHANGED signedTx
    /\ UNCHANGED <<pool, mined, crashes>>

\* The pool refuses an old nonce, a known transaction and a replacement that
\* does not pay more.
Accepts(t) ==
    /\ t.nonce >= Len(mined)
    /\ \A u \in pool : u.nonce = t.nonce => u.price < t.price

\* faulty variant: what it replaces stays
AddBeside(t) == pool' = pool \cup {t}

AddToPool(t) == pool' = {u \in pool : u.nonce # t.nonce} \cup {t}

SendTransaction(c) ==
    /\ pc[c] = "send"
    /\ IF Accepts(signedTx[c])
       THEN AddToPool(signedTx[c]) /\ Return(c, "estimate")
       ELSE UNCHANGED pool /\ Return(c, "failed")
    /\ UNCHANGED <<signedTx, attempt, tries, mined, faults, crashes>>

\* The query fails, before or after the transaction has been accepted.
SendTransactionFails(c) ==
    /\ pc[c] = "send" /\ Fault
    /\ Return(c, "failed")
    /\ UNCHANGED pool \/ (Accepts(signedTx[c]) /\ AddToPool(signedTx[c]))
    /\ UNCHANGED <<signedTx, attempt, tries, mined, crashes>>

-----------------------------------------------------------------------------
\* What the contract has executed.
Executed == {mined[k].tx.call : k \in {k \in DOMAIN mined : mined[k].success}}

\* Whether a call reverts on the mined state for what is modelled of it, and whether
\* it may revert: for what is not, or on the pending state - it depends on the node
\* which of the two an estimate is made on.
Reverts(c) == c \in Once /\ c \in Executed
MayRevert(c) ==
    \/ c \in Conditional
    \/ c \in Once /\ (c \in Executed \/ \E t \in pool : t.call = c)

\* Gas is estimated after sending, so the transaction may have been mined.
EstimateGas(c) ==
    /\ pc[c] = "estimate" /\ ~Reverts(c)
    /\ Return(c, "wait")
    /\ UNCHANGED <<signedTx, attempt, tries, pool, mined, faults, crashes>>

EstimateGasFails(c) ==
    /\ pc[c] = "estimate"
    /\ (MayRevert(c) /\ UNCHANGED faults) \/ Fault
    /\ attempt' = [attempt EXCEPT ![c] = @ + 1]
    /\ IF attempt'[c] = MaxAttempts THEN Return(c, "failed") ELSE UNCHANGED pc
    /\ UNCHANGED <<signedTx, tries, pool, mined, crashes>>

-----------------------------------------------------------------------------
\* faulty variant: the wait ends with the account's nonce, whoever used it
ReceiptsOfNonce(t) == {mined[k] : k \in {k \in DOMAIN mined : mined[k].tx.nonce = t.nonce}}

\* The receipts of a transaction: none or one.
Receipts(t) == {mined[k] : k \in {k \in DOMAIN mined : mined[k].tx = t}}

\* faulty variant: the caller is told of a failure when there is no receipt yet
GiveUp(c) ==
    /\ pc[c] = "wait"
    /\ \/ \E r \in Receipts(signedTx[c]) : Return(c, IF r.success THEN "ok" ELSE "failed")
       \/ Receipts(signedTx[c]) = {} /\ Return(c, "failed")
    /\ UNCHANGED <<signedTx, attempt, tries, pool, mined, faults, crashes>>

\* "not found" means wait and ask again, however long.
WaitForTransactionSuccess(c) ==
    /\ pc[c] = "wait"
    /\ \E r \in Receipts(signedTx[c]) : Return(c, IF r.success THEN "ok" ELSE "failed")
    /\ UNCHANGED <<signedTx, attempt, tries, pool, mined, faults, crashes>>

ReceiptFails(c) ==
    /\ pc[c] = "wait" /\ Fault
    /\ Return(c, "failed")
    /\ UNCHANGED <<signedTx, attempt, tries, pool, mined, crashes>>

-----------------------------------------------------------------------------
CanEnd(c, success) ==
    IF success THEN ~Reverts(c) ELSE Reverts(c) \/ c \in Conditional

\* The chain takes the account's transactions in the order of their nonces.
Mine ==
    \E t \in pool, success \in BOOLEAN :
        /\ t.nonce = Len(mined)
        /\ CanEnd(t.call, success)
        /\ mined' = Append(mined, [tx |-> t, success |-> success])
        /\ pool' = pool \ {t}
        /\ UNCHANGED <<local, faults, crashes>>

\* The leader restarts and knows of no transaction; its loops call again.
Crash ==
    /\ crashes < MaxCrashes
    /\ crashes' = crashes + 1
    /\ pc' = [c \in Calls |-> IF pc[c] = "ok" THEN "ok" ELSE "idle"]
    /\ signedTx' = [c \in Calls |-> IF pc[c] = "ok" THEN signedTx[c] ELSE NoTx]
    /\ attempt' = [c \in Calls |-> 0]
    /\ UNCHANGED <<tries, pool, mined, faults>>

Step(c) ==
    \/ SendTransaction(c) \/ SendTransactionFails(c)
    \/ EstimateGas(c) \/ EstimateGasFails(c)
    \/ WaitForTransactionSuccess(c) \/ ReceiptFails(c)

Next == (\E c \in Calls : Prepare(c) \/ Step(c)) \/ Mine \/ Crash

Spec == Init /\ [][Next]_vars

\* Goroutines run, and what can be mined is mined in the end.
Fairness == WF_vars(Mine) /\ \A c \in Calls : WF_vars(Step(c))
FairSpec == Spec /\ Fairness

-----------------------------------------------------------------------------
\* A call reported as successful has been executed, and by the transaction it
\* signed: not by another that took its nonce (waitForTransactionSuccess).
SuccessMeansExecuted ==
    \A c \in Calls : pc[c] = "ok" =>
        c \in Executed /\ [tx |-> signedTx[c], success |-> TRUE] \in Receipts(signedTx[c])

\* No transaction waits behind a nonce nobody has sent: a nonce that was pending
\* when it was asked for stays mined or pending, whoever sends, is replaced,
\* fails or restarts in between (ExecuteTransaction, PendingNonceAt to
\* SendTransaction).
PendingContiguous ==
    \A t \in pool : \A n \in Len(mined)..t.nonce : \E u \in pool : u.nonce = n

\* An estimate that reverts is reported as a failure although the transaction is
\* sent: what is executed after all may be executed again, unless the contract
\* refuses that.
Repeatable == Conditional \ Once

\* As long as no query fails and the leader runs, no other call is executed twice
\* although callers try again on every error: an error then means that the
\* transaction was refused or reverted.
TwiceOnlyAfterFault ==
    faults = 0 /\ crashes = 0 =>
        \A j, k \in DOMAIN mined :
            /\ mined[j].success /\ mined[k].success
            /\ mined[j].tx.call = mined[k].tx.call /\ mined[j].tx.call \notin Repeatable
            => j = k

\* The transaction a call waits for has been replaced by one that pays more for
\* the same nonce: it will never have a receipt.
Replaced(c) ==
    pc[c] = "wait" /\ signedTx[c] \notin pool /\ Receipts(signedTx[c]) = {}

\* Every call returns, but for one whose transaction is replaced: that one waits
\* for ever (waitForTransactionSuccess has no limit), and its goroutine with it.
CallsReturn ==
    \A c \in Calls : pc[c] \in Running ~> pc[c] \notin Running \/ Replaced(c)
=============================================================================
