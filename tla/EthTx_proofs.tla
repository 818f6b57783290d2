---------------------------- MODULE EthTx_proofs ----------------------------
(***************************************************************************)
(* Whatever the number of calls, prices, failures and restarts: nonces are *)
(* never left out, a success is the call's own, and without failures no    *)
(* call is executed twice.                                                 *)
(***************************************************************************)
EXTENDS EthTx, TLAPS

\* A gas estimation that has failed as often as it may is over.
AttemptsLeft ==
    \A c \in Calls : pc[c] \in {"send", "estimate"} => attempt[c] < MaxAttempts

TypeInv == TypeOK /\ AttemptsLeft

-----------------------------------------------------------------------------
\* Nothing is signed, sent or mined at the start.
LEMMA InitType == Init => TypeInv
<1> SUFFICES ASSUME Init PROVE TypeInv
  OBVIOUS
<1>1. 0 \in 0..MaxAttempts /\ 0 \in 0..MaxTries /\ 0 \in 0..MaxFaults /\ 0 \in 0..MaxCrashes
  BY BoundsAssumption
<1>2. mined \in Seq([tx : Transactions, success : BOOLEAN])
  BY DEF Init
<1> QED
  BY <1>1, <1>2 DEF Init, TypeInv, TypeOK, AttemptsLeft, Running

\* The pending nonce is a natural number if there is one at all.
LEMMA SignedType ==
    ASSUME TypeInv, NEW c \in Calls, NEW p \in Prices, PendingNonceAt \in Nat
    PROVE  /\ [call |-> c, nonce |-> PendingNonceAt, price |-> p] \in Transactions
           /\ [call |-> c, nonce |-> PendingNonceAt, price |-> p] # NoTx
BY DEF Transactions, NoTx

\* ExecuteTransaction up to the signature keeps the types.
LEMMA PrepareType ==
    ASSUME TypeInv, NEW c \in Calls, Prepare(c), PendingNonceAt \in Nat
    PROVE  TypeInv'
<1>1. tries' \in [Calls -> 0..MaxTries]
  BY BoundsAssumption DEF TypeInv, TypeOK, Prepare
<1>2. attempt' \in [Calls -> 0..MaxAttempts]
  BY BoundsAssumption DEF TypeInv, TypeOK, Prepare
<1>3. UNCHANGED <<pool, mined, crashes>>
  BY DEF Prepare
<1>4. CASE /\ \E p \in Prices : signedTx' =
                [signedTx EXCEPT ![c] = [call |-> c, nonce |-> Nonce, price |-> p]]
           /\ Return(c, "send")
           /\ UNCHANGED faults
  <2>1. PICK p \in Prices : signedTx' =
                [signedTx EXCEPT ![c] = [call |-> c, nonce |-> PendingNonceAt, price |-> p]]
    BY <1>4 DEF Nonce
  <2> DEFINE t == [call |-> c, nonce |-> PendingNonceAt, price |-> p]
  <2>2. t \in Transactions /\ t # NoTx /\ t.call = c
    BY SignedType
  <2> HIDE DEF t
  <2>3. signedTx' \in [Calls -> Transactions \cup {NoTx}]
    BY <2>1, <2>2 DEF TypeInv, TypeOK, t
  <2>4. \A d \in Calls : signedTx'[d] = IF d = c THEN t ELSE signedTx[d]
    BY <2>1 DEF TypeInv, TypeOK, t
  <2>5. \A d \in Calls : pc'[d] = IF d = c THEN "send" ELSE pc[d]
    BY <1>4 DEF TypeInv, TypeOK, Return
  <2>6. pc' \in [Calls -> {"idle", "ok", "failed"} \cup Running]
    BY <1>4 DEF TypeInv, TypeOK, Return, Running
  <2>7. AttemptsLeft'
    BY <2>5, BoundsAssumption DEF TypeInv, TypeOK, AttemptsLeft, Prepare
  <2> QED
    BY <1>1, <1>2, <1>3, <1>4, <2>2, <2>3, <2>4, <2>5, <2>6, <2>7 DEF TypeInv, TypeOK
<1>5. CASE Fault /\ Return(c, "failed") /\ UNCHANGED signedTx
  <2>1. faults' \in 0..MaxFaults
    BY <1>5, BoundsAssumption DEF TypeInv, TypeOK, Fault
  <2>2. \A d \in Calls : pc'[d] = IF d = c THEN "failed" ELSE pc[d]
    BY <1>5 DEF TypeInv, TypeOK, Return
  <2>3. pc' \in [Calls -> {"idle", "ok", "failed"} \cup Running]
    BY <1>5 DEF TypeInv, TypeOK, Return, Running
  <2>4. AttemptsLeft'
    BY <2>2 DEF TypeInv, TypeOK, AttemptsLeft, Prepare
  <2> QED
    BY <1>1, <1>2, <1>3, <1>5, <2>1, <2>2, <2>3, <2>4 DEF TypeInv, TypeOK, Running
<1> QED
  BY <1>4, <1>5 DEF Prepare

\* A new transaction in the pool replaces the one with its nonce.
LEMMA AddToPoolType ==
    ASSUME TypeInv, NEW t \in Transactions, Accepts(t), AddToPool(t), mined' = mined
    PROVE  /\ pool' \subseteq Transactions
           /\ \A u, v \in pool' : u.nonce = v.nonce => u = v
           /\ \A u \in pool' : u.nonce >= Len(mined)
BY DEF TypeInv, TypeOK, Accepts, AddToPool

\* What a call that is sending has signed.
LEMMA RunningSigned ==
    ASSUME TypeInv, NEW c \in Calls, pc[c] \in Running \cup {"ok"}
    PROVE  signedTx[c] \in Transactions /\ signedTx[c].call = c
BY DEF TypeInv, TypeOK

\* Sending, estimating, waiting: a call moves on with what it has signed.
LEMMA StepType ==
    ASSUME TypeInv, NEW c \in Calls, Step(c)
    PROVE  TypeInv'
<1> USE DEF TypeInv
<1>1. /\ UNCHANGED <<signedTx, tries, mined, crashes>>
      /\ pc[c] \in Running
  BY DEF Step, SendTransaction, SendTransactionFails, EstimateGas, EstimateGasFails,
         WaitForTransactionSuccess, ReceiptFails, Running
<1>2. faults' \in 0..MaxFaults
  BY BoundsAssumption
     DEF TypeOK, Step, SendTransaction, SendTransactionFails, EstimateGas,
         EstimateGasFails, WaitForTransactionSuccess, ReceiptFails, Fault
<1>3. signedTx[c] \in Transactions /\ signedTx[c].call = c /\ signedTx[c] # NoTx
  BY <1>1, RunningSigned DEF TypeOK
<1>4. /\ pool' \subseteq Transactions
      /\ \A u, v \in pool' : u.nonce = v.nonce => u = v
      /\ \A u \in pool' : u.nonce >= Len(mined)
  <2>1. pool' = pool \/ (Accepts(signedTx[c]) /\ AddToPool(signedTx[c]))
    BY DEF Step, SendTransaction, SendTransactionFails, EstimateGas, EstimateGasFails,
           WaitForTransactionSuccess, ReceiptFails
  <2> QED
    BY <1>1, <1>3, <2>1, AddToPoolType DEF TypeOK
<1>5. CASE ~EstimateGasFails(c)
  <2>1. \E r \in {"estimate", "wait", "ok", "failed"} :
            /\ Return(c, r)
            /\ r = "estimate" => pc[c] = "send"
    BY <1>5 DEF Step, SendTransaction, SendTransactionFails, EstimateGas,
                WaitForTransactionSuccess, ReceiptFails
  <2>2. PICK r \in {"estimate", "wait", "ok", "failed"} :
            /\ \A d \in Calls : pc'[d] = IF d = c THEN r ELSE pc[d]
            /\ pc' \in [Calls -> {"idle", "ok", "failed"} \cup Running]
            /\ r = "estimate" => pc[c] = "send"
    BY <2>1 DEF Return, TypeOK, Running
  <2>3. attempt' = attempt
    BY <1>5 DEF Step, SendTransaction, SendTransactionFails, EstimateGas,
                WaitForTransactionSuccess, ReceiptFails
  <2> QED
    BY <1>1, <1>2, <1>3, <1>4, <2>2, <2>3 DEF TypeOK, AttemptsLeft
<1>6. CASE EstimateGasFails(c)
  <2>1. attempt[c] < MaxAttempts /\ pc[c] = "estimate"
    BY <1>6 DEF EstimateGasFails, AttemptsLeft
  <2>2. /\ attempt' \in [Calls -> 0..MaxAttempts]
        /\ \A d \in Calls : attempt'[d] = IF d = c THEN attempt[c] + 1 ELSE attempt[d]
    BY <1>6, <2>1, BoundsAssumption DEF EstimateGasFails, TypeOK
  <2>3. CASE attempt'[c] = MaxAttempts
    <3>1. /\ \A d \in Calls : pc'[d] = IF d = c THEN "failed" ELSE pc[d]
          /\ pc' \in [Calls -> {"idle", "ok", "failed"} \cup Running]
      BY <1>6, <2>3 DEF EstimateGasFails, Return, TypeOK, Running
    <3> QED
      BY <1>1, <1>2, <1>3, <1>4, <2>2, <3>1 DEF TypeOK, AttemptsLeft
  <2>4. CASE attempt'[c] # MaxAttempts
    <3>1. pc' = pc
      BY <1>6, <2>4 DEF EstimateGasFails
    <3>2. attempt'[c] < MaxAttempts
      BY <2>2, <2>4, BoundsAssumption
    <3> QED
      BY <1>1, <1>2, <1>3, <1>4, <2>2, <3>1, <3>2 DEF TypeOK, AttemptsLeft
  <2> QED
    BY <2>3, <2>4
<1> QED
  BY <1>5, <1>6

\* What is mined next has the next nonce, and only its transaction leaves.
LEMMA MineFacts ==
    ASSUME TypeInv, NEW t \in pool, NEW success \in BOOLEAN, t.nonce = Len(mined),
           mined' = Append(mined, [tx |-> t, success |-> success]),
           pool' = pool \ {t}
    PROVE  /\ mined' \in Seq([tx : Transactions, success : BOOLEAN])
           /\ Len(mined') = Len(mined) + 1 /\ Len(mined) \in Nat
           /\ \A k \in DOMAIN mined' : mined'[k].tx.nonce = k - 1
           /\ \A k \in DOMAIN mined : k \in DOMAIN mined' /\ mined'[k] = mined[k]
           /\ mined'[Len(mined) + 1] = [tx |-> t, success |-> success]
           /\ DOMAIN mined' = DOMAIN mined \cup {Len(mined) + 1}
           /\ Len(mined) + 1 \notin DOMAIN mined
           /\ \A u \in pool' : u.nonce >= Len(mined')
<1> DEFINE r == [tx |-> t, success |-> success]
<1>1. mined \in Seq([tx : Transactions, success : BOOLEAN]) /\ t \in Transactions
  BY DEF TypeInv, TypeOK
<1>2. success \in BOOLEAN
  OBVIOUS
<1>3. r \in [tx : Transactions, success : BOOLEAN] /\ r.tx = t
  BY <1>1, <1>2
<1> HIDE DEF r
<1>4. /\ mined' \in Seq([tx : Transactions, success : BOOLEAN])
      /\ Len(mined') = Len(mined) + 1 /\ Len(mined) \in Nat
      /\ \A k \in 1..Len(mined) : mined'[k] = mined[k]
      /\ mined'[Len(mined) + 1] = r
  BY <1>1, <1>3 DEF r
<1>5. DOMAIN mined = 1..Len(mined) /\ DOMAIN mined' = 1..Len(mined) + 1
  BY <1>1, <1>4
<1>6. \A k \in DOMAIN mined' : mined'[k].tx.nonce = k - 1
  <2> TAKE k \in DOMAIN mined'
  <2>1. CASE k \in 1..Len(mined)
    BY <1>4, <1>5, <2>1 DEF TypeInv, TypeOK
  <2>2. CASE k = Len(mined) + 1
    BY <1>3, <1>4, <2>2
  <2> QED
    BY <1>4, <1>5, <2>1, <2>2
<1>7. \A u \in pool' : u.nonce >= Len(mined) + 1
  <2> TAKE u \in pool'
  <2>1. u \in pool /\ u # t /\ u.nonce \in Nat /\ u.nonce >= Len(mined)
    BY DEF TypeInv, TypeOK, Transactions
  <2>2. u.nonce # Len(mined)
    BY <2>1 DEF TypeInv, TypeOK
  <2> QED
    BY <1>4, <2>1, <2>2
<1> QED
  BY <1>4, <1>5, <1>6, <1>7 DEF r

\* Mining keeps the types.
LEMMA MineType ==
    ASSUME TypeInv, Mine
    PROVE  TypeInv'
<1>1. PICK t \in pool, success \in BOOLEAN :
        /\ t.nonce = Len(mined)
        /\ mined' = Append(mined, [tx |-> t, success |-> success])
        /\ pool' = pool \ {t}
        /\ UNCHANGED <<local, faults, crashes>>
  BY DEF Mine
<1>2. /\ mined' \in Seq([tx : Transactions, success : BOOLEAN])
      /\ \A k \in DOMAIN mined' : mined'[k].tx.nonce = k - 1
      /\ \A u \in pool' : u.nonce >= Len(mined')
  BY <1>1, MineFacts
<1> QED
  BY <1>1, <1>2 DEF TypeInv, TypeOK, AttemptsLeft, local

\* A restart of the leader keeps the types.
LEMMA CrashType ==
    ASSUME TypeInv, Crash
    PROVE  TypeInv'
<1>1. crashes' \in 0..MaxCrashes /\ 0 \in 0..MaxAttempts
  BY BoundsAssumption DEF TypeInv, TypeOK, Crash
<1>2. /\ \A c \in Calls : pc'[c] = IF pc[c] = "ok" THEN "ok" ELSE "idle"
      /\ pc' \in [Calls -> {"idle", "ok", "failed"} \cup Running]
  BY DEF Crash, Running
<1>3. /\ \A c \in Calls : signedTx'[c] = IF pc[c] = "ok" THEN signedTx[c] ELSE NoTx
      /\ signedTx' \in [Calls -> Transactions \cup {NoTx}]
  BY DEF TypeInv, TypeOK, Crash
<1>4. attempt' \in [Calls -> 0..MaxAttempts]
  BY <1>1 DEF Crash
<1>5. UNCHANGED <<tries, pool, mined, faults>>
  BY DEF Crash
<1> QED
  BY <1>1, <1>2, <1>3, <1>4, <1>5 DEF TypeInv, TypeOK, AttemptsLeft, Running

-----------------------------------------------------------------------------
\* The pool holds the nonces from the next one to be mined up to some m, and
\* whatever is about to be sent has at most m: no later step can undo that.
PoolIsRange ==
    \E m \in Nat : m >= Len(mined) /\ {t.nonce : t \in pool} = Len(mined)..m - 1

NoncesBelowPending ==
    \A c \in Calls : pc[c] = "send" =>
        \A n \in Len(mined)..signedTx[c].nonce - 1 : \E u \in pool : u.nonce = n

NonceInv == TypeInv /\ PoolIsRange /\ NoncesBelowPending

\* The pool starts empty.
LEMMA InitNonce == Init => NonceInv
<1> SUFFICES ASSUME Init PROVE NonceInv
  OBVIOUS
<1>1. Len(mined) = 0 /\ {t.nonce : t \in pool} = {} /\ 0..0 - 1 = {}
  BY DEF Init
<1>2. PoolIsRange
  <2>1. 0 \in Nat /\ 0 >= Len(mined) /\ {t.nonce : t \in pool} = Len(mined)..0 - 1
    BY <1>1
  <2> QED
    BY <2>1 DEF PoolIsRange
<1>3. NoncesBelowPending
  BY DEF Init, NoncesBelowPending
<1> QED
  BY <1>2, <1>3, InitType DEF NonceInv

\* PendingNonceAt is defined, and every nonce before it is mined or in the pool.
LEMMA PendingNonce ==
    ASSUME NonceInv
    PROVE  /\ PendingNonceAt \in Nat
           /\ \A k \in Len(mined)..PendingNonceAt - 1 : \E t \in pool : t.nonce = k
<1> DEFINE Candidates == {Len(mined)} \cup {t.nonce + 1 : t \in pool}
           Pending(n) == /\ \A t \in pool : t.nonce # n
                         /\ \A k \in Len(mined)..n - 1 : \E t \in pool : t.nonce = k
<1>1. Len(mined) \in Nat /\ \A t \in pool : t.nonce \in Nat
  BY DEF NonceInv, TypeInv, TypeOK, Transactions
<1>2. PICK m \in Nat : m >= Len(mined) /\ {t.nonce : t \in pool} = Len(mined)..m - 1
  BY DEF NonceInv, PoolIsRange
<1>3. m \in Candidates
  <2>1. CASE m = Len(mined)
    BY <2>1
  <2>2. CASE m # Len(mined)
    <3>1. m - 1 \in Len(mined)..m - 1
      BY <1>1, <1>2, <2>2
    <3>2. PICK t \in pool : t.nonce = m - 1
      BY <1>2, <3>1
    <3> QED
      BY <3>2
  <2> QED
    BY <2>1, <2>2
<1>4. Pending(m)
  <2>1. m \notin Len(mined)..m - 1
    OBVIOUS
  <2> QED
    BY <1>2, <2>1
<1>5. PendingNonceAt \in Candidates /\ Pending(PendingNonceAt)
  BY <1>3, <1>4 DEF PendingNonceAt
<1>6. Candidates \subseteq Nat
  BY <1>1
<1> QED
  BY <1>5, <1>6

\* A pool that holds a range of nonces still does after a transaction whose
\* nonce is in the range or the next one.
LEMMA AddToPoolNonces ==
    ASSUME NonceInv, NEW t \in Transactions, Accepts(t), AddToPool(t), mined' = mined,
           \A n \in Len(mined)..t.nonce - 1 : \E u \in pool : u.nonce = n
    PROVE  /\ PoolIsRange'
           /\ \A u \in pool : \E v \in pool' : v.nonce = u.nonce
<1>1. Len(mined) \in Nat /\ t.nonce \in Nat /\ t.nonce >= Len(mined)
  BY DEF NonceInv, TypeInv, TypeOK, Accepts, Transactions
<1>2. PICK m \in Nat : m >= Len(mined) /\ {u.nonce : u \in pool} = Len(mined)..m - 1
  BY DEF NonceInv, PoolIsRange
<1>3. {u.nonce : u \in pool'} = {u.nonce : u \in pool} \cup {t.nonce}
  BY DEF AddToPool
<1>4. t.nonce <= m
  <2> SUFFICES ASSUME t.nonce > m PROVE FALSE
    BY <1>1, <1>2
  <2>1. m \in Len(mined)..t.nonce - 1
    BY <1>1, <1>2
  <2>2. m \in {u.nonce : u \in pool}
    BY <2>1
  <2> QED
    BY <1>2, <2>2
<1>5. CASE t.nonce = m
  <2>1. {u.nonce : u \in pool'} = Len(mined)..(m + 1) - 1
    <3>1. (Len(mined)..m - 1) \cup {m} = Len(mined)..(m + 1) - 1
      BY <1>1, <1>2
    <3> QED
      BY <1>2, <1>3, <1>5, <3>1
  <2>2. m + 1 \in Nat /\ m + 1 >= Len(mined') /\ Len(mined') = Len(mined)
    BY <1>1, <1>2
  <2>3. PoolIsRange'
    BY <2>1, <2>2 DEF PoolIsRange
  <2> QED
    BY <1>3, <2>3
<1>6. CASE t.nonce < m
  <2>1. {u.nonce : u \in pool'} = Len(mined)..m - 1
    <3>1. t.nonce \in Len(mined)..m - 1
      BY <1>1, <1>2, <1>6
    <3> QED
      BY <1>2, <1>3, <3>1
  <2>2. PoolIsRange'
    BY <1>2, <2>1 DEF PoolIsRange
  <2> QED
    BY <1>3, <2>2
<1> QED
  BY <1>1, <1>2, <1>4, <1>5, <1>6

\* Signing uses the pending nonce.
LEMMA PrepareNonce ==
    ASSUME NonceInv, NEW c \in Calls, Prepare(c)
    PROVE  NonceInv'
<1>1. TypeInv'
  BY PendingNonce, PrepareType DEF NonceInv
<1>2. PoolIsRange'
  BY DEF NonceInv, PoolIsRange, Prepare
<1>3. NoncesBelowPending'
  <2> SUFFICES ASSUME NEW d \in Calls, pc'[d] = "send",
                      NEW n \in Len(mined)..signedTx'[d].nonce - 1
               PROVE  \E u \in pool : u.nonce = n
    BY DEF NoncesBelowPending, Prepare
  <2>1. CASE d = c
    <3>1. signedTx'[c].nonce = PendingNonceAt
      BY <2>1 DEF Prepare, Return, Nonce, NonceInv, TypeInv, TypeOK
    <3> QED
      BY <2>1, <3>1, PendingNonce
  <2>2. CASE d # c
    <3>1. pc[d] = "send" /\ signedTx'[d] = signedTx[d]
      BY <2>2 DEF Prepare, Return, NonceInv, TypeInv, TypeOK
    <3> QED
      BY <3>1 DEF NonceInv, NoncesBelowPending
  <2> QED
    BY <2>1, <2>2
<1> QED
  BY <1>1, <1>2, <1>3 DEF NonceInv

\* Sending adds a nonce in the range or next to it; later steps add none.
LEMMA StepNonce ==
    ASSUME NonceInv, NEW c \in Calls, Step(c)
    PROVE  NonceInv'
<1>1. TypeInv'
  BY StepType DEF NonceInv
<1>2. /\ UNCHANGED <<signedTx, mined>>
      /\ \A d \in Calls : pc'[d] = "send" => pc[d] = "send"
  BY DEF Step, SendTransaction, SendTransactionFails, EstimateGas, EstimateGasFails,
         WaitForTransactionSuccess, ReceiptFails, Return, NonceInv, TypeInv, TypeOK
<1>3. \/ pool' = pool
      \/ pc[c] = "send" /\ Accepts(signedTx[c]) /\ AddToPool(signedTx[c])
  BY DEF Step, SendTransaction, SendTransactionFails, EstimateGas, EstimateGasFails,
         WaitForTransactionSuccess, ReceiptFails
<1>4. PoolIsRange' /\ \A u \in pool : \E v \in pool' : v.nonce = u.nonce
  <2>1. CASE pool' = pool
    BY <1>2, <2>1 DEF NonceInv, PoolIsRange
  <2>2. CASE pc[c] = "send" /\ Accepts(signedTx[c]) /\ AddToPool(signedTx[c])
    <3>1. signedTx[c] \in Transactions
      BY <2>2, RunningSigned DEF NonceInv, Running
    <3>2. \A n \in Len(mined)..signedTx[c].nonce - 1 : \E u \in pool : u.nonce = n
      BY <2>2 DEF NonceInv, NoncesBelowPending
    <3> QED
      BY <1>2, <2>2, <3>1, <3>2, AddToPoolNonces
  <2> QED
    BY <1>3, <2>1, <2>2
<1>5. NoncesBelowPending'
  BY <1>2, <1>4 DEF NonceInv, NoncesBelowPending
<1> QED
  BY <1>1, <1>4, <1>5 DEF NonceInv

\* Mining takes the lowest nonce from the range.
LEMMA MineNonce ==
    ASSUME NonceInv, Mine
    PROVE  NonceInv'
<1>1. PICK t \in pool, success \in BOOLEAN :
        /\ t.nonce = Len(mined)
        /\ mined' = Append(mined, [tx |-> t, success |-> success])
        /\ pool' = pool \ {t}
        /\ UNCHANGED <<local, faults, crashes>>
  BY DEF Mine
<1>2. TypeInv' /\ Len(mined') = Len(mined) + 1 /\ Len(mined) \in Nat
  BY <1>1, MineType, MineFacts DEF NonceInv
<1>3. PICK m \in Nat : m >= Len(mined) /\ {u.nonce : u \in pool} = Len(mined)..m - 1
  BY DEF NonceInv, PoolIsRange
<1>4. {u.nonce : u \in pool'} = {u.nonce : u \in pool} \ {Len(mined)}
  <2>1. \A u \in pool : u.nonce = t.nonce => u = t
    BY DEF NonceInv, TypeInv, TypeOK
  <2> QED
    BY <1>1, <2>1
<1>5. m >= Len(mined) + 1
  BY <1>1, <1>2, <1>3
<1>6. {u.nonce : u \in pool'} = Len(mined')..m - 1
  BY <1>2, <1>3, <1>4
<1>7. PoolIsRange'
  BY <1>2, <1>5, <1>6 DEF PoolIsRange
<1>8. NoncesBelowPending'
  <2> SUFFICES ASSUME NEW d \in Calls, pc[d] = "send",
                      NEW n \in Len(mined) + 1..signedTx[d].nonce - 1
               PROVE  \E u \in pool' : u.nonce = n
    BY <1>1, <1>2 DEF NoncesBelowPending, local
  <2>1. signedTx[d].nonce \in Nat
    BY RunningSigned DEF NonceInv, Running, Transactions
  <2>2. n \in Len(mined)..signedTx[d].nonce - 1 /\ n # Len(mined)
    BY <1>2, <2>1
  <2>3. PICK u \in pool : u.nonce = n
    BY <2>2 DEF NonceInv, NoncesBelowPending
  <2> QED
    BY <1>1, <2>2, <2>3
<1> QED
  BY <1>2, <1>7, <1>8 DEF NonceInv

\* After a restart nothing is about to be sent.
LEMMA CrashNonce ==
    ASSUME NonceInv, Crash
    PROVE  NonceInv'
<1>1. TypeInv'
  BY CrashType DEF NonceInv
<1>2. PoolIsRange'
  BY DEF NonceInv, PoolIsRange, Crash
<1>3. NoncesBelowPending'
  BY DEF NoncesBelowPending, Crash
<1> QED
  BY <1>1, <1>2, <1>3 DEF NonceInv

\* The inductive invariant about nonces.
THEOREM NonceInvariant == Spec => []NonceInv
<1>1. ASSUME NonceInv, [Next]_vars PROVE NonceInv'
  <2>1. CASE \E c \in Calls : Prepare(c) \/ Step(c)
    BY <1>1, <2>1, PrepareNonce, StepNonce
  <2>2. CASE Mine
    BY <1>1, <2>2, MineNonce
  <2>3. CASE Crash
    BY <1>1, <2>3, CrashNonce
  <2>4. CASE UNCHANGED vars
    BY <1>1, <2>4 DEF NonceInv, TypeInv, TypeOK, AttemptsLeft, PoolIsRange,
                      NoncesBelowPending, vars, local
  <2> QED
    BY <1>1, <2>1, <2>2, <2>3, <2>4 DEF Next
<1> QED
  BY <1>1, InitNonce, PTL DEF Spec

\* Types are right for any number of calls (ExecuteTransaction).
THEOREM TxTypeCorrect == Spec => []TypeOK
<1>1. NonceInv => TypeOK
  BY DEF NonceInv, TypeInv
<1> QED
  BY <1>1, NonceInvariant, PTL

\* No transaction ever waits behind a nonce that is neither mined nor pending
\* (PendingNonceAt to SendTransaction).
THEOREM NoNonceLeftOut == Spec => []PendingContiguous
<1>1. NonceInv => PendingContiguous
  <2> SUFFICES ASSUME NonceInv, NEW t \in pool, NEW n \in Len(mined)..t.nonce
               PROVE  \E u \in pool : u.nonce = n
    BY DEF PendingContiguous
  <2>1. PICK m \in Nat : {u.nonce : u \in pool} = Len(mined)..m - 1
    BY DEF NonceInv, PoolIsRange
  <2>2. Len(mined) \in Nat /\ t.nonce \in Len(mined)..m - 1
    BY <2>1 DEF NonceInv, TypeInv, TypeOK
  <2>3. n \in Len(mined)..m - 1
    BY <2>2
  <2> QED
    BY <2>1, <2>3
<1> QED
  BY <1>1, NonceInvariant, PTL

-----------------------------------------------------------------------------
\* What is mined is a transaction with its outcome.
LEMMA MinedElement ==
    ASSUME NEW S, NEW s \in Seq(S), NEW k \in DOMAIN s
    PROVE  s[k] \in S
OBVIOUS

\* A call does not touch what other calls have signed or where they are.
LEMMA OthersUnchanged ==
    ASSUME TypeInv, NEW c \in Calls, Prepare(c) \/ Step(c), NEW d \in Calls, d # c
    PROVE  pc'[d] = pc[d] /\ signedTx'[d] = signedTx[d]
<1>1. (\E r : Return(c, r)) \/ pc' = pc
  BY DEF Prepare, Step, SendTransaction, SendTransactionFails, EstimateGas, EstimateGasFails,
         WaitForTransactionSuccess, ReceiptFails
<1>2. pc'[d] = pc[d]
  BY <1>1 DEF Return, TypeInv, TypeOK
<1>3. (\E t : signedTx' = [signedTx EXCEPT ![c] = t]) \/ signedTx' = signedTx
  BY DEF Prepare, Step, SendTransaction, SendTransactionFails, EstimateGas, EstimateGasFails,
         WaitForTransactionSuccess, ReceiptFails
<1> QED
  BY <1>2, <1>3 DEF TypeInv, TypeOK

\* A call that has returned success does not run again.
LEMMA SuccessStays ==
    ASSUME TypeInv, NEW c \in Calls, pc[c] = "ok"
    PROVE  ~Prepare(c) /\ ~Step(c)
BY DEF Prepare, Step, SendTransaction, SendTransactionFails, EstimateGas, EstimateGasFails,
       WaitForTransactionSuccess, ReceiptFails

\* A success stays one: what is mined stays, and a call that has returned is left
\* alone.
LEMMA ReceiptsStay ==
    ASSUME TypeInv, [Next]_vars
    PROVE  \A r : (\E k \in DOMAIN mined : mined[k] = r)
                => \E k \in DOMAIN mined' : mined'[k] = r
<1>1. CASE Mine
  <2>1. PICK t \in pool, success \in BOOLEAN :
          /\ t.nonce = Len(mined)
          /\ mined' = Append(mined, [tx |-> t, success |-> success])
          /\ pool' = pool \ {t}
    BY <1>1 DEF Mine
  <2> QED
    BY <2>1, MineFacts
<1>2. CASE ~Mine
  <2>1. mined' = mined
    BY <1>2 DEF Next, vars, Prepare, Step, SendTransaction, SendTransactionFails, EstimateGas,
                EstimateGasFails, WaitForTransactionSuccess, ReceiptFails, Crash
  <2> QED
    BY <2>1
<1> QED
  BY <1>1, <1>2

\* The own transaction of a successful call is mined and did not revert.
SuccessIsOwn ==
    \A c \in Calls : pc[c] = "ok" =>
        \E k \in DOMAIN mined : mined[k] = [tx |-> signedTx[c], success |-> TRUE]

\* A call returns success only with its own receipt, and stays returned.
LEMMA SuccessStep ==
    ASSUME TypeInv, SuccessIsOwn, [Next]_vars
    PROVE  SuccessIsOwn'
<1> SUFFICES ASSUME NEW c \in Calls, pc'[c] = "ok"
             PROVE  \E k \in DOMAIN mined' : mined'[k] = [tx |-> signedTx'[c], success |-> TRUE]
  BY DEF SuccessIsOwn
<1>1. CASE pc[c] = "ok"
  <2>1. signedTx'[c] = signedTx[c]
    <3>1. ASSUME NEW d \in Calls, Prepare(d) \/ Step(d) PROVE signedTx'[c] = signedTx[c]
      BY <1>1, <3>1, SuccessStays, OthersUnchanged
    <3>2. ASSUME Mine \/ Crash \/ UNCHANGED vars PROVE signedTx'[c] = signedTx[c]
      BY <1>1, <3>2 DEF Mine, Crash, vars, local
    <3> QED
      BY <3>1, <3>2 DEF Next
  <2>2. \E k \in DOMAIN mined : mined[k] = [tx |-> signedTx[c], success |-> TRUE]
    BY <1>1 DEF SuccessIsOwn
  <2> QED
    BY <2>1, <2>2, ReceiptsStay
<1>2. CASE pc[c] # "ok"
  <2>1. WaitForTransactionSuccess(c)
    <3>1. ASSUME NEW d \in Calls, Prepare(d) \/ Step(d) PROVE d = c
      BY <1>2, <3>1, OthersUnchanged
    <3>2. ~Mine /\ ~Crash /\ ~UNCHANGED vars
      BY <1>2 DEF Mine, Crash, vars, local
    <3>3. Prepare(c) \/ Step(c)
      BY <3>1, <3>2 DEF Next
    <3> QED
      BY <1>2, <3>3 DEF Prepare, Step, SendTransaction, SendTransactionFails, EstimateGas,
            EstimateGasFails, ReceiptFails, Return, TypeInv, TypeOK
  <2>2. PICK r \in Receipts(signedTx[c]) : Return(c, IF r.success THEN "ok" ELSE "failed")
    BY <2>1 DEF WaitForTransactionSuccess
  <2>3. r.success
    BY <1>2, <2>2 DEF Return, TypeInv, TypeOK
  <2>4. PICK k \in DOMAIN mined : mined[k] = r /\ r.tx = signedTx[c]
    BY <2>2 DEF Receipts
  <2>5. r \in [tx : Transactions, success : BOOLEAN]
    <3>1. mined \in Seq([tx : Transactions, success : BOOLEAN])
      BY DEF TypeInv, TypeOK
    <3> QED
      BY <2>4, <3>1, MinedElement
  <2>6. r = [tx |-> signedTx[c], success |-> TRUE]
    BY <2>3, <2>4, <2>5
  <2>7. signedTx' = signedTx /\ mined' = mined
    BY <2>1 DEF WaitForTransactionSuccess
  <2> QED
    BY <2>4, <2>6, <2>7
<1> QED
  BY <1>1, <1>2

\* A success is the call's own: its transaction is mined and did not revert
\* (waitForTransactionSuccess).
THEOREM SuccessIsExecuted == Spec => []SuccessMeansExecuted
<1>1. Init => SuccessIsOwn
  BY DEF Init, SuccessIsOwn
<1>2. NonceInv /\ SuccessIsOwn /\ [Next]_vars => SuccessIsOwn'
  BY SuccessStep DEF NonceInv
<1>3. NonceInv /\ SuccessIsOwn => SuccessMeansExecuted
  <2> SUFFICES ASSUME NonceInv, SuccessIsOwn, NEW c \in Calls, pc[c] = "ok"
               PROVE  /\ c \in Executed
                      /\ [tx |-> signedTx[c], success |-> TRUE] \in Receipts(signedTx[c])
    BY DEF SuccessMeansExecuted
  <2>1. PICK k \in DOMAIN mined : mined[k] = [tx |-> signedTx[c], success |-> TRUE]
    BY DEF SuccessIsOwn
  <2>2. mined[k].success /\ mined[k].tx = signedTx[c] /\ signedTx[c].call = c
    BY <2>1, RunningSigned DEF NonceInv
  <2> QED
    BY <2>1, <2>2 DEF Executed, Receipts
<1> QED
  BY <1>1, <1>2, <1>3, NonceInvariant, PTL DEF Spec

-----------------------------------------------------------------------------
\* While nothing fails, the only transaction of a call the contract always takes is
\* the one it has signed, and it has not returned with an error.
Sent == pool \cup {mined[k].tx : k \in DOMAIN mined}

OnlyOwn ==
    faults = 0 /\ crashes = 0 =>
        \A t \in Sent : t.call \notin Once \cup Conditional =>
            pc[t.call] \in {"estimate", "wait", "ok"} /\ t = signedTx[t.call]

\* Calls that may run once are executed once, those that the contract always takes
\* never revert.
OnceIsOnce ==
    /\ \A j, k \in DOMAIN mined :
        /\ mined[j].success /\ mined[k].success
        /\ mined[j].tx.call = mined[k].tx.call /\ mined[j].tx.call \in Once
        => j = k
    /\ \A k \in DOMAIN mined : mined[k].tx.call \notin Once \cup Conditional => mined[k].success

RepeatInv == TypeInv /\ OnlyOwn /\ OnceIsOnce

\* A call that has something to lose from trying again does not: without
\* failures it ends with an error only before its transaction is accepted.
LEMMA OnlyOwnStep ==
    ASSUME RepeatInv, [Next]_vars, TypeInv'
    PROVE  OnlyOwn'
<1> SUFFICES ASSUME faults' = 0, crashes' = 0, NEW t \in Sent', t.call \notin Once \cup Conditional
             PROVE  pc'[t.call] \in {"estimate", "wait", "ok"} /\ t = signedTx'[t.call]
  BY DEF OnlyOwn
<1>1. faults \in Nat /\ crashes \in Nat
  BY BoundsAssumption DEF RepeatInv, TypeInv, TypeOK
<1>2. faults = 0 /\ crashes = 0 /\ ~Crash /\ ~Fault
  <2>1. ~Fault /\ ~Crash
    BY <1>1 DEF Fault, Crash
  <2>2. UNCHANGED <<faults, crashes>>
    BY <2>1 DEF Next, vars, Prepare, Step, SendTransaction, SendTransactionFails, EstimateGas,
           EstimateGasFails, WaitForTransactionSuccess, ReceiptFails, Mine
  <2> QED
    BY <2>1, <2>2
<1> t.call \in Calls
  <2>1. mined' \in Seq([tx : Transactions, success : BOOLEAN]) /\ pool' \subseteq Transactions
    BY DEF TypeInv, TypeOK
  <2>2. \A k \in DOMAIN mined' : mined'[k] \in [tx : Transactions, success : BOOLEAN]
    BY <2>1, MinedElement
  <2>3. t \in Transactions
    BY <2>1, <2>2 DEF Sent
  <2> QED
    BY <2>3 DEF Transactions
<1>3. ASSUME t \in Sent
      PROVE  pc[t.call] \in {"estimate", "wait", "ok"} /\ t = signedTx[t.call]
  BY <1>2, <1>3 DEF RepeatInv, OnlyOwn
<1>4. ASSUME NEW c \in Calls, Prepare(c)
      PROVE  pc'[t.call] \in {"estimate", "wait", "ok"} /\ t = signedTx'[t.call]
  <2>1. t \in Sent
    BY <1>4 DEF Sent, Prepare
  <2>2. t.call # c
    BY <1>3, <1>4, <2>1 DEF Prepare
  <2>3. pc'[t.call] = pc[t.call] /\ signedTx'[t.call] = signedTx[t.call]
    BY <1>4, <2>2, OthersUnchanged DEF RepeatInv
  <2> QED
    BY <1>3, <2>1, <2>3
<1>5. ASSUME NEW c \in Calls, Step(c)
      PROVE  pc'[t.call] \in {"estimate", "wait", "ok"} /\ t = signedTx'[t.call]
  <2>1. signedTx' = signedTx /\ mined' = mined
    BY <1>5 DEF Step, SendTransaction, SendTransactionFails, EstimateGas, EstimateGasFails,
                WaitForTransactionSuccess, ReceiptFails
  <2>2. CASE t \in Sent
    <3>1. pc[t.call] \in {"estimate", "wait", "ok"} /\ t = signedTx[t.call]
      BY <1>3, <2>2
    <3>2. CASE t.call # c
      <4>1. pc'[t.call] = pc[t.call]
        BY <1>5, <3>2, OthersUnchanged DEF RepeatInv
      <4> QED
        BY <2>1, <3>1, <4>1
    <3>3. CASE t.call = c /\ pc[c] = "estimate"
      <4>1. EstimateGas(c)
        BY <1>2, <1>5, <3>3 DEF Step, SendTransaction, SendTransactionFails, EstimateGasFails,
              WaitForTransactionSuccess, ReceiptFails, MayRevert
      <4>2. pc'[c] = "wait"
        BY <4>1 DEF EstimateGas, Return, RepeatInv, TypeInv, TypeOK
      <4> QED
        BY <2>1, <3>1, <3>3, <4>2
    <3>4. CASE t.call = c /\ pc[c] = "wait"
      <4>1. WaitForTransactionSuccess(c)
        BY <1>2, <1>5, <3>4 DEF Step, SendTransaction, SendTransactionFails, EstimateGas,
              EstimateGasFails, ReceiptFails
      <4>2. PICK r \in Receipts(signedTx[c]) :
                Return(c, IF r.success THEN "ok" ELSE "failed")
        BY <4>1 DEF WaitForTransactionSuccess
      <4>3. PICK k \in DOMAIN mined : mined[k] = r /\ r.tx = signedTx[c]
        BY <4>2 DEF Receipts
      <4>4. r.success
        BY <3>1, <3>4, <4>3 DEF RepeatInv, OnceIsOnce
      <4>5. pc'[c] = "ok"
        BY <4>2, <4>4 DEF Return, RepeatInv, TypeInv, TypeOK
      <4> QED
        BY <2>1, <3>1, <3>4, <4>5
    <3>5. CASE t.call = c /\ pc[c] = "ok"
      BY <1>5, <3>5 DEF Step, SendTransaction, SendTransactionFails, EstimateGas,
            EstimateGasFails, WaitForTransactionSuccess, ReceiptFails
    <3> QED
      BY <3>1, <3>2, <3>3, <3>4, <3>5
  <2>3. CASE t \notin Sent
    <3>1. t \in pool' /\ t \notin pool
      BY <2>1, <2>3 DEF Sent
    <3>2. SendTransaction(c) /\ Accepts(signedTx[c])
      BY <1>2, <1>5, <3>1 DEF Step, SendTransaction, SendTransactionFails, EstimateGas,
            EstimateGasFails, WaitForTransactionSuccess, ReceiptFails
    <3>3. t = signedTx[c]
      BY <3>1, <3>2 DEF SendTransaction, AddToPool
    <3>4. t.call = c
      BY <3>2, <3>3, RunningSigned DEF SendTransaction, Running, RepeatInv
    <3>5. pc'[c] = "estimate"
      BY <3>2 DEF SendTransaction, Return, RepeatInv, TypeInv, TypeOK
    <3> QED
      BY <2>1, <3>3, <3>4, <3>5
  <2> QED
    BY <2>2, <2>3
<1>6. CASE Mine
  <2>1. PICK u \in pool, success \in BOOLEAN :
          /\ u.nonce = Len(mined)
          /\ CanEnd(u.call, success)
          /\ mined' = Append(mined, [tx |-> u, success |-> success])
          /\ pool' = pool \ {u}
          /\ UNCHANGED <<local, faults, crashes>>
    BY <1>6 DEF Mine
  <2>2. \A k \in DOMAIN mined' : mined'[k].tx \in Sent
    <3> TAKE k \in DOMAIN mined'
    <3>1. CASE k \in DOMAIN mined
      BY <2>1, <3>1, MineFacts DEF RepeatInv, Sent
    <3>2. CASE k \notin DOMAIN mined
      <4>1. mined'[k] = [tx |-> u, success |-> success]
        BY <2>1, <3>2, MineFacts DEF RepeatInv
      <4> QED
        BY <4>1 DEF Sent
    <3> QED
      BY <3>1, <3>2
  <2>3. t \in Sent
    BY <2>1, <2>2 DEF Sent
  <2> QED
    BY <1>3, <2>1, <2>3 DEF local
<1>7. CASE UNCHANGED vars
  <2>1. t \in Sent
    BY <1>7 DEF Sent, vars
  <2> QED
    BY <1>3, <1>7, <2>1 DEF vars, local
<1> QED
  BY <1>2, <1>4, <1>5, <1>6, <1>7 DEF Next

\* The contract refuses what may run once and has run.
LEMMA OnceStep ==
    ASSUME RepeatInv, [Next]_vars
    PROVE  OnceIsOnce'
<1>1. CASE Mine
  <2>1. PICK u \in pool, success \in BOOLEAN :
          /\ u.nonce = Len(mined)
          /\ CanEnd(u.call, success)
          /\ mined' = Append(mined, [tx |-> u, success |-> success])
          /\ pool' = pool \ {u}
    BY <1>1 DEF Mine
  <2> DEFINE last == Len(mined) + 1
  <2>2. /\ \A k \in DOMAIN mined : mined'[k] = mined[k]
        /\ DOMAIN mined' = DOMAIN mined \cup {last}
        /\ mined'[last].tx = u /\ mined'[last].success = success
    BY <2>1, MineFacts DEF RepeatInv
  <2> HIDE DEF last
  <2>3. ASSUME mined'[last].success, u.call \in Once
        PROVE  \A k \in DOMAIN mined : mined[k].success => mined[k].tx.call # u.call
    BY <2>1, <2>2, <2>3 DEF CanEnd, Reverts, Executed
  <2>4. u.call \notin Once \cup Conditional => mined'[last].success
    BY <2>1, <2>2 DEF CanEnd, Reverts
  <2>5. \A k \in DOMAIN mined' : mined'[k].tx.call \notin Once \cup Conditional => mined'[k].success
    BY <2>2, <2>4 DEF RepeatInv, OnceIsOnce
  <2>6. ASSUME NEW j \in DOMAIN mined', NEW k \in DOMAIN mined',
               mined'[j].success, mined'[k].success,
               mined'[j].tx.call = mined'[k].tx.call, mined'[j].tx.call \in Once
        PROVE  j = k
    <3>1. CASE j \in DOMAIN mined /\ k \in DOMAIN mined
      BY <2>2, <2>6, <3>1 DEF RepeatInv, OnceIsOnce
    <3>2. CASE j = last \/ k = last
      BY <2>2, <2>3, <2>6, <3>2
    <3> QED
      BY <2>2, <3>1, <3>2
  <2> QED
    BY <2>5, <2>6 DEF OnceIsOnce
<1>2. CASE ~Mine
  <2>1. mined' = mined
    BY <1>2 DEF Next, vars, Prepare, Step, SendTransaction, SendTransactionFails, EstimateGas,
                EstimateGasFails, WaitForTransactionSuccess, ReceiptFails, Crash
  <2> QED
    BY <2>1 DEF RepeatInv, OnceIsOnce
<1> QED
  BY <1>1, <1>2

\* Without failures no call is executed twice, however often callers try again
\* (ExecuteTransaction's error returns).
THEOREM RepeatsNeedFaults == Spec => []TwiceOnlyAfterFault
<1>1. Init => OnlyOwn /\ OnceIsOnce
  BY DEF Init, OnlyOwn, OnceIsOnce, Sent
<1>2. ASSUME NonceInv, OnlyOwn, OnceIsOnce, [Next]_vars, NonceInv'
      PROVE  OnlyOwn' /\ OnceIsOnce'
  BY <1>2, OnlyOwnStep, OnceStep DEF RepeatInv, NonceInv
<1>3. ASSUME NonceInv, OnlyOwn, OnceIsOnce
      PROVE  TwiceOnlyAfterFault
  <2> SUFFICES ASSUME faults = 0, crashes = 0, NEW j \in DOMAIN mined, NEW k \in DOMAIN mined,
                      mined[j].success, mined[k].success, mined[j].tx.call = mined[k].tx.call,
                      mined[j].tx.call \notin Repeatable
               PROVE  j = k
    BY DEF TwiceOnlyAfterFault
  <2>1. CASE mined[j].tx.call \in Once
    BY <1>3, <2>1 DEF OnceIsOnce
  <2>2. CASE mined[j].tx.call \notin Once \cup Conditional
    <3>1. mined[j].tx \in Sent /\ mined[k].tx \in Sent
      BY DEF Sent
    <3>2. mined[j].tx = mined[k].tx
      BY <1>3, <2>2, <3>1 DEF OnlyOwn
    <3>3. mined[j].tx.nonce = j - 1 /\ mined[k].tx.nonce = k - 1
      BY <1>3 DEF NonceInv, TypeInv, TypeOK
    <3>4. j \in Nat /\ k \in Nat
      BY <1>3 DEF NonceInv, TypeInv, TypeOK
    <3> QED
      BY <3>2, <3>3, <3>4
  <2> QED
    BY <2>1, <2>2 DEF Repeatable
<1> QED
  BY <1>1, <1>2, <1>3, NonceInvariant, PTL DEF Spec
=============================================================================
