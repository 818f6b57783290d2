------------------------------- MODULE Chain -------------------------------
(***************************************************************************)
(* The two contract calls of a round, the transactions the leader has sent *)
(* and what a subgraph query can answer.  A merkle root is the sequence of *)
(* its leaves, a random number the sequence of the secrets it is made of:  *)
(* both are injective in the code's hashes.                                *)
(***************************************************************************)
EXTENDS DRBBase

VARIABLES
    chainRoot,     \* round -> leaves of the root stored on chain
    chainRandom,   \* round -> secrets of the random number stored on chain
    generated,     \* round -> how often generateRandomNumber succeeded
    txs            \* task -> the transaction it sent last

chainVars == <<chainRoot, chainRandom, generated, txs>>

NoTx == [status |-> "none", words |-> <<>>, signed |-> <<>>]

\* words: the leaves of a submitMerkleRoot or the secrets of a
\* generateRandomNumber; signed: the cvs the attached signatures are on.
Transaction ==
    [status : {"none", "pending", "ok", "reverted", "replaced"},
     words  : Seq(CvsSet) \cup Seq(Secrets),
     signed : Seq(CvsSet \cup {NoValue})]

ChainTypeOK ==
    /\ chainRoot \in [Rounds -> {NoValue} \cup Seq(CvsSet)]
    /\ chainRandom \in [Rounds -> {NoValue} \cup Seq(Secrets)]
    /\ generated \in [Rounds -> 0..MaxGenerated]
    /\ txs \in [Tasks -> Transaction]

ChainInit ==
    /\ chainRoot = [r \in Rounds |-> NoValue]
    /\ chainRandom = [r \in Rounds |-> NoValue]
    /\ generated = [r \in Rounds |-> 0]
    /\ txs = [t \in Tasks |-> NoTx]

\* The call data handed to SendTransaction; a task's next transaction has a
\* higher nonce, so it can only follow the one still pending.
Send(t, words, signed) ==
    /\ txs[t].status # "pending"
    /\ txs' = [txs EXCEPT ![t] =
                  [status |-> "pending", words |-> words, signed |-> signed]]

\* The receipt reaches the task when it still waits for it.
Receipt(t, awaited, status) ==
    txs' = [txs EXCEPT ![t] =
               IF awaited THEN [NoTx EXCEPT !.status = status] ELSE NoTx]

\* submitMerkleRoot has no guard against a second root.
SubmitMerkleRoot(t) ==
    /\ chainRoot' = [chainRoot EXCEPT ![RoundOf(t)] = txs[t].words]
    /\ UNCHANGED <<chainRandom, generated>>

\* Faulty variant: every secret is checked against the root's leaves on its own,
\* their number is not.
SecretsVerifyOneByOne(t) ==
    LET leaves == chainRoot[RoundOf(t)]
    IN  \A i \in DOMAIN txs[t].words :
            \E j \in DOMAIN leaves :
                Cvs(Cos(txs[t].words[i])) = leaves[j] /\ txs[t].signed[i] = leaves[j]

\* What generateRandomNumber requires of its arguments: the secrets hash to the
\* stored root and every leaf is signed.  Nothing asks whether the round already
\* has a number.
SecretsVerify(t) ==
    LET secrets == txs[t].words
    IN  /\ [i \in DOMAIN secrets |-> Cvs(Cos(secrets[i]))] = chainRoot[RoundOf(t)]
        /\ txs[t].signed = chainRoot[RoundOf(t)]

GenerateRandomNumber(t) ==
    /\ chainRandom' = [chainRandom EXCEPT ![RoundOf(t)] = txs[t].words]
    /\ generated' = [generated EXCEPT ![RoundOf(t)] = @ + 1]
    /\ UNCHANGED chainRoot

MineRoot(t, awaited) ==
    /\ txs[t].status = "pending" /\ Kind(t) # "monitor"
    /\ SubmitMerkleRoot(t)
    /\ Receipt(t, awaited, "ok")

MineRandom(t, awaited) ==
    /\ txs[t].status = "pending" /\ Kind(t) = "monitor"
    /\ SecretsVerify(t)
    /\ GenerateRandomNumber(t)
    /\ Receipt(t, awaited, "ok")

\* generateRandomNumber reverts: the arguments do not verify, or the rest of the
\* call fails whatever they are, because no place is left for an operator that its
\* charge had dropped (_activate) or the consumer cannot be called (_call).
MineRevert(t, awaited) ==
    /\ txs[t].status = "pending" /\ Kind(t) = "monitor"
    /\ Receipt(t, awaited, "reverted")
    /\ UNCHANGED <<chainRoot, chainRandom, generated>>

\* Another transaction of the leader's account (module EthTx), which may be one
\* that is not modelled here, takes its nonce: it will never have a receipt, and
\* a task that waits for one waits for ever.
ReplaceTx(t, awaited) ==
    /\ txs[t].status = "pending"
    /\ Receipt(t, awaited, "replaced")
    /\ UNCHANGED <<chainRoot, chainRandom, generated>>

\* The subgraph answers with any state the chain has been in.
SubgraphShowsRoot(r) == chainRoot[r] # NoValue
=============================================================================
