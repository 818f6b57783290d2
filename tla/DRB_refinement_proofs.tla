------------------------ MODULE DRB_refinement_proofs ------------------------
(***************************************************************************)
(* The protocol implements the Beacon, for every value of the constants:   *)
(* saving a node's first record of a round is CommitTo, mining a merkle    *)
(* root is Fix, mining a random number is Publish, and every other step of *)
(* nodes, leader, network and registry leaves the Beacon as it is.         *)
(***************************************************************************)
EXTENDS DRB_data_proofs

\* The Beacon's variables, as module DRB maps them.
Committed ==
    [r \in Rounds |-> [n \in OperatorSet(r) |->
        IF commits[n][r] = NoValue THEN NoValue ELSE SecretOf(n, r)]]
Fixed == {r \in Rounds : chainRoot[r] # NoValue}
Number ==
    [r \in Rounds |->
        IF chainRandom[r] = NoValue THEN NoValue
        ELSE [n \in OperatorSet(r) |-> chainRandom[r][PositionOf(n, r)]]]

LEMMA MappedInit ==
    Abstract!Init <=>
        /\ Committed = [r \in Rounds |-> [n \in OperatorSet(r) |-> NoValue]]
        /\ Fixed = {}
        /\ Number = [r \in Rounds |-> NoValue]
  BY DEF Abstract!Init, Committed, Fixed, Number

LEMMA MappedCommitTo ==
    ASSUME NEW r \in Rounds, NEW n \in OperatorSet(r), NEW v \in Secrets,
           Committed[r][n] = NoValue,
           Committed' = [Committed EXCEPT ![r][n] = v],
           UNCHANGED <<Fixed, Number>>
    PROVE  Abstract!Next
  <1>1. Abstract!CommitTo(r, n, v)
    BY DEF Abstract!CommitTo, Committed, Fixed, Number
  <1> QED BY <1>1 DEF Abstract!Next

LEMMA MappedFix ==
    ASSUME NEW r \in Rounds, \A n \in OperatorSet(r) : Committed[r][n] # NoValue,
           Fixed' = Fixed \cup {r}, UNCHANGED <<Committed, Number>>
    PROVE  Abstract!Next
  <1>1. Abstract!Fix(r)
    BY DEF Abstract!Fix, Committed, Fixed, Number
  <1> QED BY <1>1 DEF Abstract!Next

LEMMA MappedPublish ==
    ASSUME NEW r \in Rounds, r \in Fixed, Number' = [Number EXCEPT ![r] = Committed[r]],
           UNCHANGED <<Committed, Fixed>>
    PROVE  Abstract!Next
  <1>1. Abstract!Publish(r)
    BY DEF Abstract!Publish, Committed, Fixed, Number
  <1> QED BY <1>1 DEF Abstract!Next

LEMMA MappedStutter ==
    ASSUME UNCHANGED <<Committed, Fixed, Number>>
    PROVE  UNCHANGED Abstract!vars
  BY DEF Abstract!vars, Committed, Fixed, Number

-----------------------------------------------------------------------------
\* The operators of a round are distinct, so each has its position.
LEMMA Positions ==
    ASSUME NEW r \in Rounds, NEW n \in OperatorSet(r)
    PROVE  PositionOf(n, r) \in DOMAIN Operators[r]
           /\ Operators[r][PositionOf(n, r)] = n
  <1>1. \E i \in DOMAIN Operators[r] : Operators[r][i] = n
    BY DEF OperatorSet, Range
  <1> QED BY <1>1 DEF PositionOf

LEMMA CommittedValue ==
    ASSUME NEW r \in Rounds, NEW n \in OperatorSet(r)
    PROVE  Committed[r][n] = IF commits[n][r] = NoValue THEN NoValue ELSE SecretOf(n, r)
  BY DEF Committed

\* In a round all operators have committed in, nobody's value is missing.
LEMMA AllContribute ==
    ASSUME TypeInv, NEW r \in Rounds, AllCommitted(r), NEW n \in OperatorSet(r)
    PROVE  Committed[r][n] = SecretOf(n, r) /\ Committed[r][n] # NoValue
  <1>1. commits[n][r] # NoValue
    BY DEF AllCommitted
  <1>2. commits[n][r] \in Commit
    BY <1>1, OperatorsAreNodes DEF TypeInv, ProtocolTypeOK, RegularTypeOK
  <1>3. SecretOf(n, r) \in Secrets
    BY <1>2 DEF SecretOf, Commit
  <1> QED BY <1>1, <1>3, CommittedValue, NoValueAssumption

\* The first record of a round commits its node, and no other.
LEMMA SendCommitCommits ==
    ASSUME TypeInv, NEW k \in Nodes, NEW q \in Rounds, NodeStep(k, q), SendCommit(k, q)
    PROVE  Abstract!Next
  <1>1. PICK s \in Secrets :
            /\ commits' = [commits EXCEPT ![k][q] = [secret |-> s, cosSent |-> FALSE]]
            /\ commits[k][q] = NoValue
    <2>1. PICK t \in Stamps :
              /\ commits' = [commits EXCEPT ![k][q] =
                                [secret |-> Secret(q, k, t), cosSent |-> FALSE]]
              /\ commits[k][q] = NoValue
      BY DEF SendCommit, SaveCommitData, LoadCommitData
    <2> QED BY <2>1, Hashes
  <1>2. commits \in [Nodes -> [Rounds -> {NoValue} \cup Commit]] /\ k \in OperatorSet(q)
    BY DEF TypeInv, ProtocolTypeOK, RegularTypeOK, SendCommit, IsEOAActivated
  <1> DEFINE c == [secret |-> s, cosSent |-> FALSE]
  <1>3. c \in Commit /\ c # NoValue /\ c.secret = s
    <2>1. c \in Commit
      BY DEF Commit
    <2> QED BY <2>1, CommitAssumption
  <1>4. ASSUME NEW r \in Rounds, NEW n \in OperatorSet(r)
        PROVE  Committed'[r][n] = IF r = q /\ n = k THEN s ELSE Committed[r][n]
    <2>1. n \in Nodes
      BY OperatorsAreNodes
    <2>2. commits'[n][r] = IF r = q /\ n = k THEN c ELSE commits[n][r]
      BY <1>1, <1>2, <2>1
    <2>3. Committed'[r][n] = IF commits'[n][r] = NoValue THEN NoValue
                             ELSE commits'[n][r].secret
      BY DEF Committed, SecretOf
    <2> QED BY <1>3, <2>2, <2>3 DEF Committed, SecretOf
  <1>5. Committed' = [Committed EXCEPT ![q][k] = s]
    <2>1. \A r \in Rounds : Committed'[r] = [Committed EXCEPT ![q][k] = s][r]
      <3> SUFFICES ASSUME NEW r \in Rounds
                   PROVE  Committed'[r] = [Committed EXCEPT ![q][k] = s][r]
        OBVIOUS
      <3>1. Committed'[r] = [n \in OperatorSet(r) |-> Committed'[r][n]]
        BY DEF Committed
      <3>2. Committed[r] = [n \in OperatorSet(r) |-> Committed[r][n]]
        BY DEF Committed
      <3>3. DOMAIN Committed = Rounds
        BY DEF Committed
      <3> QED BY <1>4, <3>1, <3>2, <3>3
    <2>2. DOMAIN Committed = Rounds /\ DOMAIN Committed' = Rounds
      BY DEF Committed
    <2> QED BY <2>1, <2>2 DEF Committed
  <1>6. Committed[q][k] = NoValue
    BY <1>1, <1>2, CommittedValue
  <1>7. UNCHANGED <<Fixed, Number>>
    BY DEF SendCommit, chainVars, Fixed, Number
  <1> QED BY <1>2, <1>5, <1>6, <1>7, MappedCommitTo

\* Steps that make no record and mine nothing do not concern the Beacon.
LEMMA QuietSteps ==
    ASSUME UNCHANGED <<Committed, chainRoot, chainRandom>>
    PROVE  UNCHANGED Abstract!vars
  <1>1. UNCHANGED <<Fixed, Number>>
    BY DEF Fixed, Number
  <1> QED BY <1>1, MappedStutter

LEMMA UnchangedCommits ==
    ASSUME UNCHANGED commits
    PROVE  UNCHANGED Committed
  BY DEF Committed, SecretOf

\* A cos or a secret reveals a commitment and changes none.
LEMMA SendCosQuiet ==
    ASSUME TypeInv, NEW k \in Nodes, NEW q \in Rounds, NodeStep(k, q), SendCos(k, q)
    PROVE  UNCHANGED Abstract!vars
  <1>1. ASSUME NEW r \in Rounds, NEW n \in OperatorSet(r)
        PROVE  /\ commits'[n][r] = NoValue <=> commits[n][r] = NoValue
               /\ commits[n][r] # NoValue => SecretOf(n, r)' = SecretOf(n, r)
    <2>0. n \in Nodes /\ [Next]_vars
      BY OperatorsAreNodes DEF Next
    <2>1. commits[n][r] # NoValue =>
              commits'[n][r] # NoValue /\ SecretOf(n, r)' = SecretOf(n, r)
      BY <2>0, CommitsGrow
    <2>2. commits[n][r] = NoValue => commits'[n][r] = NoValue
      <3>1. commits[k][q] # NoValue
        BY DEF SendCos, LoadCommitData
      <3>2. commits \in [Nodes -> [Rounds -> {NoValue} \cup Commit]]
        BY DEF TypeInv, ProtocolTypeOK, RegularTypeOK
      <3>3. UNCHANGED commits \/ \E c : commits' = [commits EXCEPT ![k][q] = c]
        BY DEF SendCos, SaveCommitData
      <3> QED BY <2>0, <3>1, <3>2, <3>3
    <2> QED BY <2>1, <2>2
  <1>2. Committed' = [r \in Rounds |-> [n \in OperatorSet(r) |->
            IF commits'[n][r] = NoValue THEN NoValue ELSE SecretOf(n, r)']]
    BY DEF Committed
  <1>3. UNCHANGED Committed
    BY <1>1, <1>2 DEF Committed
  <1>4. UNCHANGED <<chainRoot, chainRandom>>
    BY DEF SendCos, chainVars
  <1> QED BY <1>3, <1>4, QuietSteps

\* A merkle root is mined only when all operators have committed.
LEMMA MineRootFixes ==
    ASSUME TypeInv, AgreeInv, NEW t \in Tasks, Mine(t), MineRoot(t, Awaited(t))
    PROVE  Abstract!Next
  <1> DEFINE r == RoundOf(t)
  <1>0. r \in Rounds
    BY TaskNames
  <1>1. AllCommitted(r)
    BY DEF MineRoot, AgreeInv, RootTxsAgree, RootTxAgrees
  <1>2. \A n \in OperatorSet(r) : Committed[r][n] # NoValue
    BY <1>0, <1>1, AllContribute
  <1>3. chainRoot' = [chainRoot EXCEPT ![r] = txs[t].words] /\ txs[t].words # NoValue
    BY NoValueAssumption DEF MineRoot, SubmitMerkleRoot, TypeInv, TaskOK
  <1>4. Fixed' = Fixed \cup {r}
    <2>1. chainRoot \in [Rounds -> {NoValue} \cup Seq(CvsSet)]
      BY DEF TypeInv, ProtocolTypeOK, ChainTypeOK
    <2> QED BY <1>0, <1>3, <2>1 DEF Fixed
  <1>5. UNCHANGED <<commits, chainRandom>>
    BY DEF Mine, MineRoot, SubmitMerkleRoot
  <1>6. UNCHANGED <<Committed, Number>>
    BY <1>5, UnchangedCommits DEF Number
  <1> QED BY <1>0, <1>2, <1>4, <1>6, MappedFix

\* The number that is mined is the one the fixed commitments determine.
LEMMA MineRandomPublishes ==
    ASSUME TypeInv, AgreeInv, NEW t \in Tasks, Mine(t), MineRandom(t, Awaited(t))
    PROVE  Abstract!Next
  <1> DEFINE r == RoundOf(t)
  <1>0. r \in Rounds
    BY TaskNames
  <1>1. AllCommitted(r) /\ txs[t].words = CommittedSecrets(r)
    BY MineRandomFromAll
  <1>2. txs[t].words \in Seq(Secrets) /\ txs[t].words # NoValue
    BY NoValueAssumption DEF MineRandom, TypeInv, TaskOK
  <1>3. r \in Fixed
    <2>1. [i \in DOMAIN txs[t].words |-> Cvs(Cos(txs[t].words[i]))] = chainRoot[r]
      BY DEF MineRandom, SecretsVerify
    <2>2. [i \in DOMAIN txs[t].words |-> Cvs(Cos(txs[t].words[i]))] \in Seq(CvsSet)
      BY <1>2, Hashes
    <2> QED BY <1>0, <2>1, <2>2, NoValueAssumption DEF Fixed
  <1>4. chainRandom' = [chainRandom EXCEPT ![r] = txs[t].words]
        /\ chainRandom \in [Rounds -> {NoValue} \cup Seq(Secrets)]
    BY DEF MineRandom, GenerateRandomNumber, TypeInv, ProtocolTypeOK, ChainTypeOK
  <1>5. ASSUME NEW n \in OperatorSet(r)
        PROVE  txs[t].words[PositionOf(n, r)] = Committed[r][n]
    BY <1>0, <1>1, Positions, AllContribute DEF CommittedSecrets
  <1>6. Number' = [Number EXCEPT ![r] = Committed[r]]
    <2>1. Number' = [q \in Rounds |->
              IF chainRandom'[q] = NoValue THEN NoValue
              ELSE [n \in OperatorSet(q) |-> chainRandom'[q][PositionOf(n, q)]]]
      BY DEF Number
    <2>2. [n \in OperatorSet(r) |-> txs[t].words[PositionOf(n, r)]] = Committed[r]
      BY <1>0, <1>5 DEF Committed
    <2> QED BY <1>0, <1>2, <1>4, <2>1, <2>2 DEF Number
  <1>7. UNCHANGED <<commits, chainRoot>>
    BY DEF Mine, MineRandom, GenerateRandomNumber
  <1>8. UNCHANGED <<Committed, Fixed>>
    BY <1>7, UnchangedCommits DEF Fixed
  <1> QED BY <1>0, <1>3, <1>6, <1>8, MappedPublish

\* Every step of the protocol is a step of the Beacon or leaves it as it is.
LEMMA NextImplements ==
    ASSUME TypeInv, AgreeInv, [Next]_vars
    PROVE  [Abstract!Next]_(Abstract!vars)
  <1>1. ASSUME NEW n \in Nodes, NEW r \in Rounds, NodeStep(n, r)
        PROVE  Abstract!Next \/ UNCHANGED Abstract!vars
    <2>1. CASE HandleSecretValueRequest(n, r)
      <3>1. UNCHANGED <<commits, chainRoot, chainRandom>>
        BY <2>1 DEF HandleSecretValueRequest, chainVars
      <3> QED BY <3>1, UnchangedCommits, QuietSteps
    <2> QED BY <1>1, <2>1, SendCommitCommits, SendCosQuiet DEF NodeStep
  <1>2. ASSUME NEW t \in Tasks, TaskStep(t)
        PROVE  UNCHANGED Abstract!vars
    <2>1. UNCHANGED <<commits, chainRoot, chainRandom>>
      BY <1>2 DEF TaskStep, HandlerStep, RootStep, MonitorStep, HandleCommit, HandleCos,
           RejectCos, SaveEntry, DetermineRevealOrder, StartSecretValueRequests,
           AcceptSecretValue, ReadForSecret, WriteSecret, HandleSecretValueResponse,
           PollRound, CheckRootFlag, SubmitRoot, SubmitRootFails, RootMined,
           ReadForFlag, WriteFlag, MonitorRequests, MonitorGenerates, TruncateForMark,
           WriteMark, TransactionFails, chainVars
    <2> QED BY <2>1, UnchangedCommits, QuietSteps
  <1>3. ASSUME NEW t \in Tasks, Mine(t)
        PROVE  Abstract!Next \/ UNCHANGED Abstract!vars
    <2>1. CASE MineRevert(t, Awaited(t)) \/ ReplaceTx(t, Awaited(t))
      <3>1. UNCHANGED <<commits, chainRoot, chainRandom>>
        BY <1>3, <2>1 DEF Mine, MineRevert, ReplaceTx
      <3> QED BY <3>1, UnchangedCommits, QuietSteps
    <2> QED BY <1>3, <2>1, MineRootFixes, MineRandomPublishes DEF Mine
  <1>4. CASE RegistryStep \/ Lose \/ Restart \/ UNCHANGED vars
    <2>1. UNCHANGED <<commits, chainRoot, chainRandom>>
      BY <1>4 DEF RegistryStep, Lose, LoseMessage, Restart, Crash, vars, chainVars
    <2> QED BY <2>1, UnchangedCommits, QuietSteps
  <1>5. ASSUME NEW n \in Nodes, NEW r \in Rounds, OutsideStep(n, r)
        PROVE  UNCHANGED Abstract!vars
    <2>1. UNCHANGED <<commits, chainRoot, chainRandom>>
      BY <1>5 DEF OutsideStep, RequestFromOutside, chainVars
    <2> QED BY <2>1, UnchangedCommits, QuietSteps
  <1> QED BY <1>1, <1>2, <1>3, <1>4, <1>5 DEF Next

LEMMA InitImplements == Init => Abstract!Init
  <1> SUFFICES ASSUME Init PROVE Abstract!Init
    OBVIOUS
  <1>1. \A r \in Rounds : \A n \in OperatorSet(r) : commits[n][r] = NoValue
    BY OperatorsAreNodes DEF Init, RegularInit
  <1>2. Committed = [r \in Rounds |-> [n \in OperatorSet(r) |-> NoValue]]
    BY <1>1 DEF Committed
  <1>3. Fixed = {} /\ Number = [r \in Rounds |-> NoValue]
    BY DEF Init, ChainInit, Fixed, Number
  <1> QED BY <1>2, <1>3, MappedInit

\* The protocol implements the Beacon for every number of operators, rounds,
\* leader tasks, faults, restarts and requests from outside: the chain fixes
\* a round when all its operators have committed, the number it publishes is
\* the one their commitments determine, and nothing is replaced afterwards.
THEOREM Refinement == Spec => ImplementsBeacon
  <1>1. Init => Abstract!Init
    BY InitImplements
  <1>2. TypeInv /\ AgreeInv /\ [Next]_vars => [Abstract!Next]_(Abstract!vars)
    BY NextImplements
  <1> QED BY <1>1, <1>2, TypeInvariant, AgreeInvariant, PTL
          DEF Spec, ImplementsBeacon, Abstract!Spec

=============================================================================
