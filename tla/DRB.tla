-------------------------------- MODULE DRB --------------------------------
(***************************************************************************)
(* The whole commit-reveal protocol: regular nodes, leader and chain.      *)
(***************************************************************************)
EXTENDS RegularNode, LeaderNode

vars == <<netVars, outsideVars, commits, leaderVars, registryVars, chainVars>>

ProtocolTypeOK ==
    /\ inbox \in SUBSET Message /\ faults \in 0..MaxFaults
    /\ ChainTypeOK /\ RegularTypeOK /\ LeaderTypeOK

OutsideTypeOK == outside \in 0..MaxOutside /\ early \subseteq Rounds

TypeOK == ProtocolTypeOK /\ RegistryTypeOK /\ OutsideTypeOK

Init ==
    /\ inbox = {} /\ faults = 0 /\ outside = 0 /\ early = {}
    /\ ChainInit /\ RegularInit /\ LeaderInit /\ RegistryInit

Awaited(t) == pc[t] \in WaitPCs

NodeStep(n, r) ==
    /\ \/ SendCommit(n, r)
       \/ SendCos(n, r)
       \/ HandleSecretValueRequest(n, r)
    /\ UNCHANGED <<leaderVars, registryVars, outsideVars>>

OutsideStep(n, r) == RequestFromOutside(n, r) /\ UNCHANGED <<leaderVars, registryVars>>

HandlerStep(t) ==
    \/ HandleCommit(t) \/ HandleCos(t) \/ RejectCos(t) \/ SaveEntry(t)
    \/ DetermineRevealOrder(t) \/ StartSecretValueRequests(t)
    \/ AcceptSecretValue(t) \/ ReadForSecret(t) \/ WriteSecret(t)
    \/ HandleSecretValueResponse(t)

RootStep(t) ==
    \/ CheckRootFlag(t) \/ SubmitRoot(t) \/ SubmitRootFails(t) \/ RootMined(t)
    \/ ReadForFlag(t) \/ WriteFlag(t)

MonitorStep(t) ==
    \/ MonitorRequests(t) \/ MonitorGenerates(t)
    \/ TruncateForMark(t) \/ WriteMark(t)

TaskStep(t) ==
    /\ \/ HandlerStep(t) \/ PollRound(t) \/ RootStep(t) \/ MonitorStep(t)
       \/ TransactionFails(t)
    /\ UNCHANGED <<commits, registryVars, outsideVars>>

Mine(t) ==
    /\ \/ MineRoot(t, Awaited(t))
       \/ MineRandom(t, Awaited(t))
       \/ MineRevert(t, Awaited(t))
       \/ ReplaceTx(t, Awaited(t))
    /\ UNCHANGED <<netVars, outsideVars, commits, leaderVars, registryVars>>

RegistryStep ==
    /\ CreateRegistry \/ SaveRegistry
    /\ UNCHANGED <<netVars, outsideVars, commits, leaderVars, chainVars>>

Lose == \E m \in inbox :
    LoseMessage(m) /\ UNCHANGED <<leaderVars, registryVars, outsideVars>>

Restart == Crash /\ UNCHANGED <<commits, outsideVars>>

Next ==
    \/ \E n \in Nodes, r \in Rounds : NodeStep(n, r) \/ OutsideStep(n, r)
    \/ \E t \in Tasks : TaskStep(t) \/ Mine(t)
    \/ RegistryStep
    \/ Lose
    \/ Restart

Spec == Init /\ [][Next]_vars

-----------------------------------------------------------------------------
\* The cvs vector of a round as its operators committed to it, in contract order.
SecretOf(n, r) == commits[n][r].secret
AllCommitted(r) == \A n \in OperatorSet(r) : commits[n][r] # NoValue
CommittedSecrets(r) == [i \in DOMAIN Operators[r] |-> SecretOf(Operators[r][i], r)]
CommittedLeaves(r) ==
    [i \in DOMAIN Operators[r] |-> Cvs(Cos(SecretOf(Operators[r][i], r)))]

\* The root stored on chain binds every operator of the round, in contract
\* order, to the secret in its own commits.json, whichever of the handlers and
\* the polling loop submitted it, however often and after whatever restart.
RootBindsCommits ==
    \A r \in Rounds : chainRoot[r] # NoValue =>
        AllCommitted(r) /\ chainRoot[r] = CommittedLeaves(r)

\* The random number on chain is made of the secrets of all operators of the
\* round: no operator's contribution is missing, replaced or out of place.
RandomFromAllOperators ==
    \A r \in Rounds : chainRandom[r] # NoValue =>
        AllCommitted(r) /\ chainRandom[r] = CommittedSecrets(r)

Entries(r) == {mem[r][n] : n \in Nodes} \cup {disk[r][n] : n \in Nodes}
              \cup {entry[t] : t \in {u \in Tasks : RoundOf(u) = r /\ entry[u] # NoValue}}

\* A cos of the round is on its way to the leader or there.
CosShown(r) ==
    \/ \E m \in inbox : m.round = r /\ m.type = "cos"
    \/ \E e \in Entries(r) : e.cos # NoValue

\* A node has been asked for its secret of the round, or the secret is on its way
\* to the leader, there, or in a transaction.
SecretShown(r) ==
    \/ \E m \in inbox : m.round = r /\ m.type \in {"request", "secret"}
    \/ \E e \in Entries(r) : e.secret # NoValue
    \/ \E t \in Tasks : /\ RoundOf(t) = r /\ Kind(t) = "monitor"
                        /\ txs[t].status = "pending"

\* Commit before reveal: until the root is on chain no operator's cos has left it,
\* and no secret has been asked for or left its node either - unless somebody other
\* than the leader asked, whom the handler does not tell from the leader
\* (secretValueHandler.go:27): that round's secrets may be with the leader, early.
CommitBeforeReveal ==
    \A r \in Rounds : chainRoot[r] = NoValue =>
        ~CosShown(r) /\ (SecretShown(r) => r \in early)

\* The leader's records are ahead of nothing: a submit_merkle_root_done (in
\* memory or in the file) or random_number_generated flag is set only for what
\* is already on chain, across failed transactions and restarts.
FlagsTruthful ==
    \A r \in Rounds, n \in Nodes :
        /\ mem[r][n].rootDone \/ disk[r][n].rootDone => chainRoot[r] # NoValue
        /\ disk[r][n].rngDone => chainRandom[r] # NoValue

AgreesWithNode(e, n, r) ==
    /\ e.cvs # NoValue => e.cvs = Cvs(Cos(SecretOf(n, r)))
    /\ e.cos # NoValue => e.cos = Cos(SecretOf(n, r))
    /\ e.secret # NoValue => e.secret = SecretOf(n, r)

\* Whatever mixture of old and new entries the unlocked reads and writes of
\* leader_commits.json leave behind, every value in it and in memory is the one
\* that very node committed to: values get lost, never mixed up.
StoredValuesAreCommitted ==
    \A r \in Rounds, n \in Nodes : \A e \in {mem[r][n], disk[r][n]} :
        e # NoEntry => commits[n][r] # NoValue /\ AgreesWithNode(e, n, r)

\* From the moment a round's root is on chain until its random number is, every
\* operator's cvs (and the signature kept with it) is in leader_commits.json:
\* neither a restart nor a write of stale contents takes it away, so the
\* signatures generateRandomNumber needs cannot be lost.  Two things void this,
\* because secrets and completion marks are written without the lock and may put
\* back contents from before this round's commitments: another round has got its
\* root as well, or a secret was asked for before its round had a root.
CommitsDurable ==
    \A r \in Rounds :
        /\ chainRoot[r] # NoValue /\ generated[r] = 0
        /\ \A q \in Rounds \ {r} : chainRoot[q] = NoValue
        /\ early = {}
        => \A n \in OperatorSet(r) : disk[r][n].cvs # NoValue

-----------------------------------------------------------------------------
PositionOf(n, r) == CHOOSE i \in DOMAIN Operators[r] : Operators[r][i] = n

Abstract == INSTANCE Beacon WITH
    Contributors <- OperatorSet,
    Values       <- Secrets,
    committed    <- [r \in Rounds |-> [n \in OperatorSet(r) |->
                        IF commits[n][r] = NoValue THEN NoValue ELSE SecretOf(n, r)]],
    fixed        <- {r \in Rounds : chainRoot[r] # NoValue},
    number       <- [r \in Rounds |->
                        IF chainRandom[r] = NoValue THEN NoValue
                        ELSE [n \in OperatorSet(r) |-> chainRandom[r][PositionOf(n, r)]]]

\* The protocol implements the Beacon: whatever the leader's tasks do, the chain
\* fixes a round's commitments only when all of them are made, publishes only
\* the number they determine, and no later step replaces any of it.
ImplementsBeacon == Abstract!Spec
-----------------------------------------------------------------------------
\* Both loops of the leader and the loop of every regular node come back to each
\* round, and the Go scheduler and sync.Mutex (whose starvation mode hands the lock
\* to the longest waiter) let every goroutine run.  In the code nothing but the lock
\* keeps a loop or the secret handler from starting; here MaxBusy does now and then,
\* hence the strong fairness of theirs.  A transaction in the mempool is mined or
\* replaced by another one of its nonce; that it is mined is not assumed, nor that
\* it succeeds.  A root that the polling loop tries to send again and again is
\* accepted at last: each refusal takes another transaction of the account with the
\* same nonce, or a query that fails.  Faults, replacements, restarts and requests
\* from outside never have to happen.
Fairness ==
    /\ \A n \in Nodes, r \in Rounds : WF_vars(NodeStep(n, r))
    /\ \A t \in {u \in Tasks : Kind(u) # "secret"} : WF_vars(Mine(t))
    /\ \A t \in {u \in Tasks : Kind(u) \in {"cvs", "cos"}} : WF_vars(TaskStep(t))
    /\ \A t \in {u \in Tasks : Kind(u) \in {"secret", "monitor", "poll"}} :
          SF_vars(TaskStep(t))
    /\ WF_vars(SaveRegistry /\ RegistryStep)
    /\ \A r \in Rounds : SF_vars(TaskStep(Poll(r)) /\ SubmitRoot(Poll(r)))

FairSpec == Spec /\ Fairness

\* The polling loop (the monitor) waits for the receipt of a transaction that has
\* been replaced (eth.go:145): no round is polled (completed) any more.
PollingHangs    == \E r \in Rounds : Hangs(Poll(r))
MonitoringHangs == \E r \in Rounds : Hangs(Monitor(r))

AllInMemory(r) == \A n \in OperatorSet(r) : mem[r][n].cvs # NoValue

\* Once the leader holds every operator's cvs in memory, the round's root gets
\* on chain: a root that is refused, fails or is replaced while its sender no
\* longer waits for it is sent again by the polling loop or a later handler, and no
\* task leaves the job to one that has already given up or waits for ever.  It can
\* fail only when a restart empties the memory, or when the polling loop itself
\* waits for a transaction that has been replaced.
CommitsLeadToRoot ==
    \A r \in Rounds :
        AllInMemory(r) ~> chainRoot[r] # NoValue \/ ~AllInMemory(r) \/ PollingHangs

Recorded(r)   == \A n \in OperatorSet(r) : disk[r][n].rootDone
RecordLost(r) == \A n \in OperatorSet(r) : ~disk[r][n].rootDone

\* generateRandomNumber is reverted although the secrets verify, or a transaction is
\* replaced.
Thwarted(t) ==
    /\ Kind(t) = "monitor" /\ SecretsVerify(t)
    /\ MineRevert(t, Awaited(t)) \/ ReplaceTx(t, Awaited(t))

\* A write of contents from before a secret was saved takes it out of the file.
Erased(r, n) == disk[r][n].secret # NoValue /\ disk'[r][n].secret = NoValue

\* Once the file records the root as submitted, the round gets its random
\* number: a secret request or a secret that is lost, and a secret that another
\* task's write erases, is asked for again by the monitor.  It fails only when the
\* record goes from every entry (secrets saved from old copies of the file may
\* remove it, and the monitor then skips the round) or when the monitor waits for a
\* transaction that has been replaced.  The premises are that finally the operators
\* are in registered_nodes.json (while one is not, the monitor sends transactions
\* that revert), that finally no transaction with the right secrets is reverted or
\* replaced (a place for every operator that has to be brought back, a consumer
\* that can be called), and that handlers do not go on for ever erasing the
\* secrets the others have just saved.
RecordedRootLeadsToNumber ==
    /\ <>[](\A r \in Rounds : \A n \in OperatorSet(r) : IsRegistered(n))
    /\ <>[][/\ \A t \in Tasks : ~Thwarted(t)
            /\ \A r \in Rounds, n \in Nodes : ~Erased(r, n)]_vars
    => \A r \in Rounds :
          Recorded(r) ~> chainRandom[r] # NoValue \/ RecordLost(r) \/ MonitoringHangs
-----------------------------------------------------------------------------
(* What the repository says of the program and the code does not do; the   *)
(* runs that refute these are described in the README.                     *)

\* README.md:320 and 322: secret values are requested "according to the reveal
\* order", a response leads to "the next node in the reveal order".  So a node
\* is asked only when all nodes before it in the order have revealed.
Asked(r, n) == Msg("request", r, n, NoValue) \in inbox
RevealFollowsOrder ==
    [][\A r \in Rounds, n \in Nodes : ~Asked(r, n) /\ Asked(r, n)' =>
          \E i \in DOMAIN order[r] :
              /\ order[r][i] = n
              /\ \A j \in 1..(i - 1) : disk[r][order[r][j]].secret # NoValue]_vars

\* README.md:304: RunLeaderNode "generates Merkle roots when all commitments are
\* received".  All of them are received and saved, so the root must follow.
SavedCommitsLeadToRoot ==
    \A r \in Rounds :
        (\A n \in OperatorSet(r) : disk[r][n].cvs # NoValue)
            ~> chainRoot[r] # NoValue \/ PollingHangs

\* monitor_commits.go:290: markRoundCompleted updates leader_commits.json "to
\* mark a round as completed".  The other rounds' saved commitments stay.
MarkKeepsOtherRounds ==
    [][\A t \in Tasks : WriteMark(t) =>
          \A q \in Rounds \ {RoundOf(t)}, n \in Nodes :
              disk'[q][n].cvs = mem[q][n].cvs]_vars
=============================================================================
