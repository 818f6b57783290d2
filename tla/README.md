# TLA+ specifications of DRB-node

DRB-node runs a commit-reveal random number beacon. For every round requested
on the `Commit2RevealDRB` contract, the round's activated operators commit to a
secret (its double hash, `cvs`), the leader node puts the merkle root of all
commitments on chain, the operators reveal (first `cos`, the single hash, then
the secret), and the leader sends `generateRandomNumber` with all secrets.

This directory holds TLA+ models of that program, TLC configurations that check
them on small instances, and theorems about them that TLAPS checks for every
value of the constants. `PROJECT.json` lists components, runs, mutants, the
source lines of every definition, findings, hazards and theorems.

## 1. The system

| Component | State | Operations | Module |
|---|---|---|---|
| Leader: commitments and root (`nodes/leaderNode.go`, `utils/leaderNodeData.go`) | `committedNodes`, `activatedOperators` (memory), `leader_commits.json` (file), `commitMu` | `/cvs` and `/cos` handlers, polling loop `processRounds`, `generateMerkleRoot`, `submitMerkleRoot`, `updateCommitDataAfterSubmit` | `LeaderNode` |
| Leader: secrets and completion (`nodes/leaderNode_helper/`) | `revealRequestStatus` (memory), `reveal_orders.json` and `leader_commits.json` (files) | `/secretValue` handler, `StartSecretValueRequests`, `HandleSecretValueResponse`, `MonitorCommits`, `markRoundCompleted` | `LeaderNode` |
| Regular node (`nodes/regularNode.go`, `regularNode_helper/`) | `commits.json` | round loop (cvs, cos), `/sendSecretValue` handler | `RegularNode` |
| Commit-reveal values (`commit-reveal2/commit.go`) | none | secret, cos, cvs | `DRBBase` |
| Reveal order (`commit-reveal2/reveal_order.go`) | `reveal_orders.json` | `DetermineRevealOrder` | `LeaderNode` |
| Rounds of the contract (`Commit2RevealDRB.sol`) | root and random number of a round | `submitMerkleRoot`, `generateRandomNumber` | `Chain` |
| Transactions (`eth/eth.go`) | the account's pending and mined transactions (at the Ethereum node) | `ExecuteTransaction`, `waitForTransactionSuccess` | `EthTx`; `Chain` and `LeaderNode` have its outcomes |
| Operators and payments of the contract (`Commit2RevealDRB.sol`) | deposits, `s_activatedOperators` and its index, `s_forceDeactivated`, rounds | `deposit`, `activate`, `depositAndActivate`, `deactivate`, `withdraw`, `requestRandomNumber`, the paying loop of `generateRandomNumber` | `Commit2RevealDRB` |
| Registration (`nodes/regularNode.go`, `leaderNode_helper/registration_helper.go`, `utils/peer_id_storage.go`, `libp2putils`) | `registered_nodes.json`, `regular_peer_id.json`, deposits, activated operators | `CreateHost` with `LoadPeerID` and `SavePeerID`, deposit and registration part of the node's loop, `RegisterNode`, `ActivateOnChain` | `Registration`; `LeaderNode` has the writing of `registered_nodes.json` during a round |
| Merkle tree (`commit-reveal2/merkleTree.go`, `createMerkleRoot` of the contract) | the loop's positions and hashes | `CreateMerkleTree` | `MerkleTree` |
| CVS signatures (`regularNode_helper/generateCvsSignature.go`) | none | EIP-712 hash and signature | - |
| Start-up, logging, address discovery (`cmd`, `logger`, `utils`) | key files | read, write | - |
| Streams, subgraph (`libp2putils`, `utils`) | messages on their way | send, lose, query | `DRBBase`, `RegularNode` |

How they interact: regular nodes and leader exchange messages on libp2p streams
without acknowledgement (`inbox`); the leader's handlers, its polling loop and
its monitor are goroutines that share memory and `leader_commits.json`; the
leader writes to the chain by transactions and waits for receipts; everybody
reads the chain through a subgraph that may lag. Before that, a regular node
deposits on chain and registers with the leader, which writes its address to
`registered_nodes.json` and activates it on chain; a request for a random number
charges every activated operator, and `generateRandomNumber` pays them back with
a reward.

What is hard, and where:

* *Goroutines.* `handleCommitRequest`, `handleCOSRequest`, `processRounds` and
  `generateMerkleRoot` take and release `commitMu` several times, so the "root
  not submitted yet" check is old when the transaction is sent. The secret
  handler and the monitor read and write the same file without the lock.
* *Whole-file writes.* Every save of an entry reads the whole file, changes one
  key and writes everything back; the completion mark does so with contents read
  before a transaction that may take minutes.
* *Restarts.* Maps are lost, files and sent transactions stay. Files are emptied
  before they are written: a restart in between leaves an empty
  `registered_nodes.json` or `regular_peer_id.json`.
* *Transactions.* `ExecuteTransaction` reports an error after it has sent the
  transaction when the gas estimate or the receipt query fails: the caller takes
  it for not sent, and it is mined later. The nonce is the account's pending nonce
  of the moment and nothing serialises the callers: two of them may sign the same
  nonce, and the later one replaces the earlier or is refused. Who waits for the
  receipt of a replaced transaction waits for ever: a handler that does is one
  goroutine less, the polling loop or the monitor that does serves no round any
  more.
* *Who asks.* A node's handler of secret requests verifies that a request is signed,
  not that the leader signed it, and does not ask whether the round has a root.
* *Swap-and-pop in loops.* The contract removes an operator by moving the last one
  into its place, in the middle of a loop over a copy of the same operators.
* *Lost messages.* Nodes mark a cvs or cos as sent whether or not it arrived; only
  secret requests are repeated.

## 2. Modules

* `DRBBase` - constants with their assumptions, hash terms, messages, task names.
* `Chain` - the two contract calls of a round, the leader's transactions and
  their receipts.
* `RegularNode` - one action per thing a regular node does: `SendCommit`,
  `SendCos`, `HandleSecretValueRequest`; `LoseMessage` for a stream that fails,
  `RequestFromOutside` for a secret request that is not the leader's (`outside`
  counts them, `early` holds the rounds that had no root at that moment).
* `LeaderNode` - the leader. A *task* is a goroutine: `<<kind, round, node>>` for
  the three stream handlers, `Poll(r)` and `Monitor(r)` for the loops at work on
  round r. `pc[t]` says where the task is; `file[t]`, `entry[t]` and `todo[t]` are
  its local variables. An action runs from one lock, file or network operation
  to the next. `commitMu` is held exactly when `pc[t]` is in `LockPCs`; `Hangs(t)`
  is a task that waits for the receipt of a replaced transaction.
* `DRB` - their composition, the properties, the refinement, fairness.
* `Beacon` - the abstract specification: operators bind themselves to values,
  the commitments of a round are fixed together, one number made of exactly
  those values is published, nothing is ever replaced.
* `Commit2RevealDRB` - the contract's operators, deposits, requests and payments,
  on their own: every external call is an action, and every iteration of the
  charging and of the paying loop is one. `call` is the loop in progress; no other
  call runs then (`nonReentrant`).
* `Registration` - how operators get in: the node's identity (`peer[n]` in its
  process, `peerFile[n]` in `regular_peer_id.json`), its deposit and registration
  loop, one `RegisterNode` handler per node (`handler[n].nodes` is the map it has
  loaded), `registered_nodes.json`, the part of the chain they talk to with its
  limited places and the other operators (`others`) that compete for them, restarts
  of the leader (`Crash`) and of a node (`Restart`).
* `EthTx` - `ExecuteTransaction`, called by several goroutines for one account:
  choice of the nonce, sending, the estimate of gas afterwards, the wait for the
  receipt; `pool` and `mined` are the account's transactions at the Ethereum node.
* `MerkleTree` - `CreateMerkleTree` as a state machine, one step per iteration of
  its loop.
* `MCDRB`, `MCContract`, `MCRegistration`, `MCEthTx`, `MCMerkle` - the instances TLC
  checks.
* `DRB_proofs` (types), `DRB_safety_proofs` (commit before reveal), `DRB_data_proofs`
  (values, flags, lock, durability) and `DRB_refinement_proofs` (`Beacon`), each on
  top of the one before; `Contract_proofs`, `Registration_proofs`, `EthTx_proofs`,
  `MerkleTree_proofs` - the theorems.

`DRB` composes `Chain`, `RegularNode` and `LeaderNode`. `Commit2RevealDRB` and
`Registration` meet it at two places: the operators of a round are fixed when it
is requested (`Operators` in `DRBBase`, `rounds[r].operators` in the contract),
and who is registered is the variable `registered` of `LeaderNode`, the contents
of `registered_nodes.json`. It starts as `Registered`, which may leave operators
out (a state `forgotten` shows reachable), and grows while rounds are under way:
`CreateRegistry` and `SaveRegistry` are the two steps of `SaveRegisteredNodes`,
between which no round finds any node registered. The steps before and after them
are in `Registration`. `EthTx` details what `Chain` and `LeaderNode` say of a
transaction; `MerkleTree` justifies that a root is taken for the sequence of its
leaves. In `DRB` a transaction is

* refused by the pool or never sent (`SubmitRootFails`),
* mined, successfully (`MineRoot`, `MineRandom`) or reverted (`MineRevert`: the
  arguments do not verify, or the paying loop finds no place for an operator, or
  the consumer cannot be called),
* replaced by another transaction of the account with the same nonce (`ReplaceTx`,
  possible at any time, for that other transaction need not be one of the model):
  a task that waits for its receipt hangs,
* any of these after its sender was told of a failure (`TransactionFails`): a query
  failed, or `generateRandomNumber` reverted when its gas was estimated.

| pc of a task | the code is |
|---|---|
| `save` | in `SaveLeaderCommitData` of a cvs or cos, file read, lock held |
| `root`, `leaves` | in `generateMerkleRoot` before the flag check / before the leaves are collected |
| `submitted` | waiting for the receipt of `submitMerkleRoot` |
| `flag`, `flagWrite` | in the loop of `updateCommitDataAfterSubmit`, before / between read and write, lock held |
| `relock`, `reveal`, `start` | at the end of `handleCOSRequest`: lock not taken again / taken / order determined |
| `load`, `secretWrite`, `secretNext` | in `AcceptSecretValue` before the read / between read and write / in `HandleSecretValueResponse` |
| `generated`, `markWrite` | in the monitor waiting for `generateRandomNumber` / between `os.Create` and the encoding |

The operators named "faulty variant" in a comment are not part of the
specification. Each is the definition after it with one plausible bug; the
mutants of `PROJECT.json` use them to show that each property can fail.

### Abstractions

* Secrets and hashes are injective terms; a merkle root is the sequence of its
  leaves, a random number the sequence of its secrets (in contract order; the
  contract hashes them in an order it computes from the same values).
* A signature over (round, leaf) is identified with the cvs it is on.
* The contract requires the sender of `submitMerkleRoot` to be an operator of
  the round. The model assumes the leader's account passes that check.
* The subgraph may show any state the chain has been in: a step that needs
  "root not visible yet" is always possible, one that needs "root visible" is
  possible once the root is on chain.
* A file write is atomic but for `os.Create` in `saveLeaderCommits`, where the
  empty file in between is visible. Disk errors are not modelled.
  `DetermineRevealOrder` reads the file in one step, and its `os.Create` and
  encoding of `reveal_orders.json` are one step (`reveal_order.go:60`): the file
  that a restart between the two would leave, which does not decode, is left out,
  and no property depends on it.
* Besides secret requests from anybody, messages come from the nodes and the leader
  only, and say what these have to say: cvs, cos or secret values of others, which
  `handleCommitRequest` would refuse by their signature and `AcceptSecretValue`
  would store under the address that signed them, are left out.
* Messages with equal contents are one message; one handler per (kind, round,
  node) runs at a time; a task has one transaction pending at a time.
* An in-memory entry without values is no entry: no code path distinguishes them.
* The data race on the Go map `revealRequestStatus` is modelled by its benign
  outcome; its other outcome, an abort, is a restart.
* In `Commit2RevealDRB` a revert changes nothing, so a `require` is a guard.
  Whether the places suffice in the paying loop is asked before the loop starts
  (`PlacesFor`), because a revert in it undoes the whole call. The price of a
  request is the constant `Price`; the consumer's callback cannot come back into
  the contract and is left out. Arithmetic is unbounded: amounts are wei in 256
  bits, and Solidity 0.8 reverts on overflow. A subtraction that would revert is
  a guard.
* In `Registration` every account has the funds it needs, one handler per node is
  at work at a time, and one that waits for a replaced transaction counts as gone
  (the next request gets a handler of its own). A request charges all operators
  the constant `Price`, reverts when one of them cannot pay, and drops whoever is
  left with less than the threshold. Other operators are a number: they come
  while places are free, and go. Payments back to operators are left out. Keys of
  a node are told apart by the number of restarts before them. The network
  addresses kept beside the peer ids are left out.
  Activation is sent by the leader and names the operator, as
  `contract/abi/Commit2RevealDRB.json`, which the nodes load, declares it. The
  contract source in the repository has `activate()` for the sender instead; the
  two do not fit together, and each module follows the side it models.
* `processRounds` takes the lock twice for one round; the model takes it once
  (nothing but the loop itself writes `activatedOperators`).
* In `DRB` one scan of the monitor sees one state of `registered_nodes.json`, and one
  rewrite of it is under way at a time (`forgotten` shows what overlapping ones do).
* In `EthTx` the Ethereum node refuses old nonces, known transactions and
  replacements that do not pay more, and drops nothing else. An estimate may be
  made on the mined or on the pending state. `Once` is the set of calls the
  contract refuses when they are done; the others may be executed again.
  `Conditional` is the set of calls that may revert for what others do (a deposit
  below the threshold, no place free): the estimate and the mined transaction
  then succeed or revert independently of each other.
* In `MerkleTree` Keccak-256 is an injective term of its two words.

## 3. What TLC checks

The runs of `DRB` use two operators and one round (`markround` uses two rounds),
the smallest number for which one commitment can be missing, out of place or from
another node. Deadlock is checked in `contract`, `registration` and `forgotten`.
It is not in `merkle`, where the function returns, in `ethtx`, where callers stop
after `MaxTries`, and in the runs of `DRB`, where the leader may really stop: its
loops and handlers can all come to wait for replaced transactions.

| Run | Asks | Bounds |
|---|---|---|
| `restart` | Does the protocol implement `Beacon`; do flags and files stay right? `TypeOK`, `FlagsTruthful`, `CommitsDurable`, `ImplementsBeacon` | one failure, one restart, one task at a time, two random numbers, `NothingHangs` |
| `overlap` | What can overlapping goroutines, and a secret request before the root, spoil? `RootBindsCommits`, `CommitBeforeReveal`, `StoredValuesAreCommitted`, `CommitsDurable` | two tasks at a time, one request from outside, `UntilGenerated` |
| `root` | Do racing handlers, of which some hang, and failing transactions still bring the root on chain? `CommitsLeadToRoot` | two tasks at a time beside those that hang, one failure |
| `live` | Does a recorded root lead to a random number when messages are lost and an operator is registered only during the round, and is it never made from less than all secrets? `RandomFromAllOperators`, `RecordedRootLeadsToNumber` | two tasks at a time, one failure, one of two operators registered at first, one registration, `RootedAndUnsettled`, `FailureFirst` |
| `revealorder` | finding: are secrets requested in reveal order? | - |
| `savedcommits` | finding: do saved commitments lead to a root? | one restart |
| `markround` | finding: does the completion mark leave other rounds alone? | two tasks at a time, constraint `SecondRoundDuringFirst` |
| `contract` | Do registry, stakes and money stay right while operators come, go, are charged, dropped, paid and brought back? `TypeOK`, `RegistryConsistent`, `StakeCoversActivation`, `DepositsBacked` | three accounts (symmetric), two places, two requests, two results per round, calls carry 3, balance at most 15 |
| `registration` | Is every node activated, and again after a charge, as long as places are free; does the leader know the identities its nodes have? `TypeOK`, `PeerIdsCurrent`, `NodesGetActivated` | two nodes, one other operator, two places; one failure, one restart of the leader or of a node, one charge, `TwoTroubles` |
| `merkle` | Does the root bind the leader to the commitments and their order, for odd counts too? `TypeOK`, `TreeShape`, `RootBindsLeaves` | all lists of up to seven leaves of two kinds |
| `ethtx` | What may callers that share an account and retry believe? `TypeOK`, `SuccessMeansExecuted`, `PendingContiguous`, `TwiceOnlyAfterFault`, `CallsReturn` | an activation, which may revert for what others do, and a root; two tries each, two gas prices, one failed query, one restart |
| `forgotten` | finding: does the leader know every activated node? | two nodes, nothing fails |

Why the bounds are enough: `MaxFaults = 1` lets any one message, query or call
fail at any place; `MaxCrashes = 1` puts a restart between any two steps;
`MaxBusy = 2` lets any read-modify-write of the file be interrupted by any other;
`MaxGenerated = 2` lets `generateRandomNumber` be mined twice. Refusals, reverts
and replacements of transactions are bounded by nothing.

The constraints cut off what another run has, or what nothing follows from:

* `NothingHangs`: a task that hangs takes no further step, and what it has done is
  checked before.
* `UntilGenerated` stops `overlap` at the first random number, after which
  `CommitsDurable` speaks of nothing and `restart` goes on with one task at a time,
  and leaves waits that end in an error or not at all to `restart` and `root`. Its
  request from outside comes before the root (later it is like one of the leader's)
  and to the first node, and that round is followed up to its first cos.
* `RootedAndUnsettled` lets the failure and the registration of `live` come when the
  root is on chain, has the reveal order that is not the contract's and the first
  node's cos sent before the second's, and stops when there is a number or the
  monitor hangs: then the property is decided. A second task overlaps the first
  (`OverlapInFile`) when both are setting flags or saving secrets in the file, or
  polling, nothing has failed and everybody is registered. `FailureFirst` has the
  failure while one node is not registered, so it is the other node whose messages
  get lost.
  Where these constraints cut off a start that fairness asks for, TLC drops the
  behaviours that never take it; each of them is also possible when nothing else is
  at work, or is the polling loop's, which `OverlapInFile` therefore admits.
* `TwoTroubles`: at most two of a failure, a charge, a restart and another operator's
  place.

For `contract`, three accounts and two places are the smallest numbers for which a
place can be lost to somebody else, and the operator that leaves can be the last in
the array or not; two requests let one round be charged while another is open; two
results let a round be paid twice, which the contract allows and `DepositsBacked`
accounts for (`Again`); a cost of 3 over two operators makes the reward round. For
`registration`, two nodes are needed for handlers to overwrite each other's file,
the other operator for a place to be lost, and one failure can hit any query,
message, receipt or transaction. For `merkle`, seven leaves let them run out in the
middle of a pair (3, 5, 7) and at its end, and need up to three levels; two kinds of
leaves distinguish any two positions. For `ethtx`, two calls are enough for one
nonce to be signed twice, two prices for a replacement to be accepted or refused,
two tries for a repetition of a transaction its caller believed lost.

### What the properties leave open

* `CommitBeforeReveal` has one exception, `early`: a secret request that is not the
  leader's is answered like the leader's, root or no root
  (`secretValueHandler.go:27`). For such a round only cos values are certain to
  stay with their nodes. `CommitsDurable` has it as a premise, because a secret
  that comes in before the root is written to the file without the lock.
* `CommitsLeadToRoot` ends in a root, or in a restart that empties the memory
  (finding `savedcommits`), or in a polling loop that hangs (`PollingHangs`). A
  handler that hangs is no excuse.
* `RecordedRootLeadsToNumber` ends in a number, or in a monitor that hangs
  (`MonitoringHangs`), or in the loss of the record (`RecordLost`): secrets saved from
  contents read before `updateCommitDataAfterSubmit` wrote its flags remove
  `submit_merkle_root_done` from the file, and once no entry has it the monitor
  skips the round. The repository's README (lines 347 to 352) lists lost file
  entries as a known problem. It has three premises:
  * From some time on every operator is registered. Until then the monitor sends
    what it has, and the contract refuses it, as `RandomFromAllOperators` shows in
    the same run.
  * From some time on no transaction with the right secrets is reverted or replaced
    (`Thwarted`). The contract may revert it for good: operators that the request's
    charge had dropped may find their places taken (`Commit2RevealDRB.sol:407`).
  * From some time on no write erases a secret (`Erased`). Two secret handlers that
    read the file before either writes it leave one secret of two; the monitor asks
    for the other one, and nothing but timing keeps its answer from overlapping a
    repeated answer of the first node in the same way again. TLC finds this cycle
    when the premise is dropped.
* `NodesGetActivated` has two exceptions: that a node finds the places taken again
  and again, and `file = Empty`: a restart between `os.Create` and the encoding
  leaves a file no later registration can decode.
* `CallsReturn` has one exception, `Replaced(c)`: a caller whose transaction
  has been replaced by another of the same nonce waits for a receipt that
  never comes, because `waitForTransactionSuccess` has no limit (`eth.go:145`).
* `TwiceOnlyAfterFault` bounds what retries do: a call is executed more often
  than once only after a failed query or a restart. It excludes calls whose
  estimate may revert although they are mined and which the contract accepts
  twice (`Repeatable`, such as `generateRandomNumber`); `ImplementsBeacon` says
  that a number that is generated twice is the same one.
* `RootBindsLeaves` compares lists of equal length. `generateRandomNumber` accepts
  any number of secrets; that lists of another length do not pass is shown in `DRB`,
  where the root is the sequence of its leaves, and not for the tree itself.

### Fairness

`Fairness` asks that every regular node's loop and every task that can move
eventually does. The loops of the code come back to every round after a sleep, the
Go scheduler runs every goroutine, and `sync.Mutex` hands the lock to the longest
waiter. Strong fairness is used for the secret handler, the monitor and the polling
loop because the bound `MaxBusy`, which has no counterpart in the code, disables
their start now and then. For the monitor it also says that `isMerkleRootSubmitted`,
which looks at the first entry of the round that Go's random map order gives it,
does not for ever come upon an entry that has lost its flag.

Of a transaction in the mempool it asks only that something becomes of it (`Mine`):
that it is mined, successfully or not, or replaced. No receipt is promised. The one
thing it assumes of the pool beyond that is strong fairness of `SubmitRoot` in the
polling loop: a root that is sent again and again is accepted in the end, because
each refusal takes another transaction of the account with the same nonce. That it
is then mined and not replaced is not assumed. Failures, replacements, restarts and
requests from outside are never forced.

A rewrite of `registered_nodes.json` that has begun ends (weak fairness of
`SaveRegistry`); none has to begin.

`Registration` has no such bound: weak fairness of each node's loop, each node's
handler and the mining of its transactions is all `NodesGetActivated` needs. There a
replacement counts as a failure (`ReplaceActivation`), so an activation that is
sent again and again is mined in the end.
`EthTx` has weak fairness of the steps of each call and of `Mine`; no caller has to
try again.

## 4. What is proved

* `TypeCorrect` (`DRB_proofs`): `Spec => []TypeOK`, through `TypeInvariant`.
  `TypeOK` is not inductive: that a root task writes leaves and not secrets to
  the chain depends on what its pending transaction holds, and what a task
  writes to the file depends on what it has read. `TypeOK` is `ProtocolTypeOK` and
  `RegistryTypeOK`, which is inductive on its own. `TypeInv` adds `TaskOK(t)`:
  which of `file[t]` and `entry[t]` is set at each `pc`, what kind of task can be
  where, and what its transaction carries.
* `CommitThenReveal` (`DRB_safety_proofs`): `Spec => []CommitBeforeReveal`,
  through `SealInvariant`. `CommitBeforeReveal` is not inductive: a task may
  write an old copy of the file back, and the root flag decides whether secrets
  are requested. `SealInv` says of a round without root that messages are neither
  cos nor, but for an `early` round, secrets or requests for them (`InboxSealed`),
  that memory, file and every copy of it in a task hold neither cos nor root flag,
  nor, but for an `early` round, a secret, and that the round's tasks are nowhere
  past sending a root, but for the handler of an early secret.
* `StoredAgree`, `RootBinds` and `RandomFromAll` (`DRB_data_proofs`): `Spec =>` always
  `StoredValuesAreCommitted`, `RootBindsCommits`, `RandomFromAllOperators`. An entry
  exists in many copies: memory, file, the contents a task has read, the contents it
  is about to write. `KeptOrigin` says once what any step can do: each copy after
  the step is a copy before it, with at most one field set from a message or a
  receipt, or the empty file of `os.Create`. `AgreeInv` is an invariant of all copies, messages and transactions at
  once: each value is one its operator's cvs determines (hashes are injective). The
  number follows because `generateRandomNumber` compares the hashes of all secrets
  with the root's leaves: with `RootBinds` there is one sequence that passes.
  `PresentInv` is needed beside it: an entry of the leader's memory has a cvs.
* `FlagsAreTrue`: `Spec => []FlagsTruthful`, through `FlagInvariant`. A flag is
  only set behind a receipt, so the invariant follows the flag from the task's `pc`
  through its copies of the file; that a completion mark has a number behind it is
  `MarkInvariant`, that a root flag has a root is `SealInv` read backwards.
* `CommitsStay`: `Spec => []CommitsDurable`, through `DurableInvariant`. A task that
  writes a cvs back may have read the file before another one was saved; what
  excludes it is `commitMu`, so `LockInvariant` (at most one task is between Lock
  and Unlock) comes first. `DurableInv` says that a cvs that is in memory, or under a
  root that is sent or mined (`Bound`), is in every copy a task can still write. Writers that do not take the lock start
  only when a round's root is on chain or a secret was asked for `early`, and
  `CommitsDurable` therefore has two premises: no other round has a root, and no
  round is in `early`. Without the first the property is false, in two
  rounds and 41 states: `markRoundCompleted` of one round writes back contents
  from before the other round's commitments (finding `markround`). The one-round
  runs could not show this; the attempt to prove it did.
* `Refinement` (`DRB_refinement_proofs`): `Spec => ImplementsBeacon`. The three
  variables of `Beacon` are read off the nodes' values and the chain. `SendCommit`
  maps to `CommitTo`, mining a root to `Fix` (by `AgreeInv` all have committed),
  mining a number to `Publish` (by `RandomFromAll` it is the right one); every
  other step, restarts included, maps to a stutter.
* `ContractTypeCorrect`, `RegistryStaysConsistent` and `StakeAlwaysCovers`
  (`Contract_proofs`), through `ContractInvariant`. None of the three is inductive.
  The charging loop subtracts and calls `_deactivate` with an index read from the
  registry without asking whether the operator is still activated: that is safe
  only because the operators of a round are distinct (`RoundsOK`, from
  `RegistryConsistent` at the time of the request) and those still to be charged
  are activated and can pay (`ChargesCovered`). That `_deactivate` keeps array and
  index inverse to each other, also when the operator that leaves is the last
  one, is a lemma of its own.
* `DepositsAlwaysBacked` (`Contract_proofs`): `Spec => []DepositsBacked`, through
  `LedgerInvariant`. `DepositsBacked` speaks of the states between calls; `Ledger`
  holds in the middle of the loops too, because it books the operators still to be
  charged (`Uncharged`) as received and those still to be paid (`Unpaid`) as owed.
  Each action moves one summand of a sum over accounts or rounds. The induction that
  sums need is done without an induction theorem: the sets for which a claim fails
  have, by `WFMin`, one none of whose subsets fails (`SubsetInduction`). That the
  fold of the community modules is defined at all (`SumsExist`), that the order of
  the elements makes no difference (`AnyElement`), and how a sum changes with one
  summand (`TotalUpdate`, `TotalAppend`) are lemmas. That rewards never exceed what
  was paid rests on `n * (c \div n) <= c`, for any number of operators.
* `RegistrationTypeCorrect` and `LeaderReachesHosts` (`Registration_proofs`):
  `Spec => []TypeOK` and `Spec => []PeerIdsCurrent`, through
  `RegistrationInvariant`. `PeerIdsCurrent` speaks of running hosts only and is not
  inductive: after a restart nothing would say which identity comes back.
  `RegistrationInv` adds that a running host's identity is what its file holds
  (`HostSaved`), that whatever the leader has heard, has loaded or has saved is in
  the node's file, also while the node is down (`KnownSaved`), which holds because
  `SavePeerID` ends before there is a host that could register, and that an
  activated node has paid (`ActivatedPaid`).
* `TxTypeCorrect`, `NoNonceLeftOut`, `SuccessIsExecuted` and `RepeatsNeedFaults`
  (`EthTx_proofs`). `PendingContiguous` holds because a nonce that was pending when
  it was asked for stays taken: `NonceInv` says that the pool is an interval of
  nonces that begins with the number of mined transactions and that every nonce
  signed is at most one past its end. `SuccessIsOwn` follows the receipt of a call
  from the chain to its caller. `RepeatInv` says that before the first failure a
  transaction in pool or chain is the one its caller waits for or has returned
  with (so no second one is signed), unless the contract refuses the call the second
  time (`Once`) or may revert it for what others do (`Conditional`).
* `MerkleTypeCorrect`, `EveryWordHashedOnce` and `RootBinds` (`MerkleTree_proofs`), for
  lists of every length. `TypeOK` says of every iteration but the first that the
  next hash to be read is before the next one to be written. That two lists with one root are equal calls for an
  induction from the root down, which the prover cannot do; `MerkleInv` does it the
  other way round, along the loop: the words that are not read yet determine all
  words (`UnreadDetermine`). At first they are all words, each iteration replaces
  two of them by their hash, and at the end there is one, the root.

The proofs have one lemma per action. Those of `DRB` use the assumptions of
`DRBBase`, `RegularNode` and `LeaderNode` (operators are distinct and at least two;
a value that was never set differs from every value), those of the contract that
accounts are finitely many and limits and amounts natural numbers, those of the
others that bounds and prices are natural numbers and that inputs are lists of
leaves. TLC evaluates them in each run.

Every invariant of a passing run, and the refinement, is a theorem. Only
model-checked are the liveness properties `CommitsLeadToRoot`,
`RecordedRootLeadsToNumber`, `NodesGetActivated` and `CallsReturn`: liveness under
fairness is out of the prover's reach.

## 5. Findings

* `revealorder`: README.md:320 and 322 say secrets are requested in reveal order.
  The monitor asks in contract order, and before a reveal order exists.
* `savedcommits`: README.md:304 says roots are generated when all commitments are
  received. After a restart saved commitments are never read back.
* `markround`: `markRoundCompleted` drops what other handlers saved while
  its transaction was being mined. This can be commitments another round still
  needs, which is why `CommitsDurable` is stated for one rooted round at a time.
* `forgotten`: regularNode.go:139 says an activated node needs no further action.
  Two handlers that overlap leave an activated node out of
  `registered_nodes.json`, and it does not register again.

## 6. What is not modelled

* The reveal order's arithmetic and EIP-712 signatures: the order is any order, a
  signature the value it is on.
* Eviction from the mempool, and what gas costs.
* When exactly `generateRandomNumber` reverts for want of places
  (`Commit2RevealDRB.sol:407`): `Chain` lets it revert at any time, `contract` has
  the condition as a guard, and no property of `contract` speaks of the rounds that
  cannot be completed.
* Disk errors, address discovery, the leader's own key file, logging: no state of
  the protocol.
* The generated Go binding of the contract, which the nodes do not call.

## 7. Plan

In order; what is done is above.

1. Core protocol: `DRBBase`, `Chain`, `RegularNode`, `LeaderNode`, `DRB`, with
   `Beacon` as its abstract specification. Done.
2. The contract's operators and payments, with proofs. Done.
3. Registration and activation. Done.
4. `MerkleTree`, with proofs for every number of leaves. Done.
5. `EthTx`, with proofs for every number of calls. Done.
6. The file of registered nodes as state of `DRB`, node identities in
   `Registration`, with a proof of its types and identities. Done.
7. Proofs of every safety property of `DRB`, of each step of `DRB` mapping to
   `Beacon`, and of the contract's balance. Done.
8. Reveal order: `determineOrder` against the contract's ascending distances over
   small values.
