---------------------------- MODULE LeaderNode -----------------------------
(***************************************************************************)
(* The leader: its stream handlers, the polling loop, MonitorCommits and   *)
(* leader_commits.json.  Every handler and loop is a task with a program   *)
(* counter.  commitMu is held exactly by the tasks in LockPCs; the secret  *)
(* value handler and the monitor read and write the same file without it.  *)
(***************************************************************************)
EXTENDS Chain

VARIABLES
    mem,         \* committedNodes: round -> node -> entry, lost on restart
    disk,        \* leader_commits.json
    known,       \* rounds with an activatedOperators entry, lost on restart
    order,       \* reveal_orders.json: round -> ordered_nodes, <<>> if none
    requested,   \* revealRequestStatus: round -> nodes asked, lost on restart
    pc,          \* task -> where it is
    file,        \* task -> the file contents it has read and will write back
    entry,       \* task -> the entry it will put into them
    todo,        \* task -> entries updateCommitDataAfterSubmit has left
    crashes,     \* restarts so far
    registered,  \* registered_nodes.json; NoValue while, or since, it is empty
    rewriting,   \* what a RegisterNode handler is about to encode into it
    registrations \* rewrites so far

registryVars == <<registered, rewriting, registrations>>
storeVars  == <<mem, disk, known, order, requested>>
taskVars   == <<pc, file, entry, todo>>
leaderVars == <<storeVars, taskVars, crashes>>

Entry == [cvs : CvsSet \cup {NoValue}, cos : CosSet \cup {NoValue},
          secret : Secrets \cup {NoValue}, rootDone : BOOLEAN, rngDone : BOOLEAN]

ASSUME EntryAssumption == NoValue \notin Entry

\* An entry without values is a key that is not there: no code path tells the
\* two apart and none saves such an entry.
NoEntry == [cvs |-> NoValue, cos |-> NoValue, secret |-> NoValue,
            rootDone |-> FALSE, rngDone |-> FALSE]
Store    == [Rounds -> [Nodes -> Entry]]
NoStore  == [r \in Rounds |-> [n \in Nodes |-> NoEntry]]

Present(store, r) == {n \in Nodes : store[r][n] # NoEntry}

PCs == {"idle", "save", "root", "leaves", "submitted", "flag", "flagWrite",
        "relock", "reveal", "start", "load", "secretWrite", "secretNext",
        "generated", "markWrite"}
LockPCs == {"save", "flag", "flagWrite", "reveal", "start"}
WaitPCs == {"submitted", "generated"}

LeaderTypeOK ==
    /\ mem \in Store /\ disk \in Store
    /\ known \in SUBSET Rounds
    /\ order \in [Rounds -> Seq(Nodes)]
    /\ requested \in [Rounds -> SUBSET Nodes]
    /\ pc \in [Tasks -> PCs]
    /\ file \in [Tasks -> Store \cup {NoValue}]
    /\ entry \in [Tasks -> Entry \cup {NoValue}]
    /\ todo \in [Tasks -> SUBSET Nodes]
    /\ crashes \in 0..MaxCrashes

LeaderInit ==
    /\ mem = NoStore /\ disk = NoStore
    /\ known = {}
    /\ order = [r \in Rounds |-> <<>>]
    /\ requested = [r \in Rounds |-> {}]
    /\ pc = [t \in Tasks |-> "idle"]
    /\ file = [t \in Tasks |-> NoValue]
    /\ entry = [t \in Tasks |-> NoValue]
    /\ todo = [t \in Tasks |-> {}]
    /\ crashes = 0

RegistryTypeOK ==
    /\ registered \in (SUBSET Nodes) \cup {NoValue}
    /\ rewriting \in (SUBSET Nodes) \cup {NoValue}
    /\ registrations \in 0..MaxRegistrations

RegistryInit == registered = Registered /\ rewriting = NoValue /\ registrations = 0

LockFree == \A t \in Tasks : pc[t] \notin LockPCs

\* waitForTransactionSuccess, which has no limit, for a transaction that has been
\* replaced.
Hangs(t) == pc[t] \in WaitPCs /\ txs[t].status = "replaced"

\* A goroutine is spawned (or a loop leaves its sleep).
Starts(t) ==
    /\ pc[t] = "idle"
    /\ Cardinality({u \in Tasks : pc[u] # "idle" /\ ~Hangs(u)}) < MaxBusy
Goto(t, l) == pc' = [pc EXCEPT ![t] = l]

\* generateMerkleRoot has returned: the cos handler takes the lock again, the
\* others are done.
AfterRoot(t) == IF Kind(t) = "cos" THEN "relock" ELSE "idle"

RootSubmitted(store, r) == \E n \in Nodes : store[r][n].rootDone
AllCommits(store, r) ==
    /\ r \in known
    /\ \A n \in OperatorSet(r) : store[r][n].cvs # NoValue

-----------------------------------------------------------------------------
\* The subgraph's operators of the round; a query that fails counts as no, which
\* loses the message.
IsEOAActivatedForRound(n, r) == n \in OperatorSet(r)

\* Faulty variant: the handler does not take commitMu.
HandleCommitUnlocked(t) ==
    LET r == RoundOf(t)
        n == NodeOf(t)
    IN  /\ Kind(t) = "cvs" /\ Starts(t)
        /\ IsEOAActivatedForRound(n, r)
        /\ \E m \in inbox :
              /\ m.type = "cvs" /\ m.round = r /\ m.node = n
              /\ inbox' = inbox \ {m}
              /\ entry' = [entry EXCEPT ![t] = [mem[r][n] EXCEPT !.cvs = m.value]]
        /\ file' = [file EXCEPT ![t] = disk]
        /\ Goto(t, "save")
        /\ UNCHANGED <<storeVars, faults, todo, crashes, chainVars>>

\* handleCommitRequest up to the read inside SaveLeaderCommitData.  The first
\* cvs of a node wins.
HandleCommit(t) ==
    LET r == RoundOf(t)
        n == NodeOf(t)
    IN  /\ Kind(t) = "cvs" /\ Starts(t) /\ LockFree
        /\ IsEOAActivatedForRound(n, r)
        /\ \E m \in inbox :
              /\ m.type = "cvs" /\ m.round = r /\ m.node = n
              /\ inbox' = inbox \ {m}
              /\ entry' = [entry EXCEPT ![t] =
                              IF mem[r][n].cvs = NoValue
                              THEN [mem[r][n] EXCEPT !.cvs = m.value]
                              ELSE mem[r][n]]
        /\ file' = [file EXCEPT ![t] = disk]
        /\ Goto(t, "save")
        /\ UNCHANGED <<storeVars, faults, todo, crashes, chainVars>>

CosAcceptable(e, cos) == e.cvs # NoValue /\ Cvs(cos) = e.cvs /\ e.cos = NoValue

\* handleCOSRequest up to the read inside SaveLeaderCommitData.
HandleCos(t) ==
    LET r == RoundOf(t)
        n == NodeOf(t)
    IN  /\ Kind(t) = "cos" /\ Starts(t) /\ LockFree
        /\ IsEOAActivatedForRound(n, r)
        /\ \E m \in inbox :
              /\ m.type = "cos" /\ m.round = r /\ m.node = n
              /\ CosAcceptable(mem[r][n], m.value)
              /\ inbox' = inbox \ {m}
              /\ entry' = [entry EXCEPT ![t] = [mem[r][n] EXCEPT !.cos = m.value]]
        /\ file' = [file EXCEPT ![t] = disk]
        /\ Goto(t, "save")
        /\ UNCHANGED <<storeVars, faults, todo, crashes, chainVars>>

\* Its three early returns: no cvs in memory, hash mismatch, cos already there.
RejectCos(t) ==
    LET r == RoundOf(t)
        n == NodeOf(t)
    IN  /\ Kind(t) = "cos" /\ Starts(t) /\ LockFree
        /\ \E m \in inbox :
              /\ m.type = "cos" /\ m.round = r /\ m.node = n
              /\ ~CosAcceptable(mem[r][n], m.value)
              /\ inbox' = inbox \ {m}
        /\ UNCHANGED <<faults, leaderVars, chainVars>>

\* Faulty variant: the file is written without the contents it had.
SaveEntryAlone(t) ==
    LET r   == RoundOf(t)
        n   == NodeOf(t)
        new == [mem EXCEPT ![r][n] = entry[t]]
    IN  /\ pc[t] = "save"
        /\ disk' = [NoStore EXCEPT ![r][n] = entry[t]]
        /\ mem' = new
        /\ Goto(t, IF AllCommits(new, r) /\ ~RootSubmitted(new, r) THEN "root"
                   ELSE IF Kind(t) = "cos" /\ AllCommits(new, r) THEN "reveal"
                   ELSE "idle")
        /\ file' = [file EXCEPT ![t] = NoValue]
        /\ entry' = [entry EXCEPT ![t] = NoValue]
        /\ UNCHANGED <<known, order, requested, todo, crashes, netVars, chainVars>>

\* Both handlers: write the file, update memory, then leave for
\* generateMerkleRoot (unlocking) when every cvs is there and no root is.
SaveEntry(t) ==
    LET r   == RoundOf(t)
        n   == NodeOf(t)
        new == [mem EXCEPT ![r][n] = entry[t]]
    IN  /\ pc[t] = "save"
        /\ disk' = [file[t] EXCEPT ![r][n] = entry[t]]
        /\ mem' = new
        /\ Goto(t, IF AllCommits(new, r) /\ ~RootSubmitted(new, r) THEN "root"
                   ELSE IF Kind(t) = "cos" /\ AllCommits(new, r) THEN "reveal"
                   ELSE "idle")
        /\ file' = [file EXCEPT ![t] = NoValue]
        /\ entry' = [entry EXCEPT ![t] = NoValue]
        /\ UNCHANGED <<known, order, requested, todo, crashes, netVars, chainVars>>

-----------------------------------------------------------------------------
\* Faulty variant: a round is looked at only when it is new.
PollNewRound(t) ==
    LET r == RoundOf(t)
    IN  /\ Kind(t) = "poll" /\ Starts(t) /\ LockFree
        /\ \A q \in Rounds : pc[Poll(q)] = "idle"
        /\ known' = known \cup {r}
        /\ LET ready == r \notin known /\ \A n \in OperatorSet(r) : mem[r][n].cvs # NoValue
           IN  \/ ready /\ Goto(t, "root")
               \/ (~ready \/ SubgraphShowsRoot(r)) /\ UNCHANGED pc
        /\ UNCHANGED <<mem, disk, order, requested, file, entry, todo, crashes,
                       netVars, chainVars>>

\* One round of processRounds: remember its operators; without a visible root
\* or number, and with every cvs in memory, generate the root.
PollRound(t) ==
    LET r == RoundOf(t)
    IN  /\ Kind(t) = "poll" /\ Starts(t) /\ LockFree
        /\ \A q \in Rounds : pc[Poll(q)] = "idle"
        /\ known' = known \cup {r}
        /\ LET ready == \A n \in OperatorSet(r) : mem[r][n].cvs # NoValue
           IN  \/ ready /\ Goto(t, "root")
               \/ (~ready \/ SubgraphShowsRoot(r)) /\ UNCHANGED pc
        /\ UNCHANGED <<mem, disk, order, requested, file, entry, todo, crashes,
                       netVars, chainVars>>

\* generateMerkleRoot: the flag check under the lock, then the operator query.
CheckRootFlag(t) ==
    /\ pc[t] = "root" /\ LockFree
    /\ Goto(t, IF RootSubmitted(mem, RoundOf(t)) THEN AfterRoot(t) ELSE "leaves")
    /\ UNCHANGED <<storeVars, file, entry, todo, crashes, netVars, chainVars>>

\* Faulty variant: the leaves come in the order Go iterates over the map.
SubmitRootUnordered(t) ==
    LET r == RoundOf(t)
    IN  /\ pc[t] = "leaves" /\ LockFree
        /\ \A n \in OperatorSet(r) : mem[r][n].cvs # NoValue
        /\ \E s \in [DOMAIN Operators[r] -> OperatorSet(r)] :
              /\ Range(s) = OperatorSet(r)
              /\ Send(t, [i \in DOMAIN s |-> mem[r][s[i]].cvs], <<>>)
        /\ Goto(t, "submitted")
        /\ UNCHANGED <<storeVars, file, entry, todo, crashes, netVars, chainRoot,
                       chainRandom, generated>>

\* The leaves in operator order, the tree and the transaction.  No step checks
\* the flag again.
SubmitRoot(t) ==
    LET r == RoundOf(t)
    IN  /\ pc[t] = "leaves" /\ LockFree
        /\ \A n \in OperatorSet(r) : mem[r][n].cvs # NoValue
        /\ Send(t, [i \in DOMAIN Operators[r] |-> mem[r][Operators[r][i]].cvs], <<>>)
        /\ Goto(t, "submitted")
        /\ UNCHANGED <<storeVars, file, entry, todo, crashes, netVars, chainRoot,
                       chainRandom, generated>>

\* The query or the RPC dial fails, or SendTransaction does: the pool refuses a
\* nonce that another transaction of the account has taken in the meantime.
SubmitRootFails(t) ==
    /\ pc[t] = "leaves"
    /\ Goto(t, AfterRoot(t))
    /\ UNCHANGED <<storeVars, file, entry, todo, crashes, netVars, chainVars>>

\* Faulty variant: the receipt is not waited for.
RootSent(t) ==
    /\ pc[t] = "submitted" /\ LockFree
    /\ todo' = [todo EXCEPT ![t] = Present(mem, RoundOf(t))]
    /\ Goto(t, "flag")
    /\ UNCHANGED <<storeVars, file, entry, crashes, netVars, chainVars>>

\* The receipt arrives and updateCommitDataAfterSubmit takes the lock.
RootMined(t) ==
    /\ pc[t] = "submitted" /\ LockFree
    /\ txs[t].status = "ok"
    /\ txs' = [txs EXCEPT ![t] = NoTx]
    /\ todo' = [todo EXCEPT ![t] = Present(mem, RoundOf(t))]
    /\ Goto(t, "flag")
    /\ UNCHANGED <<storeVars, file, entry, crashes, netVars, chainRoot,
                   chainRandom, generated>>

\* Its loop over the round's map, one SaveLeaderCommitData per entry, each of
\* them a read and a write of the whole file.
ReadForFlag(t) ==
    /\ pc[t] = "flag"
    /\ file' = [file EXCEPT ![t] = disk]
    /\ Goto(t, "flagWrite")
    /\ UNCHANGED <<storeVars, entry, todo, crashes, netVars, chainVars>>

WriteFlag(t) ==
    LET r == RoundOf(t)
    IN  /\ pc[t] = "flagWrite"
        /\ \E n \in todo[t] :
              LET flagged == [mem[r][n] EXCEPT !.rootDone = TRUE]
              IN  /\ disk' = [file[t] EXCEPT ![r][n] = flagged]
                  /\ mem' = [mem EXCEPT ![r][n] = flagged]
                  /\ todo' = [todo EXCEPT ![t] = @ \ {n}]
                  /\ Goto(t, IF todo[t] = {n} THEN AfterRoot(t) ELSE "flag")
        /\ file' = [file EXCEPT ![t] = NoValue]
        /\ UNCHANGED <<known, order, requested, entry, crashes, netVars, chainVars>>

-----------------------------------------------------------------------------
\* revealRequestStatus is appended to only when the request went out.
SendSecretRequest(r, n) ==
    \/ /\ inbox' = inbox \cup {Msg("request", r, n, NoValue)}
       /\ requested' = [requested EXCEPT ![r] = @ \cup {n}]
       /\ UNCHANGED faults
    \/ Fault /\ UNCHANGED <<inbox, requested>>

\* LoadRegisteredNodes decodes the file and finds the node in it.
IsRegistered(n) == registered # NoValue /\ n \in registered

\* The first registered node of the reveal order that is not in `skip`.
NextToAsk(r, skip) ==
    LET candidates == {i \in DOMAIN order[r] :
                          order[r][i] \notin skip /\ IsRegistered(order[r][i])}
    IN  {order[r][i] : i \in {j \in candidates : \A k \in candidates : j <= k}}

AskNext(r, skip) ==
    \/ \E n \in NextToAsk(r, skip) : SendSecretRequest(r, n)
    \/ NextToAsk(r, skip) = {} /\ UNCHANGED <<netVars, requested>>

Orders(r) == {s \in [1..Len(Operators[r]) -> OperatorSet(r)] :
                 Range(s) = OperatorSet(r)}

\* End of handleCOSRequest: DetermineRevealOrder over the cos values in the
\* file.  The rv is a hash, so any order of the operators may come out.
DetermineRevealOrder(t) ==
    LET r == RoundOf(t)
        missing == \E n \in OperatorSet(r) : disk[r][n].cos = NoValue
    IN  /\ \/ pc[t] = "reveal"
           \/ pc[t] = "relock" /\ LockFree
        /\ IF order[r] = <<>> /\ missing
           THEN Goto(t, "idle") /\ UNCHANGED order
           ELSE /\ Goto(t, "start")
                /\ IF order[r] = <<>>
                   THEN \E s \in Orders(r) : order' = [order EXCEPT ![r] = s]
                   ELSE UNCHANGED order
        /\ UNCHANGED <<mem, disk, known, requested, file, entry, todo, crashes,
                       netVars, chainVars>>

\* StartSecretValueRequests, still under the lock: ask the first node.
StartSecretValueRequests(t) ==
    /\ pc[t] = "start"
    /\ AskNext(RoundOf(t), {})
    /\ Goto(t, "idle")
    /\ UNCHANGED <<mem, disk, known, order, file, entry, todo, crashes, chainVars>>

-----------------------------------------------------------------------------
\* Faulty variant: the key of the entry does not name the node.
AcceptSecretForRound(t) ==
    LET r == RoundOf(t)
        n == NodeOf(t)
    IN  /\ Kind(t) = "secret" /\ Starts(t)
        /\ \E m \in inbox, k \in Nodes :
              /\ m.type = "secret" /\ m.round = r /\ m.node = n
              /\ inbox' = inbox \ {m}
              /\ entry' = [entry EXCEPT ![t] = [disk[r][k] EXCEPT !.secret = m.value]]
        /\ Goto(t, "load")
        /\ UNCHANGED <<storeVars, faults, file, todo, crashes, chainVars>>

\* AcceptSecretValue: LoadLeaderCommitData (a fresh entry when the key or the
\* file is not there) and the secret; nothing is verified against cos or cvs.
AcceptSecretValue(t) ==
    LET r == RoundOf(t)
        n == NodeOf(t)
    IN  /\ Kind(t) = "secret" /\ Starts(t)
        /\ \E m \in inbox :
              /\ m.type = "secret" /\ m.round = r /\ m.node = n
              /\ inbox' = inbox \ {m}
              /\ entry' = [entry EXCEPT ![t] = [disk[r][n] EXCEPT !.secret = m.value]]
        /\ Goto(t, "load")
        /\ UNCHANGED <<storeVars, faults, file, todo, crashes, chainVars>>

\* Its SaveLeaderCommitData, read ...
ReadForSecret(t) ==
    /\ pc[t] = "load"
    /\ file' = [file EXCEPT ![t] = disk]
    /\ Goto(t, "secretWrite")
    /\ UNCHANGED <<storeVars, entry, todo, crashes, netVars, chainVars>>

\* ... and write, whatever happened to the file in between.
WriteSecret(t) ==
    /\ pc[t] = "secretWrite"
    /\ disk' = [file[t] EXCEPT ![RoundOf(t)][NodeOf(t)] = entry[t]]
    /\ file' = [file EXCEPT ![t] = NoValue]
    /\ entry' = [entry EXCEPT ![t] = NoValue]
    /\ Goto(t, "secretNext")
    /\ UNCHANGED <<mem, known, order, requested, todo, crashes, netVars, chainVars>>

\* HandleSecretValueResponse: ask the next node of the reveal order.
HandleSecretValueResponse(t) ==
    /\ pc[t] = "secretNext"
    /\ AskNext(RoundOf(t), requested[RoundOf(t)])
    /\ Goto(t, "idle")
    /\ UNCHANGED <<mem, disk, known, order, file, entry, todo, crashes, chainVars>>

-----------------------------------------------------------------------------
\* checkRoundsForCompletion looks at one arbitrary entry of the round for each
\* of its two flags.
RoundOpen(r) ==
    /\ \E n \in Present(disk, r) : ~disk[r][n].rngDone
    /\ \E n \in Present(disk, r) : disk[r][n].rootDone

MonitorIdle == \A q \in Rounds : pc[Monitor(q)] = "idle"

\* Positions of the operators whose secret, or whose signature, is missing.
MissingSecret(r) == {i \in DOMAIN Operators[r] :
                        disk[r][Operators[r][i]].secret = NoValue}
MissingSign(r)   == {i \in DOMAIN Operators[r] :
                        disk[r][Operators[r][i]].cvs = NoValue} \ MissingSecret(r)
Unregistered(r)  == {i \in DOMAIN Operators[r] : ~IsRegistered(Operators[r][i])}

\* Operators without a secret that are not registered are skipped (`continue`);
\* any other gap ends the scan.
Stops(r) == (MissingSecret(r) \ Unregistered(r)) \cup MissingSign(r)

\* Faulty variant: a node that was asked is not asked again.
MonitorRequestsOnce(t) ==
    LET r == RoundOf(t)
    IN  /\ Kind(t) = "monitor" /\ Starts(t) /\ MonitorIdle
        /\ RoundOpen(r)
        /\ \E i \in MissingSecret(r) \cap Stops(r) :
              /\ \A j \in Stops(r) : i <= j
              /\ Operators[r][i] \notin requested[r]
              /\ SendSecretRequest(r, Operators[r][i])
        /\ UNCHANGED <<mem, disk, known, order, taskVars, crashes, chainVars>>

\* The scan in operator order stops at a missing secret: ask its node.
MonitorRequests(t) ==
    LET r == RoundOf(t)
    IN  /\ Kind(t) = "monitor" /\ Starts(t) /\ MonitorIdle
        /\ RoundOpen(r)
        /\ \E i \in MissingSecret(r) \cap Stops(r) :
              /\ \A j \in Stops(r) : i <= j
              /\ SendSecretRequest(r, Operators[r][i])
        /\ UNCHANGED <<mem, disk, known, order, taskVars, crashes, chainVars>>

\* The positions of the operators whose secret is in the file, in contract order.
Collected(r) ==
    LET have == DOMAIN Operators[r] \ MissingSecret(r)
    IN  {p \in [1..Cardinality(have) -> have] :
            \A i, j \in DOMAIN p : i < j => p[i] < p[j]}

\* The scan reaches the end: generateRandomNumberTransaction with what it found.
MonitorGenerates(t) ==
    LET r == RoundOf(t)
        At(i) == disk[r][Operators[r][i]]
    IN  /\ Kind(t) = "monitor" /\ Starts(t) /\ MonitorIdle
        /\ RoundOpen(r) /\ Stops(r) = {}
        /\ generated[r] < MaxGenerated
        /\ \E p \in Collected(r) :
              /\ p # <<>>
              /\ Send(t, [i \in DOMAIN p |-> At(p[i]).secret],
                         [i \in DOMAIN p |-> At(p[i]).cvs])
        /\ file' = [file EXCEPT ![t] = disk]
        /\ Goto(t, "generated")
        /\ UNCHANGED <<storeVars, entry, todo, crashes, netVars, chainRoot,
                       chainRandom, generated>>

\* The receipt arrives; markRoundCompleted creates the file anew (os.Create
\* empties it) ...
TruncateForMark(t) ==
    /\ pc[t] = "generated"
    /\ txs[t].status = "ok"
    /\ txs' = [txs EXCEPT ![t] = NoTx]
    /\ disk' = NoStore
    /\ Goto(t, "markWrite")
    /\ UNCHANGED <<mem, known, order, requested, file, entry, todo, crashes,
                   netVars, chainRoot, chainRandom, generated>>

\* ... and encodes what the monitor read before the transaction, with the
\* round's entries marked.
Marked(store, r) ==
    [store EXCEPT ![r] = [n \in Nodes |->
        IF n \in Present(store, r) THEN [store[r][n] EXCEPT !.rngDone = TRUE]
                                   ELSE store[r][n]]]

WriteMark(t) ==
    /\ pc[t] = "markWrite"
    /\ disk' = Marked(file[t], RoundOf(t))
    /\ file' = [file EXCEPT ![t] = NoValue]
    /\ Goto(t, "idle")
    /\ UNCHANGED <<mem, known, order, requested, entry, todo, crashes, netVars,
                   chainVars>>

-----------------------------------------------------------------------------
\* ExecuteTransaction returns an error after it sent the transaction: it was
\* reverted; or generateRandomNumber would revert when its gas is estimated, which
\* need not be so when it is mined; or a query fails, mined or not.
TransactionFails(t) ==
    /\ pc[t] \in WaitPCs
    /\ \/ txs[t].status = "reverted" /\ UNCHANGED faults
       \/ txs[t].status = "pending" /\ Kind(t) = "monitor" /\ UNCHANGED faults
       \/ Fault
    /\ txs' = [txs EXCEPT ![t] = IF @.status = "pending" THEN @ ELSE NoTx]
    /\ Goto(t, AfterRoot(t))
    /\ file' = [file EXCEPT ![t] = NoValue]
    /\ UNCHANGED <<storeVars, entry, todo, crashes, inbox, chainRoot,
                   chainRandom, generated>>

\* RegisterNode saves a node into registered_nodes.json (module Registration has
\* its other steps): os.Create empties the file ...
CreateRegistry ==
    /\ registrations < MaxRegistrations /\ registered # NoValue
    /\ registrations' = registrations + 1
    /\ \E n \in Nodes : \E loaded \in SUBSET registered : rewriting' = loaded \cup {n}
    /\ registered' = NoValue

\* ... and the map the handler had loaded, which may be older than the file, is
\* encoded with the node added.
SaveRegistry ==
    /\ rewriting # NoValue
    /\ registered' = rewriting
    /\ rewriting' = NoValue
    /\ UNCHANGED registrations

\* A restart (a crash, or the log.Fatalf of a failed subgraph query): files and
\* sent transactions survive, maps, goroutines and open streams do not.
Crash ==
    /\ crashes < MaxCrashes
    /\ crashes' = crashes + 1
    /\ mem' = NoStore
    /\ known' = {}
    /\ requested' = [r \in Rounds |-> {}]
    /\ pc' = [t \in Tasks |-> "idle"]
    /\ file' = [t \in Tasks |-> NoValue]
    /\ entry' = [t \in Tasks |-> NoValue]
    /\ todo' = [t \in Tasks |-> {}]
    /\ txs' = [t \in Tasks |-> IF txs[t].status = "pending" THEN txs[t] ELSE NoTx]
    /\ inbox' = {m \in inbox : m.type = "request"}
    /\ rewriting' = NoValue
    /\ UNCHANGED <<registered, registrations, faults, disk, order, chainRoot, chainRandom, generated>>
=============================================================================
