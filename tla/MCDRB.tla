------------------------------- MODULE MCDRB -------------------------------
(* Two operators in each round, for TLC. *)
EXTENDS DRB
CONSTANTS n1, n2

MCOperators == [r \in Rounds |-> <<n1, n2>>]

\* Overlapping tasks are explored up to the first random number, and where a request
\* came from outside up to the first cos.  That request goes to the first node,
\* before the root (later it is like one of the leader's).  Waits that end in an
\* error or never end leave this run: `restart` and `root` follow them.
UntilGenerated ==
    /\ \A r \in Rounds : generated[r] = 0
    /\ \A t \in Tasks : txs[t].status = "pending" => Awaited(t)
    /\ \A t \in Tasks : txs[t].status \notin {"reverted", "replaced"}
    /\ outside = Cardinality(early)
    /\ \A m \in inbox : m.type = "request" /\ chainRoot[m.round] = NoValue => m.node = n1
    /\ \A m \in inbox : m.type = "cos" => m.round \notin early

\* A task that hangs takes no further step and is not followed.
NothingHangs == \A t \in Tasks : ~Hangs(t)

CosSent(n, r) == commits[n][r] # NoValue /\ commits[n][r].cosSent
Busy == {t \in Tasks : pc[t] # "idle"}

\* Two tasks at work on the file at once: the flags being set, secrets being saved, and
\* the polling loop, which finds the flag.
OverlapInFile ==
    /\ \A t \in Busy :
          pc[t] \in {"flag", "flagWrite", "load", "secretWrite", "secretNext", "root"}
    /\ \A r \in Rounds : chainRoot[r] # NoValue
    /\ Cardinality(inbox) <= 1 /\ faults = 0 /\ registered = Nodes

\* What RecordedRootLeadsToNumber says of a round is settled for good once there is a
\* random number or, without restarts, once the monitor hangs.  The failure and the
\* registration come when the root is on chain: `root` has the phase before.  The
\* reveal order is the one that is not the contract's; a registration that leaves
\* a node out for good, against the premise of the property, is not followed.
RootedAndUnsettled ==
    /\ NothingHangs
    /\ Cardinality(Busy) <= 1 \/ OverlapInFile
    /\ \A r \in Rounds : generated[r] = 0
    /\ \A r \in Rounds : chainRoot[r] = NoValue => faults = 0 /\ registrations = 0
    /\ \A r \in Rounds : order[r] # Operators[r]
    /\ \A r \in Rounds : CosSent(n2, r) => CosSent(n1, r)
    /\ rewriting \in {NoValue, Nodes}

\* The failure comes while one node is not registered yet: what is sent to or by the
\* other one is what may get lost.
FailureFirst == faults' # faults => registered # Nodes

\* The first round of two is carried on up to its completion mark; commitments
\* of the second come in only while its random number is being generated.
SecondRoundDuringFirst ==
    /\ \A t \in Tasks : RoundOf(t) = 2 => Kind(t) \in {"cvs", "poll"} \/ pc[t] = "idle"
    /\ pc[Monitor(1)] \in WaitPCs \cup {"markWrite"} \/
          (\A n \in Nodes : commits[n][2] = NoValue)
=============================================================================
