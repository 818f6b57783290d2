------------------------------ MODULE DRBBase ------------------------------
(***************************************************************************)
(* Constants, hash terms, messages and task names shared by every module   *)
(* of the node models.  Hashes and secrets are terms: two of them are      *)
(* equal only when they were made from equal inputs.                       *)
(***************************************************************************)
EXTENDS Naturals, Sequences, FiniteSets, Functions

CONSTANTS
    Nodes,        \* regular nodes, identified by their EOA
    Rounds,       \* rounds already requested on chain
    Stamps,       \* the clock readings GenerateCommit may use
    Operators,    \* round -> its activated operators, in contract order
    Registered,   \* nodes in registered_nodes.json at the start
    MaxFaults,    \* bound: how many messages, queries and calls may fail
    MaxCrashes,   \* bound: how often the leader process may be restarted
    MaxGenerated, \* bound: how often a round's random number is generated
    MaxRegistrations, \* bound: how often registered_nodes.json is rewritten
    MaxOutside,   \* bound: how many secret requests come from others than the leader
    MaxBusy,      \* bound: how many leader goroutines are at work at once
    NoValue       \* a [32]byte that was never set

ASSUME OperatorsAssumption ==
    /\ Operators \in [Rounds -> Seq(Nodes)]
    /\ \A r \in Rounds : Len(Operators[r]) >= 2
    /\ \A r \in Rounds : \A i, j \in DOMAIN Operators[r] :
          Operators[r][i] = Operators[r][j] => i = j

ASSUME RegisteredAssumption == Registered \subseteq Nodes

ASSUME BoundsAssumption ==
    {MaxFaults, MaxCrashes, MaxGenerated, MaxRegistrations, MaxOutside, MaxBusy}
        \subseteq Nat

OperatorSet(r) == Range(Operators[r])

-----------------------------------------------------------------------------
\* GenerateCommit: secret from round, operator and clock; cos and cvs by hashing.
Keccak(x)       == <<"keccak", x>>
Secret(r, n, t) == <<"secret", r, n, t>>
Cos(s)          == Keccak(s)
Cvs(c)          == Keccak(c)

Secrets == {Secret(r, n, t) : r \in Rounds, n \in Nodes, t \in Stamps}
CosSet  == {Cos(s) : s \in Secrets}
CvsSet  == {Cvs(c) : c \in CosSet}

\* A value that was never set is no hash and no sequence of them.
ASSUME NoValueAssumption ==
    /\ NoValue \notin Secrets \cup CosSet \cup CvsSet
    /\ NoValue \notin Seq(CvsSet) \cup Seq(Secrets)

-----------------------------------------------------------------------------
\* What travels on the libp2p streams.  "request" goes from the leader (or
\* somebody else) to a node, the other kinds from a node to the leader.
Message ==
    [type : {"cvs"}, round : Rounds, node : Nodes, value : CvsSet]
    \cup [type : {"cos"}, round : Rounds, node : Nodes, value : CosSet]
    \cup [type : {"secret"}, round : Rounds, node : Nodes, value : Secrets]
    \cup [type : {"request"}, round : Rounds, node : Nodes, value : {NoValue}]

VARIABLES
    inbox,    \* the messages sent and not yet handled
    faults,   \* failures so far
    outside,  \* secret requests so far that were not the leader's
    early     \* rounds in which one of those was sent before the root

netVars == <<inbox, faults>>
outsideVars == <<outside, early>>

\* One more stream, query or call fails.
Fault == faults < MaxFaults /\ faults' = faults + 1

Msg(type, r, n, v) == [type |-> type, round |-> r, node |-> n, value |-> v]

-----------------------------------------------------------------------------
\* Goroutines of the leader: one stream handler per kind, round and node, the
\* polling loop of RunLeaderNode and the loop of MonitorCommits (each works on
\* one round at a time).
Handlers  == {"cvs", "cos", "secret"} \X Rounds \X Nodes
Poll(r)    == <<"poll", r, NoValue>>
Monitor(r) == <<"monitor", r, NoValue>>
Tasks == Handlers \cup {Poll(r) : r \in Rounds} \cup {Monitor(r) : r \in Rounds}

Kind(t)    == t[1]
RoundOf(t) == t[2]
NodeOf(t)  == t[3]
=============================================================================
