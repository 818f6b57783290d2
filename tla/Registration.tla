---------------------------- MODULE Registration ----------------------------
(***************************************************************************)
(* How an operator gets in: CreateHost with the node's peer id file, the   *)
(* deposit and registration part of RunRegularNode, the leader's           *)
(* RegisterNode handlers with registered_nodes.json, and activation on     *)
(* chain.  Every account has the funds it needs.                           *)
(* The contract is the one the nodes call, contract/abi/                   *)
(* Commit2RevealDRB.json, whose activate is sent by the leader and names   *)
(* the operator; in Commit2RevealDRB.sol operators activate themselves.    *)
(***************************************************************************)
EXTENDS Integers, Sequences, FiniteSets

CONSTANTS
    Nodes,       \* regular nodes, identified by their EOA
    Threshold,   \* s_activationThreshold
    MaxActivated,\* s_maxActivatedOperators
    Price,       \* what a request for a random number charges every operator
    MaxOthers,   \* bound: how many operators there are besides Nodes
    MaxFaults,   \* bound: how many messages, queries and transactions may fail
    MaxCharges,  \* bound: how often a request charges the operators
    MaxCrashes,  \* bound: how often the leader or a node may be restarted
    Empty        \* the contents of a file that was created and not yet written

ASSUME ThresholdAssumption == Threshold \in Nat \ {0}
ASSUME PriceAssumption == Price \in Nat
ASSUME BoundsAssumption ==
    /\ MaxFaults \in Nat /\ MaxCharges \in Nat /\ MaxCrashes \in Nat
    /\ MaxOthers \in Nat

VARIABLES
    deposit,      \* s_depositAmount
    activated,    \* s_activatedOperators: which of Nodes are among them ...
    others,       \* ... and how many others
    deposits,     \* node -> the deposit transactions it has pending
    activations,  \* nodes for which the leader has an activate pending
    loop,         \* node -> where RunRegularNode is
    peerFile,     \* node -> regular_peer_id.json: a peer id, Empty or NoPeer
    peer,         \* node -> the identity its process works with, or NoPeer
    inbox,        \* registration requests on their way
    file,         \* registered_nodes.json: node -> its peer id, or Empty
    handler,      \* node -> the RegisterNode at work on its request
    faults, charges, crashes

chainVars == <<deposit, activated, others, deposits, activations>>
hostVars == <<peerFile, peer>>
vars == <<chainVars, loop, hostVars, inbox, file, handler, faults, charges, crashes>>

\* A process generates at most one key, and between two processes of a node there
\* is a restart: so their number tells the keys of a node apart.
NoPeer  == 0
NewPeer == crashes + 1
PeerIds == 1..(MaxCrashes + 1)

Request    == [node : Nodes, peer : PeerIds]
NodeInfos  == [Nodes -> PeerIds \cup {NoPeer}]
Registered(infos) == {n \in Nodes : infos[n] # NoPeer}

ASSUME EmptyAssumption == Empty \notin PeerIds /\ Empty \notin NodeInfos

\* nodes: the map the handler has loaded, its own node added.
Idle == [at |-> "idle", nodes |-> [n \in Nodes |-> NoPeer]]
Handler == [at : {"idle", "loaded", "created", "saved", "sent"}, nodes : NodeInfos]

TypeOK ==
    /\ deposit \in [Nodes -> Nat]
    /\ activated \subseteq Nodes
    /\ others \in 0..MaxOthers
    /\ deposits \in [Nodes -> Seq(Nat)]
    /\ activations \subseteq Nodes
    /\ loop \in [Nodes -> {"down", "saving", "running", "depositing"}]
    /\ peerFile \in [Nodes -> PeerIds \cup {NoPeer, Empty}]
    /\ peer \in [Nodes -> PeerIds \cup {NoPeer}]
    /\ inbox \subseteq Request
    /\ file \in NodeInfos \cup {Empty}
    /\ handler \in [Nodes -> Handler]
    /\ faults \in 0..MaxFaults /\ charges \in 0..MaxCharges /\ crashes \in 0..MaxCrashes

\* No file is the same as one without nodes.
Init ==
    /\ deposit = [n \in Nodes |-> 0]
    /\ activated = {}
    /\ others \in 0..MaxOthers /\ others <= MaxActivated
    /\ deposits = [n \in Nodes |-> <<>>]
    /\ activations = {}
    /\ loop = [n \in Nodes |-> "down"]
    /\ peerFile = [n \in Nodes |-> NoPeer]
    /\ peer = [n \in Nodes |-> NoPeer]
    /\ inbox = {}
    /\ file = [n \in Nodes |-> NoPeer]
    /\ handler = [n \in Nodes |-> Idle]
    /\ faults = 0 /\ charges = 0 /\ crashes = 0

Fault   == faults < MaxFaults /\ faults' = faults + 1
NoFault == UNCHANGED faults

-----------------------------------------------------------------------------
\* CreateHost, when LoadPeerID finds a key: the host has its identity.
LoadPeerID(n) ==
    /\ loop[n] = "down" /\ peerFile[n] \in PeerIds
    /\ peer' = [peer EXCEPT ![n] = peerFile[n]]
    /\ loop' = [loop EXCEPT ![n] = "running"]
    /\ UNCHANGED <<chainVars, peerFile, inbox, file, handler, faults, charges, crashes>>

\* Faulty variant: the new key is not written to the file.
GenerateKeyUnsaved(n) ==
    /\ loop[n] = "down" /\ peerFile[n] \notin PeerIds
    /\ peer' = [peer EXCEPT ![n] = NewPeer]
    /\ loop' = [loop EXCEPT ![n] = "running"]
    /\ UNCHANGED <<chainVars, peerFile, inbox, file, handler, faults, charges, crashes>>

\* No file, or one that does not decode: CreateHost generates a key, and
\* SavePeerID's WriteFile empties the file ...
GenerateKey(n) ==
    /\ loop[n] = "down" /\ peerFile[n] \notin PeerIds
    /\ peer' = [peer EXCEPT ![n] = NewPeer]
    /\ peerFile' = [peerFile EXCEPT ![n] = Empty]
    /\ loop' = [loop EXCEPT ![n] = "saving"]
    /\ UNCHANGED <<chainVars, inbox, file, handler, faults, charges, crashes>>

\* ... and writes it; only then is there a host.
SavePeerID(n) ==
    /\ loop[n] = "saving"
    /\ peerFile' = [peerFile EXCEPT ![n] = peer[n]]
    /\ loop' = [loop EXCEPT ![n] = "running"]
    /\ UNCHANGED <<chainVars, peer, inbox, file, handler, faults, charges, crashes>>

\* The node is restarted: its transactions stay, its streams may break.
Restart(n) ==
    /\ loop[n] # "down"
    /\ crashes < MaxCrashes
    /\ crashes' = crashes + 1
    /\ loop' = [loop EXCEPT ![n] = "down"]
    /\ peer' = [peer EXCEPT ![n] = NoPeer]
    /\ inbox' \in {inbox, {m \in inbox : m.node # n}}
    /\ UNCHANGED <<chainVars, peerFile, file, handler, faults, charges>>

-----------------------------------------------------------------------------
\* checkActivationStatus answers no for an activated node only when the query
\* fails.
SeesInactive(n) == (n \notin activated /\ NoFault) \/ Fault

\* Faulty variant: the two operands of the subtraction are swapped.
RemainingSwapped(n) == deposit[n] - Threshold

Remaining(n) == Threshold - deposit[n]

\* depositAndCheckActivation: deposit what is missing and wait for the receipt.
SendDeposit(n) ==
    /\ loop[n] = "running"
    /\ SeesInactive(n)
    /\ deposit[n] < Threshold
    /\ deposits' = [deposits EXCEPT ![n] = Append(@, Remaining(n))]
    /\ loop' = [loop EXCEPT ![n] = "depositing"]
    /\ UNCHANGED <<deposit, activated, others, activations, hostVars, inbox, file, handler, charges, crashes>>

\* The receipt is there, or a gas estimate or receipt query fails and the loop
\* starts over with the transaction still pending.
DepositReturns(n) ==
    /\ loop[n] = "depositing"
    /\ (deposits[n] = <<>> /\ NoFault) \/ Fault
    /\ loop' = [loop EXCEPT ![n] = "running"]
    /\ UNCHANGED <<chainVars, hostVars, inbox, file, handler, charges, crashes>>

\* "Node is activated. No further action required."
Rest(n) ==
    /\ loop[n] = "running" /\ n \in activated
    /\ UNCHANGED vars

SendRegistrationRequest(n) ==
    /\ loop[n] = "running"
    /\ SeesInactive(n)
    /\ deposit[n] >= Threshold
    /\ inbox' = inbox \cup {[node |-> n, peer |-> peer[n]]}
    /\ UNCHANGED <<chainVars, loop, hostVars, file, handler, charges, crashes>>

\* The stream cannot be opened or read.
LoseRequest(n) ==
    /\ Fault
    /\ \E m \in inbox : m.node = n /\ inbox' = inbox \ {m}
    /\ UNCHANGED <<chainVars, loop, hostVars, file, handler, charges, crashes>>

-----------------------------------------------------------------------------
Goto(n, at) == handler' = [handler EXCEPT ![n].at = at]
Done(n)     == handler' = [handler EXCEPT ![n] = Idle]

\* Faulty variant: a node that is in the file already is left alone.
LoadUnlessKnown(n) ==
    /\ handler[n] = Idle
    /\ \E m \in inbox :
          /\ m.node = n
          /\ inbox' = inbox \ {m}
          /\ IF file = Empty \/ file[n] # NoPeer
             THEN UNCHANGED handler
             ELSE handler' = [handler EXCEPT ![n] =
                      [at |-> "loaded", nodes |-> [file EXCEPT ![n] = m.peer]]]
    /\ UNCHANGED <<chainVars, loop, hostVars, file, faults, charges, crashes>>

\* RegisterNode reads the file (an empty one does not decode: the registration
\* fails) and adds or updates the node.
LoadRegisteredNodes(n) ==
    /\ handler[n] = Idle
    /\ \E m \in inbox :
          /\ m.node = n
          /\ inbox' = inbox \ {m}
          /\ IF file = Empty
             THEN UNCHANGED handler
             ELSE handler' = [handler EXCEPT ![n] =
                      [at |-> "loaded", nodes |-> [file EXCEPT ![n] = m.peer]]]
    /\ UNCHANGED <<chainVars, loop, hostVars, file, faults, charges, crashes>>

\* SaveRegisteredNodes: os.Create empties the file ...
CreateFile(n) ==
    /\ handler[n].at = "loaded"
    /\ file' = Empty
    /\ Goto(n, "created")
    /\ UNCHANGED <<chainVars, loop, hostVars, inbox, faults, charges, crashes>>

\* ... and Encode fills it with what was loaded before.
SaveRegisteredNodes(n) ==
    /\ handler[n].at = "created"
    /\ file' = handler[n].nodes
    /\ Goto(n, "saved")
    /\ UNCHANGED <<chainVars, loop, hostVars, inbox, faults, charges, crashes>>

\* ActivateOnChain up to SendTransaction: nothing to do for an activated node,
\* an error for a deposit that is too small or a call that fails.
ActivateOnChain(n) ==
    /\ handler[n].at = "saved"
    /\ \/ /\ n \in activated \/ deposit[n] < Threshold
          /\ Done(n) /\ NoFault
          /\ UNCHANGED activations
       \/ /\ Fault /\ Done(n)
          /\ UNCHANGED activations
       \/ /\ n \notin activated /\ deposit[n] >= Threshold
          /\ activations' = activations \cup {n}
          /\ Goto(n, "sent") /\ NoFault
    /\ UNCHANGED <<deposit, activated, others, deposits, loop, hostVars, inbox, file, charges, crashes>>

\* _activate has a place for one more.
PlaceFree == Cardinality(activated) + others < MaxActivated

\* The gas estimate, made after sending, reverts; the receipt is there (successful
\* or reverted) or cannot be had.  A handler that waits for the receipt of a
\* replaced transaction counts as gone: the next request gets one of its own.
ActivationReturns(n) ==
    /\ handler[n].at = "sent"
    /\ \/ (n \notin activations \/ deposit[n] < Threshold \/ ~PlaceFree) /\ NoFault
       \/ Fault
    /\ Done(n)
    /\ UNCHANGED <<chainVars, loop, hostVars, inbox, file, charges, crashes>>

\* A restart: requests and handlers are gone, the file and sent transactions
\* stay.
Crash ==
    /\ crashes < MaxCrashes
    /\ crashes' = crashes + 1
    /\ inbox' = {}
    /\ handler' = [n \in Nodes |-> Idle]
    /\ UNCHANGED <<chainVars, loop, hostVars, file, faults, charges>>

-----------------------------------------------------------------------------
MineDeposit(n) ==
    /\ deposits[n] # <<>>
    /\ deposit' = [deposit EXCEPT ![n] = @ + Head(deposits[n])]
    /\ deposits' = [deposits EXCEPT ![n] = Tail(@)]
    /\ UNCHANGED <<activated, others, activations, loop, hostVars, inbox, file, handler, faults, charges, crashes>>

\* Activation requires the deposit and, in _activate, that the operator is not
\* activated and that there is a place free.
CanActivate(n) == deposit[n] >= Threshold /\ n \notin activated /\ PlaceFree

MineActivation(n) ==
    /\ n \in activations
    /\ activations' = activations \ {n}
    /\ activated' = IF CanActivate(n) THEN activated \cup {n} ELSE activated
    /\ UNCHANGED <<deposit, others, deposits, loop, hostVars, inbox, file, handler, faults, charges, crashes>>

\* Another transaction of the leader with the same nonce is mined instead.
ReplaceActivation(n) ==
    /\ n \in activations /\ Fault
    /\ activations' = activations \ {n}
    /\ UNCHANGED <<deposit, activated, others, deposits, loop, hostVars, inbox, file, handler, charges, crashes>>

\* Other operators activate themselves as places are free, and leave.
OthersChange ==
    /\ others' \in 0..MaxOthers
    /\ others' = others - 1 \/ (others' = others + 1 /\ PlaceFree)
    /\ UNCHANGED <<deposit, activated, deposits, activations, loop, hostVars, inbox, file, handler, faults, charges, crashes>>

\* requestRandomNumber charges every operator, reverts when one of them cannot pay,
\* and drops those who are left with less than the threshold.
Charge ==
    /\ charges < MaxCharges
    /\ charges' = charges + 1
    /\ Cardinality(activated) + others >= 2
    /\ \A n \in activated : deposit[n] >= Price
    /\ deposit' = [n \in Nodes |-> IF n \in activated THEN deposit[n] - Price ELSE deposit[n]]
    /\ activated' = {n \in activated : deposit[n] - Price >= Threshold}
    /\ others' \in 0..others
    /\ UNCHANGED <<deposits, activations, loop, hostVars, inbox, file, handler, faults, crashes>>

NodeStep(n) ==
    \/ LoadPeerID(n) \/ GenerateKey(n) \/ SavePeerID(n)
    \/ SendDeposit(n) \/ DepositReturns(n) \/ SendRegistrationRequest(n) \/ Rest(n)
HandlerStep(n) ==
    \/ LoadRegisteredNodes(n) \/ CreateFile(n) \/ SaveRegisteredNodes(n)
    \/ ActivateOnChain(n) \/ ActivationReturns(n)
Mine(n) == MineDeposit(n) \/ MineActivation(n)

Next ==
    \/ \E n \in Nodes : \/ NodeStep(n) \/ HandlerStep(n) \/ Mine(n)
                        \/ LoseRequest(n) \/ Restart(n) \/ ReplaceActivation(n)
    \/ Charge \/ OthersChange \/ Crash

Spec == Init /\ [][Next]_vars

\* Loops, handlers and the chain go on; nothing has to fail.
Fairness ==
    \A n \in Nodes : WF_vars(NodeStep(n)) /\ WF_vars(HandlerStep(n)) /\ WF_vars(Mine(n))

FairSpec == Spec /\ Fairness

-----------------------------------------------------------------------------
\* A node that keeps its loop running is activated, and again after every charge
\* that costs it its place, although requests get lost, transactions are replaced
\* or taken for failed, handlers overwrite each other's file and the node is
\* restarted, also while it saves its key - unless it finds the places taken by
\* others again and again, or a restart of the leader in the middle of
\* SaveRegisteredNodes has left its file empty for good.
NodesGetActivated ==
    \A n \in Nodes :
        \/ []<>(n \in activated)
        \/ []<>(n \notin activated /\ ~PlaceFree)
        \/ <>[](file = Empty)

\* The leader can reach whom it has registered: for every node with a host, the
\* peer id in registered_nodes.json, in any request on its way and in whatever a
\* handler is about to save is the identity of that host, across restarts of
\* either side at any point and requests that outlive the process that sent them.
PeerIdsCurrent ==
    \A n \in Nodes : loop[n] \in {"running", "depositing"} =>
        /\ file # Empty => file[n] \in {NoPeer, peer[n]}
        /\ \A h \in Nodes : handler[h].nodes[n] \in {NoPeer, peer[n]}
        /\ \A m \in inbox : m.node = n => m.peer = peer[n]

\* regularNode.go:139: "Node is activated. No further action required."  When no
\* registration is going on, the leader must know every activated node.
ActivatedNodesRegistered ==
    (\A n \in Nodes : handler[n] = Idle) => 
        file # Empty /\ activated \subseteq Registered(file)
=============================================================================
