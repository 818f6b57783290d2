------------------------- MODULE Registration_proofs -------------------------
(***************************************************************************)
(* Proofs about Registration for every number of nodes, failures, charges  *)
(* and restarts: its types, and that the leader knows nodes by the         *)
(* identity their hosts have.                                              *)
(***************************************************************************)
EXTENDS Registration, TLAPS

-----------------------------------------------------------------------------
(* The peer ids that may be about for a node are what its own file holds:  *)
(* a key is written before the host that could send it exists.             *)
Saved(n) == {NoPeer} \cup ({peerFile[n]} \cap PeerIds)

HostSaved ==
    \A n \in Nodes :
        /\ loop[n] \in {"running", "depositing"} => peer[n] \in Saved(n) \ {NoPeer}
        /\ loop[n] = "saving" => peer[n] \in PeerIds /\ Saved(n) = {NoPeer}

KnownSaved ==
    \A n \in Nodes :
        /\ file # Empty => file[n] \in Saved(n)
        /\ \A h \in Nodes : handler[h].nodes[n] \in Saved(n)
        /\ \A m \in inbox : m.node = n => m.peer \in Saved(n)

\* A node in the contract's list has paid for it: what _deactivate in the middle of a
\* charge and the threshold of activate are there for.
ActivatedPaid == \A n \in activated : deposit[n] >= Threshold

IdentityInv == TypeOK /\ HostSaved /\ KnownSaved
RegistrationInv == IdentityInv /\ ActivatedPaid

-----------------------------------------------------------------------------
LEMMA NewPeerIsPeerId ==
    ASSUME TypeOK
    PROVE  NewPeer \in PeerIds
  BY BoundsAssumption DEF TypeOK, NewPeer, PeerIds

LEMMA NoPeerIsNone == NoPeer \notin PeerIds
  BY DEF NoPeer, PeerIds

LEMMA FaultCounted ==
    ASSUME TypeOK, Fault \/ NoFault
    PROVE  faults' \in 0..MaxFaults
  BY BoundsAssumption DEF TypeOK, Fault, NoFault

LEMMA InitRegistration == Init => RegistrationInv
  <1> SUFFICES ASSUME Init PROVE RegistrationInv
    OBVIOUS
  <1>1. [n \in Nodes |-> NoPeer] \in NodeInfos
    BY DEF NodeInfos
  <1>2. TypeOK
    BY <1>1, BoundsAssumption DEF Init, TypeOK, Handler, Idle
  <1>3. HostSaved
    BY DEF Init, HostSaved
  <1>4. KnownSaved
    BY DEF Init, KnownSaved, Idle, Saved
  <1>5. ActivatedPaid
    BY DEF Init, ActivatedPaid
  <1> QED BY <1>2, <1>3, <1>4, <1>5 DEF RegistrationInv, IdentityInv
-----------------------------------------------------------------------------
\* Steps that leave the peer id files, hosts, requests, registered_nodes.json and
\* the handlers' copies alone.
LEMMA IdentitiesKeep ==
    ASSUME IdentityInv, TypeOK', UNCHANGED <<peerFile, peer, inbox, file>>,
           \A h \in Nodes : handler'[h].nodes = handler[h].nodes,
           \A n \in Nodes : loop'[n] = loop[n] \/
               {loop[n], loop'[n]} \subseteq {"running", "depositing"}
    PROVE  HostSaved' /\ KnownSaved'
  <1>1. \A n \in Nodes : Saved(n)' = Saved(n)
    BY DEF Saved
  <1>2. HostSaved'
    BY <1>1 DEF IdentityInv, HostSaved
  <1>3. KnownSaved'
    BY <1>1 DEF IdentityInv, KnownSaved
  <1> QED BY <1>2, <1>3

-----------------------------------------------------------------------------
\* Process start-up of a node: a key is loaded, or generated and saved.
LEMMA LoadPeerIDIdentity ==
    ASSUME IdentityInv, NEW n \in Nodes, LoadPeerID(n)
    PROVE  IdentityInv'
  <1>1. TypeOK'
    BY DEF LoadPeerID, IdentityInv, TypeOK, chainVars
  <1>2. \A k \in Nodes : Saved(k)' = Saved(k)
    BY DEF LoadPeerID, Saved
  <1>3. HostSaved'
    BY <1>2, NoPeerIsNone DEF LoadPeerID, IdentityInv, TypeOK, HostSaved, Saved
  <1>4. KnownSaved'
    BY <1>2 DEF LoadPeerID, IdentityInv, KnownSaved
  <1> QED BY <1>1, <1>3, <1>4 DEF IdentityInv

LEMMA GenerateKeyIdentity ==
    ASSUME IdentityInv, NEW n \in Nodes, GenerateKey(n)
    PROVE  IdentityInv'
  <1>1. TypeOK'
    BY NewPeerIsPeerId DEF GenerateKey, IdentityInv, TypeOK, chainVars
  <1>2. \A k \in Nodes : Saved(k)' = Saved(k)
    BY EmptyAssumption DEF GenerateKey, Saved, IdentityInv, TypeOK
  <1>3. HostSaved'
    <2>1. Saved(n) = {NoPeer} /\ peer'[n] \in PeerIds /\ loop'[n] = "saving"
      BY NewPeerIsPeerId DEF GenerateKey, IdentityInv, TypeOK, Saved
    <2> QED BY <1>2, <2>1 DEF GenerateKey, IdentityInv, TypeOK, HostSaved
  <1>4. KnownSaved'
    BY <1>2 DEF GenerateKey, IdentityInv, KnownSaved
  <1> QED BY <1>1, <1>3, <1>4 DEF IdentityInv

LEMMA SavePeerIDIdentity ==
    ASSUME IdentityInv, NEW n \in Nodes, SavePeerID(n)
    PROVE  IdentityInv'
  <1>1. TypeOK'
    BY DEF SavePeerID, IdentityInv, TypeOK, chainVars
  <1>2. peer[n] \in PeerIds /\ Saved(n) = {NoPeer}
    BY DEF SavePeerID, IdentityInv, HostSaved
  <1>3. \A k \in Nodes : Saved(k) \subseteq Saved(k)' /\ (k # n => Saved(k)' = Saved(k))
    BY <1>2 DEF SavePeerID, Saved, IdentityInv, TypeOK
  <1>4. peer'[n] \in Saved(n)' /\ peer'[n] # NoPeer
    BY <1>2, NoPeerIsNone DEF SavePeerID, Saved, IdentityInv, TypeOK
  <1>5. HostSaved'
    BY <1>3, <1>4 DEF SavePeerID, IdentityInv, TypeOK, HostSaved
  <1>6. KnownSaved'
    BY <1>3 DEF SavePeerID, IdentityInv, KnownSaved
  <1> QED BY <1>1, <1>5, <1>6 DEF IdentityInv

LEMMA RestartIdentity ==
    ASSUME IdentityInv, NEW n \in Nodes, Restart(n)
    PROVE  IdentityInv'
  <1>1. TypeOK'
    BY BoundsAssumption DEF Restart, IdentityInv, TypeOK, chainVars
  <1>2. \A k \in Nodes : Saved(k)' = Saved(k)
    BY DEF Restart, Saved
  <1>3. HostSaved'
    BY <1>2 DEF Restart, IdentityInv, TypeOK, HostSaved
  <1>4. KnownSaved'
    BY <1>2 DEF Restart, IdentityInv, KnownSaved
  <1> QED BY <1>1, <1>3, <1>4 DEF IdentityInv

-----------------------------------------------------------------------------
\* The node's loop.
LEMMA SendDepositIdentity ==
    ASSUME IdentityInv, NEW n \in Nodes, SendDeposit(n)
    PROVE  IdentityInv'
  <1>1. Remaining(n) \in Nat
    BY ThresholdAssumption DEF SendDeposit, Remaining, IdentityInv, TypeOK
  <1>2. deposits' \in [Nodes -> Seq(Nat)]
    BY <1>1 DEF SendDeposit, IdentityInv, TypeOK
  <1>3. TypeOK'
    BY <1>2, FaultCounted
    DEF SendDeposit, SeesInactive, IdentityInv, TypeOK, hostVars
  <1>4. HostSaved' /\ KnownSaved'
    BY <1>3, IdentitiesKeep DEF SendDeposit, IdentityInv, TypeOK, hostVars
  <1> QED BY <1>3, <1>4 DEF IdentityInv

LEMMA DepositReturnsIdentity ==
    ASSUME IdentityInv, NEW n \in Nodes, DepositReturns(n)
    PROVE  IdentityInv'
  <1>1. TypeOK'
    BY FaultCounted DEF DepositReturns, IdentityInv, TypeOK, chainVars, hostVars
  <1>2. HostSaved' /\ KnownSaved'
    BY <1>1, IdentitiesKeep DEF DepositReturns, IdentityInv, TypeOK, chainVars, hostVars
  <1> QED BY <1>1, <1>2 DEF IdentityInv

LEMMA SendRegistrationRequestIdentity ==
    ASSUME IdentityInv, NEW n \in Nodes, SendRegistrationRequest(n)
    PROVE  IdentityInv'
  <1>1. peer[n] \in Saved(n) /\ peer[n] \in PeerIds
    BY DEF SendRegistrationRequest, IdentityInv, HostSaved, Saved
  <1>2. inbox' = inbox \cup {[node |-> n, peer |-> peer[n]]}
    BY DEF SendRegistrationRequest
  <1>3. TypeOK'
    BY <1>1, <1>2, FaultCounted
    DEF SendRegistrationRequest, SeesInactive, IdentityInv, TypeOK, Request, chainVars, hostVars
  <1>4. \A k \in Nodes : Saved(k)' = Saved(k)
    BY DEF SendRegistrationRequest, Saved, hostVars
  <1>5. HostSaved'
    BY <1>4 DEF SendRegistrationRequest, IdentityInv, HostSaved, hostVars
  <1>6. KnownSaved'
    BY <1>1, <1>2, <1>4 DEF SendRegistrationRequest, IdentityInv, KnownSaved
  <1> QED BY <1>3, <1>5, <1>6 DEF IdentityInv

-----------------------------------------------------------------------------
\* The leader's handlers.
LEMMA LoseRequestIdentity ==
    ASSUME IdentityInv, NEW n \in Nodes, LoseRequest(n)
    PROVE  IdentityInv'
  <1>1. TypeOK'
    BY FaultCounted DEF LoseRequest, IdentityInv, TypeOK, chainVars, hostVars
  <1>2. \A k \in Nodes : Saved(k)' = Saved(k)
    BY DEF LoseRequest, Saved, hostVars
  <1>3. HostSaved' /\ KnownSaved'
    BY <1>2 DEF LoseRequest, IdentityInv, HostSaved, KnownSaved, hostVars
  <1> QED BY <1>1, <1>3 DEF IdentityInv

LEMMA LoadRegisteredNodesIdentity ==
    ASSUME IdentityInv, NEW n \in Nodes, LoadRegisteredNodes(n)
    PROVE  IdentityInv'
  <1>1. PICK m \in inbox :
            /\ m.node = n
            /\ inbox' = inbox \ {m}
            /\ IF file = Empty
               THEN UNCHANGED handler
               ELSE handler' = [handler EXCEPT ![n] =
                        [at |-> "loaded", nodes |-> [file EXCEPT ![n] = m.peer]]]
    BY DEF LoadRegisteredNodes
  <1>2. m.peer \in PeerIds /\ m.peer \in Saved(n)
    BY <1>1 DEF IdentityInv, TypeOK, KnownSaved, Request
  <1>3. file # Empty => [file EXCEPT ![n] = m.peer] \in NodeInfos
    BY <1>2 DEF IdentityInv, TypeOK, NodeInfos
  <1>4. handler' \in [Nodes -> Handler]
    <2>1. ASSUME file # Empty
          PROVE  [at |-> "loaded", nodes |-> [file EXCEPT ![n] = m.peer]] \in Handler
      BY <1>3, <2>1 DEF Handler
    <2>2. handler \in [Nodes -> Handler]
      BY DEF IdentityInv, TypeOK
    <2> QED BY <1>1, <2>1, <2>2
  <1>5. TypeOK'
    BY <1>1, <1>4 DEF LoadRegisteredNodes, IdentityInv, TypeOK, chainVars, hostVars
  <1>6. \A k \in Nodes : Saved(k)' = Saved(k)
    BY DEF LoadRegisteredNodes, Saved, hostVars
  <1>7. \A k, h \in Nodes : handler'[h].nodes[k] \in Saved(k)
    <2>1. CASE file = Empty
      BY <1>1, <2>1 DEF IdentityInv, KnownSaved
    <2>2. CASE file # Empty
      <3>1. \A k \in Nodes : [file EXCEPT ![n] = m.peer][k] \in Saved(k)
        BY <1>2, <2>2 DEF IdentityInv, TypeOK, NodeInfos, KnownSaved
      <3>2. \A h \in Nodes : handler'[h].nodes =
                IF h = n THEN [file EXCEPT ![n] = m.peer] ELSE handler[h].nodes
        <4>1. handler' = [handler EXCEPT ![n] =
                  [at |-> "loaded", nodes |-> [file EXCEPT ![n] = m.peer]]]
          BY <1>1, <2>2
        <4>2. handler \in [Nodes -> Handler]
          BY DEF IdentityInv, TypeOK
        <4>3. [at |-> "loaded", nodes |-> [file EXCEPT ![n] = m.peer]].nodes =
                  [file EXCEPT ![n] = m.peer]
          OBVIOUS
        <4>4. handler'[n] = [at |-> "loaded", nodes |-> [file EXCEPT ![n] = m.peer]]
          BY <4>1, <4>2
        <4>5. \A h \in Nodes \ {n} : handler'[h] = handler[h]
          BY <4>1, <4>2
        <4> QED BY <4>3, <4>4, <4>5
      <3> QED BY <3>1, <3>2 DEF IdentityInv, KnownSaved
    <2> QED BY <2>1, <2>2
  <1>8. HostSaved' /\ KnownSaved'
    BY <1>1, <1>6, <1>7
    DEF LoadRegisteredNodes, IdentityInv, HostSaved, KnownSaved, hostVars
  <1> QED BY <1>5, <1>8 DEF IdentityInv

\* Moving a handler on leaves what it has loaded.
LEMMA GotoTyped ==
    ASSUME TypeOK, NEW n \in Nodes, NEW at \in {"idle", "loaded", "created", "saved", "sent"},
           Goto(n, at)
    PROVE  /\ handler' \in [Nodes -> Handler]
           /\ \A h \in Nodes : handler'[h].nodes = handler[h].nodes
  BY DEF TypeOK, Handler, Goto

\* A handler that ends holds nothing.
LEMMA DoneTyped ==
    ASSUME TypeOK, NEW n \in Nodes, Done(n)
    PROVE  /\ handler' \in [Nodes -> Handler]
           /\ \A h, k \in Nodes : handler'[h].nodes[k] \in {handler[h].nodes[k], NoPeer}
  <1>1. Idle \in Handler
    BY DEF Idle, Handler, NodeInfos
  <1> QED BY <1>1 DEF TypeOK, Done, Idle

LEMMA CreateFileIdentity ==
    ASSUME IdentityInv, NEW n \in Nodes, CreateFile(n)
    PROVE  IdentityInv'
  <1>1. /\ handler' \in [Nodes -> Handler]
        /\ \A h \in Nodes : handler'[h].nodes = handler[h].nodes
    BY GotoTyped DEF CreateFile, IdentityInv
  <1>2. TypeOK'
    BY <1>1 DEF CreateFile, IdentityInv, TypeOK, chainVars, hostVars
  <1>3. \A k \in Nodes : Saved(k)' = Saved(k)
    BY DEF CreateFile, Saved, hostVars
  <1>4. HostSaved' /\ KnownSaved'
    BY <1>1, <1>3 DEF CreateFile, IdentityInv, HostSaved, KnownSaved, hostVars
  <1> QED BY <1>2, <1>4 DEF IdentityInv

LEMMA SaveRegisteredNodesIdentity ==
    ASSUME IdentityInv, NEW n \in Nodes, SaveRegisteredNodes(n)
    PROVE  IdentityInv'
  <1>1. /\ handler' \in [Nodes -> Handler]
        /\ \A h \in Nodes : handler'[h].nodes = handler[h].nodes
    BY GotoTyped DEF SaveRegisteredNodes, IdentityInv
  <1>2. file' \in NodeInfos
    BY DEF SaveRegisteredNodes, IdentityInv, TypeOK, Handler
  <1>3. TypeOK'
    BY <1>1, <1>2 DEF SaveRegisteredNodes, IdentityInv, TypeOK, chainVars, hostVars
  <1>4. \A k \in Nodes : Saved(k)' = Saved(k)
    BY DEF SaveRegisteredNodes, Saved, hostVars
  <1>5. HostSaved' /\ KnownSaved'
    BY <1>1, <1>4 DEF SaveRegisteredNodes, IdentityInv, HostSaved, KnownSaved, hostVars
  <1> QED BY <1>3, <1>5 DEF IdentityInv

\* A handler that ends: nothing else about identities changes.
LEMMA DoneKeeps ==
    ASSUME IdentityInv, NEW n \in Nodes, Done(n), UNCHANGED <<loop, hostVars, inbox, file>>
    PROVE  HostSaved' /\ KnownSaved'
  <1>1. \A h, k \in Nodes : handler'[h].nodes[k] \in {handler[h].nodes[k], NoPeer}
    BY DoneTyped DEF IdentityInv
  <1>2. \A k \in Nodes : Saved(k)' = Saved(k) /\ NoPeer \in Saved(k)
    BY DEF Saved, hostVars
  <1> QED BY <1>1, <1>2 DEF IdentityInv, HostSaved, KnownSaved, hostVars

LEMMA ActivateOnChainIdentity ==
    ASSUME IdentityInv, NEW n \in Nodes, ActivateOnChain(n)
    PROVE  IdentityInv'
  <1>0. faults' \in 0..MaxFaults
    BY FaultCounted DEF ActivateOnChain, IdentityInv
  <1>1. CASE Done(n) /\ UNCHANGED activations
    <2>1. TypeOK'
      BY <1>0, <1>1, DoneTyped DEF ActivateOnChain, IdentityInv, TypeOK, hostVars
    <2> QED BY <1>1, <2>1, DoneKeeps DEF ActivateOnChain, IdentityInv
  <1>2. CASE activations' = activations \cup {n} /\ Goto(n, "sent")
    <2>1. \A h \in Nodes : handler'[h].nodes = handler[h].nodes
      BY <1>2, GotoTyped DEF IdentityInv
    <2>2. TypeOK'
      BY <1>0, <1>2, GotoTyped DEF ActivateOnChain, IdentityInv, TypeOK, hostVars
    <2> QED BY <2>1, <2>2, IdentitiesKeep DEF ActivateOnChain, IdentityInv, hostVars
  <1> QED BY <1>1, <1>2 DEF ActivateOnChain

LEMMA ActivationReturnsIdentity ==
    ASSUME IdentityInv, NEW n \in Nodes, ActivationReturns(n)
    PROVE  IdentityInv'
  <1>1. TypeOK'
    BY FaultCounted, DoneTyped
    DEF ActivationReturns, IdentityInv, TypeOK, chainVars, hostVars
  <1> QED BY <1>1, DoneKeeps DEF ActivationReturns, IdentityInv

LEMMA CrashIdentity ==
    ASSUME IdentityInv, Crash
    PROVE  IdentityInv'
  <1>1. Idle \in Handler
    BY DEF Idle, Handler, NodeInfos
  <1>2. TypeOK'
    BY <1>1, BoundsAssumption DEF Crash, IdentityInv, TypeOK, chainVars, hostVars
  <1>3. \A k \in Nodes : Saved(k)' = Saved(k) /\ NoPeer \in Saved(k)
    BY DEF Crash, Saved, hostVars
  <1>4. HostSaved' /\ KnownSaved'
    BY <1>3 DEF Crash, IdentityInv, HostSaved, KnownSaved, Idle, hostVars
  <1> QED BY <1>2, <1>4 DEF IdentityInv

-----------------------------------------------------------------------------
\* The chain.
LEMMA MineIdentity ==
    ASSUME IdentityInv, NEW n \in Nodes, Mine(n) \/ ReplaceActivation(n)
    PROVE  IdentityInv'
  <1>0. TypeOK
    BY DEF IdentityInv
  <1>1. UNCHANGED <<others, loop, hostVars, inbox, file, handler, charges, crashes>>
    BY DEF Mine, MineDeposit, MineActivation, ReplaceActivation
  <1>2. deposit' \in [Nodes -> Nat]
    <2>1. CASE MineDeposit(n)
      <3>1. Head(deposits[n]) \in Nat
        BY <1>0, <2>1 DEF MineDeposit, TypeOK
      <3>2. deposit[n] + Head(deposits[n]) \in Nat
        BY <1>0, <3>1 DEF TypeOK
      <3> QED BY <1>0, <2>1, <3>2 DEF MineDeposit, TypeOK
    <2>2. CASE MineActivation(n) \/ ReplaceActivation(n)
      BY <1>0, <2>2 DEF MineActivation, ReplaceActivation, TypeOK
    <2> QED BY <2>1, <2>2 DEF Mine
  <1>3. deposits' \in [Nodes -> Seq(Nat)]
    <2>1. deposits[n] # <<>> => Tail(deposits[n]) \in Seq(Nat)
      BY <1>0 DEF TypeOK
    <2> QED BY <1>0, <2>1 DEF Mine, MineDeposit, MineActivation, ReplaceActivation, TypeOK
  <1>4. activated' \subseteq Nodes /\ activations' \subseteq Nodes
    BY <1>0 DEF Mine, MineDeposit, MineActivation, ReplaceActivation, TypeOK
  <1>5. faults' \in 0..MaxFaults
    BY <1>0, FaultCounted DEF Mine, MineDeposit, MineActivation, ReplaceActivation, TypeOK
  <1>6. TypeOK'
    BY <1>0, <1>1, <1>2, <1>3, <1>4, <1>5 DEF TypeOK, hostVars
  <1>7. HostSaved' /\ KnownSaved'
    BY <1>1, <1>6, IdentitiesKeep DEF hostVars
  <1> QED BY <1>6, <1>7 DEF IdentityInv

LEMMA OthersIdentity ==
    ASSUME IdentityInv, Charge \/ OthersChange
    PROVE  IdentityInv'
  <1>0. TypeOK
    BY DEF IdentityInv
  <1>1. UNCHANGED <<deposits, activations, loop, hostVars, inbox, file, handler, faults, crashes>>
    BY DEF Charge, OthersChange
  <1>2. deposit' \in [Nodes -> Nat]
    <2>1. CASE Charge
      <3>1. \A n \in activated : deposit[n] - Price \in Nat
        BY <1>0, <2>1, PriceAssumption DEF Charge, TypeOK
      <3> QED BY <1>0, <2>1, <3>1 DEF Charge, TypeOK
    <2>2. CASE OthersChange
      BY <1>0, <2>2 DEF OthersChange, TypeOK
    <2> QED BY <2>1, <2>2
  <1>3. activated' \subseteq Nodes /\ others' \in 0..MaxOthers /\ charges' \in 0..MaxCharges
    BY <1>0, BoundsAssumption DEF Charge, OthersChange, TypeOK
  <1>4. TypeOK'
    BY <1>0, <1>1, <1>2, <1>3 DEF TypeOK, hostVars
  <1>5. HostSaved' /\ KnownSaved'
    BY <1>1, <1>4, IdentitiesKeep DEF hostVars
  <1> QED BY <1>4, <1>5 DEF IdentityInv

LEMMA StutterIdentity ==
    ASSUME IdentityInv, UNCHANGED vars
    PROVE  IdentityInv'
  <1>1. TypeOK'
    BY DEF vars, chainVars, hostVars, IdentityInv, TypeOK
  <1> QED BY <1>1, IdentitiesKeep DEF vars, chainVars, hostVars, IdentityInv

LEMMA NodeStepIdentity ==
    ASSUME IdentityInv, NEW n \in Nodes, NodeStep(n)
    PROVE  IdentityInv'
  BY LoadPeerIDIdentity, GenerateKeyIdentity, SavePeerIDIdentity, SendDepositIdentity,
     DepositReturnsIdentity, SendRegistrationRequestIdentity, StutterIdentity
  DEF NodeStep, Rest

LEMMA HandlerStepIdentity ==
    ASSUME IdentityInv, NEW n \in Nodes, HandlerStep(n)
    PROVE  IdentityInv'
  BY LoadRegisteredNodesIdentity, CreateFileIdentity, SaveRegisteredNodesIdentity,
     ActivateOnChainIdentity, ActivationReturnsIdentity DEF HandlerStep

\* Only the chain changes who is activated and with which deposit.
LEMMA PaidStays ==
    ASSUME RegistrationInv, [Next]_vars
    PROVE  ActivatedPaid'
  <1>0. TypeOK /\ ActivatedPaid
    BY DEF RegistrationInv, IdentityInv
  <1>1. ASSUME NEW n \in Nodes, MineDeposit(n)
        PROVE  ActivatedPaid'
    <2>1. Head(deposits[n]) \in Nat
      BY <1>0, <1>1 DEF MineDeposit, TypeOK
    <2>2. deposit[n] + Head(deposits[n]) >= deposit[n]
      BY <1>0, <2>1 DEF TypeOK
    <2> QED BY <1>0, <1>1, <2>1, <2>2, ThresholdAssumption
            DEF MineDeposit, TypeOK, ActivatedPaid
  <1>2. ASSUME NEW n \in Nodes, MineActivation(n)
        PROVE  ActivatedPaid'
    BY <1>0, <1>2 DEF MineActivation, CanActivate, ActivatedPaid
  <1>3. CASE Charge
    BY <1>0, <1>3 DEF Charge, TypeOK, ActivatedPaid
  <1>4. CASE UNCHANGED <<deposit, activated>>
    BY <1>0, <1>4 DEF ActivatedPaid
  <1>5. ASSUME NEW n \in Nodes, NodeStep(n)
        PROVE  UNCHANGED <<deposit, activated>>
    BY <1>5 DEF NodeStep, LoadPeerID, GenerateKey, SavePeerID, SendDeposit, DepositReturns,
                SendRegistrationRequest, Rest, vars, chainVars
  <1>6. ASSUME NEW n \in Nodes, HandlerStep(n)
        PROVE  UNCHANGED <<deposit, activated>>
    BY <1>6 DEF HandlerStep, LoadRegisteredNodes, CreateFile, SaveRegisteredNodes,
                ActivateOnChain, ActivationReturns, chainVars
  <1>7. ASSUME NEW n \in Nodes, LoseRequest(n) \/ Restart(n) \/ ReplaceActivation(n)
        PROVE  UNCHANGED <<deposit, activated>>
    BY <1>7 DEF LoseRequest, Restart, ReplaceActivation, chainVars
  <1>8. Crash \/ OthersChange \/ UNCHANGED vars => UNCHANGED <<deposit, activated>>
    BY DEF Crash, OthersChange, vars, chainVars
  <1> QED BY <1>1, <1>2, <1>3, <1>4, <1>5, <1>6, <1>7, <1>8 DEF Next, Mine

LEMMA NextRegistration ==
    ASSUME RegistrationInv, [Next]_vars
    PROVE  RegistrationInv'
  <1>1. IdentityInv
    BY DEF RegistrationInv
  <1>2. IdentityInv'
    BY <1>1, NodeStepIdentity, HandlerStepIdentity, MineIdentity, OthersIdentity,
       LoseRequestIdentity, RestartIdentity, CrashIdentity, StutterIdentity DEF Next
  <1> QED BY <1>2, PaidStays DEF RegistrationInv

-----------------------------------------------------------------------------
\* The inductive invariant: whatever the leader has heard of a node is the key in
\* the node's file, and whoever is activated has paid.
THEOREM RegistrationInvariant == Spec => []RegistrationInv
  <1>1. RegistrationInv /\ [Next]_vars => RegistrationInv'
    BY NextRegistration
  <1> QED BY <1>1, InitRegistration, PTL DEF Spec

\* Types, for any number of nodes and restarts; in particular no deposit of an
\* activated node is ever charged below zero and no deposit is sent that is not
\* missing.
THEOREM RegistrationTypeCorrect == Spec => []TypeOK
  <1>1. RegistrationInv => TypeOK
    BY DEF RegistrationInv, IdentityInv
  <1> QED BY <1>1, RegistrationInvariant, PTL

\* Whatever restarts and whatever is still on its way: the leader's peer id of a
\* node with a host is that host's identity.
THEOREM LeaderReachesHosts == Spec => []PeerIdsCurrent
  <1>1. ASSUME RegistrationInv
        PROVE  PeerIdsCurrent
    <2>1. SUFFICES ASSUME NEW n \in Nodes, loop[n] \in {"running", "depositing"}
                   PROVE  Saved(n) \subseteq {NoPeer, peer[n]}
                          /\ \A m \in inbox : m.peer # NoPeer
      BY <1>1 DEF PeerIdsCurrent, RegistrationInv, IdentityInv, KnownSaved
    <2>2. peer[n] \in Saved(n) \ {NoPeer}
      BY <1>1, <2>1 DEF RegistrationInv, IdentityInv, HostSaved
    <2>3. \A m \in inbox : m.peer \in PeerIds
      BY <1>1 DEF RegistrationInv, IdentityInv, TypeOK, Request
    <2> QED BY <2>2, <2>3, NoPeerIsNone DEF Saved
  <1> QED BY <1>1, RegistrationInvariant, PTL

=============================================================================
