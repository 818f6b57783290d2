----------------------------- MODULE DRB_proofs -----------------------------
(***************************************************************************)
(* Proofs about DRB for every number of nodes, rounds, faults and restarts *)
(* and every bound: type correctness, commit before reveal.                *)
(***************************************************************************)
EXTENDS DRB, TLAPS, FiniteSetTheorems

-----------------------------------------------------------------------------
(* Lemmas about the operators of the model.                                *)

LEMMA OperatorsAreNodes ==
    ASSUME NEW r \in Rounds
    PROVE  /\ OperatorSet(r) \subseteq Nodes
           /\ \A i \in DOMAIN Operators[r] : Operators[r][i] \in Nodes
           /\ DOMAIN Operators[r] = 1..Len(Operators[r])
           /\ Len(Operators[r]) \in Nat
  BY OperatorsAssumption DEF OperatorSet, Range

LEMMA TaskNames ==
    ASSUME NEW t \in Tasks
    PROVE  /\ RoundOf(t) \in Rounds
           /\ Kind(t) \in {"cvs", "cos", "secret", "poll", "monitor"}
           /\ Kind(t) \in {"cvs", "cos", "secret"} => NodeOf(t) \in Nodes
           /\ Kind(t) = "monitor" => t = Monitor(RoundOf(t))
  BY DEF Tasks, Handlers, Poll, Monitor, Kind, RoundOf, NodeOf

LEMMA Hashes ==
    /\ \A c \in CosSet : Cvs(c) \in CvsSet
    /\ \A s \in Secrets : Cos(s) \in CosSet
    /\ \A r \in Rounds, n \in Nodes, t \in Stamps : Secret(r, n, t) \in Secrets
  BY DEF CvsSet, CosSet, Secrets

LEMMA MessagesTyped ==
    ASSUME NEW r \in Rounds, NEW n \in Nodes
    PROVE  /\ \A v \in CvsSet : Msg("cvs", r, n, v) \in Message
           /\ \A v \in CosSet : Msg("cos", r, n, v) \in Message
           /\ \A v \in Secrets : Msg("secret", r, n, v) \in Message
           /\ Msg("request", r, n, NoValue) \in Message
  BY DEF Msg, Message

LEMMA MessageValues ==
    ASSUME NEW m \in Message
    PROVE  /\ m.type = "cvs" => m.value \in CvsSet
           /\ m.type = "cos" => m.value \in CosSet
           /\ m.type = "secret" => m.value \in Secrets
  BY DEF Message

LEMMA EntryUpdates ==
    ASSUME NEW e \in Entry
    PROVE  /\ \A v \in CvsSet : [e EXCEPT !.cvs = v] \in Entry
           /\ \A v \in CosSet : [e EXCEPT !.cos = v] \in Entry
           /\ \A v \in Secrets : [e EXCEPT !.secret = v] \in Entry
           /\ [e EXCEPT !.rootDone = TRUE] \in Entry
           /\ [e EXCEPT !.rngDone = TRUE] \in Entry
  BY DEF Entry

LEMMA StoreUpdate ==
    ASSUME NEW s \in Store, NEW r \in Rounds, NEW n \in Nodes, NEW e \in Entry
    PROVE  [s EXCEPT ![r][n] = e] \in Store
  BY DEF Store

LEMMA StoreValues ==
    ASSUME NEW s \in Store, NEW r \in Rounds, NEW n \in Nodes
    PROVE  /\ s[r][n] \in Entry
           /\ s[r][n].cvs \in CvsSet \cup {NoValue}
           /\ s[r][n].cos \in CosSet \cup {NoValue}
           /\ s[r][n].secret \in Secrets \cup {NoValue}
  BY DEF Store, Entry

LEMMA NoStoreTyped == NoStore \in Store
  BY DEF Store, NoStore, Entry, NoEntry

LEMMA MarkedTyped ==
    ASSUME NEW s \in Store, NEW r \in Rounds
    PROVE  Marked(s, r) \in Store
  <1>1. ASSUME NEW n \in Nodes
        PROVE  s[r][n] \in Entry /\ [s[r][n] EXCEPT !.rngDone = TRUE] \in Entry
    BY StoreValues, EntryUpdates
  <1>2. [n \in Nodes |-> IF n \in Present(s, r)
                         THEN [s[r][n] EXCEPT !.rngDone = TRUE]
                         ELSE s[r][n]] \in [Nodes -> Entry]
    BY <1>1
  <1> QED BY <1>2 DEF Marked, Store

-----------------------------------------------------------------------------
(* Type correctness.  It is not inductive by itself: what a task has read  *)
(* is typed only while it holds something, and the bound on `generated`    *)
(* rests on there being one monitor transaction per round.                 *)

TaskOK(t) ==
    /\ pc[t] \in {"save", "flagWrite", "secretWrite", "generated", "markWrite"} =>
          file[t] \in Store
    /\ pc[t] \in {"save", "load", "secretWrite"} => entry[t] \in Entry
    /\ pc[t] = "save" => Kind(t) \in {"cvs", "cos"}
    /\ pc[t] \in {"root", "leaves"} => Kind(t) # "monitor"
    /\ pc[t] \in {"load", "secretWrite", "secretNext"} => Kind(t) = "secret"
    /\ txs[t].status = "pending" /\ Kind(t) # "monitor" => txs[t].words \in Seq(CvsSet)
    /\ txs[t].status = "pending" /\ Kind(t) = "monitor" =>
          txs[t].words \in Seq(Secrets) /\ generated[RoundOf(t)] < MaxGenerated

TypeInv == ProtocolTypeOK /\ \A t \in Tasks : TaskOK(t)

\* The parts of TypeInv, by the variables they are about.
LocalOK ==
    /\ pc \in [Tasks -> PCs]
    /\ file \in [Tasks -> Store \cup {NoValue}]
    /\ entry \in [Tasks -> Entry \cup {NoValue}]
    /\ todo \in [Tasks -> SUBSET Nodes]
    /\ crashes \in 0..MaxCrashes
StoreOK ==
    /\ mem \in Store /\ disk \in Store
    /\ known \in SUBSET Rounds
    /\ order \in [Rounds -> Seq(Nodes)]
    /\ requested \in [Rounds -> SUBSET Nodes]
NetOK == inbox \in SUBSET Message /\ faults \in 0..MaxFaults

LEMMA TypeParts ==
    ProtocolTypeOK <=> NetOK /\ ChainTypeOK /\ RegularTypeOK /\ StoreOK /\ LocalOK
  BY DEF ProtocolTypeOK, LeaderTypeOK, StoreOK, LocalOK, NetOK

LEMMA TypePartsNext ==
    ProtocolTypeOK' <=> NetOK' /\ ChainTypeOK' /\ RegularTypeOK' /\ StoreOK' /\ LocalOK'
  BY DEF ProtocolTypeOK, LeaderTypeOK, StoreOK, LocalOK, NetOK

LEMMA FaultTyped ==
    ASSUME NetOK, Fault
    PROVE  faults' \in 0..MaxFaults
  BY BoundsAssumption DEF NetOK, Fault

\* A step of task t that only moves t, with what it then holds well typed.
LEMMA OtherTasksKeep ==
    ASSUME TypeInv, NEW t \in Tasks,
           \A u \in Tasks \ {t} : pc'[u] = pc[u] /\ file'[u] = file[u]
                                 /\ entry'[u] = entry[u] /\ txs'[u] = txs[u],
           generated' = generated,
           TaskOK(t)'
    PROVE  \A u \in Tasks : TaskOK(u)'
  BY DEF TypeInv, TaskOK

LEMMA InitTyped == Init => TypeInv
  <1> SUFFICES ASSUME Init PROVE TypeInv
    OBVIOUS
  <1> USE DEF Init, ChainInit, RegularInit, LeaderInit
  <1>1. NetOK
    BY BoundsAssumption DEF NetOK
  <1>2. ChainTypeOK
    BY BoundsAssumption DEF ChainTypeOK, Transaction, NoTx
  <1>3. RegularTypeOK
    BY DEF RegularTypeOK
  <1>4. StoreOK
    BY NoStoreTyped DEF StoreOK
  <1>5. LocalOK
    BY BoundsAssumption DEF LocalOK, PCs
  <1>6. \A t \in Tasks : TaskOK(t)
    BY DEF TaskOK, NoTx
  <1> QED BY <1>1, <1>2, <1>3, <1>4, <1>5, <1>6, TypeParts DEF TypeInv

-----------------------------------------------------------------------------
LEMMA HandleCommitTyped ==
    ASSUME TypeInv, NEW t \in Tasks, HandleCommit(t), UNCHANGED commits
    PROVE  TypeInv'
  <1> DEFINE r == RoundOf(t)
             n == NodeOf(t)
  <1>0. NetOK /\ ChainTypeOK /\ RegularTypeOK /\ StoreOK /\ LocalOK
    BY TypeParts DEF TypeInv
  <1>a. r \in Rounds /\ n \in Nodes
    BY TaskNames DEF HandleCommit
  <1>b. PICK m \in inbox : /\ m.type = "cvs"
                           /\ inbox' = inbox \ {m}
                           /\ entry' = [entry EXCEPT ![t] =
                                 IF mem[r][n].cvs = NoValue
                                 THEN [mem[r][n] EXCEPT !.cvs = m.value]
                                 ELSE mem[r][n]]
    BY DEF HandleCommit
  <1>c. m.value \in CvsSet
    BY <1>0, <1>b, MessageValues DEF NetOK
  <1>d. entry'[t] \in Entry
    BY <1>0, <1>a, <1>b, <1>c, StoreValues, EntryUpdates DEF StoreOK, LocalOK
  <1>1. NetOK'
    BY <1>0, <1>b DEF NetOK, HandleCommit
  <1>2. ChainTypeOK' /\ RegularTypeOK' /\ StoreOK'
    BY <1>0 DEF HandleCommit, chainVars, ChainTypeOK, RegularTypeOK, storeVars, StoreOK
  <1>3. LocalOK'
    BY <1>0, <1>b, <1>d DEF HandleCommit, LocalOK, StoreOK, Goto, PCs
  <1>4. TaskOK(t)'
    BY <1>0, <1>d
    DEF HandleCommit, TypeInv, TaskOK, Goto, LocalOK, StoreOK, chainVars
  <1>5. \A u \in Tasks : TaskOK(u)'
    BY <1>0, <1>4, <1>b, OtherTasksKeep DEF HandleCommit, Goto, chainVars, LocalOK
  <1> QED BY <1>1, <1>2, <1>3, <1>5, TypePartsNext DEF TypeInv

LEMMA HandleCosTyped ==
    ASSUME TypeInv, NEW t \in Tasks, HandleCos(t), UNCHANGED commits
    PROVE  TypeInv'
  <1> DEFINE r == RoundOf(t)
             n == NodeOf(t)
  <1>0. NetOK /\ ChainTypeOK /\ RegularTypeOK /\ StoreOK /\ LocalOK
    BY TypeParts DEF TypeInv
  <1>a. r \in Rounds /\ n \in Nodes
    BY TaskNames DEF HandleCos
  <1>b. PICK m \in inbox : /\ m.type = "cos"
                           /\ inbox' = inbox \ {m}
                           /\ entry' = [entry EXCEPT ![t] =
                                 [mem[r][n] EXCEPT !.cos = m.value]]
    BY DEF HandleCos
  <1>c. m.value \in CosSet
    BY <1>0, <1>b, MessageValues DEF NetOK
  <1>d. entry'[t] \in Entry
    BY <1>0, <1>a, <1>b, <1>c, StoreValues, EntryUpdates DEF StoreOK, LocalOK
  <1>1. NetOK'
    BY <1>0, <1>b DEF NetOK, HandleCos
  <1>2. ChainTypeOK' /\ RegularTypeOK' /\ StoreOK'
    BY <1>0 DEF HandleCos, chainVars, ChainTypeOK, RegularTypeOK, storeVars, StoreOK
  <1>3. LocalOK'
    BY <1>0, <1>b, <1>d DEF HandleCos, LocalOK, StoreOK, Goto, PCs
  <1>4. TaskOK(t)'
    BY <1>0, <1>d DEF HandleCos, TypeInv, TaskOK, Goto, LocalOK, StoreOK, chainVars
  <1>5. \A u \in Tasks : TaskOK(u)'
    BY <1>4, <1>b, OtherTasksKeep, <1>0 DEF HandleCos, Goto, chainVars, LocalOK
  <1> QED BY <1>1, <1>2, <1>3, <1>5, TypePartsNext DEF TypeInv

LEMMA RejectCosTyped ==
    ASSUME TypeInv, NEW t \in Tasks, RejectCos(t), UNCHANGED commits
    PROVE  TypeInv'
  <1>0. NetOK /\ ChainTypeOK /\ RegularTypeOK /\ StoreOK /\ LocalOK
    BY TypeParts DEF TypeInv
  <1>1. NetOK'
    BY <1>0 DEF NetOK, RejectCos
  <1>2. UNCHANGED <<commits, leaderVars, chainVars>>
    BY DEF RejectCos
  <1>3. ChainTypeOK' /\ RegularTypeOK' /\ StoreOK' /\ LocalOK'
    BY <1>0, <1>2 DEF chainVars, leaderVars, storeVars, taskVars, ChainTypeOK,
                      RegularTypeOK, StoreOK, LocalOK
  <1>4. \A u \in Tasks : TaskOK(u)'
    BY <1>2 DEF chainVars, leaderVars, taskVars, TypeInv, TaskOK
  <1> QED BY <1>1, <1>3, <1>4, TypePartsNext DEF TypeInv

LEMMA SaveEntryTyped ==
    ASSUME TypeInv, NEW t \in Tasks, SaveEntry(t), UNCHANGED commits
    PROVE  TypeInv'
  <1> DEFINE r == RoundOf(t)
             n == NodeOf(t)
  <1>0. NetOK /\ ChainTypeOK /\ RegularTypeOK /\ StoreOK /\ LocalOK
    BY TypeParts DEF TypeInv
  <1>a. r \in Rounds /\ n \in Nodes
    BY TaskNames DEF SaveEntry, TypeInv, TaskOK
  <1>b. file[t] \in Store /\ entry[t] \in Entry
    BY DEF SaveEntry, TypeInv, TaskOK
  <1>c. [file[t] EXCEPT ![r][n] = entry[t]] \in Store
        /\ [mem EXCEPT ![r][n] = entry[t]] \in Store
    BY <1>0, <1>a, <1>b, StoreUpdate DEF StoreOK
  <1>d. pc'[t] \in {"root", "reveal", "idle"}
    BY <1>0 DEF SaveEntry, Goto, LocalOK
  <1>1. NetOK' /\ ChainTypeOK' /\ RegularTypeOK'
    BY <1>0 DEF SaveEntry, netVars, chainVars, NetOK, ChainTypeOK, RegularTypeOK
  <1>2. StoreOK'
    BY <1>0, <1>c DEF SaveEntry, StoreOK
  <1>3. LocalOK'
    BY <1>0 DEF SaveEntry, LocalOK, Goto, PCs
  <1>4. TaskOK(t)'
    BY <1>d DEF SaveEntry, TypeInv, TaskOK, chainVars
  <1>5. \A u \in Tasks : TaskOK(u)'
    BY <1>0, <1>4, OtherTasksKeep DEF SaveEntry, Goto, chainVars, LocalOK
  <1> QED BY <1>1, <1>2, <1>3, <1>5, TypePartsNext DEF TypeInv

LEMMA PollRoundTyped ==
    ASSUME TypeInv, NEW t \in Tasks, PollRound(t), UNCHANGED commits
    PROVE  TypeInv'
  <1>0. NetOK /\ ChainTypeOK /\ RegularTypeOK /\ StoreOK /\ LocalOK
    BY TypeParts DEF TypeInv
  <1>1. NetOK' /\ ChainTypeOK' /\ RegularTypeOK'
    BY <1>0 DEF PollRound, netVars, chainVars, NetOK, ChainTypeOK, RegularTypeOK
  <1>2. StoreOK'
    BY <1>0, TaskNames DEF PollRound, StoreOK
  <1>3. LocalOK'
    BY <1>0 DEF PollRound, LocalOK, Goto, PCs
  <1>4. TaskOK(t)'
    BY <1>0 DEF PollRound, TypeInv, TaskOK, Goto, LocalOK, chainVars
  <1>5. \A u \in Tasks : TaskOK(u)'
    BY <1>0, <1>4, OtherTasksKeep DEF PollRound, Goto, chainVars, LocalOK
  <1> QED BY <1>1, <1>2, <1>3, <1>5, TypePartsNext DEF TypeInv

LEMMA CheckRootFlagTyped ==
    ASSUME TypeInv, NEW t \in Tasks, CheckRootFlag(t), UNCHANGED commits
    PROVE  TypeInv'
  <1>0. NetOK /\ ChainTypeOK /\ RegularTypeOK /\ StoreOK /\ LocalOK
    BY TypeParts DEF TypeInv
  <1>a. pc'[t] \in {"relock", "idle", "leaves"}
    BY <1>0 DEF CheckRootFlag, Goto, AfterRoot, LocalOK
  <1>1. NetOK' /\ ChainTypeOK' /\ RegularTypeOK' /\ StoreOK'
    BY <1>0 DEF CheckRootFlag, netVars, chainVars, storeVars,
                NetOK, ChainTypeOK, RegularTypeOK, StoreOK
  <1>2. LocalOK'
    BY <1>0 DEF CheckRootFlag, LocalOK, Goto, AfterRoot, PCs
  <1>3. TaskOK(t)'
    BY <1>a DEF CheckRootFlag, TypeInv, TaskOK, chainVars
  <1>4. \A u \in Tasks : TaskOK(u)'
    BY <1>0, <1>3, OtherTasksKeep DEF CheckRootFlag, Goto, chainVars, LocalOK
  <1> QED BY <1>1, <1>2, <1>4, TypePartsNext DEF TypeInv

LEMMA SubmitRootTyped ==
    ASSUME TypeInv, NEW t \in Tasks, SubmitRoot(t), UNCHANGED commits
    PROVE  TypeInv'
  <1> DEFINE r == RoundOf(t)
             words == [i \in DOMAIN Operators[r] |-> mem[r][Operators[r][i]].cvs]
  <1>0. NetOK /\ ChainTypeOK /\ RegularTypeOK /\ StoreOK /\ LocalOK
    BY TypeParts DEF TypeInv
  <1>a. r \in Rounds
    BY TaskNames
  <1>b. ASSUME NEW i \in DOMAIN Operators[r]
        PROVE  mem[r][Operators[r][i]].cvs \in CvsSet
    <2>1. Operators[r][i] \in OperatorSet(r) /\ Operators[r][i] \in Nodes
      BY <1>a, OperatorsAreNodes DEF OperatorSet, Range
    <2>2. mem[r][Operators[r][i]].cvs # NoValue
      BY <2>1 DEF SubmitRoot
    <2> QED BY <2>1, <2>2, <1>0, <1>a, StoreValues DEF StoreOK
  <1>c. words \in Seq(CvsSet)
    <2>1. words \in [1..Len(Operators[r]) -> CvsSet]
      BY <1>a, <1>b, OperatorsAreNodes
    <2> QED BY <2>1, <1>a, OperatorsAreNodes
  <1>d. txs' = [txs EXCEPT ![t] =
                   [status |-> "pending", words |-> words, signed |-> <<>>]]
    BY DEF SubmitRoot, Send
  <1>e. [status |-> "pending", words |-> words, signed |-> <<>>] \in Transaction
    BY <1>c DEF Transaction
  <1>f. Kind(t) # "monitor"
    BY TaskNames DEF SubmitRoot, TypeInv, TaskOK
  <1>1. NetOK' /\ RegularTypeOK' /\ StoreOK'
    BY <1>0 DEF SubmitRoot, netVars, storeVars, NetOK, RegularTypeOK, StoreOK
  <1>2. ChainTypeOK'
    BY <1>0, <1>d, <1>e DEF SubmitRoot, ChainTypeOK
  <1>3. LocalOK'
    BY <1>0 DEF SubmitRoot, LocalOK, Goto, PCs
  <1>4. TaskOK(t)'
    BY <1>0, <1>c, <1>d, <1>f DEF SubmitRoot, TypeInv, TaskOK, Goto, LocalOK, ChainTypeOK
  <1>5. \A u \in Tasks : TaskOK(u)'
    BY <1>0, <1>4, <1>d, OtherTasksKeep DEF SubmitRoot, Goto, LocalOK, ChainTypeOK
  <1> QED BY <1>1, <1>2, <1>3, <1>5, TypePartsNext DEF TypeInv

LEMMA SubmitRootFailsTyped ==
    ASSUME TypeInv, NEW t \in Tasks, SubmitRootFails(t), UNCHANGED commits
    PROVE  TypeInv'
  <1>0. NetOK /\ ChainTypeOK /\ RegularTypeOK /\ StoreOK /\ LocalOK
    BY TypeParts DEF TypeInv
  <1>a. pc'[t] \in {"relock", "idle"}
    BY <1>0 DEF SubmitRootFails, Goto, AfterRoot, LocalOK
  <1>1. NetOK'
    BY <1>0 DEF SubmitRootFails, netVars, NetOK
  <1>2. ChainTypeOK' /\ RegularTypeOK' /\ StoreOK'
    BY <1>0 DEF SubmitRootFails, chainVars, storeVars, ChainTypeOK, RegularTypeOK, StoreOK
  <1>3. LocalOK'
    BY <1>0 DEF SubmitRootFails, LocalOK, Goto, AfterRoot, PCs
  <1>4. TaskOK(t)'
    BY <1>a DEF SubmitRootFails, TypeInv, TaskOK, chainVars
  <1>5. \A u \in Tasks : TaskOK(u)'
    BY <1>0, <1>4, OtherTasksKeep DEF SubmitRootFails, Goto, chainVars, LocalOK
  <1> QED BY <1>1, <1>2, <1>3, <1>5, TypePartsNext DEF TypeInv

LEMMA RootMinedTyped ==
    ASSUME TypeInv, NEW t \in Tasks, RootMined(t), UNCHANGED commits
    PROVE  TypeInv'
  <1>0. NetOK /\ ChainTypeOK /\ RegularTypeOK /\ StoreOK /\ LocalOK
    BY TypeParts DEF TypeInv
  <1>a. NoTx \in Transaction
    BY DEF NoTx, Transaction
  <1>1. NetOK' /\ RegularTypeOK' /\ StoreOK'
    BY <1>0 DEF RootMined, netVars, storeVars, NetOK, RegularTypeOK, StoreOK
  <1>2. ChainTypeOK'
    BY <1>0, <1>a DEF RootMined, ChainTypeOK
  <1>3. LocalOK'
    BY <1>0 DEF RootMined, LocalOK, Goto, PCs, Present
  <1>4. TaskOK(t)'
    BY <1>0 DEF RootMined, TypeInv, TaskOK, Goto, LocalOK, ChainTypeOK, NoTx
  <1>5. \A u \in Tasks : TaskOK(u)'
    BY <1>0, <1>4, OtherTasksKeep DEF RootMined, Goto, LocalOK, ChainTypeOK
  <1> QED BY <1>1, <1>2, <1>3, <1>5, TypePartsNext DEF TypeInv

LEMMA ReadForFlagTyped ==
    ASSUME TypeInv, NEW t \in Tasks, ReadForFlag(t), UNCHANGED commits
    PROVE  TypeInv'
  <1>0. NetOK /\ ChainTypeOK /\ RegularTypeOK /\ StoreOK /\ LocalOK
    BY TypeParts DEF TypeInv
  <1>1. NetOK' /\ ChainTypeOK' /\ RegularTypeOK' /\ StoreOK'
    BY <1>0 DEF ReadForFlag, netVars, chainVars, storeVars,
                NetOK, ChainTypeOK, RegularTypeOK, StoreOK
  <1>2. LocalOK'
    BY <1>0 DEF ReadForFlag, LocalOK, StoreOK, Goto, PCs
  <1>3. TaskOK(t)'
    BY <1>0 DEF ReadForFlag, TypeInv, TaskOK, Goto, LocalOK, StoreOK, chainVars
  <1>4. \A u \in Tasks : TaskOK(u)'
    BY <1>0, <1>3, OtherTasksKeep DEF ReadForFlag, Goto, chainVars, LocalOK
  <1> QED BY <1>1, <1>2, <1>4, TypePartsNext DEF TypeInv

LEMMA WriteFlagTyped ==
    ASSUME TypeInv, NEW t \in Tasks, WriteFlag(t), UNCHANGED commits
    PROVE  TypeInv'
  <1> DEFINE r == RoundOf(t)
  <1>0. NetOK /\ ChainTypeOK /\ RegularTypeOK /\ StoreOK /\ LocalOK
    BY TypeParts DEF TypeInv
  <1>a. r \in Rounds /\ file[t] \in Store
    BY TaskNames DEF WriteFlag, TypeInv, TaskOK
  <1>b. PICK n \in todo[t] :
           /\ disk' = [file[t] EXCEPT ![r][n] = [mem[r][n] EXCEPT !.rootDone = TRUE]]
           /\ mem' = [mem EXCEPT ![r][n] = [mem[r][n] EXCEPT !.rootDone = TRUE]]
           /\ todo' = [todo EXCEPT ![t] = @ \ {n}]
           /\ Goto(t, IF todo[t] = {n} THEN AfterRoot(t) ELSE "flag")
    BY DEF WriteFlag
  <1>c. n \in Nodes
    BY <1>0, <1>b DEF LocalOK
  <1>d. [mem[r][n] EXCEPT !.rootDone = TRUE] \in Entry
    BY <1>0, <1>a, <1>c, StoreValues, EntryUpdates DEF StoreOK
  <1>e. disk' \in Store /\ mem' \in Store
    BY <1>0, <1>a, <1>b, <1>c, <1>d, StoreUpdate DEF StoreOK
  <1>f. pc'[t] \in {"relock", "idle", "flag"}
    BY <1>0, <1>b DEF Goto, AfterRoot, LocalOK
  <1>1. NetOK' /\ ChainTypeOK' /\ RegularTypeOK'
    BY <1>0 DEF WriteFlag, netVars, chainVars, NetOK, ChainTypeOK, RegularTypeOK
  <1>2. StoreOK'
    BY <1>0, <1>e DEF WriteFlag, StoreOK
  <1>3. LocalOK'
    BY <1>0, <1>b DEF WriteFlag, LocalOK, Goto, AfterRoot, PCs
  <1>4. TaskOK(t)'
    BY <1>f DEF WriteFlag, TypeInv, TaskOK, chainVars
  <1>5. \A u \in Tasks : TaskOK(u)'
    BY <1>0, <1>b, <1>4, OtherTasksKeep DEF WriteFlag, Goto, chainVars, LocalOK
  <1> QED BY <1>1, <1>2, <1>3, <1>5, TypePartsNext DEF TypeInv

LEMMA DetermineRevealOrderTyped ==
    ASSUME TypeInv, NEW t \in Tasks, DetermineRevealOrder(t), UNCHANGED commits
    PROVE  TypeInv'
  <1> DEFINE r == RoundOf(t)
  <1>0. NetOK /\ ChainTypeOK /\ RegularTypeOK /\ StoreOK /\ LocalOK
    BY TypeParts DEF TypeInv
  <1>a. r \in Rounds
    BY TaskNames
  <1>b. Orders(r) \subseteq Seq(Nodes)
    <2>1. \A s \in Orders(r) : s \in [1..Len(Operators[r]) -> Nodes]
      BY <1>a, OperatorsAreNodes DEF Orders
    <2> QED BY <2>1, <1>a, OperatorsAreNodes
  <1>c. pc'[t] \in {"idle", "start"}
    BY <1>0 DEF DetermineRevealOrder, Goto, LocalOK
  <1>d. order' = order \/ \E s \in Orders(r) : order' = [order EXCEPT ![r] = s]
    BY DEF DetermineRevealOrder
  <1>1. NetOK' /\ ChainTypeOK' /\ RegularTypeOK'
    BY <1>0 DEF DetermineRevealOrder, netVars, chainVars, NetOK, ChainTypeOK, RegularTypeOK
  <1>2. StoreOK'
    BY <1>0, <1>b, <1>d DEF DetermineRevealOrder, StoreOK
  <1>3. LocalOK'
    BY <1>0 DEF DetermineRevealOrder, LocalOK, Goto, PCs
  <1>4. TaskOK(t)'
    BY <1>c DEF DetermineRevealOrder, TypeInv, TaskOK, chainVars
  <1>e. \E l \in PCs : pc' = [pc EXCEPT ![t] = l]
    BY DEF DetermineRevealOrder, Goto, PCs
  <1>5. \A u \in Tasks : TaskOK(u)'
    BY <1>0, <1>4, <1>e, OtherTasksKeep DEF DetermineRevealOrder, chainVars, LocalOK
  <1> QED BY <1>1, <1>2, <1>3, <1>5, TypePartsNext DEF TypeInv

LEMMA SendSecretRequestTyped ==
    ASSUME NetOK, StoreOK, NEW r \in Rounds, NEW n \in Nodes, SendSecretRequest(r, n)
    PROVE  NetOK' /\ requested' \in [Rounds -> SUBSET Nodes]
  <1>1. CASE UNCHANGED faults
    BY <1>1, MessagesTyped DEF SendSecretRequest, NetOK, StoreOK, Fault
  <1>2. CASE Fault /\ UNCHANGED <<inbox, requested>>
    BY <1>2, FaultTyped DEF NetOK, StoreOK
  <1> QED BY <1>1, <1>2 DEF SendSecretRequest

LEMMA AskNextTyped ==
    ASSUME NetOK, StoreOK, NEW r \in Rounds, NEW skip, AskNext(r, skip)
    PROVE  NetOK' /\ requested' \in [Rounds -> SUBSET Nodes]
  <1>1. NextToAsk(r, skip) \subseteq Nodes
    <2>1. order[r] \in Seq(Nodes)
      BY DEF StoreOK
    <2>2. \A i \in DOMAIN order[r] : order[r][i] \in Nodes
      BY <2>1
    <2> QED BY <2>2 DEF NextToAsk
  <1>2. CASE \E n \in NextToAsk(r, skip) : SendSecretRequest(r, n)
    BY <1>1, <1>2, SendSecretRequestTyped
  <1>3. CASE UNCHANGED <<netVars, requested>>
    BY <1>3 DEF netVars, NetOK, StoreOK
  <1> QED BY <1>2, <1>3 DEF AskNext

LEMMA StartSecretValueRequestsTyped ==
    ASSUME TypeInv, NEW t \in Tasks, StartSecretValueRequests(t), UNCHANGED commits
    PROVE  TypeInv'
  <1>0. NetOK /\ ChainTypeOK /\ RegularTypeOK /\ StoreOK /\ LocalOK
    BY TypeParts DEF TypeInv
  <1>1. NetOK' /\ requested' \in [Rounds -> SUBSET Nodes]
    BY <1>0, TaskNames, AskNextTyped DEF StartSecretValueRequests
  <1>2. ChainTypeOK' /\ RegularTypeOK' /\ StoreOK'
    BY <1>0, <1>1 DEF StartSecretValueRequests, chainVars, ChainTypeOK,
                      RegularTypeOK, StoreOK
  <1>3. LocalOK'
    BY <1>0 DEF StartSecretValueRequests, LocalOK, Goto, PCs
  <1>4. TaskOK(t)'
    BY <1>0 DEF StartSecretValueRequests, TypeInv, TaskOK, Goto, LocalOK, chainVars
  <1>5. \A u \in Tasks : TaskOK(u)'
    BY <1>0, <1>4, OtherTasksKeep
    DEF StartSecretValueRequests, Goto, chainVars, LocalOK
  <1> QED BY <1>1, <1>2, <1>3, <1>5, TypePartsNext DEF TypeInv

LEMMA HandleSecretValueResponseTyped ==
    ASSUME TypeInv, NEW t \in Tasks, HandleSecretValueResponse(t), UNCHANGED commits
    PROVE  TypeInv'
  <1>0. NetOK /\ ChainTypeOK /\ RegularTypeOK /\ StoreOK /\ LocalOK
    BY TypeParts DEF TypeInv
  <1>1. NetOK' /\ requested' \in [Rounds -> SUBSET Nodes]
    BY <1>0, TaskNames, AskNextTyped DEF HandleSecretValueResponse
  <1>2. ChainTypeOK' /\ RegularTypeOK' /\ StoreOK'
    BY <1>0, <1>1 DEF HandleSecretValueResponse, chainVars, ChainTypeOK,
                      RegularTypeOK, StoreOK
  <1>3. LocalOK'
    BY <1>0 DEF HandleSecretValueResponse, LocalOK, Goto, PCs
  <1>4. TaskOK(t)'
    BY <1>0 DEF HandleSecretValueResponse, TypeInv, TaskOK, Goto, LocalOK, chainVars
  <1>5. \A u \in Tasks : TaskOK(u)'
    BY <1>0, <1>4, OtherTasksKeep
    DEF HandleSecretValueResponse, Goto, chainVars, LocalOK
  <1> QED BY <1>1, <1>2, <1>3, <1>5, TypePartsNext DEF TypeInv

LEMMA AcceptSecretValueTyped ==
    ASSUME TypeInv, NEW t \in Tasks, AcceptSecretValue(t), UNCHANGED commits
    PROVE  TypeInv'
  <1> DEFINE r == RoundOf(t)
             n == NodeOf(t)
  <1>0. NetOK /\ ChainTypeOK /\ RegularTypeOK /\ StoreOK /\ LocalOK
    BY TypeParts DEF TypeInv
  <1>a. r \in Rounds /\ n \in Nodes
    BY TaskNames DEF AcceptSecretValue
  <1>b. PICK m \in inbox : /\ m.type = "secret"
                           /\ inbox' = inbox \ {m}
                           /\ entry' = [entry EXCEPT ![t] =
                                 [disk[r][n] EXCEPT !.secret = m.value]]
    BY DEF AcceptSecretValue
  <1>c. m.value \in Secrets
    BY <1>0, <1>b, MessageValues DEF NetOK
  <1>d. entry'[t] \in Entry
    BY <1>0, <1>a, <1>b, <1>c, StoreValues, EntryUpdates DEF StoreOK, LocalOK
  <1>1. NetOK'
    BY <1>0, <1>b DEF NetOK, AcceptSecretValue
  <1>2. ChainTypeOK' /\ RegularTypeOK' /\ StoreOK'
    BY <1>0 DEF AcceptSecretValue, chainVars, ChainTypeOK, RegularTypeOK, storeVars, StoreOK
  <1>3. LocalOK'
    BY <1>0, <1>b, <1>d DEF AcceptSecretValue, LocalOK, Goto, PCs
  <1>4. TaskOK(t)'
    BY <1>0, <1>d DEF AcceptSecretValue, TypeInv, TaskOK, Goto, LocalOK, chainVars
  <1>5. \A u \in Tasks : TaskOK(u)'
    BY <1>0, <1>4, <1>b, OtherTasksKeep DEF AcceptSecretValue, Goto, chainVars, LocalOK
  <1> QED BY <1>1, <1>2, <1>3, <1>5, TypePartsNext DEF TypeInv

LEMMA ReadForSecretTyped ==
    ASSUME TypeInv, NEW t \in Tasks, ReadForSecret(t), UNCHANGED commits
    PROVE  TypeInv'
  <1>0. NetOK /\ ChainTypeOK /\ RegularTypeOK /\ StoreOK /\ LocalOK
    BY TypeParts DEF TypeInv
  <1>1. NetOK' /\ ChainTypeOK' /\ RegularTypeOK' /\ StoreOK'
    BY <1>0 DEF ReadForSecret, netVars, chainVars, storeVars,
                NetOK, ChainTypeOK, RegularTypeOK, StoreOK
  <1>2. LocalOK'
    BY <1>0 DEF ReadForSecret, LocalOK, StoreOK, Goto, PCs
  <1>3. TaskOK(t)'
    BY <1>0 DEF ReadForSecret, TypeInv, TaskOK, Goto, LocalOK, StoreOK, chainVars
  <1>4. \A u \in Tasks : TaskOK(u)'
    BY <1>0, <1>3, OtherTasksKeep DEF ReadForSecret, Goto, chainVars, LocalOK
  <1> QED BY <1>1, <1>2, <1>4, TypePartsNext DEF TypeInv

LEMMA WriteSecretTyped ==
    ASSUME TypeInv, NEW t \in Tasks, WriteSecret(t), UNCHANGED commits
    PROVE  TypeInv'
  <1>0. NetOK /\ ChainTypeOK /\ RegularTypeOK /\ StoreOK /\ LocalOK
    BY TypeParts DEF TypeInv
  <1>a. /\ RoundOf(t) \in Rounds /\ NodeOf(t) \in Nodes
        /\ file[t] \in Store /\ entry[t] \in Entry
    BY TaskNames DEF WriteSecret, TypeInv, TaskOK
  <1>b. disk' \in Store
    BY <1>a, StoreUpdate DEF WriteSecret
  <1>1. NetOK' /\ ChainTypeOK' /\ RegularTypeOK' /\ StoreOK'
    BY <1>0, <1>b DEF WriteSecret, netVars, chainVars, NetOK, ChainTypeOK,
                      RegularTypeOK, StoreOK
  <1>2. LocalOK'
    BY <1>0 DEF WriteSecret, LocalOK, Goto, PCs
  <1>3. TaskOK(t)'
    BY <1>0 DEF WriteSecret, TypeInv, TaskOK, Goto, LocalOK, chainVars
  <1>4. \A u \in Tasks : TaskOK(u)'
    BY <1>0, <1>3, OtherTasksKeep DEF WriteSecret, Goto, chainVars, LocalOK
  <1> QED BY <1>1, <1>2, <1>4, TypePartsNext DEF TypeInv

LEMMA MonitorRequestsTyped ==
    ASSUME TypeInv, NEW t \in Tasks, MonitorRequests(t), UNCHANGED commits
    PROVE  TypeInv'
  <1> DEFINE r == RoundOf(t)
  <1>0. NetOK /\ ChainTypeOK /\ RegularTypeOK /\ StoreOK /\ LocalOK
    BY TypeParts DEF TypeInv
  <1>a. r \in Rounds
    BY TaskNames
  <1>b. PICK i \in MissingSecret(r) : SendSecretRequest(r, Operators[r][i])
    BY DEF MonitorRequests
  <1>c. Operators[r][i] \in Nodes
    BY <1>a, OperatorsAreNodes DEF MissingSecret
  <1>1. NetOK' /\ requested' \in [Rounds -> SUBSET Nodes]
    BY <1>0, <1>a, <1>b, <1>c, SendSecretRequestTyped
  <1>2. ChainTypeOK' /\ RegularTypeOK' /\ StoreOK' /\ LocalOK'
    BY <1>0, <1>1 DEF MonitorRequests, chainVars, taskVars, ChainTypeOK,
                      RegularTypeOK, StoreOK, LocalOK
  <1>3. \A u \in Tasks : TaskOK(u)'
    BY DEF MonitorRequests, TypeInv, TaskOK, chainVars, taskVars
  <1> QED BY <1>1, <1>2, <1>3, TypePartsNext DEF TypeInv

LEMMA CollectedTyped ==
    ASSUME TypeInv, NEW r \in Rounds, NEW p \in Collected(r)
    PROVE  /\ [i \in DOMAIN p |-> disk[r][Operators[r][p[i]]].secret] \in Seq(Secrets)
           /\ [i \in DOMAIN p |-> disk[r][Operators[r][p[i]]].cvs]
                 \in Seq(CvsSet \cup {NoValue})
  <1> DEFINE have == DOMAIN Operators[r] \ MissingSecret(r)
             k == Cardinality(have)
  <1>1. IsFiniteSet(have)
    <2>1. IsFiniteSet(1..Len(Operators[r]))
      BY OperatorsAreNodes, FS_Interval
    <2> QED BY <2>1, OperatorsAreNodes, FS_Subset
  <1>2. k \in Nat
    BY <1>1, FS_CardinalityType
  <1>3. p \in [1..k -> have]
    BY DEF Collected
  <1>4. disk \in Store
    BY TypeParts DEF TypeInv, StoreOK
  <1>5. ASSUME NEW i \in 1..k
        PROVE  /\ disk[r][Operators[r][p[i]]].secret \in Secrets
               /\ disk[r][Operators[r][p[i]]].cvs \in CvsSet \cup {NoValue}
    <2>1. p[i] \in have
      BY <1>3
    <2>2. Operators[r][p[i]] \in Nodes
      BY <2>1, OperatorsAreNodes
    <2>3. disk[r][Operators[r][p[i]]].secret # NoValue
      BY <2>1 DEF MissingSecret
    <2> QED BY <2>2, <2>3, <1>4, StoreValues
  <1>6. DOMAIN p = 1..k
    BY <1>3
  <1>7. /\ [i \in 1..k |-> disk[r][Operators[r][p[i]]].secret] \in [1..k -> Secrets]
        /\ [i \in 1..k |-> disk[r][Operators[r][p[i]]].cvs]
              \in [1..k -> CvsSet \cup {NoValue}]
    BY <1>5
  <1> HIDE DEF k
  <1> QED BY <1>2, <1>6, <1>7

LEMMA MonitorGeneratesTyped ==
    ASSUME TypeInv, NEW t \in Tasks, MonitorGenerates(t), UNCHANGED commits
    PROVE  TypeInv'
  <1> DEFINE r == RoundOf(t)
             W(p) == [i \in DOMAIN p |-> disk[r][Operators[r][p[i]]].secret]
             S(p) == [i \in DOMAIN p |-> disk[r][Operators[r][p[i]]].cvs]
  <1>0. NetOK /\ ChainTypeOK /\ RegularTypeOK /\ StoreOK /\ LocalOK
    BY TypeParts DEF TypeInv
  <1>a. r \in Rounds
    BY TaskNames
  <1>b. PICK p \in Collected(r) : Send(t, W(p), S(p))
    BY DEF MonitorGenerates
  <1>c. W(p) \in Seq(Secrets) /\ S(p) \in Seq(CvsSet \cup {NoValue})
    BY <1>a, CollectedTyped
  <1> HIDE DEF W, S
  <1>d. txs' = [txs EXCEPT ![t] =
                   [status |-> "pending", words |-> W(p), signed |-> S(p)]]
    BY <1>b DEF Send
  <1>e. [status |-> "pending", words |-> W(p), signed |-> S(p)] \in Transaction
    BY <1>c DEF Transaction
  <1>1. NetOK' /\ RegularTypeOK' /\ StoreOK'
    BY <1>0 DEF MonitorGenerates, netVars, storeVars, NetOK, RegularTypeOK, StoreOK
  <1>2. ChainTypeOK'
    BY <1>0, <1>d, <1>e DEF MonitorGenerates, ChainTypeOK
  <1>3. LocalOK'
    BY <1>0 DEF MonitorGenerates, LocalOK, StoreOK, Goto, PCs
  <1>4. TaskOK(t)'
    BY <1>0, <1>c, <1>d
    DEF MonitorGenerates, TypeInv, TaskOK, Goto, LocalOK, StoreOK, ChainTypeOK
  <1>5. \A u \in Tasks : TaskOK(u)'
    BY <1>0, <1>4, <1>d, OtherTasksKeep DEF MonitorGenerates, Goto, LocalOK, ChainTypeOK
  <1> QED BY <1>1, <1>2, <1>3, <1>5, TypePartsNext DEF TypeInv

LEMMA TruncateForMarkTyped ==
    ASSUME TypeInv, NEW t \in Tasks, TruncateForMark(t), UNCHANGED commits
    PROVE  TypeInv'
  <1>0. NetOK /\ ChainTypeOK /\ RegularTypeOK /\ StoreOK /\ LocalOK
    BY TypeParts DEF TypeInv
  <1>a. NoTx \in Transaction
    BY DEF NoTx, Transaction
  <1>1. NetOK' /\ RegularTypeOK'
    BY <1>0 DEF TruncateForMark, netVars, NetOK, RegularTypeOK
  <1>2. StoreOK'
    BY <1>0, NoStoreTyped DEF TruncateForMark, StoreOK
  <1>3. ChainTypeOK'
    BY <1>0, <1>a DEF TruncateForMark, ChainTypeOK
  <1>4. LocalOK'
    BY <1>0 DEF TruncateForMark, LocalOK, Goto, PCs
  <1>5. TaskOK(t)'
    BY <1>0 DEF TruncateForMark, TypeInv, TaskOK, Goto, LocalOK, ChainTypeOK, NoTx
  <1>6. \A u \in Tasks : TaskOK(u)'
    BY <1>0, <1>5, OtherTasksKeep DEF TruncateForMark, Goto, LocalOK, ChainTypeOK
  <1> QED BY <1>1, <1>2, <1>3, <1>4, <1>6, TypePartsNext DEF TypeInv

LEMMA WriteMarkTyped ==
    ASSUME TypeInv, NEW t \in Tasks, WriteMark(t), UNCHANGED commits
    PROVE  TypeInv'
  <1>0. NetOK /\ ChainTypeOK /\ RegularTypeOK /\ StoreOK /\ LocalOK
    BY TypeParts DEF TypeInv
  <1>a. disk' \in Store
    BY TaskNames, MarkedTyped DEF WriteMark, TypeInv, TaskOK
  <1>1. NetOK' /\ ChainTypeOK' /\ RegularTypeOK' /\ StoreOK'
    BY <1>0, <1>a DEF WriteMark, netVars, chainVars, NetOK, ChainTypeOK,
                      RegularTypeOK, StoreOK
  <1>2. LocalOK'
    BY <1>0 DEF WriteMark, LocalOK, Goto, PCs
  <1>3. TaskOK(t)'
    BY <1>0 DEF WriteMark, TypeInv, TaskOK, Goto, LocalOK, chainVars
  <1>4. \A u \in Tasks : TaskOK(u)'
    BY <1>0, <1>3, OtherTasksKeep DEF WriteMark, Goto, chainVars, LocalOK
  <1> QED BY <1>1, <1>2, <1>4, TypePartsNext DEF TypeInv

LEMMA TransactionFailsTyped ==
    ASSUME TypeInv, NEW t \in Tasks, TransactionFails(t), UNCHANGED commits
    PROVE  TypeInv'
  <1>0. NetOK /\ ChainTypeOK /\ RegularTypeOK /\ StoreOK /\ LocalOK
    BY TypeParts DEF TypeInv
  <1>a. NoTx \in Transaction
    BY DEF NoTx, Transaction
  <1>b. txs' = txs \/ txs' = [txs EXCEPT ![t] = NoTx]
    <2>1. txs \in [Tasks -> Transaction]
      BY <1>0 DEF ChainTypeOK
    <2> QED BY <2>1 DEF TransactionFails
  <1>c. pc'[t] \in {"relock", "idle"}
    BY <1>0 DEF TransactionFails, Goto, AfterRoot, LocalOK
  <1>1. NetOK'
    BY <1>0, FaultTyped DEF TransactionFails, NetOK
  <1>2. RegularTypeOK' /\ StoreOK'
    BY <1>0 DEF TransactionFails, storeVars, RegularTypeOK, StoreOK
  <1>3. ChainTypeOK'
    BY <1>0, <1>a, <1>b DEF TransactionFails, ChainTypeOK
  <1>4. LocalOK'
    BY <1>0 DEF TransactionFails, LocalOK, Goto, AfterRoot, PCs
  <1>5. TaskOK(t)'
    BY <1>0, <1>b, <1>c DEF TransactionFails, TypeInv, TaskOK, NoTx, ChainTypeOK
  <1>6. \A u \in Tasks : TaskOK(u)'
    BY <1>0, <1>b, <1>5, OtherTasksKeep DEF TransactionFails, Goto, LocalOK, ChainTypeOK
  <1> QED BY <1>1, <1>2, <1>3, <1>4, <1>6, TypePartsNext DEF TypeInv

LEMMA CrashTyped ==
    ASSUME TypeInv, Crash, UNCHANGED commits
    PROVE  TypeInv'
  <1>0. NetOK /\ ChainTypeOK /\ RegularTypeOK /\ StoreOK /\ LocalOK
    BY TypeParts DEF TypeInv
  <1>a. NoTx \in Transaction
    BY DEF NoTx, Transaction
  <1>1. NetOK'
    BY <1>0 DEF Crash, NetOK
  <1>2. ChainTypeOK' /\ RegularTypeOK'
    BY <1>0, <1>a DEF Crash, ChainTypeOK, RegularTypeOK
  <1>3. StoreOK'
    BY <1>0, NoStoreTyped DEF Crash, StoreOK
  <1>4. LocalOK'
    BY <1>0, BoundsAssumption DEF Crash, LocalOK, PCs
  <1>5. \A u \in Tasks : TaskOK(u)'
    BY <1>0 DEF Crash, TypeInv, TaskOK, NoTx
  <1> QED BY <1>1, <1>2, <1>3, <1>4, <1>5, TypePartsNext DEF TypeInv

\* Steps of the network, the nodes and the chain leave the tasks alone.
LEMMA OutsideTasks ==
    ASSUME StoreOK, LocalOK, UNCHANGED leaderVars
    PROVE  StoreOK' /\ LocalOK'
  BY DEF StoreOK, LocalOK, leaderVars, storeVars, taskVars

LEMMA NodeStepTyped ==
    ASSUME TypeInv, NEW n \in Nodes, NEW r \in Rounds, NodeStep(n, r)
    PROVE  TypeInv'
  <1>0. NetOK /\ ChainTypeOK /\ RegularTypeOK /\ StoreOK /\ LocalOK
    BY TypeParts DEF TypeInv
  <1>1. UNCHANGED chainVars /\ UNCHANGED leaderVars
    BY DEF NodeStep, SendCommit, SendCos, HandleSecretValueRequest
  <1>2. ChainTypeOK' /\ StoreOK' /\ LocalOK'
    BY <1>0, <1>1, OutsideTasks DEF chainVars, ChainTypeOK
  <1>3. \A u \in Tasks : TaskOK(u)'
    BY <1>1 DEF chainVars, leaderVars, taskVars, TypeInv, TaskOK
  <1>4. NetOK' /\ RegularTypeOK'
    <2>1. CASE SendCommit(n, r)
      <3>1. PICK t \in Stamps :
               /\ commits' = [commits EXCEPT ![n][r] =
                                [secret |-> Secret(r, n, t), cosSent |-> FALSE]]
               /\ inbox' = inbox \cup {Msg("cvs", r, n, Cvs(Cos(Secret(r, n, t))))}
        BY <2>1 DEF SendCommit, SaveCommitData, SendCommitToLeader
      <3>2. /\ [secret |-> Secret(r, n, t), cosSent |-> FALSE] \in Commit
            /\ Msg("cvs", r, n, Cvs(Cos(Secret(r, n, t)))) \in Message
        BY Hashes, MessagesTyped DEF Commit
      <3> QED BY <1>0, <2>1, <3>1, <3>2 DEF SendCommit, NetOK, RegularTypeOK
    <2>2. CASE SendCos(n, r)
      <3>1. commits[n][r] \in Commit
        BY <1>0, <2>2 DEF SendCos, LoadCommitData, SaveCommitData, RegularTypeOK
      <3>2. Msg("cos", r, n, Cos(commits[n][r].secret)) \in Message
        BY <3>1, Hashes, MessagesTyped DEF Commit
      <3>3. [commits[n][r] EXCEPT !.cosSent = TRUE] \in Commit
        BY <3>1 DEF Commit
      <3>4. faults' \in 0..MaxFaults
        BY <1>0, <2>2, FaultTyped DEF SendCos, NetOK
      <3>5. \/ commits' = [commits EXCEPT ![n][r] =
                               [commits[n][r] EXCEPT !.cosSent = TRUE]]
            \/ UNCHANGED commits
        BY <1>0, <2>2 DEF SendCos, LoadCommitData, SaveCommitData, RegularTypeOK
      <3>6. RegularTypeOK'
        <4>1. \A c \in Commit : [commits EXCEPT ![n][r] = c]
                                  \in [Nodes -> [Rounds -> {NoValue} \cup Commit]]
          BY <1>0 DEF RegularTypeOK
        <4> QED BY <1>0, <3>3, <3>5, <4>1 DEF RegularTypeOK
      <3> QED BY <1>0, <2>2, <3>2, <3>4, <3>6
              DEF SendCos, SendCosToLeader, LoadCommitData, NetOK
    <2>3. CASE HandleSecretValueRequest(n, r)
      <3>1. commits[n][r] # NoValue =>
               Msg("secret", r, n, commits[n][r].secret) \in Message
        BY <1>0, MessagesTyped DEF RegularTypeOK, Commit
      <3> QED BY <1>0, <2>3, <3>1
              DEF HandleSecretValueRequest, LoadCommitData, NetOK, RegularTypeOK
    <2> QED BY <2>1, <2>2, <2>3 DEF NodeStep
  <1> QED BY <1>2, <1>3, <1>4, TypePartsNext DEF TypeInv

LEMMA OutsideStepTyped ==
    ASSUME TypeInv, NEW n \in Nodes, NEW r \in Rounds, OutsideStep(n, r)
    PROVE  TypeInv'
  <1>0. NetOK /\ ChainTypeOK /\ RegularTypeOK /\ StoreOK /\ LocalOK
    BY TypeParts DEF TypeInv
  <1>1. UNCHANGED <<commits, chainVars>> /\ UNCHANGED leaderVars
    BY DEF OutsideStep, RequestFromOutside
  <1>2. ChainTypeOK' /\ RegularTypeOK' /\ StoreOK' /\ LocalOK'
    BY <1>0, <1>1, OutsideTasks DEF chainVars, ChainTypeOK, RegularTypeOK
  <1>3. \A u \in Tasks : TaskOK(u)'
    BY <1>1 DEF chainVars, leaderVars, taskVars, TypeInv, TaskOK
  <1>4. NetOK'
    BY <1>0, MessagesTyped DEF OutsideStep, RequestFromOutside, NetOK
  <1> QED BY <1>2, <1>3, <1>4, TypePartsNext DEF TypeInv

LEMMA LoseTyped ==
    ASSUME TypeInv, Lose
    PROVE  TypeInv'
  <1>0. NetOK /\ ChainTypeOK /\ RegularTypeOK /\ StoreOK /\ LocalOK
    BY TypeParts DEF TypeInv
  <1>1. UNCHANGED <<commits, chainVars>> /\ UNCHANGED leaderVars
    BY DEF Lose, LoseMessage
  <1>2. ChainTypeOK' /\ RegularTypeOK' /\ StoreOK' /\ LocalOK'
    BY <1>0, <1>1, OutsideTasks DEF chainVars, ChainTypeOK, RegularTypeOK
  <1>3. \A u \in Tasks : TaskOK(u)'
    BY <1>1 DEF chainVars, leaderVars, taskVars, TypeInv, TaskOK
  <1>4. NetOK'
    BY <1>0, FaultTyped DEF Lose, LoseMessage, NetOK
  <1> QED BY <1>2, <1>3, <1>4, TypePartsNext DEF TypeInv

LEMMA MineTyped ==
    ASSUME TypeInv, NEW t \in Tasks, Mine(t)
    PROVE  TypeInv'
  <1> DEFINE r == RoundOf(t)
  <1>0. NetOK /\ ChainTypeOK /\ RegularTypeOK /\ StoreOK /\ LocalOK
    BY TypeParts DEF TypeInv
  <1>1. UNCHANGED <<netVars, commits>> /\ UNCHANGED leaderVars
    BY DEF Mine
  <1>2. NetOK' /\ RegularTypeOK' /\ StoreOK' /\ LocalOK'
    BY <1>0, <1>1, OutsideTasks DEF netVars, NetOK, RegularTypeOK
  <1>3. r \in Rounds
    BY TaskNames
  <1>4. PICK status \in {"ok", "reverted", "replaced"} : Receipt(t, Awaited(t), status)
    BY DEF Mine, MineRoot, MineRandom, MineRevert, ReplaceTx
  <1>5. \E x \in Transaction : x.status # "pending" /\ txs' = [txs EXCEPT ![t] = x]
    <2>1. NoTx \in Transaction /\ NoTx.status # "pending"
      BY DEF NoTx, Transaction
    <2>2. [NoTx EXCEPT !.status = status] = [status |-> status, words |-> <<>>, signed |-> <<>>]
      BY DEF NoTx
    <2>3. /\ [status |-> status, words |-> <<>>, signed |-> <<>>] \in Transaction
          /\ [status |-> status, words |-> <<>>, signed |-> <<>>].status # "pending"
      BY DEF Transaction
    <2>4. CASE Awaited(t)
      BY <1>4, <2>2, <2>3, <2>4 DEF Receipt
    <2>5. CASE ~Awaited(t)
      BY <1>4, <2>1, <2>5 DEF Receipt
    <2> QED BY <2>4, <2>5
  <1>6. \/ /\ Kind(t) # "monitor" /\ UNCHANGED <<chainRandom, generated>>
           /\ chainRoot' = [chainRoot EXCEPT ![r] = txs[t].words]
           /\ txs[t].words \in Seq(CvsSet)
        \/ /\ Kind(t) = "monitor" /\ UNCHANGED chainRoot
           /\ chainRandom' = [chainRandom EXCEPT ![r] = txs[t].words]
           /\ generated' = [generated EXCEPT ![r] = @ + 1]
           /\ txs[t].words \in Seq(Secrets) /\ generated[r] < MaxGenerated
        \/ UNCHANGED <<chainRoot, chainRandom, generated>>
    BY DEF Mine, MineRoot, SubmitMerkleRoot, MineRandom, GenerateRandomNumber,
           MineRevert, ReplaceTx, TypeInv, TaskOK
  <1>7. ChainTypeOK'
    <2>1. txs' \in [Tasks -> Transaction]
      BY <1>0, <1>5 DEF ChainTypeOK
    <2>2. chainRoot' \in [Rounds -> {NoValue} \cup Seq(CvsSet)]
      BY <1>0, <1>3, <1>6 DEF ChainTypeOK
    <2>3. chainRandom' \in [Rounds -> {NoValue} \cup Seq(Secrets)]
      BY <1>0, <1>3, <1>6 DEF ChainTypeOK
    <2>4. generated' \in [Rounds -> 0..MaxGenerated]
      <3>1. generated[r] \in 0..MaxGenerated /\ MaxGenerated \in Nat
        BY <1>0, <1>3, BoundsAssumption DEF ChainTypeOK
      <3>2. generated[r] < MaxGenerated => generated[r] + 1 \in 0..MaxGenerated
        BY <3>1
      <3> QED BY <1>0, <1>3, <1>6, <3>2 DEF ChainTypeOK
    <2> QED BY <2>1, <2>2, <2>3, <2>4 DEF ChainTypeOK
  <1>8. ASSUME NEW u \in Tasks
        PROVE  TaskOK(u)'
    <2>1. pc' = pc /\ file' = file /\ entry' = entry
      BY <1>1 DEF leaderVars, taskVars
    <2>2. CASE u = t
      <3>1. txs'[t].status # "pending"
        BY <1>0, <1>5 DEF ChainTypeOK
      <3> QED BY <2>1, <2>2, <3>1 DEF TypeInv, TaskOK
    <2>3. CASE u # t
      <3>1. txs'[u] = txs[u]
        BY <1>0, <1>5, <2>3 DEF ChainTypeOK
      <3>2. Kind(u) = "monitor" => generated'[RoundOf(u)] = generated[RoundOf(u)]
        <4>1. Kind(u) = "monitor" /\ Kind(t) = "monitor" => RoundOf(u) # RoundOf(t)
          BY <2>3, TaskNames
        <4> QED BY <1>0, <1>6, <4>1, TaskNames DEF ChainTypeOK
      <3> QED BY <2>1, <3>1, <3>2 DEF TypeInv, TaskOK
    <2> QED BY <2>2, <2>3
  <1> QED BY <1>2, <1>7, <1>8, TypePartsNext DEF TypeInv

LEMMA TaskStepTyped ==
    ASSUME TypeInv, NEW t \in Tasks, TaskStep(t)
    PROVE  TypeInv'
  <1>1. CASE HandlerStep(t)
    BY <1>1, HandleCommitTyped, HandleCosTyped, RejectCosTyped, SaveEntryTyped,
       DetermineRevealOrderTyped, StartSecretValueRequestsTyped,
       AcceptSecretValueTyped, ReadForSecretTyped, WriteSecretTyped,
       HandleSecretValueResponseTyped DEF TaskStep, HandlerStep
  <1>2. CASE PollRound(t)
    BY <1>2, PollRoundTyped DEF TaskStep
  <1>3. CASE RootStep(t)
    BY <1>3, CheckRootFlagTyped, SubmitRootTyped, SubmitRootFailsTyped,
       RootMinedTyped, ReadForFlagTyped, WriteFlagTyped DEF TaskStep, RootStep
  <1>4. CASE MonitorStep(t)
    BY <1>4, MonitorRequestsTyped, MonitorGeneratesTyped, TruncateForMarkTyped,
       WriteMarkTyped DEF TaskStep, MonitorStep
  <1>5. CASE TransactionFails(t)
    BY <1>5, TransactionFailsTyped DEF TaskStep
  <1> QED BY <1>1, <1>2, <1>3, <1>4, <1>5 DEF TaskStep

LEMMA StutterTyped ==
    ASSUME TypeInv, UNCHANGED vars
    PROVE  TypeInv'
  <1>1. ProtocolTypeOK'
    BY DEF vars, netVars, leaderVars, storeVars, taskVars, chainVars, TypeInv,
           ProtocolTypeOK, ChainTypeOK, RegularTypeOK, LeaderTypeOK
  <1>2. \A u \in Tasks : TaskOK(u)'
    BY DEF vars, leaderVars, taskVars, chainVars, TypeInv, TaskOK
  <1> QED BY <1>1, <1>2 DEF TypeInv

\* Saving a registration touches nothing but the registry.
LEMMA RegistryStepTyped ==
    ASSUME TypeInv, RegistryStep
    PROVE  TypeInv'
  <1>1. UNCHANGED <<netVars, commits, leaderVars, chainVars>>
    BY DEF RegistryStep
  <1>2. ProtocolTypeOK'
    BY <1>1 DEF netVars, leaderVars, storeVars, taskVars, chainVars, TypeInv,
                ProtocolTypeOK, ChainTypeOK, RegularTypeOK, LeaderTypeOK
  <1>3. \A u \in Tasks : TaskOK(u)'
    BY <1>1 DEF leaderVars, taskVars, chainVars, TypeInv, TaskOK
  <1> QED BY <1>2, <1>3 DEF TypeInv

LEMMA NextTyped ==
    ASSUME TypeInv, [Next]_vars
    PROVE  TypeInv'
  BY NodeStepTyped, OutsideStepTyped, TaskStepTyped, MineTyped, LoseTyped, CrashTyped,
     RegistryStepTyped, StutterTyped
  DEF Next, Restart

\* The registry by itself: what a handler will encode is a set of nodes, whatever
\* it loaded, and a restart leaves only what is in the file.
LEMMA RegistryTyped ==
    ASSUME RegistryTypeOK, [Next]_vars
    PROVE  RegistryTypeOK'
  <1>1. CASE UNCHANGED registryVars
    BY <1>1 DEF registryVars, RegistryTypeOK
  <1>2. CASE CreateRegistry
    <2>1. rewriting' \in SUBSET Nodes
      BY <1>2 DEF CreateRegistry, RegistryTypeOK
    <2>2. registrations' \in 0..MaxRegistrations
      BY <1>2, BoundsAssumption DEF CreateRegistry, RegistryTypeOK
    <2> QED BY <1>2, <2>1, <2>2 DEF CreateRegistry, RegistryTypeOK
  <1>3. CASE SaveRegistry
    BY <1>3 DEF SaveRegistry, RegistryTypeOK
  <1>4. CASE Crash
    BY <1>4 DEF Crash, RegistryTypeOK
  <1> QED BY <1>1, <1>2, <1>3, <1>4
          DEF Next, NodeStep, OutsideStep, TaskStep, Mine, RegistryStep, Lose, Restart, vars

\* The requests from outside: they are counted, and those before the root noted.
LEMMA OutsideTyped ==
    ASSUME OutsideTypeOK, [Next]_vars
    PROVE  OutsideTypeOK'
  <1>1. CASE UNCHANGED outsideVars
    BY <1>1 DEF outsideVars, OutsideTypeOK
  <1>2. ASSUME NEW n \in Nodes, NEW r \in Rounds, RequestFromOutside(n, r)
        PROVE  OutsideTypeOK'
    BY <1>2, BoundsAssumption DEF RequestFromOutside, OutsideTypeOK
  <1> QED BY <1>1, <1>2
          DEF Next, NodeStep, OutsideStep, TaskStep, Mine, RegistryStep, Lose, Restart, vars

\* A round that was asked about early stays noted.
LEMMA EarlyGrows ==
    ASSUME [Next]_vars
    PROVE  early \subseteq early'
  BY DEF Next, NodeStep, OutsideStep, RequestFromOutside, TaskStep, Mine, RegistryStep,
         Lose, Restart, vars, outsideVars

\* TypeInv holds in every reachable state, for all values of the constants.
THEOREM TypeInvariant == Spec => []TypeInv
  <1>1. Init => TypeInv
    BY InitTyped
  <1>2. TypeInv /\ [Next]_vars => TypeInv'
    BY NextTyped
  <1> QED BY <1>1, <1>2, PTL DEF Spec

\* Every variable of the protocol keeps its type; in particular a round's
\* random number is generated at most MaxGenerated times because only its
\* monitor sends generateRandomNumber and waits for one transaction at a time.
THEOREM TypeCorrect == Spec => []TypeOK
  <1>1. Init => RegistryTypeOK /\ OutsideTypeOK
    BY RegisteredAssumption, BoundsAssumption
    DEF Init, RegistryInit, RegistryTypeOK, OutsideTypeOK
  <1>2. RegistryTypeOK /\ [Next]_vars => RegistryTypeOK'
    BY RegistryTyped
  <1>3. OutsideTypeOK /\ [Next]_vars => OutsideTypeOK'
    BY OutsideTyped
  <1>4. TypeInv /\ RegistryTypeOK /\ OutsideTypeOK => TypeOK
    BY DEF TypeInv, TypeOK
  <1> QED BY <1>1, <1>2, <1>3, <1>4, TypeInvariant, PTL DEF Spec

=============================================================================
