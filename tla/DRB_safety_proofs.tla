-------------------------- MODULE DRB_safety_proofs --------------------------
(***************************************************************************)
(* Commit before reveal: what the system may know of a round, and what the *)
(* leader may have recorded, while the round has no root on chain.  For    *)
(* every value of the constants.                                           *)
(***************************************************************************)
EXTENDS DRB_proofs

(***************************************************************************)
(* While a round has no root on chain, nothing in the system knows more of *)
(* it than cvs values, and, when somebody else than the leader has asked   *)
(* for a secret of it, secrets that the leader files away.                 *)
(* CommitBeforeReveal itself is not inductive: a task may carry an old     *)
(* copy of leader_commits.json, and the flags decide what the monitor      *)
(* does, so the invariant also speaks of what tasks hold, of where they    *)
(* can be and of the flags.                                                *)
(***************************************************************************)
Sealed(e, r) ==
    e.cos = NoValue /\ ~e.rootDone /\ (e.secret # NoValue => r \in early)

SealedIn(store, r) == \A n \in Nodes : Sealed(store[r][n], r)

Holding   == {"save", "flagWrite", "secretWrite", "generated", "markWrite"}
SecretPCs == {"load", "secretWrite", "secretNext"}

InboxSealed(r) ==
    \A m \in inbox : m.round = r =>
        m.type # "cos" /\ (m.type \in {"request", "secret"} => r \in early)
StoresSealed(r) == SealedIn(mem, r) /\ SealedIn(disk, r)
FilesSealed(r) == \A t \in Tasks : pc[t] \in Holding => SealedIn(file[t], r)

QuietTask(t) ==
    /\ pc[t] \in {"idle", "save", "root", "leaves", "submitted"} \cup SecretPCs
    /\ Kind(t) \in {"cos", "monitor"} => pc[t] = "idle"
    /\ Kind(t) = "secret" =>
          pc[t] = "idle" \/ (pc[t] \in SecretPCs /\ RoundOf(t) \in early)
    /\ entry[t] # NoValue => Sealed(entry[t], RoundOf(t))
    /\ txs[t].status = "pending" => Kind(t) # "monitor"
    /\ txs[t].status # "ok"
TasksQuiet(r) == \A t \in Tasks : RoundOf(t) = r => QuietTask(t)

SealedRound(r) == InboxSealed(r) /\ StoresSealed(r) /\ FilesSealed(r) /\ TasksQuiet(r)

SealInv == \A r \in Rounds : chainRoot[r] = NoValue => SealedRound(r)

-----------------------------------------------------------------------------
LEMMA SealedUpdate ==
    ASSUME NEW s \in Store, NEW q \in Rounds, NEW n \in Nodes, NEW e \in Entry,
           NEW r \in Rounds, SealedIn(s, r), q = r => Sealed(e, r)
    PROVE  SealedIn([s EXCEPT ![q][n] = e], r)
  BY DEF SealedIn, Store

LEMMA NoStoreSealed ==
    ASSUME NEW r \in Rounds
    PROVE  SealedIn(NoStore, r)
  BY DEF SealedIn, Sealed, NoStore, NoEntry

LEMMA MarkedSealed ==
    ASSUME NEW s \in Store, NEW q \in Rounds, NEW r \in Rounds, SealedIn(s, r)
    PROVE  SealedIn(Marked(s, q), r)
  <1>1. ASSUME NEW n \in Nodes
        PROVE  Sealed(Marked(s, q)[r][n], r)
    <2>1. Sealed(s[r][n], r) /\ s[r][n] \in Entry
      BY StoreValues DEF SealedIn
    <2>2. Sealed([s[r][n] EXCEPT !.rngDone = TRUE], r)
      BY <2>1 DEF Sealed, Entry
    <2>3. Marked(s, q)[r][n] \in {s[r][n], [s[r][n] EXCEPT !.rngDone = TRUE]}
      BY DEF Marked, Store
    <2> QED BY <2>1, <2>2, <2>3
  <1> QED BY <1>1 DEF SealedIn

\* A root on chain is never taken away, so a round sealed after a step was
\* sealed before it.
LEMMA RootStays ==
    ASSUME TypeInv, [Next]_vars, NEW r \in Rounds, chainRoot'[r] = NoValue
    PROVE  chainRoot[r] = NoValue
  <1>1. CASE UNCHANGED chainRoot
    BY <1>1
  <1>2. ASSUME NEW t \in Tasks, Mine(t), ~UNCHANGED chainRoot
        PROVE  chainRoot[r] = NoValue
    <2>1. MineRoot(t, Awaited(t))
      BY <1>2 DEF Mine, MineRandom, GenerateRandomNumber, MineRevert, ReplaceTx
    <2>2. chainRoot' = [chainRoot EXCEPT ![RoundOf(t)] = txs[t].words]
          /\ txs[t].words \in Seq(CvsSet)
      BY <2>1 DEF MineRoot, SubmitMerkleRoot, TypeInv, TaskOK
    <2> QED BY <2>2, TaskNames, NoValueAssumption
    DEF TypeInv, ProtocolTypeOK, ChainTypeOK
  <1>3. ASSUME NEW t \in Tasks, TaskStep(t)
        PROVE  UNCHANGED chainRoot
    BY <1>3 DEF TaskStep, HandlerStep, RootStep, MonitorStep, HandleCommit, HandleCos,
           RejectCos, SaveEntry, DetermineRevealOrder, StartSecretValueRequests,
           AcceptSecretValue, ReadForSecret, WriteSecret, HandleSecretValueResponse,
           PollRound, CheckRootFlag, SubmitRoot, SubmitRootFails, RootMined,
           ReadForFlag, WriteFlag, MonitorRequests, MonitorGenerates, TruncateForMark,
           WriteMark, TransactionFails, chainVars
  <1>4. ASSUME NEW n \in Nodes, NEW q \in Rounds, NodeStep(n, q) \/ OutsideStep(n, q)
        PROVE  UNCHANGED chainRoot
    BY <1>4 DEF NodeStep, SendCommit, SendCos, HandleSecretValueRequest, OutsideStep,
                RequestFromOutside, chainVars
  <1>5. Lose \/ Restart \/ RegistryStep \/ UNCHANGED vars => UNCHANGED chainRoot
    BY DEF Lose, LoseMessage, Restart, Crash, RegistryStep, vars, chainVars
  <1> QED BY <1>1, <1>2, <1>3, <1>4, <1>5 DEF Next

\* A step of task t leaves the others as they were.
Alone(t) ==
    \A u \in Tasks \ {t} : /\ pc'[u] = pc[u] /\ file'[u] = file[u]
                         /\ entry'[u] = entry[u] /\ txs'[u] = txs[u]

LEMMA TasksSealed ==
    ASSUME TypeInv, NEW t \in Tasks, Alone(t), UNCHANGED early, NEW r \in Rounds,
           FilesSealed(r), pc'[t] \in Holding => SealedIn(file'[t], r),
           TasksQuiet(r), RoundOf(t) = r => QuietTask(t)'
    PROVE  FilesSealed(r)' /\ TasksQuiet(r)'
  <1>1. FilesSealed(r)'
    BY DEF Alone, FilesSealed, SealedIn, Sealed
  <1>2. TasksQuiet(r)'
    BY DEF Alone, TasksQuiet, QuietTask, Sealed
  <1> QED BY <1>1, <1>2

LEMMA HandleCommitSealed ==
    ASSUME TypeInv, SealInv, NEW t \in Tasks, HandleCommit(t), UNCHANGED early,
           NEW r \in Rounds, chainRoot[r] = NoValue
    PROVE  SealedRound(r)'
  <1>0. InboxSealed(r) /\ StoresSealed(r) /\ FilesSealed(r) /\ TasksQuiet(r)
    BY DEF SealInv, SealedRound
  <1>t. /\ mem \in Store /\ disk \in Store /\ pc \in [Tasks -> PCs]
        /\ file \in [Tasks -> Store \cup {NoValue}]
        /\ entry \in [Tasks -> Entry \cup {NoValue}]
        /\ txs \in [Tasks -> Transaction] /\ RoundOf(t) \in Rounds
    BY TaskNames DEF TypeInv, ProtocolTypeOK, ChainTypeOK, LeaderTypeOK
  <1>a. RoundOf(t) = r => Sealed(entry'[t], r)
    <2>1. NodeOf(t) \in Nodes
      BY TaskNames DEF HandleCommit
    <2>2. mem[RoundOf(t)][NodeOf(t)] \in Entry
      BY <1>t, <2>1, StoreValues
    <2>3. RoundOf(t) = r => Sealed(mem[RoundOf(t)][NodeOf(t)], r)
      BY <1>0, <2>1 DEF StoresSealed, SealedIn, Sealed
    <2>4. \E v : entry'[t] \in {mem[RoundOf(t)][NodeOf(t)],
                               [mem[RoundOf(t)][NodeOf(t)] EXCEPT !.cvs = v]}
      BY <1>t DEF HandleCommit
    <2> QED BY <2>2, <2>3, <2>4 DEF Sealed, Entry
  <1>1. InboxSealed(r)'
    BY <1>0 DEF HandleCommit, InboxSealed
  <1>2. StoresSealed(r)'
    BY <1>0 DEF HandleCommit, storeVars, StoresSealed, SealedIn, Sealed
  <1>3. Alone(t)
    BY <1>t DEF HandleCommit, Goto, Alone, chainVars
  <1>4. pc'[t] \in Holding => SealedIn(file'[t], r)
    BY <1>0, <1>t DEF HandleCommit, StoresSealed, SealedIn, Sealed
  <1>5. RoundOf(t) = r => QuietTask(t)'
    BY <1>0, <1>t, <1>a
    DEF HandleCommit, TasksQuiet, QuietTask, SecretPCs, Sealed, Goto, chainVars
  <1> QED BY <1>0, <1>1, <1>2, <1>3, <1>4, <1>5, TasksSealed DEF SealedRound

LEMMA HandleCosSealed ==
    ASSUME TypeInv, SealInv, NEW t \in Tasks, HandleCos(t), UNCHANGED early,
           NEW r \in Rounds, chainRoot[r] = NoValue
    PROVE  SealedRound(r)'
  <1>0. InboxSealed(r) /\ StoresSealed(r) /\ FilesSealed(r) /\ TasksQuiet(r)
    BY DEF SealInv, SealedRound
  <1>t. /\ mem \in Store /\ disk \in Store /\ pc \in [Tasks -> PCs]
        /\ file \in [Tasks -> Store \cup {NoValue}]
        /\ entry \in [Tasks -> Entry \cup {NoValue}]
        /\ txs \in [Tasks -> Transaction] /\ RoundOf(t) \in Rounds
    BY TaskNames DEF TypeInv, ProtocolTypeOK, ChainTypeOK, LeaderTypeOK
  <1>a. RoundOf(t) # r
    BY <1>0 DEF HandleCos, InboxSealed
  <1>1. InboxSealed(r)'
    BY <1>0 DEF HandleCos, InboxSealed
  <1>2. StoresSealed(r)'
    BY <1>0 DEF HandleCos, storeVars, StoresSealed, SealedIn, Sealed
  <1>3. Alone(t)
    BY <1>t DEF HandleCos, Goto, Alone, chainVars
  <1>4. pc'[t] \in Holding => SealedIn(file'[t], r)
    BY <1>0, <1>t DEF HandleCos, StoresSealed, SealedIn, Sealed
  <1>5. RoundOf(t) = r => QuietTask(t)'
    BY <1>0, <1>t, <1>a DEF HandleCos
  <1> QED BY <1>0, <1>1, <1>2, <1>3, <1>4, <1>5, TasksSealed DEF SealedRound

LEMMA RejectCosSealed ==
    ASSUME TypeInv, SealInv, NEW t \in Tasks, RejectCos(t), UNCHANGED early,
           NEW r \in Rounds, chainRoot[r] = NoValue
    PROVE  SealedRound(r)'
  <1>0. InboxSealed(r) /\ StoresSealed(r) /\ FilesSealed(r) /\ TasksQuiet(r)
    BY DEF SealInv, SealedRound
  <1>1. InboxSealed(r)'
    BY <1>0 DEF RejectCos, InboxSealed
  <1>2. StoresSealed(r)' /\ FilesSealed(r)' /\ TasksQuiet(r)'
    BY <1>0 DEF RejectCos, leaderVars, storeVars, taskVars, chainVars, StoresSealed,
                FilesSealed, SealedIn, Sealed, TasksQuiet, QuietTask, SecretPCs
  <1> QED BY <1>1, <1>2 DEF SealedRound

LEMMA SaveEntrySealed ==
    ASSUME TypeInv, SealInv, NEW t \in Tasks, SaveEntry(t), UNCHANGED early,
           NEW r \in Rounds, chainRoot[r] = NoValue
    PROVE  SealedRound(r)'
  <1>0. InboxSealed(r) /\ StoresSealed(r) /\ FilesSealed(r) /\ TasksQuiet(r)
    BY DEF SealInv, SealedRound
  <1>t. /\ mem \in Store /\ disk \in Store /\ pc \in [Tasks -> PCs]
        /\ file \in [Tasks -> Store \cup {NoValue}]
        /\ entry \in [Tasks -> Entry \cup {NoValue}]
        /\ txs \in [Tasks -> Transaction] /\ RoundOf(t) \in Rounds
    BY TaskNames DEF TypeInv, ProtocolTypeOK, ChainTypeOK, LeaderTypeOK
  <1>a. NodeOf(t) \in Nodes /\ file[t] \in Store /\ entry[t] \in Entry
    BY TaskNames DEF SaveEntry, TypeInv, TaskOK
  <1>b. SealedIn(file[t], r) /\ (RoundOf(t) = r => Sealed(entry[t], r))
    <2>1. entry[t] # NoValue
      BY <1>a, EntryAssumption
    <2> QED BY <1>0, <2>1
    DEF SaveEntry, FilesSealed, Holding, TasksQuiet, QuietTask, SecretPCs
  <1>c. /\ SealedIn([file[t] EXCEPT ![RoundOf(t)][NodeOf(t)] = entry[t]], r)
        /\ SealedIn([mem EXCEPT ![RoundOf(t)][NodeOf(t)] = entry[t]], r)
    BY <1>0, <1>t, <1>a, <1>b, SealedUpdate DEF StoresSealed
  <1>d. /\ pc'[t] \in {"root", "reveal", "idle"}
        /\ Kind(t) # "cos" => pc'[t] \in {"root", "idle"}
    BY <1>t DEF SaveEntry, Goto
  <1>1. InboxSealed(r)'
    BY <1>0 DEF SaveEntry, InboxSealed, netVars
  <1>2. StoresSealed(r)'
    BY <1>0, <1>c DEF SaveEntry, StoresSealed, SealedIn, Sealed
  <1>3. Alone(t)
    BY <1>t DEF SaveEntry, Goto, Alone, chainVars
  <1>4. pc'[t] \in Holding => SealedIn(file'[t], r)
    BY <1>0, <1>t, <1>d DEF Holding
  <1>5. RoundOf(t) = r => QuietTask(t)'
    BY <1>0, <1>t, <1>d
    DEF SaveEntry, TasksQuiet, QuietTask, SecretPCs, Sealed, chainVars
  <1> QED BY <1>0, <1>1, <1>2, <1>3, <1>4, <1>5, TasksSealed DEF SealedRound

LEMMA PollRoundSealed ==
    ASSUME TypeInv, SealInv, NEW t \in Tasks, PollRound(t), UNCHANGED early,
           NEW r \in Rounds, chainRoot[r] = NoValue
    PROVE  SealedRound(r)'
  <1>0. InboxSealed(r) /\ StoresSealed(r) /\ FilesSealed(r) /\ TasksQuiet(r)
    BY DEF SealInv, SealedRound
  <1>t. /\ mem \in Store /\ disk \in Store /\ pc \in [Tasks -> PCs]
        /\ file \in [Tasks -> Store \cup {NoValue}]
        /\ entry \in [Tasks -> Entry \cup {NoValue}]
        /\ txs \in [Tasks -> Transaction] /\ RoundOf(t) \in Rounds
    BY TaskNames DEF TypeInv, ProtocolTypeOK, ChainTypeOK, LeaderTypeOK
  <1>1. InboxSealed(r)'
    BY <1>0 DEF PollRound, InboxSealed, netVars
  <1>2. StoresSealed(r)'
    BY <1>0 DEF PollRound, storeVars, StoresSealed, SealedIn, Sealed
  <1>3. Alone(t)
    BY <1>t DEF PollRound, Goto, Alone, chainVars
  <1>4. pc'[t] \in Holding => SealedIn(file'[t], r)
    BY <1>0, <1>t DEF PollRound, FilesSealed, Holding, Goto
  <1>5. RoundOf(t) = r => QuietTask(t)'
    BY <1>0, <1>t
    DEF PollRound, TasksQuiet, QuietTask, SecretPCs, Sealed, Goto, chainVars
  <1> QED BY <1>0, <1>1, <1>2, <1>3, <1>4, <1>5, TasksSealed DEF SealedRound

LEMMA CheckRootFlagSealed ==
    ASSUME TypeInv, SealInv, NEW t \in Tasks, CheckRootFlag(t), UNCHANGED early,
           NEW r \in Rounds, chainRoot[r] = NoValue
    PROVE  SealedRound(r)'
  <1>0. InboxSealed(r) /\ StoresSealed(r) /\ FilesSealed(r) /\ TasksQuiet(r)
    BY DEF SealInv, SealedRound
  <1>t. /\ mem \in Store /\ disk \in Store /\ pc \in [Tasks -> PCs]
        /\ file \in [Tasks -> Store \cup {NoValue}]
        /\ entry \in [Tasks -> Entry \cup {NoValue}]
        /\ txs \in [Tasks -> Transaction] /\ RoundOf(t) \in Rounds
    BY TaskNames DEF TypeInv, ProtocolTypeOK, ChainTypeOK, LeaderTypeOK
  <1>a. pc'[t] \in {"relock", "idle", "leaves"}
    BY <1>t DEF CheckRootFlag, Goto, AfterRoot
  <1>b. Kind(t) # "cos" => pc'[t] # "relock"
    BY <1>t DEF CheckRootFlag, Goto, AfterRoot
  <1>c. RoundOf(t) = r => Kind(t) \notin {"cos", "secret", "monitor"}
    BY <1>0 DEF CheckRootFlag, TasksQuiet, QuietTask, SecretPCs
  <1>1. InboxSealed(r)'
    BY <1>0 DEF CheckRootFlag, InboxSealed, netVars
  <1>2. StoresSealed(r)'
    BY <1>0 DEF CheckRootFlag, storeVars, StoresSealed, SealedIn, Sealed
  <1>3. Alone(t)
    BY <1>t DEF CheckRootFlag, Goto, Alone, chainVars
  <1>4. pc'[t] \in Holding => SealedIn(file'[t], r)
    BY <1>0, <1>t, <1>a DEF Holding
  <1>5. RoundOf(t) = r => QuietTask(t)'
    BY <1>0, <1>t, <1>a, <1>b, <1>c
    DEF CheckRootFlag, TasksQuiet, QuietTask, SecretPCs, Sealed, chainVars
  <1> QED BY <1>0, <1>1, <1>2, <1>3, <1>4, <1>5, TasksSealed DEF SealedRound

LEMMA SubmitRootSealed ==
    ASSUME TypeInv, SealInv, NEW t \in Tasks, SubmitRoot(t), UNCHANGED early,
           NEW r \in Rounds, chainRoot[r] = NoValue
    PROVE  SealedRound(r)'
  <1>0. InboxSealed(r) /\ StoresSealed(r) /\ FilesSealed(r) /\ TasksQuiet(r)
    BY DEF SealInv, SealedRound
  <1>t. /\ mem \in Store /\ disk \in Store /\ pc \in [Tasks -> PCs]
        /\ file \in [Tasks -> Store \cup {NoValue}]
        /\ entry \in [Tasks -> Entry \cup {NoValue}]
        /\ txs \in [Tasks -> Transaction] /\ RoundOf(t) \in Rounds
    BY TaskNames DEF TypeInv, ProtocolTypeOK, ChainTypeOK, LeaderTypeOK
  <1>a. Kind(t) # "monitor"
    BY DEF SubmitRoot, TypeInv, TaskOK
  <1>1. InboxSealed(r)'
    BY <1>0 DEF SubmitRoot, InboxSealed, netVars
  <1>2. StoresSealed(r)'
    BY <1>0 DEF SubmitRoot, storeVars, StoresSealed, SealedIn, Sealed
  <1>3. Alone(t)
    BY <1>t DEF SubmitRoot, Goto, Alone, Send
  <1>4. pc'[t] \in Holding => SealedIn(file'[t], r)
    BY <1>0, <1>t DEF SubmitRoot, FilesSealed, Holding, Goto
  <1>5. RoundOf(t) = r => QuietTask(t)'
    BY <1>0, <1>t, <1>a
    DEF SubmitRoot, TasksQuiet, QuietTask, SecretPCs, Sealed, Goto, Send
  <1> QED BY <1>0, <1>1, <1>2, <1>3, <1>4, <1>5, TasksSealed DEF SealedRound

LEMMA SubmitRootFailsSealed ==
    ASSUME TypeInv, SealInv, NEW t \in Tasks, SubmitRootFails(t), UNCHANGED early,
           NEW r \in Rounds, chainRoot[r] = NoValue
    PROVE  SealedRound(r)'
  <1>0. InboxSealed(r) /\ StoresSealed(r) /\ FilesSealed(r) /\ TasksQuiet(r)
    BY DEF SealInv, SealedRound
  <1>t. /\ mem \in Store /\ disk \in Store /\ pc \in [Tasks -> PCs]
        /\ file \in [Tasks -> Store \cup {NoValue}]
        /\ entry \in [Tasks -> Entry \cup {NoValue}]
        /\ txs \in [Tasks -> Transaction] /\ RoundOf(t) \in Rounds
    BY TaskNames DEF TypeInv, ProtocolTypeOK, ChainTypeOK, LeaderTypeOK
  <1>a. pc'[t] \in {"relock", "idle"}
    BY <1>t DEF SubmitRootFails, Goto, AfterRoot
  <1>b. Kind(t) # "cos" => pc'[t] # "relock"
    BY <1>t DEF SubmitRootFails, Goto, AfterRoot
  <1>c. RoundOf(t) = r => Kind(t) \notin {"cos", "secret", "monitor"}
    BY <1>0 DEF SubmitRootFails, TasksQuiet, QuietTask, SecretPCs
  <1>1. InboxSealed(r)'
    BY <1>0 DEF SubmitRootFails, InboxSealed, netVars
  <1>2. StoresSealed(r)'
    BY <1>0 DEF SubmitRootFails, storeVars, StoresSealed, SealedIn, Sealed
  <1>3. Alone(t)
    BY <1>t DEF SubmitRootFails, Goto, Alone, chainVars
  <1>4. pc'[t] \in Holding => SealedIn(file'[t], r)
    BY <1>0, <1>t, <1>a DEF Holding
  <1>5. RoundOf(t) = r => QuietTask(t)'
    BY <1>0, <1>t, <1>a, <1>b, <1>c
    DEF SubmitRootFails, TasksQuiet, QuietTask, SecretPCs, Sealed, chainVars
  <1> QED BY <1>0, <1>1, <1>2, <1>3, <1>4, <1>5, TasksSealed DEF SealedRound

LEMMA RootMinedSealed ==
    ASSUME TypeInv, SealInv, NEW t \in Tasks, RootMined(t), UNCHANGED early,
           NEW r \in Rounds, chainRoot[r] = NoValue
    PROVE  SealedRound(r)'
  <1>0. InboxSealed(r) /\ StoresSealed(r) /\ FilesSealed(r) /\ TasksQuiet(r)
    BY DEF SealInv, SealedRound
  <1>t. /\ mem \in Store /\ disk \in Store /\ pc \in [Tasks -> PCs]
        /\ file \in [Tasks -> Store \cup {NoValue}]
        /\ entry \in [Tasks -> Entry \cup {NoValue}]
        /\ txs \in [Tasks -> Transaction] /\ RoundOf(t) \in Rounds
    BY TaskNames DEF TypeInv, ProtocolTypeOK, ChainTypeOK, LeaderTypeOK
  <1>a. RoundOf(t) # r
    BY <1>0 DEF RootMined, TasksQuiet, QuietTask, SecretPCs
  <1>1. InboxSealed(r)'
    BY <1>0 DEF RootMined, InboxSealed, netVars
  <1>2. StoresSealed(r)'
    BY <1>0 DEF RootMined, storeVars, StoresSealed, SealedIn, Sealed
  <1>3. Alone(t)
    BY <1>t DEF RootMined, Goto, Alone
  <1>4. pc'[t] \in Holding => SealedIn(file'[t], r)
    BY <1>0, <1>t DEF RootMined, FilesSealed, Holding, Goto
  <1>5. RoundOf(t) = r => QuietTask(t)'
    BY <1>0, <1>t, <1>a
  <1> QED BY <1>0, <1>1, <1>2, <1>3, <1>4, <1>5, TasksSealed DEF SealedRound

LEMMA ReadForFlagSealed ==
    ASSUME TypeInv, SealInv, NEW t \in Tasks, ReadForFlag(t), UNCHANGED early,
           NEW r \in Rounds, chainRoot[r] = NoValue
    PROVE  SealedRound(r)'
  <1>0. InboxSealed(r) /\ StoresSealed(r) /\ FilesSealed(r) /\ TasksQuiet(r)
    BY DEF SealInv, SealedRound
  <1>t. /\ mem \in Store /\ disk \in Store /\ pc \in [Tasks -> PCs]
        /\ file \in [Tasks -> Store \cup {NoValue}]
        /\ entry \in [Tasks -> Entry \cup {NoValue}]
        /\ txs \in [Tasks -> Transaction] /\ RoundOf(t) \in Rounds
    BY TaskNames DEF TypeInv, ProtocolTypeOK, ChainTypeOK, LeaderTypeOK
  <1>a. RoundOf(t) # r
    BY <1>0 DEF ReadForFlag, TasksQuiet, QuietTask, SecretPCs
  <1>1. InboxSealed(r)'
    BY <1>0 DEF ReadForFlag, InboxSealed, netVars
  <1>2. StoresSealed(r)'
    BY <1>0 DEF ReadForFlag, storeVars, StoresSealed, SealedIn, Sealed
  <1>3. Alone(t)
    BY <1>t DEF ReadForFlag, Goto, Alone, chainVars
  <1>4. pc'[t] \in Holding => SealedIn(file'[t], r)
    BY <1>0, <1>t DEF ReadForFlag, StoresSealed
  <1>5. RoundOf(t) = r => QuietTask(t)'
    BY <1>0, <1>t, <1>a
  <1> QED BY <1>0, <1>1, <1>2, <1>3, <1>4, <1>5, TasksSealed DEF SealedRound

LEMMA WriteFlagSealed ==
    ASSUME TypeInv, SealInv, NEW t \in Tasks, WriteFlag(t), UNCHANGED early,
           NEW r \in Rounds, chainRoot[r] = NoValue
    PROVE  SealedRound(r)'
  <1>0. InboxSealed(r) /\ StoresSealed(r) /\ FilesSealed(r) /\ TasksQuiet(r)
    BY DEF SealInv, SealedRound
  <1>t. /\ mem \in Store /\ disk \in Store /\ pc \in [Tasks -> PCs]
        /\ file \in [Tasks -> Store \cup {NoValue}]
        /\ entry \in [Tasks -> Entry \cup {NoValue}]
        /\ txs \in [Tasks -> Transaction] /\ RoundOf(t) \in Rounds
    BY TaskNames DEF TypeInv, ProtocolTypeOK, ChainTypeOK, LeaderTypeOK
  <1> DEFINE flagged(n) == [mem[RoundOf(t)][n] EXCEPT !.rootDone = TRUE]
  <1>a. RoundOf(t) # r
    BY <1>0 DEF WriteFlag, TasksQuiet, QuietTask, SecretPCs
  <1>b. PICK n \in todo[t] :
           /\ disk' = [file[t] EXCEPT ![RoundOf(t)][n] = flagged(n)]
           /\ mem' = [mem EXCEPT ![RoundOf(t)][n] = flagged(n)]
           /\ Goto(t, IF todo[t] = {n} THEN AfterRoot(t) ELSE "flag")
    BY DEF WriteFlag
  <1>c. /\ n \in Nodes /\ file[t] \in Store /\ SealedIn(file[t], r)
        /\ flagged(n) \in Entry
    <2>1. n \in Nodes
      BY DEF TypeInv, ProtocolTypeOK, LeaderTypeOK
    <2>2. file[t] \in Store
      BY DEF WriteFlag, TypeInv, TaskOK
    <2>3. SealedIn(file[t], r)
      BY <1>0 DEF WriteFlag, FilesSealed, Holding
    <2> QED BY <2>1, <2>2, <2>3, <1>t, StoreValues, EntryUpdates
  <1> HIDE DEF flagged
  <1>d. SealedIn(disk', r) /\ SealedIn(mem', r)
    <2>1. RoundOf(t) \in Rounds /\ mem \in Store /\ SealedIn(mem, r)
      BY <1>0, <1>t DEF StoresSealed
    <2>2. /\ SealedIn([file[t] EXCEPT ![RoundOf(t)][n] = flagged(n)], r)
          /\ SealedIn([mem EXCEPT ![RoundOf(t)][n] = flagged(n)], r)
      BY <1>a, <1>c, <2>1, SealedUpdate
    <2> QED BY <1>b, <2>2
  <1>e. pc'[t] \in {"relock", "idle", "flag"}
    BY <1>t, <1>b DEF Goto, AfterRoot
  <1>1. InboxSealed(r)'
    BY <1>0 DEF WriteFlag, InboxSealed, netVars
  <1>2. StoresSealed(r)'
    BY <1>0, <1>d DEF StoresSealed, SealedIn, Sealed
  <1>3. Alone(t)
    BY <1>t DEF WriteFlag, Goto, Alone, chainVars
  <1>4. pc'[t] \in Holding => SealedIn(file'[t], r)
    BY <1>0, <1>t, <1>e DEF Holding
  <1>5. RoundOf(t) = r => QuietTask(t)'
    BY <1>0, <1>t, <1>a
  <1> QED BY <1>0, <1>1, <1>2, <1>3, <1>4, <1>5, TasksSealed DEF SealedRound

LEMMA DetermineRevealOrderSealed ==
    ASSUME TypeInv, SealInv, NEW t \in Tasks, DetermineRevealOrder(t), UNCHANGED early,
           NEW r \in Rounds, chainRoot[r] = NoValue
    PROVE  SealedRound(r)'
  <1>0. InboxSealed(r) /\ StoresSealed(r) /\ FilesSealed(r) /\ TasksQuiet(r)
    BY DEF SealInv, SealedRound
  <1>t. /\ mem \in Store /\ disk \in Store /\ pc \in [Tasks -> PCs]
        /\ file \in [Tasks -> Store \cup {NoValue}]
        /\ entry \in [Tasks -> Entry \cup {NoValue}]
        /\ txs \in [Tasks -> Transaction] /\ RoundOf(t) \in Rounds
    BY TaskNames DEF TypeInv, ProtocolTypeOK, ChainTypeOK, LeaderTypeOK
  <1>a. RoundOf(t) # r
    BY <1>0 DEF DetermineRevealOrder, TasksQuiet, QuietTask, SecretPCs
  <1>1. InboxSealed(r)'
    BY <1>0 DEF DetermineRevealOrder, InboxSealed, netVars
  <1>2. StoresSealed(r)'
    BY <1>0 DEF DetermineRevealOrder, storeVars, StoresSealed, SealedIn, Sealed
  <1>3. Alone(t)
    BY <1>t DEF DetermineRevealOrder, Goto, Alone, chainVars
  <1>4. pc'[t] \in Holding => SealedIn(file'[t], r)
    BY <1>0, <1>t DEF DetermineRevealOrder, FilesSealed, Holding, Goto
  <1>5. RoundOf(t) = r => QuietTask(t)'
    BY <1>0, <1>t, <1>a
  <1> QED BY <1>0, <1>1, <1>2, <1>3, <1>4, <1>5, TasksSealed DEF SealedRound

LEMMA StartSecretValueRequestsSealed ==
    ASSUME TypeInv, SealInv, NEW t \in Tasks, StartSecretValueRequests(t),
           UNCHANGED early,
           NEW r \in Rounds, chainRoot[r] = NoValue
    PROVE  SealedRound(r)'
  <1>0. InboxSealed(r) /\ StoresSealed(r) /\ FilesSealed(r) /\ TasksQuiet(r)
    BY DEF SealInv, SealedRound
  <1>t. /\ mem \in Store /\ disk \in Store /\ pc \in [Tasks -> PCs]
        /\ file \in [Tasks -> Store \cup {NoValue}]
        /\ entry \in [Tasks -> Entry \cup {NoValue}]
        /\ txs \in [Tasks -> Transaction] /\ RoundOf(t) \in Rounds
    BY TaskNames DEF TypeInv, ProtocolTypeOK, ChainTypeOK, LeaderTypeOK
  <1>a. RoundOf(t) # r
    BY <1>0 DEF StartSecretValueRequests, TasksQuiet, QuietTask, SecretPCs
  <1>b. \A m \in inbox' : m \in inbox \/ m.round = RoundOf(t)
    BY DEF StartSecretValueRequests, AskNext, SendSecretRequest, netVars, Msg
  <1>1. InboxSealed(r)'
    BY <1>0, <1>a, <1>b DEF InboxSealed
  <1>2. StoresSealed(r)'
    BY <1>0 DEF StartSecretValueRequests, storeVars, StoresSealed, SealedIn, Sealed
  <1>3. Alone(t)
    BY <1>t DEF StartSecretValueRequests, Goto, Alone, chainVars
  <1>4. pc'[t] \in Holding => SealedIn(file'[t], r)
    BY <1>0, <1>t DEF StartSecretValueRequests, FilesSealed, Holding, Goto
  <1>5. RoundOf(t) = r => QuietTask(t)'
    BY <1>0, <1>t, <1>a
  <1> QED BY <1>0, <1>1, <1>2, <1>3, <1>4, <1>5, TasksSealed DEF SealedRound

LEMMA HandleSecretValueResponseSealed ==
    ASSUME TypeInv, SealInv, NEW t \in Tasks, HandleSecretValueResponse(t),
           UNCHANGED early,
           NEW r \in Rounds, chainRoot[r] = NoValue
    PROVE  SealedRound(r)'
  <1>0. InboxSealed(r) /\ StoresSealed(r) /\ FilesSealed(r) /\ TasksQuiet(r)
    BY DEF SealInv, SealedRound
  <1>t. /\ mem \in Store /\ disk \in Store /\ pc \in [Tasks -> PCs]
        /\ file \in [Tasks -> Store \cup {NoValue}]
        /\ entry \in [Tasks -> Entry \cup {NoValue}]
        /\ txs \in [Tasks -> Transaction] /\ RoundOf(t) \in Rounds
    BY TaskNames DEF TypeInv, ProtocolTypeOK, ChainTypeOK, LeaderTypeOK
  <1>a. RoundOf(t) = r => r \in early /\ QuietTask(t)
    BY <1>0, TaskNames
    DEF HandleSecretValueResponse, TasksQuiet, QuietTask, TypeInv, TaskOK
  <1>b. \A m \in inbox' : m \in inbox \/ (m.round = RoundOf(t) /\ m.type = "request")
    BY DEF HandleSecretValueResponse, AskNext, SendSecretRequest, netVars, Msg
  <1>1. InboxSealed(r)'
    BY <1>0, <1>a, <1>b DEF InboxSealed
  <1>2. StoresSealed(r)'
    BY <1>0 DEF HandleSecretValueResponse, storeVars, StoresSealed, SealedIn, Sealed
  <1>3. Alone(t)
    BY <1>t DEF HandleSecretValueResponse, Goto, Alone, chainVars
  <1>4. pc'[t] \in Holding => SealedIn(file'[t], r)
    BY <1>0, <1>t DEF HandleSecretValueResponse, FilesSealed, Holding, Goto
  <1>5. RoundOf(t) = r => QuietTask(t)'
    BY <1>0, <1>t, <1>a
    DEF HandleSecretValueResponse, QuietTask, SecretPCs, Sealed, Goto, chainVars
  <1> QED BY <1>0, <1>1, <1>2, <1>3, <1>4, <1>5, TasksSealed DEF SealedRound

LEMMA AcceptSecretValueSealed ==
    ASSUME TypeInv, SealInv, NEW t \in Tasks, AcceptSecretValue(t), UNCHANGED early,
           NEW r \in Rounds, chainRoot[r] = NoValue
    PROVE  SealedRound(r)'
  <1>0. InboxSealed(r) /\ StoresSealed(r) /\ FilesSealed(r) /\ TasksQuiet(r)
    BY DEF SealInv, SealedRound
  <1>t. /\ mem \in Store /\ disk \in Store /\ pc \in [Tasks -> PCs]
        /\ file \in [Tasks -> Store \cup {NoValue}]
        /\ entry \in [Tasks -> Entry \cup {NoValue}]
        /\ txs \in [Tasks -> Transaction] /\ RoundOf(t) \in Rounds
    BY TaskNames DEF TypeInv, ProtocolTypeOK, ChainTypeOK, LeaderTypeOK
  <1>a. RoundOf(t) = r => r \in early /\ QuietTask(t) /\ Sealed(entry'[t], r)
    <2>1. NodeOf(t) \in Nodes
      BY TaskNames DEF AcceptSecretValue
    <2>2. disk[RoundOf(t)][NodeOf(t)] \in Entry
      BY <1>t, <2>1, StoreValues
    <2>3. RoundOf(t) = r => Sealed(disk[RoundOf(t)][NodeOf(t)], r)
      BY <1>0, <2>1 DEF StoresSealed, SealedIn
    <2>4. \E v : entry'[t] = [disk[RoundOf(t)][NodeOf(t)] EXCEPT !.secret = v]
      BY <1>t DEF AcceptSecretValue
    <2>5. RoundOf(t) = r => r \in early
      BY <1>0 DEF AcceptSecretValue, InboxSealed
    <2>6. RoundOf(t) = r => QuietTask(t)
      BY <1>0 DEF TasksQuiet
    <2> QED BY <2>2, <2>3, <2>4, <2>5, <2>6 DEF Sealed, Entry
  <1>1. InboxSealed(r)'
    BY <1>0 DEF AcceptSecretValue, InboxSealed, netVars
  <1>2. StoresSealed(r)'
    BY <1>0 DEF AcceptSecretValue, storeVars, StoresSealed, SealedIn, Sealed
  <1>3. Alone(t)
    BY <1>t DEF AcceptSecretValue, Goto, Alone, chainVars
  <1>4. pc'[t] \in Holding => SealedIn(file'[t], r)
    BY <1>0, <1>t DEF AcceptSecretValue, FilesSealed, Holding, Goto
  <1>5. RoundOf(t) = r => QuietTask(t)'
    BY <1>0, <1>t, <1>a
    DEF AcceptSecretValue, QuietTask, SecretPCs, Sealed, Goto, chainVars
  <1> QED BY <1>0, <1>1, <1>2, <1>3, <1>4, <1>5, TasksSealed DEF SealedRound

LEMMA ReadForSecretSealed ==
    ASSUME TypeInv, SealInv, NEW t \in Tasks, ReadForSecret(t), UNCHANGED early,
           NEW r \in Rounds, chainRoot[r] = NoValue
    PROVE  SealedRound(r)'
  <1>0. InboxSealed(r) /\ StoresSealed(r) /\ FilesSealed(r) /\ TasksQuiet(r)
    BY DEF SealInv, SealedRound
  <1>t. /\ mem \in Store /\ disk \in Store /\ pc \in [Tasks -> PCs]
        /\ file \in [Tasks -> Store \cup {NoValue}]
        /\ entry \in [Tasks -> Entry \cup {NoValue}]
        /\ txs \in [Tasks -> Transaction] /\ RoundOf(t) \in Rounds
    BY TaskNames DEF TypeInv, ProtocolTypeOK, ChainTypeOK, LeaderTypeOK
  <1>a. RoundOf(t) = r => r \in early /\ QuietTask(t)
    BY <1>0, TaskNames DEF ReadForSecret, TasksQuiet, QuietTask, TypeInv, TaskOK
  <1>1. InboxSealed(r)'
    BY <1>0 DEF ReadForSecret, InboxSealed, netVars
  <1>2. StoresSealed(r)'
    BY <1>0 DEF ReadForSecret, storeVars, StoresSealed, SealedIn, Sealed
  <1>3. Alone(t)
    BY <1>t DEF ReadForSecret, Goto, Alone, chainVars
  <1>4. pc'[t] \in Holding => SealedIn(file'[t], r)
    BY <1>0, <1>t DEF ReadForSecret, StoresSealed
  <1>5. RoundOf(t) = r => QuietTask(t)'
    BY <1>0, <1>t, <1>a
    DEF ReadForSecret, QuietTask, SecretPCs, Sealed, Goto, chainVars
  <1> QED BY <1>0, <1>1, <1>2, <1>3, <1>4, <1>5, TasksSealed DEF SealedRound

LEMMA WriteSecretSealed ==
    ASSUME TypeInv, SealInv, NEW t \in Tasks, WriteSecret(t), UNCHANGED early,
           NEW r \in Rounds, chainRoot[r] = NoValue
    PROVE  SealedRound(r)'
  <1>0. InboxSealed(r) /\ StoresSealed(r) /\ FilesSealed(r) /\ TasksQuiet(r)
    BY DEF SealInv, SealedRound
  <1>t. /\ mem \in Store /\ disk \in Store /\ pc \in [Tasks -> PCs]
        /\ file \in [Tasks -> Store \cup {NoValue}]
        /\ entry \in [Tasks -> Entry \cup {NoValue}]
        /\ txs \in [Tasks -> Transaction] /\ RoundOf(t) \in Rounds
    BY TaskNames DEF TypeInv, ProtocolTypeOK, ChainTypeOK, LeaderTypeOK
  <1>a. RoundOf(t) = r => r \in early /\ QuietTask(t)
    BY <1>0, TaskNames DEF WriteSecret, TasksQuiet, QuietTask, TypeInv, TaskOK
  <1>b. SealedIn(disk', r)
    <2>1. NodeOf(t) \in Nodes /\ file[t] \in Store /\ entry[t] \in Entry
      BY TaskNames DEF WriteSecret, TypeInv, TaskOK
    <2>2. SealedIn(file[t], r)
      BY <1>0 DEF WriteSecret, FilesSealed, Holding
    <2>3. RoundOf(t) = r => Sealed(entry[t], r)
      BY <1>a, <2>1, EntryAssumption DEF QuietTask
    <2> QED BY <1>t, <2>1, <2>2, <2>3, SealedUpdate DEF WriteSecret
  <1>1. InboxSealed(r)'
    BY <1>0 DEF WriteSecret, InboxSealed, netVars
  <1>2. StoresSealed(r)'
    BY <1>0, <1>b DEF WriteSecret, StoresSealed, SealedIn, Sealed
  <1>3. Alone(t)
    BY <1>t DEF WriteSecret, Goto, Alone, chainVars
  <1>4. pc'[t] \in Holding => SealedIn(file'[t], r)
    BY <1>0, <1>t DEF WriteSecret, FilesSealed, Holding, Goto
  <1>5. RoundOf(t) = r => QuietTask(t)'
    BY <1>0, <1>t, <1>a
    DEF WriteSecret, QuietTask, SecretPCs, Sealed, Goto, chainVars
  <1> QED BY <1>0, <1>1, <1>2, <1>3, <1>4, <1>5, TasksSealed DEF SealedRound

LEMMA MonitorRequestsSealed ==
    ASSUME TypeInv, SealInv, NEW t \in Tasks, MonitorRequests(t), UNCHANGED early,
           NEW r \in Rounds, chainRoot[r] = NoValue
    PROVE  SealedRound(r)'
  <1>0. InboxSealed(r) /\ StoresSealed(r) /\ FilesSealed(r) /\ TasksQuiet(r)
    BY DEF SealInv, SealedRound
  <1>t. /\ mem \in Store /\ disk \in Store /\ pc \in [Tasks -> PCs]
        /\ file \in [Tasks -> Store \cup {NoValue}]
        /\ entry \in [Tasks -> Entry \cup {NoValue}]
        /\ txs \in [Tasks -> Transaction] /\ RoundOf(t) \in Rounds
    BY TaskNames DEF TypeInv, ProtocolTypeOK, ChainTypeOK, LeaderTypeOK
  <1>a. RoundOf(t) # r
    BY <1>0 DEF MonitorRequests, RoundOpen, StoresSealed, SealedIn, Sealed, Present
  <1>b. \A m \in inbox' : m \in inbox \/ m.round = RoundOf(t)
    BY DEF MonitorRequests, SendSecretRequest, netVars, Msg
  <1>1. InboxSealed(r)'
    BY <1>0, <1>a, <1>b DEF InboxSealed
  <1>2. StoresSealed(r)'
    BY <1>0 DEF MonitorRequests, storeVars, StoresSealed, SealedIn, Sealed
  <1>3. Alone(t)
    BY <1>t DEF MonitorRequests, Goto, Alone, chainVars, taskVars
  <1>4. pc'[t] \in Holding => SealedIn(file'[t], r)
    BY <1>0, <1>t DEF MonitorRequests, taskVars, FilesSealed, SealedIn, Sealed
  <1>5. RoundOf(t) = r => QuietTask(t)'
    BY <1>0, <1>t, <1>a
  <1> QED BY <1>0, <1>1, <1>2, <1>3, <1>4, <1>5, TasksSealed DEF SealedRound

LEMMA MonitorGeneratesSealed ==
    ASSUME TypeInv, SealInv, NEW t \in Tasks, MonitorGenerates(t), UNCHANGED early,
           NEW r \in Rounds, chainRoot[r] = NoValue
    PROVE  SealedRound(r)'
  <1>0. InboxSealed(r) /\ StoresSealed(r) /\ FilesSealed(r) /\ TasksQuiet(r)
    BY DEF SealInv, SealedRound
  <1>t. /\ mem \in Store /\ disk \in Store /\ pc \in [Tasks -> PCs]
        /\ file \in [Tasks -> Store \cup {NoValue}]
        /\ entry \in [Tasks -> Entry \cup {NoValue}]
        /\ txs \in [Tasks -> Transaction] /\ RoundOf(t) \in Rounds
    BY TaskNames DEF TypeInv, ProtocolTypeOK, ChainTypeOK, LeaderTypeOK
  <1>a. RoundOf(t) # r
    BY <1>0 DEF MonitorGenerates, RoundOpen, StoresSealed, SealedIn, Sealed, Present
  <1>1. InboxSealed(r)'
    BY <1>0 DEF MonitorGenerates, InboxSealed, netVars
  <1>2. StoresSealed(r)'
    BY <1>0 DEF MonitorGenerates, storeVars, StoresSealed, SealedIn, Sealed
  <1>3. Alone(t)
    BY <1>t DEF MonitorGenerates, Goto, Alone, Send
  <1>4. pc'[t] \in Holding => SealedIn(file'[t], r)
    BY <1>0, <1>t DEF MonitorGenerates, StoresSealed
  <1>5. RoundOf(t) = r => QuietTask(t)'
    BY <1>0, <1>t, <1>a
  <1> QED BY <1>0, <1>1, <1>2, <1>3, <1>4, <1>5, TasksSealed DEF SealedRound

LEMMA TruncateForMarkSealed ==
    ASSUME TypeInv, SealInv, NEW t \in Tasks, TruncateForMark(t), UNCHANGED early,
           NEW r \in Rounds, chainRoot[r] = NoValue
    PROVE  SealedRound(r)'
  <1>0. InboxSealed(r) /\ StoresSealed(r) /\ FilesSealed(r) /\ TasksQuiet(r)
    BY DEF SealInv, SealedRound
  <1>t. /\ mem \in Store /\ disk \in Store /\ pc \in [Tasks -> PCs]
        /\ file \in [Tasks -> Store \cup {NoValue}]
        /\ entry \in [Tasks -> Entry \cup {NoValue}]
        /\ txs \in [Tasks -> Transaction] /\ RoundOf(t) \in Rounds
    BY TaskNames DEF TypeInv, ProtocolTypeOK, ChainTypeOK, LeaderTypeOK
  <1>a. RoundOf(t) # r
    BY <1>0 DEF TruncateForMark, TasksQuiet, QuietTask, SecretPCs
  <1>1. InboxSealed(r)'
    BY <1>0 DEF TruncateForMark, InboxSealed, netVars
  <1>2. StoresSealed(r)'
    BY <1>0, NoStoreSealed DEF TruncateForMark, StoresSealed, SealedIn, Sealed
  <1>3. Alone(t)
    BY <1>t DEF TruncateForMark, Goto, Alone
  <1>4. pc'[t] \in Holding => SealedIn(file'[t], r)
    BY <1>0, <1>t DEF TruncateForMark, FilesSealed, Holding
  <1>5. RoundOf(t) = r => QuietTask(t)'
    BY <1>0, <1>t, <1>a
  <1> QED BY <1>0, <1>1, <1>2, <1>3, <1>4, <1>5, TasksSealed DEF SealedRound

LEMMA WriteMarkSealed ==
    ASSUME TypeInv, SealInv, NEW t \in Tasks, WriteMark(t), UNCHANGED early,
           NEW r \in Rounds, chainRoot[r] = NoValue
    PROVE  SealedRound(r)'
  <1>0. InboxSealed(r) /\ StoresSealed(r) /\ FilesSealed(r) /\ TasksQuiet(r)
    BY DEF SealInv, SealedRound
  <1>t. /\ mem \in Store /\ disk \in Store /\ pc \in [Tasks -> PCs]
        /\ file \in [Tasks -> Store \cup {NoValue}]
        /\ entry \in [Tasks -> Entry \cup {NoValue}]
        /\ txs \in [Tasks -> Transaction] /\ RoundOf(t) \in Rounds
    BY TaskNames DEF TypeInv, ProtocolTypeOK, ChainTypeOK, LeaderTypeOK
  <1>a. RoundOf(t) # r
    BY <1>0 DEF WriteMark, TasksQuiet, QuietTask, SecretPCs
  <1>b. SealedIn(disk', r)
    <2>1. file[t] \in Store
      BY DEF WriteMark, TypeInv, TaskOK
    <2>2. SealedIn(file[t], r)
      BY <1>0 DEF WriteMark, FilesSealed, Holding
    <2> QED BY <1>t, <2>1, <2>2, MarkedSealed DEF WriteMark
  <1>1. InboxSealed(r)'
    BY <1>0 DEF WriteMark, InboxSealed, netVars
  <1>2. StoresSealed(r)'
    BY <1>0, <1>b DEF WriteMark, StoresSealed, SealedIn, Sealed
  <1>3. Alone(t)
    BY <1>t DEF WriteMark, Goto, Alone, chainVars
  <1>4. pc'[t] \in Holding => SealedIn(file'[t], r)
    BY <1>0, <1>t DEF WriteMark, FilesSealed, Holding, Goto
  <1>5. RoundOf(t) = r => QuietTask(t)'
    BY <1>0, <1>t, <1>a
  <1> QED BY <1>0, <1>1, <1>2, <1>3, <1>4, <1>5, TasksSealed DEF SealedRound

LEMMA TransactionFailsSealed ==
    ASSUME TypeInv, SealInv, NEW t \in Tasks, TransactionFails(t), UNCHANGED early,
           NEW r \in Rounds, chainRoot[r] = NoValue
    PROVE  SealedRound(r)'
  <1>0. InboxSealed(r) /\ StoresSealed(r) /\ FilesSealed(r) /\ TasksQuiet(r)
    BY DEF SealInv, SealedRound
  <1>t. /\ mem \in Store /\ disk \in Store /\ pc \in [Tasks -> PCs]
        /\ file \in [Tasks -> Store \cup {NoValue}]
        /\ entry \in [Tasks -> Entry \cup {NoValue}]
        /\ txs \in [Tasks -> Transaction] /\ RoundOf(t) \in Rounds
    BY TaskNames DEF TypeInv, ProtocolTypeOK, ChainTypeOK, LeaderTypeOK
  <1>a. pc'[t] \in {"relock", "idle"}
    BY <1>t DEF TransactionFails, Goto, AfterRoot
  <1>b. Kind(t) # "cos" => pc'[t] # "relock"
    BY <1>t DEF TransactionFails, Goto, AfterRoot
  <1>c. RoundOf(t) = r => Kind(t) \notin {"cos", "secret", "monitor"}
    BY <1>0 DEF TransactionFails, WaitPCs, TasksQuiet, QuietTask, SecretPCs
  <1>d. txs'[t] \in {txs[t], NoTx}
    BY <1>t DEF TransactionFails
  <1>1. InboxSealed(r)'
    BY <1>0 DEF TransactionFails, InboxSealed, netVars
  <1>2. StoresSealed(r)'
    BY <1>0 DEF TransactionFails, storeVars, StoresSealed, SealedIn, Sealed
  <1>3. Alone(t)
    BY <1>t DEF TransactionFails, Goto, Alone
  <1>4. pc'[t] \in Holding => SealedIn(file'[t], r)
    BY <1>0, <1>t, <1>a DEF Holding
  <1>5. RoundOf(t) = r => QuietTask(t)'
    BY <1>0, <1>t, <1>a, <1>b, <1>c, <1>d
    DEF TransactionFails, TasksQuiet, QuietTask, SecretPCs, Sealed, NoTx
  <1> QED BY <1>0, <1>1, <1>2, <1>3, <1>4, <1>5, TasksSealed DEF SealedRound

LEMMA CrashSealed ==
    ASSUME TypeInv, SealInv, Crash, UNCHANGED early,
           NEW r \in Rounds, chainRoot[r] = NoValue
    PROVE  SealedRound(r)'
  <1>0. InboxSealed(r) /\ StoresSealed(r) /\ TasksQuiet(r)
    BY DEF SealInv, SealedRound
  <1>1. InboxSealed(r)'
    BY <1>0 DEF Crash, InboxSealed
  <1>2. StoresSealed(r)'
    BY <1>0, NoStoreSealed DEF Crash, StoresSealed, SealedIn, Sealed
  <1>3. FilesSealed(r)'
    BY DEF Crash, FilesSealed, Holding
  <1>4. TasksQuiet(r)'
    BY <1>0 DEF Crash, TasksQuiet, QuietTask, Sealed, NoTx
  <1> QED BY <1>1, <1>2, <1>3, <1>4 DEF SealedRound

\* Steps outside the leader: only what they send matters, or what is mined.
LEMMA LeaderIdleSealed ==
    ASSUME TypeInv, NEW r \in Rounds, StoresSealed(r), FilesSealed(r),
           UNCHANGED leaderVars, UNCHANGED early
    PROVE  StoresSealed(r)' /\ FilesSealed(r)'
  BY DEF leaderVars, storeVars, taskVars, StoresSealed, FilesSealed, SealedIn, Sealed

LEMMA NodeStepSealed ==
    ASSUME TypeInv, SealInv, NEW n \in Nodes, NEW q \in Rounds, NodeStep(n, q),
           UNCHANGED early, NEW r \in Rounds, chainRoot[r] = NoValue
    PROVE  SealedRound(r)'
  <1>0. InboxSealed(r) /\ StoresSealed(r) /\ FilesSealed(r) /\ TasksQuiet(r)
    BY DEF SealInv, SealedRound
  <1>1. UNCHANGED chainVars /\ UNCHANGED leaderVars
    BY DEF NodeStep, SendCommit, SendCos, HandleSecretValueRequest
  <1>2. InboxSealed(r)'
    <2>1. CASE SendCommit(n, q)
      BY <1>0, <2>1 DEF SendCommit, SendCommitToLeader, InboxSealed, Msg
    <2>2. CASE SendCos(n, q)
      BY <1>0, <2>2 DEF SendCos, SendCosToLeader, SubgraphShowsRoot, InboxSealed, Msg
    <2>3. CASE HandleSecretValueRequest(n, q)
      <3>1. q = r => r \in early
        BY <1>0, <2>3 DEF HandleSecretValueRequest, LoadCommitData, InboxSealed, Msg
      <3> QED BY <1>0, <2>3, <3>1
      DEF HandleSecretValueRequest, LoadCommitData, InboxSealed, Msg
    <2> QED BY <2>1, <2>2, <2>3 DEF NodeStep
  <1>3. TasksQuiet(r)'
    BY <1>0, <1>1 DEF chainVars, leaderVars, taskVars, TasksQuiet, QuietTask, Sealed
  <1> QED BY <1>0, <1>1, <1>2, <1>3, LeaderIdleSealed DEF SealedRound

\* A request from outside breaks the seal of no round that is not noted in early.
LEMMA OutsideStepSealed ==
    ASSUME TypeInv, SealInv, NEW n \in Nodes, NEW q \in Rounds, OutsideStep(n, q),
           NEW r \in Rounds, chainRoot[r] = NoValue
    PROVE  SealedRound(r)'
  <1>0. InboxSealed(r) /\ StoresSealed(r) /\ FilesSealed(r) /\ TasksQuiet(r)
    BY DEF SealInv, SealedRound
  <1>1. UNCHANGED chainVars /\ UNCHANGED leaderVars
    BY DEF OutsideStep, RequestFromOutside
  <1>2. early \subseteq early' /\ (q = r => r \in early')
    BY DEF OutsideStep, RequestFromOutside
  <1>3. InboxSealed(r)'
    BY <1>0, <1>2 DEF OutsideStep, RequestFromOutside, InboxSealed, Msg
  <1>4. StoresSealed(r)'
    BY <1>0, <1>1, <1>2 DEF leaderVars, storeVars, StoresSealed, SealedIn, Sealed
  <1>5. FilesSealed(r)'
    BY <1>0, <1>1, <1>2 DEF leaderVars, taskVars, FilesSealed, SealedIn, Sealed
  <1>6. TasksQuiet(r)'
    BY <1>0, <1>1, <1>2
    DEF chainVars, leaderVars, taskVars, TasksQuiet, QuietTask, Sealed
  <1> QED BY <1>3, <1>4, <1>5, <1>6 DEF SealedRound

LEMMA LoseSealed ==
    ASSUME TypeInv, SealInv, Lose, UNCHANGED early,
           NEW r \in Rounds, chainRoot[r] = NoValue
    PROVE  SealedRound(r)'
  <1>0. InboxSealed(r) /\ StoresSealed(r) /\ FilesSealed(r) /\ TasksQuiet(r)
    BY DEF SealInv, SealedRound
  <1>1. UNCHANGED chainVars /\ UNCHANGED leaderVars
    BY DEF Lose, LoseMessage
  <1>2. InboxSealed(r)'
    BY <1>0 DEF Lose, LoseMessage, InboxSealed
  <1>3. TasksQuiet(r)'
    BY <1>0, <1>1 DEF chainVars, leaderVars, taskVars, TasksQuiet, QuietTask, Sealed
  <1> QED BY <1>0, <1>1, <1>2, <1>3, LeaderIdleSealed DEF SealedRound

LEMMA RegistryStepSealed ==
    ASSUME TypeInv, SealInv, RegistryStep, UNCHANGED early,
           NEW r \in Rounds, chainRoot[r] = NoValue
    PROVE  SealedRound(r)'
  <1>0. InboxSealed(r) /\ StoresSealed(r) /\ FilesSealed(r) /\ TasksQuiet(r)
    BY DEF SealInv, SealedRound
  <1>1. UNCHANGED inbox /\ UNCHANGED leaderVars /\ UNCHANGED chainVars
    BY DEF RegistryStep, netVars
  <1>2. InboxSealed(r)' /\ TasksQuiet(r)'
    BY <1>0, <1>1
    DEF InboxSealed, chainVars, leaderVars, taskVars, TasksQuiet, QuietTask, Sealed
  <1> QED BY <1>0, <1>1, <1>2, LeaderIdleSealed DEF SealedRound

LEMMA MineSealed ==
    ASSUME TypeInv, SealInv, NEW t \in Tasks, Mine(t),
           NEW r \in Rounds, chainRoot[r] = NoValue, chainRoot'[r] = NoValue
    PROVE  SealedRound(r)'
  <1>0. InboxSealed(r) /\ StoresSealed(r) /\ FilesSealed(r) /\ TasksQuiet(r)
    BY DEF SealInv, SealedRound
  <1>1. UNCHANGED inbox /\ UNCHANGED leaderVars
    BY DEF Mine, netVars
  <1>e. UNCHANGED early
    BY DEF Mine, outsideVars
  <1>2. InboxSealed(r)'
    BY <1>0, <1>1, <1>e DEF InboxSealed
  <1>3. RoundOf(t) = r => ReplaceTx(t, Awaited(t))
    <2>1. SUFFICES ASSUME RoundOf(t) = r, ~ReplaceTx(t, Awaited(t)) PROVE FALSE
      OBVIOUS
    <2>2. txs[t].status = "pending" /\ Kind(t) # "monitor"
      BY <1>0, <2>1 DEF Mine, MineRoot, MineRandom, MineRevert, TasksQuiet, QuietTask
    <2>3. chainRoot' = [chainRoot EXCEPT ![r] = txs[t].words]
      BY <2>1, <2>2 DEF Mine, MineRoot, SubmitMerkleRoot, MineRandom, MineRevert
    <2>4. txs[t].words \in Seq(CvsSet)
      BY <2>2 DEF TypeInv, TaskOK
    <2> QED BY <2>3, <2>4, NoValueAssumption DEF TypeInv, ProtocolTypeOK, ChainTypeOK
  <1>4. \A u \in Tasks \ {t} : txs'[u] = txs[u]
    BY DEF Mine, MineRoot, MineRandom, MineRevert, ReplaceTx, Receipt, TypeInv,
           ProtocolTypeOK, ChainTypeOK
  <1>r. RoundOf(t) = r => txs'[t].status \in {"none", "replaced"}
    BY <1>3 DEF ReplaceTx, Receipt, NoTx, TypeInv, ProtocolTypeOK, ChainTypeOK
  <1>5. TasksQuiet(r)'
    BY <1>0, <1>1, <1>e, <1>r, <1>4
    DEF leaderVars, taskVars, TasksQuiet, QuietTask, Sealed
  <1> QED BY <1>0, <1>1, <1>e, <1>2, <1>5, LeaderIdleSealed DEF SealedRound

LEMMA TaskStepSealed ==
    ASSUME TypeInv, SealInv, NEW t \in Tasks, TaskStep(t),
           NEW r \in Rounds, chainRoot[r] = NoValue
    PROVE  SealedRound(r)'
  <1> UNCHANGED early
    BY DEF TaskStep, outsideVars
  <1>1. CASE HandlerStep(t)
    BY <1>1, HandleCommitSealed, HandleCosSealed, RejectCosSealed, SaveEntrySealed,
       DetermineRevealOrderSealed, StartSecretValueRequestsSealed,
       AcceptSecretValueSealed, ReadForSecretSealed, WriteSecretSealed,
       HandleSecretValueResponseSealed DEF HandlerStep
  <1>2. CASE PollRound(t)
    BY <1>2, PollRoundSealed
  <1>3. CASE RootStep(t)
    BY <1>3, CheckRootFlagSealed, SubmitRootSealed, SubmitRootFailsSealed,
       RootMinedSealed, ReadForFlagSealed, WriteFlagSealed DEF RootStep
  <1>4. CASE MonitorStep(t)
    BY <1>4, MonitorRequestsSealed, MonitorGeneratesSealed, TruncateForMarkSealed,
       WriteMarkSealed DEF MonitorStep
  <1>5. CASE TransactionFails(t)
    BY <1>5, TransactionFailsSealed
  <1> QED BY <1>1, <1>2, <1>3, <1>4, <1>5 DEF TaskStep

LEMMA InitSealed == Init => SealInv
  <1> SUFFICES ASSUME Init, NEW r \in Rounds PROVE SealedRound(r)
    BY DEF SealInv
  <1>1. InboxSealed(r)
    BY DEF Init, InboxSealed
  <1>2. StoresSealed(r)
    BY NoStoreSealed DEF Init, LeaderInit, StoresSealed
  <1>3. FilesSealed(r)
    BY DEF Init, LeaderInit, FilesSealed, Holding
  <1>4. TasksQuiet(r)
    BY DEF Init, LeaderInit, ChainInit, NoTx, TasksQuiet, QuietTask, SecretPCs
  <1> QED BY <1>1, <1>2, <1>3, <1>4 DEF SealedRound

LEMMA NextSealed ==
    ASSUME TypeInv, SealInv, [Next]_vars
    PROVE  SealInv'
  <1> SUFFICES ASSUME NEW r \in Rounds, chainRoot'[r] = NoValue
               PROVE  SealedRound(r)'
    BY DEF SealInv
  <1>1. chainRoot[r] = NoValue
    BY RootStays
  <1>2. CASE UNCHANGED vars
    <2>1. SealedRound(r)
      BY <1>1 DEF SealInv
    <2> QED BY <1>2, <2>1
    DEF vars, netVars, outsideVars, leaderVars, storeVars, taskVars,
                              chainVars, SealedRound, InboxSealed, StoresSealed,
                              FilesSealed, SealedIn, Sealed, TasksQuiet, QuietTask
  <1>3. CASE Next
    <2>1. ASSUME NEW n \in Nodes, NEW q \in Rounds, NodeStep(n, q) \/ OutsideStep(n, q)
          PROVE  SealedRound(r)'
      BY <1>1, <2>1, NodeStepSealed, OutsideStepSealed DEF NodeStep, outsideVars
    <2>2. ASSUME NEW t \in Tasks, TaskStep(t) \/ Mine(t)
          PROVE  SealedRound(r)'
      BY <1>1, <2>2, TaskStepSealed, MineSealed
    <2>3. RegistryStep \/ Lose \/ Restart => SealedRound(r)'
      BY <1>1, RegistryStepSealed, LoseSealed, CrashSealed
      DEF RegistryStep, Lose, Restart, outsideVars
    <2> QED BY <1>3, <2>1, <2>2, <2>3 DEF Next
  <1> QED BY <1>2, <1>3

\* Until a round's root is on chain, nothing but cvs values of it has left a node,
\* reached a file or a task, and no flag says otherwise; the exception are its
\* secrets, once somebody other than the leader has asked for one of them.
THEOREM SealInvariant == Spec => []SealInv
  <1>1. TypeInv /\ SealInv /\ [Next]_vars => SealInv'
    BY NextSealed
  <1> QED BY <1>1, InitSealed, TypeInvariant, PTL DEF Spec

\* Commit before reveal, for any number of operators, rounds, handlers at work,
\* faults, restarts and requests from outside: no cos of a round leaves a node
\* before the round's commitments are fixed on chain, and no secret is asked for or
\* leaves one, except in a round in which somebody else than the leader asked.
THEOREM CommitThenReveal == Spec => []CommitBeforeReveal
  <1>1. ASSUME TypeInv, SealInv
        PROVE  CommitBeforeReveal
    <2>1. SUFFICES ASSUME NEW r \in Rounds, chainRoot[r] = NoValue
                   PROVE  ~CosShown(r) /\ (SecretShown(r) => r \in early)
      BY DEF CommitBeforeReveal
    <2>2. InboxSealed(r) /\ StoresSealed(r) /\ TasksQuiet(r)
      BY <1>1, <2>1 DEF SealInv, SealedRound
    <2>3. \A e \in Entries(r) : Sealed(e, r)
      BY <2>2 DEF Entries, StoresSealed, SealedIn, TasksQuiet, QuietTask
    <2>4. ~CosShown(r)
      BY <2>2, <2>3 DEF CosShown, InboxSealed, Sealed
    <2>5. SecretShown(r) => r \in early
      BY <2>2, <2>3 DEF SecretShown, InboxSealed, Sealed, TasksQuiet, QuietTask
    <2> QED BY <2>4, <2>5
  <1> QED BY <1>1, TypeInvariant, SealInvariant, PTL

=============================================================================
