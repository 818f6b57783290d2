--------------------------- MODULE DRB_data_proofs ---------------------------
(***************************************************************************)
(* What the leader's records hold, for every number of nodes, rounds,      *)
(* tasks, faults and restarts.  leader_commits.json is read and written as *)
(* a whole, partly without a lock, so an entry lives in several copies:    *)
(* the one in memory, the one in the file and those in what the tasks have *)
(* read or are about to write.  The first part says where the copies after *)
(* a step come from; every invariant below is about all copies.            *)
(***************************************************************************)
EXTENDS DRB_safety_proofs

\* Where a task has an entry it will write.
Writing == {"save", "load", "secretWrite"}

\* The copies of node n's entry of round r that are in the file, or in the hands
\* of a task that may write them to the file.
Kept(r, n) ==
    {disk[r][n]}
    \cup {file[t][r][n] : t \in {u \in Tasks : pc[u] \in Holding}}
    \cup {entry[t] : t \in {u \in Tasks : pc[u] \in Writing /\ RoundOf(u) = r
                                          /\ NodeOf(u) = n}}

\* What a handler makes of a message.
Received(e, r, n) ==
    \E m \in inbox :
        /\ m.round = r /\ m.node = n
        /\ \/ m.type = "cvs" /\ e = [mem[r][n] EXCEPT !.cvs = m.value]
           \/ m.type = "cvs" /\ e = mem[r][n] /\ e.cvs # NoValue
           \/ /\ m.type = "cos" /\ mem[r][n].cvs # NoValue
              /\ e = [mem[r][n] EXCEPT !.cos = m.value]
           \/ m.type = "secret" /\ e = [disk[r][n] EXCEPT !.secret = m.value]

\* What updateCommitDataAfterSubmit, markRoundCompleted and its os.Create leave.
FlaggedBy(t, e, r, n) ==
    /\ pc[t] = "flagWrite" /\ RoundOf(t) = r /\ n \in todo[t]
    /\ e = [mem[r][n] EXCEPT !.rootDone = TRUE]

MarkedBy(t, e, r, n) ==
    /\ pc[t] = "markWrite" /\ RoundOf(t) = r
    /\ \E f \in Kept(r, n) : f # NoEntry /\ e = [f EXCEPT !.rngDone = TRUE]

TruncatedBy(t, e) == pc[t] = "generated" /\ txs[t].status = "ok" /\ e = NoEntry

KeptOrigin(t, e, r, n) ==
    e \in Kept(r, n) \/ Received(e, r, n) \/ FlaggedBy(t, e, r, n)
    \/ MarkedBy(t, e, r, n) \/ TruncatedBy(t, e)

-----------------------------------------------------------------------------
LEMMA KeptCopies ==
    ASSUME NEW r, NEW n, NEW e
    PROVE  e \in Kept(r, n) <=>
              \/ e = disk[r][n]
              \/ \E u \in Tasks : pc[u] \in Holding /\ e = file[u][r][n]
              \/ \E u \in Tasks : /\ pc[u] \in Writing /\ RoundOf(u) = r
                                  /\ NodeOf(u) = n /\ e = entry[u]
  BY DEF Kept

LEMMA KeptCopiesNext ==
    ASSUME NEW r, NEW n, NEW e
    PROVE  e \in Kept(r, n)' <=>
              \/ e = disk'[r][n]
              \/ \E u \in Tasks : pc'[u] \in Holding /\ e = file'[u][r][n]
              \/ \E u \in Tasks : /\ pc'[u] \in Writing /\ RoundOf(u) = r
                                  /\ NodeOf(u) = n /\ e = entry'[u]
  BY DEF Kept

\* When one task moves, a copy that is not an old one is in the file or its own.
LEMMA KeptAlone ==
    ASSUME NEW t \in Tasks, Alone(t), NEW r, NEW n, NEW e, e \in Kept(r, n)'
    PROVE  \/ e \in Kept(r, n)
           \/ e = disk'[r][n]
           \/ pc'[t] \in Holding /\ e = file'[t][r][n]
           \/ /\ pc'[t] \in Writing /\ RoundOf(t) = r /\ NodeOf(t) = n
              /\ e = entry'[t]
  <1>1. CASE e = disk'[r][n]
    BY <1>1
  <1>2. ASSUME NEW u \in Tasks, pc'[u] \in Holding, e = file'[u][r][n], u # t
        PROVE  e \in Kept(r, n)
    <2>1. pc[u] \in Holding /\ e = file[u][r][n]
      BY <1>2 DEF Alone
    <2> QED BY <2>1, KeptCopies
  <1>3. ASSUME NEW u \in Tasks, pc'[u] \in Writing, RoundOf(u) = r, NodeOf(u) = n,
               e = entry'[u], u # t
        PROVE  e \in Kept(r, n)
    <2>1. pc[u] \in Writing /\ e = entry[u]
      BY <1>3 DEF Alone
    <2> QED BY <1>3, <2>1, KeptCopies
  <1> QED BY <1>1, <1>2, <1>3, KeptCopiesNext

LEMMA LeaderTyped ==
    ASSUME TypeInv
    PROVE  /\ mem \in Store /\ disk \in Store /\ pc \in [Tasks -> PCs]
           /\ file \in [Tasks -> Store \cup {NoValue}]
           /\ entry \in [Tasks -> Entry \cup {NoValue}]
           /\ todo \in [Tasks -> SUBSET Nodes]
           /\ txs \in [Tasks -> Transaction]
           /\ inbox \subseteq Message
  BY DEF TypeInv, ProtocolTypeOK, ChainTypeOK, LeaderTypeOK

\* Every copy is an entry.
LEMMA CopiesTyped ==
    ASSUME TypeInv, NEW r \in Rounds, NEW n \in Nodes
    PROVE  mem[r][n] \in Entry /\ disk[r][n] \in Entry /\ Kept(r, n) \subseteq Entry
  <1>1. mem[r][n] \in Entry /\ disk[r][n] \in Entry
    BY LeaderTyped, StoreValues
  <1>2. ASSUME NEW e \in Kept(r, n)
        PROVE  e \in Entry
    <2>1. CASE \E u \in Tasks : pc[u] \in Holding /\ e = file[u][r][n]
      BY <2>1, StoreValues DEF TypeInv, TaskOK, Holding
    <2>2. CASE \E u \in Tasks : pc[u] \in Writing /\ e = entry[u]
      BY <2>2 DEF TypeInv, TaskOK, Writing
    <2> QED BY <1>1, <2>1, <2>2, KeptCopies
  <1> QED BY <1>1, <1>2

\* Writing one entry into a store.
LEMMA StoreCell ==
    ASSUME NEW s \in Store, NEW q \in Rounds, NEW k \in Nodes, NEW e,
           NEW r \in Rounds, NEW n \in Nodes
    PROVE  [s EXCEPT ![q][k] = e][r][n] = IF r = q /\ n = k THEN e ELSE s[r][n]
  BY DEF Store

-----------------------------------------------------------------------------
(* The origin of copies, one lemma per action that makes any.              *)

\* The steps of task t that move no entry.
Idle(t) ==
    /\ UNCHANGED <<mem, disk>> /\ Alone(t)
    /\ pc'[t] \in Holding => pc[t] \in Holding /\ file'[t] = file[t]
    /\ pc'[t] \in Writing => pc[t] \in Writing /\ entry'[t] = entry[t]

LEMMA IdleOrigin ==
    ASSUME NEW t \in Tasks, Idle(t), NEW r, NEW n, NEW e, e \in Kept(r, n)'
    PROVE  e \in Kept(r, n)
  <1>1. CASE e = disk'[r][n]
    BY <1>1, KeptCopies DEF Idle
  <1>2. CASE pc'[t] \in Holding /\ e = file'[t][r][n]
    BY <1>2, KeptCopies DEF Idle
  <1>3. CASE pc'[t] \in Writing /\ RoundOf(t) = r /\ NodeOf(t) = n /\ e = entry'[t]
    BY <1>3, KeptCopies DEF Idle
  <1> QED BY <1>1, <1>2, <1>3, KeptAlone DEF Idle

IdleStep(t) ==
    \/ RejectCos(t) \/ PollRound(t) \/ CheckRootFlag(t) \/ SubmitRoot(t)
    \/ SubmitRootFails(t) \/ RootMined(t) \/ DetermineRevealOrder(t)
    \/ StartSecretValueRequests(t) \/ HandleSecretValueResponse(t)
    \/ MonitorRequests(t) \/ TransactionFails(t)

DataStep(t) ==
    \/ HandleCommit(t) \/ HandleCos(t) \/ SaveEntry(t) \/ ReadForFlag(t)
    \/ WriteFlag(t) \/ AcceptSecretValue(t) \/ ReadForSecret(t) \/ WriteSecret(t)
    \/ MonitorGenerates(t) \/ TruncateForMark(t) \/ WriteMark(t)

LEMMA StepKinds ==
    ASSUME NEW t, TaskStep(t)
    PROVE  IdleStep(t) \/ DataStep(t)
  BY DEF TaskStep, HandlerStep, RootStep, MonitorStep, IdleStep, DataStep

LEMMA IdleSteps ==
    ASSUME TypeInv, NEW t \in Tasks, IdleStep(t)
    PROVE  Idle(t)
  <1>t. pc \in [Tasks -> PCs] /\ txs \in [Tasks -> Transaction]
        /\ file \in [Tasks -> Store \cup {NoValue}] /\ todo \in [Tasks -> SUBSET Nodes]
    BY LeaderTyped
  <1>1. ASSUME NEW l, Goto(t, l), l \notin Holding \cup Writing, UNCHANGED <<mem, disk>>,
               \A u \in Tasks \ {t} : /\ file'[u] = file[u] /\ entry'[u] = entry[u]
                                      /\ txs'[u] = txs[u]
        PROVE  Idle(t)
    BY <1>t, <1>1 DEF Goto, Idle, Alone
  <1>2. ASSUME UNCHANGED <<mem, disk, taskVars, txs>>
        PROVE  Idle(t)
    BY <1>2 DEF taskVars, Idle, Alone
  <1> USE DEF Holding, Writing
  <1>3. CASE RejectCos(t) \/ MonitorRequests(t)
    BY <1>2, <1>3 DEF RejectCos, MonitorRequests, leaderVars, storeVars, chainVars
  <1>4. CASE PollRound(t)
    BY <1>1, <1>2, <1>4 DEF PollRound, chainVars, taskVars
  <1>5. CASE CheckRootFlag(t)
    BY <1>1, <1>5 DEF CheckRootFlag, AfterRoot, storeVars, chainVars
  <1>6. CASE SubmitRoot(t)
    BY <1>t, <1>1, <1>6 DEF SubmitRoot, Send, storeVars
  <1>7. CASE SubmitRootFails(t)
    BY <1>1, <1>7 DEF SubmitRootFails, AfterRoot, storeVars, chainVars
  <1>8. CASE RootMined(t)
    BY <1>t, <1>1, <1>8 DEF RootMined, storeVars
  <1>9. CASE DetermineRevealOrder(t)
    BY <1>1, <1>9 DEF DetermineRevealOrder, chainVars
  <1>10. CASE StartSecretValueRequests(t) \/ HandleSecretValueResponse(t)
    BY <1>1, <1>10 DEF StartSecretValueRequests, HandleSecretValueResponse, chainVars
  <1>11. CASE TransactionFails(t)
    BY <1>t, <1>1, <1>11 DEF TransactionFails, AfterRoot, storeVars
  <1> QED BY <1>3, <1>4, <1>5, <1>6, <1>7, <1>8, <1>9, <1>10, <1>11 DEF IdleStep

LEMMA HandleCommitOrigin ==
    ASSUME TypeInv, NEW t \in Tasks, HandleCommit(t), NEW r \in Rounds,
           NEW n \in Nodes, NEW e, e \in Kept(r, n)'
    PROVE  KeptOrigin(t, e, r, n)
  <1> DEFINE q == RoundOf(t)
             k == NodeOf(t)
  <1>1. Alone(t) /\ UNCHANGED disk /\ file'[t] = disk
    BY LeaderTyped DEF HandleCommit, Goto, Alone, chainVars, storeVars
  <1>2. ASSUME r = q, n = k, e = entry'[t]
        PROVE  Received(e, r, n)
    <2>1. PICK m \in inbox : /\ m.type = "cvs" /\ m.round = q /\ m.node = k
                             /\ entry' = [entry EXCEPT ![t] =
                                   IF mem[q][k].cvs = NoValue
                                   THEN [mem[q][k] EXCEPT !.cvs = m.value]
                                   ELSE mem[q][k]]
      BY DEF HandleCommit
    <2>2. entry'[t] = IF mem[q][k].cvs = NoValue
                      THEN [mem[q][k] EXCEPT !.cvs = m.value] ELSE mem[q][k]
      BY <2>1, LeaderTyped
    <2> QED BY <1>2, <2>1, <2>2 DEF Received
  <1> QED BY <1>1, <1>2, KeptAlone, KeptCopies DEF KeptOrigin

LEMMA HandleCosOrigin ==
    ASSUME TypeInv, NEW t \in Tasks, HandleCos(t), NEW r \in Rounds,
           NEW n \in Nodes, NEW e, e \in Kept(r, n)'
    PROVE  KeptOrigin(t, e, r, n)
  <1> DEFINE q == RoundOf(t)
             k == NodeOf(t)
  <1>1. Alone(t) /\ UNCHANGED disk /\ file'[t] = disk
    BY LeaderTyped DEF HandleCos, Goto, Alone, chainVars, storeVars
  <1>2. ASSUME r = q, n = k, e = entry'[t]
        PROVE  Received(e, r, n)
    <2>1. PICK m \in inbox : /\ m.type = "cos" /\ m.round = q /\ m.node = k
                             /\ mem[q][k].cvs # NoValue
                             /\ entry' = [entry EXCEPT ![t] = [mem[q][k] EXCEPT !.cos = m.value]]
      BY DEF HandleCos, CosAcceptable
    <2>2. entry'[t] = [mem[q][k] EXCEPT !.cos = m.value]
      BY <2>1, LeaderTyped
    <2> QED BY <1>2, <2>1, <2>2 DEF Received
  <1> QED BY <1>1, <1>2, KeptAlone, KeptCopies DEF KeptOrigin

LEMMA AcceptSecretValueOrigin ==
    ASSUME TypeInv, NEW t \in Tasks, AcceptSecretValue(t), NEW r \in Rounds,
           NEW n \in Nodes, NEW e, e \in Kept(r, n)'
    PROVE  KeptOrigin(t, e, r, n)
  <1> DEFINE q == RoundOf(t)
             k == NodeOf(t)
  <1>1. Alone(t) /\ UNCHANGED disk /\ pc'[t] = "load"
    BY LeaderTyped DEF AcceptSecretValue, Goto, Alone, chainVars, storeVars
  <1>2. ASSUME r = q, n = k, e = entry'[t]
        PROVE  Received(e, r, n)
    <2>1. PICK m \in inbox : /\ m.type = "secret" /\ m.round = q /\ m.node = k
                             /\ entry' = [entry EXCEPT ![t] = [disk[q][k] EXCEPT !.secret = m.value]]
      BY DEF AcceptSecretValue
    <2>2. entry'[t] = [disk[q][k] EXCEPT !.secret = m.value]
      BY <2>1, LeaderTyped
    <2> QED BY <1>2, <2>1, <2>2 DEF Received
  <1> QED BY <1>1, <1>2, KeptAlone, KeptCopies DEF KeptOrigin, Holding

\* The three reads of the file.
LEMMA ReadOrigin ==
    ASSUME TypeInv, NEW t \in Tasks,
           ReadForFlag(t) \/ ReadForSecret(t) \/ MonitorGenerates(t),
           NEW r \in Rounds, NEW n \in Nodes, NEW e, e \in Kept(r, n)'
    PROVE  KeptOrigin(t, e, r, n)
  <1>1. Alone(t) /\ UNCHANGED disk /\ file'[t] = disk
    BY LeaderTyped
   
    DEF ReadForFlag, ReadForSecret, MonitorGenerates, Send, Goto, Alone, chainVars, storeVars
  <1>2. pc'[t] \in Writing => pc[t] \in Writing /\ entry'[t] = entry[t]
    BY LeaderTyped DEF ReadForFlag, ReadForSecret, MonitorGenerates, Goto, Writing
  <1> QED BY <1>1, <1>2, KeptAlone, KeptCopies DEF KeptOrigin

\* Both writes of an entry a handler has made.
LEMMA WriteEntryOrigin ==
    ASSUME TypeInv, NEW t \in Tasks, SaveEntry(t) \/ WriteSecret(t),
           NEW r \in Rounds, NEW n \in Nodes, NEW e, e \in Kept(r, n)'
    PROVE  KeptOrigin(t, e, r, n)
  <1>1. pc[t] \in Holding /\ pc[t] \in Writing
    BY DEF SaveEntry, WriteSecret, Holding, Writing
  <1>2. Alone(t) /\ pc'[t] \notin Holding /\ pc'[t] \notin Writing
    BY LeaderTyped DEF SaveEntry, WriteSecret, Goto, Alone, chainVars, Holding, Writing
  <1>3. disk' = [file[t] EXCEPT ![RoundOf(t)][NodeOf(t)] = entry[t]]
    BY DEF SaveEntry, WriteSecret
  <1>4. file[t] \in Store /\ RoundOf(t) \in Rounds /\ NodeOf(t) \in Nodes
    BY <1>1, TaskNames DEF SaveEntry, WriteSecret, TypeInv, TaskOK
  <1>5. \/ disk'[r][n] = file[t][r][n]
        \/ disk'[r][n] = entry[t] /\ r = RoundOf(t) /\ n = NodeOf(t)
    BY <1>3, <1>4, StoreCell
  <1> QED BY <1>1, <1>2, <1>5, KeptAlone, KeptCopies DEF KeptOrigin

LEMMA WriteFlagOrigin ==
    ASSUME TypeInv, NEW t \in Tasks, WriteFlag(t), NEW r \in Rounds,
           NEW n \in Nodes, NEW e, e \in Kept(r, n)'
    PROVE  KeptOrigin(t, e, r, n)
  <1> DEFINE q == RoundOf(t)
  <1>1. PICK k \in todo[t] :
            /\ disk' = [file[t] EXCEPT ![q][k] = [mem[q][k] EXCEPT !.rootDone = TRUE]]
            /\ Goto(t, IF todo[t] = {k} THEN AfterRoot(t) ELSE "flag")
            /\ todo' = [todo EXCEPT ![t] = @ \ {k}]
    BY DEF WriteFlag
  <1>2. Alone(t) /\ pc'[t] \notin Holding /\ pc'[t] \notin Writing
    BY <1>1, LeaderTyped
    DEF WriteFlag, Goto, AfterRoot, Alone, chainVars, Holding, Writing
  <1>3. file[t] \in Store /\ q \in Rounds /\ k \in Nodes
    BY LeaderTyped, TaskNames DEF WriteFlag, TypeInv, TaskOK
  <1>4. \/ disk'[r][n] = file[t][r][n]
        \/ disk'[r][n] = [mem[q][k] EXCEPT !.rootDone = TRUE] /\ r = q /\ n = k
    BY <1>1, <1>3, StoreCell
  <1>5. pc[t] = "flagWrite" /\ pc[t] \in Holding
    BY DEF WriteFlag, Holding
  <1> QED BY <1>1, <1>2, <1>4, <1>5, KeptAlone, KeptCopies DEF KeptOrigin, FlaggedBy

LEMMA TruncateForMarkOrigin ==
    ASSUME TypeInv, NEW t \in Tasks, TruncateForMark(t), NEW r \in Rounds,
           NEW n \in Nodes, NEW e, e \in Kept(r, n)'
    PROVE  KeptOrigin(t, e, r, n)
  <1>1. Alone(t) /\ file'[t] = file[t] /\ pc'[t] = "markWrite" /\ pc[t] = "generated"
    BY LeaderTyped DEF TruncateForMark, Goto, Alone
  <1>2. disk'[r][n] = NoEntry /\ txs[t].status = "ok"
    BY DEF TruncateForMark, NoStore
  <1> QED BY <1>1, <1>2, KeptAlone, KeptCopies
  DEF KeptOrigin, TruncatedBy, Holding, Writing

LEMMA WriteMarkOrigin ==
    ASSUME TypeInv, NEW t \in Tasks, WriteMark(t), NEW r \in Rounds,
           NEW n \in Nodes, NEW e, e \in Kept(r, n)'
    PROVE  KeptOrigin(t, e, r, n)
  <1>1. Alone(t) /\ pc[t] = "markWrite" /\ pc[t] \in Holding /\ pc'[t] = "idle"
    BY LeaderTyped DEF WriteMark, Goto, Alone, chainVars, Holding
  <1>2. file[t] \in Store /\ file[t][r][n] \in Kept(r, n) /\ RoundOf(t) \in Rounds
    BY <1>1, KeptCopies, TaskNames DEF TypeInv, TaskOK
  <1>3. \/ disk'[r][n] = file[t][r][n]
        \/ /\ r = RoundOf(t) /\ file[t][r][n] # NoEntry
           /\ disk'[r][n] = [file[t][r][n] EXCEPT !.rngDone = TRUE]
    BY <1>2 DEF WriteMark, Marked, Present, Store
  <1>4. disk'[r][n] \in Kept(r, n) \/ MarkedBy(t, disk'[r][n], r, n)
    BY <1>1, <1>2, <1>3 DEF MarkedBy
  <1> QED BY <1>1, <1>4, KeptAlone DEF KeptOrigin, Holding, Writing

\* Every copy after a step of a task is a copy before it, or what the task has made
\* of a message, of the entry in memory or of a copy.
LEMMA KeptStep ==
    ASSUME TypeInv, NEW t \in Tasks, TaskStep(t), NEW r \in Rounds,
           NEW n \in Nodes, NEW e, e \in Kept(r, n)'
    PROVE  KeptOrigin(t, e, r, n)
  <1>1. CASE IdleStep(t)
    BY <1>1, IdleSteps, IdleOrigin DEF KeptOrigin
  <1>2. CASE DataStep(t)
    BY <1>2, HandleCommitOrigin, HandleCosOrigin, WriteEntryOrigin, ReadOrigin,
       WriteFlagOrigin, AcceptSecretValueOrigin, TruncateForMarkOrigin, WriteMarkOrigin
    DEF DataStep
  <1> QED BY <1>1, <1>2, StepKinds

\* The leader's memory changes by a handler's save and by the root's flags.
LEMMA MemStep ==
    ASSUME TypeInv, NEW t \in Tasks, TaskStep(t), NEW r \in Rounds, NEW n \in Nodes
    PROVE  \/ mem'[r][n] = mem[r][n]
           \/ /\ SaveEntry(t) /\ pc[t] = "save" /\ RoundOf(t) = r /\ NodeOf(t) = n
              /\ mem'[r][n] = entry[t]
           \/ FlaggedBy(t, mem'[r][n], r, n)
  <1>1. CASE SaveEntry(t)
    <2>1. RoundOf(t) \in Rounds /\ NodeOf(t) \in Nodes
      BY <1>1, TaskNames DEF SaveEntry, TypeInv, TaskOK
    <2>2. pc[t] = "save" /\ mem' = [mem EXCEPT ![RoundOf(t)][NodeOf(t)] = entry[t]]
      BY <1>1 DEF SaveEntry
    <2> QED BY <1>1, <2>1, <2>2, LeaderTyped, StoreCell
  <1>2. CASE WriteFlag(t)
    <2> DEFINE f(k) == [mem[RoundOf(t)][k] EXCEPT !.rootDone = TRUE]
    <2>1. PICK k \in todo[t] : mem' = [mem EXCEPT ![RoundOf(t)][k] = f(k)]
      BY <1>2 DEF WriteFlag
    <2>2. RoundOf(t) \in Rounds /\ k \in Nodes /\ pc[t] = "flagWrite"
      BY <1>2, LeaderTyped, TaskNames DEF WriteFlag
    <2>3. mem'[r][n] = IF r = RoundOf(t) /\ n = k THEN f(k) ELSE mem[r][n]
      <3>1. mem \in Store
        BY LeaderTyped
      <3> DEFINE g == f(k)
      <3>2. mem' = [mem EXCEPT ![RoundOf(t)][k] = g]
        BY <2>1
      <3> HIDE DEF g
      <3>3. mem'[r][n] = IF r = RoundOf(t) /\ n = k THEN g ELSE mem[r][n]
        BY <3>1, <3>2, <2>2, StoreCell
      <3> QED BY <3>3 DEF g
    <2> QED BY <2>1, <2>2, <2>3 DEF FlaggedBy
  <1>3. CASE IdleStep(t)
    BY <1>3, IdleSteps DEF Idle
  <1>4. CASE HandleCommit(t) \/ HandleCos(t) \/ AcceptSecretValue(t)
    BY <1>4 DEF HandleCommit, HandleCos, AcceptSecretValue, storeVars
  <1>5. CASE ReadForFlag(t) \/ ReadForSecret(t) \/ MonitorGenerates(t)
    BY <1>5 DEF ReadForFlag, ReadForSecret, MonitorGenerates, storeVars
  <1>6. CASE WriteSecret(t) \/ TruncateForMark(t) \/ WriteMark(t)
    BY <1>6 DEF WriteSecret, TruncateForMark, WriteMark
  <1> QED BY <1>1, <1>2, <1>3, <1>4, <1>5, <1>6, StepKinds DEF DataStep

-----------------------------------------------------------------------------
(* How a step of one task changes the program counters, the messages and   *)
(* the transactions.                                                       *)

LEMMA TaskAlone ==
    ASSUME TypeInv, NEW t \in Tasks, TaskStep(t)
    PROVE  Alone(t) /\ \A u \in Tasks \ {t} : todo'[u] = todo[u]
  <1>t. pc \in [Tasks -> PCs] /\ file \in [Tasks -> Store \cup {NoValue}]
        /\ entry \in [Tasks -> Entry \cup {NoValue}] /\ todo \in [Tasks -> SUBSET Nodes]
        /\ txs \in [Tasks -> Transaction]
    BY LeaderTyped
  <1> USE <1>t DEF Alone, Goto, chainVars
  <1>1. CASE HandleCommit(t) \/ HandleCos(t) \/ AcceptSecretValue(t)
    BY <1>1 DEF HandleCommit, HandleCos, AcceptSecretValue
  <1>2. CASE SaveEntry(t) \/ WriteSecret(t) \/ WriteMark(t)
    BY <1>2 DEF SaveEntry, WriteSecret, WriteMark
  <1>3. CASE ReadForFlag(t) \/ ReadForSecret(t)
    BY <1>3 DEF ReadForFlag, ReadForSecret
  <1>4. CASE MonitorGenerates(t)
    BY <1>4 DEF MonitorGenerates, Send
  <1>5. CASE WriteFlag(t)
    BY <1>5 DEF WriteFlag
  <1>6. CASE TruncateForMark(t) \/ RootMined(t) \/ TransactionFails(t)
    BY <1>6 DEF TruncateForMark, RootMined, TransactionFails
  <1>7. CASE RejectCos(t) \/ MonitorRequests(t)
    BY <1>7 DEF RejectCos, MonitorRequests, leaderVars, taskVars
  <1>8. CASE PollRound(t) \/ CheckRootFlag(t) \/ SubmitRootFails(t)
    BY <1>8 DEF PollRound, CheckRootFlag, SubmitRootFails
  <1>9. CASE SubmitRoot(t)
    BY <1>9 DEF SubmitRoot, Send
  <1>10. CASE DetermineRevealOrder(t) \/ StartSecretValueRequests(t)
              \/ HandleSecretValueResponse(t)
    BY <1>10
    DEF DetermineRevealOrder, StartSecretValueRequests, HandleSecretValueResponse
  <1> QED BY <1>1, <1>2, <1>3, <1>4, <1>5, <1>6, <1>7, <1>8, <1>9, <1>10
          DEF TaskStep, HandlerStep, RootStep, MonitorStep

\* Which action has brought a task where it is.
Arrived(t) ==
    /\ pc'[t] = "save" => HandleCommit(t) \/ HandleCos(t)
    /\ pc'[t] = "submitted" => SubmitRoot(t)
    /\ pc'[t] = "flag" => RootMined(t) \/ WriteFlag(t)
    /\ pc'[t] = "flagWrite" => ReadForFlag(t)
    /\ pc'[t] = "reveal" => SaveEntry(t)
    /\ pc'[t] = "start" => DetermineRevealOrder(t)
    /\ pc'[t] = "generated" => MonitorGenerates(t)
    /\ pc'[t] = "markWrite" => TruncateForMark(t)

LEMMA Arrivals ==
    ASSUME TypeInv, NEW t \in Tasks, TaskStep(t)
    PROVE  Arrived(t)
  <1>t. pc \in [Tasks -> PCs]
    BY LeaderTyped
  <1> USE <1>t DEF Arrived, Goto
  <1>1. CASE HandleCommit(t) \/ HandleCos(t) \/ AcceptSecretValue(t)
    BY <1>1 DEF HandleCommit, HandleCos, AcceptSecretValue
  <1>2. CASE SaveEntry(t) \/ WriteSecret(t) \/ WriteMark(t)
    BY <1>2 DEF SaveEntry, WriteSecret, WriteMark
  <1>3. CASE ReadForFlag(t) \/ ReadForSecret(t) \/ MonitorGenerates(t)
    BY <1>3 DEF ReadForFlag, ReadForSecret, MonitorGenerates
  <1>4. CASE WriteFlag(t) \/ TransactionFails(t)
    BY <1>4 DEF WriteFlag, TransactionFails, AfterRoot
  <1>5. CASE TruncateForMark(t) \/ RootMined(t)
    BY <1>5 DEF TruncateForMark, RootMined
  <1>6. CASE RejectCos(t) \/ MonitorRequests(t) \/ PollRound(t)
    BY <1>6 DEF RejectCos, MonitorRequests, PollRound, Starts, leaderVars, taskVars
  <1>7. CASE CheckRootFlag(t) \/ SubmitRootFails(t) \/ SubmitRoot(t)
    BY <1>7 DEF CheckRootFlag, SubmitRootFails, SubmitRoot, AfterRoot
  <1>8. CASE DetermineRevealOrder(t) \/ StartSecretValueRequests(t)
             \/ HandleSecretValueResponse(t)
    BY <1>8
    DEF DetermineRevealOrder, StartSecretValueRequests, HandleSecretValueResponse
  <1> QED BY <1>1, <1>2, <1>3, <1>4, <1>5, <1>6, <1>7, <1>8
          DEF TaskStep, HandlerStep, RootStep, MonitorStep

\* The leader sends secret requests and nothing else.
LEMMA AskNextSends ==
    ASSUME NEW r, NEW skip, AskNext(r, skip), NEW m \in inbox'
    PROVE  m \in inbox \/ m.type = "request"
  BY DEF AskNext, SendSecretRequest, netVars, Msg

LEMMA TaskInbox ==
    ASSUME NEW t \in Tasks, TaskStep(t), NEW m \in inbox'
    PROVE  m \in inbox \/ m.type = "request"
  <1>1. CASE HandleCommit(t) \/ HandleCos(t) \/ AcceptSecretValue(t) \/ RejectCos(t)
    BY <1>1 DEF HandleCommit, HandleCos, AcceptSecretValue, RejectCos
  <1>2. CASE StartSecretValueRequests(t) \/ HandleSecretValueResponse(t)
    BY <1>2, AskNextSends DEF StartSecretValueRequests, HandleSecretValueResponse
  <1>3. CASE MonitorRequests(t)
    BY <1>3 DEF MonitorRequests, SendSecretRequest, Msg
  <1>4. CASE SaveEntry(t) \/ WriteSecret(t) \/ WriteMark(t) \/ ReadForSecret(t)
    BY <1>4 DEF SaveEntry, WriteSecret, WriteMark, ReadForSecret, netVars
  <1>5. CASE MonitorGenerates(t) \/ TruncateForMark(t) \/ TransactionFails(t)
    BY <1>5 DEF MonitorGenerates, TruncateForMark, TransactionFails, netVars
  <1>6. CASE ReadForFlag(t) \/ WriteFlag(t) \/ RootMined(t) \/ SubmitRoot(t)
    BY <1>6 DEF ReadForFlag, WriteFlag, RootMined, SubmitRoot, netVars
  <1>7. CASE PollRound(t) \/ CheckRootFlag(t) \/ SubmitRootFails(t)
             \/ DetermineRevealOrder(t)
    BY <1>7 DEF PollRound, CheckRootFlag, SubmitRootFails, DetermineRevealOrder, netVars
  <1> QED BY <1>1, <1>2, <1>3, <1>4, <1>5, <1>6, <1>7
          DEF TaskStep, HandlerStep, RootStep, MonitorStep

\* A task's transaction changes when it sends one or stops waiting for it.
LEMMA TaskTransaction ==
    ASSUME TypeInv, NEW t \in Tasks, TaskStep(t)
    PROVE  \/ txs'[t] = txs[t] \/ txs'[t] = NoTx
           \/ SubmitRoot(t) \/ MonitorGenerates(t)
  <1>t. txs \in [Tasks -> Transaction]
    BY LeaderTyped
  <1>1. CASE RootMined(t) \/ TruncateForMark(t) \/ TransactionFails(t)
    BY <1>t, <1>1 DEF RootMined, TruncateForMark, TransactionFails
  <1>2. CASE HandleCommit(t) \/ HandleCos(t) \/ AcceptSecretValue(t) \/ RejectCos(t)
    BY <1>2 DEF HandleCommit, HandleCos, AcceptSecretValue, RejectCos, chainVars
  <1>3. CASE StartSecretValueRequests(t) \/ HandleSecretValueResponse(t)
             \/ MonitorRequests(t)
    BY <1>3
    DEF StartSecretValueRequests, HandleSecretValueResponse, MonitorRequests, chainVars
  <1>4. CASE SaveEntry(t) \/ WriteSecret(t) \/ WriteMark(t) \/ ReadForSecret(t)
    BY <1>4 DEF SaveEntry, WriteSecret, WriteMark, ReadForSecret, chainVars
  <1>5. CASE ReadForFlag(t) \/ WriteFlag(t)
    BY <1>5 DEF ReadForFlag, WriteFlag, chainVars
  <1>6. CASE PollRound(t) \/ CheckRootFlag(t) \/ SubmitRootFails(t)
             \/ DetermineRevealOrder(t)
    BY <1>6
    DEF PollRound, CheckRootFlag, SubmitRootFails, DetermineRevealOrder, chainVars
  <1> QED BY <1>1, <1>2, <1>3, <1>4, <1>5, <1>6
          DEF TaskStep, HandlerStep, RootStep, MonitorStep

-----------------------------------------------------------------------------
(* An entry in memory always has its cvs: only handleCommitRequest makes   *)
(* one, and nothing but a restart removes it.  Without this the loop over  *)
(* the round's map could flag an entry that stands for no commitment.      *)

TaskPresent(t) ==
    /\ pc[t] \in {"flag", "flagWrite"} =>
          \A n \in todo[t] : mem[RoundOf(t)][n].cvs # NoValue
    /\ pc[t] = "save" => entry[t].cvs # NoValue

MemHasCvs ==
    \A r \in Rounds, n \in Nodes : mem[r][n] # NoEntry => mem[r][n].cvs # NoValue

PresentInv == MemHasCvs /\ \A t \in Tasks : TaskPresent(t)

LEMMA InitPresent == Init => PresentInv
  <1> SUFFICES ASSUME Init PROVE PresentInv
    OBVIOUS
  <1>1. MemHasCvs
    BY DEF Init, LeaderInit, NoStore, MemHasCvs
  <1>2. \A t \in Tasks : TaskPresent(t)
    BY DEF Init, LeaderInit, TaskPresent
  <1> QED BY <1>1, <1>2 DEF PresentInv

\* A step of the leader replaces an entry in memory only by one with a cvs.
LEMMA MemCvsKept ==
    ASSUME TypeInv, PresentInv, NEW t \in Tasks, TaskStep(t),
           NEW r \in Rounds, NEW n \in Nodes
    PROVE  mem'[r][n] = mem[r][n] \/ mem'[r][n].cvs # NoValue
  <1>1. CASE pc[t] = "save" /\ mem'[r][n] = entry[t]
    BY <1>1 DEF PresentInv, TaskPresent
  <1>2. CASE FlaggedBy(t, mem'[r][n], r, n)
    <2>1. mem[r][n].cvs # NoValue /\ mem'[r][n] = [mem[r][n] EXCEPT !.rootDone = TRUE]
      BY <1>2 DEF PresentInv, TaskPresent, FlaggedBy
    <2>2. mem[r][n] \in Entry
      BY CopiesTyped
    <2> QED BY <2>1, <2>2 DEF Entry
  <1> QED BY <1>1, <1>2, MemStep

LEMMA TaskStepPresent ==
    ASSUME TypeInv, PresentInv, NEW t \in Tasks, TaskStep(t)
    PROVE  PresentInv'
  <1>1. MemHasCvs'
    <2> SUFFICES ASSUME NEW r \in Rounds, NEW n \in Nodes, mem'[r][n] # NoEntry
                 PROVE  mem'[r][n].cvs # NoValue
      BY DEF MemHasCvs
    <2> QED BY MemCvsKept DEF PresentInv, MemHasCvs
  <1>2. ASSUME NEW u \in Tasks, u # t
        PROVE  TaskPresent(u)'
    <2>1. pc'[u] = pc[u] /\ entry'[u] = entry[u] /\ todo'[u] = todo[u]
      BY <1>2, TaskAlone DEF Alone
    <2>2. RoundOf(u) \in Rounds /\ todo[u] \subseteq Nodes
      BY TaskNames, LeaderTyped
    <2>3. \A n \in todo[u] : mem[RoundOf(u)][n].cvs # NoValue =>
                             mem'[RoundOf(u)][n].cvs # NoValue
      BY <2>2, MemCvsKept
    <2> QED BY <2>1, <2>3 DEF PresentInv, TaskPresent
  <1>3. TaskPresent(t)'
    <2>0. RoundOf(t) \in Rounds /\ todo[t] \subseteq Nodes /\ pc \in [Tasks -> PCs]
          /\ todo \in [Tasks -> SUBSET Nodes] /\ entry \in [Tasks -> Entry \cup {NoValue}]
      BY TaskNames, LeaderTyped
    <2>1. CASE pc'[t] = "save"
      <3>1. CASE HandleCommit(t)
        <4>1. PICK m \in inbox :
                  /\ m.type = "cvs"
                  /\ entry' = [entry EXCEPT ![t] =
                         IF mem[RoundOf(t)][NodeOf(t)].cvs = NoValue
                         THEN [mem[RoundOf(t)][NodeOf(t)] EXCEPT !.cvs = m.value]
                         ELSE mem[RoundOf(t)][NodeOf(t)]]
          BY <3>1 DEF HandleCommit
        <4>2. entry'[t] = IF mem[RoundOf(t)][NodeOf(t)].cvs = NoValue
                          THEN [mem[RoundOf(t)][NodeOf(t)] EXCEPT !.cvs = m.value]
                          ELSE mem[RoundOf(t)][NodeOf(t)]
          BY <2>0, <4>1
        <4>3. m.value # NoValue
          BY <4>1, LeaderTyped, MessageValues, NoValueAssumption
        <4>4. mem[RoundOf(t)][NodeOf(t)] \in Entry
          BY <2>0, <3>1, CopiesTyped, TaskNames DEF HandleCommit
        <4> QED BY <2>1, <4>2, <4>3, <4>4 DEF TaskPresent, Entry
      <3>2. CASE HandleCos(t)
        <4>1. PICK m \in inbox :
                  /\ mem[RoundOf(t)][NodeOf(t)].cvs # NoValue
                  /\ entry' = [entry EXCEPT ![t] =
                                  [mem[RoundOf(t)][NodeOf(t)] EXCEPT !.cos = m.value]]
          BY <3>2 DEF HandleCos, CosAcceptable
        <4>2. entry'[t] = [mem[RoundOf(t)][NodeOf(t)] EXCEPT !.cos = m.value]
          BY <2>0, <4>1
        <4>3. mem[RoundOf(t)][NodeOf(t)] \in Entry
          BY <2>0, <3>2, CopiesTyped, TaskNames DEF HandleCos
        <4> QED BY <2>1, <4>1, <4>2, <4>3 DEF TaskPresent, Entry
      <3> QED BY <2>1, <3>1, <3>2, Arrivals DEF Arrived
    <2>2. CASE RootMined(t)
      <3>1. todo'[t] = Present(mem, RoundOf(t)) /\ mem' = mem /\ pc'[t] = "flag"
        BY <2>0, <2>2 DEF RootMined, storeVars, Goto
      <3> QED BY <2>0, <3>1 DEF TaskPresent, Present, PresentInv, MemHasCvs
    <2>3. CASE WriteFlag(t)
      <3>1. todo'[t] \subseteq todo[t] /\ pc[t] = "flagWrite" /\ pc'[t] # "save"
        BY <2>0, <2>3 DEF WriteFlag, Goto, AfterRoot
      <3> QED BY <2>0, <3>1, MemCvsKept DEF TaskPresent, PresentInv
    <2>4. CASE ReadForFlag(t)
      <3>1. todo'[t] = todo[t] /\ pc[t] = "flag" /\ mem' = mem /\ pc'[t] # "save"
        BY <2>0, <2>4 DEF ReadForFlag, storeVars, Goto
      <3> QED BY <3>1 DEF TaskPresent, PresentInv
    <2> QED BY <2>1, <2>2, <2>3, <2>4, Arrivals DEF Arrived, TaskPresent
  <1> QED BY <1>1, <1>2, <1>3 DEF PresentInv

\* After a restart no task is at work and the memory is empty.
LEMMA CrashClears ==
    ASSUME Crash
    PROVE  /\ \A r \in Rounds, n \in Nodes : mem'[r][n] = NoEntry
           /\ \A t \in Tasks : pc'[t] = "idle" /\ txs'[t] \in {txs[t], NoTx}
           /\ inbox' \subseteq inbox
           /\ UNCHANGED <<disk, chainRoot, chainRandom, generated>>
  BY DEF Crash, NoStore

LEMMA PresentFrame ==
    ASSUME PresentInv, UNCHANGED leaderVars
    PROVE  PresentInv'
  BY DEF leaderVars, storeVars, taskVars, PresentInv, MemHasCvs, TaskPresent

\* All other steps leave the leader's own state alone.
LEMMA LeaderUntouched ==
    ASSUME Next
    PROVE  \/ \E t \in Tasks : TaskStep(t)
           \/ Crash
           \/ UNCHANGED leaderVars
  BY DEF Next, NodeStep, OutsideStep, Mine, RegistryStep, Lose, Restart

LEMMA NextPresent ==
    ASSUME TypeInv, PresentInv, [Next]_vars
    PROVE  PresentInv'
  <1>1. CASE Crash
    BY <1>1, CrashClears DEF PresentInv, MemHasCvs, TaskPresent
  <1>2. CASE UNCHANGED vars
    BY <1>2, PresentFrame DEF vars
  <1> QED BY <1>1, <1>2, TaskStepPresent, PresentFrame, LeaderUntouched

\* No entry of the leader's memory is without a cvs.
THEOREM PresentInvariant == Spec => []PresentInv
  BY InitPresent, NextPresent, TypeInvariant, PTL DEF Spec

-----------------------------------------------------------------------------
(* Agreement with the nodes' own records.  Values reach the chain through  *)
(* messages, entries in memory, in the file and in the hands of tasks, and *)
(* transactions: in all of these places they are the committed ones.       *)

MessageAgrees(m) ==
    m.type # "request" =>
        /\ commits[m.node][m.round] # NoValue
        /\ m.type = "cvs" => m.value = Cvs(Cos(SecretOf(m.node, m.round)))
        /\ m.type = "cos" => m.value = Cos(SecretOf(m.node, m.round))
        /\ m.type = "secret" => m.value = SecretOf(m.node, m.round)

EntryOK(e, n, r) ==
    e # NoEntry => commits[n][r] # NoValue /\ AgreesWithNode(e, n, r)

RootTxAgrees(t) ==
    txs[t].status = "pending" /\ Kind(t) # "monitor" =>
        AllCommitted(RoundOf(t)) /\ txs[t].words = CommittedLeaves(RoundOf(t))

MessagesAgree == \A m \in inbox : MessageAgrees(m)
EntriesAgree ==
    \A r \in Rounds, n \in Nodes :
        EntryOK(mem[r][n], n, r) /\ \A e \in Kept(r, n) : EntryOK(e, n, r)
RootTxsAgree == \A t \in Tasks : RootTxAgrees(t)

AgreeInv == MessagesAgree /\ EntriesAgree /\ RootTxsAgree /\ RootBindsCommits

\* A node never drops its record of a round nor changes the secret in it.
LEMMA CommitsGrow ==
    ASSUME TypeInv, [Next]_vars, NEW r \in Rounds, NEW n \in Nodes,
           commits[n][r] # NoValue
    PROVE  commits'[n][r] # NoValue /\ SecretOf(n, r)' = SecretOf(n, r)
  <1>0. commits \in [Nodes -> [Rounds -> {NoValue} \cup Commit]]
    BY DEF TypeInv, ProtocolTypeOK, RegularTypeOK
  <1>1. CASE UNCHANGED commits
    BY <1>1 DEF SecretOf
  <1>2. ASSUME NEW k \in Nodes, NEW q \in Rounds, NodeStep(k, q)
        PROVE  commits'[n][r] # NoValue /\ SecretOf(n, r)' = SecretOf(n, r)
    <2>1. CASE SendCommit(k, q)
      BY <1>0, <2>1 DEF SendCommit, LoadCommitData, SaveCommitData, SecretOf
    <2>2. CASE SendCos(k, q)
      <3>1. CASE commits' = [commits EXCEPT ![k][q] = [commits[k][q] EXCEPT !.cosSent = TRUE]]
        <4>1. commits[k][q] # NoValue => commits[k][q] \in Commit
          BY <1>0
        <4>2. commits[k][q] # NoValue =>
                  LET c == [commits[k][q] EXCEPT !.cosSent = TRUE]
                  IN  c \in Commit /\ c.secret = commits[k][q].secret
          BY <4>1 DEF Commit
        <4> QED BY <1>0, <3>1, <4>2, CommitAssumption DEF SecretOf
      <3> QED BY <1>1, <2>2, <3>1 DEF SendCos, LoadCommitData, SaveCommitData
    <2>3. CASE HandleSecretValueRequest(k, q)
      BY <2>3 DEF HandleSecretValueRequest, SecretOf
    <2> QED BY <1>2, <2>1, <2>2, <2>3 DEF NodeStep
  <1>3. ASSUME NEW t \in Tasks, TaskStep(t) \/ Mine(t)
        PROVE  UNCHANGED commits
    BY <1>3 DEF TaskStep, Mine
  <1>4. RegistryStep \/ Lose \/ Restart \/ UNCHANGED vars => UNCHANGED commits
    BY DEF RegistryStep, Lose, LoseMessage, Restart, vars
  <1>5. ASSUME NEW k \in Nodes, NEW q \in Rounds, OutsideStep(k, q)
        PROVE  UNCHANGED commits
    BY <1>5 DEF OutsideStep, RequestFromOutside
  <1> QED BY <1>1, <1>2, <1>3, <1>4, <1>5 DEF Next

\* So what agrees with the records still agrees after any step.
LEMMA AgreementKept ==
    ASSUME TypeInv, [Next]_vars
    PROVE  /\ \A m \in Message : MessageAgrees(m) => MessageAgrees(m)'
           /\ \A r \in Rounds, n \in Nodes : \A e : EntryOK(e, n, r) => EntryOK(e, n, r)'
           /\ \A r \in Rounds : AllCommitted(r) =>
                 AllCommitted(r)' /\ CommittedLeaves(r)' = CommittedLeaves(r)
                                  /\ CommittedSecrets(r)' = CommittedSecrets(r)
  <1>1. ASSUME NEW m \in Message, MessageAgrees(m)
        PROVE  MessageAgrees(m)'
    <2>1. m.node \in Nodes /\ m.round \in Rounds
      BY DEF Message
    <2> QED BY <1>1, <2>1, CommitsGrow DEF MessageAgrees
  <1>2. ASSUME NEW r \in Rounds, NEW n \in Nodes, NEW e, EntryOK(e, n, r)
        PROVE  EntryOK(e, n, r)'
    BY <1>2, CommitsGrow DEF EntryOK, AgreesWithNode
  <1>3. ASSUME NEW r \in Rounds, AllCommitted(r)
        PROVE  /\ AllCommitted(r)' /\ CommittedLeaves(r)' = CommittedLeaves(r)
               /\ CommittedSecrets(r)' = CommittedSecrets(r)
    <2>1. AllCommitted(r)'
      BY <1>3, CommitsGrow, OperatorsAreNodes DEF AllCommitted
    <2>2. \A i \in DOMAIN Operators[r] :
              SecretOf(Operators[r][i], r)' = SecretOf(Operators[r][i], r)
      <3> SUFFICES ASSUME NEW i \in DOMAIN Operators[r]
                   PROVE  SecretOf(Operators[r][i], r)' = SecretOf(Operators[r][i], r)
        OBVIOUS
      <3>1. Operators[r][i] \in OperatorSet(r) /\ Operators[r][i] \in Nodes
        BY OperatorsAreNodes DEF OperatorSet, Range
      <3> QED BY <1>3, <3>1, CommitsGrow DEF AllCommitted
    <2> QED BY <2>1, <2>2 DEF CommittedLeaves, CommittedSecrets
  <1> QED BY <1>1, <1>2, <1>3

LEMMA InitAgrees == Init => AgreeInv
  <1> SUFFICES ASSUME Init PROVE AgreeInv
    OBVIOUS
  <1>1. MessagesAgree
    BY DEF Init, MessagesAgree
  <1>2. ASSUME NEW r \in Rounds, NEW n \in Nodes
        PROVE  mem[r][n] = NoEntry /\ \A e \in Kept(r, n) : e = NoEntry
    BY KeptCopies DEF Init, LeaderInit, NoStore, Holding, Writing
  <1>3. EntriesAgree
    BY <1>2 DEF EntriesAgree, EntryOK
  <1>4. RootTxsAgree /\ RootBindsCommits
    BY DEF Init, ChainInit, NoTx, RootTxsAgree, RootTxAgrees, RootBindsCommits
  <1> QED BY <1>1, <1>3, <1>4 DEF AgreeInv

\* Whatever a task makes of a message, of an entry in memory or of a copy agrees.
LEMMA OriginAgrees ==
    ASSUME TypeInv, PresentInv, AgreeInv, NEW t \in Tasks, NEW r \in Rounds,
           NEW n \in Nodes, NEW e, KeptOrigin(t, e, r, n)
    PROVE  EntryOK(e, n, r)
  <1>0. EntryOK(mem[r][n], n, r) /\ \A f \in Kept(r, n) : EntryOK(f, n, r)
    BY DEF AgreeInv, EntriesAgree
  <1>1. mem[r][n] \in Entry /\ disk[r][n] \in Entry /\ Kept(r, n) \subseteq Entry
    BY CopiesTyped
  <1>2. ASSUME NEW f \in Entry, EntryOK(f, n, r)
        PROVE  AgreesWithNode(f, n, r)
    BY <1>2 DEF EntryOK, AgreesWithNode, NoEntry
  <1>3. CASE Received(e, r, n)
    <2>1. PICK m \in inbox :
              /\ m.round = r /\ m.node = n
              /\ \/ m.type = "cvs" /\ e = [mem[r][n] EXCEPT !.cvs = m.value]
                 \/ m.type = "cvs" /\ e = mem[r][n] /\ e.cvs # NoValue
                 \/ /\ m.type = "cos" /\ mem[r][n].cvs # NoValue
                    /\ e = [mem[r][n] EXCEPT !.cos = m.value]
                 \/ m.type = "secret" /\ e = [disk[r][n] EXCEPT !.secret = m.value]
      BY <1>3 DEF Received
    <2>2. commits[n][r] # NoValue
      BY <2>1 DEF AgreeInv, MessagesAgree, MessageAgrees
    <2>3. AgreesWithNode(mem[r][n], n, r) /\ AgreesWithNode(disk[r][n], n, r)
      BY <1>0, <1>1, <1>2, KeptCopies
    <2>4. CASE m.type = "cvs" /\ e = [mem[r][n] EXCEPT !.cvs = m.value]
      <3>1. m.value = Cvs(Cos(SecretOf(n, r)))
        BY <2>1, <2>4 DEF AgreeInv, MessagesAgree, MessageAgrees
      <3> QED BY <1>1, <2>2, <2>3, <2>4, <3>1 DEF EntryOK, AgreesWithNode, Entry
    <2>5. CASE m.type = "cos" /\ e = [mem[r][n] EXCEPT !.cos = m.value]
      <3>1. m.value = Cos(SecretOf(n, r))
        BY <2>1, <2>5 DEF AgreeInv, MessagesAgree, MessageAgrees
      <3> QED BY <1>1, <2>2, <2>3, <2>5, <3>1 DEF EntryOK, AgreesWithNode, Entry
    <2>6. CASE m.type = "secret" /\ e = [disk[r][n] EXCEPT !.secret = m.value]
      <3>1. m.value = SecretOf(n, r)
        BY <2>1, <2>6 DEF AgreeInv, MessagesAgree, MessageAgrees
      <3> QED BY <1>1, <2>2, <2>3, <2>6, <3>1 DEF EntryOK, AgreesWithNode, Entry
    <2> QED BY <1>0, <2>1, <2>4, <2>5, <2>6
  <1>4. CASE FlaggedBy(t, e, r, n)
    <2>1. mem[r][n].cvs # NoValue /\ e = [mem[r][n] EXCEPT !.rootDone = TRUE]
      BY <1>4 DEF PresentInv, TaskPresent, FlaggedBy
    <2>2. mem[r][n] # NoEntry
      BY <2>1 DEF NoEntry
    <2> QED BY <1>0, <1>1, <2>1, <2>2 DEF EntryOK, AgreesWithNode, Entry
  <1>5. CASE MarkedBy(t, e, r, n)
    <2>1. PICK f \in Kept(r, n) : f # NoEntry /\ e = [f EXCEPT !.rngDone = TRUE]
      BY <1>5 DEF MarkedBy
    <2> QED BY <1>0, <1>1, <2>1 DEF EntryOK, AgreesWithNode, Entry
  <1> QED BY <1>0, <1>3, <1>4, <1>5 DEF KeptOrigin, TruncatedBy, EntryOK

LEMMA TaskStepEntriesAgree ==
    ASSUME TypeInv, PresentInv, AgreeInv, NEW t \in Tasks, TaskStep(t)
    PROVE  EntriesAgree'
  <1>0. [Next]_vars
    BY DEF Next
  <1> SUFFICES ASSUME NEW r \in Rounds, NEW n \in Nodes
               PROVE  /\ \A e : e = mem'[r][n] => EntryOK(e, n, r)'
                      /\ \A e \in Kept(r, n)' : EntryOK(e, n, r)'
    BY DEF EntriesAgree, EntryOK, AgreesWithNode
  <1>1. \A e : EntryOK(e, n, r) => EntryOK(e, n, r)'
    BY <1>0, AgreementKept
  <1>2. ASSUME NEW e \in Kept(r, n)'
        PROVE  EntryOK(e, n, r)'
    BY <1>1, KeptStep, OriginAgrees
  <1>3. EntryOK(mem'[r][n], n, r)
    <2>1. CASE mem'[r][n] = mem[r][n]
      BY <2>1 DEF AgreeInv, EntriesAgree
    <2>2. CASE /\ pc[t] = "save" /\ RoundOf(t) = r /\ NodeOf(t) = n
               /\ mem'[r][n] = entry[t]
      <3>1. entry[t] \in Kept(r, n)
        BY <2>2, KeptCopies DEF Writing
      <3> QED BY <2>2, <3>1 DEF AgreeInv, EntriesAgree
    <2>3. CASE FlaggedBy(t, mem'[r][n], r, n)
      BY <2>3, OriginAgrees DEF KeptOrigin
    <2> QED BY <2>1, <2>2, <2>3, MemStep
  <1> QED BY <1>1, <1>2, <1>3

\* The transaction of submitMerkleRoot carries the committed cvs of all operators.
LEMMA SubmitRootAgrees ==
    ASSUME TypeInv, AgreeInv, NEW t \in Tasks, SubmitRoot(t)
    PROVE  /\ AllCommitted(RoundOf(t))
           /\ txs'[t].words = CommittedLeaves(RoundOf(t))
  <1> DEFINE r == RoundOf(t)
  <1>0. r \in Rounds
    BY TaskNames
  <1>1. ASSUME NEW n \in OperatorSet(r)
        PROVE  commits[n][r] # NoValue /\ mem[r][n].cvs = Cvs(Cos(SecretOf(n, r)))
    <2>1. n \in Nodes /\ mem[r][n].cvs # NoValue
      BY <1>0, OperatorsAreNodes DEF SubmitRoot
    <2>2. mem[r][n] # NoEntry
      BY <2>1 DEF NoEntry
    <2> QED BY <1>0, <2>1, <2>2 DEF AgreeInv, EntriesAgree, EntryOK, AgreesWithNode
  <1>2. [i \in DOMAIN Operators[r] |-> mem[r][Operators[r][i]].cvs] = CommittedLeaves(r)
    <2>1. \A i \in DOMAIN Operators[r] : Operators[r][i] \in OperatorSet(r)
      BY DEF OperatorSet, Range
    <2> QED BY <1>1, <2>1 DEF CommittedLeaves
  <1>3. txs'[t].words = [i \in DOMAIN Operators[r] |-> mem[r][Operators[r][i]].cvs]
    BY LeaderTyped DEF SubmitRoot, Send
  <1> QED BY <1>1, <1>2, <1>3 DEF AllCommitted

LEMMA TaskStepAgrees ==
    ASSUME TypeInv, PresentInv, AgreeInv, NEW t \in Tasks, TaskStep(t)
    PROVE  AgreeInv'
  <1>0. [Next]_vars /\ UNCHANGED commits
    BY DEF Next, TaskStep
  <1>1. MessagesAgree'
    <2> SUFFICES ASSUME NEW m \in inbox' PROVE MessageAgrees(m)'
      BY DEF MessagesAgree
    <2>1. CASE m \in inbox
      BY <1>0, <2>1, AgreementKept, LeaderTyped DEF AgreeInv, MessagesAgree
    <2>2. CASE m.type = "request"
      BY <2>2 DEF MessageAgrees
    <2> QED BY <2>1, <2>2, TaskInbox
  <1>2. EntriesAgree'
    BY TaskStepEntriesAgree
  <1>3. RootTxsAgree'
    <2> SUFFICES ASSUME NEW u \in Tasks PROVE RootTxAgrees(u)'
      BY DEF RootTxsAgree
    <2>1. RoundOf(u) \in Rounds
      BY TaskNames
    <2>2. CASE txs'[u] = txs[u]
      BY <1>0, <2>1, <2>2, AgreementKept DEF AgreeInv, RootTxsAgree, RootTxAgrees
    <2>3. CASE txs'[u] = NoTx
      BY <2>3 DEF RootTxAgrees, NoTx
    <2>4. CASE u = t /\ SubmitRoot(t)
      BY <1>0, <2>1, <2>4, SubmitRootAgrees, AgreementKept DEF RootTxAgrees
    <2>5. CASE u = t /\ MonitorGenerates(t)
      BY <2>5 DEF MonitorGenerates, RootTxAgrees
    <2> QED BY <2>2, <2>3, <2>4, <2>5, TaskTransaction, TaskAlone DEF Alone
  <1>4. UNCHANGED chainRoot
    BY DEF TaskStep, HandlerStep, RootStep, MonitorStep, HandleCommit, HandleCos,
           RejectCos, SaveEntry, DetermineRevealOrder, StartSecretValueRequests,
           AcceptSecretValue, ReadForSecret, WriteSecret, HandleSecretValueResponse,
           PollRound, CheckRootFlag, SubmitRoot, SubmitRootFails, RootMined,
           ReadForFlag, WriteFlag, MonitorRequests, MonitorGenerates, TruncateForMark,
           WriteMark, TransactionFails, chainVars
  <1>5. RootBindsCommits'
    BY <1>0, <1>4, AgreementKept DEF AgreeInv, RootBindsCommits
  <1> QED BY <1>1, <1>2, <1>3, <1>5 DEF AgreeInv

\* Entries that stay in their places, or disappear, keep agreeing.
LEMMA EntriesStayAgreed ==
    ASSUME TypeInv, AgreeInv, [Next]_vars, UNCHANGED leaderVars
    PROVE  EntriesAgree'
  <1> SUFFICES ASSUME NEW r \in Rounds, NEW n \in Nodes
               PROVE  /\ \A e : e = mem'[r][n] => EntryOK(e, n, r)'
                      /\ \A e \in Kept(r, n)' : EntryOK(e, n, r)'
    BY DEF EntriesAgree, EntryOK, AgreesWithNode
  <1>1. mem'[r][n] = mem[r][n] /\ Kept(r, n)' = Kept(r, n)
    BY DEF leaderVars, storeVars, taskVars, Kept
  <1> QED BY <1>1, AgreementKept DEF AgreeInv, EntriesAgree

LEMMA RootTxsStayAgreed ==
    ASSUME TypeInv, AgreeInv, [Next]_vars,
           \A t \in Tasks : txs'[t] = txs[t] \/ txs'[t].status # "pending"
    PROVE  RootTxsAgree'
  <1> SUFFICES ASSUME NEW t \in Tasks PROVE RootTxAgrees(t)'
    BY DEF RootTxsAgree
  <1>1. RoundOf(t) \in Rounds
    BY TaskNames
  <1> QED BY <1>1, AgreementKept DEF AgreeInv, RootTxsAgree, RootTxAgrees

LEMMA RootStaysBound ==
    ASSUME TypeInv, AgreeInv, [Next]_vars, UNCHANGED chainRoot
    PROVE  RootBindsCommits'
  BY AgreementKept DEF AgreeInv, RootBindsCommits

LEMMA MessagesStayAgreed ==
    ASSUME TypeInv, AgreeInv, [Next]_vars, inbox' \subseteq inbox
    PROVE  MessagesAgree'
  BY AgreementKept, LeaderTyped DEF AgreeInv, MessagesAgree

LEMMA NodeStepAgrees ==
    ASSUME TypeInv, AgreeInv, NEW n \in Nodes, NEW r \in Rounds, NodeStep(n, r)
    PROVE  AgreeInv'
  <1>0. [Next]_vars
    BY DEF Next
  <1>1. UNCHANGED chainVars /\ UNCHANGED leaderVars
    BY DEF NodeStep, SendCommit, SendCos, HandleSecretValueRequest
  <1>2. EntriesAgree' /\ RootTxsAgree' /\ RootBindsCommits'
    BY <1>0, <1>1, EntriesStayAgreed, RootTxsStayAgreed, RootStaysBound DEF chainVars
  <1>3. MessagesAgree'
    <2> SUFFICES ASSUME NEW m \in inbox' PROVE MessageAgrees(m)'
      BY DEF MessagesAgree
    <2>0. m \in inbox => MessageAgrees(m)'
      BY <1>0, AgreementKept, LeaderTyped DEF AgreeInv, MessagesAgree
    <2>c. commits \in [Nodes -> [Rounds -> {NoValue} \cup Commit]]
      BY DEF TypeInv, ProtocolTypeOK, RegularTypeOK
    <2>1. CASE SendCommit(n, r)
      <3>1. PICK t \in Stamps :
                /\ commits' = [commits EXCEPT ![n][r] =
                                  [secret |-> Secret(r, n, t), cosSent |-> FALSE]]
                /\ inbox' = inbox \cup {Msg("cvs", r, n, Cvs(Cos(Secret(r, n, t))))}
        BY <2>1 DEF SendCommit, SaveCommitData, SendCommitToLeader
      <3>2. commits'[n][r] = [secret |-> Secret(r, n, t), cosSent |-> FALSE]
        BY <2>c, <3>1
      <3>3. commits'[n][r] # NoValue /\ commits'[n][r].secret = Secret(r, n, t)
        <4>1. [secret |-> Secret(r, n, t), cosSent |-> FALSE] \in Commit
          BY Hashes DEF Commit
        <4>2. commits'[n][r] # NoValue
          BY <3>2, <4>1, CommitAssumption
        <4>3. commits'[n][r].secret = Secret(r, n, t)
          BY <3>2
        <4> QED BY <4>2, <4>3
      <3> QED BY <2>0, <3>1, <3>3 DEF MessageAgrees, SecretOf, Msg
    <2>2. CASE SendCos(n, r)
      <3>1. commits[n][r] # NoValue /\ inbox' = inbox \cup {Msg("cos", r, n, Cos(SecretOf(n, r)))}
        BY <2>2 DEF SendCos, LoadCommitData, SendCosToLeader, SecretOf
      <3>2. commits'[n][r] # NoValue /\ SecretOf(n, r)' = SecretOf(n, r)
        BY <1>0, <3>1, CommitsGrow
      <3> QED BY <2>0, <3>1, <3>2 DEF MessageAgrees, Msg
    <2>3. CASE HandleSecretValueRequest(n, r)
      <3>1. UNCHANGED commits
        BY <2>3 DEF HandleSecretValueRequest
      <3>2. \/ m \in inbox
            \/ m = Msg("secret", r, n, SecretOf(n, r)) /\ commits[n][r] # NoValue
        BY <2>3 DEF HandleSecretValueRequest, LoadCommitData, SecretOf
      <3> QED BY <2>0, <3>1, <3>2 DEF MessageAgrees, SecretOf, Msg
    <2> QED BY <2>1, <2>2, <2>3 DEF NodeStep
  <1> QED BY <1>2, <1>3 DEF AgreeInv

LEMMA OutsideStepAgrees ==
    ASSUME TypeInv, AgreeInv, NEW n \in Nodes, NEW r \in Rounds, OutsideStep(n, r)
    PROVE  AgreeInv'
  <1>0. [Next]_vars
    BY DEF Next
  <1>1. UNCHANGED chainVars /\ UNCHANGED leaderVars
    BY DEF OutsideStep, RequestFromOutside
  <1>2. EntriesAgree' /\ RootTxsAgree' /\ RootBindsCommits'
    BY <1>0, <1>1, EntriesStayAgreed, RootTxsStayAgreed, RootStaysBound DEF chainVars
  <1>3. ASSUME NEW m \in inbox'
        PROVE  MessageAgrees(m)'
    <2>1. m \in inbox => MessageAgrees(m)'
      BY <1>0, AgreementKept, LeaderTyped DEF AgreeInv, MessagesAgree
    <2>2. m \in inbox \/ m = Msg("request", r, n, NoValue)
      BY DEF OutsideStep, RequestFromOutside
    <2> QED BY <2>1, <2>2 DEF MessageAgrees, Msg
  <1> QED BY <1>2, <1>3 DEF AgreeInv, MessagesAgree

LEMMA MineAgrees ==
    ASSUME TypeInv, AgreeInv, NEW t \in Tasks, Mine(t)
    PROVE  AgreeInv'
  <1>0. [Next]_vars /\ UNCHANGED leaderVars /\ inbox' \subseteq inbox
    BY DEF Next, Mine, netVars
  <1>1. \A u \in Tasks : txs'[u] = txs[u] \/ txs'[u].status # "pending"
    BY LeaderTyped DEF Mine, MineRoot, MineRandom, MineRevert, ReplaceTx, Receipt, NoTx
  <1>2. RootBindsCommits'
    <2>1. CASE MineRoot(t, Awaited(t))
      <3>1. AllCommitted(RoundOf(t)) /\ txs[t].words = CommittedLeaves(RoundOf(t))
        BY <2>1 DEF MineRoot, AgreeInv, RootTxsAgree, RootTxAgrees
      <3>2. chainRoot' = [chainRoot EXCEPT ![RoundOf(t)] = txs[t].words]
        BY <2>1 DEF MineRoot, SubmitMerkleRoot
      <3>3. chainRoot \in [Rounds -> {NoValue} \cup Seq(CvsSet)]
        BY DEF TypeInv, ProtocolTypeOK, ChainTypeOK
      <3> SUFFICES ASSUME NEW r \in Rounds, chainRoot'[r] # NoValue
                   PROVE  AllCommitted(r)' /\ chainRoot'[r] = CommittedLeaves(r)'
        BY DEF RootBindsCommits
      <3>4. AllCommitted(r) /\ chainRoot'[r] = CommittedLeaves(r)
        BY <3>1, <3>2, <3>3 DEF AgreeInv, RootBindsCommits
      <3> QED BY <1>0, <3>4, AgreementKept
    <2>2. CASE UNCHANGED chainRoot
      BY <1>0, <2>2, RootStaysBound
    <2> QED BY <2>1, <2>2
    DEF Mine, MineRandom, MineRevert, ReplaceTx, GenerateRandomNumber
  <1> QED BY <1>0, <1>1, <1>2, EntriesStayAgreed, RootTxsStayAgreed, MessagesStayAgreed
          DEF AgreeInv

LEMMA CrashAgrees ==
    ASSUME TypeInv, AgreeInv, Restart
    PROVE  AgreeInv'
  <1>0. [Next]_vars /\ Crash
    BY DEF Next, Restart
  <1>1. \A t \in Tasks : txs'[t] = txs[t] \/ txs'[t].status # "pending"
    BY <1>0, CrashClears DEF NoTx
  <1>2. EntriesAgree'
    <2> SUFFICES ASSUME NEW r \in Rounds, NEW n \in Nodes
                 PROVE  /\ \A e : e = mem'[r][n] => EntryOK(e, n, r)'
                        /\ \A e \in Kept(r, n)' : EntryOK(e, n, r)'
      BY DEF EntriesAgree, EntryOK, AgreesWithNode
    <2>1. mem'[r][n] = NoEntry
      BY <1>0, CrashClears
    <2>2. \A e \in Kept(r, n)' : e \in Kept(r, n)
      BY <1>0, CrashClears, KeptCopies, KeptCopiesNext DEF Holding, Writing
    <2> QED BY <1>0, <2>1, <2>2, AgreementKept DEF AgreeInv, EntriesAgree, EntryOK
  <1> QED BY <1>0, <1>1, <1>2, CrashClears, RootTxsStayAgreed, RootStaysBound,
             MessagesStayAgreed DEF AgreeInv

LEMMA NextAgrees ==
    ASSUME TypeInv, PresentInv, AgreeInv, [Next]_vars
    PROVE  AgreeInv'
  <1>1. ASSUME UNCHANGED <<leaderVars, chainVars>>, inbox' \subseteq inbox
        PROVE  AgreeInv'
    BY <1>1, EntriesStayAgreed, RootTxsStayAgreed, RootStaysBound, MessagesStayAgreed
    DEF AgreeInv, chainVars
  <1>2. CASE RegistryStep \/ Lose \/ UNCHANGED vars
    BY <1>1, <1>2 DEF RegistryStep, Lose, LoseMessage, vars, netVars
  <1> QED BY <1>2, NodeStepAgrees, OutsideStepAgrees, TaskStepAgrees, MineAgrees,
             CrashAgrees DEF Next

\* Every value under way, stored or submitted is the one its node committed to.
THEOREM AgreeInvariant == Spec => []AgreeInv
  BY InitAgrees, NextAgrees, TypeInvariant, PresentInvariant, PTL DEF Spec

\* leader_commits.json and the leader's memory hold only values that the node
\* of the entry committed to, for any interleaving of the locked and unlocked
\* reads and writes, any losses and any restarts.
THEOREM StoredAgree == Spec => []StoredValuesAreCommitted
  <1>1. AgreeInv => StoredValuesAreCommitted
    BY KeptCopies DEF AgreeInv, EntriesAgree, EntryOK, StoredValuesAreCommitted
  <1> QED BY <1>1, AgreeInvariant, PTL

\* The root on chain is that of the operators' own commitments, in contract order.
THEOREM RootBinds == Spec => []RootBindsCommits
  <1>1. AgreeInv => RootBindsCommits
    BY DEF AgreeInv
  <1> QED BY <1>1, AgreeInvariant, PTL

-----------------------------------------------------------------------------
(* The random number.  generateRandomNumber accepts the secrets that hash  *)
(* to the stored root; the root binds the operators' commitments, so they  *)
(* can only be the operators' own secrets, all of them, in place.          *)

LEMMA HashesInjective ==
    ASSUME NEW x, NEW y, Cvs(Cos(x)) = Cvs(Cos(y))
    PROVE  x = y
  <1>1. \A u, v : Keccak(u) = Keccak(v) => u = v
    BY DEF Keccak
  <1> QED BY <1>1 DEF Cvs, Cos

LEMMA MineRandomFromAll ==
    ASSUME TypeInv, AgreeInv, NEW t \in Tasks, MineRandom(t, Awaited(t))
    PROVE  /\ AllCommitted(RoundOf(t))
           /\ txs[t].words = CommittedSecrets(RoundOf(t))
  <1> DEFINE r      == RoundOf(t)
             words  == txs[t].words
             leaves == [i \in DOMAIN words |-> Cvs(Cos(words[i]))]
  <1>0. r \in Rounds
    BY TaskNames
  <1>1. words \in Seq(Secrets) /\ leaves = chainRoot[r]
    BY DEF MineRandom, SecretsVerify, TypeInv, TaskOK
  <1>2. leaves \in Seq(CvsSet)
    BY <1>1, Hashes
  <1>3. AllCommitted(r) /\ leaves = CommittedLeaves(r)
    BY <1>0, <1>1, <1>2, NoValueAssumption DEF AgreeInv, RootBindsCommits
  <1>4. DOMAIN words = DOMAIN Operators[r]
    BY <1>3 DEF CommittedLeaves
  <1>5. ASSUME NEW i \in DOMAIN Operators[r]
        PROVE  words[i] = SecretOf(Operators[r][i], r)
    <2>1. Cvs(Cos(words[i])) = Cvs(Cos(SecretOf(Operators[r][i], r)))
      BY <1>3, <1>4 DEF CommittedLeaves
    <2> QED BY <2>1, HashesInjective
  <1>6. words = [i \in DOMAIN Operators[r] |-> SecretOf(Operators[r][i], r)]
    BY <1>1, <1>4, <1>5
  <1> QED BY <1>3, <1>6 DEF CommittedSecrets

LEMMA RandomStays ==
    ASSUME Next, ~UNCHANGED chainRandom
    PROVE  \E t \in Tasks : MineRandom(t, Awaited(t))
  <1>1. ASSUME NEW t \in Tasks, TaskStep(t)
        PROVE  UNCHANGED chainRandom
    BY <1>1 DEF TaskStep, HandlerStep, RootStep, MonitorStep, HandleCommit, HandleCos,
           RejectCos, SaveEntry, DetermineRevealOrder, StartSecretValueRequests,
           AcceptSecretValue, ReadForSecret, WriteSecret, HandleSecretValueResponse,
           PollRound, CheckRootFlag, SubmitRoot, SubmitRootFails, RootMined,
           ReadForFlag, WriteFlag, MonitorRequests, MonitorGenerates, TruncateForMark,
           WriteMark, TransactionFails, chainVars
  <1>2. ASSUME NEW n \in Nodes, NEW q \in Rounds, NodeStep(n, q) \/ OutsideStep(n, q)
        PROVE  UNCHANGED chainRandom
    BY <1>2 DEF NodeStep, SendCommit, SendCos, HandleSecretValueRequest, OutsideStep,
                RequestFromOutside, chainVars
  <1>3. Lose \/ Restart \/ RegistryStep => UNCHANGED chainRandom
    BY DEF Lose, LoseMessage, Restart, Crash, RegistryStep, chainVars
  <1>4. ASSUME NEW t \in Tasks, Mine(t)
        PROVE  UNCHANGED chainRandom \/ MineRandom(t, Awaited(t))
    BY <1>4 DEF Mine, MineRoot, SubmitMerkleRoot, MineRevert, ReplaceTx
  <1> QED BY <1>1, <1>2, <1>3, <1>4 DEF Next

LEMMA NextRandomFromAll ==
    ASSUME TypeInv, AgreeInv, RandomFromAllOperators, [Next]_vars
    PROVE  RandomFromAllOperators'
  <1> SUFFICES ASSUME NEW r \in Rounds, chainRandom'[r] # NoValue
               PROVE  AllCommitted(r)' /\ chainRandom'[r] = CommittedSecrets(r)'
    BY DEF RandomFromAllOperators
  <1>1. AllCommitted(r) /\ chainRandom'[r] = CommittedSecrets(r)
    <2>1. CASE UNCHANGED chainRandom
      BY <2>1 DEF RandomFromAllOperators
    <2>2. ASSUME NEW t \in Tasks, MineRandom(t, Awaited(t))
          PROVE  AllCommitted(r) /\ chainRandom'[r] = CommittedSecrets(r)
      <3>1. chainRandom' = [chainRandom EXCEPT ![RoundOf(t)] = txs[t].words]
        BY <2>2 DEF MineRandom, GenerateRandomNumber
      <3>2. chainRandom \in [Rounds -> {NoValue} \cup Seq(Secrets)]
        BY DEF TypeInv, ProtocolTypeOK, ChainTypeOK
      <3> QED BY <2>2, <3>1, <3>2, MineRandomFromAll DEF RandomFromAllOperators
    <2> QED BY <2>1, <2>2, RandomStays DEF vars, chainVars
  <1> QED BY <1>1, AgreementKept

\* The random number on chain is made of the secrets of all operators of the
\* round in contract order, for every number of operators and whatever is lost,
\* interleaved or restarted on the way.
THEOREM RandomFromAll == Spec => []RandomFromAllOperators
  <1>1. Init => RandomFromAllOperators
    BY DEF Init, ChainInit, RandomFromAllOperators
  <1> QED BY <1>1, NextRandomFromAll, TypeInvariant, AgreeInvariant, PTL DEF Spec

-----------------------------------------------------------------------------
(* The flags.  A completion mark is written by a task whose transaction    *)
(* went through, and nobody else is ever in those places of the program.   *)

MarkTask(t) ==
    /\ pc[t] \in {"generated", "markWrite"} => Kind(t) = "monitor"
    /\ pc[t] = "submitted" => Kind(t) # "monitor"
    /\ Kind(t) = "monitor" /\ (txs[t].status = "ok" \/ pc[t] = "markWrite") =>
          chainRandom[RoundOf(t)] # NoValue /\ generated[RoundOf(t)] # 0

MarkInv == \A t \in Tasks : MarkTask(t)

\* A round with a random number keeps one.
LEMMA RandomGrows ==
    ASSUME TypeInv, [Next]_vars, NEW r \in Rounds
    PROVE  /\ chainRandom[r] # NoValue => chainRandom'[r] # NoValue
           /\ generated[r] # 0 => generated'[r] # 0
  <1>1. ASSUME NEW t \in Tasks, MineRandom(t, Awaited(t))
        PROVE  /\ chainRandom[r] # NoValue => chainRandom'[r] # NoValue
               /\ generated[r] # 0 => generated'[r] # 0
    <2>1. /\ chainRandom' = [chainRandom EXCEPT ![RoundOf(t)] = txs[t].words]
          /\ generated' = [generated EXCEPT ![RoundOf(t)] = @ + 1]
      BY <1>1 DEF MineRandom, GenerateRandomNumber
    <2>2. txs[t].words \in Seq(Secrets)
      BY <1>1 DEF MineRandom, TypeInv, TaskOK
    <2>3. chainRandom \in [Rounds -> {NoValue} \cup Seq(Secrets)]
          /\ generated \in [Rounds -> 0..MaxGenerated]
      BY DEF TypeInv, ProtocolTypeOK, ChainTypeOK
    <2>4. txs[t].words # NoValue
      BY <2>2, NoValueAssumption
    <2>5. generated[r] # 0 => generated'[r] # 0
      BY <2>1, <2>3, BoundsAssumption
    <2> QED BY <2>1, <2>3, <2>4, <2>5
  <1>2. ASSUME NEW t \in Tasks, TaskStep(t)
        PROVE  UNCHANGED generated
    BY <1>2 DEF TaskStep, HandlerStep, RootStep, MonitorStep, HandleCommit, HandleCos,
           RejectCos, SaveEntry, DetermineRevealOrder, StartSecretValueRequests,
           AcceptSecretValue, ReadForSecret, WriteSecret, HandleSecretValueResponse,
           PollRound, CheckRootFlag, SubmitRoot, SubmitRootFails, RootMined,
           ReadForFlag, WriteFlag, MonitorRequests, MonitorGenerates, TruncateForMark,
           WriteMark, TransactionFails, chainVars
  <1>3. ASSUME NEW n \in Nodes, NEW q \in Rounds, NodeStep(n, q) \/ OutsideStep(n, q)
        PROVE  UNCHANGED generated
    BY <1>3 DEF NodeStep, SendCommit, SendCos, HandleSecretValueRequest, OutsideStep,
                RequestFromOutside, chainVars
  <1>4. Lose \/ Restart \/ RegistryStep \/ UNCHANGED vars => UNCHANGED generated
    BY DEF Lose, LoseMessage, Restart, Crash, RegistryStep, vars, chainVars
  <1>5. ASSUME NEW t \in Tasks, Mine(t)
        PROVE  UNCHANGED generated \/ MineRandom(t, Awaited(t))
    BY <1>5 DEF Mine, MineRoot, SubmitMerkleRoot, MineRevert, ReplaceTx
  <1>6. UNCHANGED generated \/ \E t \in Tasks : MineRandom(t, Awaited(t))
    BY <1>2, <1>3, <1>4, <1>5 DEF Next
  <1>7. UNCHANGED chainRandom \/ \E t \in Tasks : MineRandom(t, Awaited(t))
    BY RandomStays DEF vars, chainVars
  <1> QED BY <1>1, <1>6, <1>7

LEMMA TaskStepMarks ==
    ASSUME TypeInv, MarkInv, NEW t \in Tasks, TaskStep(t)
    PROVE  MarkInv'
  <1>0. [Next]_vars
    BY DEF Next
  <1>t. pc \in [Tasks -> PCs] /\ txs \in [Tasks -> Transaction]
    BY LeaderTyped
  <1> SUFFICES ASSUME NEW u \in Tasks PROVE MarkTask(u)'
    BY DEF MarkInv
  <1>1. CASE u # t
    <2>1. pc'[u] = pc[u] /\ txs'[u] = txs[u] /\ RoundOf(u) \in Rounds
      BY <1>1, TaskAlone, TaskNames DEF Alone
    <2> QED BY <1>0, <2>1, RandomGrows DEF MarkInv, MarkTask
  <1>2. CASE u = t
    <2>0. RoundOf(t) \in Rounds
      BY TaskNames
    <2>1. pc'[t] = "generated" => Kind(t) = "monitor"
      BY Arrivals DEF Arrived, MonitorGenerates
    <2>2. pc'[t] = "markWrite" => pc[t] = "generated" /\ txs[t].status = "ok"
      BY Arrivals DEF Arrived, TruncateForMark
    <2>3. pc'[t] = "submitted" => Kind(t) # "monitor"
      BY Arrivals DEF Arrived, SubmitRoot, TypeInv, TaskOK
    <2>4. txs'[t].status = "ok" => txs[t].status = "ok"
      BY <1>t, TaskTransaction DEF NoTx, SubmitRoot, MonitorGenerates, Send
    <2> QED BY <1>0, <1>2, <2>0, <2>1, <2>2, <2>3, <2>4, RandomGrows
    DEF MarkInv, MarkTask
  <1> QED BY <1>1, <1>2

LEMMA MineMarks ==
    ASSUME TypeInv, MarkInv, NEW t \in Tasks, Mine(t)
    PROVE  MarkInv'
  <1>0. [Next]_vars /\ UNCHANGED pc
    BY DEF Next, Mine, leaderVars, taskVars
  <1>t. txs \in [Tasks -> Transaction]
    BY LeaderTyped
  <1> SUFFICES ASSUME NEW u \in Tasks PROVE MarkTask(u)'
    BY DEF MarkInv
  <1>1. RoundOf(u) \in Rounds
    BY TaskNames
  <1>2. CASE txs'[u].status = "ok" => txs[u].status = "ok"
    BY <1>0, <1>1, <1>2, RandomGrows DEF MarkInv, MarkTask
  <1>3. CASE txs'[u].status = "ok" /\ txs[u].status # "ok"
    <2>1. u = t /\ (MineRoot(t, Awaited(t)) \/ MineRandom(t, Awaited(t)))
      BY <1>t, <1>3 DEF Mine, MineRoot, MineRandom, MineRevert, ReplaceTx, Receipt, NoTx
    <2>2. CASE MineRoot(t, Awaited(t))
      BY <1>0, <1>1, <2>1, <2>2 DEF MarkInv, MarkTask, MineRoot
    <2>3. CASE MineRandom(t, Awaited(t))
      <3>1. /\ chainRandom' = [chainRandom EXCEPT ![RoundOf(t)] = txs[t].words]
            /\ generated' = [generated EXCEPT ![RoundOf(t)] = @ + 1]
            /\ txs[t].words \in Seq(Secrets)
        BY <2>3 DEF MineRandom, GenerateRandomNumber, TypeInv, TaskOK
      <3>2. chainRandom \in [Rounds -> {NoValue} \cup Seq(Secrets)]
            /\ generated \in [Rounds -> 0..MaxGenerated]
        BY DEF TypeInv, ProtocolTypeOK, ChainTypeOK
      <3>3. chainRandom'[RoundOf(t)] # NoValue
        BY <1>1, <2>1, <3>1, <3>2, NoValueAssumption
      <3>4. generated'[RoundOf(t)] # 0
        BY <1>1, <2>1, <3>1, <3>2, BoundsAssumption
      <3> QED BY <1>0, <2>1, <3>3, <3>4 DEF MarkInv, MarkTask
    <2> QED BY <2>1, <2>2, <2>3
  <1> QED BY <1>2, <1>3

LEMMA NextMarks ==
    ASSUME TypeInv, MarkInv, [Next]_vars
    PROVE  MarkInv'
  <1>1. ASSUME UNCHANGED <<pc, txs>>
        PROVE  MarkInv'
    BY <1>1, RandomGrows, TaskNames DEF MarkInv, MarkTask
  <1>2. ASSUME NEW n \in Nodes, NEW r \in Rounds, NodeStep(n, r) \/ OutsideStep(n, r)
        PROVE  UNCHANGED <<pc, txs>>
    BY <1>2 DEF NodeStep, SendCommit, SendCos, HandleSecretValueRequest, OutsideStep,
                RequestFromOutside, chainVars, leaderVars, taskVars
  <1>3. RegistryStep \/ Lose \/ UNCHANGED vars => UNCHANGED <<pc, txs>>
    BY DEF RegistryStep, Lose, LoseMessage, vars, chainVars, leaderVars, taskVars
  <1>4. CASE Crash
    BY <1>4, CrashClears, RandomGrows, TaskNames DEF MarkInv, MarkTask, NoTx
  <1> QED BY <1>1, <1>2, <1>3, <1>4, TaskStepMarks, MineMarks DEF Next, Restart

\* Only the monitor's own, successful transaction leads to a completion mark.
THEOREM MarkInvariant == Spec => []MarkInv
  <1>1. Init => MarkInv
    BY DEF Init, LeaderInit, ChainInit, NoTx, MarkInv, MarkTask
  <1> QED BY <1>1, NextMarks, TypeInvariant, PTL DEF Spec

-----------------------------------------------------------------------------
FlagsOK(e, r) ==
    /\ e.rootDone => chainRoot[r] # NoValue
    /\ e.rngDone => chainRandom[r] # NoValue

FlagInv ==
    \A r \in Rounds, n \in Nodes :
        FlagsOK(mem[r][n], r) /\ \A e \in Kept(r, n) : FlagsOK(e, r)

LEMMA FlagsKept ==
    ASSUME TypeInv, [Next]_vars, NEW r \in Rounds, NEW e, FlagsOK(e, r)
    PROVE  FlagsOK(e, r)'
  BY RootStays, RandomGrows DEF FlagsOK

\* A task is in updateCommitDataAfterSubmit's loop only for a root on chain (its
\* round would be sealed otherwise), and marks only what has a random number.
LEMMA OriginFlags ==
    ASSUME TypeInv, SealInv, MarkInv, FlagInv, NEW t \in Tasks, NEW r \in Rounds,
           NEW n \in Nodes, NEW e, KeptOrigin(t, e, r, n)
    PROVE  FlagsOK(e, r)
  <1>0. FlagsOK(mem[r][n], r) /\ \A f \in Kept(r, n) : FlagsOK(f, r)
    BY DEF FlagInv
  <1>1. mem[r][n] \in Entry /\ disk[r][n] \in Entry /\ Kept(r, n) \subseteq Entry
    BY CopiesTyped
  <1>2. disk[r][n] \in Kept(r, n)
    BY KeptCopies
  <1>3. CASE Received(e, r, n)
    <2>1. PICK f \in {mem[r][n], disk[r][n]}, m \in inbox :
              e = f \/ e = [f EXCEPT !.cvs = m.value] \/ e = [f EXCEPT !.cos = m.value]
                    \/ e = [f EXCEPT !.secret = m.value]
      BY <1>3 DEF Received
    <2>2. e.rootDone = f.rootDone /\ e.rngDone = f.rngDone
      BY <1>1, <2>1 DEF Entry
    <2> QED BY <1>0, <1>2, <2>1, <2>2 DEF FlagsOK
  <1>4. CASE FlaggedBy(t, e, r, n)
    <2>1. chainRoot[r] # NoValue
      BY <1>4 DEF FlaggedBy, SealInv, SealedRound, TasksQuiet, QuietTask, SecretPCs
    <2> QED BY <1>0, <1>1, <1>4, <2>1 DEF FlaggedBy, FlagsOK, Entry
  <1>5. CASE MarkedBy(t, e, r, n)
    <2>1. chainRandom[r] # NoValue
      BY <1>5 DEF MarkedBy, MarkInv, MarkTask
    <2>2. PICK f \in Kept(r, n) : e = [f EXCEPT !.rngDone = TRUE]
      BY <1>5 DEF MarkedBy
    <2> QED BY <1>0, <1>1, <2>1, <2>2 DEF FlagsOK, Entry
  <1> QED BY <1>0, <1>3, <1>4, <1>5 DEF KeptOrigin, TruncatedBy, NoEntry, FlagsOK

LEMMA NextFlags ==
    ASSUME TypeInv, SealInv, MarkInv, FlagInv, [Next]_vars
    PROVE  FlagInv'
  <1> SUFFICES ASSUME NEW r \in Rounds, NEW n \in Nodes
               PROVE  /\ \A e : e = mem'[r][n] => FlagsOK(e, r)
                      /\ \A e \in Kept(r, n)' : FlagsOK(e, r)
    BY FlagsKept DEF FlagInv, FlagsOK
  <1>1. ASSUME NEW t \in Tasks, TaskStep(t)
        PROVE  FlagsOK(mem'[r][n], r) /\ \A e \in Kept(r, n)' : FlagsOK(e, r)
    <2>1. \A e \in Kept(r, n)' : FlagsOK(e, r)
      BY <1>1, KeptStep, OriginFlags
    <2>2. FlagsOK(mem'[r][n], r)
      <3>1. CASE mem'[r][n] = mem[r][n]
        BY <3>1 DEF FlagInv
      <3>2. CASE /\ pc[t] = "save" /\ RoundOf(t) = r /\ NodeOf(t) = n
                 /\ mem'[r][n] = entry[t]
        <4>1. entry[t] \in Kept(r, n)
          BY <3>2, KeptCopies DEF Writing
        <4> QED BY <3>2, <4>1 DEF FlagInv
      <3>3. CASE FlaggedBy(t, mem'[r][n], r, n)
        BY <3>3, OriginFlags DEF KeptOrigin
      <3> QED BY <1>1, <3>1, <3>2, <3>3, MemStep
    <2> QED BY <2>1, <2>2
  <1>2. CASE Crash
    <2>1. mem'[r][n] = NoEntry
      BY <1>2, CrashClears
    <2>2. \A e \in Kept(r, n)' : e \in Kept(r, n)
      BY <1>2, CrashClears, KeptCopies, KeptCopiesNext DEF Holding, Writing
    <2> QED BY <2>1, <2>2 DEF FlagInv, FlagsOK, NoEntry
  <1>3. CASE UNCHANGED leaderVars
    <2>1. mem'[r][n] = mem[r][n] /\ Kept(r, n)' = Kept(r, n)
      BY <1>3 DEF leaderVars, storeVars, taskVars, Kept
    <2> QED BY <2>1 DEF FlagInv
  <1> QED BY <1>1, <1>2, <1>3, LeaderUntouched DEF vars

\* submit_merkle_root_done and random_number_generated, in memory, in the file
\* and in every copy of it, say only what the chain has confirmed.
THEOREM FlagInvariant == Spec => []FlagInv
  <1>1. Init => FlagInv
    <2> SUFFICES ASSUME Init, NEW r \in Rounds, NEW n \in Nodes
                 PROVE  FlagsOK(mem[r][n], r) /\ \A e \in Kept(r, n) : FlagsOK(e, r)
      BY DEF FlagInv
    <2>1. mem[r][n] = NoEntry /\ \A e \in Kept(r, n) : e = NoEntry
      BY KeptCopies DEF Init, LeaderInit, NoStore, Holding, Writing
    <2> QED BY <2>1 DEF FlagsOK, NoEntry
  <1> QED BY <1>1, NextFlags, TypeInvariant, SealInvariant, MarkInvariant, PTL DEF Spec

\* The leader's records are ahead of nothing, for every number of rounds, tasks
\* at work, failed transactions and restarts.
THEOREM FlagsAreTrue == Spec => []FlagsTruthful
  <1>1. FlagInv => FlagsTruthful
    <2> SUFFICES ASSUME FlagInv, NEW r \in Rounds, NEW n \in Nodes
                 PROVE  /\ mem[r][n].rootDone \/ disk[r][n].rootDone => chainRoot[r] # NoValue
                        /\ disk[r][n].rngDone => chainRandom[r] # NoValue
      BY DEF FlagsTruthful
    <2> QED BY KeptCopies DEF FlagInv, FlagsOK
  <1> QED BY <1>1, FlagInvariant, PTL

-----------------------------------------------------------------------------
(* commitMu is held by one task at a time.                                 *)
LockInv == \A t, u \in Tasks : pc[t] \in LockPCs /\ pc[u] \in LockPCs => t = u

LEMMA LockTaken ==
    ASSUME TypeInv, NEW t \in Tasks, TaskStep(t), pc'[t] \in LockPCs
    PROVE  pc[t] \in LockPCs \/ LockFree
  BY Arrivals DEF LockPCs, Arrived, HandleCommit, HandleCos, RootMined, WriteFlag,
                  ReadForFlag, SaveEntry, DetermineRevealOrder

\* Whatever the order in which handlers, loops and receipts come, at most one
\* of them is between Lock and Unlock.
THEOREM LockInvariant == Spec => []LockInv
  <1>1. Init => LockInv
    BY DEF Init, LeaderInit, LockInv, LockPCs
  <1>2. ASSUME TypeInv, LockInv, [Next]_vars
        PROVE  LockInv'
    <2>1. ASSUME NEW t \in Tasks, TaskStep(t)
          PROVE  LockInv'
      <3>1. \A u \in Tasks \ {t} : pc'[u] = pc[u]
        BY <1>2, <2>1, TaskAlone DEF Alone
      <3> QED BY <1>2, <2>1, <3>1, LockTaken DEF LockInv, LockFree
    <2>2. CASE Crash
      BY <2>2, CrashClears DEF LockInv, LockPCs
    <2>3. CASE UNCHANGED leaderVars
      BY <1>2, <2>3 DEF LockInv, leaderVars, taskVars
    <2> QED BY <1>2, <2>1, <2>2, <2>3, LeaderUntouched DEF vars
  <1> QED BY <1>1, <1>2, TypeInvariant, PTL DEF Spec

-----------------------------------------------------------------------------
(* The commitments stay in the file.  CommitsDurable is not inductive: the *)
(* file is overwritten with what tasks have read earlier, so the invariant *)
(* covers every copy, from the moment a cvs is in memory or a root that    *)
(* binds it is on its way.  A cvs gets into memory under the lock, while   *)
(* no root is on chain, so no task works without the lock - unless a       *)
(* secret is saved early, which the premise excludes.                      *)

Bound(r) ==
    \/ chainRoot[r] # NoValue
    \/ \E t \in Tasks : RoundOf(t) = r /\ Kind(t) # "monitor" /\ txs[t].status = "pending"

OnlyRoot(r) == \A q \in Rounds \ {r} : chainRoot[q] = NoValue

DurableAt(r, n) ==
    mem[r][n].cvs # NoValue \/ Bound(r) => \A e \in Kept(r, n) : e.cvs # NoValue

DurableInv ==
    \A r \in Rounds : generated[r] = 0 /\ OnlyRoot(r) /\ early = {} =>
        \A n \in OperatorSet(r) : DurableAt(r, n)

LEMMA PremiseEarlier ==
    ASSUME TypeInv, [Next]_vars, NEW r \in Rounds, generated'[r] = 0, OnlyRoot(r)',
           early' = {}
    PROVE  generated[r] = 0 /\ OnlyRoot(r) /\ early = {}
  BY RandomGrows, RootStays, EarlyGrows DEF OnlyRoot

\* Copies made of copies with a cvs have it too.
LEMMA OriginKeepsCvs ==
    ASSUME TypeInv, PresentInv, SealInv, MarkInv, NEW t \in Tasks, NEW r \in Rounds,
           NEW n \in Nodes, generated[r] = 0, OnlyRoot(r),
           \A f \in Kept(r, n) : f.cvs # NoValue, NEW e, KeptOrigin(t, e, r, n)
    PROVE  e.cvs # NoValue
  <1>1. mem[r][n] \in Entry /\ disk[r][n] \in Entry /\ Kept(r, n) \subseteq Entry
    BY CopiesTyped
  <1>2. CASE Received(e, r, n)
    <2>1. PICK m \in inbox :
              \/ m.type = "cvs" /\ e = [mem[r][n] EXCEPT !.cvs = m.value]
              \/ e.cvs # NoValue
              \/ mem[r][n].cvs # NoValue /\ e = [mem[r][n] EXCEPT !.cos = m.value]
              \/ e = [disk[r][n] EXCEPT !.secret = m.value]
      BY <1>2 DEF Received
    <2>2. m.type = "cvs" => m.value # NoValue
      BY LeaderTyped, MessageValues, NoValueAssumption
    <2>3. disk[r][n].cvs # NoValue
      BY KeptCopies
    <2> QED BY <1>1, <2>1, <2>2, <2>3 DEF Entry
  <1>3. CASE FlaggedBy(t, e, r, n)
    <2>1. mem[r][n].cvs # NoValue /\ e = [mem[r][n] EXCEPT !.rootDone = TRUE]
      BY <1>3 DEF PresentInv, TaskPresent, FlaggedBy
    <2> QED BY <1>1, <2>1 DEF Entry
  <1>4. CASE MarkedBy(t, e, r, n)
    <2>1. PICK f \in Kept(r, n) : e = [f EXCEPT !.rngDone = TRUE]
      BY <1>4 DEF MarkedBy
    <2> QED BY <1>1, <2>1 DEF Entry
  <1>5. ~TruncatedBy(t, e)
    <2> SUFFICES ASSUME pc[t] = "generated", txs[t].status = "ok" PROVE FALSE
      BY DEF TruncatedBy
    <2>1. RoundOf(t) # r
      BY DEF MarkInv, MarkTask
    <2>2. chainRoot[RoundOf(t)] = NoValue /\ RoundOf(t) \in Rounds
      BY <2>1, TaskNames DEF OnlyRoot
    <2> QED BY <2>2 DEF SealInv, SealedRound, TasksQuiet, QuietTask
  <1> QED BY <1>2, <1>3, <1>4, <1>5 DEF KeptOrigin

\* While no round has a root, the handler that saves an entry is the only task
\* that holds contents of the file.
LEMMA SavedAlone ==
    ASSUME TypeInv, SealInv, LockInv, early = {},
           \A q \in Rounds : chainRoot[q] = NoValue,
           NEW t \in Tasks, TaskStep(t), SaveEntry(t),
           NEW n \in Nodes, NodeOf(t) = n, NEW e \in Kept(RoundOf(t), n)'
    PROVE  e = entry[t]
  <1> DEFINE r == RoundOf(t)
  <1>0. r \in Rounds /\ pc[t] = "save"
    BY TaskNames DEF SaveEntry
  <1>1. ASSUME NEW u \in Tasks, u # t
        PROVE  pc'[u] \notin Holding \cup Writing
    <2>1. pc'[u] = pc[u] /\ RoundOf(u) \in Rounds
      BY <1>1, TaskAlone, TaskNames DEF Alone
    <2>2. pc[u] \in {"idle", "save", "root", "leaves", "submitted"}
      BY <2>1
      DEF SealInv, SealedRound, TasksQuiet, QuietTask, SecretPCs, TypeInv, TaskOK
    <2>3. pc[u] # "save"
      BY <1>0, <1>1 DEF LockInv, LockPCs
    <2> QED BY <2>1, <2>2, <2>3 DEF Holding, Writing
  <1>2. pc'[t] \notin Holding \cup Writing
    BY LeaderTyped DEF SaveEntry, Goto, Holding, Writing
  <1>3. disk' = [file[t] EXCEPT ![r][n] = entry[t]] /\ file[t] \in Store
    BY DEF SaveEntry, TypeInv, TaskOK
  <1>4. disk'[r][n] = entry[t]
    BY <1>0, <1>3 DEF Store
  <1> QED BY <1>0, <1>1, <1>2, <1>4, KeptCopiesNext

LEMMA TaskStepDurable ==
    ASSUME TypeInv, PresentInv, SealInv, MarkInv, LockInv, DurableInv,
           NEW t \in Tasks, TaskStep(t)
    PROVE  DurableInv'
  <1>0. [Next]_vars
    BY DEF Next
  <1> SUFFICES ASSUME NEW r \in Rounds, generated'[r] = 0, OnlyRoot(r)', early' = {},
                      NEW n \in OperatorSet(r), mem'[r][n].cvs # NoValue \/ Bound(r)',
                      NEW e \in Kept(r, n)'
               PROVE  e.cvs # NoValue
    BY DEF DurableInv, DurableAt
  <1>1. n \in Nodes /\ generated[r] = 0 /\ OnlyRoot(r) /\ early = {}
    BY <1>0, OperatorsAreNodes, PremiseEarlier
  <1>2. CASE mem[r][n].cvs # NoValue \/ Bound(r)
    <2>1. \A f \in Kept(r, n) : f.cvs # NoValue
      BY <1>1, <1>2 DEF DurableInv, DurableAt
    <2> QED BY <1>1, <2>1, KeptStep, OriginKeepsCvs
  <1>3. CASE mem[r][n].cvs = NoValue /\ ~Bound(r)
    <2>1. ~Bound(r)'
      <3>1. chainRoot'[r] = NoValue
        <4>1. UNCHANGED chainRoot
          BY DEF TaskStep, HandlerStep, RootStep, MonitorStep, HandleCommit, HandleCos,
                 RejectCos, SaveEntry, DetermineRevealOrder, StartSecretValueRequests,
                 AcceptSecretValue, ReadForSecret, WriteSecret, HandleSecretValueResponse,
                 PollRound, CheckRootFlag, SubmitRoot, SubmitRootFails, RootMined,
                 ReadForFlag, WriteFlag, MonitorRequests, MonitorGenerates, TruncateForMark,
                 WriteMark, TransactionFails, chainVars
        <4> QED BY <1>3, <4>1 DEF Bound
      <3>2. ASSUME NEW u \in Tasks, RoundOf(u) = r, Kind(u) # "monitor",
                   txs'[u].status = "pending"
            PROVE  FALSE
        <4>1. txs'[u] # txs[u]
          BY <1>3, <3>2 DEF Bound
        <4>2. u = t /\ SubmitRoot(t)
          BY <3>2, <4>1, TaskAlone, TaskTransaction DEF Alone, NoTx, MonitorGenerates
        <4> QED BY <1>3, <3>2, <4>2 DEF SubmitRoot
      <3> QED BY <3>1, <3>2 DEF Bound
    <2>2. mem'[r][n].cvs # NoValue /\ mem'[r][n] # mem[r][n]
      BY <1>3, <2>1
    <2>3. ~FlaggedBy(t, mem'[r][n], r, n)
      BY <1>3 DEF FlaggedBy, PresentInv, TaskPresent
    <2>4. SaveEntry(t) /\ pc[t] = "save" /\ RoundOf(t) = r /\ NodeOf(t) = n
      BY <1>1, <2>2, <2>3, MemStep
    <2>5. \A q \in Rounds : chainRoot[q] = NoValue
      BY <1>1, <1>3 DEF OnlyRoot, Bound
    <2>6. e = entry[t]
      BY <1>1, <2>4, <2>5, SavedAlone
    <2> QED BY <2>4, <2>6 DEF PresentInv, TaskPresent
  <1> QED BY <1>2, <1>3

\* Steps that leave the leader alone bind a round no more than it was.
LEMMA DurableFrame ==
    ASSUME TypeInv, DurableInv, [Next]_vars, UNCHANGED leaderVars,
           \A r \in Rounds : Bound(r)' => Bound(r)
    PROVE  DurableInv'
  <1> SUFFICES ASSUME NEW r \in Rounds, generated'[r] = 0, OnlyRoot(r)', early' = {},
                      NEW n \in OperatorSet(r)
               PROVE  DurableAt(r, n)'
    BY DEF DurableInv
  <1>1. mem' = mem /\ Kept(r, n)' = Kept(r, n)
    BY DEF leaderVars, storeVars, taskVars, Kept
  <1> QED BY <1>1, PremiseEarlier DEF DurableInv, DurableAt

LEMMA NextDurable ==
    ASSUME TypeInv, PresentInv, SealInv, MarkInv, LockInv, DurableInv, [Next]_vars
    PROVE  DurableInv'
  <1>1. CASE UNCHANGED leaderVars /\ UNCHANGED chainVars
    BY <1>1, DurableFrame DEF Bound, chainVars
  <1>2. ASSUME NEW n \in Nodes, NEW r \in Rounds, NodeStep(n, r) \/ OutsideStep(n, r)
        PROVE  UNCHANGED leaderVars /\ UNCHANGED chainVars
    BY <1>2 DEF NodeStep, SendCommit, SendCos, HandleSecretValueRequest, OutsideStep,
                RequestFromOutside
  <1>3. RegistryStep \/ Lose \/ UNCHANGED vars => UNCHANGED leaderVars /\ UNCHANGED chainVars
    BY DEF RegistryStep, Lose, LoseMessage, vars
  <1>4. ASSUME NEW t \in Tasks, Mine(t)
        PROVE  DurableInv'
    <2>1. UNCHANGED leaderVars
      BY <1>4 DEF Mine
    <2>2. ASSUME NEW u \in Tasks, txs'[u].status = "pending"
          PROVE  txs[u].status = "pending"
      BY <1>4, <2>2, LeaderTyped
      DEF Mine, MineRoot, MineRandom, MineRevert, ReplaceTx, Receipt, NoTx
    <2>3. ASSUME NEW r \in Rounds, chainRoot'[r] # NoValue
          PROVE  Bound(r)
      <3>1. CASE UNCHANGED chainRoot
        BY <2>3, <3>1 DEF Bound
      <3>2. CASE MineRoot(t, Awaited(t))
        <4>1. chainRoot' = [chainRoot EXCEPT ![RoundOf(t)] = txs[t].words]
          BY <3>2 DEF MineRoot, SubmitMerkleRoot
        <4>2. txs[t].status = "pending" /\ Kind(t) # "monitor"
          BY <3>2 DEF MineRoot
        <4>3. chainRoot'[r] = chainRoot[r] \/ RoundOf(t) = r
          BY <4>1 DEF TypeInv, ProtocolTypeOK, ChainTypeOK
        <4> QED BY <2>3, <4>2, <4>3 DEF Bound
      <3> QED BY <1>4, <3>1, <3>2
              DEF Mine, MineRandom, MineRevert, ReplaceTx, GenerateRandomNumber
    <2>4. \A r \in Rounds : Bound(r)' => Bound(r)
      BY <2>2, <2>3 DEF Bound
    <2> QED BY <2>1, <2>4, DurableFrame
  <1>5. CASE Crash
    <2> SUFFICES ASSUME NEW r \in Rounds, generated'[r] = 0, OnlyRoot(r)', early' = {},
                        NEW n \in OperatorSet(r), mem'[r][n].cvs # NoValue \/ Bound(r)',
                        NEW e \in Kept(r, n)'
                 PROVE  e.cvs # NoValue
      BY DEF DurableInv, DurableAt
    <2>1. n \in Nodes /\ generated[r] = 0 /\ OnlyRoot(r) /\ early = {}
      BY OperatorsAreNodes, PremiseEarlier
    <2>2. mem'[r][n].cvs = NoValue
      BY <1>5, <2>1, CrashClears DEF NoEntry
    <2>3. Bound(r)
      BY <1>5, <2>2, CrashClears DEF Bound, NoTx
    <2>4. e \in Kept(r, n)
      BY <1>5, CrashClears, KeptCopies, KeptCopiesNext DEF Holding, Writing
    <2> QED BY <2>1, <2>3, <2>4 DEF DurableInv, DurableAt
  <1> QED BY <1>1, <1>2, <1>3, <1>4, <1>5, TaskStepDurable DEF Next, Restart

\* A cvs that is in memory, or under a root that is sent or mined, is in every
\* copy of leader_commits.json a task could still write, under the same premise.
THEOREM DurableInvariant == Spec => []DurableInv
  <1>1. Init => DurableInv
    <2> SUFFICES ASSUME Init, NEW r \in Rounds, NEW n \in OperatorSet(r)
                 PROVE  DurableAt(r, n)
      BY DEF DurableInv
    <2>1. mem[r][n].cvs = NoValue
      BY OperatorsAreNodes DEF Init, LeaderInit, NoStore, NoEntry
    <2>2. ~Bound(r)
      BY DEF Init, ChainInit, NoTx, Bound
    <2> QED BY <2>1, <2>2 DEF DurableAt
  <1> QED BY <1>1, NextDurable, TypeInvariant, PresentInvariant, SealInvariant,
             MarkInvariant, LockInvariant, PTL DEF Spec

\* From the root on chain to the random number every operator's cvs stays in the
\* file, for any number of handlers that write stale contents and of restarts,
\* while no other round has a root and no secret was asked for before its root.
THEOREM CommitsStay == Spec => []CommitsDurable
  <1>1. DurableInv => CommitsDurable
    BY KeptCopies DEF DurableInv, DurableAt, OnlyRoot, Bound, CommitsDurable
  <1> QED BY <1>1, DurableInvariant, PTL

=============================================================================
