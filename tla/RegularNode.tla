---------------------------- MODULE RegularNode ----------------------------
(***************************************************************************)
(* A regular node: the round loop of RunRegularNode and the handler of     *)
(* secret value requests.  A node keeps nothing in memory between two      *)
(* iterations, so its restarts add no behaviour.                           *)
(***************************************************************************)
EXTENDS Chain

VARIABLE commits   \* node -> round -> its record in commits.json

Commit == [secret : Secrets, cosSent : BOOLEAN]

ASSUME CommitAssumption == NoValue \notin Commit

RegularTypeOK ==
    commits \in [Nodes -> [Rounds -> {NoValue} \cup Commit]]

RegularInit ==
    commits = [n \in Nodes |-> [r \in Rounds |-> NoValue]]

\* isEOAActivated: the node is among the operators the subgraph lists for the round.
IsEOAActivated(n, r) == n \in OperatorSet(r)

\* commits.json holds one record per round; NoValue is "commit not found".
LoadCommitData(n, r) == commits[n][r]
SaveCommitData(n, r, c) == commits' = [commits EXCEPT ![n][r] = c]

\* sendCommitToLeader: the request with the cvs and its signature; its second
\* SaveCommitData adds the signature, which stands with the cvs here.
SendCommitToLeader(n, r, s) == inbox' = inbox \cup {Msg("cvs", r, n, Cvs(Cos(s)))}
SendCosToLeader(n, r, s)    == inbox' = inbox \cup {Msg("cos", r, n, Cos(s))}

\* Faulty variant: the cvs is sent before the record is saved, and the process
\* may stop in between.
SendCommitUnsaved(n, r) ==
    /\ IsEOAActivated(n, r)
    /\ LoadCommitData(n, r) = NoValue
    /\ \E t \in Stamps :
          LET s == Secret(r, n, t)
          IN  /\ SendCommitToLeader(n, r, s)
              /\ \/ /\ SaveCommitData(n, r, [secret |-> s, cosSent |-> FALSE])
                    /\ UNCHANGED faults
                 \/ Fault /\ UNCHANGED commits
    /\ UNCHANGED chainVars

\* The subgraph shows neither root nor random number (or lags behind them)
\* and commits.json has no record: generate, save, send the cvs and its
\* signature to the leader.
SendCommit(n, r) ==
    /\ IsEOAActivated(n, r)
    /\ LoadCommitData(n, r) = NoValue
    /\ \E t \in Stamps :
          LET s == Secret(r, n, t)
          IN  /\ SaveCommitData(n, r, [secret |-> s, cosSent |-> FALSE])
              /\ SendCommitToLeader(n, r, s)
    /\ UNCHANGED <<faults, chainVars>>

\* Faulty variants: the cos does not wait for the root; the secret goes out in
\* its place.
SendCosEarly(n, r) ==
    /\ IsEOAActivated(n, r)
    /\ LoadCommitData(n, r) # NoValue
    /\ ~LoadCommitData(n, r).cosSent
    /\ SendCosToLeader(n, r, LoadCommitData(n, r).secret)
    /\ SaveCommitData(n, r, [LoadCommitData(n, r) EXCEPT !.cosSent = TRUE])
    /\ UNCHANGED <<faults, chainVars>>

SendSecretAsCos(n, r) ==
    /\ IsEOAActivated(n, r)
    /\ LoadCommitData(n, r) # NoValue
    /\ ~LoadCommitData(n, r).cosSent
    /\ SubgraphShowsRoot(r)
    /\ inbox' = inbox \cup {Msg("cos", r, n, LoadCommitData(n, r).secret)}
    /\ SaveCommitData(n, r, [LoadCommitData(n, r) EXCEPT !.cosSent = TRUE])
    /\ UNCHANGED <<faults, chainVars>>

\* The root is visible and the cos was not sent: send it and save the flag.
\* A process that stops between the two sends it again.
SendCos(n, r) ==
    /\ IsEOAActivated(n, r)
    /\ LoadCommitData(n, r) # NoValue
    /\ ~LoadCommitData(n, r).cosSent
    /\ SubgraphShowsRoot(r)
    /\ SendCosToLeader(n, r, LoadCommitData(n, r).secret)
    /\ \/ /\ SaveCommitData(n, r, [LoadCommitData(n, r) EXCEPT !.cosSent = TRUE])
          /\ UNCHANGED faults
       \/ Fault /\ UNCHANGED commits
    /\ UNCHANGED chainVars

\* The handler checks the signature of a request and loads LEADER_EOA, but does
\* not compare the two: a request need not come from the leader, nor after the root.
RequestFromOutside(n, r) ==
    /\ outside < MaxOutside
    /\ outside' = outside + 1
    /\ early' = IF chainRoot[r] = NoValue THEN early \cup {r} ELSE early
    /\ inbox' = inbox \cup {Msg("request", r, n, NoValue)}
    /\ UNCHANGED <<faults, commits, chainVars>>

\* HandleSecretValueRequest and SendSecretValue: any signed request is answered
\* from commits.json, to the leader; without a record it is dropped.
HandleSecretValueRequest(n, r) ==
    LET req == Msg("request", r, n, NoValue)
    IN  /\ req \in inbox
        /\ inbox' = (inbox \ {req})
                    \cup (IF LoadCommitData(n, r) = NoValue THEN {}
                          ELSE {Msg("secret", r, n, LoadCommitData(n, r).secret)})
        /\ UNCHANGED <<faults, commits, chainVars>>

\* A stream that cannot be opened or read, or a request whose activation query
\* fails: the sender never learns of it.
LoseMessage(m) ==
    /\ Fault
    /\ m \in inbox
    /\ inbox' = inbox \ {m}
    /\ UNCHANGED <<commits, chainVars>>
=============================================================================
