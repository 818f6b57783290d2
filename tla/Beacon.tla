------------------------------- MODULE Beacon ------------------------------
(***************************************************************************)
(* What the system promises, without nodes, files or transactions.  In     *)
(* every round each operator commits to a value, the commitments are fixed *)
(* together, then one random number made of exactly those values appears,  *)
(* and nothing is ever replaced.                                           *)
(***************************************************************************)
EXTENDS Naturals

CONSTANTS Rounds,
          Contributors(_),   \* round -> those who must contribute
          Values,            \* what they may contribute
          NoValue

VARIABLES committed,   \* round -> contributor -> the value it is bound to
          fixed,       \* the rounds whose commitments are fixed
          number       \* round -> the values its random number is made of

vars == <<committed, fixed, number>>

Init ==
    /\ committed = [r \in Rounds |-> [n \in Contributors(r) |-> NoValue]]
    /\ fixed = {}
    /\ number = [r \in Rounds |-> NoValue]

CommitTo(r, n, v) ==
    /\ committed[r][n] = NoValue
    /\ committed' = [committed EXCEPT ![r][n] = v]
    /\ UNCHANGED <<fixed, number>>

Fix(r) ==
    /\ \A n \in Contributors(r) : committed[r][n] # NoValue
    /\ fixed' = fixed \cup {r}
    /\ UNCHANGED <<committed, number>>

Publish(r) ==
    /\ r \in fixed
    /\ number' = [number EXCEPT ![r] = committed[r]]
    /\ UNCHANGED <<committed, fixed>>

Next ==
    \E r \in Rounds :
        \/ \E n \in Contributors(r), v \in Values : CommitTo(r, n, v)
        \/ Fix(r)
        \/ Publish(r)

Spec == Init /\ [][Next]_vars
=============================================================================
