----------------------------- MODULE MCSession -----------------------------
(* Instances of Session for TLC. *)
EXTENDS Session, TLC

ConnSymmetry == Permutations(Conns)
ClientSymmetry == Permutations(Conns) \cup Permutations(Reqs)

\* Bounds of the rejoin instance: when the third connection has got in too, so
\* that a token was presented twice, at most one connection goes away, and the
\* third request stays out.  A seat is taken over, or a waiting room resumed, by
\* one that comes.  As long as every token is used once nothing is cut.
Gone == {c \in Conns : pc[c] \in CleanupSteps \cup {"closed"}}
OneLeaves ==
  \/ \E c \in Conns : entry[c] = NoSeat
  \/ Cardinality(Gone) <= 1 /\ \E r \in Reqs : api[r] = "idle"
=============================================================================
