---------------------------- MODULE MCBrokerCore ----------------------------
(* Small instances of BrokerCore for TLC. *)
EXTENDS BrokerCore, TLC

CONSTANTS s1, s2, c1, c2

\* No action and no invariant tells two senders or two connections apart.
Symmetric == Permutations(Sender) \cup Permutations(Conn)

\* Two states that differ only in a local no later step reads before it is
\* assigned again have the same future.
Live(p, labels, x, dead) == IF pc[p] \in labels THEN x ELSE dead

Relevant ==
  LET busy == Label \ {"idle", "live", "closed"}
      acking == {"lookup", "scanNew", "scanCur", "seed", "remove", "decr"}
      msgs == [p \in Proc |->
                 Live(p, IF p \in Conn THEN acking ELSE busy, msg[p], 0)]
      scns == [p \in Proc |-> Live(p, {"scanCur", "seed"}, scan[p], 0)]
      snks == [p \in Proc |->
                 IF p \in Conn THEN sink[p]
                 ELSE Live(p, {"list", "claim", "send"}, sink[p], None)]
  IN <<disk, table, ctr, pc, msgs, scns, todo, claimed, snks, gcpc, hist, bound>>
=============================================================================
