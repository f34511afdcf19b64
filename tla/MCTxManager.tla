----------------------------- MODULE MCTxManager -----------------------------
(* TxManager for TLC, with a check of its graph walk. *)
EXTENDS TxManager

Three == INSTANCE TxManager WITH MaxXid <- 3

\* The loop of wait_for (`current = waits_for[current]` until the waiter or
\* the end of the chain is met), with as many rounds as there are ids.
Walk(g, from, to) ==
    LET visit[n \in 0..3] ==
          IF n = 0 THEN {from}
          ELSE visit[n - 1] \cup {g[x] : x \in visit[n - 1] \ {NoXid}}
    IN  to \in visit[3]

\* ChainReaches is that loop, on every graph of three transactions without a
\* cycle.
ASSUME ChainIsWalk ==
    \A g \in [Three!Xid -> Three!Xid \cup {NoXid}] :
        (\A S \in (SUBSET Three!Xid) \ {{}} : \E x \in S : g[x] \notin S)
            => \A a, b \in Three!Xid : Three!ChainReaches(g, a, b) <=> Walk(g, a, b)
==============================================================================
