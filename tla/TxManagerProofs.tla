--------------------------- MODULE TxManagerProofs ---------------------------
(***************************************************************************)
(* Machine-checked theorems about TxManager, for any number of sessions,   *)
(* vacuum threads, transaction ids and restarts: its types, its wait graph *)
(* and its wakeups; and, when no crash tears a record, that the answers in *)
(* memory are those a restart recovers, that ids are never reused, and that *)
(* the manager implements TxOutcome.                                       *)
(***************************************************************************)
EXTENDS TxManager, TLAPS, WellFoundedInduction

(***************************************************************************)
(* Lemmas about the log and the operators that replay it.                  *)
(***************************************************************************)

\* A nonempty set of naturals with an upper bound has a greatest element.
LEMMA GreatestExists ==
  ASSUME NEW M \in Nat, NEW S \in SUBSET (0..M), S # {}
  PROVE  \E i \in S : \A j \in S : j <= i
<1> DEFINE T == {M - s : s \in S}
<1>1. T \subseteq Nat /\ T # {}
  <2>1. \A s \in S : M - s \in Nat
    OBVIOUS
  <2>2. PICK s \in S : TRUE
    OBVIOUS
  <2>3. M - s \in T
    OBVIOUS
  <2> QED BY <2>1, <2>3
<1>2. PICK x \in T : \A y \in T : ~(<<y, x>> \in OpToRel(<, Nat))
  BY <1>1, NatLessThanWellFounded, WFMin, Zenon
<1>3. \A y \in T : ~(y < x)
  BY <1>1, <1>2 DEF OpToRel
<1>4. PICK s \in S : x = M - s
  OBVIOUS
<1>5. ASSUME NEW j \in S PROVE j <= s
  <2>1. M - j \in T
    OBVIOUS
  <2>2. ~(M - j < M - s)
    BY <1>3, <1>4, <2>1
  <2> QED BY <2>2
<1> QED BY <1>5

\* Latest returns the greatest element of such a set.
LEMMA LatestIsGreatest ==
  ASSUME NEW M \in Nat, NEW S \in SUBSET (0..M), S # {}
  PROVE  Latest(S) \in S /\ \A j \in S : j <= Latest(S)
BY GreatestExists DEF Latest

\* The records of a log that replay can read, by kind.
LEMMA ReadableRecord ==
  ASSUME NEW l \in Seq(LogRecord), NEW i \in Readable(l)
  PROVE  /\ l[i].op = "Snapshot" => /\ l[i].next \in 1..(MaxXid + 1)
                                    /\ l[i].statuses \in [Xid -> TxStatus \cup {Absent}]
         /\ l[i].op # "Snapshot" => l[i].xid \in Xid
<1>1. l[i] \in LogRecord /\ l[i].op # "Torn"
  BY DEF Readable
<1> QED BY <1>1 DEF LogRecord

\* Replaying a well-typed log yields a status (or nothing) for every id.
LEMMA OpenedStatusType ==
  ASSUME NEW l \in Seq(LogRecord), NEW x \in Xid
  PROVE  /\ ReplayedStatus(l, x) \in TxStatus \cup {Absent}
         /\ OpenedStatus(l, x) \in Final \cup {Absent}
<1>1. SnapshotStatus(l, x) \in TxStatus \cup {Absent}
  <2>1. CASE Snapshots(l) # {}
    <3>1. Snapshots(l) \subseteq 0..Len(l) /\ Len(l) \in Nat
      BY DEF Snapshots, Readable
    <3>2. Latest(Snapshots(l)) \in Snapshots(l)
      BY <2>1, <3>1, LatestIsGreatest
    <3> QED BY <2>1, <3>2, ReadableRecord DEF Snapshots, SnapshotStatus
  <2>2. CASE Snapshots(l) = {}
    BY <2>2 DEF SnapshotStatus
  <2> QED BY <2>1, <2>2
<1>2. ReplayedStatus(l, x) \in TxStatus \cup {Absent}
  BY <1>1 DEF ReplayedStatus, TxStatus, Final
<1> QED BY <1>2 DEF OpenedStatus, TxStatus, Final

\* Reopening a well-typed log resumes with an id in range.
LEMMA OpenedNextIdType ==
  ASSUME NEW l \in Seq(LogRecord)
  PROVE  OpenedNextId(l) \in 1..(MaxXid + 1)
<1>1. ASSUME NEW i \in Readable(l) PROVE IdOf(l[i]) \in 0..MaxXid
  BY ReadableRecord, TxAssumption DEF IdOf, Xid
<1>2. IdsIn(l) \subseteq 0..MaxXid /\ IdsIn(l) # {}
  BY <1>1, TxAssumption DEF IdsIn
<1>3. Latest(IdsIn(l)) \in 0..MaxXid
  BY <1>2, LatestIsGreatest, TxAssumption
<1> QED BY <1>3, TxAssumption DEF OpenedNextId

(***************************************************************************)
(* Type correctness.                                                       *)
(***************************************************************************)

\* What ties a session's own transaction and its target to where it stands.
\* Commit, Abort, wait_for and the crash all read xid[s] or target[s], so the
\* types of the log and of the graph depend on it.
Owned ==
  /\ \A s \in Sessions : xid[s] = NoXid <=> pc[s] \in {"idle", "listing", "forgetting"}
  /\ \A s \in Sessions : target[s] = NoXid <=> pc[s] \notin {"conflict", "waiting", "panicked"}
  /\ \A s \in Sessions : xid[s] < nextId
  /\ \A s, t \in Sessions : s # t /\ xid[s] = xid[t] => xid[s] = NoXid

TypeInv == TypeOK /\ Owned

\* The records a crash may leave at the end of the log are log records.
LEMMA InFlightType ==
  ASSUME TypeInv, NEW tail \in InFlight
  PROVE  tail \in Seq(LogRecord)
<1> USE DEF TypeInv
<1>1. ASSUME NEW r \in LogRecord PROVE <<r>> \in Seq(LogRecord)
  OBVIOUS
<1>2. CASE tail = <<>>
  BY <1>2
<1>3. ASSUME nextId <= MaxXid, tail = <<Rec("Begin", nextId)>>
      PROVE  tail \in Seq(LogRecord)
  <2>1. Rec("Begin", nextId) \in LogRecord
    BY <1>3, TxAssumption DEF TypeOK, Rec, LogRecord, Xid
  <2> QED BY <1>1, <1>3, <2>1
<1>4. ASSUME NEW s \in Sessions, pc[s] \in {"active", "failed", "deadlock"},
             NEW op \in {"Commit", "Abort"}, tail = <<Rec(op, xid[s])>>
      PROVE  tail \in Seq(LogRecord)
  <2>1. xid[s] \in Xid
    BY <1>4 DEF TypeOK, Owned
  <2>2. Rec(op, xid[s]) \in LogRecord
    BY <1>4, <2>1 DEF Rec, LogRecord
  <2> QED BY <1>1, <1>4, <2>2
<1>5. CASE tail = <<[op |-> "Torn"]>>
  <2>1. [op |-> "Torn"] \in LogRecord
    BY DEF LogRecord
  <2> QED BY <1>1, <1>5, <2>1
<1> QED BY <1>2, <1>3, <1>4, <1>5 DEF InFlight, Appending

\* Every step preserves the types and the ownership of transactions.
LEMMA TypeInvStep == TypeInv /\ [Next]_vars => TypeInv'
<1> SUFFICES ASSUME TypeInv, [Next]_vars PROVE TypeInv'
  OBVIOUS
<1> USE TxAssumption DEF TypeInv
<1>a. \A r \in LogRecord : log \o <<r>> \in Seq(LogRecord) /\ Append(log, r) \in Seq(LogRecord)
  BY DEF TypeOK
<1>b. \A op \in {"Begin", "Commit", "Abort"}, x \in Xid : Rec(op, x) \in LogRecord
  BY DEF Rec, LogRecord
<1>c. \A s \in Sessions : pc[s] \notin {"idle", "listing", "forgetting"} => xid[s] \in Xid
  BY DEF TypeOK, Owned
<1>1. ASSUME NEW s \in Sessions, Begin(s) PROVE TypeInv'
  <2>1. nextId \in Xid /\ nextId' \in 1..(MaxXid + 1)
    BY <1>1 DEF Begin, TypeOK, Xid
  <2>2. TypeOK'
    BY <1>1, <1>a, <1>b, <2>1 DEF Begin, Goto, TypeOK, TxStatus, PC
  <2>3. Owned'
    BY <1>1, <2>1 DEF Begin, Goto, TypeOK, Owned, Xid, NoXid
  <2> QED BY <2>2, <2>3
<1>2. ASSUME NEW s \in Sessions, Finish(s) PROVE TypeInv'
  <2>1. xid[s] \in Xid
    BY <1>2, <1>c DEF Finish, Commit, Abort
  <2>2. TypeOK'
    <3>1. CASE Commit(s)
      BY <3>1, <1>a, <1>b, <2>1 DEF Commit, Goto, TypeOK, TxStatus, Final, PC
    <3>2. CASE Abort(s)
      BY <3>2, <1>a, <1>b, <2>1 DEF Abort, Goto, TypeOK, TxStatus, Final, PC
    <3> QED BY <1>2, <3>1, <3>2 DEF Finish
  <2>3. Owned'
    BY <1>2 DEF Finish, Commit, Abort, Goto, TypeOK, Owned
  <2> QED BY <2>2, <2>3
<1>3. ASSUME NEW s \in Sessions, Notify(s) PROVE TypeInv'
  <2>1. TypeOK'
    BY <1>3 DEF Notify, NotifyAll, Waiting, Goto, memory, TypeOK, PC
  <2>2. Owned'
    <3>1. CASE pc[s] = "notify"
      <4>1. /\ pc' = [pc EXCEPT ![s] = "idle"] /\ xid' = [xid EXCEPT ![s] = NoXid]
            /\ UNCHANGED <<target, nextId>>
        BY <1>3, <3>1 DEF Notify, Goto, memory
      <4>2. NoXid < nextId
        BY DEF TypeOK, NoXid
      <4> QED BY <3>1, <4>1, <4>2 DEF TypeOK, Owned
    <3>2. CASE pc[s] = "notifyLoser"
      BY <1>3, <3>2 DEF Notify, Goto, memory, TypeOK, Owned
    <3> QED BY <1>3, <3>1, <3>2 DEF Notify
  <2> QED BY <2>1, <2>2
<1>4. ASSUME NEW s \in Sessions, NEW other \in Xid, FindConflict(s, other) PROVE TypeInv'
  <2>1. TypeOK'
    BY <1>4 DEF FindConflict, Goto, memory, TypeOK, PC
  <2>2. Owned'
    BY <1>4 DEF FindConflict, Goto, memory, TypeOK, Owned, Xid, NoXid
  <2> QED BY <2>1, <2>2
<1>5. ASSUME NEW s \in Sessions, WaitFor(s) PROVE TypeInv'
  <2>1. TypeOK'
    <3>1. CASE WaitForReturns(s)
      BY <3>1 DEF WaitForReturns, Goto, memory, TypeOK, PC
    <3>2. CASE WaitForDeadlocks(s)
      BY <3>2 DEF WaitForDeadlocks, Goto, memory, TypeOK, PC
    <3>3. CASE WaitForBlocks(s)
      BY <3>3, <1>c DEF WaitForBlocks, Goto, memory, TypeOK, PC
    <3>4. CASE WaitForPanics(s)
      BY <3>4 DEF WaitForPanics, Goto, memory, TypeOK, PC
    <3> QED BY <1>5, <3>1, <3>2, <3>3, <3>4 DEF WaitFor
  <2>2. Owned'
    <3>1. CASE WaitForReturns(s)
      BY <3>1 DEF WaitForReturns, Goto, memory, TypeOK, Owned, Xid, NoXid
    <3>2. CASE WaitForDeadlocks(s)
      BY <3>2 DEF WaitForDeadlocks, Goto, memory, TypeOK, Owned, Xid, NoXid
    <3>3. CASE WaitForBlocks(s)
      BY <3>3 DEF WaitForBlocks, Goto, memory, TypeOK, Owned, Xid, NoXid
    <3>4. CASE WaitForPanics(s)
      BY <3>4 DEF WaitForPanics, Goto, memory, TypeOK, Owned, Xid, NoXid
    <3> QED BY <1>5, <3>1, <3>2, <3>3, <3>4 DEF WaitFor
  <2> QED BY <2>1, <2>2
<1>6. ASSUME NEW s \in Sessions, Wake(s) PROVE TypeInv'
  <2>1. TypeOK'
    BY <1>6 DEF Wake, EdgeRemoved, Goto, TypeOK, PC
  <2>2. Owned'
    BY <1>6 DEF Wake, EdgeRemoved, Goto, TypeOK, Owned, Xid, NoXid
  <2> QED BY <2>1, <2>2
<1>7. ASSUME NEW s \in Sessions, VacuumCheck(s) \/ Vacuum(s) PROVE TypeInv'
  <2>1. [op |-> "Snapshot", next |-> nextId, statuses |-> statuses] \in LogRecord
    BY DEF TypeOK, LogRecord
  <2>2. TypeOK'
    <3>1. CASE VacuumCheck(s) \/ VacuumList(s)
      BY <3>1 DEF VacuumCheck, VacuumList, Goto, memory, TypeOK, PC
    <3>2. ASSUME NEW x \in Xid, Forget(s, x) PROVE TypeOK'
      BY <3>2 DEF Forget, TypeOK
    <3>3. CASE Compact(s)
      BY <3>3, <2>1 DEF Compact, Goto, memory, TypeOK, PC
    <3> QED BY <1>7, <3>1, <3>2, <3>3 DEF Vacuum
  <2>3. Owned'
    BY <1>7 DEF VacuumCheck, Vacuum, VacuumList, Forget, Compact, Goto, memory,
                TypeOK, Owned, Xid, NoXid
  <2> QED BY <2>2, <2>3
<1>8. ASSUME Restart PROVE TypeInv'
  <2>1. PICK tail \in InFlight : /\ log' = log \o tail
                                 /\ outcome' = [x \in Xid |-> Survives(x, tail)]
    BY <1>8 DEF Restart
  <2>2. log' \in Seq(LogRecord)
    BY <2>1, InFlightType DEF TypeOK
  <2>3. statuses' \in [Xid -> TxStatus \cup {Absent}]
    BY <1>8, <2>2, OpenedStatusType DEF Restart, TxStatus
  <2>4. nextId' \in 1..(MaxXid + 1)
    BY <1>8, <2>2, OpenedNextIdType DEF Restart
  <2>5. outcome' \in [Xid -> TxStatus \cup {Absent}]
    BY <2>1 DEF Survives, TypeOK, TxStatus, Final
  <2>6. TypeOK'
    BY <1>8, <2>2, <2>3, <2>4, <2>5 DEF Restart, TypeOK, PC
  <2>7. Owned'
    BY <1>8, <2>4 DEF Restart, Owned, NoXid
  <2> QED BY <2>6, <2>7
<1>9. CASE UNCHANGED vars
  BY <1>9 DEF vars, memory, threads, TypeOK, Owned
<1> QED
  BY <1>1, <1>2, <1>3, <1>4, <1>5, <1>6, <1>7, <1>8, <1>9 DEF Next, Finish, Halted

\* The invariant holds, in the form in which the proofs below use it.
LEMMA TypeInvHolds == Spec => []TypeInv
<1>1. Init => TypeInv
  BY TxAssumption DEF Init, TypeInv, TypeOK, Owned, TxStatus, PC, Xid, NoXid
<1>2. QED
  BY <1>1, TypeInvStep, PTL DEF Spec

\* In every reachable state each variable has its type, and each session has
\* the transaction, and waits for the one, that its position calls for.
THEOREM TypeCorrect == Spec => [](TypeOK /\ Owned)
BY TypeInvHolds DEF TypeInv

(***************************************************************************)
(* The waits-for graph.                                                    *)
(***************************************************************************)

\* An edge that wait_for enters after its walk closes no cycle: a set that
\* the new edge leaves without an exit would, cut down to a closed set the
\* walk stayed in, have had none before.
LEMMA SafeEdge ==
  ASSUME NEW g \in [Xid -> Xid \cup {NoXid}], NEW w \in Xid, NEW o \in Xid,
         \A S \in (SUBSET Xid) \ {{}} : \E x \in S : g[x] \notin S,
         ~ChainReaches(g, o, w),
         NEW S \in (SUBSET Xid) \ {{}}
  PROVE  \E x \in S : [g EXCEPT ![w] = o][x] \notin S
<1> DEFINE h == [g EXCEPT ![w] = o]
<1>1. SUFFICES ASSUME \A x \in S : h[x] \in S PROVE FALSE
  OBVIOUS
<1>2. CASE w \notin S
  BY <1>1, <1>2
<1>3. CASE w \in S
  <2>1. o \in S
    BY <1>1, <1>3
  <2>2. PICK C \in SUBSET Xid : /\ o \in C /\ w \notin C
                                /\ \A x \in C : g[x] # NoXid => g[x] \in C
    BY DEF ChainReaches
  <2>3. PICK x \in S \cap C : g[x] \notin S \cap C
    BY <2>1, <2>2
  <2>4. g[x] = h[x] /\ g[x] \in S
    BY <1>1, <2>2, <2>3
  <2>5. g[x] # NoXid
    BY <2>4 DEF Xid, NoXid
  <2> QED BY <2>2, <2>3, <2>4, <2>5
<1> QED BY <1>2, <1>3

\* No step creates a cycle in the waits-for graph.
LEMMA NoWaitCycleStep == TypeInv /\ NoWaitCycle /\ [Next]_vars => NoWaitCycle'
<1> SUFFICES ASSUME TypeInv, NoWaitCycle, [Next]_vars PROVE NoWaitCycle'
  OBVIOUS
<1>1. ASSUME NEW s \in Sessions, WaitForBlocks(s) PROVE NoWaitCycle'
  <2>1. xid[s] \in Xid /\ target[s] \in Xid
    BY <1>1 DEF WaitForBlocks, TypeInv, TypeOK, Owned
  <2>2. waitsFor \in [Xid -> Xid \cup {NoXid}]
    BY DEF TypeInv, TypeOK
  <2>3. /\ waitsFor' = [waitsFor EXCEPT ![xid[s]] = target[s]]
        /\ ~ChainReaches(waitsFor, target[s], xid[s])
    BY <1>1 DEF WaitForBlocks
  <2> QED BY <2>1, <2>2, <2>3, SafeEdge DEF NoWaitCycle
<1>2. ASSUME NEW s \in Sessions, Wake(s) PROVE NoWaitCycle'
  <2>1. CASE UNCHANGED waitsFor
    BY <2>1 DEF NoWaitCycle
  <2>2. CASE waitsFor' = [waitsFor EXCEPT ![xid[s]] = NoXid]
    <3>1. \A x \in Xid : waitsFor'[x] \in {waitsFor[x], NoXid}
      BY <2>2 DEF TypeInv, TypeOK
    <3>2. \A S \in SUBSET Xid : NoXid \notin S
      BY DEF Xid, NoXid
    <3> QED BY <3>1, <3>2 DEF NoWaitCycle
  <2> QED BY <1>2, <2>1, <2>2 DEF Wake, EdgeRemoved
<1>3. CASE Restart
  <2>1. \A S \in SUBSET Xid : NoXid \notin S
    BY DEF Xid, NoXid
  <2> QED BY <1>3, <2>1 DEF Restart, NoWaitCycle
<1>4. CASE UNCHANGED waitsFor
  BY <1>4 DEF NoWaitCycle
<1> QED
  BY <1>1, <1>2, <1>3, <1>4
  DEF Next, vars, memory, Begin, Commit, Abort, Notify, FindConflict, WaitFor,
      WaitForReturns, WaitForDeadlocks, WaitForPanics, VacuumCheck, Vacuum,
      VacuumList, Forget, Compact, Halted

\* No step leaves an edge behind or drops the edge of a blocked thread.
LEMMA EdgesStep == TypeInv /\ EdgesAreWaiters /\ [Next]_vars => EdgesAreWaiters'
<1> SUFFICES ASSUME TypeInv, EdgesAreWaiters, [Next]_vars, ~Poisoned'
             PROVE  \A x, y \in Xid : waitsFor'[x] = y <=>
                       \E s \in Sessions : pc'[s] = "waiting" /\ xid'[s] = x /\ target'[s] = y
  BY DEF EdgesAreWaiters
<1> USE DEF TypeInv
<1>1. CASE Restart
  BY <1>1 DEF Restart, NoXid, Xid
<1>2. ASSUME ~Restart PROVE ~Poisoned
  <2>1. ASSUME Poisoned, pc' = pc PROVE FALSE
    BY <2>1 DEF Poisoned
  <2>2. ASSUME Poisoned, NEW s \in Sessions, Notify(s) PROVE FALSE
    <3>1. PICK t \in Sessions : pc[t] = "panicked"
      BY <2>2 DEF Poisoned
    <3>2. pc'[t] = "panicked"
      BY <2>2, <3>1 DEF Notify, Goto, TypeOK
    <3> QED BY <3>2 DEF Poisoned
  <2> QED
    BY <1>2, <2>1, <2>2
    DEF Next, vars, threads, Begin, Commit, Abort, FindConflict, WaitFor, WaitForReturns,
        WaitForDeadlocks, WaitForBlocks, WaitForPanics, Wake, VacuumCheck, Vacuum,
        VacuumList, Forget, Compact, Halted
<1>3. ASSUME ~Restart
      PROVE  \A x, y \in Xid : waitsFor[x] = y <=>
                \E s \in Sessions : pc[s] = "waiting" /\ xid[s] = x /\ target[s] = y
  BY <1>2, <1>3 DEF EdgesAreWaiters
<1>4. ASSUME NEW s \in Sessions, WaitForBlocks(s), ~Restart
      PROVE  \A x, y \in Xid : waitsFor'[x] = y <=>
                \E t \in Sessions : pc'[t] = "waiting" /\ xid'[t] = x /\ target'[t] = y
  <2>1. /\ pc[s] = "conflict" /\ pc' = [pc EXCEPT ![s] = "waiting"]
        /\ waitsFor' = [waitsFor EXCEPT ![xid[s]] = target[s]]
        /\ UNCHANGED <<xid, target>>
    BY <1>4 DEF WaitForBlocks, Goto
  <2>2. \A t \in Sessions : pc[t] = "waiting" => xid[t] # xid[s]
    BY <2>1 DEF Owned
  <2> QED BY <1>3, <1>4, <2>1, <2>2 DEF TypeOK
<1>5. ASSUME NEW s \in Sessions, Wake(s), ~Restart
      PROVE  \A x, y \in Xid : waitsFor'[x] = y <=>
                \E t \in Sessions : pc'[t] = "waiting" /\ xid'[t] = x /\ target'[t] = y
  <2>1. CASE UNCHANGED <<waitsFor, target, pc>>
    BY <1>3, <1>5, <2>1 DEF Wake, EdgeRemoved
  <2>2. CASE /\ pc' = [pc EXCEPT ![s] = "active"]
             /\ waitsFor' = [waitsFor EXCEPT ![xid[s]] = NoXid]
             /\ target' = [target EXCEPT ![s] = NoXid]
    <3>1. pc[s] = "waiting" /\ xid' = xid
      BY <1>5 DEF Wake, EdgeRemoved
    <3>2. \A t \in Sessions : t # s /\ pc[t] = "waiting" => xid[t] # xid[s]
      BY <3>1 DEF Owned
    <3> QED BY <1>3, <1>5, <2>2, <3>1, <3>2 DEF TypeOK, NoXid, Xid
  <2> QED BY <1>5, <2>1, <2>2 DEF Wake, EdgeRemoved, Goto
<1>6. ASSUME UNCHANGED waitsFor, ~Restart,
             \A t \in Sessions : \/ pc[t] # "waiting" /\ pc'[t] # "waiting"
                                 \/ /\ pc[t] = "waiting" /\ pc'[t] = "waiting"
                                    /\ xid'[t] = xid[t] /\ target'[t] = target[t]
      PROVE  \A x, y \in Xid : waitsFor'[x] = y <=>
                \E t \in Sessions : pc'[t] = "waiting" /\ xid'[t] = x /\ target'[t] = y
  BY <1>3, <1>6
<1>7. ASSUME NEW s \in Sessions,
             \/ Begin(s) \/ Finish(s) \/ Notify(s) \/ (\E other \in Xid : FindConflict(s, other))
             \/ WaitForReturns(s) \/ WaitForDeadlocks(s) \/ VacuumCheck(s) \/ Vacuum(s)
      PROVE  /\ UNCHANGED waitsFor
             /\ \A t \in Sessions : \/ pc[t] # "waiting" /\ pc'[t] # "waiting"
                                    \/ /\ pc[t] = "waiting" /\ pc'[t] = "waiting"
                                       /\ xid'[t] = xid[t] /\ target'[t] = target[t]
  BY <1>7 DEF Begin, Finish, Commit, Abort, Notify, FindConflict, WaitForReturns,
              WaitForDeadlocks, VacuumCheck, Vacuum, VacuumList, Forget, Compact,
              Goto, memory, TypeOK
<1>8. ASSUME NEW s \in Sessions, WaitForPanics(s), ~Restart PROVE FALSE
  <2>1. pc'[s] = "panicked"
    BY <1>8 DEF WaitForPanics, Goto, TypeOK
  <2> QED BY <2>1 DEF Poisoned
<1>9. CASE UNCHANGED vars
  BY <1>2, <1>9 DEF vars, memory, threads, EdgesAreWaiters, Poisoned
<1> QED
  BY <1>1, <1>4, <1>5, <1>6, <1>7, <1>8, <1>9 DEF Next, Finish, WaitFor, Halted

\* No deadlock among waiting transactions, and a waits-for graph that mirrors
\* exactly the blocked threads, so that wait_for's walk always terminates.
THEOREM WaitGraphCorrect == Spec => [](NoWaitCycle /\ EdgesAreWaiters)
<1>1. Init => NoWaitCycle /\ EdgesAreWaiters
  BY DEF Init, NoWaitCycle, EdgesAreWaiters, Xid, NoXid
<1>2. QED
  BY <1>1, NoWaitCycleStep, EdgesStep, TypeInvHolds, PTL DEF Spec

Untorn(l) == \A i \in DOMAIN l : l[i].op # "Torn"

(***************************************************************************)
(* How one more record changes what a log replays to.                      *)
(***************************************************************************)

\* Latest picks one of the positions it is given, the greatest.
LEMMA LatestPosition ==
  ASSUME NEW n \in Nat, NEW S \in SUBSET (1..n), S # {}
  PROVE  Latest(S) \in S /\ \A j \in S : j <= Latest(S)
<1>1. S \subseteq 0..n
  OBVIOUS
<1> QED BY <1>1, LatestIsGreatest

\* Appending a record leaves the old records in force.
LEMMA AppendParts ==
  ASSUME NEW l \in Seq(LogRecord), Untorn(l),
         NEW op \in {"Begin", "Commit", "Abort"}, NEW x \in Xid
  PROVE  LET m == Append(l, Rec(op, x))
         IN  /\ Untorn(m)
             /\ Readable(l) = DOMAIN l /\ Readable(m) = DOMAIN l \cup {Len(l) + 1}
             /\ Snapshots(m) = Snapshots(l)
             /\ Current(m) = Current(l) \cup {Len(l) + 1}
             /\ \A i \in DOMAIN l : m[i] = l[i]
             /\ m[Len(l) + 1] = Rec(op, x)
<1> DEFINE m == Append(l, Rec(op, x))
<1>1. /\ DOMAIN l = 1..Len(l) /\ Len(l) \in Nat /\ DOMAIN m = 1..(Len(l) + 1)
      /\ \A i \in DOMAIN l : m[i] = l[i]
      /\ m[Len(l) + 1] = Rec(op, x)
  OBVIOUS
<1>2. Rec(op, x).op \notin {"Torn", "Snapshot"}
  BY DEF Rec
<1> HIDE DEF m
<1>3. Untorn(m)
  BY <1>1, <1>2 DEF Untorn
<1>4. Readable(l) = DOMAIN l /\ Readable(m) = DOMAIN l \cup {Len(l) + 1}
  BY <1>1, <1>3 DEF Untorn, Readable
<1>5. Snapshots(m) = Snapshots(l)
  BY <1>1, <1>2, <1>4 DEF Snapshots
<1>6. Current(m) = Current(l) \cup {Len(l) + 1}
  BY <1>1, <1>4, <1>5 DEF Current, Snapshots
<1> QED BY <1>1, <1>3, <1>4, <1>5, <1>6 DEF m

\* The id of the new record joins the ids of the log.
LEMMA AppendIds ==
  ASSUME NEW l \in Seq(LogRecord), Untorn(l),
         NEW op \in {"Begin", "Commit", "Abort"}, NEW x \in Xid
  PROVE  IdsIn(Append(l, Rec(op, x))) = IdsIn(l) \cup {x}
<1> DEFINE m == Append(l, Rec(op, x))
<1>1. /\ Readable(l) = DOMAIN l /\ Readable(m) = DOMAIN l \cup {Len(l) + 1}
      /\ \A i \in DOMAIN l : m[i] = l[i]
      /\ m[Len(l) + 1] = Rec(op, x)
  BY AppendParts
<1>2. IdOf(Rec(op, x)) = x
  BY DEF IdOf, Rec
<1> HIDE DEF m
<1> QED BY <1>1, <1>2 DEF IdsIn, m

\* A verdict decides its own transaction and nobody else's.
LEMMA AppendVerdict ==
  ASSUME NEW l \in Seq(LogRecord), Untorn(l),
         NEW op \in {"Commit", "Abort"}, NEW x \in Xid
  PROVE  LET m == Append(l, Rec(op, x))
         IN  /\ ReplayedStatus(m, x) = IF op = "Commit" THEN "Committed" ELSE "Aborted"
             /\ \A y \in Xid \ {x} : ReplayedStatus(m, y) = ReplayedStatus(l, y)
<1> DEFINE m == Append(l, Rec(op, x))
           n == Len(l) + 1
<1>1. /\ Readable(l) = DOMAIN l /\ Readable(m) = DOMAIN l \cup {n}
      /\ Snapshots(m) = Snapshots(l)
      /\ Current(m) = Current(l) \cup {n}
      /\ \A i \in DOMAIN l : m[i] = l[i]
      /\ m[n] = Rec(op, x)
  BY AppendParts
<1>2. DOMAIN l = 1..Len(l) /\ Len(l) \in Nat
  OBVIOUS
<1> HIDE DEF m
<1>3. ReplayedStatus(m, x) = IF op = "Commit" THEN "Committed" ELSE "Aborted"
  <2>1. n \in Verdicts(m, x) /\ Verdicts(m, x) \subseteq 1..n
    BY <1>1, <1>2 DEF Verdicts, Current
  <2>2. Latest(Verdicts(m, x)) \in 1..n /\ n <= Latest(Verdicts(m, x))
    <3>1. n \in Nat
      BY <1>2
    <3> HIDE DEF n
    <3>2. /\ Latest(Verdicts(m, x)) \in Verdicts(m, x)
          /\ \A j \in Verdicts(m, x) : j <= Latest(Verdicts(m, x))
      BY <2>1, <3>1, LatestPosition
    <3> QED BY <2>1, <3>2
  <2>3. Latest(Verdicts(m, x)) = n
    BY <1>2, <2>2
  <2>4. m[n].op = op
    BY <1>1 DEF Rec
  <2> QED BY <2>1, <2>3, <2>4 DEF ReplayedStatus
<1>4. ASSUME NEW y \in Xid \ {x} PROVE ReplayedStatus(m, y) = ReplayedStatus(l, y)
  <2>1. Verdicts(m, y) = Verdicts(l, y)
    BY <1>1, <1>2 DEF Verdicts, Current, Rec
  <2>2. SnapshotStatus(m, y) = SnapshotStatus(l, y)
    <3>1. Snapshots(l) # {} => Latest(Snapshots(l)) \in DOMAIN l
      <4>1. Snapshots(l) \subseteq 1..Len(l)
        BY <1>1, <1>2 DEF Snapshots
      <4> QED BY <1>2, <4>1, LatestPosition
    <3> QED BY <1>1, <3>1 DEF SnapshotStatus
  <2>3. Verdicts(l, y) # {} => Latest(Verdicts(l, y)) \in DOMAIN l
    <3>1. Verdicts(l, y) \subseteq 1..Len(l)
      BY <1>1, <1>2 DEF Verdicts, Current
    <3> QED BY <1>2, <3>1, LatestPosition
  <2>4. (\E i \in Current(m) : m[i] = Rec("Begin", y))
          <=> (\E i \in Current(l) : l[i] = Rec("Begin", y))
    BY <1>1, <1>2 DEF Current, Rec
  <2> QED BY <1>1, <2>1, <2>2, <2>3, <2>4 DEF ReplayedStatus
<1> QED BY <1>3, <1>4 DEF m

\* A Begin makes its transaction run if nothing was known of it.
LEMMA AppendBegin ==
  ASSUME NEW l \in Seq(LogRecord), Untorn(l), NEW x \in Xid,
         ReplayedStatus(l, x) = Absent
  PROVE  LET m == Append(l, Rec("Begin", x))
         IN  /\ ReplayedStatus(m, x) = "InProgress"
             /\ \A y \in Xid \ {x} : ReplayedStatus(m, y) = ReplayedStatus(l, y)
<1> DEFINE m == Append(l, Rec("Begin", x))
           n == Len(l) + 1
<1>1. /\ Readable(l) = DOMAIN l /\ Readable(m) = DOMAIN l \cup {n}
      /\ Snapshots(m) = Snapshots(l)
      /\ Current(m) = Current(l) \cup {n}
      /\ \A i \in DOMAIN l : m[i] = l[i]
      /\ m[n] = Rec("Begin", x)
  BY AppendParts
<1>2. DOMAIN l = 1..Len(l) /\ Len(l) \in Nat
  OBVIOUS
<1> HIDE DEF m
<1>3. ASSUME NEW y \in Xid
      PROVE  /\ Verdicts(m, y) = Verdicts(l, y)
             /\ SnapshotStatus(m, y) = SnapshotStatus(l, y)
             /\ Verdicts(l, y) # {} => m[Latest(Verdicts(l, y))] = l[Latest(Verdicts(l, y))]
  <2>1. Verdicts(m, y) = Verdicts(l, y)
    BY <1>1, <1>2 DEF Verdicts, Current, Rec
  <2>2. Snapshots(l) # {} => Latest(Snapshots(l)) \in DOMAIN l
    <3>1. Snapshots(l) \subseteq 1..Len(l)
      BY <1>1, <1>2 DEF Snapshots
    <3> QED BY <1>2, <3>1, LatestPosition
  <2>3. Verdicts(l, y) # {} => Latest(Verdicts(l, y)) \in DOMAIN l
    <3>1. Verdicts(l, y) \subseteq 1..Len(l)
      BY <1>1, <1>2 DEF Verdicts, Current
    <3> QED BY <1>2, <3>1, LatestPosition
  <2> QED BY <1>1, <2>1, <2>2, <2>3 DEF SnapshotStatus
<1>4. ReplayedStatus(m, x) = "InProgress"
  <2>1. Verdicts(l, x) = {} /\ SnapshotStatus(l, x) = Absent
    BY DEF ReplayedStatus, Absent
  <2> QED BY <1>1, <1>3, <2>1 DEF ReplayedStatus
<1>5. ASSUME NEW y \in Xid \ {x} PROVE ReplayedStatus(m, y) = ReplayedStatus(l, y)
  <2>1. (\E i \in Current(m) : m[i] = Rec("Begin", y))
          <=> (\E i \in Current(l) : l[i] = Rec("Begin", y))
    BY <1>1, <1>2 DEF Current, Rec
  <2> QED BY <1>3, <2>1 DEF ReplayedStatus
<1> QED BY <1>4, <1>5 DEF m

\* A log that is one Snapshot replays to the statuses it holds.
LEMMA SnapshotReplay ==
  ASSUME NEW r, r.op = "Snapshot", r.statuses \in [Xid -> TxStatus \cup {Absent}]
  PROVE  /\ Untorn(<<r>>)
         /\ \A x \in Xid : ReplayedStatus(<<r>>, x) = r.statuses[x]
         /\ IdsIn(<<r>>) = {0, r.next - 1}
<1>1. DOMAIN <<r>> = {1} /\ <<r>>[1] = r
  OBVIOUS
<1>2. Readable(<<r>>) = {1}
  BY <1>1 DEF Readable
<1>3. Snapshots(<<r>>) = {1}
  BY <1>1, <1>2 DEF Snapshots
<1>4. Latest({1}) = 1
  BY LatestIsGreatest
<1>5. ASSUME NEW x \in Xid PROVE ReplayedStatus(<<r>>, x) = r.statuses[x]
  <2>1. ~ \E i \in Current(<<r>>) : \E op \in {"Begin", "Commit", "Abort"} : <<r>>[i] = Rec(op, x)
    BY <1>1, <1>2 DEF Current, Rec
  <2>2. Verdicts(<<r>>, x) = {}
    BY <2>1 DEF Verdicts
  <2>3. SnapshotStatus(<<r>>, x) = r.statuses[x]
    BY <1>1, <1>3, <1>4 DEF SnapshotStatus
  <2> QED BY <2>1, <2>2, <2>3 DEF ReplayedStatus
<1>6. IdsIn(<<r>>) = {0, r.next - 1}
  BY <1>1, <1>2 DEF IdsIn, IdOf
<1> QED BY <1>1, <1>5, <1>6 DEF Untorn

(***************************************************************************)
(* The inductive invariant.                                                *)
(***************************************************************************)

\* What the log and the map say about a transaction, given its true outcome:
\* the map may have forgotten a finished one, the log may have too, neither
\* says anything false, and what the map knows the log knows.
Faithful(x) ==
  /\ outcome[x] = Absent <=> nextId <= x
  /\ statuses[x] \in {Absent, outcome[x]}
  /\ outcome[x] = Absent => ReplayedStatus(log, x) = Absent
  /\ outcome[x] = "InProgress" => statuses[x] = "InProgress"
                                  /\ ReplayedStatus(log, x) = "InProgress"
  /\ outcome[x] \in Final => OpenedStatus(log, x) \in {Absent, outcome[x]}
  /\ statuses[x] \in Final => OpenedStatus(log, x) = statuses[x]

\* Where a session stands says how its transaction is doing.
Running(s) ==
  /\ pc[s] \in {"active", "conflict", "waiting", "deadlock"} => outcome[xid[s]] = "InProgress"
  /\ pc[s] \in {"notifyLoser", "failed"} => outcome[xid[s]] = "Aborted"
  /\ \A x \in doomed[s] : outcome[x] \in Final

LogInv ==
  /\ Untorn(log)
  /\ nextId - 1 \in IdsIn(log)
  /\ \A k \in IdsIn(log) : k < nextId
  /\ \A x \in Xid : Faithful(x)
  /\ \A s \in Sessions : Running(s)

\* The id a log resumes with follows from its greatest id.
LEMMA ResumeAt ==
  ASSUME NEW l, NEW n \in Nat \ {0}, n - 1 \in IdsIn(l), IdsIn(l) \subseteq Nat,
         \A k \in IdsIn(l) : k < n
  PROVE  OpenedNextId(l) = n
<1>1. IdsIn(l) \subseteq 0..(n - 1) /\ n - 1 \in Nat
  OBVIOUS
<1>2. Latest(IdsIn(l)) \in IdsIn(l) /\ n - 1 <= Latest(IdsIn(l))
  BY <1>1, LatestIsGreatest
<1>3. Latest(IdsIn(l)) = n - 1
  BY <1>1, <1>2
<1> QED BY <1>3 DEF OpenedNextId

\* LogInv contains what the runs check.
LEMMA LogInvImplies == TypeInv /\ LogInv => LogCoversMemory
<1> SUFFICES ASSUME TypeInv, LogInv PROVE LogCoversMemory
  OBVIOUS
<1>1. ASSUME NEW x \in Xid, statuses[x] # Absent
      PROVE  OpenedStatus(log, x) = IF statuses[x] = "InProgress" THEN "Aborted" ELSE statuses[x]
  BY <1>1 DEF LogInv, Faithful, TypeInv, TypeOK, TxStatus, Final, OpenedStatus, Absent
<1>2. IdsIn(log) \subseteq Nat
  BY ReadableRecord DEF IdsIn, IdOf, TypeInv, TypeOK, Xid
<1>3. OpenedNextId(log) = nextId
  BY <1>2, ResumeAt DEF LogInv, TypeInv, TypeOK
<1> QED BY <1>1, <1>3 DEF LogCoversMemory

\* It holds of a new manager with an empty log.
LEMMA LogInvInit == Init => LogInv
<1> SUFFICES ASSUME Init PROVE LogInv
  OBVIOUS
<1>1. /\ Readable(<<>>) = {} /\ IdsIn(<<>>) = {0}
      /\ \A x \in Xid : ReplayedStatus(<<>>, x) = Absent
  BY DEF Readable, IdsIn, ReplayedStatus, Verdicts, Current, SnapshotStatus, Snapshots
<1> QED BY <1>1 DEF Init, LogInv, Untorn, Faithful, Running, Xid, Final, Absent

\* begin() keeps the invariant: nothing was known of the id it hands out.
LEMMA BeginStep ==
  ASSUME TypeInv, LogInv, NEW s \in Sessions, Begin(s)
  PROVE  LogInv'
<1> USE DEF Absent
<1>1. nextId \in Xid /\ log \in Seq(LogRecord) /\ Untorn(log)
  BY DEF Begin, TypeInv, TypeOK, LogInv, Xid
<1>2. outcome[nextId] = Absent /\ ReplayedStatus(log, nextId) = Absent
  BY <1>1 DEF LogInv, Faithful, Xid
<1>3. log' = Append(log, Rec("Begin", nextId))
  BY DEF Begin
<1>4. /\ ReplayedStatus(log', nextId) = "InProgress"
      /\ \A y \in Xid \ {nextId} : ReplayedStatus(log', y) = ReplayedStatus(log, y)
  BY <1>1, <1>2, <1>3, AppendBegin
<1>5. Untorn(log') /\ IdsIn(log') = IdsIn(log) \cup {nextId}
  BY <1>1, <1>3, AppendParts, AppendIds
<1>6. nextId' = nextId + 1 /\ nextId \in Nat
  BY DEF Begin, TypeInv, TypeOK
<1>7. ASSUME NEW x \in Xid PROVE Faithful(x)'
  <2>1. CASE x = nextId
    BY <1>1, <1>4, <1>6, <2>1 DEF Begin, TypeInv, TypeOK, Faithful, Final, Xid
  <2>2. CASE x # nextId
    <3>1. Faithful(x) /\ x \in Nat
      BY DEF LogInv, Xid
    <3>2. /\ outcome'[x] = outcome[x] /\ statuses'[x] = statuses[x]
          /\ ReplayedStatus(log', x) = ReplayedStatus(log, x)
      BY <1>4, <2>2 DEF Begin, TypeInv, TypeOK
    <3>3. nextId' <= x <=> nextId <= x
      BY <1>6, <2>2, <3>1
    <3> QED BY <3>1, <3>2, <3>3 DEF Faithful, OpenedStatus
  <2> QED BY <2>1, <2>2
<1>8. ASSUME NEW t \in Sessions PROVE Running(t)'
  <2>1. CASE t = s
    <3>1. outcome'[xid'[s]] = "InProgress" /\ pc'[s] = "active"
      BY <1>1 DEF Begin, Goto, TypeInv, TypeOK
    <3>2. \A x \in Xid : outcome[x] \in Final => outcome'[x] \in Final
      BY <1>1, <1>2 DEF Begin, TypeInv, TypeOK, Final
    <3>3. doomed'[s] = doomed[s] /\ doomed[s] \subseteq Xid
      BY DEF Begin, TypeInv, TypeOK
    <3> QED BY <2>1, <3>1, <3>2, <3>3 DEF LogInv, Running
  <2>2. CASE t # s
    <3>1. pc'[t] = pc[t] /\ xid'[t] = xid[t] /\ doomed'[t] = doomed[t]
      BY <2>2 DEF Begin, Goto, TypeInv, TypeOK
    <3>2. \A x \in Xid : outcome[x] # Absent => outcome'[x] = outcome[x]
      BY <1>1, <1>2 DEF Begin, TypeInv, TypeOK
    <3>3. doomed[t] \subseteq Xid /\ (xid[t] \in Xid \/ pc[t] \in {"idle", "listing", "forgetting"})
      BY DEF TypeInv, TypeOK, Owned
    <3> QED BY <3>1, <3>2, <3>3 DEF LogInv, Running, Final
  <2> QED BY <2>1, <2>2
<1>9. nextId' - 1 \in IdsIn(log') /\ \A k \in IdsIn(log') : k < nextId'
  <2>1. \A k \in IdsIn(log) : k \in Nat
    BY <1>1, ReadableRecord DEF IdsIn, IdOf, Xid
  <2> QED BY <1>5, <1>6, <2>1 DEF LogInv
<1> QED BY <1>5, <1>7, <1>8, <1>9 DEF LogInv

\* commit() and abort() keep it: the verdict they log is the outcome.
LEMMA FinishStep ==
  ASSUME TypeInv, LogInv, NEW s \in Sessions, Finish(s)
  PROVE  LogInv'
<1> DEFINE v == IF Commit(s) THEN "Commit" ELSE "Abort"
           r == IF v = "Commit" THEN "Committed" ELSE "Aborted"
           x == xid[s]
<1>1. /\ x \in Xid /\ log \in Seq(LogRecord) /\ Untorn(log)
      /\ outcome[x] \in {"InProgress", r}
  BY DEF Finish, Commit, Abort, TypeInv, TypeOK, Owned, LogInv, Running
<1>2. /\ log' = Append(log, Rec(v, x))
      /\ statuses' = [statuses EXCEPT ![x] = r]
      /\ outcome' = [outcome EXCEPT ![x] = r]
      /\ UNCHANGED <<nextId, xid, doomed>>
      /\ pc'[s] \in {"notify", "notifyLoser"} /\ (pc'[s] = "notifyLoser" => r = "Aborted")
      /\ \A t \in Sessions \ {s} : pc'[t] = pc[t]
  BY DEF Finish, Commit, Abort, Goto, TypeInv, TypeOK
<1>3. v \in {"Commit", "Abort"} /\ r \in Final
  BY DEF Final
<1> HIDE DEF v, r, x
<1>4. /\ ReplayedStatus(log', x) = r
      /\ \A y \in Xid \ {x} : ReplayedStatus(log', y) = ReplayedStatus(log, y)
  BY <1>1, <1>2, <1>3, AppendVerdict DEF r
<1>5. Untorn(log') /\ IdsIn(log') = IdsIn(log) \cup {x}
  BY <1>1, <1>2, <1>3, AppendParts, AppendIds
<1>6. outcome[x] # Absent /\ ~(nextId <= x) /\ x < nextId
  <2>1. outcome[x] # Absent
    BY <1>1, <1>3 DEF Absent, Final
  <2> QED BY <1>1, <2>1 DEF LogInv, Faithful, TypeInv, TypeOK, Xid
<1>7. ASSUME NEW y \in Xid PROVE Faithful(y)'
  <2>1. CASE y = x
    <3>1. outcome'[x] = r /\ statuses'[x] = r /\ nextId' = nextId
      BY <1>1, <1>2 DEF TypeInv, TypeOK
    <3>2. OpenedStatus(log', x) = r
      BY <1>3, <1>4 DEF OpenedStatus, Final
    <3> QED BY <1>3, <1>6, <2>1, <3>1, <3>2 DEF Faithful, Final, Absent
  <2>2. CASE y # x
    <3>1. Faithful(y)
      BY DEF LogInv
    <3>2. /\ outcome'[y] = outcome[y] /\ statuses'[y] = statuses[y] /\ nextId' = nextId
          /\ ReplayedStatus(log', y) = ReplayedStatus(log, y)
      BY <1>2, <1>4, <2>2 DEF TypeInv, TypeOK
    <3> QED BY <3>1, <3>2 DEF Faithful, OpenedStatus
  <2> QED BY <2>1, <2>2
<1>8. ASSUME NEW t \in Sessions PROVE Running(t)'
  <2>1. \A y \in doomed'[t] : outcome'[y] \in Final
    <3>1. doomed'[t] = doomed[t] /\ doomed[t] \subseteq Xid
      BY <1>2 DEF TypeInv, TypeOK
    <3> QED BY <1>2, <1>3, <3>1 DEF LogInv, Running, TypeInv, TypeOK
  <2>2. CASE t = s
    <3>1. outcome'[xid'[s]] = r
      BY <1>1, <1>2 DEF x, TypeInv, TypeOK
    <3> QED BY <1>2, <2>1, <2>2, <3>1 DEF Running
  <2>3. CASE t # s
    <3>1. xid[t] = NoXid \/ xid[t] # x
      BY <2>3 DEF x, TypeInv, Owned
    <3>2. outcome'[xid[t]] = outcome[xid[t]]
      BY <1>1, <1>2, <3>1 DEF TypeInv, TypeOK, Xid, NoXid
    <3> QED BY <1>2, <2>1, <2>3, <3>2 DEF LogInv, Running
  <2> QED BY <2>2, <2>3
<1> QED BY <1>2, <1>5, <1>6, <1>7, <1>8 DEF LogInv

\* Reopening the log, with whatever the crash left at its end, keeps it.
LEMMA RestartStep ==
  ASSUME TypeInv, LogInv, ~TornTail, Restart
  PROVE  LogInv'
<1>1. PICK tail \in InFlight : /\ log' = log \o tail
                               /\ outcome' = [x \in Xid |-> Survives(x, tail)]
  BY DEF Restart
<1>2. log \in Seq(LogRecord) /\ Untorn(log) /\ nextId \in Nat
  BY DEF TypeInv, TypeOK, LogInv
<1>3. /\ statuses' = [x \in Xid |-> OpenedStatus(log', x)]
      /\ nextId' = OpenedNextId(log')
  BY DEF Restart
<1>4. \A s \in Sessions : Running(s)'
  BY DEF Restart, Running
<1>a. IdsIn(log) \subseteq Nat
  BY <1>2, ReadableRecord DEF IdsIn, IdOf, Xid
\* It is enough that the log now says of each transaction what survived.
<1>5. SUFFICES /\ Untorn(log')
               /\ \E n \in {nextId, nextId + 1} :
                    /\ n - 1 \in IdsIn(log') /\ \A k \in IdsIn(log') : k < n
                    /\ IdsIn(log') \subseteq Nat
                    /\ \A x \in Xid : outcome'[x] = Absent <=> n <= x
               /\ \A x \in Xid : OpenedStatus(log', x) \in {Absent, outcome'[x]}
               /\ \A x \in Xid : outcome'[x] = Absent => ReplayedStatus(log', x) = Absent
  <2>1. \A x \in Xid : outcome'[x] # "InProgress"
    BY <1>1 DEF Survives
  <2>2. PICK n \in {nextId, nextId + 1} :
           /\ n - 1 \in IdsIn(log') /\ \A k \in IdsIn(log') : k < n
           /\ IdsIn(log') \subseteq Nat
           /\ \A x \in Xid : outcome'[x] = Absent <=> n <= x
    BY <1>5
  <2>3. n \in Nat \ {0}
    BY <1>2 DEF TypeInv, TypeOK
  <2>4. nextId' = n
    BY <1>3, <2>2, <2>3, ResumeAt
  <2>5. \A x \in Xid : statuses'[x] = OpenedStatus(log', x)
    BY <1>3
  <2>6. \A x \in Xid : Faithful(x)'
    BY <1>5, <2>1, <2>2, <2>4, <2>5 DEF Faithful, Final, Absent
  <2> QED BY <1>4, <1>5, <2>2, <2>4, <2>6 DEF LogInv
<1>6. CASE tail = <<>>
  <2>1. log' = log
    BY <1>1, <1>2, <1>6
  <2>2. \A x \in Xid : outcome'[x] = IF outcome[x] = "InProgress" THEN "Aborted" ELSE outcome[x]
    BY <1>1, <1>6 DEF Survives
  <2>3. \A x \in Xid : OpenedStatus(log', x) \in {Absent, outcome'[x]}
    BY <2>1, <2>2 DEF LogInv, Faithful, OpenedStatus, TypeInv, TypeOK, TxStatus, Final, Absent
  <2>4. \A x \in Xid : outcome'[x] = Absent <=> outcome[x] = Absent
    BY <2>2 DEF Absent
  <2> QED BY <1>2, <1>a, <2>1, <2>3, <2>4 DEF LogInv, Faithful
<1>7. CASE tail = <<Rec("Begin", nextId)>> /\ nextId <= MaxXid
  <2>1. nextId \in Xid
    BY <1>7 DEF TypeInv, TypeOK, Xid
  <2>2. log' = Append(log, Rec("Begin", nextId))
    BY <1>1, <1>2, <1>7
  <2>3. outcome[nextId] = Absent /\ ReplayedStatus(log, nextId) = Absent
    BY <1>2, <2>1 DEF LogInv, Faithful
  <2>4. /\ ReplayedStatus(log', nextId) = "InProgress"
        /\ \A y \in Xid \ {nextId} : ReplayedStatus(log', y) = ReplayedStatus(log, y)
        /\ Untorn(log') /\ IdsIn(log') = IdsIn(log) \cup {nextId}
    BY <1>2, <2>1, <2>2, <2>3, AppendBegin, AppendParts, AppendIds
  <2>5. outcome'[nextId] = "Aborted"
        /\ \A y \in Xid \ {nextId} :
              outcome'[y] = IF outcome[y] = "InProgress" THEN "Aborted" ELSE outcome[y]
    BY <1>1, <1>7, <2>1 DEF Survives, Rec
  <2>6. ASSUME NEW x \in Xid
        PROVE  /\ OpenedStatus(log', x) \in {Absent, outcome'[x]}
               /\ outcome'[x] = Absent => ReplayedStatus(log', x) = Absent
               /\ outcome'[x] = Absent <=> nextId + 1 <= x
    <3>1. CASE x = nextId
      BY <1>2, <2>4, <2>5, <3>1 DEF OpenedStatus, Absent
    <3>2. CASE x # nextId
      <4>1. Faithful(x) /\ x \in Nat
        BY DEF LogInv, Xid
      <4>2. OpenedStatus(log', x) \in {Absent, outcome'[x]}
        BY <2>4, <2>5, <3>2, <4>1 DEF Faithful, OpenedStatus, TypeInv, TypeOK, TxStatus, Final, Absent
      <4>3. outcome'[x] = Absent <=> outcome[x] = Absent
        BY <2>5, <3>2 DEF Absent
      <4> QED BY <1>2, <2>4, <3>2, <4>1, <4>2, <4>3 DEF Faithful
    <3> QED BY <3>1, <3>2
  <2>7. \A k \in IdsIn(log') : k < nextId + 1
    BY <1>2, <1>a, <2>4 DEF LogInv
  <2>8. IdsIn(log') \subseteq Nat /\ (nextId + 1) - 1 \in IdsIn(log')
    BY <1>2, <1>a, <2>4
  <2> QED BY <2>4, <2>6, <2>7, <2>8
<1>8. ASSUME NEW s \in Sessions, NEW op \in {"Commit", "Abort"}, tail = <<Rec(op, xid[s])>>,
             pc[s] \in {"active", "failed", "deadlock"}, op = "Commit" => pc[s] = "active"
      PROVE  /\ Untorn(log')
             /\ \E n \in {nextId, nextId + 1} :
                  /\ n - 1 \in IdsIn(log') /\ \A k \in IdsIn(log') : k < n
                  /\ IdsIn(log') \subseteq Nat
                  /\ \A x \in Xid : outcome'[x] = Absent <=> n <= x
             /\ \A x \in Xid : OpenedStatus(log', x) \in {Absent, outcome'[x]}
             /\ \A x \in Xid : outcome'[x] = Absent => ReplayedStatus(log', x) = Absent
  <2> DEFINE w == xid[s]
             r == IF op = "Commit" THEN "Committed" ELSE "Aborted"
  <2>1. w \in Xid /\ outcome[w] \in {"InProgress", "Aborted"}
        /\ (op = "Commit" => outcome[w] = "InProgress")
    BY <1>8 DEF TypeInv, TypeOK, Owned, LogInv, Running
  <2>2. log' = Append(log, Rec(op, w))
    BY <1>1, <1>2, <1>8
  <2>3. outcome'[w] = r
    BY <1>1, <1>8, <2>1 DEF Survives, Rec
  <2>4. \A y \in Xid \ {w} :
           outcome'[y] = IF outcome[y] = "InProgress" THEN "Aborted" ELSE outcome[y]
    BY <1>1, <1>8, <2>1 DEF Survives, Rec
  <2> HIDE DEF w
  <2>5. /\ ReplayedStatus(log', w) = r
        /\ \A y \in Xid \ {w} : ReplayedStatus(log', y) = ReplayedStatus(log, y)
        /\ Untorn(log') /\ IdsIn(log') = IdsIn(log) \cup {w}
    BY <1>2, <1>8, <2>1, <2>2, AppendVerdict, AppendParts, AppendIds
  <2>6. ASSUME NEW x \in Xid
        PROVE  /\ OpenedStatus(log', x) \in {Absent, outcome'[x]}
               /\ outcome'[x] = Absent => ReplayedStatus(log', x) = Absent
               /\ outcome'[x] = Absent <=> nextId <= x
    <3>1. CASE x = w
      BY <2>1, <2>3, <2>5, <3>1 DEF LogInv, Faithful, OpenedStatus, Absent
    <3>2. CASE x # w
      <4>1. Faithful(x)
        BY DEF LogInv
      <4>2. OpenedStatus(log', x) \in {Absent, outcome'[x]}
        BY <2>4, <2>5, <3>2, <4>1 DEF Faithful, OpenedStatus, TypeInv, TypeOK, TxStatus, Final, Absent
      <4>3. outcome'[x] = Absent <=> outcome[x] = Absent
        BY <2>4, <3>2 DEF Absent
      <4> QED BY <2>5, <3>2, <4>1, <4>2, <4>3 DEF Faithful
    <3> QED BY <3>1, <3>2
  <2>7. w < nextId /\ w \in Nat
    BY <1>2, <2>1 DEF LogInv, Faithful, Xid, Absent
  <2> QED BY <1>2, <1>a, <2>5, <2>6, <2>7 DEF LogInv
<1> QED BY <1>6, <1>7, <1>8 DEF InFlight, Appending


\* A step that leaves log, map and outcomes alone need only respect Running.
LEMMA QuietStep ==
  ASSUME LogInv, UNCHANGED <<nextId, statuses, log, outcome>>,
         \A s \in Sessions : Running(s)'
  PROVE  LogInv'
BY DEF LogInv, Faithful, OpenedStatus

\* Waking others, meeting a conflict and waiting change no transaction.
LEMMA WaitStep ==
  ASSUME TypeInv, LogInv, NEW s \in Sessions,
         \/ Notify(s) \/ (\E other \in Xid : FindConflict(s, other))
         \/ WaitFor(s) \/ Wake(s)
  PROVE  LogInv'
<1>1. /\ UNCHANGED <<nextId, statuses, log, outcome, doomed>>
      /\ \A t \in Sessions \ {s} : pc'[t] = pc[t] /\ xid'[t] = xid[t]
  BY DEF Notify, FindConflict, WaitFor, WaitForReturns, WaitForPanics, WaitForDeadlocks,
         WaitForBlocks, Wake, Goto, TypeInv, TypeOK, memory
<1>2. \/ pc'[s] \in {"idle", "panicked"}
      \/ /\ xid'[s] = xid[s]
         /\ \/ pc[s] = "notifyLoser" /\ pc'[s] = "failed"
            \/ /\ pc[s] \in {"active", "conflict", "waiting"}
               /\ pc'[s] \in {"active", "conflict", "waiting", "deadlock"}
  BY DEF Notify, FindConflict, WaitFor, WaitForReturns, WaitForPanics, WaitForDeadlocks,
         WaitForBlocks, Wake, Goto, TypeInv, TypeOK
<1>3. ASSUME NEW t \in Sessions PROVE Running(t)'
  <2>1. CASE t = s
    BY <1>1, <1>2, <2>1 DEF LogInv, Running
  <2>2. CASE t # s
    BY <1>1, <2>2 DEF LogInv, Running
  <2> QED BY <2>1, <2>2
<1> QED BY <1>1, <1>3, QuietStep

\* Everything vacuum_all is about to forget is finished, and stays so.
LEMMA VacuumStep ==
  ASSUME TypeInv, LogInv, NEW s \in Sessions,
         VacuumCheck(s) \/ VacuumList(s) \/ \E x \in Xid : Forget(s, x)
  PROVE  LogInv'
<1>1. CASE VacuumCheck(s) \/ VacuumList(s)
  <2>1. UNCHANGED <<nextId, statuses, log, outcome, xid>>
    BY <1>1 DEF VacuumCheck, VacuumList, memory
  <2>2. ASSUME NEW t \in Sessions PROVE Running(t)'
    <3>1. \A x \in doomed'[t] : outcome[x] \in Final
      <4>1. doomed'[t] = doomed[t] \/ \A x \in doomed'[t] : x \in Xid /\ statuses[x] \in Final
        BY <1>1 DEF VacuumCheck, VacuumList, TypeInv, TypeOK
      <4> QED BY <4>1 DEF LogInv, Running, Faithful, Final, Absent
    <3>2. pc'[t] = pc[t] \/ pc'[t] \in {"listing", "forgetting"}
      BY <1>1 DEF VacuumCheck, VacuumList, Goto, TypeInv, TypeOK
    <3> QED BY <2>1, <3>1, <3>2 DEF LogInv, Running
  <2> QED BY <2>1, <2>2, QuietStep
<1>2. ASSUME NEW x \in Xid, Forget(s, x) PROVE LogInv'
  <2>1. outcome[x] \in Final
    BY <1>2 DEF Forget, LogInv, Running
  <2>2. /\ statuses'[x] = Absent /\ \A y \in Xid \ {x} : statuses'[y] = statuses[y]
        /\ UNCHANGED <<nextId, log, outcome, pc, xid>>
        /\ \A t \in Sessions : doomed'[t] \subseteq doomed[t]
    BY <1>2 DEF Forget, TypeInv, TypeOK
  <2>3. ASSUME NEW y \in Xid PROVE Faithful(y)'
    BY <2>1, <2>2 DEF LogInv, Faithful, OpenedStatus, Final, Absent
  <2>4. \A t \in Sessions : Running(t)'
    BY <2>2 DEF LogInv, Running
  <2> QED BY <2>2, <2>3, <2>4 DEF LogInv
<1> QED BY <1>1, <1>2

\* compact() keeps exactly what the map holds, and the id counter.
LEMMA CompactStep ==
  ASSUME TypeInv, LogInv, NEW s \in Sessions, Compact(s)
  PROVE  LogInv'
<1> DEFINE r == [op |-> "Snapshot", next |-> nextId, statuses |-> statuses]
<1>1. /\ log' = <<r>> /\ r.op = "Snapshot" /\ r.next = nextId /\ r.statuses = statuses
      /\ UNCHANGED <<nextId, statuses, outcome, xid, doomed>>
      /\ pc' = [pc EXCEPT ![s] = "idle"]
  BY DEF Compact, Goto, memory
<1> HIDE DEF r
<1>2. statuses \in [Xid -> TxStatus \cup {Absent}] /\ nextId \in Nat \ {0}
  BY DEF TypeInv, TypeOK
<1>3. /\ Untorn(log') /\ \A x \in Xid : ReplayedStatus(log', x) = statuses[x]
      /\ IdsIn(log') = {0, nextId - 1}
  BY <1>1, <1>2, SnapshotReplay
<1>4. \A x \in Xid : Faithful(x)'
  BY <1>1, <1>3 DEF LogInv, Faithful, OpenedStatus, Final, Absent
<1>5. \A t \in Sessions : Running(t)'
  BY <1>1 DEF LogInv, Running, TypeInv, TypeOK
<1> QED BY <1>1, <1>2, <1>3, <1>4, <1>5 DEF LogInv

\* Every step preserves it, when a crash falls between two records.
LEMMA LogInvStep == TypeInv /\ LogInv /\ ~TornTail /\ [Next]_vars => LogInv'
<1> SUFFICES ASSUME TypeInv, LogInv, ~TornTail, [Next]_vars PROVE LogInv'
  OBVIOUS
<1>1. CASE Restart
  BY <1>1, RestartStep
<1>2. ASSUME NEW s \in Sessions, Begin(s) PROVE LogInv'
  BY <1>2, BeginStep
<1>3. ASSUME NEW s \in Sessions, Commit(s) \/ Abort(s) PROVE LogInv'
  BY <1>3, FinishStep DEF Finish
<1>4. ASSUME NEW s \in Sessions,
             \/ Notify(s) \/ (\E other \in Xid : FindConflict(s, other))
             \/ WaitFor(s) \/ Wake(s)
      PROVE  LogInv'
  BY <1>4, WaitStep
<1>5. ASSUME NEW s \in Sessions, VacuumCheck(s) \/ Vacuum(s) PROVE LogInv'
  BY <1>5, VacuumStep, CompactStep DEF Vacuum
<1>6. CASE UNCHANGED vars
  <2>1. UNCHANGED <<nextId, statuses, log, outcome, pc, xid, doomed>>
    BY <1>6 DEF vars, memory, threads
  <2>2. \A s \in Sessions : Running(s)'
    BY <2>1 DEF LogInv, Running
  <2> QED BY <2>1, <2>2, QuietStep
<1> QED BY <1>1, <1>2, <1>3, <1>4, <1>5, <1>6 DEF Next, Halted

\* For any sessions, ids and crashes: at every instant a crash would recover
\* exactly the answers and the id counter that are in memory.
THEOREM LogCovers == ASSUME ~TornTail PROVE Spec => []LogCoversMemory
<1>1. Init => LogInv
  BY LogInvInit
<1>2. TypeInv /\ LogInv /\ [Next]_vars => LogInv'
  BY LogInvStep
<1>3. TypeInv /\ LogInv => LogCoversMemory
  BY LogInvImplies
<1>4. Spec => []TypeInv
  BY TypeInvHolds
<1> QED BY <1>1, <1>2, <1>3, <1>4, PTL DEF Spec

(***************************************************************************)
(* Ids are fresh, and the manager keeps the promise of TxOutcome.          *)
(***************************************************************************)

\* No step gives a session an id that any transaction had before: only
\* begin() hands one out, and beyond all that memory and log know of.
THEOREM IdsAreFresh == ASSUME ~TornTail PROVE Spec => FreshIds
<1> DEFINE Fresh(s) == xid'[s] \notin {xid[s], NoXid} => outcome[xid'[s]] = Absent
<1>1. ASSUME TypeInv, LogInv, [Next]_vars, NEW s \in Sessions PROVE Fresh(s)
  <2>1. ASSUME NEW t \in Sessions, Begin(t) PROVE Fresh(s)
    <3>1. nextId \in Xid
      BY <1>1, <2>1 DEF Begin, TypeInv, TypeOK, Xid
    <3>2. outcome[nextId] = Absent
      BY <1>1, <3>1 DEF LogInv, Faithful, Xid
    <3> QED BY <1>1, <2>1, <3>2 DEF Begin, TypeInv, TypeOK
  <2>2. ASSUME NEW t \in Sessions, Notify(t) PROVE Fresh(s)
    BY <1>1, <2>2 DEF Notify, TypeInv, TypeOK
  <2>3. CASE Restart
    BY <2>3 DEF Restart
  <2>4. CASE UNCHANGED xid
    BY <2>4
  <2> QED BY <1>1, <2>1, <2>2, <2>3, <2>4 DEF Next, Commit, Abort, FindConflict, WaitFor,
         WaitForReturns, WaitForPanics, WaitForDeadlocks, WaitForBlocks, Wake, VacuumCheck,
         Vacuum, VacuumList, Forget, Compact, Halted, vars, threads
<1>2. TypeInv /\ LogInv /\ [Next]_vars => [\A s \in Sessions : Fresh(s)]_vars
  BY <1>1
<1>3. Init => LogInv
  BY LogInvInit
<1>4. TypeInv /\ LogInv /\ [Next]_vars => LogInv'
  BY LogInvStep
<1>5. Spec => []TypeInv
  BY TypeInvHolds
<1> QED BY <1>2, <1>3, <1>4, <1>5, PTL DEF Spec, FreshIds

\* What a log knows of a transaction it still knows after the crash's record.
LEMMA TailRemembers ==
  ASSUME TypeInv, LogInv, ~TornTail, NEW tail \in InFlight, NEW x \in Xid,
         OpenedStatus(log, x) # Absent
  PROVE  OpenedStatus(log \o tail, x) # Absent
<1>1. log \in Seq(LogRecord) /\ Untorn(log)
  BY DEF TypeInv, TypeOK, LogInv
<1>2. CASE tail = <<>>
  BY <1>1, <1>2
<1>3. CASE tail = <<Rec("Begin", nextId)>> /\ nextId <= MaxXid
  <2>1. nextId \in Xid /\ log \o tail = Append(log, Rec("Begin", nextId))
    BY <1>1, <1>3 DEF TypeInv, TypeOK, Xid
  <2>2. ReplayedStatus(log, nextId) = Absent
    BY <2>1 DEF LogInv, Faithful, Xid
  <2>3. x # nextId
    BY <2>2 DEF OpenedStatus, Absent
  <2> QED BY <1>1, <2>1, <2>2, <2>3, AppendBegin DEF OpenedStatus
<1>4. ASSUME NEW s \in Sessions, NEW op \in {"Commit", "Abort"}, tail = <<Rec(op, xid[s])>>,
             pc[s] \in {"active", "failed", "deadlock"}
      PROVE  OpenedStatus(log \o tail, x) # Absent
  <2>1. xid[s] \in Xid /\ log \o tail = Append(log, Rec(op, xid[s]))
    BY <1>1, <1>4 DEF TypeInv, TypeOK, Owned
  <2>2. /\ ReplayedStatus(log \o tail, xid[s]) \in Final
        /\ x # xid[s] => ReplayedStatus(log \o tail, x) = ReplayedStatus(log, x)
    BY <1>1, <2>1, AppendVerdict DEF Final
  <2> QED BY <2>2 DEF OpenedStatus, Final, Absent
<1> QED BY <1>2, <1>3, <1>4 DEF InFlight, Appending

\* A crash and the reopening do what TxOutcome allows a restart to do.
LEMMA RestartRefines ==
  ASSUME TypeInv, LogInv, LogInv', TypeInv', ~TornTail, Restart
  PROVE  Promise!Restart
<1>1. PICK tail \in InFlight : /\ log' = log \o tail
                               /\ outcome' = [x \in Xid |-> Survives(x, tail)]
  BY DEF Restart
<1>2. statuses' = [x \in Xid |-> OpenedStatus(log', x)]
  BY DEF Restart
<1>3. ASSUME NEW x \in Xid, tail = <<Rec("Commit", x)>> PROVE outcome[x] = "InProgress"
  <2>1. tail # <<>> /\ tail[1] = Rec("Commit", x)
    BY <1>3
  <2>2. \E s \in Sessions : pc[s] = "active" /\ tail = <<Rec("Commit", xid[s])>>
    BY <2>1 DEF InFlight, Appending, Rec
  <2>3. PICK s \in Sessions : pc[s] = "active" /\ tail[1] = Rec("Commit", xid[s])
    BY <2>2
  <2>4. xid[s] = x
    BY <2>1, <2>3 DEF Rec
  <2> QED BY <2>3, <2>4 DEF LogInv, Running
<1>4. \A x, y \in Xid : tail = <<Rec("Commit", x)>> /\ tail = <<Rec("Commit", y)>> => x = y
  BY DEF Rec
<1>5. outcome' \in [Xid -> Final \cup {Absent}]
  BY <1>1 DEF Survives, TypeInv, TypeOK, TxStatus, Final
<1>6. statuses' \in [Xid -> Final \cup {Absent}]
  BY <1>2, OpenedStatusType DEF TypeInv, TypeOK
<1>7. \A x \in Xid : outcome[x] \in Final => outcome'[x] = outcome[x]
  <2>1. ASSUME NEW x \in Xid, outcome[x] \in Final PROVE outcome'[x] = outcome[x]
    <3>1. tail # <<Rec("Commit", x)>>
      BY <1>3, <2>1 DEF Final
    <3>2. tail # <<Rec("Begin", x)>>
      <4>1. outcome[x] # Absent /\ x # nextId
        BY <2>1 DEF Final, Absent, LogInv, Faithful, TypeInv, TypeOK, Xid
      <4> QED BY <4>1 DEF InFlight, Appending, Rec
    <3> QED BY <1>1, <2>1, <3>1, <3>2 DEF Survives, Final
  <2> QED BY <2>1
<1>8. ASSUME NEW x \in Xid, NEW y \in Xid
      PROVE  /\ outcome[x] = "InProgress" => outcome'[x] # Absent
             /\ x # y /\ outcome'[x] = "Committed" /\ outcome'[y] = "Committed"
                => "Committed" \in {outcome[x], outcome[y]}
             /\ outcome[x] = Absent => outcome'[x] # "Committed"
  BY <1>1, <1>3, <1>4 DEF Survives, Absent
<1>9. ASSUME NEW x \in Xid
      PROVE  statuses'[x] = outcome'[x] \/ (statuses'[x] = Absent /\ statuses[x] = Absent)
  <2>1. statuses'[x] \in {Absent, outcome'[x]}
    BY DEF LogInv, Faithful
  <2>2. statuses[x] # Absent => OpenedStatus(log, x) # Absent
    BY LogInvImplies DEF LogCoversMemory, Absent
  <2> QED BY <1>1, <1>2, <2>1, <2>2, TailRemembers
<1> QED BY <1>5, <1>6, <1>7, <1>8, <1>9
     DEF Promise!Restart, Promise!Xid, Promise!Final, Promise!Absent, Xid, Final, Absent

\* Every step of the manager is a step of TxOutcome, or changes nothing there.
LEMMA PromiseStep ==
  ASSUME TypeInv, LogInv, TypeInv', LogInv', ~TornTail, [Next]_vars
  PROVE  [Promise!Next]_(Promise!vars)
<1> USE DEF Promise!vars, Promise!Next, Promise!Xid, Promise!Final, Promise!Absent
<1>1. ASSUME NEW s \in Sessions, Begin(s) PROVE \E x \in Xid : Promise!Start(x)
  <2>1. nextId \in Xid
    BY <1>1 DEF Begin, TypeInv, TypeOK, Xid
  <2>2. outcome[nextId] = Absent
    BY <2>1 DEF LogInv, Faithful, Xid
  <2> QED BY <1>1, <2>1, <2>2 DEF Begin, Promise!Start, Absent
<1>2. ASSUME NEW s \in Sessions, Commit(s) PROVE Promise!Finish(xid[s], "Committed") /\ xid[s] \in Xid
  BY <1>2 DEF Commit, Promise!Finish, LogInv, Running, TypeInv, TypeOK, Owned
<1>3. ASSUME NEW s \in Sessions, Abort(s)
      PROVE  /\ xid[s] \in Xid
             /\ Promise!Finish(xid[s], "Aborted") \/ Promise!Recall(xid[s])
  <2>1. xid[s] \in Xid /\ outcome[xid[s]] \in {"InProgress", "Aborted"}
    BY <1>3 DEF Abort, LogInv, Running, TypeInv, TypeOK, Owned
  <2>2. CASE outcome[xid[s]] = "InProgress"
    BY <1>3, <2>1, <2>2 DEF Abort, Promise!Finish
  <2>3. CASE outcome[xid[s]] = "Aborted"
    <3>1. outcome' = outcome
      BY <1>3, <2>1, <2>3 DEF Abort, TypeInv, TypeOK
    <3> QED BY <1>3, <2>1, <2>3, <3>1 DEF Abort, Promise!Recall
  <2> QED BY <2>1, <2>2, <2>3
<1>4. ASSUME NEW s \in Sessions, NEW x \in Xid, Forget(s, x) PROVE Promise!Forget(x)
  BY <1>4 DEF Forget, Promise!Forget, LogInv, Running, Absent, Final
<1>5. CASE Restart
  BY <1>5, RestartRefines
<1>6. CASE UNCHANGED <<outcome, statuses>>
  BY <1>6
<1>7. ASSUME NEW s \in Sessions,
             \/ Notify(s) \/ (\E other \in Xid : FindConflict(s, other)) \/ WaitFor(s)
             \/ Wake(s) \/ VacuumCheck(s) \/ VacuumList(s) \/ Compact(s)
      PROVE  UNCHANGED <<outcome, statuses>>
  BY <1>7 DEF Notify, FindConflict, WaitFor, WaitForReturns, WaitForPanics,
     WaitForDeadlocks, WaitForBlocks, Wake, VacuumCheck, VacuumList, Compact, memory
<1>8. CASE UNCHANGED vars
  BY <1>8, <1>6 DEF vars, memory
<1>9. CASE \E s \in Sessions : Begin(s) \/ Commit(s) \/ Abort(s) \/ \E x \in Xid : Forget(s, x)
  BY <1>1, <1>2, <1>3, <1>4, <1>9 DEF Xid
<1> QED BY <1>5, <1>6, <1>7, <1>8, <1>9 DEF Next, Vacuum, Halted

\* The manager implements TxOutcome: through any interleaving, crash, vacuum
\* and compaction an id starts once, its outcome is never revised, and an
\* answer is lost only by forgetting it.
THEOREM ManagerKeepsPromise == ASSUME ~TornTail PROVE Spec => KeepsPromise
<1>1. Init => Promise!Init
  BY DEF Init, Promise!Init, Promise!Xid, Promise!Absent, Xid, Absent
<1>2. TypeInv /\ LogInv /\ TypeInv' /\ LogInv' /\ [Next]_vars => [Promise!Next]_(Promise!vars)
  BY PromiseStep
<1>3. Init => LogInv
  BY LogInvInit
<1>4. TypeInv /\ LogInv /\ [Next]_vars => LogInv'
  BY LogInvStep
<1>5. Spec => []TypeInv
  BY TypeInvHolds
<1> QED BY <1>1, <1>2, <1>3, <1>4, <1>5, PTL DEF Spec, KeepsPromise, Promise!Spec

(***************************************************************************)
(* Wake-ups.                                                               *)
(***************************************************************************)

\* No step strands a blocked thread: the verdict it waits for comes with a
\* notify_all, and what vacuum_all forgets was finished before.
LEMMA WakeupStep ==
  ASSUME TypeInv, LogInv, NoLostWakeup, [Next]_vars
  PROVE  NoLostWakeup'
<1> DEFINE Woken(s) == \/ statuses[target[s]] = "InProgress"
                       \/ s \in notified
                       \/ \E t \in Sessions : pc[t] \in {"notify", "notifyLoser"}
<1>1. SUFFICES ASSUME NEW s \in Sessions, pc'[s] = "waiting" PROVE Woken(s)'
  BY DEF NoLostWakeup, Waiting
<1>2. pc[s] = "waiting" => Woken(s) /\ target[s] \in Xid
  BY DEF NoLostWakeup, Waiting, TypeInv, TypeOK, Owned
<1> USE DEF Goto, memory
\* A finisher is about to call notify_all.
<1>3. ASSUME NEW t \in Sessions, Commit(t) \/ Abort(t) PROVE Woken(s)'
  BY <1>3 DEF Commit, Abort, TypeInv, TypeOK
<1>4. ASSUME NEW t \in Sessions, Notify(t) PROVE Woken(s)'
  BY <1>1, <1>4 DEF Notify, NotifyAll, Waiting, TypeInv, TypeOK
<1>5. ASSUME NEW t \in Sessions, WaitForBlocks(t) PROVE Woken(s)'
  <2>1. CASE t = s
    BY <1>5, <2>1 DEF WaitForBlocks
  <2>2. CASE t # s
    BY <1>1, <1>2, <1>5, <2>2 DEF WaitForBlocks, TypeInv, TypeOK
  <2> QED BY <2>1, <2>2
<1>6. ASSUME NEW t \in Sessions, Wake(t) PROVE Woken(s)'
  <2>1. CASE t = s
    BY <1>1, <1>6, <2>1 DEF Wake, EdgeRemoved, TypeInv, TypeOK
  <2>2. CASE t # s
    BY <1>1, <1>2, <1>6, <2>2 DEF Wake, EdgeRemoved, TypeInv, TypeOK
  <2> QED BY <2>1, <2>2
\* The other steps leave s, the wake-ups and its target's status alone.
<1>7. ASSUME pc[s] = "waiting", target'[s] = target[s], notified' = notified,
             statuses[target[s]] = "InProgress" => statuses'[target[s]] = "InProgress",
             \A t \in Sessions : pc[t] \in {"notify", "notifyLoser"} => pc'[t] = pc[t]
      PROVE  Woken(s)'
  BY <1>2, <1>7
<1>8. ASSUME NEW t \in Sessions, Begin(t) PROVE Woken(s)'
  BY <1>1, <1>2, <1>7, <1>8 DEF Begin, TypeInv, TypeOK
<1>9. ASSUME NEW t \in Sessions, NEW x \in Xid, Forget(t, x) PROVE Woken(s)'
  <2>1. outcome[x] \in Final /\ statuses[x] \in {Absent, outcome[x]}
    BY <1>9 DEF Forget, LogInv, Running, Faithful
  <2>2. statuses[x] # "InProgress"
    BY <2>1 DEF Final, Absent
  <2> QED BY <1>1, <1>2, <1>7, <1>9, <2>2 DEF Forget, TypeInv, TypeOK
<1>10. ASSUME NEW t \in Sessions,
              \/ \E other \in Xid : FindConflict(t, other)
              \/ WaitForReturns(t) \/ WaitForPanics(t) \/ WaitForDeadlocks(t)
       PROVE  Woken(s)'
  BY <1>1, <1>2, <1>7, <1>10 DEF FindConflict, WaitForReturns, WaitForPanics, WaitForDeadlocks,
     TypeInv, TypeOK
<1>11. ASSUME NEW t \in Sessions, VacuumCheck(t) \/ VacuumList(t) \/ Compact(t)
       PROVE  Woken(s)'
  BY <1>1, <1>2, <1>7, <1>11 DEF VacuumCheck, VacuumList, Compact, TypeInv, TypeOK
<1>12. CASE Restart
  BY <1>1, <1>12 DEF Restart
<1>13. CASE UNCHANGED vars
  BY <1>1, <1>2, <1>7, <1>13 DEF vars, threads
<1> QED BY <1>3, <1>4, <1>5, <1>6, <1>8, <1>9, <1>10, <1>11, <1>12, <1>13
     DEF Next, WaitFor, Vacuum, Halted

\* For any number of threads: none sleeps through the end of the transaction
\* it waits for, although notify_all is called after the lock is released.
THEOREM WakeupsAreNotLost == ASSUME ~TornTail PROVE Spec => []NoLostWakeup
<1>1. Init => NoLostWakeup
  BY DEF Init, NoLostWakeup, Waiting
<1>2. TypeInv /\ LogInv /\ NoLostWakeup /\ [Next]_vars => NoLostWakeup'
  BY WakeupStep
<1>3. Init => LogInv
  BY LogInvInit
<1>4. TypeInv /\ LogInv /\ [Next]_vars => LogInv'
  BY LogInvStep
<1>5. Spec => []TypeInv
  BY TypeInvHolds
<1> QED BY <1>1, <1>2, <1>3, <1>4, <1>5, PTL DEF Spec
==============================================================================
