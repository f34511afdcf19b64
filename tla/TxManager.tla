------------------------------ MODULE TxManager ------------------------------
(***************************************************************************)
(* crumble-tx/src/manager.rs: the TransactionManager shared by every       *)
(* thread (`Arc<TransactionManager>`), with the callers that drive it:     *)
(* the statement loop of crumble/src/main.rs (begin, run, commit or        *)
(* abort), the row-locking loop `delete_at` of crumble-storage/src/table.rs*)
(* (wait_for, abort on deadlock) and `vacuum_all` of catalog.rs (forget,   *)
(* compact).  One action is one critical section of `inner: Mutex<Inner>`, *)
(* or the notify_all that commit and abort perform after releasing it.     *)
(***************************************************************************)
EXTENDS Naturals, Sequences, FiniteSets

CONSTANTS
    Sessions,       \* threads that run transactions
    Vacuumers,      \* those among them that may also call vacuum_all
    MaxXid,         \* bound: the largest transaction id handed out
    MaxRestarts,    \* bound: how often the process dies and reopens its log
    TornTail        \* may a crash leave a record half-written in the log?

ASSUME TxAssumption == /\ MaxXid \in Nat \ {0}
                       /\ MaxRestarts \in Nat
                       /\ TornTail \in BOOLEAN
                       /\ Vacuumers \subseteq Sessions

VARIABLES
    nextId,         \* Inner.next_id
    statuses,       \* Inner.statuses: HashMap<xid, TxStatus>
    waitsFor,       \* Inner.waits_for: HashMap<xid, xid>
    log,            \* the records of the transaction log file
    pc,             \* where each session's thread stands
    xid,            \* the session's own transaction (NoXid: none)
    target,         \* the transaction the session saw holding its row
    notified,       \* sessions blocked on `completion` that were woken
    doomed,         \* vacuum_all's result of finished_xids(), still to forget
    restarts,       \* bound counter
    outcome         \* history: the outcome each transaction really had

memory == <<nextId, statuses, waitsFor>>
threads == <<pc, xid, target, notified, doomed>>
vars == <<memory, log, threads, restarts, outcome>>

Xid == 1..MaxXid
NoXid == 0
Absent == "Absent"                              \* the key is not in the map
Final == {"Committed", "Aborted"}
TxStatus == {"InProgress"} \cup Final

PC == {"idle", "active",          \* between and inside transactions
       "conflict",                \* delete_at saw a row held by `target`
       "waiting",                 \* blocked in completion.wait
       "deadlock",                \* wait_for returned DeadlockDetected
       "notify", "notifyLoser",   \* lock released, notify_all still to come
       "failed",                  \* statement failed, caller aborts again
       "listing", "forgetting",   \* vacuum_all after has_in_progress()
       "panicked"}                \* wait_for's panic; the mutex is poisoned

LogRecord ==
    [op : {"Begin", "Commit", "Abort"}, xid : Xid]
      \cup [op : {"Snapshot"}, next : 1..(MaxXid + 1),
            statuses : [Xid -> TxStatus \cup {Absent}]]
      \cup [op : {"Torn"}]

TypeOK ==
    /\ nextId \in 1..(MaxXid + 1)
    /\ statuses \in [Xid -> TxStatus \cup {Absent}]
    /\ waitsFor \in [Xid -> Xid \cup {NoXid}]
    /\ log \in Seq(LogRecord)
    /\ pc \in [Sessions -> PC]
    /\ xid \in [Sessions -> Xid \cup {NoXid}]
    /\ target \in [Sessions -> Xid \cup {NoXid}]
    /\ notified \in SUBSET Sessions
    /\ doomed \in [Sessions -> SUBSET Xid]
    /\ restarts \in 0..MaxRestarts
    /\ outcome \in [Xid -> TxStatus \cup {Absent}]

------------------------------------------------------------------------------
(* The log: append_record and the replay that open() performs.             *)

Rec(op, x) == [op |-> op, xid |-> x]

\* read_all_records stops at the first record it cannot read whole.
Readable(l) == {i \in DOMAIN l : \A j \in 1..i : l[j].op # "Torn"}

Latest(S) == CHOOSE i \in S : \A j \in S : j <= i

\* A Snapshot replaces the statuses gathered so far: only the records from
\* the last one on decide.
Snapshots(l) == {i \in Readable(l) : l[i].op = "Snapshot"}
Current(l) == {i \in Readable(l) : \A j \in Snapshots(l) : j <= i}
\* Mutation: open() takes only next_id from a Snapshot.
SnapshotIgnored(l, x) == Absent
SnapshotStatus(l, x) == IF Snapshots(l) = {} THEN Absent
                        ELSE l[Latest(Snapshots(l))].statuses[x]

Verdicts(l, x) == {i \in Current(l) : l[i] \in {Rec("Commit", x), Rec("Abort", x)}}

\* Commit and Abort overwrite the entry, Begin only fills a vacant one.
ReplayedStatus(l, x) ==
    IF Verdicts(l, x) # {}
      THEN IF l[Latest(Verdicts(l, x))].op = "Commit" THEN "Committed"
                                                       ELSE "Aborted"
    ELSE IF SnapshotStatus(l, x) # Absent THEN SnapshotStatus(l, x)
    ELSE IF \E i \in Current(l) : l[i] = Rec("Begin", x) THEN "InProgress"
    ELSE Absent

\* Whatever the log leaves in progress died with its process.
\* Mutation: it is left in progress.
StillRunning(l, x) == ReplayedStatus(l, x)
OpenedStatus(l, x) == IF ReplayedStatus(l, x) = "InProgress"
                        THEN "Aborted" ELSE ReplayedStatus(l, x)

\* max_id is the largest id of any record, one less for a Snapshot's next_id.
\* Mutation: a Snapshot's next_id is not counted.
IdOfVerdict(r) == IF r.op = "Snapshot" THEN 0 ELSE r.xid
IdOf(r) == IF r.op = "Snapshot" THEN r.next - 1 ELSE r.xid
IdsIn(l) == {0} \cup {IdOf(l[i]) : i \in Readable(l)}

\* Mutation: the largest id itself is handed out again.
LargestId(l) == Latest(IdsIn(l))
OpenedNextId(l) == Latest(IdsIn(l)) + 1

------------------------------------------------------------------------------
(* The waits-for graph.                                                    *)

\* wait_for walks g from `from` and reports whether it meets `to`: `to` lies
\* in every set of transactions that holds `from` and is closed under g.
\* Mutations: no deadlock check at all; a check that looks one edge ahead.
NeverReaches(g, from, to) == FALSE
NextReaches(g, from, to) == g[from] = to
ChainReaches(g, from, to) ==
    \A C \in SUBSET Xid :
        from \in C /\ (\A x \in C : g[x] # NoXid => g[x] \in C) => to \in C

Waiting == {s \in Sessions : pc[s] = "waiting"}
\* notify_all wakes every thread blocked on `completion`.  Mutation: notify_one.
NotifyOne == IF Waiting = {} THEN {} ELSE {CHOOSE s \in Waiting : TRUE}
NotifyAll == Waiting

\* waits_for.remove(&waiter).  Mutation: the edge is left behind.
EdgeKept(s) == waitsFor
EdgeRemoved(s) == [waitsFor EXCEPT ![xid[s]] = NoXid]

Poisoned == \E s \in Sessions : pc[s] = "panicked"

------------------------------------------------------------------------------
Init ==
    /\ nextId = 1
    /\ statuses = [x \in Xid |-> Absent]
    /\ waitsFor = [x \in Xid |-> NoXid]
    /\ log = <<>>
    /\ pc = [s \in Sessions |-> "idle"]
    /\ xid = [s \in Sessions |-> NoXid]
    /\ target = [s \in Sessions |-> NoXid]
    /\ notified = {}
    /\ doomed = [s \in Sessions |-> {}]
    /\ restarts = 0
    /\ outcome = [x \in Xid |-> Absent]

Goto(s, label) == pc' = [pc EXCEPT ![s] = label]

\* begin(): the id is taken, logged, then entered as in progress.
Begin(s) ==
    /\ ~Poisoned /\ pc[s] = "idle"
    /\ nextId <= MaxXid
    /\ nextId' = nextId + 1
    /\ log' = Append(log, Rec("Begin", nextId))
    /\ statuses' = [statuses EXCEPT ![nextId] = "InProgress"]
    /\ xid' = [xid EXCEPT ![s] = nextId]
    /\ outcome' = [outcome EXCEPT ![nextId] = "InProgress"]
    /\ Goto(s, "active")
    /\ UNCHANGED <<waitsFor, target, notified, doomed, restarts>>

\* commit(xid), up to drop(inner); never called twice or after an abort.
Commit(s) ==
    /\ ~Poisoned /\ pc[s] = "active"
    /\ log' = Append(log, Rec("Commit", xid[s]))
    /\ statuses' = [statuses EXCEPT ![xid[s]] = "Committed"]
    /\ outcome' = [outcome EXCEPT ![xid[s]] = "Committed"]
    /\ Goto(s, "notify")
    /\ UNCHANGED <<nextId, waitsFor, xid, target, notified, doomed, restarts>>

\* abort(xid), up to drop(inner): a ROLLBACK or the statement loop's reaction
\* to an error, which after a deadlock aborts a transaction already aborted.
Abort(s) ==
    /\ ~Poisoned /\ pc[s] \in {"active", "failed", "deadlock"}
    /\ log' = Append(log, Rec("Abort", xid[s]))
    /\ statuses' = [statuses EXCEPT ![xid[s]] = "Aborted"]
    /\ outcome' = [outcome EXCEPT ![xid[s]] = "Aborted"]
    /\ Goto(s, IF pc[s] = "deadlock" THEN "notifyLoser" ELSE "notify")
    /\ UNCHANGED <<nextId, waitsFor, xid, target, notified, doomed, restarts>>

\* completion.notify_all(), with the lock already released; then commit or
\* abort returns.  delete_at's own abort returns into the failing statement.
Notify(s) ==
    /\ pc[s] \in {"notify", "notifyLoser"}
    /\ notified' = notified \cup NotifyAll
    /\ IF pc[s] = "notify"
         THEN Goto(s, "idle") /\ xid' = [xid EXCEPT ![s] = NoXid]
         ELSE Goto(s, "failed") /\ UNCHANGED xid
    /\ UNCHANGED <<memory, log, target, doomed, restarts, outcome>>

\* delete_at finds its row's xmax to be another transaction and in progress;
\* it drops the table lock and will call wait_for on it.
FindConflict(s, other) ==
    /\ ~Poisoned /\ pc[s] = "active"
    /\ other # xid[s] /\ statuses[other] = "InProgress"
    /\ target' = [target EXCEPT ![s] = other]
    /\ Goto(s, "conflict")
    /\ UNCHANGED <<memory, log, xid, notified, doomed, restarts, outcome>>

\* wait_for: the other transaction has finished in the meantime.
WaitForReturns(s) ==
    /\ ~Poisoned /\ pc[s] = "conflict"
    /\ statuses[target[s]] \in Final
    /\ target' = [target EXCEPT ![s] = NoXid]
    /\ Goto(s, "active")
    /\ UNCHANGED <<memory, log, xid, notified, doomed, restarts, outcome>>

\* wait_for: panic!("wait_for called on unknown transaction id").
WaitForPanics(s) ==
    /\ ~Poisoned /\ pc[s] \in {"conflict", "waiting"}
    /\ pc[s] = "waiting" => s \in notified
    /\ statuses[target[s]] = Absent
    /\ Goto(s, "panicked")
    /\ UNCHANGED <<memory, log, xid, target, notified, doomed, restarts, outcome>>

\* wait_for: the chain from `other` leads back to the waiter.
WaitForDeadlocks(s) ==
    /\ ~Poisoned /\ pc[s] = "conflict"
    /\ statuses[target[s]] = "InProgress"
    /\ ChainReaches(waitsFor, target[s], xid[s])
    /\ target' = [target EXCEPT ![s] = NoXid]
    /\ Goto(s, "deadlock")
    /\ UNCHANGED <<memory, log, xid, notified, doomed, restarts, outcome>>

\* wait_for: no cycle, so the edge is entered and the thread blocks, all
\* without releasing the lock between the check and the wait.
WaitForBlocks(s) ==
    /\ ~Poisoned /\ pc[s] = "conflict"
    /\ statuses[target[s]] = "InProgress"
    /\ ~ChainReaches(waitsFor, target[s], xid[s])
    /\ waitsFor' = [waitsFor EXCEPT ![xid[s]] = target[s]]
    /\ Goto(s, "waiting")
    /\ notified' = notified \ {s}
    /\ UNCHANGED <<nextId, statuses, log, xid, target, doomed, restarts, outcome>>

\* A woken waiter reacquires the lock: it returns if the other transaction
\* has finished, and goes back to sleep if it was woken for somebody else's.
Wake(s) ==
    /\ ~Poisoned /\ pc[s] = "waiting" /\ s \in notified
    /\ notified' = notified \ {s}
    /\ \/ /\ statuses[target[s]] \in Final
          /\ waitsFor' = EdgeRemoved(s)
          /\ target' = [target EXCEPT ![s] = NoXid]
          /\ Goto(s, "active")
       \/ /\ statuses[target[s]] = "InProgress"
          /\ UNCHANGED <<waitsFor, target, pc>>
    /\ UNCHANGED <<nextId, statuses, log, xid, doomed, restarts, outcome>>

------------------------------------------------------------------------------
(* The end of vacuum_all: has_in_progress, finished_xids, forget and       *)
(* compact each take and release the lock on their own.                    *)

\* if !has_in_progress()
VacuumCheck(s) ==
    /\ ~Poisoned /\ s \in Vacuumers /\ pc[s] = "idle"
    /\ \A x \in Xid : statuses[x] # "InProgress"
    /\ Goto(s, "listing")
    /\ UNCHANGED <<memory, log, xid, target, notified, doomed, restarts, outcome>>

\* finished_xids()
VacuumList(s) ==
    /\ ~Poisoned /\ pc[s] = "listing"
    /\ doomed' = [doomed EXCEPT ![s] = {x \in Xid : statuses[x] \in Final}]
    /\ Goto(s, "forgetting")
    /\ UNCHANGED <<memory, log, xid, target, notified, restarts, outcome>>

\* forget(xid), in the order the HashMap happens to list them.
Forget(s, x) ==
    /\ ~Poisoned /\ pc[s] = "forgetting" /\ x \in doomed[s]
    /\ statuses' = [statuses EXCEPT ![x] = Absent]
    /\ doomed' = [doomed EXCEPT ![s] = @ \ {x}]
    /\ UNCHANGED <<nextId, waitsFor, log, pc, xid, target, notified, restarts, outcome>>

\* compact(): one Snapshot in a temporary file, renamed over the log.
Compact(s) ==
    /\ ~Poisoned /\ pc[s] = "forgetting" /\ doomed[s] = {}
    /\ log' = <<[op |-> "Snapshot", next |-> nextId, statuses |-> statuses]>>
    /\ Goto(s, "idle")
    /\ UNCHANGED <<memory, xid, target, notified, doomed, restarts, outcome>>

------------------------------------------------------------------------------
(* The process dies and a new one opens the log.                           *)

\* The records threads may be in the middle of appending.
Appending ==
    {Rec("Begin", nextId) : s \in {t \in Sessions : pc[t] = "idle" /\ nextId <= MaxXid}}
      \cup {Rec("Commit", xid[s]) : s \in {t \in Sessions : pc[t] = "active"}}
      \cup {Rec("Abort", xid[s]) :
              s \in {t \in Sessions : pc[t] \in {"active", "failed", "deadlock"}}}

\* What the crash leaves of them: nothing, a whole record although the call
\* never returned, or (TornTail) one cut between the two write_all's.
InFlight == {<<>>}
              \cup {<<r>> : r \in Appending}
              \cup {<<[op |-> "Torn"]>> : r \in IF TornTail THEN Appending ELSE {}}

\* The outcome a crash leaves a transaction with.
Survives(x, tail) ==
    IF tail = <<Rec("Commit", x)>> THEN "Committed"
    ELSE IF outcome[x] = "InProgress" \/ tail = <<Rec("Begin", x)>> THEN "Aborted"
    ELSE outcome[x]

\* open(): statuses and next_id come from the log, waits_for starts empty.
Restart ==
    /\ restarts < MaxRestarts
    /\ restarts' = restarts + 1
    /\ \E tail \in InFlight :
          /\ log' = log \o tail
          /\ outcome' = [x \in Xid |-> Survives(x, tail)]
    /\ statuses' = [x \in Xid |-> OpenedStatus(log', x)]
    /\ nextId' = OpenedNextId(log')
    /\ waitsFor' = [x \in Xid |-> NoXid]
    /\ pc' = [s \in Sessions |-> "idle"]
    /\ xid' = [s \in Sessions |-> NoXid]
    /\ target' = [s \in Sessions |-> NoXid]
    /\ notified' = {}
    /\ doomed' = [s \in Sessions |-> {}]

\* Bound: the ids have run out, or a poisoned mutex has stopped everybody.
Halted ==
    /\ \/ nextId > MaxXid /\ \A s \in Sessions : pc[s] = "idle"
       \/ Poisoned
    /\ UNCHANGED vars

------------------------------------------------------------------------------
Finish(s) == Commit(s) \/ Abort(s)
WaitFor(s) == WaitForReturns(s) \/ WaitForDeadlocks(s) \/ WaitForBlocks(s)
                \/ WaitForPanics(s)
Vacuum(s) == VacuumList(s) \/ (\E x \in Xid : Forget(s, x)) \/ Compact(s)

Next ==
    \/ \E s \in Sessions :
          \/ Begin(s) \/ Commit(s) \/ Abort(s) \/ Notify(s)
          \/ \E other \in Xid : FindConflict(s, other)
          \/ WaitFor(s) \/ Wake(s)
          \/ VacuumCheck(s) \/ Vacuum(s)
    \/ Restart
    \/ Halted

Spec == Init /\ [][Next]_vars

\* A runnable thread is eventually scheduled, and a session that has not lost
\* its connection eventually ends its transaction.  Nothing is assumed about
\* when conflicts arise, when vacuums start or when the process dies.
Fairness == \A s \in Sessions :
               /\ WF_vars(Finish(s))
               /\ WF_vars(Notify(s))
               /\ WF_vars(WaitFor(s))
               /\ WF_vars(Wake(s))
               /\ WF_vars(Vacuum(s))

FairSpec == Spec /\ Fairness

------------------------------------------------------------------------------
(* Properties.                                                             *)

\* The waits-for graph has no cycle: every set of transactions has a member
\* that waits for nobody in the set.  A cycle would hang its members, and any
\* thread whose walk in wait_for enters it would spin with the mutex held.
NoWaitCycle ==
    \A S \in (SUBSET Xid) \ {{}} : \E x \in S : waitsFor[x] \notin S

\* Edges are never left behind: unless a panic has poisoned the mutex, the
\* graph holds exactly the edges of the threads now blocked in wait_for, so no
\* walk is misled by a waiter that has moved on.
EdgesAreWaiters ==
    ~Poisoned => \A x, y \in Xid : waitsFor[x] = y <=>
        \E s \in Sessions : pc[s] = "waiting" /\ xid[s] = x /\ target[s] = y

\* No wake-up is lost: a blocked thread whose target is finished (or gone)
\* has been notified, or the finisher has still to call notify_all.
NoLostWakeup ==
    \A s \in Waiting :
        \/ statuses[target[s]] = "InProgress"
        \/ s \in notified
        \/ \E t \in Sessions : pc[t] \in {"notify", "notifyLoser"}

\* Every answer available in memory is also what a crash at this instant
\* would recover, a running transaction coming back as aborted, and the id
\* counter would resume exactly where it stands.
LogCoversMemory ==
    /\ \A x \in Xid : statuses[x] # Absent =>
          OpenedStatus(log, x) = IF statuses[x] = "InProgress" THEN "Aborted"
                                                              ELSE statuses[x]
    /\ OpenedNextId(log) = nextId

\* A transaction known to be committed is still known to be after a restart.
CommitsSurvive ==
    [][\A x \in Xid : restarts' # restarts /\ statuses[x] = "Committed"
          => statuses'[x] = "Committed"]_vars

\* begin() never hands out an id that was in use before, whatever crashes
\* and compactions lie between.
FreshIds ==
    [][\A s \in Sessions : xid'[s] \notin {xid[s], NoXid}
          => outcome[xid'[s]] = Absent]_vars

\* Callers see the promises of TxOutcome: outcomes are final across crashes,
\* and an answer is lost only by forgetting it.
Promise == INSTANCE TxOutcome WITH answer <- statuses
KeepsPromise == Promise!Spec

\* Nobody waits for ever.
WaitersReturn ==
    \A s \in Sessions : pc[s] = "waiting" ~> pc[s] # "waiting"
==============================================================================
