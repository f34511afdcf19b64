------------------------------- MODULE RowMvcc -------------------------------
(***************************************************************************)
(* Row versions (xmin, xmax) under concurrent statements: the scans of     *)
(* crumble-storage/src/table.rs, the row-locking loop delete_at, freeze,   *)
(* and the vacuum of catalog.rs, run by the SELECT, INSERT, UPDATE and     *)
(* DELETE of crumble-exec.  Transactions are those of TxOutcome, which     *)
(* TxManager implements; pages and their log are those of HeapTable, so a  *)
(* row once written survives a crash.  The table's mutex is held for a     *)
(* whole scan and a whole freeze, but transactions end meanwhile: each row *)
(* is judged by the statuses of the moment it is reached.                  *)
(***************************************************************************)
EXTENDS Naturals, Sequences, FiniteSets

CONSTANTS
    Sessions,       \* threads that run transactions
    MaxXid,         \* bound: the largest transaction id
    MaxRows,        \* bound: row versions in the table
    MaxCrashes,     \* bound: how often the process dies
    ShortXid        \* the largest id that is encoded in one byte (250)

ASSUME MvccAssumption == MaxXid \in Nat \ {0} /\ {MaxRows, MaxCrashes, ShortXid} \subseteq Nat

VARIABLES
    outcome, answer,    \* the transactions (TxOutcome)
    rows,       \* the row versions, in the order of their locations
    past,       \* history of each: its row, its creator, who claimed it and why
    session,    \* the threads
    vac,        \* the thread that runs VACUUM
    poisoned,   \* a debug assertion or wait_for has panicked with a lock held
    misfit,     \* the log holds a rewrite that its slot refused
    crashes,    \* bound counter
    damage      \* history: which of two known mishaps have happened

vars == <<outcome, answer, rows, past, session, vac, poisoned, misfit, crashes, damage>>

Xid == 1..MaxXid
NoXid == 0
FROZEN_DEAD == MaxXid + 1
Loc == 1..MaxRows

Tx == INSTANCE TxOutcome
Absent == Tx!Absent
Status(x) == IF x \in Xid THEN answer[x] ELSE Absent

\* freeze means to store FROZEN_DEAD, but its nine bytes fit no slot: ids are
\* below 2^16 here.
Row == [xmin : 0..MaxXid, xmax : 0..MaxXid]
\* A row keeps its key through the versions UPDATE gives it.
Mark == [xid : Xid, op : {"delete", "update"}]
Past == [key : Loc, by : Xid, claims : SUBSET Mark]
Thread == [pc : {"idle", "active", "scan", "claim", "waiting", "reinsert", "failed"},
           xid : 0..MaxXid, op : {"none", "delete", "update"},
           seen : SUBSET Loc, at : 1..(MaxRows + 1)]
Idle == [pc |-> "idle", xid |-> NoXid, op |-> "none", seen |-> {}, at |-> 1]
Resting == [pc |-> "idle", at |-> 1, doomed |-> {}]

TypeOK ==
    /\ outcome \in [Xid -> Tx!Final \cup {"InProgress", Absent}]
    /\ answer \in [Xid -> Tx!Final \cup {"InProgress", Absent}]
    /\ rows \in Seq(Row) /\ past \in Seq(Past)
    /\ session \in [Sessions -> Thread]
    /\ vac \in [pc : {"idle", "freeze", "check", "list", "forget"},
                at : 1..(MaxRows + 1), doomed : SUBSET Xid]
    /\ {poisoned, misfit} \subseteq BOOLEAN
    /\ crashes \in 0..MaxCrashes
    /\ damage \subseteq {"long", "early"}

------------------------------------------------------------------------------
(* visibility.rs and row_is_visible.                                       *)

\* Mutations: rows of running transactions show; any claim hides a row.
DirtyRead(row, reader) == row.xmax # FROZEN_DEAD /\ Status(row.xmax) # "Committed"
HiddenByClaim(row, reader) ==
    row.xmax = NoXid /\ (row.xmin \in {NoXid, reader} \/ Status(row.xmin) = "Committed")
Visible(row, reader) ==
    /\ row.xmax # FROZEN_DEAD
    /\ row.xmin \in {NoXid, reader} \/ Status(row.xmin) = "Committed"
    /\ row.xmax # NoXid => row.xmax # reader /\ Status(row.xmax) # "Committed"

(* row.rs and page.rs: to_bytes encodes an id with variable length, and    *)
(* update_row refuses bytes of another length than the slot's.             *)

Width(x) == IF x = FROZEN_DEAD THEN 9 ELSE IF x > ShortXid THEN 3 ELSE 1
Length(row) == Width(row.xmin) + Width(row.xmax)
SameLength(old, new) == Length(old) = Length(new)

\* Mutation: update_row does not compare the lengths.
RewrittenUnchecked(i, new) == [rows EXCEPT ![i] = new]
\* In a release build a refused rewrite is passed over.
Rewritten(i, new) == IF SameLength(rows[i], new) THEN [rows EXCEPT ![i] = new] ELSE rows
\* In a debug build it is a failed assertion, with the table locked: after the
\* record is logged (freeze), before that (delete_at), or in its replay.
MayPanic(i, new) == poisoned' \in {FALSE, ~SameLength(rows[i], new)}

------------------------------------------------------------------------------
Init ==
    /\ Tx!Init
    /\ rows = <<>> /\ past = <<>>
    /\ session = [s \in Sessions |-> Idle]
    /\ vac = Resting
    /\ poisoned = FALSE /\ misfit = FALSE /\ crashes = 0 /\ damage = {}

\* The panic of one thread stops the others at the poisoned lock.
Running == ~poisoned /\ UNCHANGED <<poisoned, misfit, crashes>>
Becomes(s, thread) == session' = [session EXCEPT ![s] = thread]
Goto(s, pc) == Becomes(s, [session[s] EXCEPT !.pc = pc])
TableFree == vac.pc # "freeze" /\ \A s \in Sessions : session[s].pc # "scan"
Rest(s) == [Idle EXCEPT !.pc = "active", !.xid = session[s].xid]

Begin(s) ==
    /\ Running /\ session[s].pc = "idle"
    /\ \E x \in Xid : /\ \A y \in Xid : outcome[y] = Absent <=> y >= x
                      /\ Tx!Start(x)
                      /\ Becomes(s, [session[s] EXCEPT !.pc = "active", !.xid = x])
    /\ UNCHANGED <<rows, past, vac, damage>>

End(s, result) ==
    /\ Running /\ Tx!Finish(session[s].xid, result)
    /\ Becomes(s, Idle)
    /\ UNCHANGED <<rows, past, vac, damage>>

Commit(s) == session[s].pc = "active" /\ End(s, "Committed")
\* ROLLBACK, and main.rs's reaction to a statement's error.
Abort(s) == session[s].pc \in {"active", "failed"} /\ End(s, "Aborted")

\* Table::insert; key is the row that an UPDATE gives a new version.
AddVersion(s, key) ==
    /\ Running /\ TableFree /\ Len(rows) < MaxRows
    /\ rows' = Append(rows, [xmin |-> session[s].xid, xmax |-> NoXid])
    /\ past' = Append(past, [key |-> key, by |-> session[s].xid, claims |-> {}])

Insert(s) ==
    /\ session[s].pc = "active" /\ AddVersion(s, Len(rows) + 1)
    /\ UNCHANGED <<outcome, answer, session, vac, damage>>

\* rows, rows_with_location: the table stays locked to the last row.
StartScan(s) ==
    /\ Running /\ session[s].pc = "active" /\ TableFree
    /\ Goto(s, "scan")
    /\ UNCHANGED <<outcome, answer, rows, past, vac, damage>>

\* Mutation: the scan goes from the last row to the first.
ScanBackwards(s) ==
    LET me == session[s]
        i == Len(rows) + 1 - me.at IN
    /\ Running /\ me.pc = "scan" /\ me.at <= Len(rows)
    /\ Becomes(s, [me EXCEPT !.at = me.at + 1,
                             !.seen = IF Visible(rows[i], me.xid) THEN @ \cup {i} ELSE @])
    /\ UNCHANGED <<outcome, answer, rows, past, vac, damage>>
ScanRow(s) ==
    LET me == session[s] IN
    /\ Running /\ me.pc = "scan" /\ me.at <= Len(rows)
    /\ Becomes(s, [me EXCEPT !.at = me.at + 1,
                             !.seen = IF Visible(rows[me.at], me.xid) THEN @ \cup {me.at} ELSE @])
    /\ UNCHANGED <<outcome, answer, rows, past, vac, damage>>

\* SELECT ends here; DELETE and UPDATE go on to claim what the predicate picks.
EndScan(s) ==
    LET me == session[s] IN
    /\ Running /\ me.pc = "scan" /\ me.at > Len(rows)
    /\ \/ Becomes(s, Rest(s))
       \/ \E picked \in (SUBSET me.seen) \ {{}}, op \in {"delete", "update"} :
             Becomes(s, [me EXCEPT !.pc = "claim", !.op = op, !.seen = picked, !.at = 1])
    /\ UNCHANGED <<outcome, answer, rows, past, vac, damage>>

------------------------------------------------------------------------------
(* delete_at.                                                              *)

Least(S) == CHOOSE i \in S : \A j \in S : i <= j
Wanted(s) == Least(session[s].seen)
Holder(s) == rows[Wanted(s)].xmax
HeldByOther(s) == Holder(s) \notin {NoXid, session[s].xid}

\* Mutation: a claim by a transaction that has committed does not count.
NeverTaken(s) == FALSE
Taken(s) == HeldByOther(s) /\ Status(Holder(s)) = "Committed"
Busy(s) == HeldByOther(s) /\ Status(Holder(s)) = "InProgress"

\* What is left to do after the row is claimed, and after its new version.
Claimed(s) == IF session[s].op = "update" THEN [session[s] EXCEPT !.pc = "reinsert"]
              ELSE IF session[s].seen = {Wanted(s)} THEN Rest(s)
              ELSE [session[s] EXCEPT !.seen = @ \ {Wanted(s)}]

\* Unclaimed, already ours, or the claimant's fate is not "Committed".
Claim(s) ==
    LET i == Wanted(s)  me == session[s]
        new == [rows[i] EXCEPT !.xmax = me.xid] IN
    /\ ~poisoned /\ me.pc = "claim" /\ TableFree /\ ~Busy(s) /\ ~Taken(s)
    /\ MayPanic(i, new)
    /\ misfit' = (misfit \/ (~poisoned' /\ ~SameLength(rows[i], new)))
    /\ IF poisoned' THEN UNCHANGED <<rows, past, session, damage>>
       ELSE /\ rows' = Rewritten(i, new)
            /\ past' = [past EXCEPT ![i] =
                          [past[i] EXCEPT !.claims = @ \cup {[xid |-> me.xid, op |-> me.op]}]]
            /\ Becomes(s, Claimed(s))
            /\ damage' = damage \cup IF SameLength(rows[i], new) THEN {} ELSE {"long"}
    /\ UNCHANGED <<outcome, answer, vac, crashes>>

\* UPDATE inserts the new version under the table lock of its own call.
Reinsert(s) ==
    LET i == Wanted(s)  me == session[s] IN
    /\ me.pc = "reinsert" /\ AddVersion(s, past[i].key)
    /\ Becomes(s, IF me.seen = {i} THEN Rest(s)
                  ELSE [me EXCEPT !.pc = "claim", !.seen = me.seen \ {i}])
    /\ UNCHANGED <<outcome, answer, vac, damage>>

\* ConcurrentModification: somebody else's delete has committed.
ClaimConflicts(s) ==
    /\ Running /\ session[s].pc = "claim" /\ TableFree /\ Taken(s)
    /\ Goto(s, "failed")
    /\ UNCHANGED <<outcome, answer, rows, past, vac, damage>>

\* wait_for: TxManager has its steps and its locks.
WaitsOn(x, y) == \E s \in Sessions : session[s].pc = "waiting" /\ session[s].xid = x /\ Holder(s) = y
Deadlocked(s) == \A C \in SUBSET Xid :
    Holder(s) \in C /\ (\A x \in C, y \in Xid : WaitsOn(x, y) => y \in C) => session[s].xid \in C

Wait(s) ==
    /\ Running /\ session[s].pc = "claim" /\ TableFree /\ Busy(s)
    /\ IF Deadlocked(s) THEN Goto(s, "failed") ELSE Goto(s, "waiting")
    /\ UNCHANGED <<outcome, answer, rows, past, vac, damage>>

Resume(s) ==
    /\ ~poisoned /\ session[s].pc = "waiting" /\ Status(Holder(s)) # "InProgress"
    /\ poisoned' = (Status(Holder(s)) = Absent)
    /\ Goto(s, "claim")
    /\ UNCHANGED <<outcome, answer, rows, past, vac, misfit, crashes, damage>>

------------------------------------------------------------------------------
(* freeze and vacuum_all.                                                  *)

StartVacuum ==
    /\ Running /\ vac.pc = "idle" /\ TableFree
    /\ vac' = [vac EXCEPT !.pc = "freeze", !.at = 1]
    /\ UNCHANGED <<outcome, answer, rows, past, session, damage>>

Gone(x) == x # NoXid /\ Status(x) = "Committed"
Frozen(row) == [xmin |-> IF Gone(row.xmin) THEN NoXid ELSE row.xmin,
                xmax |-> IF Gone(row.xmax) THEN FROZEN_DEAD ELSE row.xmax]

FreezeRow ==
    /\ ~poisoned /\ vac.pc = "freeze" /\ vac.at <= Len(rows)
    /\ MayPanic(vac.at, Frozen(rows[vac.at]))
    /\ misfit' = (misfit \/ ~SameLength(rows[vac.at], Frozen(rows[vac.at])))
    /\ rows' = Rewritten(vac.at, Frozen(rows[vac.at]))
    /\ vac' = [vac EXCEPT !.at = @ + 1]
    /\ UNCHANGED <<outcome, answer, past, session, crashes, damage>>

\* VACUUM of one table ends here, vacuum_all goes on.
EndFreeze ==
    /\ Running /\ vac.pc = "freeze" /\ vac.at > Len(rows)
    /\ vac' \in {Resting, [Resting EXCEPT !.pc = "check"]}
    /\ UNCHANGED <<outcome, answer, rows, past, session, damage>>

\* has_in_progress
Check ==
    /\ Running /\ vac.pc = "check"
    /\ vac' = IF \E x \in Xid : answer[x] = "InProgress" THEN Resting
              ELSE [vac EXCEPT !.pc = "list"]
    /\ UNCHANGED <<outcome, answer, rows, past, session, damage>>

\* finished_xids
List ==
    /\ Running /\ vac.pc = "list"
    /\ vac' = [vac EXCEPT !.pc = "forget", !.doomed = {x \in Xid : answer[x] \in Tx!Final}]
    /\ UNCHANGED <<outcome, answer, rows, past, session, damage>>

\* forget, once for each.  Forgetting a commit that a row still depends on is
\* the second mishap.
StillNeeded(x) == outcome[x] = "Committed" /\ \E i \in DOMAIN rows : x \in {rows[i].xmin, rows[i].xmax}
Forget ==
    /\ Running /\ vac.pc = "forget"
    /\ IF vac.doomed = {} THEN vac' = Resting /\ UNCHANGED <<outcome, answer, damage>>
       ELSE \E x \in vac.doomed :
              /\ Tx!Forget(x)
              /\ vac' = [vac EXCEPT !.doomed = @ \ {x}]
              /\ damage' = damage \cup IF StillNeeded(x) THEN {"early"} ELSE {}
    /\ UNCHANGED <<rows, past, session>>

------------------------------------------------------------------------------
\* Mutation: what was running is taken to have committed.
TakenForDone(x) == IF outcome[x] = "InProgress" THEN "Committed" ELSE outcome[x]
Recovered(x) == IF outcome[x] = "InProgress" THEN "Aborted" ELSE outcome[x]

\* The process dies, for whatever reason, and all is opened again: the log may
\* still know transactions that were forgotten but not compacted away.
Crash ==
    /\ crashes < MaxCrashes /\ crashes' = crashes + 1
    /\ outcome' = [x \in Xid |-> Recovered(x)]
    /\ \E lost \in SUBSET {x \in Xid : answer[x] = Absent} :
          answer' = [x \in Xid |-> IF x \in lost THEN Absent ELSE outcome'[x]]
    /\ session' = [s \in Sessions |-> Idle]
    /\ vac' = Resting /\ poisoned' \in {FALSE, misfit}
    /\ UNCHANGED <<rows, past, misfit, damage>>

Halted == poisoned /\ UNCHANGED vars

Next ==
    \/ \E s \in Sessions :
          \/ Begin(s) \/ Commit(s) \/ Abort(s) \/ Insert(s)
          \/ StartScan(s) \/ ScanRow(s) \/ EndScan(s)
          \/ Claim(s) \/ Reinsert(s) \/ ClaimConflicts(s) \/ Wait(s) \/ Resume(s)
    \/ StartVacuum \/ FreezeRow \/ EndFreeze \/ Check \/ List \/ Forget
    \/ Crash
    \/ Halted

Spec == Init /\ [][Next]_vars

------------------------------------------------------------------------------
Readers == {session[s].xid : s \in {t \in Sessions : session[t].pc # "idle"}} \cup {NoXid}
Claimants(i) == {c.xid : c \in past[i].claims}

\* A reader sees a version exactly if its creator has committed or is the
\* reader, and none of those who claimed it has committed or is the reader:
\* claims that are overwritten after an abort, freezing, forgetting and
\* restarts lose nothing and bring nothing back.
Live(i, reader) ==
    /\ past[i].by = reader \/ outcome[past[i].by] = "Committed"
    /\ \A x \in Claimants(i) : x # reader /\ outcome[x] # "Committed"
VisibleIsLive ==
    damage = {} => \A i \in DOMAIN rows, r \in Readers : Visible(rows[i], r) <=> Live(i, r)

\* No lost update: of all who claimed a version at most one commits.
OneWinner ==
    damage = {} => \A i \in DOMAIN rows : \A x, y \in Claimants(i) :
        outcome[x] = "Committed" /\ outcome[y] = "Committed" => x = y

\* At any instant other transactions see one version of a row that is there:
\* an UPDATE under way, committed, rolled back, beaten by another or cut off
\* by a crash neither doubles the row nor makes it disappear.
Versions(k) == {i \in DOMAIN rows : past[i].key = k}
Deleted(k) == \E i \in Versions(k) : \E c \in past[i].claims :
                 c.op = "delete" /\ outcome[c.xid] = "Committed"
OneVersion ==
    damage = {} => \A k \in DOMAIN rows :
        past[k].key = k /\ outcome[past[k].by] = "Committed" =>
            Cardinality({i \in Versions(k) : Visible(rows[i], NoXid)})
              = IF Deleted(k) THEN 0 ELSE 1

\* A scan holds the table but not the transactions, so that one that commits
\* meanwhile may show it two versions of a row: then only the later is still
\* there when the scan ends.  It never passes over a row for that reason: of a
\* row that is there when the scan ends, and of which there are versions of two
\* transactions, the scan has met one.
ScanSeesEachRow ==
    damage = {} => \A s \in Sessions :
        LET me == session[s]
            now(i) == Visible(rows[i], me.xid)
        IN  me.pc = "scan" /\ me.at > Len(rows) =>
                \A i, j \in DOMAIN rows : past[i].key = past[j].key =>
                    /\ i < j /\ {i, j} \subseteq me.seen => ~now(i)
                    /\ now(j) /\ past[i].by # past[j].by =>
                          \E m \in me.seen : past[m].key = past[j].key

\* The transactions used here are those that TxManager provides.
UsesTxOutcome == Tx!Spec
==============================================================================
