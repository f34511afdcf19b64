---------------------------- MODULE RowMvccProofs ----------------------------
(***************************************************************************)
(* Machine-checked theorems about RowMvcc, for any number of sessions, row *)
(* versions, transaction ids and crashes, and any length of an id.         *)
(***************************************************************************)
EXTENDS RowMvcc, TLAPS, FiniteSetTheorems, WellFoundedInduction

(***************************************************************************)
(* The inductive invariant.                                                *)
(***************************************************************************)

\* A status query finds the true fate, or nothing once it is final.
AnswersTrue ==
  \A x \in Xid : answer[x] = outcome[x] \/ (answer[x] = Absent /\ outcome[x] \in Tx!Final)

\* Where a thread stands, and what it has then.
SessionSound(s) ==
  LET me == session[s] IN
  /\ me.pc = "idle" <=> me.xid = NoXid
  /\ me.pc # "idle" => outcome[me.xid] = "InProgress"
  /\ me.pc \in {"idle", "active"} => me.seen = {} /\ me.at = 1
  /\ me.pc \in {"claim", "waiting", "reinsert"} => me.seen # {} /\ me.op # "none"
  /\ me.pc = "scan" => me.at <= Len(rows) + 1 /\ \A i \in me.seen : i < me.at
  /\ me.seen \subseteq DOMAIN rows

SessionsSound ==
  /\ \A s \in Sessions : SessionSound(s)
  /\ \A s, t \in Sessions : session[s].xid = session[t].xid /\ session[s].xid # NoXid => s = t

\* One thread has the table at a time.
TableLock ==
  /\ \A s, t \in Sessions : session[s].pc = "scan" /\ session[t].pc = "scan" => s = t
  /\ vac.pc = "freeze" => \A s \in Sessions : session[s].pc # "scan"

VacuumSound == vac.doomed \subseteq {x \in Xid : outcome[x] \in Tx!Final}

\* The history of a version speaks of transactions that have begun, and whoever
\* claimed it made it or saw its maker's commit.
PastSound ==
  /\ Len(past) = Len(rows) /\ Len(rows) <= MaxRows
  /\ \A i \in DOMAIN past :
        /\ outcome[past[i].by] # Absent
        /\ rows[i].xmin = past[i].by \/ (rows[i].xmin = NoXid /\ outcome[past[i].by] = "Committed")
        /\ \A x \in Claimants(i) :
              outcome[x] # Absent /\ (x = past[i].by \/ outcome[past[i].by] = "Committed")

SeenSound ==
  \A s \in Sessions : \A i \in session[s].seen :
     past[i].by = session[s].xid \/ outcome[past[i].by] = "Committed"

BaseInv ==
  TypeOK /\ AnswersTrue /\ SessionsSound /\ TableLock /\ VacuumSound /\ PastSound /\ SeenSound

\* Until a mishap: xmax is the latest claimant, all before it have aborted, and
\* the fate of a committed transaction that a version names can be asked for.
ClaimSound(i) ==
  /\ rows[i].xmax = NoXid => past[i].claims = {}
  /\ rows[i].xmax # NoXid => rows[i].xmax \in Claimants(i)
  /\ \A x \in Claimants(i) : x = rows[i].xmax \/ outcome[x] = "Aborted"
  /\ \A x \in {rows[i].xmin, rows[i].xmax} \ {NoXid} : outcome[x] = "Committed" => answer[x] = "Committed"
LockInv == damage = {} => \A i \in DOMAIN rows : ClaimSound(i)

(***************************************************************************)
(* Lemmas about the operators.                                             *)
(***************************************************************************)

\* A nonempty set of locations has a first one.
LEMMA LeastIn ==
  ASSUME NEW S \in SUBSET Nat, S # {}
  PROVE  Least(S) \in S /\ \A j \in S : Least(S) <= j
<1>1. PICK i \in S : \A j \in S : ~(<<j, i>> \in OpToRel(<, Nat))
  BY NatLessThanWellFounded, WFMin, Zenon
<1>2. ASSUME NEW j \in S PROVE i <= j
  <2>1. ~(j < i)
    BY <1>1 DEF OpToRel
  <2>2. i \in Nat /\ j \in Nat
    OBVIOUS
  <2> QED BY <2>1, <2>2
<1> QED BY <1>2 DEF Least

\* A rewrite that fits its slot never holds FROZEN_DEAD, so that it is a row.
LEMMA FrozenFits ==
  ASSUME NEW row \in Row, SameLength(row, Frozen(row))
  PROVE  /\ Frozen(row) \in Row
         /\ Frozen(row).xmax = row.xmax
         /\ Frozen(row).xmin \in {row.xmin, NoXid}
         /\ Frozen(row).xmin # row.xmin => row.xmin # NoXid /\ Status(row.xmin) = "Committed"
<1>1. Width(row.xmin) \in {1, 3} /\ Width(row.xmax) \in {1, 3}
  BY MvccAssumption DEF Row, Width, FROZEN_DEAD
<1>2. Width(FROZEN_DEAD) = 9 /\ Width(NoXid) \in {1, 3}
  BY MvccAssumption DEF Width, FROZEN_DEAD, NoXid
<1>3. ~Gone(row.xmax)
  BY <1>1, <1>2 DEF Frozen, SameLength, Length
<1> QED BY <1>3, MvccAssumption DEF Frozen, Gone, Row, NoXid

\* The locations of a well-typed table.
LEMMA Places ==
  ASSUME BaseInv
  PROVE  /\ DOMAIN rows = 1..Len(rows) /\ DOMAIN past = DOMAIN rows
         /\ Len(rows) \in Nat /\ DOMAIN rows \subseteq Loc
         /\ \A i \in DOMAIN rows : rows[i] \in Row /\ past[i] \in Past
BY MvccAssumption DEF BaseInv, TypeOK, PastSound, Loc

\* The transaction of a thread that has one.
LEMMA OwnXid ==
  ASSUME BaseInv, NEW s \in Sessions, session[s].pc # "idle"
  PROVE  session[s].xid \in Xid /\ outcome[session[s].xid] = "InProgress"
BY MvccAssumption DEF BaseInv, TypeOK, Thread, SessionsSound, SessionSound, Xid, NoXid

\* The version a statement is at.
LEMMA WantedPlace ==
  ASSUME BaseInv, NEW s \in Sessions, session[s].pc \in {"claim", "waiting", "reinsert"}
  PROVE  Wanted(s) \in session[s].seen /\ Wanted(s) \in DOMAIN rows
<1>1. session[s].seen \in SUBSET Nat /\ session[s].seen # {} /\ session[s].seen \subseteq DOMAIN rows
  BY Places DEF BaseInv, SessionsSound, SessionSound
<1> QED BY <1>1, LeastIn DEF Wanted

(***************************************************************************)
(* Types, transactions and threads.                                        *)
(***************************************************************************)

\* An empty table, nobody at work.
LEMMA BaseInvInit == Init => BaseInv
<1> SUFFICES ASSUME Init PROVE BaseInv
  OBVIOUS
<1>1. Idle \in Thread /\ Idle.pc = "idle" /\ Idle.xid = NoXid /\ Idle.seen = {} /\ Idle.at = 1
  BY MvccAssumption DEF Idle, Thread, NoXid
<1>2. /\ outcome \in [Xid -> {Absent}] /\ answer \in [Xid -> {Absent}]
      /\ rows \in Seq(Row) /\ past \in Seq(Past) /\ Len(rows) = 0 /\ Len(past) = 0
      /\ session \in [Sessions -> Thread]
  BY <1>1 DEF Init, Tx!Init, Tx!Xid, Xid, Absent
<1>3. TypeOK
  <2>1. Resting \in [pc : {"idle", "freeze", "check", "list", "forget"},
                     at : 1..(MaxRows + 1), doomed : SUBSET Xid]
    BY MvccAssumption DEF Resting
  <2>2. /\ outcome \in [Xid -> Tx!Final \cup {"InProgress", Absent}]
        /\ answer \in [Xid -> Tx!Final \cup {"InProgress", Absent}]
    BY <1>2
  <2>3. {poisoned, misfit} \subseteq BOOLEAN
    BY Zenon DEF Init
  <2>4. crashes \in 0..MaxCrashes
    BY MvccAssumption DEF Init
  <2> QED BY <1>2, <2>1, <2>2, <2>3, <2>4 DEF Init, TypeOK
<1>4. SessionsSound
  BY <1>1 DEF Init, SessionsSound, SessionSound
<1>5. AnswersTrue /\ TableLock /\ VacuumSound
  BY <1>1, <1>2 DEF Init, AnswersTrue, TableLock, VacuumSound, Resting
<1>6. PastSound
  BY <1>1, <1>2, MvccAssumption DEF Init, PastSound
<1>7. SeenSound
  BY <1>1 DEF Init, SeenSound
<1> QED BY <1>3, <1>4, <1>5, <1>6, <1>7 DEF BaseInv

\* A thread gets a new position, the others keep theirs.
LEMMA Became ==
  ASSUME BaseInv, NEW s \in Sessions, NEW me \in Thread, Becomes(s, me)
  PROVE  /\ session' \in [Sessions -> Thread] /\ session'[s] = me
         /\ \A t \in Sessions : t # s => session'[t] = session[t]
BY DEF BaseInv, TypeOK, Becomes

\* A thread that runs a transaction takes a step of its statement: what a thread
\* has at each point, the table lock, and that it works on what it may see.
LEMMA ThreadMoves ==
  ASSUME BaseInv, NEW s \in Sessions, NEW me \in Thread, Becomes(s, me),
         session[s].pc # "idle", me.pc # "idle", me.xid = session[s].xid,
         me.pc = "active" => me.seen = {} /\ me.at = 1,
         me.pc \in {"claim", "waiting", "reinsert"} => me.seen # {} /\ me.op # "none",
         me.pc = "scan" => me.at <= Len(rows) + 1 /\ \A i \in me.seen : i < me.at,
         me.pc = "scan" => session[s].pc = "scan" \/ TableFree,
         me.seen \subseteq DOMAIN rows,
         \A i \in me.seen : past[i].by = me.xid \/ outcome[past[i].by] = "Committed",
         UNCHANGED <<outcome, vac>>,
         Len(rows') \in Nat, Len(rows) <= Len(rows'), DOMAIN rows \subseteq DOMAIN rows',
         \A i \in DOMAIN rows : past'[i].by = past[i].by
  PROVE  session' \in [Sessions -> Thread] /\ SessionsSound' /\ TableLock' /\ SeenSound'
<1>1. /\ session' \in [Sessions -> Thread] /\ session'[s] = me
      /\ \A t \in Sessions : t # s => session'[t] = session[t]
  BY Became
<1>2. SessionsSound'
  <2>1. SessionSound(s)'
    <3>1. me.xid # NoXid /\ outcome'[me.xid] = "InProgress"
      BY OwnXid DEF Xid, NoXid
    <3>2. me.at \in Nat
      BY MvccAssumption DEF Thread
    <3> QED BY <1>1, <3>1, <3>2, Places DEF SessionSound
  <2>2. ASSUME NEW t \in Sessions, t # s PROVE SessionSound(t)'
    <3>1. SessionSound(t) /\ session'[t] = session[t]
      BY <1>1, <2>2 DEF BaseInv, SessionsSound
    <3>2. session[t].at \in Nat
      BY MvccAssumption DEF BaseInv, TypeOK, Thread
    <3> QED BY <3>1, <3>2, Places DEF SessionSound
  <2>3. \A t, u \in Sessions : session'[t].xid = session'[u].xid /\ session'[t].xid # NoXid => t = u
    BY <1>1 DEF BaseInv, SessionsSound
  <2> QED BY <2>1, <2>2, <2>3 DEF SessionsSound
<1>3. TableLock'
  BY <1>1 DEF BaseInv, TableLock, TableFree
<1>4. SeenSound'
  <2>1. \A t \in Sessions : session[t].seen \subseteq DOMAIN rows
    BY DEF BaseInv, SessionsSound, SessionSound
  <2> QED BY <1>1, <2>1 DEF BaseInv, SeenSound
<1> QED BY <1>1, <1>2, <1>3, <1>4

\* What the history says stays true while transactions start and end.
LEMMA PastKept ==
  ASSUME BaseInv, UNCHANGED <<rows, past>>,
         \A x \in Xid : /\ outcome[x] = "Committed" => outcome'[x] = "Committed"
                        /\ outcome[x] # Absent => outcome'[x] # Absent
  PROVE  PastSound'
<1>1. \A i \in DOMAIN past : past[i].by \in Xid /\ Claimants(i) \subseteq Xid
  BY Places DEF Past, Mark, Claimants
<1>2. \A i \in DOMAIN past : Claimants(i)' = Claimants(i)
  BY DEF Claimants
<1> QED BY <1>1, <1>2 DEF BaseInv, PastSound

\* A step of a statement that leaves the table alone.
LEMMA StatementBase ==
  ASSUME BaseInv, UNCHANGED <<outcome, answer, rows, past, vac, damage, misfit, crashes>>,
         poisoned' \in BOOLEAN,
         session' \in [Sessions -> Thread], SessionsSound', TableLock', SeenSound'
  PROVE  BaseInv'
<1>1. TypeOK'
  BY DEF BaseInv, TypeOK
<1>2. AnswersTrue' /\ VacuumSound'
  BY DEF BaseInv, AnswersTrue, VacuumSound
<1>3. PastSound'
  BY PastKept
<1> QED BY <1>1, <1>2, <1>3 DEF BaseInv

\* A scan starts before the first row and has seen nothing.
LEMMA StartScanBase == ASSUME BaseInv, NEW s \in Sessions, StartScan(s) PROVE BaseInv'
<1> DEFINE me == [session[s] EXCEPT !.pc = "scan"]
<1>1. session[s] \in Thread
  BY DEF BaseInv, TypeOK
<1>2. /\ me \in Thread /\ me.pc = "scan" /\ me.xid = session[s].xid
      /\ me.seen = session[s].seen /\ me.at = session[s].at
  BY <1>1 DEF Thread
<1>3. Becomes(s, me)
  BY DEF StartScan, Goto
<1> HIDE DEF me
<1>4. session[s].seen = {} /\ session[s].at = 1 /\ session[s].pc = "active"
  BY DEF StartScan, BaseInv, SessionsSound, SessionSound
<1>5. session' \in [Sessions -> Thread] /\ SessionsSound' /\ TableLock' /\ SeenSound'
  BY <1>2, <1>3, <1>4, Places, ThreadMoves DEF StartScan
<1> QED BY <1>5, StatementBase DEF StartScan, Running, BaseInv, TypeOK

\* What a reader sees was made by the reader, or by a transaction that has committed.
LEMMA VisibleMade ==
  ASSUME BaseInv, NEW i \in DOMAIN rows, NEW reader, Visible(rows[i], reader)
  PROVE  past[i].by = reader \/ outcome[past[i].by] = "Committed"
<1>1. rows[i].xmin = past[i].by \/ (rows[i].xmin = NoXid /\ outcome[past[i].by] = "Committed")
  BY Places DEF BaseInv, PastSound
<1>2. rows[i].xmin \in {NoXid, reader} \/ Status(rows[i].xmin) = "Committed"
  BY DEF Visible
<1>3. \A x : Status(x) = "Committed" => outcome[x] = "Committed"
  BY DEF BaseInv, AnswersTrue, Status, Absent, Tx!Absent
<1>4. past[i].by # NoXid
  BY Places DEF Past, Xid, NoXid
<1> QED BY <1>1, <1>2, <1>3, <1>4

\* The row that a scan passes is there, so what it has seen are rows.
LEMMA ScanRowBase == ASSUME BaseInv, NEW s \in Sessions, ScanRow(s) PROVE BaseInv'
<1> DEFINE old == session[s]
           seen == IF Visible(rows[old.at], old.xid) THEN old.seen \cup {old.at} ELSE old.seen
           me == [old EXCEPT !.at = old.at + 1, !.seen = seen]
<1>1. /\ old \in Thread /\ old.pc = "scan" /\ old.at <= Len(rows)
      /\ old.at \in 1..Len(rows) /\ old.at \in Loc /\ old.at \in DOMAIN rows
  BY Places, MvccAssumption DEF BaseInv, TypeOK, ScanRow, Thread, Loc, PastSound
<1>2. /\ seen \in SUBSET Loc /\ old.seen \subseteq seen /\ seen \subseteq old.seen \cup {old.at}
      /\ old.at \in seen \ old.seen => Visible(rows[old.at], old.xid)
  BY <1>1 DEF Thread
<1>3. Becomes(s, me)
  BY DEF ScanRow
<1> HIDE DEF seen
<1>4. /\ me \in Thread /\ me.pc = "scan" /\ me.xid = old.xid /\ me.op = old.op
      /\ me.seen = seen /\ me.at = old.at + 1
  <2>1. old.at + 1 \in 1..(MaxRows + 1)
    BY <1>1, MvccAssumption DEF Loc
  <2> QED BY <1>1, <1>2, <2>1 DEF Thread
<1> HIDE DEF me
<1>5. /\ \A i \in old.seen : i < old.at
      /\ old.seen \subseteq DOMAIN rows
      /\ \A i \in old.seen : past[i].by = old.xid \/ outcome[past[i].by] = "Committed"
  BY <1>1 DEF BaseInv, SessionsSound, SessionSound, SeenSound
<1>6. Visible(rows[old.at], old.xid) =>
         past[old.at].by = old.xid \/ outcome[past[old.at].by] = "Committed"
  BY <1>1, VisibleMade
<1>7. session' \in [Sessions -> Thread] /\ SessionsSound' /\ TableLock' /\ SeenSound'
  <2>1. me.at <= Len(rows) + 1 /\ \A i \in me.seen : i < me.at
    BY <1>1, <1>2, <1>4, <1>5, Places
  <2>2. \A i \in me.seen : i \in DOMAIN rows /\ (past[i].by = me.xid \/ outcome[past[i].by] = "Committed")
    BY <1>1, <1>2, <1>4, <1>5, <1>6
  <2> QED BY <1>1, <1>3, <1>4, <2>1, <2>2, Places, ThreadMoves DEF ScanRow
<1> QED BY <1>7, StatementBase DEF ScanRow, Running, BaseInv, TypeOK

\* The thread that has finished a statement.
LEMMA RestFacts ==
  ASSUME BaseInv, NEW s \in Sessions
  PROVE  /\ Rest(s) \in Thread /\ Rest(s).pc = "active" /\ Rest(s).xid = session[s].xid
         /\ Rest(s).seen = {} /\ Rest(s).at = 1
<1>1. session[s].xid \in 0..MaxXid
  BY DEF BaseInv, TypeOK, Thread
<1>2. /\ Idle \in Thread
      /\ Idle.seen = {} /\ Idle.at = 1 /\ Idle.op = "none"
  BY MvccAssumption DEF Idle, Thread, NoXid
<1> QED BY <1>1, <1>2 DEF Rest, Thread

\* A statement goes on with some of the rows it has seen.
LEMMA EndScanBase == ASSUME BaseInv, NEW s \in Sessions, EndScan(s) PROVE BaseInv'
<1> DEFINE old == session[s]
<1>1. /\ UNCHANGED <<outcome, rows, past, vac>>
      /\ old \in Thread /\ old.pc = "scan" /\ old.seen \subseteq DOMAIN rows
      /\ \A i \in old.seen : past[i].by = old.xid \/ outcome[past[i].by] = "Committed"
  BY DEF BaseInv, TypeOK, EndScan, SessionsSound, SessionSound, SeenSound
<1>2. session' \in [Sessions -> Thread] /\ SessionsSound' /\ TableLock' /\ SeenSound'
  <2>1. CASE Becomes(s, Rest(s))
    <3> DEFINE me == Rest(s)
    <3>1. /\ me \in Thread /\ me.pc = "active" /\ me.xid = old.xid /\ me.seen = {} /\ me.at = 1
          /\ Becomes(s, me)
      BY <2>1, RestFacts
    <3> HIDE DEF me
    <3> QED BY <1>1, <3>1, Places, ThreadMoves
  <2>2. ASSUME NEW picked \in (SUBSET old.seen) \ {{}}, NEW op \in {"delete", "update"},
               Becomes(s, [old EXCEPT !.pc = "claim", !.op = op, !.seen = picked, !.at = 1])
        PROVE  session' \in [Sessions -> Thread] /\ SessionsSound' /\ TableLock' /\ SeenSound'
    <3> DEFINE me == [old EXCEPT !.pc = "claim", !.op = op, !.seen = picked, !.at = 1]
    <3>1. picked \in SUBSET Loc /\ picked # {} /\ picked \subseteq old.seen /\ 1 \in 1..(MaxRows + 1)
      BY <1>1, MvccAssumption DEF Thread
    <3>2. /\ me \in Thread /\ me.pc = "claim" /\ me.xid = old.xid /\ me.seen = picked /\ me.op = op
      BY <1>1, <3>1 DEF Thread
    <3>3. Becomes(s, me)
      BY <2>2
    <3> HIDE DEF me
    <3> QED BY <1>1, <3>1, <3>2, <3>3, Places, ThreadMoves
  <2> QED BY <2>1, <2>2 DEF EndScan
<1> QED BY <1>2, StatementBase DEF EndScan, Running, BaseInv, TypeOK

\* A thread changes its position only.
LEMMA GotoMoves ==
  ASSUME BaseInv, NEW s \in Sessions, NEW pc \in {"claim", "waiting", "failed"}, Goto(s, pc),
         session[s].pc \in {"claim", "waiting"},
         UNCHANGED <<outcome, rows, past, vac>>
  PROVE  session' \in [Sessions -> Thread] /\ SessionsSound' /\ TableLock' /\ SeenSound'
<1> DEFINE me == [session[s] EXCEPT !.pc = pc]
<1>1. session[s] \in Thread
  BY DEF BaseInv, TypeOK
<1>2. /\ me \in Thread /\ me.pc = pc /\ me.xid = session[s].xid
      /\ me.seen = session[s].seen /\ me.at = session[s].at /\ me.op = session[s].op
  BY <1>1 DEF Thread
<1>3. Becomes(s, me)
  BY DEF Goto
<1> HIDE DEF me
<1>4. /\ me.seen # {} /\ me.op # "none" /\ me.seen \subseteq DOMAIN rows
      /\ \A i \in me.seen : past[i].by = me.xid \/ outcome[past[i].by] = "Committed"
  BY <1>2 DEF BaseInv, SessionsSound, SessionSound, SeenSound
<1> QED BY <1>2, <1>3, <1>4, Places, ThreadMoves

\* The other ways out of a round of delete_at change the thread only.
LEMMA ConflictBase ==
  ASSUME BaseInv, NEW s \in Sessions, ClaimConflicts(s) \/ Wait(s) \/ Resume(s)
  PROVE  BaseInv'
<1>1. /\ session[s].pc \in {"claim", "waiting"}
      /\ \E pc \in {"claim", "waiting", "failed"} : Goto(s, pc)
      /\ UNCHANGED <<outcome, answer, rows, past, vac, damage, misfit, crashes>>
  BY DEF ClaimConflicts, Wait, Resume, Running
<1>2. poisoned' \in BOOLEAN
  BY DEF ClaimConflicts, Wait, Resume, Running, BaseInv, TypeOK
<1>3. session' \in [Sessions -> Thread] /\ SessionsSound' /\ TableLock' /\ SeenSound'
  BY <1>1, GotoMoves
<1> QED BY <1>1, <1>2, <1>3, StatementBase

(***************************************************************************)
(* Transactions start, end and are forgotten.                              *)
(***************************************************************************)

\* A session starts: its transaction is one that no version knows.
LEMMA BeginBase == ASSUME BaseInv, NEW s \in Sessions, Begin(s) PROVE BaseInv'
<1>1. PICK x \in Xid : Tx!Start(x) /\ Becomes(s, [session[s] EXCEPT !.pc = "active", !.xid = x])
  BY DEF Begin
<1> DEFINE me == [session[s] EXCEPT !.pc = "active", !.xid = x]
<1>2. session[s].pc = "idle" /\ UNCHANGED <<rows, past, vac, damage, poisoned, misfit, crashes>>
  BY DEF Begin, Running
<1>3. session[s] \in Thread /\ x \in 0..MaxXid
  BY MvccAssumption DEF BaseInv, TypeOK, Xid
<1>4. /\ me \in Thread /\ me.pc = "active" /\ me.xid = x /\ me.seen = session[s].seen
      /\ me.at = session[s].at /\ me.op = session[s].op
  BY <1>3 DEF Thread
<1> HIDE DEF me
<1>5. /\ session' \in [Sessions -> Thread] /\ session'[s] = me
      /\ \A t \in Sessions : t # s => session'[t] = session[t]
  BY <1>1, <1>4, Became DEF me
<1>6. /\ outcome[x] = Absent /\ outcome'[x] = "InProgress"
      /\ \A y \in Xid : y # x => outcome'[y] = outcome[y]
      /\ answer'[x] = "InProgress" /\ \A y \in Xid : y # x => answer'[y] = answer[y]
  BY <1>1 DEF BaseInv, TypeOK, Tx!Start, Absent
<1>7. TypeOK'
  BY <1>1, <1>2, <1>5 DEF BaseInv, TypeOK, Tx!Start
<1>8. AnswersTrue'
  BY <1>6 DEF BaseInv, AnswersTrue
<1>9. SessionsSound'
  <2>1. \A t \in Sessions : session[t].xid # x
    BY <1>6, OwnXid DEF BaseInv, SessionsSound, SessionSound, Xid, NoXid, Absent, Tx!Absent
  <2>2. SessionSound(s)'
    BY <1>2, <1>4, <1>5, <1>6 DEF BaseInv, SessionsSound, SessionSound, Xid, NoXid
  <2>3. ASSUME NEW t \in Sessions, t # s PROVE SessionSound(t)'
    <3>1. SessionSound(t) /\ session'[t] = session[t]
      BY <1>5, <2>3 DEF BaseInv, SessionsSound
    <3>2. session[t].pc # "idle" => outcome'[session[t].xid] = "InProgress"
      BY <1>6, <2>1, OwnXid
    <3> QED BY <1>2, <3>1, <3>2 DEF SessionSound
  <2>4. \A t, u \in Sessions : session'[t].xid = session'[u].xid /\ session'[t].xid # NoXid => t = u
    BY <1>4, <1>5, <2>1 DEF BaseInv, SessionsSound
  <2> QED BY <2>2, <2>3, <2>4 DEF SessionsSound
<1>10. TableLock'
  BY <1>2, <1>4, <1>5 DEF BaseInv, TableLock
<1>11. VacuumSound'
  BY <1>2, <1>6 DEF BaseInv, TypeOK, VacuumSound, Tx!Final, Absent, Tx!Absent
<1>12. PastSound'
  BY <1>2, <1>6, PastKept DEF Absent, Tx!Absent
<1>13. SeenSound'
  <2>1. session[s].seen = {}
    BY <1>2 DEF BaseInv, SessionsSound, SessionSound
  <2>2. \A t \in Sessions : session[t].seen \subseteq DOMAIN rows
    BY DEF BaseInv, SessionsSound, SessionSound
  <2>3. \A i \in DOMAIN rows : past[i].by \in Xid
    BY Places DEF Past
  <2> QED BY <1>2, <1>4, <1>5, <1>6, <2>1, <2>2, <2>3 DEF BaseInv, SeenSound, Absent, Tx!Absent
<1> QED BY <1>7, <1>8, <1>9, <1>10, <1>11, <1>12, <1>13 DEF BaseInv

\* A transaction that runs ends, and its thread starts anew.
LEMMA EndBase ==
  ASSUME BaseInv, NEW s \in Sessions, session[s].pc # "idle",
         NEW result \in {"Committed", "Aborted"}, End(s, result)
  PROVE  BaseInv'
<1> DEFINE x == session[s].xid
<1>1. x \in Xid /\ outcome[x] = "InProgress"
  BY OwnXid
<1>2. UNCHANGED <<rows, past, vac, damage, poisoned, misfit, crashes>> /\ Becomes(s, Idle)
  BY DEF End, Running
<1>3. Idle \in Thread /\ Idle.pc = "idle" /\ Idle.xid = NoXid /\ Idle.seen = {} /\ Idle.at = 1
  BY MvccAssumption DEF Idle, Thread, NoXid
<1>4. /\ session' \in [Sessions -> Thread] /\ session'[s] = Idle
      /\ \A t \in Sessions : t # s => session'[t] = session[t]
  BY <1>2, <1>3, Became
<1>5. /\ outcome'[x] = result /\ \A y \in Xid : y # x => outcome'[y] = outcome[y]
      /\ answer'[x] = result /\ \A y \in Xid : y # x => answer'[y] = answer[y]
  BY <1>1 DEF BaseInv, TypeOK, End, Tx!Finish
<1>6. TypeOK'
  BY <1>2, <1>4 DEF BaseInv, TypeOK, End, Tx!Finish, Tx!Final
<1>7. AnswersTrue'
  BY <1>5 DEF BaseInv, AnswersTrue
<1>8. SessionsSound'
  <2>1. SessionSound(s)'
    BY <1>2, <1>3, <1>4 DEF SessionSound
  <2>2. ASSUME NEW t \in Sessions, t # s PROVE SessionSound(t)'
    <3>1. SessionSound(t) /\ session'[t] = session[t]
      BY <1>4, <2>2 DEF BaseInv, SessionsSound
    <3>2. session[t].pc # "idle" => session[t].xid # x /\ outcome'[session[t].xid] = "InProgress"
      BY <1>1, <1>5, <2>2, OwnXid DEF BaseInv, SessionsSound, Xid, NoXid
    <3> QED BY <1>2, <3>1, <3>2 DEF SessionSound
  <2>3. \A t, u \in Sessions : session'[t].xid = session'[u].xid /\ session'[t].xid # NoXid => t = u
    BY <1>3, <1>4 DEF BaseInv, SessionsSound
  <2> QED BY <2>1, <2>2, <2>3 DEF SessionsSound
<1>9. TableLock'
  BY <1>2, <1>3, <1>4 DEF BaseInv, TableLock
<1>10. VacuumSound'
  BY <1>1, <1>2, <1>5 DEF BaseInv, TypeOK, VacuumSound, Tx!Final
<1>11. PastSound'
  BY <1>1, <1>2, <1>5, PastKept DEF Absent, Tx!Absent
<1>12. SeenSound'
  <2>1. \A t \in Sessions : session[t].seen \subseteq DOMAIN rows
    BY DEF BaseInv, SessionsSound, SessionSound
  <2>2. \A i \in DOMAIN rows : past[i].by \in Xid
    BY Places DEF Past
  <2> QED BY <1>1, <1>2, <1>3, <1>4, <1>5, <2>1, <2>2 DEF BaseInv, SeenSound
<1> QED BY <1>6, <1>7, <1>8, <1>9, <1>10, <1>11, <1>12 DEF BaseInv

\* Forgetting clears answers; the outcomes and the rows stay.
LEMMA ForgetBase == ASSUME BaseInv, Forget PROVE BaseInv'
<1>1. UNCHANGED <<outcome, rows, past, session, poisoned, misfit, crashes>>
  BY DEF Forget, Running, Tx!Forget
<1>2. /\ vac'.pc \in {"idle", "forget"} /\ vac'.doomed \subseteq vac.doomed
      /\ vac' \in [pc : {"idle", "freeze", "check", "list", "forget"},
                   at : 1..(MaxRows + 1), doomed : SUBSET Xid]
  <2>1. CASE vac' = Resting
    BY <2>1, MvccAssumption DEF Resting
  <2>2. CASE \E x \in vac.doomed : vac' = [vac EXCEPT !.doomed = @ \ {x}]
    <3>1. vac.pc = "forget" /\ vac \in [pc : {"idle", "freeze", "check", "list", "forget"},
                                        at : 1..(MaxRows + 1), doomed : SUBSET Xid]
      BY DEF Forget, BaseInv, TypeOK
    <3> QED BY <2>2, <3>1
  <2> QED BY <2>1, <2>2 DEF Forget
<1>3. \A x \in Xid : answer'[x] = answer[x] \/ (answer'[x] = Absent /\ outcome[x] \in Tx!Final)
  BY DEF BaseInv, TypeOK, Forget, Tx!Forget, Absent
<1>4. answer' \in [Xid -> Tx!Final \cup {"InProgress", Absent}] /\ damage' \subseteq {"long", "early"}
  BY DEF BaseInv, TypeOK, Forget, Tx!Forget, Absent
<1>5. TypeOK'
  BY <1>1, <1>2, <1>4 DEF BaseInv, TypeOK
<1>6. AnswersTrue' /\ VacuumSound'
  BY <1>1, <1>2, <1>3 DEF BaseInv, AnswersTrue, VacuumSound
<1>7. SessionsSound' /\ TableLock' /\ PastSound' /\ SeenSound'
  BY <1>1, <1>2, PastKept
     DEF BaseInv, SessionsSound, SessionSound, TableLock, SeenSound
<1> QED BY <1>5, <1>6, <1>7 DEF BaseInv

\* A crash ends every thread and aborts what ran.
LEMMA CrashBase == ASSUME BaseInv, Crash PROVE BaseInv'
<1>1. /\ UNCHANGED <<rows, past, misfit, damage>> /\ vac' = Resting
      /\ session' = [s \in Sessions |-> Idle] /\ poisoned' \in {FALSE, misfit}
      /\ outcome' = [x \in Xid |-> Recovered(x)] /\ crashes' \in 0..MaxCrashes
  <2>1. crashes' \in 0..MaxCrashes
    BY MvccAssumption DEF Crash, BaseInv, TypeOK
  <2> QED BY <2>1, Zenon DEF Crash
<1>2. \A x \in Xid : /\ outcome'[x] = IF outcome[x] = "InProgress" THEN "Aborted" ELSE outcome[x]
                     /\ outcome[x] \in Tx!Final \cup {"InProgress", Absent}
  BY <1>1 DEF Recovered, BaseInv, TypeOK
<1>3. /\ answer' \in [Xid -> {outcome'[x] : x \in Xid} \cup {Absent}]
      /\ \A x \in Xid : answer'[x] = outcome'[x] \/ (answer'[x] = Absent /\ answer[x] = Absent)
  BY DEF Crash
<1>4. Idle \in Thread /\ Idle.pc = "idle" /\ Idle.xid = NoXid /\ Idle.seen = {} /\ Idle.at = 1
  BY MvccAssumption DEF Idle, Thread, NoXid
<1>5. TypeOK'
  <2>1. Resting \in [pc : {"idle", "freeze", "check", "list", "forget"},
                     at : 1..(MaxRows + 1), doomed : SUBSET Xid]
    BY MvccAssumption DEF Resting
  <2>2. /\ outcome' \in [Xid -> Tx!Final \cup {"InProgress", Absent}]
        /\ answer' \in [Xid -> Tx!Final \cup {"InProgress", Absent}]
    BY <1>1, <1>2, <1>3 DEF Tx!Final
  <2>3. {poisoned, misfit}' \subseteq BOOLEAN
    BY <1>1 DEF BaseInv, TypeOK
  <2> QED BY <1>1, <1>4, <2>1, <2>2, <2>3 DEF BaseInv, TypeOK
<1>6. AnswersTrue' /\ VacuumSound'
  BY <1>1, <1>2, <1>3 DEF BaseInv, AnswersTrue, VacuumSound, Tx!Final, Absent, Tx!Absent, Resting
<1>7. SessionsSound' /\ TableLock' /\ SeenSound'
  BY <1>1, <1>4 DEF SessionsSound, SessionSound, TableLock, SeenSound, Resting
<1>8. PastSound'
  BY <1>1, <1>2, PastKept DEF Absent, Tx!Absent
<1> QED BY <1>5, <1>6, <1>7, <1>8 DEF BaseInv

(***************************************************************************)
(* VACUUM.                                                                 *)
(***************************************************************************)

VacState == [pc : {"idle", "freeze", "check", "list", "forget"},
             at : 1..(MaxRows + 1), doomed : SUBSET Xid]

\* The sections of vacuum_all that only read: the listed ids have finished.
LEMMA VacuumBase ==
  ASSUME BaseInv, StartVacuum \/ EndFreeze \/ Check \/ List
  PROVE  BaseInv'
<1>1. /\ UNCHANGED <<outcome, answer, rows, past, session, damage, poisoned, misfit, crashes>>
      /\ vac \in VacState
  BY DEF StartVacuum, EndFreeze, Check, List, Running, BaseInv, TypeOK, VacState
<1>2. /\ vac' \in VacState /\ vac'.doomed \subseteq vac.doomed \cup {x \in Xid : answer[x] \in Tx!Final}
      /\ vac'.pc = "freeze" => TableFree
  <2>1. CASE StartVacuum
    <3>1. 1 \in 1..(MaxRows + 1) /\ TableFree /\ vac' = [vac EXCEPT !.pc = "freeze", !.at = 1]
      BY <2>1, MvccAssumption DEF StartVacuum
    <3> QED BY <1>1, <3>1 DEF VacState
  <2>2. CASE EndFreeze
    BY <1>1, <2>2, MvccAssumption DEF EndFreeze, VacState, Resting
  <2>3. CASE Check
    BY <1>1, <2>3, MvccAssumption DEF Check, VacState, Resting
  <2>4. CASE List
    BY <1>1, <2>4 DEF List, VacState
  <2> QED BY <2>1, <2>2, <2>3, <2>4
<1>3. TypeOK'
  BY <1>1, <1>2 DEF BaseInv, TypeOK, VacState
<1>4. AnswersTrue' /\ VacuumSound'
  BY <1>1, <1>2 DEF BaseInv, AnswersTrue, VacuumSound, Tx!Final, Absent, Tx!Absent
<1>5. SessionsSound' /\ SeenSound' /\ PastSound'
  BY <1>1, PastKept DEF BaseInv, SessionsSound, SessionSound, SeenSound
<1>6. TableLock'
  BY <1>1, <1>2 DEF BaseInv, TableLock, TableFree
<1> QED BY <1>3, <1>4, <1>5, <1>6 DEF BaseInv

\* What becomes of the table when a row is rewritten.
LEMMA RewrittenRow ==
  ASSUME BaseInv, NEW i \in DOMAIN rows, NEW new, SameLength(rows[i], new) => new \in Row
  PROVE  /\ Rewritten(i, new) \in Seq(Row) /\ Len(Rewritten(i, new)) = Len(rows)
         /\ DOMAIN Rewritten(i, new) = DOMAIN rows
         /\ Rewritten(i, new)[i] = IF SameLength(rows[i], new) THEN new ELSE rows[i]
         /\ \A j \in DOMAIN rows : j # i => Rewritten(i, new)[j] = rows[j]
<1>1. rows \in Seq(Row) /\ i \in 1..Len(rows)
  BY Places DEF BaseInv, TypeOK
<1>2. CASE SameLength(rows[i], new)
  BY <1>1, <1>2 DEF Rewritten
<1>3. CASE ~SameLength(rows[i], new)
  BY <1>1, <1>3 DEF Rewritten
<1> QED BY <1>2, <1>3

\* Freezing changes at most the creator's id of a row, to NoXid, and only after
\* the creator's commit.
LEMMA FreezeFacts ==
  ASSUME BaseInv, FreezeRow
  PROVE  /\ vac.at \in DOMAIN rows
         /\ rows' \in Seq(Row) /\ Len(rows') = Len(rows) /\ DOMAIN rows' = DOMAIN rows
         /\ \A i \in DOMAIN rows :
               /\ rows'[i].xmax = rows[i].xmax
               /\ \/ rows'[i].xmin = rows[i].xmin
                  \/ /\ rows'[i].xmin = NoXid /\ rows[i].xmin = past[i].by
                     /\ outcome[past[i].by] = "Committed"
<1> DEFINE i == vac.at
<1>1. i \in DOMAIN rows /\ rows[i] \in Row
  BY Places, MvccAssumption DEF FreezeRow, BaseInv, TypeOK
<1>2. SameLength(rows[i], Frozen(rows[i])) =>
         /\ Frozen(rows[i]) \in Row /\ Frozen(rows[i]).xmax = rows[i].xmax
         /\ \/ Frozen(rows[i]).xmin = rows[i].xmin
            \/ /\ Frozen(rows[i]).xmin = NoXid /\ rows[i].xmin # NoXid
               /\ Status(rows[i].xmin) = "Committed"
  BY <1>1, FrozenFits
<1>3. \A x : Status(x) = "Committed" => outcome[x] = "Committed"
  BY DEF BaseInv, AnswersTrue, Status, Absent, Tx!Absent
<1>4. rows[i].xmin = past[i].by \/ rows[i].xmin = NoXid
  BY <1>1, Places DEF BaseInv, PastSound
<1>5. rows' = Rewritten(i, Frozen(rows[i]))
  BY DEF FreezeRow
<1>6. /\ rows' \in Seq(Row) /\ Len(rows') = Len(rows) /\ DOMAIN rows' = DOMAIN rows
      /\ rows'[i] = IF SameLength(rows[i], Frozen(rows[i])) THEN Frozen(rows[i]) ELSE rows[i]
      /\ \A j \in DOMAIN rows : j # i => rows'[j] = rows[j]
  BY <1>1, <1>2, <1>5, RewrittenRow
<1> HIDE DEF i
<1>7. \A j \in DOMAIN rows : /\ rows'[j].xmax = rows[j].xmax
                             /\ \/ rows'[j].xmin = rows[j].xmin
                                \/ /\ rows'[j].xmin = NoXid /\ rows[j].xmin = past[j].by
                                   /\ outcome[past[j].by] = "Committed"
  BY <1>1, <1>2, <1>3, <1>4, <1>6
<1> QED BY <1>1, <1>6, <1>7 DEF i

\* Freezing rewrites the marks of a row in place.
LEMMA FreezeBase == ASSUME BaseInv, FreezeRow PROVE BaseInv'
<1>1. UNCHANGED <<outcome, answer, past, session, crashes, damage>>
  BY DEF FreezeRow
<1>2. /\ vac \in VacState /\ vac' = [vac EXCEPT !.at = @ + 1]
      /\ vac.at <= Len(rows) /\ Len(rows) <= MaxRows /\ vac.pc = "freeze"
  BY DEF FreezeRow, BaseInv, TypeOK, VacState, PastSound
<1>3. vac' \in VacState /\ vac'.pc = vac.pc /\ vac'.doomed = vac.doomed
  <2>1. vac.at + 1 \in 1..(MaxRows + 1)
    BY <1>2, Places, MvccAssumption DEF VacState
  <2> QED BY <1>2, <2>1 DEF VacState
<1>4. {poisoned, misfit}' \subseteq BOOLEAN
  BY DEF FreezeRow, MayPanic, BaseInv, TypeOK
<1>5. TypeOK'
  BY <1>1, <1>3, <1>4, FreezeFacts DEF BaseInv, TypeOK, VacState
<1>6. AnswersTrue' /\ VacuumSound' /\ TableLock' /\ SeenSound'
  BY <1>1, <1>3 DEF BaseInv, AnswersTrue, VacuumSound, TableLock, SeenSound
<1>7. SessionsSound'
  BY <1>1, FreezeFacts DEF BaseInv, SessionsSound, SessionSound
<1>8. PastSound'
  <2>1. \A i \in DOMAIN past : Claimants(i)' = Claimants(i)
    BY <1>1 DEF Claimants
  <2> QED BY <1>1, <2>1, FreezeFacts, Places DEF BaseInv, PastSound
<1> QED BY <1>5, <1>6, <1>7, <1>8 DEF BaseInv

(***************************************************************************)
(* Statements that write.                                                  *)
(***************************************************************************)

\* Table::insert leaves every version as it is and adds one at the end.
LEMMA AddedVersion ==
  ASSUME BaseInv, NEW s \in Sessions, session[s].pc # "idle", NEW key \in Loc, AddVersion(s, key)
  PROVE  LET n == Len(rows) + 1 IN
         /\ n \in Loc /\ n \notin DOMAIN rows
         /\ rows' \in Seq(Row) /\ past' \in Seq(Past) /\ Len(rows') = n /\ Len(past') = n
         /\ DOMAIN rows' = DOMAIN rows \cup {n} /\ DOMAIN past' = DOMAIN past \cup {n}
         /\ \A i \in DOMAIN rows : rows'[i] = rows[i] /\ past'[i] = past[i]
         /\ rows'[n].xmin = session[s].xid /\ rows'[n].xmax = NoXid
         /\ past'[n].key = key /\ past'[n].by = session[s].xid /\ past'[n].claims = {}
<1> DEFINE row == [xmin |-> session[s].xid, xmax |-> NoXid]
           mark == [key |-> key, by |-> session[s].xid, claims |-> {}]
<1>1. /\ row \in Row /\ row.xmin = session[s].xid /\ row.xmax = NoXid
      /\ mark \in Past /\ mark.key = key /\ mark.by = session[s].xid /\ mark.claims = {}
  BY OwnXid, MvccAssumption DEF Row, Past, Xid, NoXid
<1>2. rows' = Append(rows, row) /\ past' = Append(past, mark) /\ Len(rows) < MaxRows
  BY DEF AddVersion
<1>3. rows \in Seq(Row) /\ past \in Seq(Past) /\ Len(past) = Len(rows) /\ Len(rows) \in Nat
  BY Places DEF BaseInv, TypeOK, PastSound
<1> HIDE DEF row, mark
<1>4. Len(rows) + 1 \in Loc
  BY <1>2, <1>3, MvccAssumption DEF Loc
<1> QED BY <1>1, <1>2, <1>3, <1>4

\* The history of a table with a new version.
LEMMA AddedPast ==
  ASSUME BaseInv, NEW s \in Sessions, session[s].pc # "idle", NEW key \in Loc, AddVersion(s, key),
         UNCHANGED outcome
  PROVE  PastSound'
<1> DEFINE n == Len(rows) + 1
<1>1. /\ DOMAIN past' = DOMAIN rows \cup {n} /\ n \in Loc
      /\ Len(past') = Len(rows') /\ Len(rows') = n
      /\ \A i \in DOMAIN rows : rows'[i] = rows[i] /\ past'[i] = past[i]
      /\ rows'[n].xmin = past'[n].by /\ past'[n].by = session[s].xid /\ past'[n].claims = {}
  BY AddedVersion, Places
<1> HIDE DEF n
<1>2. outcome[session[s].xid] = "InProgress" /\ DOMAIN past = DOMAIN rows
  BY OwnXid, Places
<1>3. Len(rows') <= MaxRows
  BY <1>1, MvccAssumption DEF Loc
<1>4. ASSUME NEW i \in DOMAIN past'
      PROVE  /\ outcome'[past'[i].by] # Absent
             /\ \/ rows'[i].xmin = past'[i].by
                \/ rows'[i].xmin = NoXid /\ outcome'[past'[i].by] = "Committed"
             /\ \A x \in Claimants(i)' :
                  outcome'[x] # Absent /\ (x = past'[i].by \/ outcome'[past'[i].by] = "Committed")
  <2>1. CASE i = n
    BY <1>1, <1>2, <2>1 DEF Claimants, Absent, Tx!Absent
  <2>2. CASE i \in DOMAIN rows
    BY <1>1, <1>2, <2>2 DEF BaseInv, PastSound, Claimants
  <2> QED BY <1>1, <2>1, <2>2
<1> QED BY <1>1, <1>3, <1>4 DEF PastSound

\* A new version has a history that names its creator and nobody else.
LEMMA InsertBase == ASSUME BaseInv, NEW s \in Sessions, Insert(s) PROVE BaseInv'
<1> DEFINE n == Len(rows) + 1
<1>1. /\ UNCHANGED <<outcome, answer, session, vac, damage, poisoned, misfit, crashes>>
      /\ session[s].pc = "active" /\ AddVersion(s, n)
  BY DEF Insert, AddVersion, Running
<1>2. n \in Loc
  BY <1>1, Places, MvccAssumption DEF AddVersion, Loc
<1>3. /\ rows' \in Seq(Row) /\ past' \in Seq(Past) /\ Len(rows') = n
      /\ DOMAIN rows \subseteq DOMAIN rows' /\ \A i \in DOMAIN rows : past'[i] = past[i]
  BY <1>1, <1>2, AddedVersion
<1>4. TypeOK'
  BY <1>1, <1>3 DEF BaseInv, TypeOK
<1>5. AnswersTrue' /\ VacuumSound' /\ TableLock'
  BY <1>1 DEF BaseInv, AnswersTrue, VacuumSound, TableLock
<1>6. SessionsSound'
  <2>1. ASSUME NEW t \in Sessions PROVE SessionSound(t)'
    <3>1. SessionSound(t) /\ session[t].at \in Nat /\ Len(rows) \in Nat
      BY Places, MvccAssumption DEF BaseInv, SessionsSound, TypeOK, Thread
    <3> QED BY <1>1, <1>3, <3>1 DEF SessionSound
  <2> QED BY <1>1, <2>1 DEF BaseInv, SessionsSound
<1>7. PastSound'
  BY <1>1, <1>2, AddedPast
<1>8. SeenSound'
  BY <1>1, <1>3 DEF BaseInv, SeenSound, SessionsSound, SessionSound
<1> QED BY <1>4, <1>5, <1>6, <1>7, <1>8 DEF BaseInv

\* After a claim the statement is at the same version still, or has one less
\* to do, or is done.
LEMMA ClaimedFacts ==
  ASSUME BaseInv, NEW s \in Sessions, session[s].pc = "claim"
  PROVE  LET me == Claimed(s)  old == session[s] IN
         /\ me \in Thread /\ me.xid = old.xid
         /\ \/ /\ me.pc = "reinsert" /\ me.op = old.op /\ old.op = "update" /\ me.seen = old.seen
            \/ me.pc = "active" /\ me.seen = {} /\ me.at = 1
            \/ /\ me.pc = "claim" /\ me.op = old.op /\ me.seen = old.seen \ {Wanted(s)} /\ me.seen # {}
         /\ old.op = "update" <=> me.pc = "reinsert"
<1> DEFINE old == session[s]
<1>1. old \in Thread /\ old.seen # {} /\ old.pc = "claim"
  BY DEF BaseInv, TypeOK, SessionsSound, SessionSound
<1>2. CASE old.op = "update"
  BY <1>1, <1>2 DEF Claimed, Thread
<1>3. CASE old.op # "update" /\ old.seen = {Wanted(s)}
  <2>1. Claimed(s) = Rest(s)
    BY <1>3 DEF Claimed
  <2> QED BY <1>3, <2>1, RestFacts
<1>4. CASE old.op # "update" /\ old.seen # {Wanted(s)}
  <2> DEFINE me == [old EXCEPT !.seen = old.seen \ {Wanted(s)}]
  <2>1. Claimed(s) = me
    BY <1>4 DEF Claimed
  <2>2. /\ me \in Thread /\ me.pc = "claim" /\ me.op = old.op /\ me.xid = old.xid
        /\ me.seen = old.seen \ {Wanted(s)}
    BY <1>1 DEF Thread
  <2>3. old.seen \ {Wanted(s)} # {}
    BY <1>1, <1>4
  <2> HIDE DEF me
  <2> QED BY <1>4, <2>1, <2>2, <2>3
<1> QED BY <1>2, <1>3, <1>4

\* What a claim that does not panic does to the table and its history: at most
\* the xmax of the version changes, and its claimant is remembered.
LEMMA ClaimFacts ==
  ASSUME BaseInv, NEW s \in Sessions, Claim(s), ~poisoned', NEW i, i = Wanted(s)
  PROVE  /\ i \in session[s].seen /\ i \in DOMAIN rows
         /\ rows' \in Seq(Row) /\ Len(rows') = Len(rows) /\ DOMAIN rows' = DOMAIN rows
         /\ past' \in Seq(Past) /\ Len(past') = Len(past) /\ DOMAIN past' = DOMAIN past
         /\ \A j \in DOMAIN rows : /\ rows'[j].xmin = rows[j].xmin
                                   /\ past'[j].key = past[j].key /\ past'[j].by = past[j].by
                                   /\ j # i => rows'[j] = rows[j] /\ past'[j] = past[j]
         /\ past'[i].claims = past[i].claims \cup {[xid |-> session[s].xid, op |-> session[s].op]}
         /\ Claimants(i)' = Claimants(i) \cup {session[s].xid}
         /\ damage' = {} => rows'[i].xmax = session[s].xid
         /\ damage' = {} => damage = {}
<1> DEFINE x == session[s].xid
           new == [rows[i] EXCEPT !.xmax = x]
           mark == [xid |-> x, op |-> session[s].op]
           history == [past[i] EXCEPT !.claims = past[i].claims \cup {mark}]
<1>1. /\ session[s].pc = "claim" /\ i \in session[s].seen /\ i \in DOMAIN rows
      /\ x \in Xid /\ x \in 0..MaxXid
  BY WantedPlace, OwnXid, MvccAssumption DEF Claim, Xid
<1>2. mark \in Mark /\ mark.xid = x
  BY <1>1 DEF BaseInv, TypeOK, Thread, SessionsSound, SessionSound, Mark
<1>3. rows[i] \in Row /\ past[i] \in Past
  BY <1>1, Places
<1>4. new \in Row /\ new.xmin = rows[i].xmin /\ new.xmax = x
  BY <1>1, <1>3 DEF Row
<1> HIDE DEF mark
<1>5. /\ history \in Past /\ history.key = past[i].key /\ history.by = past[i].by
      /\ history.claims = past[i].claims \cup {mark}
  BY <1>2, <1>3 DEF Past
<1>6. /\ rows' = Rewritten(i, new) /\ past' = [past EXCEPT ![i] = history]
      /\ damage' = damage \cup IF SameLength(rows[i], new) THEN {} ELSE {"long"}
  BY DEF Claim, mark
<1> HIDE DEF new, history
<1>7. /\ rows' \in Seq(Row) /\ Len(rows') = Len(rows) /\ DOMAIN rows' = DOMAIN rows
      /\ rows'[i] = IF SameLength(rows[i], new) THEN new ELSE rows[i]
      /\ \A j \in DOMAIN rows : j # i => rows'[j] = rows[j]
  BY <1>1, <1>4, <1>6, RewrittenRow
<1>8. /\ past' \in Seq(Past) /\ Len(past') = Len(past) /\ DOMAIN past' = DOMAIN past
      /\ past'[i] = history /\ \A j \in DOMAIN past : j # i => past'[j] = past[j]
  <2>1. past \in Seq(Past) /\ i \in 1..Len(past)
    BY <1>1, Places DEF BaseInv, TypeOK, PastSound
  <2> QED BY <1>5, <1>6, <2>1
<1>9. Claimants(i)' = Claimants(i) \cup {x}
  BY <1>1, <1>2, <1>5, <1>8 DEF Claimants
<1>10. damage' = {} => rows'[i].xmax = x /\ damage = {}
  BY <1>4, <1>6, <1>7
<1>11. \A j \in DOMAIN rows : /\ rows'[j].xmin = rows[j].xmin
                              /\ past'[j].key = past[j].key /\ past'[j].by = past[j].by
                              /\ j # i => rows'[j] = rows[j] /\ past'[j] = past[j]
  BY <1>4, <1>5, <1>7, <1>8, Places
<1> QED BY <1>1, <1>5, <1>7, <1>8, <1>9, <1>10, <1>11 DEF mark

\* A claim goes into the xmax and into the history.
LEMMA ClaimBase == ASSUME BaseInv, NEW s \in Sessions, Claim(s) PROVE BaseInv'
<1> DEFINE old == session[s]
<1>1. /\ UNCHANGED <<outcome, answer, vac, crashes>> /\ old.pc = "claim"
      /\ {poisoned, misfit}' \subseteq BOOLEAN
  BY DEF Claim, MayPanic, BaseInv, TypeOK
<1>2. CASE poisoned'
  <2>1. UNCHANGED <<rows, past, session, damage>>
    BY <1>2 DEF Claim
  <2>2. TypeOK'
    BY <1>1, <2>1 DEF BaseInv, TypeOK
  <2>3. AnswersTrue' /\ VacuumSound' /\ TableLock' /\ SeenSound' /\ SessionsSound'
    BY <1>1, <2>1
       DEF BaseInv, AnswersTrue, VacuumSound, TableLock, SeenSound, SessionsSound, SessionSound
  <2> QED BY <1>1, <2>1, <2>2, <2>3, PastKept DEF BaseInv
<1>3. CASE ~poisoned'
  <2>1. PICK i \in DOMAIN rows : i = Wanted(s) /\ i \in old.seen
    BY <1>1, WantedPlace
  <2>2. /\ rows' \in Seq(Row) /\ Len(rows') = Len(rows) /\ DOMAIN rows' = DOMAIN rows
        /\ past' \in Seq(Past) /\ Len(past') = Len(past) /\ DOMAIN past' = DOMAIN past
        /\ \A j \in DOMAIN rows : /\ rows'[j].xmin = rows[j].xmin /\ past'[j].by = past[j].by
                                  /\ j # i => past'[j] = past[j]
        /\ Claimants(i)' = Claimants(i) \cup {old.xid}
    BY <1>3, <2>1, ClaimFacts
  <2>3. damage' \subseteq {"long", "early"} /\ Becomes(s, Claimed(s))
    BY <1>3 DEF Claim, BaseInv, TypeOK
  <2>4. session' \in [Sessions -> Thread] /\ SessionsSound' /\ TableLock' /\ SeenSound'
    <3> DEFINE me == Claimed(s)
    <3>1. /\ me \in Thread /\ me.pc # "idle" /\ me.pc # "scan" /\ me.xid = old.xid
          /\ me.pc = "active" => me.seen = {} /\ me.at = 1
          /\ me.pc # "active" => me.seen # {} /\ me.op = old.op
          /\ me.seen \subseteq old.seen
      BY <1>1, ClaimedFacts DEF BaseInv, SessionsSound, SessionSound
    <3>2. /\ old.op # "none" /\ old.seen \subseteq DOMAIN rows
          /\ \A j \in old.seen : past[j].by = old.xid \/ outcome[past[j].by] = "Committed"
      BY <1>1 DEF BaseInv, SessionsSound, SessionSound, SeenSound
    <3> HIDE DEF me
    <3>3. Becomes(s, me)
      BY <2>3 DEF me
    <3> QED BY <1>1, <2>2, <3>1, <3>2, <3>3, Places, ThreadMoves
  <2>5. TypeOK'
    BY <1>1, <2>2, <2>3, <2>4 DEF BaseInv, TypeOK
  <2>6. AnswersTrue' /\ VacuumSound'
    BY <1>1 DEF BaseInv, AnswersTrue, VacuumSound
  <2>7. PastSound'
    <3>1. outcome[old.xid] = "InProgress"
      BY <1>1, OwnXid
    <3>2. past[i].by = old.xid \/ outcome[past[i].by] = "Committed"
      BY <2>1 DEF BaseInv, SeenSound
    <3>3. \A j \in DOMAIN rows : j # i => Claimants(j)' = Claimants(j)
      BY <2>2 DEF Claimants
    <3> QED BY <1>1, <2>2, <3>1, <3>2, <3>3, Places DEF BaseInv, PastSound, Absent, Tx!Absent
  <2> QED BY <2>4, <2>5, <2>6, <2>7 DEF BaseInv
<1> QED BY <1>2, <1>3

\* The new version of an updated row inherits its key.
LEMMA ReinsertBase == ASSUME BaseInv, NEW s \in Sessions, Reinsert(s) PROVE BaseInv'
<1> DEFINE old == session[s]
           i == Wanted(s)
           n == Len(rows) + 1
           me == IF old.seen = {i} THEN Rest(s)
                 ELSE [old EXCEPT !.pc = "claim", !.seen = old.seen \ {i}]
<1>1. /\ UNCHANGED <<outcome, answer, vac, damage, poisoned, misfit, crashes>>
      /\ old.pc = "reinsert" /\ AddVersion(s, past[i].key) /\ Becomes(s, me) /\ TableFree
  BY DEF Reinsert, AddVersion, Running
<1>2. i \in DOMAIN rows /\ past[i].key \in Loc /\ i \in old.seen
  BY <1>1, WantedPlace, Places DEF Past
<1>3. /\ rows' \in Seq(Row) /\ past' \in Seq(Past) /\ Len(rows') = n
      /\ DOMAIN rows \subseteq DOMAIN rows' /\ \A j \in DOMAIN rows : past'[j] = past[j]
  BY <1>1, <1>2, AddedVersion
<1>4. /\ old \in Thread /\ old.seen # {} /\ old.op # "none" /\ old.seen \subseteq DOMAIN rows
      /\ \A j \in old.seen : past[j].by = old.xid \/ outcome[past[j].by] = "Committed"
  BY <1>1 DEF BaseInv, TypeOK, SessionsSound, SessionSound, SeenSound
<1>5. /\ me \in Thread /\ me.xid = old.xid
      /\ \/ me.pc = "active" /\ me.seen = {} /\ me.at = 1
         \/ me.pc = "claim" /\ me.seen = old.seen \ {i} /\ me.seen # {} /\ me.op = old.op
  <2>1. CASE old.seen = {i}
    BY <2>1, RestFacts
  <2>2. CASE old.seen # {i}
    <3> DEFINE you == [old EXCEPT !.pc = "claim", !.seen = old.seen \ {i}]
    <3>1. /\ you \in Thread /\ you.pc = "claim" /\ you.xid = old.xid /\ you.op = old.op
          /\ you.seen = old.seen \ {i}
      BY <1>4 DEF Thread
    <3>2. me = you /\ old.seen \ {i} # {}
      BY <1>4, <2>2
    <3> HIDE DEF you, me
    <3> QED BY <3>1, <3>2
  <2> QED BY <2>1, <2>2
<1> HIDE DEF me
<1>6. session' \in [Sessions -> Thread] /\ SessionsSound' /\ TableLock' /\ SeenSound'
  BY <1>1, <1>3, <1>4, <1>5, Places, ThreadMoves
<1>7. TypeOK'
  BY <1>1, <1>3, <1>6 DEF BaseInv, TypeOK
<1>8. AnswersTrue' /\ VacuumSound'
  BY <1>1 DEF BaseInv, AnswersTrue, VacuumSound
<1>9. PastSound'
  BY <1>1, <1>2, AddedPast
<1> QED BY <1>6, <1>7, <1>8, <1>9 DEF BaseInv

\* Every step keeps the types and the facts about threads and rows.
LEMMA BaseStep == BaseInv /\ [Next]_vars => BaseInv'
<1> SUFFICES ASSUME BaseInv, [Next]_vars PROVE BaseInv'
  OBVIOUS
<1>1. ASSUME NEW s \in Sessions, Begin(s) PROVE BaseInv'
  BY <1>1, BeginBase
<1>2. ASSUME NEW s \in Sessions, Commit(s) \/ Abort(s) PROVE BaseInv'
  BY <1>2, EndBase DEF Commit, Abort
<1>3. ASSUME NEW s \in Sessions, Insert(s) \/ Claim(s) \/ Reinsert(s) PROVE BaseInv'
  BY <1>3, InsertBase, ClaimBase, ReinsertBase
<1>4. ASSUME NEW s \in Sessions, StartScan(s) \/ ScanRow(s) \/ EndScan(s) PROVE BaseInv'
  BY <1>4, StartScanBase, ScanRowBase, EndScanBase
<1>5. ASSUME NEW s \in Sessions, ClaimConflicts(s) \/ Wait(s) \/ Resume(s) PROVE BaseInv'
  BY <1>5, ConflictBase
<1>6. CASE StartVacuum \/ FreezeRow \/ EndFreeze \/ Check \/ List \/ Forget
  BY <1>6, VacuumBase, FreezeBase, ForgetBase
<1>7. CASE Crash
  BY <1>7, CrashBase
<1>8. CASE UNCHANGED vars
  <2>1. TypeOK' /\ AnswersTrue' /\ VacuumSound' /\ TableLock' /\ SeenSound'
    BY <1>8 DEF vars, BaseInv, TypeOK, AnswersTrue, VacuumSound, TableLock, SeenSound
  <2>2. SessionsSound'
    BY <1>8 DEF vars, BaseInv, SessionsSound, SessionSound
  <2>3. PastSound'
    BY <1>8, PastKept DEF vars
  <2> QED BY <2>1, <2>2, <2>3 DEF BaseInv
<1> QED BY <1>1, <1>2, <1>3, <1>4, <1>5, <1>6, <1>7, <1>8 DEF Next, Halted

\* Every variable keeps its type, and a statement is always at a place that
\* its session's transaction, the table and the locks allow.
THEOREM TypeCorrect == Spec => []TypeOK
<1>1. Spec => []BaseInv
  BY BaseInvInit, BaseStep, PTL DEF Spec
<1>2. BaseInv => TypeOK
  BY DEF BaseInv
<1> QED BY <1>1, <1>2, PTL

(***************************************************************************)
(* Claims.                                                                 *)
(***************************************************************************)

\* Transactions that end or are forgotten leave the claims as they should be if
\* what has aborted stays so, and the commits that rows name can be asked for.
LEMMA LockKept ==
  ASSUME BaseInv, LockInv, UNCHANGED <<rows, past>>, damage' = {} => damage = {},
         \A x \in Xid : outcome[x] = "Aborted" => outcome'[x] = "Aborted",
         damage' = {} => \A i \in DOMAIN rows : \A x \in {rows[i].xmin, rows[i].xmax} \ {NoXid} :
            (outcome[x] = "Committed" => answer[x] = "Committed")
               => (outcome'[x] = "Committed" => answer'[x] = "Committed")
  PROVE  LockInv'
<1> SUFFICES ASSUME damage' = {}, NEW i \in DOMAIN rows PROVE ClaimSound(i)'
  BY DEF LockInv
<1>1. ClaimSound(i) /\ Claimants(i)' = Claimants(i) /\ Claimants(i) \subseteq Xid
  BY Places DEF LockInv, Claimants, Past, Mark
<1> QED BY <1>1 DEF ClaimSound

\* A version that has just been added is claimed by nobody.
LEMMA LockAdded ==
  ASSUME BaseInv, LockInv, NEW s \in Sessions, session[s].pc # "idle", NEW key \in Loc,
         AddVersion(s, key), UNCHANGED <<outcome, answer, damage>>
  PROVE  LockInv'
<1> SUFFICES ASSUME damage' = {}, NEW i \in DOMAIN rows' PROVE ClaimSound(i)'
  BY DEF LockInv
<1> DEFINE n == Len(rows) + 1
<1>1. /\ DOMAIN rows' = DOMAIN rows \cup {n}
      /\ \A j \in DOMAIN rows : rows'[j] = rows[j] /\ past'[j] = past[j]
      /\ rows'[n].xmin = session[s].xid /\ rows'[n].xmax = NoXid /\ past'[n].claims = {}
  BY AddedVersion
<1> HIDE DEF n
<1>2. outcome[session[s].xid] = "InProgress"
  BY OwnXid
<1>3. CASE i = n
  BY <1>1, <1>2, <1>3 DEF ClaimSound, Claimants
<1>4. CASE i \in DOMAIN rows
  BY <1>1, <1>4 DEF LockInv, ClaimSound, Claimants
<1> QED BY <1>1, <1>3, <1>4

\* Whoever overwrites a claim overwrites its own, or that of an aborted transaction.
LEMMA OverwrittenAborted ==
  ASSUME BaseInv, NEW s \in Sessions, session[s].pc = "claim", ~Busy(s), ~Taken(s),
         NEW i, i = Wanted(s), ClaimSound(i)
  PROVE  \A x \in Claimants(i) : x = session[s].xid \/ outcome[x] = "Aborted"
<1>1. i \in DOMAIN rows
  BY WantedPlace
<1>2. \A x \in Claimants(i) : x \in Xid /\ outcome[x] # Absent
  BY <1>1, Places DEF BaseInv, PastSound, Claimants, Past, Mark
<1>3. SUFFICES ASSUME NEW x \in Claimants(i), x = rows[i].xmax, x # session[s].xid
               PROVE  outcome[x] = "Aborted"
  BY DEF ClaimSound
<1>4. x # NoXid /\ x \in Xid
  BY <1>2 DEF Xid, NoXid
<1>5. answer[x] # "Committed" /\ answer[x] # "InProgress"
  BY <1>3, <1>4 DEF Busy, Taken, HeldByOther, Holder, Status
<1>6. outcome[x] # "Committed"
  BY <1>3, <1>4, <1>5 DEF ClaimSound
<1> QED BY <1>2, <1>4, <1>5, <1>6 DEF BaseInv, TypeOK, AnswersTrue, Tx!Final

\* delete_at claims a row that is unclaimed, its own, or claimed by an aborted transaction.
LEMMA LockClaim == ASSUME BaseInv, LockInv, NEW s \in Sessions, Claim(s) PROVE LockInv'
<1>1. UNCHANGED <<outcome, answer>> /\ session[s].pc = "claim" /\ ~Busy(s) /\ ~Taken(s)
  BY DEF Claim
<1>2. CASE poisoned'
  <2>1. UNCHANGED <<rows, past, damage>>
    BY <1>2 DEF Claim
  <2> QED BY <1>1, <2>1, LockKept
<1>3. CASE ~poisoned'
  <2> SUFFICES ASSUME damage' = {}, NEW j \in DOMAIN rows' PROVE ClaimSound(j)'
    BY DEF LockInv
  <2>1. PICK i \in DOMAIN rows : i = Wanted(s)
    BY <1>1, WantedPlace
  <2>2. /\ DOMAIN rows' = DOMAIN rows /\ damage = {}
        /\ rows'[i].xmin = rows[i].xmin /\ rows'[i].xmax = session[s].xid
        /\ j # i => rows'[j] = rows[j] /\ past'[j] = past[j]
        /\ Claimants(i)' = Claimants(i) \cup {session[s].xid}
    BY <1>3, <2>1, ClaimFacts
  <2>3. session[s].xid \in Xid /\ outcome[session[s].xid] = "InProgress" /\ session[s].xid # NoXid
    BY <1>1, OwnXid DEF Xid, NoXid
  <2>4. ClaimSound(i) /\ ClaimSound(j)
    BY <2>2 DEF LockInv
  <2>5. CASE j = i
    <3>1. \A x \in Claimants(i)' : x = session[s].xid \/ outcome[x] = "Aborted"
      BY <1>1, <2>1, <2>2, <2>4, OverwrittenAborted
    <3> QED BY <1>1, <2>2, <2>3, <2>4, <2>5, <3>1 DEF ClaimSound
  <2>6. CASE j # i
    BY <1>1, <2>2, <2>4, <2>6 DEF ClaimSound, Claimants
  <2> QED BY <2>5, <2>6
<1> QED BY <1>2, <1>3

\* A rewrite that fits changes the xmin only: claims and xmax stay.
LEMMA LockFreeze == ASSUME BaseInv, LockInv, FreezeRow PROVE LockInv'
<1> SUFFICES ASSUME damage' = {}, NEW i \in DOMAIN rows' PROVE ClaimSound(i)'
  BY DEF LockInv
<1>1. UNCHANGED <<outcome, answer, past, damage>>
  BY DEF FreezeRow
<1>2. i \in DOMAIN rows /\ rows'[i].xmax = rows[i].xmax /\ rows'[i].xmin \in {rows[i].xmin, NoXid}
  BY FreezeFacts
<1>3. ClaimSound(i) /\ Claimants(i)' = Claimants(i)
  BY <1>1, <1>2 DEF LockInv, Claimants
<1> QED BY <1>1, <1>2, <1>3 DEF ClaimSound

\* With no mishap, what is forgotten no row needs.
LEMMA LockForget == ASSUME BaseInv, LockInv, Forget PROVE LockInv'
<1>1. UNCHANGED <<outcome, rows, past>>
  BY DEF Forget, Running, Tx!Forget
<1>2. CASE vac.doomed = {}
  <2>1. UNCHANGED <<answer, damage>>
    BY <1>2 DEF Forget
  <2> QED BY <1>1, <2>1, LockKept
<1>3. CASE vac.doomed # {}
  <2>1. PICK x \in vac.doomed : /\ Tx!Forget(x)
                                /\ damage' = damage \cup IF StillNeeded(x) THEN {"early"} ELSE {}
    BY <1>3 DEF Forget
  <2>2. \A y \in Xid : y # x => answer'[y] = answer[y]
    BY <2>1 DEF Tx!Forget, BaseInv, TypeOK
  <2>3. damage' = {} => damage = {} /\ ~StillNeeded(x)
    BY <2>1
  <2>4. ASSUME damage' = {}, NEW i \in DOMAIN rows, NEW y \in {rows[i].xmin, rows[i].xmax} \ {NoXid},
               outcome[y] = "Committed", answer[y] = "Committed"
        PROVE  answer'[y] = "Committed"
    <3>1. y # x
      BY <2>3, <2>4 DEF StillNeeded
    <3>2. y \in Xid
      BY Places, MvccAssumption DEF Row, Xid, NoXid
    <3> QED BY <2>2, <2>4, <3>1, <3>2
  <2> QED BY <1>1, <2>3, <2>4, LockKept
<1> QED BY <1>2, <1>3

\* A crash aborts running claimants, which then hold nothing.
LEMMA LockCrash == ASSUME BaseInv, LockInv, Crash PROVE LockInv'
<1>1. UNCHANGED <<rows, past, damage>>
  BY DEF Crash
<1>2. \A x \in Xid : outcome'[x] = IF outcome[x] = "InProgress" THEN "Aborted" ELSE outcome[x]
  BY DEF Crash, Recovered
<1>3. \A x \in Xid : answer'[x] = outcome'[x] \/ (answer'[x] = Absent /\ answer[x] = Absent)
  BY DEF Crash
<1>4. \A i \in DOMAIN rows : {rows[i].xmin, rows[i].xmax} \ {NoXid} \subseteq Xid
  BY Places, MvccAssumption DEF Row, Xid, NoXid
<1> QED BY <1>1, <1>2, <1>3, <1>4, LockKept DEF Absent, Tx!Absent

\* Every step keeps what the xmax of a version says of its claimants.
LEMMA LockStep == BaseInv /\ LockInv /\ [Next]_vars => LockInv'
<1> SUFFICES ASSUME BaseInv, LockInv, [Next]_vars PROVE LockInv'
  OBVIOUS
<1>1. ASSUME NEW s \in Sessions, Begin(s) PROVE LockInv'
  <2>1. PICK x \in Xid : Tx!Start(x)
    BY <1>1 DEF Begin
  <2>2. UNCHANGED <<rows, past, damage>>
    BY <1>1 DEF Begin
  <2>3. \A y : y \in Xid => /\ y = x => outcome[y] = Absent /\ outcome'[y] = "InProgress"
                            /\ y # x => outcome'[y] = outcome[y] /\ answer'[y] = answer[y]
    BY <2>1 DEF Tx!Start, Absent, BaseInv, TypeOK
  <2>4. \A i \in DOMAIN rows : {rows[i].xmin, rows[i].xmax} \ {NoXid} \subseteq Xid
    BY Places, MvccAssumption DEF Row, Xid, NoXid
  <2> QED BY <2>2, <2>3, <2>4, LockKept DEF Absent, Tx!Absent
<1>2. ASSUME NEW s \in Sessions, NEW result \in {"Committed", "Aborted"},
             session[s].pc # "idle", End(s, result)
      PROVE  LockInv'
  <2> DEFINE x == session[s].xid
  <2>1. x \in Xid /\ outcome[x] = "InProgress"
    BY <1>2, OwnXid
  <2>2. UNCHANGED <<rows, past, damage>>
    BY <1>2 DEF End
  <2>3. \A y : y \in Xid => /\ y = x => outcome'[y] = answer'[y]
                            /\ y # x => outcome'[y] = outcome[y] /\ answer'[y] = answer[y]
    BY <1>2, <2>1 DEF End, Tx!Finish, BaseInv, TypeOK
  <2>4. \A i \in DOMAIN rows : {rows[i].xmin, rows[i].xmax} \ {NoXid} \subseteq Xid
    BY Places, MvccAssumption DEF Row, Xid, NoXid
  <2> HIDE DEF x
  <2> QED BY <2>1, <2>2, <2>3, <2>4, LockKept
<1>3. ASSUME NEW s \in Sessions, Insert(s) PROVE LockInv'
  <2>1. Len(rows) + 1 \in Loc
    BY <1>3, Places, MvccAssumption DEF Insert, AddVersion, Loc
  <2> QED BY <1>3, <2>1, LockAdded DEF Insert
<1>4. ASSUME NEW s \in Sessions, Reinsert(s) PROVE LockInv'
  <2>1. Wanted(s) \in DOMAIN rows /\ past[Wanted(s)].key \in Loc
    BY <1>4, WantedPlace, Places DEF Reinsert, Past
  <2>2. AddVersion(s, past[Wanted(s)].key) /\ session[s].pc = "reinsert"
        /\ UNCHANGED <<outcome, answer, damage>>
    BY <1>4 DEF Reinsert
  <2> QED BY <2>1, <2>2, LockAdded
<1>5. ASSUME NEW s \in Sessions,
             \/ StartScan(s) \/ ScanRow(s) \/ EndScan(s)
             \/ ClaimConflicts(s) \/ Wait(s) \/ Resume(s)
      PROVE  LockInv'
  <2>1. UNCHANGED <<outcome, answer, rows, past, damage>>
    BY <1>5 DEF StartScan, ScanRow, EndScan, ClaimConflicts, Wait, Resume
  <2> QED BY <2>1, LockKept
<1>6. CASE StartVacuum \/ EndFreeze \/ Check \/ List \/ UNCHANGED vars
  <2>1. UNCHANGED <<outcome, answer, rows, past, damage>>
    BY <1>6 DEF StartVacuum, EndFreeze, Check, List, vars
  <2> QED BY <2>1, LockKept
<1>7. ASSUME NEW s \in Sessions, Commit(s) \/ Abort(s) PROVE LockInv'
  BY <1>2, <1>7 DEF Commit, Abort
<1> QED BY <1>1, <1>3, <1>4, <1>5, <1>6, <1>7, LockClaim, LockFreeze, LockForget, LockCrash
        DEF Next, Halted

\* A reader sees what is live for it: the claims and the fates that xmin and xmax
\* stand for are all that counts.
LEMMA LockedVisible == ASSUME BaseInv, LockInv PROVE VisibleIsLive
<1> SUFFICES ASSUME damage = {}, NEW i \in DOMAIN rows, NEW r \in Readers
             PROVE  Visible(rows[i], r) <=> Live(i, r)
  BY DEF VisibleIsLive
<1>1. /\ rows[i] \in Row /\ past[i].by \in Xid /\ Claimants(i) \subseteq Xid /\ ClaimSound(i)
      /\ rows[i].xmin = past[i].by \/ (rows[i].xmin = NoXid /\ outcome[past[i].by] = "Committed")
  BY Places DEF BaseInv, PastSound, LockInv, Claimants, Past, Mark
<1>2. r = NoXid \/ (r \in Xid /\ outcome[r] = "InProgress")
  BY OwnXid DEF Readers
<1>3. \A x \in Xid : Status(x) = answer[x] /\ (answer[x] = "Committed" => outcome[x] = "Committed")
  BY DEF BaseInv, AnswersTrue, Status, Absent, Tx!Absent
<1>4. (rows[i].xmin \in {NoXid, r} \/ Status(rows[i].xmin) = "Committed")
         <=> (past[i].by = r \/ outcome[past[i].by] = "Committed")
  <2>1. NoXid \notin Xid
    BY DEF NoXid, Xid
  <2> QED BY <1>1, <1>2, <1>3, <2>1 DEF ClaimSound, Status, Absent, Tx!Absent
<1>5. (rows[i].xmax # NoXid => rows[i].xmax # r /\ Status(rows[i].xmax) # "Committed")
         <=> \A x \in Claimants(i) : x # r /\ outcome[x] # "Committed"
  <2>1. CASE rows[i].xmax = NoXid
    BY <1>1, <2>1 DEF ClaimSound, Claimants
  <2>2. CASE rows[i].xmax # NoXid
    <3>1. rows[i].xmax \in Claimants(i) /\ rows[i].xmax \in Xid
      BY <1>1, <2>2 DEF ClaimSound
    <3>2. Status(rows[i].xmax) = "Committed" <=> outcome[rows[i].xmax] = "Committed"
      BY <1>1, <1>3, <2>2, <3>1 DEF ClaimSound
    <3>3. \A x \in Claimants(i) : x # rows[i].xmax => x # r /\ outcome[x] # "Committed"
      BY <1>1, <1>2 DEF ClaimSound, Xid, NoXid
    <3> QED BY <2>2, <3>1, <3>2, <3>3
  <2> QED BY <2>1, <2>2
<1>6. rows[i].xmax # FROZEN_DEAD
  BY <1>1, MvccAssumption DEF Row, FROZEN_DEAD
<1> QED BY <1>4, <1>5, <1>6 DEF Visible, Live

\* The base and the locks hold in every state.
LEMMA Inductive == Spec => [](BaseInv /\ LockInv)
<1>1. Init => BaseInv /\ LockInv
  BY BaseInvInit DEF Init, LockInv
<1>2. BaseInv /\ LockInv /\ [Next]_vars => (BaseInv /\ LockInv)'
  BY BaseStep, LockStep
<1> QED BY <1>1, <1>2, PTL DEF Spec

\* No lost update: of all the transactions that claimed a version, delete_at let
\* at most one commit, whatever the number of threads, the order of their steps,
\* aborts, vacuums and restarts.
THEOREM LocksHold == Spec => []OneWinner
<1>1. BaseInv /\ LockInv => OneWinner
  BY DEF LockInv, ClaimSound, OneWinner
<1> QED BY <1>1, Inductive, PTL

\* row_is_visible tells each reader the truth about every version.
THEOREM VisibilityCorrect == Spec => []VisibleIsLive
<1>1. BaseInv /\ LockInv => VisibleIsLive
  BY LockedVisible
<1> QED BY <1>1, Inductive, PTL

\* The threads, VACUUM and restarts use transactions as the manager offers them.
THEOREM UsesOutcomes == Spec => UsesTxOutcome
<1>1. Init => Tx!Init
  BY DEF Init
<1>2. ASSUME BaseInv, [Next]_vars PROVE [Tx!Next]_(Tx!vars)
  <2>1. ASSUME NEW s \in Sessions, Begin(s) PROVE Tx!Next
    BY <2>1 DEF Begin, Tx!Next, Tx!Xid, Xid
  <2>2. ASSUME NEW s \in Sessions, Commit(s) \/ Abort(s) PROVE Tx!Next
    <3>1. session[s].xid \in Tx!Xid
      BY <1>2, <2>2, OwnXid DEF Commit, Abort, Tx!Xid, Xid
    <3>2. \E result \in Tx!Final : Tx!Finish(session[s].xid, result)
      BY <2>2 DEF Commit, Abort, End, Tx!Final
    <3> QED BY <3>1, <3>2 DEF Tx!Next
  <2>3. ASSUME NEW s \in Sessions,
               \/ Insert(s) \/ StartScan(s) \/ ScanRow(s) \/ EndScan(s)
               \/ Claim(s) \/ Reinsert(s) \/ ClaimConflicts(s) \/ Wait(s) \/ Resume(s)
        PROVE  UNCHANGED Tx!vars
    BY <2>3 DEF Insert, StartScan, ScanRow, EndScan, Claim, Reinsert, ClaimConflicts, Wait, Resume,
                Tx!vars
  <2>4. CASE StartVacuum \/ FreezeRow \/ EndFreeze \/ Check \/ List \/ UNCHANGED vars
    BY <2>4 DEF StartVacuum, FreezeRow, EndFreeze, Check, List, vars, Tx!vars
  <2>5. CASE Forget
    <3>1. CASE vac.doomed = {}
      BY <2>5, <3>1 DEF Forget, Running, Tx!vars, Tx!Forget
    <3>2. CASE vac.doomed # {}
      <4>1. PICK x \in vac.doomed : Tx!Forget(x)
        BY <2>5, <3>2 DEF Forget
      <4>2. x \in Tx!Xid
        BY <1>2 DEF BaseInv, TypeOK, Tx!Xid, Xid
      <4> QED BY <4>1, <4>2 DEF Tx!Next
    <3> QED BY <3>1, <3>2
  <2>6. CASE Crash
    <3>1. /\ Tx!Xid = Xid /\ outcome' = [x \in Xid |-> Recovered(x)]
          /\ answer' \in [Xid -> {outcome'[x] : x \in Xid} \cup {Absent}]
          /\ \A x \in Xid : answer'[x] = outcome'[x] \/ (answer'[x] = Absent /\ answer[x] = Absent)
      BY <2>6 DEF Crash, Tx!Xid, Xid
    <3>2. \A x \in Xid : /\ outcome'[x] = IF outcome[x] = "InProgress" THEN "Aborted" ELSE outcome[x]
                         /\ outcome[x] \in {"Committed", "Aborted", "InProgress", "Absent"}
      BY <1>2, <3>1 DEF Recovered, BaseInv, TypeOK, Tx!Final, Absent, Tx!Absent
    <3>3. outcome' \in [Xid -> {"Committed", "Aborted", "Absent"}]
      BY <3>1, <3>2
    <3>4. answer' \in [Xid -> {"Committed", "Aborted", "Absent"}]
      BY <3>1, <3>3 DEF Absent, Tx!Absent
    <3>5. Tx!Restart
      BY <3>1, <3>2, <3>3, <3>4 DEF Tx!Restart, Tx!Final, Absent, Tx!Absent
    <3> QED BY <3>5 DEF Tx!Next
  <2> QED BY <1>2, <2>1, <2>2, <2>3, <2>4, <2>5, <2>6 DEF Next, Halted
<1> QED BY <1>1, <1>2, BaseInvInit, BaseStep, PTL DEF Spec, UsesTxOutcome, Tx!Spec
==============================================================================
