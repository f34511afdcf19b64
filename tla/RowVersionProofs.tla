--------------------------- MODULE RowVersionProofs ---------------------------
(***************************************************************************)
(* Machine-checked theorems about the versions of a row in RowMvcc: that   *)
(* UPDATE neither doubles a row nor loses it, and what a scan meets.       *)
(***************************************************************************)
EXTENDS RowMvccProofs

(***************************************************************************)
(* The inductive invariant, on top of BaseInv and LockInv.                 *)
(***************************************************************************)

\* What a version is to transaction t, which runs: its own latest version of the
\* row, or the one that all others see.
Claims(t, i) == t \in Claimants(i)
Deletes(t, i) == [xid |-> t, op |-> "delete"] \in past[i].claims
Updates(t, i) == [xid |-> t, op |-> "update"] \in past[i].claims
SameRow(i, j) == past[i].key = past[j].key
Tip(t, i) == past[i].by = t /\ ~Claims(t, i)
Current(i) ==
  outcome[past[i].by] = "Committed" /\ \A x \in Claimants(i) : outcome[x] # "Committed"

KeysSound ==
  \A i \in DOMAIN rows :
    LET k == past[i].key IN
    /\ k <= i /\ past[k].key = k
    /\ past[i].by = past[k].by \/ outcome[past[k].by] = "Committed"

\* A thread has not claimed what it is still to claim.
SeenUnclaimed ==
  \A s \in Sessions : \A i \in session[s].seen :
     /\ session[s].pc \in {"scan", "claim", "waiting"} => ~Claims(session[s].xid, i)
     /\ session[s].pc = "reinsert" =>
          IF i = Wanted(s) THEN Updates(session[s].xid, i) ELSE ~Claims(session[s].xid, i)

OneCurrent == \A i, j \in DOMAIN rows : SameRow(i, j) /\ Current(i) /\ Current(j) => i = j
DeletedGone ==
  \A i, j \in DOMAIN rows : \A x \in Xid :
     SameRow(i, j) /\ Deletes(x, i) /\ outcome[x] = "Committed" => ~Current(j)
SomeCurrent ==
  \A k \in DOMAIN rows : past[k].key = k /\ outcome[past[k].by] = "Committed" /\ ~Deleted(k) =>
     \E i \in DOMAIN rows : past[i].key = k /\ Current(i)

\* What a running transaction did to a row.
OneTip ==
  \A t \in Xid : outcome[t] = "InProgress" =>
    /\ \A i, j \in DOMAIN rows : SameRow(i, j) /\ Tip(t, i) /\ Tip(t, j) => i = j
    /\ \A i, j \in DOMAIN rows : SameRow(i, j) /\ Deletes(t, i) => ~Tip(t, j)
    /\ \A i \in DOMAIN rows : past[i].by = t /\ past[past[i].key].by # t =>
          \E b \in DOMAIN rows : b < i /\ SameRow(b, i) /\ past[b].by # t /\ Claims(t, b)
Reinserting(t, i) == \E s \in Sessions :
    session[s].pc = "reinsert" /\ session[s].xid = t /\ SameRow(Wanted(s), i)
SomeTip ==
  \A t \in Xid : outcome[t] = "InProgress" =>
    \A i \in DOMAIN rows : past[i].by = t \/ Claims(t, i) =>
       \/ \E j \in DOMAIN rows : SameRow(i, j) /\ (Tip(t, j) \/ Deletes(t, j))
       \/ Reinserting(t, i)
NoTipYet ==
  \A s \in Sessions : session[s].pc = "reinsert" => \A j \in DOMAIN rows :
     SameRow(Wanted(s), j) => ~Tip(session[s].xid, j) /\ ~Deletes(session[s].xid, j)

\* What a scan by transaction t has met when it reaches location at: of two
\* versions it has seen the earlier is gone, and of a row that two transactions
\* have given versions, what is there and has been passed, or another version of
\* it, has been seen.
ScanMeets(t, seen, at) ==
  /\ \A i, j \in seen : i < j /\ SameRow(i, j) => ~Live(i, t)
  /\ \A i, j \in DOMAIN rows :
        j < at /\ SameRow(i, j) /\ past[i].by # past[j].by /\ Live(j, t) =>
           \E m \in seen : SameRow(m, j)
ScanInv == damage = {} => \A s \in Sessions :
  session[s].pc = "scan" => ScanMeets(session[s].xid, session[s].seen, session[s].at)

VersionInv == damage = {} =>
  KeysSound /\ SeenUnclaimed /\ OneCurrent /\ DeletedGone /\ SomeCurrent /\ OneTip /\ SomeTip /\ NoTipYet

(***************************************************************************)
(* What one state of the table implies.                                    *)
(***************************************************************************)

\* The transactions of a version's history.
LEMMA PastFacts ==
  ASSUME BaseInv, NEW i \in DOMAIN rows
  PROVE  /\ past[i].by \in Xid /\ Claimants(i) \subseteq Xid /\ outcome[past[i].by] # Absent
         /\ \A x : Claims(x, i) => /\ x \in Xid /\ outcome[x] # Absent
                                   /\ x = past[i].by \/ outcome[past[i].by] = "Committed"
BY Places DEF BaseInv, PastSound, Claims, Claimants, Past, Mark

\* A version that a running transaction has claimed is not claimed by anyone
\* else who could still commit, so that it is the current one, or its own.
LEMMA RunningClaim ==
  ASSUME BaseInv, LockInv, damage = {}, NEW t, outcome[t] = "InProgress",
         NEW b \in DOMAIN rows, Claims(t, b)
  PROVE  /\ \A x \in Claimants(b) : x = t \/ outcome[x] = "Aborted"
         /\ past[b].by # t => Current(b)
<1>1. \A x \in Claimants(b) : x = rows[b].xmax \/ outcome[x] = "Aborted"
  BY DEF LockInv, ClaimSound
<1>2. t \in Claimants(b)
  BY DEF Claims
<1> QED BY <1>1, <1>2, PastFacts DEF Current

\* Who has made a new version of a row has claimed the one all others see.
LEMMA BaseClaimed ==
  ASSUME BaseInv, LockInv, VersionInv, damage = {},
         NEW t, outcome[t] = "InProgress", NEW j \in DOMAIN rows, past[j].by = t,
         NEW i \in DOMAIN rows, SameRow(i, j), Current(i)
  PROVE  Claims(t, i)
<1>1. t \in Xid
  BY PastFacts
<1>2. past[past[j].key].by # t
  BY DEF VersionInv, KeysSound, SameRow, Current
<1>3. PICK b \in DOMAIN rows : SameRow(b, j) /\ past[b].by # t /\ Claims(t, b)
  BY <1>1, <1>2 DEF VersionInv, OneTip
<1>4. Current(b)
  BY <1>3, RunningClaim
<1> QED BY <1>3, <1>4 DEF VersionInv, OneCurrent, SameRow

\* At most one version of a row is live for a running transaction.
LEMMA OneLive ==
  ASSUME BaseInv, LockInv, VersionInv, damage = {}, NEW t \in Xid, outcome[t] = "InProgress",
         NEW i \in DOMAIN rows, NEW j \in DOMAIN rows, SameRow(i, j), Live(i, t), Live(j, t)
  PROVE  i = j
<1>1. /\ Tip(t, i) \/ (Current(i) /\ ~Claims(t, i))
      /\ Tip(t, j) \/ (Current(j) /\ ~Claims(t, j))
  BY DEF Live, Tip, Current, Claims
<1>2. SameRow(j, i)
  BY DEF SameRow
<1>3. ASSUME NEW a \in DOMAIN rows, NEW b \in DOMAIN rows, SameRow(a, b), Current(a), Tip(t, b)
      PROVE  Claims(t, a)
  BY <1>3, BaseClaimed DEF Tip
<1> QED BY <1>1, <1>2, <1>3 DEF VersionInv, OneCurrent, OneTip

(***************************************************************************)
(* Steps that leave the versions and what has committed alone.             *)
(***************************************************************************)

\* A step that adds no version and no claim, and commits nothing.
LEMMA QuietStep ==
  ASSUME BaseInv, VersionInv, damage = {}, past' = past, DOMAIN rows' = DOMAIN rows,
         \A x \in Xid : /\ outcome'[x] = "Committed" <=> outcome[x] = "Committed"
                        /\ outcome'[x] = "InProgress" => outcome[x] \in {"InProgress", Absent},
         \A s \in Sessions :
            \/ session'[s] = session[s]
            \/ /\ session[s].pc = "reinsert" => outcome'[session[s].xid] # "InProgress"
               /\ session'[s].pc # "reinsert"
               /\ \A i \in session'[s].seen : ~Claims(session'[s].xid, i)
  PROVE  VersionInv'
<1>1. ASSUME NEW i, NEW j, NEW x
      PROVE  /\ Claimants(i)' = Claimants(i)
             /\ SameRow(i, j)' <=> SameRow(i, j)
             /\ Claims(x, i)' <=> Claims(x, i)
             /\ Tip(x, i)' <=> Tip(x, i)
             /\ Deletes(x, i)' <=> Deletes(x, i)
             /\ Updates(x, i)' <=> Updates(x, i)
  BY DEF Claimants, SameRow, Claims, Tip, Deletes, Updates
<1>2. \A i \in DOMAIN rows : Current(i)' <=> Current(i)
  BY <1>1, PastFacts DEF Current
<1>3. \A k \in DOMAIN rows : Deleted(k)' <=> Deleted(k)
  <2>1. \A i \in DOMAIN rows : \A c \in past[i].claims : c.xid \in Xid
    BY Places DEF Past, Mark
  <2> QED BY <2>1 DEF Deleted, Versions
<1>4. KeysSound'
  <2>1. \A i \in DOMAIN rows : past[i].key \in DOMAIN rows
    BY Places DEF VersionInv, KeysSound, Past, Loc
  <2> QED BY <2>1, PastFacts DEF VersionInv, KeysSound
<1>5. OneCurrent' /\ SomeCurrent'
  <2>1. OneCurrent'
    BY <1>1, <1>2 DEF VersionInv, OneCurrent
  <2>2. ASSUME NEW k \in DOMAIN rows, past[k].key = k, outcome'[past[k].by] = "Committed", ~Deleted(k)'
        PROVE  \E i \in DOMAIN rows : past[i].key = k /\ Current(i)'
    <3>1. outcome[past[k].by] = "Committed" /\ ~Deleted(k)
      BY <1>3, <2>2, PastFacts
    <3> QED BY <1>2, <2>2, <3>1 DEF VersionInv, SomeCurrent
  <2> QED BY <2>1, <2>2 DEF SomeCurrent
<1>6. DeletedGone'
  BY <1>1, <1>2 DEF VersionInv, DeletedGone
<1>7. ASSUME NEW t \in Xid, outcome'[t] = "InProgress", outcome[t] # "InProgress", NEW i \in DOMAIN rows
      PROVE  past[i].by # t /\ ~Claims(t, i)
  BY <1>7, PastFacts
<1>8. OneTip'
  BY <1>1, <1>7 DEF VersionInv, OneTip, Tip, Deletes, Claims, Claimants
<1>9. ASSUME NEW s \in Sessions, session'[s] = session[s] PROVE Wanted(s)' = Wanted(s)
  BY <1>9 DEF Wanted
<1>10. SeenUnclaimed' /\ NoTipYet'
  <2>1. ASSUME NEW s \in Sessions, NEW i \in session'[s].seen
        PROVE  /\ session'[s].pc \in {"scan", "claim", "waiting"} => ~Claims(session'[s].xid, i)
               /\ session'[s].pc = "reinsert" =>
                    IF i = Wanted(s)' THEN Updates(session'[s].xid, i) ELSE ~Claims(session'[s].xid, i)
    BY <1>9, <2>1 DEF VersionInv, SeenUnclaimed
  <2>2. ASSUME NEW s \in Sessions, session'[s].pc = "reinsert", NEW j \in DOMAIN rows,
               SameRow(Wanted(s)', j)
        PROVE  ~Tip(session'[s].xid, j) /\ ~Deletes(session'[s].xid, j)
    BY <1>9, <2>2 DEF VersionInv, NoTipYet
  <2>3. SeenUnclaimed'
    BY <1>1, <2>1 DEF SeenUnclaimed
  <2>4. NoTipYet'
    BY <1>1, <2>2 DEF NoTipYet
  <2> QED BY <2>3, <2>4
<1>11. SomeTip'
  <2> SUFFICES ASSUME NEW t \in Xid, outcome'[t] = "InProgress",
                      NEW i \in DOMAIN rows, past[i].by = t \/ Claims(t, i),
                      ~\E j \in DOMAIN rows : SameRow(i, j) /\ (Tip(t, j) \/ Deletes(t, j))
               PROVE  Reinserting(t, i)'
    BY <1>1 DEF SomeTip
  <2>1. Reinserting(t, i)
    BY <1>7 DEF VersionInv, SomeTip
  <2> QED BY <1>1, <1>9, <2>1 DEF Reinserting
<1> QED BY <1>4, <1>5, <1>6, <1>8, <1>10, <1>11 DEF VersionInv

\* Scanning, conflicts and waiting are such steps.
LEMMA QuietSessions ==
  ASSUME BaseInv, LockInv, VersionInv, damage = {}, NEW s \in Sessions,
         ScanRow(s) \/ StartScan(s) \/ EndScan(s) \/ ClaimConflicts(s) \/ Wait(s) \/ Resume(s)
  PROVE  VersionInv'
<1> DEFINE old == session[s]
           me == session'[s]
<1>1. /\ UNCHANGED <<outcome, rows, past>> /\ old \in Thread
      /\ old.pc \in {"active", "scan", "claim", "waiting"}
  BY DEF ScanRow, StartScan, EndScan, ClaimConflicts, Wait, Resume, BaseInv, TypeOK
<1>2. \A r \in Sessions : r # s => session'[r] = session[r]
  BY DEF ScanRow, StartScan, EndScan, ClaimConflicts, Wait, Resume, Goto, Becomes, BaseInv, TypeOK
<1>3. \A i \in old.seen : ~Claims(old.xid, i)
  BY <1>1 DEF VersionInv, SeenUnclaimed, BaseInv, SessionsSound, SessionSound
<1>4. me.pc # "reinsert" /\ \A i \in me.seen : ~Claims(me.xid, i)
  <2>1. CASE ScanRow(s)
    <3>1. /\ me.pc = "scan" /\ me.xid = old.xid
          /\ me.seen = IF Visible(rows[old.at], old.xid) THEN old.seen \cup {old.at} ELSE old.seen
          /\ old.at \in DOMAIN rows /\ old.pc = "scan"
      <4> DEFINE seen == IF Visible(rows[old.at], old.xid) THEN old.seen \cup {old.at} ELSE old.seen
      <4>1. Becomes(s, [old EXCEPT !.at = old.at + 1, !.seen = seen]) /\ old.pc = "scan"
            /\ old.at <= Len(rows)
        BY <2>1 DEF ScanRow
      <4> HIDE DEF seen
      <4>2. me = [old EXCEPT !.at = old.at + 1, !.seen = seen]
        BY <4>1 DEF Becomes, BaseInv, TypeOK
      <4>3. me.pc = old.pc /\ me.xid = old.xid /\ me.seen = seen
        BY <1>1, <4>2 DEF Thread
      <4>4. old.at \in DOMAIN rows
        BY <1>1, <4>1, Places, MvccAssumption DEF Thread
      <4> QED BY <4>1, <4>3, <4>4 DEF seen
    <3>2. old.xid \in Readers
      BY <3>1 DEF Readers
    <3>3. Visible(rows[old.at], old.xid) => ~Claims(old.xid, old.at)
      BY <3>1, <3>2, LockedVisible DEF VisibleIsLive, Live, Claims
    <3> QED BY <1>3, <3>1, <3>3
  <2>2. ASSUME NEW pc \in {"scan", "claim", "waiting", "failed"}, Goto(s, pc)
        PROVE  me.pc # "reinsert" /\ \A i \in me.seen : ~Claims(me.xid, i)
    <3>1. me = [old EXCEPT !.pc = pc]
      BY <2>2 DEF Goto, Becomes, BaseInv, TypeOK
    <3>2. me.pc = pc /\ me.seen = old.seen /\ me.xid = old.xid
      BY <1>1, <3>1 DEF Thread
    <3> QED BY <1>3, <3>2
  <2>3. CASE EndScan(s)
    <3>1. CASE Becomes(s, Rest(s))
      BY <3>1, RestFacts DEF Becomes, BaseInv, TypeOK
    <3>2. ASSUME NEW picked \in (SUBSET old.seen) \ {{}}, NEW op \in {"delete", "update"},
                 Becomes(s, [old EXCEPT !.pc = "claim", !.op = op, !.seen = picked, !.at = 1])
          PROVE  me.pc # "reinsert" /\ \A i \in me.seen : ~Claims(me.xid, i)
      <4>1. me = [old EXCEPT !.pc = "claim", !.op = op, !.seen = picked, !.at = 1]
        BY <3>2 DEF Becomes, BaseInv, TypeOK
      <4>2. me.pc = "claim" /\ me.seen = picked /\ me.xid = old.xid
        BY <1>1, <4>1 DEF Thread
      <4> QED BY <1>3, <3>2, <4>2
    <3> QED BY <2>3, <3>1, <3>2 DEF EndScan
  <2> QED BY <2>1, <2>2, <2>3 DEF StartScan, ClaimConflicts, Wait, Resume
<1> HIDE DEF me
<1>5. \A r \in Sessions :
         \/ session'[r] = session[r]
         \/ /\ session[r].pc = "reinsert" => outcome'[session[r].xid] # "InProgress"
            /\ session'[r].pc # "reinsert"
            /\ \A i \in session'[r].seen : ~Claims(session'[r].xid, i)
  BY <1>1, <1>2, <1>4 DEF me
<1> QED BY <1>1, <1>5, QuietStep

\* A session starts or is rolled back, the process dies, or VACUUM is at work.
LEMMA QuietOthers ==
  ASSUME BaseInv, LockInv, VersionInv, damage = {},
         \/ \E s \in Sessions : Begin(s) \/ Abort(s)
         \/ StartVacuum \/ FreezeRow \/ EndFreeze \/ Check \/ List \/ Forget
         \/ Crash \/ UNCHANGED vars
  PROVE  VersionInv'
<1>1. ASSUME NEW s \in Sessions, Begin(s) PROVE VersionInv'
  <2>1. PICK x \in Xid : Tx!Start(x) /\ Becomes(s, [session[s] EXCEPT !.pc = "active", !.xid = x])
    BY <1>1 DEF Begin
  <2>2. session[s].pc = "idle" /\ UNCHANGED <<rows, past>> /\ session[s] \in Thread
    BY <1>1 DEF Begin, BaseInv, TypeOK
  <2>3. session'[s] = [session[s] EXCEPT !.pc = "active", !.xid = x]
        /\ \A r \in Sessions : r # s => session'[r] = session[r]
    BY <2>1 DEF Becomes, BaseInv, TypeOK
  <2>4. session'[s].pc = "active" /\ session'[s].seen = session[s].seen
    BY <2>2, <2>3 DEF Thread
  <2>5. session[s].seen = {}
    BY <2>2 DEF BaseInv, SessionsSound, SessionSound
  <2>6. \A y \in Xid : IF y = x THEN outcome[y] = Absent /\ outcome'[y] = "InProgress"
                       ELSE outcome'[y] = outcome[y]
    BY <2>1 DEF Tx!Start, Absent, BaseInv, TypeOK
  <2>7. \A r \in Sessions :
           \/ session'[r] = session[r]
           \/ /\ session[r].pc = "reinsert" => outcome'[session[r].xid] # "InProgress"
              /\ session'[r].pc # "reinsert"
              /\ \A i \in session'[r].seen : ~Claims(session'[r].xid, i)
    BY <2>2, <2>3, <2>4, <2>5
  <2> QED BY <2>2, <2>6, <2>7, QuietStep DEF Absent, Tx!Absent
<1>2. ASSUME NEW s \in Sessions, Abort(s) PROVE VersionInv'
  <2> DEFINE x == session[s].xid
  <2>1. /\ UNCHANGED <<rows, past>> /\ Becomes(s, Idle) /\ session[s].pc \in {"active", "failed"}
        /\ Tx!Finish(x, "Aborted")
    BY <1>2 DEF Abort, End
  <2>2. x \in Xid /\ outcome[x] = "InProgress"
    BY <2>1, OwnXid
  <2>3. session'[s] = Idle /\ \A r \in Sessions : r # s => session'[r] = session[r]
    BY <2>1 DEF Becomes, BaseInv, TypeOK
  <2>4. \A y \in Xid : outcome'[y] = IF y = x THEN "Aborted" ELSE outcome[y]
    BY <2>1, <2>2 DEF Tx!Finish, BaseInv, TypeOK
  <2>5. Idle.pc = "idle" /\ Idle.seen = {}
    BY DEF Idle
  <2>6. \A r \in Sessions :
           \/ session'[r] = session[r]
           \/ /\ session[r].pc = "reinsert" => outcome'[session[r].xid] # "InProgress"
              /\ session'[r].pc # "reinsert"
              /\ \A i \in session'[r].seen : ~Claims(session'[r].xid, i)
    BY <2>1, <2>3, <2>5
  <2> HIDE DEF x
  <2> QED BY <2>1, <2>2, <2>4, <2>6, QuietStep
<1>3. CASE StartVacuum \/ FreezeRow \/ EndFreeze \/ Check \/ List \/ Forget \/ UNCHANGED vars
  <2>1. UNCHANGED <<outcome, past, session>>
    BY <1>3 DEF StartVacuum, FreezeRow, EndFreeze, Check, List, Forget, Tx!Forget, vars
  <2>2. DOMAIN rows' = DOMAIN rows
    BY <1>3, FreezeFacts DEF StartVacuum, EndFreeze, Check, List, Forget, vars
  <2> QED BY <2>1, <2>2, QuietStep
<1>4. CASE Crash
  <2>1. UNCHANGED <<rows, past>> /\ session' = [s \in Sessions |-> Idle]
    BY <1>4 DEF Crash
  <2>2. \A x \in Xid : outcome'[x] = IF outcome[x] = "InProgress" THEN "Aborted" ELSE outcome[x]
    BY <1>4 DEF Crash, Recovered
  <2>3. Idle.pc = "idle" /\ Idle.seen = {}
    BY DEF Idle
  <2>4. \A s \in Sessions : session[s].pc = "reinsert" => outcome'[session[s].xid] # "InProgress"
    BY <2>2, OwnXid
  <2> QED BY <2>1, <2>2, <2>3, <2>4, QuietStep
<1> QED BY <1>1, <1>2, <1>3, <1>4

(***************************************************************************)
(* COMMIT: a version that the transaction claimed gives way to its own     *)
(* latest version of the row, or to none if it deleted the row.            *)
(***************************************************************************)

\* A commit makes current what the transaction made, and ends what it claimed.
LEMMA CommitVersions ==
  ASSUME BaseInv, LockInv, VersionInv, damage = {}, NEW s \in Sessions, Commit(s)
  PROVE  VersionInv'
<1> DEFINE t == session[s].xid
<1>1. /\ UNCHANGED <<rows, past>> /\ Becomes(s, Idle) /\ session[s].pc = "active"
      /\ Tx!Finish(t, "Committed")
  BY DEF Commit, End
<1>2. t \in Xid /\ outcome[t] = "InProgress"
  BY <1>1, OwnXid
<1>3. \A x \in Xid : outcome'[x] = IF x = t THEN "Committed" ELSE outcome[x]
  BY <1>1, <1>2 DEF Tx!Finish, BaseInv, TypeOK
<1>4. /\ session'[s].pc = "idle" /\ session'[s].seen = {}
      /\ \A r \in Sessions : r # s => session'[r] = session[r] /\ Wanted(r)' = Wanted(r)
  BY <1>1 DEF Becomes, BaseInv, TypeOK, Idle, Wanted
<1>5. \A r \in Sessions : session[r].pc = "reinsert" => session[r].xid # t
  <2>1. t # NoXid
    BY <1>2 DEF Xid, NoXid
  <2> QED BY <1>1, <2>1 DEF BaseInv, SessionsSound
<1> HIDE DEF t
<1>6. ASSUME NEW i, NEW j, NEW x
      PROVE  /\ Claimants(i)' = Claimants(i)
             /\ SameRow(i, j)' <=> SameRow(i, j)
             /\ Claims(x, i)' <=> Claims(x, i)
             /\ Tip(x, i)' <=> Tip(x, i)
             /\ Deletes(x, i)' <=> Deletes(x, i)
             /\ Updates(x, i)' <=> Updates(x, i)
  BY <1>1 DEF Claimants, SameRow, Claims, Tip, Deletes, Updates
<1>7. ASSUME NEW i \in DOMAIN rows
      PROVE  Current(i)' <=> (Current(i) /\ ~Claims(t, i)) \/ Tip(t, i)
  <2>1. ASSUME Tip(t, i) PROVE Claimants(i) = {}
    BY <1>2, <2>1, PastFacts DEF Tip, Claims
  <2>2. Current(i)' <=> /\ outcome'[past[i].by] = "Committed"
                        /\ \A x \in Claimants(i) : outcome'[x] # "Committed"
    BY <1>1, <1>6 DEF Current
  <2>3. ASSUME Current(i)', ~Tip(t, i) PROVE Current(i) /\ ~Claims(t, i)
    BY <1>2, <1>3, <2>2, <2>3, PastFacts DEF Current, Claims, Tip
  <2>4. ASSUME Current(i), ~Claims(t, i) PROVE Current(i)'
    BY <1>2, <1>3, <2>2, <2>4, PastFacts DEF Current, Claims
  <2>5. ASSUME Tip(t, i) PROVE Current(i)'
    BY <1>2, <1>3, <2>1, <2>2, <2>5 DEF Tip
  <2> QED BY <2>3, <2>4, <2>5
<1>8. ASSUME NEW i \in DOMAIN rows, NEW j \in DOMAIN rows, SameRow(i, j), Current(i), Tip(t, j)
      PROVE  Claims(t, i)
  BY <1>2, <1>8, BaseClaimed DEF Tip
<1>9. KeysSound'
  <2>1. \A i \in DOMAIN rows : past[i].key \in DOMAIN rows
    BY Places DEF VersionInv, KeysSound, Past, Loc
  <2> QED BY <1>1, <1>3, <2>1, PastFacts DEF VersionInv, KeysSound
<1>10. OneCurrent'
  <2> SUFFICES ASSUME NEW i \in DOMAIN rows, NEW j \in DOMAIN rows, SameRow(i, j),
                      Current(i)', Current(j)'
               PROVE  i = j
    BY <1>1, <1>6 DEF OneCurrent
  <2>1. SameRow(j, i)
    BY DEF SameRow
  <2>2. /\ (Current(i) /\ ~Claims(t, i)) \/ Tip(t, i)
        /\ (Current(j) /\ ~Claims(t, j)) \/ Tip(t, j)
    BY <1>7
  <2> QED BY <1>2, <1>8, <2>1, <2>2 DEF VersionInv, OneCurrent, OneTip
<1>11. DeletedGone'
  <2> SUFFICES ASSUME NEW i \in DOMAIN rows, NEW j \in DOMAIN rows, NEW x \in Xid, SameRow(i, j),
                      Deletes(x, i), outcome'[x] = "Committed", Current(j)'
               PROVE  FALSE
    BY <1>1, <1>6 DEF DeletedGone
  <2>1. (Current(j) /\ ~Claims(t, j)) \/ Tip(t, j)
    BY <1>7
  <2>2. Claims(x, i)
    BY DEF Deletes, Claims, Claimants
  <2>3. CASE x # t
    <3>1. outcome[x] = "Committed"
      BY <1>3, <2>3
    <3>2. ~Current(j)
      BY <3>1 DEF VersionInv, DeletedGone
    <3>3. Tip(t, j) /\ past[past[j].key].by # t
      <4>1. past[i].by # t
        BY <1>2, <2>2, <2>3, PastFacts
      <4> QED BY <1>2, <2>1, <3>2, <4>1 DEF VersionInv, KeysSound, SameRow
    <3>4. PICK b \in DOMAIN rows : SameRow(b, j) /\ past[b].by # t /\ Claims(t, b)
      BY <1>2, <3>3 DEF VersionInv, OneTip, Tip
    <3>5. Current(b) /\ SameRow(i, b)
      BY <1>2, <3>4, RunningClaim DEF SameRow
    <3> QED BY <3>1, <3>5 DEF VersionInv, DeletedGone
  <2>4. CASE x = t
    <3>1. ~Tip(t, j)
      BY <1>2, <2>4 DEF VersionInv, OneTip
    <3>2. Current(j) /\ ~Claims(t, j) /\ SameRow(j, i)
      BY <2>1, <3>1 DEF SameRow
    <3>3. past[i].by # t
      BY <1>2, <3>2, BaseClaimed
    <3>4. Current(i)
      BY <1>2, <2>2, <2>4, <3>3, RunningClaim
    <3> QED BY <2>2, <2>4, <3>2, <3>4 DEF VersionInv, OneCurrent
  <2> QED BY <2>3, <2>4
<1>12. SomeCurrent'
  <2> SUFFICES ASSUME NEW k \in DOMAIN rows, past[k].key = k, outcome'[past[k].by] = "Committed",
                      ~Deleted(k)'
               PROVE  \E i \in DOMAIN rows : past[i].key = k /\ Current(i)'
    BY <1>1 DEF SomeCurrent
  <2>1. \A i \in DOMAIN rows : \A c \in past[i].claims :
           past[i].key = k /\ c.op = "delete" => outcome'[c.xid] # "Committed"
    BY <1>1 DEF Deleted, Versions
  <2>2. \A i \in DOMAIN rows : past[i].key = k => ~Deletes(t, i)
    BY <1>2, <1>3, <2>1 DEF Deletes
  <2>3. CASE \E i \in DOMAIN rows : past[i].key = k /\ (past[i].by = t \/ Claims(t, i))
    <3>1. PICK i \in DOMAIN rows : past[i].key = k /\ (past[i].by = t \/ Claims(t, i))
      BY <2>3
    <3>2. ~Reinserting(t, i)
      BY <1>5 DEF Reinserting
    <3>3. PICK j \in DOMAIN rows : SameRow(i, j) /\ (Tip(t, j) \/ Deletes(t, j))
      BY <1>2, <3>1, <3>2 DEF VersionInv, SomeTip
    <3> QED BY <1>7, <2>2, <3>1, <3>3 DEF SameRow
  <2>4. CASE \A i \in DOMAIN rows : past[i].key = k => past[i].by # t /\ ~Claims(t, i)
    <3>1. outcome[past[k].by] = "Committed"
      BY <1>3, <2>4, PastFacts
    <3>2. ~Deleted(k)
      <4>1. \A i \in DOMAIN rows : \A c \in past[i].claims : c.xid \in Xid
        BY Places DEF Past, Mark
      <4> QED BY <1>2, <1>3, <2>1, <4>1 DEF Deleted, Versions
    <3>3. PICK i \in DOMAIN rows : past[i].key = k /\ Current(i)
      BY <3>1, <3>2 DEF VersionInv, SomeCurrent
    <3> QED BY <1>7, <2>4, <3>3
  <2> QED BY <2>3, <2>4
<1>13. OneTip'
  BY <1>1, <1>3, <1>6 DEF VersionInv, OneTip
<1>14. SomeTip'
  <2> SUFFICES ASSUME NEW x \in Xid, outcome'[x] = "InProgress",
                      NEW i \in DOMAIN rows, past[i].by = x \/ Claims(x, i),
                      ~\E j \in DOMAIN rows : SameRow(i, j) /\ (Tip(x, j) \/ Deletes(x, j))
               PROVE  Reinserting(x, i)'
    BY <1>1, <1>6 DEF SomeTip
  <2>1. Reinserting(x, i)
    BY <1>2, <1>3 DEF VersionInv, SomeTip
  <2> QED BY <1>1, <1>4, <1>6, <2>1 DEF Reinserting
<1>15. SeenUnclaimed'
  <2>1. ASSUME NEW r \in Sessions, NEW i \in session'[r].seen
        PROVE  /\ session'[r].pc \in {"scan", "claim", "waiting"} => ~Claims(session'[r].xid, i)
               /\ session'[r].pc = "reinsert" =>
                    IF i = Wanted(r)' THEN Updates(session'[r].xid, i) ELSE ~Claims(session'[r].xid, i)
    BY <1>4, <2>1 DEF VersionInv, SeenUnclaimed
  <2> QED BY <1>6, <2>1 DEF SeenUnclaimed
<1>16. NoTipYet'
  <2>1. ASSUME NEW r \in Sessions, session'[r].pc = "reinsert", NEW j \in DOMAIN rows,
               SameRow(Wanted(r)', j)
        PROVE  ~Tip(session'[r].xid, j) /\ ~Deletes(session'[r].xid, j)
    BY <1>4, <2>1 DEF VersionInv, NoTipYet
  <2> QED BY <1>1, <1>6, <2>1 DEF NoTipYet
<1> QED BY <1>9, <1>10, <1>11, <1>12, <1>13, <1>14, <1>15, <1>16 DEF VersionInv

(***************************************************************************)
(* A new version.                                                          *)
(***************************************************************************)

\* A version that is added changes the standing of no other.
LEMMA AddedHistory ==
  ASSUME BaseInv, NEW s \in Sessions, session[s].pc # "idle", NEW key \in Loc,
         AddVersion(s, key), UNCHANGED outcome, NEW n, n = Len(rows) + 1
  PROVE  /\ DOMAIN rows' = DOMAIN rows \cup {n} /\ n \notin DOMAIN rows
         /\ past'[n].key = key /\ past'[n].by = session[s].xid /\ ~Current(n)'
         /\ \A x : ~Claims(x, n)' /\ ~Deletes(x, n)' /\ ~Updates(x, n)'
         /\ \A i \in DOMAIN rows :
               /\ past'[i] = past[i]
               /\ Current(i)' <=> Current(i)
               /\ \A x : /\ Claims(x, i)' <=> Claims(x, i)
                         /\ Tip(x, i)' <=> Tip(x, i)
                         /\ Deletes(x, i)' <=> Deletes(x, i)
                         /\ Updates(x, i)' <=> Updates(x, i)
<1>1. /\ DOMAIN rows' = DOMAIN rows \cup {n} /\ n \notin DOMAIN rows
      /\ \A i \in DOMAIN rows : past'[i] = past[i]
      /\ past'[n].key = key /\ past'[n].by = session[s].xid /\ past'[n].claims = {}
  BY AddedVersion
<1>2. outcome[session[s].xid] = "InProgress"
  BY OwnXid
<1>3. ~Current(n)' /\ \A x : ~Claims(x, n)' /\ ~Deletes(x, n)' /\ ~Updates(x, n)'
  BY <1>1, <1>2 DEF Current, Claims, Claimants, Deletes, Updates
<1>4. ASSUME NEW i \in DOMAIN rows
      PROVE  /\ Current(i)' <=> Current(i)
             /\ \A x : /\ Claims(x, i)' <=> Claims(x, i)
                       /\ Tip(x, i)' <=> Tip(x, i)
                       /\ Deletes(x, i)' <=> Deletes(x, i)
                       /\ Updates(x, i)' <=> Updates(x, i)
  BY <1>1 DEF Current, Claims, Claimants, Tip, Deletes, Updates
<1> QED BY <1>1, <1>3, <1>4

\* What holds of rows between transactions is not touched by a version that
\* is still its maker's own: of a new row, or of one that a statement works on.
LEMMA AddedVersions ==
  ASSUME BaseInv, VersionInv, damage = {}, NEW s \in Sessions, session[s].pc # "idle",
         NEW key \in Loc, AddVersion(s, key), UNCHANGED outcome, NEW n, n = Len(rows) + 1,
         key = n \/ \E w \in session[s].seen : w \in DOMAIN rows /\ key = past[w].key
  PROVE  KeysSound' /\ OneCurrent' /\ DeletedGone' /\ SomeCurrent'
<1> DEFINE t == session[s].xid
<1>1. /\ DOMAIN rows' = DOMAIN rows \cup {n} /\ n \notin DOMAIN rows
      /\ past'[n].key = key /\ past'[n].by = t /\ ~Current(n)'
      /\ \A x : ~Deletes(x, n)'
      /\ \A i \in DOMAIN rows : /\ past'[i] = past[i]
                                /\ Current(i)' <=> Current(i)
                                /\ \A x : Deletes(x, i)' <=> Deletes(x, i)
  BY AddedHistory
<1>2. t \in Xid /\ outcome[t] = "InProgress"
  BY OwnXid
<1>3. \A i \in DOMAIN rows : past[i].key \in DOMAIN rows
  BY Places DEF VersionInv, KeysSound, Past, Loc
<1>4. \A i \in DOMAIN rows : i < n
  BY Places
<1> HIDE DEF t
<1>5. KeysSound'
  <2> DEFINE Sound(i) == LET k == past'[i].key IN
               /\ k <= i /\ past'[k].key = k
               /\ past'[i].by = past'[k].by \/ outcome[past'[k].by] = "Committed"
  <2>1. ASSUME NEW i \in DOMAIN rows PROVE Sound(i)
    BY <1>1, <1>3 DEF VersionInv, KeysSound
  <2>2. Sound(n)
    <3>1. CASE key = n
      BY <1>1, <3>1, Places
    <3>2. CASE key # n
      <4>1. PICK w \in session[s].seen : w \in DOMAIN rows /\ key = past[w].key
        BY <3>2
      <4>2. past[w].by = t \/ outcome[past[w].by] = "Committed"
        BY DEF BaseInv, SeenSound, t
      <4>3. /\ key \in DOMAIN rows /\ past[key].key = key
            /\ past[w].by = past[key].by \/ outcome[past[key].by] = "Committed"
        BY <1>3, <4>1 DEF VersionInv, KeysSound
      <4>4. key <= n
        BY <4>3, Places
      <4> QED BY <1>1, <4>2, <4>3, <4>4
    <3> QED BY <3>1, <3>2
  <2> QED BY <1>1, <2>1, <2>2 DEF KeysSound
<1>6. OneCurrent'
  BY <1>1 DEF VersionInv, OneCurrent, SameRow
<1>7. DeletedGone'
  BY <1>1 DEF VersionInv, DeletedGone, SameRow
<1>8. SomeCurrent'
  <2> SUFFICES ASSUME NEW k \in DOMAIN rows', past'[k].key = k, outcome[past'[k].by] = "Committed",
                      ~Deleted(k)'
               PROVE  \E i \in DOMAIN rows' : past'[i].key = k /\ Current(i)'
    BY DEF SomeCurrent
  <2>1. k \in DOMAIN rows
    BY <1>1, <1>2
  <2>2. ~Deleted(k)
    BY <1>1 DEF Deleted, Versions
  <2>3. PICK i \in DOMAIN rows : past[i].key = k /\ Current(i)
    BY <1>1, <2>1, <2>2 DEF VersionInv, SomeCurrent
  <2> QED BY <1>1, <2>3
<1> QED BY <1>5, <1>6, <1>7, <1>8

\* INSERT adds a row of its own.
LEMMA InsertVersions ==
  ASSUME BaseInv, LockInv, VersionInv, damage = {}, NEW s \in Sessions, Insert(s)
  PROVE  VersionInv'
<1> DEFINE t == session[s].xid
<1>1. PICK n : n = Len(rows) + 1
  OBVIOUS
<1>2. /\ UNCHANGED <<outcome, session>> /\ session[s].pc = "active" /\ AddVersion(s, n) /\ n \in Loc
  BY <1>1, Places, MvccAssumption DEF Insert, AddVersion, Loc
<1>3. /\ DOMAIN rows' = DOMAIN rows \cup {n} /\ n \notin DOMAIN rows
      /\ past'[n].key = n /\ past'[n].by = t
      /\ \A x : ~Claims(x, n)' /\ ~Deletes(x, n)'
      /\ \A i \in DOMAIN rows :
            /\ past'[i] = past[i]
            /\ \A x : /\ Claims(x, i)' <=> Claims(x, i)
                      /\ Tip(x, i)' <=> Tip(x, i)
                      /\ Deletes(x, i)' <=> Deletes(x, i)
                      /\ Updates(x, i)' <=> Updates(x, i)
  <2>1. session[s].pc # "idle" /\ UNCHANGED outcome
    BY <1>2
  <2>2. PICK key \in Loc : key = n /\ AddVersion(s, key)
    BY <1>2
  <2> QED BY <1>1, <2>1, <2>2, AddedHistory
<1>4. t \in Xid /\ outcome[t] = "InProgress"
  BY <1>2, OwnXid
<1>5. \A i \in DOMAIN rows : past[i].key \in DOMAIN rows /\ past[i].key # n
  BY <1>1, Places DEF VersionInv, KeysSound, Past, Loc
<1> HIDE DEF t
<1>6. /\ \A i, j \in DOMAIN rows : SameRow(i, j)' <=> SameRow(i, j)
      /\ \A i \in DOMAIN rows : ~SameRow(i, n)' /\ ~SameRow(n, i)'
  BY <1>3, <1>5 DEF SameRow
<1>7. KeysSound' /\ OneCurrent' /\ DeletedGone' /\ SomeCurrent'
  BY <1>1, <1>2, AddedVersions
<1>8. OneTip'
  <2> SUFFICES ASSUME NEW x \in Xid, outcome[x] = "InProgress"
               PROVE  /\ \A i, j \in DOMAIN rows' : SameRow(i, j)' /\ Tip(x, i)' /\ Tip(x, j)' => i = j
                      /\ \A i, j \in DOMAIN rows' : SameRow(i, j)' /\ Deletes(x, i)' => ~Tip(x, j)'
                      /\ \A i \in DOMAIN rows' : past'[i].by = x /\ past'[past'[i].key].by # x =>
                            \E b \in DOMAIN rows' :
                               b < i /\ SameRow(b, i)' /\ past'[b].by # x /\ Claims(x, b)'
    BY <1>2 DEF OneTip
  <2>1. \A i, j \in DOMAIN rows' : SameRow(i, j)' /\ Tip(x, i)' /\ Tip(x, j)' => i = j
    BY <1>3, <1>6 DEF VersionInv, OneTip
  <2>2. \A i, j \in DOMAIN rows' : SameRow(i, j)' /\ Deletes(x, i)' => ~Tip(x, j)'
    BY <1>3, <1>6 DEF VersionInv, OneTip
  <2>3. ASSUME NEW i \in DOMAIN rows', past'[i].by = x, past'[past'[i].key].by # x
        PROVE  \E b \in DOMAIN rows' : b < i /\ SameRow(b, i)' /\ past'[b].by # x /\ Claims(x, b)'
    <3>1. i \in DOMAIN rows /\ past[i].by = x /\ past[past[i].key].by # x
      BY <1>3, <1>5, <2>3
    <3>2. PICK b \in DOMAIN rows : b < i /\ SameRow(b, i) /\ past[b].by # x /\ Claims(x, b)
      BY <3>1 DEF VersionInv, OneTip
    <3> QED BY <1>3, <1>6, <3>1, <3>2
  <2> QED BY <2>1, <2>2, <2>3
<1>9. \A r \in Sessions : Wanted(r)' = Wanted(r) /\ session[r].seen \subseteq DOMAIN rows
  BY <1>2 DEF Wanted, BaseInv, SessionsSound, SessionSound
<1>10. \A r \in Sessions : session[r].pc = "reinsert" => Wanted(r) \in DOMAIN rows
  BY WantedPlace
<1>11. SeenUnclaimed'
  <2>1. ASSUME NEW r \in Sessions, NEW i \in session[r].seen
        PROVE  /\ session[r].pc \in {"scan", "claim", "waiting"} => ~Claims(session[r].xid, i)'
               /\ session[r].pc = "reinsert" =>
                    IF i = Wanted(r) THEN Updates(session[r].xid, i)' ELSE ~Claims(session[r].xid, i)'
    <3>1. i \in DOMAIN rows
      BY <1>9
    <3> QED BY <1>2, <1>3, <3>1 DEF VersionInv, SeenUnclaimed
  <2> QED BY <1>2, <1>9, <2>1 DEF SeenUnclaimed
<1>12. NoTipYet'
  <2>1. ASSUME NEW r \in Sessions, session[r].pc = "reinsert", NEW j \in DOMAIN rows',
               SameRow(Wanted(r), j)'
        PROVE  ~Tip(session[r].xid, j)' /\ ~Deletes(session[r].xid, j)'
    <3>1. SameRow(Wanted(r), j) /\ j \in DOMAIN rows
      BY <1>3, <1>5, <1>9, <1>10, <2>1 DEF SameRow
    <3> QED BY <1>2, <1>3, <2>1, <3>1 DEF VersionInv, NoTipYet
  <2> QED BY <1>2, <1>9, <2>1 DEF NoTipYet, SameRow
<1>13. SomeTip'
  <2> SUFFICES ASSUME NEW x \in Xid, outcome[x] = "InProgress",
                      NEW i \in DOMAIN rows', past'[i].by = x \/ Claims(x, i)',
                      ~\E j \in DOMAIN rows' : SameRow(i, j)' /\ (Tip(x, j)' \/ Deletes(x, j)')
               PROVE  Reinserting(x, i)'
    BY <1>2 DEF SomeTip
  <2>1. i # n
    BY <1>3 DEF SameRow, Tip
  <2>2. Reinserting(x, i)
    BY <1>3, <1>6, <2>1 DEF VersionInv, SomeTip
  <2>3. PICK r \in Sessions : session[r].pc = "reinsert" /\ session[r].xid = x /\ SameRow(Wanted(r), i)
    BY <2>2 DEF Reinserting
  <2>4. SameRow(Wanted(r), i)'
    BY <1>3, <1>9, <1>10, <2>1, <2>3 DEF SameRow
  <2> QED BY <1>2, <2>3, <2>4 DEF Reinserting
<1> QED BY <1>7, <1>8, <1>11, <1>12, <1>13 DEF VersionInv

\* UPDATE adds the version that takes the place of the one it claimed.
LEMMA ReinsertVersions ==
  ASSUME BaseInv, LockInv, VersionInv, damage = {}, NEW s \in Sessions, Reinsert(s)
  PROVE  VersionInv'
<1> DEFINE me == session'[s]
<1>1. PICK n, w, t : n = Len(rows) + 1 /\ w = Wanted(s) /\ t = session[s].xid
  OBVIOUS
<1>2. PICK key \in Loc : key = past[w].key /\ AddVersion(s, key)
  BY <1>1, WantedPlace, Places DEF Reinsert, Past
<1>3. /\ UNCHANGED outcome /\ session[s].pc = "reinsert" /\ session[s].pc # "idle"
      /\ w \in DOMAIN rows /\ w \in session[s].seen
      /\ Becomes(s, IF session[s].seen = {w} THEN Rest(s)
                    ELSE [session[s] EXCEPT !.pc = "claim", !.seen = session[s].seen \ {w}])
  BY <1>1, WantedPlace DEF Reinsert
<1>4. /\ DOMAIN rows' = DOMAIN rows \cup {n} /\ n \notin DOMAIN rows
      /\ past'[n].key = key /\ past'[n].by = t
      /\ \A x : ~Claims(x, n)' /\ ~Deletes(x, n)'
      /\ \A i \in DOMAIN rows :
            /\ past'[i] = past[i]
            /\ \A x : /\ Claims(x, i)' <=> Claims(x, i)
                      /\ Tip(x, i)' <=> Tip(x, i)
                      /\ Deletes(x, i)' <=> Deletes(x, i)
                      /\ Updates(x, i)' <=> Updates(x, i)
  <2>1. session[s].pc # "idle" /\ UNCHANGED outcome /\ AddVersion(s, key) /\ n = Len(rows) + 1
    BY <1>1, <1>2, <1>3
  <2>2. /\ DOMAIN rows' = DOMAIN rows \cup {n} /\ n \notin DOMAIN rows
        /\ past'[n].key = key /\ past'[n].by = session[s].xid
        /\ \A x : ~Claims(x, n)' /\ ~Deletes(x, n)' /\ ~Updates(x, n)'
    BY <2>1, AddedHistory
  <2>3. \A i \in DOMAIN rows :
           /\ past'[i] = past[i]
           /\ \A x : /\ Claims(x, i)' <=> Claims(x, i)
                     /\ Tip(x, i)' <=> Tip(x, i)
                     /\ Deletes(x, i)' <=> Deletes(x, i)
                     /\ Updates(x, i)' <=> Updates(x, i)
    BY <2>1, AddedHistory
  <2> QED BY <1>1, <2>2, <2>3
<1>5. t \in Xid /\ outcome[t] = "InProgress" /\ t # NoXid
  BY <1>1, <1>3, OwnXid DEF Xid, NoXid
<1>6. /\ me.pc # "reinsert" /\ me.xid = t
      /\ me.seen \subseteq session[s].seen \ {w}
  <2>1. CASE session[s].seen = {w}
    BY <1>1, <1>3, <2>1, RestFacts DEF Becomes, BaseInv, TypeOK
  <2>2. CASE session[s].seen # {w}
    <3>1. me = [session[s] EXCEPT !.pc = "claim", !.seen = session[s].seen \ {w}] /\ session[s] \in Thread
      BY <1>3, <2>2 DEF Becomes, BaseInv, TypeOK
    <3> QED BY <1>1, <3>1 DEF Thread
  <2> QED BY <2>1, <2>2
<1>7. \A r \in Sessions : r # s => /\ session'[r] = session[r] /\ Wanted(r)' = Wanted(r)
                                   /\ session[r].xid # t
  BY <1>1, <1>3, <1>5 DEF Becomes, BaseInv, TypeOK, SessionsSound, Wanted
<1>8. \A i \in DOMAIN rows : past[i].key \in DOMAIN rows /\ i < n
  BY <1>1, Places DEF VersionInv, KeysSound, Past, Loc
<1>9. \A j \in DOMAIN rows : SameRow(w, j) => ~Tip(t, j) /\ ~Deletes(t, j)
  BY <1>1, <1>3 DEF VersionInv, NoTipYet
<1>10. Claims(t, w)
  <2>1. Updates(t, w)
    BY <1>1, <1>3 DEF VersionInv, SeenUnclaimed
  <2> QED BY <2>1 DEF Updates, Claims, Claimants
<1> HIDE DEF me
<1>11. /\ \A i, j \in DOMAIN rows : SameRow(i, j)' <=> SameRow(i, j)
       /\ \A i \in DOMAIN rows : /\ SameRow(i, n)' <=> SameRow(w, i)
                                 /\ SameRow(n, i)' <=> SameRow(w, i)
       /\ SameRow(n, n)'
  BY <1>2, <1>3, <1>4 DEF SameRow
<1>12. KeysSound' /\ OneCurrent' /\ DeletedGone' /\ SomeCurrent'
  BY <1>1, <1>2, <1>3, AddedVersions
<1>13. Tip(t, n)' /\ \A x : x # t => ~Tip(x, n)'
  BY <1>4 DEF Tip
<1>14. OneTip'
  <2> SUFFICES ASSUME NEW x \in Xid, outcome[x] = "InProgress"
               PROVE  /\ \A i, j \in DOMAIN rows' : SameRow(i, j)' /\ Tip(x, i)' /\ Tip(x, j)' => i = j
                      /\ \A i, j \in DOMAIN rows' : SameRow(i, j)' /\ Deletes(x, i)' => ~Tip(x, j)'
                      /\ \A i \in DOMAIN rows' : past'[i].by = x /\ past'[past'[i].key].by # x =>
                            \E b \in DOMAIN rows' :
                               b < i /\ SameRow(b, i)' /\ past'[b].by # x /\ Claims(x, b)'
    BY <1>3 DEF OneTip
  <2>1. \A i, j \in DOMAIN rows' : SameRow(i, j)' /\ Tip(x, i)' /\ Tip(x, j)' => i = j
    BY <1>4, <1>9, <1>11, <1>13 DEF VersionInv, OneTip
  <2>2. \A i, j \in DOMAIN rows' : SameRow(i, j)' /\ Deletes(x, i)' => ~Tip(x, j)'
    BY <1>4, <1>9, <1>11, <1>13 DEF VersionInv, OneTip
  <2>3. ASSUME NEW i \in DOMAIN rows, past[i].by = x, past[past[i].key].by # x
        PROVE  \E b \in DOMAIN rows : b < i /\ SameRow(b, i) /\ past[b].by # x /\ Claims(x, b)
    BY <2>3 DEF VersionInv, OneTip
  <2>4. ASSUME NEW i \in DOMAIN rows', past'[i].by = x, past'[past'[i].key].by # x
        PROVE  \E b \in DOMAIN rows' : b < i /\ SameRow(b, i)' /\ past'[b].by # x /\ Claims(x, b)'
    <3>1. CASE i \in DOMAIN rows
      <4>1. PICK b \in DOMAIN rows : b < i /\ SameRow(b, i) /\ past[b].by # x /\ Claims(x, b)
        BY <1>4, <1>8, <2>3, <2>4, <3>1
      <4> QED BY <1>4, <1>11, <3>1, <4>1
    <3>2. CASE i = n
      <4>1. x = t /\ past[past[w].key].by # t
        BY <1>2, <1>3, <1>4, <1>8, <2>4, <3>2
      <4>2. PICK b \in DOMAIN rows : SameRow(b, w) /\ past[b].by # t /\ Claims(t, b)
        <5>1. CASE past[w].by = t
          BY <1>3, <2>3, <4>1, <5>1
        <5>2. CASE past[w].by # t
          BY <1>3, <1>10, <5>2 DEF SameRow
        <5> QED BY <5>1, <5>2
      <4>3. SameRow(w, b)
        BY <4>2 DEF SameRow
      <4> QED BY <1>4, <1>8, <1>11, <3>2, <4>1, <4>2, <4>3
    <3> QED BY <1>4, <3>1, <3>2
  <2> QED BY <2>1, <2>2, <2>4
<1>15. \A r \in Sessions : session[r].seen \subseteq DOMAIN rows
  BY DEF BaseInv, SessionsSound, SessionSound
<1>16. \A r \in Sessions : session[r].pc = "reinsert" => Wanted(r) \in DOMAIN rows
  BY WantedPlace
<1>17. SeenUnclaimed'
  <2>1. ASSUME NEW r \in Sessions, NEW i \in session'[r].seen, NEW x, x = session'[r].xid
        PROVE  /\ session'[r].pc \in {"scan", "claim", "waiting"} => ~Claims(x, i)'
               /\ session'[r].pc = "reinsert" =>
                    IF i = Wanted(r)' THEN Updates(x, i)' ELSE ~Claims(x, i)'
    <3>1. CASE r = s
      <4>1. i \in session[s].seen /\ i # w /\ i \in DOMAIN rows /\ me.xid = t
        BY <1>6, <1>15, <2>1, <3>1 DEF me
      <4>2. ~Claims(t, i)
        BY <1>1, <1>3, <4>1 DEF VersionInv, SeenUnclaimed
      <4> QED BY <1>4, <1>6, <2>1, <3>1, <4>1, <4>2 DEF me
    <3>2. CASE r # s
      <4>1. i \in session[r].seen /\ i \in DOMAIN rows
        BY <1>7, <1>15, <2>1, <3>2
      <4> QED BY <1>4, <1>7, <2>1, <3>2, <4>1 DEF VersionInv, SeenUnclaimed
    <3> QED BY <3>1, <3>2
  <2> QED BY <2>1 DEF SeenUnclaimed, Claims, Claimants, Updates
<1>18. NoTipYet'
  <2>1. ASSUME NEW r \in Sessions, session'[r].pc = "reinsert", NEW j \in DOMAIN rows',
               past'[Wanted(r)'].key = past'[j].key, NEW x, x = session'[r].xid
        PROVE  ~Tip(x, j)' /\ ~Deletes(x, j)'
    <3>1. r # s /\ session'[r] = session[r] /\ session[r].xid # t /\ Wanted(r)' = Wanted(r)
      BY <1>6, <1>7, <2>1 DEF me
    <3>2. CASE j = n
      BY <1>4, <1>13, <2>1, <3>1, <3>2
    <3>3. CASE j \in DOMAIN rows
      <4>1. SameRow(Wanted(r), j)
        BY <1>4, <1>16, <2>1, <3>1, <3>3 DEF SameRow
      <4>2. ~Tip(session[r].xid, j) /\ ~Deletes(session[r].xid, j)
        BY <2>1, <3>1, <3>3, <4>1 DEF VersionInv, NoTipYet
      <4> QED BY <1>4, <2>1, <3>1, <3>3, <4>2
    <3> QED BY <1>4, <3>2, <3>3
  <2> QED BY <2>1 DEF NoTipYet, SameRow, Tip, Claims, Claimants, Deletes
<1>19. SomeTip'
  <2> SUFFICES ASSUME NEW x \in Xid, outcome[x] = "InProgress",
                      NEW i \in DOMAIN rows', past'[i].by = x \/ Claims(x, i)',
                      ~\E j \in DOMAIN rows' : SameRow(i, j)' /\ (Tip(x, j)' \/ Deletes(x, j)')
               PROVE  Reinserting(x, i)'
    BY <1>3 DEF SomeTip
  <2>1. i \in DOMAIN rows /\ (x = t => ~SameRow(w, i))
    BY <1>4, <1>11, <1>13
  <2>2. Reinserting(x, i)
    BY <1>4, <1>11, <2>1 DEF VersionInv, SomeTip
  <2>3. PICK r \in Sessions : session[r].pc = "reinsert" /\ session[r].xid = x /\ SameRow(Wanted(r), i)
    BY <2>2 DEF Reinserting
  <2>4. r # s
    BY <1>1, <2>1, <2>3
  <2>5. session'[r] = session[r] /\ past'[Wanted(r)'].key = past'[i].key
    BY <1>4, <1>7, <1>16, <2>1, <2>3, <2>4 DEF SameRow
  <2> QED BY <2>3, <2>5 DEF Reinserting, SameRow
<1> QED BY <1>12, <1>14, <1>17, <1>18, <1>19 DEF VersionInv

(***************************************************************************)
(* A claim.                                                                *)
(***************************************************************************)

\* A claim: of a version that is current, or the claimant's own last.
LEMMA ClaimVersions ==
  ASSUME BaseInv, LockInv, VersionInv, damage = {}, damage' = {}, NEW s \in Sessions, Claim(s)
  PROVE  VersionInv'
<1> DEFINE me == session'[s]
<1>0. PICK t, op : t = session[s].xid /\ op = session[s].op
  OBVIOUS
<1>1. PICK w \in DOMAIN rows : /\ w = Wanted(s) /\ w \in session[s].seen
                               /\ t = session[s].xid /\ op = session[s].op
  <2>1. Wanted(s) \in DOMAIN rows /\ Wanted(s) \in session[s].seen
    BY WantedPlace DEF Claim
  <2> QED BY <1>0, <2>1
<1>2. /\ UNCHANGED outcome /\ session[s].pc = "claim" /\ ~Busy(s) /\ ~Taken(s)
      /\ session[s] \in Thread
  BY DEF Claim, BaseInv, TypeOK
<1>3. CASE poisoned'
  <2>1. UNCHANGED <<rows, past, session>>
    BY <1>3 DEF Claim
  <2> QED BY <1>2, <2>1, QuietStep
<1>4. CASE ~poisoned'
  <2>1. /\ DOMAIN rows' = DOMAIN rows
        /\ \A j \in DOMAIN rows : /\ past'[j].key = past[j].key /\ past'[j].by = past[j].by
                                  /\ j # w => past'[j] = past[j]
        /\ past'[w].claims = past[w].claims \cup {[xid |-> t, op |-> op]}
        /\ Claimants(w)' = Claimants(w) \cup {t}
    BY <1>1, <1>4, ClaimFacts
  <2>2. t \in Xid /\ outcome[t] = "InProgress" /\ t # NoXid
    BY <1>1, <1>2, OwnXid DEF Xid, NoXid
  <2>3. op \in {"update", "delete"}
    BY <1>1, <1>2 DEF BaseInv, SessionsSound, SessionSound, Thread
  <2>4. \A r \in Sessions : r # s => /\ session'[r] = session[r] /\ Wanted(r)' = Wanted(r)
                                     /\ session[r].xid # t
    BY <1>1, <1>2, <1>4, <2>2 DEF Claim, Becomes, BaseInv, TypeOK, SessionsSound, Wanted
  <2>5. /\ me.xid = t /\ me.seen \subseteq session[s].seen
        /\ me.pc = "reinsert" => me.seen = session[s].seen /\ Wanted(s)' = w
        /\ op = "update" <=> me.pc = "reinsert"
        /\ me.pc \in {"scan", "claim", "waiting"} => w \notin me.seen
    <3>1. me = Claimed(s)
      BY <1>4 DEF Claim, Becomes, BaseInv, TypeOK
    <3> QED BY <1>1, <1>2, <3>1, ClaimedFacts DEF Wanted
  <2>6. \A i \in session[s].seen : i \in DOMAIN rows /\ ~Claims(t, i)
    BY <1>1, <1>2 DEF VersionInv, SeenUnclaimed, BaseInv, SessionsSound, SessionSound
  <2>7. \A x \in Claimants(w) : outcome[x] = "Aborted"
    <3>1. ClaimSound(w)
      BY DEF LockInv
    <3> QED BY <1>1, <1>2, <2>6, <3>1, OverwrittenAborted DEF Claims
  <2>8. Tip(t, w) \/ Current(w)
    BY <1>1, <2>6, <2>7 DEF Tip, Current, BaseInv, SeenSound
  <2> HIDE DEF me
  <2>9. ASSUME NEW i \in DOMAIN rows
        PROVE  /\ Current(i)' <=> Current(i)
               /\ \A x : /\ Claims(x, i)' <=> Claims(x, i) \/ (x = t /\ i = w)
                         /\ Tip(x, i)' <=> Tip(x, i) /\ ~(x = t /\ i = w)
                         /\ Deletes(x, i)' <=> Deletes(x, i) \/ (x = t /\ i = w /\ op = "delete")
                         /\ Updates(x, i)' <=> Updates(x, i) \/ (x = t /\ i = w /\ op = "update")
               /\ \A j \in DOMAIN rows : SameRow(i, j)' <=> SameRow(i, j)
    <3>1. Claimants(i)' = Claimants(i) \cup IF i = w THEN {t} ELSE {}
      BY <2>1 DEF Claimants
    <3>2. \A x : Claims(x, i)' <=> Claims(x, i) \/ (x = t /\ i = w)
      BY <3>1 DEF Claims
    <3>3. \A x : Tip(x, i)' <=> Tip(x, i) /\ ~(x = t /\ i = w)
      BY <2>1, <3>2 DEF Tip
    <3>4. Current(i)' <=> Current(i)
      BY <1>2, <2>1, <2>2, <3>1 DEF Current
    <3>5. \A x : /\ Deletes(x, i)' <=> Deletes(x, i) \/ (x = t /\ i = w /\ op = "delete")
                 /\ Updates(x, i)' <=> Updates(x, i) \/ (x = t /\ i = w /\ op = "update")
      BY <2>1 DEF Deletes, Updates
    <3>6. \A j \in DOMAIN rows : SameRow(i, j)' <=> SameRow(i, j)
      BY <2>1 DEF SameRow
    <3> QED BY <3>2, <3>3, <3>4, <3>5, <3>6
  <2>10. ASSUME NEW j \in DOMAIN rows, SameRow(w, j), j # w PROVE ~Tip(t, j) /\ ~Deletes(t, j)
    <3>1. SameRow(j, w) /\ ~Claims(t, w)
      BY <1>1, <2>6, <2>10 DEF SameRow
    <3>2. CASE Tip(t, w)
      BY <2>2, <2>10, <3>1, <3>2 DEF VersionInv, OneTip
    <3>3. CASE Current(w)
      <4>1. past[j].by # t
        BY <2>2, <2>10, <3>1, <3>3, BaseClaimed
      <4>2. ~Claims(t, j)
        BY <2>2, <2>10, <3>3, <4>1, RunningClaim DEF VersionInv, OneCurrent
      <4> QED BY <4>1, <4>2 DEF Tip, Deletes, Claims, Claimants
    <3> QED BY <2>8, <3>2, <3>3
  <2>11. KeysSound'
    <3>1. \A i \in DOMAIN rows : past[i].key \in DOMAIN rows
      BY Places DEF VersionInv, KeysSound, Past, Loc
    <3> QED BY <1>2, <2>1, <3>1 DEF VersionInv, KeysSound
  <2>12. OneCurrent'
    BY <2>1, <2>9 DEF VersionInv, OneCurrent
  <2>13. DeletedGone'
    BY <1>2, <2>1, <2>2, <2>9 DEF VersionInv, DeletedGone
  <2>14. SomeCurrent'
    <3> SUFFICES ASSUME NEW k \in DOMAIN rows, past[k].key = k, outcome[past[k].by] = "Committed",
                        ~Deleted(k)'
                 PROVE  \E i \in DOMAIN rows : past[i].key = k /\ Current(i)'
      BY <1>2, <2>1 DEF SomeCurrent
    <3>1. ~Deleted(k)
      BY <1>2, <2>1 DEF Deleted, Versions
    <3> QED BY <2>9, <3>1 DEF VersionInv, SomeCurrent
  <2>15. OneTip'
    <3> SUFFICES ASSUME NEW x \in Xid, outcome[x] = "InProgress"
                 PROVE  /\ \A i, j \in DOMAIN rows : SameRow(i, j) /\ Tip(x, i)' /\ Tip(x, j)' => i = j
                        /\ \A i, j \in DOMAIN rows : SameRow(i, j) /\ Deletes(x, i)' => ~Tip(x, j)'
                        /\ \A i \in DOMAIN rows : past'[i].by = x /\ past'[past'[i].key].by # x =>
                              \E b \in DOMAIN rows :
                                 b < i /\ SameRow(b, i) /\ past'[b].by # x /\ Claims(x, b)'
      BY <1>2, <2>1, <2>9 DEF OneTip
    <3>1. \A i, j \in DOMAIN rows : SameRow(i, j) /\ Tip(x, i)' /\ Tip(x, j)' => i = j
      BY <2>9 DEF VersionInv, OneTip
    <3>2. \A i, j \in DOMAIN rows : SameRow(i, j) /\ Deletes(x, i)' => ~Tip(x, j)'
      BY <2>9, <2>10 DEF VersionInv, OneTip
    <3>3. ASSUME NEW i \in DOMAIN rows, past'[i].by = x, past'[past'[i].key].by # x
          PROVE  \E b \in DOMAIN rows : b < i /\ SameRow(b, i) /\ past'[b].by # x /\ Claims(x, b)'
      <4>1. past[i].by = x /\ past[past[i].key].by # x
        <5>1. past[i].key \in DOMAIN rows
          BY Places DEF VersionInv, KeysSound, Past, Loc
        <5> QED BY <2>1, <3>3, <5>1
      <4>2. PICK b \in DOMAIN rows : b < i /\ SameRow(b, i) /\ past[b].by # x /\ Claims(x, b)
        BY <4>1 DEF VersionInv, OneTip
      <4> QED BY <2>1, <2>9, <4>2
    <3> QED BY <3>1, <3>2, <3>3
  <2>16. SeenUnclaimed'
    <3>1. ASSUME NEW r \in Sessions, NEW i \in session'[r].seen, NEW x, x = session'[r].xid
          PROVE  /\ session'[r].pc \in {"scan", "claim", "waiting"} => ~Claims(x, i)'
                 /\ session'[r].pc = "reinsert" =>
                      IF i = Wanted(r)' THEN Updates(x, i)'
                                        ELSE ~Claims(x, i)'
      <4>1. CASE r = s
        <5>1. i \in session[s].seen /\ i \in DOMAIN rows /\ ~Claims(t, i)
          BY <2>5, <2>6, <3>1, <4>1 DEF me
        <5> QED BY <1>1, <2>3, <2>5, <2>9, <3>1, <4>1, <5>1 DEF me
      <4>2. CASE r # s
        <5>1. i \in session[r].seen /\ i \in DOMAIN rows
          BY <2>4, <3>1, <4>2 DEF BaseInv, SessionsSound, SessionSound
        <5> QED BY <2>4, <2>9, <3>1, <4>2, <5>1 DEF VersionInv, SeenUnclaimed
      <4> QED BY <4>1, <4>2
    <3> QED BY <3>1 DEF SeenUnclaimed, Claims, Claimants, Updates
  <2>17. NoTipYet'
    <3>1. ASSUME NEW r \in Sessions, session'[r].pc = "reinsert", NEW j \in DOMAIN rows,
                 past'[Wanted(r)'].key = past'[j].key, NEW x, x = session'[r].xid
          PROVE  ~Tip(x, j)' /\ ~Deletes(x, j)'
      <4>1. CASE r = s
        <5>1. SameRow(w, j) /\ op # "delete" /\ x = t
          BY <2>1, <2>5, <3>1, <4>1 DEF SameRow, me
        <5>2. CASE j # w
          BY <2>9, <2>10, <5>1, <5>2
        <5>3. CASE j = w
          <6>1. ~Deletes(t, w)
            BY <1>1, <2>6 DEF Deletes, Claims, Claimants
          <6> QED BY <2>9, <5>1, <5>3, <6>1
        <5> QED BY <5>2, <5>3
      <4>2. CASE r # s
        <5>1. session'[r] = session[r] /\ session[r].xid # t /\ Wanted(r)' = Wanted(r)
          BY <2>4, <4>2
        <5>2. Wanted(r) \in DOMAIN rows
          BY <3>1, <5>1, WantedPlace
        <5>3. SameRow(Wanted(r), j)
          BY <2>1, <3>1, <5>1, <5>2 DEF SameRow
        <5>4. ~Tip(session[r].xid, j) /\ ~Deletes(session[r].xid, j)
          BY <3>1, <5>1, <5>3 DEF VersionInv, NoTipYet
        <5> QED BY <2>9, <3>1, <5>1, <5>4
      <4> QED BY <4>1, <4>2
    <3> QED BY <2>1, <3>1 DEF NoTipYet, SameRow, Tip, Claims, Claimants, Deletes
  <2>18. SomeTip'
    <3> SUFFICES ASSUME NEW x \in Xid, outcome[x] = "InProgress",
                        NEW i \in DOMAIN rows, past[i].by = x \/ Claims(x, i)',
                        ~\E j \in DOMAIN rows : SameRow(i, j) /\ (Tip(x, j)' \/ Deletes(x, j)')
                 PROVE  Reinserting(x, i)'
      BY <1>2, <2>1, <2>9 DEF SomeTip
    <3>1. CASE x = t /\ SameRow(i, w)
      <4>1. op = "update"
        BY <2>3, <2>9, <3>1
      <4>2. me.pc = "reinsert" /\ Wanted(s)' = w /\ me.xid = x /\ past'[w].key = past'[i].key
        BY <2>1, <2>5, <3>1, <4>1 DEF SameRow
      <4> QED BY <4>2 DEF Reinserting, SameRow, me
    <3>2. CASE ~(x = t /\ SameRow(i, w))
      <4>1. past[i].by = x \/ Claims(x, i)
        BY <2>9, <3>2 DEF SameRow
      <4>2. ~\E j \in DOMAIN rows : SameRow(i, j) /\ (Tip(x, j) \/ Deletes(x, j))
        BY <2>9, <3>2
      <4>3. Reinserting(x, i)
        BY <4>1, <4>2 DEF VersionInv, SomeTip
      <4>4. PICK r \in Sessions : session[r].pc = "reinsert" /\ session[r].xid = x /\ SameRow(Wanted(r), i)
        BY <4>3 DEF Reinserting
      <4>5. session'[r] = session[r] /\ Wanted(r)' = Wanted(r) /\ Wanted(r) \in DOMAIN rows
        BY <1>2, <2>4, <4>4, WantedPlace
      <4>6. past'[Wanted(r)'].key = past'[i].key
        BY <2>1, <4>4, <4>5 DEF SameRow
      <4> QED BY <4>4, <4>5, <4>6 DEF Reinserting, SameRow
    <3> QED BY <3>1, <3>2
  <2> QED BY <2>11, <2>12, <2>13, <2>14, <2>15, <2>16, <2>17, <2>18 DEF VersionInv
<1> QED BY <1>3, <1>4

(***************************************************************************)
(* All steps.                                                              *)
(***************************************************************************)

\* A mishap is never forgotten.
LEMMA DamageGrows == ASSUME BaseInv, [Next]_vars, damage' = {} PROVE damage = {}
<1>1. ASSUME NEW s \in Sessions,
             \/ Begin(s) \/ Commit(s) \/ Abort(s) \/ Insert(s) \/ StartScan(s) \/ ScanRow(s)
             \/ EndScan(s) \/ Reinsert(s) \/ ClaimConflicts(s) \/ Wait(s) \/ Resume(s)
      PROVE  damage' = damage
  BY <1>1 DEF Begin, Commit, Abort, End, Insert, StartScan, ScanRow, EndScan, Reinsert,
              ClaimConflicts, Wait, Resume
<1>2. ASSUME NEW s \in Sessions, Claim(s) PROVE damage = {}
  BY <1>2 DEF Claim
<1>3. CASE StartVacuum \/ FreezeRow \/ EndFreeze \/ Check \/ List \/ Crash \/ UNCHANGED vars
  BY <1>3 DEF StartVacuum, FreezeRow, EndFreeze, Check, List, Crash, vars
<1>4. CASE Forget
  BY <1>4 DEF Forget
<1> QED BY <1>1, <1>2, <1>3, <1>4 DEF Next, Halted

\* Every step keeps the versions of a row in order.
LEMMA VersionStep == ASSUME BaseInv, LockInv, VersionInv, [Next]_vars PROVE VersionInv'
<1> SUFFICES ASSUME damage' = {} PROVE VersionInv'
  BY DEF VersionInv
<1>1. damage = {}
  BY DamageGrows
<1>2. ASSUME NEW s \in Sessions,
             \/ Begin(s) \/ Commit(s) \/ Abort(s) \/ Insert(s) \/ StartScan(s) \/ ScanRow(s)
             \/ EndScan(s) \/ Claim(s) \/ Reinsert(s) \/ ClaimConflicts(s) \/ Wait(s) \/ Resume(s)
      PROVE  VersionInv'
  BY <1>1, <1>2, QuietSessions, QuietOthers, CommitVersions, InsertVersions, ReinsertVersions,
     ClaimVersions
<1>3. CASE \/ StartVacuum \/ FreezeRow \/ EndFreeze \/ Check \/ List \/ Forget
           \/ Crash \/ UNCHANGED vars
  BY <1>1, <1>3, QuietOthers
<1> QED BY <1>2, <1>3 DEF Next, Halted

(***************************************************************************)
(* Scans.                                                                  *)
(***************************************************************************)

\* A scan goes on for the same transaction.
LEMMA ScanRowXid ==
  ASSUME BaseInv, NEW s \in Sessions, ScanRow(s)
  PROVE  session[s].pc = "scan" /\ session'[s].xid = session[s].xid
<1> DEFINE old == session[s]
           met == IF Visible(rows[old.at], old.xid) THEN old.seen \cup {old.at} ELSE old.seen
<1>1. /\ old \in Thread /\ old.pc = "scan" /\ Becomes(s, [old EXCEPT !.at = old.at + 1, !.seen = met])
  BY DEF ScanRow, BaseInv, TypeOK
<1> HIDE DEF met
<1>2. session'[s] = [old EXCEPT !.at = old.at + 1, !.seen = met]
  BY <1>1 DEF Becomes, BaseInv, TypeOK
<1> QED BY <1>1, <1>2 DEF Thread

\* Only StartScan and ScanRow lead to a scan that goes on.
LEMMA ScanOnly ==
  ASSUME BaseInv, NEW s \in Sessions, session'[s].pc = "scan",
         \/ Begin(s) \/ Commit(s) \/ Abort(s) \/ Insert(s) \/ EndScan(s) \/ Claim(s)
         \/ Reinsert(s) \/ ClaimConflicts(s) \/ Wait(s) \/ Resume(s)
  PROVE  UNCHANGED session
<1>1. session[s] \in Thread
  BY DEF BaseInv, TypeOK
<1>2. ASSUME NEW me, Becomes(s, me) PROVE session'[s] = me
  BY <1>2 DEF Becomes, BaseInv, TypeOK
<1>3. ASSUME NEW pc, pc # "scan", Goto(s, pc) PROVE FALSE
  <2>1. session'[s] = [session[s] EXCEPT !.pc = pc]
    BY <1>2, <1>3 DEF Goto
  <2> QED BY <1>1, <1>3, <2>1 DEF Thread
<1>4. CASE Begin(s)
  <2>1. PICK x \in Xid : session'[s] = [session[s] EXCEPT !.pc = "active", !.xid = x]
    BY <1>2, <1>4 DEF Begin
  <2> QED BY <1>1, <2>1 DEF Thread
<1>5. CASE Commit(s) \/ Abort(s)
  BY <1>2, <1>5 DEF Commit, Abort, End, Idle
<1>6. CASE EndScan(s)
  <2>1. CASE Becomes(s, Rest(s))
    BY <1>2, <2>1, RestFacts
  <2>2. ASSUME NEW picked, NEW op,
               Becomes(s, [session[s] EXCEPT !.pc = "claim", !.op = op, !.seen = picked, !.at = 1])
        PROVE  FALSE
    <3>1. session'[s] = [session[s] EXCEPT !.pc = "claim", !.op = op, !.seen = picked, !.at = 1]
      BY <1>2, <2>2
    <3> QED BY <1>1, <3>1 DEF Thread
  <2> QED BY <1>6, <2>1, <2>2 DEF EndScan
<1>7. CASE Claim(s)
  <2>1. CASE poisoned'
    BY <1>7, <2>1 DEF Claim
  <2>2. CASE ~poisoned'
    BY <1>2, <1>7, <2>2, ClaimedFacts DEF Claim
  <2> QED BY <2>1, <2>2
<1>8. CASE Reinsert(s)
  <2> DEFINE you == [session[s] EXCEPT !.pc = "claim", !.seen = session[s].seen \ {Wanted(s)}]
  <2>1. session'[s] = Rest(s) \/ session'[s] = you
    BY <1>2, <1>8 DEF Reinsert
  <2>2. you.pc = "claim"
    BY <1>1 DEF Thread
  <2> QED BY <2>1, <2>2, RestFacts
<1>9. CASE Insert(s)
  BY <1>9 DEF Insert
<1>10. CASE ClaimConflicts(s) \/ Wait(s) \/ Resume(s)
  BY <1>3, <1>10 DEF ClaimConflicts, Wait, Resume
<1> QED BY <1>4, <1>5, <1>6, <1>7, <1>8, <1>9, <1>10

\* While a scan is under way a version comes to be there, or ceases to be, only
\* by a commit: of its maker, who has then claimed the version it replaces, or
\* of its claimant.
LEMMA ScanCommit ==
  ASSUME BaseInv, LockInv, VersionInv, damage = {}, NEW r \in Sessions, Commit(r),
         NEW s \in Sessions, s # r, session[s].pc = "scan",
         NEW t, t = session[s].xid, NEW seen, seen = session[s].seen,
         NEW at, at = session[s].at, ScanMeets(t, seen, at)
  PROVE  ScanMeets(t, seen, at)'
<1>1. PICK c : c = session[r].xid
  OBVIOUS
<1>2. UNCHANGED <<rows, past>> /\ session[r].pc = "active" /\ Tx!Finish(c, "Committed")
  BY <1>1 DEF Commit, End
<1>3. c \in Xid /\ outcome[c] = "InProgress" /\ t \in Xid /\ outcome[t] = "InProgress" /\ c # t
  BY <1>1, <1>2, OwnXid DEF BaseInv, SessionsSound, Xid, NoXid
<1>4. \A x \in Xid : outcome'[x] = IF x = c THEN "Committed" ELSE outcome[x]
  BY <1>2, <1>3 DEF Tx!Finish, BaseInv, TypeOK
<1>5. \A i, j : SameRow(i, j)' <=> SameRow(i, j)
  BY <1>2 DEF SameRow
<1>6. ASSUME NEW i \in DOMAIN rows, Live(i, t)'
      PROVE  Live(i, t) \/ (past[i].by = c /\ outcome[past[i].by] = "InProgress")
  <2>1. /\ past[i].by = t \/ outcome'[past[i].by] = "Committed"
        /\ \A x \in Claimants(i) : x # t /\ outcome'[x] # "Committed"
    BY <1>2, <1>6 DEF Live, Claimants
  <2> QED BY <1>3, <1>4, <2>1, PastFacts DEF Live
<1>7. \A i \in seen : i \in DOMAIN rows /\ (past[i].by = t \/ outcome[past[i].by] = "Committed")
  BY DEF BaseInv, SeenSound, SessionsSound, SessionSound
<1>8. ASSUME NEW i \in seen, NEW j \in seen, i < j, SameRow(i, j) PROVE ~Live(i, t)'
  BY <1>3, <1>6, <1>7, <1>8 DEF ScanMeets
<1>9. ASSUME NEW i \in DOMAIN rows, NEW j \in DOMAIN rows, j < at, SameRow(i, j),
             past[i].by # past[j].by, Live(j, t)'
      PROVE  \E m \in seen : SameRow(m, j)
  <2>1. CASE Live(j, t)
    BY <1>9, <2>1 DEF ScanMeets
  <2>2. CASE past[j].by = c
    <3>1. past[past[j].key].by # c
      BY <1>3, <1>9, <2>2 DEF VersionInv, KeysSound, SameRow
    <3>2. PICK b \in DOMAIN rows : b < j /\ SameRow(b, j) /\ past[b].by # c /\ Claims(c, b)
      BY <1>3, <2>2, <3>1 DEF VersionInv, OneTip
    <3>3. Current(b) /\ \A x \in Claimants(b) : x # t
      BY <1>3, <3>2, RunningClaim
    <3>4. Live(b, t)
      BY <3>3 DEF Live, Current
    <3>5. b < at
      <4>1. session[s] \in Thread
        BY DEF BaseInv, TypeOK
      <4>2. at \in Nat
        BY <4>1, MvccAssumption DEF Thread
      <4>3. b \in Nat /\ j \in Nat
        BY Places
      <4> QED BY <1>9, <3>2, <4>2, <4>3
    <3>6. SameRow(j, b)
      BY <3>2 DEF SameRow
    <3>7. PICK m \in seen : SameRow(m, b)
      BY <2>2, <3>2, <3>4, <3>5, <3>6 DEF ScanMeets
    <3> QED BY <3>2, <3>7 DEF SameRow
  <2> QED BY <1>6, <1>9, <2>1, <2>2
<1> QED BY <1>2, <1>5, <1>8, <1>9 DEF ScanMeets

\* What a scan has met depends on the history and the commits only.
LEMMA ScanQuiet ==
  ASSUME BaseInv, past' = past, DOMAIN rows' = DOMAIN rows,
         \A x \in Xid : outcome'[x] = "Committed" <=> outcome[x] = "Committed",
         NEW t, NEW seen \in SUBSET DOMAIN rows, NEW at, ScanMeets(t, seen, at)
  PROVE  ScanMeets(t, seen, at)'
<1>1. \A i, j : SameRow(i, j)' <=> SameRow(i, j)
  BY DEF SameRow
<1>2. ASSUME NEW i \in DOMAIN rows PROVE Live(i, t)' <=> Live(i, t)
  <2>1. Claimants(i)' = Claimants(i)
    BY DEF Claimants
  <2> QED BY <2>1, PastFacts DEF Live
<1> QED BY <1>1, <1>2 DEF ScanMeets

\* The next row, judged by the fates of this moment.
LEMMA ScanNext ==
  ASSUME BaseInv, LockInv, VersionInv, damage = {}, NEW s \in Sessions, ScanRow(s),
         NEW t, t = session[s].xid, ScanMeets(t, session[s].seen, session[s].at),
         NEW seen, seen = session'[s].seen, NEW at, at = session'[s].at
  PROVE  ScanMeets(t, seen, at)'
<1> DEFINE old == session[s]
<1>1. /\ UNCHANGED <<outcome, rows, past>> /\ old \in Thread /\ old.pc = "scan" /\ old.at <= Len(rows)
  BY DEF ScanRow, BaseInv, TypeOK
<1>2. old.at \in DOMAIN rows /\ old.at \in Nat /\ old.seen \subseteq DOMAIN rows /\ t \in Xid
      /\ outcome[t] = "InProgress" /\ \A i \in old.seen : i < old.at
  BY <1>1, Places, OwnXid, MvccAssumption DEF Thread, BaseInv, SessionsSound, SessionSound
<1>3. at = old.at + 1 /\ seen = IF Visible(rows[old.at], t) THEN old.seen \cup {old.at} ELSE old.seen
  <2> DEFINE met == IF Visible(rows[old.at], t) THEN old.seen \cup {old.at} ELSE old.seen
  <2>1. Becomes(s, [old EXCEPT !.at = old.at + 1, !.seen = met])
    BY DEF ScanRow
  <2> HIDE DEF met
  <2>2. session'[s] = [old EXCEPT !.at = old.at + 1, !.seen = met]
    BY <2>1 DEF Becomes, BaseInv, TypeOK
  <2>3. at = old.at + 1 /\ seen = met
    BY <1>1, <2>2 DEF Thread
  <2> QED BY <2>3 DEF met
<1>4. Visible(rows[old.at], t) <=> Live(old.at, t)
  <2>1. t \in Readers
    BY <1>1 DEF Readers
  <2> QED BY <1>2, <2>1, LockedVisible DEF VisibleIsLive
<1> HIDE DEF old
<1>5. ASSUME NEW i \in seen, NEW j \in seen, i < j, SameRow(i, j) PROVE ~Live(i, t)
  <2>1. CASE i \in session[s].seen /\ j \in session[s].seen
    BY <1>5, <2>1 DEF ScanMeets
  <2>2. CASE j = old.at /\ Live(j, t)
    <3>1. i \in DOMAIN rows
      BY <1>2, <1>3
    <3>2. i # j
      BY <1>2, <1>5, <2>2
    <3> QED BY <1>2, <1>5, <2>2, <3>1, <3>2, OneLive
  <2>3. CASE i = old.at /\ j \in old.seen
    BY <1>2, <1>5, <2>3, Places
  <2> QED BY <1>2, <1>3, <1>4, <1>5, <2>1, <2>2, <2>3 DEF old
<1>6. ASSUME NEW i \in DOMAIN rows, NEW j \in DOMAIN rows, j < at, SameRow(i, j),
             past[i].by # past[j].by, Live(j, t)
      PROVE  \E m \in seen : SameRow(m, j)
  <2>1. CASE j = old.at
    BY <1>3, <1>4, <1>6, <2>1 DEF SameRow
  <2>2. CASE j # old.at
    <3>1. j < old.at
      BY <1>2, <1>3, <1>6, <2>2, Places
    <3>2. PICK m \in old.seen : SameRow(m, j)
      BY <1>6, <3>1 DEF ScanMeets, old
    <3> QED BY <1>3, <3>2
  <2> QED BY <2>1, <2>2
<1>7. ScanMeets(t, seen, at)
  BY <1>5, <1>6 DEF ScanMeets
<1>8. seen \in SUBSET DOMAIN rows
  BY <1>2, <1>3
<1> QED BY <1>1, <1>7, <1>8, ScanQuiet

\* Every step keeps what the scans under way have met.
LEMMA ScanStep == ASSUME BaseInv, LockInv, VersionInv, ScanInv, [Next]_vars PROVE ScanInv'
<1> SUFFICES ASSUME damage' = {}, NEW s \in Sessions, session'[s].pc = "scan",
                    NEW t, t = session'[s].xid, NEW seen, seen = session'[s].seen,
                    NEW at, at = session'[s].at
             PROVE  ScanMeets(t, seen, at)'
  BY DEF ScanInv, ScanMeets
<1>1. damage = {}
  BY DamageGrows
<1>2. session[s] \in Thread /\ session[s].seen \in SUBSET DOMAIN rows
  BY DEF BaseInv, TypeOK, SessionsSound, SessionSound
<1>3. ASSUME NEW r \in Sessions, NEW me, r # s, Becomes(r, me) PROVE session'[s] = session[s]
  BY <1>3 DEF Becomes, BaseInv, TypeOK
<1>4. ASSUME session'[s] = session[s], past' = past, DOMAIN rows' = DOMAIN rows,
             \A x \in Xid : outcome'[x] = "Committed" <=> outcome[x] = "Committed"
      PROVE  ScanMeets(t, seen, at)'
  BY <1>1, <1>2, <1>4, ScanQuiet DEF ScanInv
<1>5. CASE StartScan(s)
  <2>1. /\ UNCHANGED <<rows, past>>
        /\ session'[s] = [session[s] EXCEPT !.pc = "scan"] /\ session[s].pc = "active"
    BY <1>5 DEF StartScan, Goto, Becomes, BaseInv, TypeOK
  <2>2. seen = session[s].seen /\ at = session[s].at
    BY <1>2, <2>1 DEF Thread
  <2>3. seen = {} /\ at = 1
    BY <2>1, <2>2 DEF BaseInv, SessionsSound, SessionSound
  <2>4. \A j \in DOMAIN rows : ~(j < 1)
    BY Places
  <2> QED BY <2>1, <2>3, <2>4 DEF ScanMeets
<1>6. CASE ScanRow(s)
  <2>1. session[s].pc = "scan" /\ session'[s].xid = session[s].xid
    BY <1>2, <1>6, ScanRowXid
  <2> QED BY <1>1, <1>6, <2>1, ScanNext DEF ScanInv
<1>7. ASSUME NEW r \in Sessions,
             \/ Begin(r) \/ Abort(r) \/ StartScan(r) \/ ScanRow(r) \/ EndScan(r)
             \/ ClaimConflicts(r) \/ Wait(r) \/ Resume(r),
             session'[s] = session[s]
      PROVE  ScanMeets(t, seen, at)'
  <2>1. UNCHANGED <<rows, past>>
    BY <1>7 DEF Begin, Abort, End, StartScan, ScanRow, EndScan, ClaimConflicts, Wait, Resume
  <2>2. CASE Begin(r)
    <3>1. PICK x \in Xid : Tx!Start(x)
      BY <2>2 DEF Begin
    <3>2. \A y \in Xid : outcome'[y] = outcome[y]
                           \/ (outcome'[y] = "InProgress" /\ outcome[y] = "Absent")
      BY <3>1 DEF Tx!Start, Tx!Absent, BaseInv, TypeOK
    <3> QED BY <1>4, <1>7, <2>1, <3>2
  <2>3. CASE Abort(r)
    <3>1. Tx!Finish(session[r].xid, "Aborted")
      BY <2>3 DEF Abort, End
    <3>2. \A y \in Xid : outcome'[y] = outcome[y]
                           \/ (outcome'[y] = "Aborted" /\ outcome[y] = "InProgress")
      BY <3>1 DEF Tx!Finish, BaseInv, TypeOK
    <3> QED BY <1>4, <1>7, <2>1, <3>2
  <2>4. CASE \/ StartScan(r) \/ ScanRow(r) \/ EndScan(r)
             \/ ClaimConflicts(r) \/ Wait(r) \/ Resume(r)
    <3>1. UNCHANGED outcome
      BY <2>4 DEF StartScan, ScanRow, EndScan, ClaimConflicts, Wait, Resume
    <3> QED BY <1>4, <1>7, <2>1, <3>1
  <2> QED BY <1>7, <2>2, <2>3, <2>4
<1>8. ASSUME NEW r \in Sessions, Commit(r), r # s PROVE ScanMeets(t, seen, at)'
  <2>1. session'[s] = session[s]
    BY <1>3, <1>8 DEF Commit, End
  <2> QED BY <1>1, <1>8, <2>1, ScanCommit DEF ScanInv
<1>9. ASSUME NEW r \in Sessions, Insert(r) \/ Claim(r) \/ Reinsert(r), session'[s] = session[s] PROVE FALSE
  BY <1>9 DEF Insert, Claim, Reinsert, AddVersion, TableFree
<1>10. ASSUME NEW r \in Sessions, r # s,
              \/ Begin(r) \/ Abort(r) \/ StartScan(r) \/ ScanRow(r) \/ EndScan(r)
              \/ ClaimConflicts(r) \/ Wait(r) \/ Resume(r) \/ Insert(r) \/ Claim(r) \/ Reinsert(r)
       PROVE  session'[s] = session[s]
  BY <1>3, <1>10 DEF Begin, Abort, End, StartScan, ScanRow, EndScan, ClaimConflicts, Wait, Resume,
     Goto, Insert, Claim, Reinsert
<1>11. ASSUME \/ Begin(s) \/ Commit(s) \/ Abort(s) \/ Insert(s) \/ EndScan(s) \/ Claim(s)
              \/ Reinsert(s) \/ ClaimConflicts(s) \/ Wait(s) \/ Resume(s)
       PROVE  ScanMeets(t, seen, at)'
  <2>1. UNCHANGED session
    BY <1>11, ScanOnly
  <2>2. session'[s] = session[s] /\ session[s].pc = "scan"
    BY <2>1
  <2> QED BY <1>7, <1>9, <1>11, <2>2 DEF Commit
<1>12. CASE StartVacuum \/ FreezeRow \/ EndFreeze \/ Check \/ List \/ Forget \/ UNCHANGED vars
  <2>1. UNCHANGED <<outcome, past, session>>
    BY <1>12 DEF StartVacuum, FreezeRow, EndFreeze, Check, List, Forget, Tx!Forget, vars
  <2>2. DOMAIN rows' = DOMAIN rows
    BY <1>12, FreezeFacts DEF StartVacuum, EndFreeze, Check, List, Forget, vars
  <2> QED BY <1>4, <2>1, <2>2
<1>13. CASE Crash
  BY <1>13 DEF Crash, Idle
<1> QED BY <1>5, <1>6, <1>7, <1>8, <1>9, <1>10, <1>11, <1>12, <1>13 DEF Next, Halted

(***************************************************************************)
(* The theorems.                                                           *)
(***************************************************************************)

\* The versions and the scans, in every state.
LEMMA VersionsInductive == Spec => [](BaseInv /\ LockInv /\ VersionInv /\ ScanInv)
<1>1. Init => VersionInv /\ ScanInv
  <2> SUFFICES ASSUME Init PROVE VersionInv /\ ScanInv
    OBVIOUS
  <2>1. DOMAIN rows = {} /\ \A s \in Sessions : session[s].pc = "idle" /\ session[s].seen = {}
    BY DEF Init, Idle
  <2>2. KeysSound /\ SeenUnclaimed /\ OneCurrent /\ DeletedGone
    BY <2>1 DEF KeysSound, SeenUnclaimed, OneCurrent, DeletedGone
  <2>3. SomeCurrent /\ OneTip /\ SomeTip /\ NoTipYet
    BY <2>1 DEF SomeCurrent, OneTip, SomeTip, NoTipYet
  <2> QED BY <2>1, <2>2, <2>3 DEF VersionInv, ScanInv
<1>2. Init => BaseInv /\ LockInv
  BY BaseInvInit DEF Init, LockInv
<1>3. BaseInv /\ LockInv /\ VersionInv /\ ScanInv /\ [Next]_vars
        => (BaseInv /\ LockInv /\ VersionInv /\ ScanInv)'
  BY BaseStep, LockStep, VersionStep, ScanStep
<1> QED BY <1>1, <1>2, <1>3, PTL DEF Spec

\* At any instant, whatever statements and transactions are under way or have
\* failed, other transactions see exactly one version of a row that is there,
\* and none of one that has been deleted.
THEOREM VersionsCorrect == Spec => []OneVersion
<1>1. ASSUME BaseInv, LockInv, VersionInv PROVE OneVersion
  <2> SUFFICES ASSUME damage = {}, NEW k \in DOMAIN rows, past[k].key = k,
                      outcome[past[k].by] = "Committed"
               PROVE  Cardinality({i \in Versions(k) : Visible(rows[i], NoXid)})
                        = IF Deleted(k) THEN 0 ELSE 1
    BY DEF OneVersion
  <2> DEFINE S == {i \in Versions(k) : Visible(rows[i], NoXid)}
  <2>1. ASSUME NEW i \in DOMAIN rows PROVE Visible(rows[i], NoXid) <=> Current(i)
    <3>1. Visible(rows[i], NoXid) <=> Live(i, NoXid)
      BY <1>1, LockedVisible DEF VisibleIsLive, Readers
    <3>2. past[i].by # NoXid /\ \A x \in Claimants(i) : x # NoXid
      BY <1>1, PastFacts DEF Xid, NoXid
    <3> QED BY <3>1, <3>2 DEF Live, Current
  <2>2. S = {i \in DOMAIN rows : past[i].key = k /\ Current(i)}
    BY <2>1 DEF Versions
  <2> HIDE DEF S
  <2>3. CASE Deleted(k)
    <3>1. PICK i \in DOMAIN rows : past[i].key = k /\ \E c \in past[i].claims :
             c.op = "delete" /\ outcome[c.xid] = "Committed"
      BY <2>3 DEF Deleted, Versions
    <3>2. PICK c \in Mark : c \in past[i].claims /\ c.op = "delete" /\ outcome[c.xid] = "Committed"
      BY <1>1, <3>1, Places DEF Past
    <3>3. Deletes(c.xid, i) /\ c.xid \in Xid
      BY <3>2 DEF Deletes, Mark
    <3>4. S = {}
      BY <1>1, <2>2, <3>1, <3>2, <3>3 DEF VersionInv, DeletedGone, SameRow
    <3> QED BY <2>3, <3>4, FS_EmptySet DEF S
  <2>4. CASE ~Deleted(k)
    <3>1. PICK i \in DOMAIN rows : past[i].key = k /\ Current(i)
      BY <1>1, <2>4 DEF VersionInv, SomeCurrent
    <3>2. S = {i}
      BY <1>1, <2>2, <3>1 DEF VersionInv, OneCurrent, SameRow
    <3> QED BY <2>4, <3>2, FS_Singleton DEF S
  <2> QED BY <2>3, <2>4
<1> QED BY <1>1, VersionsInductive, PTL

\* A scan during which transactions commit shows two versions of a row only if
\* the earlier is gone by then, and does not miss a row because of them.
THEOREM ScansCorrect == Spec => []ScanSeesEachRow
<1>1. ASSUME BaseInv, LockInv, ScanInv PROVE ScanSeesEachRow
  <2> SUFFICES ASSUME damage = {}, NEW s \in Sessions, session[s].pc = "scan",
                      session[s].at > Len(rows),
                      NEW i \in DOMAIN rows, NEW j \in DOMAIN rows, past[i].key = past[j].key
               PROVE  /\ i < j /\ {i, j} \subseteq session[s].seen => ~Visible(rows[i], session[s].xid)
                      /\ Visible(rows[j], session[s].xid) /\ past[i].by # past[j].by =>
                            \E m \in session[s].seen : past[m].key = past[j].key
    BY DEF ScanSeesEachRow
  <2>1. session[s].xid \in Readers
    BY DEF Readers
  <2>2. \A m \in DOMAIN rows : Visible(rows[m], session[s].xid) <=> Live(m, session[s].xid)
    BY <1>1, <2>1, LockedVisible DEF VisibleIsLive
  <2>3. j < session[s].at
    BY <1>1, Places, MvccAssumption DEF BaseInv, TypeOK, Thread
  <2>4. ScanMeets(session[s].xid, session[s].seen, session[s].at)
    BY <1>1 DEF ScanInv
  <2> QED BY <2>2, <2>3, <2>4 DEF ScanMeets, SameRow
<1> QED BY <1>1, VersionsInductive, PTL
===============================================================================
