------------------------------ MODULE HeapTable ------------------------------
(***************************************************************************)
(* crumble-storage/src/table.rs over crumble-buffer and crumble-wal: a     *)
(* heap file whose changes are logged before they reach the buffer pool,   *)
(* and the replay that Table::open performs.  The table's mutex makes each *)
(* operation atomic for other threads; the process may die between any two *)
(* of its steps, or in the middle of a record, and a write of the log or   *)
(* of a page may fail.  The pool decides alone when a page reaches the     *)
(* disk.                                                                   *)
(***************************************************************************)
EXTENDS Naturals, Sequences, FiniteSets

CONSTANTS
    MaxPage,        \* bound: the largest page index
    RowsPerPage,    \* rows that fit in a page
    Capacity,       \* BUFFER_CAPACITY
    MaxLog,         \* bound: records in the write-ahead log
    MaxUpsets,      \* bound: crashes and failed writes, together
    Beyond, NotCached

ASSUME HeapAssumption == /\ MaxPage \in Nat /\ MaxLog \in Nat /\ MaxUpsets \in Nat
                         /\ RowsPerPage \in Nat \ {0}
                         /\ Capacity \in Nat \ {0}

VARIABLES
    wal,        \* the complete records of the .wal file
    torn,       \* how many of them precede its first torn record (MaxLog: none is)
    atStart,    \* the writer has not appended since it was opened
    pool,       \* Table.pool, with the .tbl file as pool.disk
    phase,      \* inside open(), serving, or open() has failed
    next,       \* the record that replay looks at next
    upsets,     \* bound counter: crashes and failed writes
    rows,       \* history: what each page must hold, by the logged records
    damage      \* history: which of four mishaps the table has suffered: "gap", a
                \* hole in the file; "lsn", an append after reopening; "behind", one
                \* behind a torn record; "unwritten", a record whose page was not changed

vars == <<wal, torn, atStart, pool, phase, next, upsets, rows, damage>>

Page == 0..MaxPage

\* A row is the record that inserted it and the one that last rewrote it
\* (delete_at's xmax, freeze's xmin and xmax).
Row == [id : 1..MaxLog, ver : 1..MaxLog]
PageImage == [lsn : 0..MaxLog, rows : Seq(Row), free : 0..RowsPerPage]
\* Page::new, and the zero bytes of a gap in the file: there the free-space
\* offset is 0, so the page takes no row.
EmptyPage == [lsn |-> 0, rows |-> <<>>, free |-> RowsPerPage]
ZeroPage == [lsn |-> 0, rows |-> <<>>, free |-> 0]

\* No page, and no frame, is not a page.
ASSUME ImageAssumption == /\ Beyond \notin PageImage
                          /\ NotCached \notin [page : PageImage, dirty : BOOLEAN]

WalRecord == [op : {"Insert"}, page : Page, row : Row]
               \cup [op : {"UpdateRow"}, page : Page, slot : 1..RowsPerPage, row : Row]

B == INSTANCE BufferPool WITH Image <- PageImage, Zero <- ZeroPage,
                              MaxFailures <- 0, failures <- 0

TypeOK ==
    /\ wal \in Seq(WalRecord) /\ torn \in 0..MaxLog
    /\ atStart \in BOOLEAN
    /\ pool \in B!Pool
    /\ phase \in {"replay", "open", "failed"}
    /\ next \in 1..(MaxLog + 1)
    /\ upsets \in 0..MaxUpsets
    /\ rows \in [Page -> Seq(Row)]
    /\ damage \subseteq {"gap", "lsn", "behind", "unwritten"}

------------------------------------------------------------------------------
(* page.rs *)

\* Mutation: the new slot entry is not counted.
OneTooMany(image) == image.free + 1 > 0
HasRoom(image) == image.free > 0
HasSlot(image, slot) == slot <= Len(image.rows)
InsertRow(image, row) == [image EXCEPT !.rows = Append(@, row), !.free = @ - 1]
UpdateRow(image, slot, row) == [image EXCEPT !.rows = [@ EXCEPT ![slot] = row]]
SetPageLsn(image, lsn) == [image EXCEPT !.lsn = lsn]

------------------------------------------------------------------------------
(* writer.rs and reader.rs: a record's offset stands for its LSN.          *)

\* stream_position() of a file opened for appending is 0 until something is
\* written; only then is it the end of the file.
\* Mutation: the position after the record, not before it.
EndOfRecord == Len(wal) + 1
AppendLsn == IF atStart THEN 0 ELSE Len(wal)

\* The reader counts the offsets itself, and stops at a torn record.
ReadLsn(i) == i - 1
Readable == IF Len(wal) <= torn THEN Len(wal) ELSE torn

------------------------------------------------------------------------------
Init ==
    /\ wal = <<>> /\ torn = MaxLog /\ atStart = TRUE
    /\ pool = B!Opened([p \in Page |-> Beyond])
    /\ phase = "replay" /\ next = 1
    /\ upsets = 0
    /\ rows = [p \in Page |-> <<>>]
    /\ damage = {}

NewRow == [id |-> Len(wal) + 1, ver |-> Len(wal) + 1]

\* prepare_insert: the last page if the row fits, else a new one.
LastPage == pool.count - 1
Prepared == IF pool.count > 0 THEN B!Fetched(pool, LastPage) ELSE pool
Fits == pool.count > 0 /\ HasRoom(B!View(pool, LastPage))
InsertPage == IF Fits THEN LastPage ELSE pool.count
InsertImage == InsertRow(IF Fits THEN B!View(pool, LastPage) ELSE EmptyPage, NewRow)
InsertRecord == [op |-> "Insert", page |-> InsertPage, row |-> NewRow]

\* The record goes to the log, and with it to what the table must hold.
Log(r) ==
    /\ Len(wal) < MaxLog
    /\ wal' = Append(wal, r)
    /\ rows' = IF r.op = "Insert"
                 THEN [rows EXCEPT ![r.page] = Append(@, r.row)]
                 ELSE [rows EXCEPT ![r.page] = [@ EXCEPT ![r.slot] = r.row]]

\* An append after reopening a log with records is stamped 0, and one behind
\* a torn record is never read.
Behind == IF Len(wal) >= torn THEN {"behind"} ELSE {}
Appended(mishap) ==
    /\ atStart' = FALSE
    /\ damage' = damage \cup Behind \cup mishap
                 \cup IF atStart /\ wal # <<>> THEN {"lsn"} ELSE {}

Insert ==
    /\ phase = "open" /\ InsertPage <= MaxPage
    /\ Log(InsertRecord) /\ Appended({})
    /\ pool' = B!Written(Prepared, InsertPage, SetPageLsn(InsertImage, AppendLsn))
    /\ UNCHANGED <<torn, phase, next, upsets>>

UpdateRecord(p, slot) ==
    [op |-> "UpdateRow", page |-> p, slot |-> slot,
     row |-> [B!View(pool, p).rows[slot] EXCEPT !.ver = Len(wal) + 1]]

Updatable(p, slot) == p < pool.count /\ HasSlot(B!View(pool, p), slot)

\* delete_at's claim of a row, and freeze: the row is rewritten in place.  The
\* one fetches the page before it logs, the other after: when nothing fails the
\* outcome is the same (and Read, then Crash, is dying in between).
Update(p, slot) ==
    /\ phase = "open" /\ Updatable(p, slot)
    /\ Log(UpdateRecord(p, slot)) /\ Appended({})
    /\ LET image == UpdateRow(B!View(pool, p), slot, UpdateRecord(p, slot).row)
       IN  pool' = B!Written(B!Fetched(pool, p), p, SetPageLsn(image, AppendLsn))
    /\ UNCHANGED <<torn, phase, next, upsets>>

\* rows, row_at, all_rows_raw: each page they visit moves in the cache.
Read(p) ==
    /\ phase = "open" /\ p < pool.count
    /\ pool' = B!Fetched(pool, p)
    /\ UNCHANGED <<wal, torn, atStart, phase, next, upsets, rows, damage>>

------------------------------------------------------------------------------
(* Operations that return an error (`?`): what they did before it stays.    *)

MayFail == phase = "open" /\ upsets < MaxUpsets /\ upsets' = upsets + 1

\* Making room in the cache fails, as BufferPool's EvictionFails has it.
NoRoom(b, p) == B!MustEvict(b, p) /\ Head(b.lru) \in B!Dirty(b)

\* fetch_page fails before anything is logged: in a read (freeze starts with one
\* of all pages), in delete_at or in prepare_insert.
FetchFails(p) ==
    /\ MayFail /\ p < pool.count /\ NoRoom(pool, p)
    /\ pool' = B!Popped(pool)
    /\ UNCHANGED <<wal, torn, atStart, phase, next, rows, damage>>

\* What the pool is when a row is about to be rewritten: delete_at has fetched
\* its page by then, freeze has not.
BeforeUpdate(p) == {B!Fetched(pool, p), pool}

\* append fails in the middle of the record.
AppendFails ==
    /\ MayFail /\ Len(wal) < MaxLog
    /\ \/ InsertPage <= MaxPage /\ pool' = Prepared
       \/ \E p \in Page, slot \in 1..RowsPerPage :
             Updatable(p, slot) /\ pool' \in BeforeUpdate(p)
    /\ torn' = Readable /\ atStart' = FALSE
    /\ UNCHANGED <<wal, phase, next, rows, damage>>

\* append fails behind the whole record (sync_data), or freeze cannot read the
\* page it has just logged a change of: the record is there, the page is as it was.
SyncFails ==
    /\ MayFail /\ Appended({"unwritten"})
    /\ \/ InsertPage <= MaxPage /\ Log(InsertRecord) /\ pool' = Prepared
       \/ \E p \in Page, slot \in 1..RowsPerPage :
             Updatable(p, slot) /\ Log(UpdateRecord(p, slot)) /\ pool' \in BeforeUpdate(p)
    /\ UNCHANGED <<torn, phase, next>>

\* freeze logs the change and then finds no room for the page.
FreezeFails(p, slot) ==
    /\ MayFail /\ Updatable(p, slot) /\ NoRoom(pool, p)
    /\ Log(UpdateRecord(p, slot)) /\ Appended({"unwritten"})
    /\ pool' = B!Popped(pool)
    /\ UNCHANGED <<torn, phase, next>>

\* write_page fails for a new page: the record is logged, the page is not there.
WriteFails ==
    /\ MayFail /\ ~Fits /\ InsertPage <= MaxPage /\ NoRoom(Prepared, InsertPage)
    /\ Log(InsertRecord) /\ Appended({"unwritten"})
    /\ pool' = B!Popped(Prepared)
    /\ UNCHANGED <<torn, phase, next>>

------------------------------------------------------------------------------
(* open(): one record of the log after the other.                          *)

\* Mutation: pages older than the record are trusted, newer ones are not.
Older(r, lsn) == r.page < pool.count /\ B!View(pool, r.page).lsn <= lsn
AlreadyDurable(r, lsn) == r.page < pool.count /\ B!View(pool, r.page).lsn >= lsn

\* The page has been fetched once for its LSN before it is changed.
Looked(p) == IF p < pool.count THEN B!Fetched(pool, p) ELSE pool

Skip(r) == /\ AlreadyDurable(r, ReadLsn(next))
           /\ pool' = B!Fetched(pool, r.page)
           /\ next' = next + 1 /\ UNCHANGED phase

\* apply_at
ApplyInsert(r) ==
    LET image == IF r.page < pool.count THEN B!View(pool, r.page) ELSE EmptyPage
    IN  /\ r.op = "Insert" /\ ~AlreadyDurable(r, ReadLsn(next))
        /\ IF HasRoom(image)
             THEN /\ pool' = B!Written(Looked(r.page), r.page,
                                       SetPageLsn(InsertRow(image, r.row), ReadLsn(next)))
                  /\ next' = next + 1 /\ UNCHANGED phase
             ELSE phase' = "failed" /\ UNCHANGED <<pool, next>>

\* apply_update_at: a missing page is an error, a missing slot fails the
\* debug_assert or, in a release build, is passed over.
ApplyUpdate(r) ==
    /\ r.op = "UpdateRow" /\ ~AlreadyDurable(r, ReadLsn(next))
    /\ \/ /\ ~Updatable(r.page, r.slot)
          /\ phase' = "failed" /\ UNCHANGED <<pool, next>>
       \/ /\ r.page < pool.count
          /\ LET image == B!View(pool, r.page)
                 changed == IF HasSlot(image, r.slot)
                              THEN UpdateRow(image, r.slot, r.row) ELSE image
             IN  pool' = B!Written(Looked(r.page), r.page, SetPageLsn(changed, ReadLsn(next)))
          /\ next' = next + 1 /\ UNCHANGED phase

Replay ==
    /\ phase = "replay"
    /\ IF next > Readable
         THEN phase' = "open" /\ UNCHANGED <<pool, next>>
         ELSE LET r == wal[next] IN Skip(r) \/ ApplyInsert(r) \/ ApplyUpdate(r)
    /\ UNCHANGED <<wal, torn, atStart, upsets, rows, damage>>

\* The process dies, perhaps in the middle of a record or just after it was
\* logged, and the table is opened again.  Only what the pool has evicted is on disk.
Crash ==
    /\ upsets < MaxUpsets /\ upsets' = upsets + 1
    /\ \/ UNCHANGED <<wal, torn, rows>>
       \/ phase = "open" /\ torn' = Readable /\ UNCHANGED <<wal, rows>>
       \/ phase = "open" /\ InsertPage <= MaxPage /\ Log(InsertRecord) /\ UNCHANGED torn
       \/ /\ phase = "open"
          /\ \E p \in Page, slot \in 1..RowsPerPage :
                Updatable(p, slot) /\ Log(UpdateRecord(p, slot))
          /\ UNCHANGED torn
    /\ damage' = damage \cup (IF \E p \in Page : pool.disk[p] = ZeroPage THEN {"gap"} ELSE {})
                        \cup (IF wal' # wal THEN Behind ELSE {})
    /\ atStart' = TRUE
    /\ pool' = B!Opened(pool.disk)
    /\ phase' = "replay" /\ next' = 1

Stop == /\ \/ phase = "failed"
           \/ phase = "open" /\ Len(wal) = MaxLog
        /\ UNCHANGED vars

Next ==
    \/ Insert
    \/ \E p \in Page, slot \in 1..RowsPerPage : Update(p, slot) \/ FreezeFails(p, slot)
    \/ \E p \in Page : Read(p) \/ FetchFails(p)
    \/ AppendFails \/ SyncFails \/ WriteFails
    \/ Replay
    \/ Crash
    \/ Stop

Spec == Init /\ [][Next]_vars

------------------------------------------------------------------------------
\* A table that serves holds exactly the rows its log calls for, each once,
\* in its slot and in its last version; and open() never fails.
RowsIntact ==
    /\ phase # "failed"
    /\ phase = "open" => \A p \in Page :
          rows[p] = IF p < pool.count THEN B!View(pool, p).rows ELSE <<>>

\* It does so through any evictions, failed evictions, torn records and
\* crashes, also crashes during replay, as long as no crash found a gap in the
\* file, left by a page evicted before one below it, nothing was appended after
\* reopening or behind a torn record, and no operation failed between logging a
\* change and making it.
RecoversExactly == damage = {} => RowsIntact

\* The claim without the exception for appending after a reopening: a record has
\* its offset for its LSN (writer.rs:21-25), so a log may be closed, opened and
\* appended to, and a table to which nothing else has happened is still intact.
SurvivesReopening == damage \subseteq {"lsn"} => RowsIntact

\* What page_lsn means: until then, a page on disk holds just the rows that
\* its records up to that LSN call for, each in the version of that moment,
\* and no record beyond the end of the log.
LastVersions(p, k) ==
    {wal[i].row : i \in {j \in 1..k : /\ wal[j].page = p
                                     /\ \A m \in (j + 1)..k : wal[m].row.id # wal[j].row.id}}
LsnTellsContent ==
    damage = {} => \A p \in Page :
        LET image == pool.disk[p] IN
        image \notin {Beyond, ZeroPage} =>
            /\ image.lsn < Len(wal)
            /\ {image.rows[i] : i \in DOMAIN image.rows} = LastVersions(p, image.lsn + 1)
==============================================================================
