---------------------------- MODULE HeapTableProofs ----------------------------
(***************************************************************************)
(* Machine-checked theorems about HeapTable, for any number of pages, rows *)
(* in a page, frames, records, crashes and failed writes.                  *)
(***************************************************************************)
EXTENDS HeapTable, TLAPS

(***************************************************************************)
(* What BufferPoolProofs shows of the pool's operations, for page images.  *)
(***************************************************************************)

L == INSTANCE BufferPoolProofs WITH Image <- PageImage, Zero <- ZeroPage,
                                    MaxFailures <- 0, failures <- 0

\* Clean frames are on disk, exactly the pages below page_count can be read,
\* and the file has no hole.
PoolOK(b) == L!Sound(b) /\ L!GapFree(b.disk)

\* What may have come to disk: what the page held, or the zeros of a gap.
DiskFrom(b, c) == \A p \in Page : \/ c.disk[p] \in {b.disk[p], ZeroPage}
                                  \/ p < b.count /\ c.disk[p] = B!View(b, p)

\* Both pools show the same pages.
Alike(b, c) == c.count = b.count /\ \A p \in Page : B!View(c, p) = B!View(b, p)

\* The pages of a table are images as the pool takes them.
LEMMA PoolConstants == L!PoolAssumption
<1>1. ZeroPage \in PageImage
  BY HeapAssumption DEF ZeroPage, PageImage
<1> QED BY <1>1, HeapAssumption, ImageAssumption DEF L!PoolAssumption

\* The table uses the operators that the lemmas are about.
LEMMA SameView == \A b, p : B!View(b, p) = L!View(b, p)
BY DEF B!View, L!View, B!Cached, L!Cached, B!Page, L!Page

LEMMA SamePool == B!Pool = L!Pool /\ B!Page = Page /\ L!Page = Page
BY DEF B!Pool, L!Pool, B!Frame, L!Frame, B!Page, L!Page, Page

LEMMA SameTouched == \A b, p : B!Touched(b, p) = L!Touched(b, p)
BY DEF B!Touched, L!Touched, B!Without, L!Without

LEMMA SamePopped == \A b : B!Popped(b) = L!Popped(b)
BY DEF B!Popped, L!Popped

LEMMA SameEvicted ==
  \A b, p : /\ B!MustEvict(b, p) = L!MustEvict(b, p)
            /\ B!Evicted(b) = L!Evicted(b)
            /\ B!Dirty(b) = L!Dirty(b) /\ B!Cached(b) = L!Cached(b)
<1>1. \A b : B!Dirty(b) = L!Dirty(b) /\ B!Cached(b) = L!Cached(b)
  BY DEF B!Dirty, L!Dirty, B!Cached, L!Cached, B!Page, L!Page
<1>2. \A b, p : B!MustEvict(b, p) = L!MustEvict(b, p)
  BY <1>1 DEF B!MustEvict, L!MustEvict, B!Cardinality, L!Cardinality
<1>3. \A b, S : B!Flushed(b, S) = L!Flushed(b, S)
  BY DEF B!Flushed, L!Flushed, B!StoreWrite, L!StoreWrite, B!View, L!View,
         B!Dirty, L!Dirty, B!Cached, L!Cached, B!Page, L!Page
<1>4. \A b : B!Evicted(b) = L!Evicted(b)
  BY <1>3, SamePopped DEF B!Evicted, L!Evicted
<1> QED BY <1>1, <1>2, <1>4

LEMMA SameInserted ==
  \A b, p, img, dirty : B!InsertedIntoCache(b, p, img, dirty) = L!InsertedIntoCache(b, p, img, dirty)
BY SameEvicted, SameTouched DEF B!InsertedIntoCache, L!InsertedIntoCache

LEMMA SameFetched == \A b, p : B!Fetched(b, p) = L!Fetched(b, p)
<1> SUFFICES ASSUME NEW b, NEW p PROVE B!Fetched(b, p) = L!Fetched(b, p)
  OBVIOUS
<1>1. B!Cached(b) = L!Cached(b)
  BY SameEvicted
<1>2. B!Touched(b, p) = L!Touched(b, p)
  BY SameTouched
<1>3. B!InsertedIntoCache(b, p, b.disk[p], FALSE) = L!InsertedIntoCache(b, p, b.disk[p], FALSE)
  BY SameInserted
<1> QED BY <1>1, <1>2, <1>3 DEF B!Fetched, L!Fetched

LEMMA SameWritten == \A b, p, img : B!Written(b, p, img) = L!Written(b, p, img)
BY SameInserted DEF B!Written, L!Written

LEMMA SameOpened == \A d : B!Opened(d) = L!Opened(d)
BY DEF B!Opened, L!Opened, B!Page, L!Page, B!Cardinality, L!Cardinality

\* Of a page below page_count there is an image, above there is nothing.
LEMMA PagesRead ==
  ASSUME NEW b, PoolOK(b), NEW p \in Page
  PROVE  /\ b \in B!Pool /\ b.count \in 0..(MaxPage + 1)
         /\ p < b.count => B!View(b, p) \in PageImage
         /\ ~(p < b.count) => b.disk[p] = Beyond
         /\ b.disk[p] \in PageImage \cup {Beyond}
<1>1. L!Sound(b) /\ b \in L!Pool
  BY DEF PoolOK, L!Sound
<1>2. /\ L!View(b, p) \in PageImage \cup {Beyond}
      /\ p \in L!Cached(b) => L!View(b, p) # Beyond
  BY <1>1, PoolConstants, SamePool, L!ViewType
<1>3. p < b.count <=> L!View(b, p) # Beyond
  BY <1>1, SamePool DEF L!Sound, L!Contiguous
<1>4. p \notin L!Cached(b) => L!View(b, p) = b.disk[p]
  BY DEF L!View
<1>5. b.count \in 0..(MaxPage + 1) /\ b.disk[p] \in PageImage \cup {Beyond}
  BY <1>1, SamePool DEF L!Pool
<1> QED BY <1>1, <1>2, <1>3, <1>4, <1>5, SamePool, SameView

\* Persisted, in the terms of this module.
LEMMA PersistedFrom ==
  ASSUME NEW b, NEW c, L!Sound(b), L!Persisted(b, c)
  PROVE  DiskFrom(b, c)
<1>1. PICK S \in SUBSET {p \in Page : L!View(b, p) # Beyond} :
         c.disk = L!StoreWrite(b.disk, S, [p \in Page |-> L!View(b, p)])
  BY SamePool DEF L!Persisted
<1> SUFFICES ASSUME NEW p \in Page
             PROVE  \/ c.disk[p] \in {b.disk[p], ZeroPage}
                    \/ p < b.count /\ c.disk[p] = L!View(b, p)
  BY SameView DEF DiskFrom
<1>2. p < b.count <=> L!View(b, p) # Beyond
  BY SamePool DEF L!Sound, L!Contiguous
<1> QED BY <1>1, <1>2, SamePool DEF L!StoreWrite

\* fetch_page shows the same pages afterwards.
LEMMA FetchedPool ==
  ASSUME NEW b, PoolOK(b), NEW p \in Page, p < b.count
  PROVE  PoolOK(B!Fetched(b, p)) /\ Alike(b, B!Fetched(b, p)) /\ DiskFrom(b, B!Fetched(b, p))
<1>1. L!Sound(b) /\ L!GapFree(b.disk)
  BY DEF PoolOK
<1> DEFINE c == L!Fetched(b, p)
<1>2. L!Sound(c) /\ L!SameView(b, c) /\ L!Persisted(b, c) /\ c.count = b.count
  BY <1>1, PoolConstants, SamePool, L!FetchedSound
<1> HIDE DEF c
<1>3. L!GapFree(c.disk)
  BY <1>1, <1>2, PoolConstants, L!PersistedGapFree
<1>4. DiskFrom(b, c) /\ Alike(b, c)
  BY <1>1, <1>2, SamePool, SameView, PersistedFrom DEF L!SameView, Alike
<1> QED BY <1>2, <1>3, <1>4, SameFetched DEF PoolOK, c

\* write_page, at a page that exists or behind the last.
LEMMA WrittenPool ==
  ASSUME NEW b, PoolOK(b), NEW p \in Page, p <= b.count, NEW img \in PageImage
  PROVE  LET c == B!Written(b, p, img) IN
         /\ PoolOK(c) /\ DiskFrom(b, c)
         /\ c.count = IF b.count > p THEN b.count ELSE p + 1
         /\ B!View(c, p) = img
         /\ \A q \in Page \ {p} : B!View(c, q) = B!View(b, q)
<1>1. L!Sound(b) /\ L!GapFree(b.disk)
  BY DEF PoolOK
<1> DEFINE c == L!Written(b, p, img)
<1>2. /\ L!Sound(c) /\ L!Persisted(b, c)
      /\ c.count = IF b.count > p THEN b.count ELSE p + 1
      /\ L!View(c, p) = img
      /\ \A q \in Page \ {p} : L!View(c, q) = L!View(b, q)
  BY <1>1, PoolConstants, SamePool, L!WrittenSound
<1> HIDE DEF c
<1>3. L!GapFree(c.disk)
  BY <1>1, <1>2, PoolConstants, L!PersistedGapFree
<1>4. DiskFrom(b, c)
  BY <1>1, <1>2, PersistedFrom
<1> QED BY <1>2, <1>3, <1>4, SameWritten, SameView DEF PoolOK, c

\* A failed eviction shows the same pages afterwards.
LEMMA PoppedPool ==
  ASSUME NEW b, PoolOK(b), b.lru # <<>>
  PROVE  PoolOK(B!Popped(b)) /\ Alike(b, B!Popped(b)) /\ DiskFrom(b, B!Popped(b))
<1>1. L!Sound(b) /\ L!GapFree(b.disk)
  BY DEF PoolOK
<1> DEFINE c == L!Popped(b)
<1>2. L!Sound(c) /\ L!SameView(b, c) /\ c.disk = b.disk /\ c.count = b.count
  BY <1>1, PoolConstants, SamePool, L!PoppedSound
<1> HIDE DEF c
<1> QED BY <1>1, <1>2, SamePool, SameView, SamePopped DEF L!SameView, Alike, DiskFrom, PoolOK, c

\* open shows what the file holds.
LEMMA OpenedPool ==
  ASSUME NEW d \in [Page -> PageImage \cup {Beyond}], L!GapFree(d)
  PROVE  LET c == B!Opened(d) IN
         /\ PoolOK(c) /\ c.disk = d
         /\ \A p \in Page : B!View(c, p) = d[p] /\ (p < c.count <=> d[p] # Beyond)
<1> DEFINE c == L!Opened(d)
<1>1. L!Sound(c) /\ c.disk = d /\ \A p \in Page : L!View(c, p) = d[p]
  BY PoolConstants, SamePool, L!OpenedSound
<1> HIDE DEF c
<1>2. \A p \in Page : p < c.count <=> d[p] # Beyond
  BY <1>1, SamePool DEF L!Sound, L!Contiguous
<1> QED BY <1>1, <1>2, SameOpened, SameView DEF PoolOK, c

\* Reading and then writing: the disk still only gets what the pages held.
LEMMA DiskFromAlike ==
  ASSUME NEW b, NEW c, NEW d, PoolOK(b), DiskFrom(b, c), Alike(b, c), DiskFrom(c, d)
  PROVE  DiskFrom(b, d)
BY DEF DiskFrom, Alike

(***************************************************************************)
(* Records and images.                                                     *)
(***************************************************************************)

\* A record has the fields that replay reads.
LEMMA RecordFields ==
  ASSUME NEW r \in WalRecord
  PROVE  /\ r.op \in {"Insert", "UpdateRow"} /\ r.page \in Page /\ r.row \in Row
         /\ r.op # "Insert" => r.op = "UpdateRow" /\ r.slot \in 1..RowsPerPage
BY DEF WalRecord

\* Rewriting one element of a sequence.
LEMMA SeqRewritten ==
  ASSUME NEW S, NEW s \in Seq(S), NEW i \in Nat, NEW x \in S
  PROVE  LET t == [s EXCEPT ![i] = x] IN
         /\ t \in Seq(S) /\ Len(t) = Len(s)
         /\ \A k \in 1..Len(s) : t[k] = IF k = i THEN x ELSE s[k]
<1> DEFINE t == [s EXCEPT ![i] = x]
<1>1. Len(s) \in Nat /\ DOMAIN s = 1..Len(s) /\ s \in [1..Len(s) -> S]
  OBVIOUS
<1>2. t \in [1..Len(s) -> S] /\ \A k \in 1..Len(s) : t[k] = IF k = i THEN x ELSE s[k]
  BY <1>1
<1> HIDE DEF t
<1>3. t \in Seq(S) /\ Len(t) = Len(s)
  BY <1>1, <1>2
<1> QED BY <1>2, <1>3 DEF t

\* Adding a row to a page with room.
LEMMA InsertedImage ==
  ASSUME NEW image \in PageImage, HasRoom(image), NEW row \in Row, NEW lsn \in 0..MaxLog
  PROVE  LET x == SetPageLsn(InsertRow(image, row), lsn) IN
         /\ x \in PageImage /\ x.lsn = lsn /\ x.rows = Append(image.rows, row)
         /\ x.free = image.free - 1
<1>1. image.free - 1 \in 0..RowsPerPage /\ Append(image.rows, row) \in Seq(Row)
  BY HeapAssumption DEF HasRoom, PageImage
<1> DEFINE y == InsertRow(image, row)
<1>3. y \in PageImage /\ y.rows = Append(image.rows, row) /\ y.free = image.free - 1
  BY <1>1 DEF InsertRow, PageImage
<1> HIDE DEF y
<1>2. LET x == SetPageLsn(y, lsn) IN
      x \in PageImage /\ x.lsn = lsn /\ x.rows = y.rows /\ x.free = y.free
  BY <1>3 DEF SetPageLsn, PageImage
<1> QED BY <1>2, <1>3 DEF y

\* Rewriting a row of a page, or only its LSN.
LEMMA UpdatedImage ==
  ASSUME NEW image \in PageImage, NEW slot \in 1..RowsPerPage, NEW row \in Row, NEW lsn \in 0..MaxLog
  PROVE  /\ LET x == SetPageLsn(UpdateRow(image, slot, row), lsn) IN
             /\ x \in PageImage /\ x.lsn = lsn /\ x.rows = [image.rows EXCEPT ![slot] = row]
             /\ x.free = image.free
         /\ SetPageLsn(image, lsn) \in PageImage
<1>1. image.rows \in Seq(Row) /\ slot \in Nat
  BY HeapAssumption DEF PageImage
<1>2. [image.rows EXCEPT ![slot] = row] \in Seq(Row)
  BY <1>1, SeqRewritten
<1> DEFINE new == [image.rows EXCEPT ![slot] = row]
           y == UpdateRow(image, slot, row)
<1>5. y = [image EXCEPT !.rows = new]
  BY DEF UpdateRow
<1> HIDE DEF new, y
<1>6. y \in PageImage /\ y.rows = new /\ y.free = image.free
  BY <1>2, <1>5 DEF PageImage, new
<1>3. SetPageLsn(y, lsn) = [lsn |-> lsn, rows |-> new, free |-> image.free]
  BY <1>6 DEF SetPageLsn, PageImage
<1>4. SetPageLsn(image, lsn) \in PageImage
  BY DEF SetPageLsn, PageImage
<1> QED BY <1>2, <1>3, <1>4 DEF PageImage, new, y

\* A new page is an image with room.
LEMMA EmptyImage == EmptyPage \in PageImage /\ HasRoom(EmptyPage)
BY HeapAssumption DEF EmptyPage, PageImage, HasRoom

(***************************************************************************)
(* Types.  That a replayed record never leaves a page out, in any state,   *)
(* takes three facts about where pages begin.                              *)
(***************************************************************************)

InsertsAt(j, p) == wal[j].op = "Insert" /\ wal[j].page = p

\* Pages are begun in order, by records; replay has written the pages of the
\* records it has passed.
InOrder == \A k \in 1..Len(wal) : wal[k].op = "Insert" =>
              \A q \in Page : q < wal[k].page => \E j \in 1..(k - 1) : InsertsAt(j, q)
Begun == \A p \in Page : p < pool.count => \E j \in 1..Len(wal) : InsertsAt(j, p)
Reached == phase = "replay" =>
              \A j \in 1..Len(wal) : j < next /\ wal[j].op = "Insert" => wal[j].page < pool.count

TypeInv == TypeOK /\ Len(wal) <= MaxLog /\ PoolOK(pool) /\ InOrder /\ Begun /\ Reached

\* What the steps below need to know of the numbers.
LEMMA Numbers ==
  ASSUME TypeInv
  PROVE  /\ Len(wal) \in Nat /\ MaxLog \in Nat /\ MaxPage \in Nat /\ torn \in 0..MaxLog
         /\ pool.count \in 0..(MaxPage + 1) /\ Readable \in 0..Len(wal)
         /\ AppendLsn \in 0..Len(wal) /\ next \in 1..(MaxLog + 1)
         /\ wal \in Seq(WalRecord) /\ \A j \in 1..Len(wal) : wal[j] \in WalRecord
<1>1. wal \in Seq(WalRecord) /\ torn \in 0..MaxLog /\ next \in 1..(MaxLog + 1) /\ pool \in B!Pool
  BY DEF TypeInv, TypeOK
<1>2. pool.count \in 0..(MaxPage + 1)
  BY <1>1 DEF B!Pool
<1> QED BY <1>1, <1>2, HeapAssumption DEF TypeInv, Readable, AppendLsn

\* Page numbers are numbers.
LEMMA PageNumbers ==
  ASSUME TypeInv
  PROVE  pool.count \in Nat /\ \A p \in Page : p \in Nat /\ (p < pool.count => p <= pool.count)
<1>1. pool.count \in Nat
  BY Numbers
<1>2. \A p \in Page : p \in Nat
  BY HeapAssumption DEF Page
<1> QED BY <1>1, <1>2

\* A read: the pages stay as they are.
LEMMA QuietTypes ==
  ASSUME TypeInv, PoolOK(pool'), Alike(pool, pool'),
         UNCHANGED <<wal, rows>>, torn' \in 0..MaxLog, atStart' \in BOOLEAN,
         phase' = phase, next' = next,
         upsets' \in 0..MaxUpsets, damage' \subseteq {"gap", "lsn", "behind", "unwritten"}
  PROVE  TypeInv'
<1>1. L!Sound(pool')
  BY DEF PoolOK
<1>2. pool' \in B!Pool
  BY <1>1, SamePool DEF L!Sound
<1>3. TypeOK'
  BY <1>2 DEF TypeInv, TypeOK
<1>4. InOrder' /\ Begun' /\ Reached'
  BY DEF TypeInv, Alike, InOrder, Begun, Reached, InsertsAt
<1> QED BY <1>3, <1>4 DEF TypeInv

\* A record is logged, and the page it begins, if any, follows on the others.
LEMMA LoggedTypes ==
  ASSUME TypeInv, phase = "open", NEW r \in WalRecord, Log(r),
         r.op = "Insert" => r.page <= pool.count
  PROVE  /\ wal' \in Seq(WalRecord) /\ Len(wal') = Len(wal) + 1 /\ Len(wal') <= MaxLog
         /\ \A j \in 1..Len(wal) : wal'[j] = wal[j]
         /\ wal'[Len(wal) + 1] = r
         /\ rows' \in [Page -> Seq(Row)]
         /\ InOrder'
         /\ \A p \in Page : p < pool.count => \E j \in 1..Len(wal') : InsertsAt(j, p)'
<1>1. /\ wal \in Seq(WalRecord) /\ wal' = Append(wal, r) /\ Len(wal) \in Nat /\ Len(wal) < MaxLog
      /\ MaxLog \in Nat
  BY HeapAssumption DEF TypeInv, TypeOK, Log
<1>2. /\ wal' \in Seq(WalRecord) /\ Len(wal') = Len(wal) + 1
      /\ \A j \in 1..Len(wal) : wal'[j] = wal[j]
      /\ wal'[Len(wal) + 1] = r
  BY <1>1
<1>3. rows' \in [Page -> Seq(Row)]
  <2>1. rows \in [Page -> Seq(Row)] /\ r.page \in Page /\ r.row \in Row
    BY RecordFields DEF TypeInv, TypeOK
  <2>2. CASE r.op = "Insert"
    BY <2>1, <2>2 DEF Log
  <2>3. CASE r.op # "Insert"
    <3>1. r.slot \in Nat
      BY <2>3, RecordFields, HeapAssumption
    <3>2. [rows[r.page] EXCEPT ![r.slot] = r.row] \in Seq(Row)
      BY <2>1, <3>1, SeqRewritten
    <3> QED BY <2>1, <2>3, <3>2 DEF Log
  <2> QED BY <2>2, <2>3
<1>4. \A j \in 1..Len(wal) : \A p : InsertsAt(j, p)' <=> InsertsAt(j, p)
  BY <1>2 DEF InsertsAt
<1>5. \A p \in Page : p < pool.count => \E j \in 1..Len(wal) : InsertsAt(j, p)'
  BY <1>4 DEF TypeInv, Begun
<1>6. InOrder'
  <2> SUFFICES ASSUME NEW k \in 1..(Len(wal) + 1), wal'[k].op = "Insert",
                      NEW q \in Page, q < wal'[k].page
               PROVE  \E j \in 1..(k - 1) : InsertsAt(j, q)'
    BY <1>2 DEF InOrder
  <2>1. CASE k <= Len(wal)
    <3>1. PICK j \in 1..(k - 1) : InsertsAt(j, q)
      BY <1>1, <1>2, <2>1 DEF TypeInv, InOrder
    <3> QED BY <1>1, <1>4, <2>1, <3>1
  <2>2. CASE k = Len(wal) + 1
    <3>1. q < pool.count
      <4>1. pool.count \in Nat /\ r.page <= pool.count /\ q < r.page /\ q \in Nat /\ r.page \in Nat
        BY <1>2, <2>2, RecordFields, PageNumbers
      <4> QED BY <4>1
    <3> QED BY <1>1, <1>5, <2>2, <3>1
  <2> QED BY <1>1, <2>1, <2>2
<1>7. \A p \in Page : p < pool.count => \E j \in 1..Len(wal') : InsertsAt(j, p)'
  BY <1>1, <1>2, <1>5
<1> QED BY <1>1, <1>2, <1>3, <1>6, <1>7

\* What Insert finds and prepares.
LEMMA InsertPlaces ==
  ASSUME TypeInv, phase = "open", InsertPage <= MaxPage, Len(wal) < MaxLog
  PROVE  /\ InsertPage \in Page /\ InsertPage <= pool.count
         /\ Fits => InsertPage < pool.count
         /\ ~Fits => InsertPage = pool.count
         /\ PoolOK(Prepared) /\ Alike(pool, Prepared) /\ DiskFrom(pool, Prepared)
         /\ InsertRecord \in WalRecord /\ InsertRecord.op = "Insert"
         /\ InsertRecord.page = InsertPage /\ InsertRecord.row = NewRow
         /\ NewRow \in Row /\ NewRow.id = Len(wal) + 1 /\ NewRow.ver = Len(wal) + 1
<1>1. pool.count \in 0..(MaxPage + 1) /\ MaxPage \in Nat /\ Len(wal) \in Nat /\ MaxLog \in Nat
  BY Numbers
<1>2. /\ InsertPage \in Page /\ InsertPage <= pool.count
      /\ Fits => InsertPage < pool.count /\ pool.count > 0
      /\ ~Fits => InsertPage = pool.count
  BY <1>1 DEF InsertPage, Fits, LastPage, Page
<1>3. PoolOK(Prepared) /\ Alike(pool, Prepared) /\ DiskFrom(pool, Prepared)
  <2>1. CASE pool.count > 0
    <3>1. LastPage \in Page /\ LastPage < pool.count
      BY <1>1, <2>1 DEF LastPage, Page
    <3> QED BY <2>1, <3>1, FetchedPool DEF Prepared, TypeInv
  <2>2. CASE ~(pool.count > 0)
    BY <2>2 DEF Prepared, TypeInv, Alike, DiskFrom
  <2> QED BY <2>1, <2>2
<1>4. NewRow \in Row /\ NewRow.id = Len(wal) + 1 /\ NewRow.ver = Len(wal) + 1
  BY <1>1 DEF NewRow, Row
<1>5. /\ InsertRecord \in WalRecord /\ InsertRecord.op = "Insert"
      /\ InsertRecord.page = InsertPage /\ InsertRecord.row = NewRow
  BY <1>2, <1>4 DEF InsertRecord, WalRecord
<1> QED BY <1>2, <1>3, <1>4, <1>5

\* The page that Insert writes.
LEMMA InsertedPage ==
  ASSUME TypeInv, phase = "open", InsertPage <= MaxPage, Len(wal) < MaxLog
  PROVE  LET old == IF Fits THEN B!View(pool, InsertPage) ELSE EmptyPage
             x == SetPageLsn(InsertImage, AppendLsn)
         IN  /\ old \in PageImage /\ old.free > 0
             /\ x \in PageImage /\ x.lsn = AppendLsn
             /\ x.rows = Append(old.rows, NewRow) /\ x.free = old.free - 1
<1> DEFINE old == IF Fits THEN B!View(pool, InsertPage) ELSE EmptyPage
<1>1. AppendLsn \in 0..MaxLog
  BY Numbers DEF TypeInv
<1>2. NewRow \in Row
  BY InsertPlaces
<1>3. old \in PageImage /\ HasRoom(old)
  <2>1. CASE Fits
    <3>1. InsertPage \in Page /\ InsertPage < pool.count /\ InsertPage = LastPage
      BY <2>1, InsertPlaces DEF InsertPage
    <3>2. B!View(pool, InsertPage) \in PageImage
      BY <3>1, PagesRead DEF TypeInv
    <3> QED BY <2>1, <3>1, <3>2 DEF Fits
  <2>2. CASE ~Fits
    BY <2>2, EmptyImage
  <2> QED BY <2>1, <2>2
<1>4. InsertImage = InsertRow(old, NewRow)
  BY DEF InsertImage, InsertPage
<1> HIDE DEF old
<1>5. /\ SetPageLsn(InsertImage, AppendLsn) \in PageImage
      /\ SetPageLsn(InsertImage, AppendLsn).lsn = AppendLsn
      /\ SetPageLsn(InsertImage, AppendLsn).rows = Append(old.rows, NewRow)
      /\ SetPageLsn(InsertImage, AppendLsn).free = old.free - 1
  BY <1>1, <1>2, <1>3, <1>4, InsertedImage
<1> QED BY <1>3, <1>5 DEF old, HasRoom

\* The record and the page of a rewriting.
LEMMA UpdatePlaces ==
  ASSUME TypeInv, NEW p \in Page, NEW slot \in 1..RowsPerPage, Updatable(p, slot),
         Len(wal) < MaxLog
  PROVE  LET r == UpdateRecord(p, slot)
             image == B!View(pool, p)
             x == SetPageLsn(UpdateRow(image, slot, r.row), AppendLsn)
         IN  /\ p < pool.count /\ image \in PageImage /\ slot \in 1..Len(image.rows)
             /\ r \in WalRecord /\ r.op = "UpdateRow" /\ r.page = p /\ r.slot = slot
             /\ r.row \in Row /\ r.row.id = image.rows[slot].id /\ r.row.ver = Len(wal) + 1
             /\ x \in PageImage /\ x.lsn = AppendLsn
             /\ x.rows = [image.rows EXCEPT ![slot] = r.row] /\ x.free = image.free
<1> DEFINE image == B!View(pool, p)
<1>1. p < pool.count /\ slot <= Len(image.rows)
  BY DEF Updatable, HasSlot
<1>2. image \in PageImage
  BY <1>1, PagesRead DEF TypeInv
<1> HIDE DEF image
<1>3. image.rows \in Seq(Row) /\ RowsPerPage \in Nat /\ Len(wal) \in Nat /\ MaxLog \in Nat
  BY <1>2, HeapAssumption, Numbers DEF PageImage
<1>4. slot \in 1..Len(image.rows)
  BY <1>1, <1>3
<1>5. image.rows[slot] \in Row
  BY <1>3, <1>4
<1> DEFINE row == [image.rows[slot] EXCEPT !.ver = Len(wal) + 1]
<1>6. row \in Row /\ row.id = image.rows[slot].id /\ row.ver = Len(wal) + 1
  <2>1. PICK old \in Row : old = image.rows[slot]
    BY <1>5
  <2>2. Len(wal) + 1 \in 1..MaxLog
    BY <1>3
  <2>3. row = [old EXCEPT !.ver = Len(wal) + 1]
    BY <2>1
  <2> HIDE DEF row
  <2>4. row \in Row /\ row.id = old.id /\ row.ver = Len(wal) + 1
    BY <2>2, <2>3 DEF Row
  <2> QED BY <2>1, <2>4
<1> HIDE DEF row
<1>7. UpdateRecord(p, slot) = [op |-> "UpdateRow", page |-> p, slot |-> slot, row |-> row]
  BY DEF UpdateRecord, image, row
<1>8. UpdateRecord(p, slot) \in WalRecord
  BY <1>6, <1>7 DEF WalRecord
<1>9. AppendLsn \in 0..MaxLog
  BY Numbers DEF TypeInv
<1>10. /\ SetPageLsn(UpdateRow(image, slot, row), AppendLsn) \in PageImage
       /\ SetPageLsn(UpdateRow(image, slot, row), AppendLsn).lsn = AppendLsn
       /\ SetPageLsn(UpdateRow(image, slot, row), AppendLsn).rows = [image.rows EXCEPT ![slot] = row]
       /\ SetPageLsn(UpdateRow(image, slot, row), AppendLsn).free = image.free
  BY <1>2, <1>6, <1>9, UpdatedImage
<1> QED BY <1>1, <1>2, <1>4, <1>6, <1>7, <1>8, <1>10 DEF image

\* A page is read and then written.
LEMMA WriteAfterRead ==
  ASSUME NEW b, NEW c, PoolOK(b), PoolOK(c), Alike(b, c), DiskFrom(b, c),
         NEW p \in Page, p <= b.count, NEW img \in PageImage
  PROVE  LET d == B!Written(c, p, img) IN
         /\ PoolOK(d) /\ d \in B!Pool /\ DiskFrom(b, d)
         /\ d.count = IF b.count > p THEN b.count ELSE p + 1
         /\ B!View(d, p) = img
         /\ \A q \in Page \ {p} : B!View(d, q) = B!View(b, q)
<1> DEFINE d == B!Written(c, p, img)
<1>1. c.count = b.count
  BY DEF Alike
<1>2. /\ PoolOK(d) /\ DiskFrom(c, d)
      /\ d.count = IF b.count > p THEN b.count ELSE p + 1
      /\ B!View(d, p) = img
      /\ \A q \in Page \ {p} : B!View(d, q) = B!View(c, q)
  BY <1>1, WrittenPool
<1> HIDE DEF d
<1>3. DiskFrom(b, d)
  BY <1>2, DiskFromAlike
<1>4. d \in B!Pool
  BY <1>2, SamePool DEF PoolOK, L!Sound
<1> QED BY <1>2, <1>3, <1>4 DEF Alike, d

\* What replay finds.
LEMMA ReplayPlaces ==
  ASSUME TypeInv, phase = "replay", next <= Readable
  PROVE  /\ next \in 1..Len(wal) /\ wal[next] \in WalRecord /\ ReadLsn(next) \in 0..MaxLog
         /\ ReadLsn(next) = next - 1
         /\ wal[next].op = "Insert" => wal[next].page <= pool.count
         /\ LET b == Looked(wal[next].page) IN PoolOK(b) /\ Alike(pool, b) /\ DiskFrom(pool, b)
<1> DEFINE r == wal[next]
<1>1. /\ next \in 1..Len(wal) /\ r \in WalRecord /\ next - 1 \in 0..MaxLog
      /\ pool.count \in Nat /\ pool.count <= MaxPage + 1 /\ MaxPage \in Nat
  BY Numbers DEF TypeInv
<1>2. r.page \in Page
  BY <1>1, RecordFields
<1>3. ASSUME r.op = "Insert", ~(r.page <= pool.count) PROVE FALSE
  <2>1. pool.count \in Page /\ pool.count < r.page
    BY <1>1, <1>2, <1>3 DEF Page
  <2>2. PICK j \in 1..(next - 1) : InsertsAt(j, pool.count)
    BY <1>1, <1>3, <2>1 DEF TypeInv, InOrder
  <2>3. j \in 1..Len(wal) /\ j < next
    BY <1>1, <2>2
  <2>4. wal[j].page < pool.count /\ wal[j].page = pool.count
    BY <2>2, <2>3 DEF TypeInv, Reached, InsertsAt
  <2> QED BY <1>1, <2>4
<1>4. PoolOK(Looked(r.page)) /\ Alike(pool, Looked(r.page)) /\ DiskFrom(pool, Looked(r.page))
  <2>1. CASE r.page < pool.count
    BY <1>2, <2>1, FetchedPool DEF Looked, TypeInv
  <2>2. CASE ~(r.page < pool.count)
    BY <2>2 DEF Looked, TypeInv, Alike, DiskFrom
  <2> QED BY <2>1, <2>2
<1> QED BY <1>1, <1>3, <1>4 DEF ReadLsn

\* Insert and Update: a record and the page it changes.
LEMMA WriteTypes ==
  ASSUME TypeInv, phase = "open", NEW r \in WalRecord, Log(r), r.page <= pool.count,
         PoolOK(pool'), pool' \in B!Pool,
         pool'.count = IF pool.count > r.page THEN pool.count ELSE r.page + 1,
         r.op = "Insert" \/ r.page < pool.count,
         atStart' \in BOOLEAN, damage' \subseteq {"gap", "lsn", "behind", "unwritten"},
         UNCHANGED <<torn, phase, next, upsets>>
  PROVE  TypeInv'
<1>1. /\ wal' \in Seq(WalRecord) /\ Len(wal') = Len(wal) + 1 /\ Len(wal') <= MaxLog
      /\ wal'[Len(wal) + 1] = r
      /\ rows' \in [Page -> Seq(Row)]
      /\ InOrder'
      /\ \A p \in Page : p < pool.count => \E j \in 1..Len(wal') : InsertsAt(j, p)'
  BY LoggedTypes
<1>2. TypeOK'
  BY <1>1 DEF TypeInv, TypeOK
<1>3. /\ r.page \in Nat /\ pool.count \in Nat /\ Len(wal) \in Nat
      /\ \A p \in Page : p \in Nat
  BY Numbers, RecordFields, PageNumbers
<1>4. Begun'
  <2> SUFFICES ASSUME NEW p \in Page, p < pool'.count
               PROVE  \E j \in 1..Len(wal') : InsertsAt(j, p)'
    BY DEF Begun
  <2>1. CASE p < pool.count
    BY <1>1, <2>1
  <2>2. CASE ~(p < pool.count)
    <3>1. r.op = "Insert" /\ p = r.page
      BY <1>3, <2>2
    <3>2. PICK k \in Nat : k = Len(wal) + 1
      BY <1>3
    <3>3. InsertsAt(k, p)'
      BY <1>1, <3>1, <3>2 DEF InsertsAt
    <3> QED BY <1>1, <1>3, <3>2, <3>3
  <2> QED BY <2>1, <2>2
<1>5. Reached'
  BY DEF Reached
<1> QED BY <1>1, <1>2, <1>4, <1>5 DEF TypeInv

\* Table::insert.
LEMMA InsertTypes == ASSUME TypeInv, Insert PROVE TypeInv'
<1> DEFINE x == SetPageLsn(InsertImage, AppendLsn)
<1>1. phase = "open" /\ InsertPage <= MaxPage /\ Len(wal) < MaxLog /\ Log(InsertRecord)
  BY DEF Insert, Log
<1>2. x \in PageImage
  BY <1>1, InsertedPage
<1>3. /\ InsertPage \in Page /\ InsertPage <= pool.count
      /\ PoolOK(Prepared) /\ Alike(pool, Prepared) /\ DiskFrom(pool, Prepared)
      /\ InsertRecord \in WalRecord /\ InsertRecord.op = "Insert" /\ InsertRecord.page = InsertPage
  BY <1>1, InsertPlaces
<1> HIDE DEF x
<1>4. pool' = B!Written(Prepared, InsertPage, x)
  BY DEF Insert, x
<1>5. /\ PoolOK(pool') /\ pool' \in B!Pool
      /\ pool'.count = IF pool.count > InsertPage THEN pool.count ELSE InsertPage + 1
  BY <1>2, <1>3, <1>4, WriteAfterRead DEF TypeInv
<1>6. atStart' \in BOOLEAN /\ damage' \subseteq {"gap", "lsn", "behind", "unwritten"}
  BY DEF Insert, Appended, Behind, TypeInv, TypeOK
<1> QED BY <1>1, <1>3, <1>5, <1>6, WriteTypes DEF Insert

\* delete_at and freeze.
LEMMA UpdateTypes ==
  ASSUME TypeInv, NEW p \in Page, NEW slot \in 1..RowsPerPage, Update(p, slot)
  PROVE  TypeInv'
<1> DEFINE r == UpdateRecord(p, slot)
           x == SetPageLsn(UpdateRow(B!View(pool, p), slot, r.row), AppendLsn)
<1>1. phase = "open" /\ Updatable(p, slot) /\ Len(wal) < MaxLog /\ Log(r)
  BY DEF Update, Log
<1>2. p < pool.count /\ r \in WalRecord /\ r.page = p /\ x \in PageImage
  BY <1>1, UpdatePlaces
<1>3. p <= pool.count /\ PoolOK(pool)
  BY <1>2, PageNumbers DEF TypeInv
<1>4. /\ PoolOK(B!Fetched(pool, p)) /\ Alike(pool, B!Fetched(pool, p))
      /\ DiskFrom(pool, B!Fetched(pool, p))
  BY <1>2, <1>3, FetchedPool
<1>5. pool' = B!Written(B!Fetched(pool, p), p, x)
  BY DEF Update
<1> HIDE DEF r, x
<1>6. /\ PoolOK(pool') /\ pool' \in B!Pool
      /\ pool'.count = IF pool.count > p THEN pool.count ELSE p + 1
  BY <1>2, <1>3, <1>4, <1>5, WriteAfterRead
<1>7. atStart' \in BOOLEAN /\ damage' \subseteq {"gap", "lsn", "behind", "unwritten"}
  BY DEF Update, Appended, Behind, TypeInv, TypeOK
<1> QED BY <1>1, <1>2, <1>3, <1>6, <1>7, WriteTypes DEF Update

\* The operations that only read, and those that fail before the page is written.
LEMMA ReadTypes ==
  ASSUME TypeInv, NEW p \in Page, Read(p) \/ FetchFails(p)
  PROVE  TypeInv'
<1>1. upsets' \in 0..MaxUpsets
  BY HeapAssumption DEF Read, FetchFails, MayFail, TypeInv, TypeOK
<1>2. PoolOK(pool') /\ Alike(pool, pool')
  <2>1. CASE Read(p)
    BY <2>1, FetchedPool DEF Read, TypeInv
  <2>2. CASE FetchFails(p)
    BY <2>2, PoppedPool DEF FetchFails, NoRoom, B!MustEvict, TypeInv
  <2> QED BY <2>1, <2>2
<1> QED BY <1>1, <1>2, QuietTypes DEF Read, FetchFails, TypeInv, TypeOK

\* Before a row is rewritten its page may have been fetched.
LEMMA BeforeUpdatePool ==
  ASSUME TypeInv, NEW p \in Page, NEW slot \in 1..RowsPerPage, Updatable(p, slot),
         NEW b \in BeforeUpdate(p)
  PROVE  PoolOK(b) /\ Alike(pool, b) /\ DiskFrom(pool, b)
<1>1. p < pool.count /\ PoolOK(pool)
  BY DEF Updatable, TypeInv
<1>2. CASE b = B!Fetched(pool, p)
  BY <1>1, <1>2, FetchedPool
<1>3. CASE b = pool
  BY <1>1, <1>3 DEF Alike, DiskFrom
<1> QED BY <1>2, <1>3 DEF BeforeUpdate

\* A record that could not be appended leaves the log torn.
LEMMA AppendFailsTypes == ASSUME TypeInv, AppendFails PROVE TypeInv'
<1>1. upsets' \in 0..MaxUpsets /\ phase = "open" /\ Len(wal) < MaxLog
  BY HeapAssumption DEF AppendFails, MayFail, TypeInv, TypeOK
<1>2. torn' \in 0..MaxLog
  BY Numbers DEF AppendFails, TypeInv
<1>3. PoolOK(pool') /\ Alike(pool, pool')
  <2>1. CASE InsertPage <= MaxPage /\ pool' = Prepared
    BY <1>1, <2>1, InsertPlaces
  <2>2. CASE \E p \in Page, slot \in 1..RowsPerPage :
                Updatable(p, slot) /\ pool' \in BeforeUpdate(p)
    BY <2>2, BeforeUpdatePool
  <2> QED BY <2>1, <2>2 DEF AppendFails
<1> QED BY <1>1, <1>2, <1>3, QuietTypes DEF AppendFails, TypeInv, TypeOK

\* A record is logged, and no page changes.
LEMMA UnwrittenTypes ==
  ASSUME TypeInv, phase = "open", NEW r \in WalRecord, Log(r), Appended({"unwritten"}),
         r.op = "Insert" => r.page <= pool.count,
         PoolOK(pool'), pool'.count = pool.count,
         upsets' \in 0..MaxUpsets, UNCHANGED <<torn, phase, next>>
  PROVE  TypeInv'
<1>1. /\ wal' \in Seq(WalRecord) /\ Len(wal') <= MaxLog
      /\ rows' \in [Page -> Seq(Row)]
      /\ InOrder'
      /\ \A p \in Page : p < pool.count => \E j \in 1..Len(wal') : InsertsAt(j, p)'
  BY LoggedTypes
<1>2. pool' \in B!Pool
  BY SamePool DEF PoolOK, L!Sound
<1>3. TypeOK'
  BY <1>1, <1>2 DEF Appended, Behind, TypeInv, TypeOK
<1>4. Begun' /\ Reached'
  BY <1>1 DEF Begun, Reached
<1> QED BY <1>1, <1>3, <1>4 DEF TypeInv

\* write_page fails behind the record of a new page.
LEMMA WriteFailsTypes == ASSUME TypeInv, WriteFails PROVE TypeInv'
<1>1. /\ phase = "open" /\ InsertPage <= MaxPage /\ Len(wal) < MaxLog /\ Log(InsertRecord)
      /\ upsets' \in 0..MaxUpsets
  BY HeapAssumption DEF WriteFails, MayFail, Log, TypeInv, TypeOK
<1>2. /\ InsertPage <= pool.count /\ PoolOK(Prepared) /\ Alike(pool, Prepared)
      /\ InsertRecord \in WalRecord /\ InsertRecord.op = "Insert" /\ InsertRecord.page = InsertPage
  BY <1>1, InsertPlaces
<1>3. PoolOK(pool') /\ pool'.count = pool.count
  BY <1>2, PoppedPool DEF WriteFails, NoRoom, B!MustEvict, Alike
<1> QED BY <1>1, <1>2, <1>3, UnwrittenTypes DEF WriteFails

\* freeze's fetch_page fails behind the record of the change.
LEMMA FreezeFailsTypes ==
  ASSUME TypeInv, NEW p \in Page, NEW slot \in 1..RowsPerPage, FreezeFails(p, slot)
  PROVE  TypeInv'
<1>1. /\ phase = "open" /\ Len(wal) < MaxLog /\ Log(UpdateRecord(p, slot))
      /\ Updatable(p, slot) /\ upsets' \in 0..MaxUpsets
  BY HeapAssumption DEF FreezeFails, MayFail, Log, TypeInv, TypeOK
<1>2. UpdateRecord(p, slot) \in WalRecord /\ UpdateRecord(p, slot).op = "UpdateRow"
  BY <1>1, UpdatePlaces
<1>3. PoolOK(pool') /\ pool'.count = pool.count
  BY PoppedPool DEF FreezeFails, NoRoom, B!MustEvict, Alike, TypeInv
<1> QED BY <1>1, <1>2, <1>3, UnwrittenTypes DEF FreezeFails

\* append fails behind a record that is complete.
LEMMA SyncFailsTypes == ASSUME TypeInv, SyncFails PROVE TypeInv'
<1>1. /\ phase = "open" /\ upsets' \in 0..MaxUpsets /\ Appended({"unwritten"})
      /\ UNCHANGED <<torn, phase, next>>
  BY HeapAssumption DEF SyncFails, MayFail, TypeInv, TypeOK
<1>2. CASE InsertPage <= MaxPage /\ Log(InsertRecord) /\ pool' = Prepared
  <2>1. Len(wal) < MaxLog
    BY <1>2 DEF Log
  <2>2. /\ InsertPage <= pool.count /\ PoolOK(Prepared) /\ Alike(pool, Prepared)
        /\ InsertRecord \in WalRecord /\ InsertRecord.op = "Insert" /\ InsertRecord.page = InsertPage
    BY <1>1, <1>2, <2>1, InsertPlaces
  <2> QED BY <1>1, <1>2, <2>2, UnwrittenTypes DEF Alike
<1>3. ASSUME NEW p \in Page, NEW slot \in 1..RowsPerPage, Updatable(p, slot),
             Log(UpdateRecord(p, slot)), pool' \in BeforeUpdate(p)
      PROVE  TypeInv'
  <2>1. Len(wal) < MaxLog
    BY <1>3 DEF Log
  <2>2. UpdateRecord(p, slot) \in WalRecord /\ UpdateRecord(p, slot).op = "UpdateRow"
    BY <1>3, <2>1, UpdatePlaces
  <2>3. PoolOK(pool') /\ pool'.count = pool.count
    BY <1>3, BeforeUpdatePool DEF Alike
  <2> QED BY <1>1, <1>3, <2>2, <2>3, UnwrittenTypes
<1> QED BY <1>2, <1>3 DEF SyncFails

\* A record is replayed: its page is there then, and with it the count of pages.
LEMMA ReplayedTypes ==
  ASSUME TypeInv, phase = "replay", next <= Readable, NEW r, r = wal[next],
         PoolOK(pool'), pool' \in B!Pool,
         \/ r.page < pool.count /\ pool'.count = pool.count
         \/ r.op = "Insert" /\ pool'.count = IF pool.count > r.page THEN pool.count ELSE r.page + 1,
         next' = next + 1, UNCHANGED <<phase, wal, torn, atStart, upsets, rows, damage>>
  PROVE  TypeInv'
<1>1. /\ next \in 1..Len(wal) /\ r \in WalRecord /\ Len(wal) <= MaxLog
      /\ r.op = "Insert" => r.page <= pool.count
      /\ Len(wal) \in Nat /\ MaxLog \in Nat /\ pool.count \in Nat
  BY ReplayPlaces, Numbers, HeapAssumption DEF TypeInv
<1>2. r.page \in Nat /\ \A p \in Page : p \in Nat
  BY <1>1, RecordFields, HeapAssumption DEF Page
<1>3. TypeOK'
  BY <1>1 DEF TypeInv, TypeOK
<1>4. Begun'
  <2> SUFFICES ASSUME NEW p \in Page, p < pool'.count PROVE \E j \in 1..Len(wal) : InsertsAt(j, p)
    BY DEF Begun, InsertsAt
  <2>1. CASE p < pool.count
    BY <2>1 DEF TypeInv, Begun
  <2>2. CASE ~(p < pool.count)
    <3>1. InsertsAt(next, p)
      BY <1>1, <1>2, <2>2 DEF InsertsAt
    <3> QED BY <1>1, <3>1
  <2> QED BY <2>1, <2>2
<1>5. Reached'
  <2> SUFFICES ASSUME NEW j \in 1..Len(wal), j < next + 1, wal[j].op = "Insert"
               PROVE  wal[j].page < pool'.count
    BY DEF Reached
  <2>1. wal[j].page \in Nat
    BY Numbers, RecordFields, PageNumbers
  <2>2. CASE j < next
    <3>1. wal[j].page < pool.count
      BY <2>2 DEF TypeInv, Reached
    <3> QED BY <1>1, <1>2, <2>1, <3>1
  <2>3. CASE j = next
    BY <1>1, <1>2, <2>3
  <2> QED BY <1>1, <2>2, <2>3
<1>6. InOrder'
  BY DEF TypeInv, InOrder, InsertsAt
<1> QED BY <1>1, <1>3, <1>4, <1>5, <1>6 DEF TypeInv

\* Table::open, one record.
LEMMA ReplayTypes == ASSUME TypeInv, Replay PROVE TypeInv'
<1> DEFINE r == wal[next]
<1>1. phase = "replay" /\ UNCHANGED <<wal, torn, atStart, upsets, rows, damage>>
  BY DEF Replay
<1>2. CASE next > Readable
  <2>1. phase' = "open" /\ UNCHANGED <<pool, next>>
    BY <1>2 DEF Replay
  <2> QED BY <1>1, <2>1 DEF TypeInv, TypeOK, InOrder, Begun, Reached, InsertsAt
<1>3. CASE next <= Readable
  <2>0. Skip(r) \/ ApplyInsert(r) \/ ApplyUpdate(r)
    <3>1. next \in Nat /\ Readable \in Nat
      BY Numbers
    <3> QED BY <1>3, <3>1 DEF Replay
  <2>1. /\ r \in WalRecord /\ r.page \in Page /\ r.row \in Row /\ ReadLsn(next) \in 0..MaxLog
        /\ r.op = "Insert" => r.page <= pool.count
        /\ r.op = "UpdateRow" => r.slot \in 1..RowsPerPage
        /\ PoolOK(Looked(r.page)) /\ Alike(pool, Looked(r.page)) /\ DiskFrom(pool, Looked(r.page))
    BY <1>1, <1>3, ReplayPlaces, RecordFields
  <2>a. CASE phase' = "failed" /\ UNCHANGED <<pool, next>>
    BY <1>1, <2>a DEF TypeInv, TypeOK, InOrder, Begun, Reached, InsertsAt
  <2>2. CASE Skip(r)
    <3>1. r.page < pool.count /\ pool' = B!Fetched(pool, r.page) /\ next' = next + 1 /\ UNCHANGED phase
      BY <2>2 DEF Skip, AlreadyDurable
    <3>2. PoolOK(pool') /\ Alike(pool, pool')
      BY <2>1, <3>1, FetchedPool DEF TypeInv
    <3>3. pool' \in B!Pool /\ pool'.count = pool.count
      BY <3>2, SamePool DEF PoolOK, L!Sound, Alike
    <3> QED BY <1>1, <1>3, <3>1, <3>2, <3>3, ReplayedTypes
  <2>3. CASE ApplyInsert(r) /\ ~(phase' = "failed" /\ UNCHANGED <<pool, next>>)
    <3> DEFINE image == IF r.page < pool.count THEN B!View(pool, r.page) ELSE EmptyPage
               x == SetPageLsn(InsertRow(image, r.row), ReadLsn(next))
    <3>1. /\ r.op = "Insert" /\ HasRoom(image)
          /\ pool' = B!Written(Looked(r.page), r.page, x)
          /\ next' = next + 1 /\ UNCHANGED phase
      BY <2>3 DEF ApplyInsert
    <3>2. image \in PageImage
      BY <2>1, EmptyImage, PagesRead DEF TypeInv
    <3> HIDE DEF image
    <3>3. x \in PageImage
      BY <2>1, <3>1, <3>2, InsertedImage
    <3> HIDE DEF x
    <3>4. /\ PoolOK(pool') /\ pool' \in B!Pool
          /\ pool'.count = IF pool.count > r.page THEN pool.count ELSE r.page + 1
      BY <2>1, <3>1, <3>3, WriteAfterRead DEF TypeInv
    <3> QED BY <1>1, <1>3, <3>1, <3>4, ReplayedTypes
  <2>4. CASE ApplyUpdate(r) /\ ~(phase' = "failed" /\ UNCHANGED <<pool, next>>)
    <3> DEFINE image == B!View(pool, r.page)
               changed == IF HasSlot(image, r.slot) THEN UpdateRow(image, r.slot, r.row) ELSE image
               x == SetPageLsn(changed, ReadLsn(next))
    <3>1. /\ r.op = "UpdateRow" /\ r.page < pool.count
          /\ pool' = B!Written(Looked(r.page), r.page, x)
          /\ next' = next + 1 /\ UNCHANGED phase
      BY <2>4 DEF ApplyUpdate
    <3>2. image \in PageImage
      BY <2>1, <3>1, PagesRead DEF TypeInv
    <3> HIDE DEF image
    <3>3. x \in PageImage
      <4>1. SetPageLsn(UpdateRow(image, r.slot, r.row), ReadLsn(next)) \in PageImage
        BY <2>1, <3>1, <3>2, UpdatedImage
      <4>2. SetPageLsn(image, ReadLsn(next)) \in PageImage
        BY <2>1, <3>1, <3>2, UpdatedImage
      <4> QED BY <4>1, <4>2
    <3> HIDE DEF x
    <3>4. r.page <= pool.count /\ ~(r.page >= pool.count) /\ pool.count > r.page
      <4>1. r.page \in Nat /\ pool.count \in Nat
        BY <2>1, PageNumbers
      <4> QED BY <3>1, <4>1
    <3>5. /\ PoolOK(pool') /\ pool' \in B!Pool /\ pool'.count = pool.count
      BY <2>1, <3>1, <3>3, <3>4, WriteAfterRead DEF TypeInv
    <3> QED BY <1>1, <1>3, <3>1, <3>5, ReplayedTypes
  <2> QED BY <2>0, <2>a, <2>2, <2>3, <2>4
<1>4. next > Readable \/ next <= Readable
  BY Numbers
<1> QED BY <1>2, <1>3, <1>4

\* What the crash finds on disk, and what is read after it.
LEMMA CrashedPool ==
  ASSUME TypeInv, pool' = B!Opened(pool.disk)
  PROVE  /\ PoolOK(pool') /\ pool' \in B!Pool /\ pool'.disk = pool.disk
         /\ \A p \in Page : /\ B!View(pool', p) = pool.disk[p]
                            /\ p < pool'.count <=> pool.disk[p] # Beyond
                            /\ p < pool'.count => p < pool.count
<1>1. pool.disk \in [Page -> PageImage \cup {Beyond}] /\ L!GapFree(pool.disk)
  BY SamePool DEF TypeInv, TypeOK, PoolOK, B!Pool
<1>2. /\ PoolOK(pool') /\ pool'.disk = pool.disk
      /\ \A p \in Page : B!View(pool', p) = pool.disk[p] /\ (p < pool'.count <=> pool.disk[p] # Beyond)
  BY <1>1, OpenedPool
<1>3. \A p \in Page : pool.disk[p] # Beyond => p < pool.count
  BY PagesRead DEF TypeInv
<1> QED BY <1>2, <1>3, SamePool DEF PoolOK, L!Sound

\* A crash falls back on the file; the pages that records have begun stay begun.
LEMMA CrashTypes == ASSUME TypeInv, Crash PROVE TypeInv'
<1>1. /\ upsets' \in 0..MaxUpsets /\ atStart' = TRUE /\ phase' = "replay" /\ next' = 1
      /\ pool' = B!Opened(pool.disk)
      /\ damage' \subseteq {"gap", "lsn", "behind", "unwritten"}
  BY HeapAssumption DEF Crash, Behind, TypeInv, TypeOK
<1>2. /\ PoolOK(pool') /\ pool' \in B!Pool
      /\ \A p \in Page : p < pool'.count => p < pool.count
  BY <1>1, CrashedPool
<1>3. /\ torn' \in 0..MaxLog
      /\ wal' \in Seq(WalRecord) /\ Len(wal') <= MaxLog
      /\ rows' \in [Page -> Seq(Row)]
      /\ InOrder'
      /\ \A p \in Page : p < pool.count => \E j \in 1..Len(wal') : InsertsAt(j, p)'
  <2>1. torn' \in 0..MaxLog
    BY Numbers DEF Crash, TypeInv
  <2>2. CASE UNCHANGED <<wal, rows>>
    BY <2>1, <2>2 DEF TypeInv, TypeOK, InOrder, Begun, InsertsAt
  <2>3. CASE phase = "open" /\ InsertPage <= MaxPage /\ Log(InsertRecord)
    <3>1. Len(wal) < MaxLog
      BY <2>3 DEF Log
    <3>2. InsertRecord \in WalRecord /\ InsertRecord.page <= pool.count
      BY <2>3, <3>1, InsertPlaces
    <3> QED BY <2>1, <2>3, <3>2, LoggedTypes
  <2>4. CASE phase = "open" /\ \E p \in Page, slot \in 1..RowsPerPage :
                                  Updatable(p, slot) /\ Log(UpdateRecord(p, slot))
    <3>1. PICK p \in Page, slot \in 1..RowsPerPage : Updatable(p, slot) /\ Log(UpdateRecord(p, slot))
      BY <2>4
    <3>2. Len(wal) < MaxLog
      BY <3>1 DEF Log
    <3>3. PICK r : r = UpdateRecord(p, slot)
      OBVIOUS
    <3>4. r \in WalRecord /\ r.op = "UpdateRow" /\ Log(r)
      BY <3>1, <3>2, <3>3, UpdatePlaces
    <3> QED BY <2>1, <2>4, <3>4, LoggedTypes
  <2> QED BY <2>2, <2>3, <2>4 DEF Crash
<1>4. TypeOK'
  BY <1>1, <1>2, <1>3, HeapAssumption DEF TypeOK
<1>5. Begun'
  BY <1>2, <1>3 DEF Begun
<1>6. Reached'
  BY <1>1, <1>3 DEF Reached
<1> QED BY <1>2, <1>3, <1>4, <1>5, <1>6 DEF TypeInv

\* A new table.
LEMMA InitTypes == Init => TypeInv
<1> SUFFICES ASSUME Init PROVE TypeInv
  OBVIOUS
<1> DEFINE d == [p \in Page |-> Beyond]
<1>1. d \in [Page -> PageImage \cup {Beyond}] /\ L!GapFree(d)
  BY SamePool DEF L!GapFree
<1>2. /\ PoolOK(pool) /\ pool \in B!Pool
      /\ \A p \in Page : ~(p < pool.count)
  BY <1>1, OpenedPool, SamePool DEF Init, PoolOK, L!Sound
<1>3. TypeOK
  BY <1>2, HeapAssumption DEF Init, TypeOK
<1> QED BY <1>2, <1>3, HeapAssumption DEF Init, TypeInv, InOrder, Begun, Reached

\* Every step keeps the types.
LEMMA TypeStep == TypeInv /\ [Next]_vars => TypeInv'
<1> SUFFICES ASSUME TypeInv, [Next]_vars PROVE TypeInv'
  OBVIOUS
<1>1. CASE UNCHANGED vars
  <2>1. TypeOK' /\ Len(wal') <= MaxLog /\ PoolOK(pool')
    BY <1>1 DEF vars, TypeInv, TypeOK
  <2>2. InOrder' /\ Begun' /\ Reached'
    BY <1>1 DEF vars, TypeInv, InOrder, Begun, Reached, InsertsAt
  <2> QED BY <2>1, <2>2 DEF TypeInv
<1> QED BY <1>1, InsertTypes, UpdateTypes, ReadTypes, AppendFailsTypes, SyncFailsTypes,
           FreezeFailsTypes, WriteFailsTypes, ReplayTypes, CrashTypes DEF Next, Stop

\* For any number of pages, rows in a page, frames, records and upsets: the
\* log, the pool and the phase of the table have their types, whatever has
\* gone wrong before.
THEOREM TypeCorrect == Spec => []TypeOK
<1>1. TypeInv => TypeOK
  BY DEF TypeInv
<1> QED BY <1>1, InitTypes, TypeStep, PTL DEF Spec

(***************************************************************************)
(* Contents.  As long as none of the mishaps has happened there is a       *)
(* history H of the table: H[k] is what the first k records make of the    *)
(* pages.  A page stamped lsn holds what H says after the record at lsn,   *)
(* and nothing has happened to it since, as far as replay has come.        *)
(***************************************************************************)

Elems(s) == {s[i] : i \in 1..Len(s)}
Later(i, j) == IF i > j THEN i ELSE j

\* What a record makes of the pages, and what it takes for granted of them.
Changed(c, r) == IF r.op = "Insert" THEN [c EXCEPT ![r.page] = Append(@, r.row)]
                                    ELSE [c EXCEPT ![r.page] = [@ EXCEPT ![r.slot] = r.row]]
Applies(c, r) ==
    /\ r.op = "Insert" => /\ Len(c[r.page]) < RowsPerPage
                          /\ \A q \in Page : q < r.page => c[q] # <<>>
    /\ r.op # "Insert" => r.slot \in 1..Len(c[r.page])

History(H) ==
    /\ H \in [0..Len(wal) -> [Page -> Seq(Row)]]
    /\ H[0] = [p \in Page |-> <<>>] /\ H[Len(wal)] = rows
    /\ \A k \in 1..Len(wal) : Applies(H[k - 1], wal[k]) /\ H[k] = Changed(H[k - 1], wal[k])
    /\ \A k \in 0..Len(wal) : \A p \in Page : Elems(H[k][p]) = LastVersions(p, k)

\* Each id names one place, and is that of a record that came before.
IdsOnce ==
    \A p, q \in Page : \A i \in 1..Len(rows[p]) : \A j \in 1..Len(rows[q]) :
        rows[p][i].id = rows[q][j].id => p = q /\ i = j
IdsPast == /\ \A p \in Page : \A i \in 1..Len(rows[p]) : rows[p][i].id <= Len(wal)
           /\ \A j \in 1..Len(wal) : wal[j].row.id <= j

\* How many records the pages have caught up with.
Done == IF phase = "open" THEN Len(wal) ELSE next - 1

\* The image of a page is as its LSN says, by a history of n records.
Good(H, n, image, p) ==
    /\ image \in PageImage /\ image.lsn < n
    /\ image.rows = H[image.lsn + 1][p] /\ image.rows # <<>>
    /\ image.free = RowsPerPage - Len(image.rows)

\* So are the pages on disk and those the pool b shows, and these have missed
\* none of the first d records.
PagesTell(H, n, d, b) ==
    /\ \A p \in Page : b.disk[p] \notin {Beyond, ZeroPage} => Good(H, n, b.disk[p], p)
    /\ \A p \in Page : p < b.count =>
          /\ Good(H, n, B!View(b, p), p)
          /\ B!View(b, p).rows = H[Later(d, B!View(b, p).lsn + 1)][p]
    /\ \A p \in Page : ~(p < b.count) => H[d][p] = <<>>

Told(H) == /\ phase # "failed" /\ Len(wal) <= torn /\ Done <= Len(wal)
           /\ IdsOnce /\ IdsPast
           /\ History(H) /\ PagesTell(H, Len(wal), Done, pool)

DataInv == damage = {} => \E H : Told(H)

\* The elements of a sequence that has grown, and of one that was rewritten.
LEMMA GrownElems ==
  ASSUME NEW S, NEW s \in Seq(S), NEW x \in S
  PROVE  /\ Len(Append(s, x)) = Len(s) + 1 /\ Append(s, x) # <<>>
         /\ Append(s, x)[Len(s) + 1] = x /\ \A i \in 1..Len(s) : Append(s, x)[i] = s[i]
         /\ Elems(Append(s, x)) = Elems(s) \cup {x}
<1> DEFINE t == Append(s, x)
<1>1. /\ Len(t) = Len(s) + 1 /\ t # <<>> /\ Len(s) \in Nat
      /\ t[Len(s) + 1] = x /\ \A i \in 1..Len(s) : t[i] = s[i]
  OBVIOUS
<1> HIDE DEF t
<1>2. \A y \in Elems(t) : y \in Elems(s) \cup {x}
  BY <1>1 DEF Elems
<1>3. \A y \in Elems(s) \cup {x} : y \in Elems(t)
  BY <1>1 DEF Elems
<1>4. Elems(t) = Elems(s) \cup {x}
  BY <1>2, <1>3, Zenon
<1> QED BY <1>1, <1>4 DEF t

\* The elements of a sequence of which one is rewritten.
LEMMA RewrittenElems ==
  ASSUME NEW S, NEW s \in Seq(S), NEW x \in S, NEW i \in 1..Len(s)
  PROVE  Elems([s EXCEPT ![i] = x]) = {s[k] : k \in (1..Len(s)) \ {i}} \cup {x}
<1> DEFINE t == [s EXCEPT ![i] = x]
<1>1. Len(t) = Len(s) /\ \A k \in 1..Len(s) : t[k] = IF k = i THEN x ELSE s[k]
  BY SeqRewritten
<1> HIDE DEF t
<1>2. \A y \in Elems(t) : y \in {s[k] : k \in (1..Len(s)) \ {i}} \cup {x}
  BY <1>1 DEF Elems
<1>3. \A y \in {s[k] : k \in (1..Len(s)) \ {i}} \cup {x} : y \in Elems(t)
  BY <1>1 DEF Elems
<1> QED BY <1>2, <1>3, Zenon DEF t

\* What Log makes of the rows is what replay will make of them.
LEMMA LogChanges ==
  ASSUME TypeInv, NEW r \in WalRecord, Log(r)
  PROVE  rows' = Changed(rows, r) /\ wal' = Append(wal, r)
BY DEF Log, Changed

\* The latest versions when one more record is there.
LEMMA LastKept ==
  ASSUME TypeInv, NEW r \in WalRecord, wal' = Append(wal, r), NEW k \in 0..Len(wal), NEW p \in Page
  PROVE  LastVersions(p, k)' = LastVersions(p, k)
<1>1. Len(wal) \in Nat /\ \A j \in 1..Len(wal) : wal'[j] = wal[j]
  BY Numbers
<1>2. \A j \in 1..k : wal'[j] = wal[j]
  BY <1>1
<1> DEFINE I(w) == {j \in 1..k : w[j].page = p /\ \A m \in (j + 1)..k : w[m].row.id # w[j].row.id}
<1>3. \A j \in 1..k : \A m \in (j + 1)..k : m \in 1..k
  OBVIOUS
<1>4. \A j \in 1..k : j \in I(wal') <=> j \in I(wal)
  BY <1>2, <1>3
<1>5. I(wal') = I(wal) /\ \A j \in I(wal) : wal'[j] = wal[j]
  BY <1>2, <1>4
<1> HIDE DEF I
<1>6. {wal'[i].row : i \in I(wal')} = {wal[i].row : i \in I(wal)}
  BY <1>5
<1> QED BY <1>6 DEF LastVersions, I

\* What one more record does to the last versions of the rows of a page.
LEMMA LastAdded ==
  ASSUME TypeInv, NEW r \in WalRecord, wal' = Append(wal, r), NEW n, n = Len(wal), NEW p \in Page
  PROVE  LastVersions(p, n + 1)' = {x \in LastVersions(p, n) : x.id # r.row.id}
                                     \cup (IF r.page = p THEN {r.row} ELSE {})
<1>1. /\ n \in Nat /\ \A j \in 1..n : wal'[j] = wal[j] /\ wal'[n + 1] = r
      /\ wal'[n + 1] = r
  BY Numbers
<1> DEFINE I == {j \in 1..n : wal[j].page = p /\ \A m \in (j + 1)..n : wal[m].row.id # wal[j].row.id}
           J == {j \in 1..(n + 1) : wal'[j].page = p
                                     /\ \A m \in (j + 1)..(n + 1) : wal'[m].row.id # wal'[j].row.id}
<1>2. LastVersions(p, n) = {wal[i].row : i \in I} /\ LastVersions(p, n + 1)' = {wal'[i].row : i \in J}
  BY DEF LastVersions
<1>3. n + 1 \in J <=> r.page = p
  BY <1>1
<1>4. \A j \in 1..n : j \in J <=> j \in I /\ wal[j].row.id # r.row.id
  <2> SUFFICES ASSUME NEW j \in 1..n PROVE j \in J <=> j \in I /\ wal[j].row.id # r.row.id
    OBVIOUS
  <2>1. wal'[j] = wal[j] /\ j \in 1..(n + 1)
    BY <1>1
  <2>2. ASSUME j \in J PROVE j \in I /\ wal[j].row.id # r.row.id
    <3>1. \A m \in (j + 1)..n : wal[m].row.id # wal[j].row.id
      BY <1>1, <2>1, <2>2
    <3>2. wal'[n + 1].row.id # wal'[j].row.id
      BY <1>1, <2>2
    <3> QED BY <1>1, <2>1, <2>2, <3>1, <3>2
  <2>3. ASSUME j \in I, wal[j].row.id # r.row.id PROVE j \in J
    <3>1. \A m \in (j + 1)..(n + 1) : wal'[m].row.id # wal'[j].row.id
      <4> SUFFICES ASSUME NEW m \in (j + 1)..(n + 1) PROVE wal'[m].row.id # wal'[j].row.id
        OBVIOUS
      <4>1. CASE m = n + 1
        BY <1>1, <2>1, <2>3, <4>1
      <4>2. CASE m # n + 1
        <5>1. m \in (j + 1)..n /\ m \in 1..n
          BY <1>1, <4>2
        <5> QED BY <1>1, <2>1, <2>3, <5>1
      <4> QED BY <4>1, <4>2
    <3> QED BY <2>1, <2>3, <3>1
  <2> QED BY <2>2, <2>3
<1> HIDE DEF I, J
<1>5. I \subseteq 1..n /\ J \subseteq 1..(n + 1)
  BY DEF I, J
<1>6. \A x : x \in LastVersions(p, n + 1)'
              <=> (x \in LastVersions(p, n) /\ x.id # r.row.id) \/ (r.page = p /\ x = r.row)
  <2> SUFFICES ASSUME NEW x
               PROVE  (\E i \in J : x = wal'[i].row)
                         <=> ((\E i \in I : x = wal[i].row) /\ x.id # r.row.id) \/ (r.page = p /\ x = r.row)
    BY <1>2
  <2>1. ASSUME NEW i \in J, x = wal'[i].row
        PROVE  ((\E k \in I : x = wal[k].row) /\ x.id # r.row.id) \/ (r.page = p /\ x = r.row)
    <3>1. CASE i = n + 1
      BY <1>1, <1>3, <2>1, <3>1
    <3>2. CASE i # n + 1
      <4>1. i \in 1..n
        BY <1>1, <1>5, <3>2
      <4>2. i \in I /\ wal[i].row.id # r.row.id
        BY <1>4, <2>1, <4>1
      <4>3. x = wal[i].row
        BY <1>1, <2>1, <4>1
      <4> QED BY <4>2, <4>3
    <3> QED BY <3>1, <3>2
  <2>2. ASSUME NEW i \in I, x = wal[i].row, x.id # r.row.id PROVE \E k \in J : x = wal'[k].row
    <3>1. i \in 1..n
      BY <1>5
    <3> QED BY <1>1, <1>4, <2>2, <3>1
  <2>3. ASSUME r.page = p, x = r.row PROVE \E k \in J : x = wal'[k].row
    BY <1>1, <1>3, <2>3
  <2> QED BY <2>1, <2>2, <2>3
<1> DEFINE T == {x \in LastVersions(p, n) : x.id # r.row.id}
           W == IF r.page = p THEN {r.row} ELSE {}
           V == LastVersions(p, n + 1)'
<1>7. \A x : x \in T <=> x \in LastVersions(p, n) /\ x.id # r.row.id
  OBVIOUS
<1>8. \A x : x \in W <=> r.page = p /\ x = r.row
  OBVIOUS
<1>9. \A x : x \in V <=> (x \in LastVersions(p, n) /\ x.id # r.row.id) \/ (r.page = p /\ x = r.row)
  BY <1>6
<1> HIDE DEF T, W, V
<1>10. \A x : x \in V <=> x \in T \cup W
  BY <1>7, <1>8, <1>9
<1>11. V = T \cup W
  BY <1>10, Zenon
<1> QED BY <1>11 DEF T, W, V

\* A record the table may log: it fits its page, and its row is new or is that
\* of its slot.
Called(r) ==
    /\ r \in WalRecord /\ Log(r) /\ Applies(rows, r)
    /\ r.op = "Insert" => r.row.id = Len(wal) + 1
    /\ r.op # "Insert" => r.row.id = rows[r.page][r.slot].id

\* What Log does, page by page.
LEMMA LogFacts ==
  ASSUME TypeInv, NEW r, Called(r), NEW n, n = Len(wal)
  PROVE  /\ n \in Nat /\ wal \in Seq(WalRecord) /\ rows \in [Page -> Seq(Row)]
         /\ r \in WalRecord /\ r.page \in Page /\ r.row \in Row
         /\ wal' = Append(wal, r) /\ wal' \in Seq(WalRecord) /\ Len(wal') = n + 1
         /\ wal'[n + 1] = r /\ \A j \in 1..n : wal'[j] = wal[j]
         /\ rows' \in [Page -> Seq(Row)]
         /\ \A q \in Page : q # r.page => rows'[q] = rows[q]
         /\ r.op = "Insert" => rows'[r.page] = Append(rows[r.page], r.row)
         /\ r.op # "Insert" => /\ r.slot \in 1..Len(rows[r.page])
                               /\ rows'[r.page] = [rows[r.page] EXCEPT ![r.slot] = r.row]
<1>1. /\ n \in Nat /\ wal \in Seq(WalRecord) /\ rows \in [Page -> Seq(Row)]
  BY Numbers DEF TypeInv, TypeOK
<1>2. r \in WalRecord /\ r.page \in Page /\ r.row \in Row
  BY RecordFields DEF Called
<1>3. wal' = Append(wal, r) /\ rows' = Changed(rows, r)
  BY <1>2, LogChanges DEF Called
<1>4. /\ wal' \in Seq(WalRecord) /\ Len(wal') = n + 1
      /\ wal'[n + 1] = r /\ \A j \in 1..n : wal'[j] = wal[j]
  BY <1>1, <1>2, <1>3
<1> DEFINE s == rows[r.page]
<1>5. s \in Seq(Row)
  BY <1>1, <1>2
<1>6. CASE r.op = "Insert"
  <2> DEFINE t == Append(s, r.row)
  <2>1. t \in Seq(Row)
    BY <1>2, <1>5
  <2>2. rows' = [rows EXCEPT ![r.page] = t]
    BY <1>3, <1>6 DEF Changed
  <2> HIDE DEF t
  <2>3. rows' \in [Page -> Seq(Row)] /\ rows'[r.page] = t /\ \A q \in Page : q # r.page => rows'[q] = rows[q]
    BY <1>1, <1>2, <2>1, <2>2
  <2> QED BY <1>1, <1>2, <1>3, <1>4, <1>6, <2>3 DEF t
<1>7. CASE r.op # "Insert"
  <2> DEFINE t == [s EXCEPT ![r.slot] = r.row]
  <2>0. r.slot \in 1..Len(s) /\ r.slot \in Nat
    BY <1>5, <1>7 DEF Called, Applies
  <2>1. t \in Seq(Row)
    BY <1>2, <1>5, <2>0, SeqRewritten
  <2>2. rows' = [rows EXCEPT ![r.page] = t]
    BY <1>3, <1>7 DEF Changed
  <2> HIDE DEF t
  <2>3. rows' \in [Page -> Seq(Row)] /\ rows'[r.page] = t /\ \A q \in Page : q # r.page => rows'[q] = rows[q]
    BY <1>1, <1>2, <2>1, <2>2
  <2> QED BY <1>1, <1>2, <1>3, <1>4, <1>7, <2>0, <2>3 DEF t
<1> QED BY <1>6, <1>7

\* The rows of a page after the record: the record's row, and those it is not
\* a version of.
LEMMA LoggedElems ==
  ASSUME TypeInv, IdsOnce, IdsPast, NEW r, Called(r), NEW p \in Page
  PROVE  Elems(rows'[p]) = {x \in Elems(rows[p]) : x.id # r.row.id}
                              \cup (IF r.page = p THEN {r.row} ELSE {})
<1> DEFINE s == rows[p]
           T == {x \in Elems(s) : x.id # r.row.id}
<1>0. PICK n : n = Len(wal)
  OBVIOUS
<1>1. /\ n \in Nat /\ rows \in [Page -> Seq(Row)] /\ r.page \in Page /\ r.row \in Row
      /\ \A q \in Page : q # r.page => rows'[q] = rows[q]
      /\ r.op = "Insert" => rows'[r.page] = Append(rows[r.page], r.row)
      /\ r.op # "Insert" => /\ r.slot \in 1..Len(rows[r.page])
                            /\ rows'[r.page] = [rows[r.page] EXCEPT ![r.slot] = r.row]
  BY <1>0, LogFacts
<1>2. /\ s \in Seq(Row) /\ Len(s) \in Nat
      /\ \A i \in 1..Len(s) : s[i] \in Row /\ s[i].id \in Nat /\ s[i].id <= n
  <2>1. s \in Seq(Row)
    BY <1>1
  <2>2. \A i \in 1..Len(s) : s[i] \in Row /\ s[i].id <= n
    BY <1>0, <2>1 DEF IdsPast
  <2> HIDE DEF s
  <2>3. \A x \in Row : x.id \in Nat
    BY HeapAssumption DEF Row
  <2> QED BY <2>1, <2>2, <2>3
<1>3. CASE r.op = "Insert"
  <2>1. r.row.id = n + 1
    BY <1>0, <1>3 DEF Called
  <2>2. \A i \in 1..Len(s) : s[i].id # r.row.id
    BY <1>1, <1>2, <2>1
  <2>3. T = Elems(s)
    BY <2>2 DEF Elems
  <2>4. CASE r.page = p
    <3>1. Elems(Append(s, r.row)) = Elems(s) \cup {r.row}
      BY <1>1, <1>2, GrownElems
    <3> QED BY <1>1, <1>3, <2>3, <2>4, <3>1
  <2>5. CASE r.page # p
    BY <1>1, <2>3, <2>5
  <2> QED BY <2>4, <2>5
<1>4. CASE r.op # "Insert"
  <2>1. r.slot \in 1..Len(rows[r.page]) /\ r.row.id = rows[r.page][r.slot].id
    BY <1>1, <1>4 DEF Called
  <2>2. CASE r.page = p
    <3>1. \A i \in 1..Len(s) : s[i].id = r.row.id <=> i = r.slot
      BY <2>1, <2>2 DEF IdsOnce
    <3> DEFINE W == {s[k] : k \in (1..Len(s)) \ {r.slot}}
    <3>2. Elems([s EXCEPT ![r.slot] = r.row]) = W \cup {r.row}
      <4>1. PICK k, y : k = r.slot /\ y = r.row
        OBVIOUS
      <4>2. k \in 1..Len(s) /\ y \in Row
        BY <1>1, <2>1, <2>2, <4>1
      <4>3. Elems([s EXCEPT ![k] = y]) = {s[j] : j \in (1..Len(s)) \ {k}} \cup {y}
        BY <1>2, <4>2, RewrittenElems
      <4> QED BY <4>1, <4>3
    <3>3. \A x : x \in T <=> x \in W
      BY <3>1 DEF Elems
    <3> HIDE DEF T, W
    <3>4. T = W
      BY <3>3
    <3>5. Elems(rows'[p]) = W \cup {r.row}
      BY <1>1, <1>4, <2>2, <3>2
    <3> QED BY <2>2, <3>4, <3>5 DEF T
  <2>3. CASE r.page # p
    <3>1. \A i \in 1..Len(s) : s[i].id # r.row.id
      BY <1>1, <2>1, <2>3 DEF IdsOnce
    <3>2. T = Elems(s)
      BY <3>1 DEF Elems
    <3> QED BY <1>1, <2>3, <3>2
  <2> QED BY <2>2, <2>3
<1> QED BY <1>3, <1>4

\* Where the rows of a page come from, by their ids.
LEMMA LoggedPlaces ==
  ASSUME TypeInv, NEW r, Called(r), NEW n, n = Len(wal), NEW p \in Page, NEW i \in 1..Len(rows'[p])
  PROVE  \/ i \in 1..Len(rows[p]) /\ rows'[p][i].id = rows[p][i].id
         \/ r.op = "Insert" /\ p = r.page /\ i = Len(rows[p]) + 1 /\ rows'[p][i].id = n + 1
<1> DEFINE s == rows[p]
           t == rows'[p]
<1>1. /\ n \in Nat /\ rows \in [Page -> Seq(Row)] /\ r.page \in Page /\ r.row \in Row
      /\ \A q \in Page : q # r.page => rows'[q] = rows[q]
      /\ r.op = "Insert" => rows'[r.page] = Append(rows[r.page], r.row)
      /\ r.op # "Insert" => /\ r.slot \in 1..Len(rows[r.page])
                            /\ rows'[r.page] = [rows[r.page] EXCEPT ![r.slot] = r.row]
  BY LogFacts
<1>2. s \in Seq(Row) /\ Len(s) \in Nat
  BY <1>1
<1>3. CASE p # r.page
  BY <1>1, <1>3
<1>4. CASE p = r.page /\ r.op = "Insert"
  <2>1. t = Append(s, r.row) /\ r.row.id = n + 1
    BY <1>1, <1>4 DEF Called
  <2> HIDE DEF s, t
  <2>2. /\ Len(t) = Len(s) + 1 /\ t[Len(s) + 1] = r.row /\ \A k \in 1..Len(s) : t[k] = s[k]
    BY <1>1, <1>2, <2>1, GrownElems
  <2>3. i \in 1..Len(t)
    BY DEF t
  <2>4. CASE i = Len(s) + 1
    BY <1>4, <2>1, <2>2, <2>4 DEF s, t
  <2>5. CASE i # Len(s) + 1
    <3>1. i \in 1..Len(s)
      BY <1>2, <2>2, <2>3, <2>5
    <3> QED BY <2>2, <3>1 DEF s, t
  <2> QED BY <2>4, <2>5
<1>5. CASE p = r.page /\ r.op # "Insert"
  <2>1. PICK k, y : k = r.slot /\ y = r.row
    OBVIOUS
  <2>2. t = [s EXCEPT ![k] = y] /\ k \in 1..Len(s) /\ y.id = s[k].id /\ y \in Row
    BY <1>1, <1>5, <2>1 DEF Called
  <2> HIDE DEF s, t
  <2>3. k \in Nat
    BY <1>2, <2>2
  <2>4. Len(t) = Len(s) /\ \A j \in 1..Len(s) : t[j] = IF j = k THEN y ELSE s[j]
    BY <1>2, <2>2, <2>3, SeqRewritten
  <2>5. i \in 1..Len(t)
    BY DEF t
  <2>6. i \in 1..Len(s) /\ t[i].id = s[i].id
    BY <2>2, <2>4, <2>5
  <2> QED BY <2>6 DEF s, t
<1> QED BY <1>3, <1>4, <1>5

\* A logged record leaves each id to one place.
LEMMA LoggedIds ==
  ASSUME TypeInv, IdsOnce, IdsPast, NEW r, Called(r)
  PROVE  IdsOnce' /\ IdsPast'
<1>0. PICK n : n = Len(wal)
  OBVIOUS
<1>1. /\ n \in Nat /\ Len(wal') = n + 1 /\ wal'[n + 1] = r /\ \A j \in 1..n : wal'[j] = wal[j]
      /\ rows \in [Page -> Seq(Row)]
  BY <1>0, LogFacts
<1>2. \A p \in Page : \A i \in 1..Len(rows'[p]) :
         \/ i \in 1..Len(rows[p]) /\ rows'[p][i].id = rows[p][i].id
         \/ r.op = "Insert" /\ p = r.page /\ i = Len(rows[p]) + 1 /\ rows'[p][i].id = n + 1
  BY <1>0, LoggedPlaces
<1>3. \A p \in Page : \A i \in 1..Len(rows[p]) : rows[p][i].id \in Nat /\ rows[p][i].id <= n
  <2> SUFFICES ASSUME NEW p \in Page, NEW i \in 1..Len(rows[p])
               PROVE  rows[p][i].id \in Nat /\ rows[p][i].id <= n
    OBVIOUS
  <2>1. rows[p] \in Seq(Row)
    BY <1>1
  <2>2. rows[p][i] \in Row
    BY <2>1
  <2>3. rows[p][i].id \in Nat
    BY <2>2, HeapAssumption DEF Row
  <2> QED BY <1>0, <2>3 DEF IdsPast
<1>4. IdsOnce'
  <2> SUFFICES ASSUME NEW p \in Page, NEW q \in Page, NEW i \in 1..Len(rows'[p]), NEW j \in 1..Len(rows'[q]),
                      rows'[p][i].id = rows'[q][j].id
               PROVE  p = q /\ i = j
    BY DEF IdsOnce
  <2>1. CASE i \in 1..Len(rows[p]) /\ rows'[p][i].id = rows[p][i].id
    <3>1. rows'[q][j].id # n + 1
      BY <1>1, <1>3, <2>1
    <3>2. j \in 1..Len(rows[q]) /\ rows'[q][j].id = rows[q][j].id
      BY <1>2, <3>1
    <3>3. i \in 1..Len(rows[p]) /\ rows[p][i].id = rows[q][j].id
      BY <2>1, <3>2
    <3>4. \A k \in 1..Len(rows[p]) : \A m \in 1..Len(rows[q]) :
             rows[p][k].id = rows[q][m].id => p = q /\ k = m
      BY DEF IdsOnce
    <3>5. PICK k, m : k = i /\ m = j
      OBVIOUS
    <3>6. k \in 1..Len(rows[p]) /\ m \in 1..Len(rows[q]) /\ rows[p][k].id = rows[q][m].id
      BY <3>2, <3>3, <3>5
    <3>7. p = q /\ k = m
      BY <3>4, <3>6
    <3> QED BY <3>5, <3>7
  <2>2. CASE r.op = "Insert" /\ p = r.page /\ i = Len(rows[p]) + 1 /\ rows'[p][i].id = n + 1
    <3>1. ~(j \in 1..Len(rows[q]) /\ rows'[q][j].id = rows[q][j].id)
      BY <1>1, <1>3, <2>2
    <3>2. q = r.page /\ j = Len(rows[q]) + 1
      BY <1>2, <3>1
    <3> QED BY <2>2, <3>2
  <2> QED BY <1>2, <2>1, <2>2
<1>5. \A p \in Page : \A i \in 1..Len(rows'[p]) : rows'[p][i].id <= n + 1
  BY <1>1, <1>2, <1>3
<1>6. r.row.id <= n + 1
  <2>1. CASE r.op = "Insert"
    BY <1>0, <1>1, <2>1 DEF Called
  <2>2. CASE r.op # "Insert"
    <3>1. r.page \in Page /\ r.slot \in 1..Len(rows[r.page])
      BY <2>2, <1>0, LogFacts
    <3> QED BY <1>1, <1>3, <2>2, <3>1 DEF Called
  <2> QED BY <2>1, <2>2
<1>7. \A j \in 1..(n + 1) : wal'[j].row.id <= j
  <2> SUFFICES ASSUME NEW j \in 1..(n + 1) PROVE wal'[j].row.id <= j
    OBVIOUS
  <2>1. CASE j = n + 1
    BY <1>1, <1>6, <2>1
  <2>2. CASE j # n + 1
    <3>1. j \in 1..n
      BY <1>1, <2>2
    <3> QED BY <1>0, <1>1, <3>1 DEF IdsPast
  <2> QED BY <2>1, <2>2
<1> QED BY <1>1, <1>4, <1>5, <1>7 DEF IdsPast

\* The history goes on with the rows after the record.
LEMMA LoggedHistory ==
  ASSUME TypeInv, IdsOnce, IdsPast, NEW H, History(H), NEW r, Called(r), NEW n, n = Len(wal)
  PROVE  \E G : /\ History(G)'
                /\ \A k \in 0..n : G[k] = H[k]
                /\ G[n + 1] = rows' /\ rows' = Changed(rows, r)
<1>1. /\ n \in Nat /\ r \in WalRecord /\ wal' = Append(wal, r) /\ Len(wal') = n + 1
      /\ wal'[n + 1] = r /\ \A j \in 1..n : wal'[j] = wal[j]
      /\ rows' \in [Page -> Seq(Row)]
  BY LogFacts
<1>2. rows' = Changed(rows, r)
  BY <1>1, LogChanges DEF Called
<1>3. /\ H \in [0..n -> [Page -> Seq(Row)]]
      /\ H[0] = [p \in Page |-> <<>>] /\ H[n] = rows
      /\ \A k \in 1..n : Applies(H[k - 1], wal[k]) /\ H[k] = Changed(H[k - 1], wal[k])
      /\ \A k \in 0..n : \A p \in Page : Elems(H[k][p]) = LastVersions(p, k)
  BY DEF History
<1> DEFINE F == [k \in 0..(n + 1) |-> IF k <= n THEN H[k] ELSE rows']
<1>a. PICK G : G = F
  OBVIOUS
<1>4. /\ G \in [0..(n + 1) -> [Page -> Seq(Row)]]
      /\ \A k \in 0..n : G[k] = H[k]
      /\ G[n + 1] = rows'
  BY <1>1, <1>3, <1>a
<1> HIDE DEF F
<1>5. G[0] = [p \in Page |-> <<>>]
  <2>1. 0 \in 0..n
    BY <1>1
  <2>2. G[0] = H[0]
    BY <1>4, <2>1
  <2> QED BY <1>3, <2>2
<1>6. \A k \in 1..(n + 1) : Applies(G[k - 1], wal'[k]) /\ G[k] = Changed(G[k - 1], wal'[k])
  <2> SUFFICES ASSUME NEW k \in 1..(n + 1) PROVE Applies(G[k - 1], wal'[k]) /\ G[k] = Changed(G[k - 1], wal'[k])
    OBVIOUS
  <2>1. CASE k = n + 1
    <3>1. G[k - 1] = rows /\ wal'[k] = r /\ G[k] = rows'
      BY <1>1, <1>3, <1>4, <2>1
    <3> QED BY <1>2, <3>1 DEF Called
  <2>2. CASE k # n + 1
    <3>1. k \in 1..n /\ k \in 0..n /\ k - 1 \in 0..n
      BY <1>1, <2>2
    <3>2. G[k - 1] = H[k - 1] /\ G[k] = H[k] /\ wal'[k] = wal[k]
      BY <1>1, <1>4, <3>1
    <3> QED BY <1>3, <3>1, <3>2
  <2> QED BY <2>1, <2>2
<1>7. \A k \in 0..n : \A p \in Page : Elems(G[k][p]) = LastVersions(p, k)'
  <2> SUFFICES ASSUME NEW k \in 0..n, NEW p \in Page PROVE Elems(G[k][p]) = LastVersions(p, k)'
    OBVIOUS
  <2>1. LastVersions(p, k)' = LastVersions(p, k)
    BY <1>1, LastKept
  <2> QED BY <1>3, <1>4, <2>1
<1>8. \A p \in Page : Elems(G[n + 1][p]) = LastVersions(p, n + 1)'
  <2> SUFFICES ASSUME NEW p \in Page PROVE Elems(rows'[p]) = LastVersions(p, n + 1)'
    BY <1>4
  <2>1. LastVersions(p, n + 1)' = {x \in LastVersions(p, n) : x.id # r.row.id}
                                     \cup (IF r.page = p THEN {r.row} ELSE {})
    BY <1>1, LastAdded
  <2>2. Elems(rows'[p]) = {x \in Elems(rows[p]) : x.id # r.row.id}
                              \cup (IF r.page = p THEN {r.row} ELSE {})
    BY LoggedElems
  <2>3. Elems(rows[p]) = LastVersions(p, n)
    <3>1. n \in 0..n
      BY <1>1
    <3>2. Elems(H[n][p]) = LastVersions(p, n)
      BY <1>3, <3>1
    <3> QED BY <1>3, <3>2
  <2> QED BY <2>1, <2>2, <2>3
<1>9. \A k \in 0..(n + 1) : \A p \in Page : Elems(G[k][p]) = LastVersions(p, k)'
  <2> SUFFICES ASSUME NEW k \in 0..(n + 1), NEW p \in Page PROVE Elems(G[k][p]) = LastVersions(p, k)'
    OBVIOUS
  <2>1. PICK m : m = n + 1
    OBVIOUS
  <2>2. Elems(G[m][p]) = LastVersions(p, m)'
    BY <1>8, <2>1
  <2>3. k \in 0..n \/ k = m
    BY <1>1, <2>1
  <2> QED BY <1>7, <2>2, <2>3
<1>10. History(G)'
  <2>1. PICK m : m = n + 1
    OBVIOUS
  <2>2. G \in [0..m -> [Page -> Seq(Row)]] /\ G[0] = [p \in Page |-> <<>>] /\ G[m] = rows' /\ m = Len(wal')
    BY <1>1, <1>4, <1>5, <2>1
  <2>3. \A k \in 1..m : Applies(G[k - 1], wal'[k]) /\ G[k] = Changed(G[k - 1], wal'[k])
    BY <1>6, <2>1
  <2>4. \A k \in 0..m : \A p \in Page : Elems(G[k][p]) = LastVersions(p, k)'
    BY <1>9, <2>1
  <2> QED BY <2>2, <2>3, <2>4 DEF History
<1> QED BY <1>2, <1>4, <1>10

\* G goes on where H ends; its record after the first d is for page p; and c
\* is b after a write of p.
Continues(H, G, n) == \A k \in 0..n : G[k] = H[k]
OnlyPage(G, d, p) == \A q \in Page : q # p => G[d + 1][q] = G[d][q]
PageWritten(b, c, p, x) ==
    /\ p <= b.count /\ c.count = IF b.count > p THEN b.count ELSE p + 1
    /\ B!View(c, p) = x /\ \A q \in Page : q # p => B!View(c, q) = B!View(b, q)

\* A page stays as its LSN says when the history goes on.
LEMMA GoodKept ==
  ASSUME NEW n \in Nat, NEW m \in Nat, n <= m, NEW H, NEW G, Continues(H, G, n),
         NEW p \in Page, NEW image, Good(H, n, image, p)
  PROVE  Good(G, m, image, p)
<1>1. image \in PageImage /\ image.lsn \in Nat /\ image.lsn < n
  BY HeapAssumption DEF Good, PageImage
<1>2. image.lsn + 1 \in 0..n /\ image.lsn < m
  BY <1>1
<1>3. G[image.lsn + 1] = H[image.lsn + 1]
  BY <1>2 DEF Continues
<1> QED BY <1>1, <1>2, <1>3 DEF Good

\* What came to disk is as its LSN says.
LEMMA DiskTells ==
  ASSUME NEW n \in Nat, NEW m \in Nat, n <= m, NEW H, NEW G, Continues(H, G, n),
         NEW d, NEW b, NEW c, PagesTell(H, n, d, b), DiskFrom(b, c)
  PROVE  \A p \in Page : c.disk[p] \notin {Beyond, ZeroPage} => Good(G, m, c.disk[p], p)
<1> SUFFICES ASSUME NEW p \in Page, c.disk[p] \notin {Beyond, ZeroPage} PROVE Good(G, m, c.disk[p], p)
  OBVIOUS
<1>1. PICK image : image = c.disk[p]
  OBVIOUS
<1>2. Good(H, n, image, p)
  <2>1. CASE c.disk[p] = b.disk[p]
    BY <1>1, <2>1 DEF PagesTell
  <2>2. CASE p < b.count /\ c.disk[p] = B!View(b, p)
    BY <1>1, <2>2 DEF PagesTell
  <2> QED BY <2>1, <2>2 DEF DiskFrom
<1> QED BY <1>1, <1>2, GoodKept

\* Reading changes none of it.
LEMMA ReadTells ==
  ASSUME NEW n \in Nat, NEW H, NEW d, NEW b, NEW c, PagesTell(H, n, d, b), Alike(b, c), DiskFrom(b, c)
  PROVE  PagesTell(H, n, d, c)
<1>1. \A p \in Page : c.disk[p] \notin {Beyond, ZeroPage} => Good(H, n, c.disk[p], p)
  <2>1. Continues(H, H, n) /\ n <= n
    BY DEF Continues
  <2> QED BY <2>1, DiskTells
<1> QED BY <1>1 DEF PagesTell, Alike

\* A page is written with what the next record makes of it.
LEMMA WriteTells ==
  ASSUME NEW n \in Nat, NEW m \in Nat, n <= m, NEW H, NEW G, Continues(H, G, n),
         NEW d \in 0..n, d < m, NEW b, NEW c, PagesTell(H, n, d, b), DiskFrom(b, c),
         b.count \in Nat, NEW p \in Page, NEW x, PageWritten(b, c, p, x), Good(G, m, x, p), x.lsn = d,
         OnlyPage(G, d, p)
  PROVE  PagesTell(G, m, d + 1, c)
<1>0. \A q \in Page : q \in Nat
  BY HeapAssumption DEF Page
<1>1. \A q \in Page : c.disk[q] \notin {Beyond, ZeroPage} => Good(G, m, c.disk[q], q)
  BY DiskTells
<1>2. Good(G, m, x, p) /\ x.rows = G[Later(d + 1, x.lsn + 1)][p]
  BY DEF Good, Later
<1>a. B!View(c, p) = x
  BY DEF PageWritten
<1>3. ASSUME NEW q \in Page, q < c.count, q # p
      PROVE  Good(G, m, B!View(c, q), q) /\ B!View(c, q).rows = G[Later(d + 1, B!View(c, q).lsn + 1)][q]
  <2>1. PICK y : y = B!View(b, q)
    OBVIOUS
  <2>2. q < b.count
    BY <1>0, <1>3 DEF PageWritten
  <2>3. Good(H, n, y, q) /\ y.rows = H[Later(d, y.lsn + 1)][q]
    BY <2>1, <2>2 DEF PagesTell
  <2>4. Good(G, m, y, q)
    BY <2>3, GoodKept
  <2>5. y.lsn \in 0..(n - 1)
    BY <2>3, HeapAssumption DEF Good, PageImage
  <2>6. G[d + 1][q] = G[d][q] /\ B!View(c, q) = y
    BY <1>3, <2>1 DEF OnlyPage, PageWritten
  <2>7. G[Later(d + 1, y.lsn + 1)][q] = H[Later(d, y.lsn + 1)][q]
    <3>1. CASE y.lsn + 1 > d
      <4>1. Later(d + 1, y.lsn + 1) = y.lsn + 1 /\ Later(d, y.lsn + 1) = y.lsn + 1 /\ y.lsn + 1 \in 0..n
        BY <2>5, <3>1 DEF Later
      <4> QED BY <4>1 DEF Continues
    <3>2. CASE ~(y.lsn + 1 > d)
      <4>1. Later(d + 1, y.lsn + 1) = d + 1 /\ Later(d, y.lsn + 1) = d
        BY <2>5, <3>2 DEF Later
      <4> QED BY <2>6, <4>1 DEF Continues
    <3> QED BY <3>1, <3>2
  <2> QED BY <2>3, <2>4, <2>6, <2>7
<1>4. ASSUME NEW q \in Page, ~(q < c.count) PROVE G[d + 1][q] = <<>>
  <2>1. q # p /\ ~(q < b.count)
    BY <1>0, <1>4 DEF PageWritten
  <2>2. G[d + 1][q] = G[d][q] /\ G[d] = H[d]
    BY <2>1 DEF OnlyPage, Continues
  <2> QED BY <2>1, <2>2 DEF PagesTell
<1> QED BY <1>1, <1>2, <1>a, <1>3, <1>4 DEF PagesTell

\* A record is passed over whose page has it already.
LEMMA SkipTells ==
  ASSUME NEW n \in Nat, NEW H, NEW d \in 0..n, NEW b, PagesTell(H, n, d, b),
         NEW p \in Page, p < b.count, B!View(b, p).lsn >= d,
         OnlyPage(H, d, p)
  PROVE  PagesTell(H, n, d + 1, b)
<1>1. ASSUME NEW q \in Page, q < b.count
      PROVE  B!View(b, q).rows = H[Later(d + 1, B!View(b, q).lsn + 1)][q]
  <2>1. PICK y : y = B!View(b, q)
    OBVIOUS
  <2>2. Good(H, n, y, q) /\ y.rows = H[Later(d, y.lsn + 1)][q]
    BY <1>1, <2>1 DEF PagesTell
  <2>3. y.lsn \in 0..(n - 1)
    BY <2>2, HeapAssumption DEF Good, PageImage
  <2>4. CASE q = p
    <3>1. Later(d + 1, y.lsn + 1) = y.lsn + 1 /\ Later(d, y.lsn + 1) = y.lsn + 1
      BY <2>1, <2>3, <2>4 DEF Later
    <3> QED BY <2>1, <2>2, <3>1
  <2>5. CASE q # p
    <3>1. H[d + 1][q] = H[d][q]
      BY <2>5 DEF OnlyPage
    <3>2. Later(d + 1, y.lsn + 1) = Later(d, y.lsn + 1)
             \/ (Later(d + 1, y.lsn + 1) = d + 1 /\ Later(d, y.lsn + 1) = d)
      BY <2>3 DEF Later
    <3> QED BY <2>1, <2>2, <3>1, <3>2
  <2> QED BY <2>4, <2>5
<1>2. \A q \in Page : ~(q < b.count) => H[d + 1][q] = <<>>
  BY DEF PagesTell, OnlyPage
<1> QED BY <1>1, <1>2 DEF PagesTell

\* The table is opened again over what is on disk.
LEMMA CrashTells ==
  ASSUME NEW n \in Nat, NEW m \in Nat, n <= m, NEW H, NEW G, Continues(H, G, n),
         NEW d, NEW b, NEW c, PagesTell(H, n, d, b), c.disk = b.disk,
         \A q \in Page : /\ B!View(c, q) = b.disk[q] /\ b.disk[q] # ZeroPage
                         /\ q < c.count <=> b.disk[q] # Beyond,
         H[0] = [q \in Page |-> <<>>]
  PROVE  PagesTell(G, m, 0, c)
<1>1. ASSUME NEW q \in Page, b.disk[q] # Beyond
      PROVE  Good(G, m, b.disk[q], q) /\ b.disk[q].rows = G[Later(0, b.disk[q].lsn + 1)][q]
  <2>1. PICK y : y = b.disk[q]
    OBVIOUS
  <2>2. Good(H, n, y, q)
    BY <1>1, <2>1 DEF PagesTell
  <2>3. Good(G, m, y, q)
    BY <2>2, GoodKept
  <2>4. y.lsn \in Nat
    BY <2>2, HeapAssumption DEF Good, PageImage
  <2>5. Later(0, y.lsn + 1) = y.lsn + 1
    BY <2>4 DEF Later
  <2> QED BY <2>1, <2>3, <2>5 DEF Good
<1>2. \A q \in Page : G[0][q] = <<>>
  BY DEF Continues
<1> QED BY <1>1, <1>2 DEF PagesTell

\* What a serving table shows.
LEMMA OpenRows ==
  ASSUME TypeInv, phase = "open", NEW H, Told(H), NEW p \in Page
  PROVE  /\ p < pool.count => /\ B!View(pool, p) \in PageImage
                              /\ B!View(pool, p).rows = rows[p] /\ rows[p] # <<>>
                              /\ B!View(pool, p).free = RowsPerPage - Len(rows[p])
         /\ ~(p < pool.count) => rows[p] = <<>>
<1>0. PICK n, y : n = Len(wal) /\ y = B!View(pool, p)
  OBVIOUS
<1>1. n \in Nat /\ H[n] = rows /\ Done = n /\ PagesTell(H, n, n, pool)
  BY <1>0, Numbers DEF Told, Done, History
<1>2. CASE p < pool.count
  <2>1. Good(H, n, y, p) /\ y.rows = H[Later(n, y.lsn + 1)][p]
    BY <1>0, <1>1, <1>2 DEF PagesTell
  <2>2. y.lsn \in Nat /\ y.lsn < n
    BY <2>1, HeapAssumption DEF Good, PageImage
  <2>3. Later(n, y.lsn + 1) = n
    BY <1>1, <2>2 DEF Later
  <2>4. y.rows = rows[p]
    BY <1>1, <2>1, <2>3
  <2> QED BY <1>0, <1>2, <2>1, <2>4 DEF Good
<1>3. CASE ~(p < pool.count)
  BY <1>1, <1>3 DEF PagesTell
<1> QED BY <1>2, <1>3

\* The record of an insert fits its page.
LEMMA InsertCalled ==
  ASSUME TypeInv, phase = "open", NEW H, Told(H), InsertPage <= MaxPage, Log(InsertRecord)
  PROVE  Called(InsertRecord) /\ (InsertPage = pool.count => rows[InsertPage] = <<>>)
<1>0. PICK p, r : p = InsertPage /\ r = InsertRecord
  OBVIOUS
<1>1. Len(wal) < MaxLog
  BY DEF Log
<1>2. /\ p \in Page /\ p <= pool.count
      /\ Fits => p < pool.count
      /\ ~Fits => p = pool.count
      /\ r \in WalRecord /\ r.op = "Insert" /\ r.page = p /\ r.row.id = Len(wal) + 1
  BY <1>0, <1>1, InsertPlaces
<1>3. /\ pool.count \in Nat /\ rows \in [Page -> Seq(Row)] /\ \A q \in Page : q \in Nat
      /\ RowsPerPage \in Nat \ {0}
  BY Numbers, HeapAssumption DEF TypeInv, TypeOK, Page
<1>4. Len(rows[p]) < RowsPerPage
  <2>1. rows[p] \in Seq(Row)
    BY <1>2, <1>3
  <2>2. Len(rows[p]) \in Nat
    BY <2>1
  <2>3. CASE Fits
    <3>1. B!View(pool, p).free = RowsPerPage - Len(rows[p])
      BY <1>2, <2>3, OpenRows
    <3>2. B!View(pool, p).free > 0
      BY <1>0, <2>3 DEF Fits, HasRoom, InsertPage
    <3> QED BY <1>3, <2>2, <3>1, <3>2
  <2>4. CASE ~Fits
    <3>1. rows[p] = <<>>
      BY <1>2, <1>3, <2>4, OpenRows
    <3> QED BY <1>3, <3>1
  <2> QED BY <2>3, <2>4
<1>5. \A q \in Page : q < p => rows[q] # <<>>
  <2> SUFFICES ASSUME NEW q \in Page, q < p PROVE rows[q] # <<>>
    OBVIOUS
  <2>1. q < pool.count
    BY <1>2, <1>3
  <2> QED BY <2>1, OpenRows
<1>6. p = pool.count => rows[p] = <<>>
  BY <1>2, <1>3, OpenRows
<1>7. Applies(rows, r)
  BY <1>2, <1>4, <1>5 DEF Applies
<1> QED BY <1>0, <1>2, <1>6, <1>7 DEF Called

\* The record of a rewriting is for a row of its page, and keeps its id.
LEMMA UpdateCalled ==
  ASSUME TypeInv, phase = "open", NEW H, Told(H), NEW p \in Page, NEW slot \in 1..RowsPerPage,
         Updatable(p, slot), Log(UpdateRecord(p, slot))
  PROVE  Called(UpdateRecord(p, slot))
<1>0. PICK r, y : r = UpdateRecord(p, slot) /\ y = B!View(pool, p)
  OBVIOUS
<1>1. Len(wal) < MaxLog
  BY DEF Log
<1>2. /\ p < pool.count /\ slot \in 1..Len(y.rows)
      /\ r \in WalRecord /\ r.op = "UpdateRow" /\ r.page = p /\ r.slot = slot
      /\ r.row.id = y.rows[slot].id
  BY <1>0, <1>1, UpdatePlaces
<1>3. y.rows = rows[p]
  BY <1>0, <1>2, OpenRows
<1>4. Applies(rows, r) /\ r.row.id = rows[r.page][r.slot].id /\ r.op # "Insert"
  BY <1>2, <1>3 DEF Applies
<1> QED BY <1>0, <1>2, <1>4 DEF Called

\* The other pages are as they were.
LEMMA OtherPages ==
  ASSUME NEW c \in [Page -> Seq(Row)], NEW r, r.page \in Page, NEW q \in Page, q # r.page
  PROVE  Changed(c, r)[q] = c[q]
BY DEF Changed

\* What a record does to its own page.
LEMMA ChangedPage ==
  ASSUME NEW c \in [Page -> Seq(Row)], NEW r, r.page \in Page
  PROVE  /\ r.op = "Insert" => Changed(c, r)[r.page] = Append(c[r.page], r.row)
         /\ r.op # "Insert" => Changed(c, r)[r.page] = [c[r.page] EXCEPT ![r.slot] = r.row]
<1>1. PICK s, t : s = Append(c[r.page], r.row) /\ t = [c[r.page] EXCEPT ![r.slot] = r.row]
  OBVIOUS
<1>2. Changed(c, r) = IF r.op = "Insert" THEN [c EXCEPT ![r.page] = s] ELSE [c EXCEPT ![r.page] = t]
  BY <1>1 DEF Changed
<1> QED BY <1>1, <1>2

\* The history stays while nothing is logged.
LEMMA SameHistory ==
  ASSUME NEW H, Told(H), UNCHANGED <<wal, rows>>
  PROVE  History(H)' /\ IdsOnce' /\ IdsPast'
<1>1. IdsOnce'
  BY DEF Told, IdsOnce
<1>2. IdsPast'
  BY DEF Told, IdsPast
<1>3. \A p \in Page : \A k \in 0..Len(wal) : LastVersions(p, k)' = LastVersions(p, k)
  BY DEF LastVersions
<1>4. History(H)'
  BY <1>3 DEF Told, History
<1> QED BY <1>1, <1>2, <1>4

\* Reads, and failures before anything is logged.
LEMMA QuietTold ==
  ASSUME TypeInv, NEW H, Told(H), Alike(pool, pool'), DiskFrom(pool, pool'),
         UNCHANGED <<wal, rows, phase, next>>, Len(wal) <= torn'
  PROVE  Told(H)'
<1>0. PICK n, d : n = Len(wal) /\ d = Done
  OBVIOUS
<1>1. n \in Nat /\ PagesTell(H, n, d, pool)
  BY <1>0, Numbers DEF Told
<1>2. PagesTell(H, n, d, pool')
  BY <1>1, ReadTells
<1>3. Done' = d /\ Len(wal') = n
  BY <1>0 DEF Done
<1>4. History(H)' /\ IdsOnce' /\ IdsPast'
  BY SameHistory
<1> QED BY <1>0, <1>2, <1>3, <1>4 DEF Told

\* Insert and Update: the page gets what the record makes of it.
LEMMA WrittenTold ==
  ASSUME TypeInv, phase = "open", NEW H, Told(H), NEW r, Called(r), r.page <= pool.count,
         DiskFrom(pool, pool'),
         pool'.count = IF pool.count > r.page THEN pool.count ELSE r.page + 1,
         NEW x \in PageImage, B!View(pool', r.page) = x, x.lsn = Len(wal), x.rows = rows'[r.page],
         x.rows # <<>>, x.free = RowsPerPage - Len(x.rows),
         \A q \in Page \ {r.page} : B!View(pool', q) = B!View(pool, q),
         UNCHANGED <<torn, phase>>, Len(wal) < torn
  PROVE  \E G : Told(G)'
<1>0. PICK n, m, p : n = Len(wal) /\ m = Len(wal) + 1 /\ p = r.page
  OBVIOUS
<1>1. /\ n \in Nat /\ Done = n /\ PagesTell(H, n, n, pool) /\ torn \in Nat
      /\ pool.count \in Nat /\ rows \in [Page -> Seq(Row)]
  BY <1>0, Numbers, HeapAssumption DEF Told, Done, TypeInv, TypeOK
<1>2. PICK G : /\ History(G)'
               /\ Continues(H, G, n)
               /\ G[n + 1] = rows' /\ rows' = Changed(rows, r)
  BY <1>0, LoggedHistory DEF Told, Continues
<1>3. p \in Page /\ Len(wal') = m /\ m = n + 1 /\ m \in Nat /\ n <= m /\ n \in 0..n /\ n < m
  <2>1. r.page \in Page /\ Len(wal') = n + 1
    BY <1>0, LogFacts
  <2> QED BY <1>0, <1>1, <2>1
<1>4. OnlyPage(G, n, p)
  <2>1. G[n] = rows
    BY <1>0, <1>1, <1>2 DEF Told, History, Continues
  <2> QED BY <1>0, <1>1, <1>2, <1>3, <2>1, OtherPages DEF OnlyPage
<1>5. PagesTell(G, m, n + 1, pool')
  <2>1. PICK b, c : b = pool /\ c = pool'
    OBVIOUS
  <2>2. PageWritten(b, c, p, x)
    BY <1>0, <2>1 DEF PageWritten
  <2>3. Good(G, m, x, p) /\ x.lsn = n
    BY <1>0, <1>2, <1>3 DEF Good
  <2>4. PagesTell(H, n, n, b) /\ DiskFrom(b, c) /\ b.count \in Nat
    BY <1>1, <2>1
  <2>5. PagesTell(G, m, n + 1, c)
    BY <1>1, <1>2, <1>3, <1>4, <2>2, <2>3, <2>4, WriteTells
  <2> QED BY <2>1, <2>5
<1>6. IdsOnce' /\ IdsPast'
  BY LoggedIds DEF Told
<1>7. Done' = m /\ phase' # "failed" /\ Len(wal') <= torn'
  BY <1>0, <1>1, <1>3 DEF Done
<1>8. Told(G)'
  BY <1>2, <1>3, <1>5, <1>6, <1>7 DEF Told
<1> QED BY <1>8

\* An append that does no damage is stamped with its place in the log.
LEMMA Stamped ==
  ASSUME TypeInv, NEW mishap, Appended(mishap), damage' = {}
  PROVE  damage = {} /\ Len(wal) < torn /\ AppendLsn = Len(wal)
<1>1. damage = {} /\ Behind = {} /\ ~(atStart /\ wal # <<>>)
  BY DEF Appended
<1>2. Len(wal) < torn
  BY <1>1, Numbers DEF Behind
<1>3. AppendLsn = Len(wal)
  BY <1>1 DEF AppendLsn
<1> QED BY <1>1, <1>2, <1>3

\* Table::insert.
LEMMA InsertTold ==
  ASSUME TypeInv, NEW H, Told(H), Insert, damage' = {}
  PROVE  \E G : Told(G)'
<1>0. PICK r, x, p, old : /\ r = InsertRecord /\ x = SetPageLsn(InsertImage, AppendLsn) /\ p = InsertPage
                          /\ old = IF Fits THEN B!View(pool, InsertPage) ELSE EmptyPage
  OBVIOUS
<1>1. /\ phase = "open" /\ p <= MaxPage /\ Len(wal) < MaxLog /\ Log(r) /\ Appended({})
      /\ pool' = B!Written(Prepared, p, x) /\ UNCHANGED <<torn, phase>>
  BY <1>0 DEF Insert, Log
<1>2. Len(wal) < torn /\ AppendLsn = Len(wal)
  BY <1>1, Stamped
<1>3. Called(r) /\ (p = pool.count => rows[p] = <<>>)
  BY <1>0, <1>1, InsertCalled
<1>4. /\ p \in Page /\ p <= pool.count
      /\ Fits => p < pool.count
      /\ ~Fits => p = pool.count
      /\ PoolOK(Prepared) /\ Alike(pool, Prepared) /\ DiskFrom(pool, Prepared)
      /\ r.op = "Insert" /\ r.page = p /\ r.row = NewRow
  BY <1>0, <1>1, InsertPlaces
<1>5. /\ x \in PageImage /\ x.lsn = AppendLsn
      /\ x.rows = Append(old.rows, NewRow) /\ x.free = old.free - 1
  BY <1>0, <1>1, InsertedPage
<1>6. /\ pool.count \in Nat /\ rows \in [Page -> Seq(Row)] /\ RowsPerPage \in Nat
  BY Numbers, HeapAssumption DEF TypeInv, TypeOK
<1>7. old.rows = rows[p] /\ old.free = RowsPerPage - Len(rows[p])
  <2>1. CASE Fits
    BY <1>0, <1>1, <1>4, <2>1, OpenRows
  <2>2. CASE ~Fits
    <3>1. rows[p] = <<>> /\ old = EmptyPage
      BY <1>0, <1>3, <1>4, <2>2
    <3> QED BY <1>6, <3>1 DEF EmptyPage
  <2> QED BY <2>1, <2>2
<1>8. rows'[p] = Append(rows[p], NewRow) /\ NewRow \in Row
  BY <1>3, <1>4, LogFacts
<1>9. x.rows = rows'[p] /\ x.rows # <<>> /\ x.free = RowsPerPage - Len(x.rows)
  <2>1. PICK s, y : s = rows[p] /\ y = NewRow
    OBVIOUS
  <2>2. s \in Seq(Row) /\ y \in Row /\ x.rows = Append(s, y) /\ x.free = RowsPerPage - Len(s) - 1
    BY <1>4, <1>5, <1>6, <1>7, <1>8, <2>1
  <2>3. x.rows # <<>> /\ Len(x.rows) = Len(s) + 1 /\ Len(s) \in Nat
    BY <2>2
  <2> QED BY <1>6, <1>8, <2>1, <2>2, <2>3
<1>10. /\ DiskFrom(pool, pool')
       /\ pool'.count = IF pool.count > p THEN pool.count ELSE p + 1
       /\ B!View(pool', p) = x
       /\ \A q \in Page \ {p} : B!View(pool', q) = B!View(pool, q)
  BY <1>1, <1>4, <1>5, WriteAfterRead DEF TypeInv
<1> QED BY <1>1, <1>2, <1>3, <1>4, <1>5, <1>9, <1>10, WrittenTold

\* delete_at and freeze.
LEMMA UpdateTold ==
  ASSUME TypeInv, NEW H, Told(H), NEW p \in Page, NEW slot \in 1..RowsPerPage, Update(p, slot),
         damage' = {}
  PROVE  \E G : Told(G)'
<1>0. PICK r, old, x : /\ r = UpdateRecord(p, slot) /\ old = B!View(pool, p)
                       /\ x = SetPageLsn(UpdateRow(old, slot, r.row), AppendLsn)
  OBVIOUS
<1>1. /\ phase = "open" /\ Updatable(p, slot) /\ Len(wal) < MaxLog /\ Log(r) /\ Appended({})
      /\ pool' = B!Written(B!Fetched(pool, p), p, x) /\ UNCHANGED <<torn, phase>>
  BY <1>0 DEF Update, Log
<1>2. Len(wal) < torn /\ AppendLsn = Len(wal)
  BY <1>1, Stamped
<1>3. Called(r)
  BY <1>0, <1>1, UpdateCalled
<1>4. /\ p < pool.count /\ slot \in 1..Len(old.rows)
      /\ r.op = "UpdateRow" /\ r.page = p /\ r.slot = slot /\ r.row \in Row
      /\ x \in PageImage /\ x.lsn = AppendLsn
      /\ x.rows = [old.rows EXCEPT ![slot] = r.row] /\ x.free = old.free
  BY <1>0, <1>1, UpdatePlaces
<1>5. old.rows = rows[p] /\ old.free = RowsPerPage - Len(rows[p])
  BY <1>0, <1>1, <1>4, OpenRows
<1>6. rows'[p] = [rows[p] EXCEPT ![slot] = r.row] /\ rows[p] \in Seq(Row)
  BY <1>3, <1>4, LogFacts
<1>7. x.rows = rows'[p] /\ x.rows # <<>> /\ x.free = RowsPerPage - Len(x.rows)
  <2>1. PICK s, y : s = rows[p] /\ y = r.row
    OBVIOUS
  <2>2. s \in Seq(Row) /\ y \in Row /\ x.rows = [s EXCEPT ![slot] = y] /\ slot \in 1..Len(s)
    BY <1>4, <1>5, <1>6, <2>1
  <2>3. slot \in Nat /\ Len(s) \in Nat
    BY <2>2
  <2>4. x.rows \in Seq(Row) /\ Len(x.rows) = Len(s)
    BY <2>2, <2>3, SeqRewritten
  <2>5. x.rows # <<>>
    BY <2>2, <2>3, <2>4
  <2> QED BY <1>4, <1>5, <1>6, <2>1, <2>4, <2>5
<1>8. /\ p <= pool.count
      /\ PoolOK(B!Fetched(pool, p)) /\ Alike(pool, B!Fetched(pool, p)) /\ DiskFrom(pool, B!Fetched(pool, p))
  <2>1. p <= pool.count
    BY <1>4, PageNumbers
  <2> QED BY <1>4, <2>1, FetchedPool DEF TypeInv
<1>9. /\ DiskFrom(pool, pool')
      /\ pool'.count = IF pool.count > p THEN pool.count ELSE p + 1
      /\ B!View(pool', p) = x
      /\ \A q \in Page \ {p} : B!View(pool', q) = B!View(pool, q)
  BY <1>1, <1>4, <1>8, WriteAfterRead DEF TypeInv
<1> QED BY <1>1, <1>2, <1>3, <1>4, <1>7, <1>8, <1>9, WrittenTold

\* Reads, and what fails before the record is in the log.
LEMMA ReadTold ==
  ASSUME TypeInv, NEW H, Told(H), \/ AppendFails
                                  \/ \E p \in Page : Read(p) \/ FetchFails(p)
  PROVE  Told(H)'
<1>1. CASE AppendFails
  <2>1. phase = "open" /\ Len(wal) < MaxLog /\ UNCHANGED <<wal, rows, phase, next>> /\ torn' = Readable
    BY <1>1 DEF AppendFails, MayFail
  <2>2. Alike(pool, pool') /\ DiskFrom(pool, pool')
    <3>1. CASE InsertPage <= MaxPage /\ pool' = Prepared
      BY <2>1, <3>1, InsertPlaces
    <3>2. CASE \E p \in Page, slot \in 1..RowsPerPage :
                  Updatable(p, slot) /\ pool' \in BeforeUpdate(p)
      BY <3>2, BeforeUpdatePool
    <3> QED BY <1>1, <3>1, <3>2 DEF AppendFails
  <2>3. Len(wal) <= torn'
    BY <2>1, Numbers DEF Told, Readable
  <2> QED BY <2>1, <2>2, <2>3, QuietTold
<1>2. CASE \E p \in Page : Read(p) \/ FetchFails(p)
  <2>1. PICK p \in Page : Read(p) \/ FetchFails(p)
    BY <1>2
  <2>2. UNCHANGED <<wal, rows, phase, next, torn>>
    BY <2>1 DEF Read, FetchFails
  <2>3. Alike(pool, pool') /\ DiskFrom(pool, pool')
    <3>1. CASE Read(p)
      BY <3>1, FetchedPool DEF Read, TypeInv
    <3>2. CASE FetchFails(p)
      BY <3>2, PoppedPool DEF FetchFails, NoRoom, B!MustEvict, TypeInv
    <3> QED BY <2>1, <3>1, <3>2
  <2> QED BY <2>2, <2>3, QuietTold DEF Told
<1> QED BY <1>1, <1>2

\* What replay knows of the record it looks at, and of the page it is for.
LEMMA ReplayRecord ==
  ASSUME TypeInv, NEW H, Told(H), phase = "replay", next <= Readable, NEW d, d = next - 1,
         NEW n, n = Len(wal), NEW r, r = wal[next]
  PROVE  /\ n \in Nat /\ d \in 0..n /\ d + 1 = next /\ next \in 1..n /\ d < n /\ Done = d
         /\ r \in WalRecord /\ r.page \in Page /\ r.row \in Row
         /\ H[d] \in [Page -> Seq(Row)] /\ Applies(H[d], r) /\ H[d + 1] = Changed(H[d], r)
         /\ OnlyPage(H, d, r.page) /\ PagesTell(H, n, d, pool)
         /\ ReadLsn(next) = d /\ d \in 0..MaxLog
<1>1. /\ next \in 1..n /\ r \in WalRecord /\ ReadLsn(next) = next - 1 /\ n \in Nat
      /\ ReadLsn(next) \in 0..MaxLog
  BY ReplayPlaces, Numbers
<1>2. d \in 0..n /\ d + 1 = next /\ d < n /\ Done = d /\ r.page \in Page /\ r.row \in Row
  BY <1>1, RecordFields DEF Done
<1>3. H[d] \in [Page -> Seq(Row)] /\ Applies(H[d], r) /\ H[d + 1] = Changed(H[d], r)
  <2>1. History(H)
    BY DEF Told
  <2>2. H[next] = Changed(H[next - 1], wal[next]) /\ Applies(H[next - 1], wal[next])
    BY <1>1, <2>1 DEF History
  <2>3. H[d] \in [Page -> Seq(Row)]
    BY <1>2, <2>1 DEF History
  <2> QED BY <1>2, <2>2, <2>3
<1>4. OnlyPage(H, d, r.page)
  <2> SUFFICES ASSUME NEW q \in Page, q # r.page PROVE H[d + 1][q] = H[d][q]
    BY DEF OnlyPage
  <2>1. PICK c : c = H[d]
    OBVIOUS
  <2>2. Changed(c, r)[q] = c[q]
    BY <1>2, <1>3, <2>1, OtherPages
  <2> QED BY <1>3, <2>1, <2>2
<1>5. PagesTell(H, n, d, pool)
  BY <1>2 DEF Told
<1> QED BY <1>1, <1>2, <1>3, <1>4, <1>5

\* The page of the record, when it has missed it.
LEMMA ReplayPage ==
  ASSUME TypeInv, NEW H, NEW n \in Nat, NEW d \in 0..n, PagesTell(H, n, d, pool), NEW p \in Page,
         ~(p < pool.count /\ B!View(pool, p).lsn >= d)
  PROVE  /\ p < pool.count => /\ B!View(pool, p) \in PageImage /\ B!View(pool, p).rows = H[d][p]
                              /\ H[d][p] # <<>>
                              /\ B!View(pool, p).free = RowsPerPage - Len(H[d][p])
         /\ ~(p < pool.count) => H[d][p] = <<>>
<1>1. CASE p < pool.count
  <2>1. PICK y : y = B!View(pool, p)
    OBVIOUS
  <2>2. Good(H, n, y, p) /\ y.rows = H[Later(d, y.lsn + 1)][p] /\ ~(y.lsn >= d)
    BY <1>1, <2>1 DEF PagesTell
  <2>3. y.lsn \in Nat
    BY <2>2, HeapAssumption DEF Good, PageImage
  <2>4. Later(d, y.lsn + 1) = d
    BY <2>2, <2>3 DEF Later
  <2>5. y.rows = H[d][p]
    BY <2>2, <2>4
  <2> QED BY <1>1, <2>1, <2>2, <2>5 DEF Good
<1>2. CASE ~(p < pool.count)
  BY <1>2 DEF PagesTell
<1> QED BY <1>1, <1>2

\* A record is replayed, or passed over: the pages have caught up with it.
LEMMA NextTold ==
  ASSUME TypeInv, NEW H, Told(H), phase = "replay", NEW n, n = Len(wal), next \in 1..n,
         PagesTell(H, n, next, pool'),
         next' = next + 1, UNCHANGED <<phase, wal, torn, rows>>
  PROVE  Told(H)'
<1>1. n \in Nat /\ Done' = next
  BY Numbers DEF Done
<1>2. History(H)' /\ IdsOnce' /\ IdsPast'
  BY SameHistory
<1> QED BY <1>1, <1>2 DEF Told

\* Replay passes over a record that its page has seen.
LEMMA SkipTold ==
  ASSUME TypeInv, NEW H, Told(H), phase = "replay", next <= Readable, NEW r, r = wal[next], Skip(r),
         UNCHANGED <<wal, torn, rows>>
  PROVE  Told(H)'
<1>0. PICK n, d, b, c, p : n = Len(wal) /\ d = next - 1 /\ b = pool /\ c = pool' /\ p = r.page
  OBVIOUS
<1>1. /\ n \in Nat /\ d \in 0..n /\ d + 1 = next /\ next \in 1..n
      /\ p \in Page /\ OnlyPage(H, d, p) /\ PagesTell(H, n, d, b) /\ ReadLsn(next) = d
  BY <1>0, ReplayRecord
<1>2. p < pool.count /\ B!View(pool, p).lsn >= d /\ c = B!Fetched(pool, p)
      /\ next' = next + 1 /\ UNCHANGED phase
  BY <1>0, <1>1 DEF Skip, AlreadyDurable
<1>3. PagesTell(H, n, d + 1, b)
  BY <1>0, <1>1, <1>2, SkipTells
<1>4. Alike(b, c) /\ DiskFrom(b, c)
  BY <1>0, <1>1, <1>2, FetchedPool DEF TypeInv
<1>5. PagesTell(H, n, d + 1, c)
  BY <1>1, <1>3, <1>4, ReadTells
<1> QED BY <1>0, <1>1, <1>2, <1>5, NextTold

\* The record's page is written with what the record makes of it.
LEMMA AppliedTold ==
  ASSUME TypeInv, NEW H, Told(H), phase = "replay", next <= Readable, NEW r, r = wal[next],
         NEW x \in PageImage, pool' = B!Written(Looked(r.page), r.page, x), r.page <= pool.count,
         x.lsn = ReadLsn(next), x.rows = H[next][r.page], x.rows # <<>>,
         x.free = RowsPerPage - Len(x.rows),
         next' = next + 1, UNCHANGED <<phase, wal, torn, rows>>
  PROVE  Told(H)'
<1>0. PICK n, d, b, c, p : n = Len(wal) /\ d = next - 1 /\ b = pool /\ c = pool' /\ p = r.page
  OBVIOUS
<1>1. /\ n \in Nat /\ d \in 0..n /\ d + 1 = next /\ next \in 1..n /\ d < n /\ n <= n
      /\ p \in Page /\ OnlyPage(H, d, p) /\ PagesTell(H, n, d, b) /\ ReadLsn(next) = d
  BY <1>0, ReplayRecord
<1>2. PoolOK(Looked(p)) /\ Alike(pool, Looked(p)) /\ DiskFrom(pool, Looked(p))
  BY <1>0, ReplayPlaces
<1>3. /\ DiskFrom(b, c)
      /\ c.count = IF b.count > p THEN b.count ELSE p + 1
      /\ B!View(c, p) = x
      /\ \A q \in Page \ {p} : B!View(c, q) = B!View(b, q)
  BY <1>0, <1>1, <1>2, WriteAfterRead DEF TypeInv
<1>4. PageWritten(b, c, p, x)
  BY <1>0, <1>3 DEF PageWritten
<1>5. Good(H, n, x, p) /\ x.lsn = d
  BY <1>0, <1>1 DEF Good
<1>6. Continues(H, H, n) /\ b.count \in Nat
  BY <1>0, Numbers DEF Continues
<1>7. PagesTell(H, n, d + 1, c)
  BY <1>1, <1>3, <1>4, <1>5, <1>6, WriteTells
<1> QED BY <1>0, <1>1, <1>7, NextTold

\* apply_at always finds room.
LEMMA ApplyInsertTold ==
  ASSUME TypeInv, NEW H, Told(H), phase = "replay", next <= Readable, NEW r, r = wal[next],
         ApplyInsert(r), UNCHANGED <<wal, torn, rows>>
  PROVE  Told(H)'
<1>0. PICK n, d, p, image : /\ n = Len(wal) /\ d = next - 1 /\ p = r.page
                            /\ image = IF r.page < pool.count THEN B!View(pool, r.page) ELSE EmptyPage
  OBVIOUS
<1>1. /\ n \in Nat /\ d \in 0..n /\ d + 1 = next
      /\ p \in Page /\ r.row \in Row /\ PagesTell(H, n, d, pool) /\ ReadLsn(next) = d /\ d \in 0..MaxLog
      /\ H[d] \in [Page -> Seq(Row)] /\ Applies(H[d], r) /\ H[d + 1] = Changed(H[d], r)
  BY <1>0, ReplayRecord
<1>2. r.op = "Insert" /\ ~(p < pool.count /\ B!View(pool, p).lsn >= d)
  BY <1>0, <1>1 DEF ApplyInsert, AlreadyDurable
<1>3. PICK s : s = H[d][p]
  OBVIOUS
<1>4. s \in Seq(Row) /\ Len(s) \in Nat /\ Len(s) < RowsPerPage /\ RowsPerPage \in Nat
  BY <1>0, <1>1, <1>2, <1>3, HeapAssumption DEF Applies
<1>5. image \in PageImage /\ image.rows = s /\ image.free = RowsPerPage - Len(s)
  <2>1. CASE p < pool.count
    BY <1>0, <1>1, <1>2, <1>3, <2>1, ReplayPage
  <2>2. CASE ~(p < pool.count)
    <3>1. s = <<>> /\ image = EmptyPage
      BY <1>0, <1>1, <1>2, <1>3, <2>2, ReplayPage
    <3> QED BY <1>4, <3>1, EmptyImage DEF EmptyPage
  <2> QED BY <2>1, <2>2
<1>6. HasRoom(image)
  BY <1>4, <1>5 DEF HasRoom
<1>7. PICK x : x = SetPageLsn(InsertRow(image, r.row), d)
  OBVIOUS
<1>8. x \in PageImage /\ x.lsn = d /\ x.rows = Append(s, r.row) /\ x.free = RowsPerPage - Len(s) - 1
  BY <1>1, <1>5, <1>6, <1>7, InsertedImage
<1>9. pool' = B!Written(Looked(p), p, x) /\ next' = next + 1 /\ UNCHANGED phase
  BY <1>0, <1>1, <1>6, <1>7 DEF ApplyInsert
<1>10. x.rows = H[next][p]
  <2>1. PICK c : c = H[d]
    OBVIOUS
  <2>2. Changed(c, r)[p] = Append(s, r.row)
    BY <1>0, <1>1, <1>2, <1>3, <2>1, ChangedPage
  <2> QED BY <1>1, <1>8, <2>1, <2>2
<1>11. x.rows # <<>> /\ x.free = RowsPerPage - Len(x.rows)
  <2>1. x.rows # <<>> /\ Len(x.rows) = Len(s) + 1
    BY <1>1, <1>4, <1>8, GrownElems
  <2> QED BY <1>4, <1>8, <2>1
<1>12. p <= pool.count
  BY <1>0, <1>2, ReplayPlaces
<1> QED BY <1>0, <1>1, <1>8, <1>9, <1>10, <1>11, <1>12, AppliedTold

\* apply_update_at always finds the page and the slot.
LEMMA ApplyUpdateTold ==
  ASSUME TypeInv, NEW H, Told(H), phase = "replay", next <= Readable, NEW r, r = wal[next],
         ApplyUpdate(r), UNCHANGED <<wal, torn, rows>>
  PROVE  Told(H)'
<1>0. PICK n, d, p, image, k, y : /\ n = Len(wal) /\ d = next - 1 /\ p = r.page
                                  /\ image = B!View(pool, r.page) /\ k = r.slot /\ y = r.row
  OBVIOUS
<1>1. /\ n \in Nat /\ d \in 0..n /\ d + 1 = next /\ r \in WalRecord
      /\ p \in Page /\ y \in Row /\ PagesTell(H, n, d, pool) /\ ReadLsn(next) = d /\ d \in 0..MaxLog
      /\ H[d] \in [Page -> Seq(Row)] /\ Applies(H[d], r) /\ H[d + 1] = Changed(H[d], r)
  BY <1>0, ReplayRecord
<1>2. r.op = "UpdateRow" /\ r.op # "Insert" /\ ~(p < pool.count /\ image.lsn >= d) /\ k \in 1..RowsPerPage
  <2>1. r.op = "UpdateRow" /\ ~(p < pool.count /\ image.lsn >= d)
    BY <1>0, <1>1 DEF ApplyUpdate, AlreadyDurable
  <2>2. r.op # "Insert"
    BY <2>1
  <2> QED BY <1>0, <1>1, <2>1, <2>2, RecordFields
<1>3. PICK s : s = H[d][p]
  OBVIOUS
<1>4. s \in Seq(Row) /\ Len(s) \in Nat /\ k \in 1..Len(s) /\ s # <<>> /\ RowsPerPage \in Nat
  <2>1. s \in Seq(Row) /\ k \in 1..Len(s) /\ RowsPerPage \in Nat
    BY <1>0, <1>1, <1>2, <1>3, HeapAssumption DEF Applies
  <2> QED BY <2>1
<1>5. p < pool.count
  <2>1. ~(p < pool.count /\ B!View(pool, p).lsn >= d)
    BY <1>0, <1>2
  <2>2. ~(p < pool.count) => H[d][p] = <<>>
    BY <1>1, <2>1, ReplayPage
  <2> QED BY <1>3, <1>4, <2>2
<1>6. image \in PageImage /\ image.rows = s /\ image.free = RowsPerPage - Len(s)
  BY <1>0, <1>1, <1>2, <1>3, <1>5, ReplayPage
<1>7. HasSlot(image, k) /\ Updatable(p, k)
  BY <1>0, <1>4, <1>5, <1>6 DEF HasSlot, Updatable
<1>8. PICK x : x = SetPageLsn(UpdateRow(image, k, y), d)
  OBVIOUS
<1>9. x \in PageImage /\ x.lsn = d /\ x.rows = [s EXCEPT ![k] = y] /\ x.free = RowsPerPage - Len(s)
  BY <1>1, <1>2, <1>6, <1>8, UpdatedImage
<1>10. pool' = B!Written(Looked(p), p, x) /\ next' = next + 1 /\ UNCHANGED phase
  BY <1>0, <1>1, <1>7, <1>8 DEF ApplyUpdate
<1>11. x.rows = H[next][p]
  <2>1. PICK c : c = H[d]
    OBVIOUS
  <2>2. Changed(c, r)[p] = [s EXCEPT ![k] = y]
    BY <1>0, <1>1, <1>2, <1>3, <2>1, ChangedPage
  <2> QED BY <1>1, <1>9, <2>1, <2>2
<1>12. x.rows # <<>> /\ x.free = RowsPerPage - Len(x.rows)
  <2>1. k \in Nat
    BY <1>4
  <2>2. x.rows \in Seq(Row) /\ Len(x.rows) = Len(s)
    BY <1>1, <1>4, <1>9, <2>1, SeqRewritten
  <2>3. x.rows # <<>>
    BY <1>4, <2>2
  <2> QED BY <1>9, <2>2, <2>3
<1>13. p <= pool.count
  BY <1>1, <1>5, PageNumbers
<1> QED BY <1>0, <1>1, <1>9, <1>10, <1>11, <1>12, <1>13, AppliedTold

\* Table::open.
LEMMA ReplayTold ==
  ASSUME TypeInv, NEW H, Told(H), Replay
  PROVE  Told(H)'
<1>1. phase = "replay" /\ UNCHANGED <<wal, torn, rows>>
  BY DEF Replay
<1>2. CASE next > Readable
  <2>1. PICK n : n = Len(wal)
    OBVIOUS
  <2>2. phase' = "open" /\ UNCHANGED <<pool, next>>
    BY <1>2 DEF Replay
  <2>3. Done = n /\ Done' = n
    <3>1. Readable = Len(wal) /\ next - 1 <= Len(wal) /\ Done = next - 1 /\ next \in Nat /\ n \in Nat
      BY <1>1, <2>1, Numbers DEF Told, Done, Readable
    <3>2. next - 1 = n
      BY <1>2, <2>1, <3>1
    <3> QED BY <1>1, <2>1, <2>2, <3>1, <3>2 DEF Done
  <2>4. History(H)' /\ IdsOnce' /\ IdsPast'
    BY <1>1, SameHistory
  <2> QED BY <1>1, <2>1, <2>2, <2>3, <2>4 DEF Told
<1>3. CASE next <= Readable
  <2>1. PICK r : r = wal[next]
    OBVIOUS
  <2>2. ~(next > Readable)
    BY <1>3, Numbers
  <2>3. Skip(r) \/ ApplyInsert(r) \/ ApplyUpdate(r)
    BY <2>1, <2>2 DEF Replay
  <2> QED BY <1>1, <1>3, <2>1, <2>3, SkipTold, ApplyInsertTold, ApplyUpdateTold
<1> QED BY <1>2, <1>3, Numbers

\* What the file holds after a crash is what replay starts from.
LEMMA CrashedTold ==
  ASSUME TypeInv, NEW H, Told(H), pool' = B!Opened(pool.disk), phase' = "replay", next' = 1,
         \A p \in Page : pool.disk[p] # ZeroPage,
         NEW G, History(G)', IdsOnce', IdsPast', Continues(H, G, Len(wal)),
         Len(wal') \in Nat, Len(wal) <= Len(wal'), Len(wal') <= torn'
  PROVE  Told(G)'
<1>0. PICK n, m, d, b, c : n = Len(wal) /\ m = Len(wal') /\ d = Done /\ b = pool /\ c = pool'
  OBVIOUS
<1>1. /\ n \in Nat /\ m \in Nat /\ n <= m /\ Continues(H, G, n) /\ PagesTell(H, n, d, b)
      /\ H[0] = [p \in Page |-> <<>>]
  BY <1>0, Numbers DEF Told, History
<1>2. /\ c.disk = b.disk
      /\ \A q \in Page : /\ B!View(c, q) = b.disk[q] /\ b.disk[q] # ZeroPage
                         /\ q < c.count <=> b.disk[q] # Beyond
  BY <1>0, CrashedPool
<1>3. PagesTell(G, m, 0, c)
  BY <1>1, <1>2, CrashTells
<1>4. Done' = 0 /\ phase' # "failed"
  BY DEF Done
<1> QED BY <1>0, <1>1, <1>3, <1>4 DEF Told

\* The process dies, at any point, and no gap is found in the file.
LEMMA CrashTold ==
  ASSUME TypeInv, NEW H, Told(H), Crash, damage' = {}
  PROVE  \E G : Told(G)'
<1>0. PICK n : n = Len(wal)
  OBVIOUS
<1>1. pool' = B!Opened(pool.disk) /\ phase' = "replay" /\ next' = 1
  BY DEF Crash
<1>2. \A p \in Page : pool.disk[p] # ZeroPage
  BY DEF Crash
<1>3. wal' # wal => Len(wal) < torn
  <2>1. wal' # wal => Behind = {}
    BY DEF Crash
  <2> QED BY <2>1, Numbers DEF Behind
<1>4. CASE UNCHANGED <<wal, rows>> /\ torn' \in {torn, Readable}
  <2>1. Len(wal) <= torn' /\ Len(wal') = Len(wal) /\ Len(wal) \in Nat
    BY <1>4, Numbers DEF Told, Readable
  <2>2. History(H)' /\ IdsOnce' /\ IdsPast'
    BY <1>4, SameHistory
  <2>3. Continues(H, H, Len(wal))
    BY DEF Continues
  <2>4. Told(H)'
    BY <1>1, <1>2, <2>1, <2>2, <2>3, CrashedTold
  <2> QED BY <2>4
<1>5. ASSUME NEW r, Called(r), UNCHANGED torn PROVE \E G : Told(G)'
  <2>1. /\ Len(wal') = n + 1 /\ n \in Nat /\ wal \in Seq(WalRecord) /\ wal' = Append(wal, r)
        /\ torn \in Nat
    <3>1. torn \in Nat
      BY Numbers
    <3> QED BY <1>0, <1>5, <3>1, LogFacts
  <2>2. wal' # wal
    BY <1>0, <2>1
  <2>3. PICK G : History(G)' /\ Continues(H, G, n)
    BY <1>0, <1>5, LoggedHistory DEF Told, Continues
  <2>4. IdsOnce' /\ IdsPast'
    BY <1>5, LoggedIds DEF Told
  <2>5. Len(wal') \in Nat /\ Len(wal) <= Len(wal') /\ Len(wal') <= torn'
    BY <1>0, <1>3, <1>5, <2>1, <2>2
  <2>6. Told(G)'
    BY <1>0, <1>1, <1>2, <2>3, <2>4, <2>5, CrashedTold
  <2> QED BY <2>6
<1>6. CASE phase = "open" /\ InsertPage <= MaxPage /\ Log(InsertRecord) /\ UNCHANGED torn
  BY <1>5, <1>6, InsertCalled
<1>7. CASE /\ phase = "open" /\ UNCHANGED torn
           /\ \E p \in Page, slot \in 1..RowsPerPage : Updatable(p, slot) /\ Log(UpdateRecord(p, slot))
  BY <1>5, <1>7, UpdateCalled
<1> QED BY <1>4, <1>6, <1>7 DEF Crash

\* A new table has the history of no record.
LEMMA InitTold == Init => DataInv
<1> SUFFICES ASSUME Init PROVE \E H : Told(H)
  BY DEF DataInv
<1> DEFINE c == [p \in Page |-> <<>>]
           H == [k \in {0} |-> c]
<1>1. /\ wal = <<>> /\ Len(wal) = 0 /\ torn = MaxLog /\ phase = "replay" /\ next = 1 /\ rows = c
      /\ pool = B!Opened([p \in Page |-> Beyond])
  BY DEF Init
<1>2. /\ \A p \in Page : ~(p < pool.count) /\ pool.disk[p] = Beyond
  <2> DEFINE d == [p \in Page |-> Beyond]
  <2>1. d \in [Page -> PageImage \cup {Beyond}] /\ L!GapFree(d)
    BY SamePool DEF L!GapFree
  <2> QED BY <1>1, <2>1, OpenedPool
<1>3. Done = 0 /\ phase # "failed" /\ Len(wal) <= torn
  BY <1>1, HeapAssumption DEF Done
<1>4. H[0] = c /\ 0..0 = {0} /\ c \in [Page -> Seq(Row)]
  OBVIOUS
<1>5. \A p \in Page : Elems(c[p]) = {} /\ LastVersions(p, 0) = {}
  BY DEF Elems, LastVersions
<1>6. H \in [0..0 -> [Page -> Seq(Row)]]
  BY <1>4
<1> HIDE DEF H
<1>7. History(H)
  <2>1. H \in [0..Len(wal) -> [Page -> Seq(Row)]]
    BY <1>1, <1>6
  <2>2. H[0] = c /\ H[Len(wal)] = rows
    BY <1>1, <1>4
  <2>3. \A k \in 1..Len(wal) : FALSE
    BY <1>1
  <2>4. \A k \in 0..Len(wal) : k = 0
    BY <1>1
  <2>5. \A k \in 0..Len(wal) : \A p \in Page : Elems(H[k][p]) = LastVersions(p, k)
    BY <1>4, <1>5, <2>4
  <2> QED BY <2>1, <2>2, <2>3, <2>5 DEF History
<1>8. IdsOnce /\ IdsPast
  BY <1>1 DEF IdsOnce, IdsPast
<1>9. PagesTell(H, 0, 0, pool)
  BY <1>2, <1>4 DEF PagesTell
<1> QED BY <1>1, <1>3, <1>7, <1>8, <1>9 DEF Told

\* Nothing restores an undamaged table.
LEMMA DataStep == TypeInv /\ DataInv /\ [Next]_vars => DataInv'
<1> SUFFICES ASSUME TypeInv, DataInv, [Next]_vars, damage' = {} PROVE \E G : Told(G)'
  BY DEF DataInv
<1>1. damage = {}
  BY DEF Next, Insert, Update, Appended, Read, FetchFails, AppendFails, SyncFails, FreezeFails,
         WriteFails, Replay, Crash, Stop, vars
<1>2. PICK H : Told(H)
  BY <1>1 DEF DataInv
<1>3. CASE UNCHANGED vars
  <2>1. Told(H)'
    BY <1>2, <1>3, QuietTold DEF vars, Told, Alike, DiskFrom
  <2> QED BY <2>1
<1>4. CASE Insert
  BY <1>2, <1>4, InsertTold
<1>5. ASSUME NEW p \in Page, NEW slot \in 1..RowsPerPage, Update(p, slot) PROVE \E G : Told(G)'
  BY <1>2, <1>5, UpdateTold
<1>6. CASE AppendFails \/ \E p \in Page : Read(p) \/ FetchFails(p)
  BY <1>2, <1>6, ReadTold
<1>7. CASE \/ WriteFails \/ SyncFails
           \/ \E p \in Page, slot \in 1..RowsPerPage : FreezeFails(p, slot)
  BY <1>7 DEF WriteFails, SyncFails, FreezeFails, Appended
<1>8. CASE Replay
  BY <1>2, <1>8, ReplayTold
<1>9. CASE Crash
  BY <1>2, <1>9, CrashTold
<1> QED BY <1>3, <1>4, <1>5, <1>6, <1>7, <1>8, <1>9 DEF Next, Stop

\* For any number of pages, rows in a page, frames, records and upsets: as
\* long as none of the four mishaps has happened, open() never fails, and a
\* table that serves shows in each page just the rows the logged records call
\* for, through evictions, operations that fail before their record is
\* complete, torn records, and crashes at any point of the log and of the replay.
THEOREM RecoveryCorrect == Spec => []RecoversExactly
<1>1. TypeInv /\ DataInv => RecoversExactly
  <2> SUFFICES ASSUME TypeInv, DataInv, damage = {} PROVE RowsIntact
    BY DEF RecoversExactly
  <2>1. PICK H : Told(H)
    BY DEF DataInv
  <2>2. phase # "failed"
    BY <2>1 DEF Told
  <2>3. ASSUME phase = "open", NEW p \in Page
        PROVE  rows[p] = IF p < pool.count THEN B!View(pool, p).rows ELSE <<>>
    <3>1. CASE p < pool.count
      BY <2>1, <2>3, <3>1, OpenRows
    <3>2. CASE ~(p < pool.count)
      BY <2>1, <2>3, <3>2, OpenRows
    <3> QED BY <3>1, <3>2
  <2> QED BY <2>2, <2>3 DEF RowsIntact
<1> QED BY <1>1, InitTypes, TypeStep, InitTold, DataStep, PTL DEF Spec

\* Likewise a page on disk holds just the latest versions of the rows that the
\* records up to its LSN put there, and its LSN is that of a record of the log:
\* what lets replay pass over the records up to the LSN.
THEOREM LsnCorrect == Spec => []LsnTellsContent
<1>1. TypeInv /\ DataInv => LsnTellsContent
  <2> SUFFICES ASSUME TypeInv, DataInv, damage = {}, NEW p \in Page, NEW image, image = pool.disk[p],
                      image \notin {Beyond, ZeroPage}
               PROVE  /\ image.lsn < Len(wal)
                      /\ {image.rows[i] : i \in DOMAIN image.rows} = LastVersions(p, image.lsn + 1)
    BY DEF LsnTellsContent
  <2>1. PICK H : Told(H)
    BY DEF DataInv
  <2>2. PICK n, l : n = Len(wal) /\ l = image.lsn
    OBVIOUS
  <2>3. Good(H, n, image, p)
    BY <2>1, <2>2 DEF Told, PagesTell
  <2>4. l < n /\ l \in Nat /\ n \in Nat /\ image.rows \in Seq(Row) /\ image.rows = H[l + 1][p]
    <3>1. image \in PageImage /\ l < n /\ image.rows = H[l + 1][p]
      BY <2>2, <2>3 DEF Good
    <3>2. image.lsn \in Nat /\ image.rows \in Seq(Row)
      BY <3>1, HeapAssumption DEF PageImage
    <3> QED BY <2>2, <3>1, <3>2, Numbers
  <2>5. l + 1 \in 0..n
    BY <2>4
  <2>6. Elems(H[l + 1][p]) = LastVersions(p, l + 1)
    BY <2>1, <2>2, <2>5 DEF Told, History
  <2>7. DOMAIN image.rows = 1..Len(image.rows)
    BY <2>4
  <2> QED BY <2>2, <2>4, <2>6, <2>7 DEF Elems
<1> QED BY <1>1, InitTypes, TypeStep, InitTold, DataStep, PTL DEF Spec
================================================================================
