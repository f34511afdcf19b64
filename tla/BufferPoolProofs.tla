--------------------------- MODULE BufferPoolProofs ---------------------------
(***************************************************************************)
(* Machine-checked theorems about BufferPool, for any number of pages, any *)
(* capacity and any number of failed writes.                               *)
(***************************************************************************)
EXTENDS BufferPool, TLAPS, WellFoundedInduction, FiniteSetTheorems

\* A clean frame holds what the file holds.
CleanOnDisk(b) == \A p \in Cached(b) \ Dirty(b) : b.frames[p].page = b.disk[p]

\* The pages that can be read are those below page_count.
Contiguous(b) == \A p \in Page : p < b.count <=> View(b, p) # Beyond

Sound(b) == b \in Pool /\ CleanOnDisk(b) /\ Contiguous(b)

\* Both pools read alike and differ on disk by some set of pages brought up to date.
SameView(b, c) == \A p \in Page : View(c, p) = View(b, p)
Persisted(b, c) ==
    \E S \in SUBSET {p \in Page : View(b, p) # Beyond} :
        c.disk = StoreWrite(b.disk, S, [p \in Page |-> View(b, p)])

\* What a page reads as is an image, or nothing.
LEMMA ViewType ==
  ASSUME NEW b \in Pool, NEW p \in Page
  PROVE  /\ View(b, p) \in Image \cup {Beyond}
         /\ p \in Cached(b) => b.frames[p] \in Frame /\ View(b, p) \in Image /\ View(b, p) # Beyond
BY PoolAssumption DEF Pool, View, Cached, Frame

\* Removing a page from lru_order leaves a sequence of pages.
LEMMA WithoutType ==
  ASSUME NEW s \in Seq(Page), NEW p \in Page
  PROVE  Without(s, p) \in Seq(Page)
<1>1. CASE ~ \E i \in DOMAIN s : s[i] = p
  BY <1>1 DEF Without
<1>2. CASE \E i \in DOMAIN s : s[i] = p
  <2> DEFINE i == CHOOSE i \in DOMAIN s : s[i] = p
  <2>1. i \in 1..Len(s) /\ Len(s) \in Nat
    BY <1>2
  <2> HIDE DEF i
  <2>2. SubSeq(s, 1, i - 1) \in Seq(Page) /\ SubSeq(s, i + 1, Len(s)) \in Seq(Page)
    BY <2>1
  <2>3. SubSeq(s, 1, i - 1) \o SubSeq(s, i + 1, Len(s)) \in Seq(Page)
    BY <2>2
  <2> QED BY <1>2, <2>3 DEF Without, i
<1> QED BY <1>1, <1>2

\* touch changes nothing a reader sees.
LEMMA TouchedSound ==
  ASSUME NEW b, Sound(b), NEW p \in Page
  PROVE  /\ Sound(Touched(b, p)) /\ SameView(b, Touched(b, p))
         /\ Touched(b, p).disk = b.disk /\ Touched(b, p).count = b.count
<1> DEFINE c == Touched(b, p)
<1>1. Append(Without(b.lru, p), p) \in Seq(Page)
  BY WithoutType DEF Sound, Pool
<1>2. c = [b EXCEPT !.lru = Append(Without(b.lru, p), p)]
  BY DEF Touched
<1>3. /\ c \in Pool /\ c.frames = b.frames /\ c.disk = b.disk /\ c.count = b.count
  BY <1>1, <1>2 DEF Sound, Pool
<1> HIDE DEF c
<1>4. Cached(c) = Cached(b) /\ Dirty(c) = Dirty(b) /\ SameView(b, c)
  BY <1>3 DEF Cached, Dirty, SameView, View
<1>5. CleanOnDisk(c) /\ Contiguous(c)
  BY <1>3, <1>4 DEF Sound, CleanOnDisk, Contiguous, SameView
<1> QED BY <1>3, <1>4, <1>5 DEF Sound, c

\* Taking a page off lru_order changes nothing a reader sees.
LEMMA PoppedSound ==
  ASSUME NEW b, Sound(b), b.lru # <<>>
  PROVE  /\ Sound(Popped(b)) /\ SameView(b, Popped(b)) /\ Head(b.lru) \in Page
         /\ Popped(b).disk = b.disk /\ Popped(b).count = b.count
         /\ Popped(b).frames = b.frames
<1> DEFINE c == Popped(b)
<1>1. Tail(b.lru) \in Seq(Page) /\ Head(b.lru) \in Page
  BY DEF Sound, Pool
<1>2. c = [b EXCEPT !.lru = Tail(b.lru)]
  BY DEF Popped
<1>3. /\ c \in Pool /\ c.frames = b.frames /\ c.disk = b.disk /\ c.count = b.count
  BY <1>1, <1>2 DEF Sound, Pool
<1> HIDE DEF c
<1>4. Cached(c) = Cached(b) /\ Dirty(c) = Dirty(b) /\ SameView(b, c)
  BY <1>3 DEF Cached, Dirty, SameView, View
<1>5. CleanOnDisk(c) /\ Contiguous(c)
  BY <1>3, <1>4 DEF Sound, CleanOnDisk, Contiguous, SameView
<1> QED BY <1>1, <1>3, <1>4, <1>5 DEF Sound, c

\* Flushing any pages leaves the reader's view alone, brings the dirty ones
\* among them to disk, and only touches the file where a page exists.
LEMMA FlushedSound ==
  ASSUME NEW b, Sound(b), NEW S \in SUBSET Page
  PROVE  /\ Sound(Flushed(b, S)) /\ SameView(b, Flushed(b, S)) /\ Persisted(b, Flushed(b, S))
         /\ Flushed(b, S).count = b.count /\ Flushed(b, S).lru = b.lru
         /\ Cached(Flushed(b, S)) = Cached(b) /\ Dirty(Flushed(b, S)) = Dirty(b) \ S
<1> DEFINE c == Flushed(b, S)
           D == S \cap Dirty(b)
           fr == [p \in Page |-> IF p \in D THEN [b.frames[p] EXCEPT !.dirty = FALSE]
                                            ELSE b.frames[p]]
           dk == StoreWrite(b.disk, D, [p \in Page |-> View(b, p)])
<1>1. c = [b EXCEPT !.disk = dk, !.frames = fr]
  BY DEF Flushed
<1>2. D \subseteq Cached(b) /\ D \subseteq Page
  BY DEF Dirty, Cached
<1>3. fr \in [Page -> Frame \cup {NotCached}]
  BY <1>2 DEF Sound, Pool, Cached, Frame
<1>4. \A p \in Page : View(b, p) \in Image \cup {Beyond}
  BY ViewType DEF Sound
<1>5. D \subseteq {p \in Page : View(b, p) # Beyond} /\ \A p \in D : View(b, p) \in Image
  BY <1>2, ViewType DEF Sound
<1>6. dk \in [Page -> Image \cup {Beyond}]
  BY <1>5, PoolAssumption DEF StoreWrite, Sound, Pool
<1>7. c \in Pool /\ c.frames = fr /\ c.disk = dk /\ c.count = b.count /\ c.lru = b.lru
  BY <1>1, <1>3, <1>6 DEF Sound, Pool
<1>8. \A p \in Page : /\ p \in D => fr[p] \in Frame /\ fr[p].page = b.frames[p].page
                                    /\ ~fr[p].dirty /\ fr[p] # NotCached
                      /\ p \notin D => fr[p] = b.frames[p]
  BY <1>2, PoolAssumption DEF Sound, Pool, Cached, Frame
<1>9. Cached(c) = Cached(b)
  BY <1>2, <1>7, <1>8 DEF Cached
<1>10. Dirty(c) = Dirty(b) \ S
  <2> HIDE DEF c, fr, dk
  <2>1. \A p \in Page : p \in Dirty(c) <=> p \in Cached(b) /\ fr[p].dirty
    BY <1>7, <1>9 DEF Dirty
  <2>2. \A p \in Page : p \in Cached(b) => (fr[p].dirty <=> p \in Dirty(b) /\ p \notin D)
    BY <1>8 DEF Dirty
  <2>3. Dirty(c) \subseteq Page /\ Dirty(b) \subseteq Page
    BY DEF Dirty, Cached
  <2>4. \A p \in Page : p \in Dirty(c) <=> p \in Dirty(b) \ S
    BY <2>1, <2>2 DEF Dirty
  <2> QED BY <2>3, <2>4
<1>11. \A p \in Page : /\ p \in D => dk[p] = View(b, p)
                       /\ p \notin D /\ b.disk[p] # Beyond => dk[p] = b.disk[p]
                       /\ p \notin D /\ dk[p] # b.disk[p] => \E q \in D : p < q
  BY DEF StoreWrite
<1> HIDE DEF c, D, fr, dk
\* The gap below a flushed page holds no readable page that is not cached.
<1>12. ASSUME NEW p \in Page, p \notin Cached(b) PROVE dk[p] = b.disk[p]
  <2>1. SUFFICES ASSUME NEW q \in D, p < q, b.disk[p] = Beyond PROVE FALSE
    BY <1>2, <1>11, <1>12
  <2>2. q \in Page /\ q < b.count
    BY <1>2, <1>5, <2>1 DEF Sound, Contiguous
  <2>3. p < b.count
    BY <2>1, <2>2 DEF Page, Sound, Pool
  <2> QED BY <1>12, <2>1, <2>3 DEF Sound, Contiguous, View
<1>13. SameView(b, c)
  BY <1>7, <1>8, <1>9, <1>12 DEF SameView, View
<1>14. CleanOnDisk(c)
  <2> SUFFICES ASSUME NEW p \in Cached(c) \ Dirty(c) PROVE c.frames[p].page = c.disk[p]
    BY DEF CleanOnDisk
  <2>0. p \in Page
    BY DEF Cached
  <2>1. CASE p \in D
    BY <1>2, <1>7, <1>8, <1>11, <2>0, <2>1 DEF View
  <2>2. CASE p \notin D
    <3>1. b.frames[p].page = b.disk[p]
      BY <1>9, <1>10, <2>2 DEF Sound, CleanOnDisk, D
    <3>2. b.disk[p] # Beyond
      BY <1>9, <2>0, <3>1, ViewType DEF Sound, View
    <3> QED BY <1>7, <1>8, <1>11, <2>0, <2>2, <3>1, <3>2
  <2> QED BY <2>1, <2>2
<1>15. Contiguous(c)
  BY <1>7, <1>13 DEF Sound, Contiguous, SameView
<1>16. Persisted(b, c)
  BY <1>5, <1>7 DEF Persisted, dk
<1> QED BY <1>7, <1>9, <1>10, <1>13, <1>14, <1>15, <1>16 DEF Sound, c

\* Evicting the head of lru_order changes nothing a reader sees.
LEMMA EvictedSound ==
  ASSUME NEW b, Sound(b), b.lru # <<>>
  PROVE  /\ Sound(Evicted(b)) /\ SameView(b, Evicted(b)) /\ Persisted(b, Evicted(b))
         /\ Evicted(b).count = b.count /\ Evicted(b).lru = Tail(b.lru)
         /\ Cached(Evicted(b)) = Cached(b) \ {Head(b.lru)}
<1> DEFINE v == Head(b.lru)
           f == Flushed(Popped(b), {v})
           room == Evicted(b)
<1>1. /\ Sound(Popped(b)) /\ SameView(b, Popped(b)) /\ v \in Page
      /\ Popped(b).disk = b.disk /\ Popped(b).count = b.count /\ Popped(b).frames = b.frames
  BY PoppedSound
<1>2. /\ Sound(f) /\ SameView(Popped(b), f) /\ Persisted(Popped(b), f) /\ f.count = b.count
      /\ Cached(f) = Cached(Popped(b)) /\ Dirty(f) = Dirty(Popped(b)) \ {v}
      /\ f.lru = Popped(b).lru
  BY <1>1, FlushedSound
<1>3. Cached(Popped(b)) = Cached(b) /\ Popped(b).lru = Tail(b.lru)
  BY <1>1 DEF Cached, Popped, Sound, Pool
<1> HIDE DEF f, v
<1>4. room = [f EXCEPT !.frames = [f.frames EXCEPT ![v] = NotCached]]
  BY DEF Evicted, f, v
<1> HIDE DEF room
<1>5. /\ room \in Pool /\ room.disk = f.disk /\ room.count = f.count /\ room.lru = f.lru
      /\ \A q \in Page : room.frames[q] = IF q = v THEN NotCached ELSE f.frames[q]
  BY <1>1, <1>2, <1>4 DEF Sound, Pool
<1>6. Cached(room) = Cached(f) \ {v} /\ Dirty(room) = Dirty(f) \ {v}
  BY <1>5 DEF Cached, Dirty
<1>7. SameView(f, room)
  <2>1. v \in Cached(f) => f.frames[v].page = f.disk[v]
    BY <1>2 DEF Sound, CleanOnDisk
  <2> QED BY <1>5, <1>6, <2>1 DEF SameView, View
<1>8. CleanOnDisk(room)
  BY <1>2, <1>5, <1>6 DEF Sound, CleanOnDisk, Cached
<1>9. Contiguous(room)
  BY <1>2, <1>5, <1>7 DEF Sound, Contiguous, SameView
<1>10. SameView(b, room) /\ room.count = b.count
  BY <1>1, <1>2, <1>5, <1>7 DEF SameView
<1>11. Persisted(b, room)
  <2>1. [q \in Page |-> View(b, q)] = [q \in Page |-> View(Popped(b), q)]
    BY <1>1 DEF SameView
  <2> QED BY <1>1, <1>2, <1>5, <2>1 DEF Persisted, SameView
<1> QED BY <1>2, <1>3, <1>5, <1>6, <1>8, <1>9, <1>10, <1>11 DEF Sound, room, v

\* insert_into_cache, with or without an eviction: the page reads as inserted,
\* every other page as before.  A clean insertion must match the file.
LEMMA InsertedSound ==
  ASSUME NEW b, Sound(b), NEW p \in Page, NEW img \in Image, NEW dirty \in BOOLEAN,
         dirty = TRUE \/ (p \notin Cached(b) /\ b.disk[p] = img)
  PROVE  LET c == InsertedIntoCache(b, p, img, dirty)
         IN  /\ c \in Pool /\ CleanOnDisk(c) /\ c.count = b.count
             /\ View(c, p) = img
             /\ \A q \in Page \ {p} : View(c, q) = View(b, q)
             /\ Persisted(b, c)
<1> DEFINE room == IF MustEvict(b, p) THEN Evicted(b) ELSE b
           d == dirty \/ p \in Dirty(room)
           frame == [page |-> img, dirty |-> d]
           e == [room EXCEPT !.frames = [@ EXCEPT ![p] = frame]]
\* Making room changes no page's view, and p's entry on disk only if cached.
<1>1. /\ Sound(room) /\ SameView(b, room) /\ Persisted(b, room) /\ room.count = b.count
      /\ ~dirty => p \notin Cached(room) /\ room.disk[p] = img
  <2>1. CASE ~MustEvict(b, p)
    <3>1. Persisted(b, b)
      <4>1. b.disk = StoreWrite(b.disk, {}, [q \in Page |-> View(b, q)])
        BY DEF StoreWrite, Sound, Pool
      <4> QED BY <4>1 DEF Persisted
    <3> QED BY <2>1, <3>1 DEF SameView
  <2>2. CASE MustEvict(b, p)
    <3>1. /\ Sound(room) /\ SameView(b, room) /\ Persisted(b, room) /\ room.count = b.count
          /\ Cached(room) \subseteq Cached(b)
      BY <2>2, EvictedSound DEF MustEvict
    <3> HIDE DEF room
    <3>2. ~dirty => p \notin Cached(room)
      BY <3>1
    <3>3. ~dirty => View(room, p) = img
      BY <3>1 DEF SameView, View
    <3> QED BY <3>1, <3>2, <3>3 DEF View
  <2> QED BY <2>1, <2>2
<1>2. d \in BOOLEAN /\ (p \in Dirty(room) => d) /\ (~d => ~dirty)
  OBVIOUS
<1> HIDE DEF room, d
<1>3. /\ frame \in Frame /\ frame # NotCached /\ frame.page = img /\ frame.dirty = d
  BY <1>2, PoolAssumption DEF Frame
<1> HIDE DEF frame
<1>4. /\ e \in Pool /\ e.disk = room.disk /\ e.count = room.count
      /\ \A q \in Page : e.frames[q] = IF q = p THEN frame ELSE room.frames[q]
  BY <1>1, <1>3 DEF Sound, Pool
<1> HIDE DEF e
<1>5. /\ Cached(e) = Cached(room) \cup {p}
      /\ \A q \in Page \ {p} : q \in Dirty(e) <=> q \in Dirty(room)
      /\ p \in Dirty(e) <=> d
  BY <1>3, <1>4 DEF Cached, Dirty
<1>6. View(e, p) = img /\ \A q \in Page \ {p} : View(e, q) = View(room, q)
  BY <1>3, <1>4, <1>5 DEF View
<1>7. CleanOnDisk(e)
  <2> SUFFICES ASSUME NEW q \in Cached(e) \ Dirty(e) PROVE e.frames[q].page = e.disk[q]
    BY DEF CleanOnDisk
  <2>1. CASE q = p
    BY <1>1, <1>2, <1>3, <1>4, <1>5, <2>1
  <2>2. CASE q # p
    BY <1>1, <1>4, <1>5, <2>2 DEF Sound, CleanOnDisk, Cached
  <2> QED BY <2>1, <2>2
<1>8. \A c : c = Touched(e, p) =>
         /\ c \in Pool /\ c.frames = e.frames /\ c.disk = e.disk /\ c.count = e.count
  <2>1. Append(Without(e.lru, p), p) \in Seq(Page)
    BY <1>4, WithoutType DEF Pool
  <2> QED BY <1>4, <2>1 DEF Touched, Pool
<1> DEFINE c == Touched(e, p)
<1>9. /\ c \in Pool /\ c.frames = e.frames /\ c.disk = e.disk /\ c.count = e.count
  BY <1>8
<1>10. InsertedIntoCache(b, p, img, dirty) = c
  BY DEF InsertedIntoCache, e, room, frame, d
<1> HIDE DEF c
<1>11. Cached(c) = Cached(e) /\ Dirty(c) = Dirty(e) /\ \A q \in Page : View(c, q) = View(e, q)
  BY <1>9 DEF Cached, Dirty, View
<1>12. CleanOnDisk(c)
  BY <1>7, <1>9, <1>11 DEF CleanOnDisk
<1>13. Persisted(b, c)
  BY <1>1, <1>4, <1>9 DEF Persisted
<1> QED BY <1>1, <1>4, <1>6, <1>9, <1>10, <1>11, <1>12, <1>13 DEF SameView

\* The two ways the pool inserts: a written page, and one read from the file.
LEMMA InsertedDirty ==
  ASSUME NEW b, Sound(b), NEW p \in Page, NEW img \in Image
  PROVE  /\ InsertedIntoCache(b, p, img, TRUE) \in Pool
         /\ CleanOnDisk(InsertedIntoCache(b, p, img, TRUE))
         /\ InsertedIntoCache(b, p, img, TRUE).count = b.count
         /\ View(InsertedIntoCache(b, p, img, TRUE), p) = img
         /\ \A q \in Page \ {p} : View(InsertedIntoCache(b, p, img, TRUE), q) = View(b, q)
         /\ Persisted(b, InsertedIntoCache(b, p, img, TRUE))
<1>1. PICK d \in BOOLEAN : d = TRUE
  OBVIOUS
<1> DEFINE c == InsertedIntoCache(b, p, img, d)
<1>2. /\ c \in Pool /\ CleanOnDisk(c) /\ c.count = b.count
      /\ View(c, p) = img
      /\ \A q \in Page \ {p} : View(c, q) = View(b, q)
      /\ Persisted(b, c)
  BY <1>1, InsertedSound, ZenonT(60)
<1> QED BY <1>1, <1>2

\* A page read from the file changes nothing that the pool shows.
LEMMA InsertedClean ==
  ASSUME NEW b, Sound(b), NEW p \in Page, p \notin Cached(b), b.disk[p] \in Image
  PROVE  /\ InsertedIntoCache(b, p, b.disk[p], FALSE) \in Pool
         /\ CleanOnDisk(InsertedIntoCache(b, p, b.disk[p], FALSE))
         /\ InsertedIntoCache(b, p, b.disk[p], FALSE).count = b.count
         /\ View(InsertedIntoCache(b, p, b.disk[p], FALSE), p) = b.disk[p]
         /\ \A q \in Page \ {p} : View(InsertedIntoCache(b, p, b.disk[p], FALSE), q) = View(b, q)
         /\ Persisted(b, InsertedIntoCache(b, p, b.disk[p], FALSE))
<1>1. PICK d \in BOOLEAN : d = FALSE
  OBVIOUS
<1> DEFINE c == InsertedIntoCache(b, p, b.disk[p], d)
<1>2. /\ c \in Pool /\ CleanOnDisk(c) /\ c.count = b.count
      /\ View(c, p) = b.disk[p]
      /\ \A q \in Page \ {p} : View(c, q) = View(b, q)
      /\ Persisted(b, c)
  BY <1>1, InsertedSound, ZenonT(60)
<1> QED BY <1>1, <1>2

\* A step that changes nothing on disk brings no page to it.
LEMMA SameDisk ==
  ASSUME NEW b, Sound(b), NEW c, c.disk = b.disk
  PROVE  Persisted(b, c)
<1>1. b.disk = StoreWrite(b.disk, {}, [q \in Page |-> View(b, q)])
  BY DEF StoreWrite, Sound, Pool
<1> QED BY <1>1 DEF Persisted

\* fetch_page of a page that exists changes nothing a reader sees.
LEMMA FetchedSound ==
  ASSUME NEW b, Sound(b), NEW p \in Page, p < b.count
  PROVE  /\ Sound(Fetched(b, p)) /\ SameView(b, Fetched(b, p)) /\ Persisted(b, Fetched(b, p))
         /\ Fetched(b, p).count = b.count
<1>1. CASE p \in Cached(b)
  <2>1. Fetched(b, p) = Touched(b, p)
    BY <1>1 DEF Fetched
  <2> QED BY <2>1, TouchedSound, SameDisk
<1>2. CASE p \notin Cached(b)
  <2> DEFINE c == InsertedIntoCache(b, p, b.disk[p], FALSE)
  <2>1. b.disk[p] \in Image
    BY <1>2 DEF Sound, Contiguous, View, Pool
  <2>2. /\ c \in Pool /\ CleanOnDisk(c) /\ c.count = b.count
        /\ View(c, p) = b.disk[p]
        /\ \A q \in Page \ {p} : View(c, q) = View(b, q)
        /\ Persisted(b, c)
    BY <1>2, <2>1, InsertedClean
  <2>3. Fetched(b, p) = c
    BY <1>2 DEF Fetched
  <2> HIDE DEF c
  <2>4. SameView(b, c)
    BY <1>2, <2>2 DEF SameView, View
  <2>5. Sound(c)
    BY <2>2, <2>4 DEF Sound, Contiguous, SameView
  <2> QED BY <2>2, <2>3, <2>4, <2>5
<1> QED BY <1>1, <1>2

\* write_page, at a page that exists or at page_count.
LEMMA WrittenSound ==
  ASSUME NEW b, Sound(b), NEW p \in Page, p <= b.count, NEW img \in Image
  PROVE  /\ Sound(Written(b, p, img)) /\ Persisted(b, Written(b, p, img))
         /\ Written(b, p, img).count = IF b.count > p THEN b.count ELSE p + 1
         /\ View(Written(b, p, img), p) = img
         /\ \A q \in Page \ {p} : View(Written(b, p, img), q) = View(b, q)
<1> DEFINE c == InsertedIntoCache(b, p, img, TRUE)
           n == IF b.count > p THEN b.count ELSE p + 1
           w == Written(b, p, img)
<1>1. /\ c \in Pool /\ CleanOnDisk(c) /\ c.count = b.count /\ View(c, p) = img
      /\ \A q \in Page \ {p} : View(c, q) = View(b, q)
      /\ Persisted(b, c)
  BY InsertedDirty
<1>2. w = [c EXCEPT !.count = n]
  BY <1>1 DEF Written
<1> HIDE DEF c, w
<1>3. b.count \in 0..(MaxPage + 1) /\ p \in 0..MaxPage /\ MaxPage \in Nat
  BY PoolAssumption DEF Sound, Pool, Page
<1>4. n \in 0..(MaxPage + 1) /\ \A q \in Page : q < n <=> q < b.count \/ q = p
  BY <1>3 DEF Page
<1> HIDE DEF n
<1>5. /\ w \in Pool /\ w.frames = c.frames /\ w.disk = c.disk /\ w.count = n
  BY <1>1, <1>2, <1>4 DEF Pool
<1>6. /\ Cached(w) = Cached(c) /\ Dirty(w) = Dirty(c)
      /\ \A q \in Page : View(w, q) = View(c, q)
  BY <1>5 DEF Cached, Dirty, View
<1>7. CleanOnDisk(w)
  BY <1>1, <1>5, <1>6 DEF CleanOnDisk
<1>8. Contiguous(w)
  BY <1>1, <1>4, <1>5, <1>6, PoolAssumption DEF Sound, Contiguous
<1>9. Persisted(b, w)
  BY <1>1, <1>5 DEF Persisted
<1> QED BY <1>1, <1>5, <1>6, <1>7, <1>8, <1>9 DEF Sound, w, n

\* The file has no gap: writing fills what lies below.
GapFree(d) == \A p, q \in Page : q < p /\ d[p] # Beyond => d[q] # Beyond

\* Bringing pages that exist to disk leaves no gap: StoreWrite fills what lies below.
LEMMA PersistedGapFree ==
  ASSUME NEW b, NEW c, Sound(b), GapFree(b.disk), Persisted(b, c)
  PROVE  GapFree(c.disk)
<1>1. PICK S \in SUBSET {p \in Page : View(b, p) # Beyond} :
         c.disk = StoreWrite(b.disk, S, [p \in Page |-> View(b, p)])
  BY DEF Persisted
<1>2. \A p \in Page : /\ c.disk[p] # Beyond => b.disk[p] # Beyond \/ p \in S \/ \E q \in S : p < q
                      /\ b.disk[p] # Beyond \/ p \in S \/ (\E q \in S : p < q)
                            => c.disk[p] # Beyond
  BY <1>1, PoolAssumption DEF StoreWrite
<1>3. SUFFICES ASSUME NEW p \in Page, NEW q \in Page, q < p, c.disk[p] # Beyond
               PROVE  c.disk[q] # Beyond
  BY DEF GapFree
<1>4. CASE b.disk[p] # Beyond
  BY <1>2, <1>3, <1>4 DEF GapFree
<1>5. CASE p \in S
  BY <1>2, <1>3, <1>5
<1>6. CASE \E r \in S : p < r
  BY <1>2, <1>3, <1>6 DEF Page
<1> QED BY <1>2, <1>3, <1>4, <1>5, <1>6

\* Opening a file without gaps shows what the file holds.
LEMMA OpenedSound ==
  ASSUME NEW d \in [Page -> Image \cup {Beyond}], GapFree(d)
  PROVE  /\ Sound(Opened(d)) /\ Opened(d).disk = d
         /\ \A p \in Page : View(Opened(d), p) = d[p]
<1> DEFINE H == {p \in Page : d[p] # Beyond}
           n == Cardinality(H)
           frames == [p \in Page |-> NotCached]
<1>1. \E m \in 0..(MaxPage + 1) : H = 0..(m - 1)
  <2> DEFINE M == {m \in 0..(MaxPage + 1) : \A q \in Page : q < m => q \in H}
             P(k) == k \in M => k = MaxPage + 1 \/ k + 1 \in M
  <2>1. 0 \in M
    BY PoolAssumption DEF Page
  <2>2. MaxPage + 1 \in M => H = 0..MaxPage
    BY PoolAssumption DEF Page
  \* The first page missing from the file ends it.
  <2>3. CASE MaxPage + 1 \in M
    BY <2>2, <2>3, PoolAssumption
  <2>4. CASE MaxPage + 1 \notin M
    <3>1. \E q \in Page : q \notin H
      BY <2>4, PoolAssumption
    <3>2. PICK q \in Page : q \notin H /\ \A r \in Page : r < q => r \in H
      <4> DEFINE G == Page \ H
      <4>1. G \subseteq Nat /\ G # {}
        BY <3>1, PoolAssumption DEF Page
      <4> HIDE DEF H
      <4>2. PICK q \in G : \A y \in G : ~(<<y, q>> \in OpToRel(<, Nat))
        BY <4>1, NatLessThanWellFounded, WFMin, Zenon
      <4>3. \A y \in G : ~(y < q)
        BY <4>1, <4>2 DEF OpToRel
      <4> QED BY <4>3
    <3>3. \A r \in Page : r > q => r \notin H
      BY <3>2 DEF GapFree
    <3>4. H = 0..(q - 1) /\ q \in 0..(MaxPage + 1)
      <4>1. \A r \in Page : r \in H <=> r < q
        BY <3>2, <3>3, PoolAssumption DEF Page
      <4> QED BY <4>1, PoolAssumption DEF Page
    <3> QED BY <3>4
  <2> QED BY <2>3, <2>4
<1>2. n \in 0..(MaxPage + 1) /\ H = 0..(n - 1)
  <2>1. PICK m \in 0..(MaxPage + 1) : H = 0..(m - 1)
    BY <1>1
  <2>2. Cardinality(0..(m - 1)) = m
    BY <2>1, FS_Interval, PoolAssumption
  <2> QED BY <2>1, <2>2
<1> HIDE DEF n
<1>3. Opened(d) = [frames |-> frames, lru |-> <<>>, disk |-> d, count |-> n]
  BY DEF Opened, n
<1>4. Opened(d) \in Pool /\ Opened(d).disk = d /\ Opened(d).count = n
  BY <1>2, <1>3 DEF Pool
<1>5. Cached(Opened(d)) = {}
  BY <1>3 DEF Cached
<1>6. \A p \in Page : View(Opened(d), p) = d[p]
  BY <1>4, <1>5 DEF View
<1>7. \A p \in Page : p < n <=> d[p] # Beyond
  BY <1>2, PoolAssumption DEF Page
<1> QED BY <1>4, <1>5, <1>6, <1>7 DEF Sound, CleanOnDisk, Contiguous

(***************************************************************************)
(* The invariant and the refinement.                                       *)
(***************************************************************************)

\* The inductive invariant: what the pool shows is anchored in the file.
PoolInv == Sound(pool) /\ GapFree(pool.disk) /\ failures \in 0..MaxFailures

\* BufferPool::open on a new file: the invariant holds and nothing is stored.
LEMMA PoolInvInit == Init => PoolInv /\ Promise!Init
<1> SUFFICES ASSUME Init PROVE PoolInv /\ Promise!Init
  OBVIOUS
<1> DEFINE d == [p \in Page |-> Beyond]
<1>1. d \in [Page -> Image \cup {Beyond}] /\ GapFree(d)
  BY DEF GapFree
<1>2. Sound(Opened(d)) /\ Opened(d).disk = d /\ \A p \in Page : View(Opened(d), p) = d[p]
  BY <1>1, OpenedSound
<1> QED BY <1>1, <1>2, PoolAssumption DEF Init, PoolInv, Promise!Init, Promise!Page, Page

\* A step that keeps the view and brings some pages to disk.
LEMMA QuietPool ==
  ASSUME PoolInv, failures' \in 0..MaxFailures,
         Sound(pool'), SameView(pool, pool'), Persisted(pool, pool')
  PROVE  PoolInv' /\ Promise!Read
<1>1. GapFree(pool'.disk)
  BY PersistedGapFree DEF PoolInv
<1>2. [p \in Page |-> View(pool', p)] = [p \in Page |-> View(pool, p)]
  BY DEF SameView
<1>3. Promise!Persist
  BY DEF Persisted, StoreWrite, Promise!Persist, Promise!Page, Page
<1> QED BY <1>1, <1>2, <1>3 DEF PoolInv, Promise!Read, Promise!Page, Page

\* Every operation of the pool preserves the invariant and is a step of PageMap.
LEMMA PoolStep == PoolInv /\ [Next]_vars => PoolInv' /\ [Promise!Next]_(Promise!vars)
<1> SUFFICES ASSUME PoolInv, [Next]_vars PROVE PoolInv' /\ [Promise!Next]_(Promise!vars)
  OBVIOUS
<1>0. Sound(pool) /\ failures \in 0..MaxFailures /\ MaxFailures \in Nat
  BY PoolAssumption DEF PoolInv
<1>1. ASSUME NEW p \in Page, Fetch(p) PROVE PoolInv' /\ Promise!Read
  BY <1>0, <1>1, FetchedSound, QuietPool DEF Fetch
<1>2. ASSUME NEW p \in Page, NEW img \in Image, WritePage(p, img)
      PROVE  PoolInv' /\ Promise!Write(p, img)
  <2>1. /\ Sound(pool') /\ Persisted(pool, pool')
        /\ View(pool', p) = img
        /\ \A q \in Page \ {p} : View(pool', q) = View(pool, q)
    BY <1>0, <1>2, WrittenSound DEF WritePage
  <2>2. GapFree(pool'.disk)
    BY <1>0, <2>1, PersistedGapFree DEF PoolInv
  <2>3. Promise!Persist
    BY <2>1 DEF Persisted, StoreWrite, Promise!Persist, Promise!Page, Page
  <2>4. [q \in Page |-> View(pool', q)] = [[q \in Page |-> View(pool, q)] EXCEPT ![p] = img]
    BY <2>1
  <2>5. \A q \in Page : q < p => View(pool, q) # Beyond
    <3>1. pool.count \in Nat /\ p <= pool.count
      BY <1>0, <1>2, PoolAssumption DEF WritePage, Sound, Pool
    <3> QED BY <1>0, <3>1, PoolAssumption DEF Sound, Contiguous, Page
  <2> QED BY <1>0, <1>2, <2>1, <2>2, <2>3, <2>4, <2>5
          DEF PoolInv, WritePage, Promise!Write, Promise!Page, Page
<1>3. ASSUME NEW S \in SUBSET Page, pool' = Flushed(pool, S), failures' \in 0..MaxFailures
      PROVE  PoolInv' /\ Promise!Read
  BY <1>0, <1>3, FlushedSound, QuietPool
<1>4. ASSUME NEW p \in Page, EvictionFails(p) PROVE PoolInv' /\ Promise!Read
  BY <1>0, <1>4, PoppedSound, SameDisk, QuietPool DEF EvictionFails, MustEvict
<1>5. ASSUME FlushAll PROVE PoolInv' /\ Promise!Read
  <2>1. failures' \in 0..MaxFailures
    BY <1>0, <1>5 DEF FlushAll
  <2>2. Dirty(pool) \subseteq Page
    BY DEF Dirty, Cached
  <2>3. \E S \in SUBSET Page : pool' = Flushed(pool, S)
    BY <1>5, <2>2 DEF FlushAll
  <2> QED BY <1>3, <2>1, <2>3
<1>6. ASSUME Crash PROVE PoolInv' /\ Promise!Crash
  <2>1. pool.disk \in [Page -> Image \cup {Beyond}] /\ GapFree(pool.disk)
    BY DEF PoolInv, Sound, Pool
  <2>2. /\ Sound(pool') /\ pool'.disk = pool.disk
        /\ \A p \in Page : View(pool', p) = pool.disk[p]
    BY <1>6, <2>1, OpenedSound DEF Crash
  <2> QED BY <1>0, <1>6, <2>1, <2>2 DEF PoolInv, Crash, Promise!Crash, Promise!Page, Page
<1>7. CASE UNCHANGED vars
  BY <1>7 DEF PoolInv, vars, Promise!vars
<1>8. ASSUME NEW p \in Page, FlushPage(p) PROVE PoolInv' /\ Promise!Read
  BY <1>0, <1>3, <1>8 DEF FlushPage
<1> QED BY <1>1, <1>2, <1>4, <1>5, <1>6, <1>7, <1>8 DEF Next, Promise!Next, Promise!Page, Page

\* For any number of pages and frames: the pool is well-formed, and exactly
\* the pages below page_count can be fetched.
THEOREM PoolCorrect == Spec => [](TypeOK /\ NoPageVanishes)
<1>1. Init => PoolInv
  BY PoolInvInit
<1>2. PoolInv /\ [Next]_vars => PoolInv'
  BY PoolStep
<1>3. PoolInv => TypeOK /\ NoPageVanishes
  BY DEF PoolInv, Sound, Contiguous, TypeOK, NoPageVanishes
<1> QED BY <1>1, <1>2, <1>3, PTL DEF Spec

\* The pool implements PageMap: caching, eviction, flushing and their
\* failures are invisible, and a crash loses exactly what never reached disk.
THEOREM PoolKeepsPages == Spec => KeepsPages
<1>1. Init => PoolInv /\ Promise!Init
  BY PoolInvInit
<1>2. PoolInv /\ [Next]_vars => PoolInv' /\ [Promise!Next]_(Promise!vars)
  BY PoolStep
<1> QED BY <1>1, <1>2, PTL DEF Spec, KeepsPages, Promise!Spec

(***************************************************************************)
(* The order of eviction.  LruListsFrames is not inductive: what bounds    *)
(* the cache when lru_order is empty is how many cached frames it can have *)
(* lost, one for each eviction that failed.                                *)
(***************************************************************************)

\* The pages a sequence lists, and a sequence that lists each of them once.
Listed(s) == {s[i] : i \in 1..Len(s)}
Once(s) == \A i, j \in 1..Len(s) : s[i] = s[j] => i = j

\* With n failed evictions so far, lru_order misses at most n of the frames.
LruSound(b, n) ==
    /\ Once(b.lru)
    /\ Listed(b.lru) \subseteq Cached(b)
    /\ Cardinality(Cached(b) \ Listed(b.lru)) <= n
    /\ \/ Cardinality(Cached(b)) <= Capacity
       \/ Cardinality(Cached(b)) <= n + 1

\* There are finitely many pages, so sets of them have a size.
LEMMA PagesFinite ==
  ASSUME NEW S \in SUBSET Page
  PROVE  /\ IsFiniteSet(S) /\ Cardinality(S) \in Nat
         /\ \A p : IsFiniteSet(S \cup {p}) /\ Cardinality(S \cup {p}) \in Nat
<1>1. IsFiniteSet(Page)
  BY FS_Interval, PoolAssumption DEF Page
<1>2. IsFiniteSet(S)
  BY <1>1, FS_Subset
<1> QED BY <1>2, FS_AddElement, FS_CardinalityType

\* What stands where when two parts of lru_order are joined.
LEMMA Joined ==
  ASSUME NEW l \in Seq(Page), NEW m \in Seq(Page)
  PROVE  /\ Len(l \o m) = Len(l) + Len(m)
         /\ \A k \in 1..Len(l \o m) : (l \o m)[k] = IF k <= Len(l) THEN l[k] ELSE m[k - Len(l)]
<1>1. Len(l) \in Nat /\ Len(m) \in Nat /\ Len(l \o m) = Len(l) + Len(m)
  OBVIOUS
<1>2. ASSUME NEW k \in 1..(Len(l) + Len(m))
      PROVE  (l \o m)[k] = IF k <= Len(l) THEN l[k] ELSE m[k - Len(l)]
  OBVIOUS
<1> QED BY <1>1, <1>2

\* touch lists the page once, at the back, and every other page as before.
LEMMA RelistedOnce ==
  ASSUME NEW s \in Seq(Page), Once(s), NEW p \in Page
  PROVE  /\ Once(Append(Without(s, p), p))
         /\ Listed(Append(Without(s, p), p)) = Listed(s) \cup {p}
<1> DEFINE w == Without(s, p)
           a == Append(w, p)
<1>1. w \in Seq(Page)
  BY WithoutType
\* What is left is once each of the listed pages other than p.
<1>2. Once(w) /\ Listed(w) = Listed(s) \ {p}
  <2>1. CASE ~ \E i \in DOMAIN s : s[i] = p
    <3>1. w = s
      BY <2>1 DEF Without
    <3> QED BY <2>1, <3>1 DEF Listed
  <2>2. CASE \E i \in DOMAIN s : s[i] = p
    <3> DEFINE i == CHOOSE i \in DOMAIN s : s[i] = p
    <3>1. i \in 1..Len(s) /\ Len(s) \in Nat /\ s[i] = p
      BY <2>2
    <3>2. w = SubSeq(s, 1, i - 1) \o SubSeq(s, i + 1, Len(s))
      BY <2>2 DEF Without
    <3> HIDE DEF i, w
    <3>3. /\ Len(w) = Len(s) - 1
          /\ \A k \in 1..Len(w) : w[k] = IF k < i THEN s[k] ELSE s[k + 1]
      <4> DEFINE l == SubSeq(s, 1, i - 1)
                 m == SubSeq(s, i + 1, Len(s))
      <4>1. /\ l \in Seq(Page) /\ Len(l) = i - 1
            /\ \A k \in 1..(i - 1) : l[k] = s[k]
        BY <3>1
      <4>2. /\ m \in Seq(Page) /\ Len(m) = Len(s) - i
            /\ \A k \in 1..(Len(s) - i) : m[k] = s[k + i]
        BY <3>1
      <4>3. w = l \o m
        BY <3>2
      <4> HIDE DEF l, m
      <4>4. /\ Len(w) = Len(l) + Len(m)
            /\ \A k \in 1..Len(w) : w[k] = IF k <= Len(l) THEN l[k] ELSE m[k - Len(l)]
        BY <4>1, <4>2, <4>3, Joined
      <4>5. Len(w) = Len(s) - 1 /\ Len(l) = i - 1
        BY <3>1, <4>1, <4>2, <4>4
      <4>6. ASSUME NEW k \in 1..Len(w) PROVE w[k] = IF k < i THEN s[k] ELSE s[k + 1]
        <5>1. CASE k < i
          BY <3>1, <4>1, <4>4, <4>5, <5>1
        <5>2. CASE ~(k < i)
          <6>1. k - (i - 1) \in 1..(Len(s) - i) /\ k - (i - 1) + i = k + 1 /\ ~(k <= Len(l))
            BY <3>1, <4>5, <5>2
          <6>2. w[k] = m[k - (i - 1)]
            BY <4>4, <4>5, <6>1
          <6>3. m[k - (i - 1)] = s[k - (i - 1) + i]
            BY <4>2, <6>1
          <6> QED BY <5>2, <6>1, <6>2, <6>3
        <5> QED BY <5>1, <5>2
      <4> QED BY <4>5, <4>6
    <3>4. Once(w)
      <4> SUFFICES ASSUME NEW j \in 1..Len(w), NEW k \in 1..Len(w), w[j] = w[k] PROVE j = k
        BY DEF Once
      <4> QED BY <3>1, <3>3 DEF Once
    <3>5. \A q \in Listed(w) : q \in Listed(s) \ {p}
      <4> SUFFICES ASSUME NEW k \in 1..Len(w) PROVE w[k] \in Listed(s) \ {p}
        BY DEF Listed
      <4> QED BY <3>1, <3>3 DEF Once, Listed
    <3>6. \A q \in Listed(s) \ {p} : q \in Listed(w)
      <4> SUFFICES ASSUME NEW k \in 1..Len(s), s[k] # p PROVE s[k] \in Listed(w)
        BY DEF Listed
      <4>1. CASE k < i
        BY <3>1, <3>3, <4>1 DEF Listed
      <4>2. CASE k > i
        <5>1. k - 1 \in 1..Len(w) /\ w[k - 1] = s[k]
          BY <3>1, <3>3, <4>2
        <5> QED BY <5>1 DEF Listed
      <4> QED BY <3>1, <4>1, <4>2
    <3> QED BY <3>4, <3>5, <3>6
  <2> QED BY <2>1, <2>2
<1> HIDE DEF w
<1>3. /\ Len(a) = Len(w) + 1 /\ Len(w) \in Nat /\ a[Len(a)] = p
      /\ \A k \in 1..Len(w) : a[k] = w[k]
  BY <1>1
<1> HIDE DEF a
<1>4. \A k \in 1..Len(w) : a[k] # p
  BY <1>2, <1>3 DEF Listed
<1>5. Once(a)
  <2> SUFFICES ASSUME NEW j \in 1..Len(a), NEW k \in 1..Len(a), a[j] = a[k] PROVE j = k
    BY DEF Once
  <2> QED BY <1>2, <1>3, <1>4 DEF Once
<1>6. Listed(a) = Listed(s) \cup {p}
  <2>1. Listed(a) = Listed(w) \cup {p}
    <3>1. \A k \in 1..Len(a) : a[k] \in Listed(w) \cup {p}
      BY <1>3 DEF Listed
    <3>2. \A k \in 1..Len(w) : w[k] \in Listed(a)
      BY <1>3 DEF Listed
    <3>3. p \in Listed(a)
      BY <1>3 DEF Listed
    <3> QED BY <3>1, <3>2, <3>3 DEF Listed
  <2>2. p \in Listed(s) \cup {p}
    OBVIOUS
  <2> QED BY <1>2, <2>1
<1> QED BY <1>5, <1>6 DEF a, w

\* The victim is the only page that leaves lru_order.
LEMMA PoppedOnce ==
  ASSUME NEW s \in Seq(Page), s # <<>>, Once(s)
  PROVE  /\ Once(Tail(s)) /\ Listed(Tail(s)) = Listed(s) \ {Head(s)}
         /\ Head(s) \in Listed(s) /\ Head(s) \in Page
<1>1. /\ Len(s) \in Nat /\ Len(s) >= 1 /\ Len(Tail(s)) = Len(s) - 1 /\ Head(s) = s[1]
      /\ \A k \in 1..Len(Tail(s)) : Tail(s)[k] = s[k + 1]
      /\ Head(s) \in Page
  OBVIOUS
<1>2. Once(Tail(s))
  <2> SUFFICES ASSUME NEW j \in 1..Len(Tail(s)), NEW k \in 1..Len(Tail(s)), Tail(s)[j] = Tail(s)[k]
               PROVE  j = k
    BY DEF Once
  <2> QED BY <1>1 DEF Once
<1>3. \A q \in Listed(Tail(s)) : q \in Listed(s) \ {Head(s)}
  <2> SUFFICES ASSUME NEW k \in 1..Len(Tail(s)) PROVE Tail(s)[k] \in Listed(s) \ {Head(s)}
    BY DEF Listed
  <2>1. k + 1 \in 1..Len(s) /\ Tail(s)[k] = s[k + 1] /\ s[k + 1] # s[1]
    BY <1>1 DEF Once
  <2> QED BY <1>1, <2>1 DEF Listed
<1>4. \A q \in Listed(s) : q # Head(s) => q \in Listed(Tail(s))
  <2> SUFFICES ASSUME NEW k \in 1..Len(s), s[k] # Head(s) PROVE s[k] \in Listed(Tail(s))
    BY DEF Listed
  <2>1. k - 1 \in 1..Len(Tail(s)) /\ Tail(s)[k - 1] = s[k]
    BY <1>1
  <2> QED BY <2>1 DEF Listed
<1>5. Head(s) \in Listed(s)
  BY <1>1 DEF Listed
<1>6. Listed(Tail(s)) = Listed(s) \ {Head(s)}
  BY <1>3, <1>4, Zenon
<1> QED BY <1>1, <1>2, <1>5, <1>6

\* A call that lists p and caches it, where it was not or replaced a victim.
LEMMA RoomLru ==
  ASSUME NEW b, Sound(b), NEW n \in Nat, LruSound(b, n), NEW p \in Page
  PROVE  LET room == IF MustEvict(b, p) THEN Evicted(b) ELSE b
         IN  /\ Sound(room) /\ LruSound(room, n)
             /\ p \notin Cached(room) =>
                   \/ Cardinality(Cached(room)) + 1 <= Capacity
                   \/ Cardinality(Cached(room)) + 1 <= n + 1
<1>0. Cached(b) \in SUBSET Page /\ Listed(b.lru) \subseteq Cached(b) /\ Capacity \in Nat
  BY PoolAssumption DEF Cached, LruSound
<1>1. CASE ~MustEvict(b, p)
  <2>1. ASSUME p \notin Cached(b), b.lru = <<>> PROVE Cardinality(Cached(b)) <= n
    <3>1. Cached(b) \ Listed(b.lru) = Cached(b)
      BY <2>1 DEF Listed
    <3> QED BY <3>1 DEF LruSound
  <2>2. Cardinality(Cached(b)) \in Nat
    BY <1>0, PagesFinite
  <2> QED BY <1>0, <1>1, <2>1, <2>2 DEF MustEvict
<1>2. CASE MustEvict(b, p)
  <2> DEFINE v == Head(b.lru)
             room == Evicted(b)
  <2>1. b.lru \in Seq(Page) /\ b.lru # <<>> /\ Once(b.lru)
    BY <1>2 DEF Sound, Pool, MustEvict, LruSound
  <2>2. /\ Once(Tail(b.lru)) /\ Listed(Tail(b.lru)) = Listed(b.lru) \ {v}
        /\ v \in Listed(b.lru) /\ v \in Page
    BY <2>1, PoppedOnce
  <2>3. Sound(room) /\ room.lru = Tail(b.lru) /\ Cached(room) = Cached(b) \ {v}
    BY <2>1, EvictedSound
  <2> HIDE DEF v, room
  <2>4. Cardinality(Cached(room)) = Cardinality(Cached(b)) - 1
    <3>1. IsFiniteSet(Cached(b)) /\ v \in Cached(b)
      BY <1>0, <2>2, PagesFinite
    <3> QED BY <2>3, <3>1, FS_RemoveElement
  <2>5. Cached(room) \ Listed(room.lru) = Cached(b) \ Listed(b.lru)
    BY <2>2, <2>3
  <2>6. Cardinality(Cached(b)) \in Nat
    BY <1>0, PagesFinite
  <2>7. LruSound(room, n)
    <3>1. Listed(room.lru) \subseteq Cached(room) /\ Once(room.lru)
      BY <1>0, <2>2, <2>3
    <3>2. Cardinality(Cached(room) \ Listed(room.lru)) <= n
      BY <2>5 DEF LruSound
    <3>3. \/ Cardinality(Cached(room)) <= Capacity
          \/ Cardinality(Cached(room)) <= n + 1
      BY <1>0, <2>4, <2>6 DEF LruSound
    <3> QED BY <3>1, <3>2, <3>3 DEF LruSound
  <2>8. \/ Cardinality(Cached(room)) + 1 <= Capacity
        \/ Cardinality(Cached(room)) + 1 <= n + 1
    BY <1>0, <2>4, <2>6 DEF LruSound
  <2> QED BY <1>2, <2>3, <2>7, <2>8 DEF room
<1> QED BY <1>1, <1>2

\* touch of a page that is or has just become a frame.
LEMMA TouchedLru ==
  ASSUME NEW b \in Pool, NEW c, NEW n \in Nat, LruSound(b, n), NEW p \in Page,
         c.lru = Append(Without(b.lru, p), p), Cached(c) = Cached(b) \cup {p},
         \/ p \in Cached(b)
         \/ Cardinality(Cached(b)) + 1 <= Capacity
         \/ Cardinality(Cached(b)) + 1 <= n + 1
  PROVE  LruSound(c, n)
<1>1. Once(c.lru) /\ Listed(c.lru) = Listed(b.lru) \cup {p}
  BY RelistedOnce DEF Pool, LruSound
<1>2. Cached(b) \in SUBSET Page /\ Capacity \in Nat
  BY PoolAssumption DEF Cached
<1>3. Cardinality(Cached(c) \ Listed(c.lru)) <= n
  <2>1. Cached(c) \ Listed(c.lru) \subseteq Cached(b) \ Listed(b.lru)
    BY <1>1
  <2>2. Cached(b) \ Listed(b.lru) \in SUBSET Page
    BY <1>2
  <2>3. IsFiniteSet(Cached(b) \ Listed(b.lru)) /\ Cardinality(Cached(b) \ Listed(b.lru)) \in Nat
    BY <2>2, PagesFinite
  <2>4. /\ Cardinality(Cached(c) \ Listed(c.lru)) <= Cardinality(Cached(b) \ Listed(b.lru))
        /\ Cardinality(Cached(c) \ Listed(c.lru)) \in Nat
    BY <2>1, <2>3, FS_Subset, FS_CardinalityType
  <2> QED BY <2>3, <2>4 DEF LruSound
<1>4. \/ Cardinality(Cached(c)) <= Capacity
      \/ Cardinality(Cached(c)) <= n + 1
  <2>1. IsFiniteSet(Cached(b)) /\ Cardinality(Cached(b)) \in Nat
    BY <1>2, PagesFinite
  <2>2. CASE p \in Cached(b)
    <3>1. Cached(c) = Cached(b)
      BY <2>2
    <3> QED BY <3>1 DEF LruSound
  <2>3. CASE p \notin Cached(b)
    <3>1. Cardinality(Cached(c)) = Cardinality(Cached(b)) + 1
      BY <2>1, <2>3, FS_AddElement
    <3> QED BY <2>3, <3>1
  <2> QED BY <2>2, <2>3
<1>5. Listed(c.lru) \subseteq Cached(c)
  BY <1>1 DEF LruSound
<1> QED BY <1>1, <1>3, <1>4, <1>5 DEF LruSound

\* insert_into_cache, with or without an eviction.
LEMMA InsertedLru ==
  ASSUME NEW b, Sound(b), NEW n \in Nat, LruSound(b, n),
         NEW p \in Page, NEW img \in Image, NEW dirty \in BOOLEAN
  PROVE  LruSound(InsertedIntoCache(b, p, img, dirty), n)
<1> DEFINE room == IF MustEvict(b, p) THEN Evicted(b) ELSE b
           d == dirty \/ p \in Dirty(room)
           frame == [page |-> img, dirty |-> d]
           e == [room EXCEPT !.frames = [@ EXCEPT ![p] = frame]]
           c == [e EXCEPT !.lru = Append(Without(e.lru, p), p)]
<1>1. /\ Sound(room) /\ LruSound(room, n)
      /\ p \notin Cached(room) =>
            \/ Cardinality(Cached(room)) + 1 <= Capacity
            \/ Cardinality(Cached(room)) + 1 <= n + 1
  BY RoomLru
<1>2. InsertedIntoCache(b, p, img, dirty) = c
  BY DEF InsertedIntoCache, Touched
<1>8. d \in BOOLEAN
  OBVIOUS
<1> HIDE DEF room, d
<1>3. frame # NotCached
  BY <1>8, PoolAssumption
<1> HIDE DEF frame
<1>4. /\ e.lru = room.lru
      /\ \A q \in Page : e.frames[q] = IF q = p THEN frame ELSE room.frames[q]
      /\ c.frames = e.frames /\ c.lru = Append(Without(room.lru, p), p)
  BY <1>1 DEF Sound, Pool
<1> HIDE DEF e, c
<1>5. Cached(c) = Cached(room) \cup {p}
  BY <1>3, <1>4 DEF Cached
<1>6. room \in Pool
  BY <1>1 DEF Sound
<1>7. LruSound(c, n)
  BY <1>1, <1>4, <1>5, <1>6, TouchedLru
<1> QED BY <1>2, <1>7

\* open starts with an empty cache, and nothing to evict.
LEMMA OpenedLru ==
  ASSUME NEW d, NEW n \in Nat
  PROVE  LruSound(Opened(d), n)
<1>1. Opened(d).lru = <<>> /\ Cached(Opened(d)) = {}
  BY DEF Opened, Cached
<1>2. Listed(<<>>) = {} /\ Once(<<>>)
  BY DEF Listed, Once
<1>3. Cardinality({}) = 0
  BY FS_EmptySet
<1>4. {} \ {} = {}
  OBVIOUS
<1> QED BY <1>1, <1>2, <1>3, <1>4, PoolAssumption DEF LruSound

\* The inductive invariant, and every operation of the pool.
LruInv == PoolInv /\ LruSound(pool, failures)

\* Each operation of the pool, with the failures it may meet, keeps the order of use.
LEMMA LruStep == LruInv /\ [Next]_vars => LruInv'
<1> SUFFICES ASSUME LruInv, [Next]_vars PROVE LruInv'
  OBVIOUS
<1>0. /\ Sound(pool) /\ pool \in Pool /\ failures \in Nat /\ LruSound(pool, failures)
      /\ Cached(pool) \in SUBSET Page
  BY PoolAssumption DEF LruInv, PoolInv, Sound, Cached
<1>1. PoolInv'
  BY PoolStep DEF LruInv
<1>2. SUFFICES LruSound(pool', failures')
  BY <1>1 DEF LruInv, LruSound
<1>3. ASSUME NEW p \in Page, Fetch(p) PROVE LruSound(pool', failures')
  <2>1. CASE p \in Cached(pool)
    <3>1. pool' = [pool EXCEPT !.lru = Append(Without(pool.lru, p), p)]
      BY <1>3, <2>1 DEF Fetch, Fetched, Touched
    <3>2. pool'.lru = Append(Without(pool.lru, p), p) /\ pool'.frames = pool.frames
      BY <1>0, <3>1 DEF Pool
    <3>3. Cached(pool') = Cached(pool) \cup {p}
      BY <2>1, <3>2 DEF Cached
    <3>4. LruSound(pool', failures)
      BY <1>0, <2>1, <3>2, <3>3, TouchedLru
    <3> QED BY <1>3, <3>4 DEF Fetch
  <2>2. CASE p \notin Cached(pool)
    <3>1. PICK img \in Image, d \in BOOLEAN : img = pool.disk[p] /\ d = FALSE
      BY <1>0, <1>3, <2>2 DEF Fetch, Sound, Contiguous, View, Pool
    <3>2. LruSound(InsertedIntoCache(pool, p, img, d), failures)
      BY <1>0, InsertedLru
    <3> QED BY <1>3, <2>2, <3>1, <3>2 DEF Fetch, Fetched
  <2> QED BY <2>1, <2>2
<1>4. ASSUME NEW p \in Page, NEW img \in Image, WritePage(p, img)
      PROVE  LruSound(pool', failures')
  <2>1. PICK d \in BOOLEAN : d = TRUE
    OBVIOUS
  <2> DEFINE c == InsertedIntoCache(pool, p, img, d)
             m == IF pool.count > p THEN pool.count ELSE p + 1
  <2>2. LruSound(c, failures)
    BY <1>0, InsertedLru
  <2>3. c \in Pool /\ c.count = pool.count
    BY <1>0, <2>1, InsertedDirty
  <2>4. pool' = [c EXCEPT !.count = m]
    BY <1>4, <2>1, <2>3 DEF WritePage, Written
  <2> HIDE DEF c, m
  <2>5. pool'.lru = c.lru /\ pool'.frames = c.frames
    BY <2>3, <2>4 DEF Pool
  <2>6. Cached(pool') = Cached(c)
    BY <2>5 DEF Cached
  <2> QED BY <1>4, <2>2, <2>5, <2>6 DEF LruSound, WritePage
<1>5. ASSUME NEW S \in SUBSET Page, pool' = Flushed(pool, S),
             failures' = failures \/ failures' = failures + 1
      PROVE  LruSound(pool', failures')
  <2>1. pool'.lru = pool.lru /\ Cached(pool') = Cached(pool)
    BY <1>0, <1>5, FlushedSound
  <2>2. Cardinality(Cached(pool)) \in Nat /\ Cardinality(Cached(pool) \ Listed(pool.lru)) \in Nat
    BY <1>0, PagesFinite
  <2> QED BY <1>0, <1>5, <2>1, <2>2, PoolAssumption DEF LruSound
\* The frame whose flush failed is the one more that lru_order misses.
<1>6. ASSUME NEW p \in Page, EvictionFails(p) PROVE LruSound(pool', failures')
  <2> DEFINE v == Head(pool.lru)
             U == Cached(pool) \ Listed(pool.lru)
  <2>1. pool.lru \in Seq(Page) /\ pool.lru # <<>> /\ Once(pool.lru)
    BY <1>0, <1>6 DEF EvictionFails, MustEvict, LruSound, Pool
  <2>2. /\ Once(Tail(pool.lru)) /\ Listed(Tail(pool.lru)) = Listed(pool.lru) \ {v}
        /\ v \in Listed(pool.lru)
    BY <2>1, PoppedOnce
  <2>3. pool'.lru = Tail(pool.lru) /\ pool'.frames = pool.frames
    BY <1>0, <1>6 DEF EvictionFails, Popped, Pool
  <2>4. Cached(pool') = Cached(pool) /\ failures' = failures + 1
    BY <1>6, <2>3 DEF Cached, EvictionFails
  <2>5. Cached(pool') \ Listed(pool'.lru) = U \cup {v}
    BY <1>0, <2>2, <2>3, <2>4 DEF LruSound
  <2>6. /\ U \in SUBSET Page /\ v \notin U
    BY <1>0, <2>2
  <2>7. IsFiniteSet(U) /\ Cardinality(U) \in Nat /\ Cardinality(Cached(pool)) \in Nat
    BY <1>0, <2>6, PagesFinite
  <2> HIDE DEF v, U
  <2>8. Cardinality(U \cup {v}) = Cardinality(U) + 1
    BY <2>6, <2>7, FS_AddElement
  <2>9. Cardinality(U) <= failures
    BY <1>0 DEF LruSound, U
  <2>10. Cardinality(Cached(pool') \ Listed(pool'.lru)) <= failures'
    BY <1>0, <2>4, <2>5, <2>7, <2>8, <2>9
  <2> QED BY <1>0, <2>2, <2>3, <2>4, <2>7, <2>10, PoolAssumption DEF LruSound
<1>7. ASSUME FlushAll PROVE LruSound(pool', failures')
  <2>1. Dirty(pool) \subseteq Page
    BY DEF Dirty, Cached
  <2>2. \E S \in SUBSET Page : pool' = Flushed(pool, S)
    BY <1>7, <2>1 DEF FlushAll
  <2> QED BY <1>5, <1>7, <2>2 DEF FlushAll
<1>8. ASSUME Crash PROVE LruSound(pool', failures')
  BY <1>0, <1>8, OpenedLru DEF Crash
<1>9. ASSUME NEW p \in Page, FlushPage(p) PROVE LruSound(pool', failures')
  BY <1>5, <1>9 DEF FlushPage
<1>10. CASE UNCHANGED vars
  BY <1>0, <1>10 DEF vars
<1> QED BY <1>3, <1>4, <1>6, <1>7, <1>8, <1>9, <1>10 DEF Next

\* For any number of pages, frames and failed writes: lru_order lists cached
\* frames, each once; it misses none before a write fails; and the cache
\* outgrows its capacity by failed evictions only.
THEOREM LruCorrect == Spec => []LruListsFrames
<1>1. Init => LruInv
  BY PoolInvInit, OpenedLru, PoolAssumption DEF Init, LruInv
<1>2. LruInv => LruListsFrames
  <2> SUFFICES ASSUME LruInv PROVE LruListsFrames
    OBVIOUS
  <2>1. /\ pool.lru \in Seq(Page) /\ Cached(pool) \in SUBSET Page
        /\ LruSound(pool, failures) /\ failures \in Nat
    BY PoolAssumption DEF LruInv, PoolInv, Sound, Pool, Cached
  <2>2. DOMAIN pool.lru = 1..Len(pool.lru)
    BY <2>1
  <2>3. ASSUME failures = 0 PROVE Cached(pool) \subseteq Listed(pool.lru)
    <3> DEFINE U == Cached(pool) \ Listed(pool.lru)
    <3>1. U \in SUBSET Page
      BY <2>1
    <3>2. IsFiniteSet(U) /\ Cardinality(U) \in Nat
      BY <3>1, PagesFinite
    <3>3. Cardinality(U) = 0
      BY <2>1, <2>3, <3>2 DEF LruSound
    <3>4. U = {}
      BY <3>2, <3>3, FS_EmptySet
    <3> QED BY <3>4
  <2> QED BY <2>1, <2>2, <2>3 DEF LruListsFrames, LruSound, Once, Listed
<1> QED BY <1>1, <1>2, LruStep, PTL DEF Spec
==============================================================================
