------------------------------ MODULE BufferPool ------------------------------
(***************************************************************************)
(* crumble-buffer/src/pool.rs and page_store.rs: a write-back cache of     *)
(* page images with least-recently-used eviction, over a file of pages.    *)
(* The pool is a record, and its operations are operators from a pool to   *)
(* the pool after the call, so that a table can make several in one step.  *)
(* As a state machine of its own the module drives the public operations   *)
(* in any order, lets the file write of an eviction or a flush fail, and   *)
(* lets the process die.  The owner's mutex makes each call atomic.        *)
(***************************************************************************)
EXTENDS Naturals, Sequences, FiniteSets

CONSTANTS
    MaxPage,        \* bound: the largest page index
    Image,          \* page images
    Zero,           \* the image of 4096 zero bytes
    Beyond,         \* no such page: past the end of the file
    NotCached,      \* no such frame
    Capacity,       \* frames the pool may hold
    MaxFailures     \* bound: how many file writes fail

ASSUME PoolAssumption == /\ MaxPage \in Nat /\ MaxFailures \in Nat
                         /\ Capacity \in Nat \ {0}
                         /\ Zero \in Image /\ Beyond \notin Image
                         /\ NotCached \notin [page : Image, dirty : BOOLEAN]

VARIABLES pool, failures
vars == <<pool, failures>>

Page == 0..MaxPage
Frame == [page : Image, dirty : BOOLEAN]
Pool == [frames : [Page -> Frame \cup {NotCached}],
         lru : Seq(Page),
         disk : [Page -> Image \cup {Beyond}],
         count : 0..(MaxPage + 1)]

TypeOK == pool \in Pool /\ failures \in 0..MaxFailures

------------------------------------------------------------------------------
Cached(b) == {p \in Page : b.frames[p] # NotCached}
Dirty(b) == {p \in Cached(b) : b.frames[p].dirty}

\* What fetch_page returns for p.
View(b, p) == IF p \in Cached(b) THEN b.frames[p].page ELSE b.disk[p]

\* Writing past the end of the file leaves a gap that reads as zeros.
StoreWrite(d, S, img) ==
    [p \in Page |-> IF p \in S THEN img[p]
                    ELSE IF d[p] = Beyond /\ \E q \in S : p < q THEN Zero
                    ELSE d[p]]

\* flush_page for each page of S: dirty ones are written and become clean.
Flushed(b, S) ==
    LET D == S \cap Dirty(b)
    IN  [b EXCEPT !.disk = StoreWrite(@, D, [p \in Page |-> View(b, p)]),
                  !.frames = [p \in Page |-> IF p \in D THEN [@[p] EXCEPT !.dirty = FALSE]
                                                        ELSE @[p]]]

\* touch: p goes to the back of lru_order.
Without(s, p) ==
    IF \E i \in DOMAIN s : s[i] = p
      THEN LET i == CHOOSE i \in DOMAIN s : s[i] = p
           IN  SubSeq(s, 1, i - 1) \o SubSeq(s, i + 1, Len(s))
      ELSE s
\* Mutation: the old entry stays in lru_order.
Relisted(b, p) == [b EXCEPT !.lru = Append(@, p)]
Touched(b, p) == [b EXCEPT !.lru = Append(Without(@, p), p)]

\* The eviction of insert_into_cache: the victim leaves lru_order, is flushed
\* and leaves the cache.
MustEvict(b, p) == /\ p \notin Cached(b)
                   /\ Cardinality(Cached(b)) >= Capacity
                   /\ b.lru # <<>>
Popped(b) == [b EXCEPT !.lru = Tail(@)]
\* Mutation: the victim is dropped without being flushed.
Dropped(b) == [Popped(b) EXCEPT !.frames = [@ EXCEPT ![Head(b.lru)] = NotCached]]
Evicted(b) == [Flushed(Popped(b), {Head(b.lru)}) EXCEPT
                  !.frames = [@ EXCEPT ![Head(b.lru)] = NotCached]]

\* insert_into_cache: a dirty frame stays dirty whoever inserts.
InsertedIntoCache(b, p, img, dirty) ==
    LET room == IF MustEvict(b, p) THEN Evicted(b) ELSE b
        frame == [page |-> img, dirty |-> dirty \/ p \in Dirty(room)]
    IN  Touched([room EXCEPT !.frames = [@ EXCEPT ![p] = frame]], p)

Fetched(b, p) == IF p \in Cached(b) THEN Touched(b, p)
                                    ELSE InsertedIntoCache(b, p, b.disk[p], FALSE)

\* Mutation: page_count is off by one.
WrittenPast(b, p, img) == [InsertedIntoCache(b, p, img, TRUE) EXCEPT
                              !.count = IF @ > p + 1 THEN @ ELSE p + 2]
Written(b, p, img) == [InsertedIntoCache(b, p, img, TRUE) EXCEPT
                          !.count = IF @ > p THEN @ ELSE p + 1]

\* open: an empty cache over the file, as many pages as the file holds.
\* Mutation: page_count starts at zero.
OpenedEmpty(d) == [frames |-> [p \in Page |-> NotCached], lru |-> <<>>, disk |-> d, count |-> 0]
Opened(d) == [frames |-> [p \in Page |-> NotCached],
              lru |-> <<>>,
              disk |-> d,
              count |-> Cardinality({p \in Page : d[p] # Beyond})]

------------------------------------------------------------------------------
Init == /\ pool = Opened([p \in Page |-> Beyond])
        /\ failures = 0

Fetch(p) == /\ p < pool.count
            /\ pool' = Fetched(pool, p)
            /\ UNCHANGED failures

\* Both callers write at an existing page or at page_count.
WritePage(p, img) == /\ p <= pool.count
                     /\ pool' = Written(pool, p, img)
                     /\ UNCHANGED failures

FlushPage(p) == /\ pool' = Flushed(pool, {p})
                /\ UNCHANGED failures

\* fetch_page or write_page returns the error of the file write: the victim is
\* off lru_order but still cached and dirty, the new page is not inserted.
EvictionFails(p) ==
    /\ failures < MaxFailures /\ failures' = failures + 1
    /\ p <= pool.count /\ MustEvict(pool, p)
    /\ Head(pool.lru) \in Dirty(pool)
    /\ pool' = Popped(pool)

\* flush_all writes the dirty pages in the order the HashMap lists them, and
\* stops at the first that fails.
FlushAll ==
    \/ pool' = Flushed(pool, Page) /\ UNCHANGED failures
    \/ /\ failures < MaxFailures /\ failures' = failures + 1
       /\ \E S \in (SUBSET Dirty(pool)) \ {Dirty(pool)} : pool' = Flushed(pool, S)

Crash == /\ pool' = Opened(pool.disk)
         /\ UNCHANGED failures

Next == \/ \E p \in Page : \/ Fetch(p)
                           \/ \E img \in Image : WritePage(p, img)
                           \/ FlushPage(p)
                           \/ EvictionFails(p)
        \/ FlushAll
        \/ Crash

Spec == Init /\ [][Next]_vars

------------------------------------------------------------------------------
\* The cache is invisible: readers see each page as last written, whatever
\* was evicted, flushed or failed to be, and what reaches the disk is what
\* the page held at that moment.
Promise == INSTANCE PageMap WITH content <- [p \in Page |-> View(pool, p)],
                                 durable <- pool.disk
KeepsPages == Promise!Spec

\* lru_order lists cached frames, each once, and leaves out only frames whose
\* eviction has failed; so the cache outgrows its capacity only by failures.
LruListsFrames ==
    /\ \A i, j \in DOMAIN pool.lru : pool.lru[i] = pool.lru[j] => i = j
    /\ {pool.lru[i] : i \in DOMAIN pool.lru} \subseteq Cached(pool)
    /\ failures = 0 => Cached(pool) \subseteq {pool.lru[i] : i \in DOMAIN pool.lru}
    /\ \/ Cardinality(Cached(pool)) <= Capacity
       \/ Cardinality(Cached(pool)) <= failures + 1

\* Every page below page_count can be fetched.
NoPageVanishes == \A p \in Page : p < pool.count <=> View(pool, p) # Beyond
==============================================================================
