-------------------------------- MODULE BTree --------------------------------
(***************************************************************************)
(* crumble-index/src/btree.rs and node.rs: a B+tree whose root is always   *)
(* page 1 (the code counts from 0), entries only in the leaves, the leaves *)
(* chained.  An operation works under the tree's mutex and ends in one or  *)
(* more durable page writes, each a step: the process may die between any  *)
(* two of them.  open() replays the log of whole pages from its start,     *)
(* so what was logged last for a page is what it reads as: a crash loses   *)
(* only the writes still to come.                                          *)
(***************************************************************************)
EXTENDS Naturals, Sequences, FiniteSets

CONSTANTS
    Copies,         \* bound: how many entries each key from 1 on may be given
                    \* (NULL is just a largest key)
    MaxEntries,     \* bound: entries in the tree
    MaxUpsets,      \* bound: deletions and crashes, together
    LeafCap,        \* entries that fit in a leaf
    NodeCap         \* entries that fit in an internal node

ASSUME TreeAssumption ==
    /\ Copies \in Seq(Nat)
    /\ {MaxEntries, MaxUpsets} \subseteq Nat
    /\ LeafCap \in Nat \ {0} /\ NodeCap \in Nat \ {0, 1}

VARIABLES
    pages,      \* what each page of the index reads as
    todo,       \* the page writes the current operation has still to make
    climb,      \* then propagate() takes this separator to the parent
    pending,    \* the entry being inserted or deleted
    torn,       \* a node has been cut in half and its right half not linked
    stored,     \* history: the entries whose insert has returned
    doubtful,   \* history: those whose insert or delete a crash cut short
    used,       \* history: how many entries each key was given
    upsets,     \* bound counter: deletions and crashes
    damage      \* history: which of two known mishaps have happened

vars == <<pages, todo, climb, pending, torn, stored, doubtful, used, upsets, damage>>

Root == 1
MaxKey == Len(Copies)
Key == 1..MaxKey
Entry == UNION {[key : {k}, loc : 1..Copies[k]] : k \in Key}
None == 0

\* A link leads to a page of the file, or to the next that is to be written.
Page == 1..(Len(pages) + 1)
LeafNode == [leaf : {TRUE}, entries : Seq(Entry), next : Page \cup {None}]
InnerNode == [leaf : {FALSE}, entries : Seq([key : Key, child : Page]), left : Page]
PageWrite == [at : Page, node : LeafNode \cup InnerNode]
Nothing == [op |-> "none"]
Climb == [op : {"propagate"}, key : Key, child : Page, path : Seq(Page)]

TypeOK ==
    /\ pages \in Seq(LeafNode \cup InnerNode)
    /\ \A p \in DOMAIN pages :
          Len(pages[p].entries) <= IF pages[p].leaf THEN LeafCap ELSE NodeCap
    /\ todo \in Seq(PageWrite)
    /\ climb \in Climb \cup {Nothing}
    /\ pending \in [op : {"insert", "delete"}, entry : Entry] \cup {Nothing}
    /\ torn \in BOOLEAN
    /\ stored \subseteq Entry /\ doubtful \subseteq Entry
    /\ used \in [Key -> Nat] /\ \A k \in Key : used[k] <= Copies[k]
    /\ upsets \in 0..MaxUpsets
    /\ damage \subseteq {"cut", "equal"}

------------------------------------------------------------------------------
(* Nodes.                                                                  *)

\* Mutation: one entry too many.
FullLate(entries, cap) == Len(entries) > cap + 1
NodeFull(entries, cap) == Len(entries) > cap

\* build_leaf_page, build_internal_page
Leaf(entries, next) == [leaf |-> TRUE, entries |-> entries, next |-> next]
Inner(entries, left) == [leaf |-> FALSE, entries |-> entries, left |-> left]

\* The entries before the first with a greater key: where an entry goes
\* (position) and which child covers a key (child_for_key).
\* Mutation: before the first with a key not smaller.
Smaller(entries, key) == Cardinality({i \in DOMAIN entries : \A j \in 1..i : entries[j].key < key})
NotGreater(entries, key) ==
    Cardinality({i \in DOMAIN entries : \A j \in 1..i : entries[j].key <= key})

InsertAt(entries, e) ==
    LET n == NotGreater(entries, e.key)
    IN  SubSeq(entries, 1, n) \o <<e>> \o SubSeq(entries, n + 1, Len(entries))

ChildForKey(node, key) ==
    LET n == NotGreater(node.entries, key)
    IN  IF n = 0 THEN node.left ELSE node.entries[n].child

Last(s) == s[Len(s)]
Front(s) == SubSeq(s, 1, Len(s) - 1)

\* The pages met from p on by `step`, as many as there can be before it repeats.
Walk(p, step) ==
    LET at[n \in 0..Len(pages)] == IF n = 0 THEN p ELSE step[at[n - 1]]
    IN  at

\* path_to_leaf
TowardsKey(key) == [p \in Page |-> IF pages[p].leaf THEN p ELSE ChildForKey(pages[p], key)]
PathToLeaf(key) ==
    LET at == Walk(Root, TowardsKey(key))
        depth == CHOOSE d \in 0..Len(pages) :
                    /\ pages[at[d]].leaf
                    /\ \A c \in 0..(d - 1) : ~pages[at[c]].leaf
    IN  [i \in 1..(depth + 1) |-> at[i - 1]]

\* leftmost_leaf
Leftwards == [p \in Page |-> IF pages[p].leaf THEN p ELSE pages[p].left]
LeftmostLeaf == Walk(Root, Leftwards)[Len(pages)]

\* The leaves from p on along next_leaf, as far as they are leaves.
IsLeaf(p) == p \in DOMAIN pages /\ pages[p].leaf
Onwards == [p \in Page \cup {None} |-> IF IsLeaf(p) THEN pages[p].next ELSE None]
Chain(p) ==
    LET at == Walk(p, Onwards)
        length == Cardinality({n \in 0..Len(pages) : IsLeaf(at[n])})
    IN  [n \in 1..length |-> at[n - 1]]

Flat(leaves) ==
    LET upto[n \in 0..Len(leaves)] ==
          IF n = 0 THEN <<>> ELSE upto[n - 1] \o pages[leaves[n]].entries
    IN  upto[Len(leaves)]

------------------------------------------------------------------------------
(* Reading.                                                                *)

\* The entries that belong to S, in order.
Only(S, entries) ==
    LET upto[n \in 0..Len(entries)] ==
          IF n = 0 THEN <<>>
          ELSE IF entries[n] \in S THEN Append(upto[n - 1], entries[n]) ELSE upto[n - 1]
    IN  upto[Len(entries)]

Search(key) == Only({e \in Entry : e.key = key}, pages[Last(PathToLeaf(key))].entries)

\* range_search: it starts in the leaf of the lower bound and returns at the
\* first entry beyond the upper one.
Bound == [key : Key, inclusive : BOOLEAN]
TooSmall(e, lower) ==
    lower # Nothing /\ IF lower.inclusive THEN e.key < lower.key ELSE e.key <= lower.key
TooBig(e, upper) ==
    upper # Nothing /\ IF upper.inclusive THEN e.key > upper.key ELSE e.key >= upper.key

RangeSearch(lower, upper) ==
    LET start == IF lower = Nothing THEN LeftmostLeaf ELSE Last(PathToLeaf(lower.key))
        found == Only({e \in Entry : ~TooSmall(e, lower)}, Flat(Chain(start)))
        n == Cardinality({i \in DOMAIN found : \A j \in 1..i : ~TooBig(found[j], upper)})
    IN  SubSeq(found, 1, n)

------------------------------------------------------------------------------
(* Writing.                                                                *)

Init ==
    /\ pages = <<Leaf(<<>>, None)>>
    /\ todo = <<>> /\ climb = Nothing /\ pending = Nothing /\ torn = FALSE
    /\ stored = {} /\ doubtful = {} /\ used = [k \in Key |-> 0]
    /\ upsets = 0 /\ damage = {}

Idle == pending = Nothing
Mid(entries) == Len(entries) \div 2
LeftHalf(entries) == SubSeq(entries, 1, Mid(entries))
RightHalf(entries) == SubSeq(entries, Mid(entries) + 1, Len(entries))
Promoted(entries) == entries[Mid(entries) + 1]

Fresh == Len(pages) + 1
WriteTo(p, node) == [at |-> p, node |-> node]

\* write_new_root
NewRoot(left, right, key) == WriteTo(Root, Inner(<<[key |-> key, child |-> right]>>, left))

\* Mutation: the left half keeps the old link, past the right half.
LinkSkipsRight(right, next) == next
LinkToRight(right, next) == right

\* What is written, in order, and what propagate() then has to do.
Plan(writes, then) == [writes |-> writes, then |-> then]
ToParent(path, key, child) ==
    [op |-> "propagate", key |-> key, child |-> child, path |-> Front(path)]

\* split_leaf: at the root both halves move to fresh pages and the root is
\* written last; elsewhere the left half stays where it was.
SplitLeaf(path, entries, next) ==
    LET sep == Promoted(entries).key
        left == LeftHalf(entries)
        right == RightHalf(entries)
    IN  IF Last(path) = Root
          THEN Plan(<<WriteTo(Fresh, Leaf(left, LinkToRight(Fresh + 1, next))),
                      WriteTo(Fresh + 1, Leaf(right, next)),
                      NewRoot(Fresh, Fresh + 1, sep)>>, Nothing)
          ELSE Plan(<<WriteTo(Last(path), Leaf(left, LinkToRight(Fresh, next))),
                      WriteTo(Fresh, Leaf(right, next))>>, ToParent(path, sep, Fresh))

\* split_internal: as split_leaf, but the middle entry moves up.
SplitInternal(path, entries, leftmost) ==
    LET up == Promoted(entries)
        left == Inner(LeftHalf(entries), leftmost)
        right == Inner(Tail(RightHalf(entries)), up.child)
    IN  IF Last(path) = Root
          THEN Plan(<<WriteTo(Fresh, left), WriteTo(Fresh + 1, right),
                      NewRoot(Fresh, Fresh + 1, up.key)>>, Nothing)
          ELSE Plan(<<WriteTo(Last(path), left), WriteTo(Fresh, right)>>,
                    ToParent(path, up.key, Fresh))

\* write_page_durable for the first page of a plan; with the last page of all
\* the operation returns.
Put(write) == IF write.at = Fresh THEN Append(pages, write.node)
              ELSE [pages EXCEPT ![write.at] = write.node]

Perform(operation, plan) ==
    LET done == Len(plan.writes) = 1 /\ plan.then = Nothing IN
    /\ pages' = Put(Head(plan.writes))
    /\ todo' = Tail(plan.writes)
    /\ climb' = plan.then
    /\ pending' = IF done THEN Nothing ELSE operation
    /\ torn' = (~done /\ (torn \/ plan.then # Nothing))
    /\ stored' = IF ~done THEN stored
                 ELSE IF operation.op = "insert" THEN stored \cup {operation.entry}
                 ELSE stored \ {operation.entry}
    /\ doubtful' = IF done THEN doubtful \ {operation.entry} ELSE doubtful

MayInsert(key) == used[key] < Copies[key] /\ Cardinality(stored \cup doubtful) < MaxEntries

\* insert.  Halves that share a key are the first mishap.
Insert(key) ==
    LET e == [key |-> key, loc |-> used[key] + 1]
        path == PathToLeaf(key)
        leaf == pages[Last(path)]
        entries == InsertAt(leaf.entries, e)
        split == NodeFull(entries, LeafCap)
        shared == split /\ Last(LeftHalf(entries)).key = Promoted(entries).key
    IN  /\ Idle /\ MayInsert(key)
        /\ Perform([op |-> "insert", entry |-> e],
                   IF split THEN SplitLeaf(path, entries, leaf.next)
                   ELSE Plan(<<WriteTo(Last(path), Leaf(entries, leaf.next))>>, Nothing))
        /\ used' = [used EXCEPT ![key] = @ + 1]
        /\ damage' = damage \cup IF shared THEN {"equal"} ELSE {}
        /\ UNCHANGED upsets

\* delete returns false, and changes nothing, if the leaf has no such entry.
Delete(e) ==
    LET p == Last(PathToLeaf(e.key))
        kept == Only(Entry \ {e}, pages[p].entries)
    IN  /\ Idle /\ kept # pages[p].entries
        /\ upsets < MaxUpsets /\ upsets' = upsets + 1
        /\ Perform([op |-> "delete", entry |-> e],
                   Plan(<<WriteTo(p, Leaf(kept, pages[p].next))>>, Nothing))
        /\ UNCHANGED <<used, damage>>

\* The next page of a split.
Continue ==
    /\ todo # <<>>
    /\ Perform(pending, Plan(todo, climb))
    /\ UNCHANGED <<used, upsets, damage>>

\* propagate
Propagate ==
    LET parent == Last(climb.path)
        leftmost == pages[parent].left
        entries == InsertAt(pages[parent].entries, [key |-> climb.key, child |-> climb.child])
    IN  /\ todo = <<>> /\ climb # Nothing
        /\ Perform(pending,
                   IF NodeFull(entries, NodeCap) THEN SplitInternal(climb.path, entries, leftmost)
                   ELSE Plan(<<WriteTo(parent, Inner(entries, leftmost))>>, Nothing))
        /\ UNCHANGED <<used, upsets, damage>>

\* The process dies and open() replays the log.  A node cut in half whose
\* right half is not linked yet is the second mishap.
Crash ==
    /\ upsets < MaxUpsets /\ upsets' = upsets + 1
    /\ todo' = <<>> /\ climb' = Nothing /\ pending' = Nothing /\ torn' = FALSE
    /\ LET cutShort == IF Idle THEN {} ELSE {pending.entry} IN
         /\ stored' = stored \ cutShort
         /\ doubtful' = doubtful \cup cutShort
    /\ damage' = damage \cup IF torn THEN {"cut"} ELSE {}
    /\ UNCHANGED <<pages, used>>

Stop == Idle /\ (\A key \in Key : ~MayInsert(key)) /\ UNCHANGED vars

Next ==
    \/ \E key \in Key : Insert(key)
    \/ \E e \in stored \cup doubtful : Delete(e)
    \/ Continue \/ Propagate \/ Crash \/ Stop

Spec == Init /\ [][Next]_vars

------------------------------------------------------------------------------
ElementsOf(s) == {s[i] : i \in DOMAIN s}
Once(s) == \A i, j \in DOMAIN s : s[i] = s[j] => i = j

\* `found` is what the entries from key lo to key hi should be: each once, all
\* that were stored, and else only those that a crash left in doubt.
Exactly(found, lo, hi) ==
    LET wanted(S) == {e \in S : lo <= e.key /\ e.key <= hi} IN
    /\ Once(found)
    /\ wanted(stored) \subseteq ElementsOf(found)
    /\ ElementsOf(found) \subseteq wanted(stored \cup doubtful)

\* An index lookup finds what was inserted under its key: through splits at
\* every level, deletions and crashes.
SearchIsExact ==
    Idle /\ damage = {} => \A k \in Key : Exactly(Search(k), k, k)

\* So does a range scan bounded on one side, as the planner asks for them, and
\* in the order of the keys.
Ascending(s) == \A i \in 1..(Len(s) - 1) : s[i].key <= s[i + 1].key
RangeIsExact ==
    Idle /\ damage = {} => \A b \in Bound :
        /\ LET above == RangeSearch(b, Nothing)
           IN  /\ Exactly(above, IF b.inclusive THEN b.key ELSE b.key + 1, MaxKey)
               /\ Ascending(above)
        /\ LET below == RangeSearch(Nothing, b)
           IN  /\ Exactly(below, 1, IF b.inclusive THEN b.key ELSE b.key - 1)
               /\ Ascending(below)

\* Whatever the keys, the chain of leaves holds every entry, once.
ChainIsComplete ==
    Idle /\ "cut" \notin damage => Exactly(Flat(Chain(LeftmostLeaf)), 1, MaxKey)

\* Whatever is inserted is found by a search for its key.
EntriesAreFound ==
    Idle => \A e \in stored : e \in ElementsOf(Search(e.key))
==============================================================================
