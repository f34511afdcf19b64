------------------------------- MODULE PageMap -------------------------------
(***************************************************************************)
(* What a buffer pool promises: a page file whose pages read as they were  *)
(* last written.  Pages reach the disk whenever the pool likes, each with  *)
(* the content it has at that moment, and a crash falls back on the disk.  *)
(* Writing past the end of the file fills the gap with Zero pages, which   *)
(* is why a crash may expose an empty page below a full one.               *)
(***************************************************************************)
EXTENDS Naturals

CONSTANTS MaxPage, Image, Zero, Beyond

VARIABLES content,      \* what a reader gets for each page
          durable       \* what the file holds

vars == <<content, durable>>

Page == 0..MaxPage

Init == /\ content = [p \in Page |-> Beyond]
        /\ durable = content

\* Any set of pages is brought to disk as it now is.
Persist ==
    \E S \in SUBSET {p \in Page : content[p] # Beyond} :
        durable' = [p \in Page |->
                      IF p \in S THEN content[p]
                      ELSE IF durable[p] = Beyond /\ \E q \in S : p < q THEN Zero
                      ELSE durable[p]]

\* The pages are allocated in order.
Write(p, img) == /\ \A q \in Page : q < p => content[q] # Beyond
                 /\ content' = [content EXCEPT ![p] = img]
                 /\ Persist

Read == Persist /\ UNCHANGED content

Crash == content' = durable /\ UNCHANGED durable

Next == \/ \E p \in Page, img \in Image : Write(p, img)
        \/ Read
        \/ Crash

Spec == Init /\ [][Next]_vars
==============================================================================
