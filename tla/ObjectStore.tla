----------------------------- MODULE ObjectStore -----------------------------
(***************************************************************************)
(* What the metabase promises to its clients: a location holds at most one *)
(* object, an object is what its positions hold, and every request changes *)
(* the locations it names and no other.  A copy is an object of its own:   *)
(* that it shares data with another one is never seen, except that a       *)
(* repair of the data repairs it wherever it is.                           *)
(***************************************************************************)
EXTENDS Functions

CONSTANTS
    Locations, Positions,
    Data,      \* what a position may hold: [root, pieces]
    InlineData \* the one of Data that has no pieces

VARIABLE store    \* [locations that hold an object -> its contents]

Contents == UNION {[K -> Data] : K \in SUBSET Positions}

DataOf(content) == {content[p] : p \in DOMAIN content} \ {InlineData}
DataUsed == UNION {DataOf(store[l]) : l \in DOMAIN store}
IsNew(content) == \A d \in DataOf(content), e \in DataUsed : d.root # e.root

\* The location l, and no other, holds this content from now on.
Holds(l, content) ==
    store' = [m \in DOMAIN store \cup {l} |-> IF m = l THEN content ELSE store[m]]

\* A client commits an upload, with data that no object has.
Put(l) ==
    /\ l \in DOMAIN store'
    /\ store'[l] \in Contents /\ IsNew(store'[l])
    /\ Holds(l, store'[l])

\* The object at l is at m as well, in place of what was there.
Copy(l, m) == l \in DOMAIN store /\ Holds(m, store[l])

\* The object at l is at m, where there was none.
Move(l, m) ==
    /\ l \in DOMAIN store /\ m \notin DOMAIN store
    /\ store' = [k \in (DOMAIN store \ {l}) \cup {m} |-> IF k = m THEN store[l] ELSE store[k]]

\* Some objects are deleted, or they expire.
Delete ==
    /\ DOMAIN store' \subseteq DOMAIN store
    /\ store' = Restrict(store, DOMAIN store')

\* The same data has other pieces, in all objects that share it.
Repair(d, e) ==
    /\ d.root = e.root
    /\ store' = [l \in DOMAIN store |->
          [p \in DOMAIN store[l] |-> IF store[l][p] = d THEN e ELSE store[l][p]]]

Init == store = [l \in {} |-> 0]

Next ==
    /\ store' # store
    /\ \/ Delete
       \/ \E l \in Locations : Put(l)
       \/ \E l, m \in Locations : Copy(l, m) \/ Move(l, m)
       \/ \E d \in DataUsed, e \in Data : Repair(d, e)

Spec == Init /\ [][Next]_store
=============================================================================
