--------------------------- MODULE MCReconciler ---------------------------
(***************************************************************************)
(* Small worlds for the reconcile worker.  Collections: 1 proxy hosts,     *)
(* 2 streams or redirection hosts.  Containers 1 and 2 carry the same name *)
(* (2 is 1, recreated); 3 and 4 are services of their own.                 *)
(***************************************************************************)
EXTENDS ReconcilerProperties

CONSTANTS a, b, x   \* two configurations, and the one without an address

\* NPM does not keep configuration b: it answers, and lists, a.
Normalising == [c \in {a, b, x} |-> IF c = b THEN a ELSE c]

Def(kind, doms, cfg) ==
  [kind |-> kind, doms |-> doms, cfg |-> cfg, enabled |-> TRUE,
   complete |-> TRUE, index |-> 0]
NoPorts(d) == [d EXCEPT !.complete = FALSE]
Off(d) == [d EXCEPT !.enabled = FALSE]
Good(defs) == [defs |-> defs, bad |-> FALSE]
Unreadable(defs) == [defs |-> defs, bad |-> TRUE]

\* A resource NPM holds at start.
Held(id, kind, doms, cfg, owner) ==
  [id |-> id, kind |-> kind, doms |-> doms, cfg |-> cfg, enabled |-> TRUE,
   owner |-> owner, marked |-> FALSE, prefix |-> Nobody, name |-> Nobody,
   cid |-> Nobody, index |-> 0, by |-> owner]
Made(id, kind, doms, cfg, name, cid) ==
  [Held(id, kind, doms, cfg, "unstamped") EXCEPT
     !.marked = TRUE, !.prefix = 1, !.name = name, !.cid = cid, !.by = "us"]
Unmarked(r) == [r EXCEPT !.marked = FALSE]

Named == [c \in 1..5 |-> IF c <= 2 THEN 1 ELSE c]
Names2 == [c \in 1..2 |-> Named[c]]
Names3 == [c \in 1..3 |-> Named[c]]
NoSeed == {{}}

\* A service that is recreated with a configuration NPM normalises, and a
\* container whose labels broke after its host was made.
CoreLabels ==
  [c \in 1..3 |->
     CASE c = 1 -> Good({Def(1, {1}, a)})
       [] c = 2 -> Good({NoPorts(Def(1, {1}, b))})
       [] c = 3 -> Unreadable({})]
CoreSeeds == {{Unmarked(Made(1, 1, {1}, b, 1, 1)), Made(2, 1, {3}, a, 3, Nobody)},
              {Held(1, 1, {1}, a, "hand"), Held(2, 1, {2}, a, "other")}}

\* Two services; NPM rejects b outright in the runs that use this world.
TwoServices ==
  [c \in 1..3 |->
     CASE c = 1 -> Good({Off(Def(1, {1}, a))})
       [] c = 2 -> Good({Def(1, {1}, a)})
       [] c = 3 -> Good({Def(1, {2}, b), Def(2, {3}, a)})]
Plain == [c \in {a, b, x} |-> c]

\* Hosts of ours without a definition, in two collections; one of them was made
\* under another label prefix.
OneService == [c \in 1..2 |-> Good({Def(1, {1}, a)})]
Leftovers ==
  {Made(1, 1, {1}, a, 1, 1), Made(2, 1, {2}, a, 5, Nobody), Made(3, 2, {3}, a, 5, Nobody),
   Made(4, 2, {4}, a, 5, Nobody)}
GuardSeeds == {Leftovers, Leftovers \ {Made(4, 2, {4}, a, 5, Nobody)},
               {[Made(1, 1, {1}, a, 1, 1) EXCEPT !.prefix = 2],
                Made(2, 1, {2}, a, 5, Nobody)}}

\* Everybody who may own a host, on the domain of our service and
\* on the one it gains when it is recreated.
NeighbourSeeds ==
  {{Held(1, 1, {1}, a, o), Held(2, 1, {3}, a, p)} :
     o \in {"unstamped", "peer", "other"}, p \in {"hand", "redth", "peer"}}
Grown == [c \in 1..2 |-> Good({Def(1, IF c = 1 THEN {1} ELSE {1, 3}, a)})]
OwnerSeeds == GuardSeeds \cup NeighbourSeeds

\* The primary domain changes with the new container.
KeyChange == [c \in 1..2 |-> Good({Def(1, IF c = 1 THEN {2} ELSE {1, 2}, a)})]

\* Two services swapped their second domains while the process was away.
Swapped ==
  [c \in 1..3 |->
     CASE c = 1 -> Good({Def(1, {1, 3}, a)})
       [] c = 2 -> Good({})
       [] c = 3 -> Good({Def(1, {2, 4}, a)})]
SwapSeeds == {{Made(1, 1, {1, 4}, a, 1, 1), Made(2, 1, {2, 3}, a, 3, 3)}}

\* A host made by hand on the domain of a service.
HandMade == {{Held(1, 1, {1}, b, "hand")}}

=============================================================================
