--------------------------- MODULE LinkedObjects ---------------------------
(***************************************************************************)
(* What the files component promises about its links, whatever handlers,   *)
(* messages and restarts it takes: items have an object somewhere and a    *)
(* link; an object moves at its own time, and each move gives one notice.  *)
(* The notices are worked off in the order of the moves, a link is only    *)
(* ever changed to what the first of them says, and none of an item that   *)
(* is there is given up before its link says so too.  Objects of such      *)
(* items are never destroyed.                                              *)
(***************************************************************************)
EXTENDS Sequences

CONSTANTS Item, Place,
          Gone,   \* where a destroyed object is
          Nothing \* what the notice of a move that failed says

VARIABLES live,   \* the items that are there
          place,  \* where their objects are
          link,   \* where their links lead
          notices \* of moves, the oldest first

vars == <<live, place, link, notices>>

Init ==
  /\ live = Item
  /\ place \in [Item -> Place]
  /\ link = place
  /\ notices = <<>>

Notify(i, to) == notices' = Append(notices, [item |-> i, to |-> to])

Move(i, to) ==
  /\ place[i] # Gone
  /\ place' = [place EXCEPT ![i] = to]
  /\ Notify(i, to)
  /\ UNCHANGED <<live, link>>

FailMove(i) ==
  /\ Notify(i, Nothing)
  /\ UNCHANGED <<live, place, link>>

\* The first notice is followed, perhaps more than once...
Follow ==
  LET n == Head(notices) IN
  /\ notices # <<>> /\ n.item \in live /\ n.to # Nothing
  /\ link' = [link EXCEPT ![n.item] = n.to]
  /\ UNCHANGED <<live, place, notices>>

\* ...and given up when there is nothing left to follow.
GiveUp ==
  LET n == Head(notices) IN
  /\ notices # <<>>
  /\ n.item \in live /\ n.to # Nothing => link[n.item] = n.to
  /\ notices' = Tail(notices)
  /\ UNCHANGED <<live, place, link>>

Remove(items) ==
  /\ live' = live \ items
  /\ UNCHANGED <<place, link, notices>>

Destroy(items) ==
  /\ items \cap live = {}
  /\ place' = [i \in Item |-> IF i \in items THEN Gone ELSE place[i]]
  /\ UNCHANGED <<live, link, notices>>

Next ==
  \/ \E i \in Item, to \in Place : Move(i, to)
  \/ \E i \in Item : FailMove(i)
  \/ Follow
  \/ GiveUp
  \/ \E items \in SUBSET Item : Remove(items) \/ Destroy(items)

Spec == Init /\ [][Next]_vars
=============================================================================
