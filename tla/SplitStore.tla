----------------------------- MODULE SplitStore -----------------------------
(***************************************************************************)
(* What the split cache of 3dsd/split.py is to those who trust it: a shelf *)
(* per binary, and for some shelves the inputs their contents are vouched  *)
(* to be the whole split of.  Work on a shelf is out of sight: it may be   *)
(* in any state while nothing vouches for it.                              *)
(***************************************************************************)
CONSTANTS
  Binary,
  Source,        \* what a split is cut from
  Whole,         \* Whole[k]: the contents of a shelf that is the whole split of k
  None           \* nothing vouches for this shelf

VARIABLES
  shelf,         \* shelf[b]: the objects in split/<b>
  vouched        \* vouched[b]: the inputs they are the split of, or None

vars == <<shelf, vouched>>

Init == vouched = [b \in Binary |-> None]

\* The work is done and shown.  The shelf is as it was left.
Publish(b) ==
  /\ vouched[b] = None
  /\ \E k \in Source : /\ shelf[b] = Whole[k]
                       /\ vouched' = [vouched EXCEPT ![b] = k]
  /\ shelf' = shelf

\* The shelves in `bs` are withdrawn, if they were vouched for, and worked on.
Rework(bs) ==
  /\ \A b \in bs : vouched'[b] = None
  /\ \A b \in Binary \ bs : shelf'[b] = shelf[b] /\ vouched'[b] = vouched[b]

Next == (\E b \in Binary : Publish(b)) \/ (\E bs \in SUBSET Binary : Rework(bs))

Spec == Init /\ [][Next]_vars
=============================================================================
