-------------------------------- MODULE Bag --------------------------------
(***************************************************************************)
(* What `rp bag record` promises its user: a bag is one file that is       *)
(* opened, receives messages one after the other, and is closed.  There is *)
(* no queue and no second thread here; a message that the recorder takes   *)
(* is in the bag at once.  The only way a message leaves an open bag is a  *)
(* failed write.  A closed bag never changes.                              *)
(***************************************************************************)
EXTENDS Integers, Sequences

CONSTANTS
    Sessions,   \* recording sessions, numbered 1..n
    Messages    \* what can be recorded

VARIABLES
    file,       \* per session: "none", "open", "finished" or "failed"
    log         \* per session: the messages of the bag, in order

bagVars == <<file, log>>

BagInit ==
    /\ file = [n \in Sessions |-> "none"]
    /\ log = [n \in Sessions |-> <<>>]

\* Bags are written one at a time.
OpenBag(n) ==
    /\ file[n] = "none"
    /\ \A m \in Sessions : file[m] # "open"
    /\ \E s \in {"open", "failed"} : file' = [file EXCEPT ![n] = s]
    /\ UNCHANGED log

AppendToBag(n, m) ==
    /\ file[n] = "open"
    /\ log' = [log EXCEPT ![n] = Append(@, m)]
    /\ UNCHANGED file

\* The i-th message could not be written; the others keep their order.
LoseFromBag(n, i) ==
    /\ file[n] = "open"
    /\ log' = [log EXCEPT ![n] = SubSeq(@, 1, i - 1) \o SubSeq(@, i + 1, Len(@))]
    /\ UNCHANGED file

CloseBag(n) ==
    /\ file[n] = "open"
    /\ \E s \in {"finished", "failed"} : file' = [file EXCEPT ![n] = s]
    /\ UNCHANGED log

BagNext ==
    \E n \in Sessions :
        \/ OpenBag(n)
        \/ CloseBag(n)
        \/ \E m \in Messages : AppendToBag(n, m)
        \/ \E i \in DOMAIN log[n] : LoseFromBag(n, i)

BagSpec == BagInit /\ [][BagNext]_bagVars
=============================================================================
