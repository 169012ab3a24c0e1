----------------------------- MODULE FdPool -----------------------------
(***************************************************************************)
(* What the descriptors promise their callers: an open hands out a         *)
(* descriptor nobody has, for a device nobody has locked; a device is      *)
(* locked by its only descriptor; close gives the descriptor and the lock  *)
(* back, except that the three streams keep theirs.                        *)
(***************************************************************************)
EXTENDS Naturals

CONSTANTS Fd, All, None

VARIABLES owner,   \* the device of each descriptor a caller has, or None
          locked,  \* descriptors that have their device to themselves
          begun    \* the program has started

Init ==
  /\ begun \in BOOLEAN /\ locked = {}
  /\ owner \in [Fd -> All \cup {None}]
  /\ \A f \in Fd : owner[f] # None => begun
  /\ begun => owner[0] # None /\ owner[1] # None /\ owner[2] # None

Start ==
  /\ ~begun /\ begun'
  /\ owner' \in {o \in [Fd -> All \cup {None}] : \A f \in Fd : o[f] = None <=> f > 2}
  /\ locked' = {}

Grant(f, d) ==
  /\ begun /\ owner[f] = None
  /\ \A g \in locked : owner[g] # d
  /\ owner' = [owner EXCEPT ![f] = d]
  /\ UNCHANGED <<locked, begun>>

Lock(f) ==
  /\ owner[f] # None /\ \A g \in Fd : owner[g] = owner[f] => g = f
  /\ locked' = locked \cup {f}
  /\ UNCHANGED <<owner, begun>>

Unlock(f) == locked' = locked \ {f} /\ UNCHANGED <<owner, begun>>

Close(f) ==
  /\ owner[f] # None /\ owner' = [owner EXCEPT ![f] = None]
  /\ locked' = locked \ {f}
  /\ UNCHANGED begun

Next ==
  \/ Start
  \/ \E f \in Fd : Lock(f) \/ Unlock(f) \/ Close(f) \/ \E d \in All : Grant(f, d)

Spec == Init /\ [][Next]_<<owner, locked, begun>>
=============================================================================
