----------------------------- MODULE RouteLife -----------------------------
(***************************************************************************)
(* What the routing table promises of one entry, whatever list, timers and *)
(* threads it is made of: an entry an administrator has made is kept; a    *)
(* learned one is deleted only after it has gone, one stage at a time,     *)
(* from valid through INVALID to FLUSH.                                    *)
(***************************************************************************)
CONSTANTS Entry,     \* places an entry can take
          Boot       \* those of them that are taken from the start

VARIABLE life

Stage == {"free", "kept", "valid", "invalid", "flush"}

Init == life = [e \in Entry |-> IF e \in Boot THEN "kept" ELSE "free"]

Move(e, from, to) ==
  /\ life[e] = from
  /\ life' = [life EXCEPT ![e] = to]

Keep(e)        == Move(e, "free", "kept")       \* boot, network, rip
Learn(e)       == Move(e, "free", "valid")      \* a neighbour advertises it
Doubt(e)       == Move(e, "valid", "invalid")
Unreachable(e) == Move(e, "invalid", "flush")
Forget(e)      == Move(e, "flush", "free")

Next ==
  \E e \in Entry :
    Keep(e) \/ Learn(e) \/ Doubt(e) \/ Unreachable(e) \/ Forget(e)

Spec == Init /\ [][Next]_life
=============================================================================
