----------------------------- MODULE BlockPool -----------------------------
(***************************************************************************)
(* What an allocator promises its clients, with nothing of how it does it. *)
(* Memory comes in areas; area[a] is the size in bytes of the blocks that  *)
(* area a is cut into, 0 if the allocator does not own a.  A client is     *)
(* given a block nobody holds, big enough for its request, and as long as  *)
(* it holds it the area the block is in stays what it was.                 *)
(***************************************************************************)
EXTENDS Naturals

CONSTANT Addr

VARIABLES area, live

Init ==
  /\ area = [a \in Addr |-> 0]
  /\ live = <<>>

\* The areas of blocks that stay with their clients are left alone; any other
\* area may be obtained, released or cut differently.
HeldAreasKept ==
  /\ area' = [a \in Addr |-> area'[a]]
  /\ \A p \in DOMAIN live \cap DOMAIN live' : area'[p[1]] = area[p[1]]

Allocate(p) ==
  /\ p \notin DOMAIN live
  /\ DOMAIN live' = DOMAIN live \cup {p}
  /\ \A q \in DOMAIN live : live'[q] = live[q]
  /\ p[1] \in Addr
  /\ area'[p[1]] # 0
  /\ live'[p] <= area'[p[1]]
  /\ HeldAreasKept

Deallocate(p) ==
  /\ p \in DOMAIN live
  /\ live' = [q \in DOMAIN live \ {p} |-> live[q]]
  /\ HeldAreasKept

Reorganize ==
  /\ UNCHANGED live
  /\ HeldAreasKept

Next ==
  \/ \E p \in DOMAIN live' : Allocate(p)
  \/ \E p \in DOMAIN live : Deallocate(p)
  \/ Reorganize

Spec == Init /\ [][Next]_<<area, live>>
=============================================================================
