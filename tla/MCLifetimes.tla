----------------------------- MODULE MCLifetimes -----------------------------
(* Lifetimes.tla with one or two singletons of each policy. *)
EXTENDS Lifetimes

CONSTANTS log, keyboard, display,  \* longevous, the log the longest
          allocator, object  \* a master and its follower

Longevities == [s \in Longevous |-> IF s = log THEN 2 ELSE 1]
Masters == [f \in Follower |-> allocator]
=============================================================================
