------------------------------- MODULE MCTui --------------------------------
(***************************************************************************)
(* Instances of Tui for TLC: two processes that change places in the       *)
(* third panel from one snapshot to the next, and a snapshot that shrank.  *)
(***************************************************************************)
EXTENDS Tui

CONSTANTS s1, o1, p1, p2

MCSnapshots ==
  {[services |-> <<s1>>, ports |-> <<o1>>, processes |-> <<p1, p2>>],
   [services |-> <<>>,   ports |-> <<>>,   processes |-> <<p2>>]}

=============================================================================
