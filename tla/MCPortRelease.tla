--------------------------- MODULE MCPortRelease ----------------------------
(***************************************************************************)
(* Instances of PortRelease for TLC.  Inode 4 is an IPv4 socket and inode  *)
(* 6 an IPv6 socket on the port, each with a dump of its own.              *)
(***************************************************************************)
EXTENDS PortRelease

MCKindOf == [i \in Inodes |-> IF i = 4 THEN 1 ELSE 2]

=============================================================================
