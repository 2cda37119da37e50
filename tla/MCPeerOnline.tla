---------------------------- MODULE MCPeerOnline ----------------------------
(***************************************************************************)
(* One player's link: two sockets at a time (the link's and one it has     *)
(* dropped), all times a few units with the order they have in the source. *)
(***************************************************************************)
EXTENDS PeerOnline
=============================================================================
