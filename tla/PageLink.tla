------------------------------ MODULE PageLink ------------------------------
(***************************************************************************)
(* What a page may count on from its link to a friend, whatever sockets,   *)
(* timers and retries are behind it: the link is off, waiting for a friend,*)
(* on, or away (the seat is held and being asked for).  The page hears     *)
(* every change of it once, hears no message unless the link is on, and    *)
(* hears nothing once it is off.  PeerOnline implements this.              *)
(***************************************************************************)
VARIABLES
  view,   \* the link as the page has been told of it
  said    \* what the last step told the page, if anything

linkVars == <<view, said>>

Views == {"off", "waiting", "on", "away"}
Closings == {"network", "lost", "relay"}   \* the reasons of PeerEvent::Closed
Heard == {"none", "pairing", "hosting", "open", "message",
          "friendAway", "friendBack", "away", "back"} \cup Closings

LinkInit == view = "off" /\ said = "none"

Goes(from, to, what) == view \in from /\ view' = to /\ said' = what

Quiet == said' = "none" /\ UNCHANGED view

\* a new game: whatever the link was, the page has asked for another
Host == Goes(Views, "waiting", "none")
Join == Goes(Views, "waiting", "pairing")
Hosting == Goes({"waiting"}, "waiting", "hosting")
Open == Goes({"waiting"}, "on", "open")

Message == Goes({"on"}, "on", "message")
FriendGoes == Goes({"on"}, "on", "friendAway")
FriendComes == Goes({"on"}, "on", "friendBack")

Away == Goes({"on"}, "away", "away")
Back == Goes({"away"}, "on", "back")

\* the page leaves, and hears nothing of it
Leave == Goes(Views, "off", "none")

\* the link ends by itself: "network" only when there never was one
Ends ==
  \/ Goes({"waiting"}, "off", "network")
  \/ Goes({"waiting", "on", "away"}, "off", "lost")
  \/ Goes({"waiting", "on", "away"}, "off", "relay")

LinkNext ==
  \/ Quiet \/ Host \/ Join \/ Hosting \/ Open \/ Message \/ FriendGoes
  \/ FriendComes \/ Away \/ Back \/ Leave \/ Ends

LinkSpec == LinkInit /\ [][LinkNext]_linkVars
=============================================================================
