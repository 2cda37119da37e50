------------------------------ MODULE RoomProofs ------------------------------
(***************************************************************************)
(* One room, for any links, times and queues: its seats, its links, its    *)
(* alarm and its place on the list agree, whatever its handlers and its    *)
(* players do between the awaits; what is kept for a player comes in its   *)
(* order and whole; and a game both can come back to ends for a cause.     *)
(***************************************************************************)
EXTENDS Room, SequenceTheorems, FiniteSetTheorems, TLAPS

-----------------------------------------------------------------------------
(* The inductive invariant: links, seats and the list *)

Whys == {"nothing", "bye", "lost", "expired"}
LinkFacts ==
  [at : {"none", "open", "lost", "closing", "leaving"}, side : Sides, meta : BOOLEAN,
   replaced : BOOLEAN, opened : BOOLEAN, sees : {"here", "away"},
   told : Whys]
Aways == (0 .. Grace) \cup {Here}

Switches == listed \in BOOLEAN /\ adding \in BOOLEAN /\ missed \in BOOLEAN

Typed ==
  /\ kind \in {"none", "listed", "code"} /\ resume \in BOOLEAN /\ Switches
  /\ seats \in BOOLEAN /\ link \in [Links -> LinkFacts]
  /\ entering \in [Links -> Links \cup {Nobody}] /\ expiring \subseteq Links
  /\ away \in [Sides -> Aways] /\ token \subseteq Sides

There(l, side) == link[l].side = side /\ link[l].at # "none"
Entering == \E g \in Links : entering[g] # Nobody
FirstHost(l) == Open(l) /\ link[l].meta     \* whom the list shows

\* The list has the room or is to have it, and no remove has failed.
OnList == (listed \/ adding) /\ ~missed

\* Nothing happens in a room before it is opened, and only a listed one unlists itself.
Unopened ==
  /\ kind = "none" => ~seats /\ ~OnList /\ ~missed /\ \A l \in Links : link[l] = NoLink /\ entering[l] = Nobody
  /\ kind # "listed" => expiring = {}

\* A link of its own: a first host is the only host, and a guest beside it without seats has
\* not been closed; no side has two; and a link the room has closed, and no other replaced, is
\* one whose game is over, or that expired, or that nobody can come back to.
LinkRight(l) ==
  /\ link[l].at = "none" => link[l] = NoLink
  /\ link[l].replaced => link[l].at = "closing"
  /\ link[l].meta => link[l].side = "host" /\ kind = "listed"
  /\ link[l].at = "leaving" => link[l].meta /\ ~seats /\ ~Entering
  /\ FirstHost(l) => \A k \in Links : There(k, "host") => k = l
  /\ FirstHost(l) /\ ~seats => \A k \in Links : There(k, "guest") => Open(k)
  /\ \A k \in Links : Open(k) /\ Open(l) /\ link[k].side = link[l].side => k = l
  /\ link[l].at = "closing" /\ ~link[l].replaced =>
       /\ seats => link[l].told = "expired" \/ token = {}
       /\ \A g \in Links : entering[g] # Nobody => l = g \/ link[l].told = "expired"
       /\ kind = "code" => ~seats /\ ~Live("host")

\* A guest at its unlist: no seats yet and no other guest, and its host's link, if there is
\* one, is the only one; once that has gone, so has the guest's.
EnteringRight(g) == entering[g] # Nobody =>
  /\ kind = "listed" /\ ~seats /\ There(g, "guest") /\ ~link[g].replaced
  /\ link[g].at # "leaving" /\ link[entering[g]].side = "host" /\ entering[g] # g
  /\ Open(g) \/ \A l \in Links : ~There(l, "host")
  /\ \A l \in Links : There(l, "guest") => l = g
  /\ \A k, l \in Links : There(k, "host") /\ There(l, "host") => k = l

\* A room on the list has no seats, and no guest but one at its unlist; somebody is in it, or
\* it is about to unlist itself.
Waited ==
  \/ Live("host") \/ \E l \in Links : link[l].at = "leaving"
  \/ expiring # {} \/ \E g \in Links : entering[g] # Nobody
ListedRight == OnList =>
  /\ kind = "listed" /\ ~seats
  /\ \A l \in Links : (There(l, "host") => link[l].meta) /\ (There(l, "guest") => Entering)
  /\ Waited

\* Something is left of a game with seats.
Played == token # {} \/ (\E l \in Links : link[l].sees = "away") \/ \E s \in Sides : kept[s] # {}

\* A room has one such game: after it, no link is left that a guest could join.
OverForGood == Played /\ ~seats =>
  /\ kind # "none" /\ ~Entering
  /\ \A l \in LiveOn("host") : kind = "listed" /\ ~link[l].meta

\* Seats are someone's, who is away or on a link.
SeatsAreHad == seats =>
  \/ \E s \in Sides : away[s] # Here
  \/ \E l \in Links : link[l].at \notin {"none", "leaving"} /\ ~link[l].replaced

AwayIsGone == seats => \A s \in Sides : away[s] # Here => ~Live(s)

Placed ==
  /\ Typed /\ Unopened
  /\ \A l \in Links : LinkRight(l) /\ EnteringRight(l)
  /\ ListedRight /\ OverForGood /\ SeatsAreHad /\ AwayIsGone

-----------------------------------------------------------------------------
(* Values *)

\* The two sides, and what is kept of either.
LEMMA TwoSides ==
  /\ \A s \in Sides : Other(s) \in Sides /\ Other(s) # s /\ Other(Other(s)) = s
  /\ \A s \in Sides : s # "host" <=> s = "guest"
  /\ Here \notin Int /\ 0 # Here /\ AllHere \in [Sides -> Aways] /\ \A s \in Sides : AllHere[s] = Here
  /\ Other("host") = "guest" /\ Other("guest") = "host" /\ "host" \in Sides /\ "guest" \in Sides
BY RoomAssumption DEF Sides, Other, AllHere, Aways

\* A link not in use.
LEMMA NoLinkIs ==
  /\ NoLink \in LinkFacts /\ NoLink.at = "none" /\ NoLink.side = "host" /\ ~NoLink.meta
  /\ ~NoLink.replaced /\ ~NoLink.opened /\ NoLink.sees = "here"
BY DEF NoLink, LinkFacts, Sides, Whys

\* The list as it was, and a room that unlists itself.
LEMMA SameList == list' = list => OnList' = OnList /\ missed' = missed /\ (Switches => Switches')
BY DEF list, OnList, Switches

LEMMA OffTheList == Switches /\ Unlisted => ~OnList' /\ Switches'
<1> SUFFICES ASSUME Switches, Unlisted PROVE ~OnList' /\ Switches'
  OBVIOUS
<1>1. listed' = FALSE \/ listed' = listed
  BY DEF Unlisted
<1>2. listed' \in BOOLEAN /\ adding' \in BOOLEAN
  BY <1>1 DEF Unlisted, Switches
<1>3. missed' \in BOOLEAN /\ (listed' \/ adding' => missed')
  BY ZenonT(30) DEF Unlisted
<1> QED BY <1>2, <1>3 DEF OnList, Switches

\* A link the room closes keeps all but where it is and what its player is told.
LEMMA Closes ==
  ASSUME NEW lk \in LinkFacts, NEW why \in Whys
  PROVE  /\ Closed(lk, why) \in LinkFacts
         /\ Closed(lk, why).at = "closing" /\ Closed(lk, why).told = why
         /\ Closed(lk, why).side = lk.side /\ Closed(lk, why).meta = lk.meta
         /\ Closed(lk, why).replaced = lk.replaced /\ Closed(lk, why).sees = lk.sees
         /\ Closed(lk, why).opened = lk.opened
BY DEF Closed, LinkFacts

-----------------------------------------------------------------------------
(* Links that close, vanish and leave *)

\* What is the same of a link.
Like(k) ==
  /\ link'[k].side = link[k].side /\ link'[k].meta = link[k].meta
  /\ link'[k].replaced = link[k].replaced /\ link'[k].sees = link[k].sees

\* The links that leave's end touches: its own and the other side's.
LEMMA GoodbyeLinks ==
  ASSUME Typed, NEW l \in Links, NEW reason \in Whys, Goodbye(l, reason)
  PROVE  /\ link' \in [Links -> LinkFacts] /\ token' \subseteq token
         /\ link'[l] = NoLink
         /\ \A k \in Links \ {l} : Like(k) /\
              IF Open(k) /\ link[k].side = Other(link[l].side)
                THEN link'[k].at = "closing" /\ link'[k].told = reason
                ELSE link'[k] = link[k]
<1> DEFINE others == LiveOn(Other(link[l].side))
<1>1. /\ link \in [Links -> LinkFacts] /\ token' \subseteq token
      /\ link' = [k \in Links |-> IF k = l THEN NoLink
                              ELSE IF k \in others THEN Closed(link[k], reason) ELSE link[k]]
  BY DEF Goodbye, Typed
<1>2. \A k \in Links : k \in others <=> Open(k) /\ link[k].side = Other(link[l].side)
  BY DEF LiveOn
<1> HIDE DEF others
<1>3. \A k \in Links : link[k] \in LinkFacts
  BY <1>1
<1>4. link'[l] = NoLink
  BY <1>1
<1>5. \A k \in Links \ {l} : link'[k] = IF k \in others THEN Closed(link[k], reason) ELSE link[k]
  BY <1>1
<1>6. link' \in [Links -> LinkFacts]
  BY <1>1, <1>3, NoLinkIs, Closes
<1>7. ASSUME NEW k \in Links \ {l}
      PROVE  Like(k) /\ IF Open(k) /\ link[k].side = Other(link[l].side)
                          THEN link'[k].at = "closing" /\ link'[k].told = reason
                          ELSE link'[k] = link[k]
  BY <1>2, <1>3, <1>5, Closes DEF Like
<1> QED BY <1>1, <1>4, <1>6, <1>7

\* A link goes and the other side's is closed, with no seats after it.
LEMMA GoodbyePlaced ==
  ASSUME Placed, NEW l \in Links, NEW reason \in Whys, Goodbye(l, reason),
         link[l].at # "none", ~link[l].replaced, entering[l] = Nobody, seats' = FALSE,
         seats => link[l].at # "leaving",
         Switches', OnList' => OnList /\ link[l].at # "leaving" /\
           (link[l].side = "guest" \/ Live("guest") \/ ~link[l].meta),
         away' \in [Sides -> Aways], UNCHANGED <<kind, resume, tasks, kept>>
  PROVE  Placed'
<1> DEFINE s == link[l].side
<1>1. /\ link' \in [Links -> LinkFacts] /\ token' \subseteq token /\ link'[l] = NoLink
      /\ \A k \in Links \ {l} : Like(k) /\
              IF Open(k) /\ link[k].side = Other(s)
                THEN link'[k].at = "closing" /\ link'[k].told = reason
                ELSE link'[k] = link[k]
  BY GoodbyeLinks DEF Placed
<1>2. /\ entering' = entering /\ expiring' = expiring /\ kind' = kind /\ kept' = kept
      /\ Entering' = Entering /\ link[l] \in LinkFacts /\ s \in Sides
  BY DEF tasks, Entering, Placed, Typed, LinkFacts
<1>3. kind # "none"
  BY NoLinkIs DEF Placed, Unopened
<1>4. Typed' /\ Unopened'
  BY <1>1, <1>2, <1>3 DEF Placed, Typed, Unopened
<1> USE DEF There, FirstHost, Open, LiveOn, Live
<1>5. \A k \in Links : link[k] \in LinkFacts /\ LinkRight(k) /\ EnteringRight(k)
  BY DEF Placed, Typed
<1>6. \A k \in Links : /\ Open(k)' => Open(k) /\ k # l
                       /\ There(k, "host")' => There(k, "host") /\ k # l
                       /\ There(k, "guest")' => There(k, "guest") /\ k # l
  BY <1>1, NoLinkIs DEF Like
<1>7. ASSUME NEW k \in Links, Open(k)', link[k].side = "host"
      PROVE  s = "host" /\ link[l].at \in {"closing", "leaving"} /\ kind = "listed" /\ ~FirstHost(k)
  <2>1. Open(k) /\ k # l /\ s = "host"
    BY <1>1, <1>2, <1>6, <1>7, TwoSides
  <2>2. ~Open(l)
    BY <1>5, <2>1, <1>7 DEF LinkRight
  <2>3. link[l].at \in {"closing", "leaving"}
    BY <1>2, <2>2 DEF LinkFacts
  <2>4. kind = "listed"
    BY <1>3, <1>5, <1>7, <2>1, <2>3 DEF LinkRight, Placed, Typed
  <2>5. ~FirstHost(k)
    BY <1>5, <2>1 DEF LinkRight
  <2> QED BY <2>1, <2>3, <2>4, <2>5
<1>8. ASSUME NEW g \in Links, entering[g] # Nobody
      PROVE  /\ s = "host" /\ g # l /\ There(l, "host") /\ \A k \in Links : ~There(k, "host")'
  <2>1. g # l /\ s # "guest"
    BY <1>5, <1>8 DEF EnteringRight
  <2>2. There(l, "host")
    BY <1>2, <2>1, TwoSides
  <2>3. \A k \in Links : There(k, "host") => k = l
    BY <1>5, <1>8, <2>2 DEF EnteringRight
  <2> QED BY <1>2, <1>6, <2>1, <2>2, <2>3, TwoSides
<1>9. ASSUME NEW k \in Links PROVE LinkRight(k)'
  <2>1. CASE k = l
    BY <1>1, <2>1, NoLinkIs DEF LinkRight
  <2>2. CASE k # l
    <3>1. /\ Like(k) /\ LinkRight(k)
          /\ \/ link'[k] = link[k]
             \/ /\ Open(k) /\ link[k].side = Other(s)
                /\ link'[k].at = "closing" /\ link'[k].told = reason
      BY <1>1, <1>5, <2>2
    <3>2. /\ link'[k].at = "none" => link'[k] = NoLink
          /\ link'[k].replaced => link'[k].at = "closing"
          /\ link'[k].meta => link'[k].side = "host" /\ kind' = "listed"
          /\ link'[k].at = "leaving" => link'[k].meta /\ ~seats' /\ ~Entering'
      BY <1>2, <3>1 DEF LinkRight, Like
    <3>3. ~FirstHost(k)'
      BY <1>6, <1>7, <3>1 DEF LinkRight, Like
    <3>4. ASSUME NEW j \in Links PROVE (Open(j) /\ Open(k) /\ link[j].side = link[k].side)' => j = k
      BY <1>1, <1>6, <3>1 DEF LinkRight, Like
    <3>5. ASSUME link'[k].at = "closing", ~link'[k].replaced, NEW g \in Links, entering'[g] # Nobody
          PROVE  k = g \/ link'[k].told = "expired"
      BY <1>2, <1>5, <1>8, <3>1, <3>5, TwoSides DEF LinkRight, EnteringRight, Like
    <3>6. ASSUME link'[k].at = "closing", ~link'[k].replaced, kind' = "code"
          PROVE  ~Live("host")'
      BY <1>1, <1>2, <1>6, <1>7, <3>6 DEF Like
    <3> QED BY <3>2, <3>3, <3>4, <3>5, <3>6 DEF LinkRight
  <2> QED BY <2>1, <2>2
<1>10. ASSUME NEW g \in Links PROVE EnteringRight(g)'
  <2> SUFFICES ASSUME entering'[g] # Nobody PROVE EnteringRight(g)'
    BY DEF EnteringRight
  <2>1. /\ entering[g] # Nobody /\ EnteringRight(g) /\ entering[g] \in Links
    BY <1>2, <1>5 DEF Placed, Typed
  <2>2. s = "host" /\ g # l /\ \A k \in Links : ~There(k, "host")'
    BY <1>8, <2>1
  <2>3. There(g, "guest")' /\ ~link'[g].replaced /\ link'[g].at # "leaving"
    BY <1>1, <2>1, <2>2 DEF EnteringRight, Like
  <2>4. link'[entering[g]].side = "host"
    BY <1>1, <2>1, NoLinkIs DEF EnteringRight, Like
  <2> QED BY <1>2, <1>6, <2>1, <2>2, <2>3, <2>4 DEF EnteringRight
<1>11. ListedRight'
  <2> SUFFICES ASSUME OnList' PROVE ListedRight'
    BY DEF ListedRight
  <2>1. OnList /\ ListedRight
    BY DEF Placed
  <2>2. Entering \/ (s # "guest" /\ ~Live("guest"))
    BY <2>1 DEF ListedRight
  <2>3. Entering
    BY <1>2, <2>1, <2>2, TwoSides DEF ListedRight
  <2>4. Waited'
    BY <1>2, <2>3 DEF Waited, Entering
  <2>5. \A k \in Links : (There(k, "host")' => link'[k].meta) /\ (There(k, "guest")' => Entering')
    BY <1>1, <1>2, <1>6, <2>1, <2>3 DEF ListedRight, Like
  <2> QED BY <1>2, <2>1, <2>4, <2>5 DEF ListedRight
<1>12. OverForGood'
  <2> SUFFICES ASSUME Played' PROVE OverForGood'
    BY DEF OverForGood
  <2>1. Played
    <3>1. \A k \in Links : link'[k].sees = "away" => link[k].sees = "away"
      BY <1>1, NoLinkIs DEF Like
    <3> QED BY <1>1, <1>2, <3>1 DEF Played
  <2>2. ~Entering
    BY <1>5, <2>1 DEF Placed, OverForGood, EnteringRight, Entering
  <2>3. \A k \in Links : (Open(k) /\ link[k].side = "host")' => kind = "listed" /\ ~link'[k].meta
    BY <1>1, <1>6, <1>7 DEF Like
  <2> QED BY <1>2, <1>3, <2>2, <2>3 DEF OverForGood
<1>13. SeatsAreHad' /\ AwayIsGone'
  BY DEF SeatsAreHad, AwayIsGone
<1> QED BY <1>4, <1>9, <1>10, <1>11, <1>12, <1>13 DEF Placed

\* A host nobody joined sets out to leave.
LEMMA LeavingPlaced ==
  ASSUME Placed, NEW l \in Links, NEW reason \in Whys,
         link' = [link EXCEPT ![l].at = "leaving", ![l].told = reason], token' = token,
         link[l].at # "none", ~link[l].replaced, entering[l] = Nobody, seats' = FALSE,
         link[l].side = "host", link[l].meta, ~Live("guest"),
         away' \in [Sides -> Aways], UNCHANGED <<kind, resume, list, tasks, kept>>
  PROVE  Placed'
<1>1. /\ link \in [Links -> LinkFacts] /\ link[l] \in LinkFacts /\ entering' = entering
      /\ expiring' = expiring /\ kind' = kind /\ kept' = kept /\ OnList' = OnList /\ Switches'
      /\ Entering' = Entering
  BY SameList DEF tasks, Entering, Placed, Typed
<1>2. /\ link' \in [Links -> LinkFacts] /\ Like(l) /\ link'[l].at = "leaving"
      /\ \A k \in Links \ {l} : link'[k] = link[k]
  <2> DEFINE lk == [link[l] EXCEPT !.at = "leaving", !.told = reason]
  <2>1. link' = [link EXCEPT ![l] = lk]
    BY <1>1
  <2>2. /\ lk \in LinkFacts /\ lk.at = "leaving" /\ lk.side = link[l].side
        /\ lk.meta = link[l].meta /\ lk.replaced = link[l].replaced /\ lk.sees = link[l].sees
    <3>1. link[l] \in LinkFacts /\ reason \in Whys
      BY <1>1
    <3> QED BY <3>1 DEF LinkFacts
  <2> HIDE DEF lk
  <2> QED BY <1>1, <2>1, <2>2 DEF Like
<1>3. \A k \in Links : LinkRight(k) /\ EnteringRight(k)
  BY DEF Placed
<1>4. kind = "listed"
  BY <1>3 DEF LinkRight
<1>5. Typed' /\ Unopened'
  BY <1>1, <1>2, <1>4 DEF Placed, Typed, Unopened
<1> USE DEF There, FirstHost, Open, LiveOn, Live
<1>6. ~Entering
  BY <1>1, <1>3 DEF EnteringRight, Entering
<1>7. \A k \in Links : ~FirstHost(k)'
  BY <1>1, <1>2, <1>3 DEF LinkRight
<1>8. ASSUME NEW k \in Links PROVE LinkRight(k)'
  <2>1. CASE k = l
    BY <1>1, <1>2, <1>3, <1>4, <1>6, <1>7, <2>1 DEF LinkRight, Like
  <2>2. CASE k # l
    <3>1. link'[k] = link[k] /\ LinkRight(k)
      BY <1>2, <1>3, <2>2
    <3>2. \A j \in Links : Open(j)' => link'[j] = link[j]
      BY <1>2
    <3> QED BY <1>1, <1>4, <1>6, <1>7, <3>1, <3>2 DEF LinkRight, Entering
  <2> QED BY <2>1, <2>2
<1>9. \A g \in Links : EnteringRight(g)'
  BY <1>1, <1>6 DEF EnteringRight, Entering
<1>10. ListedRight'
  <2>1. Waited'
    BY <1>2 DEF Waited
  <2>2. \A k \in Links : (There(k, "host")' <=> There(k, "host")) /\ (There(k, "guest")' <=> There(k, "guest"))
                         /\ link'[k].meta = link[k].meta
    BY <1>1, <1>2 DEF Like
  <2> QED BY <1>1, <1>4, <2>1, <2>2 DEF Placed, ListedRight
<1>11. OverForGood'
  BY <1>1, <1>2, <1>4, <1>6, <1>7 DEF OverForGood, Entering
<1>12. SeatsAreHad' /\ AwayIsGone'
  BY DEF SeatsAreHad, AwayIsGone
<1> QED BY <1>5, <1>8, <1>9, <1>10, <1>11, <1>12 DEF Placed

\* leave, of a link that its player closed or that the room did, whatever comes of it.
LEMMA LeavePlaced ==
  ASSUME Placed, NEW l \in Links, NEW reason \in {"bye", "lost"}, Leave(l, reason),
         link[l].at \in {"open", "lost", "closing"}, ~link[l].replaced, entering[l] = Nobody,
         UNCHANGED <<kind, resume, list, tasks, kept>>
  PROVE  Placed' /\ ~seats'
<1>1. seats' = FALSE /\ away' \in [Sides -> Aways] /\ Switches' /\ OnList' = OnList
  BY TwoSides, SameList DEF Leave, End, game, Placed, Typed
<1>2. CASE link[l].side = "host" /\ ~Live("guest") /\ link[l].meta
           /\ link' = [link EXCEPT ![l].at = "leaving", ![l].told = reason] /\ token' = token
  BY <1>1, <1>2, LeavingPlaced DEF Whys
<1>3. CASE (link[l].side = "guest" \/ Live("guest") \/ ~link[l].meta) /\ Goodbye(l, reason)
  <2>1. /\ link[l].at # "none" /\ link[l].at # "leaving" /\ reason \in Whys
        /\ UNCHANGED <<kind, resume, tasks, kept>>
    BY DEF Whys
  <2>2. Switches' /\ (OnList' => OnList)
    BY <1>1
  <2> QED BY <1>1, <1>3, <2>1, <2>2, GoodbyePlaced
<1> QED BY <1>1, <1>2, <1>3 DEF Leave

\* leave, back from its unlist: there are no seats by then.
LEMMA LeaveDonePlaced ==
  ASSUME Placed, NEW l \in Links, LeaveDone(l)
  PROVE  Placed'
<1>1. /\ link[l].at = "leaving" /\ Unlisted /\ Goodbye(l, link[l].told)
      /\ UNCHANGED <<kind, resume, tasks, kept>> /\ seats' = seats /\ away' = away
  BY DEF LeaveDone, game
<1>2. link[l] \in LinkFacts /\ ~link[l].replaced /\ ~seats /\ ~Entering
  BY <1>1 DEF Placed, Typed, LinkRight
<1>3. entering[l] = Nobody /\ seats' = FALSE /\ away' \in [Sides -> Aways]
  BY <1>1, <1>2 DEF Entering, Placed, Typed
<1>4. link[l].told \in Whys /\ link[l].at # "none"
  BY <1>1, <1>2 DEF LinkFacts
<1>5. Switches' /\ ~OnList'
  BY <1>1, OffTheList DEF Placed, Typed
<1> QED BY <1>1, <1>2, <1>3, <1>4, <1>5, GoodbyePlaced

\* A link goes while another holds its seat, or it was replaced.
LEMMA VanishesPlaced ==
  ASSUME Placed, NEW l \in Links, link' = [link EXCEPT ![l] = NoLink],
         entering[l] = Nobody, link[l].at \in {"lost", "closing"},
         link[l].replaced \/ (seats /\ LiveOn(link[l].side) \ {l} # {}),
         UNCHANGED <<kind, resume, list, tasks, kept, seats, away, token>>
  PROVE  Placed'
<1>1. /\ link \in [Links -> LinkFacts] /\ link[l] \in LinkFacts /\ entering' = entering
      /\ expiring' = expiring /\ kind' = kind /\ kept' = kept /\ OnList' = OnList /\ Switches'
      /\ Entering' = Entering
  BY SameList DEF tasks, Entering, Placed, Typed
<1>2. /\ link' \in [Links -> LinkFacts] /\ link'[l] = NoLink
      /\ \A k \in Links \ {l} : link'[k] = link[k]
  BY <1>1, NoLinkIs
<1>3. \A k \in Links : LinkRight(k) /\ EnteringRight(k)
  BY DEF Placed
<1>4. kind # "none"
  BY NoLinkIs DEF Placed, Unopened
<1>5. Typed' /\ Unopened'
  BY <1>1, <1>2, <1>4 DEF Placed, Typed, Unopened
<1> USE DEF There, FirstHost, Open, LiveOn, Live
<1>6. \A k \in Links : /\ k # l => link'[k] = link[k]
                       /\ Open(k)' => Open(k) /\ k # l /\ link'[k] = link[k]
                       /\ There(k, "host")' => There(k, "host") /\ k # l /\ link'[k] = link[k]
                       /\ There(k, "guest")' => There(k, "guest") /\ k # l /\ link'[k] = link[k]
  BY <1>2, NoLinkIs
<1>7. ASSUME NEW k \in Links PROVE LinkRight(k)'
  <2>1. CASE k = l
    BY <1>2, <2>1, NoLinkIs DEF LinkRight
  <2>2. CASE k # l
    <3>1. link'[k] = link[k] /\ LinkRight(k)
      BY <1>2, <1>3, <2>2
    <3> QED BY <1>1, <1>6, <3>1 DEF LinkRight
  <2> QED BY <2>1, <2>2
<1>8. ASSUME NEW g \in Links PROVE EnteringRight(g)'
  <2> SUFFICES ASSUME entering'[g] # Nobody PROVE EnteringRight(g)'
    BY DEF EnteringRight
  <2>1. entering[g] # Nobody /\ EnteringRight(g) /\ entering[g] \in Links /\ g # l
    BY <1>1, <1>3 DEF Placed, Typed
  <2>2. link'[g] = link[g] /\ link'[entering[g]].side = "host"
    BY <1>2, <2>1, NoLinkIs DEF EnteringRight
  <2> QED BY <1>1, <1>6, <2>1, <2>2 DEF EnteringRight
<1>9. ListedRight'
  <2> SUFFICES ASSUME OnList' PROVE ListedRight'
    BY DEF ListedRight
  <2>1. OnList /\ ListedRight /\ ~seats
    BY <1>1 DEF Placed, ListedRight
  <2>2. link[l].at = "closing"
    BY <1>3, <2>1 DEF LinkRight
  <2>3. Waited'
    BY <1>1, <1>2, <2>1, <2>2 DEF ListedRight, Waited
  <2> QED BY <1>1, <1>6, <2>1, <2>3 DEF ListedRight
<1>10. OverForGood'
  <2>1. Played' => Played
    BY <1>2, NoLinkIs DEF Played
  <2>2. \A k \in Links : (Open(k) /\ link[k].side = "host")' =>
                           Open(k) /\ link[k].side = "host" /\ link'[k] = link[k]
    BY <1>6
  <2> QED BY <1>1, <1>4, <2>1, <2>2 DEF Placed, OverForGood
<1>11. SeatsAreHad'
  <2> SUFFICES ASSUME seats, \A s \in Sides : away[s] = Here PROVE SeatsAreHad'
    BY DEF SeatsAreHad
  <2>1. PICK k \in Links : link[k].at \notin {"none", "leaving"} /\ ~link[k].replaced
    BY DEF Placed, SeatsAreHad
  <2>2. CASE k # l
    BY <1>2, <2>1, <2>2 DEF SeatsAreHad
  <2>3. CASE k = l
    <3>1. PICK j \in Links : j # l /\ Open(j)
      BY <2>1, <2>3
    <3>2. ~link[j].replaced
      BY <1>3, <3>1 DEF LinkRight
    <3> QED BY <1>2, <3>1, <3>2 DEF SeatsAreHad
  <2> QED BY <2>2, <2>3
<1>12. AwayIsGone'
  BY <1>6 DEF Placed, AwayIsGone
<1> QED BY <1>5, <1>7, <1>8, <1>9, <1>10, <1>11, <1>12 DEF Placed

\* A step that closes and opens no link, takes nobody's seat and puts nothing on the list.
LEMMA StaysPlaced ==
  ASSUME Placed, link' \in [Links -> LinkFacts],
         \A k \in Links : Like(k) /\ link'[k].told = link[k].told /\
           (link'[k] = link[k] \/ (Open(k) /\ link'[k].at \in {"open", "lost"})),
         away' \in [Sides -> Aways], \A s \in Sides : away'[s] = Here <=> away[s] = Here,
         token' \subseteq token, seats \/ kept' = kept,
         expiring' \subseteq Links, expiring \subseteq expiring',
         expiring' = expiring \/ kind = "listed",
         OnList' => OnList, missed' = missed, Switches', UNCHANGED <<kind, resume, entering, seats>>
  PROVE  Placed'
<1>1. \A k \in Links : LinkRight(k) /\ EnteringRight(k) /\ link[k] \in LinkFacts /\ Like(k)
  BY DEF Placed, Typed
<1>2. Entering' = Entering
  BY DEF Entering
<1> USE DEF There, FirstHost, Open, LiveOn, Live
<1>3. \A k \in Links : /\ Open(k)' <=> Open(k)
                       /\ There(k, "host")' <=> There(k, "host")
                       /\ There(k, "guest")' <=> There(k, "guest")
                       /\ link'[k].at \in {"none", "closing", "leaving"} => link'[k] = link[k]
                       /\ link[k].at \in {"none", "closing", "leaving"} => link'[k] = link[k]
  BY <1>1 DEF Like
<1>4. Typed'
  BY DEF Placed, Typed
<1>5. Unopened'
  <2>1. kind = "none" => \A k \in Links : link'[k] = NoLink /\ entering'[k] = Nobody
    BY <1>3, NoLinkIs DEF Placed, Unopened
  <2> QED BY <2>1 DEF Placed, Unopened
<1>6. ASSUME NEW k \in Links PROVE LinkRight(k)'
  <2> USE <1>6
  <2>1. LinkRight(k) /\ Like(k) /\ link'[k].told = link[k].told
    BY <1>1
  <2>2. /\ link'[k].at = "none" => link'[k] = NoLink
        /\ link'[k].replaced => link'[k].at = "closing"
        /\ link'[k].meta => link'[k].side = "host" /\ kind' = "listed"
        /\ link'[k].at = "leaving" => link'[k].meta /\ ~seats' /\ ~Entering'
    BY <1>2, <1>3, <2>1 DEF LinkRight, Like
  <2>3. /\ FirstHost(k)' => \A j \in Links : There(j, "host")' => j = k
        /\ FirstHost(k)' /\ ~seats' => \A j \in Links : There(j, "guest")' => Open(j)'
    BY <1>3, <2>1 DEF LinkRight, Like
  <2>4. \A j \in Links : (Open(j) /\ Open(k) /\ link[j].side = link[k].side)' => j = k
    BY <1>1, <1>3, <2>1 DEF LinkRight, Like
  <2>5. link'[k].at = "closing" /\ ~link'[k].replaced =>
         /\ seats' => link'[k].told = "expired" \/ token' = {}
         /\ \A g \in Links : entering'[g] # Nobody => k = g \/ link'[k].told = "expired"
         /\ kind' = "code" => ~seats' /\ ~Live("host")'
    <3>1. Live("host")' <=> Live("host")
      BY <1>1, <1>3 DEF Like
    <3>2. link'[k].at = "closing" => link[k].at = "closing"
      BY <1>3
    <3> QED BY <2>1, <3>1, <3>2 DEF LinkRight, Like
  <2> QED BY <2>2, <2>3, <2>4, <2>5 DEF LinkRight
<1>7. ASSUME NEW g \in Links PROVE EnteringRight(g)'
  <2> SUFFICES ASSUME entering'[g] # Nobody PROVE EnteringRight(g)'
    BY DEF EnteringRight
  <2>1. entering[g] # Nobody /\ EnteringRight(g) /\ entering[g] \in Links
    BY <1>1 DEF Placed, Typed
  <2>2. link'[entering[g]].side = "host" /\ ~link'[g].replaced /\ link'[g].at # "leaving"
    BY <1>1, <1>3, <2>1 DEF EnteringRight, Like
  <2> QED BY <1>3, <2>1, <2>2 DEF EnteringRight
<1>8. ListedRight'
  <2> SUFFICES ASSUME OnList' PROVE ListedRight'
    BY DEF ListedRight
  <2>1. OnList /\ ListedRight
    BY DEF Placed
  <2>2. Waited'
    <3>1. \A k \in Links : link[k].at = "leaving" => link'[k].at = "leaving"
      BY <1>3
    <3>2. Live("host") => Live("host")'
      BY <1>1, <1>3 DEF Like
    <3> QED BY <2>1, <3>1, <3>2 DEF ListedRight, Waited
  <2> QED BY <1>1, <1>2, <1>3, <2>1, <2>2 DEF ListedRight, Like
<1>9. OverForGood'
  <2>1. Played' /\ ~seats => Played
    BY <1>1 DEF Played, Like
  <2>2. \A k \in Links : (Open(k) /\ link[k].side = "host")' =>
                           Open(k) /\ link[k].side = "host" /\ link'[k].meta = link[k].meta
    BY <1>1, <1>3 DEF Like
  <2> QED BY <1>2, <2>1, <2>2 DEF Placed, OverForGood
<1>10. SeatsAreHad'
  <2>1. \A k \in Links : /\ link'[k].replaced = link[k].replaced
                         /\ link[k].at \notin {"none", "leaving"} => link'[k].at \notin {"none", "leaving"}
    BY <1>1, <1>3 DEF Like
  <2> QED BY <2>1 DEF Placed, SeatsAreHad
<1>11. AwayIsGone'
  <2>1. \A s \in Sides : Live(s)' => Live(s)
    BY <1>1, <1>3 DEF Like
  <2> QED BY <2>1 DEF Placed, AwayIsGone
<1> QED BY <1>4, <1>5, <1>6, <1>7, <1>8, <1>9, <1>10, <1>11 DEF Placed

\* A side's link drops, and its seat is held.
LEMMA DropLinks ==
  ASSUME Typed, NEW l \in Links, NEW side \in Sides,
         link' = [k \in Links |-> IF k = l THEN NoLink
                                  ELSE IF k \in Hears(Other(side)) THEN HearsAway(link[k])
                                  ELSE link[k]]
  PROVE  /\ link' \in [Links -> LinkFacts] /\ link'[l] = NoLink
         /\ \A k \in Links \ {l} :
              /\ link'[k].side = link[k].side /\ link'[k].meta = link[k].meta
              /\ link'[k].replaced = link[k].replaced /\ link'[k].at = link[k].at
              /\ link'[k].told = link[k].told /\ link'[k].opened = link[k].opened
              /\ link'[k].sees = IF k \in Hears(Other(side)) THEN "away" ELSE link[k].sees
              /\ k \notin Hears(Other(side)) => link'[k] = link[k]
<1>1. /\ \A k \in Links : link[k] \in LinkFacts
      /\ link'[l] = NoLink
      /\ \A k \in Links \ {l} : link'[k] = IF k \in Hears(Other(side)) THEN HearsAway(link[k])
                                           ELSE link[k]
  BY DEF Typed
<1>2. ASSUME NEW lk \in LinkFacts
      PROVE  /\ HearsAway(lk) \in LinkFacts /\ HearsAway(lk).at = lk.at
             /\ HearsAway(lk).side = lk.side /\ HearsAway(lk).meta = lk.meta
             /\ HearsAway(lk).replaced = lk.replaced /\ HearsAway(lk).told = lk.told
             /\ HearsAway(lk).opened = lk.opened /\ HearsAway(lk).sees = "away"
  BY DEF HearsAway, LinkFacts
<1> QED BY <1>1, <1>2, NoLinkIs

\* The seat of a link that drops is held, and none of the other facts is disturbed.
LEMMA HeldPlaced ==
  ASSUME Placed, NEW l \in Links, NEW side \in Sides, link[l].side = side, seats,
         link[l].at \in {"lost", "closing"}, LiveOn(side) \ {l} = {},
         link' = [k \in Links |-> IF k = l THEN NoLink
                                  ELSE IF k \in Hears(Other(side)) THEN HearsAway(link[k])
                                  ELSE link[k]],
         away' = [away EXCEPT ![side] = 0],
         UNCHANGED <<kind, resume, list, tasks, kept, seats, token>>
  PROVE  Placed'
<1>1. /\ link' \in [Links -> LinkFacts] /\ link'[l] = NoLink
      /\ \A k \in Links \ {l} :
              /\ link'[k].side = link[k].side /\ link'[k].meta = link[k].meta
              /\ link'[k].replaced = link[k].replaced /\ link'[k].at = link[k].at
              /\ link'[k].told = link[k].told
              /\ k \notin Hears(Other(side)) => link'[k] = link[k]
  BY DropLinks DEF Placed
<1>2. /\ entering' = entering /\ expiring' = expiring /\ Entering' = Entering /\ seats'
      /\ kind # "none" /\ ~OnList /\ OnList' = OnList /\ Switches' /\ ~Entering
  BY SameList DEF tasks, Entering, Placed, Typed, Unopened, ListedRight, EnteringRight
<1>3. /\ away' \in [Sides -> Aways] /\ away'[side] # Here
      /\ \A s \in Sides \ {side} : away'[s] = away[s]
  BY TwoSides, RoomAssumption DEF Placed, Typed, Aways
<1>4. Typed' /\ Unopened'
  BY <1>1, <1>2, <1>3 DEF Placed, Typed, Unopened
<1> USE DEF There, FirstHost, Open, LiveOn, Live
<1>5. \A k \in Links : LinkRight(k) /\ (Open(k)' => Open(k) /\ k # l)
  BY <1>1, NoLinkIs DEF Placed
<1>6. ASSUME NEW k \in Links PROVE LinkRight(k)'
  <2>1. CASE k = l
    BY <1>1, <2>1, NoLinkIs DEF LinkRight
  <2>2. CASE k # l
    <3>1. /\ LinkRight(k) /\ link'[k].side = link[k].side /\ link'[k].meta = link[k].meta
          /\ link'[k].replaced = link[k].replaced /\ link'[k].at = link[k].at
          /\ link'[k].told = link[k].told
          /\ link[k].at # "open" => link'[k] = link[k]
      BY <1>1, <1>5, <2>2 DEF Hears
    <3>2. /\ link'[k].at = "none" => link'[k] = NoLink
          /\ link'[k].replaced => link'[k].at = "closing"
          /\ link'[k].meta => link'[k].side = "host" /\ kind' = "listed"
          /\ link'[k].at # "leaving"
      BY <1>2, <3>1 DEF LinkRight
    <3>3. FirstHost(k)' => \A j \in Links : There(j, "host")' => j = k
      BY <1>1, <3>1, NoLinkIs DEF LinkRight
    <3>4. \A j \in Links : (Open(j) /\ Open(k) /\ link[j].side = link[k].side)' => j = k
      BY <1>1, <1>5, <3>1 DEF LinkRight
    <3>5. link'[k].at = "closing" /\ ~link'[k].replaced =>
            (link'[k].told = "expired" \/ token' = {}) /\ kind' # "code"
      BY <1>2, <3>1 DEF LinkRight
    <3> QED BY <1>2, <3>2, <3>3, <3>4, <3>5 DEF LinkRight, Entering
  <2> QED BY <2>1, <2>2
<1>7. \A g \in Links : EnteringRight(g)'
  BY <1>2 DEF EnteringRight, Entering
<1>8. ListedRight' /\ OverForGood' /\ SeatsAreHad'
  BY <1>2, <1>3 DEF ListedRight, OverForGood, SeatsAreHad
<1>9. AwayIsGone'
  <2>1. \A k \in Links : (Open(k) /\ link[k].side = side)' => FALSE
    BY <1>1, <1>5
  <2>2. ASSUME NEW s \in Sides \ {side}, away'[s] # Here PROVE ~Live(s)'
    BY <1>1, <1>2, <1>3, <1>5, <2>2 DEF Placed, AwayIsGone
  <2> QED BY <2>1, <2>2 DEF AwayIsGone
<1> QED BY <1>4, <1>6, <1>7, <1>8, <1>9 DEF Placed

\* drop, whatever comes of it.
LEMMA DropPlaced ==
  ASSUME Placed, NEW l \in Links, Drop(l), link[l].at \in {"lost", "closing"},
         ~link[l].replaced, entering[l] = Nobody, UNCHANGED <<kind, resume, list, tasks, kept>>
  PROVE  Placed' /\ seats' = seats
<1>1. seats \in BOOLEAN /\ link[l] \in LinkFacts /\ link[l].side \in Sides
  BY DEF Placed, Typed, LinkFacts
<1>2. CASE ~seats /\ Leave(l, "lost")
  <2>1. Placed' /\ ~seats'
    BY <1>2, LeavePlaced
  <2> QED BY <1>1, <1>2, <2>1 DEF Placed, Typed
<1>3. CASE seats /\ LiveOn(link[l].side) \ {l} # {}
           /\ link' = [link EXCEPT ![l] = NoLink] /\ UNCHANGED <<game, token>>
  BY <1>3, VanishesPlaced DEF game
<1>4. CASE seats /\ LiveOn(link[l].side) \ {l} = {}
  <2> DEFINE side == link[l].side
  <2>1. /\ away' = [away EXCEPT ![side] = 0]
        /\ link' = [k \in Links |-> IF k = l THEN NoLink
                                    ELSE IF k \in Hears(Other(side)) THEN HearsAway(link[k])
                                    ELSE link[k]]
        /\ UNCHANGED <<seats, token>>
    BY <1>4 DEF Drop
  <2> HIDE DEF side
  <2>2. side \in Sides /\ link[l].side = side /\ LiveOn(side) \ {l} = {}
    BY <1>1, <1>4 DEF side
  <2> QED BY <1>4, <2>1, <2>2, HeldPlaced
<1> QED BY <1>2, <1>3, <1>4 DEF Drop

-----------------------------------------------------------------------------
(* The alarm *)

\* The links the room closes on its own, and no others, are closing.
LEMMA ClosesAll ==
  ASSUME Typed, NEW L, NEW why \in Whys, CloseAll(L, why)
  PROVE  /\ link' \in [Links -> LinkFacts] /\ token' \subseteq token
         /\ \A k \in Links : Like(k) /\
              IF k \in L THEN link'[k].at = "closing" /\ link'[k].told = why ELSE link'[k] = link[k]
<1>1. /\ \A k \in Links : link[k] \in LinkFacts
      /\ \A k \in Links : link'[k] = IF k \in L THEN Closed(link[k], why) ELSE link[k]
      /\ link' = [k \in Links |-> IF k \in L THEN Closed(link[k], why) ELSE link[k]]
      /\ token' \subseteq token
  BY DEF CloseAll, Typed
<1> QED BY <1>1, Closes DEF Like

\* The room closes links of its own, which leaves seats to nobody or to those who have them.
LEMMA ClosingPlaced ==
  ASSUME Placed, NEW L \in SUBSET Links, NEW why \in Whys, CloseAll(L, why),
         \A l \in L : Open(l),
         seats' \in BOOLEAN, seats' => seats,
         seats' => why = "expired",
         \A l \in L : link[l].side = "guest" => seats /\ ~seats',
         ~seats' => (LiveOn("host") \subseteq L \/ ~seats), Entering => why = "expired",
         kind = "code" => ~seats' /\ LiveOn("host") \subseteq L,
         away' \in [Sides -> Aways], seats' => away' = away,
         kind # "none", ~OnList', Switches', UNCHANGED <<kind, resume, entering, kept>>,
         expiring' \subseteq expiring
  PROVE  Placed'
<1>1. /\ link' \in [Links -> LinkFacts] /\ token' \subseteq token
      /\ \A k \in Links : Like(k) /\
           IF k \in L THEN link'[k].at = "closing" /\ link'[k].told = why ELSE link'[k] = link[k]
  BY ClosesAll DEF Placed
<1>2. Entering' = Entering /\ \A k \in Links : LinkRight(k) /\ EnteringRight(k)
  BY DEF Entering, Placed
<1> USE DEF There, FirstHost, Open, LiveOn, Live
<1>3. \A k \in Links : /\ Open(k)' <=> Open(k) /\ k \notin L
                       /\ There(k, "host")' <=> There(k, "host")
                       /\ There(k, "guest")' <=> There(k, "guest")
                       /\ link'[k].at \in {"none", "leaving"} => link'[k] = link[k]
  BY <1>1 DEF Like
<1>4. Typed'
  BY <1>1 DEF Placed, Typed
<1>5. Unopened'
  BY DEF Placed, Unopened
<1>6. ASSUME NEW k \in Links PROVE LinkRight(k)'
  <2> USE <1>6
  <2>1. LinkRight(k) /\ Like(k)
    BY <1>1, <1>2
  <2>2. /\ link'[k].at = "none" => link'[k] = NoLink
        /\ link'[k].replaced => link'[k].at = "closing"
        /\ link'[k].meta => link'[k].side = "host" /\ kind' = "listed"
        /\ link'[k].at = "leaving" => link'[k].meta /\ ~seats' /\ ~Entering'
    BY <1>1, <1>2, <1>3, <2>1 DEF LinkRight, Like
  <2>3. FirstHost(k)' => FirstHost(k) /\ k \notin L /\ link[k].side = "host"
    BY <1>1, <1>3, <2>1 DEF LinkRight, Like
  <2>4. FirstHost(k)' => \A j \in Links : There(j, "host")' => j = k
    BY <1>3, <2>1, <2>3 DEF LinkRight
  <2>5. FirstHost(k)' /\ ~seats' => \A j \in Links : There(j, "guest")' => Open(j)'
    <3> SUFFICES ASSUME FirstHost(k)', ~seats', NEW j \in Links, There(j, "guest")'
                 PROVE  Open(j)'
      OBVIOUS
    <3>1. k \in LiveOn("host") /\ k \notin L /\ ~seats
      BY <2>3
    <3>2. Open(j) /\ link[j].side = "guest"
      BY <1>3, <2>1, <2>3, <3>1 DEF LinkRight
    <3> QED BY <1>3, <3>1, <3>2
  <2>6. \A j \in Links : (Open(j) /\ Open(k) /\ link[j].side = link[k].side)' => j = k
    BY <1>1, <1>3, <2>1 DEF LinkRight, Like
  <2>7. link'[k].at = "closing" /\ ~link'[k].replaced =>
         /\ seats' => link'[k].told = "expired" \/ token' = {}
         /\ \A g \in Links : entering'[g] # Nobody => k = g \/ link'[k].told = "expired"
         /\ kind' = "code" => ~seats' /\ ~Live("host")'
    <3>1. kind = "code" => ~Live("host")'
      BY <1>1, <1>3 DEF Like
    <3> QED BY <1>1, <2>1, <3>1 DEF LinkRight, Like, Entering
  <2> QED BY <2>2, <2>4, <2>5, <2>6, <2>7 DEF LinkRight
<1>7. ASSUME NEW g \in Links PROVE EnteringRight(g)'
  <2> SUFFICES ASSUME entering'[g] # Nobody PROVE EnteringRight(g)'
    BY DEF EnteringRight
  <2>1. entering[g] # Nobody /\ EnteringRight(g) /\ entering[g] \in Links
    BY <1>2 DEF Placed, Typed
  <2>2. link'[entering[g]].side = "host" /\ ~link'[g].replaced /\ link'[g].at # "leaving"
    BY <1>1, <1>3, <2>1 DEF EnteringRight, Like
  <2>3. Open(g)' \/ \A k \in Links : ~There(k, "host")'
    <3>1. Open(g) \/ \A k \in Links : ~There(k, "host")
      BY <2>1 DEF EnteringRight
    <3>2. g \notin L
      BY <2>1 DEF EnteringRight
    <3> QED BY <1>3, <3>1, <3>2
  <2> QED BY <1>3, <2>1, <2>2, <2>3 DEF EnteringRight
<1>8. ListedRight'
  BY DEF ListedRight
<1>9. OverForGood'
  <2> SUFFICES ASSUME Played', ~seats' PROVE OverForGood'
    BY DEF OverForGood
  <2>1. Played
    BY <1>1 DEF Played, Like
  <2>2. \A k \in Links : (Open(k) /\ link[k].side = "host")' =>
                           k \in LiveOn("host") /\ k \notin L /\ link'[k].meta = link[k].meta
    BY <1>1, <1>3 DEF Like
  <2>3. CASE seats
    BY <1>2, <2>2, <2>3 DEF OverForGood, Placed, EnteringRight, Entering, Unopened
  <2>4. CASE ~seats
    BY <1>2, <2>1, <2>2, <2>4 DEF Placed, OverForGood
  <2> QED BY <2>3, <2>4
<1>10. SeatsAreHad'
  <2>1. \A k \in Links : /\ link'[k].replaced = link[k].replaced
                         /\ link[k].at \notin {"none", "leaving"} => link'[k].at \notin {"none", "leaving"}
    BY <1>1 DEF Like
  <2> QED BY <2>1 DEF Placed, SeatsAreHad
<1>11. AwayIsGone'
  <2>1. \A s \in Sides : Live(s)' => Live(s)
    BY <1>1, <1>3 DEF Like
  <2> QED BY <2>1 DEF Placed, AwayIsGone
<1> QED BY <1>4, <1>5, <1>6, <1>7, <1>8, <1>9, <1>10, <1>11 DEF Placed

\* Whatever the alarm finds.
LEMMA AlarmPlaced ==
  ASSUME Placed, Alarm
  PROVE  Placed'
<1>1. /\ UNCHANGED <<kind, resume, list, entering, kept>> /\ link \in [Links -> LinkFacts]
      /\ seats \in BOOLEAN /\ AllHere \in [Sides -> Aways] /\ away \in [Sides -> Aways]
      /\ {"expired", "lost"} \subseteq Whys /\ OnList' = OnList /\ missed' = missed /\ Switches'
  BY TwoSides, SameList DEF Alarm, Placed, Typed, Whys
<1>2. CASE UNCHANGED <<link, expiring, seats, away, token>>
  BY <1>1, <1>2, StaysPlaced DEF Placed, Typed, Like
<1>3. CASE seats /\ End("lost") /\ CloseAll(LiveOn("host") \cup LiveOn("guest"), "lost")
           /\ UNCHANGED expiring
  <2> DEFINE L == LiveOn("host") \cup LiveOn("guest")
  <2>1. /\ L \in SUBSET Links /\ (\A l \in L : Open(l)) /\ LiveOn("host") \subseteq L
        /\ CloseAll(L, "lost") /\ expiring' \subseteq expiring
    BY <1>3 DEF LiveOn
  <2>2. seats' = FALSE /\ away' = AllHere
    BY <1>3 DEF End
  <2>3. ~Entering /\ ~OnList' /\ kind # "none"
    BY <1>1, <1>3 DEF Unopened, Placed, Typed, ListedRight, EnteringRight, Entering
  <2> HIDE DEF L
  <2> QED BY <1>1, <1>3, <2>1, <2>2, <2>3, ClosingPlaced
<1>4. CASE /\ ~seats /\ kind = "listed" /\ expiring' = expiring \cup LiveOn("host")
           /\ UNCHANGED <<link, token, seats, away>>
  <2>1. expiring' \subseteq Links /\ expiring \subseteq expiring'
    BY <1>4 DEF Placed, Typed, LiveOn
  <2> QED BY <1>1, <1>4, <2>1, StaysPlaced DEF Like
<1>5. CASE /\ ~seats /\ kind = "code" /\ CloseAll(LiveOn("host"), "expired")
           /\ UNCHANGED <<expiring, seats, away>>
  <2> DEFINE L == LiveOn("host")
  <2>1. /\ L \in SUBSET Links /\ (\A l \in L : Open(l)) /\ (\A l \in L : link[l].side # "guest")
        /\ CloseAll(L, "expired") /\ expiring' \subseteq expiring
    BY <1>5 DEF LiveOn
  <2>2. ~OnList'
    BY <1>1, <1>5 DEF Placed, Typed, ListedRight
  <2> HIDE DEF L
  <2>3. LiveOn("host") \subseteq L
    BY DEF L
  <2> QED BY <1>1, <1>5, <2>1, <2>2, <2>3, ClosingPlaced
<1> QED BY <1>2, <1>3, <1>4, <1>5 DEF Alarm

\* The alarm, back from its unlist: it closes its host if that is still linked.
LEMMA ExpiredPlaced ==
  ASSUME Placed, NEW l \in Links, Expired(l)
  PROVE  Placed'
<1> DEFINE L == {l} \cap LiveOn("host")
<1>1. /\ l \in expiring /\ expiring' \subseteq expiring /\ Unlisted /\ CloseAll(L, "expired")
      /\ UNCHANGED <<kind, resume, entering, kept, seats, away>> /\ "expired" \in Whys
  BY DEF Expired, game, Whys
<1>2. kind = "listed" /\ seats \in BOOLEAN /\ away \in [Sides -> Aways] /\ ~OnList' /\ Switches'
  BY <1>1, OffTheList DEF Placed, Unopened, Typed
<1>3. L \in SUBSET Links /\ \A k \in L : Open(k) /\ link[k].side # "guest"
  BY DEF LiveOn
<1> HIDE DEF L
<1> QED BY <1>1, <1>2, <1>3, ClosingPlaced

-----------------------------------------------------------------------------
(* Opening, joining, pairing, coming back *)

\* A room is opened once, by its only link.
LEMMA OpenPlaced ==
  ASSUME Placed, NEW l \in Links, NEW k \in {"listed", "code"}, NEW res \in BOOLEAN,
         OpenRoom(l, k, res)
  PROVE  Placed'
<1> DEFINE new == Accept(l, "host", k = "listed")
<1>1. /\ kind = "none" /\ kind' = k /\ resume' = res
      /\ link' = [link EXCEPT ![l] = new]
      /\ UNCHANGED <<seats, away, tasks, token, kept>> /\ entering' = entering /\ expiring' = expiring
  BY DEF OpenRoom, tasks, player
<1>2. /\ ~seats /\ expiring = {} /\ \A j \in Links : link[j] = NoLink /\ entering[j] = Nobody
      /\ link \in [Links -> LinkFacts] /\ ~Entering
      /\ (OnList' => k = "listed") /\ Switches'
  BY <1>1 DEF OpenRoom, Placed, Unopened, Typed, Entering, OnList, Switches
<1>3. /\ new \in LinkFacts /\ new.at = "open" /\ new.side = "host" /\ new.meta = (k = "listed")
      /\ ~new.replaced /\ new.sees = "here"
  BY DEF Accept, NoLink, LinkFacts, Sides, Whys
<1> HIDE DEF new
<1>4. /\ link' \in [Links -> LinkFacts] /\ link'[l] = new
      /\ \A j \in Links \ {l} : link'[j] = NoLink
  BY <1>1, <1>2, <1>3
<1>5. Typed' /\ Unopened'
  BY <1>1, <1>2, <1>4 DEF Placed, Typed, Unopened
<1> USE DEF There, FirstHost, Open, LiveOn, Live
<1>6. ~Entering' /\ ~Played
  <2>1. ~Played
    BY <1>1, <1>2 DEF Placed, OverForGood
  <2> QED BY <1>1, <1>2, <2>1 DEF Entering
<1>7. \A j \in Links : LinkRight(j)'
  BY <1>1, <1>2, <1>3, <1>4, <1>6, NoLinkIs DEF LinkRight
<1>8. \A j \in Links : EnteringRight(j)'
  BY <1>6 DEF EnteringRight, Entering
<1>9. ListedRight'
  BY <1>1, <1>2, <1>3, <1>4, NoLinkIs DEF ListedRight, Waited
<1>10. OverForGood'
  <2>1. ~Played'
    BY <1>1, <1>3, <1>4, <1>6, NoLinkIs DEF Played
  <2> QED BY <2>1 DEF OverForGood
<1>11. SeatsAreHad' /\ AwayIsGone'
  BY <1>1, <1>2 DEF SeatsAreHad, AwayIsGone
<1> QED BY <1>5, <1>7, <1>8, <1>9, <1>10, <1>11 DEF Placed

\* A guest joins, and its host is to be taken off the list.
LEMMA EnterPlaced ==
  ASSUME Placed, NEW g \in Links, Enter(g)
  PROVE  Placed'
<1> DEFINE new == Accept(g, "guest", FALSE)
<1>1. PICK host \in LiveOn("host") :
        /\ link[g] = NoLink /\ kind = "listed" /\ link[host].meta /\ ~Live("guest") /\ ~seats
        /\ link' = [link EXCEPT ![g] = new] /\ entering' = [entering EXCEPT ![g] = host]
        /\ UNCHANGED <<kind, resume, list, expiring, seats, away, token, kept>>
  BY DEF Enter, Fresh, player
<1>2. /\ link \in [Links -> LinkFacts] /\ entering \in [Links -> Links \cup {Nobody}]
      /\ Nobody \notin Links /\ Switches'
      /\ \A l \in Links : LinkRight(l) /\ EnteringRight(l)
  BY <1>1, RoomAssumption, SameList DEF Placed, Typed
<1>3. /\ new \in LinkFacts /\ new.at = "open" /\ new.side = "guest" /\ ~new.meta
      /\ ~new.replaced /\ new.sees = "here"
  BY DEF Accept, NoLink, LinkFacts, Sides, Whys
<1> HIDE DEF new
<1> USE DEF There, FirstHost, Open, LiveOn, Live
<1>4. /\ link' \in [Links -> LinkFacts] /\ link'[g] = new /\ host \in Links /\ host # g
      /\ \A l \in Links \ {g} : link'[l] = link[l]
      /\ entering' \in [Links -> Links \cup {Nobody}] /\ entering'[g] = host
      /\ \A l \in Links \ {g} : entering'[l] = entering[l]
  BY <1>1, <1>2, <1>3, NoLinkIs
<1>5. There(host, "host") /\ FirstHost(host)
  BY <1>1
<1>6. /\ \A l \in Links : There(l, "host") => l = host
      /\ \A l \in Links : ~There(l, "guest")
  BY <1>1, <1>2, <1>4, <1>5 DEF LinkRight
<1>7. \A l \in Links : entering[l] = Nobody
  BY <1>2, <1>6 DEF EnteringRight
<1>8. Typed' /\ Unopened'
  BY <1>1, <1>2, <1>4 DEF Placed, Typed, Unopened
<1>9. /\ \A l \in Links : There(l, "host")' => l = host
      /\ \A l \in Links : There(l, "guest")' => l = g
      /\ Open(host)' /\ link'[host] = link[host]
  BY <1>3, <1>4, <1>5, <1>6
<1>10. ASSUME NEW l \in Links PROVE LinkRight(l)'
  <2>1. CASE l = g
    BY <1>1, <1>3, <1>4, <1>9, <2>1 DEF LinkRight
  <2>2. CASE l = host
    BY <1>1, <1>2, <1>3, <1>4, <1>5, <1>9, <2>2 DEF LinkRight
  <2>3. CASE l # g /\ l # host
    <3>1. link'[l] = link[l] /\ link[l].at = "none" /\ LinkRight(l)
      <4>1. ~There(l, "host") /\ ~There(l, "guest") /\ link[l].side \in Sides
        BY <1>2, <1>6, <2>3 DEF LinkFacts
      <4> QED BY <1>2, <1>4, <2>3, <4>1, TwoSides
    <3> QED BY <3>1, NoLinkIs DEF LinkRight
  <2> QED BY <2>1, <2>2, <2>3
<1>11. ASSUME NEW l \in Links PROVE EnteringRight(l)'
  <2>1. l # g => entering'[l] = Nobody
    BY <1>4, <1>7
  <2>2. l = g => EnteringRight(l)'
    BY <1>1, <1>3, <1>4, <1>5, <1>9 DEF EnteringRight
  <2> QED BY <2>1, <2>2 DEF EnteringRight
<1>12. ListedRight'
  <2>1. Entering' /\ link'[host].meta
    BY <1>1, <1>2, <1>4, <1>9 DEF Entering
  <2> QED BY <1>1, <1>9, <2>1 DEF ListedRight, Waited, Entering
<1>13. OverForGood'
  <2>1. ~Played
    BY <1>1, <1>5 DEF Placed, OverForGood
  <2>2. ~Played'
    BY <1>1, <1>3, <1>4, <2>1 DEF Played
  <2> QED BY <2>2 DEF OverForGood
<1>14. SeatsAreHad' /\ AwayIsGone'
  BY <1>1 DEF SeatsAreHad, AwayIsGone
<1> QED BY <1>8, <1>10, <1>11, <1>12, <1>13, <1>14 DEF Placed

\* pair, in the links that it tells.
LEMMA PairLinks ==
  ASSUME Typed, NEW host \in Links, NEW guest \in Links, NEW res \in BOOLEAN, host # guest,
         Pair(host, guest, res)
  PROVE  /\ link' \in [Links -> LinkFacts]
         /\ \A k \in Links : Like(k) /\ link'[k].told = link[k].told
         /\ \A k \in Links \ {host, guest} : link'[k] = link[k]
         /\ link'[host].at = link[host].at /\ (~Open(host) => link'[host] = link[host])
         /\ link'[guest].at = link[guest].at \/ (link[guest].at = "open" /\ link'[guest].at = "lost")
         /\ token \subseteq token' /\ token' \subseteq Sides /\ (~res => token' = token)
         /\ ~Open(host) => token' = token
         /\ seats' = (seats \/ res) /\ (res => away' = AllHere) /\ (~res => away' = away)
<1> DEFINE hostHears  == Open(host)
           guestHears == hostHears /\ Open(guest)
           h == [link[host] EXCEPT !.opened = link[host].opened \/ (hostHears /\ link[host].at = "open")]
           o == link[guest].opened \/ (guestHears /\ link[guest].at = "open")
           at == IF guestHears \/ link[guest].at # "open" THEN link[guest].at ELSE "lost"
           g == [link[guest] EXCEPT !.opened = o, !.at = at]
<1>1. link \in [Links -> LinkFacts] /\ link[host] \in LinkFacts /\ link[guest] \in LinkFacts
      /\ seats \in BOOLEAN /\ token \subseteq Sides
  BY DEF Typed
<1>2. link' = [link EXCEPT ![host] = h, ![guest] = g]
  BY <1>1 DEF Pair
<1>3. /\ h \in LinkFacts /\ h.at = link[host].at /\ h.side = link[host].side
      /\ h.meta = link[host].meta /\ h.replaced = link[host].replaced /\ h.sees = link[host].sees
      /\ h.told = link[host].told /\ (~hostHears => h = link[host])
  BY <1>1 DEF LinkFacts
<1>4. o \in BOOLEAN /\ at \in {"none", "open", "lost", "closing", "leaving"}
      /\ (at = link[guest].at \/ (link[guest].at = "open" /\ at = "lost"))
  BY <1>1 DEF LinkFacts
<1> HIDE DEF o, at
<1>5. /\ g \in LinkFacts /\ g.at = at /\ g.side = link[guest].side
      /\ g.meta = link[guest].meta /\ g.replaced = link[guest].replaced
      /\ g.sees = link[guest].sees /\ g.told = link[guest].told
  BY <1>1, <1>4 DEF LinkFacts
<1> HIDE DEF h, g
<1>6. /\ link' \in [Links -> LinkFacts] /\ link'[host] = h /\ link'[guest] = g
      /\ \A k \in Links \ {host, guest} : link'[k] = link[k]
  BY <1>1, <1>2, <1>3, <1>5
<1>7. \A k \in Links : Like(k) /\ link'[k].told = link[k].told
  BY <1>3, <1>5, <1>6 DEF Like
<1>8. /\ token \subseteq token' /\ token' \subseteq Sides /\ (~res => token' = token)
      /\ ~hostHears => token' = token
  BY <1>1 DEF Pair
<1>9. seats' = (seats \/ res) /\ (res => away' = AllHere) /\ (~res => away' = away)
  BY <1>1 DEF Pair
<1> QED BY <1>3, <1>4, <1>5, <1>6, <1>7, <1>8, <1>9

\* The guest is in, with the seats of both if they have them.
LEMMA EnteredPlaced ==
  ASSUME Placed, NEW g \in Links, NEW res \in BOOLEAN, Entered(g, res)
  PROVE  Placed'
<1> DEFINE host == entering[g]
           both == resume /\ res
<1>1. /\ host # Nobody /\ entering' = [entering EXCEPT ![g] = Nobody] /\ Unlisted
      /\ Pair(host, g, both) /\ UNCHANGED <<kind, resume, expiring, kept>>
  BY DEF Entered
<1>2. /\ host \in Links /\ both \in BOOLEAN /\ EnteringRight(g) /\ host # g /\ seats = FALSE
      /\ entering \in [Links -> Links \cup {Nobody}] /\ kind = "listed" /\ Typed
      /\ \A l \in Links : LinkRight(l) /\ EnteringRight(l)
  BY <1>1 DEF Placed, Typed, EnteringRight
<1> HIDE DEF host, both
<1> USE DEF There, FirstHost, Open, LiveOn, Live
<1>3. ~Played
  BY <1>1, <1>2 DEF Placed, OverForGood, Entering, host
<1>4. token = {} /\ (token' # {} => both /\ Open(host))
  BY <1>1, <1>2, <1>3, PairLinks DEF Played
<1>5. /\ link' \in [Links -> LinkFacts]
      /\ \A k \in Links : Like(k) /\ link'[k].told = link[k].told
      /\ \A k \in Links \ {host, g} : link'[k] = link[k]
      /\ link'[host].at = link[host].at /\ (~Open(host) => link'[host] = link[host])
      /\ link'[g].at = link[g].at \/ (link[g].at = "open" /\ link'[g].at = "lost")
      /\ token' \subseteq Sides /\ (~both => token' = token)
      /\ seats' = both /\ (both => away' = AllHere) /\ (~both => away' = away)
  BY <1>1, <1>2, PairLinks
<1>6. \A l \in Links : entering'[l] = Nobody
  <2>1. \A l \in Links : l # g => entering[l] = Nobody
    BY <1>1, <1>2 DEF EnteringRight, host
  <2> QED BY <1>1, <1>2, <2>1
<1>7. ~Entering' /\ ~OnList' /\ Switches'
  BY <1>1, <1>2, <1>6, OffTheList DEF Entering, Typed
<1>8. Typed' /\ Unopened'
  <2>1. away' \in [Sides -> Aways] /\ entering' \in [Links -> Links \cup {Nobody}]
    BY <1>1, <1>2, <1>5, TwoSides DEF Typed
  <2> QED BY <1>1, <1>2, <1>5, <1>7, <2>1 DEF Typed, Unopened
<1>9. \A k \in Links : /\ Open(k)' <=> Open(k)
                       /\ There(k, "host")' <=> There(k, "host")
                       /\ There(k, "guest")' <=> There(k, "guest")
                       /\ link'[k].at \in {"none", "closing", "leaving"} => link'[k].at = link[k].at
                       /\ link'[k].at = "none" => link'[k] = link[k]
  <2>1. link[g].at # "none"
    BY <1>1, <1>2 DEF EnteringRight, host
  <2> QED BY <1>5, <2>1 DEF Like
<1>10. ASSUME NEW k \in Links PROVE LinkRight(k)'
  <2> USE <1>10
  <2>1. LinkRight(k) /\ Like(k) /\ link'[k].told = link[k].told
    BY <1>2, <1>5
  <2>2. /\ link'[k].at = "none" => link'[k] = NoLink
        /\ link'[k].replaced => link'[k].at = "closing"
        /\ link'[k].meta => link'[k].side = "host" /\ kind' = "listed"
        /\ link'[k].at # "leaving"
    <3>1. link[k].at # "leaving"
      BY <1>1, <2>1 DEF LinkRight, Entering, host
    <3>2. link[k].at = "closing" => link'[k].at = "closing"
      BY <1>5
    <3> QED BY <1>1, <1>2, <1>9, <2>1, <3>1, <3>2 DEF LinkRight, Like
  <2>3. /\ FirstHost(k)' => \A j \in Links : There(j, "host")' => j = k
        /\ FirstHost(k)' /\ ~seats' => \A j \in Links : There(j, "guest")' => Open(j)'
    BY <1>2, <1>9, <2>1 DEF LinkRight, Like
  <2>4. \A j \in Links : (Open(j) /\ Open(k) /\ link[j].side = link[k].side)' => j = k
    BY <1>2, <1>5, <1>9, <2>1 DEF LinkRight, Like
  <2>5. link'[k].at = "closing" /\ ~link'[k].replaced => link'[k].told = "expired" \/ token' = {}
    <3> SUFFICES ASSUME link'[k].at = "closing", ~link'[k].replaced, link'[k].told # "expired"
                 PROVE  token' = {}
      OBVIOUS
    <3>1. k = g
      BY <1>1, <1>2, <1>9, <2>1 DEF LinkRight, Like, host
    <3>2. ~Open(g)
      BY <1>9, <3>1
    <3>3. ~There(host, "host") /\ link[host].side = "host"
      BY <1>1, <1>2, <3>2 DEF EnteringRight, host
    <3> QED BY <1>4, <3>3
  <2> QED BY <1>1, <1>2, <1>7, <2>2, <2>3, <2>4, <2>5 DEF LinkRight, Entering
<1>11. \A k \in Links : EnteringRight(k)'
  BY <1>6 DEF EnteringRight
<1>12. ListedRight'
  BY <1>7 DEF ListedRight
<1>13. OverForGood'
  <2>1. ~both => ~Played'
    BY <1>1, <1>3, <1>4, <1>5 DEF Played, Like
  <2> QED BY <1>5, <2>1 DEF OverForGood
<1>14. SeatsAreHad'
  <2>1. There(g, "guest") /\ ~link[g].replaced /\ link[g].at # "leaving"
    BY <1>1, <1>2 DEF EnteringRight, host
  <2>2. link'[g].at \notin {"none", "leaving"} /\ ~link'[g].replaced
    BY <1>5, <2>1 DEF Like
  <2> QED BY <2>2 DEF SeatsAreHad
<1>15. AwayIsGone'
  BY <1>5, TwoSides DEF AwayIsGone
<1> QED BY <1>8, <1>10, <1>11, <1>12, <1>13, <1>14, <1>15 DEF Placed

\* A guest joins a code-only room.
LEMMA GuestPlaced ==
  ASSUME Placed, NEW g \in Links, NEW res \in BOOLEAN, Guest(g, res)
  PROVE  Placed'
<1> DEFINE new == [Accept(g, "guest", FALSE) EXCEPT !.opened = TRUE]
           both == resume /\ res
<1>1. PICK host \in LiveOn("host") :
        /\ link[g] = NoLink /\ kind = "code" /\ ~Live("guest") /\ ~seats
        /\ link' = [link EXCEPT ![g] = new, ![host].opened = (link[host].at = "open")]
        /\ \/ /\ both /\ seats' = TRUE /\ away' = AllHere
              /\ token' = token \cup {"guest"} \cup Hearing({host})
           \/ ~both /\ UNCHANGED <<seats, away, token>>
        /\ UNCHANGED <<kind, resume, list, tasks, kept>>
  BY DEF Guest, Fresh
<1>2. /\ link \in [Links -> LinkFacts] /\ host \in Links /\ host # g /\ link[host] \in LinkFacts
      /\ entering' = entering /\ expiring' = expiring /\ both \in BOOLEAN
      /\ OnList' = OnList /\ Switches'
      /\ \A l \in Links : LinkRight(l) /\ EnteringRight(l)
  BY <1>1, NoLinkIs, SameList DEF LiveOn, Open, tasks, Placed, Typed
<1>3. /\ new \in LinkFacts /\ new.at = "open" /\ new.side = "guest" /\ ~new.meta
      /\ ~new.replaced /\ new.sees = "here"
  BY DEF Accept, NoLink, LinkFacts, Sides, Whys
<1> HIDE DEF new, both
<1>4. /\ link' \in [Links -> LinkFacts] /\ link'[g] = new
      /\ Like(host) /\ link'[host].at = link[host].at
      /\ \A l \in Links \ {g, host} : link'[l] = link[l]
  <2> DEFINE h == [link[host] EXCEPT !.opened = (link[host].at = "open")]
  <2>1. link' = [link EXCEPT ![g] = new, ![host] = h]
    BY <1>1, <1>2
  <2>2. /\ h \in LinkFacts /\ h.at = link[host].at /\ h.side = link[host].side
        /\ h.meta = link[host].meta /\ h.replaced = link[host].replaced /\ h.sees = link[host].sees
    BY <1>2 DEF LinkFacts
  <2> HIDE DEF h
  <2> QED BY <1>2, <1>3, <2>1, <2>2 DEF Like
<1> USE DEF There, FirstHost, Open, LiveOn, Live
<1>5. \A l \in Links : entering'[l] = Nobody /\ ~link[l].meta /\ link[l].at # "leaving"
  BY <1>1, <1>2 DEF EnteringRight, LinkRight
<1>6. ~Played
  BY <1>1 DEF Placed, OverForGood
<1>7. \A l \in Links : link[l].at = "closing" => link[l].replaced
  BY <1>1, <1>2 DEF LinkRight
<1>8. Typed' /\ Unopened'
  <2>1. /\ away' \in [Sides -> Aways] /\ token' \subseteq Sides /\ seats' \in BOOLEAN
    <3>1. Hearing({host}) \subseteq Sides
      BY <1>2 DEF Hearing, LinkFacts
    <3> QED BY <1>1, <3>1, TwoSides DEF Placed, Typed
  <2> QED BY <1>1, <1>2, <1>4, <2>1 DEF Placed, Typed, Unopened
<1>9. ASSUME NEW l \in Links PROVE LinkRight(l)'
  <2>1. /\ ~link'[l].meta /\ link'[l].at # "leaving" /\ (link'[l].at = "closing" => link'[l].replaced)
        /\ link'[l].at = "none" => link'[l] = NoLink
        /\ link'[l].replaced => link'[l].at = "closing"
    BY <1>1, <1>2, <1>3, <1>4, <1>5, <1>7 DEF LinkRight, Like
  <2>2. \A j \in Links : (Open(j) /\ Open(l) /\ link[j].side = link[l].side)' => j = l
    BY <1>1, <1>2, <1>3, <1>4 DEF LinkRight, Like
  <2> QED BY <2>1, <2>2 DEF LinkRight
<1>10. \A l \in Links : EnteringRight(l)'
  BY <1>5 DEF EnteringRight
<1>11. ListedRight'
  BY <1>1, <1>2 DEF Placed, ListedRight
<1>12. OverForGood'
  <2>1. ~both => ~Played'
    BY <1>1, <1>3, <1>4, <1>6 DEF Played, Like
  <2> QED BY <1>1, <2>1 DEF OverForGood
<1>13. SeatsAreHad'
  BY <1>3, <1>4 DEF SeatsAreHad
<1>14. AwayIsGone'
  BY <1>1, TwoSides DEF AwayIsGone
<1> QED BY <1>8, <1>9, <1>10, <1>11, <1>12, <1>13, <1>14 DEF Placed

\* The links of a side that is back: its new one is live, its old ones replaced.
LEMMA BackLinks ==
  ASSUME Typed, NEW l \in Links, NEW side \in Sides, Back(l, side)
  PROVE  /\ link' \in [Links -> LinkFacts] /\ link[l] = NoLink /\ seats
         /\ link'[l].at = "open" /\ link'[l].side = side /\ ~link'[l].meta /\ ~link'[l].replaced
         /\ link'[l].sees = IF Live(Other(side)) THEN "here" ELSE "away"
         /\ \A k \in Links \ {l} :
              /\ link'[k].side = link[k].side /\ link'[k].meta = link[k].meta
              /\ link'[k].told = link[k].told
              /\ IF k \in LiveOn(side) THEN link'[k].at = "closing" /\ link'[k].replaced
                 ELSE link'[k].at = link[k].at /\ link'[k].replaced = link[k].replaced
              /\ k \in LiveOn(side) \cup Hears(Other(side)) \/ link'[k] = link[k]
              /\ k \in Hears(Other(side)) /\ k \notin LiveOn(side) => link'[k].sees = "here"
<1> DEFINE new == [Accept(l, side, FALSE) EXCEPT !.opened = TRUE,
                     !.sees = IF Live(Other(side)) THEN "here" ELSE "away"]
           back(lk) == [lk EXCEPT !.sees = "here"]
<1>1. /\ link[l] = NoLink /\ seats
      /\ link' = [k \in Links |->
                    IF k = l THEN new
                    ELSE IF k \in LiveOn(side) THEN Replaced(link[k])
                    ELSE IF k \in Hears(Other(side)) THEN back(link[k]) ELSE link[k]]
  BY DEF Back, Fresh
<1>2. \A k \in Links : link[k] \in LinkFacts
  BY DEF Typed
<1>3. /\ new \in LinkFacts /\ new.at = "open" /\ new.side = side /\ ~new.meta /\ ~new.replaced
      /\ new.sees = IF Live(Other(side)) THEN "here" ELSE "away"
  <2> DEFINE sees == IF Live(Other(side)) THEN "here" ELSE "away"
  <2>1. sees \in {"here", "away"}
    OBVIOUS
  <2> HIDE DEF sees
  <2>2. LET n == [Accept(l, side, FALSE) EXCEPT !.opened = TRUE, !.sees = sees] IN
        n \in LinkFacts /\ n.at = "open" /\ n.side = side /\ ~n.meta /\ ~n.replaced /\ n.sees = sees
    BY <2>1 DEF Accept, NoLink, LinkFacts, Sides, Whys
  <2> QED BY <2>2 DEF sees
<1>4. ASSUME NEW lk \in LinkFacts
      PROVE  /\ back(lk) \in LinkFacts /\ back(lk).at = lk.at /\ back(lk).side = lk.side
             /\ back(lk).meta = lk.meta /\ back(lk).replaced = lk.replaced
             /\ back(lk).told = lk.told /\ back(lk).sees = "here"
             /\ Replaced(lk) \in LinkFacts /\ Replaced(lk).at = "closing"
             /\ Replaced(lk).side = lk.side /\ Replaced(lk).meta = lk.meta
             /\ Replaced(lk).replaced /\ Replaced(lk).told = lk.told
  BY DEF Replaced, LinkFacts
<1> HIDE DEF new, back
<1> QED BY <1>1, <1>2, <1>3, <1>4

\* A side is back, and its old links are replaced.
LEMMA BackPlaced ==
  ASSUME Placed, NEW l \in Links, NEW side \in Sides, Back(l, side)
  PROVE  Placed'
<1>1. /\ link' \in [Links -> LinkFacts] /\ link[l] = NoLink /\ seats
      /\ link'[l].at = "open" /\ link'[l].side = side /\ ~link'[l].meta /\ ~link'[l].replaced
      /\ \A k \in Links \ {l} :
           /\ link'[k].side = link[k].side /\ link'[k].meta = link[k].meta
           /\ link'[k].told = link[k].told
           /\ IF k \in LiveOn(side) THEN link'[k].at = "closing" /\ link'[k].replaced
              ELSE link'[k].at = link[k].at /\ link'[k].replaced = link[k].replaced
           /\ k \in LiveOn(side) \cup Hears(Other(side)) \/ link'[k] = link[k]
  BY BackLinks DEF Placed
<1>2. /\ away' = [away EXCEPT ![side] = Here] /\ entering' = entering /\ expiring' = expiring
      /\ UNCHANGED <<kind, resume, list, seats, token, kept>>
  BY DEF Back, tasks
<1>3. /\ away' \in [Sides -> Aways] /\ away'[side] = Here
      /\ \A s \in Sides \ {side} : away'[s] = away[s]
  BY <1>2 DEF Placed, Typed, Aways
<1>4. /\ \A k \in Links : LinkRight(k) /\ EnteringRight(k)
      /\ kind # "none" /\ ~OnList /\ OnList' = OnList /\ Switches'
      /\ \A k \in Links : entering[k] = Nobody
  BY <1>1, <1>2, SameList DEF Placed, Typed, Unopened, ListedRight, EnteringRight
<1>5. Typed' /\ Unopened'
  BY <1>1, <1>2, <1>3, <1>4 DEF Placed, Typed, Unopened
<1> USE DEF There, FirstHost, Open, LiveOn, Live
<1>6. ASSUME NEW k \in Links PROVE LinkRight(k)'
  <2>1. CASE k = l
    <3>1. \A j \in Links : (Open(j) /\ link[j].side = side)' => j = l
      BY <1>1
    <3> QED BY <1>1, <2>1, <3>1 DEF LinkRight
  <2>2. CASE k # l
    <3>1. LinkRight(k) /\ link[k].at # "leaving"
      BY <1>1, <1>4 DEF LinkRight
    <3>2. /\ link'[k].at = "none" => link'[k] = NoLink
          /\ link'[k].replaced => link'[k].at = "closing"
          /\ link'[k].meta => link'[k].side = "host" /\ kind' = "listed"
          /\ link'[k].at # "leaving"
      BY <1>1, <1>2, <2>2, <3>1 DEF LinkRight, Hears
    <3>3. FirstHost(k)' => \A j \in Links : There(j, "host")' => j = k
      <4> SUFFICES ASSUME FirstHost(k)', NEW j \in Links, There(j, "host")' PROVE j = k
        OBVIOUS
      <4>1. FirstHost(k) /\ k \notin LiveOn(side) /\ link[k].side = "host"
        BY <1>1, <2>2, <3>1 DEF LinkRight
      <4>2. side # "host"
        BY <4>1
      <4>3. There(j, "host")
        BY <1>1, <4>2
      <4> QED BY <3>1, <4>1, <4>3 DEF LinkRight
    <3>4. \A j \in Links : (Open(j) /\ Open(k) /\ link[j].side = link[k].side)' => j = k
      BY <1>1, <1>4, <2>2 DEF LinkRight
    <3>5. link'[k].at = "closing" /\ ~link'[k].replaced =>
            (link'[k].told = "expired" \/ token' = {}) /\ kind' # "code"
      BY <1>1, <1>2, <2>2, <3>1 DEF LinkRight
    <3> QED BY <1>1, <1>2, <1>4, <3>2, <3>3, <3>4, <3>5 DEF LinkRight
  <2> QED BY <2>1, <2>2
<1>7. \A k \in Links : EnteringRight(k)'
  BY <1>2, <1>4 DEF EnteringRight
<1>8. ListedRight' /\ OverForGood'
  BY <1>1, <1>2, <1>4 DEF ListedRight, OverForGood
<1>9. SeatsAreHad'
  BY <1>1 DEF SeatsAreHad
<1>10. AwayIsGone'
  <2>1. ASSUME NEW s \in Sides \ {side}, away'[s] # Here PROVE ~Live(s)'
    <3>1. ~Live(s)
      BY <1>1, <1>3, <2>1 DEF Placed, AwayIsGone
    <3> QED BY <1>1, <3>1
  <2> QED BY <1>3, <2>1 DEF AwayIsGone
<1> QED BY <1>5, <1>6, <1>7, <1>8, <1>9, <1>10 DEF Placed

-----------------------------------------------------------------------------
(* Every step *)

\* A room no one has opened.
LEMMA InitPlaced == RoomInit => Placed
<1> SUFFICES ASSUME RoomInit PROVE Placed
  OBVIOUS
<1>1. /\ \A l \in Links : link[l] = NoLink /\ entering[l] = Nobody
      /\ kind = "none" /\ ~seats /\ ~OnList /\ ~missed /\ expiring = {} /\ token = {}
      /\ \A s \in Sides : kept[s] = {}
  BY DEF RoomInit, OnList
<1>2. Typed
  BY NoLinkIs, TwoSides DEF RoomInit, Typed, Switches
<1>3. ~Played /\ ~Entering
  BY <1>1, NoLinkIs DEF Played, Entering
<1>4. \A l \in Links : LinkRight(l) /\ EnteringRight(l)
  BY <1>1, NoLinkIs DEF LinkRight, EnteringRight, FirstHost, Open
<1> QED BY <1>1, <1>2, <1>3, <1>4
        DEF Placed, Unopened, ListedRight, OverForGood, SeatsAreHad, AwayIsGone

\* webSocketClose of a link the room closed, as a leave or as a drop.
LEMMA ClosedPlaced ==
  ASSUME Placed, NEW l \in Links, CloseDone(l)
  PROVE  Placed'
<1>1. /\ link[l].at = "closing" /\ entering[l] = Nobody
      /\ UNCHANGED <<kind, resume, list, tasks, kept>>
  BY DEF CloseDone
<1>2. CASE link[l].replaced /\ link' = [link EXCEPT ![l] = NoLink] /\ UNCHANGED <<game, token>>
  BY <1>1, <1>2, VanishesPlaced DEF game
<1>3. CASE ~link[l].replaced /\ Leave(l, "bye")
  BY <1>1, <1>3, LeavePlaced
<1>4. CASE ~link[l].replaced /\ Drop(l)
  BY <1>1, <1>4, DropPlaced
<1> QED BY <1>2, <1>3, <1>4 DEF CloseDone

\* Links and seats as they were.
LEMMA SamePlaced ==
  ASSUME Placed, UNCHANGED <<kind, resume, link, tasks, seats>>,
         OnList' => OnList, missed' = missed, Switches',
         away' \in [Sides -> Aways], \A s \in Sides : away'[s] = Here <=> away[s] = Here,
         token' \subseteq token, seats \/ kept' = kept
  PROVE  Placed'
BY StaysPlaced DEF Placed, Typed, Like, tasks

\* A lost link is open as far as the room knows.
LEMMA LosePlaced ==
  ASSUME Placed, NEW l \in Links, Lose(l)
  PROVE  Placed'
<1> DEFINE new == [link[l] EXCEPT !.at = "lost"]
<1>1. /\ link[l].at = "open" /\ link' = [link EXCEPT ![l] = new]
      /\ UNCHANGED <<kind, resume, entering, expiring, seats, away, token, kept>>
      /\ OnList' = OnList /\ missed' = missed /\ Switches'
      /\ link \in [Links -> LinkFacts] /\ link[l] \in LinkFacts
  BY SameList DEF Lose, tasks, game, player, Placed, Typed
<1>2. /\ new \in LinkFacts /\ new.at = "lost" /\ new.side = link[l].side
      /\ new.meta = link[l].meta /\ new.replaced = link[l].replaced
      /\ new.sees = link[l].sees /\ new.told = link[l].told
  BY <1>1 DEF LinkFacts
<1> HIDE DEF new
<1>3. /\ link' \in [Links -> LinkFacts]
      /\ \A k \in Links : Like(k) /\ link'[k].told = link[k].told /\
           (link'[k] = link[k] \/ (Open(k) /\ link'[k].at \in {"open", "lost"}))
  BY <1>1, <1>2 DEF Like, Open
<1> QED BY <1>1, <1>3, StaysPlaced DEF Placed, Typed

\* Time passes for those who are away and for no one else.
LEMMA TickAways ==
  ASSUME Typed, Tick
  PROVE  /\ away' \in [Sides -> Aways] /\ \A s \in Sides : away'[s] = Here <=> away[s] = Here
         /\ \A s \in Sides : away[s] # Here =>
              /\ away[s] \in 0 .. Grace
              /\ away'[s] = IF away[s] < Grace THEN away[s] + 1 ELSE away[s]
<1>1. /\ away \in [Sides -> Aways] /\ Grace \in Nat /\ Here \notin Int
      /\ away' = [s \in Sides |-> IF away[s] # Here /\ away[s] < Grace THEN away[s] + 1 ELSE away[s]]
  BY RoomAssumption DEF Typed, Tick
<1>2. \A s \in Sides : away[s] # Here => away[s] \in 0 .. Grace
  BY <1>1 DEF Aways
<1>3. ASSUME NEW s \in Sides, away[s] # Here
      PROVE  /\ away'[s] = IF away[s] < Grace THEN away[s] + 1 ELSE away[s]
             /\ away'[s] \in 0 .. Grace /\ away'[s] # Here
  BY <1>1, <1>2, <1>3
<1>4. ASSUME NEW s \in Sides, away[s] = Here PROVE away'[s] = Here
  BY <1>1, <1>4
<1>5. away' \in [Sides -> Aways]
  BY <1>1, <1>3, <1>4 DEF Aways
<1> QED BY <1>2, <1>3, <1>4, <1>5

\* Every step keeps links, seats and the list in agreement.
LEMMA StepPlaced == Placed /\ [RoomNext]_roomVars => Placed'
<1> SUFFICES ASSUME Placed, [RoomNext]_roomVars PROVE Placed'
  OBVIOUS
<1>1. Typed /\ away \in [Sides -> Aways] /\ seats \in BOOLEAN /\ Switches
  BY DEF Placed, Typed
<1>2. ASSUME NEW l \in Links, \E k \in {"listed", "code"}, res \in BOOLEAN : OpenRoom(l, k, res)
      PROVE  Placed'
  BY <1>2, OpenPlaced
<1>3. ASSUME NEW l \in Links, Enter(l) \/ \E res \in BOOLEAN : Guest(l, res) PROVE Placed'
  BY <1>3, EnterPlaced, GuestPlaced
<1>4. ASSUME NEW l \in Links, Message(l) PROVE Placed'
  <2>1. seats \/ kept' = kept
    BY <1>4 DEF Message, Waiting
  <2>2. UNCHANGED <<kind, resume, list, link, tasks, seats, away, token>>
    BY <1>4 DEF Message
  <2> QED BY <1>1, <2>1, <2>2, SameList, SamePlaced
<1>5. ASSUME NEW l \in Links, PlayerLeaves(l) PROVE Placed'
  <2>1. ~link[l].replaced
    BY <1>5 DEF PlayerLeaves, Placed, LinkRight
  <2> QED BY <1>5, <2>1, LeavePlaced DEF PlayerLeaves
<1>6. ASSUME NEW l \in Links, Lose(l) PROVE Placed'
  BY <1>6, LosePlaced
<1>7. ASSUME NEW l \in Links, NEW side \in Sides, Back(l, side) PROVE Placed'
  BY <1>7, BackPlaced
<1>8. ASSUME NEW side \in Sides, BackRefused(side) PROVE Placed'
  <2>1. /\ UNCHANGED <<kind, resume, list, link, tasks, seats, away, kept>>
        /\ token' \subseteq token
    BY <1>8 DEF BackRefused, game
  <2> QED BY <1>1, <2>1, SameList, SamePlaced
<1>9. ASSUME NEW l \in Links, \E res \in BOOLEAN : Entered(l, res) PROVE Placed'
  BY <1>9, EnteredPlaced
<1>10. ASSUME NEW l \in Links, LeaveDone(l) \/ Expired(l) PROVE Placed'
  BY <1>10, LeaveDonePlaced, ExpiredPlaced
<1>11. ASSUME NEW l \in Links, NoticeLost(l) PROVE Placed'
  <2>1. ~link[l].replaced
    BY <1>11 DEF NoticeLost, Placed, LinkRight
  <2> QED BY <1>11, <2>1, DropPlaced DEF NoticeLost
<1>12. ASSUME NEW l \in Links, CloseDone(l) PROVE Placed'
  BY <1>12, ClosedPlaced
<1>13. CASE Alarm
  BY <1>13, AlarmPlaced
<1>14. CASE Tick
  <2>1. UNCHANGED <<kind, resume, list, link, tasks, seats, token, kept>>
    BY <1>14 DEF Tick, player
  <2>2. OnList' = OnList /\ missed' = missed /\ Switches'
    BY <1>1, <2>1, SameList
  <2> QED BY <1>1, <1>14, <2>1, <2>2, TickAways, SamePlaced
<1>15. CASE Added \/ ListDrops
  <2>1. UNCHANGED <<kind, resume, missed, link, tasks, seats, away, token, kept>>
    BY <1>15 DEF Added, ListDrops, game, player
  <2>2. (OnList' => OnList) /\ Switches'
    BY <1>1, <1>15 DEF Added, ListDrops, OnList, Switches
  <2> QED BY <1>1, <2>1, <2>2, SamePlaced
<1>16. CASE UNCHANGED roomVars
  <2>1. UNCHANGED <<kind, resume, list, link, tasks, seats, away, token, kept>>
    BY <1>16 DEF roomVars, game, player
  <2> QED BY <1>1, <2>1, SameList, SamePlaced
<1> QED BY <1>2, <1>3, <1>4, <1>5, <1>6, <1>7, <1>8, <1>9, <1>10, <1>11, <1>12, <1>13, <1>14, <1>15,
           <1>16
        DEF RoomNext, Players, Bound

-----------------------------------------------------------------------------
(* The kinds of steps, as the seats, the alarm and the messages see them *)

mail == <<queue, sent, heard, kept>>

\* There are no seats after it, and nothing is kept for anyone.
NoSeatsAfter ==
  /\ ~seats' /\ UNCHANGED <<sent, heard, kept>> /\ alarm' \in {alarm, Grace, Wait, Unset}
  /\ queue' = NoQueue \/ (~seats /\ queue' = queue)

\* Both sides get their seats.
Paired ==
  /\ ~seats /\ seats' /\ ~Played /\ away' = AllHere /\ UNCHANGED mail /\ alarm' \in {alarm, Unset}
  /\ \A k \in Links : link'[k].sees = "here"

\* A side's link is gone and its seat held.
Held(l, side) ==
  /\ seats /\ seats' /\ link[l].side = side /\ LiveOn(side) \ {l} = {} /\ UNCHANGED mail
  /\ away' = [away EXCEPT ![side] = 0] /\ alarm' = NextOverdue([away EXCEPT ![side] = 0])
  /\ link' = [k \in Links |-> IF k = l THEN NoLink
                              ELSE IF k \in Hears(Other(side)) THEN HearsAway(link[k])
                              ELSE link[k]]

\* An alarm too early for anyone.
Watched ==
  /\ Gone(away) = {} /\ alarm' = NextOverdue(away) /\ UNCHANGED <<seats, away, link, mail>>

\* Some links go, or are lost, and seats have nothing to do with it.
Dwindled ==
  /\ UNCHANGED <<seats, away, alarm, mail>>
  /\ \A k \in Links : /\ link'[k].at = "open" => link'[k] = link[k]
                      /\ Open(k)' => Open(k) /\ link'[k].side = link[k].side

\* A leave leaves no seats.
LEMMA LeaveKind ==
  ASSUME Placed, NEW l \in Links, NEW reason \in Whys, Leave(l, reason),
         UNCHANGED <<sent, heard, kept>>
  PROVE  NoSeatsAfter /\ link'[l].at \in {"none", "leaving"}
<1>1. NoSeatsAfter
  BY DEF Leave, End, game, NoSeatsAfter
<1>2. CASE link' = [link EXCEPT ![l].at = "leaving", ![l].told = reason]
  <2>1. link \in [Links -> LinkFacts] /\ link[l] \in LinkFacts
    BY DEF Placed, Typed
  <2>2. [link[l] EXCEPT !.at = "leaving", !.told = reason].at = "leaving"
    BY <2>1 DEF LinkFacts
  <2> QED BY <1>1, <1>2, <2>1, <2>2
<1>3. CASE Goodbye(l, reason)
  BY <1>1, <1>3, NoLinkIs DEF Goodbye
<1> QED BY <1>2, <1>3 DEF Leave

\* A drop without seats is a leave; with seats it ends none.
LEMMA DropKind ==
  ASSUME Placed, NEW l \in Links, Drop(l), UNCHANGED <<sent, heard, kept>>
  PROVE  \/ ~seats /\ NoSeatsAfter
         \/ Dwindled
         \/ \E side \in Sides : Held(l, side)
<1>1. link \in [Links -> LinkFacts] /\ link[l].side \in Sides /\ "lost" \in Whys
  BY DEF Placed, Typed, LinkFacts, Whys
<1>2. CASE ~seats /\ Leave(l, "lost")
  BY <1>1, <1>2, LeaveKind
<1>3. CASE /\ link' = [link EXCEPT ![l] = NoLink]
           /\ UNCHANGED <<game, token>>
  <2>1. link'[l] = NoLink /\ \A k \in Links \ {l} : link'[k] = link[k]
    BY <1>1, <1>3
  <2> QED BY <1>3, <2>1, NoLinkIs DEF Dwindled, game, mail, Open
<1>4. CASE seats /\ LiveOn(link[l].side) \ {l} = {}
  BY <1>1, <1>4 DEF Drop, AlarmDrop, Held, mail
<1> QED BY <1>2, <1>3, <1>4 DEF Drop

\* Whoever joins a room finds it without seats and without a game behind it.
LEMMA PairKind ==
  ASSUME Placed, NEW l \in Links, NEW res \in BOOLEAN, Entered(l, res) \/ Guest(l, res)
  PROVE  NoSeatsAfter \/ Paired
<1>1. CASE Entered(l, res)
  <2>1. /\ entering[l] # Nobody /\ Pair(entering[l], l, resume /\ res)
        /\ UNCHANGED <<alarm, sent, heard, kept>> /\ entering[l] \in Links
    BY <1>1 DEF Entered, Placed, Typed
  <2>2. ~seats /\ entering[l] # l /\ Typed /\ (resume /\ res) \in BOOLEAN
    BY <2>1 DEF Placed, EnteringRight, Typed
  <2>3. ~Played
    BY <2>1, <2>2 DEF Placed, OverForGood, Entering
  <2>4. /\ \A k \in Links : link'[k].sees = link[k].sees
        /\ seats' = (resume /\ res) /\ (resume /\ res => away' = AllHere)
    BY <2>1, <2>2, PairLinks DEF Like
  <2>5. \A k \in Links : link'[k].sees = "here"
    BY <2>3, <2>4 DEF Played, Placed, Typed, LinkFacts
  <2>6. queue' = queue
    BY <2>1 DEF Pair
  <2> QED BY <2>1, <2>2, <2>3, <2>4, <2>5, <2>6 DEF NoSeatsAfter, Paired, mail
<1>2. CASE Guest(l, res)
  <2> DEFINE new == [Accept(l, "guest", FALSE) EXCEPT !.opened = TRUE]
  <2>1. PICK host \in LiveOn("host") :
          /\ link[l] = NoLink /\ kind = "code" /\ ~seats /\ alarm' = Unset
          /\ link' = [link EXCEPT ![l] = new, ![host].opened = (link[host].at = "open")]
          /\ (seats' = TRUE /\ away' = AllHere) \/ seats' = seats
          /\ UNCHANGED mail
    BY <1>2 DEF Guest, Fresh, mail
  <2>2. ~Played
    BY <2>1 DEF Placed, OverForGood
  <2>3. link \in [Links -> LinkFacts] /\ host \in Links /\ link[host] \in LinkFacts
    BY DEF LiveOn, Placed, Typed
  <2>4. host # l /\ \A k \in Links : link[k].sees = "here"
    BY <2>1, <2>2, NoLinkIs DEF LiveOn, Open, Played, Placed, Typed, LinkFacts
  <2>5. \A k \in Links : link'[k].sees = "here"
    <3> DEFINE h == [link[host] EXCEPT !.opened = (link[host].at = "open")]
    <3>1. link' = [link EXCEPT ![l] = new, ![host] = h]
      BY <2>1, <2>3, <2>4
    <3>2. h.sees = link[host].sees
      BY <2>3 DEF LinkFacts
    <3>3. new.sees = "here"
      BY DEF Accept, NoLink
    <3> HIDE DEF h, new
    <3> QED BY <2>3, <2>4, <3>1, <3>2, <3>3
  <2> QED BY <2>1, <2>2, <2>5 DEF NoSeatsAfter, Paired, mail
<1> QED BY <1>1, <1>2

\* An alarm ends the game, finds nobody overdue, or has no seats to end.
LEMMA AlarmKind ==
  ASSUME Placed, Alarm
  PROVE  NoSeatsAfter \/ Watched
<1>1. UNCHANGED <<sent, heard, kept>> /\ seats \in BOOLEAN
  BY DEF Alarm, Placed, Typed
<1>2. CASE seats /\ Gone(away) = {}
  BY <1>1, <1>2 DEF Alarm, Watched, mail
<1>3. CASE seats /\ Gone(away) # {}
  BY <1>1, <1>3 DEF Alarm, End, NoSeatsAfter
<1>4. CASE ~seats
  BY <1>1, <1>4 DEF Alarm, NoSeatsAfter
<1> QED BY <1>2, <1>3, <1>4 DEF Alarm

\* A host that expires is closed, and seats have nothing to do with it.
LEMMA ExpiredKind ==
  ASSUME Placed, NEW l \in Links, Expired(l)
  PROVE  Dwindled
<1> DEFINE L == {l} \cap LiveOn("host")
<1>1. CloseAll(L, "expired") /\ UNCHANGED <<game, sent, heard, kept>> /\ "expired" \in Whys
  BY DEF Expired, Whys
<1> HIDE DEF L
<1>2. \A k \in Links : Like(k) /\
        IF k \in L THEN link'[k].at = "closing" ELSE link'[k] = link[k]
  BY <1>1, ClosesAll DEF Placed
<1> QED BY <1>1, <1>2 DEF Dwindled, Like, Open, game, mail

\* Nor have they with a link that is lost.
LEMMA LoseKind ==
  ASSUME Placed, NEW l \in Links, Lose(l)
  PROVE  Dwindled
<1>1. /\ link[l].at = "open" /\ link' = [link EXCEPT ![l].at = "lost"] /\ UNCHANGED <<game, player>>
      /\ link \in [Links -> LinkFacts] /\ link[l] \in LinkFacts
  BY DEF Lose, Placed, Typed
<1>2. [link[l] EXCEPT !.at = "lost"].at = "lost" /\ [link[l] EXCEPT !.at = "lost"].side = link[l].side
  BY <1>1 DEF LinkFacts
<1>3. /\ link'[l].at = "lost" /\ link'[l].side = link[l].side
      /\ \A k \in Links \ {l} : link'[k] = link[k]
  BY <1>1, <1>2
<1> QED BY <1>1, <1>3 DEF Dwindled, Open, game, player, mail

\* Every step of a room is of one of these kinds.
LEMMA StepKinds ==
  ASSUME Placed, [RoomNext]_roomVars
  PROVE  \/ NoSeatsAfter \/ Paired \/ Watched \/ Dwindled \/ Tick
         \/ \E l \in Links : Message(l)
         \/ \E l \in Links, side \in Sides : Held(l, side) \/ Back(l, side)
<1> DEFINE Kind == \/ NoSeatsAfter \/ Paired \/ Watched \/ Dwindled \/ Tick
                   \/ \E l \in Links : Message(l)
                   \/ \E l \in Links, side \in Sides : Held(l, side) \/ Back(l, side)
<1>1. ASSUME NEW l \in Links, (\E k \in {"listed", "code"}, res \in BOOLEAN : OpenRoom(l, k, res)) \/ Enter(l)
      PROVE  NoSeatsAfter
  <2>1. ~seats
    BY <1>1 DEF OpenRoom, Enter, Placed, Unopened
  <2>2. UNCHANGED <<seats, queue, sent, heard, kept>> /\ alarm' \in {Wait, Unset}
    BY <1>1 DEF OpenRoom, Enter, player
  <2> QED BY <2>1, <2>2 DEF NoSeatsAfter
<1>2. ASSUME NEW l \in Links, \E res \in BOOLEAN : Entered(l, res) \/ Guest(l, res) PROVE Kind
  BY <1>2, PairKind
<1>3. ASSUME NEW l \in Links, PlayerLeaves(l) PROVE NoSeatsAfter
  <2>1. "bye" \in Whys
    BY DEF Whys
  <2> QED BY <1>3, <2>1, LeaveKind DEF PlayerLeaves
<1>4. ASSUME NEW l \in Links, LeaveDone(l) PROVE NoSeatsAfter
  <2>1. ~seats
    BY <1>4 DEF LeaveDone, Placed, LinkRight
  <2> QED BY <1>4, <2>1 DEF LeaveDone, game, NoSeatsAfter
<1>5. ASSUME NEW l \in Links, Lose(l) \/ Expired(l) PROVE Dwindled
  BY <1>5, LoseKind, ExpiredKind
<1>6. ASSUME NEW l \in Links, NoticeLost(l) PROVE Kind
  <2>1. Drop(l) /\ UNCHANGED <<sent, heard, kept>>
    BY <1>6 DEF NoticeLost
  <2> QED BY <2>1, DropKind
<1>7. ASSUME NEW l \in Links, CloseDone(l) PROVE Kind
  <2>1. UNCHANGED <<sent, heard, kept>> /\ "bye" \in Whys
    BY <1>7 DEF CloseDone, Whys
  <2>2. CASE link' = [link EXCEPT ![l] = NoLink] /\ UNCHANGED <<game, token>>
    <3>1. link \in [Links -> LinkFacts]
      BY DEF Placed, Typed
    <3>2. link'[l] = NoLink /\ \A k \in Links \ {l} : link'[k] = link[k]
      BY <2>2, <3>1
    <3>3. Dwindled
      BY <2>1, <2>2, <3>2, NoLinkIs DEF Dwindled, game, mail, Open
    <3> QED BY <3>3
  <2>3. CASE Leave(l, "bye")
    BY <2>1, <2>3, LeaveKind
  <2>4. CASE Drop(l)
    BY <2>1, <2>4, DropKind
  <2> QED BY <1>7, <2>2, <2>3, <2>4 DEF CloseDone
<1>8. ASSUME UNCHANGED <<link, game, sent, heard, kept>> PROVE Dwindled
  BY <1>8 DEF Dwindled, game, mail, Open
<1>9. CASE \E side \in Sides : BackRefused(side)
  BY <1>8, <1>9 DEF BackRefused
<1>10. CASE Added \/ ListDrops \/ UNCHANGED roomVars
  BY <1>8, <1>10 DEF Added, ListDrops, roomVars, player
<1>11. CASE Alarm
  BY <1>11, AlarmKind
<1> QED BY <1>1, <1>2, <1>3, <1>4, <1>5, <1>6, <1>7, <1>9, <1>10, <1>11 DEF RoomNext, Players, Bound

-----------------------------------------------------------------------------
(* Whoever is away is timed *)

Timed == alarm \in Nat \cup {Unset} /\ AwayIsTimed

\* overdue's next time: it comes as soon as anyone's does who is not overdue yet.
LEMMA NextIsSoonest ==
  ASSUME NEW aw \in [Sides -> Aways]
  PROVE  /\ NextOverdue(aw) \in Nat \cup {Unset}
         /\ \A s \in Sides : aw[s] # Here /\ aw[s] < Grace =>
              NextOverdue(aw) # Unset /\ NextOverdue(aw) <= Grace - aw[s]
<1> DEFINE left == {Grace - aw[s] : s \in {t \in Sides : aw[t] # Here} \ Gone(aw)}
           Soonest(n) == n \in left /\ \A m \in left : n <= m
<1>1. Grace \in Nat /\ Here \notin Int /\ Unset \notin Int
  BY RoomAssumption
<1>2. \A s \in Sides : aw[s] # Here => aw[s] \in 0 .. Grace
  BY <1>1 DEF Aways
<1>3. /\ \A n \in left : n \in Nat
      /\ \A s \in Sides : aw[s] # Here /\ aw[s] < Grace => Grace - aw[s] \in left
  <2>1. ASSUME NEW s \in Sides, aw[s] # Here PROVE Grace - aw[s] \in Nat /\ aw[s] \in Int
    BY <1>1, <1>2, <2>1
  <2> QED BY <1>1, <2>1 DEF Gone
<1>4. left # {} => \E n \in left : \A m \in left : n <= m
  <2> SUFFICES ASSUME NEW a \in left PROVE \E n \in left : \A m \in left : n <= m
    OBVIOUS
  <2>1. ASSUME NEW x \in left, NEW y \in left, NEW z \in left
        PROVE  x = y \/ y = z \/ x = z
    BY DEF Sides
  <2>2. CASE \E b \in left : b # a
    <3>1. PICK b \in left : b # a
      BY <2>2
    <3>2. \A m \in left : m = a \/ m = b
      BY <2>1, <3>1
    <3>3. a \in Nat /\ b \in Nat
      BY <1>3
    <3> HIDE DEF left
    <3>4. a <= b \/ b <= a
      BY <3>3
    <3>5. a <= a /\ b <= b
      BY <3>3
    <3> QED BY <3>2, <3>4, <3>5
  <2>3. CASE \A b \in left : b = a
    BY <1>3, <2>3
  <2> QED BY <2>2, <2>3
<1>5. NextOverdue(aw) = IF left = {} THEN Unset ELSE CHOOSE n \in left : \A m \in left : n <= m
  BY DEF NextOverdue
<1> HIDE DEF left
<1>6. left # {} => NextOverdue(aw) \in left /\ \A m \in left : NextOverdue(aw) <= m
  BY <1>4, <1>5
<1>7. NextOverdue(aw) \in Nat \cup {Unset}
  BY <1>3, <1>5, <1>6
<1>8. ASSUME NEW s \in Sides, aw[s] # Here, aw[s] < Grace
      PROVE  NextOverdue(aw) # Unset /\ NextOverdue(aw) <= Grace - aw[s]
  BY <1>1, <1>3, <1>6, <1>8
<1> QED BY <1>7, <1>8

\* Every step leaves whoever is away timed.
LEMMA TimedStep ==
  ASSUME Placed, Timed, [RoomNext]_roomVars
  PROVE  Timed'
<1>1. /\ away \in [Sides -> Aways] /\ alarm \in Nat \cup {Unset} /\ {Grace, Wait} \subseteq Nat
      /\ Grace > 0 /\ Here \notin Int /\ Unset \notin Int /\ Typed
  BY RoomAssumption DEF Placed, Typed, Timed
<1>2. \A s \in Sides : away[s] # Here => away[s] \in 0 .. Grace
  BY <1>1 DEF Aways
<1>3. ASSUME NEW s \in Sides, seats, away[s] # Here
      PROVE  alarm \in Nat /\ (away[s] < Grace => alarm <= Grace - away[s])
  BY <1>1, <1>3 DEF Timed, AwayIsTimed
<1>4. CASE NoSeatsAfter
  BY <1>1, <1>4 DEF NoSeatsAfter, Timed, AwayIsTimed
<1>5. CASE Paired
  BY <1>1, <1>5, TwoSides DEF Paired, Timed, AwayIsTimed
<1>6. CASE UNCHANGED <<seats, away, alarm>>
  BY <1>6 DEF Timed, AwayIsTimed
<1>7. CASE Watched
  <2>1. \A s \in Sides : away[s] # Here => away[s] < Grace
    BY <1>1, <1>2, <1>7 DEF Watched, Gone
  <2> QED BY <1>1, <1>7, <2>1, NextIsSoonest DEF Watched, Timed, AwayIsTimed
<1>8. ASSUME NEW l \in Links, NEW side \in Sides, Held(l, side) PROVE Timed'
  <2>1. /\ away' = [away EXCEPT ![side] = 0] /\ alarm' = NextOverdue(away') /\ 0 \in Aways
    BY <1>1, <1>8 DEF Held, Aways
  <2>2. away' \in [Sides -> Aways] /\ away'[side] = 0
    BY <1>1, <2>1
  <2>3. alarm' \in Nat \cup {Unset}
    BY <2>1, <2>2, NextIsSoonest
  <2>4. alarm' # Unset
    BY <1>1, <2>1, <2>2, NextIsSoonest, TwoSides
  <2>5. \A s \in Sides : away'[s] # Here /\ away'[s] < Grace => alarm' <= Grace - away'[s]
    BY <2>1, <2>2, NextIsSoonest
  <2> QED BY <2>3, <2>4, <2>5 DEF Timed, AwayIsTimed
<1>9. ASSUME NEW l \in Links, NEW side \in Sides, Back(l, side) PROVE Timed'
  <2>1. /\ away' = [away EXCEPT ![side] = Here] /\ seats /\ seats' = seats
        /\ alarm' = IF away[Other(side)] = Here THEN Unset ELSE alarm
    BY <1>9 DEF Back, AlarmBack
  <2>2. /\ away'[side] = Here /\ away'[Other(side)] = away[Other(side)]
        /\ \A s \in Sides : s = side \/ s = Other(side)
    BY <1>1, <2>1, TwoSides DEF Sides
  <2>3. alarm' \in Nat \cup {Unset}
    BY <1>1, <2>1
  <2>4. ASSUME NEW s \in Sides, away'[s] # Here
        PROVE  alarm' # Unset /\ (away'[s] < Grace => alarm' <= Grace - away'[s])
    <3>1. s = Other(side) /\ away'[s] = away[s] /\ away[s] # Here
      BY <2>2, <2>4
    <3>2. alarm' = alarm
      BY <2>1, <3>1
    <3> QED BY <1>1, <1>3, <2>1, <3>1, <3>2
  <2> QED BY <2>3, <2>4 DEF Timed, AwayIsTimed
<1>10. CASE Tick
  <2>1. /\ seats' = seats
        /\ alarm' = IF alarm # Unset /\ alarm > 0 THEN alarm - 1 ELSE alarm
    BY <1>10 DEF Tick
  <2>2. alarm' \in Nat \cup {Unset}
    BY <1>1, <2>1
  <2>3. ASSUME NEW s \in Sides, seats, away'[s] # Here
        PROVE  alarm' # Unset /\ (away'[s] < Grace => alarm' <= Grace - away'[s])
    <3>1. /\ away[s] # Here /\ away[s] \in 0 .. Grace
          /\ away'[s] = IF away[s] < Grace THEN away[s] + 1 ELSE away[s]
      BY <1>1, <1>10, <2>3, TickAways
    <3>2. alarm \in Nat /\ (away[s] < Grace => alarm <= Grace - away[s])
      BY <1>3, <2>3, <3>1
    <3>3. alarm' = IF alarm > 0 THEN alarm - 1 ELSE alarm
      BY <1>1, <2>1, <3>2
    <3>4. alarm' \in Nat /\ (away'[s] < Grace => alarm' <= Grace - away'[s])
      BY <1>1, <3>1, <3>2, <3>3
    <3> QED BY <1>1, <3>4
  <2> QED BY <2>1, <2>2, <2>3 DEF Timed, AwayIsTimed
<1>11. ASSUME NEW l \in Links, Message(l) PROVE UNCHANGED <<seats, away, alarm>>
  BY <1>11 DEF Message
<1>12. Dwindled => UNCHANGED <<seats, away, alarm>>
  BY DEF Dwindled
<1> QED BY <1>4, <1>5, <1>6, <1>7, <1>8, <1>9, <1>10, <1>11, <1>12, StepKinds

-----------------------------------------------------------------------------
(* What a player on a link knows of the other side *)

\* Every step leaves the players on links knowing of each other.
LEMMA SeesStep ==
  ASSUME Placed, SeesRight, [RoomNext]_roomVars
  PROVE  SeesRight'
<1>1. /\ away \in [Sides -> Aways] /\ link \in [Links -> LinkFacts] /\ Typed
      /\ \A l \in Links : link[l].side \in Sides
  BY DEF Placed, Typed, LinkFacts
<1> DEFINE Sees(l) == LET them == Other(link[l].side) IN
             /\ away[them] # Here => link[l].sees = "away"
             /\ link[l].sees = "away" => ~Live(them)
<1>2. ASSUME NEW l \in Links, seats, link[l].at = "open", link[l].opened PROVE Sees(l)
  BY <1>2 DEF SeesRight
<1>3. CASE NoSeatsAfter
  BY <1>3 DEF NoSeatsAfter, SeesRight
<1>4. CASE Paired
  <2>1. Typed'
    BY StepPlaced DEF Placed
  <2>2. \A k \in Links : link'[k].sees = "here" /\ away'[Other(link'[k].side)] = Here
    BY <1>4, <2>1, TwoSides DEF Paired, Typed, LinkFacts
  <2> QED BY <2>2 DEF SeesRight
<1>5. CASE Dwindled
  <2>1. \A s \in Sides : Live(s)' => Live(s)
    BY <1>5 DEF Dwindled, Live, LiveOn
  <2> SUFFICES ASSUME NEW l \in Links, seats', link'[l].at = "open", link'[l].opened PROVE Sees(l)'
    BY DEF SeesRight
  <2>2. link'[l] = link[l] /\ seats /\ away' = away
    BY <1>5 DEF Dwindled
  <2> QED BY <1>1, <1>2, <2>1, <2>2, TwoSides
<1>6. CASE UNCHANGED <<seats, link>> /\ \A s \in Sides : away'[s] = Here <=> away[s] = Here
  <2> SUFFICES ASSUME NEW l \in Links, seats', link'[l].at = "open", link'[l].opened PROVE Sees(l)'
    BY DEF SeesRight
  <2>1. \A s \in Sides : Live(s)' <=> Live(s)
    BY <1>6 DEF Live, LiveOn, Open
  <2> QED BY <1>1, <1>2, <1>6, <2>1, TwoSides
<1>7. ASSUME NEW l \in Links, NEW side \in Sides, Held(l, side) PROVE SeesRight'
  <2>1. /\ link[l].side = side /\ LiveOn(side) \ {l} = {} /\ away' = [away EXCEPT ![side] = 0]
        /\ link' = [k \in Links |-> IF k = l THEN NoLink
                                    ELSE IF k \in Hears(Other(side)) THEN HearsAway(link[k])
                                    ELSE link[k]]
    BY <1>7 DEF Held
  <2>2. /\ link'[l] = NoLink
        /\ \A k \in Links \ {l} :
              /\ link'[k].side = link[k].side /\ link'[k].at = link[k].at
              /\ link'[k].sees = IF k \in Hears(Other(side)) THEN "away" ELSE link[k].sees
    BY <1>1, <2>1, DropLinks
  <2> SUFFICES ASSUME NEW k \in Links, link'[k].at = "open" PROVE Sees(k)'
    BY DEF SeesRight
  <2>3. k # l /\ link'[k].side = link[k].side /\ link[k].at = "open"
    BY <2>2, NoLinkIs
  <2>4. link[k].side # side
    BY <2>1, <2>3 DEF LiveOn, Open
  <2>5. link[k].side = Other(side) /\ Other(link[k].side) = side
    BY <1>1, <2>4, TwoSides DEF Sides
  <2>6. link'[k].sees = "away"
    BY <2>2, <2>3, <2>5 DEF Hears
  <2>7. ~Live(side)'
    BY <2>1, <2>2, NoLinkIs DEF Live, LiveOn, Open
  <2> QED BY <2>3, <2>5, <2>6, <2>7
<1>8. ASSUME NEW l \in Links, NEW side \in Sides, Back(l, side) PROVE SeesRight'
  <2> DEFINE them == Other(side)
  <2>1. /\ link'[l].at = "open" /\ link'[l].side = side /\ seats /\ link[l] = NoLink
        /\ link'[l].sees = IF Live(Other(side)) THEN "here" ELSE "away"
        /\ \A k \in Links \ {l} :
              /\ link'[k].side = link[k].side
              /\ IF k \in LiveOn(side) THEN link'[k].at = "closing" ELSE link'[k].at = link[k].at
              /\ k \in LiveOn(side) \cup Hears(Other(side)) \/ link'[k] = link[k]
              /\ k \in Hears(Other(side)) /\ k \notin LiveOn(side) => link'[k].sees = "here"
    BY <1>1, <1>8, BackLinks
  <2>2. away' = [away EXCEPT ![side] = Here]
    BY <1>8 DEF Back
  <2>3. /\ them \in Sides /\ them # side /\ Other(them) = side
        /\ away'[side] = Here /\ away'[them] = away[them]
        /\ \A s \in Sides : s = side \/ s = them
    BY <1>1, <2>2, TwoSides DEF Sides
  <2>4. away[them] # Here => ~Live(them)
    BY <2>1, <2>3 DEF Placed, AwayIsGone
  <2>5. Live(them)' => Live(them)
    BY <2>1, <2>3 DEF Live, LiveOn, Open
  <2> SUFFICES ASSUME NEW k \in Links, link'[k].at = "open" PROVE Sees(k)'
    BY DEF SeesRight
  <2>6. CASE k = l
    BY <2>1, <2>3, <2>4, <2>5, <2>6
  <2>7. CASE k # l
    <3>1. k \notin LiveOn(side) /\ link[k].at = "open" /\ link'[k].side = link[k].side
      BY <2>1, <2>7
    <3>2. link[k].side = them
      BY <1>1, <2>3, <3>1 DEF LiveOn, Open
    <3>3. link'[k].sees = "here"
      BY <2>1, <2>7, <3>1, <3>2 DEF Hears
    <3> QED BY <2>3, <3>1, <3>2, <3>3
  <2> QED BY <2>6, <2>7
<1>9. ASSUME NEW l \in Links, Message(l) PROVE UNCHANGED <<seats, away, link>>
  BY <1>9 DEF Message
<1>10. CASE Tick
  <2>1. UNCHANGED <<seats, link>>
    BY <1>10 DEF Tick
  <2> QED BY <1>1, <1>6, <1>10, <2>1, TickAways
<1>11. Watched => UNCHANGED <<seats, away, link>>
  BY DEF Watched
<1> HIDE DEF Sees
<1> QED BY <1>3, <1>4, <1>5, <1>6, <1>7, <1>8, <1>9, <1>10, <1>11, StepKinds

-----------------------------------------------------------------------------
(* What a player has heard and is yet to hear *)

Rising(q) == \A i, j \in 1 .. Len(q) : i < j => q[i] < q[j]
UpTo(q, n) == \A i \in 1 .. Len(q) : q[i] <= n

\* All that a side has heard, and then all that is kept for it.
Coming(s) == heard[s] \o queue[s]

\* What comes is in the order it was sent, and sent by the other side; only a side that is
\* away has anything kept for it, and no more than MAX_QUEUED.
ComesRight(s) ==
  /\ Rising(Coming(s)) /\ UpTo(Coming(s), sent[Other(s)])
  /\ queue[s] # <<>> => Waiting(s)
  /\ Len(queue[s]) <= MaxQueued

Carried ==
  /\ sent \in [Sides -> 0 .. MaxMsgs] /\ kept \in [Sides -> SUBSET Nat]
  /\ queue \in [Sides -> Seq(Nat)] /\ heard \in [Sides -> Seq(Nat)]
  /\ \A s \in Sides : ComesRight(s)
  /\ NothingKeptIsLost

\* One more, newer than any, at the end.
LEMMA OneMore ==
  ASSUME NEW q \in Seq(Nat), NEW m \in Nat, NEW n \in Nat, m < n, Rising(q), UpTo(q, m)
  PROVE  /\ Append(q, n) \in Seq(Nat) /\ Rising(Append(q, n)) /\ UpTo(Append(q, n), n)
         /\ Range(Append(q, n)) = Range(q) \cup {n}
<1>1. /\ Append(q, n) \in Seq(Nat) /\ Len(Append(q, n)) = Len(q) + 1 /\ Len(q) \in Nat
      /\ \A i \in 1 .. Len(q) : Append(q, n)[i] = q[i] /\ q[i] \in Nat
      /\ Append(q, n)[Len(q) + 1] = n
      /\ DOMAIN q = 1 .. Len(q) /\ DOMAIN Append(q, n) = 1 .. (Len(q) + 1)
  OBVIOUS
<1>2. \A i \in 1 .. (Len(q) + 1) : i \in 1 .. Len(q) \/ i = Len(q) + 1
  BY <1>1
<1>3. Rising(Append(q, n)) /\ UpTo(Append(q, n), n)
  BY <1>1, <1>2 DEF Rising, UpTo
<1>4. Range(Append(q, n)) = Range(q) \cup {n}
  <2>1. \A x : x \in Range(Append(q, n)) <=> \E i \in 1 .. (Len(q) + 1) : x = Append(q, n)[i]
    BY <1>1 DEF Range
  <2>2. \A x : x \in Range(q) <=> \E i \in 1 .. Len(q) : x = q[i]
    BY <1>1 DEF Range
  <2>3. Len(q) + 1 \in 1 .. (Len(q) + 1) /\ \A i \in 1 .. Len(q) : i \in 1 .. (Len(q) + 1)
    BY <1>1
  <2> QED BY <1>1, <1>2, <2>1, <2>2, <2>3
<1> QED BY <1>1, <1>3, <1>4

\* A concatenation has the elements of both.
LEMMA BothParts ==
  ASSUME NEW a \in Seq(Nat), NEW b \in Seq(Nat)
  PROVE  /\ a \o b \in Seq(Nat) /\ Len(a \o b) = Len(a) + Len(b)
         /\ \A i \in 1 .. Len(a) : (a \o b)[i] = a[i]
         /\ \A i \in 1 .. Len(b) : (a \o b)[Len(a) + i] = b[i]
         /\ a \o <<>> = a
         /\ Range(a \o b) = Range(a) \cup Range(b)
<1>1. /\ a \o b \in Seq(Nat) /\ Len(a \o b) = Len(a) + Len(b) /\ Len(a) \in Nat /\ Len(b) \in Nat
      /\ \A i \in 1 .. Len(a) : (a \o b)[i] = a[i]
      /\ \A i \in 1 .. Len(b) : (a \o b)[Len(a) + i] = b[i]
      /\ DOMAIN a = 1 .. Len(a) /\ DOMAIN b = 1 .. Len(b)
      /\ DOMAIN (a \o b) = 1 .. (Len(a) + Len(b))
  OBVIOUS
<1>2. a \o <<>> = a
  OBVIOUS
<1>3. \A i \in 1 .. (Len(a) + Len(b)) : i \in 1 .. Len(a) \/ \E j \in 1 .. Len(b) : i = Len(a) + j
  <2> SUFFICES ASSUME NEW i \in 1 .. (Len(a) + Len(b)), i \notin 1 .. Len(a)
               PROVE  \E j \in 1 .. Len(b) : i = Len(a) + j
    OBVIOUS
  <2>1. i - Len(a) \in 1 .. Len(b) /\ i = Len(a) + (i - Len(a))
    BY <1>1
  <2> QED BY <2>1
<1>4. Range(a \o b) = Range(a) \cup Range(b)
  <2>1. \A x : x \in Range(a \o b) <=> \E i \in 1 .. (Len(a) + Len(b)) : x = (a \o b)[i]
    BY <1>1 DEF Range
  <2>2. \A x : x \in Range(a) <=> \E i \in 1 .. Len(a) : x = a[i]
    BY <1>1 DEF Range
  <2>3. \A x : x \in Range(b) <=> \E i \in 1 .. Len(b) : x = b[i]
    BY <1>1 DEF Range
  <2>4. /\ \A i \in 1 .. Len(a) : i \in 1 .. (Len(a) + Len(b))
        /\ \A i \in 1 .. Len(b) : Len(a) + i \in 1 .. (Len(a) + Len(b))
    BY <1>1
  <2>5. ASSUME NEW x \in Range(a \o b) PROVE x \in Range(a) \cup Range(b)
    BY <1>1, <1>3, <2>1, <2>2, <2>3, <2>5
  <2>6. ASSUME NEW x \in Range(a) \cup Range(b) PROVE x \in Range(a \o b)
    <3>1. CASE x \in Range(a)
      BY <1>1, <2>1, <2>2, <2>4, <3>1
    <3>2. CASE x \in Range(b)
      BY <1>1, <2>1, <2>3, <2>4, <3>2
    <3> QED BY <2>6, <3>1, <3>2
  <2> QED BY <2>5, <2>6
<1> QED BY <1>1, <1>2, <1>4

\* Its first part comes in order by itself.
LEMMA FirstPart ==
  ASSUME NEW a \in Seq(Nat), NEW b \in Seq(Nat), NEW n \in Nat, Rising(a \o b), UpTo(a \o b, n)
  PROVE  Rising(a) /\ UpTo(a, n)
<1>1. /\ Len(a \o b) = Len(a) + Len(b) /\ Len(a) \in Nat /\ Len(b) \in Nat
      /\ \A i \in 1 .. Len(a) : (a \o b)[i] = a[i]
  BY BothParts
<1>2. \A i \in 1 .. Len(a) : i \in 1 .. Len(a \o b)
  BY <1>1
<1> QED BY <1>1, <1>2 DEF Rising, UpTo

\* enqueue: one more is kept, and the oldest goes when there are too many.
LEMMA Enqueued ==
  ASSUME NEW h \in Seq(Nat), NEW q \in Seq(Nat), NEW m \in Nat, NEW n \in Nat, m < n,
         Rising(h \o q), UpTo(h \o q, m), Len(q) <= MaxQueued
  PROVE  /\ Enqueue(q, n) \in Seq(Nat) /\ Len(Enqueue(q, n)) <= MaxQueued
         /\ n \in Range(Enqueue(q, n))
         /\ Rising(h \o Enqueue(q, n)) /\ UpTo(h \o Enqueue(q, n), n)
<1> DEFINE e == Enqueue(q, n)
           d == Len(q) + 1 - Len(e)
           all == (h \o q) \o <<n>>
<1>1. MaxQueued \in Nat \ {0} /\ Len(q) \in Nat /\ Len(h) \in Nat
  BY RoomAssumption
<1>2. /\ Append(q, n) \in Seq(Nat) /\ Len(Append(q, n)) = Len(q) + 1
      /\ \A i \in 1 .. Len(q) : Append(q, n)[i] = q[i]
      /\ Append(q, n)[Len(q) + 1] = n
  OBVIOUS
<1>3. /\ e \in Seq(Nat) /\ Len(e) \in 1 .. MaxQueued /\ d \in {0, 1} /\ Len(e) + d = Len(q) + 1
      /\ \A i \in 1 .. Len(e) : e[i] = Append(q, n)[i + d]
  <2>1. CASE Len(q) < MaxQueued
    <3>1. e = Append(q, n)
      BY <2>1 DEF Enqueue
    <3> HIDE DEF e
    <3> QED BY <1>1, <1>2, <2>1, <3>1
  <2>2. CASE ~(Len(q) < MaxQueued)
    <3>1. Len(q) = MaxQueued
      BY <1>1, <2>2
    <3>2. e = SubSeq(Append(q, n), 2, Len(q) + 1)
      <4>1. (Len(q) + 1) - MaxQueued + 1 = 2
        BY <1>1, <3>1
      <4> QED BY <1>2, <2>2, <4>1 DEF Enqueue, Newest
    <3> HIDE DEF e
    <3> DEFINE p == Append(q, n)
    <3>3. p \in Seq(Nat) /\ Len(p) = Len(q) + 1
      BY <1>2
    <3> HIDE DEF p
    <3>4. \A i \in 2 .. (Len(q) + 1) : i \in 1 .. Len(p)
      BY <1>1, <3>3
    <3>5. /\ SubSeq(p, 2, Len(q) + 1) \in Seq(Nat)
          /\ Len(SubSeq(p, 2, Len(q) + 1)) = Len(q)
          /\ \A i \in 1 .. Len(q) : SubSeq(p, 2, Len(q) + 1)[i] = p[i + 1]
      <4>1. 2 \in Int /\ Len(q) + 1 \in Int /\ \A i \in 2 .. (Len(q) + 1) : p[i] \in Nat
        BY <1>1, <3>3, <3>4
      <4> DEFINE L == Len(q) + 1
      <4>2. L \in Int /\ 2 \in Int /\ \A i \in 2 .. L : p[i] \in Nat
        BY <4>1
      <4>3. L - 2 + 1 = Len(q) /\ (2 <= L \/ Len(q) = 0)
        BY <1>1
      <4> HIDE DEF L
      <4>4. /\ SubSeq(p, 2, L) \in Seq(Nat) /\ Len(SubSeq(p, 2, L)) = IF 2 <= L THEN L - 2 + 1 ELSE 0
            /\ \A i \in 1 .. L - 2 + 1 : SubSeq(p, 2, L)[i] = p[2 + i - 1]
        BY <4>2, SubSeqProperties, Z3
      <4>5. \A i \in 1 .. Len(q) : 2 + i - 1 = i + 1
        BY <1>1
      <4>6. Len(SubSeq(p, 2, L)) = Len(q)
        BY <4>3, <4>4
      <4>7. \A i \in 1 .. Len(q) : SubSeq(p, 2, L)[i] = p[i + 1]
        BY <4>3, <4>4, <4>5
      <4>8. SubSeq(p, 2, L) \in Seq(Nat) /\ L = Len(q) + 1
        BY <4>4 DEF L
      <4> QED BY <4>6, <4>7, <4>8, Zenon
    <3>6. /\ e \in Seq(Nat) /\ Len(e) = Len(q)
          /\ \A i \in 1 .. Len(q) : e[i] = p[i + 1]
      BY <3>2, <3>5, Zenon DEF p
    <3>7. d = 1 /\ Len(e) \in 1 .. MaxQueued /\ Len(e) + d = Len(q) + 1
      BY <1>1, <3>1, <3>6
    <3> HIDE DEF d
    <3> QED BY <3>6, <3>7, Zenon DEF p
  <2> QED BY <2>1, <2>2
<1> HIDE DEF e, d
<1>4. e[Len(e)] = n
  BY <1>1, <1>2, <1>3
<1>5. n \in Range(e)
  BY <1>1, <1>3, <1>4 DEF Range
<1>6. /\ h \o q \in Seq(Nat) /\ Len(h \o q) = Len(h) + Len(q)
      /\ \A i \in 1 .. Len(h) : (h \o q)[i] = h[i]
      /\ \A i \in 1 .. Len(q) : (h \o q)[Len(h) + i] = q[i]
  BY BothParts
<1>7. /\ Rising(Append(h \o q, n)) /\ UpTo(Append(h \o q, n), n)
      /\ Len(Append(h \o q, n)) = Len(h) + Len(q) + 1
      /\ \A i \in 1 .. (Len(h) + Len(q)) : Append(h \o q, n)[i] = (h \o q)[i]
      /\ Append(h \o q, n)[Len(h) + Len(q) + 1] = n
  <2> DEFINE c == h \o q
  <2>1. c \in Seq(Nat) /\ Rising(c) /\ UpTo(c, m) /\ Len(c) = Len(h) + Len(q)
    BY <1>6
  <2> HIDE DEF c
  <2>2. Rising(Append(c, n)) /\ UpTo(Append(c, n), n)
    BY <2>1, OneMore
  <2>3. /\ Len(Append(c, n)) = Len(c) + 1 /\ Append(c, n)[Len(c) + 1] = n
        /\ \A i \in 1 .. Len(c) : Append(c, n)[i] = c[i]
    BY <2>1
  <2> QED BY <2>1, <2>2, <2>3 DEF c
<1> DEFINE was(i) == IF i <= Len(h) THEN i ELSE i + d
<1>8. ASSUME NEW i \in 1 .. Len(h \o e)
      PROVE  /\ was(i) \in 1 .. Len(Append(h \o q, n))
             /\ (h \o e)[i] = Append(h \o q, n)[was(i)]
  <2>1. /\ Len(h \o e) = Len(h) + Len(e)
        /\ \A j \in 1 .. Len(h) : (h \o e)[j] = h[j]
        /\ \A j \in 1 .. Len(e) : (h \o e)[Len(h) + j] = e[j]
    BY <1>3, BothParts
  <2>2. CASE i <= Len(h)
    <3>1. i \in 1 .. Len(h) /\ i \in 1 .. (Len(h) + Len(q))
      BY <1>1, <2>1, <2>2
    <3> QED BY <1>1, <1>6, <1>7, <2>1, <2>2, <3>1
  <2>3. CASE ~(i <= Len(h))
    <3> DEFINE j == i - Len(h)
    <3>1. j \in 1 .. Len(e) /\ i = Len(h) + j /\ j + d \in 1 .. (Len(q) + 1)
      BY <1>1, <1>3, <2>1, <2>3
    <3>2. (h \o e)[i] = Append(q, n)[j + d]
      BY <1>3, <2>1, <3>1
    <3>3. was(i) = Len(h) + (j + d) /\ was(i) \in 1 .. (Len(h) + Len(q) + 1)
      BY <1>1, <1>3, <2>3, <3>1
    <3> DEFINE t == j + d
    <3> HIDE DEF j, was
    <3>4. t \in 1 .. Len(q) \/ t = Len(q) + 1
      BY <1>1, <3>1
    <3> HIDE DEF t
    <3>5. Append(h \o q, n)[Len(h) + t] = Append(q, n)[t]
      <4>1. CASE t \in 1 .. Len(q)
        <5>1. Len(h) + t \in 1 .. (Len(h) + Len(q))
          BY <1>1, <4>1
        <5> QED BY <1>2, <1>6, <1>7, <4>1, <5>1
      <4>2. CASE t = Len(q) + 1
        <5>1. Len(h) + t = Len(h) + Len(q) + 1
          BY <1>1, <4>2
        <5> QED BY <1>2, <1>7, <4>2, <5>1
      <4> QED BY <3>4, <4>1, <4>2
    <3> QED BY <1>7, <3>2, <3>3, <3>5 DEF t
  <2> QED BY <2>2, <2>3
<1>9. \A i, j \in 1 .. Len(h \o e) : i < j => was(i) < was(j)
  <2>1. Len(h \o e) \in Nat
    BY <1>3, BothParts
  <2> QED BY <1>1, <1>3, <2>1
<1> HIDE DEF was
<1>10. Rising(h \o e) /\ UpTo(h \o e, n)
  BY <1>7, <1>8, <1>9 DEF Rising, UpTo
<1> QED BY <1>1, <1>3, <1>5, <1>10 DEF e

\* A game goes on or begins, with nothing sent.
LEMMA CarriedOn ==
  ASSUME Carried, UNCHANGED mail, seats' \in BOOLEAN,
         \A s \in Sides : Waiting(s) => Waiting(s)',
         seats' => seats \/ \A s \in Sides : kept[s] = {}
  PROVE  Carried'
<1>1. NothingKeptIsLost'
  BY DEF Carried, NothingKeptIsLost, mail
<1>2. \A s \in Sides : ComesRight(s)'
  BY DEF Carried, ComesRight, Coming, mail
<1> QED BY <1>1, <1>2 DEF Carried, mail

\* It is over, and nothing is kept.
LEMMA CarriedNoMore ==
  ASSUME Carried, NoSeatsAfter
  PROVE  Carried'
<1>1. UNCHANGED <<sent, heard, kept>> /\ ~seats'
  BY DEF NoSeatsAfter
<1>2. /\ \A s \in Sides : heard[s] \in Seq(Nat) /\ queue[s] \in Seq(Nat)
      /\ \A s \in Sides : sent[Other(s)] \in Nat /\ MaxQueued \in Nat
  BY TwoSides, RoomAssumption DEF Carried
<1>3. CASE queue' = NoQueue
  <2>1. \A s \in Sides : queue'[s] = <<>> /\ Len(queue'[s]) = 0
    BY <1>3 DEF NoQueue
  <2>2. \A s \in Sides : Rising(heard[s]) /\ UpTo(heard[s], sent[Other(s)])
    BY <1>2, FirstPart DEF Carried, ComesRight, Coming
  <2>3. \A s \in Sides : Coming(s)' = heard[s]
    BY <1>1, <1>2, <2>1, BothParts DEF Coming
  <2>4. \A s \in Sides : ComesRight(s)'
    BY <1>1, <1>2, <2>1, <2>2, <2>3 DEF ComesRight
  <2>5. queue' \in [Sides -> Seq(Nat)]
    BY <1>3 DEF NoQueue
  <2> QED BY <1>1, <2>4, <2>5 DEF Carried, NothingKeptIsLost
<1>4. CASE ~seats /\ queue' = queue
  <2>1. \A s \in Sides : ComesRight(s)'
    BY <1>1, <1>4 DEF Carried, ComesRight, Coming, Waiting
  <2> QED BY <1>1, <1>4, <2>1 DEF Carried, NothingKeptIsLost
<1> QED BY <1>3, <1>4 DEF NoSeatsAfter

\* A message is passed on, or kept, or dropped.
LEMMA CarriedMessage ==
  ASSUME Placed, Carried, NEW l \in Links, Message(l), NEW me \in Sides, NEW them, NEW n,
         me = link[l].side, them = Other(me), n = sent[me] + 1
  PROVE  Carried'
<1>1. /\ me \in Sides /\ them \in Sides /\ me # them /\ Other(them) = me
      /\ \A s \in Sides : s = me \/ s = them
  BY TwoSides DEF Sides
<1>2. /\ n + sent[them] <= MaxMsgs /\ sent' = [sent EXCEPT ![me] = n]
      /\ heard' = IF Hears(them) # {} THEN [heard EXCEPT ![them] = Append(heard[them], n)] ELSE heard
      /\ \/ /\ ~Live(them) /\ Waiting(them)
            /\ queue' = [queue EXCEPT ![them] = Enqueue(queue[them], n)]
            /\ kept' = [kept EXCEPT ![them] =
                 (kept[them] \cup {n}) \ (Range(queue[them]) \ Range(Enqueue(queue[them], n)))]
         \/ /\ Live(them) \/ ~Waiting(them)
            /\ UNCHANGED <<queue, kept>>
      /\ UNCHANGED <<seats, away>>
  <2>1. heard \in [Sides -> Seq(Nat)] /\ kept \in [Sides -> SUBSET Nat]
    BY DEF Carried
  <2> QED BY <2>1 DEF Message
<1>3. /\ sent \in [Sides -> 0 .. MaxMsgs] /\ kept \in [Sides -> SUBSET Nat]
      /\ queue \in [Sides -> Seq(Nat)] /\ heard \in [Sides -> Seq(Nat)]
      /\ ComesRight(me) /\ ComesRight(them) /\ MaxMsgs \in Nat
      /\ heard[them] \in Seq(Nat) /\ queue[them] \in Seq(Nat)
  BY <1>1, RoomAssumption DEF Carried
<1>4. sent[me] \in Nat /\ n \in Nat /\ sent[me] < n /\ n \in 0 .. MaxMsgs
  <2>1. sent[me] \in 0 .. MaxMsgs /\ sent[them] \in 0 .. MaxMsgs
    BY <1>1, <1>3
  <2>2. n = sent[me] + 1 /\ n + sent[them] <= MaxMsgs /\ MaxMsgs \in Nat
    BY <1>2, <1>3
  <2> QED BY <2>1, <2>2
<1>5. /\ sent' \in [Sides -> 0 .. MaxMsgs] /\ sent'[me] = n /\ sent'[them] = sent[them]
      /\ heard'[me] = heard[me] /\ queue'[me] = queue[me] /\ kept'[me] = kept[me]
      /\ \A s \in Sides : Waiting(s)' = Waiting(s)
  BY <1>1, <1>2, <1>3, <1>4 DEF Waiting
<1>6. ComesRight(me)'
  BY <1>1, <1>3, <1>5 DEF ComesRight, Coming
<1>7. Hears(them) # {} => Live(them) /\ queue[them] = <<>>
  <2>1. Hears(them) # {} => Live(them)
    BY DEF Hears, Live, LiveOn, Open
  <2>2. Waiting(them) => ~Live(them)
    BY <1>1 DEF Waiting, Placed, AwayIsGone
  <2> QED BY <1>3, <2>1, <2>2 DEF ComesRight
<1>8. Rising(Coming(them)) /\ UpTo(Coming(them), sent[me])
  BY <1>1, <1>3 DEF ComesRight
<1> DEFINE Right == /\ heard' \in [Sides -> Seq(Nat)] /\ queue' \in [Sides -> Seq(Nat)]
                    /\ kept' \in [Sides -> SUBSET Nat] /\ ComesRight(them)'
                    /\ (seats => kept'[them] \subseteq Range(heard'[them]) \cup Range(queue'[them]))
<1>9. seats => kept[them] \subseteq Range(heard[them]) \cup Range(queue[them])
  BY <1>1 DEF Carried, NothingKeptIsLost
<1>10. ASSUME Hears(them) # {} PROVE Right
  <2>1. /\ heard' = [heard EXCEPT ![them] = Append(heard[them], n)] /\ queue' = queue /\ kept' = kept
        /\ queue[them] = <<>>
    BY <1>2, <1>7, <1>10
  <2>2. Coming(them) = heard[them]
    BY <1>3, <2>1, BothParts DEF Coming
  <2>3. /\ Append(heard[them], n) \in Seq(Nat) /\ Rising(Append(heard[them], n))
        /\ UpTo(Append(heard[them], n), n)
        /\ Range(Append(heard[them], n)) = Range(heard[them]) \cup {n}
    BY <1>3, <1>4, <1>8, <2>2, OneMore
  <2>4. heard'[them] = Append(heard[them], n) /\ heard' \in [Sides -> Seq(Nat)]
    BY <1>1, <1>3, <2>1, <2>3
  <2>5. Coming(them)' = Append(heard[them], n)
    BY <2>1, <2>3, <2>4, BothParts DEF Coming
  <2>6. ComesRight(them)'
    BY <1>1, <1>3, <1>5, <2>1, <2>3, <2>5 DEF ComesRight
  <2> QED BY <1>3, <1>9, <2>1, <2>3, <2>4, <2>6
<1>11. ASSUME Hears(them) = {}, UNCHANGED <<queue, kept>> PROVE Right
  <2>1. heard' = heard
    BY <1>2, <1>11
  <2>2. Coming(them)' = Coming(them)
    BY <1>11, <2>1 DEF Coming
  <2>3. UpTo(Coming(them), n)
    <3>1. Coming(them) \in Seq(Nat)
      BY <1>3, BothParts DEF Coming
    <3>2. \A i \in 1 .. Len(Coming(them)) : Coming(them)[i] \in Nat
      BY <3>1
    <3> QED BY <1>4, <1>8, <3>2 DEF UpTo
  <2>4. ComesRight(them)'
    BY <1>1, <1>3, <1>5, <1>8, <1>11, <2>2, <2>3 DEF ComesRight
  <2> QED BY <1>3, <1>9, <1>11, <2>1, <2>4
<1>12. ASSUME ~Live(them), Waiting(them),
              queue' = [queue EXCEPT ![them] = Enqueue(queue[them], n)],
              kept' = [kept EXCEPT ![them] =
                 (kept[them] \cup {n}) \ (Range(queue[them]) \ Range(Enqueue(queue[them], n)))]
       PROVE  Right
  <2> DEFINE e == Enqueue(queue[them], n)
             k == (kept[them] \cup {n}) \ (Range(queue[them]) \ Range(e))
  <2>1. heard' = heard
    BY <1>2, <1>7, <1>12
  <2>2. Rising(heard[them] \o queue[them]) /\ UpTo(heard[them] \o queue[them], sent[me])
        /\ Len(queue[them]) <= MaxQueued
    BY <1>3, <1>8 DEF Coming, ComesRight
  <2>3. /\ e \in Seq(Nat) /\ Len(e) <= MaxQueued /\ n \in Range(e)
        /\ Rising(heard[them] \o e) /\ UpTo(heard[them] \o e, n)
    BY <1>3, <1>4, <2>2, Enqueued
  <2>4. k \in SUBSET Nat /\ (seats => k \subseteq Range(heard[them]) \cup Range(e))
    BY <1>1, <1>3, <1>4, <1>9, <2>3
  <2>5. queue' = [queue EXCEPT ![them] = e] /\ kept' = [kept EXCEPT ![them] = k]
    BY <1>12
  <2> HIDE DEF e, k
  <2>6. /\ queue' \in [Sides -> Seq(Nat)] /\ queue'[them] = e
        /\ kept' \in [Sides -> SUBSET Nat] /\ kept'[them] = k
    BY <1>1, <1>3, <2>3, <2>4, <2>5
  <2>7. Coming(them)' = heard[them] \o e
    BY <2>1, <2>6 DEF Coming
  <2>8. ComesRight(them)'
    BY <1>1, <1>5, <1>12, <2>3, <2>6, <2>7 DEF ComesRight
  <2> QED BY <1>3, <2>1, <2>4, <2>6, <2>8
<1>13. Right
  BY <1>2, <1>7, <1>10, <1>11, <1>12
<1>14. \A s \in Sides : ComesRight(s)'
  BY <1>1, <1>6, <1>13
<1>15. NothingKeptIsLost'
  <2>1. seats => kept'[me] \subseteq Range(heard'[me]) \cup Range(queue'[me])
    BY <1>1, <1>5 DEF Carried, NothingKeptIsLost
  <2> QED BY <1>1, <1>2, <1>13, <2>1 DEF NothingKeptIsLost
<1> QED BY <1>5, <1>13, <1>14, <1>15 DEF Carried

\* What is kept for a player is handed over as they come back.
LEMMA CarriedBack ==
  ASSUME Placed, Carried, NEW l \in Links, NEW side \in Sides, Back(l, side)
  PROVE  Carried'
<1>1. /\ heard' = [heard EXCEPT ![side] = heard[side] \o queue[side]]
      /\ queue' = [queue EXCEPT ![side] = <<>>]
      /\ UNCHANGED <<seats, sent, kept>> /\ away' = [away EXCEPT ![side] = Here]
  <2>1. heard \in [Sides -> Seq(Nat)]
    BY DEF Carried
  <2> QED BY <2>1 DEF Back, HandOver
<1>2. /\ heard \in [Sides -> Seq(Nat)] /\ queue \in [Sides -> Seq(Nat)]
      /\ heard[side] \in Seq(Nat) /\ queue[side] \in Seq(Nat) /\ <<>> \in Seq(Nat)
      /\ away \in [Sides -> Aways] /\ MaxQueued \in Nat
  BY RoomAssumption DEF Carried, Placed, Typed
<1>3. /\ heard[side] \o queue[side] \in Seq(Nat)
      /\ Range(heard[side] \o queue[side]) = Range(heard[side]) \cup Range(queue[side])
  BY <1>2, BothParts
<1>4. /\ heard' \in [Sides -> Seq(Nat)] /\ queue' \in [Sides -> Seq(Nat)]
      /\ heard'[side] = Coming(side) /\ queue'[side] = <<>>
      /\ \A s \in Sides \ {side} : heard'[s] = heard[s] /\ queue'[s] = queue[s] /\ away'[s] = away[s]
  BY <1>1, <1>2, <1>3 DEF Coming
<1>5. \A s \in Sides : Coming(s)' = Coming(s)
  <2>1. Coming(side)' = Coming(side)
    BY <1>3, <1>4, BothParts DEF Coming
  <2> QED BY <1>4, <2>1 DEF Coming
<1>6. ASSUME NEW s \in Sides PROVE ComesRight(s)'
  <2>1. ComesRight(s)
    BY DEF Carried
  <2>2. CASE s = side
    <3>1. Len(queue'[s]) = 0
      BY <1>4, <2>2
    <3> QED BY <1>1, <1>2, <1>4, <1>5, <2>1, <2>2, <3>1 DEF ComesRight
  <2>3. CASE s # side
    BY <1>1, <1>4, <1>5, <2>1, <2>3 DEF ComesRight, Waiting
  <2> QED BY <2>2, <2>3
<1>7. NothingKeptIsLost'
  <2>1. \A s \in Sides : Range(heard[s]) \cup Range(queue[s]) \subseteq Range(heard'[s]) \cup Range(queue'[s])
    BY <1>3, <1>4 DEF Coming
  <2> QED BY <1>1, <2>1 DEF Carried, NothingKeptIsLost
<1> QED BY <1>1, <1>4, <1>6, <1>7 DEF Carried

\* Every step keeps the order of what comes, and what is kept.
LEMMA CarriedStep ==
  ASSUME Placed, Carried, [RoomNext]_roomVars
  PROVE  Carried'
<1>1. /\ away \in [Sides -> Aways] /\ Typed /\ Typed' /\ seats' \in BOOLEAN
  <2>1. Placed'
    BY StepPlaced
  <2> QED BY <2>1 DEF Placed, Typed
<1>2. CASE UNCHANGED mail /\ UNCHANGED <<seats, away>>
  BY <1>1, <1>2, CarriedOn DEF Waiting
<1>3. CASE Paired
  <2>1. ~seats /\ UNCHANGED mail /\ \A s \in Sides : kept[s] = {}
    BY <1>3 DEF Paired, Played
  <2> QED BY <1>1, <2>1, CarriedOn DEF Waiting
<1>4. ASSUME NEW l \in Links, NEW side \in Sides, Held(l, side) PROVE Carried'
  <2>1. away' = [away EXCEPT ![side] = 0] /\ seats /\ seats' /\ UNCHANGED mail
    BY <1>4 DEF Held
  <2>2. \A s \in Sides : away[s] # Here => away'[s] # Here
    BY <1>1, <2>1, TwoSides
  <2> QED BY <1>1, <2>1, <2>2, CarriedOn DEF Waiting
<1>5. CASE Tick
  <2>1. UNCHANGED mail /\ seats' = seats
    BY <1>5 DEF Tick, mail, player
  <2> QED BY <1>1, <1>5, <2>1, TickAways, CarriedOn DEF Waiting
<1>6. Watched \/ Dwindled => UNCHANGED mail /\ UNCHANGED <<seats, away>>
  BY DEF Watched, Dwindled
<1>7. ASSUME NEW l \in Links, Message(l) PROVE Carried'
  <2>1. link[l].side \in Sides
    BY <1>1 DEF Typed, LinkFacts
  <2> QED BY <1>7, <2>1, CarriedMessage
<1> QED BY <1>2, <1>3, <1>4, <1>5, <1>6, <1>7, CarriedNoMore, CarriedBack, StepKinds

\* A room no one has opened has nobody away and nothing sent.
LEMMA InitRest == RoomInit => Timed /\ Carried /\ SeesRight
<1> SUFFICES ASSUME RoomInit PROVE Timed /\ Carried /\ SeesRight
  OBVIOUS
<1>1. /\ ~seats /\ alarm = Unset /\ {MaxMsgs, MaxQueued} \subseteq Nat
      /\ sent = [s \in Sides |-> 0] /\ kept = [s \in Sides |-> {}]
      /\ queue = [s \in Sides |-> <<>>] /\ heard = [s \in Sides |-> <<>>]
  BY RoomAssumption DEF RoomInit, NoQueue
<1>2. Timed /\ SeesRight /\ NothingKeptIsLost
  BY <1>1 DEF Timed, AwayIsTimed, SeesRight, NothingKeptIsLost
<1>3. ASSUME NEW s \in Sides PROVE ComesRight(s)
  <2>1. heard[s] = <<>> /\ queue[s] = <<>> /\ <<>> \in Seq(Nat) /\ Len(<<>>) = 0
    BY <1>1
  <2>2. Coming(s) = <<>>
    BY <2>1, BothParts DEF Coming
  <2> QED BY <1>1, <2>1, <2>2 DEF ComesRight, Rising, UpTo
<1>4. /\ sent \in [Sides -> 0 .. MaxMsgs] /\ kept \in [Sides -> SUBSET Nat]
      /\ queue \in [Sides -> Seq(Nat)] /\ heard \in [Sides -> Seq(Nat)]
  BY <1>1
<1> QED BY <1>2, <1>3, <1>4 DEF Carried

-----------------------------------------------------------------------------
(* What ends a game *)

\* The cause of an end: an alarm that finds a side overdue, or the end of a link by which its
\* player left, or which the room had closed as expired.
Cause ==
  \/ Gone(away) # {} /\ ~\E l \in Links : Parts(l)
  \/ \E l \in Links : Parts(l) /\ (link[l].at = "open" \/ link[l].told = "expired")

\* A step that ends a game whose players could come back has one of the three causes.
LEMMA EndsForCause ==
  ASSUME Placed, [RoomNext]_roomVars, seats, ~seats', token # {}
  PROVE  Cause
<1>1. ASSUME NEW l \in Links, PlayerLeaves(l) PROVE Cause
  <2>1. "bye" \in Whys /\ link[l].at = "open" /\ Leave(l, "bye") /\ UNCHANGED <<sent, heard, kept>>
    BY <1>1 DEF PlayerLeaves, Whys
  <2>2. link'[l].at \in {"none", "leaving"}
    BY <2>1, LeaveKind
  <2>3. Parts(l)
    BY <2>1, <2>2 DEF Parts
  <2> QED BY <2>1, <2>3 DEF Cause
<1>2. ASSUME NEW l \in Links, NoticeLost(l) \/ CloseDone(l) PROVE Cause
  <2>1. LinkRight(l) /\ UNCHANGED <<kind, resume, list, tasks, sent, heard, kept>> /\ entering[l] = Nobody
    BY <1>2 DEF NoticeLost, CloseDone, Placed
  <2>2. ASSUME Drop(l), link[l].at \in {"lost", "closing"}, ~link[l].replaced PROVE FALSE
    BY <2>1, <2>2, DropPlaced
  <2>3. CASE NoticeLost(l)
    BY <2>1, <2>2, <2>3 DEF NoticeLost, LinkRight
  <2>4. CASE CloseDone(l)
    <3>1. link[l].at = "closing" /\ ~link[l].replaced /\ Leave(l, "bye") /\ "bye" \in Whys
      BY <2>2, <2>4 DEF CloseDone, game, Whys
    <3>2. link[l].told = "expired"
      BY <2>1, <3>1 DEF LinkRight
    <3>3. link'[l].at \in {"none", "leaving"}
      BY <2>1, <3>1, LeaveKind
    <3>4. Parts(l)
      BY <3>1, <3>3 DEF Parts
    <3> QED BY <3>2, <3>4 DEF Cause
  <2> QED BY <1>2, <2>3, <2>4
<1>3. ASSUME NEW l \in Links, NEW res \in BOOLEAN, Entered(l, res) PROVE FALSE
  <2>1. Pair(entering[l], l, resume /\ res)
    BY <1>3 DEF Entered
  <2>2. seats' = TRUE \/ seats' = seats
    BY <2>1 DEF Pair
  <2> QED BY <2>2
<1>4. CASE Alarm
  <2> DEFINE L == LiveOn("host") \cup LiveOn("guest")
  <2>1. Gone(away) # {} /\ CloseAll(L, "lost") /\ "lost" \in Whys
    BY <1>4 DEF Alarm, Whys
  <2> HIDE DEF L
  <2>2. \A l \in Links : link'[l].at = "closing" \/ link'[l] = link[l]
    BY <2>1, ClosesAll DEF Placed
  <2>3. ~\E l \in Links : Parts(l)
    BY <2>2 DEF Parts
  <2> QED BY <2>1, <2>3 DEF Cause
<1>5. ASSUME NEW l \in Links,
             \/ \E k \in {"listed", "code"}, res \in BOOLEAN : OpenRoom(l, k, res)
             \/ Enter(l) \/ (\E res \in BOOLEAN : Guest(l, res)) \/ Message(l)
             \/ (\E side \in Sides : Back(l, side))
      PROVE  FALSE
  <2>1. ASSUME NEW k, NEW res, OpenRoom(l, k, res) PROVE FALSE
    BY <2>1 DEF OpenRoom
  <2>2. CASE Enter(l)
    BY <2>2 DEF Enter
  <2>3. ASSUME NEW res, Guest(l, res) PROVE FALSE
    BY <2>3 DEF Guest
  <2>4. CASE Message(l)
    BY <2>4 DEF Message
  <2>5. ASSUME NEW side, Back(l, side) PROVE FALSE
    BY <2>5 DEF Back
  <2> QED BY <1>5, <2>1, <2>2, <2>3, <2>4, <2>5
<1>6. ASSUME NEW l \in Links, Lose(l) \/ LeaveDone(l) \/ Expired(l) PROVE FALSE
  BY <1>6 DEF Lose, LeaveDone, Expired, game
<1>7. Tick \/ Added \/ ListDrops \/ (\E side \in Sides : BackRefused(side)) \/ UNCHANGED roomVars => FALSE
  BY DEF Tick, Added, ListDrops, BackRefused, game, roomVars
<1> QED BY <1>1, <1>2, <1>3, <1>4, <1>5, <1>6, <1>7 DEF RoomNext, Players, Bound

-----------------------------------------------------------------------------
(* The theorems *)

RoomInv == Placed /\ Timed /\ SeesRight /\ Carried

\* Every reachable state of a room satisfies the inductive invariant, for any number of
\* links, any times and any length of queue.
THEOREM RoomInvariant == RoomSpec => []RoomInv
<1>1. RoomInit => RoomInv
  BY InitPlaced, InitRest DEF RoomInv
<1>2. RoomInv /\ [RoomNext]_roomVars => RoomInv'
  BY StepPlaced, TimedStep, SeesStep, CarriedStep DEF RoomInv
<1> QED BY <1>1, <1>2, PTL DEF RoomSpec

\* No side has two links.
LEMMA OneLinkEach ==
  ASSUME Placed
  PROVE  OneEach
<1>1. ASSUME NEW s \in Sides PROVE Cardinality(LiveOn(s)) <= 1
  <2>1. \A k, l \in LiveOn(s) : k = l
    BY DEF LiveOn, Placed, LinkRight
  <2>2. CASE LiveOn(s) = {}
    <3>1. Cardinality(LiveOn(s)) = 0
      BY <2>2, FS_EmptySet
    <3> QED BY <3>1
  <2>3. CASE LiveOn(s) # {}
    <3>1. PICK l \in LiveOn(s) : TRUE
      BY <2>3
    <3>2. LiveOn(s) = {l}
      BY <2>1, <3>1
    <3>3. Cardinality({l}) = 1
      BY FS_Singleton
    <3> QED BY <3>2, <3>3
  <2> QED BY <2>2, <2>3
<1> QED BY <1>1 DEF OneEach

\* A side never has two links, whoever is away is timed, the seats go with the game, and the
\* room is on its list only while a host waits there alone, or it is about to take it off, or
\* its remove failed or came before the add: whatever leave, drop, back, pair, the alarm and
\* the list do between each other's awaits.
THEOREM SeatsAreRight == RoomSpec => []SeatsRight
<1>1. RoomInv => SeatsRight
  <2> SUFFICES ASSUME RoomInv PROVE SeatsRight
    OBVIOUS
  <2>1. Typed /\ Placed /\ Timed /\ Carried
    BY DEF RoomInv, Placed
  <2>2. RoomTypeOK
    BY <2>1 DEF Typed, Switches, LinkFacts, Timed, Carried, ComesRight, Aways, RoomTypeOK
  <2>3. SeatsGoWithGame
    BY <2>1 DEF Placed, SeatsAreHad, SeatsGoWithGame, Typed, LinkFacts
  <2>4. ListedWaits
    <3> SUFFICES ASSUME OnList PROVE ListedWaits
      BY DEF OnList, ListedWaits
    <3>1. ListedRight /\ ~seats
      BY <2>1 DEF Placed, ListedRight
    <3>2. ~Entering => ~Live("guest")
      BY <3>1 DEF ListedRight, There, Live, LiveOn, Open
    <3> QED BY <3>1, <3>2 DEF ListedRight, Waited, ListedWaits, Entering
  <2> QED BY <2>1, <2>2, <2>3, <2>4, OneLinkEach DEF SeatsRight, Timed
<1> QED BY <1>1, RoomInvariant, PTL

\* What the room passes on and what it keeps reach a player in the order they were sent, none
\* twice, over any number of drops and returns; and what was put by for a player who was away
\* is handed over or still waits as long as the game goes on.
THEOREM KeptComesInOrder == RoomSpec => []KeptInOrder
<1>1. RoomInv => KeptInOrder
  <2> SUFFICES ASSUME RoomInv PROVE KeptInOrder
    OBVIOUS
  <2>1. ASSUME NEW s \in Sides PROVE Rising(heard[s])
    <3>1. /\ heard[s] \in Seq(Nat) /\ queue[s] \in Seq(Nat) /\ sent[Other(s)] \in Nat
          /\ Rising(heard[s] \o queue[s]) /\ UpTo(heard[s] \o queue[s], sent[Other(s)])
      BY TwoSides, RoomAssumption DEF RoomInv, Carried, ComesRight, Coming
    <3> QED BY <3>1, FirstPart
  <2> QED BY <2>1 DEF KeptInOrder, InOrder, Rising, RoomInv, Carried
<1> QED BY <1>1, RoomInvariant, PTL

\* A player on a link has last heard `away` whenever the other side's seat is held for it, and
\* only while it has no link: through drops, late closes and links taken over.
THEOREM PlayersSeeRight == RoomSpec => []SeesRight
<1>1. RoomInv => SeesRight
  BY DEF RoomInv
<1> QED BY <1>1, RoomInvariant, PTL

\* A game that players can come back to ends only with a link by which its player left, with
\* the alarm of a side away for its time, or with the link of a host the room had closed as
\* expired; a replaced link that closes late ends none, whoever else is linked.
THEOREM GamesEndForCause == RoomSpec => GameEndsForCause
<1>1. RoomInv /\ [RoomNext]_roomVars =>
        [seats /\ ~seats' /\ token # {} =>
           \/ Gone(away) # {} /\ ~\E l \in Links : Parts(l)
           \/ \E l \in Links : Parts(l) /\ (link[l].at = "open" \/ link[l].told = "expired")]_roomVars
  BY EndsForCause DEF RoomInv, Cause
<1> QED BY <1>1, RoomInvariant, PTL DEF RoomSpec, GameEndsForCause
=============================================================================
