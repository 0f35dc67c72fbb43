------------------------------ MODULE EventFeed ------------------------------
(***************************************************************************)
(* What the daemon promises the clients that called System.Subscribe: an   *)
(* in-step publish/subscribe feed.  Notifications are published one after  *)
(* the other.  A member hears every notification published from the moment *)
(* it joined to the moment it hung up: all of them, once each, in order.   *)
(* The next notification is published only when every member still on the  *)
(* line has heard the last one.                                            *)
(*                                                                         *)
(* Broadcast.tla, the model of server.c, is checked to implement this      *)
(* module for clients that subscribe once per connection.                  *)
(***************************************************************************)
EXTENDS Integers, Sequences

CONSTANTS Sessions,   \* the connections that may become members
          Notice      \* the notifications that may be published

VARIABLES published,  \* every notification published so far
          joinedAt,   \* how many had been published when the session joined
          heard,      \* what has been delivered to each session
          gone        \* the sessions whose client has hung up

feedVars == <<published, joinedAt, heard, gone>>

NotMember == -1

Member(c) == joinedAt[c] # NotMember

Behind(c) == joinedAt[c] + Len(heard[c]) < Len(published)

FeedInit ==
  /\ published = <<>>
  /\ joinedAt = [c \in Sessions |-> NotMember]
  /\ heard = [c \in Sessions |-> <<>>]
  /\ gone = {}

Publish ==
  /\ \A c \in Sessions \ gone : Member(c) => ~Behind(c)
  /\ Len(published') = Len(published) + 1
  /\ SubSeq(published', 1, Len(published)) = published
  /\ published'[Len(published')] \in Notice
  /\ UNCHANGED <<joinedAt, heard, gone>>

Join(c) ==
  /\ ~Member(c)
  /\ joinedAt' = [joinedAt EXCEPT ![c] = Len(published)]
  /\ UNCHANGED <<published, heard, gone>>

Deliver(c) ==
  /\ Member(c)
  /\ c \notin gone
  /\ Behind(c)
  /\ heard' = [heard EXCEPT ![c] =
                 Append(@, published[joinedAt[c] + Len(heard[c]) + 1])]
  /\ UNCHANGED <<published, joinedAt, gone>>

HangUp(c) ==
  /\ c \notin gone
  /\ gone' = gone \cup {c}
  /\ UNCHANGED <<published, joinedAt, heard>>

FeedNext ==
  \/ Publish
  \/ \E c \in Sessions : Join(c) \/ Deliver(c) \/ HangUp(c)

FeedSpec == FeedInit /\ [][FeedNext]_feedVars

=============================================================================
