------------------------- MODULE ConnectionManager -------------------------
(***************************************************************************)
(* The websocket registries of one process: the connections of each user,  *)
(* the channels, and the presence shown to others.                         *)
(*                                                                         *)
(* They are shared by coroutines that yield only where a socket is         *)
(* awaited: in accept(), in send_text() and in close().  Everything        *)
(* between two such points is one action.  A sender that yields is in the  *)
(* middle of a list of connections and perhaps of a set of users, which    *)
(* the others go on changing.                                              *)
(***************************************************************************)
EXTENDS Naturals, FiniteSets

CONSTANTS
  Users,
  Tabs,     \* of each user: one connection per tab or device
  Topics,   \* the channels that are not personal
  Senders,  \* requests that send, broadcast or log a user out
  Statuses, \* what clients report about themselves, whichever string it is
  None      \* no connection, no channel

Connections == UNION {[user : {u}, tab : Tabs[u]] : u \in Users}

(* A user's personal channel "user_<id>" is named by the user. *)
Channels == Topics \cup Users

ASSUME ManagerAssumption ==
  /\ IsFiniteSet(Users)
  /\ "online" \in Statuses
  /\ None \notin Connections \cup Channels

VARIABLES
  life,     \* of the endpoint: not running, client there, or client gone
  listed,   \* user_connections
  subs,     \* subscribed_channels of each connection
  members,  \* channels: the user ids in each
  presence, \* presence: the status; "offline" also when there is no entry
  send      \* what each sender is doing

vars == <<life, listed, subs, members, presence, send>>
registries == <<listed, subs, members, presence>>

On(list, u) == {c \in list : c.user = u}
TabsOf(u) == On(listed, u)
Running(c) == life[c] # "none"

(* at: the connection whose socket is awaited.  todo: the rest of the list *)
(* it is in, and live: whether that list is still the one registered.      *)
(* left: the users still to come.  size, set: how the set of a channel has *)
(* changed under the iteration.  owed (history): who must still be served. *)
Idle == [op |-> "none", channel |-> None, left |-> {}, at |-> None, todo |-> {},
         live |-> FALSE, failed |-> {}, size |-> 0, set |-> "same", owed |-> {}]
Returned(s) == [Idle EXCEPT !.op = "returned", !.set = s.set, !.owed = s.owed]

Sending(p) == send[p].op \notin {"none", "returned"}
Held(p) == ({send[p].at} \cup send[p].todo \cup send[p].failed) \ {None}

Init ==
  /\ life = [c \in Connections |-> "none"]
  /\ listed = {}
  /\ subs = [c \in Connections |-> {}]
  /\ members = [ch \in Channels |-> {}]
  /\ presence = [u \in Users |-> "offline"]
  /\ send = [p \in Senders |-> Idle]

(***************************************************************************)
(* What a change of the registries means for a sender in the middle.       *)
(***************************************************************************)
(* disconnect() replaces the user's list by a new one. *)
Relisted(s, gone) == TabsOf(s.at.user) # {} /\ On(gone, s.at.user) # {}

(* A channel that becomes empty is deleted, and the next subscription      *)
(* makes a new set.                                                        *)
SetNow(s) ==
  IF s.op # "channel" \/ members'[s.channel] = members[s.channel] THEN s.set
  ELSE IF members'[s.channel] = {} THEN "replaced"
  ELSE IF s.set = "same" THEN "changed" ELSE s.set

StillOwed(s, gone) ==
  {c \in s.owed \ gone : s.op = "channel" => c.user \in members'[s.channel]}

(* A slip: disconnect() removes the connection from the list in place. *)
Notice_InPlace(s, gone) ==
  IF s.op \in {"none", "returned"} THEN s
  ELSE [s EXCEPT !.todo = IF Relisted(s, gone) /\ @ # {} THEN @ \ {CHOOSE c \in @ : TRUE} ELSE @,
                 !.set = SetNow(s), !.owed = StillOwed(s, gone)]

Notice(s, gone) ==
  IF s.op \in {"none", "returned"} THEN s
  ELSE [s EXCEPT !.todo = @ \cup {c \in listed' \ listed : s.live /\ c.user = s.at.user},
                 !.live = @ /\ ~Relisted(s, gone),
                 !.set = SetNow(s), !.owed = StillOwed(s, gone)]

AllNotice(gone) == send' = [p \in Senders |-> Notice(send[p], gone)]

(* _update_presence() *)
Shown(list, u, status) == IF On(list, u) = {} THEN "offline" ELSE status

(* A slip: the user is taken out of every channel. *)
Disconnect_EveryChannel(gone) ==
  /\ listed' = listed \ gone
  /\ subs' = [c \in Connections |-> IF c \in gone THEN {} ELSE subs[c]]
  /\ members' = [ch \in Channels |-> {u \in members[ch] : On(gone, u) = {}}]
  /\ presence' = [u \in Users |->
       IF On(gone, u) # {} /\ TabsOf(u) # {} THEN Shown(listed', u, presence[u])
       ELSE presence[u]]

(* A slip: a connection that is not listed any more is not unsubscribed. *)
Disconnect_OnlyListed(gone) ==
  /\ listed' = listed \ gone
  /\ subs' = [c \in Connections |-> IF c \in gone THEN {} ELSE subs[c]]
  /\ members' = [ch \in Channels |->
       {u \in members[ch] : ~\E c \in On(gone \cap listed, u) : ch \in subs[c]}]
  /\ presence' = [u \in Users |->
       IF On(gone, u) # {} /\ TabsOf(u) # {} THEN Shown(listed', u, presence[u])
       ELSE presence[u]]

(* disconnect() of the connections in gone, which awaits no socket. *)
Disconnect(gone) ==
  /\ listed' = listed \ gone
  /\ subs' = [c \in Connections |-> IF c \in gone THEN {} ELSE subs[c]]
  /\ members' = [ch \in Channels |->
       {u \in members[ch] : ~\E c \in On(gone, u) : ch \in subs[c]}]
  /\ presence' = [u \in Users |->
       IF On(gone, u) # {} /\ TabsOf(u) # {} THEN Shown(listed', u, presence[u])
       ELSE presence[u]]

(***************************************************************************)
(* The endpoint of one connection.                                         *)
(***************************************************************************)
(* connect(), once the socket is accepted.  A connection that has ended    *)
(* stands for a later one when no sender holds it any more.                *)
Connect(c) ==
  /\ ~Running(c)
  /\ \A p \in Senders : c \notin Held(p)
  /\ life' = [life EXCEPT ![c] = "open"]
  /\ listed' = listed \cup {c}
  /\ subs' = [subs EXCEPT ![c] = {c.user}]
  /\ members' = [members EXCEPT ![c.user] = @ \cup {c.user}]
  /\ presence' = [presence EXCEPT ![c.user] = "online"]
  /\ AllNotice({})

Vanish(c) ==
  /\ life[c] = "open"
  /\ life' = [life EXCEPT ![c] = "gone"]
  /\ UNCHANGED <<registries, send>>

(* receive_text() or the reply raises. *)
Leave(c) ==
  /\ Running(c)
  /\ life' = [life EXCEPT ![c] = "none"]
  /\ Disconnect({c})
  /\ AllNotice({c})

(* handle_message(), of a message that may have been waiting when the      *)
(* connection was closed or dropped by a sender.  It may name any channel, *)
(* the personal one of anybody included.                                   *)
Subscribe(c, ch) ==
  /\ Running(c)
  /\ members' = [members EXCEPT ![ch] = @ \cup {c.user}]
  /\ subs' = [subs EXCEPT ![c] = @ \cup {ch}]
  /\ UNCHANGED <<life, listed, presence>>
  /\ AllNotice({})

Unsubscribe(c, ch) ==
  /\ Running(c)
  /\ members' = [members EXCEPT ![ch] = @ \ {c.user}]
  /\ subs' = [subs EXCEPT ![c] = @ \ {ch}]
  /\ UNCHANGED <<life, listed, presence>>
  /\ AllNotice({})

(* A slip: a client that reports is taken to be connected. *)
Report_Uncounted(c, status) ==
  /\ Running(c)
  /\ presence' = [presence EXCEPT ![c.user] = status]
  /\ UNCHANGED <<life, listed, subs, members, send>>

(* "presence", with any status, and "ping", which reports "online". *)
Report(c, status) ==
  /\ Running(c)
  /\ presence' = [presence EXCEPT ![c.user] = Shown(listed, c.user, status)]
  /\ UNCHANGED <<life, listed, subs, members, send>>

(***************************************************************************)
(* Senders.                                                                *)
(***************************************************************************)
(* A slip: the first connection of a list is met again. *)
MoveTo_Again(s, list, c, skipped) ==
  [s EXCEPT !.left = @ \ (skipped \cup {c.user}), !.at = c, !.todo = On(list, c.user),
            !.live = TRUE, !.failed = {}]

MoveTo(s, list, c, skipped) ==
  [s EXCEPT !.left = @ \ (skipped \cup {c.user}), !.at = c, !.todo = On(list, c.user) \ {c},
            !.live = TRUE, !.failed = {}]

(* The next user who has connections, in whatever order; the others that   *)
(* come before are passed over.                                            *)
Onward(s, list) ==
  LET here == {u \in s.left : On(list, u) # {}}
  IN IF here = {} THEN {Returned(s)}
     ELSE {MoveTo(s, list, c, skipped) :
             c \in {d \in list : d.user \in here}, skipped \in SUBSET (s.left \ here)}

(* The iterator over a set raises RuntimeError when the set has another    *)
(* size than at the start.  After changes that left the size as it was it  *)
(* goes on, and finds what the hash table leaves it.                       *)
NextUser(s, list, channels) ==
  IF s.op # "channel" \/ s.set = "same" THEN Onward(s, list)
  ELSE IF s.set = "replaced" \/ Cardinality(channels[s.channel]) # s.size THEN {Idle}
  ELSE UNION {Onward([s EXCEPT !.left = found], list) : found \in SUBSET channels[s.channel]}

Begin(p, s) ==
  /\ ~Sending(p)
  /\ \E t \in Onward(s, listed) : send' = [send EXCEPT ![p] = t]
  /\ UNCHANGED <<life, registries>>

SendToUser(p, u) ==
  /\ TabsOf(u) # {}
  /\ Begin(p, [Idle EXCEPT !.op = "user", !.left = {u}, !.owed = TabsOf(u)])

BroadcastToChannel(p, ch) ==
  /\ members[ch] # {}
  /\ Begin(p, [Idle EXCEPT !.op = "channel", !.channel = ch, !.left = members[ch],
                           !.size = Cardinality(members[ch]),
                           !.owed = {c \in listed : c.user \in members[ch]}])

BroadcastToAll(p) ==
  Begin(p, [Idle EXCEPT !.op = "all", !.left = {c.user : c \in listed}, !.owed = listed])

(* send_text() returns or, the client being gone, raises; at the end of    *)
(* the list the connections that failed are disconnected.                  *)
Sent(p) ==
  /\ send[p].op \in {"user", "channel", "all"}
  /\ \E failing \in BOOLEAN :
       LET s == [send[p] EXCEPT !.owed = @ \ {send[p].at},
                                !.failed = IF failing THEN @ \cup {send[p].at} ELSE @]
       IN /\ failing => life[s.at] # "open"
          /\ IF s.todo # {}
             THEN /\ \E c \in s.todo : send' = [send EXCEPT ![p] = [s EXCEPT !.at = c, !.todo = @ \ {c}]]
                  /\ UNCHANGED registries
             ELSE /\ Disconnect(s.failed)
                  /\ \E t \in NextUser(Notice(s, s.failed), listed', members') :
                       send' = [q \in Senders |-> IF q = p THEN t ELSE Notice(send[q], s.failed)]
  /\ UNCHANGED life

(* disconnect_user(), over a copy of the list *)
DisconnectUser(p, u) ==
  /\ ~Sending(p)
  /\ \E c \in TabsOf(u) :
       send' = [send EXCEPT ![p] = [Idle EXCEPT !.op = "logout", !.at = c,
                                      !.todo = TabsOf(u) \ {c}, !.owed = TabsOf(u)]]
  /\ UNCHANGED <<life, registries>>

(* close() returns or raises; either way the connection is disconnected. *)
Closed(p) ==
  LET s == send[p]
  IN /\ s.op = "logout"
     /\ life' = [life EXCEPT ![s.at] = IF @ = "open" THEN "gone" ELSE @]
     /\ Disconnect({s.at})
     /\ \E t \in IF s.todo = {} THEN {Returned(Notice(s, {s.at}))}
                 ELSE {[Notice(s, {s.at}) EXCEPT !.at = c, !.todo = @ \ {c}] : c \in s.todo} :
          send' = [q \in Senders |-> IF q = p THEN t ELSE Notice(send[q], {s.at})]

Next ==
  \/ \E c \in Connections :
       \/ Connect(c) \/ Vanish(c) \/ Leave(c)
       \/ \E ch \in Channels : Subscribe(c, ch) \/ Unsubscribe(c, ch)
       \/ \E status \in Statuses : Report(c, status)
  \/ \E p \in Senders :
       \/ \E u \in Users : SendToUser(p, u) \/ DisconnectUser(p, u)
       \/ \E ch \in Channels : BroadcastToChannel(p, ch)
       \/ BroadcastToAll(p) \/ Sent(p) \/ Closed(p)

Spec == Init /\ [][Next]_vars

-----------------------------------------------------------------------------
Sender ==
  [op : {"none", "user", "channel", "all", "logout", "returned"},
   channel : Channels \cup {None}, left : SUBSET Users, at : Connections \cup {None},
   todo : SUBSET Connections, live : BOOLEAN, failed : SUBSET Connections, size : Nat,
   set : {"same", "changed", "replaced"}, owed : SUBSET Connections]

TypeOK ==
  /\ life \in [Connections -> {"none", "open", "gone"}]
  /\ listed \in SUBSET Connections
  /\ subs \in [Connections -> SUBSET Channels]
  /\ members \in [Channels -> SUBSET Users]
  /\ presence \in [Users -> Statuses \cup {"offline"}]
  /\ send \in [Senders -> Sender]
  /\ \A p \in Senders :
       /\ Sending(p) <=> send[p].at # None
       /\ send[p].op = "channel" <=> send[p].channel # None
       /\ send[p].at \notin send[p].todo
       /\ \A c \in send[p].todo \cup send[p].failed : c.user = send[p].at.user

(* Nothing outlives its endpoint: what is listed or subscribed belongs to  *)
(* one that runs, and whoever is in a channel has such a subscription;     *)
(* also when a sender has dropped the connection and messages of its       *)
(* client are handled afterwards.                                          *)
NoGhosts ==
  /\ \A c \in Connections : c \in listed \/ subs[c] # {} => Running(c)
  /\ \A ch \in Channels : \A u \in members[ch] :
       \E c \in Connections : c.user = u /\ ch \in subs[c]

(* A user is shown only while a connection of hers is registered, whoever  *)
(* disconnects them and whatever they report late; and while one is, she   *)
(* is hidden only if a client of hers has reported "offline".              *)
PresenceIsHonest ==
  [][\A u \in Users :
       /\ presence'[u] # "offline" => TabsOf(u)' # {}
       /\ presence'[u] = "offline" /\ TabsOf(u)' # {} =>
            \/ presence[u] = "offline" /\ TabsOf(u) # {}
            \/ \E c \in On(Connections, u) : Report(c, "offline")]_<<presence, listed>>

(* A send or broadcast that returns has tried every connection that was    *)
(* registered, and in the channel, all the while, however the lists were   *)
(* changed in the meantime; a logout has disconnected all it found.  Not   *)
(* so a broadcast over a set that changed and kept its size.               *)
NobodyIsPassedOver ==
  \A p \in Senders : send[p].op = "returned" /\ send[p].set = "same" => send[p].owed = {}

(* Channels hold users, not connections.  Who subscribes is in the         *)
(* channel, and a user drops out of it, together with the tabs of hers     *)
(* that stay subscribed, only when another tab or device of hers that was  *)
(* in it leaves, or when one unsubscribes; never by what others do.        *)
SilencedByOwnTab ==
  [][/\ \A c \in Connections : \A ch \in subs'[c] \ subs[c] : c.user \in members'[ch]
     /\ \A ch \in Channels : \A u \in members[ch] \ members'[ch] :
          \E d \in On(Connections, u) :
            ch \notin subs'[d] /\ (ch \in subs[d] \/ Unsubscribe(d, ch))]_<<members, subs>>
=============================================================================
