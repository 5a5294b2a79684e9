---------------------- MODULE ConnectionManagerProofs ----------------------
(***************************************************************************)
(* Proofs about the websocket registries, for any number of users, tabs    *)
(* and senders.                                                            *)
(*                                                                         *)
(* One invariant is not inductive as it is checked: nobody is passed over  *)
(* because whoever is owed a message is still in the list, is the one      *)
(* awaited, or is listed under a user still to come (OwedOK).  The two     *)
(* action properties follow step by step, from what each step does to the  *)
(* registries (RegistrySteps).                                             *)
(***************************************************************************)
EXTENDS ConnectionManager, FiniteSetTheorems, TLAPS

USE ManagerAssumption

RegistryTypes ==
  /\ life \in [Connections -> {"none", "open", "gone"}]
  /\ listed \in SUBSET Connections
  /\ subs \in [Connections -> SUBSET Channels]
  /\ members \in [Channels -> SUBSET Users]
  /\ presence \in [Users -> Statuses \cup {"offline"}]

(* Whoever is shown has a connection. *)
ShownIsListed == \A u \in Users : presence[u] # "offline" => TabsOf(u) # {}

RegistriesOK == RegistryTypes /\ NoGhosts /\ ShownIsListed

SenderOK(s) ==
  /\ s \in Sender
  /\ s.op \notin {"none", "returned"} <=> s.at # None
  /\ s.op = "channel" <=> s.channel # None
  /\ s.at \notin s.todo
  /\ \A c \in s.todo \cup s.failed : c.user = s.at.user

OwedOK(s, list) ==
  /\ s.op = "logout" => s.left = {}
  /\ s.set = "same" =>
       /\ s.op = "returned" => s.owed = {}
       /\ s.op \notin {"none", "returned"} =>
            \A c \in s.owed : c \in s.todo \/ c = s.at \/ (c \in list /\ c.user \in s.left)

SendersOK ==
  /\ send \in [Senders -> Sender]
  /\ \A p \in Senders : SenderOK(send[p]) /\ OwedOK(send[p], listed)

IInv == RegistriesOK /\ SendersOK

-----------------------------------------------------------------------------
LEMMA UserType == \A c \in Connections : c.user \in Users
BY DEF Connections

(* disconnect() keeps the registries consistent, whoever calls it, as long *)
(* as an endpoint that ends is among those disconnected.                   *)
LEMMA DisconnectKeeps ==
  ASSUME RegistriesOK, NEW gone \in SUBSET Connections, Disconnect(gone),
         life' \in [Connections -> {"none", "open", "gone"}],
         \A c \in Connections : Running(c)' => Running(c),
         \A c \in Connections \ gone : Running(c) => Running(c)'
  PROVE  RegistriesOK'
<1> USE DEF RegistriesOK
<1>1. RegistryTypes'
  BY DEF RegistryTypes, Disconnect, Shown, On, TabsOf
<1>2. NoGhosts'
  <2>1. ASSUME NEW c \in Connections, c \in listed' \/ subs'[c] # {} PROVE Running(c)'
    BY <2>1 DEF Disconnect, NoGhosts, RegistryTypes
  <2>2. ASSUME NEW ch \in Channels, NEW u \in members'[ch]
        PROVE  \E c \in Connections : c.user = u /\ ch \in subs'[c]
    <3>1. u \in members[ch] /\ ~\E c \in On(gone, u) : ch \in subs[c]
      BY <2>2 DEF Disconnect
    <3>2. PICK c \in Connections : c.user = u /\ ch \in subs[c]
      BY <3>1 DEF NoGhosts
    <3>3. c \notin gone
      BY <3>1, <3>2 DEF On
    <3> QED BY <3>2, <3>3 DEF Disconnect
  <2> QED BY <2>1, <2>2 DEF NoGhosts
<1>3. ShownIsListed'
  <2> SUFFICES ASSUME NEW u \in Users, presence'[u] # "offline" PROVE TabsOf(u)' # {}
    BY DEF ShownIsListed
  <2>1. TabsOf(u)' = TabsOf(u) \ On(gone, u)
    BY DEF TabsOf, On, Disconnect
  <2>2. CASE On(gone, u) # {} /\ TabsOf(u) # {}
    BY <2>2 DEF Disconnect, Shown, TabsOf
  <2>3. CASE ~(On(gone, u) # {} /\ TabsOf(u) # {})
    BY <2>1, <2>3 DEF Disconnect, ShownIsListed
  <2> QED BY <2>2, <2>3
<1> QED BY <1>1, <1>2, <1>3

(* What a sender in the middle makes of a change of the registries: a new  *)
(* connection is one it does not hold.                                     *)
LEMMA NoticeKeeps ==
  ASSUME NEW s, SenderOK(s), OwedOK(s, listed),
         NEW gone \in SUBSET Connections, RegistryTypes, RegistryTypes',
         listed \ gone \subseteq listed', s.at \notin listed' \ listed
  PROVE  SenderOK(Notice(s, gone)) /\ OwedOK(Notice(s, gone), listed')
<1>1. CASE s.op \in {"none", "returned"}
  BY <1>1 DEF Notice, SenderOK, OwedOK
<1>2. CASE s.op \notin {"none", "returned"}
  <2> DEFINE todo == s.todo \cup {c \in listed' \ listed : s.live /\ c.user = s.at.user}
             live == s.live /\ ~Relisted(s, gone)
             t == [s EXCEPT !.todo = todo, !.live = live, !.set = SetNow(s),
                            !.owed = StillOwed(s, gone)]
  <2>1. Notice(s, gone) = t
    BY <1>2 DEF Notice
  <2>2. SetNow(s) \in {"same", "changed", "replaced"} /\ (SetNow(s) = "same" => s.set = "same")
    BY DEF SetNow, SenderOK, Sender
  <2>3. StillOwed(s, gone) \subseteq s.owed \ gone
    BY DEF StillOwed
  <2>4. todo \subseteq Connections /\ s.todo \subseteq todo /\ s.at \notin todo /\ live \in BOOLEAN
        /\ \A c \in todo : c.user = s.at.user
    BY DEF SenderOK, Sender, RegistryTypes
  <2> HIDE DEF todo, live
  <2>5. /\ t.op = s.op /\ t.channel = s.channel /\ t.left = s.left /\ t.at = s.at
        /\ t.failed = s.failed /\ t.size = s.size /\ t.todo = todo /\ t.live = live
        /\ t.set = SetNow(s) /\ t.owed = StillOwed(s, gone)
    BY DEF SenderOK, Sender
  <2>6. t \in Sender
    BY <2>2, <2>3, <2>4 DEF SenderOK, Sender
  <2> HIDE DEF t
  <2>7. SenderOK(t)
    BY <2>4, <2>5, <2>6 DEF SenderOK
  <2>8. OwedOK(t, listed')
    BY <2>2, <2>3, <2>4, <2>5, <1>2 DEF OwedOK
  <2> QED BY <2>1, <2>7, <2>8
<1> QED BY <1>1, <1>2

(* Going on to the next user passes nobody over who is owed a message.     *)
LEMMA OnwardKeeps ==
  ASSUME NEW s, s \in Sender, s.op \in {"user", "channel", "all"},
         s.op = "channel" <=> s.channel # None,
         NEW list \in SUBSET Connections, NEW t \in Onward(s, list),
         s.set = "same" => \A c \in s.owed : c \in list /\ c.user \in s.left
  PROVE  SenderOK(t) /\ OwedOK(t, list)
<1> DEFINE here == {u \in s.left : On(list, u) # {}}
<1>1. CASE here = {}
  <2>1. t = Returned(s)
    BY <1>1 DEF Onward
  <2>2. t \in Sender /\ t.op = "returned" /\ t.channel = None /\ t.at = None /\ t.todo = {}
        /\ t.failed = {} /\ t.set = s.set /\ t.owed = s.owed
    BY <2>1 DEF Returned, Idle, Sender
  <2>3. s.set = "same" => s.owed = {}
    BY <1>1 DEF On
  <2> QED BY <2>2, <2>3 DEF SenderOK, OwedOK
<1>2. CASE here # {}
  <2>1. PICK c \in {d \in list : d.user \in here}, skipped \in SUBSET (s.left \ here) :
          t = MoveTo(s, list, c, skipped)
    BY <1>2 DEF Onward
  <2>2. c \in Connections /\ On(list, c.user) \in SUBSET Connections /\ c \in list /\ c # None
    BY DEF On
  <2>3. t \in Sender
    BY <2>1, <2>2 DEF MoveTo, Sender
  <2>4. /\ t.op = s.op /\ t.channel = s.channel /\ t.left = s.left \ (skipped \cup {c.user})
        /\ t.at = c /\ t.todo = On(list, c.user) \ {c} /\ t.failed = {} /\ t.set = s.set
        /\ t.owed = s.owed
    BY <2>1 DEF MoveTo, Sender
  <2>5. SenderOK(t)
    BY <2>2, <2>3, <2>4 DEF SenderOK, On
  <2>6. ASSUME s.set = "same", NEW d \in s.owed
        PROVE  d \in t.todo \/ d = t.at \/ (d \in list /\ d.user \in t.left)
    <3>1. d \in list /\ d.user \in s.left
      BY <2>6
    <3>2. d.user \in here
      BY <3>1 DEF On
    <3> QED BY <3>1, <3>2, <2>4 DEF On
  <2> QED BY <2>4, <2>5, <2>6 DEF OwedOK
<1> QED BY <1>1, <1>2

LEMMA NextUserKeeps ==
  ASSUME NEW s, s \in Sender, s.op \in {"user", "channel", "all"},
         s.op = "channel" <=> s.channel # None,
         NEW list \in SUBSET Connections, NEW channels \in [Channels -> SUBSET Users],
         NEW t \in NextUser(s, list, channels),
         s.set = "same" => \A c \in s.owed : c \in list /\ c.user \in s.left
  PROVE  SenderOK(t) /\ OwedOK(t, list)
<1>1. CASE s.op # "channel" \/ s.set = "same"
  BY <1>1, OnwardKeeps DEF NextUser
<1>2. CASE t = Idle
  BY <1>2 DEF Idle, SenderOK, OwedOK, Sender
<1>3. CASE s.op = "channel" /\ s.set # "same" /\ t # Idle
  <2>1. PICK found \in SUBSET channels[s.channel] : t \in Onward([s EXCEPT !.left = found], list)
    BY <1>3 DEF NextUser
  <2> DEFINE r == [s EXCEPT !.left = found]
  <2>2. channels[s.channel] \subseteq Users
    BY <1>3 DEF Sender
  <2>3. r \in Sender /\ r.op = s.op /\ r.channel = s.channel /\ r.set = s.set
    BY <2>2 DEF Sender
  <2> HIDE DEF r
  <2> QED BY <1>3, <2>1, <2>3, OnwardKeeps DEF r
<1> QED BY <1>1, <1>2, <1>3

(* One sender goes on, and the others notice. *)
LEMMA OthersKeep ==
  ASSUME SendersOK, RegistryTypes, RegistryTypes', NEW gone \in SUBSET Connections,
         listed' = listed \ gone,
         NEW p \in Senders, NEW t, SenderOK(t), OwedOK(t, listed'),
         send' = [q \in Senders |-> IF q = p THEN t ELSE Notice(send[q], gone)]
  PROVE  SendersOK'
<1>1. \A q \in Senders : SenderOK(send'[q]) /\ OwedOK(send'[q], listed')
  <2> SUFFICES ASSUME NEW q \in Senders PROVE SenderOK(send'[q]) /\ OwedOK(send'[q], listed')
    OBVIOUS
  <2>1. CASE q = p
    BY <2>1
  <2>2. CASE q # p
    <3>1. send'[q] = Notice(send[q], gone)
      BY <2>2
    <3>2. SenderOK(send[q]) /\ OwedOK(send[q], listed)
      BY DEF SendersOK
    <3> QED BY <3>1, <3>2, NoticeKeeps
  <2> QED BY <2>1, <2>2
<1>2. send' \in [Senders -> Sender]
  BY <1>1 DEF SenderOK
<1> QED BY <1>1, <1>2 DEF SendersOK

LEMMA AllNoticeKeeps ==
  ASSUME SendersOK, RegistryTypes, RegistryTypes', NEW gone \in SUBSET Connections,
         listed \ gone \subseteq listed',
         \A p \in Senders : send[p].at \notin listed' \ listed,
         AllNotice(gone)
  PROVE  SendersOK'
<1> SUFFICES ASSUME NEW p \in Senders PROVE SenderOK(send'[p]) /\ OwedOK(send'[p], listed')
  BY DEF SendersOK, SenderOK, AllNotice
<1>1. SenderOK(send[p]) /\ OwedOK(send[p], listed)
  BY DEF SendersOK
<1>2. send'[p] = Notice(send[p], gone)
  BY DEF AllNotice
<1> QED BY <1>1, <1>2, NoticeKeeps

(* An action that leaves the connections listed and does not tell senders. *)
LEMMA QuietKeeps ==
  ASSUME SendersOK, UNCHANGED <<send, listed>>
  PROVE  SendersOK'
BY DEF SendersOK, SenderOK, OwedOK

-----------------------------------------------------------------------------
(* The actions of an endpoint. *)
LEMMA ConnectKeeps ==
  ASSUME IInv, NEW c \in Connections, Connect(c)
  PROVE  IInv'
<1> USE DEF IInv, RegistriesOK
<1>0. c.user \in Users /\ c.user \in Channels /\ c \notin listed /\ subs[c] = {}
  BY UserType DEF Channels, Connect, NoGhosts
<1>1. RegistryTypes'
  BY <1>0 DEF RegistryTypes, Connect
<1>2. NoGhosts'
  <2>1. ASSUME NEW d \in Connections, d \in listed' \/ subs'[d] # {} PROVE Running(d)'
    BY <2>1 DEF Connect, NoGhosts, RegistryTypes, Running
  <2>2. ASSUME NEW ch \in Channels, NEW u \in members'[ch]
        PROVE  \E d \in Connections : d.user = u /\ ch \in subs'[d]
    <3>1. CASE u \in members[ch]
      <4>1. PICK d \in Connections : d.user = u /\ ch \in subs[d]
        BY <3>1 DEF NoGhosts
      <4> QED BY <4>1, <1>0 DEF Connect, RegistryTypes
    <3>2. CASE u \notin members[ch]
      <4>1. ch = c.user /\ u = c.user
        BY <2>2, <3>2, <1>0 DEF Connect, RegistryTypes
      <4> QED BY <4>1 DEF Connect, RegistryTypes
    <3> QED BY <3>1, <3>2
  <2> QED BY <2>1, <2>2 DEF NoGhosts
<1>3. ShownIsListed'
  <2> SUFFICES ASSUME NEW u \in Users, presence'[u] # "offline" PROVE TabsOf(u)' # {}
    BY DEF ShownIsListed
  <2>1. CASE u = c.user
    BY <2>1 DEF TabsOf, On, Connect
  <2>2. CASE u # c.user
    BY <2>2 DEF TabsOf, On, Connect, ShownIsListed, RegistryTypes
  <2> QED BY <2>1, <2>2
<1>6. \A p \in Senders : send[p].at \notin listed' \ listed
  <2> SUFFICES ASSUME NEW p \in Senders PROVE send[p].at # c
    BY <1>0 DEF Connect
  <2> QED BY DEF Connect, Held, Connections
<1>7. SendersOK'
  BY <1>1, <1>6, AllNoticeKeeps DEF Connect
<1> QED BY <1>1, <1>2, <1>3, <1>7

LEMMA VanishKeeps ==
  ASSUME IInv, NEW c \in Connections, Vanish(c)
  PROVE  IInv'
<1> USE DEF IInv, RegistriesOK
<1>1. /\ UNCHANGED <<listed, subs, members, presence, send>>
      /\ \A d \in Connections : Running(d)' <=> Running(d)
      /\ life' \in [Connections -> {"none", "open", "gone"}]
  BY DEF Vanish, registries, Running, RegistryTypes
<1>2. RegistryTypes' /\ NoGhosts' /\ ShownIsListed'
  BY <1>1 DEF RegistryTypes, NoGhosts, ShownIsListed, TabsOf
<1> QED BY <1>1, <1>2, QuietKeeps

LEMMA LeaveKeeps ==
  ASSUME IInv, NEW c \in Connections, Leave(c)
  PROVE  IInv'
<1>1. RegistriesOK'
  <2>1. /\ life' \in [Connections -> {"none", "open", "gone"}]
        /\ \A d \in Connections : Running(d)' => Running(d)
        /\ \A d \in Connections \ {c} : Running(d) => Running(d)'
    BY DEF IInv, RegistriesOK, RegistryTypes, Leave, Running
  <2>2. Disconnect({c})
    BY DEF Leave
  <2> QED BY <2>1, <2>2, DisconnectKeeps DEF IInv
<1>2. SendersOK'
  <2>1. listed' = listed \ {c} /\ AllNotice({c})
    BY DEF Leave, Disconnect
  <2> QED BY <2>1, <1>1, AllNoticeKeeps DEF IInv, RegistriesOK
<1> QED BY <1>1, <1>2 DEF IInv

LEMMA SubscribeKeeps ==
  ASSUME IInv, NEW c \in Connections, NEW ch \in Channels, Subscribe(c, ch)
  PROVE  IInv'
<1> USE DEF IInv, RegistriesOK
<1>0. ch \in Channels /\ c.user \in Users
  BY UserType DEF Channels
<1>1. RegistryTypes'
  BY <1>0 DEF RegistryTypes, Subscribe
<1>2. NoGhosts'
  <2>1. ASSUME NEW d \in Connections, d \in listed' \/ subs'[d] # {} PROVE Running(d)'
    BY <2>1 DEF Subscribe, NoGhosts, RegistryTypes, Running
  <2>2. ASSUME NEW k \in Channels, NEW u \in members'[k]
        PROVE  \E d \in Connections : d.user = u /\ k \in subs'[d]
    <3>1. CASE u \in members[k]
      <4>1. PICK d \in Connections : d.user = u /\ k \in subs[d]
        BY <3>1 DEF NoGhosts
      <4> QED BY <4>1 DEF Subscribe, RegistryTypes
    <3>2. CASE u \notin members[k]
      BY <2>2, <3>2, <1>0 DEF Subscribe, RegistryTypes
    <3> QED BY <3>1, <3>2
  <2> QED BY <2>1, <2>2 DEF NoGhosts
<1>3. ShownIsListed'
  BY DEF ShownIsListed, TabsOf, Subscribe
<1>4. SendersOK'
  BY <1>1, AllNoticeKeeps DEF Subscribe
<1> QED BY <1>1, <1>2, <1>3, <1>4

LEMMA UnsubscribeKeeps ==
  ASSUME IInv, NEW c \in Connections, NEW ch \in Channels, Unsubscribe(c, ch)
  PROVE  IInv'
<1> USE DEF IInv, RegistriesOK
<1>0. ch \in Channels /\ c.user \in Users
  BY UserType DEF Channels
<1>1. RegistryTypes'
  BY <1>0 DEF RegistryTypes, Unsubscribe
<1>2. NoGhosts'
  <2>1. ASSUME NEW d \in Connections, d \in listed' \/ subs'[d] # {} PROVE Running(d)'
    BY <2>1 DEF Unsubscribe, NoGhosts, RegistryTypes, Running
  <2>2. ASSUME NEW k \in Channels, NEW u \in members'[k]
        PROVE  \E d \in Connections : d.user = u /\ k \in subs'[d]
    <3>1. u \in members[k] /\ (k = ch => u # c.user)
      BY <2>2, <1>0 DEF Unsubscribe, RegistryTypes
    <3>2. PICK d \in Connections : d.user = u /\ k \in subs[d]
      BY <3>1 DEF NoGhosts
    <3> QED BY <3>1, <3>2 DEF Unsubscribe, RegistryTypes
  <2> QED BY <2>1, <2>2 DEF NoGhosts
<1>3. ShownIsListed'
  BY DEF ShownIsListed, TabsOf, Unsubscribe
<1>4. SendersOK'
  BY <1>1, AllNoticeKeeps DEF Unsubscribe
<1> QED BY <1>1, <1>2, <1>3, <1>4

LEMMA ReportKeeps ==
  ASSUME IInv, NEW c \in Connections, NEW status \in Statuses, Report(c, status)
  PROVE  IInv'
<1> USE DEF IInv, RegistriesOK
<1>1. /\ UNCHANGED <<life, listed, subs, members, send>>
      /\ presence' = [presence EXCEPT ![c.user] = Shown(listed, c.user, status)]
  BY DEF Report
<1>2. RegistryTypes' /\ NoGhosts'
  BY <1>1 DEF RegistryTypes, Shown, NoGhosts, Running
<1>3. ShownIsListed'
  BY <1>1 DEF ShownIsListed, Shown, TabsOf, RegistryTypes
<1> QED BY <1>1, <1>2, <1>3, QuietKeeps

-----------------------------------------------------------------------------
(* The actions of a sender. *)
LEMMA BeginKeeps ==
  ASSUME IInv, NEW p \in Senders, NEW s \in Sender, s.op \in {"user", "channel", "all"},
         s.op = "channel" <=> s.channel # None,
         \A c \in s.owed : c \in listed /\ c.user \in s.left,
         Begin(p, s)
  PROVE  IInv'
<1> USE DEF IInv, RegistriesOK
<1>1. PICK t \in Onward(s, listed) : send' = [send EXCEPT ![p] = t]
  BY DEF Begin
<1>2. UNCHANGED <<life, listed, subs, members, presence>>
  BY DEF Begin, registries
<1>3. SenderOK(t) /\ OwedOK(t, listed)
  BY OnwardKeeps DEF RegistryTypes
<1>4. RegistryTypes' /\ NoGhosts' /\ ShownIsListed'
  BY <1>2 DEF RegistryTypes, NoGhosts, ShownIsListed, TabsOf, Running
<1>5. SendersOK'
  BY <1>1, <1>2, <1>3 DEF SendersOK, SenderOK
<1> QED BY <1>4, <1>5

LEMMA SendToUserKeeps ==
  ASSUME IInv, NEW p \in Senders, NEW u \in Users, SendToUser(p, u)
  PROVE  IInv'
<1> DEFINE s == [Idle EXCEPT !.op = "user", !.left = {u}, !.owed = TabsOf(u)]
<1>1. TabsOf(u) \in SUBSET Connections /\ TabsOf(u) \subseteq On(listed, u)
  BY DEF IInv, RegistriesOK, RegistryTypes, TabsOf, On
<1>2. s \in Sender /\ s.op = "user" /\ s.channel = None /\ s.left = {u} /\ s.owed = TabsOf(u)
  BY <1>1 DEF Sender, Idle
<1>3. Begin(p, s)
  BY DEF SendToUser
<1> HIDE DEF s
<1> QED BY <1>1, <1>2, <1>3, BeginKeeps DEF On

LEMMA BroadcastToChannelKeeps ==
  ASSUME IInv, NEW p \in Senders, NEW ch \in Channels, BroadcastToChannel(p, ch)
  PROVE  IInv'
<1> DEFINE owed == {c \in listed : c.user \in members[ch]}
           size == Cardinality(members[ch])
           s == [Idle EXCEPT !.op = "channel", !.channel = ch, !.left = members[ch],
                             !.size = size, !.owed = owed]
<1>1. owed \in SUBSET Connections /\ members[ch] \in SUBSET Users
  BY DEF IInv, RegistriesOK, RegistryTypes
<1>2. size \in Nat
  BY <1>1, FS_Subset, FS_CardinalityType
<1>3. Begin(p, s)
  BY DEF BroadcastToChannel
<1>4. \A c \in owed : c \in listed /\ c.user \in members[ch]
  OBVIOUS
<1> HIDE DEF owed, size
<1>5. s \in Sender /\ s.op = "channel" /\ s.channel = ch /\ s.left = members[ch] /\ s.owed = owed
  BY <1>1, <1>2 DEF Sender, Idle
<1> HIDE DEF s
<1> QED BY <1>3, <1>4, <1>5, BeginKeeps

LEMMA BroadcastToAllKeeps ==
  ASSUME IInv, NEW p \in Senders, BroadcastToAll(p)
  PROVE  IInv'
<1> DEFINE left == {c.user : c \in listed}
           s == [Idle EXCEPT !.op = "all", !.left = left, !.owed = listed]
<1>1. listed \in SUBSET Connections /\ left \in SUBSET Users
  BY UserType DEF IInv, RegistriesOK, RegistryTypes
<1>2. Begin(p, s)
  BY DEF BroadcastToAll
<1>3. \A c \in listed : c.user \in left
  OBVIOUS
<1> HIDE DEF left
<1>4. s \in Sender /\ s.op = "all" /\ s.channel = None /\ s.left = left /\ s.owed = listed
  BY <1>1 DEF Sender, Idle
<1> HIDE DEF s
<1> QED BY <1>2, <1>3, <1>4, BeginKeeps

LEMMA DisconnectUserKeeps ==
  ASSUME IInv, NEW p \in Senders, NEW u \in Users, DisconnectUser(p, u)
  PROVE  IInv'
<1> USE DEF IInv, RegistriesOK
<1>1. PICK c \in TabsOf(u) :
        send' = [send EXCEPT ![p] = [Idle EXCEPT !.op = "logout", !.at = c,
                                       !.todo = TabsOf(u) \ {c}, !.owed = TabsOf(u)]]
  BY DEF DisconnectUser
<1> DEFINE t == [Idle EXCEPT !.op = "logout", !.at = c, !.todo = TabsOf(u) \ {c},
                             !.owed = TabsOf(u)]
<1>2. TabsOf(u) \in SUBSET Connections /\ c \in Connections /\ c # None
      /\ \A d \in TabsOf(u) : d.user = c.user
  BY DEF RegistryTypes, TabsOf, On
<1>3. /\ t \in Sender /\ t.op = "logout" /\ t.channel = None /\ t.at = c
      /\ t.todo = TabsOf(u) \ {c} /\ t.failed = {} /\ t.left = {} /\ t.owed = TabsOf(u)
  BY <1>2 DEF Sender, Idle
<1>4. send' = [send EXCEPT ![p] = t] /\ UNCHANGED <<life, listed, subs, members, presence>>
  BY <1>1 DEF DisconnectUser, registries
<1> HIDE DEF t
<1>5. SenderOK(t) /\ OwedOK(t, listed)
  BY <1>2, <1>3 DEF SenderOK, OwedOK
<1>6. RegistryTypes' /\ NoGhosts' /\ ShownIsListed'
  BY <1>4 DEF RegistryTypes, NoGhosts, ShownIsListed, TabsOf, Running
<1>7. SendersOK'
  BY <1>3, <1>4, <1>5 DEF SendersOK
<1> QED BY <1>6, <1>7

(* A sender that goes on within a list, having served the one awaited. *)
LEMMA NextInListKeeps ==
  ASSUME NEW s, SenderOK(s), s.op \notin {"none", "returned"}, NEW list, OwedOK(s, list),
         NEW F \in SUBSET Connections, F \subseteq s.failed \cup {s.at},
         NEW c \in s.todo, NEW owed, owed \subseteq s.owed \ {s.at},
         NEW t, t = [s EXCEPT !.owed = owed, !.failed = F, !.at = c, !.todo = @ \ {c}]
  PROVE  SenderOK(t) /\ OwedOK(t, list)
<1>1. /\ t \in Sender
      /\ t.op = s.op /\ t.channel = s.channel /\ t.left = s.left /\ t.at = c
      /\ t.todo = s.todo \ {c} /\ t.failed = F /\ t.set = s.set /\ t.owed = owed
  BY DEF SenderOK, Sender
<1>2. c \in Connections /\ c # None /\ c.user = s.at.user
  BY DEF SenderOK, Sender
<1> QED BY <1>1, <1>2 DEF SenderOK, OwedOK

LEMMA SentKeeps ==
  ASSUME IInv, NEW p \in Senders, Sent(p)
  PROVE  IInv'
<1> USE DEF IInv
<1>1. /\ SenderOK(send[p]) /\ OwedOK(send[p], listed)
      /\ send[p].op \in {"user", "channel", "all"}
  BY DEF SendersOK, Sent
<1>2. PICK failing \in BOOLEAN :
        LET s == [send[p] EXCEPT !.owed = @ \ {send[p].at},
                                 !.failed = IF failing THEN @ \cup {send[p].at} ELSE @]
        IN IF s.todo # {}
           THEN /\ \E c \in s.todo : send' = [send EXCEPT ![p] = [s EXCEPT !.at = c, !.todo = @ \ {c}]]
                /\ UNCHANGED registries
           ELSE /\ Disconnect(s.failed)
                /\ \E t \in NextUser(Notice(s, s.failed), listed', members') :
                     send' = [q \in Senders |-> IF q = p THEN t ELSE Notice(send[q], s.failed)]
  BY DEF Sent
<1> DEFINE owed == send[p].owed \ {send[p].at}
           F == IF failing THEN send[p].failed \cup {send[p].at} ELSE send[p].failed
           s == [send[p] EXCEPT !.owed = owed, !.failed = F]
<1>3. send[p] \in Sender /\ send[p].at \in Connections
  BY <1>1 DEF SenderOK, Sender
<1>4. owed \in SUBSET Connections /\ F \in SUBSET Connections /\ F \subseteq send[p].failed \cup {send[p].at}
      /\ owed \subseteq send[p].owed /\ send[p].at \notin owed
  BY <1>3 DEF Sender
<1>5. IF s.todo # {}
      THEN /\ \E c \in s.todo : send' = [send EXCEPT ![p] = [s EXCEPT !.at = c, !.todo = @ \ {c}]]
           /\ UNCHANGED registries
      ELSE /\ Disconnect(s.failed)
           /\ \E t \in NextUser(Notice(s, s.failed), listed', members') :
                send' = [q \in Senders |-> IF q = p THEN t ELSE Notice(send[q], s.failed)]
  BY <1>2
<1> HIDE DEF owed, F
<1>6. /\ s \in Sender /\ s.op = send[p].op /\ s.channel = send[p].channel
      /\ s.left = send[p].left /\ s.at = send[p].at /\ s.todo = send[p].todo /\ s.live = send[p].live
      /\ s.set = send[p].set /\ s.owed = owed /\ s.failed = F
  BY <1>3, <1>4 DEF Sender
<1>7. UNCHANGED life
  BY DEF Sent
<1>8. CASE s.todo # {}
  <2>1. PICK c \in s.todo : send' = [send EXCEPT ![p] = [s EXCEPT !.at = c, !.todo = @ \ {c}]]
    BY <1>5, <1>8
  <2> DEFINE t == [s EXCEPT !.at = c, !.todo = @ \ {c}]
  <2>2. t = [send[p] EXCEPT !.owed = owed, !.failed = F, !.at = c, !.todo = @ \ {c}]
    BY <1>3, <1>4 DEF Sender
  <2> HIDE DEF t
  <2>3. SenderOK(t) /\ OwedOK(t, listed)
    <3>1. c \in send[p].todo /\ owed \subseteq send[p].owed \ {send[p].at}
          /\ send[p].op \notin {"none", "returned"}
      BY <1>1, <1>4, <1>6
    <3> QED BY <1>1, <1>4, <2>2, <3>1, NextInListKeeps
  <2>4. UNCHANGED <<life, listed, subs, members, presence>>
    BY <1>5, <1>7, <1>8 DEF registries
  <2>5. RegistriesOK'
    BY <2>4 DEF RegistriesOK, RegistryTypes, NoGhosts, ShownIsListed, TabsOf,
                Running
  <2>6. SendersOK'
    BY <2>1, <2>3, <2>4 DEF SendersOK, SenderOK, t
  <2> QED BY <2>5, <2>6
<1>9. CASE s.todo = {}
  <2>1. Disconnect(s.failed) /\ listed' = listed \ s.failed /\ s.failed \in SUBSET Connections
    BY <1>4, <1>5, <1>6, <1>9 DEF Disconnect
  <2>2. PICK t \in NextUser(Notice(s, s.failed), listed', members') :
          send' = [q \in Senders |-> IF q = p THEN t ELSE Notice(send[q], s.failed)]
    BY <1>5, <1>9
  <2>3. RegistriesOK'
    BY <2>1, <1>4, <1>7, DisconnectKeeps DEF RegistriesOK, RegistryTypes, Running
  <2> DEFINE r == Notice(s, s.failed)
  <2>4. SenderOK(s)
    BY <1>1, <1>4, <1>6 DEF SenderOK
  <2>5. OwedOK(s, listed)
    BY <1>1, <1>4, <1>6 DEF OwedOK
  <2>6. SenderOK(r) /\ OwedOK(r, listed')
    <3>1. RegistryTypes /\ RegistryTypes'
      BY <2>3 DEF RegistriesOK
    <3>2. listed \ s.failed \subseteq listed' /\ s.at \notin listed' \ listed
      BY <2>1
    <3> HIDE DEF s
    <3> QED BY <2>1, <2>4, <2>5, <3>1, <3>2, NoticeKeeps
  <2>7. r.op = s.op /\ r.todo = {} /\ r.at = s.at /\ s.at \notin r.owed
    BY <1>1, <1>4, <1>6, <1>9, <2>1 DEF Notice, StillOwed, Sender
  <2> HIDE DEF r
  <2>8. SenderOK(t) /\ OwedOK(t, listed')
    <3>1. r \in Sender /\ r.op \in {"user", "channel", "all"} /\ (r.op = "channel" <=> r.channel # None)
      BY <1>1, <1>6, <2>6, <2>7 DEF SenderOK
    <3>2. r.set = "same" => \A c \in r.owed : c \in listed' /\ c.user \in r.left
      BY <2>6, <2>7, <3>1 DEF OwedOK
    <3>3. listed' \in SUBSET Connections /\ members' \in [Channels -> SUBSET Users]
      BY <2>3 DEF RegistriesOK, RegistryTypes
    <3>4. t \in NextUser(r, listed', members')
      BY <2>2 DEF r
    <3> QED BY <3>1, <3>2, <3>3, <3>4, NextUserKeeps
  <2>9. SendersOK'
    BY <2>1, <2>2, <2>3, <2>8, OthersKeep DEF RegistriesOK
  <2> QED BY <2>3, <2>9
<1> QED BY <1>8, <1>9

LEMMA ClosedKeeps ==
  ASSUME IInv, NEW p \in Senders, Closed(p)
  PROVE  IInv'
<1> USE DEF IInv
<1> DEFINE s == send[p]
           gone == {s.at}
           r == Notice(s, gone)
<1>1. SenderOK(s) /\ OwedOK(s, listed) /\ s.op = "logout"
  BY DEF SendersOK, Closed
<1>2. s \in Sender /\ s.at \in Connections /\ s.left = {}
  BY <1>1 DEF SenderOK, OwedOK, Sender
<1>3. Disconnect(gone) /\ listed' = listed \ gone
  BY DEF Closed, Disconnect
<1>4. RegistriesOK'
  <2>1. /\ life' \in [Connections -> {"none", "open", "gone"}]
        /\ \A d \in Connections : Running(d)' <=> Running(d)
    BY DEF RegistriesOK, RegistryTypes, Closed, Running
  <2> QED BY <1>2, <1>3, <2>1, DisconnectKeeps
<1>5. PICK t \in IF s.todo = {} THEN {Returned(r)}
                ELSE {[r EXCEPT !.at = c, !.todo = @ \ {c}] : c \in s.todo} :
        send' = [q \in Senders |-> IF q = p THEN t ELSE Notice(send[q], gone)]
  BY DEF Closed
<1>6. SenderOK(r) /\ OwedOK(r, listed')
  BY <1>1, <1>2, <1>3, <1>4, NoticeKeeps DEF RegistriesOK
<1>7. /\ r.op = "logout" /\ r.at = s.at /\ s.todo \subseteq r.todo /\ s.at \notin r.owed
      /\ s.todo = {} => (r.set = "same" => r.owed = {})
  <2>1. r.op = "logout" /\ r.at = s.at /\ s.todo \subseteq r.todo /\ s.at \notin r.owed
        /\ r.owed \subseteq s.owed /\ (r.set = "same" => s.set = "same")
    BY <1>1, <1>2 DEF Notice, StillOwed, SetNow, Sender
  <2>2. s.set = "same" => \A c \in s.owed : c \in s.todo \/ c = s.at
    BY <1>1, <1>2 DEF OwedOK
  <2> QED BY <2>1, <2>2
<1>8. SenderOK(t) /\ OwedOK(t, listed')
  <2> HIDE DEF r
  <2>1. CASE s.todo = {}
    <3>1. t = Returned(r)
      BY <1>5, <2>1
    <3>2. r \in Sender
      BY <1>6 DEF SenderOK
    <3>3. t \in Sender /\ t.op = "returned" /\ t.channel = None /\ t.at = None /\ t.todo = {}
          /\ t.failed = {} /\ t.set = r.set /\ t.owed = r.owed
      BY <3>1, <3>2 DEF Returned, Idle, Sender
    <3> QED BY <3>3, <1>7, <2>1 DEF SenderOK, OwedOK
  <2>2. CASE s.todo # {}
    <3>1. PICK c \in s.todo : t = [r EXCEPT !.at = c, !.todo = @ \ {c}]
      BY <1>5, <2>2
    <3>2. c \in r.todo /\ r \in Sender
      BY <3>1, <1>6, <1>7 DEF SenderOK
    <3>3. t = [r EXCEPT !.owed = r.owed, !.failed = r.failed, !.at = c, !.todo = @ \ {c}]
      BY <3>1, <3>2 DEF Sender
    <3>4. r.failed \in SUBSET Connections /\ r.owed \subseteq r.owed \ {r.at}
      BY <3>2, <1>7 DEF Sender
    <3> QED BY <3>2, <3>3, <3>4, <1>6, <1>7, NextInListKeeps
  <2> QED BY <2>1, <2>2
<1>9. SendersOK'
  BY <1>2, <1>3, <1>4, <1>5, <1>8, OthersKeep DEF RegistriesOK
<1> QED BY <1>4, <1>9

-----------------------------------------------------------------------------
(* What a step may do to the registries. *)
LEMMA RegistrySteps ==
  ASSUME IInv, [Next]_vars
  PROVE  \/ \E c \in Connections :
              \/ Connect(c)
              \/ \E ch \in Channels : Subscribe(c, ch) \/ Unsubscribe(c, ch)
              \/ \E status \in Statuses : Report(c, status)
         \/ \E gone \in SUBSET Connections : Disconnect(gone)
         \/ UNCHANGED registries
<1>1. ASSUME NEW c \in Connections, Leave(c)
      PROVE  \E gone \in SUBSET Connections : Disconnect(gone)
  BY <1>1 DEF Leave
<1>2. ASSUME NEW p \in Senders, Sent(p) \/ Closed(p)
      PROVE  \/ \E gone \in SUBSET Connections : Disconnect(gone)
             \/ UNCHANGED registries
  <2>1. send[p] \in Sender /\ (send[p].op \notin {"none", "returned"} => send[p].at \in Connections)
    BY DEF IInv, SendersOK, SenderOK, Sender
  <2>2. CASE Sent(p)
    <3>1. PICK failing \in BOOLEAN :
            LET s == [send[p] EXCEPT !.owed = @ \ {send[p].at},
                                     !.failed = IF failing THEN @ \cup {send[p].at} ELSE @]
            IN UNCHANGED registries \/ Disconnect(s.failed)
      BY <2>2 DEF Sent
    <3>2. UNCHANGED registries \/ Disconnect(IF failing THEN send[p].failed \cup {send[p].at}
                                             ELSE send[p].failed)
      BY <2>1, <3>1 DEF Sender
    <3>3. send[p].failed \in SUBSET Connections /\ send[p].at \in Connections
      BY <2>1, <2>2 DEF Sent, Sender
    <3> QED BY <3>2, <3>3
  <2>3. CASE Closed(p)
    BY <2>1, <2>3 DEF Closed
  <2> QED BY <1>2, <2>2, <2>3
<1>3. ASSUME NEW c \in Connections, Vanish(c) PROVE UNCHANGED registries
  BY <1>3 DEF Vanish
<1>4. ASSUME NEW p \in Senders,
             \/ \E u \in Users : SendToUser(p, u) \/ DisconnectUser(p, u)
             \/ \E ch \in Channels : BroadcastToChannel(p, ch)
             \/ BroadcastToAll(p)
      PROVE  UNCHANGED registries
  BY <1>4 DEF SendToUser, DisconnectUser, BroadcastToChannel, BroadcastToAll, Begin
<1>5. CASE UNCHANGED vars
  BY <1>5 DEF vars, registries
<1> QED BY <1>1, <1>2, <1>3, <1>4, <1>5 DEF Next

(* The inductive invariant. *)
LEMMA InitIInv ==
  ASSUME Init
  PROVE  IInv
<1>1. Idle \in Sender
  BY DEF Idle, Sender
<1>2. SendersOK
  BY <1>1 DEF Init, SendersOK, SenderOK, OwedOK, Idle
<1>3. RegistriesOK
  BY DEF Init, RegistriesOK, RegistryTypes, NoGhosts, ShownIsListed, TabsOf, On,
         Running, Channels
<1> QED BY <1>2, <1>3 DEF IInv

LEMMA StutterKeeps ==
  ASSUME IInv, UNCHANGED vars
  PROVE  IInv'
<1>1. UNCHANGED <<life, listed, subs, members, presence, send>>
  BY DEF vars
<1>2. RegistriesOK'
  BY <1>1 DEF IInv, RegistriesOK, RegistryTypes, NoGhosts, ShownIsListed, TabsOf,
              Running
<1> QED BY <1>1, <1>2, QuietKeeps DEF IInv

LEMMA NextIInv ==
  ASSUME IInv, [Next]_vars
  PROVE  IInv'
<1>1. CASE UNCHANGED vars
  BY <1>1, StutterKeeps
<1>2. ASSUME NEW c \in Connections,
             \/ Connect(c) \/ Vanish(c) \/ Leave(c)
             \/ \E ch \in Channels : Subscribe(c, ch) \/ Unsubscribe(c, ch)
             \/ \E status \in Statuses : Report(c, status)
      PROVE  IInv'
  BY <1>2, ConnectKeeps, VanishKeeps, LeaveKeeps, SubscribeKeeps, UnsubscribeKeeps, ReportKeeps
<1>3. ASSUME NEW p \in Senders,
             \/ \E u \in Users : SendToUser(p, u) \/ DisconnectUser(p, u)
             \/ \E ch \in Channels : BroadcastToChannel(p, ch)
             \/ BroadcastToAll(p) \/ Sent(p) \/ Closed(p)
      PROVE  IInv'
  BY <1>3, SendToUserKeeps, DisconnectUserKeeps, BroadcastToChannelKeeps, BroadcastToAllKeeps,
     SentKeeps, ClosedKeeps
<1> QED BY <1>1, <1>2, <1>3 DEF Next

(* The strengthened invariant holds in every reachable state. *)
THEOREM ManagerInvariant == Spec => []IInv
<1>1. Init => IInv
  BY InitIInv
<1>2. IInv /\ [Next]_vars => IInv'
  BY NextIInv
<1> QED BY <1>1, <1>2, PTL DEF Spec

(* Type correctness, and the shape of a sender's position: it awaits one   *)
(* connection of the user whose list it is in.                             *)
THEOREM ManagerTypeOK == Spec => []TypeOK
<1>1. IInv => TypeOK
  BY DEF IInv, RegistriesOK, RegistryTypes, SendersOK, SenderOK, TypeOK, Sending
<1> QED BY <1>1, ManagerInvariant, PTL

(* Nothing is listed or subscribed for an endpoint that has ended, and no  *)
(* user is left in a channel by disconnections in whatever order.          *)
THEOREM NothingOutlivesItsEndpoint == Spec => []NoGhosts
<1>1. IInv => NoGhosts
  BY DEF IInv, RegistriesOK
<1> QED BY <1>1, ManagerInvariant, PTL

(* Nobody is shown without a connection, and nobody who has one is hidden, *)
(* but by a client of the user's own.                                      *)
THEOREM PresenceFollowsConnections == Spec => PresenceIsHonest
<1> DEFINE Honest == \A u \in Users :
                       /\ presence'[u] # "offline" => TabsOf(u)' # {}
                       /\ presence'[u] = "offline" /\ TabsOf(u)' # {} =>
                            \/ presence[u] = "offline" /\ TabsOf(u) # {}
                            \/ \E c \in On(Connections, u) : Report(c, "offline")
<1>1. ASSUME IInv, IInv', [Next]_vars PROVE Honest
  <2> SUFFICES ASSUME NEW u \in Users
               PROVE  /\ presence'[u] # "offline" => TabsOf(u)' # {}
                      /\ presence'[u] = "offline" /\ TabsOf(u)' # {} =>
                           \/ presence[u] = "offline" /\ TabsOf(u) # {}
                           \/ \E c \in On(Connections, u) : Report(c, "offline")
    OBVIOUS
  <2>1. presence'[u] # "offline" => TabsOf(u)' # {}
    BY <1>1 DEF IInv, RegistriesOK, ShownIsListed
  <2> SUFFICES ASSUME presence'[u] = "offline", TabsOf(u)' # {}
               PROVE  \/ presence[u] = "offline" /\ TabsOf(u) # {}
                      \/ \E c \in On(Connections, u) : Report(c, "offline")
    BY <2>1
  <2>2. presence \in [Users -> Statuses \cup {"offline"}]
    BY <1>1 DEF IInv, RegistriesOK, RegistryTypes
  <2>3. ASSUME NEW c \in Connections, Connect(c) PROVE presence[u] = "offline" /\ TabsOf(u) # {}
    <3>1. u # c.user
      BY <2>2, <2>3 DEF Connect
    <3> QED BY <2>2, <2>3, <3>1 DEF Connect, TabsOf, On
  <2>4. ASSUME NEW gone \in SUBSET Connections, Disconnect(gone)
        PROVE  presence[u] = "offline" /\ TabsOf(u) # {}
    BY <2>4 DEF Disconnect, Shown, TabsOf, On
  <2>5. ASSUME NEW c \in Connections, NEW status \in Statuses, Report(c, status)
        PROVE  \/ presence[u] = "offline" /\ TabsOf(u) # {}
               \/ \E d \in On(Connections, u) : Report(d, "offline")
    <3>1. /\ TabsOf(u)' = TabsOf(u)
          /\ u # c.user => presence'[u] = presence[u]
          /\ u = c.user => presence'[u] = status
      BY <2>2, <2>5 DEF Report, TabsOf, Shown
    <3>2. CASE u # c.user
      BY <3>1, <3>2
    <3>3. CASE u = c.user
      BY <2>5, <3>1, <3>3 DEF On
    <3> QED BY <3>2, <3>3
  <2>6. CASE UNCHANGED <<listed, presence>>
    BY <2>6 DEF TabsOf
  <2>7. ASSUME NEW c \in Connections, NEW ch \in Channels, Subscribe(c, ch) \/ Unsubscribe(c, ch)
        PROVE  UNCHANGED <<listed, presence>>
    BY <2>7 DEF Subscribe, Unsubscribe
  <2>8. UNCHANGED registries => UNCHANGED <<listed, presence>>
    BY DEF registries
  <2> QED BY <1>1, <2>3, <2>4, <2>5, <2>6, <2>7, <2>8, RegistrySteps
<1>2. IInv /\ IInv' /\ [Next]_vars => [Honest]_<<presence, listed>>
  BY <1>1
<1> QED BY <1>2, ManagerInvariant, PTL DEF Spec, PresenceIsHonest

(* A send, broadcast or logout that returns has reached whoever was there  *)
(* all the while.                                                          *)
THEOREM SendersReachEveryone == Spec => []NobodyIsPassedOver
<1>1. IInv => NobodyIsPassedOver
  BY DEF IInv, SendersOK, OwedOK, NobodyIsPassedOver
<1> QED BY <1>1, ManagerInvariant, PTL

(* Whatever others do, a tab that is in a channel hears what is broadcast  *)
(* there until another tab of the same user that was in it leaves, or one  *)
(* unsubscribes.                                                           *)
THEOREM OnlyOwnTabsSilence == Spec => SilencedByOwnTab
<1> DEFINE Heard == \A c \in Connections : \A ch \in subs'[c] \ subs[c] : c.user \in members'[ch]
           Silenced == \A ch \in Channels : \A u \in members[ch] \ members'[ch] :
                         \E d \in On(Connections, u) :
                           ch \notin subs'[d] /\ (ch \in subs[d] \/ Unsubscribe(d, ch))
<1>1. ASSUME IInv, [Next]_vars PROVE Heard /\ Silenced
  <2>1. RegistryTypes /\ \A c \in Connections : c.user \in Users /\ c.user \in Channels
    BY <1>1, UserType DEF IInv, RegistriesOK, Channels
  <2>2. ASSUME NEW c \in Connections, Connect(c) PROVE Heard /\ Silenced
    BY <2>1, <2>2 DEF Connect, RegistryTypes
  <2>3. ASSUME NEW gone \in SUBSET Connections, Disconnect(gone) PROVE Heard /\ Silenced
    <3>1. Heard
      BY <2>1, <2>3 DEF Disconnect, RegistryTypes
    <3>2. ASSUME NEW ch \in Channels, NEW u \in members[ch] \ members'[ch]
          PROVE  \E d \in On(Connections, u) : ch \notin subs'[d] /\ ch \in subs[d]
      <4>1. PICK d \in On(gone, u) : ch \in subs[d]
        BY <2>3, <3>2 DEF Disconnect
      <4>2. d \in On(Connections, u) /\ subs'[d] = {}
        BY <2>3, <4>1 DEF Disconnect, On
      <4> QED BY <4>1, <4>2
    <3> QED BY <3>1, <3>2
  <2>4. ASSUME NEW c \in Connections, NEW k \in Channels, Subscribe(c, k)
        PROVE  Heard /\ Silenced
    BY <2>1, <2>4 DEF Subscribe, RegistryTypes
  <2>5. ASSUME NEW c \in Connections, NEW k \in Channels, Unsubscribe(c, k)
        PROVE  Heard /\ Silenced
    <3>1. Heard
      BY <2>1, <2>5 DEF Unsubscribe, RegistryTypes
    <3>2. ASSUME NEW ch \in Channels, NEW u \in members[ch] \ members'[ch]
          PROVE  \E d \in On(Connections, u) : ch \notin subs'[d] /\ Unsubscribe(d, ch)
      <4>1. ch = k /\ u = c.user /\ c \in On(Connections, u)
        BY <2>1, <2>5, <3>2 DEF Unsubscribe, RegistryTypes, On
      <4>2. k \notin subs'[c]
        BY <2>1, <2>5 DEF Unsubscribe, RegistryTypes
      <4> QED BY <2>5, <4>1, <4>2
    <3> QED BY <3>1, <3>2
  <2>6. CASE UNCHANGED <<subs, members>>
    BY <2>6
  <2>7. ASSUME NEW c \in Connections, NEW status, Report(c, status)
        PROVE  UNCHANGED <<subs, members>>
    BY <2>7 DEF Report
  <2>8. UNCHANGED registries => UNCHANGED <<subs, members>>
    BY DEF registries
  <2> HIDE DEF Heard, Silenced
  <2> QED BY <1>1, <2>2, <2>3, <2>4, <2>5, <2>6, <2>7, <2>8, RegistrySteps
<1>2. IInv /\ [Next]_vars => [Heard /\ Silenced]_<<members, subs>>
  BY <1>1
<1> QED BY <1>2, ManagerInvariant, PTL DEF Spec, SilencedByOwnTab
=============================================================================
