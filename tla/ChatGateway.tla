---------------------------- MODULE ChatGateway -----------------------------
(***************************************************************************)
(* Support chat: the socket handlers of ChatGateway and the rooms and      *)
(* messages that ContactService keeps.  The rooms of the sockets are kept  *)
(* in memory: joining, leaving and emitting take no time, so a handler     *)
(* gives way to others only where it waits for MongoDB or the mail server. *)
(* The payload of a join is taken to be what its type says, one string.    *)
(***************************************************************************)
EXTENDS Integers, FiniteSets, SequencesExt

CONSTANTS
  Call,      \* calls of handlers; a call names the message it creates
  Client,    \* sockets
  Admin,     \* those whose token lets them join the admin room
  Email,     \* the addresses that rooms are named by
  AdminRoom,
  Limit,     \* messages in a page
  RoomLimit, \* rooms in a page
  None

ASSUME ChatGatewayAssumption ==
  /\ Admin \subseteq Client
  /\ AdminRoom \notin Email
  /\ None \notin Email \cup {AdminRoom}
  /\ {Limit, RoomLimit} \subseteq Nat \ {0}

Room == Email \cup {AdminRoom}
Idle == [at |-> "idle", client |-> None, email |-> None, role |-> None, empty |-> FALSE]

VARIABLES
  alive,             \* sockets that are connected
  rooms,             \* the rooms each socket is in
  connectedClients,  \* the gateway's map from socket to room
  docs,              \* addresses that have a room document
  listed,            \* the message ids in each room document
  created,           \* messages in the order of their createdAt
  stored,            \* committed messages
  pushing,           \* messages whose un-awaited $push into the room is pending
  call,              \* the local state of each call
  announced,         \* history: rooms announced to the admins (NEW_ROOM)
  heard,             \* history: the sockets each message was sent to in its room
  mailed             \* history: messages mailed to the room's owner

vars == <<alive, rooms, connectedClients, docs, listed, created, stored, pushing, call,
          announced, heard, mailed>>
sockets == <<alive, rooms, connectedClients>>
database == <<docs, listed, created, stored, pushing>>
emitted == <<announced, heard, mailed>>

Init ==
  /\ alive = Client
  /\ rooms = [k \in Client |-> {}]
  /\ connectedClients = [k \in Client |-> None]
  /\ docs \in {d \in SUBSET Email : IsFiniteSet(d)}
  /\ listed = [e \in Email |-> <<>>]
  /\ created = <<>>
  /\ stored = {}
  /\ pushing = {}
  /\ call = [c \in Call |-> Idle]
  /\ announced = {}
  /\ heard = [c \in Call |-> {}]
  /\ mailed = {}

At(c, label) == call[c].at = label
Goto(c, label) == call' = [call EXCEPT ![c].at = label]

\* to(room), fetchSockets: sockets that are connected.
In(room) == {k \in alive : room \in rooms[k]}

-----------------------------------------------------------------------------
(* Joining and leaving.                                                    *)

HandleDisconnect(k) ==
  /\ k \in alive
  /\ alive' = alive \ {k}
  /\ rooms' = [rooms EXCEPT ![k] = {}]
  /\ connectedClients' = [connectedClients EXCEPT ![k] = None]
  /\ UNCHANGED <<database, call, emitted>>

OnJoinAdminRoom(k) ==
  /\ k \in Admin \cap alive
  /\ rooms' = [rooms EXCEPT ![k] = @ \cup {AdminRoom}]
  /\ connectedClients' = [connectedClients EXCEPT ![k] = AdminRoom]
  /\ UNCHANGED <<alive, database, call, emitted>>

\* GET /contact/room: findOne, and if there is none create, which the unique
\* index refuses when another call has been faster.
GetOrCreateRoom(e) ==
  /\ docs' = docs \cup {e}
  /\ UNCHANGED <<sockets, listed, created, stored, pushing, call, emitted>>

OnJoinRoom(c) ==
  /\ At(c, "idle")
  /\ \E k \in alive, e \in Email :
       call' = [call EXCEPT ![c] = [Idle EXCEPT !.at = "join", !.client = k, !.email = e]]
  /\ UNCHANGED <<sockets, database, emitted>>

\* The room a join leaves.
\* Mutant: none.
PreviousNone(k) == {}
Previous(k) == {connectedClients[k]}

\* loadRoom has answered: leave, join and set follow at once, for a socket that
\* may have gone.  The room joined is the payload, not the one loaded.
Joined(c) ==
  /\ At(c, "join")
  /\ LET k == call[c].client
         e == call[c].email
     IN IF e \in docs
        THEN /\ rooms' = [rooms EXCEPT ![k] = (@ \ Previous(k)) \cup {e}]
             /\ connectedClients' = [connectedClients EXCEPT ![k] = e]
             /\ Goto(c, "done")
        ELSE Goto(c, "refused") /\ UNCHANGED <<rooms, connectedClients>>
  /\ UNCHANGED <<alive, database, emitted>>

-----------------------------------------------------------------------------
(* onSendMessage, createMessage.                                           *)

IsClientInAdminRoom(k) == connectedClients[k] = AdminRoom \/ k \in In(AdminRoom)

MaySend(k, e) == IsClientInAdminRoom(k) \/ connectedClients[k] = e

OnSendMessage(c) ==
  /\ At(c, "idle")
  /\ \E k \in alive, e \in Email :
       call' = [call EXCEPT ![c] =
         [Idle EXCEPT !.at = IF MaySend(k, e) THEN "load" ELSE "refused", !.client = k, !.email = e,
                      !.role = IF IsClientInAdminRoom(k) THEN "ADMIN" ELSE "CUSTOMER"]]
  /\ UNCHANGED <<sockets, database, emitted>>

\* The populated messages of a room: an id without a message is dropped.
Messages(e) == ToSet(listed[e]) \cap stored

\* loadRoom.  Its two queries are one step: messages are never removed, so a room
\* found empty was empty at the first and one found filled is so at the second.
LoadRoom(c) ==
  /\ At(c, "load")
  /\ LET e == call[c].email
     IN IF e \in docs
        THEN call' = [call EXCEPT ![c].at = "create", ![c].empty = Messages(e) = {}]
        ELSE Goto(c, "refused")
  /\ UNCHANGED <<sockets, database, emitted>>

\* Mutant: the number of messages is compared with < 0.
AnnouncesNever(c) == FALSE
Announces(c) == call[c].empty

\* NEW_ROOM; create in the session, and the $push that nobody awaits and that
\* has no session.  Or create fails.
CreateMessage(c) ==
  /\ At(c, "create")
  /\ announced' = IF Announces(c) THEN announced \cup {call[c].email} ELSE announced
  /\ \/ /\ created' = Append(created, c)
        /\ pushing' = pushing \cup {c}
        /\ Goto(c, "commit")
     \/ Goto(c, "refused") /\ UNCHANGED <<created, pushing>>
  /\ UNCHANGED <<sockets, docs, listed, stored, heard, mailed>>

\* Mutant: the room the socket is in now.
RoomOfSocket(c) == connectedClients[call[c].client]
RoomOf(c) == call[c].email

\* The push arrives, or fails and is logged; it may be before the commit.
Push(c) ==
  /\ c \in pushing
  /\ pushing' = pushing \ {c}
  /\ \/ listed' = [listed EXCEPT ![RoomOf(c)] = Append(@, c)]
     \/ UNCHANGED listed
  /\ UNCHANGED <<sockets, docs, created, stored, call, emitted>>

\* Mutant: the socket itself counts.
OpponentAny(k, e) == In(e) # {}
HasOpponent(k, e) == In(e) \ {k} # {}

\* The commit, and then at once broadcastMessage and hasOpponent (what goes to
\* the admin room as well is left out).  Or an error, perhaps after MongoDB
\* applied the commit.
CommitMessage(c) ==
  /\ At(c, "commit")
  /\ LET k == call[c].client
         e == call[c].email
     IN \/ /\ stored' = stored \cup {c}
           /\ heard' = [heard EXCEPT ![c] = In(e)]
           /\ Goto(c, IF call[c].role = "ADMIN" /\ ~HasOpponent(k, e) THEN "mail" ELSE "sent")
        \/ /\ stored' \in {stored, stored \cup {c}}
           /\ Goto(c, "refused")
           /\ UNCHANGED heard
  /\ UNCHANGED <<sockets, docs, listed, created, pushing, announced, mailed>>

\* SMTP answers or fails; the mail may arrive in both cases.
MailMessage(c) ==
  /\ At(c, "mail")
  /\ \/ mailed' = mailed \cup {c} /\ (Goto(c, "sent") \/ Goto(c, "refused"))
     \/ UNCHANGED mailed /\ Goto(c, "refused")
  /\ UNCHANGED <<sockets, database, announced, heard>>

Begin(c) == OnJoinRoom(c) \/ OnSendMessage(c)
Step(c) ==
  \/ Joined(c) \/ LoadRoom(c) \/ CreateMessage(c) \/ CommitMessage(c) \/ MailMessage(c)

Next ==
  \/ \E c \in Call : Begin(c) \/ Step(c) \/ Push(c)
  \/ \E k \in Client : HandleDisconnect(k) \/ OnJoinAdminRoom(k)
  \/ \E e \in Email : GetOrCreateRoom(e)

Spec == Init /\ [][Next]_vars

-----------------------------------------------------------------------------
(* Reads.                                                                  *)

\* Mutant: pages are counted from the oldest message.
SkipFromOldest(length, page) == (page - 1) * Limit
Skip(length, page) == IF length >= page * Limit THEN length - page * Limit ELSE 0

\* sort({ createdAt: 1 }) of the messages S.
Place(m) == CHOOSE i \in DOMAIN created : created[i] = m
ByCreatedAt(S) ==
  CHOOSE s \in SetToSeqs(S) : \A i, j \in DOMAIN s : i < j => Place(s[i]) < Place(s[j])

\* getRoomMessages: the ids of the room choose the messages, their createdAt the
\* order, the number of ids what is skipped.
GetRoomMessages(e, page) ==
  LET shown == ByCreatedAt(Messages(e))
      from == Skip(Len(listed[e]), page)
  IN SubSeq(shown, from + 1, Min({from + Limit, Len(shown)}))

\* The pages a client reaches by following nextCursor.
Pages(e) == 1 .. Max({1, Cardinality(Messages(e)) \div Limit})

\* getChatRooms: the rooms that list a message, in the order of the database,
\* but as many pages as all rooms have.
GetChatRooms(page) ==
  LET found == SetToSeq({e \in docs : listed[e] # <<>>})
      from == (page - 1) * RoomLimit
  IN SubSeq(found, from + 1, Min({from + RoomLimit, Len(found)}))

RoomPages == 1 .. Max({1, (Cardinality(docs) + RoomLimit - 1) \div RoomLimit})

-----------------------------------------------------------------------------
(* Safety.                                                                 *)

\* Every variable stays in its domain.
TypeOK ==
  /\ alive \subseteq Client
  /\ rooms \in [Client -> SUBSET Room]
  /\ connectedClients \in [Client -> Room \cup {None}]
  /\ docs \subseteq Email /\ announced \subseteq Email
  /\ stored \subseteq ToSet(created) /\ pushing \subseteq ToSet(created)
  /\ mailed \subseteq stored
  /\ \A e \in Email : ToSet(listed[e]) \subseteq {c \in ToSet(created) : call[c].email = e}
  /\ \A c \in Call : heard[c] \subseteq Client

\* The map and the rooms agree for every connected socket, and a socket that
\* is no administrator's is in one room at most: whichever of its joins is
\* answered last, it no longer hears the room before (onJoinRoom).
RoomsAgree ==
  \A k \in alive :
    /\ IF connectedClients[k] = None THEN rooms[k] = {} ELSE connectedClients[k] \in rooms[k]
    /\ k \notin Admin => Cardinality(rooms[k]) <= 1

\* No message is broadcast from a room that was not announced before, although
\* pushes arrive late, fail, or survive a message that was never committed
\* (onSendMessage, createMessage).
RoomAnnouncedFirst == \A c \in stored : call[c].email \in announced

\* A finished reply of an administrator was sent to another socket of the room
\* or mailed to its owner (onSendMessage, hasOpponent).
RepliesReachSomebody ==
  \A c \in Call :
    At(c, "sent") /\ call[c].role = "ADMIN" =>
      c \in mailed \/ \E k \in heard[c] : k # call[c].client

\* The pages of the rooms show every room that lists a message.  Unless a room
\* lists an id of a message that was never committed, its pages show every
\* listed message but fewer than Limit, and those are the oldest
\* (getChatRooms, getRoomMessages).
PagesAreComplete ==
  \A e \in Email :
    /\ listed[e] # <<>> => \E page \in RoomPages : e \in ToSet(GetChatRooms(page))
    /\ ToSet(listed[e]) \subseteq stored =>
         LET shown == UNION {ToSet(GetRoomMessages(e, page)) : page \in Pages(e)}
             missed == ToSet(listed[e]) \ shown
         IN /\ Cardinality(missed) < Limit
            /\ \A m \in missed, n \in shown :
                 \E i, j \in DOMAIN created : i < j /\ created[i] = m /\ created[j] = n

=============================================================================
