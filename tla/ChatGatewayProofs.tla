-------------------------- MODULE ChatGatewayProofs -------------------------
(* Type correctness and safety of ChatGateway, for any calls, sockets and rooms. *)
EXTENDS ChatGateway, DataInduction

Label == {"idle", "join", "load", "create", "commit", "mail", "sent", "done", "refused"}
CallState ==
  [at : Label, client : Client \cup {None}, email : Email \cup {None},
   role : {"ADMIN", "CUSTOMER", None}, empty : BOOLEAN]

\* A call that has begun has a socket and a room.
CallInv ==
  /\ call \in [Call -> CallState]
  /\ \A c \in Call : call[c].at = "idle" \/ (call[c].client \in Client /\ call[c].email \in Email)

TypeInv ==
  /\ alive \in SUBSET Client
  /\ rooms \in [Client -> SUBSET Room]
  /\ connectedClients \in [Client -> Room \cup {None}]
  /\ docs \in SUBSET Email
  /\ listed \in [Email -> Seq(Call)]
  /\ created \in Seq(Call)
  /\ stored \in SUBSET Call
  /\ pushing \in SUBSET Call
  /\ announced \in SUBSET Email
  /\ heard \in [Call -> SUBSET Client]
  /\ mailed \in SUBSET Call
  /\ CallInv

\* The types hold at the start.
LEMMA TypeInit == Init => TypeInv
  BY DEF Init, TypeInv, CallInv, CallState, Label, Idle, Room

-----------------------------------------------------------------------------
(* The steps of a call.                                                    *)

\* A call that is given a new state changes as little as that.
LEMMA SetCall ==
  ASSUME CallInv, NEW c \in Call, NEW r \in CallState,
         r.client \in Client, r.email \in Email, call' = [call EXCEPT ![c] = r]
  PROVE  /\ CallInv'
         /\ call'[c] = r
         /\ \A d \in Call \ {c} : call'[d] = call[d]
<1>1. call' \in [Call -> CallState] /\ call'[c] = r /\ \A d \in Call \ {c} : call'[d] = call[d]
  BY DEF CallInv
<1>. QED
  BY <1>1 DEF CallInv

\* Goto changes where the call is and nothing else.
Kept(c) ==
  /\ call'[c].client = call[c].client
  /\ call'[c].email = call[c].email
  /\ call'[c].role = call[c].role
  /\ call'[c].empty = call[c].empty
  /\ \A d \in Call \ {c} : call'[d] = call[d]

\* A call that goes on keeps what it is about.
LEMMA GotoType ==
  ASSUME CallInv, NEW c \in Call, NEW l \in Label, call[c].at # "idle", Goto(c, l)
  PROVE  CallInv' /\ Kept(c) /\ call'[c].at = l
<1> DEFINE r == [call[c] EXCEPT !.at = l]
<1>1. call[c] \in CallState /\ call[c].client \in Client /\ call[c].email \in Email
  BY DEF CallInv
<1>2. r \in CallState
  BY <1>1 DEF CallState
<1>3. /\ r.at = l /\ r.client = call[c].client /\ r.email = call[c].email
      /\ r.role = call[c].role /\ r.empty = call[c].empty
  BY <1>1 DEF CallState
<1>4. call' = [call EXCEPT ![c] = r]
  BY DEF Goto
<1> HIDE DEF r
<1>5. CallInv' /\ call'[c] = r /\ \A d \in Call \ {c} : call'[d] = call[d]
  BY <1>1, <1>2, <1>3, <1>4, SetCall
<1>. QED
  BY <1>3, <1>5 DEF Kept

\* What each label's step does to the calls.
LEMMA JoinBegins ==
  ASSUME CallInv, alive \in SUBSET Client, NEW c \in Call, OnJoinRoom(c)
  PROVE  CallInv' /\ call[c].at = "idle" /\ call'[c].at = "join" /\ \A d \in Call \ {c} : call'[d] = call[d]
<1>1. PICK k \in alive, e \in Email :
        call' = [call EXCEPT ![c] = [Idle EXCEPT !.at = "join", !.client = k, !.email = e]]
  BY DEF OnJoinRoom
<1> DEFINE r == [Idle EXCEPT !.at = "join", !.client = k, !.email = e]
<1>2. r \in CallState /\ r.client \in Client /\ r.email \in Email /\ r.at = "join"
  BY DEF CallState, Label, Idle
<1>3. call' = [call EXCEPT ![c] = r]
  BY <1>1
<1> HIDE DEF r
<1>. QED
  BY <1>2, <1>3, SetCall DEF OnJoinRoom, At

\* onSendMessage goes on to load the room, or refuses.
LEMMA SendBegins ==
  ASSUME CallInv, alive \in SUBSET Client, NEW c \in Call, OnSendMessage(c)
  PROVE  CallInv' /\ call[c].at = "idle" /\ call'[c].at \in {"load", "refused"}
         /\ \A d \in Call \ {c} : call'[d] = call[d]
<1>1. PICK k \in alive, e \in Email :
        call' = [call EXCEPT ![c] =
          [Idle EXCEPT !.at = IF MaySend(k, e) THEN "load" ELSE "refused", !.client = k, !.email = e,
                       !.role = IF IsClientInAdminRoom(k) THEN "ADMIN" ELSE "CUSTOMER"]]
  BY DEF OnSendMessage
<1> DEFINE r == [Idle EXCEPT !.at = IF MaySend(k, e) THEN "load" ELSE "refused", !.client = k, !.email = e,
                             !.role = IF IsClientInAdminRoom(k) THEN "ADMIN" ELSE "CUSTOMER"]
<1>2. r \in CallState /\ r.client \in Client /\ r.email \in Email /\ r.at \in {"load", "refused"}
  BY DEF CallState, Label, Idle
<1>3. call' = [call EXCEPT ![c] = r]
  BY <1>1
<1> HIDE DEF r
<1>. QED
  BY <1>2, <1>3, SetCall DEF OnSendMessage, At

\* A join that has loaded its room ends.
LEMMA JoinEnds ==
  ASSUME CallInv, NEW c \in Call, Joined(c)
  PROVE  CallInv' /\ Kept(c) /\ call[c].at = "join" /\ call'[c].at \in {"done", "refused"}
<1>1. call[c].at = "join" /\ \E l \in {"done", "refused"} : Goto(c, l)
  BY DEF Joined, At
<1>. QED
  BY <1>1, GotoType DEF Label

\* A message notes whether its room was empty.
LEMMA RoomIsLoaded ==
  ASSUME CallInv, NEW c \in Call, LoadRoom(c)
  PROVE  /\ CallInv' /\ call[c].at = "load" /\ call'[c].email = call[c].email
         /\ \/ call'[c].at = "refused"
            \/ call'[c].at = "create" /\ call'[c].empty = (Messages(call[c].email) = {})
         /\ \A d \in Call \ {c} : call'[d] = call[d]
<1>1. call[c].at = "load"
  BY DEF LoadRoom, At
<1>2. CASE Goto(c, "refused")
  BY <1>1, <1>2, GotoType DEF Label, Kept
<1>3. CASE call' = [call EXCEPT ![c].at = "create", ![c].empty = Messages(call[c].email) = {}]
  <2> DEFINE none == Messages(call[c].email) = {}
             r == [call[c] EXCEPT !.at = "create", !.empty = none]
  <2>1. call[c] \in CallState /\ call[c].client \in Client /\ call[c].email \in Email
    BY <1>1 DEF CallInv
  <2>2. call' = [call EXCEPT ![c] = r]
    BY <1>3
  <2>3. none \in BOOLEAN
    OBVIOUS
  <2> HIDE DEF none
  <2>4. r \in CallState /\ r.client = call[c].client /\ r.email = call[c].email
        /\ r.at = "create" /\ r.empty = none
    BY <2>1, <2>3 DEF CallState, Label
  <2> HIDE DEF r
  <2>5. CallInv' /\ call'[c] = r /\ \A d \in Call \ {c} : call'[d] = call[d]
    BY <2>1, <2>2, <2>4, SetCall
  <2>. QED
    BY <1>1, <2>4, <2>5 DEF none
<1>. QED
  BY <1>2, <1>3 DEF LoadRoom

\* A message is created and its push started, or the call fails.
LEMMA MessageIsCreated ==
  ASSUME CallInv, NEW c \in Call, CreateMessage(c)
  PROVE  /\ CallInv' /\ Kept(c) /\ call[c].at = "create"
         /\ \/ call'[c].at = "refused" /\ UNCHANGED <<created, pushing>>
            \/ /\ call'[c].at = "commit"
               /\ created' = Append(created, c) /\ pushing' = pushing \cup {c}
<1>1. call[c].at = "create"
  BY DEF CreateMessage, At
<1>2. ASSUME Goto(c, "commit") PROVE CallInv' /\ Kept(c) /\ call'[c].at = "commit"
  BY <1>1, <1>2, GotoType DEF Label
<1>3. ASSUME Goto(c, "refused") PROVE CallInv' /\ Kept(c) /\ call'[c].at = "refused"
  BY <1>1, <1>3, GotoType DEF Label
<1>. QED
  BY <1>1, <1>2, <1>3 DEF CreateMessage

\* A committed message is sent to the room; an administrator's goes on to a mail unless the opponent is there.
LEMMA MessageIsCommitted ==
  ASSUME CallInv, NEW c \in Call, CommitMessage(c)
  PROVE  /\ CallInv' /\ Kept(c) /\ call[c].at = "commit"
         /\ \/ call'[c].at = "refused" /\ UNCHANGED heard /\ stored' \in {stored, stored \cup {c}}
            \/ /\ call'[c].at \in {"mail", "sent"}
               /\ call[c].role = "ADMIN" /\ call'[c].at = "sent" =>
                    HasOpponent(call[c].client, call[c].email)
               /\ stored' = stored \cup {c}
               /\ heard' = [heard EXCEPT ![c] = In(call[c].email)]
<1>1. call[c].at = "commit"
  BY DEF CommitMessage, At
<1>2. ASSUME NEW l \in {"mail", "sent", "refused"}, Goto(c, l)
      PROVE  CallInv' /\ Kept(c) /\ call'[c].at = l
  BY <1>1, <1>2, GotoType DEF Label
<1>. QED
  BY <1>1, <1>2 DEF CommitMessage

\* A message is mailed, or SMTP fails, before or after the mail left.
LEMMA MessageIsMailed ==
  ASSUME CallInv, NEW c \in Call, MailMessage(c)
  PROVE  /\ CallInv' /\ Kept(c) /\ call[c].at = "mail"
         /\ \/ call'[c].at = "refused" /\ mailed' \in {mailed, mailed \cup {c}}
            \/ call'[c].at = "sent" /\ mailed' = mailed \cup {c}
<1>1. call[c].at = "mail"
  BY DEF MailMessage, At
<1>2. ASSUME NEW l \in {"sent", "refused"}, Goto(c, l)
      PROVE  CallInv' /\ Kept(c) /\ call'[c].at = l
  BY <1>1, <1>2, GotoType DEF Label
<1>. QED
  BY <1>1, <1>2 DEF MailMessage

\* Every step keeps the types.
LEMMA TypeNext == TypeInv /\ [Next]_vars => TypeInv'
<1> SUFFICES ASSUME TypeInv, [Next]_vars PROVE TypeInv'
  OBVIOUS
<1>0. CallInv /\ alive \in SUBSET Client
  BY DEF TypeInv
<1>1. ASSUME NEW k \in Client, HandleDisconnect(k) PROVE TypeInv'
  BY <1>1 DEF TypeInv, CallInv, HandleDisconnect, database, emitted, Room
<1>2. ASSUME NEW k \in Client, OnJoinAdminRoom(k) PROVE TypeInv'
  BY <1>2 DEF TypeInv, CallInv, OnJoinAdminRoom, database, emitted, Room
<1>3. ASSUME NEW e \in Email, GetOrCreateRoom(e) PROVE TypeInv'
  BY <1>3 DEF TypeInv, CallInv, GetOrCreateRoom, sockets, emitted
<1>4. ASSUME NEW c \in Call, OnJoinRoom(c) PROVE TypeInv'
  BY <1>0, <1>4, JoinBegins DEF TypeInv, OnJoinRoom, sockets, database, emitted
<1>5. ASSUME NEW c \in Call, OnSendMessage(c) PROVE TypeInv'
  BY <1>0, <1>5, SendBegins DEF TypeInv, OnSendMessage, sockets, database, emitted
<1>6. ASSUME NEW c \in Call, Joined(c) PROVE TypeInv'
  <2>1. CallInv' /\ call[c].client \in Client /\ call[c].email \in Email
    BY <1>0, <1>6, JoinEnds DEF CallInv
  <2>2. rooms' \in [Client -> SUBSET Room] /\ connectedClients' \in [Client -> Room \cup {None}]
    <3> DEFINE k == call[c].client
               e == call[c].email
    <3>1. k \in Client /\ e \in Room /\ (rooms[k] \ Previous(k)) \cup {e} \in SUBSET Room
      BY <2>1 DEF TypeInv, Room
    <3>2. \/ UNCHANGED <<rooms, connectedClients>>
          \/ /\ rooms' = [rooms EXCEPT ![k] = (rooms[k] \ Previous(k)) \cup {e}]
             /\ connectedClients' = [connectedClients EXCEPT ![k] = e]
      BY <1>6 DEF Joined
    <3> HIDE DEF k, e
    <3>3. rooms' \in [Client -> SUBSET Room]
      BY <3>1, <3>2 DEF TypeInv
    <3>4. connectedClients' \in [Client -> Room \cup {None}]
      BY <3>1, <3>2 DEF TypeInv
    <3>. QED
      BY <3>3, <3>4
  <2>. QED
    BY <1>6, <2>1, <2>2 DEF TypeInv, Joined, database, emitted
<1>7. ASSUME NEW c \in Call, LoadRoom(c) PROVE TypeInv'
  BY <1>0, <1>7, RoomIsLoaded DEF TypeInv, LoadRoom, sockets, database, emitted
<1>8. ASSUME NEW c \in Call, CreateMessage(c) PROVE TypeInv'
  <2>1. CallInv' /\ call[c].email \in Email
    BY <1>0, <1>8, MessageIsCreated DEF CallInv
  <2>2. \/ UNCHANGED <<created, pushing>>
        \/ created' = Append(created, c) /\ pushing' = pushing \cup {c}
    BY <1>0, <1>8, MessageIsCreated
  <2>3. created' \in Seq(Call) /\ pushing' \in SUBSET Call
    <3>1. Append(created, c) \in Seq(Call)
      BY DEF TypeInv
    <3>. QED
      BY <2>2, <3>1 DEF TypeInv
  <2>4. announced' \in SUBSET Email
    BY <1>8, <2>1 DEF TypeInv, CreateMessage
  <2>. QED
    BY <1>8, <2>1, <2>3, <2>4 DEF TypeInv, CreateMessage, sockets
<1>9. ASSUME NEW c \in Call, CommitMessage(c) PROVE TypeInv'
  <2>1. CallInv' /\ stored' \in SUBSET Call
    BY <1>0, <1>9, MessageIsCommitted DEF TypeInv
  <2>2. In(call[c].email) \in SUBSET Client
    BY DEF TypeInv, In
  <2>3. heard' \in [Call -> SUBSET Client]
    BY <1>0, <1>9, <2>2, MessageIsCommitted DEF TypeInv
  <2>. QED
    BY <1>9, <2>1, <2>3 DEF TypeInv, CommitMessage, sockets
<1>10. ASSUME NEW c \in Call, MailMessage(c) PROVE TypeInv'
  <2>1. CallInv' /\ mailed' \in SUBSET Call
    BY <1>0, <1>10, MessageIsMailed DEF TypeInv
  <2>. QED
    BY <1>10, <2>1 DEF TypeInv, MailMessage, sockets, database
<1>11. ASSUME NEW c \in Call, Push(c) PROVE TypeInv'
  <2>1. listed' \in [Email -> Seq(Call)]
    <3>1. CASE UNCHANGED listed
      BY <3>1 DEF TypeInv
    <3>2. CASE listed' = [listed EXCEPT ![RoomOf(c)] = Append(@, c)]
      <4>1. ASSUME NEW e \in Email PROVE Append(listed[e], c) \in Seq(Call)
        BY DEF TypeInv
      <4>. QED
        BY <3>2, <4>1 DEF TypeInv
    <3>. QED
      BY <1>11, <3>1, <3>2 DEF Push
  <2>2. UNCHANGED call /\ pushing' \in SUBSET Call
    BY <1>11 DEF TypeInv, Push
  <2>. QED
    BY <1>11, <2>1, <2>2 DEF TypeInv, CallInv, Push, sockets, emitted
<1>12. CASE UNCHANGED vars
  BY <1>12 DEF TypeInv, CallInv, vars
<1>. QED
  BY <1>1, <1>2, <1>3, <1>4, <1>5, <1>6, <1>7, <1>8, <1>9, <1>10, <1>11, <1>12
  DEF Next, Begin, Step

-----------------------------------------------------------------------------
(* Joining and leaving rooms.                                              *)

RoomsInv ==
  \A k \in alive :
    /\ IF connectedClients[k] = None THEN rooms[k] = {} ELSE connectedClients[k] \in rooms[k]
    /\ k \notin Admin => rooms[k] \subseteq {connectedClients[k]}

\* Every step keeps the sockets and the map in agreement.
LEMMA RoomsNext == TypeInv /\ RoomsInv /\ [Next]_vars => RoomsInv'
<1> SUFFICES ASSUME TypeInv, RoomsInv, [Next]_vars PROVE RoomsInv'
  OBVIOUS
<1>0. CallInv
  BY DEF TypeInv
<1>1. ASSUME NEW k \in Client, HandleDisconnect(k) PROVE RoomsInv'
  BY <1>1 DEF TypeInv, RoomsInv, HandleDisconnect
<1>2. ASSUME NEW k \in Client, OnJoinAdminRoom(k) PROVE RoomsInv'
  <2>1. k \in Admin /\ AdminRoom # None
    BY <1>2, ChatGatewayAssumption DEF OnJoinAdminRoom
  <2>. QED
    BY <1>2, <2>1 DEF TypeInv, RoomsInv, OnJoinAdminRoom
<1>3. ASSUME NEW c \in Call, Joined(c) PROVE RoomsInv'
  <2> DEFINE k == call[c].client
             e == call[c].email
  <2>1. k \in Client /\ e \in Email /\ e # None
    BY <1>0, <1>3, JoinEnds, ChatGatewayAssumption DEF CallInv
  <2>2. \/ UNCHANGED <<rooms, connectedClients>>
        \/ /\ rooms' = [rooms EXCEPT ![k] = (rooms[k] \ {connectedClients[k]}) \cup {e}]
           /\ connectedClients' = [connectedClients EXCEPT ![k] = e]
    BY <1>3 DEF Joined, Previous
  <2>3. UNCHANGED alive
    BY <1>3 DEF Joined
  <2> HIDE DEF k, e
  <2>. QED
    BY <2>1, <2>2, <2>3 DEF TypeInv, RoomsInv
<1>4. CASE UNCHANGED sockets
  BY <1>4 DEF sockets, RoomsInv
<1>5. ASSUME NEW c \in Call,
             OnJoinRoom(c) \/ OnSendMessage(c) \/ LoadRoom(c) \/ CreateMessage(c)
               \/ CommitMessage(c) \/ MailMessage(c) \/ Push(c)
      PROVE  UNCHANGED sockets
  BY <1>5 DEF OnJoinRoom, OnSendMessage, LoadRoom, CreateMessage, CommitMessage, MailMessage, Push, sockets
<1>6. ASSUME NEW e \in Email, GetOrCreateRoom(e) PROVE UNCHANGED sockets
  BY <1>6 DEF GetOrCreateRoom
<1>7. CASE UNCHANGED vars
  BY <1>7 DEF vars, RoomsInv
<1>. QED
  BY <1>1, <1>2, <1>3, <1>4, <1>5, <1>6, <1>7 DEF Next, Begin, Step

-----------------------------------------------------------------------------
(* Messages and the rooms that list them.                                  *)

\* What a sequence holds after an append.
LEMMA ToSetAppend ==
  ASSUME NEW s \in Seq(Call), NEW c \in Call
  PROVE  ToSet(Append(s, c)) = ToSet(s) \cup {c}
<1>1. /\ Append(s, c) \in Seq(Call)
      /\ Len(Append(s, c)) = Len(s) + 1
      /\ \A i \in 1 .. Len(s) : Append(s, c)[i] = s[i]
      /\ Append(s, c)[Len(s) + 1] = c
  OBVIOUS
<1>2. DOMAIN s = 1 .. Len(s) /\ DOMAIN Append(s, c) = 1 .. Len(s) + 1 /\ Len(s) \in Nat
  BY <1>1
<1>3. DOMAIN Append(s, c) = DOMAIN s \cup {Len(s) + 1}
  BY <1>2
<1>. QED
  BY <1>1, <1>2, <1>3 DEF ToSet

\* A message was created by a call that keeps its room; a finished message is
\* committed; a room lists and waits for messages of its own.
MessageInv ==
  /\ stored \subseteq ToSet(created) /\ pushing \subseteq ToSet(created) /\ mailed \subseteq stored
  /\ \A c \in ToSet(created) : c \in Call /\ call[c].at # "idle"
  /\ \A c \in Call : call[c].at \in {"commit", "mail", "sent"} => c \in ToSet(created)
  /\ \A c \in Call : call[c].at \in {"mail", "sent"} => c \in stored
  /\ \A e \in Email, c \in Call : c \in ToSet(listed[e]) => c \in ToSet(created) /\ call[c].email = e

\* A room is announced before its first message is created.
AnnouncedInv ==
  /\ \A c \in ToSet(created) : call[c].email \in announced
  /\ \A c \in Call : call[c].at = "create" /\ ~call[c].empty => call[c].email \in announced

\* Nothing is listed or announced at the start.
LEMMA MessageInit == Init => MessageInv /\ AnnouncedInv
  BY DEF Init, MessageInv, AnnouncedInv, Idle, ToSet

\* Steps that leave the messages alone keep what is known of them.
LEMMA MessageUnchanged ==
  ASSUME MessageInv, AnnouncedInv, UNCHANGED <<listed, created, stored, pushing, mailed, announced>>,
         \A c \in Call : \/ call'[c] = call[c]
                         \/ call[c].at = "idle" /\ call'[c].at \in {"join", "load", "refused"}
                         \/ call[c].at = "join" /\ call'[c].at \in {"done", "refused"}
                            /\ call'[c].email = call[c].email
  PROVE  MessageInv' /\ AnnouncedInv'
<1>1. MessageInv'
  BY DEF MessageInv
<1>2. AnnouncedInv'
  BY DEF MessageInv, AnnouncedInv
<1>. QED
  BY <1>1, <1>2

\* Every step keeps what is known of listed and announced rooms.
LEMMA MessageNext == TypeInv /\ MessageInv /\ AnnouncedInv /\ [Next]_vars => MessageInv' /\ AnnouncedInv'
<1> SUFFICES ASSUME TypeInv, MessageInv, AnnouncedInv, [Next]_vars PROVE MessageInv' /\ AnnouncedInv'
  OBVIOUS
<1>0. CallInv /\ alive \in SUBSET Client
  BY DEF TypeInv
<1>1. ASSUME NEW k \in Client, HandleDisconnect(k) \/ OnJoinAdminRoom(k) PROVE MessageInv' /\ AnnouncedInv'
  BY <1>1, MessageUnchanged DEF HandleDisconnect, OnJoinAdminRoom, database, emitted
<1>2. ASSUME NEW e \in Email, GetOrCreateRoom(e) PROVE MessageInv' /\ AnnouncedInv'
  BY <1>2, MessageUnchanged DEF GetOrCreateRoom, emitted
<1>3. ASSUME NEW c \in Call, OnJoinRoom(c) PROVE MessageInv' /\ AnnouncedInv'
  BY <1>0, <1>3, JoinBegins, MessageUnchanged DEF OnJoinRoom, database, emitted
<1>4. ASSUME NEW c \in Call, OnSendMessage(c) PROVE MessageInv' /\ AnnouncedInv'
  BY <1>0, <1>4, SendBegins, MessageUnchanged DEF OnSendMessage, database, emitted
<1>5. ASSUME NEW c \in Call, Joined(c) PROVE MessageInv' /\ AnnouncedInv'
  <2>1. \A d \in Call : \/ call'[d] = call[d]
                        \/ call[d].at = "join" /\ call'[d].at \in {"done", "refused"}
                           /\ call'[d].email = call[d].email
    BY <1>0, <1>5, JoinEnds DEF Kept
  <2>. QED
    BY <1>5, <2>1, MessageUnchanged DEF Joined, database, emitted
<1>6. ASSUME NEW c \in Call, LoadRoom(c) PROVE MessageInv' /\ AnnouncedInv'
  <2>1. UNCHANGED <<listed, created, stored, pushing, mailed, announced>>
    BY <1>6 DEF LoadRoom, database, emitted
  <2>2. /\ call[c].at = "load" /\ call'[c].email = call[c].email
        /\ \/ call'[c].at = "refused"
           \/ call'[c].at = "create" /\ call'[c].empty = (Messages(call[c].email) = {})
        /\ \A d \in Call \ {c} : call'[d] = call[d]
    BY <1>0, <1>6, RoomIsLoaded
  <2>3. call[c].email \in Email
    BY <1>0, <2>2 DEF CallInv
  <2>4. ASSUME NEW m \in Messages(call[c].email) PROVE call[c].email \in announced
    <3>1. m \in stored /\ m \in ToSet(listed[call[c].email])
      BY DEF Messages
    <3>2. m \in ToSet(created) /\ m \in Call
      BY <3>1 DEF MessageInv
    <3>3. call[m].email = call[c].email
      BY <2>3, <3>1, <3>2 DEF MessageInv
    <3>. QED
      BY <3>2, <3>3 DEF AnnouncedInv
  <2>5. call'[c].at = "create" /\ ~call'[c].empty => call[c].email \in announced
    BY <2>2, <2>4
  <2>6. MessageInv'
    BY <2>1, <2>2 DEF MessageInv
  <2>7. AnnouncedInv'
    BY <2>1, <2>2, <2>5 DEF MessageInv, AnnouncedInv
  <2>. QED
    BY <2>6, <2>7
<1>7. ASSUME NEW c \in Call, CreateMessage(c) PROVE MessageInv' /\ AnnouncedInv'
  <2>1. UNCHANGED <<listed, stored, mailed>>
    BY <1>7 DEF CreateMessage
  <2>2. /\ Kept(c) /\ call[c].at = "create"
        /\ \/ call'[c].at = "refused" /\ UNCHANGED <<created, pushing>>
           \/ /\ call'[c].at = "commit"
              /\ created' = Append(created, c) /\ pushing' = pushing \cup {c}
    BY <1>0, <1>7, MessageIsCreated
  <2>3. announced \subseteq announced' /\ call[c].email \in announced'
    BY <1>7, <2>2 DEF CreateMessage, Announces, AnnouncedInv
  <2>4. \/ call'[c].at = "refused" /\ UNCHANGED pushing /\ ToSet(created') = ToSet(created)
        \/ /\ call'[c].at = "commit" /\ pushing' = pushing \cup {c}
           /\ ToSet(created') = ToSet(created) \cup {c}
    <3>1. created \in Seq(Call)
      BY DEF TypeInv
    <3>. QED
      BY <2>2, <3>1, ToSetAppend
  <2>5. MessageInv'
    BY <2>1, <2>2, <2>4 DEF MessageInv, Kept
  <2>6. AnnouncedInv'
    BY <2>2, <2>3, <2>4 DEF MessageInv, AnnouncedInv, Kept
  <2>. QED
    BY <2>5, <2>6
<1>8. ASSUME NEW c \in Call, CommitMessage(c) PROVE MessageInv' /\ AnnouncedInv'
  <2>1. UNCHANGED <<listed, created, pushing, mailed, announced>>
    BY <1>8 DEF CommitMessage
  <2>2. /\ Kept(c) /\ call[c].at = "commit"
        /\ \/ call'[c].at = "refused" /\ stored' \in {stored, stored \cup {c}}
           \/ call'[c].at \in {"mail", "sent"} /\ stored' = stored \cup {c}
    BY <1>0, <1>8, MessageIsCommitted
  <2>3. MessageInv'
    BY <2>1, <2>2 DEF MessageInv, Kept
  <2>4. AnnouncedInv'
    BY <2>1, <2>2 DEF MessageInv, AnnouncedInv, Kept
  <2>. QED
    BY <2>3, <2>4
<1>9. ASSUME NEW c \in Call, MailMessage(c) PROVE MessageInv' /\ AnnouncedInv'
  <2>1. UNCHANGED <<listed, created, stored, pushing, announced>>
    BY <1>9 DEF MailMessage, database
  <2>2. /\ Kept(c) /\ call[c].at = "mail" /\ call'[c].at \in {"refused", "sent"}
        /\ mailed' \in {mailed, mailed \cup {c}}
    BY <1>0, <1>9, MessageIsMailed
  <2>3. MessageInv'
    BY <2>1, <2>2 DEF MessageInv, Kept
  <2>4. AnnouncedInv'
    BY <2>1, <2>2 DEF MessageInv, AnnouncedInv, Kept
  <2>. QED
    BY <2>3, <2>4
<1>10. ASSUME NEW c \in Call, Push(c) PROVE MessageInv' /\ AnnouncedInv'
  <2>1. UNCHANGED <<created, stored, mailed, announced, call>> /\ pushing' = pushing \ {c} /\ c \in pushing
    BY <1>10 DEF Push, emitted
  <2>2. c \in ToSet(created) /\ call[c].email \in Email
    BY <1>0, <2>1 DEF MessageInv, CallInv
  <2>3. \A e \in Email : \/ ToSet(listed'[e]) = ToSet(listed[e])
                         \/ e = call[c].email /\ ToSet(listed'[e]) = ToSet(listed[e]) \cup {c}
    <3>1. CASE UNCHANGED listed
      BY <3>1
    <3>2. CASE listed' = [listed EXCEPT ![RoomOf(c)] = Append(@, c)]
      <4>1. listed \in [Email -> Seq(Call)]
        BY DEF TypeInv
      <4>2. ASSUME NEW e \in Email, e # call[c].email PROVE listed'[e] = listed[e]
        BY <3>2, <4>1, <4>2 DEF RoomOf
      <4>3. listed'[call[c].email] = Append(listed[call[c].email], c)
        BY <2>2, <3>2, <4>1 DEF RoomOf
      <4>4. ToSet(listed'[call[c].email]) = ToSet(listed[call[c].email]) \cup {c}
        BY <2>2, <4>1, <4>3, ToSetAppend
      <4>. QED
        BY <4>2, <4>4
    <3>. QED
      BY <1>10, <3>1, <3>2 DEF Push
  <2>4. MessageInv'
    BY <2>1, <2>2, <2>3 DEF MessageInv
  <2>5. AnnouncedInv'
    BY <2>1 DEF AnnouncedInv
  <2>. QED
    BY <2>4, <2>5
<1>11. CASE UNCHANGED vars
  BY <1>11, MessageUnchanged DEF vars
<1>. QED
  BY <1>1, <1>2, <1>3, <1>4, <1>5, <1>6, <1>7, <1>8, <1>9, <1>10, <1>11 DEF Next, Begin, Step

-----------------------------------------------------------------------------
(* Replies.                                                                *)

\* Every step keeps that a reply was heard or mailed.
LEMMA RepliesNext == TypeInv /\ RepliesReachSomebody /\ [Next]_vars => RepliesReachSomebody'
<1> SUFFICES ASSUME TypeInv, RepliesReachSomebody, [Next]_vars PROVE RepliesReachSomebody'
  OBVIOUS
<1>0. CallInv /\ alive \in SUBSET Client /\ heard \in [Call -> SUBSET Client]
  BY DEF TypeInv
\* A step that neither finishes a message nor forgets one keeps the property.
<1>1. ASSUME NEW c \in Call, \A d \in Call \ {c} : call'[d] = call[d] /\ heard'[d] = heard[d],
             call'[c].at # "sent", mailed \subseteq mailed'
      PROVE  RepliesReachSomebody'
  BY <1>1 DEF RepliesReachSomebody, At
<1>2. ASSUME NEW k \in Client, HandleDisconnect(k) \/ OnJoinAdminRoom(k) PROVE RepliesReachSomebody'
  BY <1>2 DEF HandleDisconnect, OnJoinAdminRoom, emitted, RepliesReachSomebody, At
<1>3. ASSUME NEW e \in Email, GetOrCreateRoom(e) PROVE RepliesReachSomebody'
  BY <1>3 DEF GetOrCreateRoom, emitted, RepliesReachSomebody, At
<1>4. ASSUME NEW c \in Call, OnJoinRoom(c) PROVE RepliesReachSomebody'
  BY <1>0, <1>1, <1>4, JoinBegins DEF OnJoinRoom, emitted
<1>5. ASSUME NEW c \in Call, OnSendMessage(c) PROVE RepliesReachSomebody'
  BY <1>0, <1>1, <1>5, SendBegins DEF OnSendMessage, emitted
<1>6. ASSUME NEW c \in Call, Joined(c) PROVE RepliesReachSomebody'
  <2>1. call'[c].at # "sent" /\ \A d \in Call \ {c} : call'[d] = call[d]
    BY <1>0, <1>6, JoinEnds DEF Kept
  <2>. QED
    BY <1>1, <1>6, <2>1 DEF Joined, emitted
<1>7. ASSUME NEW c \in Call, LoadRoom(c) PROVE RepliesReachSomebody'
  BY <1>0, <1>1, <1>7, RoomIsLoaded DEF LoadRoom, emitted
<1>8. ASSUME NEW c \in Call, CreateMessage(c) PROVE RepliesReachSomebody'
  <2>1. call'[c].at # "sent" /\ \A d \in Call \ {c} : call'[d] = call[d]
    BY <1>0, <1>8, MessageIsCreated DEF Kept
  <2>. QED
    BY <1>1, <1>8, <2>1 DEF CreateMessage
<1>9. ASSUME NEW c \in Call, CommitMessage(c) PROVE RepliesReachSomebody'
  <2>1. Kept(c) /\ UNCHANGED mailed
    BY <1>0, <1>9, MessageIsCommitted DEF CommitMessage
  <2>2. \A d \in Call \ {c} : call'[d] = call[d] /\ heard'[d] = heard[d]
    BY <1>0, <1>9, <2>1, MessageIsCommitted DEF Kept
  <2>3. CASE call'[c].at # "sent"
    BY <1>1, <2>1, <2>2, <2>3
  <2>4. CASE call'[c].at = "sent"
    <3>1. /\ call[c].role = "ADMIN" => HasOpponent(call[c].client, call[c].email)
          /\ heard'[c] = In(call[c].email)
      BY <1>0, <1>9, <2>4, MessageIsCommitted
    <3>2. call[c].role = "ADMIN" => \E k \in heard'[c] : k # call[c].client
      BY <3>1 DEF HasOpponent
    <3>. QED
      BY <2>1, <2>2, <3>2 DEF RepliesReachSomebody, At, Kept
  <2>. QED
    BY <2>3, <2>4
<1>10. ASSUME NEW c \in Call, MailMessage(c) PROVE RepliesReachSomebody'
  <2>1. /\ Kept(c) /\ UNCHANGED heard /\ mailed \subseteq mailed'
        /\ call'[c].at = "refused" \/ c \in mailed'
    BY <1>0, <1>10, MessageIsMailed DEF MailMessage
  <2>. QED
    BY <2>1 DEF RepliesReachSomebody, At, Kept
<1>11. ASSUME NEW c \in Call, Push(c) PROVE RepliesReachSomebody'
  BY <1>11 DEF Push, emitted, RepliesReachSomebody, At
<1>12. CASE UNCHANGED vars
  BY <1>12 DEF vars, RepliesReachSomebody, At
<1>. QED
  BY <1>2, <1>3, <1>4, <1>5, <1>6, <1>7, <1>8, <1>9, <1>10, <1>11, <1>12 DEF Next, Begin, Step

-----------------------------------------------------------------------------
(* The properties the run checks, for any calls, sockets and rooms.        *)

\* The inductive invariant of the gateway and its messages.
IInv == TypeInv /\ RoomsInv /\ MessageInv /\ AnnouncedInv /\ RepliesReachSomebody

\* The invariant holds in every state (chat.gateway.ts, contact.service.ts).
THEOREM Inductive == Spec => []IInv
<1>1. Init => IInv
  <2>1. ASSUME Init PROVE RoomsInv /\ RepliesReachSomebody
    BY <2>1 DEF Init, RoomsInv, RepliesReachSomebody, At, Idle
  <2>. QED
    BY <2>1, TypeInit, MessageInit DEF IInv
<1>2. IInv /\ [Next]_vars => IInv'
  BY TypeNext, RoomsNext, MessageNext, RepliesNext DEF IInv
<1>. QED
  BY <1>1, <1>2, PTL DEF Spec

\* Every variable stays in its domain, and what is stored, mailed or listed is a
\* message that was created for that room.
THEOREM TypeSafe == Spec => []TypeOK
<1>1. IInv => TypeOK
  <2> SUFFICES ASSUME IInv PROVE TypeOK
    OBVIOUS
  <2>1. ASSUME NEW e \in Email, NEW c \in ToSet(listed[e])
        PROVE  c \in ToSet(created) /\ call[c].email = e
    <3>1. c \in Call
      BY DEF IInv, TypeInv, ToSet
    <3>. QED
      BY <3>1 DEF IInv, MessageInv
  <2>. QED
    BY <2>1 DEF IInv, TypeInv, MessageInv, TypeOK
<1>. QED
  BY <1>1, Inductive, PTL

\* Joins that are answered in any order leave the map and the rooms in
\* agreement, and a customer's socket in one room (onJoinRoom).
THEOREM RoomsAlwaysAgree == Spec => []RoomsAgree
<1>1. IInv => RoomsAgree
  <2> SUFFICES ASSUME IInv, NEW k \in alive PROVE k \notin Admin => Cardinality(rooms[k]) <= 1
    BY DEF IInv, RoomsInv, RoomsAgree
  <2>1. /\ IsFiniteSet({connectedClients[k]}) /\ Cardinality({connectedClients[k]}) = 1
    BY FS_Singleton
  <2>2. ASSUME k \notin Admin PROVE rooms[k] \in SUBSET {connectedClients[k]}
    BY <2>2 DEF IInv, RoomsInv
  <2>. QED
    BY <2>1, <2>2, FS_Subset
<1>. QED
  BY <1>1, Inductive, PTL

\* No message is broadcast from a room the admins were not told of
\* (onSendMessage, createMessage).
THEOREM RoomsAreAnnouncedFirst == Spec => []RoomAnnouncedFirst
<1>1. IInv => RoomAnnouncedFirst
  BY DEF IInv, MessageInv, AnnouncedInv, RoomAnnouncedFirst
<1>. QED
  BY <1>1, Inductive, PTL

\* A finished reply was heard by another socket of the room or mailed to its
\* owner (hasOpponent).
THEOREM RepliesAlwaysReachSomebody == Spec => []RepliesReachSomebody
<1>1. IInv => RepliesReachSomebody
  BY DEF IInv
<1>. QED
  BY <1>1, Inductive, PTL

-----------------------------------------------------------------------------
(* Places: a room lists, and createdAt orders, each message once.          *)

PlaceInv ==
  /\ IsFiniteSet(docs)
  /\ IsInjective(created)
  /\ \A e \in Email : IsInjective(listed[e]) /\ (listed[e] # <<>> => e \in docs)
  /\ \A c \in ToSet(created) : call[c].at \in {"commit", "mail", "sent", "refused"} /\ call[c].email \in docs
  /\ \A c \in Call : call[c].at = "create" => call[c].email \in docs
  /\ \A e \in Email, c \in pushing : c \notin ToSet(listed[e])

\* An element that a sequence does not show can be appended to it.
LEMMA AppendOnce ==
  ASSUME NEW s \in Seq(Call), IsInjective(s), NEW c \in Call, c \notin ToSet(s)
  PROVE  IsInjective(Append(s, c)) /\ Append(s, c) # <<>>
<1>1. /\ Append(s, c) \in Seq(Call)
      /\ Len(Append(s, c)) = Len(s) + 1
      /\ \A i \in 1 .. Len(s) : Append(s, c)[i] = s[i]
      /\ Append(s, c)[Len(s) + 1] = c
      /\ DOMAIN s = 1 .. Len(s) /\ DOMAIN Append(s, c) = 1 .. Len(s) + 1 /\ Len(s) \in Nat
  OBVIOUS
<1>2. \A i \in 1 .. Len(s) : s[i] # c
  BY <1>1 DEF ToSet
<1>3. \A i, j \in 1 .. Len(s) : s[i] = s[j] => i = j
  BY <1>1 DEF IsInjective
<1>4. ASSUME NEW i \in 1 .. Len(s) + 1, NEW j \in 1 .. Len(s) + 1, Append(s, c)[i] = Append(s, c)[j]
      PROVE  i = j
  <2>1. CASE i \in 1 .. Len(s) /\ j \in 1 .. Len(s)
    BY <1>1, <1>3, <1>4, <2>1
  <2>2. CASE i \notin 1 .. Len(s) \/ j \notin 1 .. Len(s)
    BY <1>1, <1>2, <1>4, <2>2
  <2> QED
    BY <2>1, <2>2
<1>5. IsInjective(Append(s, c))
  BY <1>1, <1>4 DEF IsInjective
<1> QED
  BY <1>1, <1>5

\* Steps that create, list and push nothing.
LEMMA PlaceKept ==
  ASSUME PlaceInv, ToSet(created) \subseteq Call, UNCHANGED <<listed, created, pushing>>,
         docs \subseteq docs', IsFiniteSet(docs'),
         \A c \in Call :
           \/ call'[c] = call[c]
           \/ call[c].at \notin {"commit", "mail", "sent", "refused"} /\ call'[c].at # "create"
           \/ call[c].at = "load" /\ call'[c].at = "create" /\ call'[c].email \in docs
           \/ /\ call[c].at \in {"commit", "mail"} /\ call'[c].at \in {"mail", "sent", "refused"}
              /\ call'[c].email = call[c].email
  PROVE  PlaceInv'
<1>1. \A c \in ToSet(created) :
        call'[c].at \in {"commit", "mail", "sent", "refused"} /\ call'[c].email \in docs
  BY DEF PlaceInv
<1>2. \A c \in Call : call'[c].at = "create" => call'[c].email \in docs
  BY DEF PlaceInv
<1> QED
  BY <1>1, <1>2 DEF PlaceInv

\* Every step keeps the places.
LEMMA PlaceNext == TypeInv /\ MessageInv /\ PlaceInv /\ [Next]_vars => PlaceInv'
<1> SUFFICES ASSUME TypeInv, MessageInv, PlaceInv, [Next]_vars PROVE PlaceInv'
  OBVIOUS
<1>0. CallInv /\ alive \in SUBSET Client /\ ToSet(created) \subseteq Call /\ IsFiniteSet(docs)
  BY DEF TypeInv, MessageInv, PlaceInv
<1>1. ASSUME NEW k \in Client, HandleDisconnect(k) \/ OnJoinAdminRoom(k) PROVE PlaceInv'
  BY <1>0, <1>1, PlaceKept DEF HandleDisconnect, OnJoinAdminRoom, database
<1>2. ASSUME NEW e \in Email, GetOrCreateRoom(e) PROVE PlaceInv'
  <2>1. IsFiniteSet(docs') /\ docs \subseteq docs'
    BY <1>0, <1>2, FS_AddElement DEF GetOrCreateRoom
  <2> QED
    BY <1>0, <1>2, <2>1, PlaceKept DEF GetOrCreateRoom
<1>3. ASSUME NEW c \in Call, OnJoinRoom(c) PROVE PlaceInv'
  BY <1>0, <1>3, JoinBegins, PlaceKept DEF OnJoinRoom, database
<1>4. ASSUME NEW c \in Call, OnSendMessage(c) PROVE PlaceInv'
  BY <1>0, <1>4, SendBegins, PlaceKept DEF OnSendMessage, database
<1>5. ASSUME NEW c \in Call, Joined(c) PROVE PlaceInv'
  BY <1>0, <1>5, JoinEnds, PlaceKept DEF Joined, database, Kept
<1>6. ASSUME NEW c \in Call, LoadRoom(c) PROVE PlaceInv'
  <2>1. call'[c].at = "create" => call'[c].email \in docs
    <3>1. ASSUME call'[c].at = "create" PROVE call[c].email \in docs
      <4>1. Goto(c, "refused") => call'[c].at = "refused"
        BY <1>0, <1>6, GotoType DEF Label, LoadRoom, At
      <4> QED
        BY <1>6, <3>1, <4>1 DEF LoadRoom
    <3> QED
      BY <1>0, <1>6, <3>1, RoomIsLoaded
  <2> QED
    BY <1>0, <1>6, <2>1, RoomIsLoaded, PlaceKept DEF LoadRoom, database
<1>7. ASSUME NEW c \in Call, CreateMessage(c) PROVE PlaceInv'
  <2>1. UNCHANGED <<docs, listed>>
    BY <1>7 DEF CreateMessage
  <2>2. /\ Kept(c) /\ call[c].at = "create"
        /\ \/ call'[c].at = "refused" /\ UNCHANGED <<created, pushing>>
           \/ /\ call'[c].at = "commit"
              /\ created' = Append(created, c) /\ pushing' = pushing \cup {c}
    BY <1>0, <1>7, MessageIsCreated
  <2>3. CASE UNCHANGED <<created, pushing>> /\ call'[c].at = "refused"
    BY <1>0, <2>1, <2>2, <2>3, PlaceKept DEF Kept
  <2>4. CASE /\ call'[c].at = "commit"
             /\ created' = Append(created, c) /\ pushing' = pushing \cup {c}
    <3>1. created \in Seq(Call) /\ c \notin ToSet(created)
      BY <2>2 DEF TypeInv, PlaceInv
    <3>2. IsInjective(created') /\ ToSet(created') = ToSet(created) \cup {c}
      BY <2>4, <3>1, AppendOnce, ToSetAppend DEF PlaceInv
    <3>3. \A e \in Email : c \notin ToSet(listed[e])
      BY <3>1 DEF MessageInv
    <3>4. call[c].email \in docs
      BY <2>2 DEF PlaceInv
    <3>5. \A e \in Email, d \in pushing' : d \notin ToSet(listed'[e])
      BY <2>1, <2>4, <3>3 DEF PlaceInv
    <3>6. \A d \in ToSet(created') :
            call'[d].at \in {"commit", "mail", "sent", "refused"} /\ call'[d].email \in docs'
      BY <1>0, <2>1, <2>2, <2>4, <3>2, <3>4 DEF PlaceInv, Kept
    <3>7. \A d \in Call : call'[d].at = "create" => call'[d].email \in docs'
      BY <2>1, <2>2, <2>4 DEF PlaceInv, Kept
    <3> QED
      BY <2>1, <3>2, <3>5, <3>6, <3>7 DEF PlaceInv
  <2> QED
    BY <2>2, <2>3, <2>4
<1>8. ASSUME NEW c \in Call, CommitMessage(c) PROVE PlaceInv'
  BY <1>0, <1>8, MessageIsCommitted, PlaceKept DEF CommitMessage, Kept
<1>9. ASSUME NEW c \in Call, MailMessage(c) PROVE PlaceInv'
  BY <1>0, <1>9, MessageIsMailed, PlaceKept DEF MailMessage, database, Kept
<1>10. ASSUME NEW c \in Call, Push(c) PROVE PlaceInv'
  <2>1. UNCHANGED <<docs, created, call>> /\ pushing' = pushing \ {c} /\ c \in pushing
    BY <1>10 DEF Push
  <2>2. c \in ToSet(created) /\ call[c].email \in Email /\ call[c].email \in docs
    BY <1>0, <2>1 DEF MessageInv, CallInv, PlaceInv
  <2>3. CASE UNCHANGED listed
    BY <2>1, <2>3 DEF PlaceInv
  <2>4. CASE listed' = [listed EXCEPT ![RoomOf(c)] = Append(@, c)]
    <3>1. listed \in [Email -> Seq(Call)]
      BY DEF TypeInv
    <3>2. ASSUME NEW e \in Email, e # call[c].email PROVE listed'[e] = listed[e]
      BY <2>4, <3>1, <3>2 DEF RoomOf
    <3> DEFINE r == call[c].email
    <3>3. listed'[r] = Append(listed[r], c)
      BY <2>2, <2>4, <3>1 DEF RoomOf
    <3>4. listed[r] \in Seq(Call) /\ IsInjective(listed[r]) /\ c \notin ToSet(listed[r])
      BY <2>1, <2>2, <3>1 DEF PlaceInv
    <3>5. IsInjective(listed'[r]) /\ ToSet(listed'[r]) = ToSet(listed[r]) \cup {c}
      BY <3>3, <3>4, AppendOnce, ToSetAppend
    <3>6. \A e \in Email : IsInjective(listed'[e]) /\ (listed'[e] # <<>> => e \in docs)
      BY <2>2, <3>2, <3>5 DEF PlaceInv
    <3>7. \A e \in Email, d \in pushing' : d \notin ToSet(listed'[e])
      BY <2>1, <3>2, <3>5 DEF PlaceInv
    <3> QED
      BY <2>1, <3>6, <3>7 DEF PlaceInv
  <2> QED
    BY <1>10, <2>3, <2>4 DEF Push
<1>11. CASE UNCHANGED vars
  BY <1>0, <1>11, PlaceKept DEF vars
<1> QED
  BY <1>1, <1>2, <1>3, <1>4, <1>5, <1>6, <1>7, <1>8, <1>9, <1>10, <1>11 DEF Next, Begin, Step

\* The places are right in every state (chat.gateway.ts, contact.service.ts).
THEOREM Placed == Spec => []PlaceInv
<1>1. Init => PlaceInv
  BY DEF Init, PlaceInv, ToSet, IsInjective, Idle
<1>2. IInv /\ PlaceInv /\ [Next]_vars => PlaceInv'
  BY PlaceNext DEF IInv
<1> QED
  BY <1>1, <1>2, Inductive, PTL DEF Spec

-----------------------------------------------------------------------------
(* Pages.                                                                  *)

\* A message has one place in the order of createdAt.
LEMMA Places ==
  ASSUME TypeInv, PlaceInv, NEW m \in ToSet(created)
  PROVE  Place(m) \in DOMAIN created /\ created[Place(m)] = m /\ Place(m) \in Int
  BY DEF Place, ToSet, TypeInv, PlaceInv

\* sort shows every message once, in the order of createdAt.
LEMMA Sorted ==
  ASSUME TypeInv, PlaceInv, NEW S, S \subseteq ToSet(created)
  PROVE  /\ IsFiniteSet(S) /\ Cardinality(S) \in Nat
         /\ ByCreatedAt(S) \in [1 .. Cardinality(S) -> S]
         /\ \A x \in S : \E i \in 1 .. Cardinality(S) : ByCreatedAt(S)[i] = x
         /\ \A i, j \in 1 .. Cardinality(S) : i < j => Place(ByCreatedAt(S)[i]) < Place(ByCreatedAt(S)[j])
<1>1. created \in Surjection(1 .. Len(created), ToSet(created)) /\ Len(created) \in Nat
  <2>1. created \in Seq(Call)
    BY DEF TypeInv
  <2>2. Len(created) \in Nat /\ DOMAIN created = 1 .. Len(created) /\ created = [i \in 1 .. Len(created) |-> created[i]]
    BY <2>1
  <2> QED
    BY <2>2 DEF Surjection, ToSet
<1>2. IsFiniteSet(ToSet(created))
  BY <1>1, FS_Interval, FS_Surjection
<1>3. IsFiniteSet(S) /\ Cardinality(S) \in Nat
  BY <1>2, FS_Subset, FS_CardinalityType
<1> DEFINE key == [x \in S |-> Place(x)]
<1>4. PICK s : InOrder(s, S, key)
  <2>1. \A x \in S : key[x] \in Int
    BY Places
  <2> HIDE DEF key
  <2> QED
    BY <1>3, <2>1, Sorting
<1>5. s \in [1 .. Cardinality(S) -> S] /\ \A i, j \in 1 .. Cardinality(S) : i # j => s[i] # s[j]
  BY <1>4 DEF InOrder
<1>6. ASSUME NEW i \in 1 .. Cardinality(S), NEW j \in 1 .. Cardinality(S), i < j
      PROVE  Place(s[i]) < Place(s[j])
  <2>1. s[i] \in S /\ s[j] \in S /\ s[i] # s[j]
    BY <1>3, <1>5, <1>6
  <2>2. Place(s[i]) # Place(s[j]) /\ Place(s[i]) \in Int /\ Place(s[j]) \in Int
    BY <2>1, Places
  <2>3. Place(s[i]) <= Place(s[j])
    BY <1>4, <1>6, <2>1 DEF InOrder
  <2> QED
    BY <2>2, <2>3
<1> DEFINE t == ByCreatedAt(S)
<1>7. t \in SetToSeqs(S) /\ \A i, j \in DOMAIN t : i < j => Place(t[i]) < Place(t[j])
  <2>1. s \in SetToSeqs(S) /\ \A i, j \in DOMAIN s : i < j => Place(s[i]) < Place(s[j])
    BY <1>5, <1>6 DEF SetToSeqs
  <2> QED
    BY <2>1 DEF ByCreatedAt
<1>8. t \in [1 .. Cardinality(S) -> S] /\ \A i, j \in 1 .. Cardinality(S) : i # j => t[i] # t[j]
  BY <1>7 DEF SetToSeqs
<1> HIDE DEF t
<1>9. \A x \in S : \E i \in 1 .. Cardinality(S) : t[i] = x
  BY <1>3, <1>8, ShowsAll
<1> QED
  BY <1>3, <1>7, <1>8, <1>9 DEF t

\* The ids of a room and the messages it lists.
LEMMA Listed ==
  ASSUME IInv, PlaceInv, NEW e \in Email
  PROVE  /\ ToSet(listed[e]) \subseteq ToSet(created)
         /\ Len(listed[e]) \in Nat
         /\ Cardinality(ToSet(listed[e])) = Len(listed[e])
<1>1. listed[e] \in Seq(Call)
  BY DEF IInv, TypeInv
<1>2. Len(listed[e]) \in Nat /\ DOMAIN listed[e] = 1 .. Len(listed[e])
      /\ listed[e] = [i \in 1 .. Len(listed[e]) |-> listed[e][i]]
  BY <1>1
<1>3. listed[e] \in Surjection(1 .. Len(listed[e]), ToSet(listed[e]))
  BY <1>2 DEF Surjection, ToSet
<1>4. listed[e] \in Injection(1 .. Len(listed[e]), ToSet(listed[e]))
  BY <1>3 DEF Injection, Surjection, PlaceInv
<1>5. Cardinality(ToSet(listed[e])) = Len(listed[e])
  BY <1>2, <1>3, <1>4, FS_Surjection, FS_Interval
<1>6. ToSet(listed[e]) \subseteq ToSet(created)
  BY <1>1 DEF IInv, MessageInv, ToSet
<1> QED
  BY <1>2, <1>5, <1>6

\* A page of a room that lists committed messages only.
LEMMA PageShows ==
  ASSUME IInv, PlaceInv, NEW e \in Email, ToSet(listed[e]) \subseteq stored, NEW page \in Nat \ {0},
         NEW n, n = Len(listed[e]), NEW s, s = ByCreatedAt(ToSet(listed[e])), NEW from, from = Skip(n, page)
  PROVE  /\ from \in Nat
         /\ from = IF n >= page * Limit THEN n - page * Limit ELSE 0
         /\ \A x : x \in ToSet(GetRoomMessages(e, page)) <=>
                   (\E i \in 1 .. n : from < i /\ i <= from + Limit /\ s[i] = x)
<1>1. Messages(e) = ToSet(listed[e])
  BY DEF Messages
<1>2. n \in Nat /\ Cardinality(ToSet(listed[e])) = n
  BY Listed
<1>3. s \in [1 .. n -> ToSet(listed[e])]
  BY <1>2, Listed, Sorted DEF IInv
<1>4. Len(s) = n /\ s \in Seq(ToSet(listed[e]))
  BY <1>2, <1>3
<1>5. Limit \in Nat \ {0} /\ page * Limit \in Nat
  BY Multiples, ChatGatewayAssumption
<1>6. from \in Nat /\ from = IF n >= page * Limit THEN n - page * Limit ELSE 0
  BY <1>2, <1>5 DEF Skip
<1>7. GetRoomMessages(e, page) = PageOf(s, from, Limit)
  BY <1>1, <1>4 DEF GetRoomMessages, PageOf
<1> DEFINE shown == PageOf(s, from, Limit)
<1>8. \A x : (\E i \in DOMAIN shown : shown[i] = x) <=>
             (\E i \in 1 .. n : from < i /\ i <= from + Limit /\ s[i] = x)
  <2>1. ShowsAfter(shown, s, from, Limit)
    BY <1>4, <1>5, <1>6, SkipAndLimit
  <2> HIDE DEF shown
  <2> QED
    BY <1>4, <2>1 DEF ShowsAfter
<1> HIDE DEF shown
<1>9. \A x : x \in ToSet(shown) <=> \E i \in DOMAIN shown : shown[i] = x
  BY DEF ToSet
<1> QED
  BY <1>6, <1>7, <1>8, <1>9 DEF shown

\* What the pages of a room show, and what they do not.
ShownIn(e) == UNION {ToSet(GetRoomMessages(e, page)) : page \in Pages(e)}
MissedIn(e) == ToSet(listed[e]) \ ShownIn(e)

\* The pages of a room show its messages but the oldest, fewer than a page has.
LEMMA RoomIsShown ==
  ASSUME IInv, PlaceInv, NEW e \in Email, ToSet(listed[e]) \subseteq stored
  PROVE  /\ Cardinality(MissedIn(e)) < Limit
         /\ \A m \in MissedIn(e), n \in ShownIn(e) :
              \E i, j \in DOMAIN created : i < j /\ created[i] = m /\ created[j] = n
<1> DEFINE n == Len(listed[e])
           S == ToSet(listed[e])
           s == ByCreatedAt(S)
           q == n \div Limit
           k == n - q * Limit
           P == 1 .. (IF q >= 1 THEN q ELSE 1)
           shown == ShownIn(e)
           missed == MissedIn(e)
<1>1. Limit \in Nat \ {0} /\ n \in Nat /\ Cardinality(S) = n /\ S \subseteq ToSet(created)
  BY Listed, ChatGatewayAssumption
<1>2. q \in Nat /\ q * Limit \in Nat /\ k \in Nat /\ k < Limit /\ n = q * Limit + k
  <2>1. q \in Nat /\ q * Limit \in Nat /\ q * Limit <= n /\ n < q * Limit + Limit
    BY <1>1, Division
  <2> HIDE DEF n, q
  <2> QED
    BY <1>1, <2>1
<1>3. Pages(e) = P
  <2>1. Messages(e) = S
    BY DEF Messages
  <2>2. Pages(e) = 1 .. Max({1, q})
    BY <1>1, <2>1, Zenon DEF Pages
  <2> HIDE DEF q
  <2>3. Max({1, q}) = IF 1 >= q THEN 1 ELSE q
    BY <1>2, MaxOfTwo
  <2> QED
    BY <1>2, <2>2, <2>3
<1>4. /\ s \in [1 .. n -> S]
      /\ \A x \in S : \E i \in 1 .. n : s[i] = x
      /\ \A i, j \in 1 .. n : i < j => Place(s[i]) < Place(s[j])
  BY <1>1, Sorted DEF IInv
<1> DEFINE From(page) == IF n >= page * Limit THEN n - page * Limit ELSE 0
<1>5. ASSUME NEW page \in P
      PROVE  \A x : x \in ToSet(GetRoomMessages(e, page)) <=>
                    (\E i \in 1 .. n : From(page) < i /\ i <= From(page) + Limit /\ s[i] = x)
  <2>1. page \in Nat \ {0}
    BY <1>2
  <2> QED
    BY <2>1, PageShows
<1>0. /\ \A x : x \in shown <=> \E page \in Pages(e) : x \in ToSet(GetRoomMessages(e, page))
      /\ \A x : x \in missed <=> x \in S /\ x \notin shown
  BY DEF ShownIn, MissedIn
<1> HIDE DEF n, S, s, q, P, shown, missed
<1>6. ASSUME NEW i \in 1 .. n, s[i] \notin shown PROVE q >= 1 /\ i <= k
  <2>1. \A page \in P : ~ (From(page) < i /\ i <= From(page) + Limit)
    BY <1>0, <1>3, <1>5, <1>6
  <2>2. q >= 1
    <3> SUFFICES ASSUME q = 0 PROVE FALSE
      BY <1>2
    <3>1. 1 \in P /\ n < Limit
      BY <1>1, <1>2 DEF P
    <3>2. From(1) = 0
      BY <1>1, <3>1
    <3> QED
      BY <1>1, <2>1, <3>1, <3>2
  <2>3. ASSUME i > k PROVE FALSE
    <3> DEFINE d == (n - i) \div Limit
    <3>1. d \in Nat /\ d * Limit \in Nat /\ d * Limit <= n - i /\ n - i < d * Limit + Limit
      BY <1>1, Division
    <3> HIDE DEF d
    <3>2. d < q
      <4>1. ASSUME q <= d PROVE FALSE
        <5>1. q * Limit <= d * Limit
          BY <1>1, <1>2, <3>1, <4>1, Multiples
        <5> QED
          BY <1>1, <1>2, <2>3, <3>1, <5>1
      <4> QED
        BY <1>2, <3>1, <4>1
    <3>3. (d + 1) * Limit = d * Limit + Limit
      BY <1>1, <3>1, Z3
    <3>4. (d + 1) * Limit <= q * Limit
      BY <1>1, <1>2, <3>1, <3>2, <3>3, Multiples
    <3>5. From(d + 1) = n - (d * Limit + Limit) /\ n >= d * Limit + Limit
      BY <1>1, <1>2, <3>1, <3>3, <3>4
    <3>6. d + 1 \in P
      BY <1>2, <3>1, <3>2 DEF P
    <3>7. From(d + 1) < i /\ i <= From(d + 1) + Limit
      BY <1>1, <3>1, <3>5
    <3> QED
      BY <2>1, <3>6, <3>7
  <2> QED
    BY <1>1, <1>2, <2>2, <2>3
<1>7. ASSUME NEW i \in 1 .. n, s[i] \in shown, q >= 1 PROVE i > k
  <2>1. PICK page \in P : s[i] \in ToSet(GetRoomMessages(e, page))
    BY <1>0, <1>3, <1>7
  <2>2. PICK j \in 1 .. n : s[i] = s[j] /\ From(page) < j
    BY <1>5, <2>1
  <2>3. i = j
    <3>1. s[i] \in ToSet(created)
      BY <1>1, <1>4
    <3>2. Place(s[i]) \in Int
      BY <3>1, Places DEF IInv
    <3> QED
      BY <1>1, <1>4, <2>2, <3>2
  <2>4. page \in Nat /\ page <= q
    BY <1>2, <1>7 DEF P
  <2>5. page * Limit <= q * Limit /\ page * Limit \in Nat
    BY <1>1, <1>2, <2>4, Multiples
  <2>6. From(page) = n - page * Limit
    BY <1>1, <1>2, <2>5
  <2> QED
    BY <1>1, <1>2, <2>2, <2>3, <2>5, <2>6
<1>8. shown \subseteq S
  BY <1>0, <1>3, <1>4, <1>5
<1>9. Cardinality(missed) < Limit
  <2>1. ASSUME NEW m \in missed PROVE \E i \in 1 .. k : s[i] = m
    <3>1. PICK i \in 1 .. n : s[i] = m
      BY <1>0, <1>4
    <3> QED
      BY <1>0, <1>2, <1>6, <3>1
  <2> HIDE DEF k
  <2>2. Cardinality(missed) <= k /\ Cardinality(missed) \in Nat
    BY <1>2, <2>1, Before
  <2> QED
    BY <1>1, <1>2, <2>2
<1>10. ASSUME NEW m \in missed, NEW x \in shown
       PROVE  \E i, j \in DOMAIN created : i < j /\ created[i] = m /\ created[j] = x
  <2>1. PICK i \in 1 .. n : s[i] = m
    BY <1>0, <1>4
  <2>2. PICK j \in 1 .. n : s[j] = x
    BY <1>4, <1>8
  <2>3. q >= 1 /\ i <= k
    BY <1>0, <1>6, <2>1
  <2>4. j > k
    BY <1>7, <2>2, <2>3
  <2>5. Place(m) < Place(x)
    BY <1>1, <1>2, <1>4, <2>1, <2>2, <2>3, <2>4
  <2>6. m \in ToSet(created) /\ x \in ToSet(created)
    BY <1>1, <1>4, <2>1, <2>2
  <2> QED
    BY <2>5, <2>6, Places DEF IInv
<1> QED
  BY <1>9, <1>10 DEF shown, missed

\* The rooms that list a message, as the database gives them, and a page of them.
Filled == {r \in docs : listed[r] # <<>>}

LEMMA PageOfRooms ==
  ASSUME NEW page \in Int PROVE GetChatRooms(page) = PageOf(SetToSeq(Filled), (page - 1) * RoomLimit, RoomLimit)
  BY DEF GetChatRooms, PageOf, Filled

\* The pages of the rooms show every room that lists a message.
LEMMA RoomsAreShown ==
  ASSUME PlaceInv, NEW e \in Email, listed[e] # <<>>
  PROVE  \E page \in RoomPages : e \in ToSet(GetChatRooms(page))
<1> DEFINE filled == Filled
           t == SetToSeq(filled)
           n == Cardinality(filled)
           total == Cardinality(docs)
           L == RoomLimit
<1>1. L \in Nat \ {0}
  BY ChatGatewayAssumption
<1>2. e \in filled /\ IsFiniteSet(filled) /\ n \in Nat /\ total \in Nat /\ n <= total
  BY FS_Subset, FS_CardinalityType DEF PlaceInv, Filled
<1>3. t \in [1 .. n -> filled] /\ IsInjective(t)
  <2>1. \E f \in [1 .. n -> filled] : IsInjective(f)
    BY <1>2, FS_CardinalityType DEF ExistsBijection, Bijection, Injection
  <2> QED
    BY <2>1 DEF SetToSeq
<1> HIDE DEF t
<1>4. PICK i \in 1 .. n : t[i] = e
  <2>1. \A j, h \in 1 .. n : j # h => t[j] # t[h]
    BY <1>3 DEF IsInjective
  <2> HIDE DEF filled
  <2> QED
    BY <1>2, <1>3, <2>1, ShowsAll
<1>5. Len(t) = n /\ t \in Seq(filled)
  <2> HIDE DEF filled, n
  <2> QED
    BY <1>2, <1>3
<1> HIDE DEF L, n, total, filled
<1> DEFINE d == (i - 1) \div L
<1>6. d \in Nat /\ d * L \in Nat /\ d * L <= i - 1 /\ i - 1 < d * L + L
  BY <1>1, <1>2, <1>4, Division
<1> HIDE DEF d
<1> DEFINE pages == (total + L - 1) \div L
<1>7. pages \in Nat /\ pages * L \in Nat /\ total + L - 1 < pages * L + L
  <2>1. total + L - 1 \in Nat
    BY <1>1, <1>2
  <2> QED
    BY <1>1, <2>1, Division
<1> HIDE DEF pages
<1>8. d + 1 <= pages
  <2>1. ASSUME pages <= d PROVE FALSE
    <3>1. pages * L <= d * L
      BY <1>1, <1>6, <1>7, <2>1, Multiples
    <3> QED
      BY <1>1, <1>2, <1>4, <1>6, <1>7, <3>1
  <2> QED
    BY <1>6, <1>7, <2>1
<1>9. d + 1 \in RoomPages
  <2>1. Max({1, pages}) = IF 1 >= pages THEN 1 ELSE pages
    BY <1>7, MaxOfTwo
  <2>2. RoomPages = 1 .. Max({1, pages})
    BY DEF RoomPages, pages, total, L
  <2> QED
    BY <1>6, <1>7, <1>8, <2>1, <2>2
<1>10. e \in ToSet(GetChatRooms(d + 1))
  <2> DEFINE page == PageOf(t, d * L, L)
  <2>1. GetChatRooms(d + 1) = PageOf(t, (d + 1 - 1) * L, L)
    <3> HIDE DEF page
    <3>1. GetChatRooms(d + 1) = PageOf(SetToSeq(Filled), (d + 1 - 1) * RoomLimit, RoomLimit)
      BY <1>6, PageOfRooms
    <3> QED
      BY <3>1, Zenon DEF filled, t, L
  <2>2. GetChatRooms(d + 1) = page
    <3>1. d + 1 - 1 = d
      BY <1>6
    <3> QED
      BY <2>1, <3>1
  <2>3. \A x : (\E j \in DOMAIN page : page[j] = x) <=>
               (\E j \in 1 .. n : d * L < j /\ j <= d * L + L /\ t[j] = x)
    <3> DEFINE from == d * L
    <3>1. ShowsAfter(page, t, from, L)
      BY <1>1, <1>5, <1>6, SkipAndLimit
    <3> HIDE DEF page, from
    <3>2. \A x : (\E j \in DOMAIN page : page[j] = x) <=>
                 (\E j \in 1 .. n : from < j /\ j <= from + L /\ t[j] = x)
      BY <1>5, <3>1 DEF ShowsAfter
    <3> QED
      BY <3>2 DEF from
  <2>4. d * L < i /\ i <= d * L + L
    BY <1>1, <1>2, <1>4, <1>6
  <2> HIDE DEF page
  <2>5. \E j \in DOMAIN page : page[j] = e
    BY <1>4, <2>3, <2>4
  <2> QED
    BY <2>2, <2>5 DEF ToSet
<1> QED
  BY <1>9, <1>10

\* Whatever pushes were late or lost, the pages of the rooms show every room that
\* lists a message, and those of a room all messages but fewer than a page of
\* its oldest, unless it lists one that was never committed (getChatRooms,
\* getRoomMessages).
THEOREM PagesAreAlwaysComplete == Spec => []PagesAreComplete
<1>1. IInv /\ PlaceInv => PagesAreComplete
  <2> SUFFICES ASSUME IInv, PlaceInv PROVE PagesAreComplete
    OBVIOUS
  <2>1. ASSUME NEW e \in Email, listed[e] # <<>>
        PROVE  \E page \in RoomPages : e \in ToSet(GetChatRooms(page))
    BY <2>1, RoomsAreShown, Zenon
  <2>2. ASSUME NEW e \in Email, ToSet(listed[e]) \subseteq stored
        PROVE  /\ Cardinality(MissedIn(e)) < Limit
               /\ \A m \in MissedIn(e), n \in ShownIn(e) :
                    \E i, j \in DOMAIN created : i < j /\ created[i] = m /\ created[j] = n
    BY <2>2, RoomIsShown, Zenon
  <2> QED
    BY <2>1, <2>2, Zenon DEF PagesAreComplete, MissedIn, ShownIn
<1> QED
  BY <1>1, Inductive, Placed, PTL

=============================================================================
