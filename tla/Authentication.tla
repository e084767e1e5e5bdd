--------------------------- MODULE Authentication ---------------------------
(***************************************************************************)
(* AuthService (auth.service.ts) with what it uses of UserService and the  *)
(* two token services: signing up, in and out, refreshing a token pair,    *)
(* resetting a password, locking.  One account; calls of any kind race.    *)
(*                                                                         *)
(* Reads of the account through the cache are taken from the contract      *)
(* ReadService: one that is not forced gives any committed row.  Commands  *)
(* to Redis go over one connection in order, so that a SET nobody awaits   *)
(* is in force for every command issued after it.                          *)
(***************************************************************************)
EXTENDS Integers

CONSTANTS
  Call,       \* calls; a call names the pair it issues and the code it mails
  Password,   \* passwords; Default is the one of the sign-up
  Default,
  None

Role == {"CUSTOMER", "ADMIN", "OWNER"}
Row == [password : Password, isLocked : BOOLEAN, role : Role]

ASSUME AuthenticationAssumption ==
  /\ Default \in Password
  /\ None \notin Call /\ None \notin Role /\ None \notin Row

Idle == [at |-> "idle"]

VARIABLES
  user,     \* the account in the database
  rows,     \* history: every row the account has had, None included
  call,     \* the local state of each call
  during,   \* history: the rows the account has had since a sign-in began
  pair,     \* the token pair cached for the account, by the call that made it
  issued,   \* the role in each pair that was made
  revoked,  \* the tokens in the revocation lists
  replaced, \* history: pairs a refresh has replaced in the cache
  otp,      \* the cached reset transaction: its code and the address it is for
  mailed,   \* codes that have reached the owner
  spent     \* history: codes with which a finished reset changed the password

vars == <<user, rows, call, during, pair, issued, revoked, replaced, otp, mailed, spent>>
account == <<user, rows, during>>
tokens == <<pair, issued, revoked, replaced>>
codes == <<otp, mailed, spent>>

Init ==
  /\ user \in {None, [password |-> Default, isLocked |-> FALSE, role |-> "CUSTOMER"]}
  /\ rows = {user}
  /\ call = [c \in Call |-> Idle]
  /\ during = [c \in Call |-> {}]
  /\ pair = None
  /\ issued = [c \in Call |-> None]
  /\ revoked = {}
  /\ replaced = {}
  /\ otp = None
  /\ mailed = {}
  /\ spent = {}

Goto(c, state) == call' = [call EXCEPT ![c] = state]
Finish(c, label) == Goto(c, [at |-> label])
At(c, label) == call[c].at = label

Validating(c) == call[c].at \in {"validate", "compare"}

\* A row is committed.
SetUser(row) ==
  /\ user' = row
  /\ rows' = rows \cup {row}
  /\ during' = [c \in Call |-> IF Validating(c) THEN during[c] \cup {row} ELSE during[c]]

\* A call begins; what it is told is chosen freely.
Start(c, state) ==
  /\ At(c, "idle")
  /\ Goto(c, state)
  /\ during' = [during EXCEPT ![c] = IF state.at = "validate" THEN {user} ELSE {}]
  /\ UNCHANGED <<user, rows, tokens, codes>>

\* decodeToken gives a payload.  Mutant: it is not asked for.
DecodesAny(t) == t \in Call
Decodes(t) == issued[t] # None

\* The guards of the routes let a decodable token through, revoked or not: what
\* they test of isRevoked is its promise, which is never false.
LetThrough(t) == Decodes(t)

\* The routes of AuthController.  signUpAdmin, and a lock of another account, come
\* with a token of an account that is not modelled.
Begin(c) ==
  \/ \E role \in {"CUSTOMER", "ADMIN"} : Start(c, [at |-> "signUp", role |-> role])
  \/ Start(c, [at |-> "signUpAdmin"])
  \/ \E p \in Password : Start(c, [at |-> "validate", password |-> p])
  \/ \E t \in Call : LetThrough(t) /\ Start(c, [at |-> "signOut"])
  \/ \E t \in Call : LetThrough(t) /\ Start(c, [at |-> "refresh", token |-> t])
  \/ Start(c, [at |-> "forgot"])
  \/ \E code \in mailed, here \in BOOLEAN, p \in Password :
       Start(c, [at |-> "reset", code |-> code, here |-> here, password |-> p, spent |-> spent])
  \/ \E t \in Call, lock \in BOOLEAN : LetThrough(t) /\ Start(c, [at |-> "lockSelf", lock |-> lock])
  \/ \E lock \in BOOLEAN, role \in Role : Start(c, [at |-> "lockOther", lock |-> lock, role |-> role])

Others == <<tokens, codes>>

-----------------------------------------------------------------------------
(* createUser, signUp, signUpAdmin.                                        *)

\* hashPassword, then create; the unique index refuses a second account.
\* signUp mails without waiting.
SignUp(c) ==
  /\ At(c, "signUp")
  /\ IF user = None
     THEN /\ SetUser([password |-> Default, isLocked |-> FALSE, role |-> call[c].role])
          /\ Finish(c, "done")
     ELSE Finish(c, "refused") /\ UNCHANGED account
  /\ UNCHANGED Others

\* An account that is found becomes an administrator's and keeps its password,
\* otherwise one is created.
SignUpAdmin(c) ==
  /\ At(c, "signUpAdmin")
  /\ \E row \in rows :
       Goto(c, IF row = None THEN [at |-> "signUp", role |-> "ADMIN"] ELSE [at |-> "promote"])
  /\ UNCHANGED <<account, Others>>

Promote(c) ==
  /\ At(c, "promote")
  /\ SetUser([user EXCEPT !.role = "ADMIN"])
  /\ Finish(c, "done")
  /\ UNCHANGED Others

-----------------------------------------------------------------------------
(* validateUser (the local strategy), then signIn.                         *)

\* What validateUser's find may give.
\* Mutant: it is not forced.
ForcedRowsNot == rows
ForcedRows == {user}

ValidateUser(c) ==
  /\ At(c, "validate")
  /\ \E row \in ForcedRows : Goto(c, [at |-> "compare", password |-> call[c].password, row |-> row])
  /\ UNCHANGED <<account, Others>>

Accepts(row, password) == row # None /\ ~row.isLocked /\ row.password = password

Compare(c) ==
  /\ At(c, "compare")
  /\ IF Accepts(call[c].row, call[c].password)
     THEN Goto(c, [at |-> "signIn", row |-> call[c].row])
     ELSE Finish(c, "refused")
  /\ UNCHANGED <<account, Others>>

\* find again, not forced: the row the role of a new pair is taken from.
SignIn(c) ==
  /\ At(c, "signIn")
  /\ \E row \in rows \ {None} : Goto(c, [at |-> "pair", row |-> call[c].row, role |-> row.role])
  /\ UNCHANGED <<account, Others>>

\* getCachedTokenPair: the cached pair is the answer, revoked or not.
AnswerPair(c) ==
  /\ At(c, "pair")
  /\ Goto(c, IF pair # None THEN [at |-> "in", row |-> call[c].row] ELSE [call[c] EXCEPT !.at = "issue"])
  /\ UNCHANGED <<account, Others>>

\* There was none: a new one is cached, over one that another call may have
\* cached meanwhile, and nobody waits for it.
IssuePair(c) ==
  /\ At(c, "issue")
  /\ pair' = c
  /\ issued' = [issued EXCEPT ![c] = call[c].role]
  /\ Goto(c, [at |-> "in", row |-> call[c].row])
  /\ UNCHANGED <<account, revoked, replaced, codes>>

-----------------------------------------------------------------------------
(* revokeTokenPair: signOut and refreshToken.                              *)

SignOut(c) ==
  /\ At(c, "signOut")
  /\ IF pair = None THEN Finish(c, "done") ELSE Goto(c, [at |-> "revoke", token |-> pair])
  /\ UNCHANGED <<account, Others>>

\* The GET of the revocation is issued before the SET of the new pair.
\* Mutant: the new pair is cached first.
ToRevokeNew(c) == c
ToRevoke(c) == pair

\* The caller is answered without waiting for the revocation, and the role is
\* copied from the token.
RefreshToken(c) ==
  /\ At(c, "refresh")
  /\ issued' = [issued EXCEPT ![c] = issued[call[c].token]]
  /\ replaced' = IF pair = None THEN replaced ELSE replaced \cup {pair}
  /\ pair' = c
  /\ IF ToRevoke(c) = None THEN Finish(c, "done") ELSE Goto(c, [at |-> "revoke", token |-> ToRevoke(c)])
  /\ UNCHANGED <<account, revoked, codes>>

\* revokeToken of each service: a token is listed until it expires.
RevokeAccess(t) == {<<"access", t>>}
RevokeRefresh(t) == {<<"refresh", t>>}
Tokens(t) == {"access", "refresh"} \X {t}

\* Both tokens are listed; the cached pair stays cached.
RevokeTokenPair(c) ==
  /\ At(c, "revoke")
  /\ revoked' = revoked \cup RevokeAccess(call[c].token) \cup RevokeRefresh(call[c].token)
  /\ Finish(c, "done")
  /\ UNCHANGED <<account, pair, issued, replaced, codes>>

-----------------------------------------------------------------------------
(* forgotPassword and resetPassword.                                       *)

ForgotPassword(c) ==
  /\ At(c, "forgot")
  /\ \E row \in rows :
       IF row = None
       THEN Finish(c, "refused") /\ UNCHANGED otp
       ELSE otp' = c /\ Finish(c, "mail")
  /\ UNCHANGED <<account, tokens, mailed, spent>>

\* SMTP answers or fails; the mail may arrive in both cases.
MailCode(c) ==
  /\ At(c, "mail")
  /\ mailed' \in {mailed, mailed \cup {c}}
  /\ \E label \in {"done", "refused"} : (label = "done" => c \in mailed') /\ Finish(c, label)
  /\ UNCHANGED <<account, tokens, otp, spent>>

CheckCode(c) ==
  /\ At(c, "reset")
  /\ IF otp # None /\ otp = call[c].code /\ call[c].here
     THEN Goto(c, [call[c] EXCEPT !.at = "update"])
     ELSE Finish(c, "refused")
  /\ UNCHANGED <<account, Others>>

\* findAndUpdateUser, after the hash.
UpdatePassword(c) ==
  /\ At(c, "update")
  /\ SetUser([user EXCEPT !.password = call[c].password])
  /\ Goto(c, [call[c] EXCEPT !.at = "spend"])
  /\ UNCHANGED Others

\* revokeResetPasswordTransaction deletes whatever transaction is cached now.
\* Mutant: it is left to its ttl.
RevokeTransactionNot == otp
RevokeTransaction == None

SpendCode(c) ==
  /\ At(c, "spend")
  /\ otp' = RevokeTransaction
  /\ spent' = spent \cup {call[c].code}
  /\ Goto(c, [at |-> "reset done", code |-> call[c].code, spent |-> call[c].spent])
  /\ UNCHANGED <<account, tokens, mailed>>

-----------------------------------------------------------------------------
(* changeAccountLockStatus.                                                *)

\* The two cached reads; only an owner locks an administrator.
LockOther(c) ==
  /\ At(c, "lockOther")
  /\ \E row \in rows :
       IF row # None /\ (row.role = "ADMIN" => call[c].role = "OWNER")
       THEN Goto(c, [at |-> "lockSelf", lock |-> call[c].lock])
       ELSE Finish(c, "refused")
  /\ UNCHANGED <<account, Others>>

UpdateLock(c) ==
  /\ At(c, "lockSelf")
  /\ IF user = None
     THEN UNCHANGED account
     ELSE SetUser([user EXCEPT !.isLocked = call[c].lock])
  /\ Finish(c, "done")
  /\ UNCHANGED Others

-----------------------------------------------------------------------------
(* Times that run out in Redis.                                            *)

Expire ==
  /\ \/ pair # None /\ pair' = None /\ UNCHANGED otp
     \/ otp # None /\ otp' = None /\ UNCHANGED pair
  /\ UNCHANGED <<account, call, issued, revoked, replaced, mailed, spent>>

Step(c) ==
  \/ SignUp(c) \/ SignUpAdmin(c) \/ Promote(c)
  \/ ValidateUser(c) \/ Compare(c) \/ SignIn(c) \/ AnswerPair(c) \/ IssuePair(c)
  \/ SignOut(c) \/ RefreshToken(c) \/ RevokeTokenPair(c)
  \/ ForgotPassword(c) \/ MailCode(c) \/ CheckCode(c) \/ UpdatePassword(c) \/ SpendCode(c)
  \/ LockOther(c) \/ UpdateLock(c)

Next == (\E c \in Call : Begin(c) \/ Step(c)) \/ Expire

Spec == Init /\ [][Next]_vars

\* The event loop resumes every call; Redis and MongoDB answer.
Fairness == \A c \in Call : WF_vars(Step(c))
FairSpec == Spec /\ Fairness

-----------------------------------------------------------------------------
(* Safety.                                                                 *)

\* Every variable stays in its domain, and the cached pair was issued.
TypeOK ==
  /\ user \in Row \cup {None}
  /\ rows \subseteq Row \cup {None} /\ user \in rows
  /\ \A c \in Call : during[c] \subseteq rows
  /\ issued \in [Call -> Role \cup {None}]
  /\ \A t \in replaced \cup ({pair} \ {None}) : issued[t] # None
  /\ \A token \in revoked : token[1] \in {"access", "refresh"} /\ issued[token[2]] # None
  /\ otp \in Call \cup {None}
  /\ spent \subseteq mailed /\ mailed \subseteq Call

\* Whoever is signed in gave the password the account had, unlocked, at some
\* time of the call: a change of the password or a lock answered before the
\* call is obeyed, whatever the cache holds (validateUser, signIn).
SignInSeesCurrent ==
  \A c \in Call : At(c, "in") => call[c].row \in during[c] /\ ~call[c].row.isLocked

\* A code with which a reset has finished does not serve a reset that begins
\* later, whatever codes were asked for meanwhile (resetPassword).
CodeServesOnce ==
  \A c \in Call : At(c, "reset done") => call[c].code \notin call[c].spent

(* Liveness. *)

\* Both tokens of a pair that a refresh has replaced in the cache are in the
\* revocation lists in the end, although the refresh answers first
\* (refreshToken).  What is made of the lists is another matter (LetThrough).
ReplacedIsRevoked == \A t \in Call : t \in replaced ~> Tokens(t) \subseteq revoked

=============================================================================
