------------------------- MODULE AuthenticationProofs -----------------------
(* Type correctness and safety of Authentication, for any calls and passwords. *)
EXTENDS Authentication, TLAPS

-----------------------------------------------------------------------------
(* The local state of a call, by where it is.                              *)

Plain == [at : {"idle", "signUpAdmin", "promote", "signOut", "forgot", "mail", "done", "refused"}]
SigningUp == [at : {"signUp"}, role : Role]
Asking == [at : {"validate"}, password : Password]
Comparing == [at : {"compare"}, password : Password, row : Row \cup {None}]
SignedIn == [at : {"signIn", "in"}, row : Row]
Pairing == [at : {"pair", "issue"}, row : Row, role : Role]
WithToken == [at : {"refresh", "revoke"}, token : Call]
Resetting ==
  [at : {"reset", "update", "spend"}, code : Call, here : BOOLEAN, password : Password, spent : SUBSET Call]
WasReset == [at : {"reset done"}, code : Call, spent : SUBSET Call]
Locking == [at : {"lockSelf"}, lock : BOOLEAN]
LockingOther == [at : {"lockOther"}, lock : BOOLEAN, role : Role]

CallState ==
  Plain \cup SigningUp \cup Asking \cup Comparing \cup SignedIn \cup Pairing \cup WithToken
    \cup Resetting \cup WasReset \cup Locking \cup LockingOther

\* Where a call is tells the shape of its local state.
LEMMA StateAt ==
  ASSUME NEW s \in CallState
  PROVE  /\ s.at = "signUp" => s \in SigningUp
         /\ s.at = "validate" => s \in Asking
         /\ s.at = "compare" => s \in Comparing
         /\ s.at \in {"signIn", "in"} => s \in SignedIn
         /\ s.at \in {"pair", "issue"} => s \in Pairing
         /\ s.at \in {"refresh", "revoke"} => s \in WithToken
         /\ s.at \in {"reset", "update", "spend"} => s \in Resetting
         /\ s.at = "reset done" => s \in WasReset
         /\ s.at = "lockSelf" => s \in Locking
         /\ s.at = "lockOther" => s \in LockingOther
  BY DEF CallState, Plain, SigningUp, Asking, Comparing, SignedIn, Pairing, WithToken, Resetting,
         WasReset, Locking, LockingOther

\* The call goes from one place to another, and no other call moves.
Moved(c, from, to) ==
  /\ call[c].at = from
  /\ call' \in [Call -> CallState]
  /\ call'[c].at \in to
  /\ \A d \in Call \ {c} : call'[d] = call[d]

\* Goto moves one call and gives it the state named.
LEMMA GotoMoves ==
  ASSUME call \in [Call -> CallState], NEW c \in Call, NEW s \in CallState, Goto(c, s)
  PROVE  /\ Moved(c, call[c].at, {s.at})
         /\ call'[c] = s
  BY DEF Goto, Moved

\* Finish ends one call.
LEMMA FinishMoves ==
  ASSUME call \in [Call -> CallState], NEW c \in Call,
         NEW l \in {"mail", "done", "refused"}, Finish(c, l)
  PROVE  Moved(c, call[c].at, {l})
<1> DEFINE s == [at |-> l]
<1>1. s \in CallState /\ s.at = l
  BY DEF CallState, Plain
<1>2. Goto(c, s)
  BY DEF Finish
<1> HIDE DEF s
<1>. QED
  BY <1>1, <1>2, GotoMoves

-----------------------------------------------------------------------------
(* Types.                                                                  *)

AccountInv ==
  /\ user \in Row \cup {None}
  /\ rows \in SUBSET (Row \cup {None})
  /\ user \in rows
  /\ user = None => rows = {None}
  /\ during \in [Call -> SUBSET rows]

TokenInv ==
  /\ pair \in Call \cup {None}
  /\ issued \in [Call -> Role \cup {None}]
  /\ replaced \in SUBSET Call
  /\ revoked \in SUBSET ({"access", "refresh"} \X Call)
  /\ pair # None => issued[pair] # None
  /\ \A t \in replaced : issued[t] # None
  /\ \A token \in revoked : issued[token[2]] # None
  /\ \A c \in Call : call[c].at \in {"refresh", "revoke"} => issued[call[c].token] # None

CodeInv ==
  /\ otp \in Call \cup {None}
  /\ mailed \in SUBSET Call
  /\ spent \in SUBSET mailed
  /\ \A c \in mailed : call[c].at \in {"done", "refused"}
  /\ otp \notin spent
  /\ \A c \in Call :
       /\ call[c].at \in {"reset", "update", "spend"} => call[c].code \in mailed
       /\ call[c].at = "reset" => call[c].spent \subseteq spent
       /\ call[c].at \in {"update", "spend", "reset done"} => call[c].code \notin call[c].spent

\* Codes are for an account.
OwnerInv ==
  /\ otp # None \/ mailed # {} => user # None
  /\ \A c \in Call : call[c].at \in {"promote", "mail", "reset", "update"} => user # None

SignInInv ==
  \A c \in Call :
    /\ call[c].at = "validate" => user \in during[c]
    /\ call[c].at = "compare" => call[c].row \in during[c]
    /\ call[c].at \in {"signIn", "pair", "issue", "in"} => call[c].row \in during[c] /\ ~call[c].row.isLocked

Calls == call \in [Call -> CallState]
IInv == Calls /\ AccountInv /\ TokenInv /\ CodeInv /\ OwnerInv /\ SignInInv

\* The invariant holds at the start.
LEMMA InvInit == Init => IInv
<1> SUFFICES ASSUME Init PROVE IInv
  OBVIOUS
<1>1. Calls /\ \A c \in Call : call[c].at = "idle"
  BY DEF Init, Calls, Idle, CallState, Plain
<1>2. AccountInv
  <2>1. user \in Row \cup {None}
    <3>1. [password |-> Default, isLocked |-> FALSE, role |-> "CUSTOMER"] \in Row
      BY AuthenticationAssumption DEF Row, Role
    <3>. QED
      BY <3>1 DEF Init
  <2>2. during \in [Call -> SUBSET rows]
    BY DEF Init
  <2>. QED
    BY <2>1, <2>2 DEF Init, AccountInv
<1>3. TokenInv
  BY <1>1 DEF Init, TokenInv
<1>4. CodeInv
  BY <1>1 DEF Init, CodeInv
<1>5. OwnerInv /\ SignInInv
  BY <1>1 DEF Init, OwnerInv, SignInInv
<1>. QED
  BY <1>1, <1>2, <1>3, <1>4, <1>5 DEF IInv

-----------------------------------------------------------------------------
(* Steps that leave a part of the state alone.                             *)

\* A step that leaves the account leaves its invariant.
LEMMA AccountKept ==
  ASSUME AccountInv, UNCHANGED account
  PROVE  AccountInv'
  BY DEF AccountInv, account

\* A write to the account leaves a row there, and among the rows of every call.
LEMMA AccountSet ==
  ASSUME AccountInv, NEW row \in Row, SetUser(row)
  PROVE  AccountInv' /\ user' # None
<1>1. user' = row /\ rows' = rows \cup {row} /\ row # None
  BY AuthenticationAssumption DEF SetUser
<1>2. \A c \in Call : during[c] \subseteq rows'
  BY <1>1 DEF AccountInv
<1>3. during' \in [Call -> SUBSET rows']
  BY <1>1, <1>2 DEF SetUser
<1>. QED
  BY <1>1, <1>3 DEF AccountInv

\* A step that leaves the tokens, of a call that takes none up, leaves theirs.
LEMMA TokensKept ==
  ASSUME TokenInv, UNCHANGED tokens, NEW c \in Call, NEW from, NEW to, Moved(c, from, to),
         to \cap {"refresh", "revoke"} = {}
  PROVE  TokenInv'
<1>1. UNCHANGED <<pair, issued, revoked, replaced>>
  BY DEF tokens
<1>2. \A d \in Call : call'[d].at \in {"refresh", "revoke"} => issued[call'[d].token] # None
  BY DEF TokenInv, Moved
<1>. QED
  BY <1>1, <1>2 DEF TokenInv

\* So for the codes,
LEMMA CodesKept ==
  ASSUME CodeInv, UNCHANGED codes, NEW c \in Call, NEW from, NEW to, Moved(c, from, to),
         from \notin {"done", "refused"}, to \cap {"reset", "update", "spend", "reset done"} = {}
  PROVE  CodeInv'
<1>1. UNCHANGED <<otp, mailed, spent>>
  BY DEF codes
<1>2. \A d \in mailed : call'[d].at \in {"done", "refused"}
  BY DEF CodeInv, Moved
<1>3. \A d \in Call :
        /\ call'[d].at \in {"reset", "update", "spend"} => call'[d].code \in mailed
        /\ call'[d].at = "reset" => call'[d].spent \subseteq spent
        /\ call'[d].at \in {"update", "spend", "reset done"} => call'[d].code \notin call'[d].spent
  BY DEF CodeInv, Moved
<1>. QED
  BY <1>1, <1>2, <1>3 DEF CodeInv

\* for what presupposes an account,
LEMMA OwnerKept ==
  ASSUME OwnerInv, UNCHANGED <<otp, mailed>>, user # None => user' # None,
         NEW c \in Call, NEW from, NEW to, Moved(c, from, to),
         to \cap {"promote", "mail", "reset", "update"} = {}
  PROVE  OwnerInv'
<1>1. ASSUME NEW d \in Call, call'[d].at \in {"promote", "mail", "reset", "update"}
      PROVE  user' # None
  BY <1>1 DEF OwnerInv, Moved
<1>. QED
  BY <1>1 DEF OwnerInv

\* and for the rows of calls that sign in.
LEMMA SignInKept ==
  ASSUME SignInInv, UNCHANGED <<user, during>>, NEW c \in Call, NEW from, NEW to, Moved(c, from, to),
         to \cap {"validate", "compare", "signIn", "pair", "issue", "in"} = {}
  PROVE  SignInInv'
  BY DEF SignInInv, Moved

\* A row that is committed meanwhile is one the account has during the call.
LEMMA SignInSet ==
  ASSUME SignInInv, AccountInv, NEW row, SetUser(row), NEW c \in Call, NEW from, NEW to,
         Moved(c, from, to), to \cap {"validate", "compare", "signIn", "pair", "issue", "in"} = {}
  PROVE  SignInInv'
<1>1. /\ user' = row
      /\ \A d \in Call : during'[d] = IF Validating(d) THEN during[d] \cup {row} ELSE during[d]
  BY DEF SetUser
<1>2. ASSUME NEW d \in Call, d # c
      PROVE  /\ call'[d] = call[d] /\ during[d] \subseteq during'[d]
             /\ call[d].at = "validate" => row \in during'[d]
  BY <1>1, <1>2 DEF Moved, Validating
<1>3. call'[c].at \notin {"validate", "compare", "signIn", "pair", "issue", "in"}
  BY DEF Moved
<1>. QED
  BY <1>1, <1>2, <1>3 DEF SignInInv

-----------------------------------------------------------------------------
(* What each step does to its call.                                        *)

\* What createUser does to its call.
LEMMA SignUpStep ==
  ASSUME IInv, NEW c \in Call, SignUp(c)
  PROVE  /\ Moved(c, "signUp", {"done", "refused"})
         /\ UNCHANGED account \/ \E row \in Row : SetUser(row)
<1>1. Calls /\ call[c].at = "signUp"
  BY DEF IInv, SignUp, At
<1>2. call[c].role \in Role
  <2>1. call[c] \in SigningUp
    BY <1>1, StateAt DEF Calls
  <2>. QED
    BY <2>1 DEF SigningUp
<1>3. [password |-> Default, isLocked |-> FALSE, role |-> call[c].role] \in Row
  BY <1>2, AuthenticationAssumption DEF Row
<1>4. \E l \in {"done", "refused"} : Finish(c, l)
  BY DEF SignUp
<1>5. Moved(c, "signUp", {"done", "refused"})
  BY <1>1, <1>4, FinishMoves DEF Calls, Moved
<1>6. UNCHANGED account \/ SetUser([password |-> Default, isLocked |-> FALSE, role |-> call[c].role])
  BY DEF SignUp
<1>. QED
  BY <1>3, <1>5, <1>6

\* What the update of the role does.
LEMMA PromoteStep ==
  ASSUME IInv, NEW c \in Call, Promote(c)
  PROVE  Moved(c, "promote", {"done"}) /\ \E row \in Row : SetUser(row)
<1>1. Calls /\ call[c].at = "promote"
  BY DEF IInv, Promote, At
<1>2. Moved(c, "promote", {"done"})
  BY <1>1, FinishMoves DEF Promote, Calls
<1>3. user \in Row
  BY <1>1 DEF IInv, AccountInv, OwnerInv
<1>4. [user EXCEPT !.role = "ADMIN"] \in Row
  BY <1>3 DEF Row, Role
<1>. QED
  BY <1>2, <1>4 DEF Promote

\* What the update of a reset password does: the code is kept for its removal.
LEMMA UpdatePasswordStep ==
  ASSUME IInv, NEW c \in Call, UpdatePassword(c)
  PROVE  /\ Moved(c, "update", {"spend"}) /\ \E row \in Row : SetUser(row)
         /\ call'[c].code = call[c].code /\ call'[c].spent = call[c].spent
<1>1. Calls /\ call[c].at = "update"
  BY DEF IInv, UpdatePassword, At
<1>2. call[c] \in Resetting
  BY <1>1, StateAt DEF Calls
<1> DEFINE s == [call[c] EXCEPT !.at = "spend"]
<1>3. s \in Resetting /\ s.at = "spend" /\ s.code = call[c].code /\ s.spent = call[c].spent
  BY <1>2 DEF Resetting
<1>4. s \in CallState
  BY <1>3 DEF CallState
<1>5. Goto(c, s)
  BY DEF UpdatePassword
<1> HIDE DEF s
<1>6. Moved(c, "update", {"spend"}) /\ call'[c] = s
  BY <1>1, <1>3, <1>4, <1>5, GotoMoves DEF Calls
<1>7. user \in Row /\ call[c].password \in Password
  BY <1>1, <1>2 DEF IInv, AccountInv, OwnerInv, Resetting
<1>8. [user EXCEPT !.password = call[c].password] \in Row
  BY <1>7 DEF Row
<1>. QED
  BY <1>3, <1>6, <1>8 DEF UpdatePassword

\* The test of a code lets pass only the one that is cached.
LEMMA CheckCodeStep ==
  ASSUME IInv, NEW c \in Call, CheckCode(c)
  PROVE  \/ Moved(c, "reset", {"refused"})
         \/ /\ Moved(c, "reset", {"update"})
            /\ call[c].code = otp /\ call'[c].code = otp /\ call'[c].spent = call[c].spent
<1>1. Calls /\ call[c].at = "reset"
  BY DEF IInv, CheckCode, At
<1>2. CASE Finish(c, "refused")
  BY <1>1, <1>2, FinishMoves DEF Calls
<1>3. CASE otp = call[c].code /\ Goto(c, [call[c] EXCEPT !.at = "update"])
  <2>1. call[c] \in Resetting
    BY <1>1, StateAt DEF Calls
  <2> DEFINE s == [call[c] EXCEPT !.at = "update"]
  <2>2. s \in Resetting /\ s.at = "update" /\ s.code = call[c].code /\ s.spent = call[c].spent
    BY <2>1 DEF Resetting
  <2>3. s \in CallState
    BY <2>2 DEF CallState
  <2>4. Goto(c, s)
    BY <1>3
  <2> HIDE DEF s
  <2>5. Moved(c, "reset", {"update"}) /\ call'[c] = s
    BY <1>1, <2>2, <2>3, <2>4, GotoMoves DEF Calls
  <2>. QED
    BY <1>3, <2>2, <2>5
<1>. QED
  BY <1>2, <1>3 DEF CheckCode

\* The removal of a code that has served.
LEMMA SpendCodeStep ==
  ASSUME IInv, NEW c \in Call, SpendCode(c)
  PROVE  /\ Moved(c, "spend", {"reset done"})
         /\ call'[c].code = call[c].code /\ call'[c].spent = call[c].spent
<1>1. Calls /\ call[c].at = "spend"
  BY DEF IInv, SpendCode, At
<1>2. call[c].code \in Call /\ call[c].spent \in SUBSET Call
  <2>1. call[c] \in Resetting
    BY <1>1, StateAt DEF Calls
  <2>. QED
    BY <2>1 DEF Resetting
<1> DEFINE s == [at |-> "reset done", code |-> call[c].code, spent |-> call[c].spent]
<1>3. s \in CallState /\ s.at = "reset done" /\ s.code = call[c].code /\ s.spent = call[c].spent
  BY <1>2 DEF CallState, WasReset
<1>4. Goto(c, s)
  BY DEF SpendCode
<1> HIDE DEF s
<1>. QED
  BY <1>1, <1>3, <1>4, GotoMoves DEF Calls

\* Who goes on to revoke, revokes the pair that was cached.
LEMMA ToRevokeStep ==
  ASSUME IInv, NEW c \in Call, SignOut(c) \/ RefreshToken(c)
  PROVE  /\ Moved(c, IF At(c, "signOut") THEN "signOut" ELSE "refresh", {"done", "revoke"})
         /\ call'[c].at = "revoke" => pair # None /\ call'[c].token = pair
<1>1. Calls /\ call[c].at \in {"signOut", "refresh"}
  BY DEF IInv, SignOut, RefreshToken, At
<1>2. CASE Finish(c, "done")
  BY <1>1, <1>2, FinishMoves DEF Calls, At, Moved
<1>3. CASE pair # None /\ Goto(c, [at |-> "revoke", token |-> pair])
  <2> DEFINE s == [at |-> "revoke", token |-> pair]
  <2>1. pair \in Call
    BY <1>3 DEF IInv, TokenInv
  <2>2. s \in CallState /\ s.at = "revoke" /\ s.token = pair
    BY <2>1 DEF CallState, WithToken
  <2>3. Goto(c, s)
    BY <1>3
  <2> HIDE DEF s
  <2>. QED
    BY <1>1, <1>3, <2>2, <2>3, GotoMoves DEF Calls, At, Moved
<1>. QED
  BY <1>2, <1>3 DEF SignOut, RefreshToken, ToRevoke

\* The steps of a sign-in keep the row that was compared.
LEMMA ValidateUserStep ==
  ASSUME IInv, NEW c \in Call, ValidateUser(c)
  PROVE  Moved(c, "validate", {"compare"}) /\ call'[c].row = user
<1>1. Calls /\ call[c].at = "validate"
  BY DEF IInv, ValidateUser, At
<1>2. call[c] \in Asking
  BY <1>1, StateAt DEF Calls
<1> DEFINE s == [at |-> "compare", password |-> call[c].password, row |-> user]
<1>3. user \in Row \cup {None} /\ call[c].password \in Password
  BY <1>2 DEF IInv, AccountInv, Asking
<1>4. s \in CallState /\ s.at = "compare" /\ s.row = user
  BY <1>3 DEF CallState, Comparing
<1>5. Goto(c, s)
  BY DEF ValidateUser, ForcedRows
<1> HIDE DEF s
<1>. QED
  BY <1>1, <1>4, <1>5, GotoMoves DEF Calls

\* Who passes the comparison is not locked.
LEMMA CompareStep ==
  ASSUME IInv, NEW c \in Call, Compare(c)
  PROVE  \/ Moved(c, "compare", {"refused"})
         \/ Moved(c, "compare", {"signIn"}) /\ call'[c].row = call[c].row /\ ~call[c].row.isLocked
<1>1. Calls /\ call[c].at = "compare"
  BY DEF IInv, Compare, At
<1>2. CASE Finish(c, "refused")
  BY <1>1, <1>2, FinishMoves DEF Calls
<1>3. CASE Accepts(call[c].row, call[c].password) /\ Goto(c, [at |-> "signIn", row |-> call[c].row])
  <2> DEFINE s == [at |-> "signIn", row |-> call[c].row]
  <2>1. call[c] \in Comparing
    BY <1>1, StateAt DEF Calls
  <2>2. call[c].row \in Row /\ ~call[c].row.isLocked
    BY <1>3, <2>1 DEF Accepts, Comparing
  <2>3. s \in CallState /\ s.at = "signIn" /\ s.row = call[c].row
    BY <2>2 DEF CallState, SignedIn
  <2>4. Goto(c, s)
    BY <1>3
  <2> HIDE DEF s
  <2>. QED
    BY <1>1, <2>2, <2>3, <2>4, GotoMoves DEF Calls
<1>. QED
  BY <1>2, <1>3 DEF Compare

\* The role is read from another row; the one that was compared stays in hand.
LEMMA SignInStep ==
  ASSUME IInv, NEW c \in Call, SignIn(c)
  PROVE  Moved(c, "signIn", {"pair"}) /\ call'[c].row = call[c].row
<1>1. Calls /\ call[c].at = "signIn"
  BY DEF IInv, SignIn, At
<1>2. PICK row \in rows \ {None} : Goto(c, [at |-> "pair", row |-> call[c].row, role |-> row.role])
  BY DEF SignIn
<1> DEFINE s == [at |-> "pair", row |-> call[c].row, role |-> row.role]
<1>3. call[c] \in SignedIn /\ row \in Row
  BY <1>1, StateAt DEF Calls, IInv, AccountInv
<1>4. call[c].row \in Row /\ row.role \in Role
  BY <1>3 DEF SignedIn, Row
<1>5. s \in CallState /\ s.at = "pair" /\ s.row = call[c].row
  BY <1>4 DEF CallState, Pairing
<1>6. Goto(c, s)
  BY <1>2
<1> HIDE DEF s
<1>. QED
  BY <1>1, <1>5, <1>6, GotoMoves DEF Calls

\* A cached pair is the answer; without one the call goes on to issue it.
LEMMA AnswerPairStep ==
  ASSUME IInv, NEW c \in Call, AnswerPair(c)
  PROVE  (Moved(c, "pair", {"in"}) \/ Moved(c, "pair", {"issue"})) /\ call'[c].row = call[c].row
<1>1. Calls /\ call[c].at = "pair"
  BY DEF IInv, AnswerPair, At
<1>2. call[c] \in Pairing
  BY <1>1, StateAt DEF Calls
<1>3. CASE Goto(c, [at |-> "in", row |-> call[c].row])
  <2> DEFINE s == [at |-> "in", row |-> call[c].row]
  <2>1. s \in CallState /\ s.at = "in" /\ s.row = call[c].row
    BY <1>2 DEF CallState, SignedIn, Pairing
  <2>2. Goto(c, s)
    BY <1>3
  <2> HIDE DEF s
  <2>. QED
    BY <1>1, <2>1, <2>2, GotoMoves DEF Calls
<1>4. CASE Goto(c, [call[c] EXCEPT !.at = "issue"])
  <2> DEFINE s == [call[c] EXCEPT !.at = "issue"]
  <2>1. s \in Pairing /\ s.at = "issue" /\ s.row = call[c].row
    BY <1>2 DEF Pairing
  <2>2. s \in CallState
    BY <2>1 DEF CallState
  <2>3. Goto(c, s)
    BY <1>4
  <2> HIDE DEF s
  <2>. QED
    BY <1>1, <2>1, <2>2, <2>3, GotoMoves DEF Calls
<1>. QED
  BY <1>3, <1>4 DEF AnswerPair

\* The call that issues a pair has one of the roles.
LEMMA IssuePairStep ==
  ASSUME IInv, NEW c \in Call, IssuePair(c)
  PROVE  Moved(c, "issue", {"in"}) /\ call'[c].row = call[c].row /\ call[c].role \in Role
<1>1. Calls /\ call[c].at = "issue"
  BY DEF IInv, IssuePair, At
<1>2. call[c] \in Pairing
  BY <1>1, StateAt DEF Calls
<1>3. call[c].row \in Row /\ call[c].role \in Role
  BY <1>2 DEF Pairing
<1> DEFINE s == [at |-> "in", row |-> call[c].row]
<1>4. s \in CallState /\ s.at = "in" /\ s.row = call[c].row
  BY <1>3 DEF CallState, SignedIn
<1>5. Goto(c, s)
  BY DEF IssuePair
<1> HIDE DEF s
<1>. QED
  BY <1>1, <1>3, <1>4, <1>5, GotoMoves DEF Calls

\* signUpAdmin goes on to sign up, or to promote an account there is.
LEMMA SignUpAdminStep ==
  ASSUME IInv, NEW c \in Call, SignUpAdmin(c)
  PROVE  \/ Moved(c, "signUpAdmin", {"signUp"})
         \/ Moved(c, "signUpAdmin", {"promote"}) /\ user # None
<1>1. Calls /\ call[c].at = "signUpAdmin"
  BY DEF IInv, SignUpAdmin, At
<1>2. CASE Goto(c, [at |-> "signUp", role |-> "ADMIN"])
  <2> DEFINE s == [at |-> "signUp", role |-> "ADMIN"]
  <2>1. s \in CallState /\ s.at = "signUp"
    BY DEF CallState, SigningUp, Role
  <2>2. Goto(c, s)
    BY <1>2
  <2> HIDE DEF s
  <2>. QED
    BY <1>1, <2>1, <2>2, GotoMoves DEF Calls
<1>3. CASE user # None /\ Goto(c, [at |-> "promote"])
  <2> DEFINE s == [at |-> "promote"]
  <2>1. s \in CallState /\ s.at = "promote"
    BY DEF CallState, Plain
  <2>2. Goto(c, s)
    BY <1>3
  <2> HIDE DEF s
  <2>. QED
    BY <1>1, <1>3, <2>1, <2>2, GotoMoves DEF Calls
<1>4. ASSUME NEW row \in rows, row # None PROVE user # None
  BY <1>4 DEF IInv, AccountInv
<1>. QED
  BY <1>2, <1>3, <1>4 DEF SignUpAdmin

\* lockUser tests the account, then goes on or refuses.
LEMMA LockOtherStep ==
  ASSUME IInv, NEW c \in Call, LockOther(c)
  PROVE  Moved(c, "lockOther", {"refused", "lockSelf"})
<1>1. Calls /\ call[c].at = "lockOther"
  BY DEF IInv, LockOther, At
<1>2. CASE Finish(c, "refused")
  BY <1>1, <1>2, FinishMoves DEF Calls, Moved
<1>3. CASE Goto(c, [at |-> "lockSelf", lock |-> call[c].lock])
  <2> DEFINE s == [at |-> "lockSelf", lock |-> call[c].lock]
  <2>1. call[c] \in LockingOther
    BY <1>1, StateAt DEF Calls
  <2>2. call[c].lock \in BOOLEAN
    BY <2>1 DEF LockingOther
  <2>3. s \in CallState /\ s.at = "lockSelf"
    BY <2>2 DEF CallState, Locking
  <2>4. Goto(c, s)
    BY <1>3
  <2> HIDE DEF s
  <2>. QED
    BY <1>1, <2>3, <2>4, GotoMoves DEF Calls, Moved
<1>. QED
  BY <1>2, <1>3 DEF LockOther

\* What the update of the lock does.
LEMMA UpdateLockStep ==
  ASSUME IInv, NEW c \in Call, UpdateLock(c)
  PROVE  /\ Moved(c, "lockSelf", {"done"})
         /\ UNCHANGED account \/ \E row \in Row : SetUser(row)
<1>1. Calls /\ call[c].at = "lockSelf"
  BY DEF IInv, UpdateLock, At
<1>2. call[c] \in Locking
  BY <1>1, StateAt DEF Calls
<1>3. call[c].lock \in BOOLEAN
  BY <1>2 DEF Locking
<1>4. user # None => [user EXCEPT !.isLocked = call[c].lock] \in Row
  BY <1>3 DEF IInv, AccountInv, Row
<1>5. Moved(c, "lockSelf", {"done"})
  BY <1>1, FinishMoves DEF UpdateLock, Calls
<1>. QED
  BY <1>4, <1>5 DEF UpdateLock

\* A call begins with a token that was issued or a code that was mailed.
Places == {"signUp", "signUpAdmin", "validate", "signOut", "refresh", "forgot", "reset", "lockSelf", "lockOther"}

\* A call begins at its route's first step, with a token that was issued.
LEMMA BeginStep ==
  ASSUME IInv, NEW c \in Call, Begin(c)
  PROVE  \E s \in CallState :
           /\ Start(c, s) /\ s.at \in Places
           /\ s.at = "refresh" => issued[s.token] # None
           /\ s.at = "reset" => s.code \in mailed /\ s.spent = spent
<1>1. CASE \E role \in {"CUSTOMER", "ADMIN"} : Start(c, [at |-> "signUp", role |-> role])
  <2>1. PICK role \in {"CUSTOMER", "ADMIN"} : Start(c, [at |-> "signUp", role |-> role])
    BY <1>1
  <2>2. [at |-> "signUp", role |-> role] \in CallState
    BY DEF CallState, SigningUp, Role
  <2>. QED
    BY <2>1, <2>2 DEF Places
<1>2. ASSUME NEW l \in {"signUpAdmin", "signOut", "forgot"}, Start(c, [at |-> l])
      PROVE  \E s \in CallState : Start(c, s) /\ s.at = l
  <2>1. [at |-> l] \in CallState
    BY DEF CallState, Plain
  <2>. QED
    BY <1>2, <2>1
<1>3. CASE \E p \in Password : Start(c, [at |-> "validate", password |-> p])
  <2>1. PICK p \in Password : Start(c, [at |-> "validate", password |-> p])
    BY <1>3
  <2>2. [at |-> "validate", password |-> p] \in CallState
    BY DEF CallState, Asking
  <2>. QED
    BY <2>1, <2>2 DEF Places
<1>4. CASE \E t \in Call : LetThrough(t) /\ Start(c, [at |-> "refresh", token |-> t])
  <2>1. PICK t \in Call : LetThrough(t) /\ Start(c, [at |-> "refresh", token |-> t])
    BY <1>4
  <2>2. [at |-> "refresh", token |-> t] \in CallState
    BY DEF CallState, WithToken
  <2>. QED
    BY <2>1, <2>2 DEF Places, LetThrough, Decodes
<1>5. CASE \E code \in mailed, here \in BOOLEAN, p \in Password :
             Start(c, [at |-> "reset", code |-> code, here |-> here, password |-> p, spent |-> spent])
  <2>1. PICK code \in mailed, here \in BOOLEAN, p \in Password :
          Start(c, [at |-> "reset", code |-> code, here |-> here, password |-> p, spent |-> spent])
    BY <1>5
  <2>2. code \in Call /\ spent \in SUBSET Call
    BY DEF IInv, CodeInv
  <2>3. [at |-> "reset", code |-> code, here |-> here, password |-> p, spent |-> spent] \in CallState
    BY <2>2 DEF CallState, Resetting
  <2>. QED
    BY <2>1, <2>3 DEF Places
<1>6. CASE \E t \in Call, lock \in BOOLEAN : LetThrough(t) /\ Start(c, [at |-> "lockSelf", lock |-> lock])
  <2>1. PICK lock \in BOOLEAN : Start(c, [at |-> "lockSelf", lock |-> lock])
    BY <1>6
  <2>2. [at |-> "lockSelf", lock |-> lock] \in CallState
    BY DEF CallState, Locking
  <2>. QED
    BY <2>1, <2>2 DEF Places
<1>7. CASE \E lock \in BOOLEAN, role \in Role : Start(c, [at |-> "lockOther", lock |-> lock, role |-> role])
  <2>1. PICK lock \in BOOLEAN, role \in Role : Start(c, [at |-> "lockOther", lock |-> lock, role |-> role])
    BY <1>7
  <2>2. [at |-> "lockOther", lock |-> lock, role |-> role] \in CallState
    BY DEF CallState, LockingOther
  <2>. QED
    BY <2>1, <2>2 DEF Places
<1>8. CASE Start(c, [at |-> "signUpAdmin"])
  BY <1>2, <1>8 DEF Places
<1>9. CASE \E t \in Call : LetThrough(t) /\ Start(c, [at |-> "signOut"])
  <2>1. Start(c, [at |-> "signOut"])
    BY <1>9
  <2>. QED
    BY <1>2, <2>1 DEF Places
<1>10. CASE Start(c, [at |-> "forgot"])
  BY <1>2, <1>10 DEF Places
<1>. QED
  BY <1>1, <1>3, <1>4, <1>5, <1>6, <1>7, <1>8, <1>9, <1>10 DEF Begin

-----------------------------------------------------------------------------
(* Every step keeps the invariant.                                         *)

\* A step of one call that touches neither tokens nor codes, nor the sign-ins'
\* rows.
LEMMA OthersKept ==
  ASSUME IInv, UNCHANGED Others, NEW c \in Call, NEW from, NEW to, Moved(c, from, to),
         from \notin {"done", "refused"}, to \subseteq {"signUp", "lockSelf", "done", "refused"},
         UNCHANGED account \/ \E row \in Row : SetUser(row)
  PROVE  IInv'
<1>1. UNCHANGED tokens /\ UNCHANGED codes /\ UNCHANGED <<otp, mailed>>
  BY DEF Others, codes
<1>2. AccountInv' /\ (user # None => user' # None)
  BY AccountKept, AccountSet DEF IInv, account
<1>3. Calls' /\ TokenInv' /\ CodeInv' /\ OwnerInv'
  BY <1>1, <1>2, TokensKept, CodesKept, OwnerKept DEF IInv, Calls, Moved
<1>4. SignInInv'
  <2>1. CASE UNCHANGED account
    BY <2>1, SignInKept DEF IInv, account
  <2>2. CASE \E row \in Row : SetUser(row)
    BY <2>2, SignInSet DEF IInv
  <2>. QED
    BY <2>1, <2>2
<1>. QED
  BY <1>2, <1>3, <1>4 DEF IInv

\* The token a call is about was issued.
LEMMA TokenIsIssued ==
  ASSUME IInv, NEW c \in Call, call[c].at \in {"refresh", "revoke"}
  PROVE  call[c].token \in Call /\ issued[call[c].token] # None
<1>1. call[c] \in WithToken
  BY StateAt DEF IInv, Calls
<1>. QED
  BY <1>1 DEF WithToken, IInv, TokenInv

\* A route is called.
LEMMA BeginInv == ASSUME IInv, NEW c \in Call, Begin(c) PROVE IInv'
<1>1. PICK s \in CallState :
        /\ Start(c, s) /\ s.at \in Places
        /\ s.at = "refresh" => issued[s.token] # None
        /\ s.at = "reset" => s.code \in mailed /\ s.spent = spent
  BY BeginStep
<1>2. Moved(c, "idle", {s.at}) /\ call'[c] = s
  BY <1>1, GotoMoves DEF Start, At, IInv, Calls, Moved
<1>3. /\ UNCHANGED <<user, rows, pair, issued, revoked, replaced, otp, mailed, spent>>
      /\ during' = [during EXCEPT ![c] = IF s.at = "validate" THEN {user} ELSE {}]
  BY <1>1 DEF Start, tokens, codes
<1>4. AccountInv'
  BY <1>3 DEF IInv, AccountInv
<1>5. TokenInv'
  <2>1. \A d \in Call : call'[d].at \in {"refresh", "revoke"} => issued[call'[d].token] # None
    BY <1>1, <1>2 DEF IInv, TokenInv, Moved, Places
  <2>. QED
    BY <1>3, <2>1 DEF IInv, TokenInv
<1>6. CodeInv'
  <2>1. \A d \in mailed : call'[d].at \in {"done", "refused"}
    BY <1>2 DEF IInv, CodeInv, Moved
  <2>2. ASSUME NEW d \in Call
        PROVE  /\ call'[d].at \in {"reset", "update", "spend"} => call'[d].code \in mailed
               /\ call'[d].at = "reset" => call'[d].spent \subseteq spent
               /\ call'[d].at \in {"update", "spend", "reset done"} => call'[d].code \notin call'[d].spent
    BY <1>1, <1>2 DEF IInv, CodeInv, Moved, Places
  <2>. QED
    BY <1>3, <2>1, <2>2 DEF IInv, CodeInv
<1>7. OwnerInv'
  <2>1. ASSUME NEW d \in Call, call'[d].at \in {"promote", "mail", "reset", "update"} PROVE user # None
    BY <1>1, <1>2, <2>1 DEF IInv, OwnerInv, Moved, Places
  <2>. QED
    BY <1>3, <2>1 DEF IInv, OwnerInv
<1>8. SignInInv'
  <2>1. ASSUME NEW d \in Call, d # c PROVE call'[d] = call[d] /\ during'[d] = during[d]
    BY <1>2, <1>3, <2>1 DEF Moved, IInv, AccountInv
  <2>2. /\ call'[c].at \notin {"compare", "signIn", "pair", "issue", "in"}
        /\ call'[c].at = "validate" => user \in during'[c]
    BY <1>1, <1>2, <1>3 DEF Places, IInv, AccountInv
  <2>. QED
    BY <1>3, <2>1, <2>2 DEF IInv, SignInInv
<1>. QED
  BY <1>2, <1>4, <1>5, <1>6, <1>7, <1>8 DEF IInv, Calls, Moved

\* A sign-up for an administrator takes one of its branches;
LEMMA SignUpAdminInv == ASSUME IInv, NEW c \in Call, SignUpAdmin(c) PROVE IInv'
<1>1. UNCHANGED account /\ UNCHANGED Others
  BY DEF SignUpAdmin
<1>2. CASE Moved(c, "signUpAdmin", {"signUp"})
  BY <1>1, <1>2, OthersKept
<1>3. CASE Moved(c, "signUpAdmin", {"promote"}) /\ user # None
  <2>1. UNCHANGED tokens /\ UNCHANGED codes /\ UNCHANGED <<otp, mailed, user, during>>
    BY <1>1 DEF Others, codes, account
  <2>2. AccountInv' /\ SignInInv'
    BY <1>1, <1>3, <2>1, AccountKept, SignInKept DEF IInv
  <2>3. TokenInv'
    BY <1>3, <2>1, TokensKept DEF IInv
  <2>4. CodeInv'
    <3>1. {"promote"} \cap {"reset", "update", "spend", "reset done"} = {}
      OBVIOUS
    <3>2. CodeInv /\ UNCHANGED codes /\ Moved(c, "signUpAdmin", {"promote"})
      BY <1>3, <2>1 DEF IInv
    <3>3. "signUpAdmin" \notin {"done", "refused"}
      OBVIOUS
    <3>. QED
      BY <3>1, <3>2, <3>3, CodesKept
  <2>5. OwnerInv'
    BY <1>3, <2>1 DEF OwnerInv
  <2>. QED
    BY <1>3, <2>2, <2>3, <2>4, <2>5 DEF IInv, Calls, Moved
<1>. QED
  BY <1>2, <1>3, SignUpAdminStep

\* The steps of a sign-in: the row that was read stays one of the call's.
LEMMA SignInSteps ==
  ASSUME IInv, NEW c \in Call, ValidateUser(c) \/ Compare(c) \/ SignIn(c) \/ AnswerPair(c) \/ IssuePair(c)
  PROVE  SignInInv'
<1>1. UNCHANGED <<user, during>>
  BY DEF ValidateUser, Compare, SignIn, AnswerPair, IssuePair, account
<1>2. ASSUME Moved(c, "validate", {"compare"}), call'[c].row = user PROVE SignInInv'
  BY <1>1, <1>2 DEF IInv, SignInInv, Moved
<1>3. ASSUME Moved(c, "compare", {"signIn"}), call'[c].row = call[c].row, ~call[c].row.isLocked
      PROVE  SignInInv'
  BY <1>1, <1>3 DEF IInv, SignInInv, Moved
<1>4. ASSUME NEW from \in {"signIn", "pair", "issue"}, NEW to \in {"pair", "issue", "in"}, Moved(c, from, {to}),
             call'[c].row = call[c].row
      PROVE  SignInInv'
  BY <1>1, <1>4 DEF IInv, SignInInv, Moved
<1>5. ASSUME Moved(c, "compare", {"refused"}) PROVE SignInInv'
  BY <1>1, <1>5, SignInKept DEF IInv
<1>. QED
  BY <1>2, <1>3, <1>4, <1>5, ValidateUserStep, CompareStep, SignInStep, AnswerPairStep, IssuePairStep

\* steps of signing in,
LEMMA SignInStepsInv ==
  ASSUME IInv, NEW c \in Call, ValidateUser(c) \/ Compare(c) \/ SignIn(c) \/ AnswerPair(c) \/ IssuePair(c)
  PROVE  IInv'
<1>1. UNCHANGED account /\ UNCHANGED codes /\ UNCHANGED <<otp, mailed, user>>
  BY DEF ValidateUser, Compare, SignIn, AnswerPair, IssuePair, account, codes, Others
<1>2. PICK from, to : /\ Moved(c, from, to) /\ from \in {"validate", "compare", "signIn", "pair", "issue"}
                      /\ to \subseteq {"compare", "signIn", "pair", "issue", "in", "refused"}
  BY ValidateUserStep, CompareStep, SignInStep, AnswerPairStep, IssuePairStep
<1>3. AccountInv' /\ CodeInv' /\ OwnerInv'
  BY <1>1, <1>2, AccountKept, CodesKept, OwnerKept DEF IInv
<1>4. TokenInv'
  <2>1. CASE UNCHANGED tokens
    BY <1>2, <2>1, TokensKept DEF IInv
  <2>2. CASE /\ IssuePair(c) /\ pair' = c /\ issued' = [issued EXCEPT ![c] = call[c].role]
             /\ UNCHANGED <<revoked, replaced>>
    <3>1. call[c].role \in Role /\ call[c].role # None
      BY <2>2, IssuePairStep, AuthenticationAssumption
    <3>2. issued' \in [Call -> Role \cup {None}] /\ issued'[c] # None
          /\ \A t \in Call : issued[t] # None => issued'[t] # None
      BY <2>2, <3>1 DEF IInv, TokenInv
    <3>3. \A d \in Call : call'[d].at \in {"refresh", "revoke"} => call[d] = call'[d]
      BY <1>2 DEF Moved
    <3>4. \A d \in Call : call[d].at \in {"refresh", "revoke"} => call[d].token \in Call
      BY TokenIsIssued
    <3>5. \A t \in revoked : t[2] \in Call
      BY DEF IInv, TokenInv
    <3>. QED
      BY <2>2, <3>2, <3>3, <3>4, <3>5 DEF IInv, TokenInv
  <2>. QED
    BY <2>1, <2>2 DEF ValidateUser, Compare, SignIn, AnswerPair, IssuePair, Others, tokens
<1>5. SignInInv'
  BY SignInSteps
<1>. QED
  BY <1>2, <1>3, <1>4, <1>5 DEF IInv, Calls, Moved

\* of signing out and refreshing,
LEMMA RevokeInv ==
  ASSUME IInv, NEW c \in Call, SignOut(c) \/ RefreshToken(c) \/ RevokeTokenPair(c)
  PROVE  IInv'
<1>1. UNCHANGED account /\ UNCHANGED codes /\ UNCHANGED <<otp, mailed, user, during>>
  BY DEF SignOut, RefreshToken, RevokeTokenPair, account, codes, Others
<1>2. PICK from \in {"signOut", "refresh", "revoke"} : Moved(c, from, {"done", "revoke"})
  BY ToRevokeStep, FinishMoves DEF RevokeTokenPair, At, IInv, Calls, Moved
<1>3. AccountInv' /\ CodeInv' /\ OwnerInv' /\ SignInInv'
  BY <1>1, <1>2, AccountKept, CodesKept, OwnerKept, SignInKept DEF IInv
<1>4. \A d \in Call : call[d].at \in {"refresh", "revoke"} =>
        call[d].token \in Call /\ issued[call[d].token] # None
  BY TokenIsIssued
<1>5. \A t \in revoked : t[2] \in Call
  BY DEF IInv, TokenInv
<1>6. CASE SignOut(c)
  <2>1. UNCHANGED <<pair, issued, revoked, replaced>>
    BY <1>6 DEF SignOut, Others, tokens
  <2>2. \A d \in Call : call'[d].at \in {"refresh", "revoke"} => issued[call'[d].token] # None
    BY <1>2, <1>4, <1>6, ToRevokeStep DEF IInv, TokenInv, Moved
  <2>3. TokenInv'
    BY <2>1, <2>2 DEF IInv, TokenInv
  <2>. QED
    BY <1>2, <1>3, <2>3 DEF IInv, Calls, Moved
<1>7. CASE RefreshToken(c)
  <2>1. /\ issued' = [issued EXCEPT ![c] = issued[call[c].token]]
        /\ replaced' \subseteq replaced \cup ({pair} \ {None}) /\ pair' = c /\ UNCHANGED revoked
        /\ call[c].at = "refresh"
    BY <1>7 DEF RefreshToken, At
  <2>2. issued' \in [Call -> Role \cup {None}] /\ issued'[c] # None
        /\ \A t \in Call : issued[t] # None => issued'[t] # None
    BY <1>4, <2>1 DEF IInv, TokenInv
  <2>3. ASSUME NEW d \in Call, call'[d].at \in {"refresh", "revoke"}
        PROVE  issued'[call'[d].token] # None
    BY <1>2, <1>4, <1>7, <2>2, <2>3, ToRevokeStep DEF IInv, TokenInv, Moved
  <2>4. TokenInv'
    BY <1>5, <2>1, <2>2, <2>3 DEF IInv, TokenInv
  <2>. QED
    BY <1>2, <1>3, <2>4 DEF IInv, Calls, Moved
<1>8. CASE RevokeTokenPair(c)
  <2>1. /\ call[c].at = "revoke" /\ UNCHANGED <<pair, issued, replaced>>
        /\ revoked' = revoked \cup {<<"access", call[c].token>>} \cup {<<"refresh", call[c].token>>}
    BY <1>8 DEF RevokeTokenPair, At, RevokeAccess, RevokeRefresh
  <2>2. Moved(c, "revoke", {"done"})
    BY <1>8, FinishMoves DEF RevokeTokenPair, At, IInv, Calls
  <2>3. call[c].token \in Call /\ issued[call[c].token] # None
    BY <1>4, <2>1
  <2>4. revoked' \in SUBSET ({"access", "refresh"} \X Call) /\ \A t \in revoked' : issued[t[2]] # None
    BY <2>1, <2>3 DEF IInv, TokenInv
  <2>5. \A d \in Call : call'[d].at \in {"refresh", "revoke"} => issued[call'[d].token] # None
    BY <1>4, <2>2 DEF Moved
  <2>6. TokenInv'
    BY <2>1, <2>4, <2>5 DEF IInv, TokenInv
  <2>. QED
    BY <1>3, <2>2, <2>6 DEF IInv, Calls, Moved
<1>. QED
  BY <1>6, <1>7, <1>8

\* of asking for a code,
LEMMA ForgotInv == ASSUME IInv, NEW c \in Call, ForgotPassword(c) PROVE IInv'
<1>1. UNCHANGED account /\ UNCHANGED tokens /\ UNCHANGED <<mailed, spent, user, during>> /\ call[c].at = "forgot"
  BY DEF ForgotPassword, account, At
<1>2. CASE Finish(c, "refused") /\ UNCHANGED otp
  <2>1. Moved(c, "forgot", {"refused"})
    BY <1>1, <1>2, FinishMoves DEF IInv, Calls
  <2>2. UNCHANGED Others
    BY <1>1, <1>2 DEF Others, codes
  <2>. QED
    BY <1>1, <2>1, <2>2, OthersKept
<1>3. CASE otp' = c /\ Finish(c, "mail") /\ user # None
  <2>1. Moved(c, "forgot", {"mail"})
    BY <1>1, <1>3, FinishMoves DEF IInv, Calls
  <2>2. c \notin mailed
    BY <1>1 DEF IInv, CodeInv
  <2>3. CodeInv'
    BY <1>1, <1>3, <2>1, <2>2 DEF IInv, CodeInv, Moved
  <2>4. OwnerInv'
    BY <1>1, <1>3 DEF OwnerInv
  <2>5. AccountInv' /\ SignInInv'
    BY <1>1, <2>1, AccountKept, SignInKept DEF IInv
  <2>6. TokenInv'
    BY <1>1, <2>1, TokensKept DEF IInv
  <2>. QED
    BY <2>1, <2>3, <2>4, <2>5, <2>6 DEF IInv, Calls, Moved
<1>4. ASSUME NEW row \in rows, row # None PROVE user # None
  BY <1>4 DEF IInv, AccountInv
<1>. QED
  BY <1>2, <1>3, <1>4 DEF ForgotPassword

\* of mailing it: from then on it may be given back,
LEMMA MailInv == ASSUME IInv, NEW c \in Call, MailCode(c) PROVE IInv'
<1>1. /\ UNCHANGED account /\ UNCHANGED tokens /\ UNCHANGED <<otp, spent, user, during>>
      /\ call[c].at = "mail" /\ mailed' \in {mailed, mailed \cup {c}}
  BY DEF MailCode, account, At
<1>2. Moved(c, "mail", {"done", "refused"})
  BY <1>1, FinishMoves DEF MailCode, IInv, Calls, Moved
<1>3. user # None
  BY <1>1 DEF IInv, OwnerInv
<1>4. CodeInv'
  <2>1. \A d \in mailed' : d \in Call /\ call'[d].at \in {"done", "refused"}
    BY <1>1, <1>2 DEF IInv, CodeInv, Moved
  <2>2. \A d \in Call :
          /\ call'[d].at \in {"reset", "update", "spend"} => call'[d].code \in mailed'
          /\ call'[d].at = "reset" => call'[d].spent \subseteq spent
          /\ call'[d].at \in {"update", "spend", "reset done"} => call'[d].code \notin call'[d].spent
    BY <1>1, <1>2 DEF IInv, CodeInv, Moved
  <2>. QED
    BY <1>1, <2>1, <2>2 DEF IInv, CodeInv
<1>5. OwnerInv'
  BY <1>1, <1>3 DEF OwnerInv
<1>6. AccountInv' /\ SignInInv'
  BY <1>1, <1>2, AccountKept, SignInKept DEF IInv
<1>7. TokenInv'
  BY <1>1, <1>2, TokensKept DEF IInv
<1>. QED
  BY <1>2, <1>4, <1>5, <1>6, <1>7 DEF IInv, Calls, Moved

\* of checking it,
LEMMA CheckInv == ASSUME IInv, NEW c \in Call, CheckCode(c) PROVE IInv'
<1>1. UNCHANGED account /\ UNCHANGED Others
  BY DEF CheckCode
<1>2. CASE Moved(c, "reset", {"refused"})
  BY <1>1, <1>2, OthersKept
<1>3. CASE /\ Moved(c, "reset", {"update"})
           /\ call[c].code = otp /\ call'[c].code = otp /\ call'[c].spent = call[c].spent
  <2>1. UNCHANGED tokens /\ UNCHANGED <<otp, mailed, spent, user, during>>
    BY <1>1 DEF Others, codes, account
  <2>2. /\ call'[c].at = "update" /\ call[c].at = "reset"
        /\ call'[c].code \in mailed /\ call'[c].code \notin call'[c].spent
    BY <1>3 DEF IInv, CodeInv, Moved
  <2>3. ASSUME NEW d \in Call, d # c PROVE call'[d] = call[d]
    BY <1>3, <2>3 DEF Moved
  <2>4. CodeInv'
    BY <2>1, <2>2, <2>3 DEF IInv, CodeInv
  <2>5. OwnerInv'
    BY <2>1, <2>2, <2>3 DEF IInv, OwnerInv
  <2>6. AccountInv' /\ SignInInv'
    BY <1>1, <1>3, <2>1, AccountKept, SignInKept DEF IInv
  <2>7. TokenInv'
    BY <1>3, <2>1, TokensKept DEF IInv
  <2>. QED
    BY <1>3, <2>4, <2>5, <2>6, <2>7 DEF IInv, Calls, Moved
<1>. QED
  BY <1>2, <1>3, CheckCodeStep

\* of replacing the password,
LEMMA UpdatePasswordInv == ASSUME IInv, NEW c \in Call, UpdatePassword(c) PROVE IInv'
<1>1. /\ Moved(c, "update", {"spend"}) /\ \E row \in Row : SetUser(row)
      /\ call'[c].code = call[c].code /\ call'[c].spent = call[c].spent
  BY UpdatePasswordStep
<1>2. UNCHANGED tokens /\ UNCHANGED <<otp, mailed, spent>>
  BY DEF UpdatePassword, Others, codes
<1>3. AccountInv' /\ user' # None
  BY <1>1, AccountSet DEF IInv
<1>4. /\ call'[c].at = "spend" /\ call[c].at = "update"
      /\ call'[c].code \in mailed /\ call'[c].code \notin call'[c].spent
  BY <1>1 DEF IInv, CodeInv, Moved
<1>5. ASSUME NEW d \in Call, d # c PROVE call'[d] = call[d]
  BY <1>1, <1>5 DEF Moved
<1>6. CodeInv'
  BY <1>2, <1>4, <1>5 DEF IInv, CodeInv
<1>7. OwnerInv'
  BY <1>3 DEF OwnerInv
<1>8. SignInInv'
  BY <1>1, SignInSet DEF IInv
<1>9. TokenInv'
  BY <1>1, <1>2, TokensKept DEF IInv
<1>. QED
  BY <1>1, <1>3, <1>6, <1>7, <1>8, <1>9 DEF IInv, Calls, Moved

\* and of removing the code.
LEMMA SpendInv == ASSUME IInv, NEW c \in Call, SpendCode(c) PROVE IInv'
<1>1. /\ Moved(c, "spend", {"reset done"})
      /\ call'[c].code = call[c].code /\ call'[c].spent = call[c].spent
  BY SpendCodeStep
<1>2. /\ UNCHANGED account /\ UNCHANGED tokens /\ UNCHANGED <<mailed, user, during>>
      /\ otp' = None /\ spent' = spent \cup {call[c].code}
  BY DEF SpendCode, RevokeTransaction, account
<1>3. /\ call[c].at = "spend" /\ call'[c].at = "reset done"
      /\ call[c].code \in mailed /\ call'[c].code \notin call'[c].spent
  BY <1>1 DEF IInv, CodeInv, Moved
<1>4. ASSUME NEW d \in Call, d # c PROVE call'[d] = call[d]
  BY <1>1, <1>4 DEF Moved
<1>5. CodeInv'
  <2>1. spent' \in SUBSET mailed /\ None \notin spent'
    BY <1>2, <1>3, AuthenticationAssumption DEF IInv, CodeInv
  <2>. QED
    BY <1>2, <1>3, <1>4, <2>1 DEF IInv, CodeInv
<1>6. OwnerInv'
  BY <1>2, <1>3, <1>4 DEF IInv, OwnerInv
<1>7. AccountInv' /\ SignInInv'
  BY <1>1, <1>2, AccountKept, SignInKept DEF IInv
<1>8. TokenInv'
  BY <1>1, <1>2, TokensKept DEF IInv
<1>. QED
  BY <1>1, <1>5, <1>6, <1>7, <1>8 DEF IInv, Calls, Moved

\* Redis drops the code or the pair.
LEMMA ExpireInv == ASSUME IInv, Expire PROVE IInv'
<1>1. /\ UNCHANGED <<user, rows, during, call, issued, revoked, replaced, mailed, spent>>
      /\ pair' \in {pair, None} /\ otp' \in {otp, None}
  BY DEF Expire, account
<1>2. AccountInv' /\ SignInInv' /\ Calls'
  BY <1>1 DEF IInv, AccountInv, SignInInv, Calls
<1>3. TokenInv'
  BY <1>1 DEF IInv, TokenInv
<1>4. CodeInv'
  BY <1>1, AuthenticationAssumption DEF IInv, CodeInv
<1>5. OwnerInv'
  BY <1>1 DEF IInv, OwnerInv
<1>. QED
  BY <1>2, <1>3, <1>4, <1>5 DEF IInv

\* Every step keeps the invariant.
LEMMA InvNext == IInv /\ [Next]_vars => IInv'
<1> SUFFICES ASSUME IInv, [Next]_vars PROVE IInv'
  OBVIOUS
<1>1. ASSUME NEW c \in Call, SignUp(c) \/ Promote(c) \/ LockOther(c) \/ UpdateLock(c) PROVE IInv'
  <2>1. UNCHANGED Others
    BY <1>1 DEF SignUp, Promote, LockOther, UpdateLock
  <2>2. CASE SignUp(c)
    BY <2>1, <2>2, SignUpStep, OthersKept
  <2>3. CASE Promote(c)
    BY <2>1, <2>3, PromoteStep, OthersKept
  <2>4. CASE LockOther(c)
    <3>1. UNCHANGED account
      BY <2>4 DEF LockOther
    <3>. QED
      BY <2>1, <2>4, <3>1, LockOtherStep, OthersKept
  <2>5. CASE UpdateLock(c)
    BY <2>1, <2>5, UpdateLockStep, OthersKept
  <2>. QED
    BY <1>1, <2>2, <2>3, <2>4, <2>5
<1>2. CASE UNCHANGED vars
  BY <1>2 DEF vars, IInv, Calls, AccountInv, TokenInv, CodeInv, OwnerInv, SignInInv
<1>3. ASSUME NEW c \in Call, Begin(c) \/ Step(c) PROVE IInv'
  BY <1>1, <1>3, BeginInv, SignUpAdminInv, SignInStepsInv, RevokeInv, ForgotInv, MailInv, CheckInv,
     UpdatePasswordInv, SpendInv DEF Step
<1>. QED
  BY <1>2, <1>3, ExpireInv DEF Next

\* The invariant holds in every state (auth.service.ts).
THEOREM Inductive == Spec => []IInv
  BY InvInit, InvNext, PTL DEF Spec

-----------------------------------------------------------------------------
(* The properties the run checks, for any calls and passwords.             *)

\* Every variable stays in its domain, and a token that is cached, replaced or
\* revoked was issued.
THEOREM TypeSafe == Spec => []TypeOK
<1>1. IInv => TypeOK
  <2> SUFFICES ASSUME IInv PROVE TypeOK
    OBVIOUS
  <2>1. /\ user \in Row \cup {None} /\ rows \subseteq Row \cup {None} /\ user \in rows
        /\ \A c \in Call : during[c] \subseteq rows
    BY DEF IInv, AccountInv
  <2>2. /\ issued \in [Call -> Role \cup {None}]
        /\ \A t \in replaced \cup ({pair} \ {None}) : issued[t] # None
        /\ \A token \in revoked : token[1] \in {"access", "refresh"} /\ issued[token[2]] # None
    BY DEF IInv, TokenInv
  <2>3. otp \in Call \cup {None} /\ spent \subseteq mailed /\ mailed \subseteq Call
    BY DEF IInv, CodeInv
  <2>. QED
    BY <2>1, <2>2, <2>3 DEF TypeOK
<1>. QED
  BY <1>1, Inductive, PTL

\* Whoever is signed in gave the password of an unlocked account that was its row
\* at some time of the call, however stale the cache is (validateUser).
THEOREM SignInAlwaysSeesCurrent == Spec => []SignInSeesCurrent
<1>1. IInv => SignInSeesCurrent
  BY DEF IInv, SignInInv, SignInSeesCurrent, At
<1>. QED
  BY <1>1, Inductive, PTL

\* A code that changed the password does not serve a reset that begins later
\* (resetPassword, revokeResetPasswordTransaction).
THEOREM CodesServeOnce == Spec => []CodeServesOnce
<1>1. IInv => CodeServesOnce
  BY DEF IInv, CodeInv, CodeServesOnce, At
<1>. QED
  BY <1>1, Inductive, PTL

=============================================================================
