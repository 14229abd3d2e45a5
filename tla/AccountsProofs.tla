---------------------------- MODULE AccountsProofs ----------------------------
(* Proofs about Accounts.                                                  *)
EXTENDS Accounts, TLAPS

-----------------------------------------------------------------------------
(* The inductive invariant.                                                *)

Here(c, S) == call[c].at \in S

\* What the status of an account in the pool says of everything else.
PoolInv ==
  \A e \in Email :
    /\ pool[e] = "absent" =>
         groups[e] = {} /\ inviter[e] = None /\ \A c \in Call : call[c].email # e
    /\ pool[e] \in {"absent", "invited"} => users[e] = None
    /\ pool[e] = "invited" => inviter[e] # None

\* A request that registers is about an account nobody was invited to; one that
\* accepts is about an invited one, which has no document yet.
CallInv ==
  \A c \in Call :
    LET e == call[c].email
    IN  /\ Here(c, Registering) =>
             pool[e] \in {"unconfirmed", "confirmed"} /\ inviter[e] = None
        /\ Here(c, {"createUser"}) => "user-group" \in groups[e]
        /\ Here(c, {"respondToChallenge"}) => inviter[e] # None
        /\ Here(c, Accepting) =>
             inviter[e] # None /\ pool[e] = "confirmed" /\ users[e] = None
        /\ Here(c, {"findByEmail", "upsert"}) => "admin-group" \in groups[e]
        /\ call[c].user = None

\* The pool takes one answer per invitation.
OneAcceptance ==
  \A c, d \in Call :
    Here(c, Accepting) /\ Here(d, Accepting) /\ call[c].email = call[d].email => c = d

IInv ==
  /\ TypeOK /\ PoolInv /\ CallInv /\ OneAcceptance
  /\ RecordsAreBacked

-----------------------------------------------------------------------------
(* Type correctness.                                                       *)

\* A request is idle or has an address.
LEMMA CallShape ==
  ASSUME TypeOK, NEW c \in Call
  PROVE  /\ call[c].at = "idle" => call[c] = Idle
         /\ call[c].at # "idle" => call[c] \in UnderWay
<1>1. call[c] \in UnderWay \cup {Idle}
  BY DEF TypeOK
<1>2. Idle.at = "idle"
  BY DEF Idle
<1>3. call[c] \in UnderWay => call[c].at # "idle"
  BY DEF UnderWay, Registering, Accepting
<1>. QED
  BY <1>1, <1>2, <1>3

LEMMA TypeInit == Init => TypeOK
BY ConstantAssumption DEF Init, TypeOK, Idle

LEMMA TypeStep == TypeOK /\ [Next]_vars => TypeOK'
<1>. SUFFICES ASSUME TypeOK, [Next]_vars PROVE TypeOK'
  OBVIOUS
<1>1. ASSUME NEW c \in Call, NEW e \in Email, SignUp(c, e)
     PROVE  TypeOK'
  BY <1>1, CallShape, ConstantAssumption
  DEF SignUp, Begin, TypeOK, Idle, UnderWay, User, Group, Registering, Accepting
<1>2. ASSUME NEW c \in Call, NEW e \in Email, InitiateAuth(c, e)
     PROVE  TypeOK'
  BY <1>2, CallShape, ConstantAssumption
  DEF InitiateAuth, Begin, TypeOK, Idle, UnderWay, User, Group, Registering, Accepting
<1>3. ASSUME NEW c \in Call, AddToUserGroup(c)
     PROVE  TypeOK'
  BY <1>3, CallShape, ConstantAssumption
  DEF AddToUserGroup, AddToGroup, Goto, TypeOK, Idle, UnderWay, User, Group,
      Registering, Accepting
<1>4. ASSUME NEW c \in Call, CreateUser(c)
     PROVE  TypeOK'
  BY <1>4, CallShape, ConstantAssumption
  DEF CreateUser, Create, Return, TypeOK, Idle, UnderWay, User, Group, Registering,
      Accepting
<1>5. ASSUME NEW c \in Call, RespondToChallenge(c)
     PROVE  TypeOK'
  BY <1>5, CallShape
  DEF RespondToChallenge, Return, TypeOK, UnderWay, Idle, Registering, Accepting
<1>6. ASSUME NEW c \in Call, AddToAdminGroup(c)
     PROVE  TypeOK'
  BY <1>6, CallShape, ConstantAssumption
  DEF AddToAdminGroup, AddToGroup, JoinAdminGroup, Goto, TypeOK, Idle, UnderWay, User,
      Group, Registering, Accepting
<1>7. ASSUME NEW c \in Call, findByEmail(c)
     PROVE  TypeOK'
  <2>1. call[c].email \in Email /\ users[call[c].email] \in User \cup {None}
    BY <1>7, CallShape DEF findByEmail, TypeOK, UnderWay
  <2>2. call'[c] = [call[c] EXCEPT !.at = "upsert", !.user = users[call[c].email]]
    BY <1>7 DEF findByEmail, TypeOK
  <2>3. call'[c] \in UnderWay
    <3>1. call[c] \in UnderWay
      BY <1>7, CallShape DEF findByEmail
    <3>. QED
      BY <3>1, <2>1, <2>2 DEF UnderWay, Accepting
  <2>. QED
    BY <1>7, <2>3 DEF findByEmail, TypeOK
<1>8. ASSUME NEW c \in Call, Upsert(c)
     PROVE  TypeOK'
  BY <1>8, CallShape, ConstantAssumption
  DEF Upsert, WriteUser, Create, updateRole, Return, Token, TypeOK, Idle, UnderWay,
      User, Group, Registering, Accepting
<1>9. ASSUME NEW c \in Call, Fail(c)
     PROVE  TypeOK'
  BY <1>9, CallShape, ConstantAssumption
  DEF Fail, Return, TypeOK, Idle, UnderWay, User, Group, Registering, Accepting
<1>10. ASSUME NEW e \in Email, verifyEmail(e)
     PROVE  TypeOK'
  BY <1>10 DEF verifyEmail, TypeOK
<1>11. ASSUME NEW e \in Email, login(e)
     PROVE  TypeOK'
  BY <1>11 DEF login, Token, TypeOK
<1>12. ASSUME NEW e \in Email, Appoint(e)
     PROVE  TypeOK'
  BY <1>12, CallShape, ConstantAssumption
  DEF Appoint, AddToGroup, TypeOK, Idle, UnderWay, User, Group, Registering, Accepting
<1>13. ASSUME NEW t \in tokens, refreshToken(t)
     PROVE  TypeOK'
  BY <1>13 DEF refreshToken, Token, TypeOK
<1>14. ASSUME NEW t \in tokens, NEW e \in Email, inviteAdmin(t, e)
     PROVE  TypeOK'
  BY <1>14 DEF inviteAdmin, TypeOK
<1>15. CASE UNCHANGED vars
  BY <1>15 DEF vars, TypeOK
<1>. QED
  BY <1>1, <1>2, <1>3, <1>4, <1>5, <1>6, <1>7, <1>8, <1>9, <1>10, <1>11, <1>12, <1>13,
     <1>14, <1>15 DEF Next

-----------------------------------------------------------------------------
(* The other parts of the invariant, one lemma each.                       *)

\* An account leaves `absent' only by a registration or an invitation.
LEMMA PoolInvStep == IInv /\ [Next]_vars => PoolInv'
<1>. SUFFICES ASSUME IInv, TypeOK', [Next]_vars PROVE PoolInv'
  BY TypeStep DEF IInv
<1>. USE DEF IInv
<1>1. ASSUME NEW c \in Call, NEW e \in Email, SignUp(c, e)
     PROVE  PoolInv'
  BY <1>1 DEF SignUp, Begin, PoolInv, TypeOK
<1>2. ASSUME NEW c \in Call, NEW e \in Email, InitiateAuth(c, e)
     PROVE  PoolInv'
  BY <1>2 DEF InitiateAuth, Begin, PoolInv, TypeOK
<1>3. ASSUME NEW c \in Call, AddToUserGroup(c)
     PROVE  PoolInv'
  BY <1>3 DEF AddToUserGroup, AddToGroup, Goto, PoolInv
<1>4. ASSUME NEW c \in Call, CreateUser(c)
     PROVE  PoolInv'
  BY <1>4, CallShape, ConstantAssumption
  DEF CreateUser, Create, Return, PoolInv, CallInv, TypeOK, Idle, UnderWay,
      Registering, Accepting, Here
<1>5. ASSUME NEW c \in Call, RespondToChallenge(c)
     PROVE  PoolInv'
  BY <1>5, CallShape, ConstantAssumption
  DEF RespondToChallenge, Return, PoolInv, CallInv, TypeOK, Idle, UnderWay,
      Registering, Accepting, Here
<1>6. ASSUME NEW c \in Call, AddToAdminGroup(c)
     PROVE  PoolInv'
  BY <1>6 DEF AddToAdminGroup, AddToGroup, JoinAdminGroup, Goto, PoolInv
<1>7. ASSUME NEW c \in Call, findByEmail(c)
     PROVE  PoolInv'
  BY <1>7 DEF findByEmail, PoolInv, TypeOK
<1>8. ASSUME NEW c \in Call, Upsert(c)
     PROVE  PoolInv'
  BY <1>8, CallShape, ConstantAssumption
  DEF Upsert, WriteUser, Create, updateRole, Return, Token, PoolInv, CallInv, TypeOK,
      Idle, UnderWay, Registering, Accepting, Here
<1>9. ASSUME NEW c \in Call, Fail(c)
     PROVE  PoolInv'
  BY <1>9, CallShape, ConstantAssumption
  DEF Fail, Return, PoolInv, CallInv, TypeOK, Idle, UnderWay, Registering, Accepting,
      Here
<1>10. ASSUME NEW e \in Email, verifyEmail(e)
     PROVE  PoolInv'
  BY <1>10 DEF verifyEmail, PoolInv
<1>11. ASSUME NEW e \in Email, login(e)
     PROVE  PoolInv'
  BY <1>11 DEF login, Token, PoolInv
<1>12. ASSUME NEW e \in Email, Appoint(e)
     PROVE  PoolInv'
  BY <1>12 DEF Appoint, AddToGroup, PoolInv
<1>13. ASSUME NEW t \in tokens, refreshToken(t)
     PROVE  PoolInv'
  BY <1>13 DEF refreshToken, Token, PoolInv
<1>14. ASSUME NEW t \in tokens, NEW e \in Email, inviteAdmin(t, e)
     PROVE  PoolInv'
  BY <1>14, CallShape, ConstantAssumption
  DEF inviteAdmin, PoolInv, CallInv, TypeOK, Idle, UnderWay, Registering, Accepting,
      Here
<1>15. CASE UNCHANGED vars
  BY <1>15 DEF vars, PoolInv
<1>. QED
  BY <1>1, <1>2, <1>3, <1>4, <1>5, <1>6, <1>7, <1>8, <1>9, <1>10, <1>11, <1>12, <1>13,
     <1>14, <1>15 DEF Next

\* No other request touches the account of one that registers or accepts.
LEMMA CallInvStep == IInv /\ [Next]_vars => CallInv'
<1>. SUFFICES ASSUME IInv, TypeOK', [Next]_vars PROVE CallInv'
  BY TypeStep DEF IInv
<1>. USE DEF IInv
<1>1. ASSUME NEW c \in Call, NEW e \in Email, SignUp(c, e)
     PROVE  CallInv'
  BY <1>1, CallShape, ConstantAssumption
  DEF SignUp, Begin, PoolInv, CallInv, OneAcceptance, TypeOK, Idle, UnderWay,
      Registering, Accepting, Here
<1>2. ASSUME NEW c \in Call, NEW e \in Email, InitiateAuth(c, e)
     PROVE  CallInv'
  BY <1>2, CallShape, ConstantAssumption
  DEF InitiateAuth, Begin, PoolInv, CallInv, OneAcceptance, TypeOK, Idle, UnderWay,
      Registering, Accepting, Here
<1>3. ASSUME NEW c \in Call, AddToUserGroup(c)
     PROVE  CallInv'
  BY <1>3, CallShape, ConstantAssumption
  DEF AddToUserGroup, AddToGroup, Goto, PoolInv, CallInv, OneAcceptance, TypeOK, Idle,
      UnderWay, Registering, Accepting, Here
<1>4. ASSUME NEW c \in Call, CreateUser(c)
     PROVE  CallInv'
  BY <1>4, CallShape, ConstantAssumption
  DEF CreateUser, Create, Return, PoolInv, CallInv, OneAcceptance, TypeOK, Idle,
      UnderWay, Registering, Accepting, Here
<1>5. ASSUME NEW c \in Call, RespondToChallenge(c)
     PROVE  CallInv'
  BY <1>5, CallShape, ConstantAssumption
  DEF RespondToChallenge, Return, PoolInv, CallInv, OneAcceptance, TypeOK, Idle,
      UnderWay, Registering, Accepting, Here
<1>6. ASSUME NEW c \in Call, AddToAdminGroup(c)
     PROVE  CallInv'
  BY <1>6, CallShape, ConstantAssumption
  DEF AddToAdminGroup, AddToGroup, JoinAdminGroup, Goto, PoolInv, CallInv,
      OneAcceptance, TypeOK, Idle, UnderWay, Registering, Accepting, Here
<1>7. ASSUME NEW c \in Call, findByEmail(c)
     PROVE  CallInv'
  BY <1>7, CallShape, ConstantAssumption
  DEF findByEmail, PoolInv, CallInv, OneAcceptance, TypeOK, Idle, UnderWay,
      Registering, Accepting, Here
<1>8. ASSUME NEW c \in Call, Upsert(c)
     PROVE  CallInv'
  BY <1>8, CallShape, ConstantAssumption
  DEF Upsert, WriteUser, Create, updateRole, Return, Token, PoolInv, CallInv,
      OneAcceptance, TypeOK, Idle, UnderWay, Registering, Accepting, Here
<1>9. ASSUME NEW c \in Call, Fail(c)
     PROVE  CallInv'
  BY <1>9, CallShape, ConstantAssumption
  DEF Fail, Return, PoolInv, CallInv, OneAcceptance, TypeOK, Idle, UnderWay,
      Registering, Accepting, Here
<1>10. ASSUME NEW e \in Email, verifyEmail(e)
     PROVE  CallInv'
  BY <1>10, CallShape, ConstantAssumption
  DEF verifyEmail, PoolInv, CallInv, OneAcceptance, TypeOK, Idle, UnderWay,
      Registering, Accepting, Here
<1>11. ASSUME NEW e \in Email, login(e)
     PROVE  CallInv'
  BY <1>11, CallShape, ConstantAssumption
  DEF login, Token, PoolInv, CallInv, OneAcceptance, TypeOK, Idle, UnderWay,
      Registering, Accepting, Here
<1>12. ASSUME NEW e \in Email, Appoint(e)
     PROVE  CallInv'
  BY <1>12, CallShape, ConstantAssumption
  DEF Appoint, AddToGroup, PoolInv, CallInv, OneAcceptance, TypeOK, Idle, UnderWay,
      Registering, Accepting, Here
<1>13. ASSUME NEW t \in tokens, refreshToken(t)
     PROVE  CallInv'
  BY <1>13, CallShape, ConstantAssumption
  DEF refreshToken, Token, PoolInv, CallInv, OneAcceptance, TypeOK, Idle, UnderWay,
      Registering, Accepting, Here
<1>14. ASSUME NEW t \in tokens, NEW e \in Email, inviteAdmin(t, e)
     PROVE  CallInv'
  BY <1>14, CallShape, ConstantAssumption
  DEF inviteAdmin, PoolInv, CallInv, OneAcceptance, TypeOK, Idle, UnderWay,
      Registering, Accepting, Here
<1>15. CASE UNCHANGED vars
  BY <1>15
  DEF vars, PoolInv, CallInv, OneAcceptance, TypeOK, Idle, UnderWay, Registering,
      Accepting, Here
<1>. QED
  BY <1>1, <1>2, <1>3, <1>4, <1>5, <1>6, <1>7, <1>8, <1>9, <1>10, <1>11, <1>12, <1>13,
     <1>14, <1>15 DEF Next

\* A second acceptance of an invitation is refused by the pool.
LEMMA OneAcceptanceStep == IInv /\ [Next]_vars => OneAcceptance'
<1>. SUFFICES ASSUME IInv, TypeOK', [Next]_vars PROVE OneAcceptance'
  BY TypeStep DEF IInv
<1>. USE DEF IInv
<1>1. ASSUME NEW c \in Call, NEW e \in Email, SignUp(c, e)
     PROVE  OneAcceptance'
  BY <1>1, CallShape
  DEF SignUp, Begin, OneAcceptance, TypeOK, UnderWay, Idle, CallInv, Here,
      Registering, Accepting
<1>2. ASSUME NEW c \in Call, NEW e \in Email, InitiateAuth(c, e)
     PROVE  OneAcceptance'
  BY <1>2, CallShape
  DEF InitiateAuth, Begin, OneAcceptance, TypeOK, UnderWay, Idle, CallInv, Here,
      Registering, Accepting
<1>3. ASSUME NEW c \in Call, AddToUserGroup(c)
     PROVE  OneAcceptance'
  BY <1>3, CallShape
  DEF AddToUserGroup, AddToGroup, Goto, OneAcceptance, TypeOK, UnderWay, Idle,
      CallInv, Here, Registering, Accepting
<1>4. ASSUME NEW c \in Call, CreateUser(c)
     PROVE  OneAcceptance'
  BY <1>4, CallShape
  DEF CreateUser, Create, Return, OneAcceptance, TypeOK, UnderWay, Idle, CallInv,
      Here, Registering, Accepting
<1>5. ASSUME NEW c \in Call, RespondToChallenge(c)
     PROVE  OneAcceptance'
  BY <1>5, CallShape
  DEF RespondToChallenge, Return, OneAcceptance, TypeOK, UnderWay, Idle, CallInv,
      Here, Registering, Accepting
<1>6. ASSUME NEW c \in Call, AddToAdminGroup(c)
     PROVE  OneAcceptance'
  BY <1>6, CallShape
  DEF AddToAdminGroup, AddToGroup, JoinAdminGroup, Goto, OneAcceptance, TypeOK,
      UnderWay, Idle, CallInv, Here, Registering, Accepting
<1>7. ASSUME NEW c \in Call, findByEmail(c)
     PROVE  OneAcceptance'
  BY <1>7, CallShape
  DEF findByEmail, OneAcceptance, TypeOK, UnderWay, Idle, CallInv, Here, Registering,
      Accepting
<1>8. ASSUME NEW c \in Call, Upsert(c)
     PROVE  OneAcceptance'
  BY <1>8, CallShape
  DEF Upsert, WriteUser, Create, updateRole, Return, Token, OneAcceptance, TypeOK,
      UnderWay, Idle, CallInv, Here, Registering, Accepting
<1>9. ASSUME NEW c \in Call, Fail(c)
     PROVE  OneAcceptance'
  BY <1>9, CallShape
  DEF Fail, Return, OneAcceptance, TypeOK, UnderWay, Idle, CallInv, Here, Registering,
      Accepting
<1>10. ASSUME NEW e \in Email, verifyEmail(e)
     PROVE  OneAcceptance'
  BY <1>10, CallShape
  DEF verifyEmail, OneAcceptance, TypeOK, UnderWay, Idle, CallInv, Here, Registering,
      Accepting
<1>11. ASSUME NEW e \in Email, login(e)
     PROVE  OneAcceptance'
  BY <1>11, CallShape
  DEF login, Token, OneAcceptance, TypeOK, UnderWay, Idle, CallInv, Here, Registering,
      Accepting
<1>12. ASSUME NEW e \in Email, Appoint(e)
     PROVE  OneAcceptance'
  BY <1>12, CallShape
  DEF Appoint, AddToGroup, OneAcceptance, TypeOK, UnderWay, Idle, CallInv, Here,
      Registering, Accepting
<1>13. ASSUME NEW t \in tokens, refreshToken(t)
     PROVE  OneAcceptance'
  BY <1>13, CallShape
  DEF refreshToken, Token, OneAcceptance, TypeOK, UnderWay, Idle, CallInv, Here,
      Registering, Accepting
<1>14. ASSUME NEW t \in tokens, NEW e \in Email, inviteAdmin(t, e)
     PROVE  OneAcceptance'
  BY <1>14, CallShape
  DEF inviteAdmin, OneAcceptance, TypeOK, UnderWay, Idle, CallInv, Here, Registering,
      Accepting
<1>15. CASE UNCHANGED vars
  BY <1>15
  DEF vars, CallInv, OneAcceptance, TypeOK, Idle, UnderWay, Registering, Accepting,
      Here
<1>. QED
  BY <1>1, <1>2, <1>3, <1>4, <1>5, <1>6, <1>7, <1>8, <1>9, <1>10, <1>11, <1>12, <1>13,
     <1>14, <1>15 DEF Next

\* Group before document, on both ways into the users collection.
LEMMA RecordsStep == IInv /\ [Next]_vars => RecordsAreBacked'
<1>. SUFFICES ASSUME IInv, TypeOK', [Next]_vars PROVE RecordsAreBacked'
  BY TypeStep DEF IInv
<1>. USE DEF IInv
<1>1. ASSUME NEW c \in Call, NEW e \in Email, SignUp(c, e)
     PROVE  RecordsAreBacked'
  BY <1>1 DEF SignUp, Begin, RecordsAreBacked
<1>2. ASSUME NEW c \in Call, NEW e \in Email, InitiateAuth(c, e)
     PROVE  RecordsAreBacked'
  BY <1>2 DEF InitiateAuth, Begin, RecordsAreBacked
<1>3. ASSUME NEW c \in Call, AddToUserGroup(c)
     PROVE  RecordsAreBacked'
  BY <1>3 DEF AddToUserGroup, AddToGroup, Goto, RecordsAreBacked
<1>4. ASSUME NEW c \in Call, CreateUser(c)
     PROVE  RecordsAreBacked'
  BY <1>4, CallShape
  DEF CreateUser, Create, Return, RecordsAreBacked, TypeOK, UnderWay, Idle, CallInv,
      Here, Registering, Accepting
<1>5. ASSUME NEW c \in Call, RespondToChallenge(c)
     PROVE  RecordsAreBacked'
  BY <1>5 DEF RespondToChallenge, Return, RecordsAreBacked, TypeOK
<1>6. ASSUME NEW c \in Call, AddToAdminGroup(c)
     PROVE  RecordsAreBacked'
  BY <1>6 DEF AddToAdminGroup, AddToGroup, JoinAdminGroup, Goto, RecordsAreBacked
<1>7. ASSUME NEW c \in Call, findByEmail(c)
     PROVE  RecordsAreBacked'
  BY <1>7 DEF findByEmail, RecordsAreBacked
<1>8. ASSUME NEW c \in Call, Upsert(c)
     PROVE  RecordsAreBacked'
  BY <1>8, CallShape, ConstantAssumption
  DEF Upsert, WriteUser, Create, updateRole, Return, Token, PoolInv, CallInv,
      RecordsAreBacked, TypeOK, Idle, UnderWay, Registering, Accepting, Here
<1>9. ASSUME NEW c \in Call, Fail(c)
     PROVE  RecordsAreBacked'
  BY <1>9 DEF Fail, Return, RecordsAreBacked
<1>10. ASSUME NEW e \in Email, verifyEmail(e)
     PROVE  RecordsAreBacked'
  BY <1>10 DEF verifyEmail, RecordsAreBacked
<1>11. ASSUME NEW e \in Email, login(e)
     PROVE  RecordsAreBacked'
  BY <1>11 DEF login, Token, RecordsAreBacked
<1>12. ASSUME NEW e \in Email, Appoint(e)
     PROVE  RecordsAreBacked'
  BY <1>12 DEF Appoint, AddToGroup, RecordsAreBacked
<1>13. ASSUME NEW t \in tokens, refreshToken(t)
     PROVE  RecordsAreBacked'
  BY <1>13 DEF refreshToken, Token, RecordsAreBacked
<1>14. ASSUME NEW t \in tokens, NEW e \in Email, inviteAdmin(t, e)
     PROVE  RecordsAreBacked'
  BY <1>14 DEF inviteAdmin, RecordsAreBacked
<1>15. CASE UNCHANGED vars
  BY <1>15 DEF vars, RecordsAreBacked
<1>. QED
  BY <1>1, <1>2, <1>3, <1>4, <1>5, <1>6, <1>7, <1>8, <1>9, <1>10, <1>11, <1>12, <1>13,
     <1>14, <1>15 DEF Next

\* The request at work on an account writes its document, or throws.
LEMMA RegistrationStep ==
  IInv /\ NobodyIsHalfRegistered /\ [Next]_vars => NobodyIsHalfRegistered'
<1>. SUFFICES ASSUME IInv, TypeOK', NobodyIsHalfRegistered, [Next]_vars
              PROVE  NobodyIsHalfRegistered'
  BY TypeStep DEF IInv
<1>. USE DEF IInv
<1>1. ASSUME NEW c \in Call, NEW e \in Email, SignUp(c, e)
     PROVE  NobodyIsHalfRegistered'
  BY <1>1, CallShape, ConstantAssumption
  DEF SignUp, Begin, NobodyIsHalfRegistered, AtWork, Whole, PoolInv, CallInv, TypeOK,
      Idle, UnderWay, Registering, Accepting, Here
<1>2. ASSUME NEW c \in Call, NEW e \in Email, InitiateAuth(c, e)
     PROVE  NobodyIsHalfRegistered'
  BY <1>2, CallShape, ConstantAssumption
  DEF InitiateAuth, Begin, NobodyIsHalfRegistered, AtWork, Whole, PoolInv, CallInv,
      TypeOK, Idle, UnderWay, Registering, Accepting, Here
<1>3. ASSUME NEW c \in Call, AddToUserGroup(c)
     PROVE  NobodyIsHalfRegistered'
  BY <1>3, CallShape, ConstantAssumption
  DEF AddToUserGroup, AddToGroup, Goto, NobodyIsHalfRegistered, AtWork, Whole,
      PoolInv, CallInv, TypeOK, Idle, UnderWay, Registering, Accepting, Here
<1>4. ASSUME NEW c \in Call, CreateUser(c)
     PROVE  NobodyIsHalfRegistered'
  <2>. SUFFICES ASSUME NEW e \in Email, e \notin broken', pool'[e] \in {"unconfirmed", "confirmed"}
                PROVE  AtWork(e)' \/ Whole(e)'
    BY DEF NobodyIsHalfRegistered
  <2>1. call[c] \in UnderWay /\ call[c].email \in Email
    BY <1>4, CallShape DEF CreateUser, UnderWay
  <2>2. CASE e = call[c].email
    <3>1. Whole(e)'
      BY <1>4, <2>1, <2>2, ConstantAssumption
      DEF CreateUser, Create, Return, Whole, User, CallInv, Here, Registering, Accepting, TypeOK
    <3>. QED
      BY <3>1
  <2>3. CASE e # call[c].email
    <3>1. AtWork(e) \/ Whole(e)
      BY <1>4, <2>3 DEF CreateUser, NobodyIsHalfRegistered
    <3>2. CASE Whole(e)
      BY <1>4, <2>1, <2>3, <3>2 DEF CreateUser, Create, Return, Whole, TypeOK
    <3>3. CASE AtWork(e)
      BY <1>4, <2>3, <3>3 DEF CreateUser, Create, Return, AtWork, TypeOK
    <3>. QED
      BY <3>1, <3>2, <3>3
  <2>. QED
    BY <2>2, <2>3
<1>5. ASSUME NEW c \in Call, RespondToChallenge(c)
     PROVE  NobodyIsHalfRegistered'
  BY <1>5, CallShape, ConstantAssumption
  DEF RespondToChallenge, Return, NobodyIsHalfRegistered, AtWork, Whole, PoolInv,
      CallInv, TypeOK, Idle, UnderWay, Registering, Accepting, Here
<1>6. ASSUME NEW c \in Call, AddToAdminGroup(c)
     PROVE  NobodyIsHalfRegistered'
  BY <1>6, CallShape, ConstantAssumption
  DEF AddToAdminGroup, AddToGroup, JoinAdminGroup, Goto, NobodyIsHalfRegistered,
      AtWork, Whole, PoolInv, CallInv, TypeOK, Idle, UnderWay, Registering, Accepting,
      Here
<1>7. ASSUME NEW c \in Call, findByEmail(c)
     PROVE  NobodyIsHalfRegistered'
  BY <1>7, CallShape, ConstantAssumption
  DEF findByEmail, NobodyIsHalfRegistered, AtWork, Whole, PoolInv, CallInv, TypeOK,
      Idle, UnderWay, Registering, Accepting, Here
<1>8. ASSUME NEW c \in Call, Upsert(c)
     PROVE  NobodyIsHalfRegistered'
  <2>. SUFFICES ASSUME NEW e \in Email, e \notin broken', pool'[e] \in {"unconfirmed", "confirmed"}
                PROVE  AtWork(e)' \/ Whole(e)'
    BY DEF NobodyIsHalfRegistered
  <2>1. call[c] \in UnderWay /\ call[c].email \in Email
    BY <1>8, CallShape DEF Upsert, UnderWay
  <2>2. CASE e = call[c].email
    <3>1. Whole(e)'
      BY <1>8, <2>1, <2>2, ConstantAssumption
      DEF Upsert, WriteUser, Create, updateRole, Return, Token, Whole, User, CallInv, Here, Registering, Accepting, TypeOK
    <3>. QED
      BY <3>1
  <2>3. CASE e # call[c].email
    <3>1. AtWork(e) \/ Whole(e)
      BY <1>8, <2>3 DEF Upsert, NobodyIsHalfRegistered
    <3>2. CASE Whole(e)
      BY <1>8, <2>1, <2>3, <3>2 DEF Upsert, WriteUser, Create, updateRole, Return, Token, Whole, TypeOK
    <3>3. CASE AtWork(e)
      BY <1>8, <2>3, <3>3 DEF Upsert, WriteUser, Create, updateRole, Return, Token, AtWork, TypeOK
    <3>. QED
      BY <3>1, <3>2, <3>3
  <2>. QED
    BY <2>2, <2>3
<1>9. ASSUME NEW c \in Call, Fail(c)
     PROVE  NobodyIsHalfRegistered'
  <2>. SUFFICES ASSUME NEW e \in Email, e \notin broken', pool'[e] \in {"unconfirmed", "confirmed"}
                PROVE  AtWork(e)' \/ Whole(e)'
    BY DEF NobodyIsHalfRegistered
  <2>1. e # call[c].email /\ (AtWork(e) \/ Whole(e))
    BY <1>9 DEF Fail, NobodyIsHalfRegistered
  <2>2. CASE Whole(e)
    BY <1>9, <2>2 DEF Fail, Whole
  <2>3. CASE AtWork(e)
    BY <1>9, <2>1, <2>3 DEF Fail, Return, AtWork, TypeOK
  <2>. QED
    BY <2>1, <2>2, <2>3
<1>10. ASSUME NEW e \in Email, verifyEmail(e)
     PROVE  NobodyIsHalfRegistered'
  BY <1>10, CallShape, ConstantAssumption
  DEF verifyEmail, NobodyIsHalfRegistered, AtWork, Whole, PoolInv, CallInv, TypeOK,
      Idle, UnderWay, Registering, Accepting, Here
<1>11. ASSUME NEW e \in Email, login(e)
     PROVE  NobodyIsHalfRegistered'
  BY <1>11, CallShape, ConstantAssumption
  DEF login, Token, NobodyIsHalfRegistered, AtWork, Whole, PoolInv, CallInv, TypeOK,
      Idle, UnderWay, Registering, Accepting, Here
<1>12. ASSUME NEW e \in Email, Appoint(e)
     PROVE  NobodyIsHalfRegistered'
  BY <1>12, CallShape, ConstantAssumption
  DEF Appoint, AddToGroup, NobodyIsHalfRegistered, AtWork, Whole, PoolInv, CallInv,
      TypeOK, Idle, UnderWay, Registering, Accepting, Here
<1>13. ASSUME NEW t \in tokens, refreshToken(t)
     PROVE  NobodyIsHalfRegistered'
  BY <1>13, CallShape, ConstantAssumption
  DEF refreshToken, Token, NobodyIsHalfRegistered, AtWork, Whole, PoolInv, CallInv,
      TypeOK, Idle, UnderWay, Registering, Accepting, Here
<1>14. ASSUME NEW t \in tokens, NEW e \in Email, inviteAdmin(t, e)
     PROVE  NobodyIsHalfRegistered'
  BY <1>14, CallShape, ConstantAssumption
  DEF inviteAdmin, NobodyIsHalfRegistered, AtWork, Whole, PoolInv, CallInv, TypeOK,
      Idle, UnderWay, Registering, Accepting, Here
<1>15. CASE UNCHANGED vars
  BY <1>15
  DEF vars, NobodyIsHalfRegistered, AtWork, Whole, PoolInv, CallInv, TypeOK, Idle,
      UnderWay, Registering, Accepting, Here
<1>. QED
  BY <1>1, <1>2, <1>3, <1>4, <1>5, <1>6, <1>7, <1>8, <1>9, <1>10, <1>11, <1>12, <1>13,
     <1>14, <1>15 DEF Next

-----------------------------------------------------------------------------
(* The theorems.                                                           *)

LEMMA InvInit == Init => IInv /\ NobodyIsHalfRegistered
<1>. SUFFICES ASSUME Init PROVE IInv /\ NobodyIsHalfRegistered
  OBVIOUS
<1>1. TypeOK
  BY TypeInit
<1>2. PoolInv /\ CallInv /\ OneAcceptance
  BY ConstantAssumption
  DEF Init, PoolInv, CallInv, OneAcceptance, Idle, Here, Registering, Accepting
<1>3. RecordsAreBacked /\ NobodyIsHalfRegistered
  BY DEF Init, RecordsAreBacked, NobodyIsHalfRegistered
<1>. QED
  BY <1>1, <1>2, <1>3 DEF IInv

LEMMA Invariance == Spec => [](IInv /\ NobodyIsHalfRegistered)
<1>1. IInv /\ [Next]_vars => IInv'
  BY TypeStep, PoolInvStep, CallInvStep, OneAcceptanceStep, RecordsStep DEF IInv
<1>. QED
  BY <1>1, InvInit, RegistrationStep, PTL DEF Spec

\* Whatever throws between the user pool and the users collection, a document is
\* never ahead of the pool: the group is joined before the role is stored.
THEOREM RecordsAreBackedHolds == Spec => []RecordsAreBacked
<1>1. IInv => RecordsAreBacked
  BY DEF IInv
<1>. QED
  BY <1>1, Invariance, PTL

\* Whoever signs up or accepts an invitation ends with a document, however the
\* requests overlap and whatever fails for others, unless a call of a request
\* of this very account failed.
THEOREM NobodyIsHalfRegisteredHolds == Spec => []NobodyIsHalfRegistered
BY Invariance, PTL
=============================================================================
