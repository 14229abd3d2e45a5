------------------------------- MODULE Accounts -------------------------------
(***************************************************************************)
(* Accounts: a user is known to the Cognito user pool and to the users     *)
(* collection, and no transaction spans the two.  A request of             *)
(* AuthController is a sequence of calls on one and on the other; other    *)
(* requests run between the calls, and each of them may throw.             *)
(*                                                                         *)
(* Sources: modules/auth/auth.service.ts, auth.controller.ts,              *)
(* modules/users/users.service.ts, schemas/user.schema.ts and              *)
(* common/guards/{jwt-auth,roles}.guard.ts.  The pool, and the operator    *)
(* who makes the first admin in it, are external.                          *)
(*                                                                         *)
(* An address stands for its lower-case form and, as no account is ever    *)
(* removed, for the `sub' of its account.  Passwords and codes are right;  *)
(* a request that the pool refuses at once changes nothing and is left     *)
(* out.  Operators that nothing uses are broken variants of the ones next  *)
(* to them.                                                                *)
(***************************************************************************)
EXTENDS Naturals

CONSTANTS
  Email,
  Call,        \* the requests that may be under way at the same time
  None,        \* no document, no cognitoSub, no address
  MaxFaults    \* bound on calls that throw

VARIABLES
  pool,        \* the status of each account in the user pool
  groups,      \* the groups of each account
  users,       \* the users collection, by its unique e-mail
  call,        \* each request under way: its next call and its local variables
  tokens,      \* the tokens that have been returned, none of which expires
  faults,
  inviter,     \* history: who invited an account
  broken       \* history: the addresses a request of which threw

vars == <<pool, groups, users, call, tokens, faults, inviter, broken>>

Group == {"user-group", "admin-group"}
User == [cognitoSub : Email \cup {None}, role : {"user", "admin"}]

ASSUME ConstantAssumption == None \notin Email \cup User /\ MaxFaults \in Nat

Registering == {"addToUserGroup", "createUser"}
Accepting == {"addToAdminGroup", "findByEmail", "upsert"}

UnderWay == [at : Registering \cup {"respondToChallenge"} \cup Accepting,
             email : Email, user : User \cup {None}, groups : SUBSET Group]
Idle == [at |-> "idle", email |-> None, user |-> None, groups |-> {}]

Init ==
  /\ pool = [e \in Email |-> "absent"]
  /\ groups = [e \in Email |-> {}]
  /\ users = [e \in Email |-> None]
  /\ call = [c \in Call |-> Idle]
  /\ tokens = {}
  /\ faults = 0
  /\ inviter = [e \in Email |-> None]
  /\ broken = {}

Begin(c, e, step) ==
  call[c].at = "idle" /\ call' = [call EXCEPT ![c].at = step, ![c].email = e]
Goto(c, step) == call' = [call EXCEPT ![c].at = step]
Return(c) == call' = [call EXCEPT ![c] = Idle]

AddToGroup(e, g) == groups' = [groups EXCEPT ![e] = @ \cup {g}]

\* users.create: the unique index on the e-mail throws, and nothing is written.
Create(e, doc) == users' = IF users[e] = None THEN [users EXCEPT ![e] = doc] ELSE users

-----------------------------------------------------------------------------
(* register.                                                               *)

SignUp(c, e) ==
  /\ pool[e] = "absent"
  /\ pool' = [pool EXCEPT ![e] = "unconfirmed"]
  /\ Begin(c, e, "addToUserGroup")
  /\ UNCHANGED <<groups, users, tokens, faults, inviter, broken>>

AddToUserGroup(c) ==
  /\ call[c].at = "addToUserGroup"
  /\ AddToGroup(call[c].email, "user-group")
  /\ Goto(c, "createUser")
  /\ UNCHANGED <<pool, users, tokens, faults, inviter, broken>>

CreateUser(c) ==
  /\ call[c].at = "createUser"
  /\ Create(call[c].email, [cognitoSub |-> call[c].email, role |-> "user"])
  /\ Return(c)
  /\ UNCHANGED <<pool, groups, tokens, faults, inviter, broken>>

-----------------------------------------------------------------------------
(* verifyEmail, login and refreshToken make one call on the pool each; the *)
(* user that login reads is only shown.                                    *)

verifyEmail(e) ==
  /\ pool[e] = "unconfirmed"
  /\ pool' = [pool EXCEPT ![e] = "confirmed"]
  /\ UNCHANGED <<groups, users, call, tokens, faults, inviter, broken>>

Token(e, named) == [sub |-> e, groups |-> named]

login(e) ==
  /\ pool[e] = "confirmed"
  /\ tokens' = tokens \cup {Token(e, groups[e])}
  /\ UNCHANGED <<pool, groups, users, call, faults, inviter, broken>>

refreshToken(t) ==
  /\ tokens' = tokens \cup {Token(t.sub, groups[t.sub])}
  /\ UNCHANGED <<pool, groups, users, call, faults, inviter, broken>>

\* External: an operator makes somebody admin in the console of the pool.
Appoint(e) ==
  /\ pool[e] = "confirmed"
  /\ AddToGroup(e, "admin-group")
  /\ UNCHANGED <<pool, users, call, tokens, faults, inviter, broken>>

-----------------------------------------------------------------------------
(* The guards, and inviteAdmin behind them.                                *)

findByCognitoSub(sub) == {e \in Email : users[e] # None /\ users[e].cognitoSub = sub}

JwtAuthGuard(t) == findByCognitoSub(t.sub) # {}

extractRole(t) == IF "admin-group" \in t.groups THEN "admin" ELSE "user"

RolesGuard(t) == extractRole(t) = "admin"

inviteAdmin(t, e) ==
  /\ JwtAuthGuard(t) /\ RolesGuard(t)
  /\ pool[e] = "absent"
  /\ pool' = [pool EXCEPT ![e] = "invited"]
  /\ inviter' = [inviter EXCEPT ![e] = t.sub]
  /\ UNCHANGED <<groups, users, call, tokens, faults, broken>>

-----------------------------------------------------------------------------
(* acceptAdminInvite.                                                      *)

InitiateAuth(c, e) ==
  /\ pool[e] = "invited"
  /\ Begin(c, e, "respondToChallenge")
  /\ UNCHANGED <<pool, groups, users, tokens, faults, inviter, broken>>

\* The pool takes one answer to the challenge; the tokens of this call name the
\* groups of this moment.
RespondToChallenge(c) ==
  /\ call[c].at = "respondToChallenge"
  /\ LET e == call[c].email
     IN  IF pool[e] = "invited"
         THEN /\ pool' = [pool EXCEPT ![e] = "confirmed"]
              /\ call' = [call EXCEPT ![c].at = "addToAdminGroup", ![c].groups = groups[e]]
         ELSE Return(c) /\ UNCHANGED pool
  /\ UNCHANGED <<groups, users, tokens, faults, inviter, broken>>

RoleOnly(c) == UNCHANGED groups
JoinAdminGroup(c) == AddToGroup(call[c].email, "admin-group")

AddToAdminGroup(c) ==
  /\ call[c].at = "addToAdminGroup"
  /\ JoinAdminGroup(c)
  /\ Goto(c, "findByEmail")
  /\ UNCHANGED <<pool, users, tokens, faults, inviter, broken>>

findByEmail(c) ==
  /\ call[c].at = "findByEmail"
  /\ call' = [call EXCEPT ![c].at = "upsert", ![c].user = users[call[c].email]]
  /\ UNCHANGED <<pool, groups, users, tokens, faults, inviter, broken>>

updateRole(e) ==
  users' = IF users[e] = None THEN users ELSE [users EXCEPT ![e].role = "admin"]

UpdateOnly(c) == updateRole(call[c].email)
WriteUser(c) ==
  IF call[c].user = None
  THEN Create(call[c].email, [cognitoSub |-> None, role |-> "admin"])
  ELSE updateRole(call[c].email)

\* A create that throws returns no tokens.
Upsert(c) ==
  /\ call[c].at = "upsert"
  /\ WriteUser(c)
  /\ tokens' = IF call[c].user = None /\ users[call[c].email] # None THEN tokens
               ELSE tokens \cup {Token(call[c].email, call[c].groups)}
  /\ Return(c)
  /\ UNCHANGED <<pool, groups, faults, inviter, broken>>

-----------------------------------------------------------------------------

\* The next call of a request throws, or the process dies: what was done stays.
Fail(c) ==
  /\ call[c].at # "idle"
  /\ faults < MaxFaults
  /\ faults' = faults + 1
  /\ broken' = broken \cup {call[c].email}
  /\ Return(c)
  /\ UNCHANGED <<pool, groups, users, tokens, inviter>>

Next ==
  \/ \E c \in Call, e \in Email : SignUp(c, e) \/ InitiateAuth(c, e)
  \/ \E c \in Call : \/ AddToUserGroup(c) \/ CreateUser(c)
                     \/ RespondToChallenge(c) \/ AddToAdminGroup(c)
                     \/ findByEmail(c) \/ Upsert(c)
                     \/ Fail(c)
  \/ \E e \in Email : verifyEmail(e) \/ login(e) \/ Appoint(e)
  \/ \E t \in tokens : refreshToken(t)
  \/ \E t \in tokens, e \in Email : inviteAdmin(t, e)

Spec == Init /\ [][Next]_vars

-----------------------------------------------------------------------------
(* What the two stores say of each other.                                  *)

\* The types, for the proofs.
TypeOK ==
  /\ pool \in [Email -> {"absent", "unconfirmed", "confirmed", "invited"}]
  /\ groups \in [Email -> SUBSET Group]
  /\ users \in [Email -> User \cup {None}]
  /\ call \in [Call -> UnderWay \cup {Idle}]
  /\ tokens \subseteq [sub : Email, groups : SUBSET Group]
  /\ faults \in 0 .. MaxFaults
  /\ inviter \in [Email -> Email \cup {None}]
  /\ broken \subseteq Email

\* A document is never ahead of the pool, whatever has thrown: a user has an
\* account and its group, and a stored admin is in the admin group.
RecordsAreBacked ==
  \A e \in Email :
    users[e] # None =>
      /\ pool[e] \in {"unconfirmed", "confirmed"}
      /\ users[e].cognitoSub \in {e, None}
      /\ users[e].cognitoSub = e => "user-group" \in groups[e]
      /\ users[e].role = "admin" => "admin-group" \in groups[e]

AtWork(e) == \E c \in Call : call[c].email = e /\ call[c].at \in Registering \cup Accepting
Whole(e) ==
  users[e] # None /\
  (inviter[e] # None => users[e].role = "admin" /\ "admin-group" \in groups[e])

\* A failure harms nobody but the account of its own request: whoever else has
\* an account has a document or a request that is about to write it, and an
\* accepted invitation makes an admin of both kinds.  The account of a request
\* that threw stays half done, and no request completes it.
NobodyIsHalfRegistered ==
  \A e \in Email \ broken :
    pool[e] \in {"unconfirmed", "confirmed"} => AtWork(e) \/ Whole(e)
=============================================================================
