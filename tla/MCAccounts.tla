----------------------------- MODULE MCAccounts ------------------------------
(***************************************************************************)
(* Instances of the account life cycle for TLC.                            *)
(***************************************************************************)
EXTENDS AccountsSafety, TLC

CONSTANTS alice, bob, fresh, broken, mailA, mailB

Rec(name, email, pw, groups) ==
  [name |-> name, email |-> email, pw |-> pw, groups |-> groups]

DB(a, b) ==
  Configured([i \in Id |-> IF i = alice THEN a ELSE IF i = bob THEN b ELSE NoUser])

AliceAdmin == Rec(alice, mailA, alice, {UserAdminGroup})
BobAdmin == Rec(bob, NoEmail, bob, {UserAdminGroup})
BobPlain == Rec(bob, NoEmail, bob, {})
BobLocked == Rec(bob, NoEmail, Locked, {})

\* Two admins, or an admin and a user.
WithTwoAdmins == {DB(AliceAdmin, BobAdmin)}
AdminAndUser == {DB(AliceAdmin, BobPlain)}
AdminAndLocked == {DB(AliceAdmin, BobLocked)}
Nobody == {DB(NoUser, NoUser)}
UserOrLocked == AdminAndUser \cup AdminAndLocked
UserOrNobody == AdminAndUser \cup Nobody
LockedOrNobody == AdminAndLocked \cup Nobody

\* fresh is a name with a replacement character, and broken one with a byte that
\* json.Marshal replaces by it.
BrokenIsFresh ==
  [s \in Name \cup Email \cup {NoEmail} |-> IF s = broken THEN fresh ELSE s]

\* The lists of groups a form can carry: with and without the admin group.
AnyGroups == SUBSET Group

RequestSymmetry == Permutations(Req)
=============================================================================
