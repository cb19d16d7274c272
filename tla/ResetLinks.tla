----------------------------- MODULE ResetLinks ------------------------------
(***************************************************************************)
(* What the password-reset store promises: a user has at most one active   *)
(* link, the newest one issued; a link is consumed at most once and not    *)
(* after its deadline.  This is a promise about Consume alone: SetPassword *)
(* writes the new password before it consumes the link, and whatever       *)
(* Consume answers (password.go:233), so a link that is submitted twice at *)
(* once, or that expires while the password is hashed, still sets a        *)
(* password.  Whose password it may set is the business of Accounts        *)
(* (PasswordsAccountedFor).                                                *)
(***************************************************************************)
EXTENDS Naturals

CONSTANTS Link, User, Lifetime, NoLink

VARIABLES
  issued,    \* the links handed out so far
  active,    \* the one that works for each user, or NoLink
  deadline,  \* until when it works (0 for NoLink)
  consumed,  \* the links that Consume has answered success for
  time

lvars == <<issued, active, deadline, consumed, time>>

LInit ==
  /\ issued = {} /\ consumed = {}
  /\ active = [u \in User |-> NoLink]
  /\ deadline = [u \in User |-> 0]
  /\ time = 0

Issue(l, u) ==
  /\ l \notin issued
  /\ issued' = issued \cup {l}
  /\ active' = [active EXCEPT ![u] = l]
  /\ deadline' = [deadline EXCEPT ![u] = time + Lifetime]
  /\ UNCHANGED <<consumed, time>>

Deactivate(u) ==
  /\ active[u] # NoLink
  /\ active' = [active EXCEPT ![u] = NoLink]
  /\ deadline' = [deadline EXCEPT ![u] = 0]

Consume(u) ==
  /\ Deactivate(u)
  /\ time <= deadline[u]
  /\ active[u] \notin consumed
  /\ consumed' = consumed \cup {active[u]}
  /\ UNCHANGED <<issued, time>>

Expire(u) ==
  /\ Deactivate(u)
  /\ time > deadline[u]
  /\ UNCHANGED <<issued, consumed, time>>

Advance ==
  /\ time' = time + 1
  /\ UNCHANGED <<issued, active, deadline, consumed>>

\* The process dies, and no link survives it.
Reset ==
  /\ active' = [u \in User |-> NoLink]
  /\ deadline' = [u \in User |-> 0]
  /\ UNCHANGED <<issued, consumed, time>>

LNext ==
  \/ \E l \in Link, u \in User : Issue(l, u)
  \/ \E u \in User : Consume(u) \/ Expire(u)
  \/ Advance \/ Reset

LSpec == LInit /\ [][LNext]_lvars
=============================================================================
