---------------------------- MODULE ResetTokens ------------------------------
(***************************************************************************)
(* internal/resettoken: the store of password-reset tokens, kept in two    *)
(* maps that every operation has to keep in step.  Each operation is one   *)
(* critical section of Store.mu.  A token is Unborn until randomToken      *)
(* returns it; when it leaves byToken it is Consumed if Consume reported   *)
(* success for it and Gone otherwise.  The map of the code holds none of   *)
(* the three.                                                              *)
(***************************************************************************)
EXTENDS Naturals

CONSTANTS
  Token, UserId,
  TTL,                     \* the validity of a token, in ticks of the clock
  MaxNow,                  \* bound: the clock stops here
  NoToken,                 \* byUser has no entry for the user
  Unborn, Gone, Consumed

ASSUME ClockAssumption == TTL \in Nat /\ MaxNow \in Nat
VARIABLES byToken, byUser, now

vars == <<byToken, byUser, now>>

Entry == [user : UserId, expiresAt : Nat]
NoEntry == {Unborn, Gone, Consumed}

ASSUME SlotAssumption ==
  /\ NoToken \notin Token
  /\ Unborn # Gone /\ Unborn # Consumed /\ Gone # Consumed
  /\ \A e \in NoEntry : e \notin Entry

TypeOK ==
  /\ byToken \in [Token -> Entry \cup NoEntry]
  /\ byUser \in [UserId -> Token \cup {NoToken}]
  /\ now \in Nat

Init ==
  /\ byToken = [t \in Token |-> Unborn]
  /\ byUser = [u \in UserId |-> NoToken]
  /\ now = 0

Known(t) == byToken[t] \notin NoEntry

Expired(t) == now > byToken[t].expiresAt

Valid(t) == Known(t) /\ ~Expired(t)

\* Wrong on purpose, for the mutation runs: an older token of the user stays.
CreateKeepsOld(t, u) ==
  /\ byToken[t] = Unborn
  /\ byToken' = [byToken EXCEPT ![t] = [user |-> u, expiresAt |-> now + TTL]]
  /\ byUser' = [byUser EXCEPT ![u] = t]

(***************************************************************************)
(* Create mints t for u and drops the token u had before.                  *)
(***************************************************************************)
Create(t, u) ==
  /\ byToken[t] = Unborn
  /\ byToken' = [x \in Token |->
                   IF x = t THEN [user |-> u, expiresAt |-> now + TTL]
                   ELSE IF x = byUser[u] THEN Gone
                   ELSE byToken[x]]
  /\ byUser' = [byUser EXCEPT ![u] = t]

\* Wrong on purpose: only the index by user forgets the token.
RemoveFromIndex(t, fate) ==
  LET u == byToken[t].user IN
  /\ byUser' = IF byUser[u] = t THEN [byUser EXCEPT ![u] = NoToken] ELSE byUser
  /\ UNCHANGED byToken

\* The two deletions that Consume and Peek share: t leaves byToken, and its
\* user leaves byUser if t is the token recorded there.
Remove(t, fate) ==
  LET u == byToken[t].user IN
  /\ byToken' = [byToken EXCEPT ![t] = fate]
  /\ byUser' = IF byUser[u] = t THEN [byUser EXCEPT ![u] = NoToken] ELSE byUser

\* Wrong on purpose: an expired token still counts as consumed, and a look at
\* a token burns it.
ConsumeExpired(t) ==
  IF Known(t) THEN Remove(t, Consumed) ELSE UNCHANGED <<byToken, byUser>>

PeekBurns(t) ==
  IF Known(t) THEN Remove(t, Gone) ELSE UNCHANGED <<byToken, byUser>>

\* Consume removes a known token whether or not it has expired.
Consume(t) ==
  IF Known(t)
    THEN Remove(t, IF Expired(t) THEN Gone ELSE Consumed)
    ELSE UNCHANGED <<byToken, byUser>>

\* Peek leaves a valid or unknown token alone and removes an expired one.
Peek(t) ==
  IF Known(t) /\ Expired(t)
    THEN Remove(t, Gone)
    ELSE UNCHANGED <<byToken, byUser>>

Tick ==
  /\ now < MaxNow
  /\ now' = now + 1

\* A restart of the process: the store starts empty again.
Forget ==
  /\ byToken' = [t \in Token |-> IF Known(t) THEN Gone ELSE byToken[t]]
  /\ byUser' = [u \in UserId |-> NoToken]

Next ==
  \/ \E t \in Token, u \in UserId : Create(t, u) /\ UNCHANGED now
  \/ \E t \in Token : Consume(t) /\ UNCHANGED now
  \/ \E t \in Token : Peek(t) /\ UNCHANGED now
  \/ Tick /\ UNCHANGED <<byToken, byUser>>
  \/ Forget /\ UNCHANGED now

Spec == Init /\ [][Next]_vars

(***************************************************************************)
(* Properties.                                                             *)
(***************************************************************************)

\* The two maps are inverse to each other: byUser names exactly the token that
\* byToken holds for the user, so a user never has two tokens that work.
MapsAgree ==
  /\ \A t \in Token : Known(t) => byUser[byToken[t].user] = t
  /\ \A u \in UserId : byUser[u] # NoToken =>
       Known(byUser[u]) /\ byToken[byUser[u]].user = u

\* The store keeps the promise of ResetLinks: one active link per user, and each
\* link consumed at most once and not after its deadline.
Promise == INSTANCE ResetLinks WITH
  Link <- Token, User <- UserId, Lifetime <- TTL, NoLink <- NoToken,
  issued <- {t \in Token : byToken[t] # Unborn},
  active <- byUser,
  deadline <- [u \in UserId |->
                 IF byUser[u] = NoToken THEN 0 ELSE byToken[byUser[u]].expiresAt],
  consumed <- {t \in Token : byToken[t] = Consumed},
  time <- now

ImplementsResetLinks == Promise!LSpec
=============================================================================
