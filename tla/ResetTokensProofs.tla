-------------------------- MODULE ResetTokensProofs --------------------------
(***************************************************************************)
(* For any number of tokens and users and any validity: the two maps of    *)
(* the store agree, and the store implements ResetLinks.                   *)
(***************************************************************************)
EXTENDS ResetTokens, TLAPS

IInv == TypeOK /\ MapsAgree

(***************************************************************************)
(* IInv is inductive: dropping a token through byToken finds its place in  *)
(* byUser and the other way round, because the maps were inverse before.   *)
(***************************************************************************)
LEMMA EntryIsKnown ==
  ASSUME NEW u \in UserId, NEW d \in Nat
  PROVE [user |-> u, expiresAt |-> d] \in Entry \ NoEntry
  BY SlotAssumption DEF Entry

LEMMA CreateKeepsIInv ==
  ASSUME IInv, NEW t \in Token, NEW u \in UserId, Create(t, u), UNCHANGED now
  PROVE IInv'
<1> DEFINE e == [user |-> u, expiresAt |-> now + TTL]
<1>1. e \in Entry /\ e \notin NoEntry /\ e.user = u
  BY EntryIsKnown, ClockAssumption DEF IInv, TypeOK
<1>2. ~Known(t) /\ t # NoToken
  BY SlotAssumption DEF Create, Known, NoEntry
<1>3. TypeOK'
  BY <1>1 DEF IInv, TypeOK, Create, NoEntry
<1>4. byToken'[t] = e /\ byUser'[u] = t
  BY DEF Create, IInv, TypeOK
<1>5. ASSUME NEW x \in Token, Known(x)' PROVE (byUser[byToken[x].user] = x)'
  <2>1. CASE x = t
    BY <1>1, <1>4, <2>1
  <2>2. CASE x # t
    <3>1. x # byUser[u] /\ byToken'[x] = byToken[x] /\ Known(x)
      BY <1>5, <2>2 DEF Create, Known, NoEntry, IInv, TypeOK
    <3>2. byToken[x].user \in UserId /\ byToken[x].user # u
      BY <3>1 DEF IInv, TypeOK, MapsAgree, Known, Entry
    <3> QED
      BY <3>1, <3>2 DEF Create, IInv, TypeOK, MapsAgree
  <2> QED
    BY <2>1, <2>2
<1>6. ASSUME NEW v \in UserId, byUser'[v] # NoToken
      PROVE (Known(byUser[v]) /\ byToken[byUser[v]].user = v)'
  <2>1. CASE v = u
    BY <1>1, <1>4, <2>1 DEF Known
  <2>2. CASE v # u
    <3>1. byUser'[v] = byUser[v] /\ byUser[v] \in Token
      BY <1>6, <2>2 DEF Create, IInv, TypeOK
    <3>2. Known(byUser[v]) /\ byToken[byUser[v]].user = v
      BY <1>6, <3>1 DEF IInv, MapsAgree
    <3>3. byUser[v] # t
      BY <1>2, <3>2
    <3>4. byUser[v] # byUser[u]
      BY <1>6, <2>2, <3>1, <3>2 DEF IInv, MapsAgree
    <3>5. byToken'[byUser[v]] = byToken[byUser[v]]
      BY <3>1, <3>3, <3>4 DEF Create
    <3> QED
      BY <3>1, <3>2, <3>5 DEF Known
  <2> QED
    BY <2>1, <2>2
<1> QED
  BY <1>3, <1>5, <1>6 DEF IInv, MapsAgree

LEMMA RemoveKeepsIInv ==
  ASSUME IInv, NEW t \in Token, Known(t), NEW fate \in NoEntry, Remove(t, fate),
         UNCHANGED now
  PROVE IInv'
<1> DEFINE u == byToken[t].user
<1>1. u \in UserId /\ byUser[u] = t /\ t # NoToken
  BY SlotAssumption DEF IInv, TypeOK, MapsAgree, Known, Entry
<1>2. /\ byToken' = [byToken EXCEPT ![t] = fate]
      /\ byUser' = [byUser EXCEPT ![u] = NoToken]
  BY <1>1 DEF Remove
<1>3. TypeOK'
  BY <1>1, <1>2 DEF IInv, TypeOK
<1>4. ASSUME NEW x \in Token, Known(x)' PROVE (byUser[byToken[x].user] = x)'
  <2>1. x # t /\ byToken'[x] = byToken[x] /\ Known(x)
    BY <1>2, <1>4 DEF Known, IInv, TypeOK
  <2>2. byToken[x].user \in UserId /\ byUser[byToken[x].user] = x
    BY <2>1 DEF IInv, TypeOK, MapsAgree, Known, Entry
  <2> QED
    BY <1>1, <1>2, <2>1, <2>2 DEF IInv, TypeOK
<1>5. ASSUME NEW v \in UserId, byUser'[v] # NoToken
      PROVE (Known(byUser[v]) /\ byToken[byUser[v]].user = v)'
  <2>1. v # u /\ byUser'[v] = byUser[v] /\ byUser[v] \in Token
    BY <1>2, <1>5 DEF IInv, TypeOK
  <2>2. Known(byUser[v]) /\ byToken[byUser[v]].user = v
    BY <1>5, <2>1 DEF IInv, MapsAgree
  <2>3. byUser[v] # t
    BY <2>1, <2>2
  <2> QED
    BY <1>2, <2>1, <2>2, <2>3 DEF Known, IInv, TypeOK
<1> QED
  BY <1>3, <1>4, <1>5 DEF IInv, MapsAgree

LEMMA InitIInv == Init => IInv
  BY SlotAssumption DEF Init, IInv, TypeOK, MapsAgree, Known, NoEntry

LEMMA StepIInv == IInv /\ [Next]_vars => IInv'
<1> SUFFICES ASSUME IInv, [Next]_vars PROVE IInv'
  OBVIOUS
<1>1. ASSUME NEW t \in Token, NEW u \in UserId, Create(t, u), UNCHANGED now
      PROVE IInv'
  BY <1>1, CreateKeepsIInv
<1>2. ASSUME NEW t \in Token, Consume(t), UNCHANGED now PROVE IInv'
  <2>1. CASE Known(t)
    <3> DEFINE fate == IF Expired(t) THEN Gone ELSE Consumed
    <3>1. fate \in NoEntry /\ Remove(t, fate)
      BY <1>2, <2>1 DEF Consume, NoEntry
    <3> QED
      BY ONLY IInv, <1>2, <2>1, <3>1, RemoveKeepsIInv
  <2>2. CASE ~Known(t)
    BY <1>2, <2>2 DEF Consume, IInv, TypeOK, MapsAgree, Known
  <2> QED
    BY <2>1, <2>2
<1>3. ASSUME NEW t \in Token, Peek(t), UNCHANGED now PROVE IInv'
  <2>1. CASE Known(t) /\ Expired(t)
    <3>1. Gone \in NoEntry /\ Remove(t, Gone)
      BY <1>3, <2>1 DEF Peek, NoEntry
    <3> QED
      BY <1>3, <2>1, <3>1, RemoveKeepsIInv
  <2>2. CASE ~(Known(t) /\ Expired(t))
    BY <1>3, <2>2 DEF Peek, IInv, TypeOK, MapsAgree, Known
  <2> QED
    BY <2>1, <2>2
<1>4. CASE Tick /\ UNCHANGED <<byToken, byUser>>
  BY <1>4 DEF Tick, IInv, TypeOK, MapsAgree, Known
<1>5. CASE Forget /\ UNCHANGED now
  <2>1. TypeOK'
    BY <1>5 DEF Forget, IInv, TypeOK, NoEntry
  <2>2. \A t \in Token : ~Known(t)'
    BY <1>5 DEF Forget, Known, NoEntry
  <2>3. \A u \in UserId : byUser'[u] = NoToken
    BY <1>5 DEF Forget
  <2> QED
    BY <2>1, <2>2, <2>3 DEF IInv, MapsAgree
<1>6. CASE UNCHANGED vars
  BY <1>6 DEF vars, IInv, TypeOK, MapsAgree, Known
<1> QED
  BY <1>1, <1>2, <1>3, <1>4, <1>5, <1>6 DEF Next

\* The two maps of the store are inverse to each other in every reachable
\* state, so a user never has two links that work.
THEOREM MapsAlwaysAgree == Spec => []MapsAgree
<1>1. Init => IInv
  BY InitIInv
<1>2. IInv /\ [Next]_vars => IInv'
  BY StepIInv
<1>3. IInv => MapsAgree
  BY DEF IInv
<1> QED
  BY <1>1, <1>2, <1>3, PTL DEF Spec

(***************************************************************************)
(* The refinement: Create is Issue, a Consume or Peek that removes a token *)
(* is Consume or Expire for its user, and one that finds none stutters.    *)
(***************************************************************************)
issued_ == {t \in Token : byToken[t] # Unborn}
consumed_ == {t \in Token : byToken[t] = Consumed}
deadline_ == [u \in UserId |->
                IF byUser[u] = NoToken THEN 0 ELSE byToken[byUser[u]].expiresAt]

LEMMA CreateIsIssue ==
  ASSUME IInv, NEW t \in Token, NEW u \in UserId, Create(t, u), UNCHANGED now
  PROVE Promise!Issue(t, u)
<1> DEFINE e == [user |-> u, expiresAt |-> now + TTL]
<1>1. e \notin NoEntry /\ e.expiresAt = now + TTL
  BY EntryIsKnown, ClockAssumption DEF IInv, TypeOK
<1>2. \A x \in Token : byToken'[x] = IF x = t THEN e
                                    ELSE IF x = byUser[u] THEN Gone
                                    ELSE byToken[x]
  BY DEF Create
<1>3. \A x \in Token : x = byUser[u] => byToken[x] \notin NoEntry
  BY SlotAssumption DEF IInv, MapsAgree, Known
<1>4. issued_' = issued_ \cup {t}
  BY <1>1, <1>2, <1>3, SlotAssumption DEF issued_, NoEntry
<1>5. consumed_' = consumed_
  BY <1>1, <1>2, <1>3, SlotAssumption DEF consumed_, NoEntry, Create
<1>6. byUser' = [byUser EXCEPT ![u] = t]
  BY DEF Create
<1>7. deadline_' = [deadline_ EXCEPT ![u] = now + TTL]
  <2>1. ASSUME NEW v \in UserId, v # u PROVE deadline_'[v] = deadline_[v]
    <3>1. byUser'[v] = byUser[v]
      BY <1>6, <2>1 DEF IInv, TypeOK
    <3>2. CASE byUser[v] # NoToken
      <4>1. byUser[v] \in Token /\ Known(byUser[v]) /\ byToken[byUser[v]].user = v
        BY <3>2 DEF IInv, TypeOK, MapsAgree
      <4>2. byUser[v] # t
        BY <4>1 DEF Create, Known, NoEntry
      <4>3. byUser[v] # byUser[u]
        BY <2>1, <3>2, <4>1 DEF IInv, MapsAgree
      <4>4. byToken'[byUser[v]] = byToken[byUser[v]]
        BY <1>2, <4>1, <4>2, <4>3
      <4> QED
        BY <3>1, <4>4 DEF deadline_
    <3>3. CASE byUser[v] = NoToken
      BY <3>1, <3>3 DEF deadline_
    <3> QED
      BY <3>2, <3>3
  <2>2. deadline_'[u] = now + TTL
    <3>1. byUser'[u] = t /\ t # NoToken
      BY <1>6, SlotAssumption DEF IInv, TypeOK
    <3> QED
      BY <1>1, <1>2, <3>1 DEF deadline_
  <2>3. deadline_' = [v \in UserId |-> deadline_'[v]]
    BY DEF deadline_
  <2> QED
    BY <2>1, <2>2, <2>3 DEF deadline_
<1>8. t \notin issued_
  BY DEF issued_, Create
<1> QED
  BY <1>4, <1>5, <1>6, <1>7, <1>8 DEF Promise!Issue, issued_, consumed_, deadline_

LEMMA RemoveIsDeactivate ==
  ASSUME IInv, NEW t \in Token, Known(t), NEW fate \in NoEntry \ {Unborn},
         NEW u \in UserId, byToken[t].user = u, Remove(t, fate), UNCHANGED now
  PROVE /\ byUser[u] = t
        /\ deadline_[u] = byToken[t].expiresAt /\ byToken[t].expiresAt \in Nat
        /\ Promise!Deactivate(u)
        /\ issued_' = issued_ /\ t \notin consumed_
        /\ consumed_' = IF fate = Consumed THEN consumed_ \cup {t} ELSE consumed_
<1>1. u \in UserId /\ byUser[u] = t /\ t # NoToken /\ byToken[t].expiresAt \in Nat
  BY SlotAssumption DEF IInv, TypeOK, MapsAgree, Known, Entry
<1>2. /\ byToken' = [byToken EXCEPT ![t] = fate]
      /\ byUser' = [byUser EXCEPT ![u] = NoToken]
  BY <1>1 DEF Remove
<1>3. \A x \in Token : byToken'[x] = IF x = t THEN fate ELSE byToken[x]
  BY <1>2 DEF IInv, TypeOK
<1>4. byToken[t] \notin NoEntry
  BY DEF Known
<1>5. issued_' = issued_
  BY <1>3, <1>4 DEF issued_, NoEntry
<1>6. t \notin consumed_ /\ consumed_' = IF fate = Consumed THEN consumed_ \cup {t} ELSE consumed_
  BY <1>3, <1>4 DEF consumed_, NoEntry
<1>7. deadline_' = [deadline_ EXCEPT ![u] = 0]
  <2>1. ASSUME NEW v \in UserId, v # u PROVE deadline_'[v] = deadline_[v]
    <3>1. byUser'[v] = byUser[v]
      BY <1>2, <2>1 DEF IInv, TypeOK
    <3>2. byUser[v] # NoToken => byUser[v] \in Token /\ byUser[v] # t
      BY <2>1 DEF IInv, TypeOK, MapsAgree
    <3> QED
      BY <1>3, <3>1, <3>2 DEF deadline_
  <2>2. deadline_'[u] = 0
    BY <1>1, <1>2 DEF deadline_, IInv, TypeOK
  <2>3. deadline_' = [v \in UserId |-> deadline_'[v]]
    BY DEF deadline_
  <2> QED
    BY <2>1, <2>2, <2>3 DEF deadline_
<1>8. deadline_[u] = byToken[t].expiresAt
  BY <1>1 DEF deadline_
<1>9. Promise!Deactivate(u)
  BY <1>1, <1>2, <1>7 DEF Promise!Deactivate, deadline_
<1> QED
  BY <1>1, <1>5, <1>6, <1>8, <1>9

LEMMA ConsumesOrExpires ==
  ASSUME IInv, NEW t \in Token, Known(t), NEW u \in UserId, byToken[t].user = u,
         UNCHANGED now
  PROVE /\ Remove(t, Consumed) /\ ~Expired(t) => Promise!Consume(u)
        /\ Remove(t, Gone) /\ Expired(t) => Promise!Expire(u)
<1>1. ASSUME Remove(t, Consumed), ~Expired(t) PROVE Promise!Consume(u)
  <2>1. Consumed \in NoEntry \ {Unborn}
    BY SlotAssumption DEF NoEntry
  <2> QED
    BY <1>1, <2>1, RemoveIsDeactivate
       DEF Promise!Consume, Expired, issued_, consumed_, deadline_, IInv, TypeOK
<1>2. ASSUME Remove(t, Gone), Expired(t) PROVE Promise!Expire(u)
  <2>1. Gone \in NoEntry \ {Unborn} /\ Gone # Consumed
    BY SlotAssumption DEF NoEntry
  <2> QED
    BY <1>2, <2>1, RemoveIsDeactivate
       DEF Promise!Expire, Expired, issued_, consumed_, deadline_, IInv, TypeOK
<1> QED
  BY <1>1, <1>2

LEMMA InitRefines == Init => Promise!LInit
  BY SlotAssumption DEF Init, Promise!LInit

LEMMA StepRefines == IInv /\ [Next]_vars => [Promise!LNext]_(Promise!lvars)
<1> SUFFICES ASSUME IInv, [Next]_vars PROVE [Promise!LNext]_(Promise!lvars)
  OBVIOUS
<1>1. ASSUME NEW t \in Token, NEW u \in UserId, Create(t, u), UNCHANGED now
      PROVE Promise!LNext
  BY <1>1, CreateIsIssue DEF Promise!LNext
<1>2. ASSUME NEW t \in Token, Known(t), UNCHANGED now,
             Remove(t, IF Expired(t) THEN Gone ELSE Consumed)
      PROVE Promise!LNext
  <2>1. PICK u \in UserId : byToken[t].user = u
    BY <1>2 DEF IInv, TypeOK, Known, Entry
  <2>2. Promise!Consume(u) \/ Promise!Expire(u)
    BY <1>2, <2>1, ConsumesOrExpires
  <2> QED
    BY <2>2 DEF Promise!LNext
<1>3. ASSUME NEW t \in Token, Consume(t), UNCHANGED now
      PROVE [Promise!LNext]_(Promise!lvars)
  <2>1. CASE Known(t)
    BY <1>2, <1>3, <2>1 DEF Consume
  <2>2. CASE ~Known(t)
    BY <1>3, <2>2 DEF Consume, Promise!lvars
  <2> QED
    BY <2>1, <2>2
<1>4. ASSUME NEW t \in Token, Peek(t), UNCHANGED now
      PROVE [Promise!LNext]_(Promise!lvars)
  <2>1. CASE Known(t) /\ Expired(t)
    BY <1>2, <1>4, <2>1 DEF Peek
  <2>2. CASE ~(Known(t) /\ Expired(t))
    BY <1>4, <2>2 DEF Peek, Promise!lvars
  <2> QED
    BY <2>1, <2>2
<1>5. CASE Tick /\ UNCHANGED <<byToken, byUser>>
  BY <1>5 DEF Tick, Promise!Advance, Promise!LNext
<1>6. CASE Forget /\ UNCHANGED now
  <2>1. \A t \in Token : byToken'[t] = IF Known(t) THEN Gone ELSE byToken[t]
    BY <1>6 DEF Forget
  <2>2. issued_' = issued_
    BY <2>1, SlotAssumption DEF issued_, Known, NoEntry
  <2>3. consumed_' = consumed_
    BY <2>1, SlotAssumption DEF consumed_, Known, NoEntry
  <2>4. deadline_' = [u \in UserId |-> 0] /\ byUser' = [u \in UserId |-> NoToken]
    BY <1>6 DEF Forget, deadline_
  <2>5. Promise!Reset
    BY <1>6, <2>2, <2>3, <2>4 DEF Promise!Reset, issued_, consumed_, deadline_
  <2> QED
    BY <2>5 DEF Promise!LNext
<1>7. CASE UNCHANGED vars
  BY <1>7 DEF vars, Promise!lvars
<1> QED
  BY <1>1, <1>3, <1>4, <1>5, <1>6, <1>7 DEF Next

\* Whatever the calls and the clock do, a user has one active link, the newest,
\* and a link is consumed at most once and not after its deadline.
THEOREM StoreImplementsResetLinks == Spec => ImplementsResetLinks
<1>1. Init => IInv
  BY InitIInv
<1>2. IInv /\ [Next]_vars => IInv'
  BY StepIInv
<1>3. Init => Promise!LInit
  BY InitRefines
<1>4. IInv /\ [Next]_vars => [Promise!LNext]_(Promise!lvars)
  BY StepRefines
<1> QED
  BY <1>1, <1>2, <1>3, <1>4, PTL DEF Spec, ImplementsResetLinks, Promise!LSpec
=============================================================================
