----------------------------- MODULE EntryProofs -----------------------------
(***************************************************************************)
(* Proofs about the way into the daemon: its gate (Access) and the calls   *)
(* that pass through a tool, a client and a route (Gateway).               *)
(*                                                                         *)
(* For any number of requests, clients, tokens and sessions, and any       *)
(* environment, the gate lets in whom it should and turns nobody else      *)
(* away.  GateIsRight speaks of a request that is past the gate or         *)
(* refused; what carries it there is what is known of a request that still *)
(* waits for a lookup (Vouched).  That lookups of the one table and of the *)
(* other are made at different times does no harm because nothing comes    *)
(* back: a token that was given out and is not live never is again, and    *)
(* neither is a session (OnlyFade).                                        *)
(*                                                                         *)
(* For every call, with any of its arguments given together and repeated   *)
(* any number of times, through a daemon that stops anywhere, a key leaves *)
(* at most one row, and who is told "ok" can rely on it.  Both rest on     *)
(* what the service was given: the key and the superseded note are still   *)
(* in it (Arrived), for the caller that waits as for the request that the  *)
(* daemon finishes when nobody waits any more.                             *)
(*                                                                         *)
(* The tables of tools, requests and routes are compared argument by       *)
(* argument (TablesFitAssumption), and what follows is proved for any      *)
(* arguments given together: what is sent is what the tables compare       *)
(* (Carried), each argument fills its field (FieldHolds), and the schema of *)
(* the route takes every field (BodyIsTaken).                              *)
(*                                                                         *)
(* The types of both parts hold of the two together, of which each step is *)
(* one of the gate or one of the call (EntryIsBoth).                       *)
(***************************************************************************)
EXTENDS MCServer, TLAPS

-----------------------------------------------------------------------------
(* The gate.                                                               *)

\* A request between its arrival and its answer.
InFlight ==
  [phase : {"bearer", "cookie", "handler", "refused", "invalidate"},
   client : AllClients, route : GatedRoutes,
   bearer : Tokens \cup {NoOne}, cookie : Sessions \cup {NoOne},
   actor : Tokens \cup {NoOne}, held : SUBSET (Tokens \cup Sessions)]

Answering == [phase : {"labels"}, rows : SUBSET Tokens]

\* Rows are of what was created; a session never created has no life.
CreatedOnly ==
  /\ tokens \subseteq everToken /\ everToken \subseteq Tokens
  /\ everSession \subseteq Sessions
  /\ life \in [Sessions -> Int]
  /\ \A s \in Sessions : life[s] > 0 => s \in everSession
  /\ req \in [Requests -> {Idle} \cup Answering \cup InFlight]

InByWhat(q) ==
  /\ \/ ~ Required
     \/ q.held # {}
     \/ TrustLocalhost /\ q.client.peer \in Loopback
                       /\ q.client.cf = NoOne /\ q.client.xff = NoOne
  /\ q.actor # NoOne => q.actor \in q.held

\* What is known of a request of the gate at each step.
Vouched(q) ==
  /\ q.bearer \in everToken \cup {NoOne} /\ q.cookie \in everSession \cup {NoOne}
  /\ q.phase \in {"bearer", "cookie"} =>
       /\ q.bearer \in tokens => q.bearer \in q.held
       /\ LiveSession(q.cookie) => q.cookie \in q.held
       /\ q.actor = NoOne
  /\ q.phase \in {"cookie", "refused"} =>
       Required /\ q.bearer \notin tokens /\ ~ TrustedWithoutCredential(q.client)
  /\ q.phase = "refused" => ~ LiveSession(q.cookie)
  /\ q.phase \in {"handler", "invalidate"} /\ q.client.prefixed => InByWhat(q)

GateInv == CreatedOnly /\ \A r \in Requests, q \in InFlight : req[r] = q => Vouched(q)

\* What a step may do to the credentials that were given out before it.
OnlyFade ==
  /\ env' = env /\ tokens' \subseteq Tokens
  /\ everToken \subseteq everToken' /\ everSession \subseteq everSession'
  /\ tokens' \cap everToken \subseteq tokens
  /\ \A s \in everSession : LiveSession(s)' => LiveSession(s)

LEMMA NoOneIsNone ==
  /\ NoOne \notin Tokens /\ NoOne \notin Sessions
BY AccessAssumption

\* The three kinds of request are told apart by their phase.
LEMMA PhaseTells ==
  ASSUME NEW q \in {Idle} \cup Answering \cup InFlight
  PROVE  /\ q.phase \in {"bearer", "cookie", "handler", "refused", "invalidate"}
              <=> q \in InFlight
         /\ q.phase = "labels" => q \in Answering
BY DEF Idle, Answering, InFlight

LEMMA TrustedIsLocal ==
  ASSUME NEW c, TrustedWithoutCredential(c)
  PROVE  TrustLocalhost /\ c.peer \in Loopback /\ c.cf = NoOne /\ c.xff = NoOne
<1>1. TrustLocalhost /\ RequestOrigin(c) = "local"
  BY DEF TrustedWithoutCredential
<1>2. ~ HasForwardedHeaders(c) /\ c.peer \in Loopback
  BY <1>1 DEF RequestOrigin
<1> QED
  BY <1>1, <1>2 DEF HasForwardedHeaders

\* What was known of a request stays known while credentials only fade.
LEMMA VouchedStays ==
  ASSUME CreatedOnly, OnlyFade, NEW q \in InFlight, Vouched(q)
  PROVE  Vouched(q)'
<1>1. q.bearer \in tokens' => q.bearer \in tokens
  BY NoOneIsNone DEF Vouched, OnlyFade, CreatedOnly
<1>2. LiveSession(q.cookie)' => LiveSession(q.cookie)
  BY NoOneIsNone DEF Vouched, OnlyFade, LiveSession
<1>3. Required' = Required /\ TrustLocalhost' = TrustLocalhost
  BY DEF OnlyFade, Required, TrustLocalhost
<1>4. TrustedWithoutCredential(q.client)' = TrustedWithoutCredential(q.client)
  BY DEF OnlyFade, TrustedWithoutCredential, TrustLocalhost, RequestOrigin,
         IsTrustedProxy, RuleCovers, MatchesCidr, HasForwardedHeaders
<1> QED
  BY <1>1, <1>2, <1>3, <1>4 DEF Vouched, OnlyFade, InByWhat

\* Where the hook goes without a token is where the request may go.
LEMMA AfterBearerIsRight ==
  ASSUME CreatedOnly, NEW q \in InFlight,
         q.bearer \in everToken \cup {NoOne}, q.cookie \in everSession \cup {NoOne},
         q.bearer \notin tokens, q.actor = NoOne,
         LiveSession(q.cookie) => q.cookie \in q.held
  PROVE  /\ [q EXCEPT !.phase = AfterBearer(q)] \in InFlight
         /\ Vouched([q EXCEPT !.phase = AfterBearer(q)])
<1> DEFINE n == [q EXCEPT !.phase = AfterBearer(q)]
<1>1. AfterBearer(q) \in {"handler", "cookie", "refused"}
  BY DEF AfterBearer
<1>2. n \in InFlight /\ n.phase = AfterBearer(q)
      /\ n.bearer = q.bearer /\ n.cookie = q.cookie /\ n.actor = q.actor
      /\ n.held = q.held /\ n.client = q.client
  BY <1>1 DEF InFlight
<1>3. AfterBearer(q) = "handler" => ~ Required \/ TrustedWithoutCredential(q.client)
  BY DEF AfterBearer
<1>4. AfterBearer(q) # "handler" => Required /\ ~ TrustedWithoutCredential(q.client)
  BY DEF AfterBearer
<1>5. AfterBearer(q) = "refused" => q.cookie = NoOne
  BY DEF AfterBearer
<1>6. ~ LiveSession(NoOne)
  BY NoOneIsNone DEF LiveSession
<1>7. AfterBearer(q) = "handler" => InByWhat(n)
  BY <1>2, <1>3, TrustedIsLocal DEF InByWhat
<1> QED
  BY <1>1, <1>2, <1>4, <1>5, <1>6, <1>7 DEF Vouched

\* A step that changes one request at most: the others keep what is known.
LEMMA OneRequestMoves ==
  ASSUME GateInv, OnlyFade, CreatedOnly', NEW r \in Requests, NEW n,
         \A x \in Requests : x # r => req'[x] = req[x],
         req'[r] = n, n \in InFlight => Vouched(n)'
  PROVE  GateInv'
<1> SUFFICES ASSUME NEW x \in Requests, NEW q \in InFlight, req'[x] = q
             PROVE  Vouched(q)'
  BY DEF GateInv
<1>1. CASE x = r
  BY <1>1
<1>2. CASE x # r
  <2>1. Vouched(q) /\ CreatedOnly
    BY <1>2 DEF GateInv
  <2> QED
    BY <2>1, VouchedStays
<1> QED
  BY <1>1, <1>2

\* A step that changes no request.
LEMMA NoRequestMoves ==
  ASSUME GateInv, OnlyFade, CreatedOnly', req' = req
  PROVE  GateInv'
<1> SUFFICES ASSUME NEW x \in Requests, NEW q \in InFlight, req'[x] = q
             PROVE  Vouched(q)'
  BY DEF GateInv
<1>1. Vouched(q) /\ CreatedOnly
  BY DEF GateInv
<1> QED
  BY <1>1, VouchedStays

-----------------------------------------------------------------------------
(* The steps of a request.                                                 *)

LEMMA Unmoved ==
  ASSUME CreatedOnly, UNCHANGED <<env, tokens, everToken, life, everSession>>
  PROVE  OnlyFade
BY DEF OnlyFade, CreatedOnly, LiveSession

\* Credentials stay and one request goes on to n, of one of the three kinds.
LEMMA RequestGoesOn ==
  ASSUME GateInv, UNCHANGED <<env, tokens, everToken, life, everSession>>,
         NEW r \in Requests, NEW n \in {Idle} \cup Answering \cup InFlight,
         req' = [req EXCEPT ![r] = n], n \in InFlight => Vouched(n)
  PROVE  GateInv'
<1>1. CreatedOnly /\ OnlyFade
  BY Unmoved DEF GateInv
<1>2. CreatedOnly'
  BY <1>1 DEF CreatedOnly
<1>3. (\A x \in Requests : x # r => req'[x] = req[x]) /\ req'[r] = n
  BY <1>1 DEF CreatedOnly
<1>4. n \in InFlight => Vouched(n)'
  BY <1>1, VouchedStays
<1> QED
  BY <1>1, <1>2, <1>3, <1>4, OneRequestMoves

LEMMA IdleIsNotInFlight == Idle \notin InFlight
BY DEF Idle, InFlight

LEMMA ArriveKeeps ==
  ASSUME GateInv, NEW r \in Requests, Arrive(r)
  PROVE  GateInv'
<1>1. PICK c \in Clients[r], route \in GatedRoutes, b \in Bearers, k \in Cookies :
        LET q == [phase |-> "bearer", client |-> c, route |-> route,
                  bearer |-> b, cookie |-> k, actor |-> NoOne,
                  held |-> {x \in {b, k} : x \in tokens \/ LiveSession(x)}]
        IN  req' = [req EXCEPT ![r] = [q EXCEPT !.phase = AtTheHook(q)]]
  BY DEF Arrive
<1> DEFINE q == [phase |-> "bearer", client |-> c, route |-> route,
                 bearer |-> b, cookie |-> k, actor |-> NoOne,
                 held |-> {x \in {b, k} : x \in tokens \/ LiveSession(x)}]
           n == [q EXCEPT !.phase = AtTheHook(q)]
<1>2. CreatedOnly /\ UNCHANGED <<env, tokens, everToken, life, everSession>>
  BY DEF GateInv, Arrive
<1>3. c \in AllClients
  BY DEF AllClients
<1>4. b \in everToken \cup {NoOne} /\ k \in everSession \cup {NoOne}
  BY DEF Bearers, Cookies
<1>5. {x \in {b, k} : x \in tokens \/ LiveSession(x)} \subseteq Tokens \cup Sessions
  BY <1>2 DEF CreatedOnly, LiveSession
<1>6. b \in Tokens \cup {NoOne} /\ k \in Sessions \cup {NoOne}
  BY <1>2, <1>4 DEF CreatedOnly
<1>7. q \in InFlight
  BY <1>3, <1>5, <1>6 DEF InFlight
<1>8. /\ b \in tokens => b \in q.held
      /\ LiveSession(k) => k \in q.held
      /\ q.bearer = b /\ q.cookie = k /\ q.actor = NoOne /\ q.phase = "bearer"
  OBVIOUS
<1>9. b = NoOne => b \notin tokens
  BY <1>2, NoOneIsNone DEF CreatedOnly
<1>10. n \in InFlight /\ Vouched(n)
  <2> HIDE DEF q
  <2>1. CASE ~ q.client.prefixed
    <3>1. n = [q EXCEPT !.phase = "handler"]
      BY <2>1 DEF AtTheHook
    <3>2. /\ n \in InFlight /\ n.phase = "handler" /\ ~ n.client.prefixed
          /\ n.bearer = b /\ n.cookie = k
      BY <1>7, <1>8, <2>1, <3>1 DEF InFlight
    <3> HIDE DEF n
    <3> QED
      BY <1>4, <3>2 DEF Vouched
  <2>2. CASE q.client.prefixed /\ b = NoOne
    <3>1. [q EXCEPT !.phase = AfterBearer(q)] \in InFlight
          /\ Vouched([q EXCEPT !.phase = AfterBearer(q)])
      BY <2>2, <1>2, <1>4, <1>7, <1>8, <1>9, AfterBearerIsRight
    <3>2. AtTheHook(q) = AfterBearer(q)
      BY <1>8, <2>2 DEF AtTheHook
    <3> QED
      BY <3>1, <3>2
  <2>3. CASE q.client.prefixed /\ b # NoOne
    <3>1. n = q
      BY <1>7, <1>8, <2>3 DEF AtTheHook, InFlight
    <3>2. Vouched(q)
      BY <1>4, <1>8 DEF Vouched
    <3> QED
      BY <3>1, <3>2, <1>7
  <2> QED
    BY <2>1, <2>2, <2>3
<1>11. req' = [req EXCEPT ![r] = n]
  BY <1>1
<1> HIDE DEF n, q
<1> QED
  BY <1>2, <1>10, <1>11, RequestGoesOn

LEMMA ResolveBearerKeeps ==
  ASSUME GateInv, NEW r \in Requests, ResolveBearer(r)
  PROVE  GateInv'
<1> DEFINE q == req[r]
<1>1. q \in InFlight /\ q.phase = "bearer"
  BY PhaseTells DEF GateInv, CreatedOnly, ResolveBearer
<1>2. CreatedOnly /\ Vouched(q) /\ UNCHANGED <<env, tokens, everToken, life, everSession>>
  BY <1>1 DEF GateInv, ResolveBearer
<1>3. CASE q.bearer \in tokens
  <2> DEFINE n == [q EXCEPT !.phase = "handler", !.actor = q.bearer]
  <2>1. req' = [req EXCEPT ![r] = n]
    BY <1>3 DEF ResolveBearer
  <2>2. q.bearer \in Tokens
    BY <1>2, <1>3 DEF CreatedOnly
  <2>3. n \in InFlight /\ n.phase = "handler" /\ n.actor = q.bearer /\ n.held = q.held
        /\ n.bearer = q.bearer /\ n.cookie = q.cookie
    BY <1>1, <2>2 DEF InFlight
  <2>4. q.bearer \in q.held
    BY <1>1, <1>2, <1>3 DEF Vouched
  <2>5. Vouched(n)
    BY <1>2, <2>3, <2>4 DEF Vouched, InByWhat
  <2> HIDE DEF n
  <2> QED
    BY <1>2, <2>1, <2>3, <2>5, RequestGoesOn
<1>4. CASE q.bearer \notin tokens
  <2> DEFINE n == [q EXCEPT !.phase = AfterBearer(q)]
  <2>1. req' = [req EXCEPT ![r] = n]
    BY <1>4 DEF ResolveBearer
  <2>2. n \in InFlight /\ Vouched(n)
    <3> HIDE DEF q
    <3> QED
      BY <1>1, <1>2, <1>4, AfterBearerIsRight DEF Vouched
  <2> HIDE DEF n
  <2> QED
    BY <1>2, <2>1, <2>2, RequestGoesOn
<1> QED
  BY <1>3, <1>4

LEMMA ResolveCookieKeeps ==
  ASSUME GateInv, NEW r \in Requests, ResolveCookie(r)
  PROVE  GateInv'
<1> DEFINE q == req[r]
           next == IF LiveSession(q.cookie) THEN "handler" ELSE "refused"
           n == [q EXCEPT !.phase = next]
<1>1. q \in InFlight /\ q.phase = "cookie"
  BY PhaseTells DEF GateInv, CreatedOnly, ResolveCookie
<1>2. CreatedOnly /\ Vouched(q) /\ UNCHANGED <<env, tokens, everToken, life, everSession>>
  BY <1>1 DEF GateInv, ResolveCookie
<1>3. req' = [req EXCEPT ![r] = n]
  BY <1>2 DEF ResolveCookie, Goto, CreatedOnly
<1>4. n \in InFlight /\ n.phase = next /\ n.bearer = q.bearer /\ n.cookie = q.cookie
      /\ n.held = q.held /\ n.client = q.client /\ n.actor = q.actor
  BY <1>1 DEF InFlight
<1>5. LiveSession(q.cookie) => q.cookie \in q.held
  BY <1>1, <1>2 DEF Vouched
<1>6. Vouched(n)
  <2> HIDE DEF n
  <2>1. CASE LiveSession(q.cookie)
    BY <2>1, <1>1, <1>2, <1>4, <1>5 DEF Vouched, InByWhat
  <2>2. CASE ~ LiveSession(q.cookie)
    BY <2>2, <1>1, <1>2, <1>4 DEF Vouched
  <2> QED
    BY <2>1, <2>2
<1> HIDE DEF n
<1> QED
  BY <1>2, <1>3, <1>4, <1>6, RequestGoesOn

\* The end of a request, whatever became of it.
LEMMA AnswerKeeps ==
  ASSUME GateInv, NEW r \in Requests, Answer(r),
         UNCHANGED <<env, tokens, everToken, life, everSession>>
  PROVE  GateInv'
BY IdleIsNotInFlight, RequestGoesOn DEF Answer

LEMMA SelectLabelsKeeps ==
  ASSUME GateInv, NEW r \in Requests, SelectLabels(r)
  PROVE  GateInv'
<1> DEFINE n == [phase |-> "labels", rows |-> tokens]
<1>1. n \in Answering /\ n \notin InFlight
  BY DEF GateInv, CreatedOnly, Answering, InFlight
<1>2. req' = [req EXCEPT ![r] = n] /\ UNCHANGED <<env, tokens, everToken, life, everSession>>
  BY DEF SelectLabels
<1> HIDE DEF n
<1> QED
  BY <1>1, <1>2, RequestGoesOn

\* A handler that changed the tokens goes on to drop the cache.
LEMMA HandlerGoesOn ==
  ASSUME GateInv, OnlyFade, NEW r \in Requests, req[r].phase = "handler",
         Goto(r, "invalidate"), tokens' \subseteq everToken', everToken' \subseteq Tokens,
         UNCHANGED <<life, everSession>>
  PROVE  GateInv'
<1> DEFINE q == req[r]
<1>1. q \in InFlight /\ CreatedOnly
  BY PhaseTells DEF GateInv, CreatedOnly
<1>2. Vouched(q)
  BY <1>1 DEF GateInv
<1>3. PICK n : n = [q EXCEPT !.phase = "invalidate"]
  OBVIOUS
<1>4. n \in InFlight /\ n.phase = "invalidate" /\ n.bearer = q.bearer /\ n.cookie = q.cookie
      /\ n.held = q.held /\ n.client = q.client /\ n.actor = q.actor
  BY <1>1, <1>3 DEF InFlight
<1>5. Vouched(n)
  BY <1>2, <1>4 DEF Vouched, InByWhat
<1>6. Vouched(n)'
  BY <1>1, <1>4, <1>5, VouchedStays
<1>7. req' = [req EXCEPT ![r] = n]
  BY <1>1, <1>3 DEF Goto, CreatedOnly
<1>8. CreatedOnly'
  BY <1>1, <1>4, <1>7 DEF CreatedOnly
<1>9. (\A x \in Requests : x # r => req'[x] = req[x]) /\ req'[r] = n
  BY <1>1, <1>7 DEF CreatedOnly
<1> QED
  BY <1>6, <1>8, <1>9, OneRequestMoves

LEMMA TokenHandlersKeep ==
  ASSUME GateInv, NEW r \in Requests, CreateToken(r) \/ RevokeToken(r)
  PROVE  GateInv'
<1>1. CASE CreateToken(r)
  <2>1. PICK t \in Tokens \ everToken :
          tokens' = tokens \cup {t} /\ everToken' = everToken \cup {t}
    BY <1>1 DEF CreateToken
  <2>2. OnlyFade
    BY <1>1, <2>1 DEF CreateToken, OnlyFade, GateInv, CreatedOnly, LiveSession
  <2> QED
    BY <1>1, <2>1, <2>2, HandlerGoesOn DEF CreateToken, GateInv, CreatedOnly
<1>2. CASE RevokeToken(r)
  <2>1. PICK t \in Tokens : tokens' = tokens \ {t}
    BY <1>2 DEF RevokeToken
  <2>2. OnlyFade
    BY <1>2, <2>1 DEF RevokeToken, OnlyFade, GateInv, CreatedOnly, LiveSession
  <2> QED
    BY <1>2, <2>1, <2>2, HandlerGoesOn DEF RevokeToken, GateInv, CreatedOnly
<1> QED
  BY <1>1, <1>2

LEMMA RequestKeeps ==
  ASSUME GateInv, NEW r \in Requests, Arrive(r) \/ RequestStep(r) \/ Abandon(r)
  PROVE  GateInv'
<1>1. CASE Arrive(r)
  BY <1>1, ArriveKeeps
<1>2. CASE ResolveBearer(r)
  BY <1>2, ResolveBearerKeeps
<1>3. CASE ResolveCookie(r)
  BY <1>3, ResolveCookieKeeps
<1>4. CASE CreateToken(r) \/ RevokeToken(r)
  BY <1>4, TokenHandlersKeep
<1>5. CASE SelectLabels(r)
  BY <1>5, SelectLabelsKeeps
<1>6. CASE Refuse(r) \/ InvalidateLabels(r) \/ ServeCachedLabels(r) \/ StoreLabels(r)
           \/ Abandon(r)
  BY <1>6, AnswerKeeps
     DEF Refuse, InvalidateLabels, ServeCachedLabels, StoreLabels, Abandon
<1> QED
  BY <1>1, <1>2, <1>3, <1>4, <1>5, <1>6 DEF RequestStep

-----------------------------------------------------------------------------
(* Sessions and time.                                                      *)

\* A session that was given out only ever loses life.
LEMMA SessionsKeep ==
  ASSUME GateInv, req' = req, UNCHANGED <<env, tokens, everToken>>,
         everSession \subseteq everSession', everSession' \subseteq Sessions,
         life' \in [Sessions -> Int],
         \A s \in Sessions : life'[s] > 0 =>
           s \in everSession' /\ (s \in everSession => life[s] > 0)
  PROVE  GateInv'
<1>1. OnlyFade /\ CreatedOnly'
  BY DEF GateInv, OnlyFade, CreatedOnly, LiveSession
<1> QED
  BY <1>1, NoRequestMoves

LEMMA LoginKeeps ==
  ASSUME GateInv, NEW c, NEW right, Login(c, right)
  PROVE  GateInv'
<1>1. req' = req /\ UNCHANGED <<env, tokens, everToken>> /\ CreatedOnly
  BY DEF Login, GateInv
<1>2. CASE UNCHANGED <<life, everSession>>
  BY <1>1, <1>2, SessionsKeep DEF CreatedOnly
<1>3. ASSUME NEW s \in Sessions \ everSession, life' = [life EXCEPT ![s] = Life],
             everSession' = everSession \cup {s}
      PROVE  GateInv'
  <2>1. Life \in Int
    BY AccessAssumption
  <2> QED
    BY <1>1, <1>3, <2>1, SessionsKeep DEF CreatedOnly
<1> QED
  BY <1>2, <1>3 DEF Login

LEMMA FadingKeeps ==
  ASSUME GateInv, Tick \/ PruneExpiredSessions \/ \E s \in Sessions : Logout(s)
  PROVE  GateInv'
<1>1. /\ req' = req /\ UNCHANGED <<env, tokens, everToken, everSession>>
      /\ life' \in [Sessions -> Int] /\ CreatedOnly
      /\ \A s \in Sessions : life'[s] > 0 => life[s] > 0
  BY DEF Tick, PruneExpiredSessions, Logout, GateInv, CreatedOnly
<1> QED
  BY <1>1, SessionsKeep DEF CreatedOnly

-----------------------------------------------------------------------------
(* The theorem.                                                            *)

LEMMA GateInvInductive ==
  ASSUME GateInv, [AccessNext]_accessVars
  PROVE  GateInv'
<1>1. ASSUME NEW r \in Requests, Arrive(r) \/ RequestStep(r) \/ Abandon(r)
      PROVE  GateInv'
  BY <1>1, RequestKeeps
<1>2. ASSUME NEW c \in AllClients, NEW right \in BOOLEAN, Login(c, right)
      PROVE  GateInv'
  BY <1>2, LoginKeeps
<1>3. CASE Tick \/ PruneExpiredSessions \/ \E s \in Sessions : Logout(s)
  BY <1>3, FadingKeeps
<1>4. CASE UNCHANGED accessVars
  <2>1. OnlyFade /\ CreatedOnly' /\ req' = req
    BY <1>4, Unmoved DEF accessVars, GateInv, CreatedOnly
  <2> QED
    BY <2>1, NoRequestMoves
<1> QED
  BY <1>1, <1>2, <1>3, <1>4 DEF AccessNext

LEMMA GateInvInit == AccessInit => GateInv
<1> SUFFICES ASSUME AccessInit PROVE GateInv
  OBVIOUS
<1>1. \A r \in Requests : req[r] = Idle
  BY DEF AccessInit
<1>2. CreatedOnly
  BY DEF AccessInit, CreatedOnly
<1> QED
  BY <1>1, <1>2, IdleIsNotInFlight DEF GateInv

LEMMA GateInvIsEnough == GateInv => GateIsRight
<1> SUFFICES ASSUME GateInv, NEW r \in Requests
             PROVE  /\ PastTheGate(r) /\ req[r].client.prefixed => InByWhat(req[r])
                    /\ req[r].phase = "refused" =>
                         /\ Required /\ req[r].bearer \notin tokens
                         /\ ~ LiveSession(req[r].cookie)
                         /\ ~ TrustedWithoutCredential(req[r].client)
  BY DEF GateIsRight, InByCredential, TurnedAwayIsInvalid, InByWhat
<1> DEFINE q == req[r]
<1>1. q.phase \in {"handler", "invalidate", "refused"} => q \in InFlight /\ Vouched(q)
  BY PhaseTells DEF GateInv, CreatedOnly
<1> QED
  BY <1>1 DEF PastTheGate, Vouched

\* Whatever the environment, and however many requests, logins, revocations
\* and ends of sessions interleave, nobody is past the gate of a daemon that
\* requires credentials, by a URL that begins with /v1/ as it was sent, without
\* a credential that was good when the request came or a direct connection from
\* the host, and nobody is refused who carries a valid one (server.ts, the auth
\* hook; auth.ts; tokens.ts; sessions.ts).
THEOREM GateHolds == AccessSpec => []GateIsRight
<1>1. AccessInit => GateInv
  BY GateInvInit
<1>2. GateInv /\ [AccessNext]_accessVars => GateInv'
  BY GateInvInductive
<1>3. GateInv => GateIsRight
  BY GateInvIsEnough
<1> QED
  BY <1>1, <1>2, <1>3, PTL DEF AccessSpec

-----------------------------------------------------------------------------
(* The limiter of the login.                                               *)

\* A peer that is believed about nobody else has each of its attempts counted
\* under its own address.
LoginInv ==
  /\ hits \in [Addresses -> Nat] /\ tried \in [Addresses -> Nat]
  /\ \A a \in Addresses :
       /\ hits[a] <= LoginMax
       /\ tried[a] <= IF IsTrustedProxy(a) THEN 0 ELSE hits[a]

LEMMA ClientIpIsAddress ==
  ASSUME NEW c \in AllClients
  PROVE  /\ c.peer \in Addresses /\ ClientIp(c) \in Addresses
         /\ ~ IsTrustedProxy(c.peer) => ClientIp(c) = c.peer
<1>1. c.peer \in Addresses /\ {c.cf, c.xff} \subseteq Addresses \cup {NoOne}
  BY AccessAssumption DEF Addresses
<1> QED
  BY <1>1 DEF ClientIp

LEMMA TrustStays ==
  ASSUME env' = env
  PROVE  \A a : IsTrustedProxy(a)' = IsTrustedProxy(a)
BY DEF IsTrustedProxy, RuleCovers, MatchesCidr

LEMMA LoginStaysLimited ==
  ASSUME LoginInv, NEW c \in AllClients, NEW right \in BOOLEAN, Login(c, right)
  PROVE  LoginInv'
<1> DEFINE k == ClientIp(c)
           p == c.peer
<1>1. k \in Addresses /\ p \in Addresses /\ (~ IsTrustedProxy(p) => k = p)
  BY ClientIpIsAddress
<1>2. /\ ~ (hits[k] >= LoginMax) /\ env' = env
      /\ hits' = [hits EXCEPT ![k] = @ + 1]
      /\ tried' = [tried EXCEPT ![p] = IF IsTrustedProxy(p) THEN 0 ELSE @ + 1]
  BY DEF Login, Limited
<1>3. \A a : IsTrustedProxy(a)' = IsTrustedProxy(a)
  BY <1>2, TrustStays
<1>4. LoginMax \in Nat
  BY AccessAssumption
<1> HIDE DEF k, p
<1>5. hits' \in [Addresses -> Nat] /\ tried' \in [Addresses -> Nat]
  BY <1>1, <1>2 DEF LoginInv
<1>6. \A a \in Addresses : hits'[a] <= LoginMax
  BY <1>1, <1>2, <1>4 DEF LoginInv
<1>7. \A a \in Addresses : tried'[a] <= IF IsTrustedProxy(a) THEN 0 ELSE hits'[a]
  BY <1>1, <1>2 DEF LoginInv
<1> QED
  BY <1>3, <1>5, <1>6, <1>7 DEF LoginInv

LEMMA LoginInvInductive ==
  ASSUME LoginInv, [AccessNext]_accessVars
  PROVE  LoginInv'
<1>1. ASSUME NEW c \in AllClients, NEW right \in BOOLEAN, Login(c, right)
      PROVE  LoginInv'
  BY <1>1, LoginStaysLimited
<1>2. CASE Tick
  <2>1. /\ hits' = [a \in Addresses |-> 0] /\ tried' = [a \in Addresses |-> 0]
        /\ env' = env
    BY <1>2 DEF Tick
  <2> QED
    BY <2>1, AccessAssumption DEF LoginInv
<1>3. CASE UNCHANGED <<env, hits, tried>>
  BY <1>3, TrustStays DEF LoginInv
<1>4. ASSUME NEW r \in Requests, Arrive(r) \/ RequestStep(r) \/ Abandon(r)
      PROVE  LoginInv'
  BY <1>3, <1>4
     DEF Arrive, RequestStep, Abandon, ResolveBearer, ResolveCookie, Refuse, CreateToken,
         RevokeToken, InvalidateLabels, ServeCachedLabels, SelectLabels, StoreLabels
<1>5. CASE PruneExpiredSessions \/ \E s \in Sessions : Logout(s)
  BY <1>3, <1>5 DEF PruneExpiredSessions, Logout
<1>6. CASE UNCHANGED accessVars
  BY <1>3, <1>6 DEF accessVars
<1> QED
  BY <1>1, <1>2, <1>4, <1>5, <1>6 DEF AccessNext

\* Within a window no peer that is not a trusted proxy gets more than LoginMax
\* passwords compared, for any number of peers, proxies and headers
\* (auth.ts, clientIp; routes.ts, the limit of the login).
THEOREM LoginHolds == AccessSpec => []LoginIsLimited
<1>1. AccessInit => LoginInv
  BY AccessAssumption DEF AccessInit, LoginInv
<1>2. LoginInv /\ [AccessNext]_accessVars => LoginInv'
  BY LoginInvInductive
<1>3. LoginInv => LoginIsLimited
  BY AccessAssumption DEF LoginInv, LoginIsLimited
<1> QED
  BY <1>1, <1>2, <1>3, PTL DEF AccessSpec

-----------------------------------------------------------------------------
(* The calls.                                                              *)

Verdicts == {"ok", "exists", "refused", "not found", "failed"}

LastVerdict == verdicts[Len(verdicts)]

CallShape ==
  /\ items \in Nat /\ rows \in Nat
  /\ verdicts \in Seq(Verdicts)
  /\ stage \in Steps
  /\ stage # "idle" => call \in DOMAIN Calls
  /\ late = [at |-> late.at, got |-> late.got]

\* A call is over when it has no items left, and only a batch has several.
Counted ==
  /\ stage \notin {"idle", "told"} => items > 0
  /\ stage = "told" => items = 0
  /\ stage \in {"next", "told"} => verdicts # <<>>
  /\ items > 1 \/ stage = "next" => call = "update_entities"
  /\ stage = "idle" => rows = 0 /\ late = NoLate

\* Nobody is told "ok" before it is done.
Honest ==
  /\ stage = "render" => did
  /\ stage \in {"next", "told"} /\ LastVerdict = "ok" => did
  /\ stage = "told" /\ LastVerdict = "exists" => project

Keyed == Creates /\ Has(args, "idempotencyKey")

Superseding == call \in {"remember", "webCreateNote"} /\ Has(args, "supersedes")

\* What the service was given has what makes it safe to call again.
Arrived ==
  /\ stage \in InDaemon =>
       /\ Keyed => Has(got, "idempotencyKey")
       /\ Superseding => Has(got, "supersedes")
  /\ late # NoLate /\ Keyed => Has(late.got, "idempotencyKey")

Kept ==
  /\ stage # "idle" => (Creates \/ rows = 0) /\ (Keyed => rows <= 1)
  /\ Superseding /\ stage = "render" => edge
  /\ Superseding /\ stage = "told" /\ LastVerdict = "ok" => edge

GatewayInv == CallShape /\ Counted /\ Honest /\ Arrived /\ Kept

-----------------------------------------------------------------------------
(* The way of an argument.                                                 *)

\* An argument that the route takes is in what the service is given, and null
\* only if the caller said so.
LEMMA ArgumentArrives ==
  ASSUME NEW name, NEW arguments, NEW k \in {"idempotencyKey", "supersedes"},
         Has(arguments, k), Passes(name, k)
  PROVE  Has(Parsed(Calls[name].to, Body(name, arguments)), k)
<1> DEFINE t == Calls[name]
           own == DOMAIN arguments \ {t.at}
           said == {Renamed(name, n) : n \in own}
           body == [n \in said \cup DOMAIN t.given \cup t.nulls |->
                      IF n \in said
                      THEN LET x == CHOOSE y \in own : Renamed(name, y) = n
                           IN  Folded(name, x, arguments[x])
                      ELSE IF n \in DOMAIN t.given THEN t.given[n] ELSE "null"]
<1>1. /\ t.at # k /\ t.to \notin QueryCalls
      /\ k \in DOMAIN Fields(Routes[t.to].schema)
      /\ k \in DOMAIN arguments /\ arguments[k] # "null"
  BY DEF Passes, Has
<1>2. Body(name, arguments) = body
  BY <1>1 DEF Body, Sent
<1>3. k \in own /\ Renamed(name, k) = k /\ Folded(name, k, arguments[k]) = arguments[k]
  BY <1>1 DEF Renamed, Folded
<1>4. \A y : Renamed(name, y) = k => y = k
  BY DEF Renamed
<1>5. (CHOOSE y \in own : Renamed(name, y) = k) = k
  BY <1>3, <1>4
<1>6. k \in said
  BY <1>3
<1>7. k \in DOMAIN body /\ body[k] = arguments[k]
  BY <1>3, <1>5, <1>6
<1> HIDE DEF body, t
<1> DEFINE s == Routes[t.to].schema
           taken == DOMAIN body \cap DOMAIN Fields(s)
           parsed == [n \in taken \cup DOMAIN s.given |-> IF n \in taken THEN body[n] ELSE s.given[n]]
<1>8. Parsed(t.to, body) = parsed
  BY DEF Parsed
<1>9. k \in taken
  BY <1>1, <1>7
<1>10. k \in DOMAIN parsed /\ parsed[k] = arguments[k]
  BY <1>7, <1>9
<1> QED
  BY <1>1, <1>2, <1>8, <1>10 DEF Has, t


\* A reference that is looked up stays in the arguments.
LEMMA NamedHas ==
  ASSUME NEW k, Has(args, k)
  PROVE  Has(Named, k)
BY DEF Has, Named

LEMMA SameCall ==
  ASSUME UNCHANGED call
  PROVE  /\ Creates' <=> Creates
         /\ args' = args \/ args' = None => (Keyed' => Keyed) /\ (Superseding' => Superseding)
<1>1. Creates' <=> Creates
  BY DEF Creates, Does, Entry
<1>2. \A k : ~ Has(None, k)
  BY DEF Has, None
<1>3. CASE args' = args
  BY <1>1, <1>3 DEF Keyed, Superseding, Has
<1>4. CASE args' = None
  BY <1>1, <1>2, <1>4 DEF Keyed, Superseding, Has
<1> QED
  BY <1>1, <1>3, <1>4

-----------------------------------------------------------------------------
(* An answer to the caller.                                                *)

LEMMA TellKeeps ==
  ASSUME GatewayInv, stage \notin {"idle", "next", "told"}, NEW v \in Verdicts, Tell(v),
         UNCHANGED <<call, got, did, world>>,
         \/ late' \in {late, NoLate}
         \/ stage \in InDaemon /\ late' = [at |-> stage, got |-> got],
         v = "ok" => stage = "render",
         v = "exists" => project
  PROVE  GatewayInv'
<1>1. /\ verdicts' = Append(verdicts, v)
      /\ args' = args \/ args' = None
      /\ stage' = (IF items > 1 THEN "next" ELSE "told") /\ items' = items - 1
      /\ UNCHANGED <<rows, edge, project>>
  BY DEF Tell, world
<1>2. items \in Nat /\ items > 0 /\ verdicts \in Seq(Verdicts)
  BY DEF GatewayInv, CallShape, Counted
<1>3. verdicts' \in Seq(Verdicts) /\ verdicts' # <<>> /\ LastVerdict' = v
  BY <1>1, <1>2 DEF LastVerdict
<1>4. (Creates' <=> Creates) /\ (Keyed' => Keyed) /\ (Superseding' => Superseding)
  BY <1>1, SameCall
<1>5. CallShape'
  <2>1. late' = [at |-> late'.at, got |-> late'.got]
    BY DEF GatewayInv, CallShape, NoLate
  <2> QED
    BY <1>1, <1>2, <1>3, <2>1 DEF GatewayInv, CallShape, Steps
<1>6. Counted'
  BY <1>1, <1>2, <1>3 DEF GatewayInv, Counted
<1>7. Honest'
  BY <1>1, <1>3 DEF GatewayInv, Honest
<1>8. Arrived'
  <2>1. stage' \notin InDaemon
    BY <1>1 DEF InDaemon
  <2>2. ASSUME late' # NoLate, Keyed
        PROVE  Has(late'.got, "idempotencyKey")
    <3>1. CASE late' = late
      BY <2>2, <3>1 DEF GatewayInv, Arrived, Has
    <3>2. CASE stage \in InDaemon /\ late' = [at |-> stage, got |-> got]
      BY <2>2, <3>2 DEF GatewayInv, Arrived, Has
    <3> QED
      BY <2>2, <3>1, <3>2
  <2> QED
    BY <1>4, <2>1, <2>2 DEF Arrived, Has
<1>9. Kept'
  BY <1>1, <1>3, <1>4 DEF GatewayInv, Kept
<1> QED
  BY <1>5, <1>6, <1>7, <1>8, <1>9 DEF GatewayInv

\* A step on to another stage, which leaves what was written alone.
LEMMA GoOnKeeps ==
  ASSUME GatewayInv, stage \notin {"idle", "told"}, UNCHANGED <<call, items, late, world>>,
         verdicts' = verdicts, args' = args,
         stage' \in Steps \ {"idle", "next", "told"},
         stage' = "render" => did' /\ (Superseding => edge),
         stage' \in InDaemon =>
           /\ Keyed => Has(got', "idempotencyKey")
           /\ Superseding => Has(got', "supersedes")
  PROVE  GatewayInv'
<1>1. UNCHANGED <<rows, edge, project>>
  BY DEF world
<1>2. /\ Creates' <=> Creates
      /\ Keyed' => Keyed
      /\ Superseding' => Superseding
  BY SameCall
<1>3. CallShape' /\ Counted'
  BY <1>1 DEF GatewayInv, CallShape, Counted
<1>4. Honest'
  BY DEF Honest
<1>5. Arrived'
  BY <1>2 DEF GatewayInv, Arrived, Has
<1>6. Kept'
  BY <1>1, <1>2 DEF GatewayInv, Kept
<1> QED
  BY <1>3, <1>4, <1>5, <1>6 DEF GatewayInv

-----------------------------------------------------------------------------
(* The steps of a call.                                                    *)

LEMMA InvokeKeeps ==
  ASSUME GatewayInv, NEW name \in DOMAIN Calls, Invoke(name)
  PROVE  GatewayInv'
<1>1. /\ stage = "idle" /\ call' = name /\ stage' \in {"lookup", "resolve"}
      /\ items' \in {1, 2} /\ (items' = 2 => name = "update_entities")
      /\ UNCHANGED <<verdicts, rows, edge, project, late>>
  BY DEF Invoke, Start, daemon, world
<1>2. rows = 0 /\ late = NoLate
  BY <1>1 DEF GatewayInv, Counted
<1>3. CallShape' /\ Counted'
  BY <1>1, <1>2 DEF GatewayInv, CallShape, Counted, Steps
<1>4. Honest' /\ Kept'
  BY <1>1, <1>2 DEF Honest, Kept
<1>5. Arrived'
  BY <1>1, <1>2 DEF Arrived, InDaemon
<1> QED
  BY <1>3, <1>4, <1>5 DEF GatewayInv

\* The next item has other arguments, but a batch creates no rows.
LEMMA NextItemKeeps ==
  ASSUME GatewayInv, NextItem
  PROVE  GatewayInv'
<1>1. /\ stage = "next" /\ stage' = "resolve" /\ UNCHANGED <<call, items, verdicts, late>>
      /\ UNCHANGED <<rows, edge, project>>
  BY DEF NextItem, daemon, world
<1>2. call = "update_entities" /\ call \in DOMAIN Calls
  BY <1>1 DEF GatewayInv, CallShape, Counted
<1>3. ~ Creates
  BY <1>2, TablesAssumption DEF Creates, Does, Entry
<1>4. ~ Keyed' /\ ~ Superseding' /\ ~ Creates'
  BY <1>1, <1>2, <1>3, SameCall DEF Keyed, Superseding
<1>5. CallShape' /\ Counted'
  BY <1>1 DEF GatewayInv, CallShape, Counted, Steps
<1>6. Honest'
  BY <1>1 DEF Honest
<1>7. Arrived' /\ Kept'
  BY <1>1, <1>3, <1>4 DEF GatewayInv, Arrived, Kept
<1> QED
  BY <1>5, <1>6, <1>7 DEF GatewayInv

LEMMA ResolveKeeps ==
  ASSUME GatewayInv, Resolve
  PROVE  GatewayInv'
<1>1. stage = "resolve" /\ UNCHANGED <<call, got, did, world, late>>
  BY DEF Resolve, daemon
<1>2. CASE Tell("failed")
  BY <1>1, <1>2, TellKeeps DEF Verdicts
<1>3. CASE UNCHANGED <<args, items, verdicts>> /\ stage' \in {"resolve", "send"}
  BY <1>1, <1>3, GoOnKeeps DEF Steps, InDaemon
<1> QED
  BY <1>1, <1>2, <1>3 DEF Resolve, GoOn

LEMMA LookUpKeeps ==
  ASSUME GatewayInv, LookUp
  PROVE  GatewayInv'
<1>1. stage = "lookup" /\ UNCHANGED <<call, got, did, world, late>>
  BY DEF LookUp, daemon
<1>2. CASE project /\ Tell("exists")
  BY <1>1, <1>2, TellKeeps DEF Verdicts
<1>3. CASE GoOn /\ stage' = "send"
  BY <1>1, <1>3, GoOnKeeps DEF Steps, InDaemon, GoOn
<1> QED
  BY <1>2, <1>3 DEF LookUp

LEMMA SendKeeps ==
  ASSUME GatewayInv, Send
  PROVE  GatewayInv'
<1>1. /\ stage = "send" /\ UNCHANGED <<call, did, world, late>>
      /\ call \in DOMAIN Calls
  BY DEF Send, daemon, GatewayInv, CallShape
<1>2. CASE UNCHANGED got /\ \E v \in {"refused", "failed"} : Tell(v)
  BY <1>1, <1>2, TellKeeps DEF Verdicts
<1>3. CASE GoOn /\ stage' = "find" /\ got' = Parsed(Entry.to, Body(call, Named))
  <2>1. ASSUME NEW k \in {"idempotencyKey", "supersedes"}, Has(args, k), Passes(call, k)
        PROVE  Has(got', k)
    <3>1. PICK arguments : arguments = Named
      OBVIOUS
    <3>2. Has(arguments, k)
      BY <2>1, <3>1, NamedHas
    <3>3. Has(Parsed(Calls[call].to, Body(call, arguments)), k)
      BY <2>1, <3>2, ArgumentArrives
    <3> QED
      BY <1>3, <3>1, <3>3 DEF Entry
  <2>2. Keyed => Passes(call, "idempotencyKey")
    BY <1>1, TablesAssumption DEF Keyed, Creates, Does, Entry
  <2>3. Superseding => Passes(call, "supersedes")
    BY TablesAssumption DEF Superseding
  <2>4. /\ Keyed => Has(got', "idempotencyKey")
        /\ Superseding => Has(got', "supersedes")
    BY <2>1, <2>2, <2>3 DEF Keyed, Superseding
  <2> QED
    BY <1>1, <1>3, <2>4, GoOnKeeps DEF Steps, InDaemon, GoOn
<1> QED
  BY <1>2, <1>3 DEF Send

LEMMA FindKeeps ==
  ASSUME GatewayInv, Find
  PROVE  GatewayInv'
<1>1. stage = "find" /\ UNCHANGED <<call, got, did, world, late>>
  BY DEF Find, daemon
<1>2. CASE Tell("not found")
  BY <1>1, <1>2, TellKeeps DEF Verdicts
<1>3. CASE GoOn /\ stage' = "do"
  BY <1>1, <1>3, GoOnKeeps DEF Steps, InDaemon, GoOn, GatewayInv, Arrived, Has
<1> QED
  BY <1>2, <1>3 DEF Find


\* With a key the second time makes no second row.
LEMMA EffectKeeps ==
  ASSUME GatewayInv, stage # "idle", NEW in, Effect(in),
         Keyed => Has(in, "idempotencyKey")
  PROVE  /\ rows' \in Nat
         /\ ~ Creates => rows' = 0
         /\ Keyed => rows' <= 1
         /\ project => project'
<1>1. rows' = IF Creates /\ ~ Again(in) THEN rows + 1 ELSE rows
  BY DEF Effect
<1>2. rows \in Nat /\ (~ Creates => rows = 0) /\ (Keyed => rows <= 1)
  BY DEF GatewayInv, CallShape, Kept
<1>3. Keyed /\ ~ Again(in) => rows = 0
  BY <1>2 DEF Again
<1>4. Keyed => Creates
  BY DEF Keyed
<1>5. rows' \in Nat /\ (~ Creates => rows' = 0) /\ (Keyed => rows' <= 1)
  BY <1>1, <1>2, <1>3, <1>4
<1>6. project => project'
  BY Zenon DEF Effect
<1> QED
  BY <1>5, <1>6

LEMMA DoKeeps ==
  ASSUME GatewayInv, Do
  PROVE  GatewayInv'
<1>1. stage = "do" /\ UNCHANGED <<call, got, late>>
  BY DEF Do, daemon
<1>2. CASE Tell("failed") /\ UNCHANGED <<world, did>>
  BY <1>1, <1>2, TellKeeps DEF Verdicts
<1>3. CASE /\ Effect(got) /\ did' = ~ Has(got, "supersedes") /\ UNCHANGED edge /\ GoOn
           /\ stage' = IF Has(got, "supersedes") THEN "mark" ELSE "render"
  <2>1. UNCHANGED <<args, items, verdicts>>
    BY <1>3 DEF GoOn
  <2>2. (Creates' <=> Creates) /\ (Keyed' => Keyed) /\ (Superseding' => Superseding)
    BY <1>1, <2>1, SameCall
  <2>3. /\ Keyed => Has(got, "idempotencyKey")
        /\ Superseding => Has(got, "supersedes")
    BY <1>1 DEF GatewayInv, Arrived, InDaemon
  <2>4. rows' \in Nat /\ (~ Creates => rows' = 0) /\ (Keyed => rows' <= 1)
    BY <1>1, <1>3, <2>3, EffectKeeps
  <2>5. CallShape' /\ Counted'
    BY <1>1, <1>3, <2>1, <2>4 DEF GatewayInv, CallShape, Counted, Steps
  <2>6. Honest'
    BY <1>3 DEF Honest
  <2>7. Arrived'
    <3>1. Has(got, "supersedes")' <=> Has(got, "supersedes")
      BY <1>1 DEF Has
    <3>2. Has(got, "idempotencyKey")' <=> Has(got, "idempotencyKey")
      BY <1>1 DEF Has
    <3>3. late' # NoLate /\ Keyed => Has(late.got, "idempotencyKey")'
      BY <1>1 DEF GatewayInv, Arrived, Has
    <3> QED
      BY <2>2, <2>3, <3>1, <3>2, <3>3 DEF Arrived
  <2>8. Kept'
    BY <1>3, <2>2, <2>3, <2>4 DEF Kept
  <2> QED
    BY <2>5, <2>6, <2>7, <2>8 DEF GatewayInv
<1> QED
  BY <1>2, <1>3 DEF Do

LEMMA MarkKeeps ==
  ASSUME GatewayInv, Mark
  PROVE  GatewayInv'
<1>1. stage = "mark" /\ UNCHANGED <<call, got, late, rows, target, project>>
  BY DEF Mark, daemon
<1>2. CASE Tell("failed") /\ UNCHANGED <<edge, did>>
  BY <1>1, <1>2, TellKeeps DEF Verdicts, world
<1>3. CASE edge' = TRUE /\ did' = TRUE /\ stage' = "render" /\ GoOn
  <2>1. UNCHANGED <<args, items, verdicts>>
    BY <1>3 DEF GoOn
  <2>2. (Creates' <=> Creates) /\ (Keyed' => Keyed) /\ (Superseding' => Superseding)
    BY <1>1, <2>1, SameCall
  <2>3. CallShape' /\ Counted'
    BY <1>1, <1>3, <2>1 DEF GatewayInv, CallShape, Counted, Steps
  <2>4. Honest'
    BY <1>3 DEF Honest
  <2>5. Arrived'
    BY <1>1, <1>3, <2>2 DEF GatewayInv, Arrived, InDaemon, Has
  <2>6. Kept'
    BY <1>1, <1>3, <2>2 DEF GatewayInv, Kept
  <2> QED
    BY <2>3, <2>4, <2>5, <2>6 DEF GatewayInv
<1> QED
  BY <1>2, <1>3 DEF Mark

LEMMA RenderKeeps ==
  ASSUME GatewayInv, Render
  PROVE  GatewayInv'
<1>1. stage = "render" /\ UNCHANGED <<call, got, did, world, late>>
  BY DEF Render, daemon
<1>2. PICK v \in {"ok", "failed"} : Tell(v)
  BY DEF Render
<1> QED
  BY <1>1, <1>2, TellKeeps DEF Verdicts

LEMMA RepeatKeeps ==
  ASSUME GatewayInv, Repeat
  PROVE  GatewayInv'
<1>1. /\ stage = "told" /\ stage' \in {"lookup", "resolve"} /\ call # "update_entities"
      /\ items' = 1 /\ verdicts' = <<>>
      /\ UNCHANGED <<call, args, late, rows, edge, project>>
  BY DEF Repeat, Start, daemon, world
<1>2. (Creates' <=> Creates) /\ (Keyed' => Keyed) /\ (Superseding' => Superseding)
  BY <1>1, SameCall
<1>3. CallShape' /\ Counted'
  BY <1>1 DEF GatewayInv, CallShape, Counted, Steps
<1>4. Honest'
  BY <1>1 DEF Honest
<1>5. Arrived' /\ Kept'
  BY <1>1, <1>2 DEF GatewayInv, Arrived, Kept, InDaemon, Has
<1> QED
  BY <1>3, <1>4, <1>5 DEF GatewayInv

-----------------------------------------------------------------------------
(* Faults and others.                                                      *)

LEMMA LoseAnswerKeeps ==
  ASSUME GatewayInv, LoseAnswer
  PROVE  GatewayInv'
<1>1. /\ stage \in {"do", "mark"} /\ late' = [at |-> stage, got |-> got] /\ Tell("failed")
      /\ UNCHANGED <<call, got, did, world>>
  BY DEF LoseAnswer
<1>2. late'.got = got
  BY <1>1
<1> QED
  BY <1>1, <1>2, TellKeeps DEF Verdicts, InDaemon

\* What nobody waits for leaves one row as well.
LEMMA FinishLateKeeps ==
  ASSUME GatewayInv, FinishLate
  PROVE  GatewayInv'
<1>1. /\ late # NoLate
      /\ UNCHANGED <<call, args, ids, items, verdicts, stage, got, did>>
  BY DEF FinishLate, given
<1>2. stage # "idle" /\ (Keyed => Has(late.got, "idempotencyKey"))
  BY <1>1 DEF GatewayInv, Counted, Arrived
<1>3. (Creates' <=> Creates) /\ (Keyed' => Keyed) /\ (Superseding' => Superseding)
  BY <1>1, SameCall
<1>4. /\ rows' \in Nat /\ (~ Creates => rows' = 0) /\ (Keyed => rows' <= 1)
      /\ (project => project') /\ (edge => edge')
      /\ late' # NoLate => late'.got = late.got
      /\ late' = [at |-> late'.at, got |-> late'.got]
  <2>1. CASE Effect(late.got) /\ UNCHANGED edge /\ late' \in {[late EXCEPT !.at = "mark"], NoLate}
    <3>1. late' # NoLate => late'.got = late.got
      BY <2>1 DEF GatewayInv, CallShape
    <3>2. late' = [at |-> late'.at, got |-> late'.got]
      BY <2>1 DEF GatewayInv, CallShape, NoLate
    <3> QED
      BY <1>2, <2>1, <3>1, <3>2, EffectKeeps
  <2>2. CASE edge' = TRUE /\ late' = NoLate /\ UNCHANGED <<rows, target, project>>
    BY <1>2, <2>2 DEF GatewayInv, CallShape, Kept, NoLate
  <2>3. CASE late' = NoLate /\ UNCHANGED world
    BY <1>2, <2>3 DEF GatewayInv, CallShape, Kept, world, NoLate
  <2> QED
    BY <2>1, <2>2, <2>3 DEF FinishLate
<1>5. CallShape' /\ Counted'
  BY <1>1, <1>2, <1>4 DEF GatewayInv, CallShape, Counted
<1>6. Honest'
  BY <1>1, <1>4 DEF GatewayInv, Honest, LastVerdict
<1>7. Arrived'
  BY <1>1, <1>2, <1>3, <1>4 DEF GatewayInv, Arrived, Has
<1>8. Kept'
  BY <1>1, <1>2, <1>3, <1>4 DEF GatewayInv, Kept, LastVerdict
<1> QED
  BY <1>5, <1>6, <1>7, <1>8 DEF GatewayInv

\* A step that changes nothing of the call, and of the world what others may.
LEMMA OthersKeep ==
  ASSUME GatewayInv, UNCHANGED <<call, args, items, verdicts, stage, got, did, rows, edge>>,
         late' \in {late, NoLate}, project => project'
  PROVE  GatewayInv'
<1>1. (Creates' <=> Creates) /\ (Keyed' => Keyed) /\ (Superseding' => Superseding)
  BY SameCall
<1>2. CallShape' /\ Counted'
  BY DEF GatewayInv, CallShape, Counted, NoLate
<1>3. Honest'
  BY DEF GatewayInv, Honest, LastVerdict
<1>4. Arrived'
  BY <1>1 DEF GatewayInv, Arrived, Has
<1>5. Kept'
  BY <1>1 DEF GatewayInv, Kept, LastVerdict
<1> QED
  BY <1>2, <1>3, <1>4, <1>5 DEF GatewayInv

LEMMA StopDaemonKeeps ==
  ASSUME GatewayInv, StopDaemon
  PROVE  GatewayInv'
<1>1. late' = NoLate /\ UNCHANGED <<call, got, did, world>>
  BY DEF StopDaemon
<1>2. CASE stage \in InDaemon
  <2>1. Tell("failed") /\ stage \notin {"idle", "next", "told"}
    BY <1>2 DEF StopDaemon, InDaemon
  <2> QED
    BY <1>1, <2>1, TellKeeps DEF Verdicts
<1>3. CASE stage \notin InDaemon
  BY <1>1, <1>3, OthersKeep DEF StopDaemon, GoOn, world
<1> QED
  BY <1>2, <1>3

-----------------------------------------------------------------------------
(* The theorems.                                                           *)

LEMMA GatewayInvInit == GatewayInit => GatewayInv
<1> SUFFICES ASSUME GatewayInit PROVE GatewayInv
  OBVIOUS
<1>1. /\ items = 0 /\ rows = 0 /\ stage = "idle" /\ late = NoLate
      /\ verdicts = <<>>
  BY DEF GatewayInit
<1>2. verdicts \in Seq(Verdicts)
  BY <1>1
<1>3. late = [at |-> late.at, got |-> late.got]
  BY <1>1 DEF NoLate
<1>4. CallShape
  BY <1>1, <1>2, <1>3 DEF CallShape, Steps
<1>5. Counted
  BY <1>1 DEF Counted
<1>6. Honest
  BY <1>1 DEF Honest
<1>7. Arrived
  BY <1>1 DEF Arrived, InDaemon
<1>8. Kept
  BY <1>1 DEF Kept
<1> QED
  BY <1>4, <1>5, <1>6, <1>7, <1>8 DEF GatewayInv

LEMMA GatewayInvInductive ==
  ASSUME GatewayInv, [GatewayNext]_gatewayVars
  PROVE  GatewayInv'
<1>1. ASSUME NEW name \in DOMAIN Calls, Invoke(name)
      PROVE  GatewayInv'
  BY <1>1, InvokeKeeps
<1>2. CASE Step
  BY <1>2, NextItemKeeps, ResolveKeeps, LookUpKeeps, SendKeeps, FindKeeps, DoKeeps, MarkKeeps,
     RenderKeeps DEF Step
<1>3. CASE StartDaemon \/ Others
  <2>1. /\ UNCHANGED <<call, args, items, verdicts, stage, got, did, rows, edge, late>>
        /\ project => project'
    BY <1>3 DEF StartDaemon, Others, given, world, daemon
  <2> QED
    BY <2>1, OthersKeep
<1>4. CASE UNCHANGED gatewayVars
  BY <1>4, OthersKeep DEF gatewayVars
<1> QED
  BY <1>1, <1>2, <1>3, <1>4, RepeatKeeps, LoseAnswerKeeps, FinishLateKeeps, StopDaemonKeeps
     DEF GatewayNext

LEMMA GatewayInvAlways == GatewaySpec => []GatewayInv
BY GatewayInvInit, GatewayInvInductive, PTL DEF GatewaySpec

\* A call with an idempotencyKey leaves at most one row, however often it is
\* repeated and with whatever other arguments, wherever the daemon stopped and
\* whatever it finished for a caller that had given up (entities.ts, write;
\* http-client.ts; server.ts).
THEOREM OneRowHolds == GatewaySpec => []OneRowPerKey
<1>1. GatewayInv => OneRowPerKey
  <2> SUFFICES ASSUME GatewayInv, Has(args, "idempotencyKey")
               PROVE  rows <= 1
    BY DEF OneRowPerKey, Has
  <2>1. CASE stage = "idle"
    BY <2>1 DEF GatewayInv, Counted
  <2>2. CASE stage # "idle"
    BY <2>2 DEF GatewayInv, Kept, Keyed
  <2> QED
    BY <2>1, <2>2
<1> QED
  BY <1>1, GatewayInvAlways, PTL

\* Who is told "ok" got what was asked, every item of a batch is answered, and
\* a note that was to supersede another does, also when the first attempt
\* wrote the note and failed before the edge (server.ts, update_entities and
\* remember; entities.ts, markSuperseded).
THEOREM OkHolds == GatewaySpec => []OkIsDone
<1>1. GatewayInv => VerdictsAreHonest
  BY DEF GatewayInv, Honest, Counted, VerdictsAreHonest, LastVerdict
<1>2. GatewayInv => SupersedeIsDone
  BY DEF GatewayInv, Kept, SupersedeIsDone, Superseding, LastVerdict
<1>3. GatewayInv => OkIsDone
  BY <1>1, <1>2 DEF OkIsDone
<1> QED
  BY <1>3, GatewayInvAlways, PTL

-----------------------------------------------------------------------------
(* What the tables of the gate hold.                                       *)

\* A session has a row only once it was given out, and lives at most Life.
Lives ==
  /\ life \in [Sessions -> -1..Life]
  /\ \A s \in Sessions : life[s] # -1 => s \in everSession

\* Names that were read, and are served or about to be stored, are of tokens
\* that were created.
NamesOfCreated ==
  /\ labelCache # NoOne => labelCache \in [labels : SUBSET everToken, age : 0..Ttl]
  /\ \A r \in Requests : req[r].phase = "labels" => req[r].rows \subseteq everToken

LEMMA AccessBounds ==
  /\ Life \in Nat /\ Life > 0 /\ Ttl \in Nat /\ Ttl > 0 /\ LoginMax \in Nat
BY AccessAssumption

LEMMA LivesInductive ==
  ASSUME Lives, everSession \subseteq Sessions, [AccessNext]_accessVars
  PROVE  Lives'
<1>1. CASE UNCHANGED <<life, everSession>>
  BY <1>1 DEF Lives
<1>2. ASSUME NEW r \in Requests, Arrive(r) \/ RequestStep(r) \/ Abandon(r)
      PROVE  Lives'
  BY <1>1, <1>2
     DEF Arrive, RequestStep, Abandon, ResolveBearer, ResolveCookie, Refuse, CreateToken,
         RevokeToken, InvalidateLabels, ServeCachedLabels, SelectLabels, StoreLabels
<1>3. ASSUME NEW c \in AllClients, NEW right \in BOOLEAN, Login(c, right)
      PROVE  Lives'
  <2>1. ASSUME NEW s \in Sessions \ everSession, life' = [life EXCEPT ![s] = Life],
               everSession' = everSession \cup {s}
        PROVE  Lives'
    <3>1. life' \in [Sessions -> -1..Life]
      BY <2>1, AccessBounds DEF Lives
    <3>2. \A x \in Sessions : x # s => life'[x] = life[x]
      BY <2>1 DEF Lives
    <3> QED
      BY <2>1, <3>1, <3>2 DEF Lives
  <2> QED
    BY <1>1, <1>3, <2>1 DEF Login
<1>4. ASSUME NEW s \in Sessions, Logout(s)
      PROVE  Lives'
  <2>1. life' = [life EXCEPT ![s] = -1] /\ everSession' = everSession
    BY <1>4 DEF Logout
  <2>2. life' \in [Sessions -> -1..Life]
    BY <2>1, AccessBounds DEF Lives
  <2>3. \A x \in Sessions : life'[x] # -1 => life[x] # -1
    BY <2>1 DEF Lives
  <2> QED
    BY <2>1, <2>2, <2>3 DEF Lives
<1>5. CASE PruneExpiredSessions \/ Tick
  <2>1. everSession' = everSession
    BY <1>5 DEF PruneExpiredSessions, Tick
  <2>2. life' \in [Sessions -> -1..Life]
    BY <1>5, AccessBounds DEF Lives, PruneExpiredSessions, Tick
  <2>3. \A x \in Sessions : life'[x] # -1 => life[x] # -1
    BY <1>5 DEF Lives, PruneExpiredSessions, Tick
  <2> QED
    BY <2>1, <2>2, <2>3 DEF Lives
<1>6. CASE UNCHANGED accessVars
  BY <1>1, <1>6 DEF accessVars
<1> QED
  BY <1>2, <1>3, <1>4, <1>5, <1>6 DEF AccessNext

\* What a request carries on is of what was created, and the cache is left,
\* dropped, or filled with what it carried.
LEMMA NamesKeep ==
  ASSUME NamesOfCreated, CreatedOnly, everToken \subseteq everToken',
         NEW r \in Requests, NEW n, req' = [req EXCEPT ![r] = n],
         n.phase = "labels" => n.rows \subseteq everToken',
         \/ labelCache' \in {labelCache, NoOne}
         \/ req[r].phase = "labels" /\ labelCache' = [labels |-> req[r].rows, age |-> 0]
  PROVE  NamesOfCreated'
<1>1. \A x \in Requests : req'[x] = IF x = r THEN n ELSE req[x]
  BY DEF CreatedOnly
<1>2. \A x \in Requests : req'[x].phase = "labels" => req'[x].rows \subseteq everToken'
  BY <1>1 DEF NamesOfCreated
<1>3. CASE labelCache' = NoOne
  BY <1>2, <1>3 DEF NamesOfCreated
<1>4. CASE labelCache' = labelCache
  BY <1>2, <1>4 DEF NamesOfCreated
<1>5. CASE req[r].phase = "labels" /\ labelCache' = [labels |-> req[r].rows, age |-> 0]
  <2>1. req[r].rows \subseteq everToken'
    BY <1>5 DEF NamesOfCreated
  <2>2. labelCache' \in [labels : SUBSET everToken', age : 0..Ttl]
    BY <1>5, <2>1, AccessBounds
  <2> QED
    BY <1>2, <2>2 DEF NamesOfCreated
<1> QED
  BY <1>3, <1>4, <1>5

\* A request that goes on without having read the names.
LEMMA GotoKeepsNames ==
  ASSUME NamesOfCreated, CreatedOnly, everToken \subseteq everToken', labelCache' = labelCache,
         NEW r \in Requests, NEW phase, phase # "labels", Goto(r, phase),
         req[r].phase \in {"cookie", "handler"}
  PROVE  NamesOfCreated'
<1>1. req[r] \in InFlight
  BY PhaseTells DEF CreatedOnly
<1>2. PICK n : n = [req[r] EXCEPT !.phase = phase]
  OBVIOUS
<1>3. n.phase = phase
  BY <1>1, <1>2 DEF InFlight
<1>4. req' = [req EXCEPT ![r] = n]
  BY <1>2 DEF Goto, CreatedOnly
<1> QED
  BY <1>3, <1>4, NamesKeep

LEMMA AnswerKeepsNames ==
  ASSUME NamesOfCreated, CreatedOnly, everToken' = everToken, NEW r \in Requests, Answer(r),
         \/ labelCache' \in {labelCache, NoOne}
         \/ req[r].phase = "labels" /\ labelCache' = [labels |-> req[r].rows, age |-> 0]
  PROVE  NamesOfCreated'
<1>1. req' = [req EXCEPT ![r] = Idle] /\ Idle.phase # "labels"
  BY DEF Answer, Idle
<1> QED
  BY <1>1, NamesKeep

LEMMA RequestKeepsNames ==
  ASSUME NamesOfCreated, CreatedOnly, NEW r \in Requests,
         Arrive(r) \/ RequestStep(r) \/ Abandon(r)
  PROVE  NamesOfCreated'
<1>1. CASE Arrive(r)
  <2>1. PICK c \in Clients[r], route \in GatedRoutes, b \in Bearers, k \in Cookies :
          LET q == [phase |-> "bearer", client |-> c, route |-> route,
                    bearer |-> b, cookie |-> k, actor |-> NoOne,
                    held |-> {x \in {b, k} : x \in tokens \/ LiveSession(x)}]
          IN  req' = [req EXCEPT ![r] = [q EXCEPT !.phase = AtTheHook(q)]]
    BY <1>1 DEF Arrive
  <2> DEFINE q == [phase |-> "bearer", client |-> c, route |-> route,
                   bearer |-> b, cookie |-> k, actor |-> NoOne,
                   held |-> {x \in {b, k} : x \in tokens \/ LiveSession(x)}]
             n == [q EXCEPT !.phase = AtTheHook(q)]
  <2>2. AtTheHook(q) # "labels"
    BY DEF AtTheHook, AfterBearer
  <2>3. n.phase # "labels"
    BY <2>2
  <2>4. req' = [req EXCEPT ![r] = n] /\ UNCHANGED <<everToken, labelCache>>
    BY <1>1, <2>1 DEF Arrive
  <2> HIDE DEF n, q
  <2> QED
    BY <2>3, <2>4, NamesKeep
<1>2. CASE ResolveBearer(r)
  <2>1. req[r] \in InFlight
    BY <1>2, PhaseTells DEF CreatedOnly, ResolveBearer
  <2>2. PICK n : /\ req' = [req EXCEPT ![r] = n]
                 /\ n = IF req[r].bearer \in tokens
                        THEN [req[r] EXCEPT !.phase = "handler", !.actor = req[r].bearer]
                        ELSE [req[r] EXCEPT !.phase = AfterBearer(req[r])]
    BY <1>2 DEF ResolveBearer
  <2>3. AfterBearer(req[r]) # "labels"
    BY DEF AfterBearer
  <2>4. n.phase # "labels"
    BY <2>1, <2>2, <2>3 DEF InFlight
  <2> QED
    BY <1>2, <2>2, <2>4, NamesKeep DEF ResolveBearer
<1>3. CASE ResolveCookie(r)
  BY <1>3, GotoKeepsNames DEF ResolveCookie
<1>4. CASE CreateToken(r) \/ RevokeToken(r)
  <2>1. /\ everToken \subseteq everToken' /\ labelCache' = labelCache
        /\ req[r].phase = "handler" /\ Goto(r, "invalidate")
    BY <1>4 DEF CreateToken, RevokeToken
  <2> QED
    BY <2>1, GotoKeepsNames
<1>5. CASE SelectLabels(r)
  <2>1. PICK n : n = [phase |-> "labels", rows |-> tokens]
    OBVIOUS
  <2>2. req' = [req EXCEPT ![r] = n] /\ UNCHANGED <<everToken, labelCache>>
    BY <1>5, <2>1 DEF SelectLabels
  <2>3. n.rows \subseteq everToken
    BY <2>1 DEF CreatedOnly
  <2> QED
    BY <2>2, <2>3, NamesKeep
<1>6. CASE Refuse(r) \/ InvalidateLabels(r) \/ ServeCachedLabels(r) \/ StoreLabels(r)
           \/ Abandon(r)
  <2>1. /\ Answer(r) /\ everToken' = everToken
        /\ \/ labelCache' \in {labelCache, NoOne}
           \/ req[r].phase = "labels" /\ labelCache' = [labels |-> req[r].rows, age |-> 0]
    BY <1>6 DEF Refuse, InvalidateLabels, ServeCachedLabels, StoreLabels, Abandon
  <2> QED
    BY <2>1, AnswerKeepsNames
<1> QED
  BY <1>1, <1>2, <1>3, <1>4, <1>5, <1>6 DEF RequestStep

LEMMA NamesInductive ==
  ASSUME NamesOfCreated, CreatedOnly, [AccessNext]_accessVars
  PROVE  NamesOfCreated'
<1>1. CASE UNCHANGED <<everToken, req, labelCache>>
  BY <1>1 DEF NamesOfCreated
<1>2. ASSUME NEW r \in Requests, Arrive(r) \/ RequestStep(r) \/ Abandon(r)
      PROVE  NamesOfCreated'
  BY <1>2, RequestKeepsNames
<1>3. ASSUME NEW c \in AllClients, NEW right \in BOOLEAN, Login(c, right)
      PROVE  NamesOfCreated'
  BY <1>1, <1>3 DEF Login
<1>4. CASE PruneExpiredSessions \/ \E s \in Sessions : Logout(s)
  BY <1>1, <1>4 DEF PruneExpiredSessions, Logout
<1>5. CASE Tick
  <2>1. UNCHANGED <<everToken, req>>
        /\ labelCache' = IF labelCache = NoOne THEN NoOne ELSE Aged
    BY <1>5 DEF Tick
  <2>2. labelCache # NoOne => Aged \in [labels : SUBSET everToken, age : 0..Ttl]
    <3> SUFFICES ASSUME labelCache # NoOne
                 PROVE  Aged \in [labels : SUBSET everToken, age : 0..Ttl]
      OBVIOUS
    <3>1. labelCache \in [labels : SUBSET everToken, age : 0..Ttl]
      BY DEF NamesOfCreated
    <3>2. PICK old : old = labelCache.age
      OBVIOUS
    <3>3. PICK age : age = IF old < Ttl THEN old + 1 ELSE Ttl
      OBVIOUS
    <3>4. age \in 0..Ttl
      BY <3>1, <3>2, <3>3, AccessBounds
    <3>5. Aged = [labelCache EXCEPT !.age = age]
      BY <3>1, <3>2, <3>3 DEF Aged
    <3> QED
      BY <3>1, <3>4, <3>5
  <2> QED
    BY <2>1, <2>2 DEF NamesOfCreated
<1>6. CASE UNCHANGED accessVars
  BY <1>1, <1>6 DEF accessVars
<1> QED
  BY <1>2, <1>3, <1>4, <1>5, <1>6 DEF AccessNext

AccessInv == env \in Envs /\ GateInv /\ LoginInv /\ Lives /\ NamesOfCreated

LEMMA EnvStays ==
  ASSUME [AccessNext]_accessVars
  PROVE  env' = env
BY DEF AccessNext, accessVars, Arrive, RequestStep, Abandon, ResolveBearer, ResolveCookie,
       Refuse, CreateToken, RevokeToken, InvalidateLabels, ServeCachedLabels, SelectLabels,
       StoreLabels, Login, Logout, PruneExpiredSessions, Tick

LEMMA AccessInvInit == AccessInit => AccessInv
<1> SUFFICES ASSUME AccessInit PROVE AccessInv
  OBVIOUS
<1>1. LoginInv
  BY AccessAssumption DEF AccessInit, LoginInv
<1>2. Lives
  BY AccessBounds DEF AccessInit, Lives
<1>3. NamesOfCreated
  <2>1. labelCache = NoOne /\ \A r \in Requests : req[r].phase = "idle"
    BY DEF AccessInit, Idle
  <2> QED
    BY <2>1 DEF NamesOfCreated
<1> QED
  BY <1>1, <1>2, <1>3, GateInvInit DEF AccessInv, AccessInit

LEMMA AccessInvInductive ==
  ASSUME AccessInv, [AccessNext]_accessVars
  PROVE  AccessInv'
<1>1. CreatedOnly /\ everSession \subseteq Sessions
  BY DEF AccessInv, GateInv, CreatedOnly
<1> QED
  BY <1>1, EnvStays, GateInvInductive, LoginInvInductive, LivesInductive, NamesInductive
     DEF AccessInv

LEMMA AccessInvIsEnough == AccessInv => AccessTypeOK
<1> SUFFICES ASSUME AccessInv PROVE AccessTypeOK
  OBVIOUS
<1>1. \A r \in Requests :
        req[r].phase \in {"idle", "bearer", "cookie", "handler", "refused",
                         "invalidate", "labels"}
  BY DEF AccessInv, GateInv, CreatedOnly, Idle, Answering, InFlight
<1>2. hits \in [Addresses -> 0..LoginMax] /\ tried \in [Addresses -> Nat]
  BY AccessBounds DEF AccessInv, LoginInv
<1>3. labelCache # NoOne =>
         labelCache.age \in 0..Ttl /\ labelCache.labels \subseteq everToken
  BY DEF AccessInv, NamesOfCreated
<1> QED
  BY <1>1, <1>2, <1>3 DEF AccessTypeOK, AccessInv, GateInv, CreatedOnly, Lives

-----------------------------------------------------------------------------
(* What the state of a call looks like.                                    *)

\* A caller makes a call at most MaxRounds times, each with two items at most,
\* and each item has one verdict.
Bounded ==
  /\ items \in 0..2 /\ Len(verdicts) + items <= 2
  /\ round \in 0..MaxRounds
  /\ stage = "idle" => verdicts = <<>>

\* A request for a row that is on its way in the current round, and one that
\* the daemon still has for a caller that gave up.
OnItsWay == IF stage \in {"lookup", "resolve", "send", "find", "do"} THEN 1 ELSE 0
LeftBehind == IF late.at = "do" THEN 1 ELSE 0

\* A round writes one row, at once or when nobody waits for it any more.
OneRowPerRound ==
  Creates /\ stage # "idle" => rows + OnItsWay + LeftBehind <= round

CallTypes ==
  /\ call \in DOMAIN Calls \cup {""}
  /\ ids \subseteq DOMAIN args
  /\ target \in {"live", "trashed", "purged"}
  /\ late = NoLate \/ late.at \in {"do", "mark"}
  /\ did \in BOOLEAN /\ edge \in BOOLEAN /\ project \in BOOLEAN /\ cached \in BOOLEAN
  /\ up \in BOOLEAN

LEMMA CallTypesInit == GatewayInit => CallTypes
BY DEF GatewayInit, CallTypes

LEMMA CallTypesOfStep ==
  ASSUME GatewayInv, CallTypes, NextItem \/ Resolve \/ LookUp \/ Send \/ Find
  PROVE  CallTypes'
<1>1. UNCHANGED <<call, target, edge, project, late, up, cached>> /\ did' \in {did, FALSE}
  BY DEF NextItem, Resolve, LookUp, Send, Find, world, daemon
<1>2. ids' \subseteq DOMAIN args'
  <2>1. CASE NextItem
    BY <2>1 DEF NextItem
  <2>2. CASE \E v : Tell(v)
    BY <2>2 DEF Tell, CallTypes
  <2>3. CASE UNCHANGED <<args, ids>>
    BY <2>3 DEF CallTypes
  <2>4. CASE args' = args /\ \E k \in Unresolved : ids' = ids \cup {k}
    BY <2>4 DEF CallTypes, Unresolved
  <2> QED
    BY <2>1, <2>2, <2>3, <2>4 DEF Resolve, LookUp, Send, Find, GoOn
<1> QED
  BY <1>1, <1>2 DEF CallTypes

LEMMA CallTypesOfTell ==
  ASSUME CallTypes, NEW v, Tell(v) \/ GoOn
  PROVE  ids' \subseteq DOMAIN args'
BY DEF CallTypes, Tell, GoOn

LEMMA CallTypesOfWork ==
  ASSUME GatewayInv, CallTypes, Do \/ Mark \/ Render
  PROVE  CallTypes'
<1>1. UNCHANGED <<call, late, up>>
  BY DEF Do, Mark, Render, daemon
<1>2. ids' \subseteq DOMAIN args'
  BY CallTypesOfTell DEF Do, Mark, Render
<1>3. target' \in {"live", "trashed", "purged"}
  BY DEF CallTypes, Do, Mark, Render, Effect, world
<1>4. did' \in BOOLEAN /\ edge' \in BOOLEAN
  <2>1. CASE did' = did \/ did' = TRUE \/ did' = ~ Has(got, "supersedes")
    BY <2>1, Zenon DEF CallTypes, Do, Mark, Render, world
  <2> QED
    BY <2>1, Zenon DEF Do, Mark, Render
<1>5. project' \in BOOLEAN
  BY Zenon DEF CallTypes, Do, Mark, Render, Effect, world
<1>6. cached' \in BOOLEAN
  BY Zenon DEF CallTypes, Do, Mark, Render
<1> QED
  BY <1>1, <1>2, <1>3, <1>4, <1>5, <1>6 DEF CallTypes

LEMMA CallTypesInductive ==
  ASSUME GatewayInv, CallTypes, [GatewayNext]_gatewayVars
  PROVE  CallTypes'
<1>1. ASSUME NEW name \in DOMAIN Calls, Invoke(name)
      PROVE  CallTypes'
  BY <1>1 DEF Invoke, CallTypes, daemon, world
<1>2. CASE Step
  BY <1>2, CallTypesOfStep, CallTypesOfWork DEF Step
<1>3. CASE Repeat
  BY <1>3 DEF Repeat, CallTypes, daemon, world
<1>4. CASE LoseAnswer
  <2>1. ids' \subseteq DOMAIN args'
    BY <1>4, CallTypesOfTell DEF LoseAnswer
  <2>2. late'.at \in {"do", "mark"}
    BY <1>4 DEF LoseAnswer
  <2> QED
    BY <1>4, <2>1, <2>2 DEF LoseAnswer, CallTypes, world
<1>5. CASE FinishLate
  <2>1. UNCHANGED <<call, args, ids, did, cached, up>>
    BY <1>5 DEF FinishLate, given
  <2>2. target' \in {"live", "trashed", "purged"}
    BY <1>5 DEF FinishLate, CallTypes, Effect, world
  <2>3. edge' \in BOOLEAN /\ project' \in BOOLEAN
    BY <1>5, Zenon DEF FinishLate, CallTypes, Effect, world
  <2>4. late' = NoLate \/ late'.at \in {"do", "mark"}
    BY <1>5 DEF FinishLate, GatewayInv, CallShape
  <2> QED
    BY <2>1, <2>2, <2>3, <2>4 DEF CallTypes
<1>6. CASE StopDaemon
  <2>1. ids' \subseteq DOMAIN args'
    BY <1>6, CallTypesOfTell DEF StopDaemon
  <2> QED
    BY <1>6, <2>1 DEF StopDaemon, CallTypes, world
<1>7. CASE StartDaemon \/ Others
  BY <1>7 DEF StartDaemon, Others, CallTypes, given, world, daemon
<1>8. CASE UNCHANGED gatewayVars
  BY <1>8 DEF gatewayVars, CallTypes
<1> QED
  BY <1>1, <1>2, <1>3, <1>4, <1>5, <1>6, <1>7, <1>8 DEF GatewayNext

-----------------------------------------------------------------------------
(* Items, verdicts and rounds.                                             *)

LEMMA RoundsAreNumbered == MaxRounds \in Nat /\ MaxRounds > 0
BY GatewayAssumption

LEMMA TellIsCounted ==
  ASSUME GatewayInv, Bounded, stage \notin {"idle", "next", "told"}, NEW v \in Verdicts, Tell(v),
         round' = round
  PROVE  Bounded'
<1>1. items \in 1..2 /\ verdicts \in Seq(Verdicts)
  BY DEF GatewayInv, CallShape, Counted, Bounded
<1>2. /\ items' = items - 1 /\ Len(verdicts') = Len(verdicts) + 1 /\ stage' \in {"next", "told"}
  BY <1>1 DEF Tell
<1>3. Len(verdicts) \in Nat
  BY <1>1
<1> QED
  BY <1>1, <1>2, <1>3 DEF Bounded

LEMMA BoundedInductive ==
  ASSUME GatewayInv, Bounded, [GatewayNext]_gatewayVars
  PROVE  Bounded'
<1>1. CASE UNCHANGED <<items, verdicts, round>> /\ (stage' = "idle" => stage = "idle")
  BY <1>1 DEF Bounded
<1>2. ASSUME stage \notin {"idle", "next", "told"}, round' = round,
             NEW v \in Verdicts, Tell(v) \/ (GoOn /\ stage' # "idle")
      PROVE  Bounded'
  BY <1>1, <1>2, TellIsCounted DEF GoOn
<1>3. ASSUME NEW name \in DOMAIN Calls, Invoke(name)
      PROVE  Bounded'
  <2>1. /\ verdicts = <<>> /\ verdicts' = verdicts /\ round' = 1 /\ stage' # "idle"
        /\ items' = 1 \/ items' = 2
    BY <1>3 DEF Invoke, Start, Bounded
  <2>2. Len(verdicts') = 0
    BY <2>1
  <2>3. items' \in 0..2 /\ Len(verdicts') + items' <= 2
    BY <2>1, <2>2
  <2>4. round' \in 0..MaxRounds
    BY <2>1, RoundsAreNumbered
  <2> QED
    BY <2>1, <2>3, <2>4 DEF Bounded
<1>4. CASE Repeat
  <2>1. /\ verdicts' = <<>> /\ items' = 1 /\ round' = round + 1 /\ round < MaxRounds
        /\ stage' # "idle"
    BY <1>4 DEF Repeat, Start
  <2>2. Len(verdicts') = 0
    BY <2>1
  <2> QED
    BY <2>1, <2>2, RoundsAreNumbered DEF Bounded
<1>5. CASE NextItem
  BY <1>1, <1>5 DEF NextItem
<1>6. CASE Resolve
  <2>1. stage = "resolve" /\ round' = round
    BY <1>6 DEF Resolve
  <2>2. CASE Tell("failed")
    BY <1>2, <2>1, <2>2 DEF Verdicts
  <2>3. CASE UNCHANGED <<items, verdicts>> /\ stage' \in {"resolve", "send"}
    BY <1>1, <2>1, <2>3
  <2> QED
    BY <1>6, <2>1, <2>2, <2>3 DEF Resolve, GoOn
<1>7. CASE LookUp \/ Send \/ Find \/ Do \/ Mark \/ Render \/ LoseAnswer
  <2>1. round' = round /\ stage \notin {"idle", "next", "told"}
    BY <1>7 DEF LookUp, Send, Find, Do, Mark, Render, LoseAnswer
  <2>2. \E v \in Verdicts : Tell(v) \/ (GoOn /\ stage' # "idle")
    BY <1>7 DEF LookUp, Send, Find, Do, Mark, Render, LoseAnswer, Verdicts
  <2> QED
    BY <1>2, <2>1, <2>2
<1>8. CASE StopDaemon
  <2>1. CASE stage \in InDaemon
    BY <1>2, <1>8, <2>1 DEF StopDaemon, InDaemon, Verdicts
  <2>2. CASE stage \notin InDaemon
    BY <1>1, <1>8, <2>2 DEF StopDaemon, GoOn
  <2> QED
    BY <2>1, <2>2
<1>9. CASE FinishLate \/ StartDaemon \/ Others
  BY <1>1, <1>9 DEF FinishLate, StartDaemon, Others
<1>10. CASE UNCHANGED gatewayVars
  BY <1>1, <1>10 DEF gatewayVars
<1> QED
  BY <1>3, <1>4, <1>5, <1>6, <1>7, <1>8, <1>9, <1>10 DEF GatewayNext, Step

-----------------------------------------------------------------------------
(* Rows and rounds.                                                        *)

LEMMA NoneIsLeft == NoLate.at \notin {"do", "mark"}
BY DEF NoLate

LEMMA SameCreates ==
  ASSUME UNCHANGED call
  PROVE  Creates' <=> Creates
BY DEF Creates, Does, Entry

\* A step that writes no row, and sends nothing.
LEMMA NoRowWritten ==
  ASSUME GatewayInv, Bounded, OneRowPerRound, stage # "idle", UNCHANGED <<call, rows, round>>,
         OnItsWay' + LeftBehind' <= OnItsWay + LeftBehind
  PROVE  OneRowPerRound'
<1>1. Creates' <=> Creates
  BY SameCreates
<1>2. rows \in Nat /\ round \in Int
  BY DEF GatewayInv, CallShape, Bounded
<1>3. /\ OnItsWay \in 0..1 /\ LeftBehind \in 0..1
      /\ OnItsWay' \in 0..1 /\ LeftBehind' \in 0..1
  BY DEF OnItsWay, LeftBehind
<1>4. rows' = rows /\ round' = round
  OBVIOUS
<1> QED
  BY <1>1, <1>2, <1>3, <1>4 DEF OneRowPerRound, OnItsWay, LeftBehind

\* The row of a request that is no longer on its way.
LEMMA RowWritten ==
  ASSUME GatewayInv, Bounded, OneRowPerRound, stage # "idle", UNCHANGED <<call, round>>,
         NEW in, Effect(in),
         OnItsWay' + LeftBehind' + 1 <= OnItsWay + LeftBehind
  PROVE  OneRowPerRound'
<1>1. Creates' <=> Creates
  BY SameCreates
<1>2. rows \in Nat /\ round \in Int
  BY DEF GatewayInv, CallShape, Bounded
<1>3. /\ OnItsWay \in 0..1 /\ LeftBehind \in 0..1
      /\ OnItsWay' \in 0..1 /\ LeftBehind' \in 0..1
  BY DEF OnItsWay, LeftBehind
<1>4. (rows' = rows \/ rows' = rows + 1) /\ round' = round
  BY DEF Effect
<1> QED
  BY <1>1, <1>2, <1>3, <1>4 DEF OneRowPerRound, OnItsWay, LeftBehind

LEMMA OneRowPerRoundInductive ==
  ASSUME GatewayInv, CallTypes, Bounded, OneRowPerRound, [GatewayNext]_gatewayVars
  PROVE  OneRowPerRound'
<1>1. ASSUME stage # "idle", UNCHANGED <<call, rows, round>>, late' \in {late, NoLate},
             OnItsWay' <= OnItsWay
      PROVE  OneRowPerRound'
  <2>1. LeftBehind' <= LeftBehind
    BY <1>1, NoneIsLeft DEF LeftBehind
  <2>2. /\ OnItsWay \in 0..1 /\ LeftBehind \in 0..1
        /\ OnItsWay' \in 0..1 /\ LeftBehind' \in 0..1
    BY DEF OnItsWay, LeftBehind
  <2>3. OnItsWay' + LeftBehind' <= OnItsWay + LeftBehind
    BY <1>1, <2>1, <2>2 DEF OnItsWay, LeftBehind
  <2> QED
    BY <1>1, <2>3, NoRowWritten
<1>2. ASSUME NEW name \in DOMAIN Calls, Invoke(name)
      PROVE  OneRowPerRound'
  <2>1. round' = 1 /\ rows' = 0 /\ late' = NoLate
    BY <1>2 DEF Invoke, GatewayInv, Counted, daemon, world
  <2>2. OnItsWay' \in 0..1 /\ LeftBehind' = 0
    BY <2>1, NoneIsLeft DEF OnItsWay, LeftBehind
  <2> QED
    BY <2>1, <2>2 DEF OneRowPerRound, OnItsWay, LeftBehind
<1>3. CASE NextItem
  <2>1. call = "update_entities" /\ call \in DOMAIN Calls /\ call' = call
    BY <1>3 DEF NextItem, GatewayInv, CallShape, Counted
  <2>2. ~ Creates'
    BY <2>1, TablesAssumption, SameCreates DEF Creates, Does, Entry
  <2> QED
    BY <2>2 DEF OneRowPerRound
<1>4. CASE Resolve \/ LookUp \/ Send \/ Find
  <2>1. /\ stage \in {"resolve", "lookup", "send", "find"} /\ late' = late
        /\ UNCHANGED <<call, rows, round>>
    BY <1>4 DEF Resolve, LookUp, Send, Find, daemon, world
  <2>2. OnItsWay' <= OnItsWay
    BY <2>1 DEF OnItsWay
  <2> QED
    BY <1>1, <2>1, <2>2
<1>5. CASE Mark \/ Render
  <2>1. /\ stage \in {"mark", "render"} /\ late' = late /\ UNCHANGED <<call, rows, round>>
        /\ stage' \in {"render", "next", "told"}
    BY <1>5 DEF Mark, Render, Tell, daemon, world
  <2>2. OnItsWay' <= OnItsWay
    BY <2>1 DEF OnItsWay
  <2> QED
    BY <1>1, <2>1, <2>2
<1>6. CASE Do
  <2>1. /\ stage = "do" /\ late' = late /\ UNCHANGED <<call, round>>
        /\ stage' \in {"mark", "render", "next", "told"}
    BY <1>6 DEF Do, Tell, daemon
  <2>2. OnItsWay = 1 /\ OnItsWay' = 0 /\ LeftBehind' = LeftBehind /\ LeftBehind \in 0..1
    BY <2>1 DEF OnItsWay, LeftBehind
  <2>3. CASE UNCHANGED rows
    BY <1>1, <2>1, <2>2, <2>3
  <2>4. CASE Effect(got)
    BY <2>1, <2>2, <2>4, RowWritten
  <2> QED
    BY <1>6, <2>3, <2>4 DEF Do, world
<1>7. CASE Repeat
  <2>1. /\ stage = "told" /\ round' = round + 1 /\ UNCHANGED <<call, rows, late>>
    BY <1>7 DEF Repeat, daemon, world
  <2>2. OnItsWay = 0 /\ OnItsWay' \in 0..1 /\ LeftBehind' = LeftBehind /\ LeftBehind \in 0..1
    BY <2>1 DEF OnItsWay, LeftBehind
  <2>3. rows \in Nat /\ round \in Int /\ rows' = rows
    BY <2>1 DEF GatewayInv, CallShape, Bounded
  <2>4. Creates' <=> Creates
    BY <2>1, SameCreates
  <2> QED
    BY <2>1, <2>2, <2>3, <2>4 DEF OneRowPerRound, OnItsWay, LeftBehind
<1>8. CASE LoseAnswer
  <2>1. /\ stage \in {"do", "mark"} /\ late = NoLate /\ late'.at = stage
        /\ stage' \in {"next", "told"} /\ UNCHANGED <<call, rows, round>>
    BY <1>8 DEF LoseAnswer, Tell, world
  <2>2. OnItsWay' + LeftBehind' <= OnItsWay + LeftBehind
    BY <2>1, NoneIsLeft DEF OnItsWay, LeftBehind
  <2> QED
    BY <2>1, <2>2, NoRowWritten
<1>9. CASE FinishLate
  <2>1. late # NoLate /\ UNCHANGED <<call, stage, round>>
    BY <1>9 DEF FinishLate, given
  <2>2. stage # "idle"
    BY <2>1 DEF GatewayInv, Counted
  <2>3. OnItsWay' = OnItsWay /\ OnItsWay \in 0..1
    BY <2>1 DEF OnItsWay
  <2>4. CASE /\ late.at = "do" /\ Effect(late.got)
             /\ late' \in {[late EXCEPT !.at = "mark"], NoLate}
    <3>1. late'.at # "do"
      BY <2>4, NoneIsLeft DEF GatewayInv, CallShape
    <3>2. LeftBehind = 1 /\ LeftBehind' = 0
      BY <2>4, <3>1 DEF LeftBehind
    <3> QED
      BY <2>1, <2>2, <2>3, <2>4, <3>2, RowWritten DEF OnItsWay
  <2>5. CASE late' = NoLate /\ rows' = rows
    BY <1>1, <2>1, <2>2, <2>3, <2>5
  <2> QED
    BY <1>9, <2>4, <2>5 DEF FinishLate, world
<1>10. CASE StopDaemon \/ StartDaemon \/ Others
  <2>1. /\ UNCHANGED <<call, rows, round>> /\ late' \in {late, NoLate}
        /\ stage' = stage \/ stage' \in {"next", "told"}
    BY <1>10 DEF StopDaemon, StartDaemon, Others, Tell, given, world, daemon
  <2>2. OnItsWay' <= OnItsWay
    BY <2>1 DEF OnItsWay
  <2>3. CASE stage # "idle"
    BY <1>1, <2>1, <2>2, <2>3
  <2>4. CASE stage = "idle"
    BY <1>10, <2>4 DEF StopDaemon, StartDaemon, Others, InDaemon, OneRowPerRound
  <2> QED
    BY <2>3, <2>4
<1>11. CASE UNCHANGED gatewayVars
  <2>1. CASE stage = "idle"
    BY <1>11, <2>1 DEF gatewayVars, OneRowPerRound
  <2>2. CASE stage # "idle"
    BY <1>1, <1>11, <2>2 DEF gatewayVars, OnItsWay
  <2> QED
    BY <2>1, <2>2
<1> QED
  BY <1>2, <1>3, <1>4, <1>5, <1>6, <1>7, <1>8, <1>9, <1>10, <1>11 DEF GatewayNext, Step

CallInv == GatewayInv /\ CallTypes /\ Bounded /\ OneRowPerRound

LEMMA CallInvInit == GatewayInit => CallInv
<1> SUFFICES ASSUME GatewayInit PROVE CallInv
  OBVIOUS
<1>1. stage = "idle" /\ verdicts = <<>> /\ items = 0 /\ round = 0
  BY DEF GatewayInit
<1>2. Len(verdicts) = 0
  BY <1>1
<1>3. Bounded
  BY <1>1, <1>2, RoundsAreNumbered DEF Bounded
<1>4. OneRowPerRound
  BY <1>1 DEF OneRowPerRound
<1> QED
  BY <1>3, <1>4, GatewayInvInit, CallTypesInit DEF CallInv

LEMMA CallInvInductive ==
  ASSUME CallInv, [GatewayNext]_gatewayVars
  PROVE  CallInv'
BY GatewayInvInductive, CallTypesInductive, BoundedInductive, OneRowPerRoundInductive
   DEF CallInv

LEMMA CallInvIsEnough == CallInv => GatewayTypeOK
<1> SUFFICES ASSUME CallInv PROVE GatewayTypeOK
  OBVIOUS
<1>1. \A i \in DOMAIN verdicts :
         verdicts[i] \in {"ok", "exists", "refused", "not found", "failed"}
  <2>1. verdicts \in Seq(Verdicts)
    BY DEF CallInv, GatewayInv, CallShape
  <2>2. \A i \in DOMAIN verdicts : verdicts[i] \in Verdicts
    BY <2>1
  <2> QED
    BY <2>2 DEF Verdicts
<1>2. Len(verdicts) \in Nat /\ items \in 0..2 /\ Len(verdicts) <= 2
  BY DEF CallInv, GatewayInv, CallShape, Bounded
<1>3. rows \in 0 .. 2 * MaxRounds
  <2>1. rows \in Nat /\ round \in 0..MaxRounds
    BY DEF CallInv, GatewayInv, CallShape, Bounded
  <2>2. CASE stage = "idle" \/ ~ Creates
    <3>1. rows = 0
      BY <2>2 DEF CallInv, GatewayInv, Counted, Kept
    <3> QED
      BY <3>1, RoundsAreNumbered
  <2>3. CASE stage # "idle" /\ Creates
    <3>1. rows + OnItsWay + LeftBehind <= round
      BY <2>3 DEF CallInv, OneRowPerRound
    <3>2. OnItsWay \in {0, 1} /\ LeftBehind \in {0, 1}
      BY DEF OnItsWay, LeftBehind
    <3> HIDE DEF OnItsWay, LeftBehind
    <3> QED
      BY <2>1, <3>1, <3>2, RoundsAreNumbered
  <2> QED
    BY <2>2, <2>3
<1> QED
  BY <1>1, <1>2, <1>3 DEF CallInv, GatewayInv, CallShape, CallTypes, Bounded, GatewayTypeOK

-----------------------------------------------------------------------------
(* What the tables make of the arguments.  The tables are compared argument *)
(* by argument (TablesFitAssumption); what follows is for the arguments a   *)
(* caller gives together.                                                   *)

LEMMA MergedGives ==
  ASSUME NEW f, NEW g
  PROVE  /\ DOMAIN Merged(f, g) = DOMAIN f \cup DOMAIN g
         /\ \A x \in DOMAIN f : Merged(f, g)[x] = f[x]
         /\ \A x \in DOMAIN g \ DOMAIN f : Merged(f, g)[x] = g[x]
BY DEF Merged

\* Arguments that keep to the schema of the tool.
Fitting(t, a) ==
  /\ DOMAIN t.must \subseteq DOMAIN a /\ DOMAIN a \subseteq DOMAIN Fields(t)
  /\ \A k \in DOMAIN a : a[k] \in Fields(t)[k]

LEMMA ShapesFit ==
  ASSUME NEW t, NEW a \in Shapes(t)
  PROVE  Fitting(t, a)
<1>a. PICK opt \in Optional(t) :
        a \in UNION {{Merged(f, g) : g \in Fillings([k \in opt |-> t.may[k]])} :
                        f \in Fillings(t.must)}
  BY DEF Shapes
<1>b. PICK f \in Fillings(t.must) :
        a \in {Merged(f, g) : g \in Fillings([k \in opt |-> t.may[k]])}
  BY <1>a
<1>1. PICK g \in Fillings([k \in opt |-> t.may[k]]) : a = Merged(f, g)
  BY <1>b
<1>2. opt \subseteq DOMAIN t.may
  BY DEF Optional
<1>3. DOMAIN f = DOMAIN t.must /\ \A k \in DOMAIN f : f[k] \in t.must[k]
  BY DEF Fillings
<1>4. DOMAIN g = opt /\ \A k \in opt : g[k] \in t.may[k]
  BY DEF Fillings
<1>5. /\ DOMAIN a = DOMAIN f \cup DOMAIN g
      /\ \A x \in DOMAIN f : a[x] = f[x]
      /\ \A x \in DOMAIN g \ DOMAIN f : a[x] = g[x]
  <2>1. /\ DOMAIN Merged(f, g) = DOMAIN f \cup DOMAIN g
        /\ \A x \in DOMAIN f : Merged(f, g)[x] = f[x]
        /\ \A x \in DOMAIN g \ DOMAIN f : Merged(f, g)[x] = g[x]
    BY MergedGives
  <2> QED
    BY <1>1, <2>1
<1>6. /\ DOMAIN Fields(t) = DOMAIN t.must \cup DOMAIN t.may
      /\ \A x \in DOMAIN t.must : Fields(t)[x] = t.must[x]
      /\ \A x \in DOMAIN t.may \ DOMAIN t.must : Fields(t)[x] = t.may[x]
  BY MergedGives DEF Fields
<1> QED
  BY <1>2, <1>3, <1>4, <1>5, <1>6 DEF Fitting

\* The arguments once every reference by its key is looked up.
LookedUp(name, a) == [k \in DOMAIN a |-> Looked(Calls[name], k, a[k])]

\* The arguments that go into the body, the field each goes into, and the one
\* that fills a field.
Own(name, a) == DOMAIN a \ {Calls[name].at}
Said(name, a) == {Renamed(name, k) : k \in Own(name, a)}
Source(name, a, n) == CHOOSE k \in Own(name, a) : Renamed(name, k) = n

\* The body before a query string leaves anything out.
Plain(name, a) ==
  [n \in Said(name, a) \cup DOMAIN Calls[name].given \cup Calls[name].nulls |->
     IF n \in Said(name, a) THEN Folded(name, Source(name, a, n), a[Source(name, a, n)])
     ELSE IF n \in DOMAIN Calls[name].given THEN Calls[name].given[n] ELSE "null"]

LEMMA BodyIsPlain ==
  ASSUME NEW name, NEW a
  PROVE  Body(name, a) = Sent(Calls[name].to, Plain(name, a))
BY DEF Body, Plain, Own, Said, Source

LEMMA BodyGives ==
  ASSUME NEW name, NEW a
  PROVE  /\ \A n : n \in DOMAIN Body(name, a) <=>
               n \in DOMAIN Plain(name, a) /\ ~ LeftOut(Calls[name].to, Plain(name, a)[n])
         /\ \A n \in DOMAIN Body(name, a) : Body(name, a)[n] = Plain(name, a)[n]
<1> DEFINE to == Calls[name].to
           p == Plain(name, a)
<1>1. Body(name, a) = Sent(to, p)
  BY BodyIsPlain
<1>2. p = [n \in DOMAIN p |-> p[n]]
  BY DEF Plain
<1>3. \A n : n \in DOMAIN Sent(to, p) <=> n \in DOMAIN p /\ ~ LeftOut(to, p[n])
  <2> HIDE DEF p, to
  <2>1. CASE to \in QueryCalls
    BY <2>1 DEF Sent, LeftOut
  <2>2. CASE to \notin QueryCalls
    BY <2>2 DEF Sent, LeftOut
  <2> QED
    BY <2>1, <2>2
<1>4. \A n \in DOMAIN Sent(to, p) : Sent(to, p)[n] = p[n]
  <2> HIDE DEF p, to
  <2> QED
    BY DEF Sent
<1> QED
  BY <1>1, <1>3, <1>4

LEMMA SourceOfSaid ==
  ASSUME NEW name, NEW a, NEW n \in Said(name, a)
  PROVE  Source(name, a, n) \in Own(name, a) /\ Renamed(name, Source(name, a, n)) = n
<1>1. \E k \in Own(name, a) : Renamed(name, k) = n
  BY DEF Said
<1> QED
  BY <1>1 DEF Source

\* What a field of the body holds: an argument, a value filled in, or null.
LEMMA PlainFields ==
  ASSUME NEW name, NEW a
  PROVE  DOMAIN Plain(name, a) =
           Said(name, a) \cup DOMAIN Calls[name].given \cup Calls[name].nulls
BY DEF Plain

LEMMA PlainSaid ==
  ASSUME NEW name, NEW a, NEW n \in Said(name, a)
  PROVE  Plain(name, a)[n] = Folded(name, Source(name, a, n), a[Source(name, a, n)])
BY DEF Plain

LEMMA PlainGiven ==
  ASSUME NEW name, NEW a, NEW n \in DOMAIN Calls[name].given \ Said(name, a)
  PROVE  Plain(name, a)[n] = Calls[name].given[n]
BY DEF Plain

LEMMA PlainNull ==
  ASSUME NEW name, NEW a,
         NEW n \in Calls[name].nulls \ (Said(name, a) \cup DOMAIN Calls[name].given)
  PROVE  Plain(name, a)[n] = "null"
BY DEF Plain

LEMMA LookedUpGives ==
  ASSUME NEW name, NEW a
  PROVE  /\ DOMAIN LookedUp(name, a) = DOMAIN a
         /\ \A k \in DOMAIN a : LookedUp(name, a)[k] = Looked(Calls[name], k, a[k])
         /\ Own(name, LookedUp(name, a)) = Own(name, a)
         /\ Said(name, LookedUp(name, a)) = Said(name, a)
         /\ \A n : Source(name, LookedUp(name, a), n) = Source(name, a, n)
<1>1. DOMAIN LookedUp(name, a) = DOMAIN a
  BY DEF LookedUp
<1> QED
  BY <1>1 DEF LookedUp, Own, Said, Source

\* The value of an argument is the one its field holds, whichever argument
\* fills the field.
LEMMA FieldHolds ==
  ASSUME NEW name \in DOMAIN Calls, NEW a, Fitting(Calls[name], a), NEW k \in Own(name, a)
  PROVE  LET n == Renamed(name, k)
             p == Plain(name, LookedUp(name, a))
         IN  n \in DOMAIN p /\ p[n] = Folded(name, k, Looked(Calls[name], k, a[k]))
<1> DEFINE t == Calls[name]
           b == LookedUp(name, a)
           n == Renamed(name, k)
           j == Source(name, a, n)
<1>1. n \in Said(name, a)
  BY DEF Said
<1>2. j \in Own(name, a) /\ Renamed(name, j) = n
  BY <1>1, SourceOfSaid
<1>3. /\ n \in DOMAIN Plain(name, b)
      /\ Plain(name, b)[n] = Folded(name, j, Looked(t, j, a[j]))
  <2>1. Said(name, b) = Said(name, a) /\ Source(name, b, n) = j
    BY LookedUpGives
  <2>2. b[j] = Looked(t, j, a[j])
    BY <1>2, LookedUpGives DEF Own
  <2>3. /\ n \in DOMAIN Plain(name, b)
        /\ Plain(name, b)[n] = Folded(name, Source(name, b, n), b[Source(name, b, n)])
    <3>1. n \in Said(name, b)
      BY <1>1, <2>1
    <3> HIDE DEF b, n
    <3> QED
      BY <3>1, PlainFields, PlainSaid
  <2> QED
    BY <2>1, <2>2, <2>3
<1>4. /\ {j, k} \subseteq DOMAIN Fields(t) \ {t.at}
      /\ a[j] \in Fields(t)[j] /\ a[k] \in Fields(t)[k]
  BY <1>2 DEF Fitting, Own
<1>5. NoClash(name, t, j, k)
  BY <1>4, TablesFitAssumption DEF ToolFits
<1>6. Folded(name, j, Looked(t, j, a[j])) = Folded(name, k, Looked(t, k, a[k]))
  <2> HIDE DEF j, t, n
  <2>1. CASE j = k
    BY <2>1
  <2>2. CASE j # k
    BY <2>2, <1>2, <1>4, <1>5 DEF NoClash, n
  <2> QED
    BY <2>1, <2>2
<1> QED
  BY <1>3, <1>6

LEMMA ParsedGives ==
  ASSUME NEW to, NEW body
  PROVE  LET s == Routes[to].schema
             taken == DOMAIN body \cap DOMAIN Fields(s)
         IN  /\ DOMAIN Parsed(to, body) = taken \cup DOMAIN s.given
             /\ \A n \in taken : Parsed(to, body)[n] = body[n]
             /\ \A n \in DOMAIN s.given \ taken : Parsed(to, body)[n] = s.given[n]
BY DEF Parsed

\* An argument the tool takes reaches the service with its value; only false,
\* null and empty may be left out of a query, and then the route has nothing
\* else to put in their place.
LEMMA ValueArrives ==
  ASSUME NEW name \in DOMAIN Calls, NEW a, Fitting(Calls[name], a), NEW k \in Own(name, a)
  PROVE  LET to == Calls[name].to
             n == Renamed(name, k)
             g == Parsed(to, Body(name, LookedUp(name, a)))
         IN  /\ n \in DOMAIN g \/ (to \in QueryCalls /\ a[k] \in {"false", "null", "empty"})
             /\ n \in DOMAIN g => g[n] = Folded(name, k, Looked(Calls[name], k, a[k]))
<1> DEFINE t == Calls[name]
           s == Routes[t.to].schema
           n == Renamed(name, k)
           w == Folded(name, k, Looked(t, k, a[k]))
           body == Body(name, LookedUp(name, a))
           g == Parsed(t.to, body)
<1>1. /\ n \in DOMAIN body <=> ~ LeftOut(t.to, w)
      /\ n \in DOMAIN body => body[n] = w
  <2>1. /\ n \in DOMAIN Plain(name, LookedUp(name, a))
        /\ Plain(name, LookedUp(name, a))[n] = w
    BY FieldHolds
  <2>2. /\ n \in DOMAIN body <=> n \in DOMAIN Plain(name, LookedUp(name, a))
                                 /\ ~ LeftOut(t.to, Plain(name, LookedUp(name, a))[n])
        /\ n \in DOMAIN body => body[n] = Plain(name, LookedUp(name, a))[n]
    BY BodyGives
  <2> HIDE DEF n, w, body, t
  <2> QED
    BY <2>1, <2>2
<1>2. /\ k \in DOMAIN Fields(t) \ {t.at} /\ a[k] \in Fields(t)[k]
  BY DEF Fitting, Own
<1>3. /\ n \in DOMAIN Fields(s)
      /\ LeftOut(t.to, w) /\ n \in DOMAIN s.given => s.given[n] = w
  <2>1. ArgumentFits(name, t, k)
    BY <1>2, TablesFitAssumption DEF ToolFits
  <2> QED
    BY <1>2, <2>1 DEF ArgumentFits
<1>4. /\ DOMAIN g = (DOMAIN body \cap DOMAIN Fields(s)) \cup DOMAIN s.given
      /\ \A m \in DOMAIN body \cap DOMAIN Fields(s) : g[m] = body[m]
      /\ \A m \in DOMAIN s.given \ (DOMAIN body \cap DOMAIN Fields(s)) : g[m] = s.given[m]
  BY ParsedGives
<1>5. LeftOut(t.to, w) => t.to \in QueryCalls /\ a[k] \in {"false", "null", "empty"}
  BY DEF LeftOut, Folded, Looked
<1> HIDE DEF n, w, body, t, s, g
<1>6. n \in DOMAIN g \/ (t.to \in QueryCalls /\ a[k] \in {"false", "null", "empty"})
  BY <1>1, <1>3, <1>4, <1>5
<1>7. n \in DOMAIN g => g[n] = w
  BY <1>1, <1>3, <1>4
<1> QED
  BY <1>6, <1>7 DEF n, w, body, t, s, g

\* The values the route would not take, though the tool does.
Odd(name, a) ==
  \/ \E k \in DOMAIN a : a[k] = "prefix"
  \/ name = "get_links" /\ "kind" \in DOMAIN a /\ a.kind = "supersedes"

\* Whatever is in the body, the route has a field for, of that class.
LEMMA BodyIsTaken ==
  ASSUME NEW name \in DOMAIN Calls, NEW a, Fitting(Calls[name], a), ~ Odd(name, a),
         NEW n \in DOMAIN Body(name, LookedUp(name, a))
  PROVE  /\ n \in DOMAIN Fields(Routes[Calls[name].to].schema)
         /\ Body(name, LookedUp(name, a))[n] \in Fields(Routes[Calls[name].to].schema)[n]
<1> DEFINE t == Calls[name]
           b == LookedUp(name, a)
           p == Plain(name, b)
           fields == Fields(Routes[t.to].schema)
<1>1. n \in DOMAIN p /\ ~ LeftOut(t.to, p[n]) /\ Body(name, b)[n] = p[n]
  BY BodyGives
<1>2. Said(name, b) = Said(name, a)
  BY LookedUpGives
<1>3. DOMAIN p = Said(name, a) \cup DOMAIN t.given \cup t.nulls
  BY <1>2, PlainFields
<1>4. ToolFits(name, t)
  BY TablesFitAssumption
<1>5. CASE n \in Said(name, a)
  <2>1. PICK k \in Own(name, a) : n = Renamed(name, k)
    BY <1>5 DEF Said
  <2>2. p[n] = Folded(name, k, Looked(t, k, a[k]))
    BY <2>1, FieldHolds
  <2>3. k \in DOMAIN Fields(t) \ {t.at} /\ k \in DOMAIN a /\ a[k] \in Fields(t)[k]
    BY <2>1 DEF Fitting, Own
  <2>4. a[k] \notin Foreign(name, k)
    BY <2>3 DEF Odd, Foreign
  <2>5. ArgumentFits(name, t, k)
    BY <1>4, <2>3 DEF ToolFits
  <2>6. n \in DOMAIN fields /\ (p[n] \in fields[n] \/ LeftOut(t.to, p[n]))
    <3> HIDE DEF p, t
    <3> QED
      BY <2>1, <2>2, <2>3, <2>4, <2>5 DEF ArgumentFits
  <2> QED
    BY <1>1, <2>6
<1>6. CASE n \in DOMAIN t.given \ Said(name, a)
  <2>1. p[n] = t.given[n]
    BY <1>2, <1>6, PlainGiven
  <2>2. n \in DOMAIN fields /\ (t.given[n] \in fields[n] \/ LeftOut(t.to, t.given[n]))
    BY <1>4, <1>6 DEF ToolFits, FilledInFits
  <2> HIDE DEF p, t, fields
  <2> QED
    BY <1>1, <2>1, <2>2 DEF fields, t
<1>7. CASE n \in t.nulls \ (Said(name, a) \cup DOMAIN t.given)
  <2>1. p[n] = "null"
    BY <1>2, <1>7, PlainNull
  <2>2. n \in DOMAIN fields /\ ("null" \in fields[n] \/ LeftOut(t.to, "null"))
    BY <1>4, <1>7 DEF ToolFits, FilledInFits
  <2> HIDE DEF p, t, fields
  <2> QED
    BY <1>1, <2>1, <2>2 DEF fields, t
<1> QED
  BY <1>1, <1>3, <1>5, <1>6, <1>7

\* Looking up a reference changes nothing of what a refinement asks.
LEMMA RefinedStays ==
  ASSUME NEW name \in DOMAIN Calls, NEW a, Refined(Calls[name].to, Body(name, a))
  PROVE  Refined(Calls[name].to, Body(name, LookedUp(name, a)))
<1> DEFINE t == Calls[name]
           b == LookedUp(name, a)
<1>1. /\ DOMAIN Plain(name, b) = DOMAIN Plain(name, a)
      /\ \A n \in DOMAIN Plain(name, a) :
            \/ Plain(name, b)[n] = Plain(name, a)[n]
            \/ Plain(name, b)[n] = "uuid" /\ Plain(name, a)[n] = "keyseq"
  <2>1. Said(name, b) = Said(name, a) /\ \A n : Source(name, b, n) = Source(name, a, n)
    BY LookedUpGives
  <2>2. ASSUME NEW n \in Said(name, a)
        PROVE  \/ Plain(name, b)[n] = Plain(name, a)[n]
               \/ Plain(name, b)[n] = "uuid" /\ Plain(name, a)[n] = "keyseq"
    <3>1. PICK k : k = Source(name, a, n) /\ k \in DOMAIN a
      BY <2>2, SourceOfSaid DEF Own
    <3>2. b[k] = Looked(t, k, a[k])
      BY <3>1, LookedUpGives
    <3>3. Plain(name, a)[n] = Folded(name, k, a[k])
      BY <2>2, <3>1, PlainSaid
    <3>4. Plain(name, b)[n] = Folded(name, k, b[k])
      <4> HIDE DEF b
      <4> QED
        BY <2>1, <2>2, <3>1, PlainSaid
    <3> HIDE DEF b, t
    <3> QED
      BY <3>2, <3>3, <3>4 DEF Looked, Folded
  <2>3. \A n \in (DOMAIN t.given \cup t.nulls) \ Said(name, a) :
           Plain(name, b)[n] = Plain(name, a)[n]
    <3> HIDE DEF b
    <3>1. ASSUME NEW n \in DOMAIN t.given \ Said(name, a)
          PROVE  Plain(name, b)[n] = t.given[n] /\ Plain(name, a)[n] = t.given[n]
      BY <2>1, <3>1, PlainGiven
    <3>2. ASSUME NEW n \in t.nulls \ (Said(name, a) \cup DOMAIN t.given)
          PROVE  Plain(name, b)[n] = "null" /\ Plain(name, a)[n] = "null"
      BY <2>1, <3>2, PlainNull
    <3> QED
      BY <3>1, <3>2
  <2>4. /\ DOMAIN Plain(name, b) = Said(name, a) \cup DOMAIN t.given \cup t.nulls
        /\ DOMAIN Plain(name, a) = Said(name, a) \cup DOMAIN t.given \cup t.nulls
    <3> HIDE DEF b
    <3> QED
      BY <2>1, PlainFields
  <2> HIDE DEF b, t
  <2> QED
    BY <2>2, <2>3, <2>4
<1>2. \A n \in DOMAIN Body(name, b) :
         /\ n \in DOMAIN Body(name, a)
         /\ \/ Body(name, b)[n] = Body(name, a)[n]
            \/ Body(name, b)[n] = "uuid" /\ Body(name, a)[n] = "keyseq"
  <2> HIDE DEF b
  <2> QED
    BY <1>1, BodyGives DEF LeftOut
<1>3. t.to \notin QueryCalls => DOMAIN Body(name, b) = DOMAIN Body(name, a)
  <2> HIDE DEF b
  <2> QED
    BY <1>1, BodyGives DEF LeftOut
<1>4. t.to \in {"createRecurrence", "splitRecurrence"} => t.to \notin QueryCalls
  BY DEF QueryCalls
<1> HIDE DEF b, t
<1> QED
  BY <1>2, <1>3, <1>4 DEF Refined, b, t

\* What keeps to the schema of the tool is let through by the schema of the
\* route, but for the odd values and the refinements.
LEMMA LookedUpIsAccepted ==
  ASSUME NEW name \in DOMAIN Calls, NEW a, Fitting(Calls[name], a), ~ Odd(name, a),
         Refined(Calls[name].to, Body(name, a))
  PROVE  Accepts(Calls[name].to, PathOf(name, LookedUp(name, a)),
                 Body(name, LookedUp(name, a)))
<1> DEFINE t == Calls[name]
           b == LookedUp(name, a)
           body == Body(name, b)
           r == Routes[t.to]
           fields == Fields(r.schema)
<1>1. ToolFits(name, t)
  BY TablesFitAssumption
<1>2. r.at # {} => PathOf(name, b) \in r.at
  <2> SUFFICES ASSUME r.at # {}
               PROVE  PathOf(name, b) \in r.at
    OBVIOUS
  <2>1. /\ t.at # "" /\ t.at \in DOMAIN t.must
        /\ \A v \in t.must[t.at] \ {"prefix"} : Looked(t, t.at, v) \in r.at
    BY <1>1 DEF ToolFits, PathFits
  <2>2. t.at \in DOMAIN a /\ a[t.at] \in t.must[t.at] /\ a[t.at] # "prefix"
    <3>1. t.at \in DOMAIN a /\ a[t.at] \in Fields(t)[t.at]
      BY <2>1 DEF Fitting
    <3>2. \A x \in DOMAIN t.must : Merged(t.must, t.may)[x] = t.must[x]
      BY MergedGives
    <3>3. Fields(t)[t.at] = t.must[t.at]
      BY <2>1, <3>2 DEF Fields
    <3> QED
      BY <3>1, <3>3 DEF Odd
  <2>3. b[t.at] = Looked(t, t.at, a[t.at])
    BY <2>2, LookedUpGives
  <2>4. PathOf(name, b) = b[t.at]
    BY <2>1 DEF PathOf
  <2> QED
    BY <2>1, <2>2, <2>3, <2>4
<1>3. \A n \in DOMAIN body : n \in DOMAIN fields /\ body[n] \in fields[n]
  BY BodyIsTaken
<1>4. DOMAIN r.schema.must \subseteq DOMAIN body
  <2> SUFFICES ASSUME NEW n \in DOMAIN r.schema.must
               PROVE  n \in DOMAIN body
    OBVIOUS
  <2>1. t.to \notin QueryCalls /\ n \in DOMAIN t.must \ {t.at} /\ Renamed(name, n) = n
    BY <1>1 DEF ToolFits, RequiredFits
  <2>2. n \in Own(name, a)
    BY <2>1 DEF Own, Fitting
  <2>3. n \in DOMAIN Plain(name, b)
    BY <2>1, <2>2, FieldHolds
  <2>4. ~ LeftOut(t.to, Plain(name, b)[n])
    BY <2>1 DEF LeftOut
  <2> QED
    BY <2>3, <2>4, BodyGives
<1>5. Refined(t.to, body)
  BY RefinedStays
<1> HIDE DEF b, body
<1> QED
  BY <1>2, <1>3, <1>4, <1>5 DEF Accepts, body, b

\* The tables of tools are one; update_entities makes the requests of
\* update_entity.
LEMMA BatchEdits == Calls["update_entities"] = EditTool
<1> DEFINE name == "update_entities"
           m5 == Merged(EditTools, Merged(CommentTools, Merged(FeedbackTools,
                 Merged(RecurrenceTools, Merged(SplitTools, Merged(GraphTools,
                 Merged(ListTools, Merged(TagTools, ContextTools))))))))
           m4 == Merged(CreateTools, m5)
           m3 == Merged(ReadTools, m4)
           m2 == Merged(ProjectTools, m3)
<1>1. ASSUME NEW f, NEW g, name \in DOMAIN g, name \notin DOMAIN f
      PROVE  name \in DOMAIN Merged(f, g) /\ Merged(f, g)[name] = g[name]
  <2>1. /\ DOMAIN Merged(f, g) = DOMAIN f \cup DOMAIN g
        /\ \A x \in DOMAIN g \ DOMAIN f : Merged(f, g)[x] = g[x]
    BY MergedGives
  <2> QED
    BY <1>1, <2>1
<1>2. name \in DOMAIN EditTools /\ EditTools[name] = EditTool
  BY DEF EditTools
<1>3. name \in DOMAIN m5 /\ m5[name] = EditTool
  BY <1>2, MergedGives
<1>4. /\ name \notin DOMAIN BriefTools /\ name \notin DOMAIN ProjectTools
      /\ name \notin DOMAIN ReadTools /\ name \notin DOMAIN CreateTools
  BY DEF BriefTools, ProjectTools, ReadTools, CreateTools
<1> HIDE DEF m5
<1>5. name \in DOMAIN m4 /\ m4[name] = EditTool
  BY <1>1, <1>3, <1>4
<1> HIDE DEF m4
<1>6. name \in DOMAIN m3 /\ m3[name] = EditTool
  BY <1>1, <1>4, <1>5
<1> HIDE DEF m3
<1>7. name \in DOMAIN m2 /\ m2[name] = EditTool
  BY <1>1, <1>4, <1>6
<1>8. McpTools = Merged(BriefTools, m2)
  BY DEF McpTools, m2, m3, m4, m5
<1> HIDE DEF m2
<1>9. name \in DOMAIN McpTools /\ McpTools[name] = EditTool
  BY <1>1, <1>4, <1>7, <1>8
<1> QED
  BY <1>9, MergedGives DEF Calls

-----------------------------------------------------------------------------
(* What a call carries.                                                    *)

\* The arguments of a call keep to the schema of its tool, the references by
\* key are looked up before it is sent, and what the service was given is what
\* the tables make of the two.
Carried ==
  /\ stage \notin {"idle", "next"} =>
       /\ Fitting(Entry, args)
       /\ \A k \in ids : k \in Entry.refs \cap DOMAIN args /\ args[k] = "keyseq"
  /\ stage = "lookup" => call = "create_project"
  /\ stage \in {"send"} \cup InDaemon => Unresolved = {}
  /\ stage \in InDaemon => got = Parsed(Entry.to, Body(call, Named))
  /\ stage = "told" /\ Len(verdicts) = 1 /\ verdicts[1] = "refused" => KnownRefusal

LEMMA CarriedInit == GatewayInit => Carried
BY DEF GatewayInit, Carried, InDaemon

LEMMA TellCarries ==
  ASSUME GatewayInv, Carried, stage \notin {"idle", "next", "told"}, NEW v, Tell(v),
         call' = call, v = "refused" => KnownRefusal
  PROVE  Carried'
<1>1. verdicts \in Seq(Verdicts) /\ verdicts' = Append(verdicts, v)
  BY DEF GatewayInv, CallShape, Tell
<1>2. CASE items > 1
  BY <1>2 DEF Tell, Carried, InDaemon
<1>3. CASE ~ (items > 1)
  <2>1. stage' = "told" /\ args' = args /\ ids' = ids
    BY <1>3 DEF Tell
  <2>2. KnownRefusal => KnownRefusal'
    BY <2>1 DEF KnownRefusal, Entry
  <2>3. Len(verdicts') = 1 => verdicts'[1] = v
    BY <1>1
  <2>4. Entry' = Entry
    BY DEF Entry
  <2> QED
    BY <2>1, <2>2, <2>3, <2>4 DEF Carried, InDaemon
<1> QED
  BY <1>2, <1>3

\* Another item, or the first one: the arguments are new.
LEMMA NewArgumentsFit ==
  ASSUME NEW name \in DOMAIN Calls, call' = name, args' \in Shapes(Calls[name]),
         ids' = {}, stage' \in {"resolve", "lookup"}, stage' = "lookup" => name = "create_project"
  PROVE  Carried'
<1>1. Fitting(Calls[name], args')
  BY ShapesFit
<1>2. Entry' = Calls[name]
  BY DEF Entry
<1> QED
  BY <1>1, <1>2 DEF Carried, InDaemon

LEMMA SameCarried ==
  ASSUME Carried, UNCHANGED <<call, args, ids, got, verdicts>>,
         \/ stage' = stage
         \/ stage \notin {"idle", "next"} /\ stage' = "render"
         \/ stage \in InDaemon /\ stage' \in InDaemon
  PROVE  Carried'
<1>1. /\ Entry' = Entry
      /\ Unresolved' = Unresolved
      /\ Named' = Named
      /\ KnownRefusal => KnownRefusal'
  BY DEF Entry, Unresolved, Named, KnownRefusal
<1>2. Parsed(Entry.to, Body(call, Named))' = Parsed(Entry.to, Body(call, Named))
  BY <1>1
<1> QED
  BY <1>1, <1>2 DEF Carried, InDaemon

\* Once nothing is left to look up, what is sent is what the tables compare.
LEMMA NamedIsLookedUp ==
  ASSUME Carried, stage \in {"send"} \cup InDaemon
  PROVE  Named = LookedUp(call, args) /\ Fitting(Calls[call], args)
<1>1. /\ \A k \in ids : k \in Entry.refs \cap DOMAIN args /\ args[k] = "keyseq"
      /\ Fitting(Entry, args) /\ Unresolved = {}
  BY DEF Carried, InDaemon
<1>2. \A k \in DOMAIN args : (k \in ids) <=> (k \in Entry.refs /\ args[k] = "keyseq")
  BY <1>1 DEF Unresolved
<1>3. \A k \in DOMAIN args :
         (IF k \in ids THEN "uuid" ELSE args[k]) = Looked(Calls[call], k, args[k])
  BY <1>2 DEF Looked, Entry
<1>4. Named = LookedUp(call, args)
  BY <1>3 DEF Named, LookedUp
<1> QED
  BY <1>1, <1>4 DEF Entry

LEMMA ResolveCarries ==
  ASSUME GatewayInv, Carried, Resolve
  PROVE  Carried'
<1>1. stage = "resolve" /\ call' = call /\ Entry' = Entry
  BY DEF Resolve, Entry
<1>2. CASE Unresolved = {} /\ stage' = "send" /\ GoOn
  <2>1. args' = args /\ ids' = ids
    BY <1>2 DEF GoOn
  <2>2. Unresolved' = {}
    BY <1>1, <1>2, <2>1 DEF Unresolved
  <2> QED
    BY <1>1, <1>2, <2>1, <2>2 DEF Carried, InDaemon
<1>3. ASSUME NEW k \in Unresolved, ids' = ids \cup {k}, UNCHANGED <<args, items, verdicts, stage>>
      PROVE  Carried'
  <2>1. k \in Entry.refs \cap DOMAIN args /\ args[k] = "keyseq"
    BY <1>3 DEF Unresolved
  <2> QED
    BY <1>1, <1>3, <2>1 DEF Carried, InDaemon
<1>4. CASE Tell("failed")
  BY <1>1, <1>4, TellCarries
<1> QED
  BY <1>2, <1>3, <1>4 DEF Resolve

LEMMA LookUpCarries ==
  ASSUME GatewayInv, Carried, LookUp
  PROVE  Carried'
<1>1. stage = "lookup" /\ call' = call /\ Entry' = Entry
  BY DEF LookUp, Entry
<1>2. CASE Tell("exists")
  BY <1>1, <1>2, TellCarries
<1>3. CASE stage' = "send" /\ GoOn
  <2>1. args' = args /\ ids' = ids
    BY <1>3 DEF GoOn
  <2>2. call = "create_project" /\ call \in DOMAIN Calls
    BY <1>1 DEF Carried, GatewayInv, CallShape
  <2>3. Entry.refs = {}
    BY <2>2, TablesFitAssumption DEF ToolFits, Entry
  <2>4. Unresolved' = {}
    BY <1>1, <2>1, <2>3 DEF Unresolved
  <2> QED
    BY <1>1, <1>3, <2>1, <2>4 DEF Carried, InDaemon
<1> QED
  BY <1>2, <1>3 DEF LookUp

\* The schema of the route lets the request through, or the refusal is known.
LEMMA SendCarries ==
  ASSUME GatewayInv, Carried, Send
  PROVE  Carried'
<1>1. stage = "send" /\ call' = call /\ Entry' = Entry /\ call \in DOMAIN Calls
  BY DEF Send, Entry, GatewayInv, CallShape
<1>2. Named = LookedUp(call, args) /\ Fitting(Calls[call], args)
  BY <1>1, NamedIsLookedUp
<1>3. ASSUME ~ KnownRefusal
      PROVE  Accepts(Entry.to, PathOf(call, Named), Body(call, Named))
  <2>1. Refined(Calls[call].to, Body(call, args)) /\ ~ Odd(call, args)
    BY <1>3 DEF KnownRefusal, Odd, Entry
  <2>2. Accepts(Calls[call].to, PathOf(call, LookedUp(call, args)),
                Body(call, LookedUp(call, args)))
    BY <1>1, <1>2, <2>1, LookedUpIsAccepted
  <2> QED
    BY <1>2, <2>2 DEF Entry
<1>4. CASE up /\ Accepts(Entry.to, PathOf(call, Named), Body(call, Named))
  <2>1. /\ got' = Parsed(Entry.to, Body(call, Named)) /\ stage' = "find"
        /\ args' = args /\ ids' = ids /\ verdicts' = verdicts
    BY <1>4 DEF Send, GoOn
  <2>2. Unresolved' = Unresolved /\ Named' = Named
    BY <1>1, <2>1 DEF Unresolved, Named
  <2>3. Parsed(Entry.to, Body(call, Named))' = Parsed(Entry.to, Body(call, Named))
    BY <1>1, <2>2
  <2> QED
    BY <1>1, <2>1, <2>2, <2>3 DEF Carried, InDaemon
<1>5. CASE ~ (up /\ Accepts(Entry.to, PathOf(call, Named), Body(call, Named)))
  <2>1. CASE up
    BY <1>1, <1>3, <1>5, <2>1, TellCarries DEF Send
  <2>2. CASE ~ up
    BY <1>1, <1>5, <2>2, TellCarries DEF Send
  <2> QED
    BY <2>1, <2>2
<1> QED
  BY <1>4, <1>5

LEMMA CarriedInductive ==
  ASSUME GatewayInv, Carried, [GatewayNext]_gatewayVars
  PROVE  Carried'
<1>1. ASSUME NEW name \in DOMAIN Calls, Invoke(name)
      PROVE  Carried'
  BY <1>1, NewArgumentsFit DEF Invoke, Start
<1>2. CASE NextItem
  <2>1. call' = call /\ call = "update_entities" /\ call \in DOMAIN Calls
    BY <1>2 DEF NextItem, GatewayInv, CallShape, Counted
  <2>2. args' \in Shapes(Calls[call])
    BY <1>2, <2>1, BatchEdits DEF NextItem, Items
  <2> QED
    BY <1>2, <2>1, <2>2, NewArgumentsFit DEF NextItem
<1>3. CASE Repeat
  <2>1. /\ stage = "told" /\ stage' = Start(call) /\ ids' = {}
        /\ args' = args /\ call' = call /\ Entry' = Entry
    BY <1>3 DEF Repeat, Entry
  <2> QED
    BY <2>1 DEF Carried, InDaemon, Start
<1>4. CASE Find
  BY <1>4, TellCarries, SameCarried DEF Find, GoOn, InDaemon
<1>5. CASE Do
  <2>1. stage = "do" /\ UNCHANGED <<call, got>>
    BY <1>5 DEF Do
  <2>2. CASE Tell("failed")
    BY <2>1, <2>2, TellCarries
  <2>3. CASE stage' \in {"mark", "render"} /\ GoOn
    BY <2>1, <2>3, SameCarried DEF GoOn, InDaemon
  <2> QED
    BY <1>5, <2>2, <2>3 DEF Do
<1>6. CASE Mark
  <2>1. stage = "mark" /\ UNCHANGED <<call, got>>
    BY <1>6 DEF Mark
  <2>2. CASE Tell("failed")
    BY <2>1, <2>2, TellCarries
  <2>3. CASE stage' = "render" /\ GoOn
    BY <2>1, <2>3, SameCarried DEF GoOn
  <2> QED
    BY <1>6, <2>2, <2>3 DEF Mark
<1>7. CASE Render
  <2>1. stage = "render" /\ call' = call /\ \E v \in {"ok", "failed"} : Tell(v)
    BY <1>7 DEF Render
  <2> QED
    BY <2>1, TellCarries
<1>8. CASE LoseAnswer
  BY <1>8, TellCarries DEF LoseAnswer
<1>9. CASE StopDaemon
  <2>1. CASE stage \in InDaemon
    BY <1>9, <2>1, TellCarries DEF StopDaemon, InDaemon
  <2>2. CASE stage \notin InDaemon
    BY <1>9, <2>2, SameCarried DEF StopDaemon, GoOn
  <2> QED
    BY <2>1, <2>2
<1>10. CASE FinishLate \/ StartDaemon \/ Others
  <2>1. UNCHANGED <<call, args, ids, got, verdicts, stage>>
    BY <1>10 DEF FinishLate, StartDaemon, Others, given
  <2> QED
    BY <2>1, SameCarried
<1>11. CASE UNCHANGED gatewayVars
  BY <1>11, SameCarried DEF gatewayVars
<1> QED
  BY <1>1, <1>2, <1>3, <1>4, <1>5, <1>6, <1>7, <1>8, <1>9, <1>10, <1>11,
     ResolveCarries, LookUpCarries, SendCarries DEF GatewayNext, Step

LEMMA ArgumentsAreThere == GatewayInv /\ Carried => ArgumentsArrive
<1> SUFFICES ASSUME GatewayInv, Carried, stage \in InDaemon, NEW k \in DOMAIN args \ {Entry.at}
             PROVE  /\ \/ Renamed(call, k) \in DOMAIN got
                       \/ Entry.to \in QueryCalls /\ args[k] \in {"false", "null", "empty"}
                    /\ Renamed(call, k) \in DOMAIN got =>
                          got[Renamed(call, k)] = Folded(call, k, Named[k])
  BY DEF ArgumentsArrive
<1>1. /\ Named = LookedUp(call, args) /\ Fitting(Calls[call], args)
      /\ call \in DOMAIN Calls /\ got = Parsed(Entry.to, Body(call, Named))
  BY NamedIsLookedUp DEF GatewayInv, CallShape, Carried, InDaemon
<1>2. k \in Own(call, args)
  BY DEF Own, Entry
<1>3. PICK g : g = Parsed(Calls[call].to, Body(call, LookedUp(call, args)))
  OBVIOUS
<1>4. /\ Renamed(call, k) \in DOMAIN g
         \/ (Calls[call].to \in QueryCalls /\ args[k] \in {"false", "null", "empty"})
      /\ Renamed(call, k) \in DOMAIN g =>
            g[Renamed(call, k)] = Folded(call, k, Looked(Calls[call], k, args[k]))
  BY <1>1, <1>2, <1>3, ValueArrives
<1>5. g = got
  BY <1>1, <1>3 DEF Entry
<1>6. Named[k] = Looked(Calls[call], k, args[k])
  BY <1>1, LookedUpGives
<1> QED
  BY <1>4, <1>5, <1>6 DEF Entry

LEMMA AgentsAreNamed == GatewayInv /\ Carried => AgentIsNamed
<1> SUFFICES ASSUME GatewayInv, Carried, stage \in InDaemon, call \in DOMAIN McpTools,
                    "actorKind" \in DOMAIN got
             PROVE  got["actorKind"] = IF "actorKind" \in DOMAIN args
                                       THEN args["actorKind"] ELSE "agent"
  BY DEF AgentIsNamed
<1> DEFINE t == Calls[call]
           s == Routes[t.to].schema
           b == LookedUp(call, args)
           body == Body(call, b)
<1>1. /\ Named = b /\ Fitting(t, args) /\ call \in DOMAIN Calls /\ got = Parsed(t.to, body)
  BY NamedIsLookedUp DEF GatewayInv, CallShape, Carried, InDaemon, Entry
<1>2. /\ DOMAIN got = (DOMAIN body \cap DOMAIN Fields(s)) \cup DOMAIN s.given
      /\ \A n \in DOMAIN body \cap DOMAIN Fields(s) : got[n] = body[n]
  <2>1. /\ DOMAIN Parsed(t.to, body) = (DOMAIN body \cap DOMAIN Fields(s)) \cup DOMAIN s.given
        /\ \A n \in DOMAIN body \cap DOMAIN Fields(s) : Parsed(t.to, body)[n] = body[n]
        /\ \A n \in DOMAIN s.given \ (DOMAIN body \cap DOMAIN Fields(s)) :
              Parsed(t.to, body)[n] = s.given[n]
    BY ParsedGives
  <2> QED
    BY <1>1, <2>1
<1>3. /\ "actorKind" \in DOMAIN t.given /\ t.given["actorKind"] = "agent"
      /\ "actorKind" \in DOMAIN Fields(s) /\ t.to \notin QueryCalls
      /\ t.at # "actorKind" /\ "actorKind" \notin t.refs
  <2>1. AgentFits(t)
    BY TablesFitAssumption
  <2> QED
    BY <1>2, <2>1 DEF AgentFits
<1>4. "actorKind" \in DOMAIN Plain(call, b)
  BY <1>3, PlainFields
<1>5. "actorKind" \in DOMAIN body /\ body["actorKind"] = Plain(call, b)["actorKind"]
  BY <1>3, <1>4, BodyGives DEF LeftOut
<1>6. got["actorKind"] = Plain(call, b)["actorKind"]
  BY <1>2, <1>3, <1>5
<1>7. CASE "actorKind" \in DOMAIN args
  <2>1. "actorKind" \in Own(call, args)
    BY <1>3, <1>7 DEF Own
  <2>2. Renamed(call, "actorKind") = "actorKind"
    BY DEF Renamed
  <2>3. Plain(call, b)["actorKind"]
          = Folded(call, "actorKind", Looked(t, "actorKind", args["actorKind"]))
    BY <1>1, <2>1, <2>2, FieldHolds
  <2>4. Folded(call, "actorKind", Looked(t, "actorKind", args["actorKind"])) = args["actorKind"]
    BY <1>3 DEF Folded, Looked
  <2> QED
    BY <1>6, <1>7, <2>3, <2>4
<1>8. CASE "actorKind" \notin DOMAIN args
  <2>1. "actorKind" \notin Said(call, b)
    BY <1>8, LookedUpGives DEF Said, Own, Renamed
  <2>2. Plain(call, b)["actorKind"] = "agent"
    BY <1>3, <2>1, PlainGiven
  <2> QED
    BY <1>6, <1>8, <2>2
<1> QED
  BY <1>7, <1>8

\* Whatever arguments a caller gives together, each reaches the service with
\* its value, none is refused but for the known reasons, and an agent is named
\* as one: the hand-written tables of tools, requests and routes agree
\* (server.ts; http-client.ts; service/types.ts; rest/routes.ts).
THEOREM SchemasHold == GatewaySpec => []SchemasAgree
<1>1. Carried => NotRefused
  BY DEF Carried, NotRefused
<1>2. GatewayInv /\ Carried => SchemasAgree
  BY <1>1, ArgumentsAreThere, AgentsAreNamed DEF SchemasAgree
<1> QED
  BY <1>2, GatewayInvAlways, CarriedInit, CarriedInductive, PTL DEF GatewaySpec

-----------------------------------------------------------------------------
(* The gate and the calls together.                                        *)

\* What the daemon's tables of access hold has its shape: a row of a token or
\* a session, a name that is served and one that is about to be stored are of
\* something that was created, for any number of each (tokens.ts; sessions.ts;
\* routes.ts, tokenLabels).
THEOREM AccessTypesHold == AccessSpec => []AccessTypeOK
BY AccessInvInit, AccessInvInductive, AccessInvIsEnough, PTL DEF AccessSpec

\* A call keeps its shape through every step, fault and repetition, and no
\* call writes more than one row per round (server.ts; http-client.ts).
THEOREM CallTypesHold == GatewaySpec => []GatewayTypeOK
BY CallInvInit, CallInvInductive, CallInvIsEnough, PTL DEF GatewaySpec

\* Each step of the two together is one of the gate's or none of it, and one
\* of the call's or none of it: what is proved of either holds of both.
THEOREM EntryIsBoth == EntrySpec => AccessSpec /\ GatewaySpec
<1>1. EntryInit => AccessInit /\ GatewayInit
  BY DEF EntryInit
<1>2. [EntryNext]_entryVars => [AccessNext]_accessVars /\ [GatewayNext]_gatewayVars
  BY DEF EntryNext, entryVars
<1> QED
  BY <1>1, <1>2, PTL DEF EntrySpec, AccessSpec, GatewaySpec

\* Both parts have their types in every behaviour of the two (server.ts).
THEOREM EntryTypesHold == EntrySpec => []EntryTypeOK
<1>1. AccessTypeOK /\ GatewayTypeOK => EntryTypeOK
  BY DEF EntryTypeOK
<1> QED
  BY <1>1, EntryIsBoth, AccessTypesHold, CallTypesHold, PTL

=============================================================================
