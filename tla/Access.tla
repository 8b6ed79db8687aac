------------------------------- MODULE Access -------------------------------
(***************************************************************************)
(* Who gets in: the onRequest gate of the daemon, the tokens and sessions  *)
(* it looks up, the login with its rate limit, and the cache of token      *)
(* names that every response is decorated from.                            *)
(*                                                                         *)
(* A request is a sequence of steps, one per statement that reaches the    *)
(* database: what runs between two awaits is one step, and the requests of *)
(* Requests interleave between them.  Time is Tick: it shortens the life   *)
(* of every session, ages the cache and ends the window of the limiter.    *)
(* One tick is one window; Ttl and Life count ticks.                       *)
(*                                                                         *)
(* An address is a number of Width bits; Loopback is the set of those of   *)
(* the daemon's own host.  A token or a session is created once: its       *)
(* plaintext is random, so that a revoked one never comes back.            *)
(***************************************************************************)
EXTENDS Integers, FiniteSets

CONSTANTS
    Requests,   \* requests in flight at once
    Clients,    \* who may send each request: [peer, cf, xff, prefixed], the
                \* TCP peer, the forwarded headers, and whether the URL begins
                \* with /v1/ as it is sent
    Tokens,     \* API tokens that may ever be created
    Sessions,   \* browser sessions that may ever be created
    Width,      \* bits of an address
    Loopback,   \* addresses of the daemon's host
    Envs,       \* environments the daemon may be started with
    Ttl,        \* ticks a cached map of names is served
    Life,       \* ticks a session lives
    LoginMax,   \* password attempts per client and window
    NoOne       \* no credential, no header, no actor

AllClients == UNION {Clients[r] : r \in Requests}

ASSUME AccessAssumption ==
    /\ Width \in Nat \ {0} /\ Loopback \subseteq 0..(2^Width - 1)
    /\ Ttl \in Nat \ {0} /\ Life \in Nat \ {0} /\ LoginMax \in Nat \ {0}
    /\ \A c \in AllClients : /\ c.peer \in 0..(2^Width - 1)
                             /\ {c.cf, c.xff} \subseteq (0..(2^Width - 1)) \cup {NoOne}
                             /\ c.prefixed \in BOOLEAN
    /\ NoOne \notin Tokens \cup Sessions \cup (0..(2^Width - 1))

VARIABLES
    env,         \* the environment read at boot
    tokens,      \* rows of the table tokens: the live ones
    everToken,   \* tokens created so far
    life,        \* rows of sessions: ticks to live, 0 expired, -1 no row
    everSession, \* sessions created so far
    labelCache,  \* [labels, age], or NoOne
    hits,        \* login attempts of each client in this window
    tried,       \* passwords compared in this window for each peer that is not a
                 \* trusted proxy (history)
    req          \* the requests

accessVars == <<env, tokens, everToken, life, everSession, labelCache, hits, tried, req>>

Addresses == 0..(2^Width - 1)

-----------------------------------------------------------------------------
(* auth.ts: the configuration and where a request comes from               *)

Required == IF env.flag = "unset" THEN env.password ELSE env.flag = "1"

TrustLocalhost == env.trust # "0"

\* The mask is a shift by Width - bits, which JavaScript takes modulo the
\* word: a shift by the whole word is none, hence the case of its own.
MatchesCidr(a, base, bits) ==
    LET unmasked == 2^((Width - bits) % Width)
    IN  \/ bits = 0
        \/ a \div unmasked = base \div unmasked

RuleCovers(rule, a) ==
    CASE rule.kind = "loopback" -> a \in Loopback
      [] rule.kind = "cidr"     -> MatchesCidr(a, rule.base, rule.bits)
      [] rule.kind = "address"  -> rule.base = a

IsTrustedProxy(a) == \E rule \in env.proxies : RuleCovers(rule, a)

HasForwardedHeaders(c) == c.cf # NoOne \/ c.xff # NoOne

\* Mutant: the headers are believed whoever sends them.
ClientIpOfHeaders(c) ==
    CASE c.cf # NoOne -> c.cf
      [] c.cf = NoOne /\ c.xff # NoOne -> c.xff
      [] OTHER -> c.peer

\* The key of the rate limiter.
ClientIp(c) ==
    CASE ~ IsTrustedProxy(c.peer) -> c.peer
      [] IsTrustedProxy(c.peer) /\ c.cf # NoOne -> c.cf
      [] IsTrustedProxy(c.peer) /\ c.cf = NoOne /\ c.xff # NoOne -> c.xff
      [] OTHER -> c.peer

\* Mutant: any connection from loopback is taken for the user's own.
RequestOriginByPeer(c) ==
    CASE HasForwardedHeaders(c) /\ IsTrustedProxy(c.peer) -> "proxied"
      [] ~ (HasForwardedHeaders(c) /\ IsTrustedProxy(c.peer)) /\ c.peer \in Loopback -> "local"
      [] OTHER -> "direct"

RequestOrigin(c) ==
    CASE HasForwardedHeaders(c) /\ IsTrustedProxy(c.peer) -> "proxied"
      [] ~ HasForwardedHeaders(c) /\ c.peer \in Loopback -> "local"
      [] OTHER -> "direct"

TrustedWithoutCredential(c) == TrustLocalhost /\ RequestOrigin(c) = "local"

-----------------------------------------------------------------------------
(* Requests                                                                *)

GatedRoutes == {"createToken", "revokeToken", "read"}

Idle == [phase |-> "idle"]

\* Credentials a client may send: any that was ever given out, or none.  One
\* that was made up is to the lookup what a revoked one is: no row.
Bearers == everToken \cup {NoOne}
Cookies == everSession \cup {NoOne}

LiveSession(s) == s \in Sessions /\ life[s] > 0

AccessInit ==
    /\ env \in Envs
    /\ tokens = {} /\ everToken = {}
    /\ life = [s \in Sessions |-> -1] /\ everSession = {}
    /\ labelCache = NoOne
    /\ hits = [a \in Addresses |-> 0]
    /\ tried = [a \in Addresses |-> 0]
    /\ req = [r \in Requests |-> Idle]

Goto(r, phase) == req' = [req EXCEPT ![r].phase = phase]

Answer(r) == req' = [req EXCEPT ![r] = Idle]

\* What the gate does once no token was found, up to its next await.
AfterBearer(q) ==
    IF ~ Required \/ TrustedWithoutCredential(q.client) THEN "handler"
    ELSE IF q.cookie # NoOne THEN "cookie" ELSE "refused"

\* What the hook does up to its first await.  It tests the URL as it was sent
\* for the prefix, while the router (external) goes by the decoded path: what
\* the hook does not take for a /v1 request is left to its handler, and what
\* credentials it carries makes no difference (they are left out of it).
AtTheHook(q) ==
    CASE ~ q.client.prefixed -> "handler"
      [] q.client.prefixed /\ q.bearer = NoOne -> AfterBearer(q)
      [] OTHER -> "bearer"

\* held: which of the credentials it carries were good when it arrived.
Arrive(r) ==
    /\ req[r].phase = "idle"
    /\ \E c \in Clients[r], route \in GatedRoutes, b \in Bearers, k \in Cookies :
          /\ ~ c.prefixed => b = NoOne /\ k = NoOne
          /\ LET q == [phase |-> "bearer", client |-> c, route |-> route,
                       bearer |-> b, cookie |-> k, actor |-> NoOne,
                       held |-> {x \in {b, k} : x \in tokens \/ LiveSession(x)}]
             IN  req' = [req EXCEPT ![r] = [q EXCEPT !.phase = AtTheHook(q)]]
    /\ UNCHANGED <<env, tokens, everToken, life, everSession, labelCache, hits, tried>>

\* consumeToken, and the hook that goes on when it finds nothing.
ResolveBearer(r) ==
    LET q == req[r] IN
    /\ q.phase = "bearer"
    /\ req' = [req EXCEPT ![r] =
            IF q.bearer \in tokens
            THEN [q EXCEPT !.phase = "handler", !.actor = q.bearer]
            ELSE [q EXCEPT !.phase = AfterBearer(q)]]
    /\ UNCHANGED <<env, tokens, everToken, life, everSession, labelCache, hits, tried>>

\* consumeSession: only a row whose expiry is still ahead counts.
ResolveCookie(r) ==
    /\ req[r].phase = "cookie"
    /\ Goto(r, IF LiveSession(req[r].cookie) THEN "handler" ELSE "refused")
    /\ UNCHANGED <<env, tokens, everToken, life, everSession, labelCache, hits, tried>>

\* The 401 leaves; the slot is free for another request.
Refuse(r) ==
    /\ req[r].phase = "refused"
    /\ Answer(r)
    /\ UNCHANGED <<env, tokens, everToken, life, everSession, labelCache, hits, tried>>

-----------------------------------------------------------------------------
(* Login and logout: the routes the gate leaves open                       *)

\* The limiter counts the attempt under clientIp and lets LoginMax through.
Limited(c) == hits[ClientIp(c)] >= LoginMax

VerifyMasterPassword(right) == env.password /\ right

\* A login that is not refused by the limiter compares the password once;
\* the right one inserts a session that lives from now on.
Login(c, right) ==
    /\ ~ Limited(c)
    /\ hits' = [hits EXCEPT ![ClientIp(c)] = @ + 1]
    /\ tried' = [tried EXCEPT ![c.peer] = IF IsTrustedProxy(c.peer) THEN 0 ELSE @ + 1]
    /\ IF VerifyMasterPassword(right)
       THEN \E s \in Sessions \ everSession :
               /\ life' = [life EXCEPT ![s] = Life]
               /\ everSession' = everSession \cup {s}
       ELSE UNCHANGED <<life, everSession>>
    /\ UNCHANGED <<env, tokens, everToken, labelCache, req>>

\* revokeSession by the cookie: no-op when no row matches.
Logout(s) ==
    /\ life[s] # -1
    /\ life' = [life EXCEPT ![s] = -1]
    /\ UNCHANGED <<env, tokens, everToken, everSession, labelCache, hits, tried, req>>

\* The daily job of the daemon.
PruneExpiredSessions ==
    /\ \E s \in Sessions : life[s] = 0
    /\ life' = [s \in Sessions |-> IF life[s] = 0 THEN -1 ELSE life[s]]
    /\ UNCHANGED <<env, tokens, everToken, everSession, labelCache, hits, tried, req>>

-----------------------------------------------------------------------------
(* The handlers behind the gate                                            *)

\* createToken inserts the row and awaits it; the cache goes after that.
CreateToken(r) ==
    /\ req[r].phase = "handler" /\ req[r].route = "createToken"
    /\ \E t \in Tokens \ everToken :
          /\ tokens' = tokens \cup {t}
          /\ everToken' = everToken \cup {t}
    /\ Goto(r, "invalidate")
    /\ UNCHANGED <<env, life, everSession, labelCache, hits, tried>>

\* An id of a row that is gone, or was never there, is a 404; the cache is
\* dropped all the same.
RevokeToken(r) ==
    /\ req[r].phase = "handler" /\ req[r].route = "revokeToken"
    /\ \E t \in Tokens : tokens' = tokens \ {t}
    /\ Goto(r, "invalidate")
    /\ UNCHANGED <<env, everToken, life, everSession, labelCache, hits, tried>>

InvalidateLabels(r) ==
    /\ req[r].phase = "invalidate"
    /\ labelCache' = NoOne
    /\ Answer(r)
    /\ UNCHANGED <<env, tokens, everToken, life, everSession, hits, tried>>

CacheIsServed == labelCache # NoOne /\ labelCache.age < Ttl

\* Mutant: a hit counts as a fresh read of the names.
ServeCachedLabelsSliding(r) ==
    /\ req[r].phase = "handler" /\ req[r].route = "read"
    /\ CacheIsServed
    /\ labelCache' = [labelCache EXCEPT !.age = 0]
    /\ Answer(r)
    /\ UNCHANGED <<env, tokens, everToken, life, everSession, hits, tried>>

\* attachActorLabels: a response that names a token asks tokenLabels.
ServeCachedLabels(r) ==
    /\ req[r].phase = "handler" /\ req[r].route = "read"
    /\ CacheIsServed
    /\ Answer(r)
    /\ UNCHANGED <<env, tokens, everToken, life, everSession, labelCache, hits, tried>>

\* tokenLabels without a usable entry: the SELECT, then an await.
SelectLabels(r) ==
    /\ req[r].phase = "handler" /\ req[r].route = "read"
    /\ ~ CacheIsServed
    /\ req' = [req EXCEPT ![r] = [phase |-> "labels", rows |-> tokens]]
    /\ UNCHANGED <<env, tokens, everToken, life, everSession, labelCache, hits, tried>>

\* The rows it read are stored with the time of now, not of the SELECT.
StoreLabels(r) ==
    /\ req[r].phase = "labels"
    /\ labelCache' = [labels |-> req[r].rows, age |-> 0]
    /\ Answer(r)
    /\ UNCHANGED <<env, tokens, everToken, life, everSession, hits, tried>>

-----------------------------------------------------------------------------
(* Fault and time                                                          *)

\* Fault: the connection or the daemon goes away between two statements.
Abandon(r) ==
    /\ req[r].phase \in {"invalidate", "labels"}
    /\ Answer(r)
    /\ labelCache' = NoOne       \* a restart empties the memory
    /\ UNCHANGED <<env, tokens, everToken, life, everSession, hits, tried>>

Aged == [labelCache EXCEPT !.age = IF @ < Ttl THEN @ + 1 ELSE Ttl]

Tick ==
    /\ life' = [s \in Sessions |-> IF life[s] > 0 THEN life[s] - 1 ELSE life[s]]
    /\ labelCache' = IF labelCache = NoOne THEN NoOne ELSE Aged
    /\ hits' = [a \in Addresses |-> 0]
    /\ tried' = [a \in Addresses |-> 0]
    /\ UNCHANGED <<env, tokens, everToken, everSession, req>>

RequestStep(r) ==
    \/ ResolveBearer(r) \/ ResolveCookie(r) \/ Refuse(r)
    \/ CreateToken(r) \/ RevokeToken(r) \/ InvalidateLabels(r)
    \/ ServeCachedLabels(r) \/ SelectLabels(r) \/ StoreLabels(r)

AccessNext ==
    \/ \E r \in Requests : Arrive(r) \/ RequestStep(r) \/ Abandon(r)
    \/ \E c \in AllClients, right \in BOOLEAN : Login(c, right)
    \/ \E s \in Sessions : Logout(s)
    \/ PruneExpiredSessions
    \/ Tick

\* Time passes.  Nobody's request has to get anywhere.
AccessFairness == WF_accessVars(Tick)

AccessSpec == AccessInit /\ [][AccessNext]_accessVars /\ AccessFairness

-----------------------------------------------------------------------------
(* Properties                                                              *)

\* Types, and that what is live was created: no lookup can find a row of a
\* token or a session that nobody was given (tokens.ts, sessions.ts).
AccessTypeOK ==
    /\ env \in Envs
    /\ tokens \subseteq everToken /\ everToken \subseteq Tokens
    /\ life \in [Sessions -> -1..Life]
    /\ \A s \in Sessions : life[s] # -1 => s \in everSession
    /\ labelCache # NoOne =>
          labelCache.age \in 0..Ttl /\ labelCache.labels \subseteq everToken
    /\ hits \in [Addresses -> 0..LoginMax] /\ tried \in [Addresses -> Nat]
    /\ \A r \in Requests :
          req[r].phase \in {"idle", "bearer", "cookie", "handler", "refused",
                           "invalidate", "labels"}

PastTheGate(r) == req[r].phase \in {"handler", "invalidate"}

\* By a URL that begins with /v1/ as it was sent, which is what the hook tests
\* (server.ts:243), nobody reaches a handler behind the gate of a daemon that
\* requires credentials without one that was good when the request came, except
\* from the host itself with nothing that says a proxy passed it on; in
\* particular no request that came after a revocation, a logout or the end
\* of a session is let in by it.  And a write is put down to a token only if
\* that token was good (server.ts, the auth hook).
InByCredential ==
    \A r \in Requests : PastTheGate(r) /\ req[r].client.prefixed =>
        LET q == req[r] IN
        /\ \/ ~ Required
           \/ q.held # {}
           \/ TrustLocalhost /\ q.client.peer \in Loopback
                             /\ q.client.cf = NoOne /\ q.client.xff = NoOne
        /\ q.actor # NoOne => q.actor \in q.held

\* A 401 is never given to a request that carries something valid: a bad
\* bearer token does not hide a good cookie, and a trusted connection with a
\* revoked token is still trusted (server.ts:261-277).
TurnedAwayIsInvalid ==
    \A r \in Requests : req[r].phase = "refused" =>
        /\ Required
        /\ req[r].bearer \notin tokens
        /\ ~ LiveSession(req[r].cookie)
        /\ ~ TrustedWithoutCredential(req[r].client)

\* The gate lets in whom it should, of the requests it takes for its own, and
\* turns away nobody else.
GateIsRight == InByCredential /\ TurnedAwayIsInvalid

\* Within one window nobody who is not a trusted proxy gets more than
\* LoginMax passwords compared, whatever headers come with the attempts
\* (auth.ts:110, routes.ts:1010).
LoginIsLimited == \A a \in Addresses : tried[a] <= LoginMax

\* Once the tokens no longer change, the names that responses carry become
\* right and stay so: what a lookup stored behind the back of a creation or
\* a revocation is not served for ever, however many reads there are
\* (tokens.ts:43-53).
LabelsSettle == <>[](CacheIsServed => labelCache.labels = tokens)
=============================================================================
