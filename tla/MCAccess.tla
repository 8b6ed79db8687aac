------------------------------ MODULE MCAccess ------------------------------
EXTENDS Access, TLC

CONSTANTS r1, r2

\* Two bits: 0 and 1 are the daemon's host, 2 and 3 the network.
MCLoopback == {0, 1}

\* The user at the machine, a proxy on it, a peer on the network that forges a
\* header, and the proxy with a URL that begins otherwise.
User == [peer |-> 0, cf |-> NoOne, xff |-> NoOne, prefixed |-> TRUE]
Proxied == [peer |-> 0, cf |-> 2, xff |-> 3, prefixed |-> TRUE]
Forger == [peer |-> 2, cf |-> NoOne, xff |-> 0, prefixed |-> TRUE]
Otherwise == [Proxied EXCEPT !.prefixed = FALSE]

MCRequests == {r1, r2}
MCClients == (r1 :> {Proxied, Forger, Otherwise}) @@ (r2 :> {User})

LoopbackRule == [kind |-> "loopback"]

\* A daemon that trusts nobody but its own proxy, one behind a proxy network
\* that trusts its host, and one without authentication.
MCEnvs == {[flag |-> "unset", password |-> TRUE, trust |-> "0", proxies |-> {LoopbackRule}],
           [flag |-> "1", password |-> TRUE, trust |-> "unset",
               proxies |-> {[kind |-> "cidr", base |-> 3, bits |-> 1],
                            [kind |-> "address", base |-> 1]}],
           [flag |-> "unset", password |-> FALSE, trust |-> "unset", proxies |-> {LoopbackRule}]}
=============================================================================
