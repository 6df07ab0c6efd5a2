----------------------------- MODULE ClientAddress -----------------------------
(***************************************************************************)
(* The client a request is attributed to, internal/middleware/client_ip.go:*)
(* the chain of X-Forwarded-For is believed from the right, as far as      *)
(* trusted proxies wrote it.  An address is a model value; Malformed is a  *)
(* hop or a header that does not parse.                                    *)
(***************************************************************************)
EXTENDS Integers, Sequences, FiniteSetsExt

CONSTANTS Addresses,
          TrustedProxies, \* RATE_LIMIT_TRUSTED_PROXIES
          Malformed,
          MaxHops         \* bound: hops of a chain

ASSUME AddressAssumption ==
    /\ TrustedProxies \subseteq Addresses
    /\ Malformed \notin Addresses
    /\ MaxHops \in Nat

VARIABLES peer, hops, realIP,  \* of the request
          hop,                 \* index of the walk; 0 when it is over
          client

addressVars == <<peer, hops, realIP, hop, client>>

AddressInit ==
    /\ peer \in Addresses
    /\ hops = <<>>
    /\ realIP = Malformed
    /\ hop = 0
    /\ client = peer

\* A request, and what ResolveClientIP does before and instead of the walk.  An
\* X-Real-IP that is missing is like one that does not parse.
Request ==
    /\ hop = 0
    /\ peer' \in Addresses
    /\ \E n \in 0 .. MaxHops : hops' \in [1 .. n -> Addresses \union {Malformed}]
    /\ realIP' \in Addresses \union {Malformed}
    /\ hop' = IF peer' \in TrustedProxies THEN Len(hops') ELSE 0
    /\ client' = IF peer' \in TrustedProxies /\ hops' = <<>> /\ realIP' # Malformed
                 THEN realIP' ELSE peer'

\* Mutant: the walk goes on behind a hop that is not trusted.
MutStops(h) == h = Malformed

Stops(h) == h \notin TrustedProxies

\* One turn of the loop, from the right.
WalkHop ==
    /\ hop > 0
    /\ client' = IF hops[hop] = Malformed THEN peer ELSE hops[hop]
    /\ hop' = IF Stops(hops[hop]) THEN 0 ELSE hop - 1
    /\ UNCHANGED <<peer, hops, realIP>>

AddressNext == Request \/ WalkHop

AddressSpec == AddressInit /\ [][AddressNext]_addressVars

--------------------------------------------------------------------------------
\* The hops that a trusted proxy wrote: those with nothing but trusted ones to the
\* right of them.
Vouched == {i \in DOMAIN hops : \A j \in DOMAIN hops : j > i => hops[j] \in TrustedProxies}

\* The client is the peer or an address that a trusted proxy vouches for, the
\* furthest of these, so that nothing a client writes to the left of its own address
\* changes who it is.
ClientIsVouched ==
    (hop = 0 /\ hops # <<>>) =>
        client = IF peer \notin TrustedProxies \/ hops[Min(Vouched)] = Malformed
                 THEN peer ELSE hops[Min(Vouched)]

\* The types of the state; the walk stays on the chain.
AddressTypeOK ==
    /\ peer \in Addresses
    /\ hops \in Seq(Addresses \union {Malformed})
    /\ hop \in 0 .. Len(hops)

\* The walk goes on from a trusted peer and over trusted hops only.
WalkInv ==
    hop > 0 => /\ peer \in TrustedProxies
               /\ \A j \in DOMAIN hops : j > hop => hops[j] \in TrustedProxies

\* What makes ClientIsVouched inductive.
AddressInv == AddressTypeOK /\ WalkInv /\ ClientIsVouched
================================================================================
