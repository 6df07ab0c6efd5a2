---------------------------- MODULE RegistryStartup ----------------------------
(***************************************************************************)
(* The first list of OLTs at startup, config/registry.go: fetches of the   *)
(* device-registry are retried with a growing pause until one succeeds or  *)
(* the next pause would overrun the startup window.  There is no static    *)
(* list to fall back on: giving up ends the process.                       *)
(*                                                                         *)
(* Time is in seconds since the first fetch.  From the second `up' on the  *)
(* device-registry answers every fetch; a fetch that begins earlier may    *)
(* succeed or fail, at any moment up to its timeout.                       *)
(***************************************************************************)
EXTENDS Integers

CONSTANTS Window,         \* registryStartupTimeout(); 0 or less: no retry
          FetchTimeout,   \* 10 s
          InitialBackoff, \* 1 s
          MaxBackoff,     \* 8 s
          Ups             \* when the device-registry may become reachable

ASSUME StartupAssumption ==
    /\ Window \in Int
    /\ FetchTimeout \in Nat
    /\ InitialBackoff \in Nat \ {0}
    /\ MaxBackoff \in Nat \ {0}
    /\ InitialBackoff <= MaxBackoff
    /\ Ups \subseteq Nat

VARIABLES phase,   \* "fetching", "sleeping", "ready" or "gaveUp"
          now,
          backoff,
          up

startupVars == <<phase, now, backoff, up>>

StartupInit ==
    /\ phase = "fetching"
    /\ now = 0
    /\ backoff = InitialBackoff
    /\ up \in Ups

FetchReturns ==
    /\ phase = "fetching"
    /\ \E t \in now .. now + FetchTimeout : now' = t
    /\ phase' = "ready"
    /\ UNCHANGED <<backoff, up>>

AfterFetch(t) == IF t + backoff < Window THEN "sleeping" ELSE "gaveUp"

FetchFails ==
    /\ phase = "fetching"
    /\ now < up
    /\ \E t \in now .. now + FetchTimeout :
          /\ now' = t
          /\ phase' = AfterFetch(t)
    /\ UNCHANGED <<backoff, up>>

\* Mutant: the pause doubles without a bound.
MutDoubled(b) == 2 * b

Doubled(b) == IF 2 * b > MaxBackoff THEN MaxBackoff ELSE 2 * b

Sleep ==
    /\ phase = "sleeping"
    /\ now' = now + backoff
    /\ backoff' = Doubled(backoff)
    /\ phase' = "fetching"
    /\ UNCHANGED up

StartupNext == FetchReturns \/ FetchFails \/ Sleep

StartupSpec == StartupInit /\ [][StartupNext]_startupVars

--------------------------------------------------------------------------------
StartupTypeOK ==
    /\ phase \in {"fetching", "sleeping", "ready", "gaveUp"}
    /\ now \in Nat
    /\ backoff \in InitialBackoff .. MaxBackoff
    /\ up \in Ups

\* The process never gives up on a device-registry that is reachable one pause
\* and one timeout before the end of the window: the fetch that fails last
\* cannot have begun earlier.
ReadyBoots == phase = "gaveUp" => up > Window - MaxBackoff - FetchTimeout

\* Startup is decided within one timeout of the window, however the fetches
\* fail, and without a window after the first fetch.
DecidedInTime ==
    phase \in {"ready", "gaveUp"} =>
        now <= (IF Window > 0 THEN Window ELSE 0) + FetchTimeout
================================================================================
