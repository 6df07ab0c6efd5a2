--------------------------- MODULE WebhookConfig ---------------------------
(***************************************************************************)
(* The webhook that notifications go to, when a device-registry is         *)
(* configured (REGISTRY_URL): app/webhook.go installs a client at startup  *)
(* and a refresher replaces it when the settings in the registry change;   *)
(* internal/trap/webhook.go sends a payload with retries, with the client  *)
(* that was active when it began.                                          *)
(*                                                                         *)
(* Settings are opaque values; those in Disabled have no URL or are        *)
(* switched off, and have no client.                                       *)
(***************************************************************************)
EXTENDS Integers

CONSTANTS
    Settings,    \* what the registry can hold and the environment can say
    Disabled,    \* settings for which BuildWebhookClient returns nil
    Env,         \* the settings of the environment, used when a fetch fails
    Retries,     \* the number of retries in each of them
    MaxEdits,    \* bound: edits in the registry
    MaxFails,    \* bound: fetches that fail
    MaxSends     \* bound: payloads

Nil == "nil"

ASSUME WebhookAssumption ==
    /\ Disabled \subseteq Settings /\ Env \in Settings /\ Nil \notin Settings
    /\ Retries \in [Settings -> Int] /\ MaxEdits \in Nat /\ MaxFails \in Nat /\ MaxSends \in Nat

VARIABLES
    remote,    \* the settings in the device-registry
    pc,        \* initWebhook and then webhookRefresher
    fetched,   \* what currentWebhookSettings returned
    last,      \* the refresher's last
    active,    \* trap.activeWebhook
    reloaded,  \* the refresher has installed a client
    post,      \* the payload being sent
    sends, edits, fails

vars == <<remote, pc, fetched, last, active, reloaded, post, sends, edits, fails>>
refresh == <<pc, fetched, last, active, reloaded>>

\* How often a payload has been POSTed with each client.
NoTries == [c \in Settings \cup {Nil} |-> 0]

NoPost == [client |-> Nil, attempt |-> 0, tried |-> NoTries, st |-> "idle"]

\* w.maxRetries of a client: BuildWebhookClient puts its default in place of 0.
maxRetries(w) == IF Retries[w] <= 0 THEN 3 ELSE Retries[w]

BuildWebhookClient(s) == IF s \in Disabled THEN Nil ELSE s

Init ==
    /\ remote \in Settings
    /\ pc = "boot"
    /\ fetched = Env
    /\ last = Nil
    /\ active = Nil
    /\ reloaded = FALSE
    /\ post = NoPost
    /\ sends = 0 /\ edits = 0 /\ fails = 0

\* Somebody edits the webhook in the device-registry.
Edit ==
    /\ edits < MaxEdits
    /\ edits' = edits + 1
    /\ remote' \in Settings \ {remote}
    /\ UNCHANGED <<refresh, post, sends, fails>>

\* currentWebhookSettings: the registry's settings, or the environment's when the
\* registry does not answer.
currentWebhookSettings(s) ==
    \/ s = remote /\ UNCHANGED fails
    \/ s = Env /\ fails < MaxFails /\ fails' = fails + 1

\* A fetch by initWebhook ("boot") or by a tick of the refresher ("wait").
Fetch ==
    /\ pc \in {"boot", "wait"}
    /\ pc' = IF pc = "boot" THEN "install" ELSE "compare"
    /\ \E s \in {remote, Env} : currentWebhookSettings(s) /\ fetched' = s
    /\ UNCHANGED <<remote, last, active, reloaded, post, sends, edits>>

\* initWebhook installs the client and starts the refresher.
initWebhook ==
    /\ pc = "install"
    /\ active' = BuildWebhookClient(fetched)
    /\ pc' = "start"
    /\ UNCHANGED <<remote, fetched, last, reloaded, post, sends, edits, fails>>

\* The refresher begins with a fetch of its own, to which it compares later ones.
RefresherStart ==
    /\ pc = "start"
    /\ \E s \in {remote, Env} : currentWebhookSettings(s) /\ last' = s
    /\ pc' = "wait"
    /\ UNCHANGED <<remote, fetched, active, reloaded, post, sends, edits>>

\* Mutant: last is not updated when a client is installed.
MutReload ==
    /\ pc = "compare"
    /\ pc' = "wait"
    /\ IF fetched = last THEN UNCHANGED <<last, active, reloaded>>
       ELSE /\ active' = BuildWebhookClient(fetched)
            /\ reloaded' = TRUE
            /\ UNCHANGED last
    /\ UNCHANGED <<remote, fetched, post, sends, edits, fails>>

\* Mutant: a client that has become nil is not installed.
MutKeepClient ==
    /\ pc = "compare"
    /\ pc' = "wait"
    /\ IF fetched = last THEN UNCHANGED <<last, active, reloaded>>
       ELSE /\ last' = fetched
            /\ active' = IF fetched \in Disabled THEN active ELSE fetched
            /\ reloaded' = TRUE
    /\ UNCHANGED <<remote, fetched, post, sends, edits, fails>>

\* A tick, after its fetch: settings that differ from the last ones are installed.
Reload ==
    /\ pc = "compare"
    /\ pc' = "wait"
    /\ IF fetched = last THEN UNCHANGED <<last, active, reloaded>>
       ELSE /\ last' = fetched
            /\ active' = BuildWebhookClient(fetched)
            /\ reloaded' = TRUE
    /\ UNCHANGED <<remote, fetched, post, sends, edits, fails>>

-----------------------------------------------------------------------------
\* A consumer resolves the active client and begins to send; without a client the
\* payload is dropped.
Send ==
    /\ post.st # "trying"
    /\ pc \notin {"boot", "install"}
    /\ sends < MaxSends
    /\ sends' = sends + 1
    /\ post' = [NoPost EXCEPT !.client = active,
                              !.st = IF active = Nil THEN "dropped" ELSE "trying"]
    /\ UNCHANGED <<remote, refresh, edits, fails>>

\* Mutant: each attempt resolves the active client anew.
MutReceiver == active

\* sendPayload is a method of the client that the consumer resolved: every attempt
\* POSTs with it.
Receiver == post.client

\* One POST: accepted; or an error or another status, and then the next attempt
\* after a pause, or the end.
Attempt ==
    /\ post.st = "trying"
    /\ LET posted == [post EXCEPT !.tried[Receiver] = @ + 1]
       IN  \/ post' = [posted EXCEPT !.st = "sent"]
           \/ /\ post.attempt < maxRetries(post.client)
              /\ post' = [posted EXCEPT !.attempt = @ + 1]
           \/ /\ post.attempt = maxRetries(post.client)
              /\ post' = [posted EXCEPT !.st = "failed"]
    /\ UNCHANGED <<remote, refresh, sends, edits, fails>>

RefreshStep == Fetch \/ initWebhook \/ RefresherStart \/ Reload

Next == Edit \/ RefreshStep \/ Send \/ Attempt

Spec == Init /\ [][Next]_vars

\* The ticker fires and a fetch, which has a timeout, returns; attempts end.
FairSpec == Spec /\ WF_vars(RefreshStep) /\ WF_vars(Attempt)

-----------------------------------------------------------------------------
Payload == [client : (Settings \ Disabled) \cup {Nil}, attempt : Nat,
            tried : [Settings \cup {Nil} -> Nat],
            st : {"idle", "trying", "sent", "failed", "dropped"}]

\* The types of the state.
TypeOK ==
    /\ remote \in Settings /\ fetched \in Settings
    /\ pc \in {"boot", "install", "start", "wait", "compare"}
    /\ last \in Settings \cup {Nil}
    /\ active \in (Settings \ Disabled) \cup {Nil}
    /\ reloaded \in BOOLEAN
    /\ post \in Payload
    /\ sends \in 0..MaxSends /\ edits \in 0..MaxEdits /\ fails \in 0..MaxFails

\* From its first reload on, the refresher compares with what is installed: no
\* change can be mistaken for the present settings.
ComparesWithActive == reloaded => active = BuildWebhookClient(last)

\* A payload under way does not notice that the settings change.  Every attempt goes to
\* the client that was active when its sending began, it is given up only when that
\* client has been tried once and then as often as its own settings say, and it is
\* dropped only if there was no client at the beginning: an edit, a disabled webhook
\* or a failed fetch in between neither loses it nor sends a part of its attempts
\* somewhere else.
GivenUpLast ==
    /\ \A c \in Settings \cup {Nil} : post.tried[c] > 0 => c = post.client
    /\ post.st = "failed" => post.tried[post.client] = maxRetries(post.client) + 1
    /\ post.st = "dropped" => post.client = Nil

\* A payload that is being sent has a client and has been tried before the attempt
\* that is next, which is one of the client's.
SentInv ==
    post.st = "trying" => /\ post.client # Nil
                          /\ post.attempt <= maxRetries(post.client)
                          /\ post.tried[post.client] = post.attempt

\* Only the refresher's ticks, which follow its own first fetch, reload.
TickInv ==
    /\ reloaded => pc \in {"wait", "compare"}
    /\ pc \in {"wait", "compare"} => last # Nil

\* What makes the properties above inductive.
HookInv == TypeOK /\ SentInv /\ TickInv /\ ComparesWithActive /\ GivenUpLast

\* Once the refresher has installed a client, the settings that the registry keeps
\* are installed in the end, through failed fetches and edits that come and go.
ReloadConverges == [](reloaded => <>[](active = BuildWebhookClient(remote)))

\* app/webhook.go: edits in the registry apply without a restart.
EditsApply == <>[](active = BuildWebhookClient(remote))

\* .env.example: with 0 retries a payload is tried once.
ZeroMeansOnce == post.client # Nil /\ Retries[post.client] = 0 => post.attempt = 0
=============================================================================
