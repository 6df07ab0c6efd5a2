------------------------- MODULE WebhookConfigProofs -------------------------
(***************************************************************************)
(* The guarantees of the webhook's refresher and of its client, for any    *)
(* settings, any number of retries, edits, failed fetches and payloads.    *)
(***************************************************************************)
EXTENDS WebhookConfig, TLAPS

\* What BuildWebhookClient returns: the settings' client, or none.
LEMMA ClientFacts ==
    ASSUME NEW s \in Settings
    PROVE  /\ BuildWebhookClient(s) \in (Settings \ Disabled) \cup {Nil}
           /\ BuildWebhookClient(s) = Nil <=> s \in Disabled
BY WebhookAssumption DEF BuildWebhookClient

\* Every client has at least one retry.
LEMMA RetryFacts ==
    ASSUME NEW w \in Settings
    PROVE  maxRetries(w) \in Nat /\ maxRetries(w) >= 1
BY WebhookAssumption DEF maxRetries

\* A payload that has not been POSTed.
LEMMA BlankFacts ==
    /\ NoPost \in Payload /\ NoPost.st = "idle" /\ NoPost.attempt = 0
    /\ \A c \in Settings \cup {Nil} : NoPost.tried[c] = 0
BY DEF NoPost, NoTries, Payload

\* Before initWebhook nothing is installed and nothing is sent.
LEMMA HookInit == Init => HookInv
<1> SUFFICES ASSUME Init PROVE HookInv
  OBVIOUS
<1>1. /\ NoPost \in Payload /\ NoPost.st = "idle"
      /\ \A c \in Settings \cup {Nil} : NoPost.tried[c] = 0
  BY BlankFacts
<1>2. TypeOK
  <2>1. reloaded \in BOOLEAN
    BY DEF Init
  <2>2. post \in Payload /\ pc = "boot"
    BY <1>1 DEF Init
  <2>3. remote \in Settings /\ fetched \in Settings /\ last = Nil /\ active = Nil
    BY WebhookAssumption DEF Init
  <2>4. sends \in 0..MaxSends /\ edits \in 0..MaxEdits /\ fails \in 0..MaxFails
    BY WebhookAssumption DEF Init
  <2> QED
    BY <2>1, <2>2, <2>3, <2>4 DEF TypeOK
<1>3. SentInv /\ GivenUpLast
  BY <1>1 DEF Init, SentInv, GivenUpLast
<1>4. TickInv /\ ComparesWithActive
  <2>1. ~reloaded
    BY DEF Init
  <2>2. pc = "boot"
    BY DEF Init
  <2> QED
    BY <2>1, <2>2 DEF TickInv, ComparesWithActive
<1> QED
  BY <1>2, <1>3, <1>4 DEF HookInv

\* What currentWebhookSettings returns.
LEMMA SettingsFacts ==
    ASSUME TypeOK, NEW s, currentWebhookSettings(s)
    PROVE  s \in Settings /\ fails' \in 0..MaxFails
BY WebhookAssumption DEF TypeOK, currentWebhookSettings

\* Somebody edits the registry.
LEMMA EditKeeps ==
    ASSUME HookInv, Edit
    PROVE  HookInv'
BY WebhookAssumption DEF HookInv, TypeOK, SentInv, TickInv, ComparesWithActive, GivenUpLast,
       Edit, refresh

\* A step of initWebhook or of the refresher: the refresher's first fetch comes
\* before its first tick, so it can only set what nobody has compared with yet.
LEMMA RefreshKeeps ==
    ASSUME HookInv, RefreshStep
    PROVE  HookInv'
<1>1. TypeOK /\ SentInv /\ TickInv /\ ComparesWithActive /\ GivenUpLast
  BY DEF HookInv
<1>2. UNCHANGED <<remote, post, sends, edits>>
  BY DEF RefreshStep, Fetch, initWebhook, RefresherStart, Reload
<1>3. SentInv' /\ GivenUpLast'
  BY <1>1, <1>2 DEF SentInv, GivenUpLast
<1>4. CASE Fetch
  <2>1. fetched' \in Settings /\ fails' \in 0..MaxFails
    BY <1>1, <1>4, SettingsFacts DEF Fetch
  <2>2. TypeOK'
    BY <1>1, <1>2, <1>4, <2>1 DEF Fetch, TypeOK
  <2>3. TickInv' /\ ComparesWithActive'
    BY <1>1, <1>4 DEF Fetch, TickInv, ComparesWithActive
  <2> QED
    BY <1>3, <2>2, <2>3 DEF HookInv
<1>5. CASE initWebhook
  <2>1. TypeOK'
    BY <1>1, <1>2, <1>5, ClientFacts DEF initWebhook, TypeOK
  <2>2. TickInv' /\ ComparesWithActive'
    BY <1>1, <1>5 DEF initWebhook, TickInv, ComparesWithActive
  <2> QED
    BY <1>3, <2>1, <2>2 DEF HookInv
<1>6. CASE RefresherStart
  <2>1. last' \in Settings /\ fails' \in 0..MaxFails
    BY <1>1, <1>6, SettingsFacts DEF RefresherStart
  <2>2. TypeOK'
    BY <1>1, <1>2, <1>6, <2>1 DEF RefresherStart, TypeOK
  <2>3. TickInv' /\ ComparesWithActive'
    BY <1>1, <1>6, <2>1, WebhookAssumption DEF RefresherStart, TickInv, ComparesWithActive
  <2> QED
    BY <1>3, <2>2, <2>3 DEF HookInv
<1>7. CASE Reload
  <2>1. TypeOK'
    <3>1. reloaded' \in BOOLEAN
      BY <1>1, <1>7 DEF Reload, TypeOK
    <3>2. last' \in Settings \cup {Nil} /\ active' \in (Settings \ Disabled) \cup {Nil}
      <4>1. CASE fetched = last
        BY <1>1, <1>7, <4>1 DEF Reload, TypeOK
      <4>2. CASE fetched # last
        BY <1>1, <1>7, <4>2, ClientFacts DEF Reload, TypeOK
      <4> QED
        BY <4>1, <4>2
    <3>3. pc' = "wait" /\ UNCHANGED <<fetched, fails>>
      BY <1>7 DEF Reload
    <3> QED
      BY <1>1, <1>2, <3>1, <3>2, <3>3 DEF TypeOK
  <2>2. TickInv'
    <3>1. pc' = "wait" /\ last # Nil /\ fetched # Nil
      BY <1>1, <1>7, WebhookAssumption DEF Reload, TickInv, TypeOK
    <3>2. last' \in {last, fetched}
      BY <1>7 DEF Reload
    <3>3. last' # Nil
      BY <3>1, <3>2
    <3> QED
      BY <3>1, <3>3 DEF TickInv
  <2>3. ComparesWithActive'
    BY <1>1, <1>7 DEF Reload, ComparesWithActive
  <2> QED
    BY <1>3, <2>1, <2>2, <2>3 DEF HookInv
<1> QED
  BY <1>4, <1>5, <1>6, <1>7 DEF RefreshStep

\* A payload begins with the client that is active now, or is dropped.
LEMMA SendKeeps ==
    ASSUME HookInv, Send
    PROVE  HookInv'
<1> DEFINE w == [NoPost EXCEPT !.client = active,
                               !.st = IF active = Nil THEN "dropped" ELSE "trying"]
<1>1. TypeOK /\ TickInv /\ ComparesWithActive
  BY DEF HookInv
<1>2. /\ w \in Payload /\ w.client = active /\ w.attempt = 0 /\ w.tried = NoPost.tried
      /\ w.st = IF active = Nil THEN "dropped" ELSE "trying"
  BY <1>1, BlankFacts DEF Payload, TypeOK
<1>3. post' = w /\ sends' \in 0..MaxSends /\ UNCHANGED <<remote, refresh, edits, fails>>
  BY <1>1, WebhookAssumption DEF Send, TypeOK
<1> HIDE DEF w
<1>4. TypeOK' /\ TickInv' /\ ComparesWithActive'
  BY <1>1, <1>2, <1>3 DEF TypeOK, TickInv, ComparesWithActive, refresh
<1>5. \A c \in Settings \cup {Nil} : w.tried[c] = 0
  BY <1>2, BlankFacts
<1>6. GivenUpLast'
  BY <1>2, <1>3, <1>5 DEF GivenUpLast
<1>7. SentInv'
  <2> SUFFICES ASSUME w.st = "trying"
               PROVE  w.client # Nil /\ w.attempt <= maxRetries(w.client) /\ w.tried[w.client] = w.attempt
    BY <1>3 DEF SentInv
  <2>1. w.client # Nil /\ w.client \in Settings
    BY <1>1, <1>2 DEF TypeOK
  <2> QED
    BY <1>2, <1>5, <2>1, RetryFacts
<1> QED
  BY <1>4, <1>6, <1>7 DEF HookInv

\* One attempt: it is the client's, and the payload is given up only by the attempt
\* after the last retry.
LEMMA AttemptKeeps ==
    ASSUME HookInv, Attempt
    PROVE  HookInv'
<1> DEFINE w == post.client
           n == post.attempt
           posted == [post EXCEPT !.tried[Receiver] = @ + 1]
<1>1. /\ TypeOK /\ TickInv /\ ComparesWithActive /\ GivenUpLast /\ SentInv
      /\ post \in Payload /\ post.st = "trying"
  BY DEF HookInv, TypeOK, Attempt
<1>2. /\ w \in Settings /\ n \in Nat /\ n <= maxRetries(w)
      /\ post.tried \in [Settings \cup {Nil} -> Nat]
      /\ post.tried[w] = n
      /\ \A c \in Settings \cup {Nil} : c # w => post.tried[c] = 0
  BY <1>1 DEF SentInv, GivenUpLast, Payload
<1>3. maxRetries(w) \in Nat
  BY <1>2, RetryFacts
<1>4. /\ posted \in Payload /\ posted.client = w /\ posted.attempt = n /\ posted.st = "trying"
      /\ posted.tried[w] = n + 1
      /\ \A c \in Settings \cup {Nil} : c # w => posted.tried[c] = 0
  <2> DEFINE t == [post.tried EXCEPT ![w] = @ + 1]
  <2>1. /\ t \in [Settings \cup {Nil} -> Nat] /\ t[w] = n + 1
        /\ \A c \in Settings \cup {Nil} : c # w => t[c] = 0
    BY <1>2
  <2>2. posted = [post EXCEPT !.tried = t]
    BY <1>1 DEF Receiver, Payload
  <2> HIDE DEF t, posted
  <2> QED
    BY <1>1, <2>1, <2>2 DEF Payload
<1>5. /\ \/ post' = [posted EXCEPT !.st = "sent"]
         \/ n < maxRetries(w) /\ post' = [posted EXCEPT !.attempt = @ + 1]
         \/ n = maxRetries(w) /\ post' = [posted EXCEPT !.st = "failed"]
      /\ UNCHANGED <<remote, refresh, sends, edits, fails>>
  BY DEF Attempt
<1> HIDE DEF posted, w, n
<1>6. /\ post' \in Payload /\ post'.client = w /\ post'.tried = posted.tried
      /\ \/ post'.st = "sent"
         \/ post'.st = "trying" /\ n < maxRetries(w) /\ post'.attempt = n + 1
         \/ post'.st = "failed" /\ n = maxRetries(w)
  BY <1>2, <1>4, <1>5 DEF Payload
<1>7. TypeOK' /\ TickInv' /\ ComparesWithActive'
  BY <1>1, <1>5, <1>6 DEF TypeOK, TickInv, ComparesWithActive, refresh
<1>8. w # Nil
  BY <1>1 DEF SentInv, w
<1>9. SentInv' /\ GivenUpLast'
  BY <1>2, <1>3, <1>4, <1>6, <1>8 DEF SentInv, GivenUpLast
<1> QED
  BY <1>7, <1>9 DEF HookInv

\* The invariant of the webhook, for any settings and any number of edits.
THEOREM HookInvariant == Spec => []HookInv
<1>1. HookInv /\ [Next]_vars => HookInv'
  <2> SUFFICES ASSUME HookInv, [Next]_vars PROVE HookInv'
    OBVIOUS
  <2>1. CASE UNCHANGED vars
    BY <2>1 DEF vars, HookInv, TypeOK, SentInv, TickInv, ComparesWithActive, GivenUpLast
  <2> QED
    BY <2>1, EditKeeps, RefreshKeeps, SendKeeps, AttemptKeeps DEF Next
<1> QED
  BY <1>1, HookInit, PTL DEF Spec

\* Type correctness of the refresher and of the payload being sent.
THEOREM HookTypeCorrect == Spec => []TypeOK
<1>1. HookInv => TypeOK
  BY DEF HookInv
<1> QED
  BY <1>1, HookInvariant, PTL

\* After its first reload the refresher compares with what is installed
\* (webhookRefresher): no edit is mistaken for the present settings.
THEOREM HookComparesWithActive == Spec => []ComparesWithActive
<1>1. HookInv => ComparesWithActive
  BY DEF HookInv
<1> QED
  BY <1>1, HookInvariant, PTL

\* Every attempt of a payload goes to the client its sending began with, it is given
\* up only after that client's first attempt and all its retries, and it is dropped
\* only for want of a client at the beginning (WebhookClient.sendPayload).
THEOREM HookGivenUpLast == Spec => []GivenUpLast
<1>1. HookInv => GivenUpLast
  BY DEF HookInv
<1> QED
  BY <1>1, HookInvariant, PTL
=============================================================================
