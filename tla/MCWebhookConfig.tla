-------------------------- MODULE MCWebhookConfig --------------------------
(***************************************************************************)
(* Small instances of WebhookConfig: two webhooks and the disabled one.    *)
(***************************************************************************)
EXTENDS WebhookConfig

Hooks == {"chat", "pager", "off"}
Off == {"off"}

\* A webhook with two retries and one with a single one; none that asks for retries.
HookRetries == [s \in Hooks |-> IF s = "chat" THEN 2 ELSE 1]
NoRetries == [s \in Hooks |-> 0]
=============================================================================
