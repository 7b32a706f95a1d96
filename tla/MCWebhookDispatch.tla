-------------------------- MODULE MCWebhookDispatch -------------------------
(***************************************************************************)
(* An alert and a test message, a channel that one request changes, one    *)
(* fault.  Two retries with growing delays stand for the three of the code.*)
(***************************************************************************)
EXTENDS WebhookDispatch

Delays == <<1, 2>>

=============================================================================
