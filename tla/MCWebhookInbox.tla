--------------------------- MODULE MCWebhookInbox ---------------------------
(***************************************************************************)
(* Small instances of WebhookInbox for TLC.                                *)
(***************************************************************************)
EXTENDS WebhookInbox

CONSTANTS w1, w2, l1, l2, l3, e1

MCOneEvent == {e1}
MCTwoWorkers == {w1, w2}
MCThreeLeases == {l1, l2, l3}
=============================================================================
