----------------------------- MODULE MCWebhook ------------------------------
(* Instances of WebhookService for TLC. *)
EXTENDS WebhookService, TLC

\* A job with an error URL is told from one without.
Symmetry == Permutations(ErrorUrls) \cup Permutations(Jobs \ ErrorUrls)
              \cup Permutations(Workers)
=============================================================================
