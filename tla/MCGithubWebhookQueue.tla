------------------------ MODULE MCGithubWebhookQueue ------------------------
(* Model-checking instances of GithubWebhookQueue.                         *)
EXTENDS GithubWebhookQueue, TLC

\* Instances are interchangeable, and so are delivery ids.
Symmetry == Permutations(Workers) \union Permutations(Events)
=============================================================================
