--------------------------- MODULE MCWorkerService ---------------------------
EXTENDS WorkerService

\* An active and a paused document; and one that selects the worker's log.
MCWebhook ==
  {[selects |-> Notifications, destination |-> "webhook"],
   [selects |-> {}, destination |-> "webhook"]}

MCDocuments ==
  MCWebhook \cup {[selects |-> Notifications, destination |-> LocalLog]}

Symmetry == Permutations(Notifications) \cup Permutations(Urls) \cup Permutations(Workers)
==============================================================================
