------------------------ MODULE MC_RealtimeProfiles ------------------------
(* Small instances of RealtimeProfiles; the bounds of each are in its .cfg.  *)
EXTENDS RealtimeProfiles

\* Every trip is known to the first feed.
FirstFeed == [t \in Trips |-> 1]
============================================================================
