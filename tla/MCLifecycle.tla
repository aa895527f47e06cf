---------------------------- MODULE MCLifecycle ----------------------------
(* A small instance of Lifecycle for TLC. *)
EXTENDS Lifecycle

\* Two actions race for the pid file, or one runs and operators use the panel
\* of a daemon whose options.json may be edited: the two share nothing but the
\* daemon processes.
OneConcern ==
  (\A a \in Actors : act[a] # Idle) => panels = 0 /\ options.values = Default

=============================================================================
