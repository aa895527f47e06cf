--------------------------- MODULE MCTopicMirror ---------------------------
(* Small instances of TopicMirror for TLC. *)
EXTENDS TopicMirror

CONSTANTS n1

\* An operator leaves the workspace out.
TypedBare == {<<n1, "bare">>}
=============================================================================
