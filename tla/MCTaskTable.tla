---------------------------- MODULE MCTaskTable ----------------------------
(* Instances of TaskTable for TLC. *)
EXTENDS TaskTable

\* As config.shape holds them.
SquareAndCircle == {Str("square"), Str("circle")}

=============================================================================
