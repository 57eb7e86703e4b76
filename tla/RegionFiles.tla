----------------------------- MODULE RegionFiles -----------------------------
(***************************************************************************)
(* What region storage promises its users: every file is absent, then has  *)
(* one content for ever.                                                   *)
(***************************************************************************)
CONSTANTS Files, Contents, NoFile

VARIABLE stored

Init == stored = [f \in Files |-> NoFile]

Write(f, x) ==
    /\ stored[f] = NoFile
    /\ stored' = [stored EXCEPT ![f] = x]

Next == \E f \in Files, x \in Contents : Write(f, x)

Spec == Init /\ [][Next]_stored

=============================================================================
