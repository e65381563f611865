----------------------------- MODULE MCHistory -----------------------------
(* Instances of ChatHistory for TLC. *)
EXTENDS ChatHistory, TLC

CONSTANTS a, b

\* One tenant, two, or the scope of a cross-tenant role.
Scopes3 == {{a}, {a, b}, {All}}

Symmetry == Permutations(Requests) \cup Permutations(Chats)
====
