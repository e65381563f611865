----------------------------- MODULE MCCatalog -----------------------------
(* Instances of QueryCatalog for TLC. *)
EXTENDS QueryCatalog, TLC

CONSTANTS head, own, panel

Plain == [incl |-> {}, filter |-> FALSE]
Filter == [incl |-> {}, filter |-> TRUE]
Using(i) == [incl |-> {i}, filter |-> FALSE]

AsFragment(t) == [frag |-> TRUE, text |-> t, mode |-> "tenant"]
AsQuery(t, m) == [frag |-> FALSE, text |-> t, mode |-> m]

\* Two fragments that may include each other, and a query over either.
EditorBodies(i) ==
  CASE i = own -> {AsFragment(Plain), AsQuery(Plain, "global")}
    [] i = panel -> {AsQuery(Using(own), "global")}
    [] OTHER -> {}

EditorPatches(i) ==
  CASE i = head -> {[text |-> Using(own), mode |-> None]}
    [] i = own -> {[text |-> Using(head), mode |-> None]}
    [] OTHER -> {[text |-> None, mode |-> None], [text |-> Using(own), mode |-> None],
                 [text |-> Plain, mode |-> "global"]}

Unsaved == {Plain, Using(own)}

\* The first release ships a fragment and a query over it; the next one has the filter in
\* the query and drops the fragment.
ReleaseOne == (head :> AsFragment(Filter)) @@ (panel :> AsQuery(Using(head), "tenant"))
ReleaseTwo == panel :> AsQuery(Filter, "tenant")
Shipments == {ReleaseOne, ReleaseTwo}

Symmetry == Permutations(Editors)
====
