-------------------------- MODULE DetectionDataset --------------------------
(***************************************************************************)
(* mcp-detection/adapter.py: the detection dataset of the portal, made of  *)
(* the exported rules, for the tenants a caller may see.                   *)
(*                                                                         *)
(* An exported rule is a record: customer, src, name, state ("on", "off",  *)
(* "zero" for the text "0" in `disabled`, "unsaid" when the export says    *)
(* nothing of it), entries (pairs of a tactic and a technique), test and   *)
(* operational (what its name says).                                       *)
(***************************************************************************)
EXTENDS Integers, FiniteSets, FiniteSetsExt

CONSTANTS
  Tenants,     \* TENANTS, shown even when they have no rule
  TenantOf,    \* CUST: the tenant of a customer of the export
  Tactics,     \* the tactics of CANON; entries of others are not counted
  TopLevel     \* the top-level technique of a technique

\* `disabled` is taken for a boolean as Python does: the text "0" is true.
Enabled(r) == r.state \notin {"off", "zero"}

Mapped(r) == r.entries # {}

\* Test rules and operational ones are not detections, whatever they are mapped to.
Kind(r) ==
  CASE r.test -> "test"
    [] ~r.test /\ ~Mapped(r) /\ r.operational -> "operational"
    [] ~r.test /\ Mapped(r) -> "detection"
    [] OTHER -> "unmapped"

Flatten(combined) ==
  {[tenant |-> TenantOf[r.customer], src |-> r.src, name |-> r.name, enabled |-> Enabled(r),
    entries |-> r.entries, kind |-> Kind(r)] : r \in combined}

Of(rules, t) == {r \in rules : t = "all" \/ r.tenant = t}
Detections(rules, t) == {r \in Of(rules, t) : r.kind = "detection"}

\* The top-level techniques that some of the rules are mapped to, in a tactic.
Techniques(rules, tactic) ==
  {TopLevel[e[2]] : e \in {x \in UNION {r.entries : r \in rules} : x[1] = tactic}}

\* summarize: a technique is a phantom when only disabled rules are mapped to it.
Summary(rules, t) ==
  LET det == Detections(rules, t)
      on == {r \in det : r.enabled}
      cov == [x \in Tactics |-> Techniques(on, x)]
      phantom == [x \in Tactics |-> Techniques(det \ on, x) \ cov[x]]
      ofKind(k) == Cardinality({r \in Of(rules, t) : r.kind = k})
  IN [cov |-> [x \in Tactics |-> Cardinality(cov[x])],
      phantom |-> [x \in Tactics |-> Cardinality(phantom[x])],
      topCovered |-> Cardinality(UNION {{x} \X cov[x] : x \in Tactics}),
      topPhantom |-> Cardinality(UNION {{x} \X phantom[x] : x \in Tactics}),
      total |-> Cardinality(Of(rules, t)), detection |-> Cardinality(det),
      enabled |-> Cardinality(on), disabled |-> Cardinality(det \ on),
      unmapped |-> ofKind("unmapped"), operational |-> ofKind("operational"), test |-> ofKind("test")]

\* tech_detail: for each technique of a tactic, its rules, and whether all are disabled.
TechDetail(rules, t) ==
  [x \in Tactics |->
     {LET mine == {r \in Detections(rules, t) : k \in Techniques({r}, x)} IN
      [id |-> k, rules |-> {r.name : r \in mine}, phantom |-> \A r \in mine : ~r.enabled] :
        k \in Techniques(Detections(rules, t), x)}]

Dataset_RollUpOfAll(all, scope) ==
  LET rules == {r \in all : r.tenant \in scope}
      shown == (Tenants \cup {r.tenant : r \in all}) \cap scope
  IN [rules |-> rules, onboarded |-> {r.tenant : r \in rules},
      summary |-> [t \in {"all"} \cup shown |-> Summary(all, t)],
      tech |-> [t \in {"all"} \cup shown |-> TechDetail(rules, t)]]

\* dataset: everything, the roll-up under "all" too, is made of the scope's rules only.
Dataset(all, scope) ==
  LET rules == {r \in all : r.tenant \in scope}
      shown == (Tenants \cup {r.tenant : r \in all}) \cap scope
  IN [rules |-> rules, onboarded |-> {r.tenant : r \in rules},
      summary |-> [t \in {"all"} \cup shown |-> Summary(rules, t)],
      tech |-> [t \in {"all"} \cup shown |-> TechDetail(rules, t)]]

----------------------------------------------------------------------------

\* The two ways of counting agree, for every tenant and the roll-up: the phantoms of a
\* tactic are the techniques whose rules are all disabled, the others are covered, and
\* the tactics add up to the totals.
CountsAgree(d) ==
  \A t \in DOMAIN d.summary :
    LET s == d.summary[t]  tech == d.tech[t] IN
    /\ \A x \in Tactics :
         /\ s.cov[x] = Cardinality({k \in tech[x] : ~k.phantom})
         /\ s.phantom[x] = Cardinality({k \in tech[x] : k.phantom})
    /\ s.topCovered = MapThenSumSet(LAMBDA x : s.cov[x], Tactics)
    /\ s.topPhantom = MapThenSumSet(LAMBDA x : s.phantom[x], Tactics)
    /\ s.total = s.detection + s.unmapped + s.operational + s.test
    /\ s.detection = s.enabled + s.disabled

\* A caller with a scope is told what one would be told if the other tenants had no
\* rules at all, and nothing under the name of another tenant.
SeesOnly(rules, scope) ==
  LET d == Dataset(rules, scope) IN
  /\ d = Dataset({r \in rules : r.tenant \in scope}, scope)
  /\ DOMAIN d.summary \cup d.onboarded \subseteq scope \cup {"all"}
=============================================================================
