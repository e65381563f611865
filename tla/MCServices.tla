----------------------------- MODULE MCServices -----------------------------
(* Instances of Services for TLC.  The parts at rest start in one state.     *)
EXTENDS Services, TLC

OneName == {"sla"}
OneKind == {"chat of analysts"}

\* Two months; a column without a date, a short row and an empty one, codes out of order.
Mays == [header |-> <<"-", "5/30", "-", "5/31">>,
         rows |-> {<<"ann", "leave", "?", "00:00-08:00">>, <<"bob", "08:00-16:00">>, <<"">>}]
Junes == [header |-> <<"-", "5/31", "-", "6/1">>,
          rows |-> {<<"ann", "16:00-00:00", "x", "08:00-16:00">>, <<"bob", "00:00-08:00">>}]
Months == {Mays, Junes}
Dash == "-"
Codes == [x \in {"00:00-08:00", "08:00-16:00", "16:00-00:00", "leave"} |->
            CASE x = "00:00-08:00" -> "N" [] x = "08:00-16:00" -> "M"
              [] x = "16:00-00:00" -> "E" [] OTHER -> "L"]

\* Two tenants, each with a label; a caller of one, one of all, one of a role that has
\* few tools; an id the bridge would read otherwise.
Letters == {"a", "b"}
TwoCases == {"c1", "c2"}
Askers == {[role |-> "lead", ids |-> {"a"}], [role |-> "lead", ids |-> {}],
           [role |-> "l1", ids |-> {"a", "b"}]}
Toolbox == [lead |-> {"soar_list_containers", "soar_get_container", "soar_list_notes",
                      "soar_get_artifact", "soar_get_action_run"},
            l1 |-> {"soar_list_containers", "soar_get_container"}]
Writings == {"1", "1.", "one"}
Numbers == [x \in Writings |-> IF x = "one" THEN None ELSE "c1"]
Readings == [x \in Writings |-> IF x = "1" THEN "c1" ELSE "c2"]

InterchangeableThreads == Permutations(Threads)

MCInit ==
  /\ Init
  /\ part # "roster" => list = Mays
  /\ (\A t \in DOMAIN label : label[t] = t) /\ case["c1"] = "a" /\ case["c2"] = "b"
  /\ caps["l1"] = {} /\ caps["lead"] \in {{}, Proxy!OverTenants}
  /\ part # "proxy" => caps["lead"] = {}

MCSpec == MCInit /\ [][Next]_vars
=============================================================================
