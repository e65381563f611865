------------------------------ MODULE ToolProxy ------------------------------
(***************************************************************************)
(* The authorization proxy (assistant/proxy.py, policy.py, watchfloor.py)  *)
(* as a question of the assistant uses it: the caller's labels and the     *)
(* tools offered are resolved once, then each call the model makes is      *)
(* decided and run, while managers rename tenants and edit the role        *)
(* matrix, and SOAR moves cases from one label to another.                 *)
(***************************************************************************)
EXTENDS FiniteSets, Naturals

CONSTANTS
  Questions,  \* questions that can be in flight together
  Callers,    \* who asks: role and ids (allowed_customer_ids), as the question found them
  RoleTools,  \* ROLE_TOOLS: the SOAR tools of each role
  Tenants, Labels, Cases,
  Ids,        \* ways the model may write a case's id
  Number,     \* what int() makes of one, or None
  Reads,      \* what the bridge would make of it
  MaxCalls,   \* bound on the tool calls
  MaxEdits,   \* bound on the edits of tenants, cases and the matrix
  None

ByLabel == "soar_list_containers"       \* LABEL_LIST_TOOLS
Record == "soar_get_container"
ById == {Record, "soar_list_notes"}     \* CONTAINER_ID_TOOLS
Unresolvable == "soar_get_artifact"     \* SCOPE_UNRESOLVABLE
Checked == {ByLabel, Unresolvable} \cup ById   \* what run looks at; it passes the others through
RunSpl == "watchfloor_run_spl"
Own == {RunSpl, "watchfloor_tenants"}   \* TOOL_DEFS
Tools == Own \cup UNION {RoleTools[r] : r \in DOMAIN RoleTools}
OverTenants == {"cross_tenant", "run_adhoc_queries"}

\* What the proofs ask of the constants.  The bridge reads a case's own id as that case.
ConstantsOK ==
  /\ \A who \in Callers : who.role \in DOMAIN RoleTools
  /\ \A role \in DOMAIN RoleTools : RoleTools[role] \cap Own = {}
  /\ Number \in [Ids -> Cases \cup {None}]
  /\ \A c \in Cases \cap Ids : Reads[c] = c
  /\ None \notin Labels \cup {"scope", "role"}

VARIABLES
  caps,       \* which of OverTenants each role has now
  label,      \* label of each tenant, archived or not
  case,       \* in SOAR: the label of each case, or None
  catalogue,  \* whether _catalogue is filled
  turn,       \* what each question is doing, and the outcome of its last call
  calls, edits,   \* counters, for the bounds
  since       \* history: what has been so at some time, or all the time, since it began,
              \* and whether its last call failed in SOAR

vars == <<caps, label, case, catalogue, turn, calls, edits, since>>

Free == [pc |-> "free", who |-> CHOOSE w \in Callers : TRUE, labels |-> None, offered |-> {},
         tool |-> None, arg |-> None, mine |-> {}, shown |-> {}, refused |-> None]
Nothing == [labels |-> {}, under |-> {}, held |-> {}, all |-> FALSE, edited |-> FALSE,
            failed |-> FALSE]

AllTenants(who) == "cross_tenant" \in caps[who.role] /\ who.ids = {}
CanRunAdhoc(who) == "run_adhoc_queries" \in caps[who.role] /\ AllTenants(who)
ScopeLabels(who) == {label[t] : t \in who.ids}
Under == {<<c, case[c]>> : c \in Cases}
InReach(who) == {p \in Under : p[2] \in ScopeLabels(who)}

Init ==
  /\ caps \in [DOMAIN RoleTools -> SUBSET OverTenants]
  /\ label \in [Tenants -> Labels] /\ case \in [Cases -> Labels]
  /\ catalogue = FALSE /\ turn = [q \in Questions |-> Free]
  /\ calls = 0 /\ edits = 0 /\ since = [q \in Questions |-> Nothing]

----------------------------------------------------------------------------
(* A question begins. *)

Be(q, r) == turn' = [turn EXCEPT ![q] = r]
World == UNCHANGED <<caps, label, case, edits>>

Begin(q, who) ==
  /\ turn[q].pc = "free"
  /\ Be(q, [Free EXCEPT !.pc = IF AllTenants(who) THEN "offer" ELSE "labels", !.who = who])
  /\ since' = [since EXCEPT ![q] = [labels |-> ScopeLabels(who), under |-> Under, held |-> InReach(who),
                                    all |-> AllTenants(who), edited |-> FALSE, failed |-> FALSE]]
  /\ UNCHANGED <<catalogue, calls>> /\ World

ReadLabels(q) ==
  /\ turn[q].pc = "labels"
  /\ Be(q, [turn[q] EXCEPT !.pc = "offer", !.labels = ScopeLabels(turn[q].who)])
  /\ UNCHANGED <<catalogue, calls, since>> /\ World

\* tools_for: with the bridge down only Watchfloor's own tools are offered.
Offer(q) ==
  LET who == turn[q].who
      soar == RoleTools[who.role] \ (IF AllTenants(who) THEN {} ELSE {Unresolvable})
      own == IF CanRunAdhoc(who) THEN Own ELSE Own \ {RunSpl} IN
  /\ turn[q].pc = "offer"
  /\ \E up \in {TRUE, catalogue} :
       /\ catalogue' = up
       /\ Be(q, [turn[q] EXCEPT !.pc = "model", !.offered = own \cup (IF up THEN soar ELSE {})])
  /\ UNCHANGED <<calls, since>> /\ World

----------------------------------------------------------------------------
(* A call: execute, run. *)

Refused(r, kind) == [r EXCEPT !.pc = "model", !.shown = {}, !.refused = kind]
Shows(r, cases) == [r EXCEPT !.pc = "model", !.shown = cases, !.refused = None]

\* run, once the caller's labels are known.
Decided(r) ==
  CASE r.tool = Unresolvable -> Refused(r, "scope")
    [] r.tool = ByLabel /\ r.arg \notin Labels -> Refused(r, "args")
    [] r.tool = ByLabel /\ r.arg \in Labels \ r.mine -> Refused(r, "scope")
    [] r.tool \in ById /\ Number[r.arg] = None -> Refused(r, "args")
    [] r.tool \in ById /\ Number[r.arg] # None -> [r EXCEPT !.pc = "check", !.arg = Number[@]]
    [] OTHER -> [r EXCEPT !.pc = "last"]

Args(tool) == CASE tool = ByLabel -> Labels \cup {None} [] tool \in ById -> Ids [] OTHER -> {None}

\* The model may call any tool, offered or not.  Watchfloor's own run as the dashboards
\* do (QueryRuns) and read nothing from SOAR; any of their errors is a refusal.
Call(q, tool, arg) ==
  LET r == [turn[q] EXCEPT !.tool = tool, !.arg = arg,
                           !.mine = IF turn[q].labels = None THEN {} ELSE turn[q].labels] IN
  /\ turn[q].pc = "model" /\ calls < MaxCalls /\ calls' = calls + 1
  /\ IF tool \in Own
     THEN /\ \E kind \in IF tool = RunSpl /\ ~CanRunAdhoc(r.who) THEN {"role"}
                         ELSE {None, "scope", "args", "exec"} : Be(q, Refused(r, kind))
          /\ UNCHANGED catalogue
     ELSE /\ catalogue' = TRUE
          /\ Be(q, CASE tool \notin RoleTools[r.who.role] -> Refused(r, "role")
                     [] tool \in RoleTools[r.who.role] /\ AllTenants(r.who) -> [r EXCEPT !.pc = "last"]
                     [] tool \in RoleTools[r.who.role] /\ ~AllTenants(r.who) /\ r.labels = None ->
                          [r EXCEPT !.pc = "scope"]
                     [] OTHER -> Decided(r))
  /\ since' = [since EXCEPT ![q].failed = FALSE] /\ World

\* A caller of all tenants when the question began, who is not any more.
ReadScope(q) ==
  /\ turn[q].pc = "scope"
  /\ Be(q, Decided([turn[q] EXCEPT !.mine = ScopeLabels(turn[q].who)]))
  /\ UNCHANGED <<catalogue, calls, since>> /\ World

CheckCase_KeepsWriting(q) ==
  LET r == turn[q] IN
  /\ r.pc = "check"
  /\ IF case[r.arg] \in r.mine
     THEN \E i \in {x \in Ids : Number[x] = r.arg} : Be(q, [r EXCEPT !.pc = "last", !.arg = i])
     ELSE Be(q, Refused(r, "scope"))
  /\ UNCHANGED <<catalogue, calls, since>> /\ World

\* The record is read and its label compared; with as_json the record is the answer.
CheckCase(q) ==
  LET r == turn[q] IN
  /\ r.pc = "check"
  /\ IF case[r.arg] \in r.mine
     THEN \/ Be(q, [r EXCEPT !.pc = "last"])
          \/ r.tool = Record /\ Be(q, Shows(r, {r.arg}))
     ELSE Be(q, Refused(r, "scope"))
  /\ UNCHANGED <<catalogue, calls, since>> /\ World

\* _bridge_call, with the arguments as they are by now.  What a tool that is not checked
\* tells of is up to SOAR: the runs of actions and playbooks, or a raw GET, of any case.
Last(q) ==
  LET r == turn[q]
      id == IF r.arg \in Ids THEN Reads[r.arg] ELSE r.arg
      there == {c \in Cases : case[c] # None} IN
  /\ r.pc = "last"
  /\ \/ r.tool \in ById /\ Be(q, Shows(r, there \cap {id}))
     \/ r.tool = ByLabel /\ Be(q, Shows(r, {c \in there : r.arg \in {None, case[c]}}))
     \/ r.tool = Unresolvable /\ Be(q, Shows(r, there))
     \/ r.tool \notin Checked /\ \E some \in SUBSET there : Be(q, Shows(r, some))
  /\ UNCHANGED <<catalogue, calls, since>> /\ World

\* The bridge answers with an error.
BridgeFails(q) ==
  /\ turn[q].pc \in {"check", "last"} /\ Be(q, Refused(turn[q], "exec"))
  /\ UNCHANGED <<catalogue, calls, since>> /\ World

\* The tool fails and the bridge says so: no record counts as no case in scope, and the
\* text of the failure is an answer.
ToolFails(q) ==
  /\ \/ turn[q].pc = "check" /\ Be(q, Refused(turn[q], "scope"))
     \/ turn[q].pc = "last" /\ Be(q, Shows(turn[q], {}))
  /\ since' = [since EXCEPT ![q].failed = TRUE]
  /\ UNCHANGED <<catalogue, calls>> /\ World

\* The model has its answer, the client leaves, or the bridge does not answer: nothing in
\* turn_events catches that, also where Call asks for the catalogue.
End(q) ==
  /\ turn[q].pc # "free"
  /\ Be(q, Free) /\ since' = [since EXCEPT ![q] = Nothing]
  /\ UNCHANGED <<catalogue, calls>> /\ World

----------------------------------------------------------------------------
(* Around the questions. *)

Edit == edits < MaxEdits /\ edits' = edits + 1 /\ UNCHANGED <<catalogue, turn, calls>>

Witnessed ==
  since' = [q \in Questions |->
    LET who == turn[q].who  h == since[q] IN
    IF turn[q].pc = "free" THEN h
    ELSE [labels |-> h.labels \cup ScopeLabels(who)', under |-> h.under \cup Under',
          held |-> h.held \cap InReach(who)', all |-> h.all \/ AllTenants(who)',
          edited |-> h.edited \/ caps' # caps, failed |-> h.failed]]

\* update_tenant.
SetLabel(t, l) ==
  /\ Edit /\ l # label[t] /\ label' = [label EXCEPT ![t] = l]
  /\ UNCHANGED <<caps, case>> /\ Witnessed

\* set_role, as far as it says who sees every tenant.
SetCaps(role, some) ==
  /\ Edit /\ some # caps[role] /\ caps' = [caps EXCEPT ![role] = some]
  /\ UNCHANGED <<label, case>> /\ Witnessed

\* Somebody moves a case to another label, or deletes it.
MoveCase(c, l) ==
  /\ Edit /\ l # case[c] /\ case' = [case EXCEPT ![c] = l]
  /\ UNCHANGED <<caps, label>> /\ Witnessed

Next ==
  \/ \E q \in Questions :
       \/ \E who \in Callers : Begin(q, who)
       \/ ReadLabels(q) \/ Offer(q) \/ End(q)
       \/ \E tool \in Tools : \E arg \in Args(tool) : Call(q, tool, arg)
       \/ ReadScope(q) \/ CheckCase(q) \/ Last(q) \/ BridgeFails(q) \/ ToolFails(q)
  \/ \E t \in Tenants, l \in Labels : SetLabel(t, l)
  \/ \E role \in DOMAIN RoleTools, some \in SUBSET OverTenants : SetCaps(role, some)
  \/ \E c \in Cases, l \in Labels \cup {None} : MoveCase(c, l)

Spec == Init /\ [][Next]_vars

----------------------------------------------------------------------------
\* However the ids are written and whatever is renamed, moved and edited between the
\* steps of a question: of a tool run checks, a scoped caller is shown a case only if it
\* was, at some time since the question began, under a label his tenants had since then;
\* he is not told that a case of his all along is outside his scope, unless the lookup
\* failed; and a tool offered to him is not refused as a tool unless the matrix was edited.
ScopeIsExact ==
  \A q \in Questions :
    LET r == turn[q]  h == since[q] IN
    r.pc = "model" /\ r.tool # None =>
      /\ h.all \/ r.tool \notin Checked \/ \A c \in r.shown : \E l \in h.labels : <<c, l>> \in h.under
      /\ r.refused = "scope" /\ r.tool \in ById /\ ~h.failed => \A l \in Labels : <<r.arg, l>> \notin h.held
      /\ r.tool \in r.offered /\ (r.refused = "role" \/ (r.refused = "scope" /\ r.tool = Unresolvable))
           => h.edited

\* "tenant (customer-label) scope is enforced server-side" (proxy.py:7), of every tool: the
\* same of those that are "non-tenant tools (discovery, metadata)" (proxy.py:180) to run.
EveryToolIsScoped ==
  \A q \in Questions :
    turn[q].pc = "model" /\ ~since[q].all =>
      \A c \in turn[q].shown : \E l \in since[q].labels : <<c, l>> \in since[q].under
=============================================================================
