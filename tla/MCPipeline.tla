----------------------------- MODULE MCPipeline -----------------------------
(* An instance of ExportPipeline for TLC: a Splunk rule that shares a technique with a   *)
(* Falcon rule, two pages of rules by the author, a rule of another one whose file name  *)
(* collides with one of them, and a customer without Splunk.                             *)
EXTENDS ExportPipeline

Made(customer, src, name, file, mine, entries, test, operational) ==
  [customer |-> customer, src |-> src, name |-> name, file |-> file, mine |-> mine,
   entries |-> entries, test |-> test, operational |-> operational]

Some == <<Made("globex", "splunk", "logon", "logon", TRUE, {<<"TA1", "T1.1">>}, FALSE, FALSE),
          Made("globex", "falcon_edr", "dump", "dump", TRUE, {<<"TA1", "T1">>, <<"TA2", "T2">>}, FALSE, FALSE),
          Made("globex", "falcon_edr", "du/mp", "dump", FALSE, {<<"TA9", "T9">>}, FALSE, TRUE),
          Made("globex", "falcon_edr", "spray", "spray", TRUE, {<<"TA2", "T2">>}, TRUE, FALSE),
          Made("hooli", "falcon_edr", "beacon", "beacon", TRUE, {<<"TA2", "T2">>}, FALSE, FALSE)>>
Configured == [splunk |-> <<"globex">>, falcon_edr |-> <<"globex", "hooli">>]
Directories == <<<<"globex", "splunk">>, <<"globex", "falcon_edr">>, <<"hooli", "falcon_edr">>>>
Named == [globex |-> "umbrella_co", hooli |-> "hooli_media"]
Top == [x \in {"T1", "T1.1", "T2", "T9"} |-> IF x = "T1.1" THEN "T1" ELSE x]
=============================================================================
