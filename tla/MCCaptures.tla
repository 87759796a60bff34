----------------------------- MODULE MCCaptures -----------------------------
EXTENDS Captures
CONSTANTS w, s

MCOthers == <<"SERVER">>
MCBackends == <<"COMPONENT">>
MCFiles == [x \in {"WORKER", "SERVER", "COMPONENT"} |->
              CASE x = "WORKER" -> <<w>> [] x = "SERVER" -> <<w, s>> [] x = "COMPONENT" -> <<s>>]
MCOrder == <<w, s>>
MCRow == [p \in {w, s} |-> <<1, 1>>]
=============================================================================
