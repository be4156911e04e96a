----------------------------- MODULE MCRVizPanels -----------------------------
(* Four sessions, two models of sensors and two topics of each kind.           *)
EXTENDS RVizPanels

PairsOfPanels == {{"download", "services"}, {"services", "tables"}, {"services", "faults"},
                  {"faults", "status"}}

DownloadAlone == {{"download"}}

NodeRequests == {DownloadRequest(k) : k \in Downloads} \cup {CallRequest(k) : k \in 1..MaxCalls}

\* The first model's row is of a type the panel knows and the node reads differently in the
\* two services; the second's is of one only the status tab knows.
RowTypes == [row \in Tabs \X {"m1", "m2"} |-> IF row[2] = "m1" THEN "u16" ELSE "i32"]

HeaderKinds == [t \in {"h1", "h2"} |-> IF t = "h1" THEN "port_targetheader" ELSE "can_objectheader"]
=============================================================================
