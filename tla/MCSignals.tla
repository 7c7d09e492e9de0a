------------------------------ MODULE MCSignals ------------------------------
(***************************************************************************)
(* Instances of Signals: one subject of any kind, or two, seen by the      *)
(* daemon and by one request or command at a time besides.                 *)
(***************************************************************************)
EXTENDS Signals

CONSTANTS daemon, caller, s1, s2

callers == {caller}

jobs == {"operational", "memory", "sync"}
calls == [a \in {daemon, caller} |-> IF a = daemon THEN jobs ELSE {"memory", "webhook"}]

subjects == {s1, s2}

alone == [{s1} -> Kind]
together == {[s \in subjects |-> IF s = s1 THEN "client" ELSE "run"]}
worlds == alone \cup together

once == [k \in Kind |-> IF k \in {"content", "project"} THEN 2 ELSE 1]

allActions == {"start_triage_runs", "draft_replies", "draft_content"}
policies == {allActions, allActions \ {"draft_replies"}}
=============================================================================
