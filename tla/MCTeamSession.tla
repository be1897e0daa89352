---------------------------- MODULE MCTeamSession ----------------------------
(* Two queries that may overlap: the first may delegate once, in an action  *)
(* of two calls; the second, with the tools edited away between             *)
(* them, only answers.  The worker has one plain tool.                      *)
EXTENDS TeamSession

MCOrchActions == {<<"delegate", "delegate_too">>}
MCWorkerActions == {<<"clock">>}
MCMaxWorkers == <<1, 0>>
MCOrchSteps == <<1, 1>>
==============================================================================
