---------------------------- MODULE MCRpcGenerate ----------------------------
(* Generate with every combination of options, failing steps and two       *)
(* invocations, so that a re-run meets the templates of the first.          *)
EXTENDS RpcGenerate

MCOptions == {"desc", "module", "versions", "makefile", "docker", "gitlab",
              "descdir", "ent"}

=============================================================================
