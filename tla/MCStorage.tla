------------------------------ MODULE MCStorage ------------------------------
(* Storage on a small instance: two providers, one model each.               *)
EXTENDS Storage

MCCatalog == [p \in Providers |-> IF p = "openrouter" THEN {"luna"} ELSE {"glm"}]
MCDefaultModel == [p \in Providers |-> IF p = "openrouter" THEN "luna" ELSE "glm"]
Change(enabled, provider, model) ==
  [enabled |-> enabled, provider |-> provider, model |-> model]
MCChanges ==
  {Change(TRUE, None, None), Change(None, "opencode_zen", None), Change(FALSE, None, "glm")}
Log(size) == [size |-> size, of |-> {0}]
MCFoundLogs == {[log |-> Log(LogLimit + 1), backup |-> Log(LogLimit + 1)]}
(* Settings with a table, and without a file; edits to a table with a model   *)
(* that is not the provider's, and to an inline table with one that is.      *)
MCFoundConfigs == {None, [DefaultConfig EXCEPT !.debug = TRUE, !.inline = FALSE]}
MCEdits == {[DefaultConfig EXCEPT !.model = "glm", !.fallback = TRUE, !.inline = FALSE],
            [DefaultConfig EXCEPT !.model = "luna", !.enabled = TRUE]}
===============================================================================
