----------------------------- MODULE MCGatePool -----------------------------
\* Small instances of GatePool: every event and every class of task types with
\* paths of each class, one deleted and one a correction record.
EXTENDS GatePool

MCPath(suffix) == [suffix |-> suffix, correction |-> FALSE, exists |-> TRUE]
MCPaths == {{}, {MCPath(".py"), MCPath(".md")}, {MCPath(".css")},
            {[MCPath(".md") EXCEPT !.exists = FALSE]}, {[MCPath(".md") EXCEPT !.correction = TRUE]}}
MCTypes == {{}, {"code-debug"}, {"rules-script"}, {"correction", "docs"}, {"multi-agent"}, {"long-running"}}

MCContexts ==
  {context \in [types : MCTypes, paths : MCPaths, final : BOOLEAN, event : Events,
                sized : BOOLEAN, web : {FALSE}] :
     context.sized = (context.types # {} \/ context.paths # {})}
MCSources == {{"task-id"}, {"task-tracking"}}
=============================================================================
