----------------------------- MODULE MCRpcServer -----------------------------
(* Small instances of RpcServer for TLC. *)
EXTENDS RpcServer, TLC

CONSTANTS c1, c2, app, s1, s2, a, b

Msg(method, kind, name, id) == [method |-> method, kind |-> kind, name |-> name, id |-> id]

MCInit == Msg("initialize", "tools", NoName, TRUE)
MCInitNote == Msg("initialize", "tools", NoName, FALSE)
MCListTools == Msg("list", "tools", NoName, TRUE)
MCListResources == Msg("list", "resources", NoName, TRUE)
MCCallTool == Msg("call", "tools", a, TRUE)
MCCallNote == Msg("call", "tools", a, FALSE)
MCRead == Msg("call", "resources", a, TRUE)
MCBad == Msg("malformed", "tools", NoName, FALSE)
MCUnknown == Msg("unknown", "tools", NoName, TRUE)
MCInitialized == Msg("initialized", "tools", NoName, FALSE)
\* Template b matches the URI a.
MCMatches == {<<b, a>>}

\* What is registered; a tool may be registered twice.
MCPrimitives == {<<"tools", a>>, <<"tools", b>>, <<"resources", a>>, <<"templates", b>>}

\* Bodies that race to initialize, list and call, and batches that mix requests,
\* notifications, items that do not parse and handlers that register primitives.
MCBodies ==
  {<<>>, <<MCInit, MCListTools>>, <<MCInitNote>>, <<MCCallTool, MCListTools>>,
   <<MCBad, MCCallNote, MCRead>>, <<MCInitialized, MCUnknown, MCListResources>>}
=============================================================================
