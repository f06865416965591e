----------------------------- MODULE MCCallScenes -----------------------------
(* Two files, a free path and a link to the first; every request of one or  *)
(* two intents; grants that cover a file, a line of it, or nothing.        *)
EXTENDS Naturals, Sequences
MCAbsent == <<"absent">>
MCNoGrant == [cover |-> "none", lines |-> {}, of |-> MCAbsent]
MCNoHash == <<"no hash">>
MCPaths == {"a", "b", "n", "l"}
MCLinks == [p \in MCPaths |-> IF p = "l" THEN "a" ELSE p]
MCTree == [p \in MCPaths |-> IF p \in {"a", "b"} THEN <<"x", "y">> ELSE MCAbsent]
MCText(p, n, t) == [op |-> "text", path |-> p, line |-> n, from |-> IF n = 1 THEN "x" ELSE "y", text |-> t]
MCTopology(op, p, to) == [op |-> op, path |-> p, to |-> to, text |-> <<"A">>]
MCIntents ==
  {MCText("a", 1, "t"), MCText("a", 2, "u"), MCText("b", 1, "t"), MCText("l", 2, "u"), MCText("n", 0, "v"), MCText("n", 0, "w"), MCText("n", 1, "v")}
  \cup {MCTopology("add", "n", "n"), MCTopology("add", "a", "a"), MCTopology("add", "b", "b"), MCTopology("delete", "a", "a"), MCTopology("delete", "b", "b"),
        MCTopology("delete", "l", "l"), MCTopology("rename", "a", "n"), MCTopology("rename", "b", "n"), MCTopology("rename", "l", "n"),
        MCTopology("rename", "a", "b")}
MCRequests == {<<i>> : i \in MCIntents} \cup {is \in {<<i, j>> : i, j \in MCIntents} : is[1] # is[2]}
MCGrant(cover, ls, of) == [cover |-> cover, lines |-> ls, of |-> of]
MCFull == MCGrant("full", {1, 2}, <<"x", "y">>)
MCRange == MCGrant("range", {1}, <<"x", "y">>)
MCGrants == {MCFull, MCRange, MCGrant("full", {1, 2}, <<"x", "z">>), MCGrant("weak", {}, MCNoHash), MCGrant("range", {1, 2}, MCNoHash)}
MCHeld(a, b) == [p \in MCPaths |-> IF p = "a" THEN a ELSE IF p = "b" THEN b ELSE MCNoGrant]
MCScene(is, ref, prior, served) == [intents |-> is, byRef |-> ref, prior |-> prior, served |-> served]
MCScenes ==
  {MCScene(is, FALSE, MCHeld(g, MCFull), MCHeld(MCNoGrant, MCNoGrant)) : is \in MCRequests, g \in {MCFull, MCRange}}
  \cup {MCScene(<<i>>, ref, MCHeld(g, MCNoGrant), MCHeld(h, MCFull)) :
          i \in MCIntents, ref \in BOOLEAN, g \in {MCNoGrant, MCFull}, h \in MCGrants}
MCOthers == {MCAbsent, <<"x", "f">>}
===============================================================================
