--------------------------- MODULE MCProfilePurge ---------------------------
(***************************************************************************)
(* Two retired profiles under an excerpt of the registry with its own      *)
(* phases and read bounds: a child under its parent, the sessions, and the *)
(* token, revocation and family units.  A child unit probes one parent, so *)
(* a second parent with a child lies outside of its window.                *)
(***************************************************************************)
EXTENDS ProfilePurge

Unit(p, t, k, o, g, n) ==
    [phase |-> p, table |-> t, kind |-> k, of |-> o, guards |-> g, reads |-> n]

MCPlan == <<
    Unit(66, "saved_resource_entries", "delete", "saved_resources", {}, 38),
    Unit(66, "saved_resources", "delete", "", {"saved_resource_entries"}, 10),
    Unit(104, "playback_sessions", "delete", "", {}, 30),
    Unit(112, "tokens", "tokens", "families", {}, 56),
    Unit(112, "families", "revoke", "", {}, 3),
    Unit(112, "families", "revoked", "", {"tokens"}, 12)>>

MCTable == {MCPlan[i].table : i \in DOMAIN MCPlan}

\* A unit and the probe of its children walk one order.
Row(t, i) == [table |-> t, id |-> i, seen |-> i, of |-> 0, parent |-> ""]
ChildRow(t, i, p) == [Row(t, i) EXCEPT !.of = i, !.parent = p]

FirstRows == {Row("saved_resources", 1), Row("saved_resources", 2),
              ChildRow("saved_resource_entries", 1, "saved_resources"),
              ChildRow("saved_resource_entries", 2, "saved_resources"),
              Row("playback_sessions", 1),
              Row("families", 1), ChildRow("tokens", 1, "families")}

SecondRows == {Row("playback_sessions", 1)}

MCBudgets == {[late |-> 2, fails |-> 1, upgrades |-> 0],
              [late |-> 1, fails |-> 0, upgrades |-> 1]}

MCUniverse == [j \in {1, 2} |-> IF j = 1 THEN FirstRows ELSE SecondRows]

=============================================================================
