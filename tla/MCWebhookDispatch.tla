------------------------- MODULE MCWebhookDispatch -------------------------
(***************************************************************************)
(* Bounded instances of WebhookDispatch, with one kind of trouble in each  *)
(* behaviour.                                                              *)
(***************************************************************************)
EXTENDS WebhookDispatch

One == [creates |-> 1, events |-> 0, tests |-> 0, changes |-> 0, transfers |-> 0,
        errors |-> 0, crashes |-> 0]

MCEdits == {{"url"}, {"secret"}, {"on"}, {"off"}, {"url", "events"},
            {"url", "events", "secret", "on"}}

MCBudgets == {[One EXCEPT !.creates = 2, !.events = 2],
              [One EXCEPT !.events = 3],
              [One EXCEPT !.events = 2, !.crashes = 1],
              [One EXCEPT !.events = 2, !.errors = 1],
              [One EXCEPT !.events = 1, !.tests = 1, !.changes = 2],
              [One EXCEPT !.tests = 1, !.changes = 3, !.transfers = 2]}

=============================================================================
