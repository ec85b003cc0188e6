----------------------------- MODULE MCEventFeed -----------------------------
(***************************************************************************)
(* Bounded instances of EventFeed: a race for the loop's wake, a failing   *)
(* pass beside a stream, streams that retire each other, and retention.    *)
(***************************************************************************)
EXTENDS EventFeed

Nothing == [events |-> 0, hints |-> 0, others |-> 0, prunes |-> 0, errors |-> 0,
            opens |-> 0, ends |-> 0]

MCBudgets == {[Nothing EXCEPT !.events = 1, !.hints = 2, !.others = 1],
              [Nothing EXCEPT !.hints = 3],
              [Nothing EXCEPT !.events = 2, !.errors = 1, !.opens = 1],
              [Nothing EXCEPT !.events = 1, !.opens = 3, !.ends = 1],
              [Nothing EXCEPT !.events = 1, !.opens = 2, !.prunes = 1]}

=============================================================================
