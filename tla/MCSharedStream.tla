--------------------------- MODULE MCSharedStream ---------------------------
(***************************************************************************)
(* Bounded instances of SharedStream: two windows, with one kind of        *)
(* trouble in each behaviour.                                              *)
(***************************************************************************)
EXTENDS SharedStream

Nothing == [events |-> 0, prunes |-> 0, resyncs |-> 0, closes |-> 0, starts |-> 0, stops |-> 0,
            kills |-> 0, cuts |-> 0]

Two == [Nothing EXCEPT !.events = 1, !.starts = 2]

MCBudgets == {[Two EXCEPT !.events = 2, !.starts = 3, !.stops = 1],
              [Two EXCEPT !.events = 3, !.prunes = 1],
              [Two EXCEPT !.cuts = 2],
              [Two EXCEPT !.closes = 1, !.kills = 1],
              [Two EXCEPT !.resyncs = 1]}

=============================================================================
