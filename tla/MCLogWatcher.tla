---------------------------- MODULE MCLogWatcher ----------------------------
(* LogWatcher for TLC: the lines of a log and the inventories, as records. *)
EXTENDS LogWatcher

(* A file that is tidy, and one that the window has left with two spellings. *)
MCStarts ==
  {[accounts |-> <<[name |-> "foo", aliases |-> {"x"}]>>, characters |-> << >>, token |-> TRUE],
   [accounts |-> <<[name |-> "Foo", aliases |-> {"x"}], [name |-> "foo", aliases |-> {""}]>>,
    characters |-> << >>, token |-> FALSE]}

MCLower ==
  [n \in {"foo", "Foo", "x", "X", "c1", "s", "", "none"} |->
     CASE n = "Foo" -> "foo" [] n = "X" -> "x" [] OTHER -> n]

Line(kind, value) == [kind |-> kind, value |-> value]

MCLogLines ==
  {Line("entered", "z1"), Line("who_zone", "z2"), Line("bind_confirm", "none"), Line("who_self", "v")}

Row(name, count, readable) == [name |-> name, count |-> count, readable |-> readable]

(* Two stacks of one item, one count that cannot be read, one without counts. *)
MCDumps ==
  {[nameColumn |-> TRUE, countColumn |-> TRUE,
    rows |-> <<Row("mb3", 2, TRUE), Row("neck", 1, TRUE), Row("mb3", 4, TRUE), Row("mb4", 9, FALSE)>>]}

=============================================================================
