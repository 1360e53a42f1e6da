----------------------------- MODULE MCDatabases -----------------------------
(***************************************************************************)
(* Two users, two trees.  Tables: a plain one, one with two entries for one*)
(* id, one whose second line is long, and one that names a user twice.     *)
(***************************************************************************)
EXTENDS Databases, TLC

Entry(u, i, ms, l) == [name |-> u, id |-> i, members |-> ms, long |-> l]

MCTables ==
  {<<Entry("a", 0, <<"b">>, FALSE), Entry("b", 1, <<"b">>, FALSE)>>,
   <<Entry("b", 1, <<>>, FALSE), Entry("a", 1, <<"b", "b">>, FALSE), Entry("b", 0, <<"a">>, FALSE)>>,
   <<Entry("a", 1, <<"b">>, FALSE), Entry("b", 0, <<"b">>, TRUE), Entry("a", 0, <<"b">>, FALSE)>>}

MCFirst == {t \in MCTables : \E i \in DOMAIN t : t[i].long}
=============================================================================
