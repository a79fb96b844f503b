------------------------------ MODULE MCStores ------------------------------
(* Three rows on three days at most, in any order of their ids: a listing by  *)
(* pages of one row then ends a page inside a tie, and a row can arrive, be   *)
(* purged or be lost between two of its pages.                                *)
EXTENDS AdminStore

MCRecords ==
    {[team |-> "t1", user |-> "u1", provider |-> "p1", model |-> "m", action |-> "masked",
      cost |-> 2, masked |-> TRUE, shadow |-> FALSE,
      trace |-> <<[type |-> "email", sure |-> 85], [type |-> "name", sure |-> 55]>>],
     [team |-> "t2", user |-> "u1", provider |-> "p2", model |-> "m", action |-> "shadow",
      cost |-> 1, masked |-> TRUE, shadow |-> TRUE, trace |-> <<>>]}

MCRanges == {[unit |-> "h", n |-> 20]}
MCLoads == {<<3, 0, 0>>, <<2, 0, 1>>, <<1, 1, 0>>, <<0, 1, 1>>, <<0, 2, 0>>}

MCTeamOf == [role \in Roles |-> IF role = "viewer" THEN "t2" ELSE "t1"]
MCScopeOf == [role \in Readers |-> scope_team(role)]
=============================================================================
