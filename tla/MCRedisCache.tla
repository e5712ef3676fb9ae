---------------------------- MODULE MCRedisCache ----------------------------
(***************************************************************************)
(* A small instance of RedisCache: a store with three keys, one whose prefix *)
(* is a wildcard to SCAN, and one without a prefix.                        *)
(***************************************************************************)
EXTENDS RedisCache

PrefixOf == [app |-> <<"a">>, wild |-> <<"?">>, bare |-> <<>>]
OwnedBy == [app |-> {"k", "l", "m"}, wild |-> {"k"}, bare |-> {}]
TheNames == {<<"a", "k">>}
TheTTLs == {0, 1}
TheAmounts == {-2, 1}
=============================================================================
