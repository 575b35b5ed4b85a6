----------------------------- MODULE MCLZStore -----------------------------
(***************************************************************************)
(* LZStore for TLC: two names at two levels, and values with the           *)
(* characters that the two formats treat in a way of their own.            *)
(***************************************************************************)
EXTENDS LZStore

MCTags == {<<"a">>, <<"b">>, <<"a", "/", "b">>, <<"a", "/", "a">>}

MCValues == {<<"v", ";">>, <<"\\", "#">>, <<"<", "}">>}

MCBehind == {<<>>, <<"b", ";">>}
=============================================================================
