---------------------------- MODULE MCPvcNaming ----------------------------
(***************************************************************************)
(* TLC instances of PvcNaming.  The names hold the separator "cache" at    *)
(* every place, and some are longer than the cuts.                         *)
(***************************************************************************)
EXTENDS PvcNaming

MCPoolNames == {<<"a">>, <<"a", "b">>, <<"a", "cache">>, <<"a", "b", "cache">>}
MCCacheNames ==
    {<<"a">>, <<"b">>, <<"b", "a">>, <<"cache", "b">>, <<"b", "cache">>,
     <<"b", "a", "a">>}

\* Pools whose names are not cut, with templates that differ behind the cut.
MCShortPools == {<<"a">>, <<"a", "b">>}
MCLongNames == {<<"b", "a", "a">>, <<"b", "a", "b">>}
=============================================================================
