------------------------------ MODULE MCShell ------------------------------
(* A program a that writes more than a pipe holds, a filter b that writes     *)
(* less; every first line of up to four characters and pipelines of three and *)
(* four commands, and a second pipeline.                                      *)
EXTENDS Shell, TLC

Programs == (<<"a">> :> 2) @@ (<<"b">> :> 1)
FilterB  == {<<"b">>}

Short == UNION {[1 .. n -> Char] : n \in 0 .. 4}
Typed ==
  <<Short \cup {<<"b", "|", " ", "b", "|", " ", "b", "|", " ", "b">>,
                <<"a", "|", " ", "b", "|", " ", "a">>,
                <<"a", "b", "|", " ", "b">>},
    {<<"b", "|", " ", "b">>}>>
=============================================================================
