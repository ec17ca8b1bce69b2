------------------------------- MODULE MCEspFs -------------------------------
(***************************************************************************)
(* A tree of files for EspFs: names whose length with its end is, or is    *)
(* not, a multiple of four, and one that namebuf does not hold; a file     *)
(* that is empty, that no longer gets smaller, or that takes heatshrink    *)
(* two turns; two paths of one name.                                       *)
(***************************************************************************)
EXTENDS EspFs

MCChars == [w \in {"/", "abc", "abcd", "a", "long"} |->
    CASE w = "abc" -> 3 [] w = "long" -> 256 [] w = "abcd" -> 4 [] OTHER -> 1]

File(prefix, rel, size, csize) ==
    [path |-> prefix \o rel, rel |-> rel, size |-> size, csize |-> csize]

MCFiles ==
    { File(<<".", "/">>, <<"abc">>, 5, 6),
      File(<<".", "/">>, <<"abcd">>, 30, 21),
      File(<<>>, <<"a", "/", "abc">>, 40, 4),
      File(<<"/">>, <<"abc">>, 8, 8),
      File(<<>>, <<"long">>, 3, 2),
      File(<<".", "/">>, <<"a">>, -1, 0),
      File(<<".", "/">>, <<"a", "/", "a">>, 0, 1) }

MCAsked ==
    {<<"abc">>, <<"/", "abc">>, <<"/", "/", "abcd">>, <<"a", "/", "abc">>,
     <<"/", "a", "/", "a">>, <<"a">>}

=============================================================================
