----------------------------- MODULE MCProgram -----------------------------
(* Command lines: each kind of command, each outcome of the parser, each   *)
(* way to set the level and the file.                                      *)
EXTENDS Program

MCArgLists ==
    {<<"call", "word">>, <<"--log-file", "word", "call", "word">>,
     <<"listen", "-q">>, <<"listen", "--help">>, <<"-v", "load", "--log-file", "word">>,
     <<"--log-level", "warn", "register">>, <<"info">>,
     <<"call">>, <<"--help">>, <<"listen", "--version">>, <<"listen", "-m", "word">>}

ListenArgs == {<<"listen">>}

MCNumerals == "7" :> 7
=============================================================================
