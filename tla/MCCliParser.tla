---------------------------- MODULE MCCliParser ----------------------------
(* Every command line of up to MaxArgs of these words.                     *)
EXTENDS CliParser

CONSTANTS Words, MaxArgs

MCArgLists == BoundedSeq(Words, MaxArgs)
MCNumerals == "-1" :> -1 @@ "0" :> 0 @@ "200" :> 200 @@ "300" :> 300
=============================================================================
