------------------------------ MODULE MCDumpLoad ------------------------------
(***************************************************************************)
(* DumpLoad for TLC: empty data, data whose base64 takes one line and two, *)
(* with every number of padding characters.                                *)
(***************************************************************************)
EXTENDS DumpLoad, TLC

MCEmpty == <<>>
MCOne == <<255>>
MCTwo == <<0, 15>>
MCFour == <<1, 2, 131, 77>>

MCDbs == {<<>>, MCEmpty :> MCFour, MCFour :> MCEmpty,
          MCOne :> MCEmpty @@ MCEmpty :> MCTwo, MCTwo :> MCOne @@ MCFour :> <<7, 8, 250>>}
MCTargets == {<<>>, MCEmpty :> <<3>>}
=============================================================================
