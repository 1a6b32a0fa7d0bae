-------------------------- MODULE MCVolumeHandler --------------------------
(***************************************************************************)
(* Small instances of VolumeHandler, with the amounts of the code and of   *)
(* the chain in lamports.                                                  *)
(***************************************************************************)
EXTENDS VolumeHandler

\* No maker; one; two; one who is listed twice.
MCMakerLists == {<<>>, <<"w">>, <<"v", "w">>, <<"w", "w">>}
=============================================================================
