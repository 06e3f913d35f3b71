-------------------------- MODULE MCVelocityCommand --------------------------
(***************************************************************************)
(* Small instances of VelocityCommand.                                     *)
(***************************************************************************)
EXTENDS VelocityCommand

\* Moved along one axis only.
MCOneAxis == {Rest, <<0, 1, 0>>}

\* Beyond the limit of the same axis.
MCForeign == {<<0, 2, 0>>}

MCMaxVel == <<1, 1, 1>>
============================================================================
