---------------------------- MODULE MCPluginHost ----------------------------
(***************************************************************************)
(* Settings for checking PluginHost.                                       *)
(***************************************************************************)
EXTENDS PluginHost

Every == [sameNames : BOOLEAN, logger : BOOLEAN]
Plain == {[sameNames |-> FALSE, logger |-> FALSE]}

=============================================================================
