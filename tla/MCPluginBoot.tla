----------------------------- MODULE MCPluginBoot -----------------------------
(* Values of the constants of PluginBoot for TLC. *)
EXTENDS PluginBoot

\* Files without an option for JNA, with one, and with two.
SomeFiles ==
  {<<"other">>, <<"other", "jnaPath">>, <<"jnaPath", "jnaPath">>}
=============================================================================
