---------------------------- MODULE MCJarRepository ----------------------------
(* Values of the constants of JarRepository for TLC. *)
EXTENDS JarRepository, TLC

CONSTANTS cli, att, ann, old, new, Base, Util

\* Two versions of a JAR; an entry of the new one makes it clash with the old.
Versions == (old :> <<Base>>) @@ (new :> <<Util, Base>>)
OneOfThemSYSDBA == (cli :> ann) @@ (att :> SYSDBA)
=============================================================================
