----------------------------- MODULE MCLauncher -----------------------------
(* Small instances of Launcher: two children are enough for an order, for a
   start that fails halfway and for one to crash while the other is paused. *)
EXTENDS Launcher

StartOrder == <<"daemon", "gui">>

\* The delay grows and then stays.
Delays == <<0, 1>>

=============================================================================
