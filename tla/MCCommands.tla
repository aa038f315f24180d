------------------------------- MODULE MCCommands -------------------------------
(* The event loop and a control client, two IRC users of whom one is an owner. *)
EXTENDS Commands

CONSTANTS irc, ctl, ldr, none, alice, bob

MCDispatchers == {irc, ctl}
=============================================================================
