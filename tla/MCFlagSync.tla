---------------------------- MODULE MCFlagSync ----------------------------
(* Templates for model-checking FlagSync. *)
EXTENDS FlagSync

Plain(type, m) ==
  [type |-> type, op |-> "", flag |-> "", all |-> FALSE, messages |-> <<m>>]

FlagEvent(op, flag, all, ms) ==
  [type |-> "update_message_flags", op |-> op, flag |-> flag, all |-> all,
   messages |-> ms]

\* Messages 1 and 2; every kind of flags event the server sends about them.
MCTemplates ==
  {Plain("message", 3),
   FlagEvent("add", "read", FALSE, <<1>>),
   FlagEvent("add", "read", FALSE, <<2>>),
   FlagEvent("remove", "read", FALSE, <<1>>),
   FlagEvent("add", "read", TRUE, <<1, 2>>),
   FlagEvent("add", "starred", FALSE, <<1>>),
   FlagEvent("remove", "starred", FALSE, <<1>>)}

\* Stars only (to see how FlagsAgree fails without mark-as-unread: no run uses it).
MCStarTemplates ==
  {FlagEvent("add", "starred", FALSE, <<1>>),
   FlagEvent("add", "starred", FALSE, <<2>>),
   FlagEvent("remove", "starred", FALSE, <<1>>)}
===========================================================================
