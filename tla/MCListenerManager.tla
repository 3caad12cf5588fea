--------------------------- MODULE MCListenerManager ---------------------------
(* ListenerManager for TLC, with two keys and three listener objects: a key can
   hold a new listener while an old one is still ending and another key is
   served.  TLC evaluates the module's assumption on this instance. *)
EXTENDS ListenerManager
===============================================================================
