--------------------------- MODULE MC_Namespacing ---------------------------
(* Model-checking instance of Namespacing.  Keys: a valid one, a longer    *)
(* valid one it prefixes, one with ":" and one ending with a newline.     *)
(* Raw ids: a plain one and one holding ":".                               *)
EXTENDS Namespacing

CONSTANTS s1, s2

MCStorages == {s1, s2}

MCKeys == {<<"a">>, <<"a", "b">>, <<"a", ":">>, <<"a", "\n">>}

MCRawIds == {<<"b">>, <<":", "b">>}
==============================================================================
