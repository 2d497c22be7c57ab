-------------------------- MODULE MC_YumDnfSandbox --------------------------
(* Model-checking instance of YumDnfSandbox.  The caller's candidate      *)
(* paths: /etc/rpm without its slash (a default written as a file), and a  *)
(* relative srv both as a directory and as a file.                         *)
EXTENDS YumDnfSandbox

MCCallerPaths ==
    { Path(<<"etc", "rpm">>, TRUE, FALSE),
      Path(<<"srv">>, FALSE, TRUE),
      Path(<<"srv">>, FALSE, FALSE) }
==============================================================================
