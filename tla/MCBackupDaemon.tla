--------------------------- MODULE MCBackupDaemon ---------------------------
(* Three directories, one in the other; a name of its own in two of them, and *)
(* a name that is in both.                                                    *)
EXTENDS BackupDaemon

Chain == [d \in {"sub", "deep"} |-> IF d = "sub" THEN "root" ELSE "sub"]
Files == {<<"root", "a">>, <<"root", "c">>, <<"sub", "c">>}
=============================================================================
