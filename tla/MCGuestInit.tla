---------------------------- MODULE MCGuestInit ----------------------------
(* Model-checking instance of GuestInit.                                    *)
EXTENDS GuestInit

L(t, k) == [type |-> t, key |-> k]

\* initrmfs/etc/inittab: both shells are "-/bin/sh" on init's own terminal.
Shipped == <<L("sysinit", "rcS"), L("respawn", "sh"), L("askfirst", "sh"), L("ctrlaltdel", "umount")>>

\* An edited table: no shell, another order, and a getty on a terminal with a name of
\* more than 31 characters.
Edited == <<L("shutdown", "umount"), L("wait", "rcS"), L("respawn", "long")>>

\* And one with a bad line and no process to look after.
Minimal == <<L("bad", "sh"), L("once", "log"), L("restart", "init")>>

ThreeTables == {Shipped, Edited, Minimal}
SingleUser == <<L("respawn", "sh")>>

CutNames == [k \in Keys |-> IF k = "long" THEN "cut" ELSE k]
=============================================================================
