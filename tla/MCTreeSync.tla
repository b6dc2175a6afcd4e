----------------------------- MODULE MCTreeSync -----------------------------
(* A path c, and a path a that is a file or a directory with one file in   *)
(* it.  The source starts with either; with a file at a, c is dated at the *)
(* epoch.  The destination starts without c, and at a with nothing, a link *)
(* where a file or a directory should be, or a directory with a stale file *)
(* in it.  The edit makes any other tree of them.                          *)
EXTENDS TreeSync

CONSTANTS a, ab, c, d1, d2

MCParent == [p \in {a, ab, c} |-> IF p = ab THEN a ELSE Root]
MCSizeOf == [d \in {d1, d2} |-> 1]
MCFile == [data |-> d1, mtime |-> 1]
MCOld == [data |-> d1, mtime |-> 0]
MCStale == [data |-> d2, mtime |-> 2]
MCSources ==
  {t \in TreesOf({Absent, Dir, MCFile, MCOld}) :
     \/ t[a] = MCFile /\ t[c] = MCOld
     \/ t[ab] = MCFile /\ t[c] = MCFile}
MCTargets ==
  {t \in TreesOf({Absent, Dir, Link, MCStale}) :
     /\ t[c] = Absent
     /\ t[a] \in {Absent, Link} \/ t[ab] = MCStale}
=============================================================================
