------------------------------ MODULE MCBsdiff ------------------------------
(* All old and new firmwares of a few bytes for Bsdiff.                       *)
EXTENDS Bsdiff

CONSTANTS OldMax, NewMax   \* lengths of the files

Files(n, b) == UNION {[0 .. k - 1 -> 0 .. b - 1] : k \in 0 .. n}

MCOlds == Files(OldMax, Bytes)
MCNews == Files(NewMax, Bytes)
=============================================================================
