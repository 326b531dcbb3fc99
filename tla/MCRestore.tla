----------------------------- MODULE MCRestore -----------------------------
(* Small instances of Restore: all files of up to MaxLines lines of a kind. *)
EXTENDS Restore

L(cmd, set, from, to, exist) ==
    [cmd |-> cmd, set |-> set, from |-> from, to |-> to, exist |-> exist]

FilesOf(lines, most) == UNION {[1..n -> lines] : n \in 0..most}

MixedLines ==
    {L("add", "a", 1, 1, FALSE), L("add", "a", 1, 3, FALSE), L("add", "a", 2, 2, TRUE),
     L("del", "a", 2, 2, FALSE), L("add", "b", 1, 1, FALSE), L("create", "b", 0, 0, FALSE),
     L("destroy", "a", 0, 0, FALSE), L("flush", "a", 0, 0, FALSE),
     L("COMMIT", "none", 0, 0, FALSE), L("bad", "none", 0, 0, FALSE)}
Mixed == FilesOf(MixedLines, 3)

\* one range
RangeFiles == FilesOf({L("add", "a", 2, 3, FALSE)}, 1)
=============================================================================
