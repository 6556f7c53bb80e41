------------------------------ MODULE Publish ------------------------------
(***************************************************************************)
(* Replica.Restore (replica.go) from the test for the destination to its   *)
(* return, for several restores to one path: each decodes into the file    *)
(* <output>.tmp, which they share, and renames it.  A file is an inode: a  *)
(* process goes on writing to the one it has opened, whatever its name has *)
(* become.  A page holds the restore that wrote it.                        *)
(***************************************************************************)
EXTENDS Naturals, Sequences

CONSTANTS
    Restorer,       \* the restores, each of a database of its own
    Nothing,        \* the content of a page that is not written
    Pages,          \* pages of the databases
    IntegrityCheck  \* is a check requested?

VARIABLES
    data,  \* the content of every inode
    tmp,   \* the inode of <output>.tmp, 0 if there is none
    out,   \* the inode of <output>, 0 if there is none
    pc,    \* where each restore is: a step, "ok" or "failed"
    fd,    \* the inode it has opened
    at     \* pages it has written

vars == <<data, tmp, out, pc, fd, at>>
files == <<data, tmp, out>>

Empty == [p \in 1..Pages |-> Nothing]
Whole(r) == [p \in 1..Pages |-> r]

Init ==
    /\ data = <<>> /\ tmp = 0 /\ out = 0
    /\ pc = [r \in Restorer |-> "stat"]
    /\ fd = [r \in Restorer |-> 0]
    /\ at = [r \in Restorer |-> 0]

Goto(r, step) == pc' = [pc EXCEPT ![r] = step]

\* The destination exists, or not.
Stat(r) ==
    /\ pc[r] = "stat"
    /\ Goto(r, IF out # 0 THEN "failed" ELSE "create")
    /\ UNCHANGED <<files, fd, at>>

\* The plan, opening a file, decoding or the sync fails, or the context is
\* cancelled: the temporary file stays.
Fail(r) ==
    /\ pc[r] \in {"create", "decode"}
    /\ Goto(r, "failed")
    /\ UNCHANGED <<files, fd, at>>

\* os.Create empties the temporary file if there is one.
Create(r) ==
    /\ pc[r] = "create"
    /\ IF tmp # 0
       THEN /\ data' = [data EXCEPT ![tmp] = Empty]
            /\ fd' = [fd EXCEPT ![r] = tmp]
            /\ UNCHANGED tmp
       ELSE /\ data' = Append(data, Empty)
            /\ fd' = [fd EXCEPT ![r] = Len(data) + 1]
            /\ tmp' = Len(data) + 1
    /\ Goto(r, "decode")
    /\ UNCHANGED <<out, at>>

\* DecodeDatabaseTo, page by page.
Decode(r) ==
    /\ pc[r] = "decode" /\ at[r] < Pages
    /\ data' = [data EXCEPT ![fd[r]][at[r] + 1] = r]
    /\ at' = [at EXCEPT ![r] = @ + 1]
    /\ UNCHANGED <<tmp, out, pc, fd>>

\* os.Rename, of whatever has the name now.  Without a check Restore is done.
Rename(r) ==
    /\ pc[r] = "decode" /\ at[r] = Pages
    /\ IF tmp = 0
       THEN Goto(r, "failed") /\ UNCHANGED <<tmp, out>>
       ELSE /\ out' = tmp
            /\ tmp' = 0
            /\ Goto(r, IF IntegrityCheck THEN "check" ELSE "ok")
    /\ UNCHANGED <<data, fd, at>>

\* checkIntegrity of the destination passes.  It may for any content: an empty
\* file is a database too, SQLite makes one if there is none, and it does not
\* know whose pages it reads.
CheckPasses(r) ==
    /\ pc[r] = "check"
    /\ IF out = 0
       THEN data' = Append(data, Empty) /\ out' = Len(data) + 1
       ELSE UNCHANGED <<data, out>>
    /\ Goto(r, "ok")
    /\ UNCHANGED <<tmp, fd, at>>

\* The check fails: a damaged database, or an error.  Restore removes what is
\* at the destination now, unless its context is cancelled.
CheckFails(r) ==
    /\ pc[r] = "check"
    /\ out' \in {0, out}
    /\ Goto(r, "failed")
    /\ UNCHANGED <<data, tmp, fd, at>>

Next ==
    \E r \in Restorer :
        Stat(r) \/ Fail(r) \/ Create(r) \/ Decode(r) \/ Rename(r) \/ CheckPasses(r) \/ CheckFails(r)

Spec == Init /\ [][Next]_vars

-----------------------------------------------------------------------------
\* What the destination holds is the whole database of a restore that has
\* succeeded: it is absent until decoding, sync and the requested check are
\* done, and a restore that loses the race leaves the winner's bytes alone.
PublishedIsWhole == out # 0 => \E r \in Restorer : pc[r] = "ok" /\ data[out] = Whole(r)

=============================================================================
