---------------------------- MODULE MCFileSystem ----------------------------
(* Instances of FileSystem for TLC.                                        *)
EXTENDS FileSystem, TLC

CONSTANTS t1, t2

Names == {".", "..", "a", "b", "d", "s", "x", "y"}

Do(op, path) == [op |-> op, path |-> path, to |-> <<>>]
Link(path, to) == [op |-> "link", path |-> path, to |-> to]

(* Two tasks that make and remove files of their own.                      *)
Files == (t1 :> {Do("creat", <<"a">>), Do("unlink", <<"a">>), Do("write", <<>>)}) @@
         (t2 :> {Do("mknod", <<"b">>), Do("unlink", <<"b">>)})

(* A task with a directory of its own, and links to a shared file that     *)
(* another task writes; the disk is full before both have what they want.  *)
Directories ==
    (t1 :> {Do("mkdir", <<"d">>), Do("rmdir", <<"d">>), Link(<<"s">>, <<"d", "x">>),
            Do("mknod", <<"d", "y">>), Do("unlink", <<"d", "x">>), Do("unlink", <<"d", "y">>)}) @@
    (t2 :> {Do("open", <<"s">>), Do("write", <<>>), Do("touch", <<"s">>)})

(* sync() while another task makes files and writes them.                  *)
Syncing ==
    (t1 :> {Do("sync", <<>>)}) @@
    (t2 :> {Do("creat", <<"a">>), Do("open", <<"s">>), Link(<<"s">>, <<"b">>), Do("write", <<>>)})

AllPrograms == {Files, Directories, Syncing}

Slots == Permutations(Slot \ {RootSlot})
=============================================================================
