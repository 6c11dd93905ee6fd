--------------------------- MODULE MCFileSystem ---------------------------
(* Images and contents for the runs of FileSystem.                         *)
EXTENDS FileSystem

File(p, s) == [path |-> p, folder |-> FALSE, contents |-> s]
Folder(p) == [path |-> p, folder |-> TRUE, contents |-> NoFile]

(* A file of four sectors, a small one, with and without a directory; a    *)
(* drive with only a directory.                                            *)
MCImages == {<<File("a", <<1, 2, 3, 4>>), File("b", <<5>>)>>,
             <<File("b", <<6>>), File("a", <<1, 2, 3>>), Folder("d")>>,
             <<Folder("d")>>}

(* Files of one and of three sectors; of one only. *)
MCContents == {<<7>>, <<8, 9>>, <<2, 3, 4>>}
MCSmallContents == {<<7>>}
=============================================================================
