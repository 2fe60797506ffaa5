---------------------------- MODULE MCFileSystem ----------------------------
(* Constants of the TLC runs of FileSystem. *)
EXTENDS FileSystem, TLC

Entry(name, type, node) == [filename |-> name, filetype |-> type, inode |-> node]
Unused == Entry(<< >>, 0, 0)

\* "a" is a file, "ab" one whose name fills its field, "b" has a bad inode.
Directory1 == (0 :> Entry(<<"a", "b">>, 2, 0)) @@ (1 :> Entry(<<"a">>, 2, 0))
                @@ (2 :> Entry(<<"b">>, 2, 1)) @@ (3 :> Unused)

\* One file of any size up to two blocks, of any blocks, good or bad.
AllImages ==
  {[num_dentries |-> 3, num_inodes |-> 1, num_datablocks |-> 2,
    dentries |-> Directory1, size |-> (0 :> s), data_blocks |-> (0 :> bs)] :
      s \in 0 .. NUM_BLOCKS * FS_PAGE_SIZE, bs \in [0 .. NUM_BLOCKS -> 0 .. 2]}

AllNames == {<< >>, <<"a">>, <<"b">>, <<"a", "b">>, <<"c">>}
=============================================================================
