---------------------------- MODULE MCFileSystem ----------------------------
(* Small disks for TLC: two or three data blocks more than a file can take,  *)
(* and few enough inodes that files meet in the slot the lookups skip.       *)
EXTENDS FileSystem, TLC

\* A file's name is only compared with other names.
NameSymmetry == Permutations(Names)
=============================================================================
