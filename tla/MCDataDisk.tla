------------------------------ MODULE MCDataDisk ------------------------------
(* The sizes that users ask for, with MaxFile = 3 and Half = 8: 4 is too   *)
(* large for the host, 9 becomes negative, 16 + n becomes n.               *)
EXTENDS DataDisk

MCSizes == {1, 2, 3, 4}
MCWideSizes == MCSizes \cup {9, 17, 18}
=============================================================================
