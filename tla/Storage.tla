------------------------------- MODULE Storage -------------------------------
(***************************************************************************)
(* A storage.Disk is one of its drivers: a program that holds one uses the *)
(* local disk or the S3 disk through the same calls.                       *)
(***************************************************************************)
EXTENDS StorageLocal, StorageS3

VARIABLE driver     \* the Disk the program has opened

vars == <<driver, localVars, s3Vars>>

Init ==
  \/ driver = "local" /\ LocalInit /\ S3Unused
  \/ driver = "s3" /\ S3Init /\ LocalUnused

Next ==
  /\ \/ driver = "local" /\ LocalNext /\ UNCHANGED s3Vars
     \/ driver = "s3" /\ S3Next /\ UNCHANGED localVars
  /\ UNCHANGED driver

Spec == Init /\ [][Next]_vars
=============================================================================
