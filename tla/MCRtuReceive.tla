---------------------------- MODULE MCRtuReceive ----------------------------
(***************************************************************************)
(* Instances of RtuReceive for TLC: a request to read, a request to write  *)
(* whose bytes shift into its length field when one is lost, and one with  *)
(* no meta part.  The CRC of each is a pair of bytes of its own.           *)
(***************************************************************************)
EXTENDS RtuReceive

Read   == <<1, 3, 0, 0, 0, 1, 80, 81>>
Write  == <<1, 16, 0, 5, 0, 1, 2, 7, 7, 82, 83>>
Report == <<1, 17, 84, 85>>

ThreeFrames == {Read, Write, Report}

=============================================================================
