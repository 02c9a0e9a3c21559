----------------------------- MODULE MCOmpChunks -----------------------------
(***************************************************************************)
(* Three threads and a number of rows they do not divide.                  *)
(***************************************************************************)
EXTENDS OmpChunks

MCTeam   == 3
MCRows   == 4
MCValues == {0, 2}
MCSizes  == {1, 2}
=============================================================================
