---------------------------- MODULE MCCompaction ----------------------------
(* Enqueue records of two jobs, and another record of one.                  *)
EXTENDS Compaction

CONSTANT Job1

MCPayloads == [type : {"enqueue"}, job : Jobs] \cup [type : {"other"}, job : {Job1}]
=============================================================================
