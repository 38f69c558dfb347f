-------------------------- MODULE MCMemoryKvStore --------------------------
(* Instances of MemoryKvStore for TLC.                                     *)
EXTENDS MemoryKvStore

\* A deadline that has passed, the next moment, and one past the collector's run
AwkwardTtls == {-1, 1, 3}
=============================================================================
