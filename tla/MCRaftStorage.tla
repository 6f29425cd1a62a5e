--------------------------- MODULE MCRaftStorage ---------------------------
(***************************************************************************)
(* Instances of RaftStorage for TLC.  SafeNext leaves out three orders of  *)
(* calls after which the file does not hold the node's log; CrashSpec lets *)
(* in the second of them.                                                  *)
(***************************************************************************)
EXTENDS RaftStorage

\* No truncation once a prefix has been discarded (and the file reopened).
TruncateOnlyBeforeDiscard ==
  logBaseIndex > 0 /\ logBaseIndex' = logBaseIndex => Len(log') >= Len(log)

\* No crash between SaveSnapshot and DiscardLogThrough.
NoCrashInBetween == saved > 0 => crashes' = crashes

\* A snapshot is installed only over a log that ends where it does, or before.
InstallCoversLog == installing => logBaseIndex + Len(log) <= saved

SafeNext == Next /\ TruncateOnlyBeforeDiscard /\ NoCrashInBetween /\ InstallCoversLog

\* No installs, but a crash may come between the two calls of maybeSnapshot.
CrashSpec == Init /\ [][Next /\ TruncateOnlyBeforeDiscard /\ ~installing']_vars

=============================================================================
