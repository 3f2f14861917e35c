----------------------------- MODULE ToolAccess -----------------------------
(***************************************************************************)
(* Resource accesses of a tool call, and when two of them conflict         *)
(* (packages/agent-core/src/loop/tool-access.ts).                          *)
(*                                                                         *)
(* A path is the sequence of its segments, as they appear between two      *)
(* separators ('/' or '\', which normalizePath makes equal).  A doubled or *)
(* a trailing separator shows as the segment Empty.  Two segments that     *)
(* differ only by letter case are different elements of Segment with the   *)
(* same image under Fold.  The root directory is the empty sequence.       *)
(***************************************************************************)
EXTENDS Sequences, SequencesExt

CONSTANTS Segment,      \* path segments as written by a tool
          Empty,        \* what a doubled or trailing separator leaves
          Fold,         \* toLowerCase on one segment
          File          \* the files there are, each by its normalised path

ASSUME FoldAssumption == Fold \in [Segment -> Segment]

FileOperation == {"read", "write", "readwrite", "search"}

(* An access is a file access, or the 'all' access of a tool whose effects *)
(* no file access describes.                                               *)
AllAccess == [kind |-> "all"]

FileAccess(operation, path, recursive) ==
  [kind |-> "file", operation |-> operation, path |-> path,
   recursive |-> recursive]

-----------------------------------------------------------------------------
(* Separators are collapsed, the trailing one dropped, the case folded.    *)
normalizePath(path) ==
  LET segments == SelectSeq(path, LAMBDA s : s # Empty)
  IN  [i \in DOMAIN segments |-> Fold[segments[i]]]

fileAccessesOverlap_oneSided(left, right) ==
  LET leftPath  == normalizePath(left.path)
      rightPath == normalizePath(right.path)
  IN  \/ leftPath = rightPath
      \/ left.recursive /\ IsStrictPrefix(leftPath, rightPath)

(* Equal paths overlap; so does a recursive access with what lies below.   *)
fileAccessesOverlap(left, right) ==
  LET leftPath  == normalizePath(left.path)
      rightPath == normalizePath(right.path)
  IN  \/ leftPath = rightPath
      \/ left.recursive  /\ IsStrictPrefix(leftPath, rightPath)
      \/ right.recursive /\ IsStrictPrefix(rightPath, leftPath)

fileOperationWrites(operation) == operation \in {"write", "readwrite"}

fileOperationsConflict(left, right) ==
  fileOperationWrites(left) \/ fileOperationWrites(right)

resourceAccessesConflict(left, right) ==
  \/ left.kind = "all"
  \/ right.kind = "all"
  \/ /\ fileOperationsConflict(left.operation, right.operation)
     /\ fileAccessesOverlap(left, right)

(* ToolAccesses.conflict: some access of one call conflicts with some      *)
(* access of the other.                                                    *)
conflict(left, right) ==
  \E l \in left, r \in right : resourceAccessesConflict(l, r)

-----------------------------------------------------------------------------
(* The meaning of a declared access, stated on the files themselves: what  *)
(* a call may touch, and what it may change.  The properties of the        *)
(* scheduler are stated with these, never with conflict.                   *)
Reaches(access, f) ==
  \/ access.kind = "all"
  \/ f = normalizePath(access.path)
  \/ access.recursive /\ IsPrefix(normalizePath(access.path), f)

MayTouch(declared, f) == \E access \in declared : Reaches(access, f)

MayChange(declared, f) ==
  \E access \in declared :
    /\ Reaches(access, f)
    /\ access.kind = "all" \/ access.operation \in {"write", "readwrite"}
=============================================================================
