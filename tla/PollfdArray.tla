---------------------------- MODULE PollfdArray ----------------------------
(***************************************************************************)
(* The dynamic array of struct pollfd (data_structures/pollfd_array.c):    *)
(* append with doubling, delete by swapping in the last entry, halving.    *)
(*                                                                         *)
(* reallocarray has three outcomes: the block grows in place, it moves, or *)
(* the call fails.  When append's resize moves the block, the code goes on *)
(* writing the new entry through the pointer it read before the resize, so *)
(* the slot that len now counts in the new block stays uninitialised: its  *)
(* entry is then any of StaleEntries.                                      *)
(***************************************************************************)
EXTENDS Arrays

CONSTANTS
  InitialCapacity,  \* INITIAL_CAPACITY (5 in the code)
  ReallocResults,   \* the outcomes of reallocarray considered
  StaleFds          \* the descriptors an uninitialised slot may hold

ASSUME PollfdArrayAssumption ==
  /\ InitialCapacity \in Nat \ {0}
  /\ ReallocResults \subseteq {"in_place", "moved", "failed"}

VARIABLES
  pollfds,          \* pollfds->fds[0 .. len - 1], in order
  capacity          \* pollfds->capacity

Revents == {"IN", "HUP"}    \* the poll() results the programs look at

Pollfd(Descriptors) == [fd : Descriptors, revents : SUBSET Revents]

StaleEntries == Pollfd(StaleFds)

(* The descriptors of an array's entries, in order. *)
Fds(array) == [k \in 1 .. Len(array) |-> array[k].fd]

pollfd_array_init ==
  /\ pollfds = << >>
  /\ capacity = InitialCapacity

NewEntry_ReventsNotSet(fd) == [fd |-> fd]

NewEntry_ReventsNotReset(fd) == [fd |-> fd, revents |-> {"IN"}]

NewEntry(fd) == [fd |-> fd, revents |-> {}]

MustGrow == Len(pollfds) + 1 > capacity

(* A successful append. *)
pollfd_array_append(fd) ==
  \/ /\ ~MustGrow
     /\ pollfds' = Append(pollfds, NewEntry(fd))
     /\ UNCHANGED capacity
  \/ /\ MustGrow
     /\ "in_place" \in ReallocResults
     /\ pollfds' = Append(pollfds, NewEntry(fd))
     /\ capacity' = 2 * capacity
  \/ /\ MustGrow
     /\ "moved" \in ReallocResults
     /\ \E stale \in StaleEntries : pollfds' = Append(pollfds, stale)
     /\ capacity' = 2 * capacity

(* An append that returns -1: the array is as before. *)
AppendFails ==
  /\ MustGrow
  /\ "failed" \in ReallocResults
  /\ UNCHANGED <<pollfds, capacity>>

MayShrink_AtCapacity ==
  /\ Len(pollfds) - 1 <= capacity
  /\ capacity \div 2 >= InitialCapacity

MayShrink ==
  /\ Len(pollfds) - 1 <= capacity \div 2
  /\ capacity \div 2 >= InitialCapacity

pollfd_array_delete_DropsLast(i) ==
  /\ i \in 1 .. Len(pollfds)
  /\ pollfds' = SubSeq(pollfds, 1, Len(pollfds) - 1)
  /\ UNCHANGED capacity

(* A failed shrink is ignored: the larger block is still valid. *)
pollfd_array_delete(i) ==
  /\ i \in 1 .. Len(pollfds)
  /\ pollfds' = SwapRemove(pollfds, i)
  /\ \/ MayShrink /\ ReallocResults # {"failed"} /\ capacity' = capacity \div 2
     \/ (MayShrink => "failed" \in ReallocResults) /\ UNCHANGED capacity
=============================================================================
