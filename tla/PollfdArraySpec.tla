-------------------------- MODULE PollfdArraySpec --------------------------
(***************************************************************************)
(* PollfdArray on its own, driven by any sequence of legal calls: a        *)
(* descriptor is appended at most once, an index is deleted if it is in    *)
(* the array.  The server and the client are two such callers.             *)
(***************************************************************************)
EXTENDS PollfdArray

CONSTANT Descriptor

ASSUME DescriptorAssumption == StaleFds \subseteq Descriptor

VARIABLE
  held    \* what the caller has appended and not deleted (a history)

vars == <<pollfds, capacity, held>>

Init == pollfd_array_init /\ held = {}

CallAppend(fd) ==
  /\ fd \notin held
  /\ \/ pollfd_array_append(fd) /\ held' = held \cup {fd}
     \/ AppendFails /\ UNCHANGED held

CallDelete(i) ==
  /\ pollfd_array_delete(i)
  /\ held' = held \ {pollfds[i].fd}

Next ==
  \/ \E i \in 1 .. Len(pollfds) : CallDelete(i)
  \/ \E fd \in Descriptor : CallAppend(fd)

Spec == Init /\ [][Next]_vars

(* Type invariant. *)
TypeOK ==
  /\ pollfds \in Seq(Pollfd(Descriptor))
  /\ capacity \in Nat
  /\ held \subseteq Descriptor

(***************************************************************************)
(* Whatever resizes succeed or fail, the block holds every live entry and  *)
(* is never smaller than at the start: a shrink never cuts off a live      *)
(* entry, growth leaves room for the new one.                              *)
(***************************************************************************)
CapacityCovers == Len(pollfds) <= capacity /\ capacity >= InitialCapacity

(***************************************************************************)
(* Memory is given back: as long as no resize fails, more than half of a   *)
(* block larger than the initial one is in use.                            *)
(***************************************************************************)
CapacityTight ==
  "failed" \notin ReallocResults =>
    capacity = InitialCapacity \/ 2 * Len(pollfds) > capacity

(***************************************************************************)
(* The array holds each descriptor the caller appended and did not delete, *)
(* once, and nothing else: a failed append adds nothing, a delete takes    *)
(* out the one at its index and no other.                                  *)
(***************************************************************************)
HoldsWhatWasAppended ==
  /\ NoRepeats(Fds(pollfds))
  /\ \A fd \in Descriptor : Occurs(fd, Fds(pollfds)) <=> fd \in held
=============================================================================
