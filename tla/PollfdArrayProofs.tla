------------------------- MODULE PollfdArrayProofs -------------------------
(***************************************************************************)
(* The poll array on its own is correct for every initial capacity and     *)
(* every set of descriptors.                                               *)
(***************************************************************************)
EXTENDS PollfdArraySpec, ArraysTheorems

(* The variables always have their types.                                  *)
THEOREM TypeCorrect == Spec => []TypeOK
<1> USE DEF TypeOK
<1>1. Init => TypeOK
  BY PollfdArrayAssumption DEF Init, pollfd_array_init
<1>2. TypeOK /\ [Next]_vars => TypeOK'
  <2> SUFFICES ASSUME TypeOK, [Next]_vars PROVE TypeOK'
    OBVIOUS
  <2>1. ASSUME NEW i \in 1 .. Len(pollfds), CallDelete(i) PROVE TypeOK'
    <3>1. pollfds' \in Seq(Pollfd(Descriptor))
      BY <2>1, SwapRemoveShape DEF CallDelete, pollfd_array_delete
    <3>2. QED BY <2>1, <3>1 DEF CallDelete, pollfd_array_delete
  <2>2. ASSUME NEW fd \in Descriptor, CallAppend(fd) PROVE TypeOK'
    <3>1. NewEntry(fd) \in Pollfd(Descriptor)
      BY DEF NewEntry, Pollfd
    <3>2. StaleEntries \subseteq Pollfd(Descriptor)
      BY DescriptorAssumption DEF StaleEntries, Pollfd
    <3>3. CASE pollfd_array_append(fd) /\ held' = held \cup {fd}
      BY <3>1, <3>2, <3>3 DEF pollfd_array_append
    <3>4. CASE AppendFails /\ UNCHANGED held
      BY <3>4 DEF AppendFails
    <3>5. QED BY <2>2, <3>3, <3>4 DEF CallAppend
  <2>3. CASE UNCHANGED vars
    BY <2>3 DEF vars
  <2>4. QED BY <2>1, <2>2, <2>3 DEF Next
<1>3. QED BY <1>1, <1>2, PTL DEF Spec

(* No sequence of calls makes the block smaller than its live entries, nor *)
(* than it was at the start.  A shrink halves a block whose entries fit in *)
(* half of it, and only if that half is not below the initial capacity.    *)
THEOREM CapacitySafe == Spec => []CapacityCovers
<1>1. Init => CapacityCovers
  BY PollfdArrayAssumption DEF Init, pollfd_array_init, CapacityCovers
<1>2. TypeOK /\ CapacityCovers /\ [Next]_vars => CapacityCovers'
  <2> SUFFICES ASSUME TypeOK, CapacityCovers, [Next]_vars PROVE CapacityCovers'
    OBVIOUS
  <2> USE PollfdArrayAssumption DEF CapacityCovers, TypeOK
  <2>1. ASSUME NEW i \in 1 .. Len(pollfds), CallDelete(i) PROVE CapacityCovers'
    <3>1. Len(pollfds') = Len(pollfds) - 1
      BY <2>1, SwapRemoveShape DEF CallDelete, pollfd_array_delete
    <3>2. QED BY <2>1, <3>1 DEF CallDelete, pollfd_array_delete, MayShrink
  <2>2. ASSUME NEW fd \in Descriptor, CallAppend(fd) PROVE CapacityCovers'
    <3>1. CASE AppendFails
      BY <3>1 DEF AppendFails
    <3>2. CASE pollfd_array_append(fd)
      <4>1. Len(pollfds') = Len(pollfds) + 1
        BY <3>2 DEF pollfd_array_append
      <4>2. QED BY <3>2, <4>1 DEF pollfd_array_append, MustGrow
    <3>3. QED BY <2>2, <3>1, <3>2 DEF CallAppend
  <2>3. CASE UNCHANGED vars
    BY <2>3 DEF vars
  <2>4. QED BY <2>1, <2>2, <2>3 DEF Next
<1>3. QED BY <1>1, <1>2, TypeCorrect, PTL DEF Spec

(***************************************************************************)
(* That memory is given back needs more than the bounds: a block of, say,  *)
(* 6 entries with an initial capacity of 5 could never shrink.  Sizes are  *)
(* the capacities there can be, the initial one doubled any number of      *)
(* times: the least set that has it and is closed under doubling.          *)
(***************************************************************************)
ClosedUnderDoubling(S) == InitialCapacity \in S /\ \A c \in S : 2 * c \in S

Sizes == {c \in Nat : \A S \in SUBSET Nat : ClosedUnderDoubling(S) => c \in S}

(* Sizes is such a set, all of it at least the initial capacity, and every *)
(* size but that one is the double of another.                             *)
LEMMA SizesAreDoublings ==
  /\ ClosedUnderDoubling(Sizes)
  /\ \A c \in Sizes : c \in Nat /\ c >= InitialCapacity
  /\ \A c \in Sizes : c # InitialCapacity => c \div 2 \in Sizes /\ c = 2 * (c \div 2)
<1>1. ClosedUnderDoubling(Sizes)
  <2>1. InitialCapacity \in Sizes
    BY PollfdArrayAssumption DEF Sizes, ClosedUnderDoubling
  <2>2. ASSUME NEW c \in Sizes PROVE 2 * c \in Sizes
    <3>1. ASSUME NEW S \in SUBSET Nat, ClosedUnderDoubling(S) PROVE 2 * c \in S
      BY <3>1 DEF Sizes, ClosedUnderDoubling
    <3>2. QED BY <3>1 DEF Sizes
  <2>3. QED BY <2>1, <2>2 DEF ClosedUnderDoubling
<1>2. ASSUME NEW c \in Sizes PROVE c \in Nat /\ c >= InitialCapacity
  <2> DEFINE S == {n \in Nat : n >= InitialCapacity}
  <2>1. ClosedUnderDoubling(S)
    BY PollfdArrayAssumption DEF ClosedUnderDoubling
  <2>2. S \in SUBSET Nat
    OBVIOUS
  <2> HIDE DEF S
  <2>3. c \in S
    BY <2>1, <2>2 DEF Sizes
  <2>4. QED BY <2>3 DEF S
<1>3. ASSUME NEW c \in Sizes, c # InitialCapacity
      PROVE  c \div 2 \in Sizes /\ c = 2 * (c \div 2)
  <2> DEFINE S == {InitialCapacity} \cup {2 * d : d \in Sizes}
  <2>1. S \in SUBSET Nat
    BY <1>2, PollfdArrayAssumption
  <2>2. \A d \in S : d \in Sizes
    BY <1>1 DEF ClosedUnderDoubling
  <2>3. ClosedUnderDoubling(S)
    BY <2>2 DEF ClosedUnderDoubling
  <2>4. c \in S
    <3> HIDE DEF S
    <3>1. QED BY <2>1, <2>3 DEF Sizes
  <2>5. PICK d \in Sizes : c = 2 * d
    BY <1>3, <2>4
  <2>6. d \in Nat
    BY <1>2
  <2>7. QED BY <2>5, <2>6
<1>4. QED BY <1>1, <1>2, <1>3

(* The capacity is always one of the sizes.                                *)
CapacityIsASize == capacity \in Sizes

LEMMA CapacityDoubled == Spec => []CapacityIsASize
<1>1. Init => CapacityIsASize
  BY SizesAreDoublings
  DEF Init, pollfd_array_init, ClosedUnderDoubling, CapacityIsASize
<1>2. CapacityIsASize /\ [Next]_vars => CapacityIsASize'
  <2> SUFFICES ASSUME capacity \in Sizes, [Next]_vars PROVE capacity' \in Sizes
    BY DEF CapacityIsASize
  <2>1. ASSUME NEW i \in 1 .. Len(pollfds), CallDelete(i) PROVE capacity' \in Sizes
    <3>1. CASE MayShrink /\ capacity' = capacity \div 2
      <4>1. capacity # InitialCapacity
        BY <3>1, PollfdArrayAssumption DEF MayShrink
      <4>2. QED BY <3>1, <4>1, SizesAreDoublings
    <3>2. CASE UNCHANGED capacity
      BY <3>2
    <3>3. QED BY <2>1, <3>1, <3>2 DEF CallDelete, pollfd_array_delete
  <2>2. ASSUME NEW fd \in Descriptor, CallAppend(fd) PROVE capacity' \in Sizes
    <3>1. capacity' = capacity \/ capacity' = 2 * capacity
      BY <2>2 DEF CallAppend, AppendFails, pollfd_array_append
    <3>2. QED BY <3>1, SizesAreDoublings DEF ClosedUnderDoubling
  <2>3. CASE UNCHANGED vars
    BY <2>3 DEF vars
  <2>4. QED BY <2>1, <2>2, <2>3 DEF Next
<1>3. QED BY <1>1, <1>2, PTL DEF Spec

(* If no resize fails, memory is given back: a block larger than the       *)
(* initial one is more than half in use.                                   *)
THEOREM MemoryGivenBack == Spec => []CapacityTight
<1>1. Init => CapacityTight
  BY DEF Init, pollfd_array_init, CapacityTight
<1>2. TypeOK /\ CapacityCovers /\ CapacityIsASize /\ CapacityTight /\ [Next]_vars
        => CapacityTight'
  <2> DEFINE Tight == capacity = InitialCapacity \/ 2 * Len(pollfds) > capacity
  <2> SUFFICES ASSUME TypeOK, CapacityCovers, capacity \in Sizes, Tight,
                      [Next]_vars, "failed" \notin ReallocResults
               PROVE  Tight'
    BY DEF CapacityTight, CapacityIsASize
  <2> USE PollfdArrayAssumption DEF CapacityCovers, TypeOK
  <2>1. ASSUME NEW i \in 1 .. Len(pollfds), CallDelete(i)
        PROVE  Tight'
    <3>1. Len(pollfds') = Len(pollfds) - 1
      BY <2>1, SwapRemoveShape DEF CallDelete, pollfd_array_delete
    <3>2. CASE MayShrink
      BY <2>1, <3>1, <3>2 DEF CallDelete, pollfd_array_delete, MayShrink
    <3>3. CASE ~MayShrink
      <4>1. UNCHANGED capacity
        BY <2>1, <3>3 DEF CallDelete, pollfd_array_delete
      <4>2. capacity # InitialCapacity => capacity \div 2 >= InitialCapacity
        BY SizesAreDoublings
      <4>3. QED BY <3>1, <3>3, <4>1, <4>2 DEF MayShrink
    <3>4. QED BY <3>2, <3>3
  <2>2. ASSUME NEW fd \in Descriptor, CallAppend(fd)
        PROVE  Tight'
    <3>1. Len(pollfds') = Len(pollfds) + 1
      BY <2>2 DEF CallAppend, pollfd_array_append, AppendFails
    <3>2. QED BY <2>2, <3>1 DEF CallAppend, AppendFails, pollfd_array_append, MustGrow
  <2>3. CASE UNCHANGED vars
    BY <2>3 DEF vars
  <2>4. QED BY <2>1, <2>2, <2>3 DEF Next
<1>3. QED BY <1>1, <1>2, TypeCorrect, CapacitySafe, CapacityDoubled, PTL DEF Spec

(* Unless a resize moves the block, the array holds exactly what was       *)
(* appended and not deleted, each descriptor once, whatever swaps, resizes *)
(* and failed appends came before.                                         *)
THEOREM ArrayIsTheSet ==
  ASSUME "moved" \notin ReallocResults
  PROVE  Spec => []HoldsWhatWasAppended
<1>1. Init => HoldsWhatWasAppended
  BY DEF Init, pollfd_array_init, HoldsWhatWasAppended, Fds, NoRepeats, Occurs
<1>2. TypeOK /\ HoldsWhatWasAppended /\ [Next]_vars => HoldsWhatWasAppended'
  <2> SUFFICES ASSUME TypeOK, HoldsWhatWasAppended, [Next]_vars
               PROVE  HoldsWhatWasAppended'
    OBVIOUS
  <2> USE DEF HoldsWhatWasAppended
  <2>0. pollfds \in Seq(Pollfd(Descriptor))
    BY DEF TypeOK
  <2>1. ASSUME NEW i \in 1 .. Len(pollfds), CallDelete(i)
        PROVE  HoldsWhatWasAppended'
    <3>1. Fds(pollfds') = SwapRemove(Fds(pollfds), i)
      BY <2>0, <2>1, FdsOfDelete DEF CallDelete, pollfd_array_delete
    <3>2. /\ Fds(pollfds) \in Seq(Descriptor)
          /\ i \in 1 .. Len(Fds(pollfds))
          /\ Fds(pollfds)[i] = pollfds[i].fd
      BY <2>0, FdsShape
    <3>3. NoRepeats(Fds(pollfds'))
      BY <3>1, <3>2, SwapRemoveNoRepeats
    <3>4. \A fd \in Descriptor :
            Occurs(fd, Fds(pollfds')) <=> Occurs(fd, Fds(pollfds)) /\ fd # pollfds[i].fd
      BY <3>1, <3>2, SwapRemoveOccurs
    <3>5. held' = held \ {pollfds[i].fd}
      BY <2>1 DEF CallDelete
    <3>6. QED BY <3>3, <3>4, <3>5
  <2>2. ASSUME NEW fd \in Descriptor, CallAppend(fd)
        PROVE  HoldsWhatWasAppended'
    <3>1. CASE AppendFails /\ UNCHANGED held
      BY <3>1 DEF AppendFails
    <3>2. CASE pollfd_array_append(fd) /\ held' = held \cup {fd}
      <4>1. NewEntry(fd) \in Pollfd(Descriptor) /\ NewEntry(fd).fd = fd
        BY DEF NewEntry, Pollfd
      <4>2. pollfds' = Append(pollfds, NewEntry(fd))
        BY <3>2 DEF pollfd_array_append
      <4>3. ~Occurs(fd, Fds(pollfds))
        BY <2>2 DEF CallAppend
      <4>4. /\ NoRepeats(Fds(pollfds'))
            /\ \A e : Occurs(e, Fds(pollfds')) <=> e = fd \/ Occurs(e, Fds(pollfds))
        BY <2>0, <4>1, <4>2, <4>3, FdsOfAppend
      <4>5. QED BY <3>2, <4>4
    <3>3. QED BY <2>2, <3>1, <3>2 DEF CallAppend
  <2>3. CASE UNCHANGED vars
    BY <2>3 DEF vars
  <2>4. QED BY <2>1, <2>2, <2>3 DEF Next
<1>3. QED BY <1>1, <1>2, TypeCorrect, PTL DEF Spec
=============================================================================
