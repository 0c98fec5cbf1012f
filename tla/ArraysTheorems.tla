--------------------------- MODULE ArraysTheorems ---------------------------
(***************************************************************************)
(* What deleting by swapping in the last element does to an array: facts   *)
(* about SwapRemove on which the proofs about the poll array and the rooms *)
(* rest.  And what append and delete of the poll array do to the           *)
(* descriptors in it, for any caller.                                      *)
(***************************************************************************)
EXTENDS PollfdArray, TLAPS

(* The result is one shorter and holds elements of the same kind, each     *)
(* position but the deleted one unchanged.                                 *)
LEMMA SwapRemoveShape ==
  ASSUME NEW S, NEW s \in Seq(S), NEW i \in 1 .. Len(s)
  PROVE  /\ SwapRemove(s, i) \in Seq(S)
         /\ Len(SwapRemove(s, i)) = Len(s) - 1
         /\ \A k \in 1 .. (Len(s) - 1) :
              SwapRemove(s, i)[k] = IF k = i THEN s[Len(s)] ELSE s[k]
BY DEF SwapRemove

(* The type needs no legal position: a position past the end drops the     *)
(* last element.                                                           *)
LEMMA SwapRemoveType ==
  ASSUME NEW S, NEW s \in Seq(S), NEW i
  PROVE  SwapRemove(s, i) \in Seq(S)
BY DEF SwapRemove

(* Deleting keeps the elements distinct.                                   *)
LEMMA SwapRemoveNoRepeats ==
  ASSUME NEW S, NEW s \in Seq(S), NEW i \in 1 .. Len(s), NoRepeats(s)
  PROVE  NoRepeats(SwapRemove(s, i))
<1> DEFINE t == SwapRemove(s, i)
<1>1. /\ Len(s) \in Nat /\ Len(t) = Len(s) - 1
      /\ \A k \in 1 .. (Len(s) - 1) : t[k] = IF k = i THEN s[Len(s)] ELSE s[k]
  <2>1. Len(s) \in Nat
    OBVIOUS
  <2>2. QED BY <2>1, SwapRemoveShape, Zenon
<1> HIDE DEF t
<1>2. ASSUME NEW j \in 1 .. Len(t), NEW k \in 1 .. Len(t), t[j] = t[k]
      PROVE  j = k
  <2>1. \A a, b \in 1 .. Len(s) : s[a] = s[b] => a = b
    BY DEF NoRepeats
  <2>2. CASE j = i
    <3>1. t[j] = s[Len(s)]
      BY <1>1, <2>2
    <3>2. QED BY <1>1, <1>2, <2>1, <2>2, <3>1
  <2>3. CASE k = i
    <3>1. t[k] = s[Len(s)]
      BY <1>1, <2>3
    <3>2. QED BY <1>1, <1>2, <2>1, <2>3, <3>1
  <2>4. CASE j # i /\ k # i
    BY <1>1, <1>2, <2>1, <2>4
  <2>5. QED BY <2>2, <2>3, <2>4
<1>3. QED BY <1>2 DEF NoRepeats, t

(* If they are distinct, exactly the deleted element is gone.              *)
LEMMA SwapRemoveOccurs ==
  ASSUME NEW S, NEW s \in Seq(S), NEW i \in 1 .. Len(s), NoRepeats(s), NEW e
  PROVE  Occurs(e, SwapRemove(s, i)) <=> Occurs(e, s) /\ e # s[i]
<1> DEFINE t == SwapRemove(s, i)
<1>1. /\ Len(s) \in Nat /\ Len(t) = Len(s) - 1
      /\ \A k \in 1 .. (Len(s) - 1) : t[k] = IF k = i THEN s[Len(s)] ELSE s[k]
  <2>1. Len(s) \in Nat
    OBVIOUS
  <2>2. QED BY <2>1, SwapRemoveShape, Zenon
<1>2. ASSUME Occurs(e, t) PROVE Occurs(e, s) /\ e # s[i]
  <2>1. PICK k \in 1 .. Len(t) : t[k] = e BY <1>2 DEF Occurs
  <2>2. CASE k = i BY <1>1, <2>1, <2>2 DEF NoRepeats, Occurs
  <2>3. CASE k # i BY <1>1, <2>1, <2>3 DEF NoRepeats, Occurs
  <2>4. QED BY <2>2, <2>3
<1>3. ASSUME Occurs(e, s), e # s[i] PROVE Occurs(e, t)
  <2>1. PICK k \in 1 .. Len(s) : s[k] = e BY <1>3 DEF Occurs
  <2>2. CASE k = Len(s)
    <3>1. i \in 1 .. Len(t) /\ t[i] = e BY <1>1, <1>3, <2>1, <2>2
    <3>2. QED BY <3>1 DEF Occurs
  <2>3. CASE k # Len(s)
    <3>1. k \in 1 .. Len(t) /\ t[k] = e BY <1>1, <1>3, <2>1, <2>3
    <3>2. QED BY <3>1 DEF Occurs
  <2>4. QED BY <2>2, <2>3
<1>4. QED BY <1>2, <1>3

(* Appending an element that does not occur keeps the elements distinct    *)
(* and adds that one.                                                      *)
LEMMA AppendNew ==
  ASSUME NEW S, NEW s \in Seq(S), NEW e \in S, NoRepeats(s), ~Occurs(e, s)
  PROVE  /\ NoRepeats(Append(s, e))
         /\ \A f : Occurs(f, Append(s, e)) <=> f = e \/ Occurs(f, s)
<1> DEFINE t == Append(s, e)
<1>1. /\ Len(s) \in Nat /\ Len(t) = Len(s) + 1
      /\ \A k \in 1 .. (Len(s) + 1) : t[k] = IF k = Len(s) + 1 THEN e ELSE s[k]
  OBVIOUS
<1> HIDE DEF t
<1>2. NoRepeats(t) BY <1>1 DEF NoRepeats, Occurs
<1>3. ASSUME NEW f PROVE Occurs(f, t) <=> f = e \/ Occurs(f, s)
  BY <1>1 DEF Occurs
<1>4. QED BY <1>2, <1>3 DEF t

-----------------------------------------------------------------------------
(* The descriptors of an array of entries are a sequence as long.          *)
LEMMA FdsShape ==
  ASSUME NEW D, NEW s \in Seq(Pollfd(D))
  PROVE  /\ Fds(s) \in Seq(D)
         /\ Len(Fds(s)) = Len(s)
         /\ \A k \in 1 .. Len(s) : Fds(s)[k] = s[k].fd /\ s[k] \in Pollfd(D)
<1>1. Len(s) \in Nat /\ \A k \in 1 .. Len(s) : s[k] \in Pollfd(D)
  OBVIOUS
<1>2. \A k \in 1 .. Len(s) : s[k].fd \in D
  BY <1>1 DEF Pollfd
<1>3. QED BY <1>1, <1>2 DEF Fds

(* Deleting an entry deletes its descriptor.                               *)
LEMMA FdsOfDelete ==
  ASSUME NEW D, NEW s \in Seq(Pollfd(D)), NEW j \in 1 .. Len(s)
  PROVE  Fds(SwapRemove(s, j)) = SwapRemove(Fds(s), j)
<1>1. /\ Len(SwapRemove(s, j)) = Len(s) - 1
      /\ \A k \in 1 .. (Len(s) - 1) :
           SwapRemove(s, j)[k] = IF k = j THEN s[Len(s)] ELSE s[k]
  BY SwapRemoveShape
<1>2. Fds(SwapRemove(s, j)) =
        [k \in 1 .. (Len(s) - 1) |-> IF k = j THEN s[Len(s)].fd ELSE s[k].fd]
  BY <1>1 DEF Fds
<1>3. SwapRemove(Fds(s), j) =
        [k \in 1 .. (Len(s) - 1) |-> IF k = j THEN s[Len(s)].fd ELSE s[k].fd]
  BY DEF Fds, SwapRemove
<1>4. QED BY <1>2, <1>3

(* Appending an entry whose descriptor is not in the array adds exactly    *)
(* that descriptor.                                                        *)
LEMMA FdsOfAppend ==
  ASSUME NEW D, NEW s \in Seq(Pollfd(D)), NEW e \in Pollfd(D),
         NoRepeats(Fds(s)), ~Occurs(e.fd, Fds(s))
  PROVE  /\ NoRepeats(Fds(Append(s, e)))
         /\ \A fd : Occurs(fd, Fds(Append(s, e))) <=> fd = e.fd \/ Occurs(fd, Fds(s))
<1>1. Append(s, e) \in Seq(Pollfd(D)) /\ Len(Append(s, e)) = Len(s) + 1
  OBVIOUS
<1>2. Fds(Append(s, e)) = Append(Fds(s), e.fd)
  BY <1>1 DEF Fds
<1>3. Fds(s) \in Seq(D) /\ e.fd \in D
  BY FdsShape DEF Pollfd
<1>4. QED BY <1>2, <1>3, AppendNew
=============================================================================
