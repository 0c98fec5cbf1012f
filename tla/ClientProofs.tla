---------------------------- MODULE ClientProofs ----------------------------
(***************************************************************************)
(* Proofs about the client: whatever is typed, in lines of any number of   *)
(* pieces, from a terminal or a pipe, and whatever the server does, what   *)
(* the client sends is what was typed, in order, and it prints what it was *)
(* sent.                                                                   *)
(*                                                                         *)
(* Lines become pieces by flattening, so the lemmas about FlattenSeq come  *)
(* first.  It is a recursive function: what is to be shown of it is shown  *)
(* by induction over a set of naturals.                                    *)
(***************************************************************************)
EXTENDS ClientRefinement, SequenceTheorems, WellFoundedInduction, TLAPS

(* Induction over the naturals, of a set instead of a predicate.           *)
LEMMA InductionOverSet ==
  ASSUME NEW T, 0 \in T, \A n \in Nat : n \in T => n + 1 \in T
  PROVE  Nat \subseteq T
<1> DEFINE Missing == {n \in Nat : n \notin T}
<1>1. SUFFICES ASSUME Missing # {} PROVE FALSE
  BY Zenon
<1>2. PICK m \in Missing : \A n \in Missing : ~(<<n, m>> \in OpToRel(<, Nat))
  BY <1>1, NatLessThanWellFounded, WFMin, Zenon
<1>3. m \in Nat /\ m \notin T /\ m # 0
  BY <1>2
<1>4. m - 1 \in Nat /\ m - 1 < m /\ (m - 1) + 1 = m
  BY <1>3
<1>5. m - 1 \notin Missing
  BY <1>2, <1>3, <1>4 DEF OpToRel
<1>6. QED BY <1>3, <1>4, <1>5

(* The function FlattenSeq builds, up to the n-th sequence.                *)
Flattens(f, s, n) ==
  f = [k \in 1 .. n |-> IF k = 1 THEN s[k] ELSE f[k - 1] \o s[k]]

LEMMA FlattensAt ==
  ASSUME NEW f, NEW s, NEW n, Flattens(f, s, n)
  PROVE  \A k \in 1 .. n : f[k] = IF k = 1 THEN s[k] ELSE f[k - 1] \o s[k]
<1> DEFINE G(h) == [j \in 1 .. n |-> IF j = 1 THEN s[j] ELSE h[j - 1] \o s[j]]
<1>1. \A k \in 1 .. n : \A h : G(h)[k] = IF k = 1 THEN s[k] ELSE h[k - 1] \o s[k]
  OBVIOUS
<1>2. f = G(f)
  BY Zenon DEF Flattens
<1>3. \A k \in 1 .. n : f[k] = G(f)[k]
  BY ONLY <1>2, Zenon
<1> HIDE DEF G
<1>4. QED BY <1>1, <1>3

LEMMA FlattensExists ==
  ASSUME NEW s, NEW n \in Nat
  PROVE  \E f : Flattens(f, s, n)
<1> DEFINE T == {m \in Nat : \E f : Flattens(f, s, m)}
<1>1. 0 \in T
  <2>1. Flattens([k \in 1 .. 0 |-> s[k]], s, 0)
    BY DEF Flattens
  <2>2. QED BY <2>1
<1>2. ASSUME NEW m \in Nat, m \in T PROVE m + 1 \in T
  <2>1. PICK f : Flattens(f, s, m)
    BY <1>2
  <2>2. PICK g : g = [k \in 1 .. m + 1 |-> IF k = 1 THEN s[k] ELSE f[k - 1] \o s[k]]
    OBVIOUS
  <2>3. \A k \in 1 .. m : g[k] = f[k]
    <3>1. TAKE k \in 1 .. m
    <3>2. g[k] = IF k = 1 THEN s[k] ELSE f[k - 1] \o s[k]
      BY <2>2
    <3>3. f[k] = IF k = 1 THEN s[k] ELSE f[k - 1] \o s[k]
      BY <2>1, FlattensAt
    <3>4. QED BY <3>2, <3>3
  <2>4. \A k \in 1 .. m + 1 : k # 1 => k - 1 \in 1 .. m
    OBVIOUS
  <2>5. g = [k \in 1 .. m + 1 |-> IF k = 1 THEN s[k] ELSE g[k - 1] \o s[k]]
    BY <2>2, <2>3, <2>4
  <2>6. Flattens(g, s, m + 1)
    BY <2>5, Zenon DEF Flattens
  <2>7. QED BY <2>6
<1>3. QED BY <1>1, <1>2, InductionOverSet

LEMMA FlattenByParts ==
  ASSUME NEW s, Len(s) \in Nat, Len(s) # 0
  PROVE  \E f : Flattens(f, s, Len(s)) /\ FlattenSeq(s) = f[Len(s)]
<1> DEFINE F == CHOOSE f : f = [k \in 1 .. Len(s) |-> IF k = 1 THEN s[k] ELSE f[k - 1] \o s[k]]
<1>1. F = [k \in 1 .. Len(s) |-> IF k = 1 THEN s[k] ELSE F[k - 1] \o s[k]]
  BY FlattensExists, Zenon DEF Flattens
<1>2. FlattenSeq(s) = F[Len(s)]
  BY Zenon DEF FlattenSeq
<1>3. QED BY <1>1, <1>2, Zenon DEF Flattens

LEMMA FlattensAgree ==
  ASSUME NEW s, NEW t, NEW f, NEW g, NEW m \in Nat, NEW n \in Nat, m <= n,
         Flattens(f, s, m), Flattens(g, t, n), \A k \in 1 .. m : s[k] = t[k]
  PROVE  \A k \in 1 .. m : f[k] = g[k]
<1> DEFINE T == {k \in Nat : k \in 1 .. m => f[k] = g[k]}
<1>1. 0 \in T
  OBVIOUS
<1>2. ASSUME NEW k \in Nat, k \in T PROVE k + 1 \in T
  <2>1. SUFFICES ASSUME k + 1 \in 1 .. m PROVE f[k + 1] = g[k + 1]
    OBVIOUS
  <2>2. s[k + 1] = t[k + 1] /\ k + 1 \in 1 .. n
    BY <2>1
  <2>3. CASE k = 0
    <3>1. f[1] = s[1] /\ g[1] = t[1]
      BY <2>1, <2>2, <2>3, FlattensAt
    <3>2. QED BY <2>2, <2>3, <3>1
  <2>4. CASE k # 0
    <3>0. PICK j : j = k + 1
      OBVIOUS
    <3>1. /\ k \in 1 .. m /\ f[k] = g[k] /\ j - 1 = k /\ j # 1
          /\ j \in 1 .. m /\ j \in 1 .. n
      BY <1>2, <2>1, <2>2, <2>4, <3>0
    <3>2. \A q \in 1 .. m : f[q] = IF q = 1 THEN s[q] ELSE f[q - 1] \o s[q]
      BY FlattensAt
    <3>3. \A q \in 1 .. n : g[q] = IF q = 1 THEN t[q] ELSE g[q - 1] \o t[q]
      BY FlattensAt
    <3>4. QED BY <2>2, <3>0, <3>1, <3>2, <3>3
  <2>5. QED BY <2>3, <2>4
<1>3. Nat \subseteq T
  <2> HIDE DEF T
  <2>1. QED BY <1>1, <1>2, InductionOverSet
<1>4. QED BY <1>3

LEMMA FlattenType ==
  ASSUME NEW S, NEW s \in Seq(Seq(S))
  PROVE  FlattenSeq(s) \in Seq(S)
<1>1. CASE Len(s) = 0
  <2>1. FlattenSeq(s) = << >>
    BY <1>1, EmptySeq DEF FlattenSeq
  <2>2. QED BY <2>1, EmptySeq
<1>2. CASE Len(s) # 0
  <2>0. Len(s) \in Nat /\ \A k \in 1 .. Len(s) : s[k] \in Seq(S)
    OBVIOUS
  <2>1. PICK f : Flattens(f, s, Len(s)) /\ FlattenSeq(s) = f[Len(s)]
    BY <1>2, <2>0, FlattenByParts
  <2> DEFINE T == {k \in Nat : k \in 1 .. Len(s) => f[k] \in Seq(S)}
  <2>2. 0 \in T
    OBVIOUS
  <2>3. ASSUME NEW k \in Nat, k \in T PROVE k + 1 \in T
    <3>1. SUFFICES ASSUME k + 1 \in 1 .. Len(s) PROVE f[k + 1] \in Seq(S)
      OBVIOUS
    <3>2. s[k + 1] \in Seq(S)
      BY <2>0, <3>1
    <3>3. CASE k = 0
      BY <2>1, <3>1, <3>2, <3>3, FlattensAt
    <3>4. CASE k # 0
      <4>0. PICK j : j = k + 1
        OBVIOUS
      <4>1. /\ k \in 1 .. Len(s) /\ f[k] \in Seq(S) /\ j - 1 = k /\ j # 1
            /\ j \in 1 .. Len(s)
        BY <2>0, <2>3, <3>1, <3>4, <4>0
      <4>2. \A q \in 1 .. Len(s) : f[q] = IF q = 1 THEN s[q] ELSE f[q - 1] \o s[q]
        BY <2>1, FlattensAt, SMTT(30)
      <4>3. PICK a, b : a = f[k] /\ b = s[j]
        OBVIOUS
      <4>4. a \in Seq(S) /\ b \in Seq(S)
        BY <3>2, <4>0, <4>1, <4>3
      <4>5. a \o b \in Seq(S)
        BY <4>4, ConcatProperties
      <4>6. f[j] = a \o b
        BY <4>1, <4>2, <4>3
      <4>7. QED BY <4>0, <4>5, <4>6
    <3>5. QED BY <3>3, <3>4
  <2>4. Len(s) \in T
    BY <2>0, <2>2, <2>3, InductionOverSet
  <2>5. QED BY <1>2, <2>0, <2>1, <2>4
<1>3. QED BY <1>1, <1>2

LEMMA FlattenAppend ==
  ASSUME NEW S, NEW s \in Seq(Seq(S)), NEW x \in Seq(S)
  PROVE  FlattenSeq(Append(s, x)) = FlattenSeq(s) \o x
<1>0. PICK t : t = Append(s, x)
  OBVIOUS
<1>1. /\ t \in Seq(Seq(S)) /\ Len(t) = Len(s) + 1 /\ Len(t) # 0
      /\ Len(s) \in Nat /\ Len(t) \in Nat
      /\ t[Len(s) + 1] = x /\ \A k \in 1 .. Len(s) : s[k] = t[k]
  BY <1>0, AppendProperties
<1>2. PICK f : Flattens(f, t, Len(t)) /\ FlattenSeq(t) = f[Len(t)]
  BY <1>1, FlattenByParts
<1>3. CASE Len(s) = 0
  <2>1. s = << >> /\ FlattenSeq(s) = s
    BY <1>3, EmptySeq DEF FlattenSeq
  <2>2. f[1] = x
    BY <1>1, <1>2, <1>3, FlattensAt
  <2>3. QED BY <1>0, <1>1, <1>2, <1>3, <2>1, <2>2, ConcatEmptySeq
<1>4. CASE Len(s) # 0
  <2>1. PICK g : Flattens(g, s, Len(s)) /\ FlattenSeq(s) = g[Len(s)]
    BY <1>1, <1>4, FlattenByParts
  <2>2. g[Len(s)] = f[Len(s)]
    <3>1. \A k \in 1 .. Len(s) : g[k] = f[k]
      <4>1. PICK m, n : m = Len(s) /\ n = Len(t)
        OBVIOUS
      <4>2. m \in Nat /\ n \in Nat /\ m <= n /\ \A k \in 1 .. m : s[k] = t[k]
        BY <1>1, <4>1
      <4>3. Flattens(g, s, m) /\ Flattens(f, t, n)
        BY <1>2, <2>1, <4>1, Zenon
      <4>4. \A k \in 1 .. m : g[k] = f[k]
        BY <4>2, <4>3, FlattensAgree, SMTT(30)
      <4>5. QED BY <4>1, <4>4
    <3>2. Len(s) \in 1 .. Len(s)
      BY <1>1, <1>4
    <3>3. QED BY <3>1, <3>2
  <2>3. f[Len(t)] = f[Len(s)] \o x
    <3>0. PICK j : j = Len(t)
      OBVIOUS
    <3>1. j \in 1 .. Len(t) /\ j # 1 /\ j - 1 = Len(s) /\ t[j] = x
      BY <1>1, <1>4, <3>0
    <3>2. \A q \in 1 .. Len(t) : f[q] = IF q = 1 THEN t[q] ELSE f[q - 1] \o t[q]
      BY <1>2, FlattensAt
    <3>3. QED BY <3>0, <3>1, <3>2
  <2>4. QED BY <1>0, <1>2, <2>1, <2>2, <2>3
<1>5. QED BY <1>3, <1>4

LEMMA FlattenConcat ==
  ASSUME NEW S, NEW s \in Seq(Seq(S)), NEW t \in Seq(Seq(S))
  PROVE  FlattenSeq(s \o t) = FlattenSeq(s) \o FlattenSeq(t)
<1> DEFINE Splits(u) == FlattenSeq(s \o u) = FlattenSeq(s) \o FlattenSeq(u)
<1> DEFINE T == {n \in Nat : \A u \in Seq(Seq(S)) : Len(u) = n => Splits(u)}
<1>0. FlattenSeq(s) \in Seq(S)
  BY FlattenType
<1>1. 0 \in T
  <2>1. ASSUME NEW u \in Seq(Seq(S)), Len(u) = 0 PROVE Splits(u)
    <3>1. u = << >> /\ FlattenSeq(u) = u
      BY <2>1, EmptySeq DEF FlattenSeq
    <3>2. s \o << >> = s /\ FlattenSeq(s) \o << >> = FlattenSeq(s)
      BY <1>0, ConcatEmptySeq
    <3>3. QED BY <3>1, <3>2
  <2>2. QED BY <2>1
<1>2. ASSUME NEW n \in Nat, n \in T PROVE n + 1 \in T
  <2>1. SUFFICES ASSUME NEW u \in Seq(Seq(S)), Len(u) = n + 1 PROVE Splits(u)
    OBVIOUS
  <2>2. PICK v, x : v = SubSeq(u, 1, n) /\ x = u[n + 1]
    OBVIOUS
  <2>3. v \in Seq(Seq(S)) /\ Len(v) = n /\ x \in Seq(S) /\ \A k \in 1 .. n : v[k] = u[k]
    BY <2>1, <2>2, SubSeqProperties
  <2>4. u = Append(v, x)
    BY <2>1, <2>2, <2>3, AppendProperties, SeqEqual
  <2>5. s \o v \in Seq(Seq(S)) /\ s \o Append(v, x) = Append(s \o v, x)
    <3>1. s \o v \in Seq(Seq(S))
      BY <2>3, ConcatProperties
    <3>2. Append(v, x) = v \o <<x>> /\ Append(s \o v, x) = (s \o v) \o <<x>> /\ <<x>> \in Seq(Seq(S))
      BY <2>3, <3>1, AppendIsConcat
    <3>3. QED BY <2>3, <3>1, <3>2, SMTT(30)
  <2>6. FlattenSeq(v) \in Seq(S) /\ Splits(v)
    BY <1>2, <2>3, FlattenType
  <2>7. FlattenSeq(Append(s \o v, x)) = (FlattenSeq(s) \o FlattenSeq(v)) \o x
    BY <2>3, <2>5, <2>6, FlattenAppend
  <2>8. FlattenSeq(u) = FlattenSeq(v) \o x
    BY <2>3, <2>4, FlattenAppend
  <2>9. (FlattenSeq(s) \o FlattenSeq(v)) \o x = FlattenSeq(s) \o (FlattenSeq(v) \o x)
    <3>1. PICK a, b : a = FlattenSeq(s) /\ b = FlattenSeq(v)
      OBVIOUS
    <3>2. a \in Seq(S) /\ b \in Seq(S) /\ x \in Seq(S)
      BY <1>0, <2>3, <2>6, <3>1
    <3>3. (a \o b) \o x = a \o (b \o x)
      BY <3>2, SMTT(30)
    <3>4. QED BY <3>1, <3>3
  <2>10. s \o u = Append(s \o v, x)
    BY <2>4, <2>5
  <2>11. QED BY <2>7, <2>8, <2>9, <2>10
<1>3. Len(t) \in Nat
  OBVIOUS
<1>4. Len(t) \in T
  BY <1>1, <1>2, <1>3, InductionOverSet
<1>5. QED BY <1>4

-----------------------------------------------------------------------------
(***************************************************************************)
(* Types.                                                                  *)
(***************************************************************************)
LEMMA LinesArePieces ==
  \A l \in Lines : l \in Seq(Pieces) /\ Len(l) > 0
<1>1. SUFFICES ASSUME NEW l \in Lines PROVE l \in Seq(Pieces) /\ Len(l) > 0
  OBVIOUS
<1>2. l \in Seq(Range(l)) /\ Len(l) > 0
  BY ClientAssumption
<1>3. Range(l) \subseteq Pieces
  BY DEF Pieces
<1>4. QED BY <1>2, <1>3, SeqMonotonic

LEMMA FlattenFirst ==
  ASSUME NEW S, NEW s \in Seq(Seq(S)), Len(s) > 0
  PROVE  FlattenSeq(s) = Head(s) \o FlattenSeq(Tail(s))
<1>1. PICK h, t : h = Head(s) /\ t = Tail(s)
  OBVIOUS
<1>2. h \in Seq(S) /\ t \in Seq(Seq(S))
  BY <1>1, EmptySeq, HeadTailProperties
<1>3. <<h>> \in Seq(Seq(S)) /\ Len(<<h>>) = 1 /\ <<h>>[1] = h
  BY <1>2
<1>4. s = <<h>> \o t
  BY <1>1, <1>2, <1>3, EmptySeq, HeadTailProperties, ConcatProperties, SeqEqual
<1>5. FlattenSeq(<<h>>) = h
  <2>1. <<h>> = Append(<< >>, h) /\ << >> \in Seq(Seq(S)) /\ << >> \in Seq(S) /\ Len(<< >>) = 0
    BY EmptySeq
  <2>2. FlattenSeq(<< >>) = << >>
    BY <2>1 DEF FlattenSeq
  <2>3. FlattenSeq(Append(<< >>, h)) = FlattenSeq(<< >>) \o h
    BY <1>2, <2>1, FlattenAppend
  <2>4. << >> \o h = h
    BY <1>2, ConcatEmptySeq
  <2>5. QED BY <2>1, <2>2, <2>3, <2>4
<1>6. FlattenSeq(<<h>> \o t) = FlattenSeq(<<h>>) \o FlattenSeq(t)
  BY <1>2, <1>3, FlattenConcat
<1>7. QED BY <1>1, <1>4, <1>5, <1>6

(* What a read() returns has something in it, and the lines keep it.       *)
LEMMA WhatIsRead ==
  ASSUME typed \in Seq(Lines), Len(typed) > 0, NEW input, NEW rest,
         input = ReadInput(typed)[1], rest = ReadInput(typed)[2]
  PROVE  /\ input \in Seq(Pieces) /\ Len(input) > 0
         /\ rest \in Seq(Lines)
         /\ FlattenSeq(typed) = input \o FlattenSeq(rest)
<1>1. typed \in Seq(Seq(Pieces))
  <2>1. Lines \subseteq Seq(Pieces)
    BY LinesArePieces
  <2>2. QED BY <2>1, SeqMonotonic
<1>2. Head(typed) \in Lines /\ Tail(typed) \in Seq(Lines)
  BY EmptySeq, HeadTailProperties
<1>3. PICK h, t : h = Head(typed) /\ t = Tail(typed)
  OBVIOUS
<1>4. h \in Seq(Pieces) /\ Len(h) > 0 /\ t \in Seq(Lines)
  BY <1>2, <1>3, LinesArePieces
<1>5. FlattenSeq(typed) = h \o FlattenSeq(t)
  BY <1>1, <1>3, FlattenFirst
<1>6. CASE stdin.terminal
  <2>1. input = h /\ rest = t
    BY <1>3, <1>6 DEF ReadInput
  <2>2. QED BY <1>4, <1>5, <2>1
<1>7. CASE ~stdin.terminal
  <2>1. input = FlattenSeq(typed) /\ rest = << >>
    BY <1>7 DEF ReadInput
  <2>2. input \in Seq(Pieces)
    BY <1>1, <2>1, FlattenType
  <2>3. Len(input) > 0
    <3>1. t \in Seq(Seq(Pieces))
      BY <1>1, <1>3, EmptySeq, HeadTailProperties
    <3>2. PICK u : u = FlattenSeq(t)
      OBVIOUS
    <3>3. u \in Seq(Pieces)
      BY <3>1, <3>2, FlattenType
    <3>4. Len(h \o u) = Len(h) + Len(u)
      BY <1>4, <3>3, ConcatProperties
    <3>5. Len(h) \in Nat /\ Len(u) \in Nat
      BY <1>4, <3>3
    <3>6. QED BY <1>4, <1>5, <2>1, <3>2, <3>4, <3>5
  <2>4. FlattenSeq(rest) = << >> /\ rest \in Seq(Lines)
    <3>1. Len(<< >>) = 0 /\ << >> \in Seq(Lines)
      BY EmptySeq
    <3>2. QED BY <2>1, <3>1 DEF FlattenSeq
  <2>5. input \o << >> = input
    BY <2>2, ConcatEmptySeq
  <2>6. QED BY <2>1, <2>2, <2>3, <2>4, <2>5
<1>8. QED BY <1>6, <1>7

(* What handle_input takes, from the stdio buffer or from the kernel.      *)
Takes(input, rest) ==
  \/ input = stdio /\ rest = typed /\ Len(stdio) > 0
  \/ /\ Len(stdio) = 0 /\ Len(typed) > 0
     /\ input = ReadInput(typed)[1] /\ rest = ReadInput(typed)[2]

TakesPiece ==
  /\ ReadyAt(2)
  /\ \E input, rest : Takes(input, rest) /\ HandlePiece(input, rest)
  /\ begun' \in {begun, BegunAfterRead}
  /\ UNCHANGED <<revents, sent, printed, stdin, inbox, server, unread, lines, nserver>>

TakesEnd ==
  /\ ReadyAt(2)
  /\ Len(stdio) = 0 /\ Len(typed) = 0 /\ stdin.ended
  /\ status' = "end_of_input"
  /\ UNCHANGED <<i, stdio, sending, handled, typed, begun>>
  /\ UNCHANGED <<revents, sent, printed, stdin, inbox, server, unread, lines, nserver>>

LEMMA InputCases ==
  ASSUME TypeOK, handle_input
  PROVE  TakesPiece \/ TakesEnd
<1>1. /\ stdio # << >> <=> Len(stdio) > 0
      /\ typed # << >> <=> Len(typed) > 0
      /\ stdio = << >> <=> Len(stdio) = 0
      /\ typed = << >> <=> Len(typed) = 0
  <2>1. stdio \in Seq(Pieces) /\ typed \in Seq(Lines)
    BY DEF TypeOK
  <2>2. QED BY <2>1, EmptySeq
<1>2. CASE FromBuffer
  <2>1. Takes(stdio, typed)
    BY <1>1, <1>2 DEF Takes, FromBuffer
  <2>2. begun' \in {begun, BegunAfterRead}
    BY <1>2 DEF FromBuffer
  <2>3. QED BY <1>2, <2>1, <2>2, Zenon DEF handle_input, TakesPiece, FromBuffer
<1>3. CASE FromRead
  <2>1. Takes(ReadInput(typed)[1], ReadInput(typed)[2])
    BY <1>1, <1>3, Zenon DEF Takes, FromRead
  <2>2. begun' \in {begun, BegunAfterRead}
    BY <1>3 DEF FromRead
  <2>3. QED BY <1>3, <2>1, <2>2, Zenon DEF handle_input, TakesPiece, FromRead
<1>4. CASE /\ stdio = << >> /\ typed = << >> /\ stdin.ended
           /\ status' = "end_of_input"
           /\ UNCHANGED <<i, stdio, sending, handled, typed, begun>>
  BY <1>1, <1>4, Zenon DEF handle_input, TakesEnd
<1>5. QED BY <1>2, <1>3, <1>4, Zenon DEF handle_input

LEMMA WhatIsTaken ==
  ASSUME TypeOK, NEW input, NEW rest, Takes(input, rest)
  PROVE  /\ input \in Seq(Pieces) /\ Len(input) > 0
         /\ rest \in Seq(Lines)
         /\ Head(input) \in Pieces /\ Tail(input) \in Seq(Pieces)
         /\ input \o FlattenSeq(rest) = stdio \o FlattenSeq(typed)
<1>1. stdio \in Seq(Pieces) /\ typed \in Seq(Lines)
  BY DEF TypeOK
<1>2. /\ input \in Seq(Pieces) /\ Len(input) > 0
      /\ rest \in Seq(Lines)
      /\ input \o FlattenSeq(rest) = stdio \o FlattenSeq(typed)
  <2>1. CASE input = stdio /\ rest = typed /\ Len(stdio) > 0
    BY <1>1, <2>1
  <2>2. CASE /\ Len(stdio) = 0 /\ Len(typed) > 0
             /\ input = ReadInput(typed)[1] /\ rest = ReadInput(typed)[2]
    <3>1. /\ input \in Seq(Pieces) /\ Len(input) > 0
          /\ rest \in Seq(Lines)
          /\ FlattenSeq(typed) = input \o FlattenSeq(rest)
      BY <1>1, <2>2, WhatIsRead
    <3>2. FlattenSeq(typed) \in Seq(Pieces)
      <4>1. Lines \subseteq Seq(Pieces)
        BY LinesArePieces
      <4>2. typed \in Seq(Seq(Pieces))
        BY <1>1, <4>1, SeqMonotonic
      <4>3. QED BY <4>2, FlattenType
    <3>3. PICK all : all = FlattenSeq(typed)
      OBVIOUS
    <3>4. stdio = << >> /\ << >> \o all = all
      BY <1>1, <2>2, <3>2, <3>3, EmptySeq, ConcatEmptySeq
    <3>5. QED BY <3>1, <3>3, <3>4
  <2>3. QED BY <2>1, <2>2 DEF Takes
<1>3. Head(input) \in Pieces /\ Tail(input) \in Seq(Pieces)
  BY <1>2, EmptySeq, HeadTailProperties
<1>4. QED BY <1>2, <1>3

(* The parts of TypeOK an action can disturb.                              *)
ProcessType ==
  /\ i \in 1 .. 3
  /\ revents \in [1 .. 2 -> SUBSET {"IN", "HUP"}]
  /\ status \in {"running", "poll_failed", "hung_up", "server_closed",
                 "end_of_input", "exited", "sigpipe", "send_failed"}

InputType ==
  /\ handled \in Seq(Pieces) /\ stdio \in Seq(Pieces)
  /\ typed \in Seq(Lines) /\ lines \in Seq(Lines)
  /\ begun \in {"no", "unread", "read"}
  /\ stdin \in [terminal : BOOLEAN, ended : BOOLEAN]

SendType ==
  /\ sending \in {Request(p) : p \in Pieces} \cup {NoMessage}
  /\ sent \in Seq({Request(p) : p \in Pieces} \ {NoMessage})

ServerType ==
  /\ server \in {"open", "fin", "rst"}
  /\ unread \in 0 .. SockBuf
  /\ nserver \in 0 .. Len(ServerSends)
  /\ inbox \in Seq(Range(ServerSends)) /\ printed \in Seq(Range(ServerSends))

LEMMA TypeParts == TypeOK <=> ProcessType /\ InputType /\ SendType /\ ServerType
  BY DEF TypeOK, ProcessType, InputType, SendType, ServerType

LEMMA TypePartsNext ==
  ASSUME ProcessType', InputType', SendType', ServerType'
  PROVE  TypeOK'
  BY DEF TypeOK, ProcessType, InputType, SendType, ServerType

LEMMA TypePoll ==
  ASSUME TypeOK, Poll \/ Skip \/ HangUp \/ PollFails
  PROVE  TypeOK'
<1>0. ProcessType /\ InputType /\ SendType /\ ServerType
  BY TypeParts
<1>1. ProcessType'
  <2>1. CASE Poll
    <3>1. PollServer \subseteq {"IN", "HUP"} /\ PollStdin \subseteq {"IN", "HUP"}
      BY DEF PollServer, PollStdin
    <3>2. revents' = <<PollServer, PollStdin>> /\ i' = 1 /\ status' = status
      BY <2>1 DEF Poll
    <3>3. revents' \in [1 .. 2 -> SUBSET {"IN", "HUP"}]
      <4>1. PICK a, b : a = PollServer /\ b = PollStdin
        OBVIOUS
      <4>2. revents' = <<a, b>> /\ a \in SUBSET {"IN", "HUP"} /\ b \in SUBSET {"IN", "HUP"}
        BY <3>1, <3>2, <4>1
      <4>3. PICK f : f = <<a, b>>
        OBVIOUS
      <4>4. f \in Seq(SUBSET {"IN", "HUP"}) /\ Len(f) = 2
        BY <4>2, <4>3
      <4>5. f \in [1 .. Len(f) -> SUBSET {"IN", "HUP"}]
        BY <4>4, LenProperties
      <4>6. QED BY <4>2, <4>3, <4>4, <4>5
    <3>4. QED BY <1>0, <3>2, <3>3 DEF ProcessType
  <2>2. CASE Skip
    BY <1>0, <2>2 DEF Skip, Scanning, ProcessType
  <2>3. CASE HangUp \/ PollFails
    BY <1>0, <2>3 DEF HangUp, PollFails, ProcessType
  <2>4. QED BY <2>1, <2>2, <2>3
<1>2. /\ UNCHANGED <<stdio, sending, handled, sent, printed>>
      /\ UNCHANGED world
  BY DEF Poll, Skip, HangUp, PollFails
<1>3. InputType'
  BY <1>0, <1>2 DEF InputType, world
<1>4. SendType'
  BY <1>0, <1>2 DEF SendType
<1>5. ServerType'
  BY <1>0, <1>2 DEF ServerType, world
<1>6. QED BY <1>1, <1>3, <1>4, <1>5, TypePartsNext

LEMMA TypeMessage ==
  ASSUME TypeOK, handle_server_message
  PROVE  TypeOK'
<1>0. ProcessType /\ InputType /\ SendType /\ ServerType
  BY TypeParts
<1>1. ProcessType'
  <2>1. i = 1 /\ revents' = revents
    BY DEF handle_server_message, ReadyAt
  <2>2. \/ i' = i + 1 /\ status' = status
        \/ i' = i /\ status' = "server_closed"
    BY DEF handle_server_message
  <2>3. QED BY <1>0, <2>1, <2>2 DEF ProcessType
<1>2. InputType'
  BY <1>0 DEF handle_server_message, InputType
<1>3. SendType'
  BY <1>0 DEF handle_server_message, SendType
<1>4. ServerType'
  <2>1. inbox \in Seq(Range(ServerSends)) /\ printed \in Seq(Range(ServerSends))
    BY <1>0 DEF ServerType
  <2>2. inbox' \in Seq(Range(ServerSends)) /\ printed' \in Seq(Range(ServerSends))
    <3>1. CASE /\ inbox # << >>
               /\ printed' = Append(printed, Head(inbox))
               /\ inbox' = Tail(inbox)
      BY <2>1, <3>1, HeadTailProperties, AppendProperties
    <3>2. CASE UNCHANGED <<printed, inbox>>
      BY <2>1, <3>2
    <3>3. QED BY <3>1, <3>2 DEF handle_server_message
  <2>3. UNCHANGED <<server, unread, nserver>>
    BY DEF handle_server_message
  <2>4. QED BY <1>0, <2>2, <2>3 DEF ServerType
<1>5. QED BY <1>1, <1>2, <1>3, <1>4, TypePartsNext

LEMMA TypeInput ==
  ASSUME TypeOK, handle_input
  PROVE  TypeOK'
<1>0. ProcessType /\ InputType /\ SendType /\ ServerType
  BY TypeParts
<1>1. CASE TakesEnd
  <2>1. ProcessType'
    BY <1>0, <1>1 DEF TakesEnd, ProcessType
  <2>2. InputType'
    BY <1>0, <1>1 DEF TakesEnd, InputType
  <2>3. SendType'
    BY <1>0, <1>1 DEF TakesEnd, SendType
  <2>4. ServerType'
    BY <1>0, <1>1 DEF TakesEnd, ServerType
  <2>5. QED BY <2>1, <2>2, <2>3, <2>4, TypePartsNext
<1>2. CASE TakesPiece
  <2>1. PICK input, rest : Takes(input, rest) /\ HandlePiece(input, rest)
    BY <1>2 DEF TakesPiece
  <2>2. /\ rest \in Seq(Lines)
        /\ Head(input) \in Pieces /\ Tail(input) \in Seq(Pieces)
    BY <2>1, WhatIsTaken
  <2>3. i = 2 /\ UNCHANGED <<revents, sent, printed, stdin, inbox, server, unread, lines, nserver>>
    BY <1>2 DEF TakesPiece, ReadyAt
  <2>4. ProcessType'
    <3>1. \/ i' = i + 1 /\ status' = status
          \/ i' = i /\ status' = "exited"
      BY <2>1 DEF HandlePiece
    <3>2. QED BY <1>0, <2>3, <3>1 DEF ProcessType
  <2>5. InputType'
    <3>1. handled' = Append(handled, Head(input)) /\ stdio' = Tail(input) /\ typed' = rest
      BY <2>1 DEF HandlePiece
    <3>2. handled' \in Seq(Pieces)
      BY <1>0, <2>2, <3>1, AppendProperties DEF InputType
    <3>3. begun' \in {"no", "unread", "read"}
      BY <1>0, <1>2 DEF TakesPiece, BegunAfterRead, InputType
    <3>4. QED BY <1>0, <2>2, <2>3, <3>1, <3>2, <3>3 DEF InputType
  <2>6. SendType'
    <3>1. sending' \in {sending, Request(Head(input))}
      BY <2>1 DEF HandlePiece
    <3>2. QED BY <1>0, <2>2, <2>3, <3>1 DEF SendType
  <2>7. ServerType'
    BY <1>0, <2>3 DEF ServerType
  <2>8. QED BY <2>4, <2>5, <2>6, <2>7, TypePartsNext
<1>3. QED BY <1>1, <1>2, InputCases

LEMMA TypeSend ==
  ASSUME TypeOK, SendStep
  PROVE  TypeOK'
<1>0. ProcessType /\ InputType /\ SendType /\ ServerType
  BY TypeParts
<1>1. ProcessType'
  <2>1. status' \in {status, "sigpipe", "send_failed", "running"}
    BY DEF SendStep
  <2>2. UNCHANGED <<i, revents>>
    BY DEF SendStep
  <2>3. QED BY <1>0, <2>1, <2>2 DEF ProcessType
<1>2. InputType'
  BY <1>0 DEF SendStep, InputType
<1>3. SendType'
  <2>1. sending \in {Request(p) : p \in Pieces} \ {NoMessage}
    BY <1>0 DEF SendStep, SendType
  <2>2. sent' = sent \/ sent' = Append(sent, sending)
    BY DEF SendStep
  <2>3. sending' = NoMessage
    BY DEF SendStep
  <2> DEFINE Sendable == {Request(p) : p \in Pieces} \ {NoMessage}
  <2>4. sent \in Seq(Sendable) /\ sending \in Sendable
    BY <1>0, <2>1 DEF SendType
  <2> HIDE DEF Sendable
  <2>5. sent' \in Seq(Sendable)
    BY <2>2, <2>4, AppendProperties
  <2>6. QED BY <2>3, <2>5 DEF SendType, Sendable
<1>4. ServerType'
  <2>1. UNCHANGED <<printed, inbox, nserver>>
    BY DEF SendStep
  <2>2. server' \in {server, "fin", "rst"}
    BY DEF SendStep
  <2>3. unread' = unread \/ (unread' = unread + 1 /\ unread < SockBuf)
    BY DEF SendStep, MaySend
  <2>4. unread' \in 0 .. SockBuf
    BY <1>0, <2>3, ClientAssumption DEF ServerType
  <2>5. QED BY <1>0, <2>1, <2>2, <2>4 DEF ServerType
<1>5. QED BY <1>1, <1>2, <1>3, <1>4, TypePartsNext

LEMMA TypeWorld ==
  ASSUME TypeOK, WorldNext
  PROVE  TypeOK'
<1>0. ProcessType /\ InputType /\ SendType /\ ServerType
  BY TypeParts
<1>1. UNCHANGED process
  BY DEF WorldNext, BeginLine, Type, EndInput, ServerSend, ServerRead, ServerClose
<1>2. ProcessType' /\ SendType'
  BY <1>0, <1>1 DEF process, ProcessType, SendType
<1>3. InputType' /\ ServerType'
  <2>1. ASSUME NEW l \in Lines, FinishLine(l)
        PROVE  /\ typed' \in Seq(Lines) /\ lines' \in Seq(Lines)
               /\ begun' \in {"no", "unread", "read"}
    BY <1>0, <2>1, AppendProperties DEF FinishLine, InputType
  <2>2. CASE (\E l \in Lines : Type(l)) \/ EndInput \/ BeginLine
    <3>1. /\ typed' \in Seq(Lines) /\ lines' \in Seq(Lines)
          /\ begun' \in {"no", "unread", "read"}
      <4>1. CASE UNCHANGED <<typed, lines>> /\ begun' \in {begun, "unread"}
        BY <1>0, <4>1 DEF InputType
      <4>2. QED BY <2>1, <2>2, <4>1 DEF Type, EndInput, BeginLine
    <3>2. stdin' \in [terminal : BOOLEAN, ended : BOOLEAN]
      BY <1>0, <2>2 DEF Type, EndInput, BeginLine, InputType
    <3>3. UNCHANGED <<inbox, server, unread, nserver>>
      BY <2>2 DEF Type, EndInput, BeginLine
    <3>4. QED BY <1>0, <1>1, <3>1, <3>2, <3>3 DEF process, InputType, ServerType
  <2>3. CASE ServerSend
    <3>1. nserver' = nserver + 1 /\ nserver < Len(ServerSends)
      BY <2>3 DEF ServerSend
    <3>2. nserver' \in 1 .. Len(ServerSends) /\ nserver' \in 0 .. Len(ServerSends)
      BY <1>0, <3>1, ClientAssumption DEF ServerType
    <3>3. ServerSends[nserver'] \in Range(ServerSends)
      BY <3>2, ClientAssumption DEF Range
    <3>4. inbox' \in Seq(Range(ServerSends))
      BY <1>0, <2>3, <3>3, AppendProperties DEF ServerSend, ServerType
    <3>5. QED BY <1>0, <1>1, <2>3, <3>2, <3>4 DEF ServerSend, process, InputType, ServerType
  <2>4. CASE ServerRead
    <3>1. unread' \in 0 .. SockBuf
      BY <1>0, <2>4, ClientAssumption DEF ServerRead, ServerType
    <3>2. QED BY <1>0, <1>1, <2>4, <3>1 DEF ServerRead, process, InputType, ServerType
  <2>5. CASE ServerClose
    <3>1. unread' \in 0 .. SockBuf /\ server' \in {"fin", "rst"}
      BY <2>5, ClientAssumption DEF ServerClose
    <3>2. QED BY <1>0, <1>1, <2>5, <3>1 DEF ServerClose, process, InputType, ServerType
  <2>6. QED BY <2>2, <2>3, <2>4, <2>5 DEF WorldNext
<1>4. QED BY <1>2, <1>3, TypePartsNext

(* The client's variables keep their types: its buffers never hold more    *)
(* than they can, and nothing but what users may type is handled or sent.  *)
THEOREM TypeCorrect == Spec => []TypeOK
<1>1. Init => TypeOK
  <2>1. SUFFICES ASSUME Init PROVE TypeOK
    OBVIOUS
  <2>2. ProcessType
    BY <2>1 DEF Init, ProcessType
  <2>3. InputType
    BY <2>1, EmptySeq DEF Init, InputType
  <2>4. SendType
    BY <2>1, EmptySeq DEF Init, SendType
  <2>5. ServerType
    BY <2>1, EmptySeq, ClientAssumption DEF Init, ServerType
  <2>6. QED BY <2>2, <2>3, <2>4, <2>5, TypeParts
<1>2. TypeOK /\ UNCHANGED vars => TypeOK'
  BY DEF TypeOK, vars, process, world
<1>3. TypeOK /\ Next => TypeOK'
  BY TypePoll, TypeMessage, TypeInput, TypeSend, TypeWorld DEF Next, ClientNext, ClientRuns
<1>4. QED BY <1>1, <1>2, <1>3, PTL DEF Spec

-----------------------------------------------------------------------------
(***************************************************************************)
(* What is printed, what a hang-up is about, and what /exit ends.  The     *)
(* invariants are inductive as they stand: a client that has ended does    *)
(* nothing any more, and no reset connection or ended pipe comes back.     *)
(***************************************************************************)
HangInv ==
  /\ "HUP" \in revents[1] => server = "rst"
  /\ "HUP" \in revents[2] => PipeEnded
  /\ status = "hung_up" => server = "rst" \/ PipeEnded
  /\ status \in {"sigpipe", "send_failed"} => server = "rst"

LEMMA HangStep ==
  ASSUME TypeOK, HangInv, Next
  PROVE  HangInv'
<1>1. i \in 1 .. 3 /\ stdin \in [terminal : BOOLEAN, ended : BOOLEAN]
  BY DEF TypeOK
<1>2. CASE /\ UNCHANGED <<revents, server, stdin>>
           /\ status' = status \/ status' \notin {"hung_up", "sigpipe", "send_failed"}
  BY <1>2 DEF HangInv, PipeEnded
<1>3. CASE Poll
  <2>1. /\ revents'[1] = PollServer /\ revents'[2] = PollStdin
        /\ UNCHANGED <<status, server, stdin>>
    BY <1>3 DEF Poll, world
  <2>2. /\ "HUP" \in PollServer => server = "rst"
        /\ "HUP" \in PollStdin => PipeEnded
    BY DEF PollServer, PollStdin, PipeEnded
  <2>3. QED BY <2>1, <2>2 DEF HangInv, PipeEnded
<1>4. CASE HangUp
  <2>1. /\ i \in 1 .. 2 /\ "HUP" \in revents[i] /\ status' = "hung_up"
        /\ UNCHANGED <<revents, server, stdin>>
    BY <1>4 DEF HangUp, Scanning, world
  <2>2. i = 1 \/ i = 2
    BY <2>1
  <2>3. QED BY <2>1, <2>2 DEF HangInv, PipeEnded
<1>5. CASE SendStep
  <2>1. UNCHANGED <<revents, stdin>> /\ status = "running"
    BY <1>5 DEF SendStep, Running
  <2>2. \/ status' = status /\ (server = "rst" => server' = "rst")
        \/ status' # "hung_up" /\ server' = server /\ server = "rst"
    BY <1>5 DEF SendStep
  <2>3. QED BY <2>1, <2>2 DEF HangInv, PipeEnded
<1>6. CASE ServerClose
  <2>1. server = "open" /\ UNCHANGED <<revents, status, stdin>>
    BY <1>6 DEF ServerClose, process
  <2>2. QED BY <2>1 DEF HangInv, PipeEnded
<1>7. CASE EndInput
  <2>1. /\ UNCHANGED <<revents, status, server>>
        /\ stdin' = [stdin EXCEPT !.ended = TRUE]
    BY <1>7 DEF EndInput, process
  <2>2. PipeEnded => PipeEnded'
    BY <1>1, <2>1 DEF PipeEnded
  <2>3. QED BY <2>1, <2>2 DEF HangInv
<1>8. CASE handle_input
  <2>1. UNCHANGED <<revents, server, stdin>>
    BY <1>8 DEF handle_input
  <2>2. status' \in {status, "exited", "end_of_input"}
    BY <1>8, InputCases DEF TakesPiece, TakesEnd, HandlePiece
  <2>3. QED BY <1>2, <2>1, <2>2
<1>9. CASE Skip \/ handle_server_message \/ PollFails
  BY <1>2, <1>9 DEF Skip, handle_server_message, PollFails, world
<1>10. CASE BeginLine \/ ServerSend \/ ServerRead \/ \E l \in Lines : Type(l)
  BY <1>2, <1>10 DEF BeginLine, ServerSend, ServerRead, Type, process
<1>11. QED BY <1>3, <1>4, <1>5, <1>6, <1>7, <1>8, <1>9, <1>10
           DEF Next, ClientNext, ClientRuns, WorldNext

LEMMA HangCorrect == Spec => []HangInv
<1>1. Init => HangInv
  BY DEF Init, HangInv
<1>2. HangInv /\ UNCHANGED vars => HangInv'
  BY DEF HangInv, PipeEnded, vars, process, world
<1>3. QED BY <1>1, <1>2, HangStep, TypeCorrect, PTL DEF Spec

PrintInv ==
  /\ Len(printed) + Len(inbox) = nserver
  /\ status = "server_closed" => Len(inbox) = 0

LEMMA PrintMessage ==
  ASSUME TypeOK, PrintInv, handle_server_message
  PROVE  PrintInv'
<1>0. inbox \in Seq(Range(ServerSends)) /\ printed \in Seq(Range(ServerSends)) /\ nserver \in Nat
  BY ClientAssumption DEF TypeOK
<1>1. status = "running" /\ nserver' = nserver
  BY DEF handle_server_message, ReadyAt, Scanning, Running
<1>2. CASE /\ inbox # << >>
           /\ printed' = Append(printed, Head(inbox))
           /\ inbox' = Tail(inbox)
           /\ i' = i + 1
           /\ UNCHANGED status
  <2>1. Len(inbox') = Len(inbox) - 1 /\ Head(inbox) \in Range(ServerSends)
    BY <1>0, <1>2, HeadTailProperties
  <2>2. Len(printed') = Len(printed) + 1
    BY <1>0, <1>2, <2>1, AppendProperties
  <2>3. Len(printed) \in Nat /\ Len(inbox) \in Nat
    BY <1>0
  <2>4. QED BY <1>1, <1>2, <2>1, <2>2, <2>3 DEF PrintInv
<1>3. CASE /\ inbox = << >> /\ server # "open"
           /\ status' = "server_closed"
           /\ UNCHANGED <<i, printed, inbox>>
  BY <1>0, <1>1, <1>3, EmptySeq DEF PrintInv
<1>4. QED BY <1>2, <1>3 DEF handle_server_message

LEMMA PrintOther ==
  ASSUME TypeOK, PrintInv,
         Poll \/ Skip \/ HangUp \/ PollFails \/ handle_input \/ SendStep \/ WorldNext
  PROVE  PrintInv'
<1>0. inbox \in Seq(Range(ServerSends)) /\ nserver \in Nat /\ Len(printed) \in Nat
  BY ClientAssumption DEF TypeOK
<1>1. CASE ServerSend
  <2>1. /\ nserver' = nserver + 1 /\ nserver < Len(ServerSends)
        /\ inbox' = Append(inbox, ServerSends[nserver'])
        /\ UNCHANGED <<printed, status>> /\ status = "running"
    BY <1>1 DEF ServerSend, process, Running
  <2>2. nserver' \in 1 .. Len(ServerSends)
    BY <1>0, <2>1, ClientAssumption
  <2>3. ServerSends[nserver'] \in Range(ServerSends)
    BY <2>2, ClientAssumption DEF Range
  <2>4. Len(inbox') = Len(inbox) + 1 /\ Len(inbox) \in Nat
    BY <1>0, <2>1, <2>3, AppendProperties
  <2>5. QED BY <1>0, <2>1, <2>4 DEF PrintInv
<1>2. CASE UNCHANGED <<printed, inbox, nserver>> /\ status' # "server_closed"
  BY <1>2 DEF PrintInv
<1>3. CASE Poll \/ Skip \/ HangUp \/ PollFails
  <2>1. UNCHANGED <<printed, inbox, nserver>> /\ status' # "server_closed"
    BY <1>3 DEF Poll, Skip, HangUp, PollFails, Scanning, Running, world
  <2>2. QED BY <1>2, <2>1
<1>4. CASE handle_input
  <2>1. status = "running" /\ UNCHANGED <<printed, inbox, nserver>>
    BY <1>4 DEF handle_input, ReadyAt, Scanning, Running
  <2>2. status' \in {status, "exited", "end_of_input"}
    BY <1>4, InputCases DEF TakesPiece, TakesEnd, HandlePiece
  <2>3. QED BY <1>2, <2>1, <2>2
<1>5. CASE SendStep
  <2>1. UNCHANGED <<printed, inbox, nserver>> /\ status' # "server_closed"
    BY <1>5 DEF SendStep, Running
  <2>2. QED BY <1>2, <2>1
<1>6. CASE BeginLine \/ EndInput \/ ServerRead \/ ServerClose \/ \E l \in Lines : Type(l)
  <2>1. UNCHANGED <<printed, inbox, nserver>> /\ status' # "server_closed"
    BY <1>6 DEF BeginLine, EndInput, ServerRead, ServerClose, Type, FinishLine,
                process, Running
  <2>2. QED BY <1>2, <2>1
<1>7. QED BY <1>1, <1>3, <1>4, <1>5, <1>6 DEF WorldNext

LEMMA PrintCorrect == Spec => []PrintInv
<1>1. Init => PrintInv
  BY EmptySeq DEF Init, PrintInv
<1>2. TypeOK /\ PrintInv /\ UNCHANGED vars => PrintInv'
  BY DEF PrintInv, vars, process, world
<1>3. TypeOK /\ PrintInv /\ Next => PrintInv'
  BY PrintMessage, PrintOther DEF Next, ClientNext, ClientRuns
<1>4. QED BY <1>1, <1>2, <1>3, TypeCorrect, PTL DEF Spec

(* A client that reads the end of the stream has printed everything: it is *)
(* only read behind the last message.  A hang-up, SIGPIPE or a failed send *)
(* may leave messages unprinted, but only when the connection was reset or *)
(* the pipe it reads its input from has ended.                             *)
THEOREM CloseIsSeenLast == Spec => []PrintsAllBeforeClose
<1>1. TypeOK /\ PrintInv /\ HangInv => PrintsAllBeforeClose
  <2>1. ASSUME TypeOK, PrintInv, status = "server_closed" PROVE Len(printed) = nserver
    <3>1. Len(printed) \in Nat
      BY <2>1 DEF TypeOK
    <3>2. QED BY <2>1, <3>1 DEF PrintInv
  <2>2. QED BY <2>1 DEF HangInv, PrintsAllBeforeClose
<1>2. QED BY <1>1, PrintCorrect, HangCorrect, TypeCorrect, PTL

LEMMA ExitStep ==
  ASSUME TypeOK, ExitIsLast, Next
  PROVE  ExitIsLast'
<1>0. handled \in Seq(Pieces) /\ Len(handled) \in Nat
  BY DEF TypeOK
<1>1. status = "running"
  BY DEF Next, ClientNext, ClientRuns, WorldNext, Poll, Skip, HangUp, PollFails,
         handle_server_message, handle_input, SendStep, ReadyAt, Scanning, Running,
         BeginLine, Type, EndInput, ServerSend, ServerRead, ServerClose
<1>2. \A k \in 1 .. Len(handled) : handled[k].kind # "exit"
  BY <1>1 DEF ExitIsLast
<1>3. CASE handled' = handled
  BY <1>2, <1>3 DEF ExitIsLast
<1>4. CASE TakesPiece
  <2>1. PICK input, rest : Takes(input, rest) /\ HandlePiece(input, rest)
    BY <1>4 DEF TakesPiece
  <2>2. PICK p : p = Head(input)
    OBVIOUS
  <2>3. p \in Pieces /\ handled' = Append(handled, p)
    BY <2>1, <2>2, WhatIsTaken DEF HandlePiece
  <2>4. p.kind = "exit" => status' = "exited"
    BY <2>1, <2>2 DEF HandlePiece
  <2>5. /\ Len(handled') = Len(handled) + 1 /\ handled'[Len(handled) + 1] = p
        /\ \A k \in 1 .. Len(handled) : handled'[k] = handled[k]
    BY <1>0, <2>3, AppendProperties
  <2>6. ASSUME NEW k \in 1 .. Len(handled'), handled'[k].kind = "exit"
        PROVE  k = Len(handled') /\ status' = "exited"
    <3>1. CASE k \in 1 .. Len(handled)
      BY <1>2, <2>5, <2>6, <3>1
    <3>2. CASE k = Len(handled) + 1
      BY <2>4, <2>5, <2>6, <3>2
    <3>3. k \in 1 .. Len(handled) + 1
      BY <2>5
    <3>4. QED BY <1>0, <3>1, <3>2, <3>3
  <2>7. QED BY <2>6 DEF ExitIsLast
<1>5. CASE handle_input
  BY <1>3, <1>4, <1>5, InputCases DEF TakesEnd
<1>6. CASE Poll \/ Skip \/ HangUp \/ PollFails \/ handle_server_message \/ SendStep
  BY <1>3, <1>6 DEF Poll, Skip, HangUp, PollFails, handle_server_message, SendStep
<1>7. CASE WorldNext
  BY <1>3, <1>7 DEF WorldNext, BeginLine, Type, EndInput, ServerSend, ServerRead,
                    ServerClose, process
<1>8. QED BY <1>5, <1>6, <1>7 DEF Next, ClientNext, ClientRuns

(* /exit is the last thing handled, whatever was read together with it.    *)
THEOREM NothingAfterExit == Spec => []ExitIsLast
<1>1. Init => ExitIsLast
  <2>1. SUFFICES ASSUME Init PROVE ExitIsLast
    OBVIOUS
  <2>2. Len(handled) = 0
    BY <2>1, EmptySeq DEF Init
  <2>3. QED BY <2>2 DEF ExitIsLast
<1>2. ExitIsLast /\ UNCHANGED vars => ExitIsLast'
  BY DEF ExitIsLast, vars, process
<1>3. QED BY <1>1, <1>2, ExitStep, TypeCorrect, PTL DEF Spec

-----------------------------------------------------------------------------
(***************************************************************************)
(* What was typed is what was handled, what lies in the stdio buffer and   *)
(* what the kernel has, in this order.                                     *)
(***************************************************************************)
InputKept == FlattenSeq(lines) = handled \o (stdio \o FlattenSeq(typed))

EndSeen == status = "end_of_input" => Len(stdio) = 0 /\ Len(typed) = 0

InputInv == InputKept /\ EndSeen

LEMMA LinesFlat ==
  ASSUME NEW ls \in Seq(Lines)
  PROVE  ls \in Seq(Seq(Pieces)) /\ FlattenSeq(ls) \in Seq(Pieces)
<1>1. Lines \subseteq Seq(Pieces)
  BY LinesArePieces
<1>2. ls \in Seq(Seq(Pieces))
  BY <1>1, SeqMonotonic
<1>3. QED BY <1>2, FlattenType

LEMMA InputStep ==
  ASSUME TypeOK, InputInv, Next
  PROVE  InputInv'
<1>0. /\ handled \in Seq(Pieces) /\ stdio \in Seq(Pieces)
      /\ typed \in Seq(Lines) /\ lines \in Seq(Lines)
  BY DEF TypeOK
<1>1. CASE UNCHANGED <<handled, stdio, typed, lines>> /\ status' # "end_of_input"
  BY <1>1 DEF InputInv, InputKept, EndSeen
<1>2. CASE TakesEnd
  <2>1. InputKept'
    BY <1>2 DEF TakesEnd, InputInv, InputKept
  <2>2. EndSeen'
    BY <1>2 DEF TakesEnd, EndSeen
  <2>3. QED BY <2>1, <2>2 DEF InputInv
<1>3. CASE TakesPiece
  <2>1. PICK input, rest : Takes(input, rest) /\ HandlePiece(input, rest)
    BY <1>3 DEF TakesPiece
  <2>2. /\ input \in Seq(Pieces) /\ Len(input) > 0 /\ rest \in Seq(Lines)
        /\ input \o FlattenSeq(rest) = stdio \o FlattenSeq(typed)
    BY <2>1, WhatIsTaken
  <2>3. /\ handled' = Append(handled, Head(input)) /\ stdio' = Tail(input) /\ typed' = rest
        /\ lines' = lines
    BY <1>3, <2>1 DEF HandlePiece, TakesPiece
  <2>4. PICK p, t, u : p = Head(input) /\ t = Tail(input) /\ u = FlattenSeq(rest)
    OBVIOUS
  <2>5. /\ p \in Pieces /\ t \in Seq(Pieces) /\ u \in Seq(Pieces)
        /\ <<p>> \in Seq(Pieces) /\ Len(<<p>>) = 1 /\ <<p>>[1] = p
    BY <2>2, <2>4, LinesFlat, EmptySeq, HeadTailProperties
  <2>6. input = <<p>> \o t
    BY <2>2, <2>4, <2>5, EmptySeq, HeadTailProperties, ConcatProperties, SeqEqual
  <2>7. input \o u = <<p>> \o (t \o u)
    BY <2>5, <2>6, ConcatAssociative
  <2>8. t \o u \in Seq(Pieces)
    BY <2>5, ConcatProperties
  <2>9. Append(handled, p) = handled \o <<p>>
    BY <1>0, <2>5, AppendIsConcat
  <2>10. (handled \o <<p>>) \o (t \o u) = handled \o (<<p>> \o (t \o u))
    <3>1. PICK v, w : v = t \o u /\ w = <<p>>
      OBVIOUS
    <3>2. v \in Seq(Pieces) /\ w \in Seq(Pieces)
      BY <2>5, <2>8, <3>1
    <3>3. (handled \o w) \o v = handled \o (w \o v)
      BY <1>0, <3>2, SMTT(30)
    <3>4. QED BY <3>1, <3>3
  <2>11. InputKept'
    BY <2>2, <2>3, <2>4, <2>7, <2>9, <2>10 DEF InputInv, InputKept
  <2>12. status' # "end_of_input"
    BY <1>3, <2>1 DEF HandlePiece, TakesPiece, ReadyAt, Scanning, Running
  <2>13. QED BY <2>11, <2>12 DEF InputInv, EndSeen
<1>4. ASSUME status = "running", UNCHANGED process, NEW l \in Lines, FinishLine(l)
      PROVE  InputInv'
  <2>2. /\ typed' = Append(typed, l) /\ lines' = Append(lines, l)
        /\ UNCHANGED <<handled, stdio, status>> /\ status = "running"
    BY <1>4 DEF FinishLine, process
  <2>3. l \in Seq(Pieces)
    BY LinesArePieces
  <2>4. PICK a, b : a = FlattenSeq(typed) /\ b = FlattenSeq(lines)
    OBVIOUS
  <2>5. /\ typed \in Seq(Seq(Pieces)) /\ lines \in Seq(Seq(Pieces))
        /\ a \in Seq(Pieces) /\ b \in Seq(Pieces)
    BY <1>0, <2>4, LinesFlat
  <2>6. FlattenSeq(Append(typed, l)) = a \o l /\ FlattenSeq(Append(lines, l)) = b \o l
    BY <2>3, <2>4, <2>5, FlattenAppend
  <2>7. stdio \o a \in Seq(Pieces)
    BY <1>0, <2>5, ConcatProperties
  <2>8. b = handled \o (stdio \o a)
    BY <2>4 DEF InputInv, InputKept
  <2>9. (handled \o (stdio \o a)) \o l = handled \o ((stdio \o a) \o l)
    <3>1. PICK v : v = stdio \o a
      OBVIOUS
    <3>2. v \in Seq(Pieces)
      BY <2>7, <3>1
    <3>3. (handled \o v) \o l = handled \o (v \o l)
      BY <1>0, <2>3, <3>2, SMTT(30)
    <3>4. QED BY <3>1, <3>3
  <2>10. (stdio \o a) \o l = stdio \o (a \o l)
    <3>1. a \in Seq(Pieces)
      BY <2>5
    <3>2. stdio \in Seq(Pieces)
      BY <1>0
    <3>3. QED BY <2>3, <3>1, <3>2, ConcatAssociative
  <2>11. InputKept'
    BY <2>2, <2>6, <2>8, <2>9, <2>10 DEF InputKept
  <2>12. QED BY <2>2, <2>11 DEF InputInv, EndSeen
<1>5. CASE handle_input
  BY <1>2, <1>3, <1>5, InputCases
<1>6. CASE Poll \/ Skip \/ HangUp \/ PollFails \/ handle_server_message \/ SendStep
  BY <1>1, <1>6 DEF Poll, Skip, HangUp, PollFails, handle_server_message, SendStep,
                    ReadyAt, Scanning, Running, world
<1>7. CASE BeginLine \/ ServerSend \/ ServerRead \/ ServerClose
  BY <1>1, <1>7 DEF BeginLine, ServerSend, ServerRead, ServerClose, process, Running
<1>8. CASE EndInput \/ \E l \in Lines : Type(l)
  <2>1. status = "running" /\ UNCHANGED process
    BY <1>8 DEF EndInput, Type, Running
  <2>2. \/ UNCHANGED <<typed, lines>>
        \/ \E l \in Lines : FinishLine(l)
    BY <1>8 DEF EndInput, Type
  <2>3. CASE UNCHANGED <<typed, lines>>
    BY <1>1, <2>1, <2>3 DEF process
  <2>4. QED BY <1>4, <2>1, <2>2, <2>3
<1>9. QED BY <1>5, <1>6, <1>7, <1>8 DEF Next, ClientNext, ClientRuns, WorldNext

LEMMA InputCorrect == Spec => []InputInv
<1>1. Init => InputInv
  <2>1. SUFFICES ASSUME Init PROVE InputInv
    OBVIOUS
  <2>2. /\ lines = << >> /\ handled = << >> /\ stdio = << >> /\ typed = << >>
        /\ Len(<< >>) = 0 /\ << >> \in Seq(Pieces)
    BY <2>1, EmptySeq DEF Init
  <2>3. FlattenSeq(<< >>) = << >>
    BY <2>2 DEF FlattenSeq
  <2>4. << >> \o << >> = << >>
    BY <2>2, ConcatEmptySeq
  <2>5. QED BY <2>2, <2>3, <2>4 DEF InputInv, InputKept, EndSeen
<1>2. InputInv /\ UNCHANGED vars => InputInv'
  BY DEF InputInv, InputKept, EndSeen, vars, process, world
<1>3. QED BY <1>1, <1>2, InputStep, TypeCorrect, PTL DEF Spec

(* A client that reads the end of its input has handled all that was typed *)
(* before it, also what was read ahead.  One that reports a hang-up with   *)
(* lines left unhandled lost the server to a reset or read from a pipe.    *)
THEOREM EndLosesNothing == Spec => []EndOfInputLosesNothing
<1>1. TypeOK /\ InputInv /\ HangInv => EndOfInputLosesNothing
  <2>1. SUFFICES ASSUME TypeOK, InputInv, status = "end_of_input"
                 PROVE  handled = FlattenSeq(lines)
    BY DEF HangInv, EndOfInputLosesNothing
  <2>2. handled \in Seq(Pieces) /\ stdio \in Seq(Pieces) /\ typed \in Seq(Lines)
    BY <2>1 DEF TypeOK
  <2>3. stdio = << >> /\ typed = << >>
    BY <2>1, <2>2, EmptySeq DEF InputInv, EndSeen
  <2>4. FlattenSeq(<< >>) = << >> /\ << >> \in Seq(Pieces)
    BY EmptySeq DEF FlattenSeq
  <2>5. << >> \o << >> = << >> /\ handled \o << >> = handled
    BY <2>2, <2>4, ConcatEmptySeq
  <2>6. QED BY <2>1, <2>3, <2>4, <2>5 DEF InputInv, InputKept
<1>2. QED BY <1>1, InputCorrect, HangCorrect, TypeCorrect, PTL

-----------------------------------------------------------------------------
(***************************************************************************)
(* What was sent is what was handled, as messages.                         *)
(***************************************************************************)
LEMMA PrefixIsElements ==
  ASSUME NEW S, NEW s \in Seq(S), NEW t \in Seq(S)
  PROVE  IsPrefix(s, t) <=> Len(s) <= Len(t) /\ \A k \in 1 .. Len(s) : s[k] = t[k]
<1>0. Len(s) \in Nat /\ Len(t) \in Nat
  OBVIOUS
<1>1. SUFFICES ASSUME Len(s) <= Len(t)
      PROVE  SubSeq(s, 1, Len(s)) = SubSeq(t, 1, Len(s)) <=> \A k \in 1 .. Len(s) : s[k] = t[k]
  BY DEF IsPrefix
<1>2. PICK n : n = Len(s)
  OBVIOUS
<1>3. PICK a, b : a = SubSeq(s, 1, n) /\ b = SubSeq(t, 1, n)
  OBVIOUS
<1>4. /\ a \in Seq(S) /\ Len(a) = n /\ \A k \in 1 .. n : a[k] = s[k]
      /\ b \in Seq(S) /\ Len(b) = n /\ \A k \in 1 .. n : b[k] = t[k]
  BY <1>0, <1>1, <1>2, <1>3, SubSeqProperties
<1>5. a = b <=> \A k \in 1 .. n : a[k] = b[k]
  BY <1>4, SeqEqual
<1>6. QED BY <1>2, <1>3, <1>4, <1>5

LEMMA PrefixGrows ==
  ASSUME NEW S, NEW s \in Seq(S), NEW t \in Seq(S), NEW u \in Seq(S), IsPrefix(s, t)
  PROVE  IsPrefix(s, t \o u)
<1>0. Len(s) \in Nat /\ Len(t) \in Nat /\ Len(u) \in Nat
  OBVIOUS
<1>1. Len(s) <= Len(t) /\ \A k \in 1 .. Len(s) : s[k] = t[k]
  BY PrefixIsElements
<1>2. PICK v : v = t \o u
  OBVIOUS
<1>3. v \in Seq(S) /\ Len(v) = Len(t) + Len(u) /\ \A k \in 1 .. Len(t) : v[k] = t[k]
  BY <1>0, <1>2, ConcatProperties
<1>4. Len(s) <= Len(v) /\ \A k \in 1 .. Len(s) : s[k] = v[k]
  BY <1>0, <1>1, <1>3
<1>5. IsPrefix(s, v)
  BY <1>3, <1>4, PrefixIsElements
<1>6. QED BY <1>2, <1>5

(* The messages pieces make, which RequestsOf strings together.            *)
Sendable == {Request(p) : p \in Pieces}

Made(p) == IF Request(p) = NoMessage THEN << >> ELSE <<Request(p)>>

MadeBy(pieces) == [k \in DOMAIN pieces |-> Made(pieces[k])]

LEMMA RequestsFlat == \A pieces : RequestsOf(pieces) = FlattenSeq(MadeBy(pieces))
  BY Zenon DEF RequestsOf, MadeBy, Made

LEMMA MadeType ==
  ASSUME NEW p \in Pieces
  PROVE  Made(p) \in Seq(Sendable)
<1>1. Request(p) \in Sendable
  BY DEF Sendable
<1>2. << >> \in Seq(Sendable) /\ <<Request(p)>> \in Seq(Sendable)
  BY <1>1, EmptySeq
<1>3. QED BY <1>2 DEF Made

LEMMA MadeByType ==
  ASSUME NEW s \in Seq(Pieces)
  PROVE  /\ MadeBy(s) \in Seq(Seq(Sendable)) /\ Len(MadeBy(s)) = Len(s)
         /\ \A k \in 1 .. Len(s) : MadeBy(s)[k] = Made(s[k])
<1>1. DOMAIN s = 1 .. Len(s) /\ Len(s) \in Nat /\ \A k \in 1 .. Len(s) : s[k] \in Pieces
  OBVIOUS
<1>2. PICK m : m = MadeBy(s)
  OBVIOUS
<1>3. m = [k \in 1 .. Len(s) |-> Made(s[k])]
  BY <1>1, <1>2 DEF MadeBy
<1>4. \A k \in 1 .. Len(s) : Made(s[k]) \in Seq(Sendable)
  BY <1>1, MadeType
<1>5. m \in [1 .. Len(s) -> Seq(Sendable)]
  BY <1>3, <1>4
<1>6. m \in Seq(Seq(Sendable)) /\ Len(m) = Len(s)
  BY <1>1, <1>5
<1>7. \A k \in 1 .. Len(s) : m[k] = Made(s[k])
  BY <1>3
<1>8. QED BY <1>2, <1>6, <1>7

LEMMA RequestsType ==
  ASSUME NEW s \in Seq(Pieces)
  PROVE  RequestsOf(s) \in Seq(Sendable)
  BY RequestsFlat, MadeByType, FlattenType

LEMMA RequestsConcat ==
  ASSUME NEW s \in Seq(Pieces), NEW t \in Seq(Pieces)
  PROVE  RequestsOf(s \o t) = RequestsOf(s) \o RequestsOf(t)
<1>0. Len(s) \in Nat /\ Len(t) \in Nat
  OBVIOUS
<1>1. PICK u : u = s \o t
  OBVIOUS
<1>2. /\ u \in Seq(Pieces) /\ Len(u) = Len(s) + Len(t)
      /\ \A k \in 1 .. Len(s) + Len(t) : u[k] = IF k <= Len(s) THEN s[k] ELSE t[k - Len(s)]
  BY <1>1, ConcatProperties
<1>3. PICK a, b, c : a = MadeBy(s) /\ b = MadeBy(t) /\ c = MadeBy(u)
  OBVIOUS
<1>4. /\ a \in Seq(Seq(Sendable)) /\ Len(a) = Len(s) /\ \A k \in 1 .. Len(s) : a[k] = Made(s[k])
      /\ b \in Seq(Seq(Sendable)) /\ Len(b) = Len(t) /\ \A k \in 1 .. Len(t) : b[k] = Made(t[k])
      /\ c \in Seq(Seq(Sendable)) /\ Len(c) = Len(u) /\ \A k \in 1 .. Len(u) : c[k] = Made(u[k])
  BY <1>2, <1>3, MadeByType
<1>5. PICK d : d = a \o b
  OBVIOUS
<1>6. /\ d \in Seq(Seq(Sendable)) /\ Len(d) = Len(s) + Len(t)
      /\ \A k \in 1 .. Len(s) + Len(t) : d[k] = IF k <= Len(s) THEN a[k] ELSE b[k - Len(s)]
  <2>1. PICK Q : Q = Seq(Sendable)
    OBVIOUS
  <2>2. a \in Seq(Q) /\ b \in Seq(Q)
    BY <1>4, <2>1
  <2>3. /\ d \in Seq(Q) /\ Len(d) = Len(a) + Len(b)
        /\ \A k \in 1 .. Len(a) + Len(b) : d[k] = IF k <= Len(a) THEN a[k] ELSE b[k - Len(a)]
    BY <1>5, <2>2, ConcatProperties
  <2>4. QED BY <1>4, <2>1, <2>3
<1>7. \A k \in 1 .. Len(s) + Len(t) : c[k] = d[k]
  <2>1. TAKE k \in 1 .. Len(s) + Len(t)
  <2>2. CASE k <= Len(s)
    <3>1. k \in 1 .. Len(s) /\ k \in 1 .. Len(u)
      BY <1>0, <1>2, <2>2
    <3>2. c[k] = Made(u[k]) /\ d[k] = a[k] /\ u[k] = s[k] /\ a[k] = Made(s[k])
      BY <1>2, <1>4, <1>6, <2>2, <3>1
    <3>3. QED BY <3>2
  <2>3. CASE ~(k <= Len(s))
    <3>1. PICK j : j = k - Len(s)
      OBVIOUS
    <3>2. j \in 1 .. Len(t) /\ k \in 1 .. Len(u)
      BY <1>0, <1>2, <2>3, <3>1
    <3>3. c[k] = Made(u[k]) /\ d[k] = b[j] /\ u[k] = t[j] /\ b[j] = Made(t[j])
      BY <1>2, <1>4, <1>6, <2>3, <3>1, <3>2
    <3>4. QED BY <3>3
  <2>4. QED BY <2>2, <2>3
<1>8. c = d
  <2>1. PICK Q : Q = Seq(Sendable)
    OBVIOUS
  <2>2. c \in Seq(Q) /\ d \in Seq(Q) /\ Len(c) = Len(d) /\ \A k \in 1 .. Len(c) : c[k] = d[k]
    BY <1>2, <1>4, <1>6, <1>7, <2>1
  <2>3. QED BY <2>2, SeqEqual
<1>9. FlattenSeq(d) = FlattenSeq(a) \o FlattenSeq(b)
  BY <1>4, <1>5, FlattenConcat
<1>10. /\ RequestsOf(u) = FlattenSeq(c)
       /\ RequestsOf(s) = FlattenSeq(a)
       /\ RequestsOf(t) = FlattenSeq(b)
  BY <1>3, RequestsFlat, Zenon
<1>11. QED BY <1>1, <1>8, <1>9, <1>10

LEMMA RequestsAppend ==
  ASSUME NEW s \in Seq(Pieces), NEW p \in Pieces
  PROVE  RequestsOf(Append(s, p)) =
           IF Request(p) = NoMessage THEN RequestsOf(s) ELSE Append(RequestsOf(s), Request(p))
<1>1. PICK a, b : a = MadeBy(s) /\ b = Made(p)
  OBVIOUS
<1>2. a \in Seq(Seq(Sendable)) /\ b \in Seq(Sendable)
  BY <1>1, MadeByType, MadeType
<1>3. MadeBy(Append(s, p)) = Append(a, b)
  <2>1. PICK u : u = Append(s, p)
    OBVIOUS
  <2>2. /\ u \in Seq(Pieces) /\ Len(u) = Len(s) + 1 /\ u[Len(s) + 1] = p
        /\ \A k \in 1 .. Len(s) : u[k] = s[k]
    BY <2>1, AppendProperties
  <2>3. PICK c, d : c = MadeBy(u) /\ d = Append(a, b)
    OBVIOUS
  <2>4. /\ Len(a) = Len(s) /\ \A k \in 1 .. Len(s) : a[k] = Made(s[k])
        /\ c \in Seq(Seq(Sendable)) /\ Len(c) = Len(u) /\ \A k \in 1 .. Len(u) : c[k] = Made(u[k])
    BY <1>1, <2>2, <2>3, MadeByType
  <2>5. /\ d \in Seq(Seq(Sendable)) /\ Len(d) = Len(a) + 1 /\ d[Len(a) + 1] = b
        /\ \A k \in 1 .. Len(a) : d[k] = a[k]
    BY <1>2, <2>3, AppendProperties
  <2>6. Len(s) \in Nat
    OBVIOUS
  <2>7. \A k \in 1 .. Len(c) : c[k] = d[k]
    <3>1. TAKE k \in 1 .. Len(c)
    <3>2. CASE k \in 1 .. Len(s)
      BY <2>2, <2>4, <2>5, <3>2
    <3>3. CASE k = Len(s) + 1
      BY <1>1, <2>2, <2>4, <2>5, <3>3
    <3>4. k \in 1 .. Len(s) + 1
      BY <2>2, <2>4
    <3>5. QED BY <2>6, <3>2, <3>3, <3>4
  <2>8. c = d
    BY <2>2, <2>4, <2>5, <2>7, SeqEqual
  <2>9. QED BY <2>1, <2>3, <2>8
<1>4. RequestsOf(s) \in Seq(Sendable)
  BY RequestsType
<1>5. PICK r : r = RequestsOf(s)
  OBVIOUS
<1>6. r = FlattenSeq(a) /\ RequestsOf(Append(s, p)) = FlattenSeq(Append(a, b))
  BY <1>1, <1>3, <1>5, RequestsFlat, Zenon
<1>7. RequestsOf(Append(s, p)) = r \o b
  BY <1>2, <1>6, FlattenAppend
<1>8. CASE Request(p) = NoMessage
  <2>1. b = << >> /\ r \o << >> = r
    BY <1>1, <1>4, <1>5, <1>8, ConcatEmptySeq DEF Made
  <2>2. QED BY <1>5, <1>7, <1>8, <2>1
<1>9. CASE Request(p) # NoMessage
  <2>1. PICK q : q = Request(p)
    OBVIOUS
  <2>2. b = <<q>> /\ q \in Sendable
    BY <1>1, <1>9, <2>1 DEF Made, Sendable
  <2>3. Append(r, q) = r \o <<q>>
    BY <1>4, <1>5, <2>2, AppendIsConcat
  <2>4. QED BY <1>5, <1>7, <1>9, <2>1, <2>2, <2>3
<1>10. QED BY <1>8, <1>9

SentInv ==
  /\ IsPrefix(sent, RequestsOf(handled))
  /\ server = "open" =>
       RequestsOf(handled) = IF sending = NoMessage THEN sent ELSE Append(sent, sending)

LEMMA SentType ==
  ASSUME TypeOK
  PROVE  /\ sent \in Seq(Sendable)
         /\ handled \in Seq(Pieces) /\ RequestsOf(handled) \in Seq(Sendable)
<1>1. sent \in Seq(Sendable \ {NoMessage})
  BY DEF TypeOK, Sendable
<1>2. Sendable \ {NoMessage} \subseteq Sendable
  OBVIOUS
<1>3. sent \in Seq(Sendable)
  BY <1>1, <1>2, SeqMonotonic
<1>4. handled \in Seq(Pieces)
  BY DEF TypeOK
<1>5. QED BY <1>3, <1>4, RequestsType

LEMMA SentStep ==
  ASSUME TypeOK, SentInv, Next
  PROVE  SentInv'
<1>1. CASE UNCHANGED <<sent, handled, sending, server>>
  BY <1>1 DEF SentInv
<1>2. CASE TakesPiece
  <2>1. PICK input, rest : Takes(input, rest) /\ HandlePiece(input, rest)
    BY <1>2 DEF TakesPiece
  <2>2. PICK p, r : p = Head(input) /\ r = RequestsOf(handled)
    OBVIOUS
  <2>3. p \in Pieces /\ handled' = Append(handled, p)
    BY <2>1, <2>2, WhatIsTaken DEF HandlePiece
  <2>4. sending = NoMessage /\ UNCHANGED <<sent, server>>
    BY <1>2 DEF TakesPiece, ReadyAt, Scanning
  <2>5. sending' = Request(p)
    <3>1. CASE p.kind = "exit"
      <4>1. Request(p) = NoMessage
        BY <3>1 DEF Request
      <4>2. sending' = sending
        BY <2>1, <2>2, <3>1 DEF HandlePiece
      <4>3. QED BY <2>4, <4>1, <4>2
    <3>2. CASE p.kind # "exit"
      BY <2>1, <2>2, <3>2 DEF HandlePiece
    <3>3. QED BY <3>1, <3>2
  <2>6. r \in Seq(Sendable) /\ sent \in Seq(Sendable) /\ handled \in Seq(Pieces)
    BY <2>2, SentType
  <2>7. RequestsOf(handled') = IF Request(p) = NoMessage THEN r ELSE Append(r, Request(p))
    BY <2>2, <2>3, <2>6, RequestsAppend
  <2>8. IsPrefix(sent, r)
    BY <2>2 DEF SentInv
  <2>9. IsPrefix(sent', RequestsOf(handled'))
    <3>1. CASE Request(p) = NoMessage
      BY <2>4, <2>7, <2>8, <3>1
    <3>2. CASE Request(p) # NoMessage
      <4>1. PICK q, u : q = Request(p) /\ u = <<q>>
        OBVIOUS
      <4>2. q \in Sendable /\ u \in Seq(Sendable)
        BY <2>3, <4>1 DEF Sendable
      <4>3. Append(r, q) = r \o u
        BY <2>6, <4>1, <4>2, AppendIsConcat
      <4>4. IsPrefix(sent, r \o u)
        BY <2>6, <2>8, <4>2, PrefixGrows
      <4>5. QED BY <2>4, <2>7, <3>2, <4>1, <4>3, <4>4
    <3>3. QED BY <3>1, <3>2
  <2>10. ASSUME server' = "open"
         PROVE  RequestsOf(handled') = IF sending' = NoMessage THEN sent' ELSE Append(sent', sending')
    <3>1. r = sent
      BY <2>2, <2>4, <2>10 DEF SentInv
    <3>2. QED BY <2>4, <2>5, <2>7, <3>1
  <2>11. QED BY <2>9, <2>10 DEF SentInv
<1>3. CASE handle_input
  <2>1. CASE TakesEnd
    BY <1>1, <2>1 DEF TakesEnd
  <2>2. QED BY <1>2, <1>3, <2>1, InputCases
<1>4. CASE SendStep
  <2>1. sending # NoMessage /\ sending' = NoMessage /\ handled' = handled
    BY <1>4 DEF SendStep
  <2>2. CASE server = "open" /\ sent' = Append(sent, sending)
    <3>1. PICK r : r = RequestsOf(handled)
      OBVIOUS
    <3>2. r = sent'
      BY <2>1, <2>2, <3>1 DEF SentInv
    <3>3. r \in Seq(Sendable)
      BY <3>1, SentType
    <3>4. IsPrefix(r, r)
      BY <3>3, PrefixIsElements
    <3>5. QED BY <2>1, <3>1, <3>2, <3>4 DEF SentInv
  <2>3. CASE server # "open" /\ server' \in {"fin", "rst"} /\ sent' = sent
    BY <2>1, <2>3 DEF SentInv
  <2>4. QED BY <1>4, <2>2, <2>3 DEF SendStep
<1>5. CASE ServerClose
  BY <1>5 DEF ServerClose, process, SentInv
<1>6. CASE Poll \/ Skip \/ HangUp \/ PollFails \/ handle_server_message
  BY <1>1, <1>6 DEF Poll, Skip, HangUp, PollFails, handle_server_message, ReadyAt,
                    Scanning, world
<1>7. CASE BeginLine \/ EndInput \/ ServerSend \/ ServerRead \/ \E l \in Lines : Type(l)
  BY <1>1, <1>7 DEF BeginLine, EndInput, ServerSend, ServerRead, Type, process
<1>8. QED BY <1>3, <1>4, <1>5, <1>6, <1>7 DEF Next, ClientNext, ClientRuns, WorldNext

LEMMA SentCorrect == Spec => []SentInv
<1>1. Init => SentInv
  <2>1. SUFFICES ASSUME Init PROVE SentInv
    OBVIOUS
  <2>2. /\ sent = << >> /\ handled = << >> /\ sending = NoMessage
        /\ << >> \in Seq(Pieces) /\ << >> \in Seq(Sendable)
    BY <2>1, EmptySeq DEF Init
  <2>3. RequestsOf(<< >>) = << >>
    <3>1. PICK e, m : e = << >> /\ m = MadeBy(e)
      OBVIOUS
    <3>2. m \in Seq(Seq(Sendable)) /\ Len(m) = 0
      BY <2>2, <3>1, MadeByType, EmptySeq
    <3>3. m = << >> /\ FlattenSeq(m) = m
      BY <3>2, EmptySeq DEF FlattenSeq
    <3>4. RequestsOf(e) = FlattenSeq(m)
      BY <3>1, RequestsFlat
    <3>5. QED BY <3>1, <3>3, <3>4
  <2>4. IsPrefix(<< >>, << >>)
    <3>1. PICK e : e = << >>
      OBVIOUS
    <3>2. e \in Seq(Sendable)
      BY <2>2, <3>1
    <3>3. IsPrefix(e, e)
      BY <3>2, PrefixIsElements
    <3>4. QED BY <3>1, <3>3
  <2>5. QED BY <2>2, <2>3, <2>4 DEF SentInv
<1>2. SentInv /\ UNCHANGED vars => SentInv'
  BY DEF SentInv, vars, process, world
<1>3. QED BY <1>1, <1>2, SentStep, TypeCorrect, PTL DEF Spec

(* What is sent is what was typed: nothing skipped, nothing twice, nothing *)
(* out of order, and nothing of what was handled is missing while the      *)
(* server is there.                                                        *)
THEOREM TypedIsSent == Spec => []SentIsWhatWasTyped
<1>1. TypeOK /\ InputInv /\ SentInv => SentIsWhatWasTyped
  <2>1. SUFFICES ASSUME TypeOK, InputInv, SentInv PROVE SentIsWhatWasTyped
    OBVIOUS
  <2>2. PICK u, r : u = stdio \o FlattenSeq(typed) /\ r = RequestsOf(handled)
    OBVIOUS
  <2>3. handled \in Seq(Pieces) /\ sent \in Seq(Sendable) /\ r \in Seq(Sendable)
    BY <2>1, <2>2, SentType
  <2>4. u \in Seq(Pieces)
    <3>1. stdio \in Seq(Pieces) /\ typed \in Seq(Lines)
      BY <2>1 DEF TypeOK
    <3>2. PICK a : a = FlattenSeq(typed)
      OBVIOUS
    <3>3. a \in Seq(Pieces)
      BY <3>1, <3>2, LinesFlat
    <3>4. stdio \o a \in Seq(Pieces)
      BY <3>1, <3>3, ConcatProperties
    <3>5. QED BY <2>2, <3>2, <3>4
  <2>5. PICK v : v = RequestsOf(u)
    OBVIOUS
  <2>6. v \in Seq(Sendable)
    BY <2>4, <2>5, RequestsType
  <2>7. FlattenSeq(lines) = handled \o u
    BY <2>1, <2>2 DEF InputInv, InputKept
  <2>8. RequestsOf(handled \o u) = r \o v
    BY <2>2, <2>3, <2>4, <2>5, RequestsConcat
  <2>9. IsPrefix(sent, r \o v)
    <3>1. IsPrefix(sent, r)
      BY <2>1, <2>2 DEF SentInv
    <3>2. QED BY <2>3, <2>6, <3>1, PrefixGrows
  <2>10. IsPrefix(sent, RequestsOf(FlattenSeq(lines)))
    BY <2>7, <2>8, <2>9
  <2>11. QED BY <2>1, <2>10 DEF SentInv, SentIsWhatWasTyped
<1>2. QED BY <1>1, SentCorrect, InputCorrect, TypeCorrect, PTL

-----------------------------------------------------------------------------
(***************************************************************************)
(* The client is a client of ChatRooms, step by step.                      *)
(***************************************************************************)
UnreadInv == unread <= Len(sent)

LEMMA UnreadStep ==
  ASSUME TypeOK, UnreadInv, Next
  PROVE  UnreadInv'
<1>0. Len(sent) \in Nat /\ unread \in Nat
  BY ClientAssumption DEF TypeOK
<1>1. CASE UNCHANGED <<unread, sent>>
  BY <1>1 DEF UnreadInv
<1>3. CASE SendStep
  <2>2. CASE sent' = Append(sent, sending) /\ unread' = unread + 1
    <3>1. sending \in Sendable \ {NoMessage} /\ sent \in Seq(Sendable)
      BY <1>3, SentType DEF TypeOK, Sendable, SendStep
    <3>2. Len(sent') = Len(sent) + 1
      BY <2>2, <3>1, AppendProperties
    <3>3. QED BY <1>0, <2>2, <3>2 DEF UnreadInv
  <2>4. QED BY <1>1, <1>3, <2>2 DEF SendStep
<1>4. CASE ServerRead \/ ServerClose
  <2>1. sent' = sent /\ (unread' = 0 \/ (unread' = unread - 1 /\ unread > 0))
    BY <1>4 DEF ServerRead, ServerClose, process
  <2>2. QED BY <1>0, <2>1 DEF UnreadInv
<1>5. CASE handle_input
  BY <1>1, <1>5 DEF handle_input
<1>6. CASE Poll \/ Skip \/ HangUp \/ PollFails \/ handle_server_message
  BY <1>1, <1>6 DEF Poll, Skip, HangUp, PollFails, handle_server_message, world
<1>7. CASE BeginLine \/ EndInput \/ ServerSend \/ \E l \in Lines : Type(l)
  BY <1>1, <1>7 DEF BeginLine, EndInput, ServerSend, Type, process
<1>8. QED BY <1>3, <1>4, <1>5, <1>6, <1>7 DEF Next, ClientNext, ClientRuns, WorldNext

LEMMA UnreadCorrect == Spec => []UnreadInv
<1>1. Init => UnreadInv
  BY EmptySeq DEF Init, UnreadInv
<1>2. UnreadInv /\ UNCHANGED vars => UnreadInv'
  BY DEF UnreadInv, vars, process, world
<1>3. QED BY <1>1, <1>2, UnreadStep, TypeCorrect, PTL DEF Spec

PartStep == [Together!ClientNext(Me)]_(Together!vars)

LEMMA PartStutters ==
  ASSUME UNCHANGED <<Link, Inq, Unprinted, Todo, sending>>
  PROVE  PartStep
  BY DEF PartStep, Together!vars, Together!server, Together!kernel, Together!clients

LEMMA OneClient ==
  ASSUME NEW a, NEW b
  PROVE  /\ [c \in {Me} |-> a][Me] = a
         /\ [[c \in {Me} |-> a] EXCEPT ![Me] = b] = [c \in {Me} |-> b]
  OBVIOUS

LEMMA PartActive ==
  ASSUME Running
  PROVE  Together!Active(Me) /\ Link = "open"
  BY DEF Together!Active, Link

LEMMA PartLoops ==
  ASSUME Running, sending = NoMessage
  PROVE  Together!Looping(Me)
<1>1. [c \in {Me} |-> sending][Me] = NoMessage
  OBVIOUS
<1>2. Together!NoMessage = NoMessage
  BY DEF Together!NoMessage, NoMessage
<1>3. QED BY <1>1, <1>2, PartActive DEF Together!Looping

LEMMA PartServer == UNCHANGED Together!server
  BY DEF Together!server

LEMMA PartKernel ==
  ASSUME UNCHANGED <<Link, Inq, Unprinted>>
  PROVE  UNCHANGED Together!kernel
  BY DEF Together!kernel

LEMMA TodoType == Todo \in SUBSET {"server", "stdin"} /\ Todo' \in SUBSET {"server", "stdin"}
  BY DEF Todo

LEMMA PartPolls ==
  ASSUME Running, sending = NoMessage, Todo = {},
         Todo' # {}, "server" \in Todo' <=> Unprinted # << >>,
         UNCHANGED <<Link, Inq, Unprinted, sending>>
  PROVE  Together!ClientPoll(Me)
<1>1. Together!Looping(Me) /\ UNCHANGED <<Together!server, Together!kernel>>
  BY PartLoops, PartServer, PartKernel
<1>2. PICK inputs : inputs = Todo'
  OBVIOUS
<1>3. /\ inputs \in (SUBSET {"server", "stdin"}) \ {{}}
      /\ "server" \in inputs <=> Unprinted # << >>
  BY <1>2, TodoType
<1>4. /\ [c \in {Me} |-> Todo][Me] = {} /\ [c \in {Me} |-> Unprinted][Me] = Unprinted
      /\ [c \in {Me} |-> Todo'] = [[c \in {Me} |-> Todo] EXCEPT ![Me] = inputs]
  BY <1>2, OneClient
<1>5. [c \in {Me} |-> sending'] = [c \in {Me} |-> sending]
  OBVIOUS
<1>6. QED BY <1>1, <1>3, <1>4, <1>5 DEF Together!ClientPoll

LEMMA PartReads ==
  ASSUME Running, sending = NoMessage, "server" \in Todo, Unprinted # << >>,
         Todo' = Todo \ {"server"},
         Unprinted' = Together!Take(Unprinted, Head(Unprinted)),
         UNCHANGED <<Link, Inq, sending>>
  PROVE  Together!ClientReads(Me)
<1>1. Together!Looping(Me) /\ UNCHANGED Together!server
  BY PartLoops, PartServer
<1>2. /\ [c \in {Me} |-> Todo][Me] = Todo /\ [c \in {Me} |-> Unprinted][Me] = Unprinted
      /\ [c \in {Me} |-> Todo'] = [[c \in {Me} |-> Todo] EXCEPT ![Me] = Todo \ {"server"}]
      /\ [c \in {Me} |-> Unprinted']
           = [[c \in {Me} |-> Unprinted] EXCEPT ![Me] = Together!Take(Unprinted, Head(Unprinted))]
  BY OneClient
<1>3. /\ [c \in {Me} |-> sending'] = [c \in {Me} |-> sending]
      /\ [c \in {Me} |-> Link'] = [c \in {Me} |-> Link]
      /\ [c \in {Me} |-> Inq'] = [c \in {Me} |-> Inq]
  OBVIOUS
<1>4. QED BY <1>1, <1>2, <1>3 DEF Together!ClientReads, Together!Take

LEMMA PartTakesInput ==
  ASSUME Running, sending = NoMessage, Todo = {"stdin"}, Todo' = {},
         sending' \in Sendable \cup {NoMessage},
         UNCHANGED <<Link, Inq, Unprinted>>
  PROVE  Together!ClientTakesInput(Me)
<1>1. Together!Looping(Me) /\ UNCHANGED <<Together!server, Together!kernel>>
  BY PartLoops, PartServer, PartKernel
<1>2. PICK m : m = sending'
  OBVIOUS
<1>3. m \in Sent \cup {NoMessage}
  BY <1>2 DEF Sendable, Sent
<1>4. /\ [c \in {Me} |-> Todo][Me] = {"stdin"}
      /\ [c \in {Me} |-> Todo'] = [[c \in {Me} |-> Todo] EXCEPT ![Me] = {}]
      /\ [c \in {Me} |-> sending'] = [[c \in {Me} |-> sending] EXCEPT ![Me] = m]
  BY <1>2, OneClient
<1>5. Together!NoMessage = NoMessage
  BY DEF Together!NoMessage, NoMessage
<1>6. QED BY <1>1, <1>3, <1>4, <1>5 DEF Together!ClientTakesInput, Together!AtInput

LEMMA PartSends ==
  ASSUME Running, sending # NoMessage, sending' = NoMessage,
         Together!Fits(Inq, One[sending]),
         Inq' = Together!Put(Inq, sending, One[sending]),
         UNCHANGED <<Link, Unprinted, Todo>>
  PROVE  Together!ClientSends(Me)
<1>1. Together!Active(Me) /\ UNCHANGED Together!server
  BY PartActive, PartServer
<1>2. /\ [c \in {Me} |-> Inq][Me] = Inq /\ [c \in {Me} |-> sending][Me] = sending
      /\ [c \in {Me} |-> Inq']
           = [[c \in {Me} |-> Inq] EXCEPT ![Me] = Together!Put(Inq, sending, One[sending])]
      /\ [c \in {Me} |-> sending'] = [[c \in {Me} |-> sending] EXCEPT ![Me] = NoMessage]
  BY OneClient
<1>3. /\ [c \in {Me} |-> Todo'] = [c \in {Me} |-> Todo]
      /\ [c \in {Me} |-> Link'] = [c \in {Me} |-> Link]
      /\ [c \in {Me} |-> Unprinted'] = [c \in {Me} |-> Unprinted]
  OBVIOUS
<1>4. Together!NoMessage = NoMessage
  BY DEF Together!NoMessage, NoMessage
<1>5. QED BY <1>1, <1>2, <1>3, <1>4 DEF Together!ClientSends, Together!Fits, Together!Put

LEMMA PartLeaves ==
  ASSUME Running, sending = NoMessage, sending' = NoMessage, Unprinted' = << >>, Todo' = {},
         Link' = IF Unprinted # << >> THEN "rst" ELSE "fin",
         UNCHANGED Inq
  PROVE  Together!ClientLeaves(Me)
<1>1. Together!Active(Me) /\ UNCHANGED Together!server
  BY PartActive, PartServer
<1>2. PICK how : how = IF Unprinted # << >> THEN "rst" ELSE "fin"
  OBVIOUS
<1>3. /\ [c \in {Me} |-> Unprinted][Me] = Unprinted
      /\ [c \in {Me} |-> Link'] = [[c \in {Me} |-> Link] EXCEPT ![Me] = how]
      /\ [c \in {Me} |-> Unprinted'] = [[c \in {Me} |-> Unprinted] EXCEPT ![Me] = << >>]
      /\ [c \in {Me} |-> Todo'] = [[c \in {Me} |-> Todo] EXCEPT ![Me] = {}]
      /\ [c \in {Me} |-> sending'] = [[c \in {Me} |-> sending] EXCEPT ![Me] = NoMessage]
  BY <1>2, OneClient
<1>4. [c \in {Me} |-> Inq'] = [c \in {Me} |-> Inq]
  OBVIOUS
<1>5. Together!NoMessage = NoMessage
  BY DEF Together!NoMessage, NoMessage
<1>6. QED BY <1>1, <1>2, <1>3, <1>4, <1>5 DEF Together!ClientLeaves

LEMMA QueueGrows ==
  ASSUME sent \in Seq(Sendable), sending \in Sendable, unread \in Nat, unread <= Len(sent)
  PROVE  /\ SubSeq(sent, Len(sent) - unread + 1, Len(sent)) \in Seq(Sendable)
         /\ Len(SubSeq(sent, Len(sent) - unread + 1, Len(sent))) = unread
         /\ SubSeq(Append(sent, sending), Len(sent) - unread + 1, Len(sent) + 1)
              = Append(SubSeq(sent, Len(sent) - unread + 1, Len(sent)), sending)
<1> DEFINE S == Sendable
<1> HIDE DEF S
<1>named. PICK s, x, n : s = sent /\ x = sending /\ n = unread
  OBVIOUS
<1>typed. s \in Seq(S) /\ x \in S /\ n \in Nat /\ n <= Len(s)
  BY <1>named DEF S
<1>0. PICK l, a : l = Len(s) /\ a = l - n + 1
  OBVIOUS
<1>1. l \in Nat /\ a \in 1 .. l + 1
  BY <1>0, <1>typed
<1>2. PICK t, u, v, w : /\ t = Append(s, x) /\ u = SubSeq(s, a, l)
                        /\ v = SubSeq(t, a, l + 1) /\ w = Append(u, x)
  OBVIOUS
<1>3. t \in Seq(S) /\ Len(t) = l + 1 /\ t[l + 1] = x /\ \A k \in 1 .. l : t[k] = s[k]
  BY <1>0, <1>2, <1>typed, AppendProperties
<1>4. u \in Seq(S) /\ Len(u) = n /\ \A k \in 1 .. n : u[k] = s[a + k - 1]
  <2>1. a \in 1 .. Len(s) + 1 /\ l \in a - 1 .. Len(s)
    BY <1>0, <1>1, <1>typed
  <2>2. l - a + 1 = n
    BY <1>0, <1>1, <1>typed
  <2>3. u \in Seq(S) /\ Len(u) = l - a + 1 /\ \A k \in 1 .. l - a + 1 : u[k] = s[a + k - 1]
    BY <1>2, <1>typed, <2>1, SubSeqProperties
  <2>4. QED BY <2>2, <2>3
<1>5. v \in Seq(S) /\ Len(v) = n + 1 /\ \A k \in 1 .. n + 1 : v[k] = t[a + k - 1]
  <2>0. PICK b : b = l + 1
    OBVIOUS
  <2>1. t \in Seq(S) /\ a \in 1 .. Len(t) + 1 /\ b \in a - 1 .. Len(t) /\ v = SubSeq(t, a, b)
    BY <1>1, <1>2, <1>3, <2>0
  <2>2. b - a + 1 = n + 1
    BY <1>0, <1>1, <1>typed, <2>0
  <2>3. v \in Seq(S) /\ Len(v) = b - a + 1 /\ \A k \in 1 .. b - a + 1 : v[k] = t[a + k - 1]
    BY <2>1, SubSeqProperties
  <2>4. QED BY <2>2, <2>3
<1>6. w \in Seq(S) /\ Len(w) = n + 1 /\ w[n + 1] = x /\ \A k \in 1 .. n : w[k] = u[k]
  <2>1. w = Append(u, x) /\ u \in Seq(S) /\ Len(u) = n
    BY <1>2, <1>4
  <2>2. /\ w \in Seq(S) /\ Len(w) = Len(u) + 1 /\ w[Len(u) + 1] = x
        /\ \A k \in 1 .. Len(u) : w[k] = u[k]
    BY <2>1, <1>typed, AppendProperties
  <2>3. QED BY <2>1, <2>2
<1>7. \A k \in 1 .. n + 1 : v[k] = w[k]
  <2>1. TAKE k \in 1 .. n + 1
  <2>2. CASE k = n + 1
    <3>1. a + k - 1 = l + 1
      BY <1>0, <1>1, <1>typed, <2>2
    <3>2. QED BY <1>3, <1>5, <1>6, <2>2, <3>1
  <2>3. CASE k \in 1 .. n
    <3>1. PICK j : j = a + k - 1
      OBVIOUS
    <3>2. j \in 1 .. l
      BY <1>0, <1>1, <1>typed, <2>3, <3>1
    <3>3. v[k] = t[j] /\ u[k] = s[j]
      BY <1>4, <1>5, <1>typed, <2>3, <3>1
    <3>4. QED BY <1>3, <1>6, <2>3, <3>2, <3>3
  <2>4. k = n + 1 \/ k \in 1 .. n
    BY <1>typed
  <2>5. QED BY <2>2, <2>3, <2>4
<1>8. v = w
  BY <1>5, <1>6, <1>7, SeqEqual
<1>9. QED BY <1>0, <1>2, <1>4, <1>8, <1>named DEF S
(* Each message takes one unit of a buffer.                                *)
Cells(n) == [k \in 1 .. n |-> 1]

LEMMA CellsType ==
  ASSUME NEW n \in Nat
  PROVE  /\ Cells(n) \in Seq({1}) /\ Len(Cells(n)) = n
         /\ Cells(n) # << >> <=> n > 0
<1>1. PICK c : c = Cells(n)
  OBVIOUS
<1>2. c \in [1 .. n -> {1}]
  BY <1>1 DEF Cells
<1>3. c \in Seq({1}) /\ Len(c) = n
  BY <1>2
<1>4. c # << >> <=> n > 0
  BY <1>3, EmptySeq
<1>5. QED BY <1>1, <1>3, <1>4

LEMMA CellsTake ==
  ASSUME NEW n \in Nat, n > 0
  PROVE  Cells(n - 1) = Together!Take(Cells(n), Head(Cells(n)))
<1>1. PICK c, d : c = Cells(n) /\ d = Cells(n - 1)
  OBVIOUS
<1>2. /\ c \in Seq({1}) /\ Len(c) = n /\ d \in Seq({1}) /\ Len(d) = n - 1
  BY <1>1, CellsType
<1>3. Head(c) = 1
  BY <1>2
<1>4. PICK t : t = SubSeq(c, 2, n)
  OBVIOUS
<1>5. t \in Seq({1}) /\ Len(t) = n - 1
  <2>1. /\ t \in Seq({1}) /\ Len(t) = IF 2 <= n THEN n - 2 + 1 ELSE 0
    BY <1>2, <1>4
  <2>2. QED BY <2>1
<1>6. t = d
  BY <1>2, <1>5, SeqEqual
<1>7. Together!Take(Cells(n), Head(Cells(n))) = SubSeq(Cells(n), Head(Cells(n)) + 1, Len(Cells(n)))
  BY DEF Together!Take
<1>8. SubSeq(Cells(n), Head(Cells(n)) + 1, Len(Cells(n))) = SubSeq(c, 2, n)
  BY <1>1, <1>2, <1>3
<1>9. QED BY <1>1, <1>4, <1>6, <1>7, <1>8

LEMMA CellsPut ==
  ASSUME NEW S, NEW s \in Seq(S), NEW x \in S
  PROVE  Together!Put(s, x, 1) = Append(s, x)
<1>1. [k \in 1 .. 1 |-> x] = <<x>>
  OBVIOUS
<1>2. Append(s, x) = s \o <<x>>
  BY AppendIsConcat
<1>3. QED BY <1>1, <1>2 DEF Together!Put

LEMMA PartSimulation ==
  ASSUME TypeOK, UnreadInv, ClientNext, server = "open"
  PROVE  PartStep
<1>0. /\ inbox \in Seq(Range(ServerSends)) /\ Len(inbox) \in Nat
      /\ inbox # << >> <=> Len(inbox) > 0
      /\ i \in 1 .. 3 /\ stdin.ended \in BOOLEAN
  BY EmptySeq DEF TypeOK
<1>1. Running
  BY DEF ClientNext, ClientRuns, Poll, Skip, HangUp, PollFails, handle_server_message,
         handle_input, SendStep, ReadyAt, Scanning
<1>2. Unprinted = Cells(Len(inbox)) /\ (Unprinted # << >> <=> inbox # << >>)
  <2>1. Unprinted = Cells(Len(inbox))
    BY <1>0, <1>1 DEF Unprinted, Cells
  <2>2. QED BY <1>0, <2>1, CellsType
<1>3. CASE Poll
  <2>1. /\ sending = NoMessage /\ i = 3 /\ i' = 1
        /\ revents' = <<PollServer, PollStdin>>
        /\ revents'[1] \cup revents'[2] # {}
        /\ UNCHANGED <<sending, status, sent, unread, inbox>>
    BY <1>3 DEF Poll, world
  <2>2. Running' /\ UNCHANGED <<Link, Inq, Unprinted>>
    BY <1>1, <2>1 DEF Running, Link, Inq, Unprinted
  <2>3. Todo = {}
    BY <2>1 DEF Todo
  <2>4. "server" \in Todo' <=> revents'[1] # {}
    BY <2>1, <2>2 DEF Todo
  <2>5. "stdin" \in Todo' <=> revents'[2] # {}
    BY <2>1, <2>2 DEF Todo
  <2>6. revents'[1] # {} <=> inbox # << >>
    <3>1. PollServer # {} <=> inbox # << >>
      BY DEF PollServer
    <3>2. QED BY <2>1, <3>1
  <2>7. Todo' # {}
    BY <2>1, <2>4, <2>5
  <2>8. Together!ClientPoll(Me)
    BY <1>1, <1>2, <2>1, <2>2, <2>3, <2>4, <2>6, <2>7, PartPolls
  <2>9. QED BY <2>8 DEF PartStep, Together!ClientNext
<1>4. CASE Skip
  <2>1. /\ i \in 1 .. 2 /\ revents[i] = {} /\ i' = i + 1
        /\ UNCHANGED <<revents, sending, status, sent, unread, inbox>>
    BY <1>4 DEF Skip, Scanning, world
  <2>2. UNCHANGED <<Link, Inq, Unprinted>>
    BY <1>1, <2>1 DEF Running, Link, Inq, Unprinted, Leaving
  <2>3. Running' = Running
    BY <2>1 DEF Running
  <2>4. Todo' = Todo
    BY <2>1, <2>3 DEF Todo
  <2>5. QED BY <2>1, <2>2, <2>4, PartStutters
<1>5. ASSUME sending = NoMessage, status' # "running", UNCHANGED <<sending, sent, unread, inbox>>
      PROVE  PartStep
  <2>1. Unprinted' = << >> /\ Todo' = {} /\ Link' = Leaving'
    BY <1>5 DEF Running, Unprinted, Todo, Link
  <2>2. Leaving' = IF Unprinted # << >> THEN "rst" ELSE "fin"
    BY <1>0, <1>2, <1>5 DEF Leaving
  <2>3. UNCHANGED Inq
    BY <1>5 DEF Inq
  <2>4. Together!ClientLeaves(Me)
    BY <1>1, <1>5, <2>1, <2>2, <2>3, PartLeaves
  <2>5. QED BY <2>4 DEF PartStep, Together!ClientNext
<1>6. CASE HangUp \/ PollFails
  BY <1>5, <1>6 DEF HangUp, PollFails, Scanning, world
<1>7. CASE handle_server_message
  <2>1. /\ sending = NoMessage /\ i = 1 /\ revents[1] = {"IN"} /\ i' = i + 1
        /\ inbox # << >> /\ inbox' = Tail(inbox)
        /\ UNCHANGED <<revents, sending, status, sent, unread>>
    BY <1>7 DEF handle_server_message, ReadyAt, Scanning
  <2>2. Running' /\ UNCHANGED <<Link, Inq>>
    BY <1>1, <2>1 DEF Running, Link, Inq
  <2>3. Unprinted # << >> /\ Unprinted' = Together!Take(Unprinted, Head(Unprinted))
    <3>1. inbox' \in Seq(Range(ServerSends)) /\ Len(inbox') = Len(inbox) - 1 /\ Len(inbox) > 0
      BY <1>0, <2>1, HeadTailProperties
    <3>2. Unprinted' = Cells(Len(inbox) - 1)
      BY <2>2, <3>1 DEF Unprinted, Cells
    <3>3. Cells(Len(inbox) - 1) = Together!Take(Cells(Len(inbox)), Head(Cells(Len(inbox))))
      BY <1>0, <3>1, CellsTake
    <3>4. Together!Take(Unprinted, Head(Unprinted))
            = Together!Take(Cells(Len(inbox)), Head(Cells(Len(inbox))))
      BY <1>2 DEF Together!Take
    <3>5. QED BY <1>2, <2>1, <3>2, <3>3, <3>4
  <2>4. "server" \in Todo /\ Todo' = Todo \ {"server"}
    BY <1>1, <2>1, <2>2 DEF Todo
  <2>5. Together!ClientReads(Me)
    BY <1>1, <2>1, <2>2, <2>3, <2>4, PartReads
  <2>6. QED BY <2>5 DEF PartStep, Together!ClientNext
<1>8. CASE TakesEnd
  BY <1>5, <1>8 DEF TakesEnd, ReadyAt, Scanning
<1>9. CASE TakesPiece
  <2>1. PICK input, rest : Takes(input, rest) /\ HandlePiece(input, rest)
    BY <1>9 DEF TakesPiece
  <2>2. /\ sending = NoMessage /\ i = 2 /\ revents[2] = {"IN"}
        /\ UNCHANGED <<revents, sent, unread, inbox>>
    BY <1>9 DEF TakesPiece, ReadyAt, Scanning
  <2>3. CASE Head(input).kind = "exit"
    <3>1. status' = "exited" /\ sending' = sending
      BY <2>1, <2>3 DEF HandlePiece
    <3>2. QED BY <1>5, <2>2, <3>1
  <2>4. CASE Head(input).kind # "exit"
    <3>1. status' = status /\ sending' = Request(Head(input)) /\ i' = i + 1
      BY <2>1, <2>4 DEF HandlePiece
    <3>2. Running' /\ UNCHANGED <<Link, Inq, Unprinted>>
      BY <1>1, <2>2, <3>1 DEF Running, Link, Inq, Unprinted
    <3>3. Todo = {"stdin"}
      BY <1>1, <2>2 DEF Todo
    <3>4. Todo' = {}
      BY <2>2, <3>1 DEF Todo
    <3>5. sending' \in Sendable
      BY <2>1, <3>1, WhatIsTaken DEF Sendable
    <3>6. Together!ClientTakesInput(Me)
      BY <1>1, <2>2, <3>2, <3>3, <3>4, <3>5, PartTakesInput
    <3>7. QED BY <3>6 DEF PartStep, Together!ClientNext
  <2>5. QED BY <2>3, <2>4
<1>10. CASE SendStep
  <2>1. /\ sending # NoMessage /\ sending' = NoMessage /\ unread < SockBuf
        /\ sent' = Append(sent, sending) /\ unread' = unread + 1
        /\ UNCHANGED <<status, i, revents, inbox>>
    BY <1>10 DEF SendStep, MaySend
  <2>2. UNCHANGED <<Link, Unprinted, Todo>>
    <3>1. Running' = Running
      BY <2>1 DEF Running
    <3>2. Link' = Link /\ Unprinted' = Unprinted
      BY <1>1, <2>1, <3>1 DEF Link, Unprinted
    <3>3. Todo' = Todo
      BY <2>1, <3>1 DEF Todo
    <3>4. QED BY <3>2, <3>3
  <2>3. sending \in Sendable /\ sent \in Seq(Sendable)
    BY <2>1, SentType DEF TypeOK, Sendable
  <2>4. unread \in Nat /\ unread <= Len(sent)
    BY ClientAssumption DEF TypeOK, UnreadInv
  <2>5. PICK l : l = Len(sent)
    OBVIOUS
  <2>6. l \in Nat /\ Len(sent') = l + 1
    BY <2>1, <2>3, <2>5, AppendProperties
  <2>7. Len(sent') - unread' + 1 = l - unread + 1
    BY <2>1, <2>4, <2>6
  <2>8. /\ Len(SubSeq(sent, l - unread + 1, l)) = unread
        /\ SubSeq(Append(sent, sending), l - unread + 1, l + 1)
             = Append(SubSeq(sent, l - unread + 1, l), sending)
    BY <2>3, <2>4, <2>5, QueueGrows
  <2>9. Len(Inq) = unread /\ Inq' = Append(Inq, sending)
    BY <2>1, <2>5, <2>6, <2>7, <2>8 DEF Inq
  <2>10. One[sending] = 1
    BY <2>1, <2>3 DEF One, Sent, Sendable
  <2>11. Together!Fits(Inq, One[sending])
    BY <2>1, <2>4, <2>9, <2>10, ClientAssumption DEF Together!Fits
  <2>12. Inq' = Together!Put(Inq, sending, One[sending])
    <3>1. Inq \in Seq(Sendable)
      BY <2>3, <2>4, QueueGrows DEF Inq
    <3>2. Together!Put(Inq, sending, 1) = Append(Inq, sending)
      BY <2>3, <3>1, CellsPut
    <3>3. Together!Put(Inq, sending, One[sending]) = Together!Put(Inq, sending, 1)
      BY <2>10 DEF Together!Put
    <3>4. QED BY <2>9, <3>2, <3>3
  <2>13. Together!ClientSends(Me)
    BY <1>1, <2>1, <2>2, <2>11, <2>12, PartSends
  <2>14. QED BY <2>13 DEF PartStep, Together!ClientNext
<1>11. QED BY <1>3, <1>4, <1>6, <1>7, <1>8, <1>9, <1>10, InputCases DEF ClientNext, ClientRuns

(* Every step of the client, while the server is there, is a step of a     *)
(* client of ChatRooms or a stutter.                                       *)
THEOREM ClientIsAClient == Spec => ClientTakesPart
<1>1. TypeOK /\ UnreadInv /\ [Next]_vars
        => [ClientNext /\ server = "open" => [Together!ClientNext(Me)]_(Together!vars)]_vars
  BY PartSimulation DEF PartStep
<1>2. QED BY <1>1, TypeCorrect, UnreadCorrect, PTL DEF Spec, ClientTakesPart
=============================================================================
