--------------------------- MODULE GeneratorProofs ---------------------------
(***************************************************************************)
(* What TLAPS proves of a run of the plugin, and of the prompts and the    *)
(* resources on a server of what it wrote: for any files, messages and     *)
(* enums that refer to each other, options, methods with names of any      *)
(* length, prompts and texts, templates and values.                        *)
(***************************************************************************)
EXTENDS PromptServing, LeastElements, FiniteSetTheorems, SequenceTheorems

-----------------------------------------------------------------------------
(* Sublists and concatenations *)

\* The recursive definition of Only has a solution.
Sublisting(upTo, s, S, T) ==
  /\ upTo \in [0..Len(s) -> Seq(T)]
  /\ upTo[0] = <<>>
  /\ \A i \in 1..Len(s) : upTo[i] = IF s[i] \in S THEN Append(upTo[i - 1], s[i]) ELSE upTo[i - 1]
  /\ Only(s, S) = upTo[Len(s)]

LEMMA OnlyUnfolds ==
  ASSUME NEW T, NEW s \in Seq(T), NEW S
  PROVE  \E upTo : Sublisting(upTo, s, S, T)
<1> DEFINE step == [i \in 1..Len(s) |-> [x \in Seq(T) |-> IF s[i] \in S THEN Append(x, s[i]) ELSE x]]
           Body(f) == [n \in 0..Len(s) |->
                         IF n = 0 THEN <<>> ELSE IF s[n] \in S THEN Append(f[n - 1], s[n]) ELSE f[n - 1]]
<1>1. Len(s) \in Nat /\ \A i \in 1..Len(s) : s[i] \in T
  OBVIOUS
<1>2. step \in [1..Len(s) -> [Seq(T) -> Seq(T)]] /\ <<>> \in Seq(T)
  BY <1>1
<1>3. PICK f \in [0..Len(s) -> Seq(T)] : f[0] = <<>> /\ \A i \in 1..Len(s) : f[i] = step[i][f[i - 1]]
  <2>1. step \in Steps(Len(s), Seq(T))
    BY <1>2 DEF Steps
  <2>2. \E f : Iterates(f, Len(s), Seq(T), <<>>, step)
    <3> HIDE DEF step
    <3> QED BY <1>1, <1>2, <2>1, Recursion
  <2> HIDE DEF step
  <2> QED BY <2>2 DEF Iterates
<1>4. \A i \in 1..Len(s) : i - 1 \in 0..Len(s) /\ i \in 0..Len(s)
  BY <1>1
<1>5. \A i \in 1..Len(s) : f[i] = IF s[i] \in S THEN Append(f[i - 1], s[i]) ELSE f[i - 1]
  BY <1>3, <1>4
<1>6. f = Body(f)
  <2>1. ASSUME NEW i \in 0..Len(s) PROVE f[i] = Body(f)[i]
    <3>1. CASE i = 0
      BY <1>3, <3>1
    <3>2. CASE i # 0
      <4>1. i \in 1..Len(s)
        BY <3>2, <1>1
      <4> QED BY <3>2, <4>1, <1>5
    <3> QED BY <3>1, <3>2
  <2> QED BY <2>1, <1>3
<1>7. Only(s, S) = (CHOOSE g : g = Body(g))[Len(s)]
  BY DEF Only
<1> DEFINE g == CHOOSE h : h = Body(h)
<1>8. g = Body(g)
  <2> HIDE DEF Body
  <2> QED BY <1>6
<1>9. \A n \in 0..Len(s) : g[n] = IF n = 0 THEN <<>> ELSE IF s[n] \in S THEN Append(g[n - 1], s[n]) ELSE g[n - 1]
  <2>1. \A h : h = Body(h) => \A n \in 0..Len(s) :
          h[n] = IF n = 0 THEN <<>> ELSE IF s[n] \in S THEN Append(h[n - 1], s[n]) ELSE h[n - 1]
    OBVIOUS
  <2> HIDE DEF Body
  <2> QED BY <1>8, <2>1
<1> HIDE DEF g
<1> DEFINE same == [n \in 0..Len(s) |-> g[n] = f[n]]
<1>10. \A n \in 0..Len(s) : same[n]
  <2>1. same \in [0..Len(s) -> BOOLEAN] /\ same[0]
    <3>1. 0 \in 0..Len(s)
      BY <1>1
    <3>2. g[0] = <<>>
      BY <1>9, <3>1
    <3> QED BY <1>1, <1>3, <3>1, <3>2
  <2>2. ASSUME NEW n \in 1..Len(s), same[n - 1] PROVE same[n]
    <3>1. n # 0 /\ n \in 0..Len(s) /\ n - 1 \in 0..Len(s)
      BY <1>1
    <3>2. g[n - 1] = f[n - 1]
      BY <2>2, <3>1
    <3>3. g[n] = f[n]
      BY <3>1, <3>2, <1>5, <1>9
    <3> QED BY <3>1, <3>3
  <2> HIDE DEF same
  <2> QED BY <1>1, <2>1, <2>2, Stepwise
<1>11. Only(s, S) = f[Len(s)]
  <2>1. Len(s) \in 0..Len(s)
    BY <1>1
  <2> QED BY <1>7, <1>10, <2>1 DEF g
<1> QED BY <1>3, <1>5, <1>11 DEF Sublisting

\* The elements of a sublist, each from a place of its own, in the order of the places.
LEMMA OnlyPlaces ==
  ASSUME NEW T, NEW s \in Seq(T), NEW S
  PROVE  /\ Only(s, S) \in Seq(T)
         /\ \E at \in [1..Len(Only(s, S)) -> 1..Len(s)] :
              /\ \A k \in 1..Len(Only(s, S)) : Only(s, S)[k] = s[at[k]] /\ s[at[k]] \in S
              /\ \A k, l \in 1..Len(Only(s, S)) : k < l => at[k] < at[l]
              /\ \A i \in 1..Len(s) : s[i] \in S => \E k \in 1..Len(Only(s, S)) : at[k] = i
<1> DEFINE Places(o, n, at) ==
             /\ at \in [1..Len(o) -> 1..n]
             /\ \A k \in 1..Len(o) : o[k] = s[at[k]] /\ s[at[k]] \in S
             /\ \A k, l \in 1..Len(o) : k < l => at[k] < at[l]
             /\ \A i \in 1..n : s[i] \in S => \E k \in 1..Len(o) : at[k] = i
<1>1. PICK upTo : Sublisting(upTo, s, S, T)
  BY OnlyUnfolds
<1>2. Len(s) \in Nat
  OBVIOUS
<1> DEFINE holds == [n \in 0..Len(s) |-> \E at : Places(upTo[n], n, at)]
<1>3. holds \in [0..Len(s) -> BOOLEAN] /\ 0 \in 0..Len(s)
  <2> HIDE DEF Places
  <2> QED BY <1>2
<1>4. holds[0]
  <2>1. Places(<<>>, 0, [k \in 1..0 |-> 0])
    <3>1. Len(<<>>) = 0 /\ 1..0 = {}
      OBVIOUS
    <3>2. [k \in 1..0 |-> 0] \in [1..0 -> 1..0]
      BY <3>1
    <3> QED BY <3>1, <3>2
  <2> HIDE DEF Places
  <2> QED BY <1>1, <1>3, <2>1 DEF Sublisting
<1>5. ASSUME NEW n \in 1..Len(s), holds[n - 1] PROVE holds[n]
  <2>1. n - 1 \in 0..Len(s) /\ n \in 0..Len(s)
    BY <1>2
  <2> DEFINE o == upTo[n - 1]
  <2>2. o \in Seq(T) /\ Len(o) \in Nat /\ s[n] \in T
    BY <2>1, <1>1 DEF Sublisting
  <2>3. upTo[n] = IF s[n] \in S THEN Append(o, s[n]) ELSE o
    BY <1>1 DEF Sublisting
  <2>4. PICK at : Places(o, n - 1, at)
    <3> HIDE DEF Places
    <3> QED BY <1>5, <2>1
  <2> HIDE DEF o
  <2>5. CASE s[n] \notin S
    <3>1. Places(o, n, at)
      <4>1. \A k \in 1..Len(o) : at[k] \in 1..(n - 1)
        BY <2>4
      <4>2. at \in [1..Len(o) -> 1..n]
        BY <4>1, <2>4
      <4>3. \A i \in 1..n : s[i] \in S => i \in 1..(n - 1)
        BY <2>5
      <4> QED BY <4>2, <4>3, <2>4
    <3> HIDE DEF Places
    <3> QED BY <3>1, <2>1, <2>3, <2>5
  <2>6. CASE s[n] \in S
    <3> DEFINE p == Append(o, s[n])
               more == [k \in 1..(Len(o) + 1) |-> IF k = Len(o) + 1 THEN n ELSE at[k]]
    <3>1. Len(p) = Len(o) + 1 /\ p[Len(o) + 1] = s[n] /\ \A k \in 1..Len(o) : p[k] = o[k]
      BY <2>2
    <3> HIDE DEF p
    <3>2. \A k \in 1..Len(o) : at[k] \in 1..(n - 1) /\ more[k] = at[k] /\ k \in 1..(Len(o) + 1)
      <4>1. at \in [1..Len(o) -> 1..(n - 1)]
        BY <2>4
      <4>2. \A k \in 1..Len(o) : k \in 1..(Len(o) + 1) /\ k # Len(o) + 1
        BY <2>2
      <4> QED BY <4>1, <4>2
    <3>3. more[Len(o) + 1] = n /\ Len(o) + 1 \in 1..(Len(o) + 1)
      BY <2>2
    <3>4. \A k \in 1..(Len(o) + 1) : k \in 1..Len(o) \/ k = Len(o) + 1
      BY <2>2
    <3>5. more = [k \in 1..(Len(o) + 1) |-> more[k]]
      OBVIOUS
    <3> HIDE DEF more
    <3>6. more \in [1..(Len(o) + 1) -> 1..n]
      <4>1. \A k \in 1..(Len(o) + 1) : more[k] \in 1..n
        BY <3>2, <3>3, <3>4
      <4> QED BY <4>1, <3>5
    <3>7. \A k \in 1..(Len(o) + 1) : p[k] = s[more[k]] /\ s[more[k]] \in S
      BY <3>1, <3>2, <3>3, <3>4, <2>4, <2>6
    <3>8. \A k, l \in 1..(Len(o) + 1) : k < l => more[k] < more[l]
      <4> SUFFICES ASSUME NEW k \in 1..(Len(o) + 1), NEW l \in 1..(Len(o) + 1), k < l
                   PROVE  more[k] < more[l]
        OBVIOUS
      <4>1. k \in 1..Len(o)
        BY <2>2
      <4>2. CASE l \in 1..Len(o)
        BY <4>1, <4>2, <3>2, <2>4
      <4>3. CASE l = Len(o) + 1
        BY <4>1, <4>3, <3>2, <3>3
      <4> QED BY <4>2, <4>3, <3>4
    <3>9. \A i \in 1..n : s[i] \in S => \E k \in 1..(Len(o) + 1) : more[k] = i
      <4> SUFFICES ASSUME NEW i \in 1..n, s[i] \in S PROVE \E k \in 1..(Len(o) + 1) : more[k] = i
        OBVIOUS
      <4>1. CASE i = n
        BY <4>1, <3>3
      <4>2. CASE i # n
        <5>1. i \in 1..(n - 1)
          BY <4>2
        <5>2. PICK k \in 1..Len(o) : at[k] = i
          BY <5>1, <2>4
        <5> QED BY <5>2, <3>2
      <4> QED BY <4>1, <4>2
    <3>10. Places(p, n, more)
      BY <3>1, <3>6, <3>7, <3>8, <3>9
    <3>11. upTo[n] = p
      BY <2>3, <2>6 DEF p
    <3> HIDE DEF Places
    <3> QED BY <3>10, <3>11, <2>1
  <2> QED BY <2>5, <2>6
<1>6. holds[Len(s)]
  <2>1. Len(s) \in 0..Len(s)
    BY <1>2
  <2> HIDE DEF holds
  <2> QED BY <1>2, <1>3, <1>4, <1>5, <2>1, Stepwise
<1>7. PICK at : Places(Only(s, S), Len(s), at)
  <2>1. Len(s) \in 0..Len(s)
    BY <1>2
  <2> HIDE DEF Places
  <2> QED BY <1>1, <1>6, <2>1 DEF Sublisting
<1>8. Only(s, S) \in Seq(T)
  BY <1>1, <1>2 DEF Sublisting
<1> QED BY <1>7, <1>8

\* What that says of the set of elements.
LEMMA OnlyElements ==
  ASSUME NEW T, NEW s \in Seq(T), NEW S
  PROVE  /\ Only(s, S) \in Seq(T)
         /\ Range(Only(s, S)) = Range(s) \cap S
         /\ IsInjective(s) => IsInjective(Only(s, S))
<1> DEFINE o == Only(s, S)
<1>1. /\ o \in Seq(T)
      /\ \E at \in [1..Len(o) -> 1..Len(s)] :
           /\ \A k \in 1..Len(o) : o[k] = s[at[k]] /\ s[at[k]] \in S
           /\ \A k, l \in 1..Len(o) : k < l => at[k] < at[l]
           /\ \A i \in 1..Len(s) : s[i] \in S => \E k \in 1..Len(o) : at[k] = i
  BY OnlyPlaces
<1>2. PICK at \in [1..Len(o) -> 1..Len(s)] :
        /\ \A k \in 1..Len(o) : o[k] = s[at[k]] /\ s[at[k]] \in S
        /\ \A k, l \in 1..Len(o) : k < l => at[k] < at[l]
        /\ \A i \in 1..Len(s) : s[i] \in S => \E k \in 1..Len(o) : at[k] = i
  BY <1>1
<1> HIDE DEF o
<1>3. DOMAIN o = 1..Len(o) /\ DOMAIN s = 1..Len(s) /\ Len(o) \in Nat /\ Len(s) \in Nat
  BY <1>1
<1>4. Range(o) = Range(s) \cap S
  <2>1. ASSUME NEW x \in Range(o) PROVE x \in Range(s) \cap S
    <3>1. PICK k \in 1..Len(o) : x = o[k]
      BY <1>3 DEF Range
    <3>2. at[k] \in 1..Len(s) /\ x = s[at[k]] /\ x \in S
      BY <3>1, <1>2
    <3> QED BY <3>2, <1>3 DEF Range
  <2>2. ASSUME NEW x \in Range(s), x \in S PROVE x \in Range(o)
    <3>1. PICK i \in 1..Len(s) : x = s[i]
      BY <1>3 DEF Range
    <3>2. PICK k \in 1..Len(o) : at[k] = i
      BY <3>1, <2>2, <1>2
    <3>3. x = o[k]
      BY <3>1, <3>2, <1>2
    <3> QED BY <3>3, <1>3 DEF Range
  <2> QED BY <2>1, <2>2
<1>5. ASSUME IsInjective(s) PROVE IsInjective(o)
  <2> SUFFICES ASSUME NEW k \in 1..Len(o), NEW l \in 1..Len(o), o[k] = o[l] PROVE k = l
    BY <1>3 DEF IsInjective
  <2>1. at[k] \in 1..Len(s) /\ at[l] \in 1..Len(s) /\ at[k] = at[l]
    BY <1>2, <1>3, <1>5 DEF IsInjective
  <2>2. ~(k < l) /\ ~(l < k)
    BY <1>2, <2>1
  <2> QED BY <2>2
<1>6. o \in Seq(T)
  BY <1>1
<1>7. /\ o \in Seq(T) /\ Range(o) = Range(s) \cap S
      /\ IsInjective(s) => IsInjective(o)
  BY <1>4, <1>5, <1>6
<1> QED BY <1>7 DEF o

\* What a sequence has besides its head.
LEMMA RangeOfTail ==
  ASSUME NEW T, NEW s \in Seq(T), s # <<>>
  PROVE  Range(s) = {Head(s)} \cup Range(Tail(s))
<1>1. /\ Tail(s) \in Seq(T) /\ Len(Tail(s)) = Len(s) - 1
      /\ \A i \in 1..Len(Tail(s)) : Tail(s)[i] = s[i + 1]
  BY HeadTailProperties
<1>2. /\ Len(s) \in Nat \ {0} /\ DOMAIN s = 1..Len(s) /\ DOMAIN Tail(s) = 1..Len(Tail(s))
      /\ Head(s) = s[1]
  BY <1>1
<1>3. ASSUME NEW x \in Range(s) PROVE x \in {Head(s)} \cup Range(Tail(s))
  <2>1. PICK i \in 1..Len(s) : x = s[i]
    BY <1>2 DEF Range
  <2>2. CASE i = 1
    BY <2>1, <2>2, <1>2
  <2>3. CASE i # 1
    <3>1. i - 1 \in 1..Len(Tail(s)) /\ Tail(s)[i - 1] = x
      BY <2>1, <2>3, <1>1, <1>2
    <3> QED BY <3>1, <1>2 DEF Range
  <2> QED BY <2>2, <2>3
<1>4. ASSUME NEW x \in Range(Tail(s)) PROVE x \in Range(s)
  <2>1. PICK i \in 1..Len(Tail(s)) : x = Tail(s)[i]
    BY <1>2 DEF Range
  <2>2. i + 1 \in 1..Len(s) /\ s[i + 1] = x
    BY <2>1, <1>1, <1>2
  <2> QED BY <2>2, <1>2 DEF Range
<1>5. Head(s) \in Range(s)
  <2>1. 1 \in 1..Len(s)
    BY <1>2
  <2> QED BY <2>1, <1>2 DEF Range
<1> QED BY <1>3, <1>4, <1>5

\* What Append adds to a sequence, and to one without repetitions.
LEMMA AppendedElement ==
  ASSUME NEW T, NEW s \in Seq(T), NEW e \in T
  PROVE  /\ Append(s, e) \in Seq(T) /\ Range(Append(s, e)) = Range(s) \cup {e}
         /\ IsInjective(s) /\ e \notin Range(s) => IsInjective(Append(s, e))
<1> DEFINE p == Append(s, e)
<1>1. /\ p \in Seq(T) /\ Len(p) = Len(s) + 1 /\ (\A i \in 1..Len(s) : p[i] = s[i]) /\ p[Len(s) + 1] = e
      /\ Len(s) \in Nat /\ DOMAIN s = 1..Len(s)
  BY AppendProperties, LenProperties
<1>2. DOMAIN p = 1..Len(s) + 1
  <2> HIDE DEF p
  <2> QED BY <1>1, LenProperties
<1> HIDE DEF p
<1>3. \A i \in 1..Len(s) + 1 : i \in 1..Len(s) \/ i = Len(s) + 1
  BY <1>1
<1>4. Len(s) + 1 \in 1..Len(s) + 1 /\ \A i \in 1..Len(s) : i \in 1..Len(s) + 1
  BY <1>1
<1>5. Range(p) = Range(s) \cup {e}
  <2>1. \A x \in Range(p) : x \in Range(s) \/ x = e
    BY <1>1, <1>2, <1>3 DEF Range
  <2>2. \A x \in Range(s) : x \in Range(p)
    BY <1>1, <1>2, <1>4 DEF Range
  <2>3. e \in Range(p)
    BY <1>1, <1>2, <1>4 DEF Range
  <2> QED BY <2>1, <2>2, <2>3
<1>6. ASSUME IsInjective(s), e \notin Range(s) PROVE IsInjective(p)
  <2> SUFFICES ASSUME NEW i \in 1..Len(s) + 1, NEW j \in 1..Len(s) + 1, p[i] = p[j] PROVE i = j
    BY <1>2 DEF IsInjective
  <2>1. \A k \in 1..Len(s) : p[k] # e
    BY <1>1, <1>6 DEF Range
  <2>2. CASE i \in 1..Len(s) /\ j \in 1..Len(s)
    BY <2>2, <1>1, <1>6 DEF IsInjective
  <2> QED BY <2>1, <2>2, <1>1, <1>3
<1>7. p \in Seq(T) /\ Range(p) = Range(s) \cup {e} /\ (IsInjective(s) /\ e \notin Range(s) => IsInjective(p))
  BY <1>1, <1>5, <1>6
<1> QED BY <1>7 DEF p

\* The recursive definition of FlattenSeq has a solution.
Flattening(upTo, s, T) ==
  /\ upTo \in [0..Len(s) -> Seq(T)]
  /\ upTo[0] = <<>>
  /\ \A i \in 1..Len(s) : upTo[i] = upTo[i - 1] \o s[i]
  /\ FlattenSeq(s) = upTo[Len(s)]

LEMMA FlattenUnfolds ==
  ASSUME NEW T, NEW s \in Seq(Seq(T))
  PROVE  \E upTo : Flattening(upTo, s, T)
<1> DEFINE step == [i \in 1..Len(s) |-> [x \in Seq(T) |-> x \o s[i]]]
           Body(f) == [i \in 1..Len(s) |-> IF i = 1 THEN s[i] ELSE f[i - 1] \o s[i]]
<1>1. Len(s) \in Nat /\ \A i \in 1..Len(s) : s[i] \in Seq(T)
  OBVIOUS
<1>2. step \in Steps(Len(s), Seq(T)) /\ <<>> \in Seq(T)
  <2>1. ASSUME NEW i \in 1..Len(s), NEW x \in Seq(T) PROVE x \o s[i] \in Seq(T)
    BY <1>1
  <2> QED BY <2>1 DEF Steps
<1>3. PICK f : Iterates(f, Len(s), Seq(T), <<>>, step)
  <2> HIDE DEF step
  <2> QED BY <1>1, <1>2, Recursion
<1>4. /\ f \in [0..Len(s) -> Seq(T)] /\ f[0] = <<>>
      /\ \A i \in 1..Len(s) : f[i] = f[i - 1] \o s[i]
  <2>1. /\ f \in [0..Len(s) -> Seq(T)] /\ f[0] = <<>>
        /\ \A i \in 1..Len(s) : f[i] = step[i][f[i - 1]]
    <3> HIDE DEF step
    <3> QED BY <1>3 DEF Iterates
  <2>2. \A i \in 1..Len(s) : f[i - 1] \in Seq(T)
    <3>1. \A i \in 1..Len(s) : i - 1 \in 0..Len(s)
      BY <1>1
    <3> QED BY <2>1, <3>1
  <2> QED BY <2>1, <2>2
<1>11. 1 \in 1..Len(s) => f[1] = s[1]
  <2> SUFFICES ASSUME 1 \in 1..Len(s) PROVE f[1] = s[1]
    OBVIOUS
  <2>1. f[1] = f[1 - 1] \o s[1]
    BY <1>4
  <2>2. s[1] \in Seq(T)
    BY <1>1
  <2>3. <<>> \o s[1] = s[1]
    BY <2>2, ConcatEmptySeq
  <2>4. 1 - 1 = 0
    OBVIOUS
  <2> QED BY <2>1, <2>3, <2>4, <1>4
<1> DEFINE r == [i \in 1..Len(s) |-> f[i]]
           g == CHOOSE h : h = Body(h)
<1>5. r = Body(r)
  <2>1. ASSUME NEW i \in 1..Len(s) PROVE r[i] = Body(r)[i]
    <3>1. CASE i = 1
      <4> QED BY <3>1, <1>11
    <3>2. CASE i # 1
      <4>1. i - 1 \in 1..Len(s)
        BY <3>2, <1>1
      <4>2. r[i - 1] = f[i - 1] /\ r[i] = f[i]
        BY <4>1
      <4>3. Body(r)[i] = r[i - 1] \o s[i]
        BY <3>2
      <4> QED BY <4>2, <4>3, <1>4
    <3> QED BY <3>1, <3>2
  <2> QED BY <2>1
<1>6. g = Body(g)
  <2> HIDE DEF Body, r
  <2> QED BY <1>5
<1>7. \A i \in 1..Len(s) : g[i] = IF i = 1 THEN s[i] ELSE g[i - 1] \o s[i]
  <2>1. \A h : h = Body(h) => \A i \in 1..Len(s) : h[i] = IF i = 1 THEN s[i] ELSE h[i - 1] \o s[i]
    OBVIOUS
  <2> HIDE DEF Body, g
  <2> QED BY <1>6, <2>1
<1>8. FlattenSeq(s) = IF Len(s) = 0 THEN s ELSE g[Len(s)]
  BY DEF FlattenSeq
<1> HIDE DEF g
<1> DEFINE same == [n \in 0..Len(s) |-> n = 0 \/ g[n] = f[n]]
<1>9. \A n \in 0..Len(s) : same[n]
  <2>1. same \in [0..Len(s) -> BOOLEAN] /\ same[0]
    <3>1. 0 \in 0..Len(s)
      BY <1>1
    <3>2. \A n \in 0..Len(s) : same[n] \in BOOLEAN
      OBVIOUS
    <3> QED BY <3>1, <3>2
  <2>2. ASSUME NEW n \in 1..Len(s), same[n - 1] PROVE same[n]
    <3>1. n # 0 /\ n \in 0..Len(s) /\ n - 1 \in 0..Len(s)
      BY <1>1
    <3>2. n - 1 = 0 \/ g[n - 1] = f[n - 1]
      BY <2>2, <3>1
    <3>3. CASE n = 1
      <4>1. f[1] = s[1]
        BY <1>11, <3>3
      <4>2. g[1] = s[1]
        BY <1>7, <3>3
      <4>3. g[n] = f[n]
        BY <4>1, <4>2, <3>3
      <4> QED BY <3>1, <4>3
    <3>4. CASE n # 1
      <4>1. g[n - 1] = f[n - 1]
        BY <3>2, <3>4
      <4>2. g[n] = f[n]
        BY <4>1, <1>7, <3>4, <1>4
      <4> QED BY <3>1, <4>2
    <3> QED BY <3>3, <3>4
  <2> HIDE DEF same
  <2> QED BY <1>1, <2>1, <2>2, Stepwise
<1>10. FlattenSeq(s) = f[Len(s)]
  <2>1. Len(s) \in 0..Len(s) /\ (Len(s) = 0 => s = <<>>)
    BY <1>1
  <2>2. Len(s) # 0 => g[Len(s)] = f[Len(s)]
    BY <1>9, <2>1
  <2> QED BY <1>8, <2>1, <2>2, <1>4
<1> QED BY <1>4, <1>10 DEF Flattening

\* A concatenation of sequences has their elements.
LEMMA FlattenElements ==
  ASSUME NEW T, NEW s \in Seq(Seq(T))
  PROVE  /\ FlattenSeq(s) \in Seq(T)
         /\ Range(FlattenSeq(s)) = UNION {Range(s[i]) : i \in 1..Len(s)}
<1>1. PICK f : Flattening(f, s, T)
  BY FlattenUnfolds
<1>2. /\ f \in [0..Len(s) -> Seq(T)] /\ f[0] = <<>>
      /\ \A i \in 1..Len(s) : f[i] = f[i - 1] \o s[i]
      /\ FlattenSeq(s) = f[Len(s)]
  BY <1>1 DEF Flattening
<1>3. Len(s) \in Nat /\ \A i \in 1..Len(s) : s[i] \in Seq(T)
  OBVIOUS
<1> DEFINE holds == [n \in 0..Len(s) |-> Range(f[n]) = UNION {Range(s[i]) : i \in 1..n}]
<1>4. holds \in [0..Len(s) -> BOOLEAN] /\ holds[0]
  <2>1. 0 \in 0..Len(s) /\ 1..0 = {} /\ Range(<<>>) = {}
    BY <1>3 DEF Range
  <2> QED BY <1>2, <2>1
<1>5. ASSUME NEW n \in 1..Len(s), holds[n - 1] PROVE holds[n]
  <2>1. n - 1 \in 0..Len(s) /\ n \in 0..Len(s)
    BY <1>3
  <2>2. Range(f[n - 1]) = UNION {Range(s[i]) : i \in 1..(n - 1)}
    BY <1>5, <2>1
  <2>3. f[n - 1] \in Seq(T) /\ s[n] \in Seq(T) /\ f[n] = f[n - 1] \o s[n]
    BY <1>2, <1>3, <2>1
  <2>4. Range(f[n]) = Range(f[n - 1]) \cup Range(s[n])
    BY <2>3, RangeConcatenation
  <2>5. \A i \in 1..n : i \in 1..(n - 1) \/ i = n
    OBVIOUS
  <2>6. \A i \in 1..(n - 1) : i \in 1..n
    OBVIOUS
  <2>7. Range(f[n]) = UNION {Range(s[i]) : i \in 1..n}
    BY <2>2, <2>4, <2>5, <2>6
  <2> QED BY <2>1, <2>7
<1>6. holds[Len(s)]
  <2>1. Len(s) \in 0..Len(s)
    BY <1>3
  <2> HIDE DEF holds
  <2> QED BY <1>3, <1>4, <1>5, <2>1, Stepwise
<1>7. Len(s) \in 0..Len(s)
  BY <1>3
<1> QED BY <1>2, <1>6, <1>7

-----------------------------------------------------------------------------
(* The walk over types *)

Folder == {FileOf[t] : t \in Types} \cup {WellKnownFile}

IsGraph(g) ==
  /\ g = [seen |-> g.seen, imports |-> g.imports, types |-> g.types, names |-> g.names, failed |-> g.failed]
  /\ g.seen \subseteq Types /\ g.imports \in Seq(Folder) /\ g.types \in Seq(Types) /\ g.failed \in BOOLEAN

\* The fields that protoc hands over.
KnownFields ==
  \A t \in Types : /\ IsSequence(MembersOf(t))
                   /\ \A i \in DOMAIN MembersOf(t) : MembersOf(t)[i].type \in ProtoTypes

IsWalk ==
  /\ IsGraph(graph)
  /\ frames \in Seq([type : Types, next : Nat \ {0}])
  /\ \A k \in DOMAIN frames : frames[k].next <= Len(MembersOf(frames[k].type)) + 1
  /\ roots \in Seq(Types \cup WellKnown)

\* A type that was seen is listed or its fields are being collected, not both.
Accounted ==
  /\ graph.seen = Range(graph.types) \cup {frames[k].type : k \in DOMAIN frames}
  /\ IsInjective(graph.types)
  /\ \A k \in DOMAIN frames : frames[k].type \notin Range(graph.types)
  /\ \A j, k \in DOMAIN frames : frames[j].type = frames[k].type => j = k

\* The types of fields that the walk is past were seen.
Passed ==
  /\ \A t \in Range(graph.types) : Below(t) \cap Types \subseteq graph.seen
  /\ \A k \in DOMAIN frames : \A i \in 1..frames[k].next - 1 :
       MembersOf(frames[k].type)[i].type \in Types => MembersOf(frames[k].type)[i].type \in graph.seen

\* Where the walk started was seen or is still to come; it saw nothing that is not below.
Needed(R) ==
  /\ R \cap Types \subseteq graph.seen \cup Range(roots)
  /\ Range(roots) \subseteq R
  /\ \A S \in SUBSET Types : R \cap Types \subseteq S /\ Closed(S) => graph.seen \subseteq S

NameGiven(t) == [file |-> FileOf[t], name |-> pythonPublicTypeName(t), of |-> <<t>>]
SameName(t, u) == FileOf[t] = FileOf[u] /\ pythonPublicTypeName(t) = pythonPublicTypeName(u)

NamesGiven(g) ==
  ~g.failed => /\ \A t \in g.seen : NameGiven(t) \in g.names
               /\ \A t, u \in g.seen : SameName(t, u) => t = u

Walk(R) == IsWalk /\ Accounted /\ Passed /\ Needed(R) /\ NamesGiven(graph)

\* What the parts of a step leave alone.
LEMMA OwnerImported ==
  ASSUME NEW root, NEW g, IsGraph(g), NEW file \in Folder
  PROVE  /\ IsGraph(ownerForProtoPath(root, g, file))
         /\ ownerForProtoPath(root, g, file).seen = g.seen
         /\ ownerForProtoPath(root, g, file).types = g.types
         /\ ownerForProtoPath(root, g, file).names = g.names
         /\ ownerForProtoPath(root, g, file).failed = g.failed
<1> DEFINE h == [g EXCEPT !.imports = Append(@, file)]
<1>1. h = [seen |-> g.seen, imports |-> Append(g.imports, file), types |-> g.types, names |-> g.names,
           failed |-> g.failed]
  <2>1. g = [seen |-> g.seen, imports |-> g.imports, types |-> g.types, names |-> g.names, failed |-> g.failed]
    BY DEF IsGraph
  <2> QED BY <2>1
<1>2. Append(g.imports, file) \in Seq(Folder)
  BY DEF IsGraph
<1>3. /\ h.seen = g.seen /\ h.types = g.types /\ h.names = g.names /\ h.failed = g.failed
      /\ h.imports = Append(g.imports, file)
  BY <1>1
<1>4. IsGraph(h)
  BY <1>1, <1>2, <1>3 DEF IsGraph
<1> QED BY <1>3, <1>4 DEF ownerForProtoPath

\* A type that is entered has its name, unless the walk fails.
LEMMA TypeEntered ==
  ASSUME NEW root, NEW g, IsGraph(g), NamesGiven(g), NEW t \in Types
  PROVE  /\ IsGraph(Entered(root, g, t)) /\ NamesGiven(Entered(root, g, t))
         /\ Entered(root, g, t).seen = g.seen \cup {t}
         /\ Entered(root, g, t).types = g.types
<1> DEFINE marked == [g EXCEPT !.seen = @ \cup {t}]
           owned == ownerForProtoPath(root, marked, FileOf[t])
           entries == {TypeName(t)} \cup (IF t \in Enums THEN {} ELSE Wrappers(t))
           given == {[file |-> FileOf[t], name |-> entry.name, of |-> entry.of] : entry \in entries}
           known == owned.names \cup given
           clash == \E a \in known, b \in given : a.file = b.file /\ a.name = b.name /\ a.of # b.of
           h == [owned EXCEPT !.names = known, !.failed = owned.failed \/ clash]
<1>1. Entered(root, g, t) = h
  BY DEF Entered, checkOwnedPublicName
<1>2. /\ marked = [seen |-> g.seen \cup {t}, imports |-> g.imports, types |-> g.types, names |-> g.names,
                   failed |-> g.failed]
      /\ FileOf[t] \in Folder
  <2>1. g = [seen |-> g.seen, imports |-> g.imports, types |-> g.types, names |-> g.names, failed |-> g.failed]
    BY DEF IsGraph
  <2> QED BY <2>1 DEF Folder
<1>3. IsGraph(marked) /\ marked.seen = g.seen \cup {t} /\ marked.types = g.types /\ marked.names = g.names
      /\ marked.failed = g.failed
  BY <1>2 DEF IsGraph
<1> HIDE DEF marked
<1>4. /\ IsGraph(owned) /\ owned.seen = g.seen \cup {t} /\ owned.types = g.types /\ owned.names = g.names
      /\ owned.failed = g.failed
  <2>1. FileOf[t] \in Folder /\ IsGraph(marked)
    BY <1>2, <1>3
  <2>2. /\ IsGraph(owned) /\ owned.seen = marked.seen /\ owned.types = marked.types
        /\ owned.names = marked.names /\ owned.failed = marked.failed
    BY <2>1, OwnerImported
  <2> QED BY <2>2, <1>3
<1> HIDE DEF owned, known, clash
<1>5. h = [seen |-> owned.seen, imports |-> owned.imports, types |-> owned.types, names |-> known,
           failed |-> owned.failed \/ clash]
  <2>1. owned = [seen |-> owned.seen, imports |-> owned.imports, types |-> owned.types, names |-> owned.names,
                 failed |-> owned.failed]
    BY <1>4 DEF IsGraph
  <2>2. owned.failed \in BOOLEAN /\ clash \in BOOLEAN
    BY <1>4 DEF IsGraph, clash
  <2> DEFINE fails == owned.failed \/ clash
  <2> HIDE DEF fails
  <2> DEFINE named == [owned EXCEPT !.names = known]
  <2>3. named = [seen |-> owned.seen, imports |-> owned.imports, types |-> owned.types, names |-> known,
                 failed |-> owned.failed]
    BY <2>1
  <2>4. [owned EXCEPT !.names = known, !.failed = fails] = [named EXCEPT !.failed = fails]
    OBVIOUS
  <2> HIDE DEF named
  <2>5. [named EXCEPT !.failed = fails] =
          [seen |-> owned.seen, imports |-> owned.imports, types |-> owned.types, names |-> known, failed |-> fails]
    BY <2>3
  <2> QED BY <2>4, <2>5 DEF fails
<1> HIDE DEF h
<1>6. /\ h.seen = g.seen \cup {t} /\ h.types = g.types /\ h.names = known /\ h.imports = owned.imports
      /\ h.failed = (g.failed \/ clash)
  BY <1>4, <1>5
<1>7. h.failed \in BOOLEAN
  BY <1>4, <1>6 DEF IsGraph, clash
<1>8. IsGraph(h)
  BY <1>4, <1>5, <1>6, <1>7 DEF IsGraph
<1>9. NameGiven(t) \in given
  <2>1. TypeName(t) \in entries /\ TypeName(t).name = pythonPublicTypeName(t) /\ TypeName(t).of = <<t>>
    BY DEF TypeName
  <2> QED BY <2>1 DEF NameGiven
<1>10. ASSUME ~h.failed
       PROVE  /\ \A u \in h.seen : NameGiven(u) \in h.names
              /\ \A u, w \in h.seen : SameName(u, w) => u = w
  <2>1. ~g.failed /\ ~clash
    <3>1. (g.failed \/ clash) = FALSE
      BY <1>6, <1>7, <1>10
    <3> QED BY <3>1
  <2>2. /\ \A u \in g.seen : NameGiven(u) \in g.names
        /\ \A u, w \in g.seen : SameName(u, w) => u = w
    BY <2>1 DEF NamesGiven
  <2>3. g.names \subseteq known /\ NameGiven(t) \in known
    BY <1>4, <1>9 DEF known
  <2>4. \A u \in h.seen : NameGiven(u) \in h.names
    BY <1>6, <2>2, <2>3
  <2>5. ASSUME NEW u \in h.seen, SameName(u, t) PROVE u = t
    <3>1. NameGiven(u) \in known
      BY <1>6, <2>4
    <3>2. NameGiven(u).file = NameGiven(t).file /\ NameGiven(u).name = NameGiven(t).name
      BY <2>5 DEF SameName, NameGiven
    <3>3. NameGiven(u).of = NameGiven(t).of
      BY <3>1, <3>2, <1>9, <2>1 DEF clash
    <3>4. <<u>> = <<t>>
      BY <3>3 DEF NameGiven
    <3> QED BY <3>4
  <2>6. \A u, w \in h.seen : SameName(u, w) => u = w
    <3> SUFFICES ASSUME NEW u \in h.seen, NEW w \in h.seen, SameName(u, w) PROVE u = w
      OBVIOUS
    <3>1. SameName(w, u)
      BY DEF SameName
    <3>2. (u \in g.seen \/ u = t) /\ (w \in g.seen \/ w = t)
      BY <1>6
    <3> QED BY <2>2, <2>5, <3>1, <3>2
  <2> QED BY <2>4, <2>6
<1>11. NamesGiven(h)
  BY <1>10 DEF NamesGiven
<1> QED BY <1>1, <1>6, <1>8, <1>11

\* A field's own type adds nothing to what was seen and may fail the walk.
LEMMA FieldReferred ==
  ASSUME NEW root, NEW g, IsGraph(g), NamesGiven(g), NEW type \in ProtoTypes
  PROVE  /\ IsGraph(typeRefForField(root, g, type)) /\ NamesGiven(typeRefForField(root, g, type))
         /\ typeRefForField(root, g, type).seen = g.seen
         /\ typeRefForField(root, g, type).types = g.types
<1> DEFINE h == typeRefForField(root, g, type)
<1>1. Types \cap WellKnown = {} /\ Scalar \notin Types \cup WellKnown /\ Unsupported \notin Types \cup WellKnown
  BY TypesAssumption
<1>2. CASE type = Scalar
  <2>1. h = g
    BY <1>1, <1>2 DEF typeRefForField, Scalar, Unsupported
  <2> QED BY <2>1
<1>3. CASE type = Unsupported
  <2>1. h = [g EXCEPT !.failed = TRUE]
    BY <1>1, <1>3 DEF typeRefForField, Scalar, Unsupported
  <2>2. h = [seen |-> g.seen, imports |-> g.imports, types |-> g.types, names |-> g.names, failed |-> TRUE]
    BY <2>1 DEF IsGraph
  <2>3. h.seen = g.seen /\ h.types = g.types /\ h.failed = TRUE /\ h.names = g.names /\ h.imports = g.imports
    BY <2>2
  <2>4. IsGraph(h)
    BY <2>2, <2>3 DEF IsGraph
  <2>5. NamesGiven(h)
    BY <2>3 DEF NamesGiven
  <2> QED BY <2>3, <2>4, <2>5
<1>4. CASE type \in Types \cup WellKnown
  <2> DEFINE file == IF type \in WellKnown THEN WellKnownFile ELSE FileOf[type]
  <2>1. h = ownerForProtoPath(root, g, file)
    BY <1>1, <1>4 DEF typeRefForField
  <2>2. file \in Folder
    BY <1>4 DEF Folder
  <2> HIDE DEF file
  <2>3. IsGraph(h) /\ h.seen = g.seen /\ h.types = g.types /\ h.names = g.names /\ h.failed = g.failed
    BY <2>1, <2>2, OwnerImported
  <2>4. NamesGiven(h)
    BY <2>3 DEF NamesGiven
  <2> QED BY <2>3, <2>4
<1> QED BY <1>2, <1>3, <1>4 DEF ProtoTypes

\* A walk begins with nothing collected and nothing under way.
LEMMA WalkStarts ==
  ASSUME NEW types \in Seq(Types \cup WellKnown), Start(types)
  PROVE  Walk(Range(types))'
<1>1. /\ graph' = [seen |-> {}, imports |-> <<>>, types |-> <<>>, names |-> {}, failed |-> FALSE]
      /\ frames' = <<>> /\ roots' = types
  BY DEF Start, NoGraph
<1>2. /\ graph'.seen = {} /\ graph'.imports = <<>> /\ graph'.types = <<>> /\ graph'.names = {}
      /\ graph'.failed = FALSE
  BY <1>1
<1>3. IsGraph(graph)'
  <2>1. <<>> \in Seq(Folder) /\ <<>> \in Seq(Types)
    OBVIOUS
  <2> QED BY <1>1, <1>2, <2>1 DEF IsGraph
<1>4. DOMAIN frames' = {} /\ frames' \in Seq([type : Types, next : Nat \ {0}])
  BY <1>1
<1>5. IsWalk'
  BY <1>1, <1>3, <1>4 DEF IsWalk
<1>6. Range(graph'.types) = {} /\ IsInjective(graph'.types)
  BY <1>2 DEF Range, IsInjective
<1>7. Accounted'
  BY <1>2, <1>4, <1>6 DEF Accounted
<1>8. Passed'
  BY <1>4, <1>6 DEF Passed
<1>9. Needed(Range(types))'
  <2>1. Range(types) \subseteq Range(roots')
    BY <1>1
  <2>2. Range(roots') \subseteq Range(types)
    BY <1>1
  <2>3. \A S \in SUBSET Types : graph'.seen \subseteq S
    BY <1>2
  <2> QED BY <2>1, <2>2, <2>3 DEF Needed
<1>10. NamesGiven(graph)'
  BY <1>2 DEF NamesGiven
<1> QED BY <1>5, <1>7, <1>8, <1>9, <1>10 DEF Walk

\* A root that is seen already, or one whose fields come next.
LEMMA WalkEntersRoot ==
  ASSUME NEW R, NEW root, KnownFields, Walk(R), CollectRoot(root), UNCHANGED fields
  PROVE  Walk(R)'
<1> DEFINE t == Head(roots)
<1>1. /\ IsGraph(graph) /\ roots \in Seq(Types \cup WellKnown) /\ roots # <<>> /\ frames = <<>>
      /\ roots' = Tail(roots) /\ NamesGiven(graph) /\ Accounted /\ Passed /\ Needed(R) /\ IsWalk
  BY DEF Walk, IsWalk, CollectRoot
<1>2. /\ t \in Types \cup WellKnown /\ roots' \in Seq(Types \cup WellKnown)
      /\ Range(roots) = {t} \cup Range(roots')
  BY <1>1, HeadTailProperties, RangeOfTail
<1>3. Types \cap WellKnown = {}
  BY TypesAssumption
<1>4. \A u : MembersOf(u)' = MembersOf(u)
  BY DEF MembersOf
<1>5. \A u : Below(u)' = Below(u)
  BY <1>4 DEF Below
<1>6. \A S : Closed(S)' = Closed(S)
  BY <1>5 DEF Closed
<1>7. CASE t \in graph.seen \cup WellKnown
  <2>1. UNCHANGED <<graph, frames>>
    BY <1>7 DEF CollectRoot
  <2>2. IsWalk'
    BY <1>1, <1>2, <1>4, <2>1 DEF IsWalk, IsGraph
  <2>3. Accounted'
    BY <1>1, <2>1 DEF Accounted
  <2>4. Passed'
    BY <1>1, <1>4, <1>5, <2>1 DEF Passed
  <2>5. Needed(R)'
    BY <1>1, <1>2, <1>3, <1>6, <1>7, <2>1 DEF Needed
  <2>6. NamesGiven(graph)'
    BY <1>1, <2>1 DEF NamesGiven
  <2> QED BY <2>2, <2>3, <2>4, <2>5, <2>6 DEF Walk
<1>8. CASE t \notin graph.seen \cup WellKnown
  <2>1. graph' = Entered(root, graph, t) /\ frames' = <<Frame(t)>> /\ t \in Types
    BY <1>2, <1>8 DEF CollectRoot
  <2>2. /\ IsGraph(graph') /\ NamesGiven(graph') /\ graph'.seen = graph.seen \cup {t} /\ graph'.types = graph.types
    BY <1>1, <2>1, TypeEntered
  <2>3. /\ DOMAIN frames' = {1} /\ frames'[1] = [type |-> t, next |-> 1]
        /\ frames' \in Seq([type : Types, next : Nat \ {0}])
    BY <2>1 DEF Frame
  <2>4. Len(MembersOf(t)) \in Nat
    BY <2>1 DEF KnownFields, IsSequence
  <2>5. IsWalk'
    <3>1. \A k \in DOMAIN frames' : frames'[k].next <= Len(MembersOf(frames'[k].type)) + 1
      BY <2>3, <2>4
    <3> QED BY <1>2, <1>4, <2>2, <2>3, <3>1 DEF IsWalk
  <2>6. graph.seen = Range(graph.types) /\ IsInjective(graph.types)
    BY <1>1 DEF Accounted
  <2>7. Accounted'
    BY <2>2, <2>3, <2>6, <1>8 DEF Accounted
  <2>8. Passed'
    <3>1. \A u \in Range(graph'.types) : Below(u)' \cap Types \subseteq graph'.seen
      BY <1>1, <1>5, <2>2 DEF Passed
    <3>2. \A k \in DOMAIN frames' : 1..frames'[k].next - 1 = {}
      BY <2>3
    <3> QED BY <3>1, <3>2 DEF Passed
  <2>9. Needed(R)'
    <3>1. t \in R
      BY <1>1, <1>2 DEF Needed
    <3>2. ASSUME NEW S \in SUBSET Types, R \cap Types \subseteq S, Closed(S)
          PROVE  graph'.seen \subseteq S
      BY <1>1, <2>1, <2>2, <3>1, <3>2 DEF Needed
    <3> QED BY <1>1, <1>2, <1>6, <2>2, <3>2 DEF Needed
  <2> QED BY <2>2, <2>5, <2>7, <2>8, <2>9 DEF Walk
<1> QED BY <1>7, <1>8

\* A field: its type is entered when it is new, and in any case it was seen then.
LEMMA WalkTakesField ==
  ASSUME NEW R, NEW root, KnownFields, Walk(R), CollectField(root), UNCHANGED fields
  PROVE  Walk(R)'
<1> DEFINE L == Len(frames)
           t == Top.type
           type == Field.type
           referred == typeRefForField(root, graph, type)
           moved == [type |-> t, next |-> Top.next + 1]
           after == [frames EXCEPT ![Len(frames)].next = @ + 1]
           FrameSet == [type : Types, next : Nat \ {0}]
<1>1. /\ IsGraph(graph) /\ roots' = roots /\ NamesGiven(graph) /\ Accounted /\ Passed /\ Needed(R) /\ IsWalk
      /\ frames \in Seq(FrameSet) /\ frames # <<>> /\ roots \in Seq(Types \cup WellKnown)
      /\ Top.next <= Len(MembersOf(t))
  BY DEF Walk, IsWalk, CollectField, AtField
<1>2. /\ L \in Nat \ {0} /\ DOMAIN frames = 1..L /\ L \in 1..L /\ Top = frames[L]
      /\ \A k \in 1..L : frames[k] \in FrameSet
  <2> HIDE DEF FrameSet
  <2>1. L \in Nat \ {0} /\ DOMAIN frames = 1..L
    BY <1>1, EmptySeq, LenProperties
  <2>2. \A k \in 1..L : frames[k] \in FrameSet
    BY <1>1, <2>1
  <2> QED BY <2>1, <2>2 DEF Top
<1>3. t \in Types /\ Top.next \in Nat \ {0} /\ Top = [type |-> t, next |-> Top.next]
  BY <1>2
<1>4. Len(MembersOf(t)) \in Nat /\ DOMAIN MembersOf(t) = 1..Len(MembersOf(t))
  BY <1>3 DEF KnownFields, IsSequence
<1>5. Top.next \in 1..Len(MembersOf(t)) /\ type = MembersOf(t)[Top.next].type /\ type \in ProtoTypes
  <2>1. Top.next \in 1..Len(MembersOf(t))
    BY <1>1, <1>3, <1>4
  <2>2. type = MembersOf(t)[Top.next].type
    BY DEF Field
  <2> QED BY <2>1, <2>2, <1>3, <1>4 DEF KnownFields
<1>6. t \in graph.seen /\ type \in Below(t)
  BY <1>1, <1>2, <1>4, <1>5, ZenonT(40) DEF Accounted, Below
<1>7. /\ IsGraph(referred) /\ NamesGiven(referred) /\ referred.seen = graph.seen /\ referred.types = graph.types
  BY <1>1, <1>5, FieldReferred
<1>8. /\ after \in Seq(FrameSet) /\ Len(after) = L /\ after[L] = moved
      /\ \A k \in 1..L : k # L => after[k] = frames[k]
  <2>1. moved \in FrameSet
    BY <1>3
  <2>2. [frames[L] EXCEPT !.next = Top.next + 1] = moved
    BY <1>2, <1>3
  <2>3. after = [frames EXCEPT ![L] = moved]
    BY <2>2, <1>2
  <2> HIDE DEF after, moved, FrameSet
  <2>4. /\ [frames EXCEPT ![L] = moved] \in Seq(FrameSet) /\ Len([frames EXCEPT ![L] = moved]) = L
        /\ \A j \in 1..L : [frames EXCEPT ![L] = moved][j] = IF j = L THEN moved ELSE frames[j]
    BY <2>1, <1>1, <1>2, ExceptSeq
  <2> QED BY <2>3, <2>4, <1>2
<1>9. \A u : MembersOf(u)' = MembersOf(u)
  BY DEF MembersOf
<1>10. \A u : Below(u)' = Below(u)
  BY <1>9 DEF Below
<1>11. \A S : Closed(S)' = Closed(S)
  BY <1>10 DEF Closed
<1>12. /\ graph.seen = Range(graph.types) \cup {frames[k].type : k \in 1..L}
       /\ IsInjective(graph.types)
       /\ \A k \in 1..L : frames[k].type \notin Range(graph.types)
       /\ \A j, k \in 1..L : frames[j].type = frames[k].type => j = k
  BY <1>1, <1>2 DEF Accounted
<1>13. /\ \A u \in Range(graph.types) : Below(u) \cap Types \subseteq graph.seen
       /\ \A k \in 1..L : \A i \in 1..frames[k].next - 1 :
            MembersOf(frames[k].type)[i].type \in Types => MembersOf(frames[k].type)[i].type \in graph.seen
  BY <1>1, <1>2 DEF Passed
<1>14. \A k \in 1..L : after[k].type = frames[k].type
  BY <1>2, <1>8
<1>15. \A k \in 1..L : after[k].next <= Len(MembersOf(after[k].type)) + 1
  <2>1. \A k \in 1..L : frames[k].next <= Len(MembersOf(frames[k].type)) + 1
    BY <1>1, <1>2 DEF IsWalk
  <2>2. after[L].next = Top.next + 1 /\ after[L].type = t
    BY <1>8
  <2>3. Top.next + 1 <= Len(MembersOf(t)) + 1
    BY <1>4, <1>5
  <2> QED BY <2>1, <2>2, <2>3, <1>8
<1>16. ASSUME NEW seen, graph.seen \subseteq seen, type \in Types => type \in seen
       PROVE  \A k \in 1..L : \A i \in 1..after[k].next - 1 :
                MembersOf(after[k].type)[i].type \in Types => MembersOf(after[k].type)[i].type \in seen
  <2> SUFFICES ASSUME NEW k \in 1..L, NEW i \in 1..after[k].next - 1,
                      MembersOf(after[k].type)[i].type \in Types
               PROVE  MembersOf(after[k].type)[i].type \in seen
    OBVIOUS
  <2>1. CASE k # L
    BY <2>1, <1>8, <1>13, <1>16
  <2>2. CASE k = L
    <3>1. after[k].next = Top.next + 1 /\ after[k].type = t
      BY <2>2, <1>8
    <3>2. i \in 1..Top.next - 1 \/ i = Top.next
      BY <3>1, <1>3
    <3>3. CASE i \in 1..Top.next - 1
      BY <3>1, <3>3, <1>2, <1>13, <1>16
    <3>4. CASE i = Top.next
      BY <3>1, <3>4, <1>5, <1>16
    <3> QED BY <3>2, <3>3, <3>4
  <2> QED BY <2>1, <2>2
<1>17. CASE type \in Types \ graph.seen
  <2> DEFINE more == Append(after, Frame(type))
  <2>1. graph' = Entered(root, referred, type) /\ frames' = more
    BY <1>17 DEF CollectField
  <2>2. /\ IsGraph(graph') /\ NamesGiven(graph') /\ graph'.seen = graph.seen \cup {type} /\ graph'.types = graph.types
    BY <1>7, <1>17, <2>1, TypeEntered, SMTT(30)
  <2>3. Frame(type) \in FrameSet /\ Frame(type).type = type /\ Frame(type).next = 1
    BY <1>17 DEF Frame
  <2>4. /\ frames' \in Seq(FrameSet) /\ DOMAIN frames' = 1..L + 1 /\ frames'[L + 1] = Frame(type)
        /\ \A k \in 1..L : frames'[k] = after[k]
    <3> DEFINE new == Frame(type)
    <3> HIDE DEF after, FrameSet, new
    <3>1. new \in FrameSet /\ after \in Seq(FrameSet) /\ Len(after) = L
      BY <1>8, <2>3 DEF new
    <3>2. /\ Append(after, new) \in Seq(FrameSet) /\ Len(Append(after, new)) = L + 1
          /\ \A k \in 1..L : Append(after, new)[k] = after[k]
          /\ Append(after, new)[L + 1] = new
      BY <3>1, AppendProperties
    <3>3. DOMAIN Append(after, new) = 1..L + 1
      BY <3>2, LenProperties
    <3> QED BY <2>1, <3>2, <3>3 DEF new
  <2>5. \A k \in 1..L + 1 : k \in 1..L \/ k = L + 1
    BY <1>2
  <2>6. L + 1 \in 1..L + 1 /\ (\A k \in 1..L : k \in 1..L + 1) /\ L + 1 \notin 1..L
    BY <1>2
  <2> HIDE DEF after, more, moved
  <2>7. IsWalk'
    <3>1. Len(MembersOf(type)) \in Nat
      BY <1>17 DEF KnownFields, IsSequence
    <3>2. \A k \in 1..L + 1 : frames'[k].next <= Len(MembersOf(frames'[k].type)) + 1
      <4>1. 1 <= Len(MembersOf(type)) + 1
        BY <3>1
      <4> QED BY <4>1, <1>15, <2>3, <2>4, <2>5
    <3> QED BY <1>1, <1>9, <2>2, <2>4, <3>2 DEF IsWalk
  <2>8. Accounted'
    <3>1. \A k \in 1..L : frames'[k].type = frames[k].type
      BY <1>14, <2>4
    <3>2. frames'[L + 1].type = type
      BY <2>3, <2>4
    <3>3. graph'.seen = Range(graph'.types) \cup {frames'[k].type : k \in 1..L + 1}
      BY <1>12, <2>2, <2>5, <2>6, <3>1, <3>2
    <3>4. \A k \in 1..L + 1 : frames'[k].type \notin Range(graph'.types)
      BY <1>12, <1>17, <2>2, <2>5, <3>1, <3>2
    <3>5. \A j, k \in 1..L + 1 : frames'[j].type = frames'[k].type => j = k
      BY <1>12, <1>17, <2>5, <3>1, <3>2
    <3> QED BY <1>12, <2>2, <2>4, <3>3, <3>4, <3>5 DEF Accounted
  <2>9. Passed'
    <3>1. \A u \in Range(graph'.types) : Below(u)' \cap Types \subseteq graph'.seen
      BY <1>10, <1>13, <2>2
    <3>2. graph.seen \subseteq graph'.seen /\ type \in graph'.seen
      BY <2>2
    <3>3. \A k \in 1..L : \A i \in 1..after[k].next - 1 :
            MembersOf(after[k].type)[i].type \in Types => MembersOf(after[k].type)[i].type \in graph'.seen
      BY <1>16, <3>2
    <3>4. 1..frames'[L + 1].next - 1 = {}
      BY <2>3, <2>4
    <3>5. \A k \in 1..L + 1 : \A i \in 1..frames'[k].next - 1 :
            MembersOf(frames'[k].type)[i].type \in Types => MembersOf(frames'[k].type)[i].type \in graph'.seen
      BY <2>4, <2>5, <3>3, <3>4
    <3> QED BY <1>9, <2>4, <3>1, <3>5 DEF Passed
  <2>10. Needed(R)'
    <3>1. ASSUME NEW S \in SUBSET Types, R \cap Types \subseteq S, Closed(S)
          PROVE  graph'.seen \subseteq S
      <4>1. t \in S
        BY <1>1, <1>6, <3>1 DEF Needed
      <4>2. type \in S
        BY <1>6, <1>17, <3>1, <4>1 DEF Closed
      <4> QED BY <1>1, <2>2, <3>1, <4>2 DEF Needed
    <3> QED BY <1>1, <1>11, <2>2, <3>1 DEF Needed
  <2> QED BY <2>2, <2>7, <2>8, <2>9, <2>10 DEF Walk
<1>18. CASE type \notin Types \ graph.seen
  <2>1. graph' = referred /\ frames' = after
    BY <1>18 DEF CollectField
  <2>2. DOMAIN after = 1..L
    BY <1>8, SMTT(30)
  <2> HIDE DEF after, referred
  <2>3. IsWalk'
    BY <1>1, <1>7, <1>8, <1>9, <1>15, <2>1, <2>2 DEF IsWalk
  <2>4. Accounted'
    BY <1>7, <1>12, <1>14, <2>1, <2>2 DEF Accounted
  <2>5. Passed'
    <3>1. \A k \in 1..L : \A i \in 1..after[k].next - 1 :
            MembersOf(after[k].type)[i].type \in Types => MembersOf(after[k].type)[i].type \in graph.seen
      BY <1>16, <1>18
    <3> QED BY <1>7, <1>9, <1>10, <1>13, <2>1, <2>2, <3>1 DEF Passed
  <2>6. Needed(R)'
    BY <1>1, <1>7, <1>11, <2>1 DEF Needed
  <2> QED BY <1>7, <2>1, <2>3, <2>4, <2>5, <2>6 DEF Walk
<1> QED BY <1>17, <1>18

\* After its last field a type is listed.
LEMMA WalkListsType ==
  ASSUME NEW R, KnownFields, Walk(R), FinishType, UNCHANGED fields
  PROVE  Walk(R)'
<1> DEFINE L == Len(frames)
           t == Top.type
           FrameSet == [type : Types, next : Nat \ {0}]
<1>1. /\ IsGraph(graph) /\ roots' = roots /\ NamesGiven(graph) /\ Accounted /\ Passed /\ Needed(R) /\ IsWalk
      /\ frames \in Seq(FrameSet) /\ frames # <<>> /\ roots \in Seq(Types \cup WellKnown)
      /\ ~(Top.next <= Len(MembersOf(t)))
      /\ frames' = SubSeq(frames, 1, L - 1)
      /\ graph' = [graph EXCEPT !.types = Append(@, t)]
  BY DEF Walk, IsWalk, FinishType, AtField
<1>2. /\ L \in Nat \ {0} /\ DOMAIN frames = 1..L /\ L \in 1..L /\ Top = frames[L]
      /\ \A k \in 1..L : frames[k] \in FrameSet
  <2> HIDE DEF FrameSet
  <2>1. L \in Nat \ {0} /\ DOMAIN frames = 1..L
    BY <1>1, EmptySeq, LenProperties
  <2>2. \A k \in 1..L : frames[k] \in FrameSet
    BY <1>1, <2>1
  <2> QED BY <2>1, <2>2 DEF Top
<1>3. t \in Types /\ Top.next \in Nat \ {0}
  BY <1>2
<1>4. Len(MembersOf(t)) \in Nat /\ DOMAIN MembersOf(t) = 1..Len(MembersOf(t))
  BY <1>3 DEF KnownFields, IsSequence
<1>5. /\ frames' \in Seq(FrameSet) /\ DOMAIN frames' = 1..L - 1
      /\ \A k \in 1..L - 1 : frames'[k] = frames[k] /\ k \in 1..L
  <2> HIDE DEF FrameSet
  <2>1. \A k \in 1..L - 1 : k \in 1..L /\ frames[k] \in FrameSet
    BY <1>2
  <2>2. /\ frames' \in Seq(FrameSet) /\ Len(frames') = L - 1
        /\ \A k \in 1..(L - 1) - 1 + 1 : frames'[k] = frames[1 + k - 1]
    BY <1>1, <1>2, <2>1, SubSeqProperties
  <2>3. DOMAIN frames' = 1..L - 1
    BY <2>2, LenProperties
  <2>4. (L - 1) - 1 + 1 = L - 1 /\ \A k \in 1..L - 1 : 1 + k - 1 = k
    BY <1>2
  <2> QED BY <2>1, <2>2, <2>3, <2>4
<1>6. \A k \in 1..L : k \in 1..L - 1 \/ k = L
  <2>1. L \in Nat \ {0}
    BY <1>2
  <2> HIDE DEF L
  <2> QED BY <2>1
<1>7. L \notin 1..L - 1
  BY <1>2
<1>8. \A u : MembersOf(u)' = MembersOf(u)
  BY DEF MembersOf
<1>9. \A u : Below(u)' = Below(u)
  BY <1>8 DEF Below
<1>10. \A S : Closed(S)' = Closed(S)
  BY <1>9 DEF Closed
<1>11. /\ graph.seen = Range(graph.types) \cup {frames[k].type : k \in 1..L}
       /\ IsInjective(graph.types)
       /\ \A k \in 1..L : frames[k].type \notin Range(graph.types)
       /\ \A j, k \in 1..L : frames[j].type = frames[k].type => j = k
  BY <1>1, <1>2 DEF Accounted
<1>12. /\ \A u \in Range(graph.types) : Below(u) \cap Types \subseteq graph.seen
       /\ \A k \in 1..L : \A i \in 1..frames[k].next - 1 :
            MembersOf(frames[k].type)[i].type \in Types => MembersOf(frames[k].type)[i].type \in graph.seen
  BY <1>1, <1>2 DEF Passed
<1>13. graph' = [seen |-> graph.seen, imports |-> graph.imports, types |-> Append(graph.types, t),
                 names |-> graph.names, failed |-> graph.failed]
  <2>1. graph = [seen |-> graph.seen, imports |-> graph.imports, types |-> graph.types, names |-> graph.names,
                 failed |-> graph.failed]
    BY <1>1 DEF IsGraph
  <2>2. graph' = [graph EXCEPT !.types = Append(graph.types, t)]
    BY <1>1
  <2> QED BY <2>1, <2>2
<1>14. /\ graph'.seen = graph.seen /\ graph'.imports = graph.imports /\ graph'.names = graph.names
       /\ graph'.failed = graph.failed /\ graph'.types = Append(graph.types, t)
  BY <1>13
<1>15. /\ graph'.types \in Seq(Types) /\ Range(graph'.types) = Range(graph.types) \cup {t}
       /\ IsInjective(graph'.types)
  <2>1. graph.types \in Seq(Types) /\ t \notin Range(graph.types)
    BY <1>1, <1>2, <1>11 DEF IsGraph
  <2> QED BY <2>1, <1>3, <1>11, <1>14, AppendedElement
<1>16. IsGraph(graph')
  BY <1>1, <1>13, <1>14, <1>15 DEF IsGraph
<1>17. IsWalk'
  BY <1>1, <1>2, <1>5, <1>8, <1>16 DEF IsWalk
<1>18. Accounted'
  <2>1. graph'.seen = Range(graph'.types) \cup {frames'[k].type : k \in 1..L - 1}
    <3>1. \A k \in 1..L - 1 : frames'[k].type \in graph.seen
      BY <1>5, <1>11
    <3>2. ASSUME NEW u \in graph.seen PROVE u \in Range(graph'.types) \/ \E k \in 1..L - 1 : u = frames'[k].type
      <4>1. CASE u \in Range(graph.types)
        BY <4>1, <1>15
      <4>2. CASE \E k \in 1..L : u = frames[k].type
        <5>1. PICK k \in 1..L : u = frames[k].type
          BY <4>2
        <5>2. CASE k = L
          BY <5>1, <5>2, <1>2, <1>15
        <5>3. CASE k # L
          BY <5>1, <5>3, <1>5, <1>6
        <5> QED BY <5>2, <5>3
      <4> QED BY <4>1, <4>2, <1>11
    <3>3. Range(graph'.types) \subseteq graph.seen
      BY <1>2, <1>11, <1>15
    <3> QED BY <3>1, <3>2, <3>3, <1>14
  <2>2. \A k \in 1..L - 1 : frames'[k].type \notin Range(graph'.types)
    BY <1>2, <1>5, <1>7, <1>11, <1>15
  <2>3. \A j, k \in 1..L - 1 : frames'[j].type = frames'[k].type => j = k
    BY <1>5, <1>11
  <2> QED BY <1>5, <1>15, <2>1, <2>2, <2>3 DEF Accounted
<1>19. Passed'
  <2>1. Below(t) \cap Types \subseteq graph.seen
    <3> SUFFICES ASSUME NEW u \in Below(t), u \in Types PROVE u \in graph.seen
      OBVIOUS
    <3>1. PICK i \in 1..Len(MembersOf(t)) : u = MembersOf(t)[i].type
      BY <1>4 DEF Below
    <3>2. i \in 1..Top.next - 1
      BY <1>1, <1>3, <1>4
    <3> QED BY <3>1, <3>2, <1>2, <1>12
  <2>2. \A u \in Range(graph'.types) : Below(u)' \cap Types \subseteq graph'.seen
    BY <1>9, <1>12, <1>14, <1>15, <2>1
  <2>3. \A k \in 1..L - 1 : \A i \in 1..frames'[k].next - 1 :
          MembersOf(frames'[k].type)[i].type \in Types => MembersOf(frames'[k].type)[i].type \in graph'.seen
    BY <1>5, <1>12, <1>14
  <2> QED BY <1>5, <1>8, <2>2, <2>3 DEF Passed
<1>20. Needed(R)'
  BY <1>1, <1>10, <1>14 DEF Needed
<1>21. NamesGiven(graph)'
  BY <1>1, <1>14 DEF NamesGiven
<1> QED BY <1>17, <1>18, <1>19, <1>20, <1>21 DEF Walk

\* Whatever collectMessage, collectEnum or a field does keeps the walk.
LEMMA WalkSteps ==
  ASSUME NEW R, NEW root, KnownFields, Walk(R), Collect(root), UNCHANGED fields
  PROVE  Walk(R)'
BY WalkEntersRoot, WalkTakesField, WalkListsType DEF Collect

\* What a finished walk found.
LEMMA WalkEnds ==
  ASSUME NEW R, Walk(R), Collected, ~graph.failed
  PROVE  /\ Range(graph.types) = Reachable(R) /\ IsInjective(graph.types)
         /\ Closed(Range(graph.types))
         /\ \A t, u \in Range(graph.types) : SameName(t, u) => t = u
<1>1. frames = <<>> /\ roots = <<>> /\ IsGraph(graph) /\ Accounted /\ Passed /\ Needed(R) /\ NamesGiven(graph)
  BY DEF Walk, IsWalk, Collected
<1>2. DOMAIN frames = {} /\ Range(roots) = {}
  BY <1>1 DEF Range
<1>3. graph.seen = Range(graph.types) /\ IsInjective(graph.types)
  BY <1>1, <1>2 DEF Accounted
<1>4. graph.seen \subseteq Types /\ R \cap Types \subseteq graph.seen
  BY <1>1, <1>2 DEF IsGraph, Needed
<1>5. Closed(graph.seen)
  BY <1>1, <1>3 DEF Passed, Closed
<1>6. \A S \in SUBSET Types : R \cap Types \subseteq S /\ Closed(S) => graph.seen \subseteq S
  BY <1>1 DEF Needed
<1>7. Reachable(R) = graph.seen
  <2>1. ASSUME NEW t \in graph.seen PROVE t \in Reachable(R)
    BY <1>4, <1>6 DEF Reachable
  <2>2. ASSUME NEW t \in Reachable(R) PROVE t \in graph.seen
    BY <1>4, <1>5 DEF Reachable
  <2> QED BY <2>1, <2>2
<1> QED BY <1>1, <1>3, <1>5, <1>7 DEF NamesGiven

\* The recursion is never deeper than there are types.
LEMMA WalkDepth ==
  ASSUME NEW R, Walk(R)
  PROVE  Len(frames) <= Cardinality(Types)
<1> DEFINE types == [k \in 1..Len(frames) |-> frames[k].type]
<1>1. /\ Len(frames) \in Nat /\ DOMAIN frames = 1..Len(frames)
      /\ \A k \in 1..Len(frames) : frames[k].type \in Types
  <2> DEFINE FrameSet == [type : Types, next : Nat \ {0}]
  <2>1. frames \in Seq(FrameSet)
    BY DEF Walk, IsWalk
  <2>2. Len(frames) \in Nat /\ DOMAIN frames = 1..Len(frames) /\ \A k \in 1..Len(frames) : frames[k] \in FrameSet
    <3> HIDE DEF FrameSet
    <3> QED BY <2>1, LenProperties
  <2> QED BY <2>2
<1>2. types \in Injection(1..Len(frames), Types)
  BY <1>1 DEF Walk, Accounted, Injection, IsInjective
<1>3. IsFiniteSet(Types)
  BY TypesAssumption
<1>4. Cardinality(1..Len(frames)) <= Cardinality(Types)
  <2> HIDE DEF types
  <2> QED BY <1>2, <1>3, FS_Injection
<1>5. Cardinality(1..Len(frames)) = Len(frames)
  BY <1>1, FS_Interval
<1> QED BY <1>4, <1>5

-----------------------------------------------------------------------------
(* A run of the plugin *)

Languages == {"go", "python", "kotlin", "java", "typescript"}
Running == stage \notin {"options", "failed"}

ProjectKnown == project \in Projects /\ fields = project.fields

OptionsRead ==
  /\ {"lang", "runtime", "handlers"} \subseteq DOMAIN opts
  /\ Running => /\ opts.lang \in Languages
                /\ opts.lang = "python" => Range(opts.handlers) \subseteq {"dataclass", "protobuf"}

Position ==
  /\ stage \in {"options", "collect", "types", "augment", "extra", "render", "done", "failed"}
  /\ next \in 1..Len(Files) + 1
  /\ stage = "options" => next = 1
  /\ stage \in {"types", "extra"} => next <= Len(Files) /\ Generated(File)
  /\ stage \in {"augment", "extra"} => opts.lang = "python"
  /\ stage = "done" /\ opts.lang = "python" => next = Len(Files) + 1

\* The classes of a file have names of their own; with a type its module knows all below it.
IsModel(f, m) ==
  /\ m = [tools |-> m.tools, prompts |-> m.prompts, resources |-> m.resources, graph |-> m.graph]
  /\ m.tools = Tools(f) /\ m.prompts = Prompts(f, project.prompts) /\ m.resources = Resources(f, project.resources)
  /\ IsGraph(m.graph)
  /\ ~m.graph.failed => /\ Closed(Range(m.graph.types))
                        /\ \A t, u \in Current(f, m.graph) : SameName(t, u) => t = u

ModelsCollected ==
  /\ models = [f \in DOMAIN models |-> models[f]]
  /\ \A f \in DOMAIN models : IsModel(f, models[f]) /\ ~Flawed(f)
  /\ opts.lang = "python" => \A f \in DOMAIN models : ~models[f].graph.failed
  /\ stage \in {"options", "collect", "types"} => DOMAIN models = {Files[i] : i \in 1..next - 1} \cap project.generate
  /\ stage \in {"augment", "extra", "render", "done"} => DOMAIN models = project.generate

Walking ==
  /\ stage = "types" => ~Flawed(File) /\ Walk(Range(TypeRoots(File)))
  /\ stage = "extra" => Walk(extraRefs[File])

TypesListed(f) == Range(models[f].graph.types)
Past == IF stage \in {"augment", "extra"} THEN {Files[i] : i \in 1..next - 1} ELSE Range(Files)

\* What files need of each other: types that some module has, each in the module of its file
\* or among those that are still to be added to it.
NeedsKnown ==
  opts.lang = "python" /\ stage \in {"augment", "extra", "render", "done"} =>
    /\ DOMAIN extraRefs = project.generate
    /\ \A c \in project.generate :
         /\ extraRefs[c] \subseteq {t \in Types : FileOf[t] = c}
         /\ extraRefs[c] \subseteq UNION {TypesListed(f) : f \in project.generate}
         /\ c \in Past => extraRefs[c] \subseteq TypesListed(c)
    /\ \A f \in project.generate : \A t \in TypesListed(f) :
         FileOf[t] \in project.generate => t \in extraRefs[FileOf[t]] \cup TypesListed(FileOf[t])

FilesWritten ==
  /\ \A p \in DOMAIN outputs : \A a, b \in outputs[p].defines : a.name = b.name => a = b
  /\ ~(opts.lang = "python" /\ stage \in {"render", "done"}) /\ stage # "failed" =>
       \A p \in DOMAIN outputs : outputs[p].uses = {}
  /\ opts.lang = "python" /\ stage \in {"render", "done"} =>
       /\ \A p \in DOMAIN outputs :
            \/ outputs[p].uses = {}
            \/ /\ "dataclass" \in pythonHandlers
               /\ \E f \in project.generate : outputs[p].uses = Foreign(f, models[f].graph)
       /\ "dataclass" \in pythonHandlers =>
            \A f \in {Files[i] : i \in 1..next - 1} : Generated(f) /\ Current(f, models[f].graph) # {} =>
              <<f, "mcp">> \in DOMAIN outputs /\ outputs[<<f, "mcp">>] = PythonModule(f, "dataclass")

IInv ==
  /\ ProjectKnown /\ OptionsRead /\ Position /\ ModelsCollected
  /\ Walking /\ NeedsKnown /\ FilesWritten

\* What protoc hands over.
LEMMA ProjectFacts ==
  ASSUME ProjectKnown
  PROVE  /\ KnownFields
         /\ Len(Files) \in Nat /\ DOMAIN Files = 1..Len(Files)
         /\ \A i, j \in 1..Len(Files) : Files[i] = Files[j] => i = j
         /\ Range(Files) = {Files[i] : i \in 1..Len(Files)}
         /\ project.generate \subseteq Range(Files)
         /\ \A f \in Range(Files) : /\ f \in DOMAIN TypesOf /\ TypesOf[f] \in Seq(Types)
                                   /\ project.methods[f] \in Seq(Range(project.methods[f]))
                                   /\ \A m \in Range(project.methods[f]) :
                                        {m.input, m.output} \subseteq ProtoTypes \ {Scalar}
<1>1. project \in Projects /\ fields = project.fields
  BY DEF ProjectKnown
<1>2. /\ \A t \in Types : IsSequence(fields[t]) /\ \A i \in DOMAIN fields[t] : fields[t][i].type \in ProtoTypes
      /\ Files \in Seq(DOMAIN project.methods) /\ IsInjective(Files) /\ project.generate \subseteq Range(Files)
      /\ DOMAIN project.methods \subseteq DOMAIN TypesOf
      /\ \A f \in DOMAIN project.methods :
           /\ IsSequence(project.methods[f])
           /\ \A m \in Range(project.methods[f]) : {m.input, m.output} \subseteq ProtoTypes \ {Scalar}
  BY <1>1, ProjectsAssumption DEF Files
<1>3. KnownFields
  <2> SUFFICES ASSUME NEW t \in Types
               PROVE  /\ IsSequence(MembersOf(t))
                      /\ \A i \in DOMAIN MembersOf(t) : MembersOf(t)[i].type \in ProtoTypes
    BY DEF KnownFields
  <2>1. CASE t \in Enums
    <3>1. MembersOf(t) = <<>>
      BY <2>1 DEF MembersOf
    <3>2. IsSequence(<<>>) /\ DOMAIN <<>> = {}
      BY DEF IsSequence
    <3> QED BY <3>1, <3>2
  <2>2. CASE t \notin Enums
    BY <2>2, <1>2 DEF MembersOf
  <2> QED BY <2>1, <2>2
<1>4. Len(Files) \in Nat /\ DOMAIN Files = 1..Len(Files) /\ Range(Files) \subseteq DOMAIN project.methods
  BY <1>2, LenProperties, RangeOfSeq
<1>5. \A i, j \in 1..Len(Files) : Files[i] = Files[j] => i = j
  BY <1>2, <1>4 DEF IsInjective
<1>6. Range(Files) = {Files[i] : i \in 1..Len(Files)}
  BY <1>4 DEF Range
<1>7. \A f \in Range(Files) : /\ f \in DOMAIN TypesOf /\ TypesOf[f] \in Seq(Types)
                             /\ project.methods[f] \in Seq(Range(project.methods[f]))
                             /\ \A m \in Range(project.methods[f]) : {m.input, m.output} \subseteq ProtoTypes \ {Scalar}
  BY <1>2, <1>4, TypesAssumption DEF IsSequence
<1> QED BY <1>2, <1>3, <1>4, <1>5, <1>6, <1>7

\* The tools of a file that is not flawed are on messages that have fields.
LEMMA RootsKnown ==
  ASSUME ProjectKnown, NEW f \in Range(Files), ~Flawed(f)
  PROVE  TypeRoots(f) \in Seq(Types \cup WellKnown)
<1> DEFINE methods == project.methods[f]
           tools == Tools(f)
           T == Types \cup WellKnown
<1>1. /\ TypesOf[f] \in Seq(Types) /\ methods \in Seq(Range(methods))
      /\ \A m \in Range(methods) : {m.input, m.output} \subseteq ProtoTypes \ {Scalar}
  BY ProjectFacts
<1>2. tools \in Seq(Range(methods)) /\ Range(tools) \subseteq Range(methods)
  BY <1>1, OnlyElements DEF Tools
<1>3. \A m \in Range(tools) : Unsupported \notin Mentioned(m)
  BY DEF Flawed
<1>4. \A m \in Range(tools) : m.input \in T /\ m.output \in T
  <2> SUFFICES ASSUME NEW m \in Range(tools) PROVE m.input \in T /\ m.output \in T
    OBVIOUS
  <2>1. {m.input, m.output} \subseteq ProtoTypes \ {Scalar}
    BY <1>1, <1>2
  <2>2. Unsupported \notin {m.input, m.output}
    BY <1>3 DEF Mentioned
  <2> QED BY <2>1, <2>2 DEF ProtoTypes
<1> HIDE DEF tools, T, methods
<1> DEFINE pairs == [i \in DOMAIN tools |-> <<tools[i].input, tools[i].output>>]
<1>5. Len(tools) \in Nat /\ DOMAIN tools = 1..Len(tools) /\ \A i \in 1..Len(tools) : tools[i] \in Range(tools)
  BY <1>2, LenProperties DEF Range
<1>6. pairs \in Seq(Seq(T))
  <2>1. \A i \in 1..Len(tools) : <<tools[i].input, tools[i].output>> \in Seq(T)
    BY <1>4, <1>5
  <2> QED BY <2>1, <1>5
<1>7. FlattenSeq(pairs) \in Seq(T)
  <2> HIDE DEF pairs
  <2> QED BY <1>6, FlattenElements
<1>8. TypesOf[f] \in Seq(T)
  BY <1>1, SeqMonotonic DEF T
<1>9. collectTypeGraph(f, tools) \in Seq(T) /\ collectJVMTypeGraph(f, tools) \in Seq(T)
  BY <1>7, <1>8 DEF collectTypeGraph, collectJVMTypeGraph
<1>10. <<>> \in Seq(T)
  OBVIOUS
<1> QED BY <1>9, <1>10 DEF TypeRoots, tools, T

\* What only depends on the project.
LEMMA Fixed ==
  ASSUME UNCHANGED <<fields, project>>
  PROVE  /\ \A S : Closed(S)' = Closed(S)
         /\ \A f : Tools(f)' = Tools(f) /\ Flawed(f)' = Flawed(f) /\ Generated(f)' = Generated(f)
         /\ Files' = Files
         /\ \A f, m : IsModel(f, m)' = IsModel(f, m)
<1>1. \A t : MembersOf(t)' = MembersOf(t)
  BY DEF MembersOf
<1>2. \A t : Below(t)' = Below(t)
  BY <1>1 DEF Below
<1>3. \A S : Closed(S)' = Closed(S)
  BY <1>2 DEF Closed
<1>4. \A S : Reachable(S)' = Reachable(S)
  BY <1>3 DEF Reachable
<1>5. \A m : Mentioned(m)' = Mentioned(m)
  BY <1>2, <1>4 DEF Mentioned
<1>6. \A f : Tools(f)' = Tools(f) /\ Generated(f)' = Generated(f)
  BY DEF Tools, Generated
<1>7. \A f : Flawed(f)' = Flawed(f)
  BY <1>5, <1>6 DEF Flawed
<1>8. \A f, m : IsModel(f, m)' = IsModel(f, m)
  BY <1>3, <1>6 DEF IsModel
<1> QED BY <1>3, <1>6, <1>7, <1>8 DEF Files

\* The types a file starts from depend on the project, the language and the file.
LEMMA RootsFixed ==
  ASSUME UNCHANGED <<fields, project, opts, next>>
  PROVE  TypeRoots(File)' = TypeRoots(File) /\ File' = File
<1>1. Tools(File)' = Tools(File) /\ File' = File
  BY DEF Tools, File, Files
<1> QED BY <1>1 DEF TypeRoots, collectTypeGraph, collectJVMTypeGraph

\* A walk that nothing touches is kept.
LEMMA WalkUnchanged ==
  ASSUME NEW R, Walk(R), UNCHANGED <<fields, collector>>
  PROVE  Walk(R)'
<1>1. graph' = graph /\ frames' = frames /\ roots' = roots /\ fields' = fields
  BY DEF collector
<1>2. \A t : MembersOf(t)' = MembersOf(t)
  BY <1>1 DEF MembersOf
<1>3. \A t : Below(t)' = Below(t)
  BY <1>2 DEF Below
<1>4. \A S : Closed(S)' = Closed(S)
  BY <1>3 DEF Closed
<1>5. IsWalk'
  BY <1>1, <1>2 DEF Walk, IsWalk
<1>6. Accounted'
  BY <1>1 DEF Walk, Accounted
<1>7. Passed'
  BY <1>1, <1>2, <1>3 DEF Walk, Passed
<1>8. Needed(R)'
  BY <1>1, <1>4 DEF Walk, Needed
<1>9. NamesGiven(graph)'
  BY <1>1 DEF Walk, NamesGiven
<1> QED BY <1>5, <1>6, <1>7, <1>8, <1>9 DEF Walk

\* A step that leaves the models leaves what is known of them.
LEMMA ModelsKept ==
  ASSUME ModelsCollected, UNCHANGED <<fields, project, models>>
  PROVE  /\ models' = [f \in DOMAIN models' |-> models'[f]]
         /\ \A f \in DOMAIN models' : IsModel(f, models[f])' /\ ~Flawed(f)'
<1>1. \A f : Flawed(f)' = Flawed(f)
  BY Fixed
<1>2. ASSUME NEW f \in DOMAIN models PROVE IsModel(f, models[f])'
  <2>1. PICK m : m = models[f]
    OBVIOUS
  <2>2. IsModel(f, m)
    BY <2>1 DEF ModelsCollected
  <2>3. IsModel(f, m)'
    BY <2>2, Fixed
  <2>4. m = models'[f]
    BY <2>1
  <2> QED BY <2>3, <2>4 DEF IsModel
<1> QED BY <1>1, <1>2 DEF ModelsCollected

\* A failure ends the run where it is.
LEMMA FailKeeps ==
  ASSUME IInv, Fail
  PROVE  IInv'
<1>1. /\ stage' = "failed"
      /\ UNCHANGED <<fields, project, params, opts, next, models, extraRefs, outputs, collector>>
  BY DEF Fail
<1>2. ProjectKnown'
  BY <1>1 DEF IInv, ProjectKnown
<1>3. OptionsRead'
  BY <1>1 DEF IInv, OptionsRead, Running
<1>4. Position'
  BY <1>1 DEF IInv, Position, Files
<1>5. ModelsCollected'
  BY <1>1, ModelsKept DEF IInv, ModelsCollected
<1>6. Walking' /\ NeedsKnown'
  BY <1>1 DEF Walking, NeedsKnown
<1>7. FilesWritten'
  BY <1>1 DEF IInv, FilesWritten
<1> QED BY <1>2, <1>3, <1>4, <1>5, <1>6, <1>7 DEF IInv

\* The plugin starts within the invariant.
LEMMA InitKeeps ==
  ASSUME Init
  PROVE  IInv
<1>1. /\ project \in Projects /\ fields = project.fields /\ opts = NewOptionsParser /\ stage = "options"
      /\ next = 1 /\ models = NoFiles /\ outputs = NoFiles
  BY DEF Init
<1>2. ProjectKnown
  BY <1>1 DEF ProjectKnown
<1>3. Len(Files) \in Nat
  BY <1>2, ProjectFacts
<1>4. OptionsRead
  <2>1. DOMAIN opts = {"lang", "runtime", "handlers", "sawRuntime", "sawHandler", "continuation"}
    <3>1. \A r : DOMAIN [lang |-> "go", runtime |-> r, handlers |-> <<>>, sawRuntime |-> FALSE,
                         sawHandler |-> FALSE, continuation |-> FALSE] =
                {"lang", "runtime", "handlers", "sawRuntime", "sawHandler", "continuation"}
      OBVIOUS
    <3> QED BY <1>1, <3>1, Zenon DEF NewOptionsParser
  <2> QED BY <1>1, <2>1 DEF OptionsRead, Running
<1>5. Position
  BY <1>1, <1>3 DEF Position
<1>6. DOMAIN models = {} /\ DOMAIN outputs = {} /\ models = [f \in DOMAIN models |-> models[f]]
  BY <1>1 DEF NoFiles
<1>7. ModelsCollected
  BY <1>1, <1>6 DEF ModelsCollected
<1>8. Walking /\ NeedsKnown
  BY <1>1 DEF Walking, NeedsKnown
<1>9. FilesWritten
  BY <1>1, <1>6 DEF FilesWritten
<1> QED BY <1>2, <1>4, <1>5, <1>7, <1>8, <1>9 DEF IInv

\* An option changes what it sets.
LEMMA OptionSet ==
  ASSUME NEW o, NEW param
  PROVE  DOMAIN SetOption(o, param) = DOMAIN o
<1>1. \A p, h : DOMAIN addPythonHandler(p, h) = DOMAIN p
  <2>1. \A p, v : DOMAIN [p EXCEPT !.handlers = v] = DOMAIN p
    OBVIOUS
  <2> QED BY <2>1, Zenon DEF addPythonHandler
<1>2. CASE param.name = "lang"
  BY <1>2 DEF SetOption
<1>3. CASE param.name = "python_runtime"
  BY <1>3 DEF SetOption
<1>4. CASE param.name = "python_handler"
  <2>1. SetOption(o, param) = [addPythonHandler(o, param.values) EXCEPT !.sawHandler = TRUE, !.continuation = TRUE]
    BY <1>4 DEF SetOption
  <2> QED BY <2>1, <1>1
<1>5. CASE param.name \notin {"lang", "python_runtime", "python_handler"}
  <2>1. SetOption(o, param) = addPythonHandler(o, <<param.name>>)
    BY <1>5 DEF SetOption
  <2> QED BY <2>1, <1>1
<1> QED BY <1>2, <1>3, <1>4, <1>5

\* A parameter that is read leaves the options well formed.
LEMMA ReadParamKeeps ==
  ASSUME IInv, ReadParam
  PROVE  IInv'
<1>1. /\ stage = "options" /\ stage' = "options" /\ opts' = SetOption(opts, Param)
      /\ UNCHANGED <<fields, project, next, models, outputs>>
  BY DEF ReadParam
<1>2. ProjectKnown'
  BY <1>1 DEF IInv, ProjectKnown
<1>3. OptionsRead'
  BY <1>1, OptionSet DEF IInv, OptionsRead, Running
<1>4. Position'
  BY <1>1 DEF IInv, Position, Files
<1>5. ModelsCollected'
  <2>1. DOMAIN models = {}
    BY <1>1 DEF IInv, ModelsCollected, Position
  <2> QED BY <1>1, <2>1, ModelsKept DEF IInv, ModelsCollected, Files
<1>6. Walking' /\ NeedsKnown'
  BY <1>1 DEF Walking, NeedsKnown
<1>7. FilesWritten'
  BY <1>1 DEF IInv, FilesWritten
<1> QED BY <1>2, <1>3, <1>4, <1>5, <1>6, <1>7 DEF IInv

\* Options that are accepted name a language and, for Python, handlers it knows.
LEMMA OptionsKeeps ==
  ASSUME IInv, Options
  PROVE  IInv'
<1>1. CASE Fail
  BY <1>1, FailKeeps
<1>2. CASE /\ ValidOptions(opts) /\ opts' = IF opts.lang = "python" THEN WithDefaults(opts) ELSE opts
           /\ stage' = "collect"
           /\ UNCHANGED <<fields, project, params, next, models, extraRefs, outputs, collector>>
  <2>1. stage = "options" /\ {"lang", "runtime", "handlers"} \subseteq DOMAIN opts
    BY DEF Options, IInv, OptionsRead
  <2>2. ProjectKnown'
    BY <1>2 DEF IInv, ProjectKnown
  <2>3. OptionsRead'
    <3>1. CASE opts.lang = "python"
      <4>1. DOMAIN WithDefaults(opts) = DOMAIN opts /\ WithDefaults(opts).lang = opts.lang
        BY <2>1 DEF WithDefaults
      <4>2. Range(WithDefaults(opts).handlers) \subseteq {"dataclass", "protobuf"}
        BY <1>2, <3>1 DEF ValidOptions
      <4>3. opts' = WithDefaults(opts)
        BY <1>2, <3>1
      <4> HIDE DEF WithDefaults
      <4> QED BY <4>1, <4>2, <4>3, <2>1, <3>1 DEF OptionsRead, Languages
    <3>2. CASE opts.lang # "python"
      BY <1>2, <2>1, <3>2 DEF OptionsRead, Languages, ValidOptions
    <3> QED BY <3>1, <3>2
  <2>4. Position'
    BY <1>2, <2>1 DEF IInv, Position, Files
  <2>5. ModelsCollected'
    BY <1>2, <2>1, ModelsKept DEF IInv, ModelsCollected, Files
  <2>6. Walking' /\ NeedsKnown'
    BY <1>2 DEF Walking, NeedsKnown
  <2>7. FilesWritten'
    BY <1>2, <2>1 DEF IInv, FilesWritten
  <2> QED BY <2>2, <2>3, <2>4, <2>5, <2>6, <2>7 DEF IInv
<1> QED BY <1>1, <1>2 DEF Options

\* The files before the next one are those before this one, and this one.
LEMMA NextFile ==
  ASSUME ProjectKnown, next \in 1..Len(Files)
  PROVE  /\ {Files[i] : i \in 1..(next + 1) - 1} = {Files[i] : i \in 1..next - 1} \cup {File}
         /\ File \in Range(Files) /\ File \notin {Files[i] : i \in 1..next - 1}
<1>1. Len(Files) \in Nat /\ \A i, j \in 1..Len(Files) : Files[i] = Files[j] => i = j
  BY ProjectFacts
<1>2. \A i \in 1..(next + 1) - 1 : i \in 1..next - 1 \/ i = next
  BY <1>1
<1>3. \A i \in 1..next - 1 : i \in 1..(next + 1) - 1 /\ i \in 1..Len(Files) /\ i # next
  BY <1>1
<1>4. next \in 1..(next + 1) - 1
  BY <1>1
<1>5. File \in Range(Files)
  BY ProjectFacts DEF File
<1> QED BY <1>1, <1>2, <1>3, <1>4, <1>5 DEF File

\* A file that is not to be generated is passed over.
LEMMA SkipFileKeeps ==
  ASSUME IInv, SkipFile
  PROVE  IInv'
<1>1. /\ stage \in {"collect", "augment"} /\ ~AtEnd /\ ~ToCollect(File) /\ next' = next + 1
      /\ UNCHANGED <<fields, project, params, opts, stage, models, extraRefs, outputs, collector>>
  BY DEF SkipFile
<1>2. ProjectKnown /\ next \in 1..Len(Files) /\ Len(Files) \in Nat
  BY <1>1, ProjectFacts DEF IInv, Position, AtEnd
<1>3. {Files[i] : i \in 1..next' - 1} = {Files[i] : i \in 1..next - 1} \cup {File}
  BY <1>1, <1>2, NextFile
<1>4. Files' = Files
  BY <1>1 DEF Files
<1>5. ProjectKnown'
  BY <1>1, <1>2 DEF ProjectKnown
<1>6. OptionsRead'
  BY <1>1 DEF IInv, OptionsRead, Running
<1>7. Position'
  BY <1>1, <1>2, <1>4 DEF IInv, Position
<1>8. ModelsCollected'
  <2>1. stage = "collect" => DOMAIN models = {Files[i] : i \in 1..next - 1} \cap project.generate
    BY DEF IInv, ModelsCollected
  <2>2. stage = "collect" => File \notin project.generate
    BY <1>1 DEF ToCollect, Generated
  <2>3. stage = "collect" => DOMAIN models = {Files[i] : i \in 1..next' - 1} \cap project.generate
    BY <1>3, <2>1, <2>2
  <2> QED BY <1>1, <1>4, <2>3, ModelsKept DEF IInv, ModelsCollected
<1>9. Walking'
  BY <1>1 DEF Walking
<1>10. NeedsKnown'
  <2> SUFFICES ASSUME opts.lang = "python", stage = "augment" PROVE NeedsKnown'
    BY <1>1 DEF NeedsKnown
  <2>1. /\ DOMAIN extraRefs = project.generate
        /\ \A c \in project.generate :
             /\ extraRefs[c] \subseteq {t \in Types : FileOf[t] = c}
             /\ extraRefs[c] \subseteq UNION {TypesListed(f) : f \in project.generate}
             /\ c \in Past => extraRefs[c] \subseteq TypesListed(c)
        /\ \A f \in project.generate : \A t \in TypesListed(f) :
             FileOf[t] \in project.generate => t \in extraRefs[FileOf[t]] \cup TypesListed(FileOf[t])
    BY DEF IInv, NeedsKnown
  <2>2. Past' = Past \cup {File}
    BY <1>1, <1>3, <1>4 DEF Past
  <2>3. File \in project.generate => extraRefs[File] = {}
    BY <1>1 DEF ToCollect, Generated
  <2>4. \A f : TypesListed(f)' = TypesListed(f)
    BY <1>1 DEF TypesListed
  <2> QED BY <1>1, <2>1, <2>2, <2>3, <2>4 DEF NeedsKnown
<1>11. FilesWritten'
  BY <1>1 DEF IInv, FilesWritten
<1> QED BY <1>5, <1>6, <1>7, <1>8, <1>9, <1>10, <1>11 DEF IInv

\* A walk starts from types that have fields.
LEMMA CollectFileKeeps ==
  ASSUME IInv, CollectFile
  PROVE  IInv'
<1>1. /\ stage = "collect" /\ ~AtEnd /\ Generated(File) /\ ~Flawed(File) /\ stage' = "types"
      /\ Start(TypeRoots(File))
      /\ UNCHANGED <<fields, project, params, opts, next, models, extraRefs, outputs>>
  BY DEF CollectFile, ToCollect
<1>2. ProjectKnown /\ next \in 1..Len(Files) /\ Len(Files) \in Nat
  BY <1>1, ProjectFacts DEF IInv, Position, AtEnd
<1>3. Files' = Files /\ File' = File
  BY <1>1 DEF Files, File
<1>4. ProjectKnown'
  BY <1>1, <1>2 DEF ProjectKnown
<1>5. OptionsRead'
  BY <1>1 DEF IInv, OptionsRead, Running
<1>6. Position'
  BY <1>1, <1>2, <1>3 DEF IInv, Position, Generated
<1>7. ModelsCollected'
  BY <1>1, <1>3, ModelsKept DEF IInv, ModelsCollected
<1>8. Walking'
  <2>1. File \in Range(Files)
    BY <1>2, NextFile
  <2>2. PICK types : types = TypeRoots(File)
    OBVIOUS
  <2>3. types \in Seq(Types \cup WellKnown)
    BY <1>1, <1>2, <2>1, <2>2, RootsKnown
  <2>4. Start(types)
    BY <1>1, <2>2 DEF Start
  <2>5. Walk(Range(types))'
    BY <2>3, <2>4, WalkStarts
  <2>6. TypeRoots(File)' = types
    BY <1>1, <2>2, RootsFixed
  <2>7. Walk(Range(TypeRoots(File)))'
    BY <2>5, <2>6 DEF Walk, Needed
  <2>8. ~Flawed(File)'
    <3>1. PICK f : f = File
      OBVIOUS
    <3>2. ~Flawed(f)'
      BY <1>1, <3>1, Fixed
    <3>3. f = File'
      BY <3>1, <1>3
    <3> QED BY <3>2, <3>3 DEF Flawed
  <2> QED BY <1>1, <2>7, <2>8 DEF Walking
<1>9. NeedsKnown' /\ FilesWritten'
  BY <1>1 DEF IInv, NeedsKnown, FilesWritten
<1> QED BY <1>4, <1>5, <1>6, <1>7, <1>8, <1>9 DEF IInv

\* One step of a walk, whatever file it is for.
LEMMA CollectTypesKeeps ==
  ASSUME IInv, CollectTypes
  PROVE  IInv'
<1>1. /\ stage \in {"types", "extra"} /\ Collect(File)
      /\ UNCHANGED <<fields, project, params, opts, stage, next, models, extraRefs, outputs>>
  BY DEF CollectTypes
<1>2. Files' = Files /\ File' = File
  BY <1>1 DEF Files, File
<1>3. ProjectKnown /\ ProjectKnown' /\ KnownFields
  BY <1>1, ProjectFacts DEF IInv, ProjectKnown
<1>4. OptionsRead'
  BY <1>1 DEF IInv, OptionsRead, Running
<1>5. Position'
  BY <1>1, <1>2 DEF IInv, Position, Generated
<1>6. ModelsCollected'
  BY <1>1, <1>2, ModelsKept DEF IInv, ModelsCollected
<1>7. Walking'
  <2>1. PICK root : root = File
    OBVIOUS
  <2>2. Collect(root)
    BY <1>1, <2>1
  <2>3. CASE stage = "types"
    <3>1. PICK R : R = Range(TypeRoots(File))
      OBVIOUS
    <3>2. ~Flawed(File) /\ Walk(R)
      BY <2>3, <3>1 DEF IInv, Walking
    <3>3. Walk(R)'
      BY <1>1, <1>3, <2>2, <3>2, WalkSteps
    <3>4. R = Range(TypeRoots(File))'
      <4>1. TypeRoots(File)' = TypeRoots(File)
        BY <1>1, RootsFixed
      <4> QED BY <3>1, <4>1
    <3>5. Walk(Range(TypeRoots(File)))'
      BY <3>3, <3>4 DEF Walk, Needed
    <3>6. ~Flawed(File)'
      <4>1. ~Flawed(root)
        BY <2>1, <3>2
      <4>2. ~Flawed(root)'
        BY <1>1, <4>1, Fixed
      <4>3. root = File'
        BY <2>1, <1>2
      <4> QED BY <4>2, <4>3 DEF Flawed
    <3> QED BY <1>1, <2>3, <3>5, <3>6 DEF Walking
  <2>4. CASE stage = "extra"
    <3>1. PICK R : R = extraRefs[File]
      OBVIOUS
    <3>2. Walk(R)
      BY <2>4, <3>1 DEF IInv, Walking
    <3>3. Walk(R)'
      BY <1>1, <1>3, <2>2, <3>2, WalkSteps
    <3>4. R = extraRefs'[File']
      BY <1>1, <1>2, <3>1
    <3>5. Walk(extraRefs[File])'
      BY <3>3, <3>4 DEF Walk, Needed
    <3> QED BY <1>1, <2>4, <3>5 DEF Walking
  <2> QED BY <1>1, <2>3, <2>4
<1>8. NeedsKnown'
  BY <1>1, <1>2 DEF IInv, NeedsKnown, TypesListed, Past
<1>9. FilesWritten'
  BY <1>1 DEF IInv, FilesWritten
<1> QED BY <1>3, <1>4, <1>5, <1>6, <1>7, <1>8, <1>9 DEF IInv

\* A walk that is done makes the model of its file: closed, with names of its own.
LEMMA CollectedFileKeeps ==
  ASSUME IInv, CollectedFile
  PROVE  IInv'
<1>1. CASE Fail
  BY <1>1, FailKeeps
<1>2. CASE ~Refused(File) /\ ~Fail
  <2>1. /\ stage = "types" /\ Collected /\ models' = Set(models, File, Model(File))
        /\ outputs' = IF opts.lang = "go" /\ Callable(Model(File))
                        THEN Set(outputs, <<File, "mcp">>, [defines |-> {}, uses |-> {}])
                        ELSE outputs
        /\ stage' = "collect" /\ next' = next + 1
        /\ UNCHANGED <<fields, project, params, opts, extraRefs, collector>>
    BY <1>2 DEF CollectedFile
  <2>2. /\ ProjectKnown /\ next \in 1..Len(Files) /\ Len(Files) \in Nat
        /\ Generated(File) /\ ~Flawed(File) /\ Walk(Range(TypeRoots(File)))
    BY <2>1, ProjectFacts DEF IInv, Position, Walking
  <2>3. Files' = Files
    BY <2>1 DEF Files
  <2>4. ProjectKnown'
    BY <2>1, <2>2 DEF ProjectKnown
  <2>5. OptionsRead'
    BY <2>1 DEF IInv, OptionsRead, Running
  <2>6. Position'
    BY <2>1, <2>2, <2>3 DEF IInv, Position
  <2>7. ModelsCollected'
    <3> DEFINE m == Model(File)
    <3>1. IsModel(File, m)
      <4>1. /\ m = [tools |-> m.tools, prompts |-> m.prompts, resources |-> m.resources, graph |-> m.graph]
            /\ m.tools = Tools(File) /\ m.prompts = Prompts(File, project.prompts)
            /\ m.resources = Resources(File, project.resources) /\ m.graph = graph
        BY DEF Model
      <4>2. IsGraph(graph)
        BY <2>2 DEF Walk, IsWalk
      <4>3. ASSUME ~graph.failed
            PROVE  /\ Closed(Range(graph.types))
                   /\ \A t, u \in Current(File, graph) : SameName(t, u) => t = u
        BY <2>1, <2>2, <4>3, WalkEnds DEF Current
      <4> HIDE DEF m
      <4> QED BY <4>1, <4>2, <4>3 DEF IsModel
    <3>2. m.graph = graph
      BY DEF Model
    <3>3. opts.lang = "python" => ~graph.failed
      BY <1>2 DEF Refused
    <3> HIDE DEF m
    <3>4. /\ models' = [k \in {File} \cup DOMAIN models |-> IF k = File THEN m ELSE models[k]]
      BY <2>1 DEF Set, m
    <3>5. ASSUME NEW f \in DOMAIN models' PROVE IsModel(f, models[f])' /\ ~Flawed(f)'
      <4>1. IsModel(f, models'[f]) /\ ~Flawed(f)
        BY <2>2, <3>1, <3>4 DEF IInv, ModelsCollected
      <4>2. PICK n : n = models'[f]
        OBVIOUS
      <4>3. IsModel(f, n)' /\ ~Flawed(f)'
        BY <4>1, <4>2, <2>1, Fixed
      <4> QED BY <4>2, <4>3 DEF IsModel
    <3>6. opts'.lang = "python" => \A f \in DOMAIN models' : ~models'[f].graph.failed
      BY <2>1, <3>2, <3>3, <3>4 DEF IInv, ModelsCollected
    <3>7. models' = [f \in DOMAIN models' |-> models'[f]]
      BY <3>4
    <3>8. DOMAIN models' = {Files'[i] : i \in 1..next' - 1} \cap project'.generate
      <4>1. {Files[i] : i \in 1..next' - 1} = {Files[i] : i \in 1..next - 1} \cup {File}
        BY <2>1, <2>2, NextFile
      <4>2. File \in project.generate /\ DOMAIN models = {Files[i] : i \in 1..next - 1} \cap project.generate
        BY <2>1, <2>2 DEF Generated, IInv, ModelsCollected
      <4>3. DOMAIN models' = DOMAIN models \cup {File}
        BY <3>4
      <4> QED BY <2>1, <2>3, <4>1, <4>2, <4>3
    <3> QED BY <2>1, <3>5, <3>6, <3>7, <3>8 DEF ModelsCollected
  <2>8. Walking' /\ NeedsKnown'
    BY <2>1 DEF Walking, NeedsKnown
  <2>9. FilesWritten'
    <3>1. \A p \in DOMAIN outputs' : \/ p \in DOMAIN outputs /\ outputs'[p] = outputs[p]
                                     \/ outputs'[p] = [defines |-> {}, uses |-> {}]
      BY <2>1 DEF Set
    <3> QED BY <2>1, <3>1 DEF IInv, FilesWritten
  <2> QED BY <2>4, <2>5, <2>6, <2>7, <2>8, <2>9 DEF IInv
<1> QED BY <1>1, <1>2 DEF CollectedFile

\* What other files need is known once every file is collected.
LEMMA CollectedAllKeeps ==
  ASSUME IInv, CollectedAll
  PROVE  IInv'
<1>1. /\ stage = "collect" /\ AtEnd /\ next' = 1
      /\ stage' = CASE opts.lang = "go" -> "done" [] opts.lang = "python" -> "augment" [] OTHER -> "render"
      /\ extraRefs' = [f \in DOMAIN models |->
                         {t \in Types : FileOf[t] = f /\ \E g \in DOMAIN models : t \in Foreign(g, models[g].graph)}]
      /\ UNCHANGED <<fields, project, params, opts, models, outputs, collector>>
  BY DEF CollectedAll
<1>2. /\ ProjectKnown /\ next = Len(Files) + 1 /\ Len(Files) \in Nat
      /\ Range(Files) = {Files[i] : i \in 1..Len(Files)} /\ project.generate \subseteq Range(Files)
  BY <1>1, ProjectFacts DEF IInv, Position, AtEnd
<1>3. /\ opts.lang = "go" => stage' = "done"
      /\ opts.lang = "python" => stage' = "augment"
      /\ stage' \in {"done", "augment", "render"} /\ (stage' = "augment" => opts.lang = "python")
  BY <1>1
<1>4. DOMAIN models = project.generate
  <2>1. {Files[i] : i \in 1..next - 1} = Range(Files)
    BY <1>2
  <2> QED BY <1>1, <1>2, <2>1 DEF IInv, ModelsCollected
<1>5. ProjectKnown' /\ Files' = Files
  BY <1>1, <1>2 DEF ProjectKnown, Files
<1>6. OptionsRead'
  BY <1>1 DEF IInv, OptionsRead, Running
<1>7. Position'
  BY <1>1, <1>2, <1>3, <1>5 DEF IInv, Position
<1>8. ModelsCollected'
  BY <1>1, <1>3, <1>4, ModelsKept DEF IInv, ModelsCollected
<1>9. Walking'
  BY <1>3 DEF Walking
<1>10. NeedsKnown'
  <2> SUFFICES ASSUME opts.lang = "python" PROVE NeedsKnown'
    BY <1>1 DEF NeedsKnown
  <2>1. \A f : TypesListed(f)' = TypesListed(f)
    BY <1>1 DEF TypesListed
  <2>2. Past' = {}
    BY <1>1, <1>3 DEF Past
  <2>3. \A f \in project.generate : TypesListed(f) \subseteq Types
    <3> SUFFICES ASSUME NEW f \in project.generate PROVE TypesListed(f) \subseteq Types
      OBVIOUS
    <3>1. models[f].graph.types \in Seq(Types)
      BY <1>4 DEF IInv, ModelsCollected, IsModel, IsGraph
    <3> QED BY <3>1, RangeOfSeq DEF TypesListed
  <2>4. ASSUME NEW c \in project.generate
        PROVE  /\ extraRefs'[c] \subseteq {t \in Types : FileOf[t] = c}
               /\ extraRefs'[c] \subseteq UNION {TypesListed(f) : f \in project.generate}
    BY <1>1, <1>4 DEF Foreign, TypesListed
  <2>5. ASSUME NEW f \in project.generate, NEW t \in TypesListed(f), FileOf[t] \in project.generate
        PROVE  t \in extraRefs'[FileOf[t]] \cup TypesListed(FileOf[t])
    <3>1. CASE FileOf[t] = f
      BY <3>1
    <3>2. CASE FileOf[t] # f
      <4>1. t \in Foreign(f, models[f].graph)
        BY <3>2, <2>5 DEF Foreign, Current, TypesListed
      <4> QED BY <4>1, <1>1, <1>4, <2>3, <2>5
    <3> QED BY <3>1, <3>2
  <2>6. DOMAIN extraRefs' = project.generate
    BY <1>1, <1>4
  <2> QED BY <1>1, <2>1, <2>2, <2>4, <2>5, <2>6 DEF NeedsKnown
<1>11. FilesWritten'
  <2>1. \A p \in DOMAIN outputs : outputs[p].uses = {}
    BY <1>1 DEF IInv, FilesWritten
  <2> QED BY <1>1, <1>3, <2>1 DEF IInv, FilesWritten
<1> QED BY <1>5, <1>6, <1>7, <1>8, <1>9, <1>10, <1>11 DEF IInv

\* A set in some order.
LEMMA SetAsSequence ==
  ASSUME NEW S, IsFiniteSet(S)
  PROVE  SetToSeq(S) \in Seq(S) /\ Range(SetToSeq(S)) = S
<1> DEFINE n == Cardinality(S)
           f == SetToSeq(S)
<1>1. n \in Nat /\ ExistsBijection(1..n, S)
  BY FS_CardinalityType
<1>2. \E g \in [1..n -> S] : IsInjective(g)
  BY <1>1 DEF ExistsBijection, Bijection, Injection, IsInjective
<1>3. f \in [1..n -> S] /\ IsInjective(f)
  BY <1>2 DEF SetToSeq
<1> HIDE DEF f
<1>4. Range(f) \subseteq S /\ f \in Bijection(1..n, Range(f))
  BY <1>3 DEF Range, Bijection, Injection, Surjection, IsInjective
<1>5. Cardinality(1..n) = n /\ IsFiniteSet(1..n)
  BY <1>1, FS_Interval
<1>6. Cardinality(Range(f)) = n
  <2>1. ExistsBijection(1..n, Range(f))
    BY <1>4 DEF ExistsBijection
  <2> QED BY <2>1, <1>5, FS_Bijection
<1>7. Range(f) = S
  BY <1>4, <1>6, FS_Subset
<1>8. f \in Seq(S)
  BY <1>1, <1>3, SeqDef
<1> QED BY <1>7, <1>8 DEF f

\* The second walk of a Python file starts from what others need of it.
LEMMA AugmentFileKeeps ==
  ASSUME IInv, AugmentFile
  PROVE  IInv'
<1>1. /\ stage = "augment" /\ ~AtEnd /\ Generated(File) /\ stage' = "extra"
      /\ Start(collectPythonTypeGraphFromRefs(extraRefs[File]))
      /\ UNCHANGED <<fields, project, params, opts, next, models, extraRefs, outputs>>
  BY DEF AugmentFile, ToCollect
<1>2. ProjectKnown /\ next \in 1..Len(Files) /\ Len(Files) \in Nat /\ opts.lang = "python"
  BY <1>1, ProjectFacts DEF IInv, Position, AtEnd
<1>3. Files' = Files /\ File' = File
  BY <1>1 DEF Files, File
<1>4. ProjectKnown'
  BY <1>1, <1>2 DEF ProjectKnown
<1>5. OptionsRead'
  BY <1>1 DEF IInv, OptionsRead, Running
<1>6. Position'
  BY <1>1, <1>2, <1>3 DEF IInv, Position, Generated
<1>7. ModelsCollected'
  BY <1>1, <1>3, ModelsKept DEF IInv, ModelsCollected
<1>8. Walking'
  <2>1. PICK refs : refs = extraRefs[File]
    OBVIOUS
  <2>2. refs \subseteq Types
    BY <1>1, <1>2, <2>1 DEF Generated, IInv, NeedsKnown
  <2>3. IsFiniteSet(refs)
    BY <2>2, TypesAssumption, FS_Subset
  <2>4. PICK types : types = SetToSeq(refs)
    OBVIOUS
  <2>5. types \in Seq(refs) /\ Range(types) = refs
    BY <2>3, <2>4, SetAsSequence
  <2>6. types \in Seq(Types \cup WellKnown)
    BY <2>2, <2>5, SeqMonotonic
  <2>7. Start(types)
    BY <1>1, <2>1, <2>4 DEF collectPythonTypeGraphFromRefs
  <2>8. Walk(Range(types))'
    BY <2>6, <2>7, WalkStarts
  <2>9. extraRefs'[File'] = Range(types)
    BY <1>1, <1>3, <2>1, <2>5
  <2>10. Walk(extraRefs[File])'
    BY <2>8, <2>9 DEF Walk, Needed
  <2> QED BY <1>1, <2>10 DEF Walking
<1>9. NeedsKnown'
  <2>1. Past' = Past
    BY <1>1, <1>3 DEF Past
  <2>2. \A f : TypesListed(f)' = TypesListed(f)
    BY <1>1 DEF TypesListed
  <2> QED BY <1>1, <2>1, <2>2 DEF IInv, NeedsKnown
<1>10. FilesWritten'
  BY <1>1 DEF IInv, FilesWritten
<1> QED BY <1>4, <1>5, <1>6, <1>7, <1>8, <1>9, <1>10 DEF IInv

\* Two graphs of one file whose names do not clash.
LEMMA GraphsMerged ==
  ASSUME NEW f, NEW base, NEW extra, IsGraph(base), IsGraph(extra), ~extra.failed,
         Closed(Range(base.types)), Closed(Range(extra.types)),
         \A t, u \in Current(f, base) : SameName(t, u) => t = u,
         \A t, u \in Range(extra.types) : SameName(t, u) => t = u,
         ~mergePythonTypeGraphs(f, base, extra).failed
  PROVE  /\ IsGraph(mergePythonTypeGraphs(f, base, extra))
         /\ Range(mergePythonTypeGraphs(f, base, extra).types) = Range(base.types) \cup Range(extra.types)
         /\ Closed(Range(mergePythonTypeGraphs(f, base, extra).types))
         /\ \A t, u \in Current(f, mergePythonTypeGraphs(f, base, extra)) : SameName(t, u) => t = u
<1> DEFINE clash == \E t \in Current(f, extra), u \in Current(f, base) :
                      t # u /\ pythonPublicTypeName(t) = pythonPublicTypeName(u)
           fails == extra.failed \/ clash
           imports == base.imports \o Only(extra.imports, Range(extra.imports) \ Range(base.imports))
           types == base.types \o Only(extra.types, Range(extra.types) \ Range(base.types))
           m == mergePythonTypeGraphs(f, base, extra)
<1>1. m = [base EXCEPT !.imports = imports, !.types = types, !.failed = fails]
  BY DEF mergePythonTypeGraphs
<1>2. imports \in Seq(Folder)
  <2>1. base.imports \in Seq(Folder) /\ extra.imports \in Seq(Folder)
    BY DEF IsGraph
  <2>2. Only(extra.imports, Range(extra.imports) \ Range(base.imports)) \in Seq(Folder)
    BY <2>1, OnlyElements
  <2> QED BY <2>1, <2>2, ConcatProperties
<1>3. types \in Seq(Types) /\ Range(types) = Range(base.types) \cup Range(extra.types)
  <2> DEFINE new == Only(extra.types, Range(extra.types) \ Range(base.types))
  <2>1. base.types \in Seq(Types) /\ extra.types \in Seq(Types)
    BY DEF IsGraph
  <2>2. new \in Seq(Types) /\ Range(new) = Range(extra.types) \cap (Range(extra.types) \ Range(base.types))
    BY <2>1, OnlyElements
  <2>3. types = base.types \o new
    OBVIOUS
  <2> HIDE DEF new, types
  <2>4. types \in Seq(Types)
    BY <2>1, <2>2, <2>3, ConcatProperties
  <2>5. Range(types) = Range(base.types) \cup Range(new)
    BY <2>1, <2>2, <2>3, RangeConcatenation
  <2> QED BY <2>2, <2>4, <2>5
<1>4. fails \in BOOLEAN
  BY DEF IsGraph
<1> HIDE DEF imports, types, fails, m
<1>5. m = [seen |-> base.seen, imports |-> imports, types |-> types, names |-> base.names, failed |-> fails]
  <2>1. base = [seen |-> base.seen, imports |-> base.imports, types |-> base.types, names |-> base.names,
                failed |-> base.failed]
    BY DEF IsGraph
  <2> DEFINE one == [base EXCEPT !.imports = imports]
             two == [one EXCEPT !.types = types]
  <2>2. one = [seen |-> base.seen, imports |-> imports, types |-> base.types, names |-> base.names,
               failed |-> base.failed]
    BY <2>1
  <2>3. [base EXCEPT !.imports = imports, !.types = types, !.failed = fails] = [two EXCEPT !.failed = fails]
    OBVIOUS
  <2> HIDE DEF one
  <2>4. two = [seen |-> base.seen, imports |-> imports, types |-> types, names |-> base.names,
               failed |-> base.failed]
    BY <2>2
  <2> HIDE DEF two
  <2>5. [two EXCEPT !.failed = fails] =
          [seen |-> base.seen, imports |-> imports, types |-> types, names |-> base.names, failed |-> fails]
    BY <2>4
  <2> QED BY <1>1, <2>3, <2>5
<1>6. m.seen = base.seen /\ m.imports = imports /\ m.types = types /\ m.failed = fails
  BY <1>5
<1>7. IsGraph(m)
  BY <1>2, <1>3, <1>4, <1>5, <1>6 DEF IsGraph
<1>8. Closed(Range(m.types))
  BY <1>3, <1>6 DEF Closed
<1>9. ~clash
  BY <1>6 DEF fails, m
<1>10. \A t, u \in Current(f, m) : SameName(t, u) => t = u
  BY <1>3, <1>6, <1>9 DEF Current, SameName
<1>11. /\ IsGraph(m) /\ Range(m.types) = Range(base.types) \cup Range(extra.types) /\ Closed(Range(m.types))
       /\ \A t, u \in Current(f, m) : SameName(t, u) => t = u
  BY <1>3, <1>6, <1>7, <1>8, <1>10
<1> QED BY <1>11 DEF m

\* Then its module has what others need of it, and still no name twice.
LEMMA AugmentedFileKeeps ==
  ASSUME IInv, AugmentedFile
  PROVE  IInv'
<1> DEFINE merged == mergePythonTypeGraphs(File, models[File].graph, graph)
           model == augmentPythonModelWithCurrentTypeRefs(File, models[File])
<1>1. CASE Fail
  BY <1>1, FailKeeps
<1>2. CASE ~Fail
  <2>1. /\ stage = "extra" /\ Collected /\ ~model.graph.failed
        /\ models' = [models EXCEPT ![File] = model]
        /\ stage' = "augment" /\ next' = next + 1
        /\ UNCHANGED <<fields, project, params, opts, extraRefs, outputs, collector>>
    BY <1>2 DEF AugmentedFile
  <2>2. /\ ProjectKnown /\ next \in 1..Len(Files) /\ Len(Files) \in Nat
        /\ File \in project.generate /\ opts.lang = "python"
        /\ DOMAIN models = project.generate
        /\ Walk(extraRefs[File]) /\ IsModel(File, models[File]) /\ ~models[File].graph.failed
    BY <2>1, ProjectFacts DEF IInv, Position, Generated, ModelsCollected, Walking
  <2> DEFINE old == models[File]
  <2>3. /\ model = [tools |-> old.tools, prompts |-> old.prompts, resources |-> old.resources, graph |-> merged]
    <3>1. model = [old EXCEPT !.graph = merged]
      BY DEF augmentPythonModelWithCurrentTypeRefs
    <3>2. old = [tools |-> old.tools, prompts |-> old.prompts, resources |-> old.resources, graph |-> old.graph]
      BY <2>2 DEF IsModel
    <3> HIDE DEF old, model, merged
    <3> QED BY <3>1, <3>2
  <2>4. model.tools = old.tools /\ model.prompts = old.prompts /\ model.resources = old.resources
        /\ model.graph = merged
    <3> HIDE DEF model, merged, old
    <3> QED BY <2>3
  <2> HIDE DEF model
  <2>5. ~merged.failed
    BY <2>1, <2>4
  <2>6. \A S : Closed(S) <=> \A t \in S : Below(t) \cap Types \subseteq S
    BY DEF Closed
  <2>7. IsGraph(graph) /\ graph.types \in Seq(Types)
    BY <2>2 DEF Walk, IsWalk, IsGraph
  <2>8. ~graph.failed
    <3> DEFINE fails == graph.failed \/ \E t \in Current(File, graph), u \in Current(File, old.graph) :
                          t # u /\ pythonPublicTypeName(t) = pythonPublicTypeName(u)
    <3>1. merged = [old.graph EXCEPT
                      !.imports = @ \o Only(graph.imports, Range(graph.imports) \ Range(old.graph.imports)),
                      !.types = @ \o Only(graph.types, Range(graph.types) \ Range(old.graph.types)),
                      !.failed = fails]
      BY DEF mergePythonTypeGraphs
    <3>2. "failed" \in DOMAIN old.graph
      BY <2>2 DEF IsModel, IsGraph
    <3>3. \A i, t, b : [old.graph EXCEPT !.imports = i, !.types = t, !.failed = b].failed = b
      BY <3>2
    <3> HIDE DEF fails, merged
    <3>4. merged.failed = fails
      BY <3>1, <3>3
    <3> QED BY <2>5, <3>4 DEF fails
  <2>9. /\ Range(graph.types) = Reachable(extraRefs[File]) /\ Closed(Range(graph.types))
        /\ \A t, u \in Range(graph.types) : SameName(t, u) => t = u
    BY <2>1, <2>2, <2>8, WalkEnds
  <2>10. /\ IsGraph(merged) /\ Range(merged.types) = Range(old.graph.types) \cup Range(graph.types)
         /\ Closed(Range(merged.types))
         /\ \A t, u \in Current(File, merged) : SameName(t, u) => t = u
    <3>1. /\ IsGraph(old.graph) /\ Closed(Range(old.graph.types))
          /\ \A t, u \in Current(File, old.graph) : SameName(t, u) => t = u
      BY <2>2 DEF IsModel
    <3>2. PICK f, base, extra : f = File /\ base = old.graph /\ extra = graph
      OBVIOUS
    <3>3. merged = mergePythonTypeGraphs(f, base, extra)
      BY <3>2
    <3> HIDE DEF merged, old
    <3>4. /\ IsGraph(base) /\ IsGraph(extra) /\ ~extra.failed /\ ~mergePythonTypeGraphs(f, base, extra).failed
          /\ Closed(Range(base.types)) /\ Closed(Range(extra.types))
          /\ \A t, u \in Current(f, base) : SameName(t, u) => t = u
          /\ \A t, u \in Range(extra.types) : SameName(t, u) => t = u
      BY <2>5, <2>7, <2>8, <2>9, <3>1, <3>2, <3>3
    <3> DEFINE m == mergePythonTypeGraphs(f, base, extra)
    <3>5. /\ IsGraph(m) /\ Range(m.types) = Range(base.types) \cup Range(extra.types)
          /\ Closed(Range(m.types)) /\ \A t, u \in Current(f, m) : SameName(t, u) => t = u
      BY <3>4, GraphsMerged
    <3> HIDE DEF m
    <3>6. merged = m
      BY <3>3 DEF m
    <3> QED BY <3>2, <3>5, <3>6
  <2>11. IsModel(File, model)
    <3> HIDE DEF merged
    <3> QED BY <2>2, <2>3, <2>4, <2>10 DEF IsModel
  <2>12. Files' = Files
    BY <2>1 DEF Files
  <2>13. ProjectKnown'
    BY <2>1, <2>2 DEF ProjectKnown
  <2>14. OptionsRead'
    BY <2>1 DEF IInv, OptionsRead, Running
  <2>15. Position'
    BY <2>1, <2>2, <2>12 DEF IInv, Position
  <2>16. /\ models' = [f \in DOMAIN models |-> IF f = File THEN model ELSE models[f]]
         /\ models'[File] = model /\ \A f \in project.generate : f # File => models'[f] = models[f]
         /\ DOMAIN models' = project.generate
    BY <2>1, <2>2
  <2>17. ModelsCollected'
    <3>1. ASSUME NEW f \in project.generate
          PROVE  IsModel(f, models[f])' /\ ~Flawed(f)' /\ ~models'[f].graph.failed
      <4>1. PICK n : n = models'[f]
        OBVIOUS
      <4>2. IsModel(f, n) /\ ~n.graph.failed
        BY <4>1, <2>1, <2>2, <2>11, <2>16 DEF IInv, ModelsCollected
      <4>3. IsModel(f, n)'
        BY <4>2, <2>1, Fixed
      <4>4. ~Flawed(f)'
        BY <2>1, <2>2, Fixed DEF IInv, ModelsCollected
      <4>5. IsModel(f, models[f])'
        BY <4>1, <4>3 DEF IsModel
      <4> QED BY <4>1, <4>2, <4>4, <4>5
    <3> QED BY <2>1, <2>16, <3>1 DEF ModelsCollected
  <2>18. Walking'
    BY <2>1 DEF Walking
  <2>19. NeedsKnown'
    <3>1. /\ DOMAIN extraRefs = project.generate
          /\ \A c \in project.generate :
               /\ extraRefs[c] \subseteq {t \in Types : FileOf[t] = c}
               /\ extraRefs[c] \subseteq UNION {TypesListed(f) : f \in project.generate}
               /\ c \in Past => extraRefs[c] \subseteq TypesListed(c)
          /\ \A f \in project.generate : \A t \in TypesListed(f) :
               FileOf[t] \in project.generate => t \in extraRefs[FileOf[t]] \cup TypesListed(FileOf[t])
      BY <2>1, <2>2 DEF IInv, NeedsKnown
    <3>2. Past' = Past \cup {File}
      <4>1. {Files[i] : i \in 1..next' - 1} = {Files[i] : i \in 1..next - 1} \cup {File}
        BY <2>1, <2>2, NextFile
      <4> QED BY <4>1, <2>1, <2>12 DEF Past
    <3>3. PICK cur : cur = File
      OBVIOUS
    <3>4. /\ cur \in project.generate
          /\ TypesListed(cur)' = TypesListed(cur) \cup Range(graph.types)
          /\ \A f \in project.generate : f # cur => TypesListed(f)' = TypesListed(f)
      BY <2>2, <2>4, <2>10, <2>16, <3>3 DEF TypesListed
    <3>5. \A f \in project.generate : TypesListed(f) \subseteq TypesListed(f)'
      BY <3>4
    <3> DEFINE All == UNION {TypesListed(f) : f \in project.generate}
    <3>6. All \subseteq UNION {TypesListed(f)' : f \in project.generate}
      BY <3>5
    <3>7. extraRefs[cur] \subseteq Range(graph.types)
      <4>1. extraRefs[cur] \subseteq Types
        BY <3>1, <3>4
      <4> QED BY <4>1, <2>9, <3>3 DEF Reachable
    <3>8. Range(graph.types) \subseteq All
      <4>1. All \in SUBSET Types /\ Closed(All)
        <5>1. ASSUME NEW f \in project.generate
              PROVE  TypesListed(f) \subseteq Types /\ Closed(TypesListed(f))
          <6>1. models[f].graph.types \in Seq(Types) /\ Closed(TypesListed(f))
            BY <2>2 DEF IInv, ModelsCollected, IsModel, IsGraph, TypesListed
          <6> QED BY <6>1, RangeOfSeq DEF TypesListed
        <5> QED BY <5>1 DEF Closed
      <4>2. extraRefs[File] \cap Types \subseteq All
        BY <3>1, <3>3, <3>4
      <4> HIDE DEF All
      <4> QED BY <4>1, <4>2, <2>9 DEF Reachable
    <3>9. ASSUME NEW f \in project.generate, NEW t \in TypesListed(f)', FileOf[t] \in project.generate
          PROVE  t \in extraRefs[FileOf[t]] \cup TypesListed(FileOf[t])'
      <4>1. PICK g \in project.generate : t \in TypesListed(g)
        <5>1. CASE t \in TypesListed(f)
          BY <5>1
        <5>2. CASE t \notin TypesListed(f)
          <6>1. t \in Range(graph.types)
            BY <5>2, <3>4, <3>9
          <6> QED BY <6>1, <3>8
        <5> QED BY <5>1, <5>2
      <4>2. t \in extraRefs[FileOf[t]] \cup TypesListed(FileOf[t])
        BY <4>1, <3>1, <3>9
      <4> QED BY <4>2, <3>5, <3>9
    <3>10. ASSUME NEW c \in project.generate
           PROVE  /\ extraRefs[c] \subseteq {t \in Types : FileOf[t] = c}
                  /\ extraRefs[c] \subseteq UNION {TypesListed(f)' : f \in project.generate}
                  /\ c \in Past' => extraRefs[c] \subseteq TypesListed(c)'
      <4>1. c \in Past' => extraRefs[c] \subseteq TypesListed(c)'
        BY <3>1, <3>2, <3>3, <3>4, <3>5, <3>7
      <4> QED BY <3>1, <3>6, <4>1
    <3> HIDE DEF All
    <3> QED BY <2>1, <3>1, <3>9, <3>10 DEF NeedsKnown
  <2>20. FilesWritten'
    BY <2>1 DEF IInv, FilesWritten
  <2> QED BY <2>13, <2>14, <2>15, <2>17, <2>18, <2>19, <2>20 DEF IInv
<1> QED BY <1>1, <1>2

\* After the last file every module has what the others need.
LEMMA AugmentedKeeps ==
  ASSUME IInv, Augmented
  PROVE  IInv'
<1>1. /\ stage = "augment" /\ AtEnd /\ stage' = "render" /\ next' = 1
      /\ UNCHANGED <<fields, project, params, opts, models, extraRefs, outputs, collector>>
  BY DEF Augmented
<1>2. /\ ProjectKnown /\ next = Len(Files) + 1 /\ Len(Files) \in Nat /\ opts.lang = "python"
      /\ Range(Files) = {Files[i] : i \in 1..Len(Files)}
  BY <1>1, ProjectFacts DEF IInv, Position, AtEnd
<1>3. Files' = Files /\ ProjectKnown'
  BY <1>1, <1>2 DEF Files, ProjectKnown
<1>4. OptionsRead'
  BY <1>1 DEF IInv, OptionsRead, Running
<1>5. Position'
  BY <1>1, <1>2, <1>3 DEF IInv, Position
<1>6. ModelsCollected'
  BY <1>1, ModelsKept DEF IInv, ModelsCollected
<1>7. Walking'
  BY <1>1 DEF Walking
<1>8. NeedsKnown'
  <2>1. Past' = Past
    <3>1. next - 1 = Len(Files)
      BY <1>2
    <3> QED BY <1>1, <1>2, <1>3, <3>1 DEF Past
  <2>2. \A f : TypesListed(f)' = TypesListed(f)
    BY <1>1 DEF TypesListed
  <2> QED BY <1>1, <2>1, <2>2 DEF IInv, NeedsKnown
<1>9. FilesWritten'
  <2>1. \A p \in DOMAIN outputs : outputs[p].uses = {}
    BY <1>1 DEF IInv, FilesWritten
  <2>2. {Files'[i] : i \in 1..next' - 1} = {}
    BY <1>1
  <2> QED BY <1>1, <2>1, <2>2 DEF IInv, FilesWritten
<1> QED BY <1>3, <1>4, <1>5, <1>6, <1>7, <1>8, <1>9 DEF IInv

\* Two handlers write two modules, and the dataclasses are in the one without a suffix.
LEMMA HandlerPaths ==
  ASSUME opts.lang = "python", Range(opts.handlers) \subseteq {"dataclass", "protobuf"}, NEW f,
         "dataclass" \in pythonHandlers, NEW h \in pythonHandlers
  PROVE  /\ pythonOutputPath(f, "dataclass") = <<f, "mcp">>
         /\ pythonOutputPath(f, h) = <<f, "mcp">> => h = "dataclass"
<1>1. pythonHandlers = Range(opts.handlers)
  BY DEF pythonHandlers
<1>2. CASE h = "dataclass"
  BY <1>2 DEF pythonOutputPath
<1>3. CASE h = "protobuf"
  <2>1. pythonHandlers = {"dataclass"} \cup {"protobuf"}
    BY <1>1, <1>3
  <2>2. IsFiniteSet({"dataclass"}) /\ Cardinality({"dataclass"}) = 1
    BY FS_Singleton
  <2>3. Cardinality({"dataclass"} \cup {"protobuf"}) = 2
    BY <2>2, FS_AddElement
  <2>4. Cardinality(pythonHandlers) > 1
    BY <2>1, <2>3
  <2> HIDE DEF pythonHandlers
  <2> QED BY <2>4, <1>3 DEF pythonOutputPath
<1> QED BY <1>1, <1>2, <1>3

\* A Python file defines what is its own and refers to what is not.
LEMMA RenderPythonKeeps ==
  ASSUME IInv, RenderPython
  PROVE  IInv'
<1> DEFINE needed == {h \in pythonHandlers : Generated(File) /\ pythonModelRequiresOutput(File, h)}
           paths == {pythonOutputPath(File, h) : h \in needed}
           at(p) == CHOOSE h \in needed : pythonOutputPath(File, h) = p
<1>1. CASE Fail
  BY <1>1, FailKeeps
<1>2. CASE ~Fail
  <2>1. /\ stage = "render" /\ ~AtEnd /\ opts.lang = "python" /\ next' = next + 1
        /\ outputs' = [p \in paths \cup DOMAIN outputs |->
                         IF p \in paths THEN PythonModule(File, at(p)) ELSE outputs[p]]
        /\ UNCHANGED <<fields, project, params, opts, stage, models, extraRefs, collector>>
    BY <1>2 DEF RenderPython
  <2>2. /\ ProjectKnown /\ next \in 1..Len(Files) /\ Len(Files) \in Nat
        /\ Range(opts.handlers) \subseteq {"dataclass", "protobuf"} /\ DOMAIN models = project.generate
    BY <2>1, ProjectFacts DEF IInv, Position, AtEnd, OptionsRead, Running, ModelsCollected
  <2>3. Files' = Files /\ ProjectKnown'
    BY <2>1, <2>2 DEF Files, ProjectKnown
  <2>4. OptionsRead'
    BY <2>1 DEF IInv, OptionsRead, Running
  <2>5. Position'
    BY <2>1, <2>2, <2>3 DEF IInv, Position
  <2>6. ModelsCollected'
    BY <2>1, ModelsKept DEF IInv, ModelsCollected
  <2>7. Walking'
    BY <2>1 DEF Walking
  <2>8. NeedsKnown'
    <3>1. Past' = Past
      BY <2>1, <2>3 DEF Past
    <3>2. \A f : TypesListed(f)' = TypesListed(f)
      BY <2>1 DEF TypesListed
    <3> QED BY <2>1, <3>1, <3>2 DEF IInv, NeedsKnown
  <2>9. FilesWritten'
    <3>1. /\ \A p \in DOMAIN outputs : \A a, b \in outputs[p].defines : a.name = b.name => a = b
          /\ \A p \in DOMAIN outputs :
               \/ outputs[p].uses = {}
               \/ /\ "dataclass" \in pythonHandlers
                  /\ \E f \in project.generate : outputs[p].uses = Foreign(f, models[f].graph)
          /\ "dataclass" \in pythonHandlers =>
               \A f \in {Files[i] : i \in 1..next - 1} : Generated(f) /\ Current(f, models[f].graph) # {} =>
                 <<f, "mcp">> \in DOMAIN outputs /\ outputs[<<f, "mcp">>] = PythonModule(f, "dataclass")
      BY <2>1 DEF IInv, FilesWritten
    <3>2. \A p \in paths : at(p) \in needed /\ pythonOutputPath(File, at(p)) = p
      OBVIOUS
    <3>3. needed # {} => File \in project.generate
      BY DEF Generated
    <3>4. ASSUME File \in project.generate, NEW h
          PROVE  \A a, b \in PythonModule(File, h).defines : a.name = b.name => a = b
      <4>1. \A t, u \in Current(File, models[File].graph) : SameName(t, u) => t = u
        BY <2>1, <2>2, <3>4 DEF IInv, ModelsCollected, IsModel
      <4>2. \A t \in Current(File, models[File].graph) : FileOf[t] = File
        BY DEF Current
      <4> QED BY <4>1, <4>2 DEF PythonModule, TypeName, SameName
    <3>5. \A h : PythonModule(File, h).uses = {} \/ (h = "dataclass" /\ PythonModule(File, h).uses =
                                                                   Foreign(File, models[File].graph))
      BY DEF PythonModule
    <3>6. pythonHandlers' = pythonHandlers
      BY <2>1 DEF pythonHandlers
    <3>7. \A f : PythonModule(f, "dataclass")' = PythonModule(f, "dataclass")
      BY <2>1 DEF PythonModule, Current, Foreign
    <3>8. needed \subseteq pythonHandlers
      OBVIOUS
    <3>9. {Files[i] : i \in 1..next' - 1} = {Files[i] : i \in 1..next - 1} \cup {File}
          /\ File \notin {Files[i] : i \in 1..next - 1}
      BY <2>1, <2>2, NextFile
    <3>10. \A f, s : <<f, s>> \in paths => f = File
      BY DEF pythonOutputPath
    <3>11. ASSUME "dataclass" \in pythonHandlers, Generated(File), Current(File, models[File].graph) # {}
           PROVE  <<File, "mcp">> \in paths /\ at(<<File, "mcp">>) = "dataclass"
      <4>1. "dataclass" \in needed
        BY <3>11 DEF pythonModelRequiresOutput
      <4>2. <<File, "mcp">> \in paths
        BY <2>1, <2>2, <3>11, <4>1, HandlerPaths
      <4>3. at(<<File, "mcp">>) \in needed /\ pythonOutputPath(File, at(<<File, "mcp">>)) = <<File, "mcp">>
        BY <3>2, <4>2
      <4> HIDE DEF at, paths
      <4>4. at(<<File, "mcp">>) = "dataclass"
        BY <2>1, <2>2, <3>8, <3>11, <4>3, HandlerPaths
      <4> QED BY <4>2, <4>4
    <3> HIDE DEF at, paths, needed
    <3>12. DOMAIN outputs' = paths \cup DOMAIN outputs
      BY <2>1
    <3>13. \A p \in DOMAIN outputs' : outputs'[p] = IF p \in paths THEN PythonModule(File, at(p)) ELSE outputs[p]
      BY <2>1
    <3>14. \A p \in DOMAIN outputs' : \A a, b \in outputs'[p].defines : a.name = b.name => a = b
      BY <3>1, <3>2, <3>3, <3>4, <3>12, <3>13
    <3>15. \A p \in DOMAIN outputs' :
             \/ outputs'[p].uses = {}
             \/ /\ "dataclass" \in pythonHandlers
                /\ \E f \in project.generate : outputs'[p].uses = Foreign(f, models[f].graph)
      BY <3>1, <3>2, <3>3, <3>5, <3>8, <3>12, <3>13
    <3>16. ASSUME "dataclass" \in pythonHandlers, NEW f \in {Files[i] : i \in 1..next' - 1},
                  Generated(f), Current(f, models[f].graph) # {}
           PROVE  <<f, "mcp">> \in DOMAIN outputs' /\ outputs'[<<f, "mcp">>] = PythonModule(f, "dataclass")
      <4>1. CASE f = File
        BY <3>11, <3>12, <3>13, <3>16, <4>1
      <4>2. CASE f # File
        <5>1. f \in {Files[i] : i \in 1..next - 1}
          BY <3>9, <3>16, <4>2
        <5>2. <<f, "mcp">> \in DOMAIN outputs /\ outputs[<<f, "mcp">>] = PythonModule(f, "dataclass")
          BY <3>1, <3>16, <5>1
        <5>3. <<f, "mcp">> \notin paths
          BY <3>10, <4>2
        <5> QED BY <3>12, <3>13, <5>2, <5>3
      <4> QED BY <4>1, <4>2
    <3>17. \A f : /\ Current(f, models[f].graph)' = Current(f, models[f].graph)
                  /\ Foreign(f, models[f].graph)' = Foreign(f, models[f].graph)
                  /\ Generated(f)' = Generated(f)
      BY <2>1 DEF Current, Foreign, Generated
    <3>18. /\ \A p \in DOMAIN outputs' : \/ outputs'[p].uses = {}
                                         \/ /\ "dataclass" \in pythonHandlers'
                                            /\ \E f \in project'.generate :
                                                 outputs'[p].uses = Foreign(f, models[f].graph)'
           /\ "dataclass" \in pythonHandlers' =>
                \A f \in {Files'[i] : i \in 1..next' - 1} :
                  Generated(f)' /\ Current(f, models[f].graph)' # {} =>
                    <<f, "mcp">> \in DOMAIN outputs' /\ outputs'[<<f, "mcp">>] = PythonModule(f, "dataclass")'
      <4>1. ASSUME NEW p \in DOMAIN outputs'
            PROVE  \/ outputs'[p].uses = {}
                   \/ /\ "dataclass" \in pythonHandlers'
                      /\ \E f \in project'.generate : outputs'[p].uses = Foreign(f, models[f].graph)'
        BY <2>1, <3>6, <3>15, <3>17
      <4>2. ASSUME "dataclass" \in pythonHandlers', NEW f \in {Files'[i] : i \in 1..next' - 1},
                   Generated(f)', Current(f, models[f].graph)' # {}
            PROVE  <<f, "mcp">> \in DOMAIN outputs' /\ outputs'[<<f, "mcp">>] = PythonModule(f, "dataclass")'
        <5>1. /\ "dataclass" \in pythonHandlers /\ f \in {Files[i] : i \in 1..next' - 1} /\ Generated(f)
              /\ Current(f, models[f].graph) # {}
          BY <2>3, <3>6, <3>17, <4>2
        <5>2. PythonModule(f, "dataclass")' = PythonModule(f, "dataclass")
          BY <3>7
        <5> QED BY <3>16, <5>1, <5>2
      <4> QED BY <4>1, <4>2
    <3> QED BY <2>1, <3>14, <3>18 DEF FilesWritten, Current, Foreign
  <2> QED BY <2>3, <2>4, <2>5, <2>6, <2>7, <2>8, <2>9 DEF IInv
<1> QED BY <1>1, <1>2

\* A file in another language that is written.
LEMMA RenderKeeps ==
  ASSUME IInv, Render
  PROVE  IInv'
<1>1. /\ stage = "render" /\ ~AtEnd /\ opts.lang # "python" /\ next' = next + 1
      /\ outputs' = IF Generated(File) /\ Callable(models[File])
                      THEN Set(outputs, <<File, "mcp">>, [defines |-> {}, uses |-> {}])
                      ELSE outputs
      /\ UNCHANGED <<fields, project, params, opts, stage, models, extraRefs, collector>>
  BY DEF Render
<1>2. ProjectKnown /\ next \in 1..Len(Files) /\ Len(Files) \in Nat
  BY <1>1, ProjectFacts DEF IInv, Position, AtEnd
<1>3. Files' = Files /\ ProjectKnown'
  BY <1>1, <1>2 DEF Files, ProjectKnown
<1>4. OptionsRead'
  BY <1>1 DEF IInv, OptionsRead, Running
<1>5. Position'
  BY <1>1, <1>2, <1>3 DEF IInv, Position
<1>6. ModelsCollected'
  BY <1>1, ModelsKept DEF IInv, ModelsCollected
<1>7. Walking' /\ NeedsKnown'
  BY <1>1 DEF Walking, NeedsKnown
<1>8. FilesWritten'
  <2>1. \A p \in DOMAIN outputs' : \/ p \in DOMAIN outputs /\ outputs'[p] = outputs[p]
                                   \/ outputs'[p] = [defines |-> {}, uses |-> {}]
    BY <1>1 DEF Set
  <2> QED BY <1>1, <2>1 DEF IInv, FilesWritten
<1> QED BY <1>3, <1>4, <1>5, <1>6, <1>7, <1>8 DEF IInv

\* The end of a run.
LEMMA RenderedKeeps ==
  ASSUME IInv, Rendered
  PROVE  IInv'
<1>1. /\ stage = "render" /\ AtEnd /\ stage' = "done"
      /\ UNCHANGED <<fields, project, params, opts, next, models, extraRefs, outputs, collector>>
  BY DEF Rendered
<1>2. ProjectKnown /\ next = Len(Files) + 1 /\ Len(Files) \in Nat
  BY <1>1, ProjectFacts DEF IInv, Position, AtEnd
<1>3. Files' = Files /\ ProjectKnown'
  BY <1>1, <1>2 DEF Files, ProjectKnown
<1>4. OptionsRead'
  BY <1>1 DEF IInv, OptionsRead, Running
<1>5. Position'
  BY <1>1, <1>2, <1>3 DEF IInv, Position
<1>6. ModelsCollected'
  BY <1>1, ModelsKept DEF IInv, ModelsCollected
<1>7. Walking'
  BY <1>1 DEF Walking
<1>8. NeedsKnown'
  <2>1. Past' = Past
    BY <1>1, <1>3 DEF Past
  <2>2. \A f : TypesListed(f)' = TypesListed(f)
    BY <1>1 DEF TypesListed
  <2> QED BY <1>1, <2>1, <2>2 DEF IInv, NeedsKnown
<1>9. FilesWritten'
  <2>1. pythonHandlers' = pythonHandlers
    BY <1>1 DEF pythonHandlers
  <2>2. \A f : PythonModule(f, "dataclass")' = PythonModule(f, "dataclass")
    BY <1>1 DEF PythonModule, Current, Foreign
  <2> QED BY <1>1, <1>3, <2>1, <2>2 DEF IInv, FilesWritten, Current, Foreign, Generated
<1> QED BY <1>3, <1>4, <1>5, <1>6, <1>7, <1>8, <1>9 DEF IInv

\* A step of something else leaves the run as it is.
LEMMA StutterKeeps ==
  ASSUME IInv, UNCHANGED run
  PROVE  IInv'
<1>1. UNCHANGED <<fields, project, params, opts, stage, next, models, extraRefs, outputs, collector>>
  BY DEF run
<1>2. Files' = Files /\ File' = File /\ ProjectKnown'
  BY <1>1 DEF Files, File, ProjectKnown, IInv
<1>3. OptionsRead' /\ Position'
  BY <1>1, <1>2 DEF IInv, OptionsRead, Running, Position, Generated
<1>4. ModelsCollected'
  BY <1>1, <1>2, ModelsKept DEF IInv, ModelsCollected
<1>5. Walking'
  <2>1. PICK f : f = File
    OBVIOUS
  <2>2. ~Flawed(f) => ~Flawed(File)'
    <3>1. ~Flawed(f) => ~Flawed(f)'
      BY <1>1, Fixed
    <3>2. f = File'
      BY <2>1, <1>2
    <3> QED BY <3>1, <3>2 DEF Flawed
  <2>3. ASSUME stage = "types" PROVE Walk(Range(TypeRoots(File)))'
    <3>1. PICK R : R = Range(TypeRoots(File))
      OBVIOUS
    <3>2. Walk(R)'
      BY <1>1, <2>3, <3>1, WalkUnchanged DEF IInv, Walking
    <3>3. R = Range(TypeRoots(File))'
      <4>1. TypeRoots(File)' = TypeRoots(File)
        BY <1>1, RootsFixed
      <4> QED BY <3>1, <4>1
    <3> QED BY <3>2, <3>3 DEF Walk, Needed
  <2>4. ASSUME stage = "extra" PROVE Walk(extraRefs[File])'
    <3>1. PICK R : R = extraRefs[File]
      OBVIOUS
    <3>2. Walk(R)'
      BY <1>1, <2>4, <3>1, WalkUnchanged DEF IInv, Walking
    <3>3. R = extraRefs'[File']
      BY <1>1, <1>2, <3>1
    <3> QED BY <3>2, <3>3 DEF Walk, Needed
  <2> QED BY <1>1, <2>1, <2>2, <2>3, <2>4 DEF IInv, Walking
<1>6. NeedsKnown'
  BY <1>1, <1>2 DEF IInv, NeedsKnown, TypesListed, Past
<1>7. FilesWritten'
  <2>1. pythonHandlers' = pythonHandlers
    BY <1>1 DEF pythonHandlers
  <2>2. \A f : PythonModule(f, "dataclass")' = PythonModule(f, "dataclass")
    BY <1>1 DEF PythonModule, Current, Foreign
  <2> QED BY <1>1, <1>2, <2>1, <2>2 DEF IInv, FilesWritten, Current, Foreign, Generated
<1> QED BY <1>2, <1>3, <1>4, <1>5, <1>6, <1>7 DEF IInv

\* Whatever the plugin does keeps the invariant.
LEMMA StepKeeps ==
  ASSUME IInv, [Next]_run
  PROVE  IInv'
<1>1. CASE RejectParam \/ RefuseFile
  BY <1>1, FailKeeps DEF RejectParam, RefuseFile
<1>2. CASE ReadParam \/ Options \/ SkipFile \/ CollectFile \/ CollectTypes \/ CollectedFile \/ CollectedAll
  BY <1>2, ReadParamKeeps, OptionsKeeps, SkipFileKeeps, CollectFileKeeps, CollectTypesKeeps,
     CollectedFileKeeps, CollectedAllKeeps
<1>3. CASE AugmentFile \/ AugmentedFile \/ Augmented \/ RenderPython \/ Render \/ Rendered
  BY <1>3, AugmentFileKeeps, AugmentedFileKeeps, AugmentedKeeps, RenderPythonKeeps, RenderKeeps, RenderedKeeps
<1>4. CASE UNCHANGED run
  BY <1>4, StutterKeeps
<1> QED BY <1>1, <1>2, <1>3, <1>4 DEF Next, Generate

\* At every step of a run the options, the position in the files, the models collected so
\* far, the walk under way, what files need of each other and what was written agree.
THEOREM RunInvariant == Spec => []IInv
<1>1. Init => IInv
  BY InitKeeps
<1>2. IInv /\ [Next]_run => IInv'
  BY StepKeeps
<1> QED BY <1>1, <1>2, PTL DEF Spec

\* A walk of collectMessage and collectEnum that does not fail has listed every message and
\* enum that can be reached from where it started, each once, and nothing else: the set of
\* types seen, which cuts the recursion off, never hides one that is still to be listed.
THEOREM CollectsEveryType == Spec => []CollectsReachable
<1>1. IInv => CollectsReachable
  BY WalkEnds DEF IInv, Walking, CollectsReachable
<1> QED BY <1>1, RunInvariant, PTL

RecursionBounded == stage \in {"types", "extra"} => Len(frames) <= Cardinality(Types)

\* The recursion of collectMessage is never deeper than there are messages and enums,
\* however they refer to each other.
THEOREM RecursionDepth == Spec => []RecursionBounded
<1>1. IInv => RecursionBounded
  BY WalkDepth DEF IInv, Walking, RecursionBounded
<1> QED BY <1>1, RunInvariant, PTL

\* No Python module defines a name twice: the collectors look for clashes as they go, and
\* mergePythonTypeGraphs looks again at the types it adds for other files.
THEOREM NamesDistinct == Spec => []TypeNamesDistinct
<1>1. IInv => TypeNamesDistinct
  BY DEF IInv, FilesWritten, TypeNamesDistinct
<1> QED BY <1>1, RunInvariant, PTL

\* The classes that a module imports from another one of the run are in a module that was
\* written: the second pass (augmentPythonModelWithCurrentTypeRefs) leaves nothing out, and
\* pythonModelRequiresOutput has a file written for its types alone.
THEOREM UsesDefined == Spec => []PublicTypesDefined
<1>1. IInv => PublicTypesDefined
  <2> SUFFICES ASSUME IInv, stage = "done", NEW p \in DOMAIN outputs, NEW t \in outputs[p].uses,
                      Generated(FileOf[t])
               PROVE  /\ <<FileOf[t], "mcp">> \in DOMAIN outputs
                      /\ TypeName(t) \in outputs[<<FileOf[t], "mcp">>].defines
    BY DEF PublicTypesDefined
  <2>1. opts.lang = "python" /\ next = Len(Files) + 1
    <3>1. opts.lang = "python"
      BY DEF IInv, FilesWritten
    <3> QED BY <3>1 DEF IInv, Position
  <2>2. "dataclass" \in pythonHandlers /\ \E f \in project.generate : outputs[p].uses = Foreign(f, models[f].graph)
    BY <2>1 DEF IInv, FilesWritten
  <2>3. PICK f \in project.generate : outputs[p].uses = Foreign(f, models[f].graph)
    BY <2>2
  <2> DEFINE c == FileOf[t]
  <2>4. c \in project.generate /\ c \in Range(Files)
    BY ProjectFacts DEF Generated, IInv
  <2>5. t \in TypesListed(c)
    <3>1. t \in TypesListed(f)
      BY <2>3 DEF Foreign, TypesListed
    <3>2. /\ t \in extraRefs[c] \cup TypesListed(c)
          /\ c \in Past => extraRefs[c] \subseteq TypesListed(c)
      BY <2>1, <2>3, <2>4, <3>1 DEF IInv, NeedsKnown
    <3>3. c \in Past
      BY <2>4 DEF Past
    <3> QED BY <3>2, <3>3
  <2>6. t \in Current(c, models[c].graph)
    BY <2>5 DEF Current, TypesListed
  <2>7. c \in {Files[i] : i \in 1..next - 1}
    <3>1. next - 1 = Len(Files)
      BY <2>1, ProjectFacts DEF IInv
    <3> QED BY <2>4, <3>1, ProjectFacts DEF IInv
  <2>8. <<c, "mcp">> \in DOMAIN outputs /\ outputs[<<c, "mcp">>] = PythonModule(c, "dataclass")
    BY <2>1, <2>2, <2>6, <2>7 DEF IInv, FilesWritten
  <2> QED BY <2>6, <2>8 DEF PythonModule
<1> QED BY <1>1, RunInvariant, PTL

-----------------------------------------------------------------------------
(* The names of tools *)

\* The recursive definition of Split has a solution: a word that is not ended and those before it.
Splitting(upTo, text, T) ==
  /\ upTo \in [0..Len(text) -> Seq(Seq(T)) \ {<<>>}]
  /\ upTo[0] = << <<>> >>
  /\ \A i \in 1..Len(text) :
       upTo[i] = IF text[i] \in Separators
                   THEN Append(upTo[i - 1], <<>>)
                   ELSE [upTo[i - 1] EXCEPT ![Len(upTo[i - 1])] = Append(@, text[i])]
  /\ Split(text) = upTo[Len(text)]

LEMMA SplitUnfolds ==
  ASSUME NEW T, NEW text \in Seq(T)
  PROVE  \E upTo : Splitting(upTo, text, T)
<1> DEFINE N == Len(text)
           S == Seq(Seq(T)) \ {<<>>}
           Step(words, i) == IF text[i] \in Separators
                               THEN Append(words, <<>>)
                               ELSE [words EXCEPT ![Len(words)] = Append(@, text[i])]
           step == [i \in 1..N |-> [words \in S |-> Step(words, i)]]
           Body(f) == [n \in 0..N |-> IF n = 0 THEN << <<>> >> ELSE Step(f[n - 1], n)]
           g == CHOOSE h : h = Body(h)
<1>1. N \in Nat /\ \A i \in 1..N : text[i] \in T
  BY LenProperties
<1>2. << <<>> >> \in S
  OBVIOUS
<1>3. ASSUME NEW words \in S, NEW i \in 1..N PROVE Step(words, i) \in S
  <2>1. words \in Seq(Seq(T)) /\ Len(words) \in 1..Len(words) /\ words[Len(words)] \in Seq(T) /\ <<>> \in Seq(T)
    BY LenProperties, EmptySeq
  <2>2. CASE text[i] \in Separators
    BY <2>1, <2>2, AppendProperties, SMTT(30)
  <2>3. CASE text[i] \notin Separators
    <3>1. Append(words[Len(words)], text[i]) \in Seq(T)
      BY <1>1, <2>1
    <3>2. PICK word \in Seq(T) : word = Append(words[Len(words)], text[i])
      BY <3>1
    <3>3. [words EXCEPT ![Len(words)] = word] \in Seq(Seq(T)) /\ Len([words EXCEPT ![Len(words)] = word]) = Len(words)
      BY <2>1, ExceptSeq
    <3>4. Len(words) # 0 /\ Len(<<>>) = 0
      BY <2>1
    <3>5. Step(words, i) = [words EXCEPT ![Len(words)] = word]
      BY <2>3, <3>2
    <3> DEFINE after == [words EXCEPT ![Len(words)] = word]
    <3> HIDE DEF Step, after
    <3>6. after \in Seq(Seq(T)) /\ Len(after) # 0 /\ Step(words, i) = after
      BY <3>3, <3>4, <3>5 DEF after
    <3> QED BY <3>4, <3>6
  <2> QED BY <2>2, <2>3
<1>4. step \in Steps(N, S)
  <2> HIDE DEF Step, S
  <2> QED BY <1>3 DEF Steps
<1>5. PICK f : Iterates(f, N, S, << <<>> >>, step)
  <2> HIDE DEF step, S
  <2> QED BY <1>1, <1>2, <1>4, Recursion
<1>6. /\ f \in [0..N -> S] /\ f[0] = << <<>> >>
      /\ \A i \in 1..N : f[i] = Step(f[i - 1], i)
  <2>1. \A i \in 1..N : i - 1 \in 0..N
    BY <1>1
  <2> HIDE DEF Step, S
  <2> QED BY <1>5, <2>1 DEF Iterates
<1>7. f = Body(f)
  <2>1. ASSUME NEW n \in 0..N PROVE f[n] = Body(f)[n]
    <3>1. n = 0 \/ n \in 1..N
      BY <1>1
    <3> HIDE DEF Step
    <3> QED BY <1>6, <3>1
  <2> HIDE DEF Step, S
  <2> QED BY <1>6, <2>1
<1>8. g = Body(g)
  <2> HIDE DEF Body
  <2> QED BY <1>7
<1>9. Split(text) = g[N]
  BY DEF Split
<1>10. g[0] = << <<>> >> /\ \A i \in 1..N : g[i] = Step(g[i - 1], i)
  <2>1. \A h : h = Body(h) => \A n \in 0..N : h[n] = IF n = 0 THEN << <<>> >> ELSE Step(h[n - 1], n)
    <3> HIDE DEF Step
    <3> QED OBVIOUS
  <2>2. 0 \in 0..N /\ \A i \in 1..N : i \in 0..N /\ i # 0
    BY <1>1
  <2> HIDE DEF Body, g, Step
  <2> QED BY <1>8, <2>1, <2>2
<1> HIDE DEF g, Step, S, N
<1>11. \A n \in 0..N : g[n] = f[n]
  <2>1. \A i \in 1..N : g[i - 1] \in S => g[i] = step[i][g[i - 1]]
    BY <1>10
  <2> HIDE DEF step
  <2> QED BY <1>1, <1>5, <1>10, <2>1, Determined, SMTT(30)
<1>12. N \in 0..N
  BY <1>1
<1> QED BY <1>6, <1>9, <1>11, <1>12 DEF Splitting, Step, S, N

Joining(upTo, words, T) ==
  /\ upTo \in [0..Len(words) -> Seq(T)]
  /\ upTo[0] = <<>>
  /\ \A i \in 1..Len(words) : upTo[i] = Joined(upTo[i - 1], words[i])
  /\ Join(words) = upTo[Len(words)]

\* Joining two texts adds at most one separator.
LEMMA JoinedText ==
  ASSUME NEW T, Underscore \in T, NEW a \in Seq(T), NEW b \in Seq(T)
  PROVE  /\ Joined(a, b) \in Seq(T) /\ (Joined(a, b) = <<>> <=> a = <<>> /\ b = <<>>)
         /\ Len(Joined(a, b)) <= Len(a) + Len(b) + (IF a = <<>> THEN 0 ELSE 1)
<1>1. <<Underscore>> \in Seq(T) /\ Len(<<Underscore>>) = 1
  OBVIOUS
<1>2. a \o <<Underscore>> \in Seq(T) /\ Len(a \o <<Underscore>>) = Len(a) + 1
  BY <1>1, ConcatProperties
<1> DEFINE c == (a \o <<Underscore>>) \o b
<1>3. c \in Seq(T) /\ Len(c) = Len(a) + 1 + Len(b)
  BY <1>2, ConcatProperties
<1>4. Len(a) \in Nat /\ Len(b) \in Nat /\ (Len(a) = 0 <=> a = <<>>) /\ Len(<<>>) = 0
  BY LenProperties, EmptySeq
<1>5. Joined(a, b) = IF a = <<>> THEN b ELSE IF b = <<>> THEN a ELSE c
  BY DEF Joined
<1> HIDE DEF c
<1> QED BY <1>3, <1>4, <1>5

LEMMA JoinUnfolds ==
  ASSUME NEW T, Underscore \in T, NEW words \in Seq(Seq(T))
  PROVE  \E upTo : Joining(upTo, words, T)
<1> DEFINE N == Len(words)
           S == Seq(T)
           step == [i \in 1..N |-> [text \in S |-> Joined(text, words[i])]]
           Body(f) == [n \in 0..N |-> IF n = 0 THEN <<>> ELSE Joined(f[n - 1], words[n])]
           g == CHOOSE h : h = Body(h)
<1>1. N \in Nat /\ (\A i \in 1..N : words[i] \in S) /\ <<>> \in S
  BY LenProperties, EmptySeq
<1>2. \A i \in 1..N : \A text \in S : Joined(text, words[i]) \in S
  BY <1>1, JoinedText
<1>3. step \in Steps(N, S)
  <2> HIDE DEF S
  <2> QED BY <1>2 DEF Steps
<1>4. PICK f : Iterates(f, N, S, <<>>, step)
  <2> HIDE DEF step, S
  <2> QED BY <1>1, <1>3, Recursion
<1>5. f \in [0..N -> S] /\ f[0] = <<>> /\ \A i \in 1..N : f[i] = Joined(f[i - 1], words[i])
  <2>1. \A i \in 1..N : i - 1 \in 0..N
    BY <1>1
  <2> HIDE DEF S
  <2> QED BY <1>4, <2>1 DEF Iterates
<1>6. f = Body(f)
  <2>1. ASSUME NEW n \in 0..N PROVE f[n] = Body(f)[n]
    <3>1. n = 0 \/ n \in 1..N
      BY <1>1
    <3> QED BY <1>5, <3>1
  <2> HIDE DEF S
  <2> QED BY <1>5, <2>1
<1>7. g = Body(g)
  <2> HIDE DEF Body
  <2> QED BY <1>6
<1>8. Join(words) = g[N]
  BY DEF Join
<1>9. g[0] = <<>> /\ \A i \in 1..N : g[i] = Joined(g[i - 1], words[i])
  <2>1. \A h : h = Body(h) => \A n \in 0..N : h[n] = IF n = 0 THEN <<>> ELSE Joined(h[n - 1], words[n])
    OBVIOUS
  <2>2. 0 \in 0..N /\ \A i \in 1..N : i \in 0..N /\ i # 0
    BY <1>1
  <2> HIDE DEF Body, g
  <2> QED BY <1>7, <2>1, <2>2
<1> HIDE DEF g, S, N
<1>10. \A n \in 0..N : g[n] = f[n]
  <2>1. \A i \in 1..N : g[i - 1] \in S => g[i] = step[i][g[i - 1]]
    BY <1>9
  <2>2. N \in Nat /\ g[0] = <<>>
    BY <1>1, <1>9
  <2> HIDE DEF step
  <2> QED BY <1>4, <2>1, <2>2, Determined
<1>11. N \in 0..N
  BY <1>1
<1> QED BY <1>5, <1>8, <1>10, <1>11 DEF Joining, S, N

\* Runs of separators in T's texts become one.
Shortening(upTo, text, T) ==
  /\ upTo \in [0..Len(text) -> Seq(T \cup {Underscore})]
  /\ upTo[0] = <<>>
  /\ \A i \in 1..Len(text) :
       upTo[i] = IF text[i] \notin Separators \/ upTo[i - 1] = <<>> \/ Last(upTo[i - 1]) # Underscore
                   THEN Append(upTo[i - 1], IF text[i] \in Separators THEN Underscore ELSE text[i])
                   ELSE upTo[i - 1]
  /\ ShortenRuns(text) = upTo[Len(text)]

LEMMA ShortenUnfolds ==
  ASSUME NEW T, NEW text \in Seq(T)
  PROVE  \E upTo : Shortening(upTo, text, T)
<1> DEFINE N == Len(text)
           S == Seq(T \cup {Underscore})
           plain == Underscores(text)
           Step(done, i) == IF plain[i] = Underscore /\ done # <<>> /\ Last(done) = Underscore THEN done ELSE Append(done, plain[i])
           step == [i \in 1..N |-> [done \in S |-> Step(done, i)]]
           Body(f) == [n \in 0..N |-> IF n = 0 THEN <<>> ELSE Step(f[n - 1], n)]
           g == CHOOSE h : h = Body(h)
<1>1. N \in Nat /\ DOMAIN text = 1..N /\ (\A i \in 1..N : text[i] \in T) /\ <<>> \in S
  BY LenProperties, EmptySeq
<1>2. \A i \in 1..N : /\ plain[i] = IF text[i] \in Separators THEN Underscore ELSE text[i]
                      /\ plain[i] \in T \cup {Underscore} /\ (plain[i] = Underscore <=> text[i] \in Separators)
  BY <1>1 DEF Underscores, Separators
<1> HIDE DEF plain
<1>3. ASSUME NEW done \in S, NEW i \in 1..N PROVE Step(done, i) \in S
  BY <1>2, AppendProperties
<1>4. step \in Steps(N, S)
  <2> HIDE DEF Step, S
  <2> QED BY <1>3 DEF Steps
<1>5. PICK f : Iterates(f, N, S, <<>>, step)
  <2> HIDE DEF step, S
  <2> QED BY <1>1, <1>4, Recursion
<1>6. f \in [0..N -> S] /\ f[0] = <<>> /\ \A i \in 1..N : f[i] = Step(f[i - 1], i)
  <2>1. \A i \in 1..N : i - 1 \in 0..N
    BY <1>1
  <2> HIDE DEF Step, S
  <2> QED BY <1>5, <2>1 DEF Iterates
<1>7. f = Body(f)
  <2>1. ASSUME NEW n \in 0..N PROVE f[n] = Body(f)[n]
    <3>1. n = 0 \/ n \in 1..N
      BY <1>1
    <3> HIDE DEF Step
    <3> QED BY <1>6, <3>1
  <2> HIDE DEF Step, S
  <2> QED BY <1>6, <2>1
<1>8. g = Body(g)
  <2> HIDE DEF Body
  <2> QED BY <1>7
<1>9. ShortenRuns(text) = g[N]
  BY DEF ShortenRuns, plain
<1>10. g[0] = <<>> /\ \A i \in 1..N : g[i] = Step(g[i - 1], i)
  <2>1. \A h : h = Body(h) => \A n \in 0..N : h[n] = IF n = 0 THEN <<>> ELSE Step(h[n - 1], n)
    <3> HIDE DEF Step
    <3> QED OBVIOUS
  <2>2. 0 \in 0..N /\ \A i \in 1..N : i \in 0..N /\ i # 0
    BY <1>1
  <2> HIDE DEF Body, g, Step
  <2> QED BY <1>8, <2>1, <2>2
<1> HIDE DEF g, Step, S, N
<1>11. \A n \in 0..N : g[n] = f[n]
  <2>1. \A i \in 1..N : g[i - 1] \in S => g[i] = step[i][g[i - 1]]
    BY <1>10
  <2>2. N \in Nat /\ g[0] = <<>>
    BY <1>1, <1>10
  <2> HIDE DEF step
  <2> QED BY <1>5, <2>1, <2>2, Determined
<1>12. N \in 0..N
  BY <1>1
<1>13. \A i \in 1..N : f[i] = IF text[i] \notin Separators \/ f[i - 1] = <<>> \/ Last(f[i - 1]) # Underscore
                               THEN Append(f[i - 1], IF text[i] \in Separators THEN Underscore ELSE text[i])
                               ELSE f[i - 1]
  BY <1>2, <1>6 DEF Step
<1> QED BY <1>6, <1>9, <1>11, <1>12, <1>13 DEF Shortening, S, N

\* Only and Join, of one element more.
LEMMA OnlyAppended ==
  ASSUME NEW T, NEW s \in Seq(T), NEW e \in T, NEW S
  PROVE  Only(Append(s, e), S) = IF e \in S THEN Append(Only(s, S), e) ELSE Only(s, S)
<1> DEFINE p == Append(s, e)
           N == Len(s)
<1>1. p \in Seq(T) /\ Len(p) = N + 1 /\ (\A i \in 1..N : p[i] = s[i]) /\ p[N + 1] = e /\ N \in Nat
  BY AppendProperties, LenProperties
<1> HIDE DEF p
<1>2. PICK f : Sublisting(f, s, S, T)
  BY OnlyUnfolds
<1>3. PICK g : Sublisting(g, p, S, T)
  BY <1>1, OnlyUnfolds
<1> HIDE DEF N
<1>4. /\ f[0] = <<>> /\ Only(s, S) = f[N]
      /\ \A i \in 1..N : f[i] = IF s[i] \in S THEN Append(f[i - 1], s[i]) ELSE f[i - 1]
  BY <1>2 DEF Sublisting, N
<1>5. /\ g[0] = <<>> /\ Only(p, S) = g[N + 1]
      /\ \A i \in 1..N + 1 : g[i] = IF p[i] \in S THEN Append(g[i - 1], p[i]) ELSE g[i - 1]
  BY <1>1, <1>3 DEF Sublisting
<1> DEFINE same == [n \in 0..N |-> g[n] = f[n]]
<1>6. same \in [0..N -> BOOLEAN] /\ same[0]
  <2>1. 0 \in 0..N /\ \A n \in 0..N : (g[n] = f[n]) \in BOOLEAN
    BY <1>1
  <2> QED BY <1>4, <1>5, <2>1
<1>7. ASSUME NEW n \in 1..N, same[n - 1] PROVE same[n]
  <2>1. n \in 0..N /\ n - 1 \in 0..N /\ n \in 1..N + 1
    BY <1>1
  <2>2. g[n - 1] = f[n - 1]
    BY <1>7, <2>1
  <2>3. g[n] = f[n]
    BY <1>1, <1>4, <1>5, <2>1, <2>2
  <2> QED BY <2>1, <2>3
<1>8. \A n \in 0..N : same[n]
  <2>1. N \in Nat
    BY <1>1
  <2> HIDE DEF same
  <2> QED BY <1>6, <1>7, <2>1, Stepwise
<1>9. g[N] = f[N] /\ N + 1 \in 1..N + 1 /\ (N + 1) - 1 = N
  <2>1. N \in 0..N /\ N + 1 \in 1..N + 1 /\ (N + 1) - 1 = N
    BY <1>1
  <2>2. g[N] = f[N]
    BY <1>8, <2>1
  <2> QED BY <2>1, <2>2
<1>10. Only(p, S) = IF e \in S THEN Append(f[N], e) ELSE f[N]
  BY <1>1, <1>5, <1>9
<1> QED BY <1>4, <1>10 DEF p

LEMMA JoinAppended ==
  ASSUME NEW T, Underscore \in T, NEW words \in Seq(Seq(T)), NEW w \in Seq(T)
  PROVE  Join(words) \in Seq(T) /\ Join(Append(words, w)) = Joined(Join(words), w)
<1> DEFINE p == Append(words, w)
           N == Len(words)
<1>1. /\ p \in Seq(Seq(T)) /\ Len(p) = N + 1 /\ (\A i \in 1..N : p[i] = words[i]) /\ p[N + 1] = w /\ N \in Nat
  BY AppendProperties, LenProperties
<1> HIDE DEF p
<1>2. PICK f : Joining(f, words, T)
  BY JoinUnfolds
<1>3. PICK g : Joining(g, p, T)
  BY <1>1, JoinUnfolds
<1> HIDE DEF N
<1>4. /\ f \in [0..N -> Seq(T)] /\ f[0] = <<>> /\ Join(words) = f[N]
      /\ \A i \in 1..N : f[i] = Joined(f[i - 1], words[i])
  BY <1>2 DEF Joining, N
<1>5. /\ g[0] = <<>> /\ Join(p) = g[N + 1]
      /\ \A i \in 1..N + 1 : g[i] = Joined(g[i - 1], p[i])
  BY <1>1, <1>3 DEF Joining
<1> DEFINE same == [n \in 0..N |-> g[n] = f[n]]
<1>6. same \in [0..N -> BOOLEAN] /\ same[0]
  <2>1. 0 \in 0..N /\ \A n \in 0..N : (g[n] = f[n]) \in BOOLEAN
    BY <1>1
  <2> QED BY <1>4, <1>5, <2>1
<1>7. ASSUME NEW n \in 1..N, same[n - 1] PROVE same[n]
  <2>1. n \in 0..N /\ n - 1 \in 0..N /\ n \in 1..N + 1
    BY <1>1
  <2>2. g[n - 1] = f[n - 1]
    BY <1>7, <2>1
  <2>3. g[n] = f[n]
    BY <1>1, <1>4, <1>5, <2>1, <2>2
  <2> QED BY <2>1, <2>3
<1>8. \A n \in 0..N : same[n]
  <2>1. N \in Nat
    BY <1>1
  <2> HIDE DEF same
  <2> QED BY <1>6, <1>7, <2>1, Stepwise
<1>9. g[N] = f[N] /\ N + 1 \in 1..N + 1 /\ (N + 1) - 1 = N /\ f[N] \in Seq(T)
  <2>1. N \in 0..N /\ N + 1 \in 1..N + 1 /\ (N + 1) - 1 = N
    BY <1>1
  <2>2. g[N] = f[N]
    BY <1>8, <2>1
  <2> QED BY <1>4, <2>1, <2>2
<1>10. Join(p) = Joined(f[N], w)
  BY <1>1, <1>5, <1>9
<1> QED BY <1>4, <1>9, <1>10 DEF p

\* A word that goes on, and a word that ends.
LEMMA WordExtended ==
  ASSUME NEW T, NEW words \in Seq(Seq(T)), NEW w \in Seq(T), NEW c \in T
  PROVE  [Append(words, w) EXCEPT ![Len(Append(words, w))] = Append(@, c)] = Append(words, Append(w, c))
<1> DEFINE p == Append(words, w)
           q == Append(words, Append(w, c))
           N == Len(words)
<1>1. N \in Nat /\ Append(w, c) \in Seq(T)
  BY LenProperties, AppendProperties
<1>2. p \in Seq(Seq(T)) /\ Len(p) = N + 1 /\ (\A i \in 1..N : p[i] = words[i]) /\ p[N + 1] = w
  BY AppendProperties
<1>3. q \in Seq(Seq(T)) /\ Len(q) = N + 1 /\ (\A i \in 1..N : q[i] = words[i]) /\ q[N + 1] = Append(w, c)
  <2>1. PICK v \in Seq(T) : v = Append(w, c)
    BY <1>1
  <2> QED BY <2>1, AppendProperties
<1> DEFINE r == [p EXCEPT ![N + 1] = Append(w, c)]
<1> HIDE DEF p, q, N
<1>4. r \in Seq(Seq(T)) /\ Len(r) = Len(p) /\ \A j \in 1..Len(p) : r[j] = IF j = N + 1 THEN Append(w, c) ELSE p[j]
  <2>1. N + 1 \in 1..Len(p)
    BY <1>1, <1>2
  <2> QED BY <1>1, <1>2, <2>1, ExceptSeq
<1> HIDE DEF r
<1>5. \A j \in 1..Len(r) : r[j] = q[j]
  <2>1. \A j \in 1..N + 1 : j \in 1..N \/ j = N + 1
    BY <1>1
  <2>2. \A j \in 1..N : j # N + 1 /\ j \in 1..N + 1
    BY <1>1
  <2> QED BY <1>2, <1>3, <1>4, <2>1, <2>2
<1>6. r = q
  <2>1. r \in Seq(Seq(T)) /\ q \in Seq(Seq(T)) /\ Len(r) = Len(q)
    BY <1>2, <1>3, <1>4
  <2> DEFINE S == Seq(T)
  <2> HIDE DEF S
  <2>2. r \in Seq(S) /\ q \in Seq(S)
    BY <2>1 DEF S
  <2> QED BY <1>5, <2>1, <2>2, SeqEqual
<1>7. [p EXCEPT ![Len(p)] = Append(@, c)] = r
  BY <1>2 DEF r
<1> QED BY <1>6, <1>7 DEF p, q

\* The words of a kind, joined.
Kept(words, S) == Join(Only(words, S))

LEMMA WordEnded ==
  ASSUME NEW T, Underscore \in T, NEW words \in Seq(Seq(T)), NEW w \in Seq(T), NEW S
  PROVE  /\ Kept(words, S) \in Seq(T)
         /\ Kept(Append(words, w), S) = IF w \in S THEN Joined(Kept(words, S), w) ELSE Kept(words, S)
<1> DEFINE W == Seq(T)
           kept == Only(words, S)
<1>1. kept \in Seq(Seq(T))
  <2> HIDE DEF W
  <2>1. words \in Seq(W)
    BY DEF W
  <2> QED BY <2>1, OnlyElements DEF W
<1>2. Only(Append(words, w), S) = IF w \in S THEN Append(kept, w) ELSE kept
  <2> HIDE DEF W
  <2>1. words \in Seq(W) /\ w \in W
    BY DEF W
  <2> QED BY <2>1, OnlyAppended
<1> HIDE DEF kept
<1>3. Join(kept) \in Seq(T) /\ Join(Append(kept, w)) = Joined(Join(kept), w)
  BY <1>1, JoinAppended
<1> QED BY <1>2, <1>3 DEF Kept, kept

\* What a text is split into: words that were ended, and one that is not.
LEMMA SplitStart ==
  ASSUME NEW T, NEW text \in Seq(T), NEW upTo, Splitting(upTo, text, T)
  PROVE  upTo[0] = Append(<<>>, <<>>) /\ <<>> \in Seq(Seq(T)) /\ <<>> \in Seq(T)
BY DEF Splitting

\* The next character ends the last word or extends it.
LEMMA SplitStep ==
  ASSUME NEW T, NEW text \in Seq(T), NEW upTo, Splitting(upTo, text, T), NEW n \in 1..Len(text),
         NEW words \in Seq(Seq(T)), NEW w \in Seq(T), upTo[n - 1] = Append(words, w)
  PROVE  /\ text[n] \in T
         /\ upTo[n] = IF text[n] \in Separators
                        THEN Append(Append(words, w), <<>>)
                        ELSE Append(words, Append(w, text[n]))
<1>1. text[n] \in T
  BY ElementOfSeq
<1>2. upTo[n] = IF text[n] \in Separators
                  THEN Append(Append(words, w), <<>>)
                  ELSE [Append(words, w) EXCEPT ![Len(Append(words, w))] = Append(@, text[n])]
  BY DEF Splitting
<1>3. [Append(words, w) EXCEPT ![Len(Append(words, w))] = Append(@, text[n])] = Append(words, Append(w, text[n]))
  <2>1. PICK c \in T : c = text[n]
    BY <1>1
  <2>2. [Append(words, w) EXCEPT ![Len(Append(words, w))] = Append(@, c)] = Append(words, Append(w, c))
    BY WordExtended
  <2> QED BY <2>1, <2>2
<1> QED BY <1>1, <1>2, <1>3

\* No words join to nothing.
LEMMA NothingKept ==
  ASSUME NEW T, Underscore \in T, NEW S
  PROVE  Kept(<<>>, S) = <<>>
<1>1. PICK e : e = <<>>
  OBVIOUS
<1>2. e \in Seq(T) /\ e \in Seq(Seq(T)) /\ Len(e) = 0
  BY <1>1
<1>3. Only(e, S) = e
  <2>1. PICK f : Sublisting(f, e, S, T)
    BY <1>2, OnlyUnfolds
  <2> QED BY <1>1, <1>2, <2>1 DEF Sublisting
<1>4. Join(e) = e
  <2>1. PICK f : Joining(f, e, T)
    BY <1>2, JoinUnfolds
  <2> QED BY <1>1, <1>2, <2>1 DEF Joining
<1> QED BY <1>1, <1>3, <1>4 DEF Kept

\* Splitting and joining makes no text longer, whichever words are kept.
LEMMA WordsFit ==
  ASSUME NEW T, Underscore \in T, NEW text \in Seq(T), NEW S
  PROVE  /\ Kept(Split(text), S) \in Seq(T)
         /\ Len(Kept(Split(text), S)) <= Len(text)
<1> DEFINE N == Len(text)
           Taken(words) == Len(Kept(words, S)) + (IF Kept(words, S) = <<>> THEN 0 ELSE 1)
<1>1. PICK upTo : Splitting(upTo, text, T)
  BY SplitUnfolds
<1> DEFINE At(n, words, w) == upTo[n] = Append(words, w) /\ Taken(words) + Len(w) <= n
           Fits(n) == \E words \in Seq(Seq(T)), w \in Seq(T) : At(n, words, w)
           holds == [n \in 0..N |-> Fits(n)]
<1>2. N \in Nat
  BY LenProperties
<1>3. Fits(0)
  <2>1. upTo[0] = Append(<<>>, <<>>) /\ <<>> \in Seq(Seq(T)) /\ <<>> \in Seq(T)
    BY <1>1, SplitStart
  <2>2. Kept(<<>>, S) = <<>> /\ Len(<<>>) = 0
    BY NothingKept
  <2>3. At(0, <<>>, <<>>)
    BY <2>1, <2>2
  <2> HIDE DEF At
  <2> QED BY <2>1, <2>3
<1>4. ASSUME NEW n \in 1..N, Fits(n - 1) PROVE Fits(n)
  <2>1. PICK words \in Seq(Seq(T)), w \in Seq(T) : upTo[n - 1] = Append(words, w) /\ Taken(words) + Len(w) <= n - 1
    BY <1>4
  <2>2. /\ text[n] \in T
        /\ upTo[n] = IF text[n] \in Separators
                       THEN Append(Append(words, w), <<>>)
                       ELSE Append(words, Append(w, text[n]))
    BY <1>1, <2>1, SplitStep
  <2>3. /\ Kept(words, S) \in Seq(T)
        /\ Kept(Append(words, w), S) = IF w \in S THEN Joined(Kept(words, S), w) ELSE Kept(words, S)
    BY WordEnded
  <2>4. CASE text[n] \in Separators
    <3>1. Append(words, w) \in Seq(Seq(T)) /\ <<>> \in Seq(T) /\ Len(<<>>) = 0
      BY AppendProperties
    <3>2. PICK b \in Seq(T) : b = Kept(words, S)
      BY <2>3
    <3>3. /\ Joined(b, w) \in Seq(T) /\ Len(Joined(b, w)) <= Len(b) + Len(w) + (IF b = <<>> THEN 0 ELSE 1)
      BY JoinedText
    <3>4. Len(b) \in Nat /\ Len(w) \in Nat /\ Len(Joined(b, w)) \in Nat
      BY <3>3, LenProperties
    <3>5. Taken(Append(words, w)) <= n
      <4>1. Len(b) + (IF b = <<>> THEN 0 ELSE 1) + Len(w) <= n - 1
        BY <2>1, <3>2
      <4>2. Kept(Append(words, w), S) = Joined(b, w) \/ Kept(Append(words, w), S) = b
        BY <2>3, <3>2
      <4>3. PICK k \in Seq(T) : k = Kept(Append(words, w), S)
        BY <2>3, <3>2, <3>3
      <4>4. Len(k) \in Nat /\ Len(k) <= n - 1
        BY <4>1, <4>2, <4>3, <3>3, <3>4
      <4> QED BY <4>3, <4>4
    <3>6. At(n, Append(words, w), <<>>)
      <4>1. PICK k \in Seq(T) : k = Kept(Append(words, w), S)
        BY <2>3, <3>2, <3>3
      <4>2. Taken(Append(words, w)) = Len(k) + (IF k = <<>> THEN 0 ELSE 1) /\ Len(k) \in Nat
        BY <4>1, LenProperties
      <4>3. Taken(Append(words, w)) \in Nat
        BY <4>2
      <4> HIDE DEF Taken
      <4>4. Taken(Append(words, w)) + Len(<<>>) <= n
        BY <3>1, <3>5, <4>3
      <4> QED BY <2>2, <2>4, <4>4
    <3> HIDE DEF At
    <3> QED BY <3>1, <3>6
  <2>5. CASE text[n] \notin Separators
    <3>1. Append(w, text[n]) \in Seq(T) /\ Len(Append(w, text[n])) = Len(w) + 1
      BY <2>2, AppendProperties
    <3>2. Taken(words) \in Nat /\ Len(w) \in Nat
      BY <2>3, LenProperties
    <3>3. Taken(words) + Len(Append(w, text[n])) <= n
      <4> HIDE DEF Taken
      <4> QED BY <2>1, <3>1, <3>2
    <3>4. At(n, words, Append(w, text[n]))
      BY <2>2, <2>5, <3>3
    <3> HIDE DEF At
    <3> QED BY <3>1, <3>4
  <2> QED BY <2>4, <2>5
<1>5. Fits(N)
  <2>1. holds \in [0..N -> BOOLEAN] /\ holds[0]
    <3>1. 0 \in 0..N
      BY <1>2
    <3> HIDE DEF At, N
    <3> QED BY <1>3, <3>1
  <2>2. ASSUME NEW n \in 1..N, holds[n - 1] PROVE holds[n]
    <3>1. n \in 0..N /\ n - 1 \in 0..N
      BY <1>2
    <3> HIDE DEF Fits, N
    <3> QED BY <1>4, <2>2, <3>1
  <2>3. N \in 0..N
    BY <1>2
  <2>4. \A n \in 0..N : holds[n]
    <3> HIDE DEF holds, N
    <3> QED BY <1>2, <2>1, <2>2, Stepwise
  <2> HIDE DEF Fits, N
  <2> QED BY <2>3, <2>4
<1>6. PICK words \in Seq(Seq(T)), w \in Seq(T) : upTo[N] = Append(words, w) /\ Taken(words) + Len(w) <= N
  BY <1>5
<1>7. /\ Kept(words, S) \in Seq(T)
      /\ Kept(Append(words, w), S) = IF w \in S THEN Joined(Kept(words, S), w) ELSE Kept(words, S)
  BY WordEnded
<1>8. PICK b \in Seq(T) : b = Kept(words, S)
  BY <1>7
<1>9. /\ Joined(b, w) \in Seq(T) /\ Len(Joined(b, w)) <= Len(b) + Len(w) + (IF b = <<>> THEN 0 ELSE 1)
  BY JoinedText
<1>10. Len(b) \in Nat /\ Len(w) \in Nat /\ Len(Joined(b, w)) \in Nat
  BY <1>9, LenProperties
<1>11. Split(text) = Append(words, w)
  BY <1>1, <1>6 DEF Splitting
<1>12. Kept(Split(text), S) = Joined(b, w) \/ Kept(Split(text), S) = b
  BY <1>7, <1>8, <1>11
<1>13. Len(b) + (IF b = <<>> THEN 0 ELSE 1) + Len(w) <= N
  BY <1>6, <1>8
<1> QED BY <1>2, <1>9, <1>10, <1>12, <1>13

\* A part of a text.
Slice(a, b, c, s, kept, T) ==
  /\ a \in kept /\ b \in kept /\ c \in Seq(T)
  /\ a = Min(kept) /\ b = Max(kept) /\ (\A i \in kept : a <= i /\ i <= b)
  /\ c = SubSeq(s, Min(kept), Max(kept)) /\ Len(c) = b - a + 1
  /\ \A i \in 1..b - a + 1 : c[i] = s[a + i - 1]

\* From the first to the last of some places.
LEMMA Sliced ==
  ASSUME NEW T, NEW s \in Seq(T), NEW kept \in SUBSET (1..Len(s)), kept # {}
  PROVE  \E a, b, c : Slice(a, b, c, s, kept, T)
<1>1. Len(s) \in Nat
  BY LenProperties
<1>2. Min(kept) \in kept /\ \A i \in kept : Min(kept) <= i
  <2>1. \E m \in kept : \A i \in kept : m <= i
    <3>1. kept \in SUBSET Nat
      BY <1>1
    <3> QED BY <3>1, LeastNatural
  <2> QED BY <2>1 DEF Min
<1>3. Max(kept) \in kept /\ \A i \in kept : i <= Max(kept)
  <2>1. \E m \in kept : \A i \in kept : i <= m
    <3>1. kept \in SUBSET (0..Len(s))
      BY <1>1
    <3> QED BY <1>1, <3>1, GreatestNatural
  <2>2. PICK m \in kept : \A i \in kept : i <= m
    BY <2>1
  <2>3. \A i \in kept : m >= i
    BY <2>2, <1>1
  <2>4. Max(kept) \in kept /\ \A i \in kept : Max(kept) >= i
    BY <2>3 DEF Max
  <2> QED BY <2>4, <1>1
<1>4. PICK a \in kept, b \in kept : a = Min(kept) /\ b = Max(kept) /\ a <= b /\ a \in 1..Len(s) /\ b \in 1..Len(s)
  BY <1>2, <1>3
<1>5. \A i \in a..b : s[i] \in T
  <2>1. \A i \in a..b : i \in 1..Len(s)
    BY <1>1
  <2> QED BY <2>1, ElementOfSeq
<1>6. a \in Int /\ b \in Int /\ b - a + 1 = IF a <= b THEN b - a + 1 ELSE 0
  BY <1>1, <1>4
<1>7. /\ SubSeq(s, a, b) \in Seq(T) /\ Len(SubSeq(s, a, b)) = b - a + 1
      /\ \A i \in 1..b - a + 1 : SubSeq(s, a, b)[i] = s[a + i - 1]
  BY <1>4, <1>5, <1>6, SubSeqProperties
<1>8. PICK c \in Seq(T) : c = SubSeq(s, a, b)
  BY <1>7
<1>9. \A i \in kept : a <= i /\ i <= b
  BY <1>2, <1>3, <1>4
<1>10. c = SubSeq(s, Min(kept), Max(kept)) /\ Len(c) = b - a + 1 /\ \A i \in 1..b - a + 1 : c[i] = s[a + i - 1]
  BY <1>4, <1>7, <1>8
<1>11. Slice(a, b, c, s, kept, T)
  BY <1>4, <1>8, <1>9, <1>10 DEF Slice
<1> QED BY <1>11

\* Trimming leaves a text of the same characters.
LEMMA Trimmed ==
  ASSUME NEW T, NEW text \in Seq(T)
  PROVE  TrimSpace(text) \in Seq(T)
<1> DEFINE kept == {i \in DOMAIN text : text[i] # Blank}
<1>1. kept \in SUBSET (1..Len(text))
  BY LenProperties
<1>2. TrimSpace(text) = IF kept = {} THEN <<>> ELSE SubSeq(text, Min(kept), Max(kept))
  BY DEF TrimSpace
<1> HIDE DEF kept
<1>3. CASE kept = {}
  BY <1>2, <1>3, EmptySeq
<1>4. CASE kept # {}
  <2>1. PICK a, b, c : Slice(a, b, c, text, kept, T)
    BY <1>1, <1>4, Sliced
  <2> QED BY <1>2, <1>4, <2>1 DEF Slice
<1> QED BY <1>3, <1>4

\* A text without separators at its ends, and with one there.
Neat(r) == r # <<>> => r[1] # Underscore /\ r[Len(r)] # Underscore
Ends == {<<>>, <<Underscore>>}
Unpadded(s) ==
  LET kept == {i \in DOMAIN s : s[i] # Underscore}
  IN IF kept = {} THEN <<>> ELSE SubSeq(s, Min(kept), Max(kept))

\* Stripping takes off what was put at the ends, and no more.
LEMMA Stripped ==
  ASSUME NEW T, Underscore \in T, NEW r \in Seq(T), Neat(r), NEW lead \in Ends, NEW trail \in Ends,
         NEW s, s = (lead \o r) \o trail
  PROVE  Unpadded(s) = r
<1> DEFINE kept == {i \in DOMAIN s : s[i] # Underscore}
           p == Len(lead)
           L == Len(r)
<1>1. /\ lead \in Seq(T) /\ trail \in Seq(T) /\ p \in {0, 1} /\ Len(trail) \in {0, 1} /\ L \in Nat
      /\ (\A i \in 1..p : lead[i] = Underscore) /\ (\A i \in 1..Len(trail) : trail[i] = Underscore)
  <2>1. /\ <<>> \in Seq(T) /\ Len(<<>>) = 0 /\ <<Underscore>> \in Seq(T) /\ Len(<<Underscore>>) = 1
        /\ \A i \in 1..1 : <<Underscore>>[i] = Underscore
    OBVIOUS
  <2>2. ASSUME NEW e \in Ends PROVE e \in Seq(T) /\ Len(e) \in {0, 1} /\ \A i \in 1..Len(e) : e[i] = Underscore
    <3>1. e = <<>> \/ e = <<Underscore>>
      BY DEF Ends
    <3>2. CASE e = <<>>
      BY <2>1, <3>2
    <3>3. CASE e = <<Underscore>>
      BY <2>1, <3>3
    <3> QED BY <3>1, <3>2, <3>3
  <2> QED BY <2>2, LenProperties
<1>2. PICK x \in Seq(T) : x = lead \o r /\ Len(x) = p + L /\ \A i \in 1..p + L : x[i] = IF i <= p THEN lead[i] ELSE r[i - p]
  <2>1. lead \o r \in Seq(T) /\ Len(lead \o r) = p + L /\ \A i \in 1..p + L : (lead \o r)[i] = IF i <= p THEN lead[i] ELSE r[i - p]
    BY <1>1, ConcatProperties
  <2>2. PICK x \in Seq(T) : x = lead \o r
    BY <2>1
  <2> QED BY <2>1, <2>2
<1>3. /\ s \in Seq(T) /\ Len(s) = p + L + Len(trail)
      /\ \A i \in 1..p + L + Len(trail) : s[i] = IF i <= p + L THEN x[i] ELSE trail[i - (p + L)]
  BY <1>1, <1>2, ConcatProperties
<1>4. DOMAIN s = 1..Len(s) /\ Len(s) \in Nat
  BY <1>3, LenProperties
<1> HIDE DEF p, L
<1>5. ASSUME NEW i \in kept PROVE i - p \in 1..L
  <2>1. i \in 1..p + L + Len(trail) /\ s[i] # Underscore
    BY <1>3, <1>4
  <2>2. CASE i <= p
    <3>1. i \in 1..p /\ i \in 1..p + L /\ s[i] = lead[i]
      BY <1>1, <1>2, <1>3, <2>1, <2>2
    <3> QED BY <1>1, <2>1, <3>1
  <2>3. CASE i > p + L
    <3>1. i - (p + L) \in 1..Len(trail) /\ s[i] = trail[i - (p + L)]
      BY <1>1, <1>3, <2>1, <2>3
    <3> QED BY <1>1, <2>1, <3>1
  <2>4. i \in Nat /\ p \in Nat /\ L \in Nat
    <3>1. p \in Nat /\ L \in Nat /\ Len(trail) \in Nat
      BY <1>1
    <3> QED BY <2>1, <3>1
  <2>5. ~(i <= p) /\ ~(i > p + L) => i - p \in 1..L
    BY <1>1, <2>4
  <2> QED BY <2>2, <2>3, <2>5
<1>6. ASSUME NEW i \in 1..L PROVE p + i \in DOMAIN s /\ s[p + i] = r[i]
  <2>1. p + i \in 1..p + L /\ p + i \in 1..p + L + Len(trail) /\ ~(p + i <= p) /\ (p + i) - p = i
    BY <1>1
  <2> QED BY <1>2, <1>3, <1>4, <2>1
<1>7. kept \in SUBSET (1..Len(s))
  BY <1>4
<1>8. CASE r = <<>>
  <2>1. L = 0
    BY <1>8 DEF L
  <2> QED BY <1>5, <1>8, <2>1 DEF Unpadded
<1>9. CASE r # <<>>
  <2>1. L \in Nat \ {0} /\ 1 \in 1..L /\ L \in 1..L
    BY <1>1, <1>9, EmptySeq DEF L
  <2>2. p + 1 \in kept /\ p + L \in kept
    BY <1>6, <1>9, <2>1 DEF Neat, L
  <2>3. PICK a, b, c : Slice(a, b, c, s, kept, T)
    BY <1>3, <1>7, <2>2, Sliced
  <2>4. /\ a \in kept /\ b \in kept /\ c \in Seq(T) /\ (\A i \in kept : a <= i /\ i <= b)
         /\ SubSeq(s, Min(kept), Max(kept)) = c /\ Len(c) = b - a + 1
         /\ \A i \in 1..b - a + 1 : c[i] = s[a + i - 1]
    BY ONLY <2>3 DEF Slice
  <2>5. a = p + 1 /\ b = p + L
    <3>1. a - p \in 1..L /\ b - p \in 1..L /\ a <= p + 1 /\ p + L <= b
      BY <1>5, <2>2, <2>4
    <3>2. a \in Nat /\ b \in Nat
      BY <1>7, <2>4, SMTT(30)
    <3> QED BY <1>1, <3>1, <3>2
  <2>6. b - a + 1 = L /\ \A i \in 1..L : a + i - 1 = p + i
    BY <1>1, <2>5
  <2>7. Len(c) = Len(r) /\ \A i \in 1..Len(c) : c[i] = r[i]
    <3>1. ASSUME NEW i \in 1..L PROVE c[i] = r[i]
      <4>1. i \in 1..b - a + 1 /\ a + i - 1 = p + i
        BY <2>6
      <4>2. c[i] = s[a + i - 1]
        BY ONLY <2>4, <4>1
      <4> QED BY <1>6, <4>1, <4>2
    <3>2. Len(c) = L
      BY ONLY <2>4, <2>6
    <3> QED BY ONLY <3>1, <3>2 DEF L
  <2>8. c = r
    BY <2>7, <2>4, SeqEqual
  <2>9. SubSeq(s, Min(kept), Max(kept)) = r
    BY ONLY <2>4, <2>8
  <2>10. kept # {}
    BY <2>2
  <2> QED BY ONLY <2>9, <2>10 DEF Unpadded
<1> QED BY <1>8, <1>9

\* Texts of one character and of none.
LEMMA OneElement ==
  ASSUME NEW T, NEW c \in T
  PROVE  \E x \in Seq(T) : x = <<c>> /\ Len(x) = 1 /\ x[1] = c
<1>1. <<c>> \in Seq(T) /\ Len(<<c>>) = 1 /\ <<c>>[1] = c
  OBVIOUS
<1> QED BY <1>1

LEMMA EndText ==
  ASSUME NEW T, Underscore \in T, NEW lead \in Ends
  PROVE  lead \in Seq(T)
<1>1. lead = <<>> \/ lead = <<Underscore>>
  BY DEF Ends
<1>2. <<Underscore>> \in Seq(T)
  BY OneElement
<1> QED BY <1>1, <1>2, EmptySeq

AppendsToLast(s, t, c) == Append(s \o t, c) = s \o Append(t, c)

\* A character that goes to the last word goes to the text.
LEMMA ConcatAppend ==
  ASSUME NEW T, NEW s \in Seq(T), NEW t \in Seq(T), NEW c \in T
  PROVE  AppendsToLast(s, t, c)
<1>1. PICK x \in Seq(T) : x = <<c>>
  BY OneElement
<1>2. s \o t \in Seq(T) /\ Append(t, c) \in Seq(T) /\ Append(t, c) = t \o <<c>>
  BY ConcatProperties, AppendProperties, AppendIsConcat
<1>3. Append(s \o t, c) = (s \o t) \o <<c>>
  BY <1>2, AppendIsConcat
<1>4. (s \o t) \o x = s \o (t \o x)
  BY ConcatAssociative
<1> QED BY <1>1, <1>2, <1>3, <1>4 DEF AppendsToLast

\* The words that ended, joined, and the word that has not.
Core(b, w) == IF b = <<>> THEN w ELSE (b \o <<Underscore>>) \o w
Letters(w) == \A i \in 1..Len(w) : w[i] # Underscore

Grows(lead, b, w, c) == Append(lead \o Core(b, w), c) = lead \o Core(b, Append(w, c))

LEMMA CoreGrows ==
  ASSUME NEW T, Underscore \in T, NEW b \in Seq(T), NEW w \in Seq(T), NEW lead \in Ends, NEW c \in T
  PROVE  /\ lead \in Seq(T) /\ Core(b, w) \in Seq(T) /\ lead \o Core(b, w) \in Seq(T)
         /\ Grows(lead, b, w, c)
<1>1. PICK u \in Seq(T) : u = <<Underscore>> /\ Len(u) = 1
  BY OneElement
<1>2. lead \in Seq(T)
  BY EndText
<1>3. PICK d \in Seq(T) : d = b \o u
  BY ConcatProperties
<1>4. d \o w \in Seq(T) /\ Append(d \o w, c) = d \o Append(w, c)
  <2>1. d \o w \in Seq(T)
    BY ConcatProperties
  <2>2. AppendsToLast(d, w, c)
    BY ConcatAppend
  <2> QED BY <2>1, <2>2 DEF AppendsToLast
<1>5. Core(b, w) \in Seq(T) /\ Append(Core(b, w), c) = Core(b, Append(w, c))
  BY <1>1, <1>3, <1>4 DEF Core
<1>6. PICK e \in Seq(T) : e = Core(b, w)
  BY <1>5
<1>7. lead \o e \in Seq(T) /\ Append(lead \o e, c) = lead \o Append(e, c)
  <2>1. PICK l \in Seq(T) : l = lead
    BY <1>2
  <2>2. l \o e \in Seq(T)
    BY ConcatProperties
  <2>3. AppendsToLast(l, e, c)
    BY ConcatAppend
  <2> QED BY <2>1, <2>2, <2>3 DEF AppendsToLast
<1> QED BY <1>2, <1>5, <1>6, <1>7 DEF Grows

\* A separator after a letter, and one that is not after a letter.
LEMMA CoreEnds ==
  ASSUME NEW T, Underscore \in T, NEW b \in Seq(T), NEW w \in Seq(T), w # <<>>, Letters(w), Neat(b), NEW lead \in Ends
  PROVE  /\ Append(lead \o Core(b, w), Underscore) = lead \o Core(Joined(b, w), <<>>)
         /\ Neat(Joined(b, w)) /\ Last(lead \o Core(b, w)) # Underscore
<1>1. PICK u \in Seq(T) : u = <<Underscore>> /\ Len(u) = 1
  BY OneElement
<1>2. lead \in Seq(T) /\ Core(b, w) \in Seq(T)
  BY CoreGrows
<1>3. PICK d \in Seq(T) : d = b \o u /\ Len(d) = Len(b) + 1 /\ \A i \in 1..Len(b) : d[i] = b[i]
  <2>1. b \o u \in Seq(T) /\ Len(b \o u) = Len(b) + Len(u) /\ \A i \in 1..Len(b) + Len(u) : (b \o u)[i] = IF i <= Len(b) THEN b[i] ELSE u[i - Len(b)]
    BY ConcatProperties
  <2>2. Len(u) = 1 /\ Len(b) \in Nat /\ \A i \in 1..Len(b) : i \in 1..Len(b) + 1 /\ i <= Len(b)
    BY <1>1, LenProperties
  <2>3. PICK d \in Seq(T) : d = b \o u
    BY <2>1
  <2> QED BY <2>1, <2>2, <2>3
<1>4. PICK e \in Seq(T) : e = Core(b, w)
  BY <1>2
<1>5. e = Joined(b, w)
  BY <1>1, <1>4 DEF Core, Joined
<1>6. Len(w) \in Nat \ {0} /\ Len(w) \in 1..Len(w) /\ 1 \in 1..Len(w) /\ Len(b) \in Nat
  BY EmptySeq, LenProperties
<1>7. /\ e # <<>> /\ Len(e) \in Nat \ {0} /\ e[Len(e)] # Underscore /\ e[1] # Underscore
  <2>1. CASE b = <<>>
    <3>1. e = w
      BY <1>4, <2>1 DEF Core
    <3> QED BY <1>6, <3>1 DEF Letters
  <2>2. CASE b # <<>>
    <3>1. e = d \o w
      BY <1>1, <1>3, <1>4, <2>2 DEF Core
    <3>2. Len(e) = Len(d) + Len(w) /\ \A i \in 1..Len(d) + Len(w) : e[i] = IF i <= Len(d) THEN d[i] ELSE w[i - Len(d)]
      BY <3>1, ConcatProperties
    <3>3. Len(b) \in Nat \ {0} /\ b[1] # Underscore
      BY <2>2, EmptySeq DEF Neat
    <3>4. e[Len(e)] = w[Len(w)]
      <4>1. Len(e) \in 1..Len(d) + Len(w) /\ ~(Len(e) <= Len(d)) /\ Len(e) - Len(d) = Len(w)
        BY <1>3, <1>6, <3>2
      <4> QED BY <3>2, <4>1
    <3>5. e[1] = b[1]
      <4>1. 1 \in 1..Len(d) + Len(w) /\ 1 <= Len(d) /\ 1 \in 1..Len(b)
        BY <1>3, <1>6, <3>3
      <4> QED BY <1>3, <3>2, <4>1
    <3>6. Len(e) \in Nat \ {0} /\ e # <<>>
      <4>1. Len(e) \in Nat \ {0}
        BY <1>3, <1>6, <3>2
      <4> QED BY <4>1, EmptySeq
    <3> QED BY <1>6, <3>3, <3>4, <3>5, <3>6 DEF Letters
  <2> QED BY <2>1, <2>2
<1>8. Append(lead \o e, Underscore) = lead \o (e \o u)
  <2>1. Append(e, Underscore) = e \o u
    BY <1>1, AppendIsConcat
  <2>2. Append(lead \o e, Underscore) = lead \o Append(e, Underscore)
    <3>1. PICK l \in Seq(T) : l = lead
      BY <1>2
    <3>2. AppendsToLast(l, e, Underscore)
      BY ConcatAppend
    <3> QED BY <3>1, <3>2 DEF AppendsToLast
  <2> QED BY <2>1, <2>2
<1>9. Core(e, <<>>) = e \o u
  <2>1. PICK h \in Seq(T) : h = e \o u
    BY ConcatProperties
  <2>2. h \o <<>> = h
    BY ConcatEmptySeq
  <2> QED BY <1>1, <1>7, <2>1, <2>2 DEF Core
<1>10. Last(lead \o e) # Underscore
  <2>1. PICK x \in Seq(T) : x = lead \o e /\ Len(x) = Len(lead) + Len(e)
                            /\ \A i \in 1..Len(lead) + Len(e) : x[i] = IF i <= Len(lead) THEN lead[i] ELSE e[i - Len(lead)]
    <3>1. /\ lead \o e \in Seq(T) /\ Len(lead \o e) = Len(lead) + Len(e)
          /\ \A i \in 1..Len(lead) + Len(e) : (lead \o e)[i] = IF i <= Len(lead) THEN lead[i] ELSE e[i - Len(lead)]
      BY <1>2, ConcatProperties
    <3>2. PICK x \in Seq(T) : x = lead \o e
      BY <3>1
    <3> QED BY <3>1, <3>2
  <2>2. Len(lead) \in Nat
    BY <1>2, LenProperties
  <2>3. Len(x) \in 1..Len(lead) + Len(e) /\ ~(Len(x) <= Len(lead)) /\ Len(x) - Len(lead) = Len(e)
    BY <1>7, <2>1, <2>2
  <2>4. x[Len(x)] = e[Len(e)]
    BY <2>1, <2>3
  <2> QED BY <1>7, <2>1, <2>4 DEF Last
<1> QED BY <1>4, <1>5, <1>7, <1>8, <1>9, <1>10 DEF Neat

WithSeparator(x) == IF x = <<>> \/ Last(x) # Underscore THEN Append(x, Underscore) ELSE x

Ended(b, w) == IF w = <<>> THEN b ELSE Joined(b, w)

\* A separator ends the word, unless there was one before it.
LEMMA SeparatorTaken ==
  ASSUME NEW T, Underscore \in T, NEW b \in Seq(T), NEW w \in Seq(T), Letters(w), Neat(b), NEW lead \in Ends,
         NEW x, x = lead \o Core(b, w)
  PROVE  /\ Neat(Ended(b, w))
         /\ \E l \in Ends : WithSeparator(x) = l \o Core(Ended(b, w), <<>>)
<1> DEFINE r == Ended(b, w)
           y == WithSeparator(x)
<1>1. CASE w # <<>>
  <2>1. Append(lead \o Core(b, w), Underscore) = lead \o Core(Joined(b, w), <<>>) /\ Neat(Joined(b, w)) /\ Last(lead \o Core(b, w)) # Underscore
    BY <1>1, CoreEnds
  <2>2. r = Joined(b, w) /\ y = Append(x, Underscore)
    BY <1>1, <2>1 DEF WithSeparator, Ended
  <2> QED BY <2>1, <2>2
<1>2. CASE w = <<>> /\ b # <<>>
  <2>1. PICK u \in Seq(T) : u = <<Underscore>> /\ Len(u) = 1 /\ u[1] = Underscore
    BY OneElement
  <2>2. PICK d \in Seq(T) : d = b \o u /\ Len(d) = Len(b) + 1 /\ d[Len(b) + 1] = Underscore
    <3>1. b \o u \in Seq(T) /\ Len(b \o u) = Len(b) + Len(u) /\ \A i \in 1..Len(b) + Len(u) : (b \o u)[i] = IF i <= Len(b) THEN b[i] ELSE u[i - Len(b)]
      BY ConcatProperties
    <3>2. Len(b) \in Nat
      BY LenProperties
    <3>3. Len(b) + 1 \in 1..Len(b) + Len(u) /\ ~(Len(b) + 1 <= Len(b)) /\ (Len(b) + 1) - Len(b) = 1
      BY <2>1, <3>2
    <3>4. PICK d \in Seq(T) : d = b \o u
      BY <3>1
    <3>5. d[Len(b) + 1] = u[1] /\ Len(d) = Len(b) + 1
      BY <2>1, <3>1, <3>3, <3>4
    <3> QED BY <2>1, <3>4, <3>5
  <2>3. Core(b, <<>>) = d
    <3>1. d \o <<>> = d
      BY ConcatEmptySeq
    <3> QED BY <1>2, <2>1, <2>2, <3>1 DEF Core
  <2>4. PICK l \in Seq(T) : l = lead
    BY EndText
  <2>5. PICK z \in Seq(T) : z = l \o d /\ Len(z) = Len(l) + Len(d) /\ z[Len(z)] = d[Len(d)]
    <3>1. l \o d \in Seq(T) /\ Len(l \o d) = Len(l) + Len(d) /\ \A i \in 1..Len(l) + Len(d) : (l \o d)[i] = IF i <= Len(l) THEN l[i] ELSE d[i - Len(l)]
      BY ConcatProperties
    <3>2. Len(b) \in Nat /\ Len(l) \in Nat
      BY LenProperties
    <3>3. Len(l) + Len(d) \in 1..Len(l) + Len(d) /\ ~(Len(l) + Len(d) <= Len(l)) /\ (Len(l) + Len(d)) - Len(l) = Len(d)
      BY <2>2, <3>2
    <3>4. PICK z \in Seq(T) : z = l \o d
      BY <3>1
    <3>5. z[Len(z)] = d[Len(d)] /\ Len(z) = Len(l) + Len(d)
      BY <3>1, <3>3, <3>4
    <3> QED BY <3>4, <3>5
  <2>6. x = z /\ x # <<>> /\ Last(x) = Underscore
    <3>1. Len(b) \in Nat /\ Len(l) \in Nat
      BY LenProperties
    <3>2. Len(z) # 0
      BY <2>2, <2>5, <3>1
    <3>3. x = z
      BY <1>2, <2>3, <2>4, <2>5
    <3> QED BY <2>2, <2>5, <3>2, <3>3, EmptySeq DEF Last
  <2>7. r = b /\ y = x /\ x = lead \o Core(r, <<>>)
    BY <1>2, <2>6 DEF WithSeparator, Ended
  <2> QED BY <2>7
<1>3. CASE w = <<>> /\ b = <<>>
  <2>1. Core(b, w) = <<>> /\ r = <<>> /\ Core(r, <<>>) = <<>>
    BY <1>3 DEF Core, Ended
  <2>2. x = lead
    <3>1. lead \o <<>> = lead
      BY EndText, ConcatEmptySeq
    <3> QED BY <2>1, <3>1
  <2>3. PICK u \in Seq(T) : u = <<Underscore>> /\ Len(u) = 1 /\ u[1] = Underscore
    BY OneElement
  <2>4. u \in Ends /\ u \o <<>> = u
    BY <2>3, ConcatEmptySeq DEF Ends
  <2>5. y = u
    <3>1. CASE lead = <<>>
      <4>1. Append(<<>>, Underscore) = u
        BY <2>3
      <4> QED BY <2>2, <3>1, <4>1 DEF WithSeparator
    <3>2. CASE lead = <<Underscore>>
      <4>1. Last(u) = Underscore /\ u # <<>>
        BY <2>3, EmptySeq DEF Last
      <4> QED BY <2>2, <2>3, <3>2, <4>1 DEF WithSeparator
    <3> QED BY <3>1, <3>2 DEF Ends
  <2> QED BY <2>1, <2>4, <2>5, <1>3
<1> QED BY <1>1, <1>2, <1>3

\* How far the words of a text and the text with its runs shortened have got.
Alike(split, short, words, w, lead, S, T) ==
  /\ words \in Seq(Seq(T)) /\ w \in Seq(T) /\ lead \in Ends
  /\ split = Append(words, w) /\ Letters(w) /\ Neat(Kept(words, S))
  /\ short = lead \o Core(Kept(words, S), w)

\* Both begin empty, and stay alike with each character.
LEMMA AlikeAtStart ==
  ASSUME NEW T, Underscore \in T, NEW S, NEW split, split = Append(<<>>, <<>>)
  PROVE  Alike(split, <<>>, <<>>, <<>>, <<>>, S, T)
<1>1. PICK e \in Seq(T) : e = <<>> /\ Len(e) = 0
  BY EmptySeq
<1>2. e \in Seq(Seq(T))
  BY <1>1, EmptySeq
<1>3. Kept(e, S) = e
  BY <1>1, NothingKept
<1>4. Letters(e) /\ Neat(e) /\ e \in Ends
  BY <1>1 DEF Letters, Neat, Ends
<1>5. Core(e, e) = e /\ e \o e = e
  BY <1>1, ConcatEmptySeq DEF Core
<1>6. Alike(split, e, e, e, e, S, T)
  BY <1>1, <1>2, <1>3, <1>4, <1>5 DEF Alike
<1> QED BY <1>1, <1>6

LEMMA AlikeAfter ==
  ASSUME NEW T, Underscore \in T, NEW S, \A v \in Seq(T) : v \in S <=> v # <<>>, NEW c \in T,
         NEW split, NEW short, NEW words \in Seq(Seq(T)), NEW w \in Seq(T), NEW lead \in Ends, Alike(split, short, words, w, lead, S, T),
         NEW split2, split2 = IF c \in Separators THEN Append(Append(words, w), <<>>) ELSE Append(words, Append(w, c)),
         NEW short2, short2 = IF c \notin Separators \/ short = <<>> \/ Last(short) # Underscore
                                THEN Append(short, IF c \in Separators THEN Underscore ELSE c)
                                ELSE short
  PROVE  \E words2, w2, lead2 : Alike(split2, short2, words2, w2, lead2, S, T)
<1>1. /\ words \in Seq(Seq(T)) /\ w \in Seq(T) /\ lead \in Ends
      /\ split = Append(words, w) /\ Letters(w) /\ Neat(Kept(words, S))
      /\ short = lead \o Core(Kept(words, S), w)
  BY DEF Alike
<1>2. /\ Kept(words, S) \in Seq(T)
      /\ Kept(Append(words, w), S) = IF w \in S THEN Joined(Kept(words, S), w) ELSE Kept(words, S)
  BY <1>1, WordEnded
<1>3. PICK b \in Seq(T) : b = Kept(words, S)
  BY <1>2
<1>4. CASE c \in Separators
  <2> DEFINE r == Ended(b, w)
             y == WithSeparator(short)
  <2>1. Neat(r) /\ \E l \in Ends : y = l \o Core(r, <<>>)
    <3>1. short = lead \o Core(b, w) /\ Letters(w) /\ Neat(b)
      BY <1>1, <1>3
    <3>2. PICK x : x = short
      OBVIOUS
    <3>3. Neat(Ended(b, w)) /\ \E l \in Ends : WithSeparator(x) = l \o Core(Ended(b, w), <<>>)
      BY <3>1, <3>2, SeparatorTaken
    <3> QED BY <3>2, <3>3
  <2>2. PICK l \in Ends : y = l \o Core(r, <<>>)
    BY <2>1
  <2>3. Kept(Append(words, w), S) = r
    BY <1>1, <1>2, <1>3 DEF Ended
  <2>4. short2 = y /\ split2 = Append(Append(words, w), <<>>)
    BY <1>4 DEF WithSeparator
  <2>5. PICK e \in Seq(T) : e = <<>> /\ Letters(e)
    <3>1. <<>> \in Seq(T) /\ Len(<<>>) = 0 /\ \A i \in 1..0 : FALSE
      BY EmptySeq
    <3> QED BY <3>1 DEF Letters
  <2>6. PICK words2 \in Seq(Seq(T)) : words2 = Append(words, w)
    BY <1>1, AppendProperties
  <2> HIDE DEF r, y
  <2>7. Alike(split2, short2, words2, e, l, S, T)
    BY <2>1, <2>2, <2>3, <2>4, <2>5, <2>6 DEF Alike
  <2> QED BY <2>7
<1>5. CASE c \notin Separators
  <2>1. PICK v \in Seq(T) : v = Append(w, c) /\ Len(v) = Len(w) + 1 /\ (\A i \in 1..Len(w) : v[i] = w[i]) /\ v[Len(w) + 1] = c
    <3>1. PICK v \in Seq(T) : v = Append(w, c)
      BY AppendProperties
    <3>2. Len(Append(w, c)) = Len(w) + 1 /\ (\A i \in 1..Len(w) : Append(w, c)[i] = w[i]) /\ Append(w, c)[Len(w) + 1] = c
      BY AppendProperties
    <3> QED BY <3>1, <3>2
  <2>2. Letters(v)
    <3>1. c # Underscore /\ Len(w) \in Nat
      BY <1>1, <1>5, LenProperties DEF Separators
    <3>2. \A i \in 1..Len(v) : i \in 1..Len(w) \/ i = Len(w) + 1
      BY <2>1, <3>1
    <3> QED BY <1>1, <2>1, <3>1, <3>2 DEF Letters
  <2>3. Append(lead \o Core(b, w), c) = lead \o Core(b, v)
    <3>1. Grows(lead, b, w, c)
      BY CoreGrows
    <3> QED BY <2>1, <3>1 DEF Grows
  <2>4. short2 = lead \o Core(b, v) /\ split2 = Append(words, v)
    BY <1>1, <1>3, <1>5, <2>1, <2>3
  <2>5. Alike(split2, short2, words, v, lead, S, T)
    BY <1>1, <1>3, <2>2, <2>4 DEF Alike
  <2> QED BY <2>5
<1> QED BY <1>4, <1>5

\* The words of a text, joined, are the text with its runs of separators shortened and
\* without those at its ends.
LEMMA WordsJoined ==
  ASSUME NEW T, Underscore \in T, NEW text \in Seq(T), NEW S, \A v \in Seq(T) : v \in S <=> v # <<>>
  PROVE  \E lead, trail \in Ends :
           /\ Kept(Split(text), S) \in Seq(T) /\ Neat(Kept(Split(text), S))
           /\ ShortenRuns(text) = (lead \o Kept(Split(text), S)) \o trail
<1> DEFINE N == Len(text)
<1>1. PICK split : Splitting(split, text, T)
  BY SplitUnfolds
<1>2. PICK short : Shortening(short, text, T)
  BY ShortenUnfolds
<1> DEFINE Matches(n) == \E words, w, lead : Alike(split[n], short[n], words, w, lead, S, T)
           holds == [n \in 0..N |-> Matches(n)]
<1>3. N \in Nat /\ 0 \in 0..N /\ N \in 0..N
  BY LenProperties
<1>4. Matches(0)
  <2>1. split[0] = Append(<<>>, <<>>)
    BY <1>1, SplitStart
  <2>2. short[0] = <<>>
    BY <1>2 DEF Shortening
  <2>3. PICK s0 : s0 = split[0]
    OBVIOUS
  <2>4. Alike(s0, <<>>, <<>>, <<>>, <<>>, S, T)
    BY <2>1, <2>3, AlikeAtStart
  <2> QED BY <2>2, <2>3, <2>4
<1>5. ASSUME NEW n \in 1..N, Matches(n - 1) PROVE Matches(n)
  <2>1. PICK words \in Seq(Seq(T)), w \in Seq(T), lead \in Ends : Alike(split[n - 1], short[n - 1], words, w, lead, S, T)
    BY <1>5 DEF Alike
  <2>2. words \in Seq(Seq(T)) /\ w \in Seq(T) /\ split[n - 1] = Append(words, w)
    BY <2>1 DEF Alike
  <2>3. /\ text[n] \in T
        /\ split[n] = IF text[n] \in Separators
                        THEN Append(Append(words, w), <<>>)
                        ELSE Append(words, Append(w, text[n]))
    BY <1>1, <2>2, SplitStep
  <2>4. short[n] = IF text[n] \notin Separators \/ short[n - 1] = <<>> \/ Last(short[n - 1]) # Underscore
                     THEN Append(short[n - 1], IF text[n] \in Separators THEN Underscore ELSE text[n])
                     ELSE short[n - 1]
    BY <1>2 DEF Shortening
  <2>5. PICK s1, h1, s2, h2 : s1 = split[n - 1] /\ h1 = short[n - 1] /\ s2 = split[n] /\ h2 = short[n]
    OBVIOUS
  <2>6. PICK c \in T : c = text[n]
    BY <2>3
  <2>7. Alike(s1, h1, words, w, lead, S, T)
    BY <2>1, <2>5
  <2>8. \E words2, w2, lead2 : Alike(s2, h2, words2, w2, lead2, S, T)
    <3>1. s2 = IF c \in Separators THEN Append(Append(words, w), <<>>) ELSE Append(words, Append(w, c))
      BY <2>3, <2>5, <2>6
    <3>2. h2 = IF c \notin Separators \/ h1 = <<>> \/ Last(h1) # Underscore
                 THEN Append(h1, IF c \in Separators THEN Underscore ELSE c)
                 ELSE h1
      BY <2>4, <2>5, <2>6
    <3> QED BY <2>7, <3>1, <3>2, AlikeAfter
  <2> QED BY <2>5, <2>8
<1>6. Matches(N)
  <2>1. holds \in [0..N -> BOOLEAN] /\ holds[0]
    <3> HIDE DEF Matches, N
    <3>1. \A n \in 0..N : Matches(n) \in BOOLEAN
      BY DEF Matches
    <3> QED BY <1>3, <1>4, <3>1
  <2>2. ASSUME NEW n \in 1..N, holds[n - 1] PROVE holds[n]
    <3>1. n \in 0..N /\ n - 1 \in 0..N
      BY <1>3
    <3> HIDE DEF Matches, N
    <3> QED BY <1>5, <2>2, <3>1
  <2>3. \A n \in 0..N : holds[n]
    <3> HIDE DEF holds, N
    <3> QED BY <1>3, <2>1, <2>2, Stepwise
  <2> HIDE DEF Matches, N
  <2> QED BY <1>3, <2>3
<1>7. PICK words, w, lead : Alike(split[N], short[N], words, w, lead, S, T)
  BY <1>6
<1>8. /\ words \in Seq(Seq(T)) /\ w \in Seq(T) /\ lead \in Ends
      /\ Split(text) = Append(words, w) /\ Letters(w) /\ Neat(Kept(words, S))
      /\ ShortenRuns(text) = lead \o Core(Kept(words, S), w)
  BY <1>1, <1>2, <1>7 DEF Alike, Splitting, Shortening
<1>9. /\ Kept(words, S) \in Seq(T)
      /\ Kept(Split(text), S) = IF w \in S THEN Joined(Kept(words, S), w) ELSE Kept(words, S)
  BY <1>8, WordEnded
<1>10. PICK b \in Seq(T) : b = Kept(words, S) /\ Neat(b)
  BY <1>8, <1>9
<1>11. PICK e \in Seq(T), u \in Seq(T) : e = <<>> /\ u = <<Underscore>> /\ e \in Ends /\ u \in Ends
  BY EmptySeq, OneElement, ZenonT(40) DEF Ends
<1>12. PICK l \in Seq(T) : l = lead
  BY <1>8, EndText
<1> HIDE DEF Matches, N, holds
<1>13. CASE w # <<>>
  <2>1. Neat(Joined(b, w)) /\ Joined(b, w) \in Seq(T)
    BY <1>8, <1>10, <1>13, CoreEnds, JoinedText
  <2>2. PICK r \in Seq(T) : r = Joined(b, w) /\ Neat(r)
    BY <2>1
  <2>3. Kept(Split(text), S) = r
    BY <1>8, <1>9, <1>10, <1>13, <2>2
  <2>4. Core(b, w) = r
    BY <1>13, <2>2 DEF Core, Joined
  <2>5. (l \o r) \o e = l \o r
    <3>1. PICK x \in Seq(T) : x = l \o r
      BY ConcatProperties
    <3> QED BY <1>11, <3>1, ConcatEmptySeq
  <2>6. ShortenRuns(text) = (lead \o r) \o e
    BY <1>8, <1>10, <1>12, <2>4, <2>5
  <2> QED BY <1>8, <1>11, <2>2, <2>3, <2>6
<1>14. CASE w = <<>> /\ b # <<>>
  <2>1. Kept(Split(text), S) = b
    BY <1>8, <1>9, <1>10, <1>14
  <2>2. Core(b, w) = b \o u
    <3>1. PICK x \in Seq(T) : x = b \o u
      BY ConcatProperties
    <3>2. x \o <<>> = x
      BY ConcatEmptySeq
    <3> QED BY <1>11, <1>14, <3>1, <3>2 DEF Core
  <2>3. (l \o b) \o u = l \o (b \o u)
    BY ConcatAssociative
  <2>4. ShortenRuns(text) = (lead \o b) \o u
    BY <1>8, <1>10, <1>12, <2>2, <2>3
  <2> QED BY <1>8, <1>10, <1>11, <2>1, <2>4
<1>15. CASE w = <<>> /\ b = <<>>
  <2>1. Kept(Split(text), S) = b
    BY <1>8, <1>9, <1>10, <1>15
  <2>2. Core(b, w) = e
    BY <1>11, <1>15 DEF Core
  <2>3. (l \o b) \o e = l \o e
    <3>1. l \o b = l /\ l \o e = l
      BY <1>11, <1>15, ConcatEmptySeq
    <3> QED BY <3>1
  <2>4. ShortenRuns(text) = (lead \o b) \o e
    BY <1>8, <1>10, <1>12, <2>2, <2>3
  <2> QED BY <1>8, <1>10, <1>11, <2>1, <2>4
<1> QED BY <1>13, <1>14, <1>15

LEMMA CharactersDiffer == Underscore # Blank
BY Zenon DEF Underscore, Blank

\* The regular expressions of TypeScript give the words that Go joins.
LEMMA TypeScriptJoins ==
  ASSUME NEW T, Underscore \in T, NEW segment \in Seq(T), NEW S, \A v \in Seq(T) : v \in S <=> v # <<>>
  PROVE  normalizeToolSegmentTypeScript(segment) = Kept(Split(TrimSpace(segment)), S)
<1>1. PICK text \in Seq(T) : text = TrimSpace(segment)
  BY Trimmed
<1>2. PICK lead \in Ends, trail \in Ends :
        /\ Kept(Split(text), S) \in Seq(T) /\ Neat(Kept(Split(text), S))
        /\ ShortenRuns(text) = (lead \o Kept(Split(text), S)) \o trail
  BY WordsJoined
<1>3. PICK r \in Seq(T) : r = Kept(Split(text), S) /\ Neat(r)
  BY <1>2
<1>4. PICK short : short = ShortenRuns(text)
  OBVIOUS
<1>5. short = (lead \o r) \o trail
  BY <1>2, <1>3, <1>4
<1>6. Unpadded(short) = r
  BY <1>3, <1>5, Stripped
<1>7. normalizeToolSegmentTypeScript(segment) = Unpadded(short)
  BY <1>1, <1>4 DEF normalizeToolSegmentTypeScript, Unpadded
<1> QED BY ONLY <1>1, <1>3, <1>6, <1>7

\* One text, as the runtimes make part of a name of it.
LEMMA SegmentFits ==
  ASSUME NEW segment \in Text
  PROVE  /\ TrimSpace(segment) \in Text
         /\ normalizeToolSegment(segment) \in Text /\ Len(normalizeToolSegment(segment)) <= Len(TrimSpace(segment))
         /\ normalizeToolSegmentJVM(segment) \in Text /\ Len(normalizeToolSegmentJVM(segment)) <= Len(TrimSpace(segment))
         /\ normalizeToolSegmentTypeScript(segment) = normalizeToolSegment(segment)
<1>1. Text = Seq(Characters) /\ Underscore \in Characters
  BY NamesAssumption DEF Text
<1>2. PICK text \in Seq(Characters) : text = TrimSpace(segment)
  BY <1>1, Trimmed
<1>3. normalizeToolSegment(segment) = Kept(Split(text), NonEmpty) /\ normalizeToolSegmentJVM(segment) = Kept(Split(text), NonBlank)
  BY <1>2 DEF normalizeToolSegment, normalizeToolSegmentJVM, Kept
<1>4. \A v \in Seq(Characters) : v \in NonEmpty <=> v # <<>>
  BY <1>1 DEF NonEmpty
<1>5. normalizeToolSegmentTypeScript(segment) = Kept(Split(TrimSpace(segment)), NonEmpty)
  BY <1>1, <1>4, TypeScriptJoins
<1>6. ASSUME NEW S PROVE Kept(Split(text), S) \in Seq(Characters) /\ Len(Kept(Split(text), S)) <= Len(text)
  BY <1>1, WordsFit
<1> QED BY <1>1, <1>2, <1>3, <1>5, <1>6

\* Without blanks a word that is not empty is not blank.
LEMMA SegmentSame ==
  ASSUME NEW segment \in Text, Blank \notin Range(segment)
  PROVE  normalizeToolSegmentJVM(segment) = normalizeToolSegment(segment)
<1> DEFINE T == Characters \ {Blank}
<1>1. segment \in Seq(Characters) /\ Underscore \in T
  BY NamesAssumption, CharactersDiffer DEF Text
<1>2. segment \in Seq(Range(segment)) /\ Range(segment) \in SUBSET Characters
  BY <1>1, SeqOfRange, RangeOfSeq
<1>3. segment \in Seq(T)
  <2>1. Range(segment) \subseteq T
    BY <1>2
  <2> HIDE DEF T
  <2> QED BY <1>2, <2>1, SeqMonotonic
<1>4. \A v \in Seq(T) : v \in Seq(Characters)
  <2>1. T \subseteq Characters
    OBVIOUS
  <2> HIDE DEF T
  <2> QED BY <2>1, SeqMonotonic
<1>5. \A v \in Seq(T) : v \in NonEmpty <=> v # <<>>
  BY <1>4 DEF NonEmpty, Text
<1>6. \A v \in Seq(T) : v \in NonBlank <=> v # <<>>
  <2>1. ASSUME NEW v \in Seq(T), v # <<>> PROVE v \notin Seq({Blank})
    <3>1. 1 \in 1..Len(v) /\ v[1] \in T
      <4> HIDE DEF T
      <4>1. Len(v) \in Nat \ {0}
        BY <2>1, EmptySeq
      <4>2. 1 \in 1..Len(v)
        BY <4>1
      <4> QED BY <4>2, ElementOfSeq
    <3>2. v[1] # Blank
      BY <3>1
    <3>3. v \in Seq({Blank}) => v[1] \in {Blank}
      BY <3>1, ElementOfSeq
    <3> QED BY <3>2, <3>3
  <2>2. <<>> \in Seq({Blank})
    BY EmptySeq
  <2> QED BY <1>4, <2>1, <2>2 DEF NonBlank, Text
<1> HIDE DEF T
<1>7. normalizeToolSegmentTypeScript(segment) = Kept(Split(TrimSpace(segment)), NonEmpty)
  BY <1>1, <1>3, <1>5, TypeScriptJoins
<1>8. normalizeToolSegmentTypeScript(segment) = Kept(Split(TrimSpace(segment)), NonBlank)
  BY <1>1, <1>3, <1>6, TypeScriptJoins
<1> QED BY <1>7, <1>8 DEF normalizeToolSegment, normalizeToolSegmentJVM, Kept

\* The plugin measures at least what the runtimes put together.
LEMMA NameFits ==
  ASSUME NEW a \in Text, NEW b \in Text, NEW x \in Text, NEW y \in Text,
         Len(a) <= Len(TrimSpace(x)), Len(b) <= Len(TrimSpace(y)), validateToolNameLength(x, y)
  PROVE  Len(Joined(a, b)) <= maxToolNameLength
<1>1. PICK n \in Text, m \in Text : n = normalizeSegment(x) /\ m = normalizeSegment(y) /\ Len(n) = Len(TrimSpace(x)) /\ Len(m) = Len(TrimSpace(y))
  <2>1. ASSUME NEW z \in Text PROVE normalizeSegment(z) \in Text /\ Len(normalizeSegment(z)) = Len(TrimSpace(z))
    <3>1. PICK t \in Seq(Characters) : t = TrimSpace(z)
      BY Trimmed DEF Text
    <3>2. DOMAIN t = 1..Len(t) /\ Len(t) \in Nat /\ (\A i \in 1..Len(t) : t[i] \in Characters) /\ Underscore \in Characters
      BY LenProperties, ElementOfSeq, NamesAssumption
    <3>3. normalizeSegment(z) = [i \in 1..Len(t) |-> IF t[i] = Dot THEN Underscore ELSE t[i]]
      BY <3>1, <3>2 DEF normalizeSegment
    <3> QED BY <3>1, <3>2, <3>3 DEF Text
  <2> QED BY <2>1
<1>2. Len(IF n = <<>> THEN m ELSE n \o <<Underscore>> \o m) <= maxToolNameLength
  BY <1>1 DEF validateToolNameLength
<1>3. Underscore \in Characters /\ maxToolNameLength \in Nat
  BY NamesAssumption
<1>4. /\ Len(n) \in Nat /\ Len(m) \in Nat /\ Len(a) \in Nat /\ Len(b) \in Nat
      /\ (n = <<>> <=> Len(n) = 0) /\ (a = <<>> <=> Len(a) = 0)
  BY LenProperties, EmptySeq DEF Text
<1>5. Joined(a, b) \in Seq(Characters) /\ Len(Joined(a, b)) <= Len(a) + Len(b) + (IF a = <<>> THEN 0 ELSE 1)
  BY <1>3, JoinedText DEF Text
<1>6. Len(Joined(a, b)) \in Nat
  BY <1>5, LenProperties
<1>7. CASE n = <<>>
  <2>1. Len(m) <= maxToolNameLength
    BY <1>2, <1>7
  <2>2. Len(a) = 0 /\ a = <<>>
    BY <1>1, <1>4, <1>7
  <2> QED BY <1>1, <1>3, <1>4, <1>5, <1>6, <2>1, <2>2
<1>8. CASE n # <<>>
  <2>1. PICK u \in Seq(Characters) : u = <<Underscore>> /\ Len(u) = 1
    BY <1>3, OneElement
  <2>2. PICK d \in Seq(Characters) : d = n \o u /\ Len(d) = Len(n) + 1
    <3>1. n \o u \in Seq(Characters) /\ Len(n \o u) = Len(n) + Len(u)
      BY ConcatProperties DEF Text
    <3>2. PICK d \in Seq(Characters) : d = n \o u
      BY <3>1
    <3> QED BY <2>1, <3>1, <3>2
  <2>3. Len(d \o m) = Len(d) + Len(m)
    BY ConcatProperties DEF Text
  <2>4. Len(n) + 1 + Len(m) <= maxToolNameLength
    BY <1>2, <1>8, <2>1, <2>2, <2>3
  <2> QED BY <1>1, <1>3, <1>4, <1>5, <1>6, <2>4
<1> QED BY <1>7, <1>8

\* One name, in each language.
LEMMA NamesInLanguages ==
  ASSUME NEW x \in Text, NEW y \in Text, validateToolNameLength(x, y),
         NEW lang \in {"go", "python", "java", "kotlin", "typescript"}
  PROVE  /\ Len(ToolNameIn(lang, x, y)) <= maxToolNameLength
         /\ Blank \notin Range(x) \cup Range(y) => ToolNameIn(lang, x, y) = ToolNameIn("go", x, y)
<1>1. ASSUME NEW z \in Text
      PROVE  /\ normalizeToolSegment(z) \in Text /\ Len(normalizeToolSegment(z)) <= Len(TrimSpace(z))
             /\ normalizeToolSegmentJVM(z) \in Text /\ Len(normalizeToolSegmentJVM(z)) <= Len(TrimSpace(z))
             /\ normalizeToolSegmentTypeScript(z) = normalizeToolSegment(z)
  BY SegmentFits
<1> DEFINE go == Joined(normalizeToolSegment(x), normalizeToolSegment(y))
           jvm == Joined(normalizeToolSegmentJVM(x), normalizeToolSegmentJVM(y))
<1>2. Len(go) <= maxToolNameLength
  BY <1>1, NameFits
<1>3. Len(jvm) <= maxToolNameLength
  BY <1>1, NameFits
<1>4. Blank \notin Range(x) \cup Range(y) => jvm = go
  BY SegmentSame
<1>5. Joined(normalizeToolSegmentTypeScript(x), normalizeToolSegmentTypeScript(y)) = go
  BY <1>1
<1> HIDE DEF go, jvm
<1>6. ToolNameIn("go", x, y) = go
  BY DEF ToolNameIn, go
<1>7. ToolNameIn(lang, x, y) = IF lang \in {"java", "kotlin"} THEN jvm ELSE go
  BY <1>5 DEF ToolNameIn, go, jvm
<1> QED BY <1>2, <1>3, <1>4, <1>6, <1>7

\* What protoc hands over as the parts of a tool's name.
LEMMA MethodTexts ==
  ASSUME ProjectKnown, NEW f \in Range(Files), NEW m \in Range(Tools(f))
  PROVE  Namespace(m) \in Text /\ MethodName(m) \in Text
<1>1. PICK methods : methods = project.methods[f]
  OBVIOUS
<1>2. project \in Projects /\ f \in DOMAIN project.methods
  <2>1. project \in Projects /\ project.files \in Seq(DOMAIN project.methods)
    BY ProjectsAssumption DEF ProjectKnown
  <2>2. Range(project.files) \subseteq DOMAIN project.methods
    BY <2>1, RangeOfSeq
  <2> QED BY <2>1, <2>2 DEF Files
<1>3. methods \in Seq(Range(methods)) /\ \A k \in Range(methods) : {k.namespace, k.option, k.name} \subseteq Text
  BY <1>1, <1>2, ProjectsAssumption DEF IsSequence
<1>4. m \in Range(methods)
  BY <1>1, <1>3, OnlyElements DEF Tools
<1>5. m.namespace \in Text /\ m.option \in Text /\ m.name \in Text
  BY <1>3, <1>4
<1>6. \A x \in Text : TrimSpace(x) \in Text
  BY SegmentFits
<1> QED BY <1>5, <1>6 DEF Namespace, MethodName

\* A name that validateToolNameLength let through is within the limit in every language,
\* though each runtime normalises it with code of its own; and, without blanks inside,
\* words joined by underscores are the same text as runs shortened and ends stripped.
THEOREM NamesFit == Spec => []ToolNamesFit
<1>1. IInv => ToolNamesFit
  <2> SUFFICES ASSUME IInv, stage = "done", NEW f \in DOMAIN models, NEW m \in Range(models[f].tools),
                      NEW lang \in {"go", "python", "java", "kotlin", "typescript"}
               PROVE  /\ Len(ToolNameIn(lang, Namespace(m), MethodName(m))) <= maxToolNameLength
                      /\ Blank \notin Range(Namespace(m)) \cup Range(MethodName(m)) =>
                           ToolNameIn(lang, Namespace(m), MethodName(m)) = ToolNameIn("go", Namespace(m), MethodName(m))
    BY DEF ToolNamesFit
  <2>1. ProjectKnown /\ f \in Range(Files) /\ ~Flawed(f) /\ models[f].tools = Tools(f)
    BY ProjectFacts DEF IInv, ModelsCollected, IsModel
  <2>2. validateToolNameLength(Namespace(m), MethodName(m))
    BY <2>1 DEF Flawed
  <2>3. PICK x \in Text, y \in Text : x = Namespace(m) /\ y = MethodName(m)
    BY <2>1, MethodTexts
  <2> QED BY <2>2, <2>3, NamesInLanguages
<1> QED BY <1>1, RunInvariant, PTL

-----------------------------------------------------------------------------
(* Prompts on a server *)

\* A key that is the JSON name of a field is taken by that field and no other.
LEMMA NamedOnce ==
  ASSUME NEW t, IsSequence(fields[t]), ~Crossed(t), NEW k \in DOMAIN fields[t]
  PROVE  /\ Named(t, fields[t][k].json) = k /\ k # 0
         /\ \A i \in DOMAIN fields[t] : fields[t][i].json = fields[t][k].json => i = k
<1> DEFINE F == fields[t]
           named == {i \in DOMAIN F : F[k].json \in {F[i].json, F[i].name}}
<1>1. F \in Seq(Range(F))
  BY DEF IsSequence
<1> HIDE DEF F
<1>2. DOMAIN F = 1..Len(F) /\ Len(F) \in Nat
  BY <1>1, LenProperties
<1>3. \A i, j \in 1..Len(F) : i < j => F[j].json \notin {F[i].json, F[i].name}
  BY <1>2 DEF Crossed, F
<1>4. k \in 1..Len(F)
  BY <1>2 DEF F
<1>5. k \in named
  BY <1>2, <1>4
<1>6. \A i \in named : i \in 1..Len(F) /\ k <= i
  <2> SUFFICES ASSUME NEW i \in named PROVE i \in 1..Len(F) /\ k <= i
    OBVIOUS
  <2>1. i \in 1..Len(F) /\ F[k].json \in {F[i].json, F[i].name}
    BY <1>2
  <2>2. ~(i < k)
    BY <1>3, <1>4, <2>1
  <2> QED BY <1>4, <2>1, <2>2
<1>7. Min(named) = k
  <2>1. \A y \in named : (\A x \in named : y <= x) => y = k
    <3> HIDE DEF named
    <3> QED BY <1>4, <1>5, <1>6
  <2> HIDE DEF named
  <2>2. \E y \in named : \A x \in named : y <= x
    BY <1>5, <1>6
  <2> QED BY <2>1, <2>2 DEF Min
<1>8. Named(t, F[k].json) = k
  <2>1. Named(t, F[k].json) = IF named = {} THEN 0 ELSE Min(named)
    BY DEF Named, F
  <2> QED BY <1>5, <1>7, <2>1
<1>9. \A i \in 1..Len(F) : F[i].json = F[k].json => i = k
  <2> SUFFICES ASSUME NEW i \in 1..Len(F), F[i].json = F[k].json PROVE i = k
    OBVIOUS
  <2>1. ~(i < k) /\ ~(k < i)
    BY <1>3, <1>4
  <2> QED BY <1>4, <2>1
<1> QED BY <1>2, <1>4, <1>8, <1>9 DEF F

\* Arguments under the names of prompts/list give each field what was said for it.
LEMMA ArgumentsParsed ==
  ASSUME NEW t, IsSequence(fields[t]), ~Crossed(t), NEW args,
         DOMAIN args \subseteq ListedArguments(t), Complete(t, args), Raised \notin Range(Listed("go", t, args))
  PROVE  ParsePromptArguments(t, args) = {Listed("go", t, args)}
<1> DEFINE F == fields[t]
           said == Listed("go", t, args)
           known == {key \in DOMAIN args : Named(t, key) # 0}
           parsed == [key \in known |-> parseScalarValue(F[Named(t, key)], args[key])]
           values(i) == {parsed[key] : key \in {k \in known : Named(t, k) = i}}
           choices(i) == IF values(i) = {} THEN {Absent} ELSE values(i)
<1>1. /\ DOMAIN said = DOMAIN F
      /\ \A i \in DOMAIN F : said[i] = IF F[i].json \in DOMAIN args THEN parseScalarValue(F[i], args[F[i].json]) ELSE Absent
      /\ said = [i \in DOMAIN F |-> said[i]]
  BY DEF Listed
<1> HIDE DEF said
<1>2. \A key \in DOMAIN args : \E i \in DOMAIN F : key = F[i].json
  BY DEF ListedArguments
<1>3. \A i \in DOMAIN F : Named(t, F[i].json) = i /\ i # 0
  BY NamedOnce
<1>4. \A i \in DOMAIN F : \A key \in DOMAIN args : Named(t, key) = i <=> key = F[i].json
  BY <1>2, <1>3
<1>5. known = DOMAIN args
  BY <1>2, <1>3
<1>6. ASSUME NEW key \in known PROVE parsed[key] # Raised
  <2>1. PICK i \in DOMAIN F : key = F[i].json /\ Named(t, key) = i
    BY <1>2, <1>3, <1>5
  <2>2. parsed[key] = said[i]
    BY <1>1, <1>5, <2>1
  <2> QED BY <1>1, <2>1, <2>2 DEF Range, said
<1>7. ASSUME NEW i \in DOMAIN F PROVE choices(i) = {said[i]}
  <2>1. CASE F[i].json \in DOMAIN args
    <3>1. {k \in known : Named(t, k) = i} = {F[i].json}
      BY <1>4, <1>5, <2>1
    <3>2. parsed[F[i].json] = said[i]
      BY <1>1, <1>3, <1>5, <2>1
    <3>3. values(i) = {said[i]}
      BY <3>1, <3>2
    <3> QED BY <3>3
  <2>2. CASE F[i].json \notin DOMAIN args
    <3>1. values(i) = {}
      BY <1>4, <1>5, <2>2
    <3> QED BY <1>1, <2>2, <3>1
  <2> QED BY <2>1, <2>2
<1>8. ParsePromptArguments(t, args) =
        IF ~Complete(t, args) \/ \E key \in known : parsed[key] = Raised
          THEN {Raised}
          ELSE {got \in [DOMAIN F -> UNION {choices(i) : i \in DOMAIN F}] : \A i \in DOMAIN got : got[i] \in choices(i)}
  BY DEF ParsePromptArguments
<1> HIDE DEF choices, values, parsed, known
<1>9. \A got \in [DOMAIN F -> UNION {choices(i) : i \in DOMAIN F}] :
        (\A i \in DOMAIN got : got[i] \in choices(i)) => got = said
  BY <1>1, <1>7
<1>10. said \in [DOMAIN F -> UNION {choices(i) : i \in DOMAIN F}] /\ \A i \in DOMAIN said : said[i] \in choices(i)
  BY <1>1, <1>7
<1>11. {got \in [DOMAIN F -> UNION {choices(i) : i \in DOMAIN F}] : \A i \in DOMAIN got : got[i] \in choices(i)} = {said}
  BY <1>9, <1>10
<1>12. Complete(t, args) /\ ~(\E key \in known : parsed[key] = Raised)
  BY <1>6
<1>13. ParsePromptArguments(t, args) = {said}
  BY <1>8, <1>11, <1>12
<1> QED BY <1>13 DEF said

\* What has been registered, and a request for a prompt that was listed.
Asked ==
  /\ request.listed \in ListedPrompts
  /\ request.prompt = PromptNamed(project.prompts[request.listed])
  /\ request.got \in PromptInputs(opts.lang, request.prompt, request.args)

\* A request for a resource, by a URI that was made from it.
Reading ==
  /\ request.resource \in Range(Added("resources"))
  /\ request.values \in Range(request.resource.instances) \cup request.resource.unlisted
  /\ request.uri = IF IsTemplate(request.resource)
                     THEN Fill(request.resource.template, request.values)
                     ELSE request.resource.uri
  /\ request.got = handleResourcesRead(Added("resources"), request.uri)

RegisteredKnown ==
  /\ IsSequence(registered)
  /\ registered # <<>> => stage = "done"
  /\ \A r \in Range(registered) :
       /\ r.what = "prompts" => r.added \in Seq(Types)
       /\ r.what = "resources" => r.added \in Seq(Range(project.resources))

ServingInv ==
  /\ RegisteredKnown
  /\ request.step # "none" => stage = "done"
  /\ request.step = "prompted" => Asked
  /\ request.step = "read" => Reading

\* A run that is done stays as it is.
LEMMA DoneStays ==
  ASSUME stage = "done", [Next]_run
  PROVE  UNCHANGED run
<1>1. ~ReadParam /\ ~RejectParam /\ ~Options /\ ~SkipFile /\ ~RefuseFile /\ ~CollectFile
  BY DEF ReadParam, RejectParam, Options, SkipFile, RefuseFile, CollectFile
<1>2. ~CollectTypes /\ ~CollectedFile /\ ~CollectedAll /\ ~AugmentFile /\ ~AugmentedFile /\ ~Augmented
  BY DEF CollectTypes, CollectedFile, CollectedAll, AugmentFile, AugmentedFile, Augmented
<1>3. ~RenderPython /\ ~Render /\ ~Rendered
  BY DEF RenderPython, Render, Rendered
<1> QED BY <1>1, <1>2, <1>3 DEF Next, Generate

\* Prompts that are served are messages.
LEMMA ServedKnown ==
  ASSUME ServingInv
  PROVE  ServedPrompts \in Seq(Types)
<1> DEFINE wanted == {r \in Range(registered) : r.what = "prompts"}
           files == Only(registered, wanted)
           parts == [i \in DOMAIN registered |-> IF registered[i].what = "prompts" THEN registered[i].added ELSE <<>>]
           R == Range(registered)
<1>1. registered \in Seq(R) /\ DOMAIN registered = 1..Len(registered) /\ Len(registered) \in Nat
  <2>1. registered \in Seq(R)
    BY DEF ServingInv, RegisteredKnown, IsSequence
  <2> HIDE DEF R
  <2> QED BY <2>1, LenProperties
<1>2. files \in Seq(R) /\ Range(files) = R \cap wanted
  <2> HIDE DEF wanted
  <2> QED BY <1>1, OnlyElements
<1>3. ASSUME files # <<>> PROVE Last(files).added \in Seq(Types)
  <2> HIDE DEF files
  <2>1. Len(files) \in 1..Len(files) /\ DOMAIN files = 1..Len(files)
    BY <1>2, <1>3, EmptySeq, LenProperties
  <2>2. Last(files) \in Range(files)
    BY <2>1 DEF Last, Range
  <2>3. Last(files) \in wanted
    BY <1>2, <2>2
  <2> QED BY <2>3 DEF ServingInv, RegisteredKnown
<1>4. parts \in Seq(Seq(Types))
  <2>1. \A i \in 1..Len(registered) : parts[i] \in Seq(Types)
    <3> SUFFICES ASSUME NEW i \in 1..Len(registered) PROVE parts[i] \in Seq(Types)
      OBVIOUS
    <3>1. registered[i] \in Range(registered)
      BY <1>1 DEF Range
    <3>2. <<>> \in Seq(Types)
      BY EmptySeq
    <3> QED BY <1>1, <3>1, <3>2 DEF ServingInv, RegisteredKnown
  <2> QED BY <1>1, <2>1
<1>5. Added("prompts") \in Seq(Types)
  <2>1. Added("prompts") = FlattenSeq(parts)
    BY DEF Added
  <2> HIDE DEF parts
  <2> QED BY <1>4, <2>1, FlattenElements
<1>6. Reverse(Added("prompts")) \in Seq(Types)
  <2>1. PICK a \in Seq(Types) : a = Added("prompts")
    BY <1>5
  <2>2. Len(a) \in Nat /\ \A i \in 1..Len(a) : Len(a) - i + 1 \in 1..Len(a)
    BY LenProperties
  <2>3. \A i \in 1..Len(a) : a[(Len(a) - i) + 1] \in Types
    BY <2>2, ElementOfSeq
  <2> QED BY <2>1, <2>2, <2>3 DEF Reverse
<1>7. <<>> \in Seq(Types)
  BY EmptySeq
<1> HIDE DEF files
<1>8. ServedPrompts = CASE files = <<>> -> <<>>
                        [] files # <<>> /\ opts.lang = "typescript" -> Last(files).added
                        [] OTHER -> Reverse(Added("prompts"))
  BY DEF ServedPrompts, files
<1> QED BY <1>3, <1>6, <1>7, <1>8

\* ParsePromptArguments as an operator on the fields of a message.
ParseFields(F, args) ==
  LET named(key) ==
        LET found == {i \in DOMAIN F : key \in {F[i].json, F[i].name}} IN IF found = {} THEN 0 ELSE Min(found)
      known == {key \in DOMAIN args : named(key) # 0}
      parsed == [key \in known |-> parseScalarValue(F[named(key)], args[key])]
      values(i) == {parsed[key] : key \in {k \in known : named(k) = i}}
      choices(i) == IF values(i) = {} THEN {Absent} ELSE values(i)
      complete == {F[i].json : i \in {i \in DOMAIN F : F[i].card = "implicit"}} \subseteq DOMAIN args
  IN IF ~complete \/ \E key \in known : parsed[key] = Raised
       THEN {Raised}
       ELSE {got \in [DOMAIN F -> UNION {choices(i) : i \in DOMAIN F}] : \A i \in DOMAIN got : got[i] \in choices(i)}

\* What depends on the run and on what has been registered.
LEMMA ServingFixed ==
  ASSUME UNCHANGED <<run, registered>>
  PROVE  /\ ListedPrompts' = ListedPrompts
         /\ \A name : PromptNamed(name)' = PromptNamed(name)
         /\ \A lang, t, args : PromptInputs(lang, t, args)' = PromptInputs(lang, t, args)
<1>1. fields' = fields /\ opts' = opts /\ project' = project /\ registered' = registered
  BY DEF run
<1>2. Added("prompts")' = Added("prompts")
  BY <1>1 DEF Added
<1>3. ServedPrompts' = ServedPrompts
  BY <1>1, <1>2 DEF ServedPrompts
<1>4. \A name : PromptNamed(name)' = PromptNamed(name)
  BY <1>1, <1>3 DEF PromptNamed
<1>5. ListedPrompts' = ListedPrompts
  BY <1>1, <1>3, <1>4 DEF ListedPrompts
<1>6. \A t, key : Named(t, key)' = Named(t, key)
  BY <1>1 DEF Named
<1>7. \A t, args : Complete(t, args)' = Complete(t, args)
  BY <1>1 DEF Complete, Required
<1>8. \A t, args : ParsePromptArguments(t, args)' = ParsePromptArguments(t, args)
  <2> SUFFICES ASSUME NEW t, NEW args
               PROVE  ParsePromptArguments(t, args)' = ParsePromptArguments(t, args)
    OBVIOUS
  <2>1. ParsePromptArguments(t, args) = ParseFields(fields[t], args)
    BY Zenon DEF ParsePromptArguments, ParseFields, Named, Complete, Required
  <2>2. ParsePromptArguments(t, args)' = ParseFields(fields'[t], args)
    BY Zenon DEF ParsePromptArguments, ParseFields, Named, Complete, Required
  <2>3. fields'[t] = fields[t]
    BY <1>1
  <2> QED BY <2>1, <2>2, <2>3, Zenon
<1>9. \A lang, t, args : PromptInputs(lang, t, args)' = PromptInputs(lang, t, args)
  <2> SUFFICES ASSUME NEW lang, NEW t, NEW args
               PROVE  PromptInputs(lang, t, args)' = PromptInputs(lang, t, args)
    OBVIOUS
  <2>1. Complete(t, args)' = Complete(t, args) /\ ParsePromptArguments(t, args)' = ParsePromptArguments(t, args)
    BY <1>7, <1>8
  <2> QED BY <2>1, Zenon DEF PromptInputs
<1> QED BY <1>4, <1>5, <1>9

\* An answer stands for as long as nothing is registered.
LEMMA AskedKept ==
  ASSUME Asked, UNCHANGED <<run, serving>>
  PROVE  Asked'
<1>1. /\ ListedPrompts' = ListedPrompts
      /\ \A name : PromptNamed(name)' = PromptNamed(name)
      /\ \A lang, t, args : PromptInputs(lang, t, args)' = PromptInputs(lang, t, args)
  BY ServingFixed DEF serving
<1>2. opts' = opts /\ project' = project /\ request' = request
  BY DEF run, serving
<1>3. PICK r : r = request
  OBVIOUS
<1>4. PICK name : name = project.prompts[r.listed]
  OBVIOUS
<1>5. r.listed \in ListedPrompts' /\ r.prompt = PromptNamed(name)' /\ r.got \in PromptInputs(opts.lang, r.prompt, r.args)'
  BY <1>1, <1>2, <1>3, <1>4 DEF Asked
<1>6. PromptNamed(name)' = PromptNamed(project.prompts[request.listed])'
  BY <1>2, <1>3, <1>4 DEF PromptNamed
<1>7. PromptInputs(opts.lang, r.prompt, r.args)' = PromptInputs(opts.lang, request.prompt, request.args)'
  BY <1>2, <1>3
<1> QED BY <1>2, <1>3, <1>5, <1>6, <1>7 DEF Asked

\* So does the answer to a read.
LEMMA ReadingKept ==
  ASSUME Reading, UNCHANGED <<run, serving>>
  PROVE  Reading'
<1>1. registered' = registered /\ request' = request
  BY DEF serving
<1>2. Added("resources")' = Added("resources")
  BY <1>1 DEF Added
<1> QED BY <1>1, <1>2 DEF Reading

\* While nothing is registered, what has been registered is known.
LEMMA RegisteredKept ==
  ASSUME ServingInv, UNCHANGED registered, project' = project,
         registered # <<>> => stage' = stage
  PROVE  RegisteredKnown'
BY DEF ServingInv, RegisteredKnown, IsSequence

\* A Register function adds the prompts or the resources of its file.
LEMMA RegisterKeeps ==
  ASSUME IInv, ServingInv, NEW f \in DOMAIN models, RegisterPrompts(f) \/ RegisterResources(f)
  PROVE  ServingInv'
<1>0. ProjectKnown /\ f \in Range(Files) /\ IsModel(f, models[f]) /\ stage = "done"
  <2>1. stage = "done"
    BY DEF RegisterPrompts, RegisterResources, Register, Ready
  <2>2. DOMAIN models = project.generate
    BY <2>1 DEF IInv, ModelsCollected
  <2> QED BY <2>1, <2>2, ProjectFacts DEF IInv, ModelsCollected
<1>1. models[f].prompts \in Seq(Types)
  <2>1. models[f].prompts = Prompts(f, project.prompts)
    BY <1>0 DEF IsModel
  <2>2. TypesOf[f] \in Seq(Types)
    BY <1>0, ProjectFacts
  <2> QED BY <2>1, <2>2, OnlyElements DEF Prompts
<1>2. models[f].resources \in Seq(Range(project.resources))
  <2>1. models[f].resources = Resources(f, project.resources)
    BY <1>0 DEF IsModel
  <2>2. project.resources \in Seq(Range(project.resources))
    BY <1>0, ProjectsAssumption DEF ProjectKnown, IsSequence
  <2> QED BY <2>1, <2>2, OnlyElements DEF Resources
<1>3. PICK e : /\ registered' = Append(registered, e)
               /\ e.what = "prompts" => e.added \in Seq(Types)
               /\ e.what = "resources" => e.added \in Seq(Range(project.resources))
               /\ request.step = "none" /\ request' = request /\ stage' = stage /\ project' = project
  <2>1. CASE RegisterPrompts(f)
    <3>1. Register("prompts", f, models[f].prompts)
      BY <2>1 DEF RegisterPrompts
    <3> DEFINE e == [what |-> "prompts", file |-> f, added |-> models[f].prompts]
    <3>2. e.added \in Seq(Types) /\ e.what = "prompts" /\ registered' = Append(registered, e)
      BY <1>1, <3>1 DEF Register
    <3>3. request.step = "none" /\ request' = request /\ stage' = stage /\ project' = project
      BY <3>1 DEF Register, Ready, run
    <3> QED BY <3>2, <3>3
  <2>2. CASE RegisterResources(f)
    <3>1. PICK n \in 0..Len(models[f].resources) : Register("resources", f, SubSeq(models[f].resources, 1, n))
      BY <2>2 DEF RegisterResources
    <3> DEFINE e == [what |-> "resources", file |-> f, added |-> SubSeq(models[f].resources, 1, n)]
    <3>2. SubSeq(models[f].resources, 1, n) \in Seq(Range(project.resources))
      <4>1. PICK R, all : R = Range(project.resources) /\ all = models[f].resources /\ all \in Seq(R)
        BY <1>2
      <4>2. Len(all) \in Nat /\ n \in 0..Len(all)
        <5>1. Len(all) \in Nat
          BY <4>1, LenProperties
        <5> QED BY <4>1, <5>1
      <4>3. \A i \in 1..n : all[i] \in R
        <5>1. \A i \in 1..n : i \in 1..Len(all)
          BY <4>2
        <5> QED BY <4>1, <5>1, ElementOfSeq
      <4>4. SubSeq(all, 1, n) \in Seq(R)
        BY <4>2, <4>3
      <4> QED BY <4>1, <4>4
    <3>3. e.what = "resources" /\ e.added \in Seq(Range(project.resources)) /\ registered' = Append(registered, e)
      BY <3>1, <3>2 DEF Register
    <3>4. request.step = "none" /\ request' = request /\ stage' = stage /\ project' = project
      BY <3>1 DEF Register, Ready, run
    <3> QED BY <3>3, <3>4
  <2> QED BY <2>1, <2>2
<1>4. PICK R : R = Range(registered) /\ registered \in Seq(R \cup {e})
  <2>1. registered \in Seq(Range(registered))
    BY DEF ServingInv, RegisteredKnown, IsSequence
  <2> QED BY <2>1, SeqMonotonic
<1>5. Append(registered, e) \in Seq(R \cup {e}) /\ Range(Append(registered, e)) = R \cup {e}
  BY <1>4, AppendedElement
<1>6. IsSequence(registered)' /\ Range(registered)' = R \cup {e}
  BY <1>3, <1>5 DEF IsSequence
<1>7. RegisteredKnown'
  <2>1. \A r \in R : /\ r.what = "prompts" => r.added \in Seq(Types)
                     /\ r.what = "resources" => r.added \in Seq(Range(project.resources))
    BY <1>4 DEF ServingInv, RegisteredKnown
  <2>2. \A r \in R \cup {e} : /\ r.what = "prompts" => r.added \in Seq(Types)
                              /\ r.what = "resources" => r.added \in Seq(Range(project.resources))
    BY <1>3, <2>1
  <2>3. stage' = "done" /\ project' = project
    BY <1>0, <1>3
  <2> QED BY <1>6, <2>2, <2>3 DEF RegisteredKnown
<1> QED BY <1>3, <1>7 DEF ServingInv

\* Whatever is registered, asked or generated keeps the invariant of the server.
LEMMA ServingKeeps ==
  ASSUME IInv, ServingInv, [ServingNext]_<<run, serving>>
  PROVE  ServingInv'
<1>1. CASE [Next]_run /\ UNCHANGED serving
  <2>1. registered' = registered /\ request' = request
    BY <1>1 DEF serving
  <2>2. CASE stage = "done"
    <3>1. UNCHANGED run /\ stage' = stage /\ project' = project
      BY <1>1, <2>2, DoneStays DEF run
    <3>2. RegisteredKnown'
      BY <2>1, <3>1, RegisteredKept
    <3>3. request.step = "prompted" => Asked'
      BY <1>1, <3>1, AskedKept DEF ServingInv
    <3>4. request.step = "read" => Reading'
      BY <1>1, <3>1, ReadingKept DEF ServingInv
    <3> QED BY <2>1, <2>2, <3>1, <3>2, <3>3, <3>4 DEF ServingInv
  <2>3. CASE stage # "done"
    <3>1. registered = <<>> /\ request.step = "none"
      BY <2>3 DEF ServingInv, RegisteredKnown
    <3>2. IsSequence(<<>>) /\ Range(<<>>) = {}
      BY DEF IsSequence, Range
    <3> QED BY <2>1, <3>1, <3>2 DEF ServingInv, RegisteredKnown, IsSequence
  <2> QED BY <2>2, <2>3
<1>2. ASSUME NEW f \in DOMAIN models, RegisterPrompts(f) \/ RegisterResources(f) PROVE ServingInv'
  BY <1>2, RegisterKeeps
<1>3. CASE GetPrompt \/ ReadResource
  <2>1. /\ UNCHANGED <<run, registered>> /\ stage = "done" /\ stage' = "done"
        /\ project' = project /\ opts' = opts /\ registered' = registered
    BY <1>3 DEF GetPrompt, ReadResource, run
  <2>2. RegisteredKnown'
    BY <2>1, RegisteredKept
  <2>3. CASE ReadResource
    <3>1. PICK r, values, uri :
            /\ r \in Range(Added("resources")) /\ values \in Range(r.instances) \cup r.unlisted
            /\ uri = IF IsTemplate(r) THEN Fill(r.template, values) ELSE r.uri
            /\ request' = [step |-> "read", resource |-> r, values |-> values, uri |-> uri,
                           got |-> handleResourcesRead(Added("resources"), uri)]
      BY <2>3 DEF ReadResource
    <3>2. PICK added : added = Added("resources")
      OBVIOUS
    <3>3. Added("resources")' = added
      BY <2>1, <3>2 DEF Added
    <3>4. /\ request'.step = "read" /\ request'.resource = r /\ request'.values = values /\ request'.uri = uri
          /\ request'.got = handleResourcesRead(added, uri)
      BY <3>1, <3>2
    <3>5. Reading'
      BY <3>1, <3>2, <3>3, <3>4 DEF Reading
    <3> QED BY <2>1, <2>2, <3>4, <3>5 DEF ServingInv
  <2>4. CASE GetPrompt
    <3>1. PICK t, args, got, prompt :
            /\ t \in ListedPrompts
            /\ prompt = PromptNamed(project.prompts[t]) /\ got \in PromptInputs(opts.lang, prompt, args)
            /\ request' = [step |-> "prompted", listed |-> t, args |-> args, prompt |-> prompt, got |-> got]
      BY <2>4 DEF GetPrompt
    <3>2. /\ request'.listed = t /\ request'.prompt = prompt /\ request'.args = args /\ request'.got = got
          /\ request'.step = "prompted"
      BY <3>1
    <3>3. PICK name : name = project.prompts[t]
      OBVIOUS
    <3>4. t \in ListedPrompts' /\ prompt = PromptNamed(name)' /\ got \in PromptInputs(opts.lang, prompt, args)'
      BY <2>1, <3>1, <3>2, <3>3, ServingFixed
    <3>5. PromptNamed(name)' = PromptNamed(project.prompts[request.listed])'
      BY <2>1, <3>2, <3>3 DEF PromptNamed
    <3>6. PromptInputs(opts.lang, prompt, args)' = PromptInputs(opts.lang, request.prompt, request.args)'
      BY <2>1, <3>2
    <3>7. Asked'
      BY <2>1, <3>2, <3>4, <3>5, <3>6 DEF Asked
    <3> QED BY <2>1, <2>2, <3>2, <3>7 DEF ServingInv
  <2> QED BY <1>3, <2>3, <2>4
<1> QED BY <1>1, <1>2, <1>3 DEF ServingNext, Serve, serving

\* Steps of the server leave the run of the plugin alone.
LEMMA ServingMoves ==
  ASSUME [ServingNext]_<<run, serving>>
  PROVE  [Next]_run
BY DEF ServingNext, Serve, RegisterPrompts, RegisterResources, Register, GetPrompt, ReadResource

\* What has been registered on a server are prompts and resources of the files, whose run
\* is over, an answer to prompts/get is for the prompt that its name stands for, and one to
\* resources/read for a URI that was made from a resource.
THEOREM ServingInvariant == ServingSpec => [](IInv /\ ServingInv)
<1>1. Init /\ ServingInit => IInv /\ ServingInv
  <2> SUFFICES ASSUME Init, ServingInit PROVE IInv /\ ServingInv
    OBVIOUS
  <2>1. IInv
    BY InitKeeps
  <2>2. registered = <<>> /\ request.step = "none"
    BY DEF ServingInit, NoRequest
  <2>3. IsSequence(<<>>) /\ Range(<<>>) = {}
    BY DEF IsSequence, Range
  <2> QED BY <2>1, <2>2, <2>3 DEF ServingInv, RegisteredKnown
<1>2. IInv /\ ServingInv /\ [ServingNext]_<<run, serving>> => IInv' /\ ServingInv'
  BY StepKeeps, ServingKeeps, ServingMoves
<1> QED BY <1>1, <1>2, PTL DEF ServingSpec

\* A prompt that is listed under a name of its own is the prompt that prompts/get reaches,
\* and ParsePromptArguments gives each field what the client said for it, in whatever
\* order the map of arguments is read.
THEOREM ArgumentsArrive == ServingSpec => []PromptArgumentsArrive
<1>1. IInv /\ ServingInv => PromptArgumentsArrive
  <2> DEFINE listed == request.listed
             name == project.prompts[listed]
  <2> SUFFICES ASSUME IInv, ServingInv, request.step = "prompted",
                      \A u \in ListedPrompts : project.prompts[u] = name => u = listed,
                      ~Crossed(listed), DOMAIN request.args \subseteq ListedArguments(listed),
                      Complete(listed, request.args), Raised \notin Range(Listed("go", listed, request.args))
               PROVE  request.prompt = listed /\ request.got = Listed(opts.lang, listed, request.args)
    BY DEF PromptArgumentsArrive
  <2>1. /\ listed \in ListedPrompts /\ request.prompt = PromptNamed(name)
        /\ request.got \in PromptInputs(opts.lang, request.prompt, request.args)
    BY DEF ServingInv, Asked
  <2>2. ServedPrompts \in Seq(Types) /\ listed \in Range(ServedPrompts) /\ Range(ServedPrompts) \subseteq Types
    BY <2>1, ServedKnown, RangeOfSeq DEF ListedPrompts
  <2>3. PromptNamed(name) = listed
    <3>1. CASE opts.lang # "typescript"
      BY <2>1, <3>1 DEF ListedPrompts
    <3>2. CASE opts.lang = "typescript"
      <4> DEFINE same == {t \in Range(ServedPrompts) : project.prompts[t] = name}
                 found == Only(ServedPrompts, same)
      <4>1. ListedPrompts = Range(ServedPrompts)
        BY <3>2 DEF ListedPrompts
      <4>2. found \in Seq(Types) /\ Range(found) = Range(ServedPrompts) \cap same
        <5> HIDE DEF same
        <5> QED BY <2>2, OnlyElements
      <4>3. listed \in Range(found)
        BY <2>2, <4>2
      <4> HIDE DEF found
      <4>4. found # <<>> /\ Head(found) \in Range(found)
        <5>1. found # <<>>
          BY <4>3 DEF Range
        <5>2. 1 \in DOMAIN found /\ Head(found) = found[1]
          BY <4>2, <5>1, LenProperties, EmptySeq
        <5> QED BY <5>1, <5>2 DEF Range
      <4>5. Head(found) = listed
        BY <4>1, <4>2, <4>4
      <4> QED BY <4>5 DEF PromptNamed, found
    <3> QED BY <3>1, <3>2
  <2>4. IsSequence(fields[listed])
    <3>1. listed \in Types /\ project \in Projects /\ fields = project.fields
      BY <2>2 DEF IInv, ProjectKnown
    <3> QED BY <3>1, ProjectsAssumption
  <2>5. PICK t, args : t = listed /\ args = request.args
    OBVIOUS
  <2>6. request.got \in PromptInputs(opts.lang, t, args)
    BY <2>1, <2>3, <2>5
  <2>7. request.got = Listed(opts.lang, t, args)
    <3>1. CASE opts.lang = "go"
      <4>1. ParsePromptArguments(t, args) = {Listed("go", t, args)}
        BY <2>4, <2>5, ArgumentsParsed
      <4> QED BY <2>6, <3>1, <4>1 DEF PromptInputs
    <3>2. CASE opts.lang # "go"
      <4>1. Complete(t, args)
        BY <2>5
      <4> QED BY <2>6, <3>2, <4>1 DEF PromptInputs, Listed
    <3> QED BY <3>1, <3>2
  <2> QED BY <2>1, <2>3, <2>5, <2>7
<1> QED BY <1>1, ServingInvariant, PTL

-----------------------------------------------------------------------------
(* Templates of resources *)

\* The parameters are counted through the template.
LEMMA SlotSteps ==
  ASSUME NEW T, NEW template \in Seq(T)
  PROVE  /\ Slot(template, 0) = 0
         /\ \A k \in 1..Len(template) :
              Slot(template, k) = IF template[k] \in Params THEN Slot(template, k - 1) + 1 ELSE Slot(template, k - 1)
         /\ \A k \in 0..Len(template) : Slot(template, k) \in Nat
         /\ Slot(template, Len(template)) = Len(Only(template, Params))
<1>1. Len(template) \in Nat /\ \A k \in 1..Len(template) : template[k] \in T
  BY LenProperties, ElementOfSeq
<1>2. \A k \in 0..Len(template) : SubSeq(template, 1, k) \in Seq(T) /\ Slot(template, k) \in Nat
  <2> SUFFICES ASSUME NEW k \in 0..Len(template)
               PROVE  SubSeq(template, 1, k) \in Seq(T) /\ Slot(template, k) \in Nat
    OBVIOUS
  <2>1. SubSeq(template, 1, k) \in Seq(T)
    <3>1. \A i \in 1..k : template[i] \in T
      BY <1>1
    <3> QED BY <1>1, <3>1, SubSeqProperties
  <2>2. Only(SubSeq(template, 1, k), Params) \in Seq(T)
    BY <2>1, OnlyElements
  <2> QED BY <2>1, <2>2, LenProperties DEF Slot
<1>3. Slot(template, 0) = 0
  <2>1. SubSeq(template, 1, 0) = <<>>
    BY SubSeqEmpty
  <2>2. PICK e \in Seq(T) : e = <<>> /\ Len(e) = 0
    BY EmptySeq
  <2>3. Range(Only(e, Params)) = {}
    <3>1. DOMAIN e = {}
      BY <2>2
    <3>2. Range(e) = {}
      BY <3>1 DEF Range
    <3> QED BY <3>2, OnlyElements
  <2>4. Len(Only(e, Params)) = 0
    <3>1. PICK o \in Seq(T) : o = Only(e, Params) /\ DOMAIN o = 1..Len(o) /\ Len(o) \in Nat
      BY OnlyElements, LenProperties
    <3>2. DOMAIN o = {}
      BY <2>3, <3>1 DEF Range
    <3> QED BY <3>1, <3>2
  <2> QED BY <2>1, <2>2, <2>4 DEF Slot
<1>4. ASSUME NEW k \in 1..Len(template)
      PROVE  Slot(template, k) = IF template[k] \in Params THEN Slot(template, k - 1) + 1 ELSE Slot(template, k - 1)
  <2>1. k - 1 \in 0..Len(template) /\ template[k] \in T
    BY <1>1
  <2>2. PICK s \in Seq(T) : s = SubSeq(template, 1, k - 1)
    BY <1>2, <2>1
  <2>3. SubSeq(template, 1, k) = Append(s, template[k])
    <3>1. SubSeq(template, 1, k) = SubSeq(template, 1, k - 1) \o <<template[k]>>
      BY <1>1, SubSeqRecursiveSecond
    <3> QED BY <2>1, <2>2, <3>1, AppendIsConcat
  <2>4. Only(Append(s, template[k]), Params) = IF template[k] \in Params THEN Append(Only(s, Params), template[k]) ELSE Only(s, Params)
    BY <2>1, OnlyAppended
  <2>5. Only(s, Params) \in Seq(T)
    BY OnlyElements
  <2>6. Len(Append(Only(s, Params), template[k])) = Len(Only(s, Params)) + 1
    BY <2>1, <2>5, AppendProperties
  <2> QED BY <2>2, <2>3, <2>4, <2>6 DEF Slot
<1>5. Slot(template, Len(template)) = Len(Only(template, Params))
  BY SubSeqFull DEF Slot
<1> QED BY <1>2, <1>3, <1>4, <1>5

\* From one token to a later one, and each parameter in its turn.
LEMMA SlotsGrow ==
  ASSUME NEW T, NEW template \in Seq(T)
  PROVE  /\ \A j, k \in 0..Len(template) : j <= k => Slot(template, j) <= Slot(template, k)
         /\ \A m \in 1..Slot(template, Len(template)) :
              \E k \in 1..Len(template) : template[k] \in Params /\ Slot(template, k) = m
<1> DEFINE N == Len(template)
           slot == [k \in 0..N |-> Slot(template, k)]
<1>1. N \in Nat /\ slot \in [0..N -> Nat] /\ slot[0] = 0
  BY LenProperties, SlotSteps
<1>2. \A k \in 1..N : slot[k] = IF template[k] \in Params THEN slot[k - 1] + 1 ELSE slot[k - 1]
  BY <1>1, SlotSteps
<1>3. \A k \in 0..N : slot[k] = Slot(template, k)
  OBVIOUS
<1> HIDE DEF slot, N
<1>4. ASSUME NEW j \in 0..N PROVE \A k \in 0..N : j <= k => slot[j] <= slot[k]
  <2> DEFINE holds == [k \in 0..N |-> j <= k => slot[j] <= slot[k]]
  <2>1. holds \in [0..N -> BOOLEAN] /\ holds[0]
    <3>1. 0 \in 0..N /\ (j <= 0 => j = 0)
      BY <1>1
    <3>2. \A k \in 0..N : (j <= k => slot[j] <= slot[k]) \in BOOLEAN
      OBVIOUS
    <3> QED BY <1>1, <3>1, <3>2
  <2>2. ASSUME NEW k \in 1..N, holds[k - 1] PROVE holds[k]
    <3>1. k - 1 \in 0..N /\ k \in 0..N
      BY <1>1
    <3>2. j <= k - 1 => slot[j] <= slot[k - 1]
      BY <2>2, <3>1
    <3>3. slot[k - 1] <= slot[k] /\ slot[j] \in Nat /\ slot[k] \in Nat /\ slot[k - 1] \in Nat
      BY <1>1, <1>2, <3>1, SMTT(30)
    <3>4. j <= k => slot[j] <= slot[k]
      <4>1. CASE j = k
        BY <3>3, <4>1
      <4>2. CASE j # k
        BY <3>1, <3>2, <3>3, <4>2, <1>1
      <4> QED BY <4>1, <4>2
    <3> QED BY <3>1, <3>4
  <2>3. \A k \in 0..N : holds[k]
    <3> HIDE DEF holds
    <3> QED BY <1>1, <2>1, <2>2, Stepwise
  <2> QED BY <2>3
<1>5. \A m \in 1..slot[N] : \E k \in 1..N : template[k] \in Params /\ slot[k] = m
  <2> DEFINE Reached(m, n) == \E k \in 1..n : template[k] \in Params /\ slot[k] = m
             holds == [n \in 0..N |-> \A m \in 1..slot[n] : Reached(m, n)]
  <2>1. holds \in [0..N -> BOOLEAN] /\ holds[0]
    <3>1. 0 \in 0..N /\ 1..slot[0] = {}
      BY <1>1
    <3>2. \A n \in 0..N : (\A m \in 1..slot[n] : Reached(m, n)) \in BOOLEAN
      <4> HIDE DEF Reached
      <4> QED OBVIOUS
    <3> HIDE DEF Reached
    <3> QED BY <3>1, <3>2
  <2>2. ASSUME NEW n \in 1..N, holds[n - 1] PROVE holds[n]
    <3>1. n - 1 \in 0..N /\ n \in 0..N
      BY <1>1
    <3>2. \A m \in 1..slot[n - 1] : Reached(m, n - 1)
      <4> HIDE DEF Reached
      <4> QED BY <2>2, <3>1
    <3>3. ASSUME NEW m \in 1..slot[n] PROVE Reached(m, n)
      <4>1. CASE m \in 1..slot[n - 1]
        <5>1. PICK k \in 1..n - 1 : template[k] \in Params /\ slot[k] = m
          BY <3>2, <4>1
        <5>2. k \in 1..n
          BY <1>1
        <5> QED BY <5>1, <5>2
      <4>2. CASE m \notin 1..slot[n - 1]
        <5>1. slot[n - 1] \in Nat /\ slot[n] \in Nat
          BY <1>1, <3>1
        <5>2. template[n] \in Params /\ slot[n] = m
          BY <1>2, <4>2, <5>1
        <5>3. n \in 1..n
          BY <1>1
        <5> QED BY <5>2, <5>3
      <4> QED BY <4>1, <4>2
    <3>4. holds[n] = \A m \in 1..slot[n] : Reached(m, n)
      <4> HIDE DEF Reached
      <4> QED BY <3>1
    <3> HIDE DEF Reached, holds
    <3> QED BY <3>3, <3>4
  <2>3. \A n \in 0..N : holds[n]
    <3> HIDE DEF holds
    <3> QED BY <1>1, <2>1, <2>2, Stepwise
  <2>4. N \in 0..N
    BY <1>1
  <2> QED BY <2>3, <2>4
<1>6. \A j, k \in 0..N : j <= k => slot[j] <= slot[k]
  BY <1>4
<1>7. N \in 0..N /\ \A k \in 1..N : k \in 0..N
  BY <1>1
<1> QED BY <1>3, <1>5, <1>6, <1>7 DEF N

\* A URI cut into pieces, one for each token of a template: the k-th ends at at[k].
Piece(uri, token, m, n) ==
  /\ m < n
  /\ token \in Params => \A p \in m + 1..n : uri[p] # Slash
  /\ token \notin Params => n = m + 1 /\ uri[n] = token

\* The text from i on, cut for the tokens from j on.
Cut(uri, template, j, i, at) ==
  /\ at \in [0..Len(template) -> 0..Len(uri)]
  /\ at[j - 1] = i - 1 /\ at[Len(template)] = Len(uri)
  /\ \A k \in j..Len(template) : Piece(uri, template[k], at[k - 1], at[k])

\* The values are the pieces of the parameters.
PiecesOf(uri, template, j, at, values) ==
  /\ Len(values) = Slot(template, Len(template)) - Slot(template, j - 1)
  /\ \A k \in j..Len(template) : template[k] \in Params =>
       values[Slot(template, k) - Slot(template, j - 1)] = SubSeq(uri, at[k - 1] + 1, at[k])

\* What match[j] should be, and how it comes from match[j + 1].
GoodRow(uri, template, T, j, row) ==
  \A i \in 1..Len(uri) + 1 :
    /\ row[i] = NoMatch => \A at \in [0..Len(template) -> 0..Len(uri)] : ~Cut(uri, template, j, i, at)
    /\ row[i] # NoMatch => /\ row[i] \in Seq(Seq(T))
                           /\ \E at : Cut(uri, template, j, i, at) /\ PiecesOf(uri, template, j, at, row[i])

LastRow(uri) == [i \in 1..Len(uri) + 1 |-> IF i > Len(uri) THEN <<>> ELSE NoMatch]

EndsFrom(uri, i, row) == {n \in i..Len(uri) : ParamTakes(SubSeq(uri, i, n)) /\ row[n + 1] # NoMatch}

RowBefore(uri, token, row) ==
  [i \in 1..Len(uri) + 1 |->
     IF token \in Params
       THEN IF EndsFrom(uri, i, row) = {}
              THEN NoMatch
              ELSE <<SubSeq(uri, i, Max(EndsFrom(uri, i, row)))>> \o row[Max(EndsFrom(uri, i, row)) + 1]
       ELSE IF i <= Len(uri) /\ uri[i] = token THEN row[i + 1] ELSE NoMatch]

\* No match is a list of values that no match gives.
LEMMA NothingMatched ==
  ASSUME NEW T
  PROVE  /\ <<>> # NoMatch /\ NoMatch \in Seq(Seq(T))
         /\ \A v \in Seq(Seq(T)) : v = NoMatch => v[1] = <<>>
<1>1. PICK e \in Seq(T) : e = <<>> /\ Len(e) = 0
  BY EmptySeq
<1>2. <<e>> \in Seq(Seq(T)) /\ Len(<<e>>) = 1 /\ <<e>>[1] = e
  OBVIOUS
<1>3. NoMatch = <<e>>
  BY <1>1 DEF NoMatch
<1>4. <<>> # NoMatch
  <2>1. <<>> # <<e>>
    OBVIOUS
  <2> QED BY <1>3, <2>1
<1> QED BY <1>1, <1>2, <1>3, <1>4

\* A value before the others.
LEMMA ValueBefore ==
  ASSUME NEW T, NEW x \in Seq(T), NEW w \in Seq(Seq(T)), x # <<>>, NEW v, v = <<x>> \o w
  PROVE  /\ v # NoMatch
         /\ v \in Seq(Seq(T)) /\ Len(v) = Len(w) + 1
         /\ v[1] = x
         /\ \A i \in 1..Len(w) : v[i + 1] = w[i]
<1>1. PICK o \in Seq(Seq(T)) : o = <<x>> /\ Len(o) = 1 /\ o[1] = x
  BY OneElement
<1>2. /\ o \o w \in Seq(Seq(T)) /\ Len(o \o w) = 1 + Len(w)
      /\ \A i \in 1..Len(o) + Len(w) : (o \o w)[i] = IF i <= Len(o) THEN o[i] ELSE w[i - Len(o)]
  BY <1>1, ConcatProperties
<1>3. Len(w) \in Nat
  BY LenProperties
<1>4. (o \o w)[1] = x /\ \A i \in 1..Len(w) : (o \o w)[i + 1] = w[i]
  BY <1>1, <1>2, <1>3
<1>5. o \o w # NoMatch
  BY <1>2, <1>4, NothingMatched
<1> QED BY <1>1, <1>2, <1>3, <1>4, <1>5

\* A parameter takes a part of the URI within a segment.
LEMMA PartTaken ==
  ASSUME NEW T, NEW uri \in Seq(T), NEW i \in 1..Len(uri), NEW n \in i..Len(uri)
  PROVE  /\ SubSeq(uri, i, n) \in Seq(T) /\ SubSeq(uri, i, n) # <<>>
         /\ ParamTakes(SubSeq(uri, i, n)) <=> \A p \in i..n : uri[p] # Slash
<1>1. Len(uri) \in Nat /\ \A p \in i..n : uri[p] \in T
  <2>1. Len(uri) \in Nat /\ \A p \in i..n : p \in 1..Len(uri)
    BY LenProperties
  <2> QED BY <2>1, ElementOfSeq
<1>2. PICK c \in Seq(T) : /\ c = SubSeq(uri, i, n) /\ Len(c) = n - i + 1
                          /\ \A p \in 1..n - i + 1 : c[p] = uri[i + p - 1]
  <2>1. i <= n /\ i \in Int /\ n \in Int
    BY <1>1
  <2>2. /\ SubSeq(uri, i, n) \in Seq(T)
        /\ Len(SubSeq(uri, i, n)) = IF i <= n THEN n - i + 1 ELSE 0
        /\ \A p \in 1..n - i + 1 : SubSeq(uri, i, n)[p] = uri[i + p - 1]
    BY <1>1, <2>1, SubSeqProperties
  <2> QED BY <2>1, <2>2
<1>3. DOMAIN c = 1..n - i + 1 /\ c # <<>>
  <2>1. n - i + 1 # 0 /\ Len(<<>>) = 0
    BY <1>1, EmptySeq
  <2> QED BY <1>2, <2>1, LenProperties
<1>4. Slash \notin Range(c) <=> \A p \in i..n : uri[p] # Slash
  <2>1. \A p \in 1..n - i + 1 : i + p - 1 \in i..n
    BY <1>1
  <2>2. \A p \in i..n : p - i + 1 \in 1..n - i + 1 /\ c[p - i + 1] = uri[p]
    <3> SUFFICES ASSUME NEW p \in i..n PROVE p - i + 1 \in 1..n - i + 1 /\ c[p - i + 1] = uri[p]
      OBVIOUS
    <3>1. p - i + 1 \in 1..n - i + 1 /\ i + (p - i + 1) - 1 = p
      BY <1>1
    <3> QED BY <1>2, <3>1
  <2>3. \A x : x \in Range(c) <=> \E p \in 1..n - i + 1 : c[p] = x
    BY <1>3 DEF Range
  <2>4. \A p \in 1..n - i + 1 : c[p] = uri[i + p - 1]
    BY <1>2
  <2>5. ASSUME Slash \notin Range(c), NEW p \in i..n PROVE uri[p] # Slash
    BY ONLY <2>2, <2>3, <2>5
  <2>6. ASSUME \A p \in i..n : uri[p] # Slash PROVE Slash \notin Range(c)
    BY ONLY <2>1, <2>3, <2>4, <2>6
  <2> QED BY <2>5, <2>6
<1> QED BY <1>2, <1>3, <1>4 DEF ParamTakes

\* Nothing is left of the template: it matches if nothing is left of the URI.
LEMMA LastRowGood ==
  ASSUME NEW T, NEW uri \in Seq(T), NEW template \in Seq(T)
  PROVE  GoodRow(uri, template, T, Len(template) + 1, LastRow(uri))
<1> DEFINE L == Len(template)
           N == Len(uri)
<1>1. L \in Nat /\ N \in Nat
  BY LenProperties
<1> SUFFICES ASSUME NEW i \in 1..N + 1
             PROVE  /\ LastRow(uri)[i] = NoMatch => \A at \in [0..L -> 0..N] : ~Cut(uri, template, L + 1, i, at)
                    /\ LastRow(uri)[i] # NoMatch =>
                         /\ LastRow(uri)[i] \in Seq(Seq(T))
                         /\ \E at : Cut(uri, template, L + 1, i, at) /\ PiecesOf(uri, template, L + 1, at, LastRow(uri)[i])
  BY DEF GoodRow
<1>2. LastRow(uri)[i] = IF i > N THEN <<>> ELSE NoMatch
  BY DEF LastRow
<1>3. <<>> # NoMatch
  BY NothingMatched
<1>4. (L + 1) - 1 = L
  BY <1>1
<1>5. CASE i > N
  <2> DEFINE at == [k \in 0..L |-> N]
  <2>1. i = N + 1 /\ i - 1 = N /\ L \in 0..L /\ N \in 0..N
    BY <1>1, <1>5
  <2>2. at \in [0..L -> 0..N] /\ at[L] = N
    BY <2>1
  <2>3. (L + 1)..L = {}
    BY <1>1
  <2> HIDE DEF at
  <2>4. Cut(uri, template, L + 1, i, at)
    BY <1>4, <2>1, <2>2, <2>3 DEF Cut
  <2>5. PICK e \in Seq(Seq(T)) : e = <<>> /\ Len(e) = 0
    BY EmptySeq
  <2>6. Slot(template, L) - Slot(template, L) = 0
    <3>1. Slot(template, L) \in Nat
      BY <2>1, SlotSteps
    <3> QED BY <3>1
  <2>7. PiecesOf(uri, template, L + 1, at, e)
    BY <1>4, <2>3, <2>5, <2>6 DEF PiecesOf
  <2> QED BY <1>2, <1>3, <1>5, <2>4, <2>5, <2>7
<1>6. CASE ~(i > N)
  <2>1. \A at \in [0..L -> 0..N] : ~Cut(uri, template, L + 1, i, at)
    <3> SUFFICES ASSUME NEW at \in [0..L -> 0..N], Cut(uri, template, L + 1, i, at) PROVE FALSE
      OBVIOUS
    <3>1. at[L] = i - 1 /\ at[L] = N
      BY <1>4 DEF Cut
    <3> QED BY <1>1, <1>6, <3>1
  <2> QED BY <1>2, <1>6, <2>1
<1> QED BY <1>5, <1>6

\* The first piece of a cut, and the rest.
LEMMA CutSplits ==
  ASSUME NEW T, NEW uri \in Seq(T), NEW template \in Seq(T), NEW j \in 1..Len(template),
         NEW i \in 1..Len(uri) + 1, NEW at, Cut(uri, template, j, i, at)
  PROVE  /\ at[j] \in i..Len(uri)
         /\ Cut(uri, template, j + 1, at[j] + 1, at)
         /\ Piece(uri, template[j], i - 1, at[j])
<1> DEFINE L == Len(template)
           N == Len(uri)
<1>1. L \in Nat /\ N \in Nat
  BY LenProperties
<1>2. /\ at \in [0..L -> 0..N] /\ at[j - 1] = i - 1 /\ at[L] = N
      /\ \A k \in j..L : Piece(uri, template[k], at[k - 1], at[k])
  BY DEF Cut
<1>3. j \in j..L /\ j \in 0..L /\ (j + 1) - 1 = j /\ (j + 1)..L \subseteq j..L
  BY <1>1
<1>4. Piece(uri, template[j], i - 1, at[j]) /\ at[j] \in 0..N
  BY <1>2, <1>3
<1>5. i - 1 < at[j]
  BY <1>4 DEF Piece
<1>6. at[j] \in i..N /\ (at[j] + 1) - 1 = at[j]
  BY <1>1, <1>4, <1>5
<1>7. Cut(uri, template, j + 1, at[j] + 1, at)
  BY <1>2, <1>3, <1>6 DEF Cut
<1> QED BY <1>4, <1>6, <1>7

\* The values of a cut, when one more piece comes before it.
Taken(uri, token, i, n, values) ==
  IF token \in Params THEN <<SubSeq(uri, i, n)>> \o values ELSE values

LEMMA CutJoins ==
  ASSUME NEW T, NEW uri \in Seq(T), NEW template \in Seq(T), NEW j \in 1..Len(template),
         NEW i \in 1..Len(uri), NEW n \in i..Len(uri), Piece(uri, template[j], i - 1, n),
         NEW at, Cut(uri, template, j + 1, n + 1, at),
         NEW w \in Seq(Seq(T)), PiecesOf(uri, template, j + 1, at, w)
  PROVE  \E bt : /\ Cut(uri, template, j, i, bt)
                 /\ PiecesOf(uri, template, j, bt, Taken(uri, template[j], i, n, w))
<1> DEFINE L == Len(template)
           N == Len(uri)
           bt == [at EXCEPT ![j - 1] = i - 1]
           slot == [k \in 0..L |-> Slot(template, k)]
<1>1. L \in Nat /\ N \in Nat
  BY LenProperties
<1>2. (j + 1) - 1 = j /\ (n + 1) - 1 = n
  BY <1>1
<1>3. /\ at \in [0..L -> 0..N] /\ at[j] = n /\ at[L] = N
      /\ \A k \in (j + 1)..L : Piece(uri, template[k], at[k - 1], at[k])
  BY <1>2 DEF Cut
<1>4. j - 1 \in 0..L /\ i - 1 \in 0..N /\ j # j - 1 /\ L # j - 1 /\ j \in 0..L /\ L \in 0..L
  BY <1>1
<1>5. bt \in [0..L -> 0..N] /\ bt[j - 1] = i - 1 /\ \A k \in 0..L : k # j - 1 => bt[k] = at[k]
  BY <1>3, <1>4
<1>6. \A k \in (j + 1)..L : k \in 0..L /\ k - 1 \in 0..L /\ k # j - 1 /\ k - 1 # j - 1
  BY <1>1
<1> HIDE DEF bt
<1>7. Cut(uri, template, j, i, bt)
  <2>1. bt[L] = N /\ bt[j] = n
    BY <1>3, <1>4, <1>5
  <2>2. ASSUME NEW k \in j..L PROVE Piece(uri, template[k], bt[k - 1], bt[k])
    <3>1. CASE k = j
      BY <1>5, <2>1, <3>1
    <3>2. CASE k # j
      <4>1. k \in (j + 1)..L
        BY <1>1, <3>2
      <4> QED BY <1>3, <1>5, <1>6, <4>1
    <3> QED BY <3>1, <3>2
  <2> QED BY <1>5, <2>1, <2>2 DEF Cut
<1>8. /\ slot \in [0..L -> Nat]
      /\ \A k \in 1..L : slot[k] = IF template[k] \in Params THEN slot[k - 1] + 1 ELSE slot[k - 1]
      /\ \A k, m \in 0..L : k <= m => slot[k] <= slot[m]
      /\ \A k \in 0..L : slot[k] = Slot(template, k)
  <2>1. \A k \in 1..L : k \in 0..L /\ k - 1 \in 0..L
    BY <1>1
  <2> QED BY <2>1, SlotSteps, SlotsGrow
<1> HIDE DEF slot
<1>9. /\ Len(w) = slot[L] - slot[j]
      /\ \A k \in (j + 1)..L : template[k] \in Params => w[slot[k] - slot[j]] = SubSeq(uri, at[k - 1] + 1, at[k])
  BY <1>2, <1>4, <1>6, <1>8 DEF PiecesOf
<1>10. CASE template[j] \in Params
  <2>1. slot[j] = slot[j - 1] + 1 /\ slot[j - 1] \in Nat /\ slot[L] \in Nat
    BY <1>4, <1>8, <1>10
  <2>2. PICK x \in Seq(T) : x = SubSeq(uri, i, n) /\ x # <<>>
    BY PartTaken
  <2>a. PICK v : v = <<x>> \o w
    OBVIOUS
  <2>3. /\ v \in Seq(Seq(T)) /\ Len(v) = Len(w) + 1 /\ v[1] = x
        /\ \A p \in 1..Len(w) : v[p + 1] = w[p]
    <3>1. x # <<>>
      BY <2>2
    <3>2. v \in Seq(Seq(T)) /\ Len(v) = Len(w) + 1
      BY <2>a, <3>1, ValueBefore
    <3>3. v[1] = x
      BY <2>a, <3>1, ValueBefore
    <3>4. \A p \in 1..Len(w) : v[p + 1] = w[p]
      BY <2>a, <3>1, ValueBefore
    <3> QED BY <3>2, <3>3, <3>4
  <2>4. Taken(uri, template[j], i, n, w) = v
    BY <1>10, <2>2, <2>a DEF Taken
  <2>5. Len(v) = slot[L] - slot[j - 1]
    <3>1. Len(w) = slot[L] - slot[j] /\ Len(v) = Len(w) + 1
      BY <1>9, <2>3
    <3> QED BY ONLY <2>1, <3>1, SMTT(30)
  <2>6. ASSUME NEW k \in j..L, template[k] \in Params
        PROVE  v[slot[k] - slot[j - 1]] = SubSeq(uri, bt[k - 1] + 1, bt[k])
    <3>1. CASE k = j
      <4>1. slot[k] - slot[j - 1] = 1 /\ bt[k - 1] + 1 = i /\ bt[k] = n
        <5>1. slot[k] = slot[j - 1] + 1 /\ bt[k - 1] = i - 1 /\ bt[k] = at[j]
          BY <1>4, <1>5, <2>1, <3>1
        <5> QED BY <1>3, <2>1, <5>1
      <4> QED BY <2>2, <2>3, <4>1
    <3>2. CASE k # j
      <4>1. k \in (j + 1)..L
        BY <1>1, <3>2
      <4>2. k - 1 \in 0..L /\ k \in 0..L /\ k \in 1..L /\ j <= k - 1 /\ k <= L
        BY <1>1, <4>1
      <4>3. slot[k] = slot[k - 1] + 1 /\ slot[j] <= slot[k - 1] /\ slot[k] <= slot[L] /\ slot[k - 1] \in Nat
        BY <1>4, <1>8, <2>6, <4>2
      <4>4. slot[k] - slot[j] \in 1..Len(w) /\ slot[k] - slot[j - 1] = (slot[k] - slot[j]) + 1
        <5>1. Len(w) = slot[L] - slot[j]
          BY <1>9
        <5>2. slot[k] - slot[j] <= Len(w) /\ 1 <= slot[k] - slot[j] /\ slot[k] - slot[j] \in Int
          <6>1. PICK a \in Nat, b \in Nat, c \in Nat : a = slot[j - 1] /\ b = slot[k - 1] /\ c = slot[L]
            BY <2>1, <4>3
          <6>2. slot[k] = b + 1 /\ slot[j] = a + 1 /\ a + 1 <= b /\ b + 1 <= c /\ Len(w) = c - (a + 1)
            BY <2>1, <4>3, <5>1, <6>1
          <6> QED BY ONLY <6>2, a \in Nat, b \in Nat, c \in Nat
        <5>3. slot[k] - slot[j - 1] = (slot[k] - slot[j]) + 1
          BY ONLY <2>1, <4>3, SMTT(30)
        <5>4. Len(w) \in Int
          BY ONLY <2>1, <5>1
        <5> QED BY ONLY <5>2, <5>3, <5>4
      <4>5. v[slot[k] - slot[j - 1]] = w[slot[k] - slot[j]]
        BY <2>3, <4>4
      <4>6. bt[k - 1] = at[k - 1] /\ bt[k] = at[k]
        BY <1>5, <1>6, <4>1
      <4> QED BY <1>9, <2>6, <4>1, <4>5, <4>6
    <3> QED BY <3>1, <3>2
  <2>7. \A k \in j..L : k \in 0..L
    BY <1>1
  <2>8. PiecesOf(uri, template, j, bt, v)
    BY <1>4, <1>8, <2>5, <2>6, <2>7 DEF PiecesOf
  <2> QED BY <1>7, <2>4, <2>8
<1>11. CASE template[j] \notin Params
  <2>1. slot[j] = slot[j - 1]
    BY <1>8, <1>11
  <2>2. ASSUME NEW k \in j..L, template[k] \in Params
        PROVE  w[slot[k] - slot[j - 1]] = SubSeq(uri, bt[k - 1] + 1, bt[k])
    <3>1. k \in (j + 1)..L
      BY <1>1, <1>11, <2>2
    <3>2. bt[k - 1] = at[k - 1] /\ bt[k] = at[k]
      BY <1>5, <1>6, <3>1
    <3> QED BY <1>9, <2>1, <2>2, <3>1, <3>2
  <2>3. \A k \in j..L : k \in 0..L
    BY <1>1
  <2>4. PiecesOf(uri, template, j, bt, w)
    BY <1>4, <1>8, <1>9, <2>1, <2>2, <2>3 DEF PiecesOf
  <2>5. Taken(uri, template[j], i, n, w) = w
    BY <1>11 DEF Taken
  <2> QED BY <1>7, <2>4, <2>5
<1> QED BY <1>10, <1>11

\* The greatest of some ends.
LEMMA LastEnd ==
  ASSUME NEW N \in Nat, NEW ends \in SUBSET (0..N), ends # {}
  PROVE  Max(ends) \in ends /\ \A y \in ends : y <= Max(ends)
<1>1. PICK m \in ends : \A y \in ends : y <= m
  BY GreatestNatural
<1>2. m \in Int /\ \A y \in ends : y \in Int /\ m >= y
  BY <1>1
<1>3. \E x \in ends : \A y \in ends : x >= y
  BY <1>2
<1>4. Max(ends) \in ends /\ \A y \in ends : Max(ends) >= y
  BY <1>3 DEF Max
<1>5. \A x, y \in ends : x >= y => y <= x
  <2>1. \A x \in ends : x \in Int
    OBVIOUS
  <2> QED BY <2>1
<1> QED BY <1>4, <1>5

\* A row that is right makes the row before it right.
LEMMA RowSteps ==
  ASSUME NEW T, NEW uri \in Seq(T), NEW template \in Seq(T), NEW j \in 1..Len(template),
         NEW row, GoodRow(uri, template, T, j + 1, row)
  PROVE  GoodRow(uri, template, T, j, RowBefore(uri, template[j], row))
<1> DEFINE L == Len(template)
           N == Len(uri)
           before == RowBefore(uri, template[j], row)
<1>1. L \in Nat /\ N \in Nat
  BY LenProperties
<1> SUFFICES ASSUME NEW i \in 1..N + 1
             PROVE  /\ before[i] = NoMatch => \A at \in [0..L -> 0..N] : ~Cut(uri, template, j, i, at)
                    /\ before[i] # NoMatch =>
                         /\ before[i] \in Seq(Seq(T))
                         /\ \E at : Cut(uri, template, j, i, at) /\ PiecesOf(uri, template, j, at, before[i])
  BY DEF GoodRow
<1>2. \A n \in i..N : n + 1 \in 1..N + 1 /\ n \in 0..N
  BY <1>1
<1>3. \A n \in i..N :
        /\ row[n + 1] = NoMatch => \A at \in [0..L -> 0..N] : ~Cut(uri, template, j + 1, n + 1, at)
        /\ row[n + 1] # NoMatch => row[n + 1] \in Seq(Seq(T))
        /\ row[n + 1] # NoMatch =>
             \E at : Cut(uri, template, j + 1, n + 1, at) /\ PiecesOf(uri, template, j + 1, at, row[n + 1])
  BY <1>2 DEF GoodRow
\* A piece with a match after it.
<1>4. ASSUME NEW n \in i..N, Piece(uri, template[j], i - 1, n), row[n + 1] # NoMatch
      PROVE  \E at : /\ Cut(uri, template, j, i, at)
                     /\ PiecesOf(uri, template, j, at, Taken(uri, template[j], i, n, row[n + 1]))
  <2>1. i \in 1..N
    BY <1>1
  <2>2. row[n + 1] \in Seq(Seq(T))
    BY <1>3, <1>4
  <2>3. PICK at : Cut(uri, template, j + 1, n + 1, at) /\ PiecesOf(uri, template, j + 1, at, row[n + 1])
    BY <1>3, <1>4
  <2> QED BY <1>4, <2>1, <2>2, <2>3, CutJoins
\* A cut begins with a piece that has a match after it.
<1>5. ASSUME NEW at \in [0..L -> 0..N], Cut(uri, template, j, i, at)
      PROVE  \E n \in i..N : Piece(uri, template[j], i - 1, n) /\ row[n + 1] # NoMatch
  <2>1. at[j] \in i..N /\ Cut(uri, template, j + 1, at[j] + 1, at) /\ Piece(uri, template[j], i - 1, at[j])
    BY <1>5, CutSplits
  <2>2. row[at[j] + 1] # NoMatch
    BY <1>3, <2>1
  <2> QED BY <2>1, <2>2
<1>6. CASE template[j] \in Params
  <2> DEFINE ends == EndsFrom(uri, i, row)
  <2>1. before[i] = IF ends = {} THEN NoMatch ELSE <<SubSeq(uri, i, Max(ends))>> \o row[Max(ends) + 1]
    BY <1>6 DEF RowBefore
  <2>2. \A n \in i..N : n \in ends <=> Piece(uri, template[j], i - 1, n) /\ row[n + 1] # NoMatch
    <3> SUFFICES ASSUME NEW n \in i..N PROVE n \in ends <=> Piece(uri, template[j], i - 1, n) /\ row[n + 1] # NoMatch
      OBVIOUS
    <3>1. i \in 1..N /\ i - 1 < n /\ (i - 1) + 1 = i
      BY <1>1
    <3>2. ParamTakes(SubSeq(uri, i, n)) <=> \A p \in i..n : uri[p] # Slash
      BY <3>1, PartTaken
    <3>3. Piece(uri, template[j], i - 1, n) <=> \A p \in i..n : uri[p] # Slash
      BY <1>6, <3>1 DEF Piece
    <3> QED BY <3>2, <3>3 DEF EndsFrom
  <2>3. ends \subseteq i..N
    BY DEF EndsFrom
  <2> HIDE DEF ends
  <2>4. CASE ends = {}
    BY <1>5, <2>1, <2>2, <2>4
  <2>5. CASE ends # {}
    <3>1. PICK n \in i..N : n = Max(ends) /\ n \in ends
      <4>1. ends \in SUBSET (0..N)
        BY <1>2, <2>3
      <4>2. Max(ends) \in ends
        BY <1>1, <2>5, <4>1, LastEnd
      <4> QED BY <2>3, <4>2
    <3>2. Piece(uri, template[j], i - 1, n) /\ row[n + 1] # NoMatch
      BY <2>2, <3>1
    <3>3. before[i] = <<SubSeq(uri, i, n)>> \o row[n + 1]
      BY <2>1, <2>5, <3>1
    <3>4. i \in 1..N /\ SubSeq(uri, i, n) \in Seq(T) /\ SubSeq(uri, i, n) # <<>>
      <4>1. i \in 1..N
        BY <1>1
      <4> QED BY <4>1, PartTaken
    <3>5. row[n + 1] \in Seq(Seq(T))
      BY <1>3, <3>2
    <3>6. <<SubSeq(uri, i, n)>> \o row[n + 1] # NoMatch /\ <<SubSeq(uri, i, n)>> \o row[n + 1] \in Seq(Seq(T))
      <4>1. PICK x \in Seq(T) : x = SubSeq(uri, i, n)
        BY <3>4
      <4>2. PICK w \in Seq(Seq(T)) : w = row[n + 1]
        BY <3>5
      <4>3. x # <<>>
        BY <3>4, <4>1
      <4>4. PICK v : v = <<x>> \o w
        OBVIOUS
      <4>5. v \in Seq(Seq(T)) /\ v[1] = x
        BY <4>3, <4>4, ValueBefore
      <4>6. v # NoMatch
        BY <4>3, <4>5, NothingMatched
      <4> QED BY <4>1, <4>2, <4>4, <4>5, <4>6, Zenon
    <3>7. Taken(uri, template[j], i, n, row[n + 1]) = <<SubSeq(uri, i, n)>> \o row[n + 1]
      BY <1>6 DEF Taken
    <3>8. \E at : Cut(uri, template, j, i, at) /\ PiecesOf(uri, template, j, at, <<SubSeq(uri, i, n)>> \o row[n + 1])
      BY <1>4, <3>2, <3>7, Zenon
    <3> HIDE DEF before
    <3>9. before[i] # NoMatch /\ before[i] \in Seq(Seq(T))
      BY <3>3, <3>6, Zenon
    <3>10. \E at : Cut(uri, template, j, i, at) /\ PiecesOf(uri, template, j, at, before[i])
      BY <3>3, <3>8, Zenon
    <3> QED BY <3>9, <3>10, Zenon
  <2> QED BY <2>4, <2>5
<1>7. CASE template[j] \notin Params
  <2>1. before[i] = IF i <= N /\ uri[i] = template[j] THEN row[i + 1] ELSE NoMatch
    BY <1>7 DEF RowBefore
  <2>2. \A n \in i..N : Piece(uri, template[j], i - 1, n) <=> n = i /\ uri[i] = template[j]
    <3> SUFFICES ASSUME NEW n \in i..N PROVE Piece(uri, template[j], i - 1, n) <=> n = i /\ uri[i] = template[j]
      OBVIOUS
    <3>1. i - 1 < n /\ (i - 1) + 1 = i
      BY <1>1
    <3> QED BY <1>7, <3>1 DEF Piece
  <2>3. CASE i <= N /\ uri[i] = template[j] /\ row[i + 1] # NoMatch
    <3>1. i \in i..N /\ Piece(uri, template[j], i - 1, i)
      <4>1. i \in i..N
        BY <1>1, <2>3
      <4> QED BY <2>2, <2>3, <4>1
    <3>2. before[i] = row[i + 1] /\ before[i] \in Seq(Seq(T))
      <4>1. row[i + 1] \in Seq(Seq(T))
        BY <1>3, <2>3, <3>1
      <4>2. before[i] = row[i + 1]
        BY <2>1, <2>3
      <4> HIDE DEF before
      <4> QED BY <4>1, <4>2, Zenon
    <3>3. Taken(uri, template[j], i, i, row[i + 1]) = row[i + 1]
      BY <1>7 DEF Taken
    <3>4. \E at : Cut(uri, template, j, i, at) /\ PiecesOf(uri, template, j, at, row[i + 1])
      BY <1>4, <2>3, <3>1, <3>3, Zenon
    <3> HIDE DEF before
    <3> QED BY <2>3, <3>2, <3>4, Zenon
  <2>4. CASE ~(i <= N /\ uri[i] = template[j] /\ row[i + 1] # NoMatch)
    <3>1. before[i] = NoMatch
      BY <2>1, <2>4
    <3>2. ~\E n \in i..N : Piece(uri, template[j], i - 1, n) /\ row[n + 1] # NoMatch
      <4> SUFFICES ASSUME NEW n \in i..N, Piece(uri, template[j], i - 1, n), row[n + 1] # NoMatch PROVE FALSE
        OBVIOUS
      <4>1. n = i /\ uri[i] = template[j] /\ i <= N
        BY <1>1, <2>2
      <4> QED BY <2>4, <4>1
    <3> QED BY <1>5, <3>1, <3>2
  <2> QED BY <2>3, <2>4
<1> QED BY <1>6, <1>7

\* The recursive definition of ExtractURIParams has a solution.
MatchRow(uri, template, f, j) ==
  [i \in 1..Len(uri) + 1 |->
     LET ends == {n \in i..Len(uri) : ParamTakes(SubSeq(uri, i, n)) /\ f[j + 1][n + 1] # NoMatch}
     IN CASE j > Len(template) -> IF i > Len(uri) THEN <<>> ELSE NoMatch
          [] j <= Len(template) /\ template[j] \in Params ->
               IF ends = {} THEN NoMatch ELSE <<SubSeq(uri, i, Max(ends))>> \o f[j + 1][Max(ends) + 1]
          [] OTHER -> IF i <= Len(uri) /\ uri[i] = template[j] THEN f[j + 1][i + 1] ELSE NoMatch]

LEMMA MatchRows ==
  ASSUME NEW T, NEW uri \in Seq(T), NEW template \in Seq(T), NEW f
  PROVE  /\ MatchRow(uri, template, f, Len(template) + 1) = LastRow(uri)
         /\ \A j \in 1..Len(template) : MatchRow(uri, template, f, j) = RowBefore(uri, template[j], f[j + 1])
<1>1. Len(template) \in Nat
  BY LenProperties
<1>2. MatchRow(uri, template, f, Len(template) + 1) = LastRow(uri)
  BY <1>1 DEF MatchRow, LastRow
<1>3. ASSUME NEW j \in 1..Len(template)
      PROVE  MatchRow(uri, template, f, j) = RowBefore(uri, template[j], f[j + 1])
  <2>1. j <= Len(template) /\ ~(j > Len(template))
    BY <1>1
  <2>2. CASE template[j] \in Params
    BY <2>1, <2>2, Zenon DEF MatchRow, RowBefore, EndsFrom
  <2>3. CASE template[j] \notin Params
    BY <2>1, <2>3, Zenon DEF MatchRow, RowBefore
  <2> QED BY <2>2, <2>3
<1> QED BY <1>2, <1>3

LEMMA RowBeforeRow ==
  ASSUME NEW T, NEW uri \in Seq(T), NEW token, NEW row \in [1..Len(uri) + 1 -> Seq(Seq(T))]
  PROVE  RowBefore(uri, token, row) \in [1..Len(uri) + 1 -> Seq(Seq(T))]
<1>1. Len(uri) \in Nat
  BY LenProperties
<1> DEFINE N == Len(uri)
           before == RowBefore(uri, token, row)
<1>2. ASSUME NEW i \in 1..N + 1 PROVE before[i] \in Seq(Seq(T))
  <2>1. NoMatch \in Seq(Seq(T))
    BY NothingMatched
  <2>2. CASE token \in Params
    <3> DEFINE ends == EndsFrom(uri, i, row)
    <3>1. before[i] = IF ends = {} THEN NoMatch ELSE <<SubSeq(uri, i, Max(ends))>> \o row[Max(ends) + 1]
      BY <2>2 DEF RowBefore
    <3>2. ends \subseteq i..N
      BY DEF EndsFrom
    <3> HIDE DEF ends, before
    <3>3. CASE ends = {}
      BY <2>1, <3>1, <3>3
    <3>4. CASE ends # {}
      <4>1. ends \in SUBSET (0..N)
        BY <1>1, <3>2
      <4>2. PICK n \in i..N : n = Max(ends)
        <5>1. Max(ends) \in ends
          BY <1>1, <3>4, <4>1, LastEnd
        <5> QED BY <3>2, <5>1
      <4>3. i \in 1..N /\ n + 1 \in 1..N + 1
        BY <1>1
      <4>4. PICK x \in Seq(T) : x = SubSeq(uri, i, n) /\ x # <<>>
        BY <4>3, PartTaken
      <4>5. PICK w \in Seq(Seq(T)) : w = row[n + 1]
        BY <4>3
      <4>6. x # <<>>
        BY <4>4
      <4>a. PICK v : v = <<x>> \o w
        OBVIOUS
      <4>7. v \in Seq(Seq(T))
        BY <4>6, <4>a, ValueBefore
      <4>8. before[i] = v
        BY <3>1, <3>4, <4>2, <4>4, <4>5, <4>a
      <4> QED BY <4>7, <4>8, Zenon
    <3> QED BY <3>3, <3>4
  <2>3. CASE token \notin Params
    <3>1. before[i] = IF i <= N /\ uri[i] = token THEN row[i + 1] ELSE NoMatch
      BY <2>3 DEF RowBefore
    <3>2. i <= N => i + 1 \in 1..N + 1
      BY <1>1
    <3> HIDE DEF before
    <3> QED BY <2>1, <3>1, <3>2
  <2> QED BY <2>2, <2>3
<1>3. DOMAIN before = 1..N + 1 /\ before = [i \in 1..N + 1 |-> before[i]]
  BY DEF RowBefore
<1> HIDE DEF before
<1>4. before \in [1..N + 1 -> Seq(Seq(T))]
  BY <1>2, <1>3
<1> QED BY <1>4 DEF before

Matching(match, uri, template) ==
  /\ match[Len(template) + 1] = LastRow(uri)
  /\ \A j \in 1..Len(template) : match[j] = RowBefore(uri, template[j], match[j + 1])
  /\ ExtractURIParams(uri, template) = match[1][1]

LEMMA MatchUnfolds ==
  ASSUME NEW T, NEW uri \in Seq(T), NEW template \in Seq(T)
  PROVE  \E match : Matching(match, uri, template)
<1> DEFINE L == Len(template)
           S == [1..Len(uri) + 1 -> Seq(Seq(T))]
           step == [k \in 1..L |-> [row \in S |-> RowBefore(uri, template[L + 1 - k], row)]]
           Body(f) == [j \in 1..L + 1 |-> MatchRow(uri, template, f, j)]
           g == CHOOSE h : h = Body(h)
<1>1. L \in Nat /\ Len(uri) \in Nat
  BY LenProperties
<1>2. LastRow(uri) \in S
  <2>1. PICK e \in Seq(Seq(T)) : e = <<>>
    BY EmptySeq
  <2>2. NoMatch \in Seq(Seq(T))
    BY NothingMatched
  <2> QED BY <2>1, <2>2 DEF LastRow
<1>3. step \in Steps(L, S)
  <2>1. \A row \in S : \A k \in 1..L : RowBefore(uri, template[L + 1 - k], row) \in S
    BY RowBeforeRow
  <2> HIDE DEF S
  <2> QED BY <2>1 DEF Steps
<1>4. PICK f : Iterates(f, L, S, LastRow(uri), step)
  <2> HIDE DEF step, S
  <2> QED BY <1>1, <1>2, <1>3, Recursion
<1>5. /\ f \in [0..L -> S] /\ f[0] = LastRow(uri)
      /\ \A k \in 1..L : f[k] = RowBefore(uri, template[L + 1 - k], f[k - 1])
  <2>1. \A k \in 1..L : k - 1 \in 0..L
    BY <1>1
  <2> HIDE DEF S
  <2> QED BY <1>4, <2>1 DEF Iterates
<1> DEFINE m == [j \in 1..L + 1 |-> f[L + 1 - j]]
<1>6. m = Body(m)
  <2>1. ASSUME NEW j \in 1..L + 1 PROVE m[j] = MatchRow(uri, template, m, j)
    <3>1. CASE j = L + 1
      <4>1. L + 1 \in 1..L + 1 /\ L + 1 - (L + 1) = 0
        BY <1>1
      <4>2. m[j] = LastRow(uri)
        BY <1>5, <3>1, <4>1
      <4> QED BY <3>1, <4>2, MatchRows
    <3>2. CASE j # L + 1
      <4>1. j \in 1..L /\ j + 1 \in 1..L + 1 /\ L + 1 - j \in 1..L
            /\ L + 1 - (L + 1 - j) = j /\ (L + 1 - j) - 1 = L + 1 - (j + 1)
        BY <1>1, <3>2
      <4>2. m[j] = f[L + 1 - j] /\ m[j + 1] = f[L + 1 - (j + 1)]
        BY <4>1
      <4>3. f[L + 1 - j] = RowBefore(uri, template[L + 1 - (L + 1 - j)], f[(L + 1 - j) - 1])
        BY <1>5, <4>1
      <4>4. m[j] = RowBefore(uri, template[j], m[j + 1])
        <5> HIDE DEF m
        <5> QED BY <4>1, <4>2, <4>3
      <4> HIDE DEF m
      <4> QED BY <4>1, <4>4, MatchRows
    <3> QED BY <3>1, <3>2
  <2>2. DOMAIN m = 1..L + 1 /\ m = [j \in 1..L + 1 |-> m[j]]
    OBVIOUS
  <2> HIDE DEF m
  <2> QED BY <2>1, <2>2
<1>7. g = Body(g)
  <2> HIDE DEF Body, m
  <2> QED BY <1>6
<1>8. ExtractURIParams(uri, template) = g[1][1]
  BY Zenon DEF ExtractURIParams, MatchRow
<1> HIDE DEF g
<1>9. \A j \in 1..L + 1 : g[j] = MatchRow(uri, template, g, j)
  BY <1>7
<1>10. L + 1 \in 1..L + 1 /\ \A j \in 1..L : j \in 1..L + 1
  BY <1>1
<1>11. g[L + 1] = LastRow(uri)
  BY <1>9, <1>10, MatchRows
<1>12. \A j \in 1..L : g[j] = RowBefore(uri, template[j], g[j + 1])
  BY <1>9, <1>10, MatchRows
<1> QED BY <1>8, <1>11, <1>12 DEF Matching

\* The match finds a cut of the URI into pieces for the template when there is one, and
\* gives the pieces of its parameters.
LEMMA Matched ==
  ASSUME NEW T, NEW uri \in Seq(T), NEW template \in Seq(T)
  PROVE  LET got == ExtractURIParams(uri, template)
         IN /\ got = NoMatch => \A at \in [0..Len(template) -> 0..Len(uri)] : ~Cut(uri, template, 1, 1, at)
            /\ got # NoMatch => /\ got \in Seq(Seq(T))
                                /\ \E at : Cut(uri, template, 1, 1, at) /\ PiecesOf(uri, template, 1, at, got)
<1> DEFINE L == Len(template)
<1>1. L \in Nat /\ Len(uri) \in Nat
  BY LenProperties
<1>2. PICK match : Matching(match, uri, template)
  BY MatchUnfolds
<1> DEFINE Good(k) == GoodRow(uri, template, T, L + 1 - k, match[L + 1 - k])
           holds == [k \in 0..L |-> Good(k)]
<1>3. \A k \in 0..L : Good(k) \in BOOLEAN
  BY DEF GoodRow
<1>4. Good(0)
  <2>1. L + 1 - 0 = L + 1
    BY <1>1
  <2> QED BY <1>2, <2>1, LastRowGood DEF Matching
<1>5. ASSUME NEW k \in 1..L, Good(k - 1) PROVE Good(k)
  <2>1. L + 1 - k \in 1..L /\ L + 1 - (k - 1) = (L + 1 - k) + 1
    BY <1>1
  <2>2. match[L + 1 - k] = RowBefore(uri, template[L + 1 - k], match[(L + 1 - k) + 1])
    BY <1>2, <2>1 DEF Matching
  <2>3. GoodRow(uri, template, T, (L + 1 - k) + 1, match[(L + 1 - k) + 1])
    BY <1>5, <2>1
  <2> QED BY <2>1, <2>2, <2>3, RowSteps
<1>6. \A k \in 0..L : holds[k]
  <2>1. holds \in [0..L -> BOOLEAN] /\ holds[0] /\ \A k \in 1..L : holds[k - 1] => holds[k]
    <3>1. 0 \in 0..L /\ \A k \in 1..L : k \in 0..L /\ k - 1 \in 0..L
      BY <1>1
    <3> HIDE DEF Good
    <3> QED BY <1>3, <1>4, <1>5, <3>1
  <2> HIDE DEF holds
  <2> QED BY <1>1, <2>1, Stepwise
<1>7. Good(L)
  <2>1. L \in 0..L
    BY <1>1
  <2> HIDE DEF Good
  <2> QED BY <1>6, <2>1
<1>8. GoodRow(uri, template, T, 1, match[1])
  <2>1. L + 1 - L = 1
    BY <1>1
  <2> QED BY <1>7, <2>1
<1>9. ExtractURIParams(uri, template) = match[1][1] /\ 1 \in 1..Len(uri) + 1
  BY <1>1, <1>2 DEF Matching
<1> QED BY <1>8, <1>9, Zenon DEF GoodRow

\* What is not a parameter is one token of the URI.
LEMMA LiteralRun ==
  ASSUME NEW T, NEW uri \in Seq(T), NEW template \in Seq(T), NEW at, Cut(uri, template, 1, 1, at),
         NEW j \in 0..Len(template), NEW m \in j..Len(template),
         \A k \in j + 1..m : template[k] \notin Params
  PROVE  /\ \A q \in j..m : at[q] = at[j] + (q - j)
         /\ \A q \in j + 1..m : uri[at[q]] = template[q]
<1> DEFINE L == Len(template)
           holds == [d \in 0..m - j |-> at[j + d] = at[j] + d]
<1>1. L \in Nat /\ Len(uri) \in Nat /\ m - j \in Nat
  BY LenProperties
<1>2. at \in [0..L -> 0..Len(uri)] /\ \A k \in 1..L : Piece(uri, template[k], at[k - 1], at[k])
  BY DEF Cut
<1>3. ASSUME NEW q \in j + 1..m PROVE at[q] = at[q - 1] + 1 /\ uri[at[q]] = template[q]
  <2>1. q \in 1..L /\ template[q] \notin Params
    BY <1>1
  <2>2. Piece(uri, template[q], at[q - 1], at[q])
    BY <1>2, <2>1
  <2> QED BY <2>1, <2>2 DEF Piece
<1>4. \A d \in 0..m - j : j + d \in 0..L /\ at[j + d] \in Nat
  <2>1. \A d \in 0..m - j : j + d \in 0..L
    BY <1>1
  <2> QED BY <1>2, <2>1
<1>5. \A d \in 0..m - j : holds[d]
  <2>1. holds \in [0..m - j -> BOOLEAN] /\ holds[0]
    <3>1. 0 \in 0..m - j /\ j + 0 = j /\ \A d \in 0..m - j : (at[j + d] = at[j] + d) \in BOOLEAN
      BY <1>1
    <3>2. at[j] \in Nat
      BY <1>4, <3>1
    <3>3. at[j + 0] = at[j] + 0
      BY <3>1, <3>2
    <3> QED BY <3>1, <3>3
  <2>2. ASSUME NEW d \in 1..m - j, holds[d - 1] PROVE holds[d]
    <3>1. d - 1 \in 0..m - j /\ d \in 0..m - j /\ j + d \in j + 1..m /\ (j + d) - 1 = j + (d - 1) /\ j + 0 = j /\ 0 \in 0..m - j
      BY <1>1
    <3>2. at[j + (d - 1)] = at[j] + (d - 1)
      BY <2>2, <3>1
    <3>3. at[j + d] = at[j + (d - 1)] + 1
      BY <1>3, <3>1
    <3>4. at[j] \in Nat
      BY <1>4, <3>1
    <3>5. at[j + d] = at[j] + d
      BY <3>2, <3>3, <3>4
    <3> QED BY <3>1, <3>5
  <2> HIDE DEF holds
  <2> QED BY <1>1, <2>1, <2>2, Stepwise
<1>6. ASSUME NEW q \in j..m PROVE at[q] = at[j] + (q - j)
  <2>1. q - j \in 0..m - j /\ j + (q - j) = q
    BY <1>1
  <2> QED BY <1>5, <2>1
<1> QED BY <1>3, <1>6

\* After a parameter the next slash of the template is the next slash of the URI.
LEMMA FirstSlash ==
  ASSUME NEW T, NEW uri \in Seq(T), NEW template \in Seq(T), NEW at, Cut(uri, template, 1, 1, at),
         NEW k \in 1..Len(template), template[k] \in Params,
         NEW s \in k + 1..Len(template), template[s] = Slash,
         \A q \in k + 1..s : template[q] \notin Params,
         \A q \in k + 1..s - 1 : template[q] # Slash
  PROVE  /\ at[s] = at[k] + (s - k) /\ at[k - 1] < at[s]
         /\ uri[at[s]] = Slash
         /\ \A p \in at[k - 1] + 1..at[s] - 1 : uri[p] # Slash
<1> DEFINE L == Len(template)
<1>1. L \in Nat /\ Len(uri) \in Nat /\ k \in 0..L /\ s \in k..L /\ k - 1 \in 0..L
  BY LenProperties
<1>2. /\ \A q \in k..s : at[q] = at[k] + (q - k)
      /\ \A q \in k + 1..s : uri[at[q]] = template[q]
  BY <1>1, LiteralRun
<1>3. at \in [0..L -> 0..Len(uri)] /\ Piece(uri, template[k], at[k - 1], at[k])
  BY DEF Cut
<1>4. at[k - 1] < at[k] /\ \A p \in at[k - 1] + 1..at[k] : uri[p] # Slash
  BY <1>3 DEF Piece
<1>5. PICK a \in Nat, b \in Nat : a = at[k - 1] /\ b = at[k]
  BY <1>1, <1>3, SMTT(30)
<1>6. s \in k..s /\ s \in k + 1..s
  BY <1>1
<1>7. at[s] = b + (s - k) /\ a < b
  BY <1>2, <1>4, <1>5, <1>6
<1>8. ASSUME NEW p \in a + 1..(b + (s - k)) - 1 PROVE uri[p] # Slash
  <2>1. CASE p <= b
    <3>1. p \in a + 1..b
      BY <2>1
    <3> QED BY <1>4, <1>5, <3>1
  <2>2. CASE p > b
    <3>1. k + (p - b) \in k + 1..s - 1 /\ k + (p - b) \in k..s /\ k + (p - b) \in k + 1..s
          /\ b + ((k + (p - b)) - k) = p
      BY <1>1, <2>2
    <3>2. at[k + (p - b)] = p
      BY <1>2, <1>5, <3>1
    <3>3. uri[at[k + (p - b)]] = template[k + (p - b)] /\ template[k + (p - b)] # Slash
      BY <1>2, <3>1
    <3> QED BY <3>2, <3>3
  <2> QED BY <2>1, <2>2
<1>9. uri[at[s]] = Slash
  BY <1>2, <1>6
<1>10. a < b + (s - k)
  BY <1>1, <1>7
<1> QED BY <1>5, <1>7, <1>8, <1>9, <1>10

\* With the parameters of a template in segments of their own there is one way to cut a URI.
LEMMA CutsAgree ==
  ASSUME NEW T, NEW uri \in Seq(T), NEW template \in Seq(T), Separated(template),
         NEW at, Cut(uri, template, 1, 1, at), NEW bt, Cut(uri, template, 1, 1, bt)
  PROVE  \A k \in 0..Len(template) : at[k] = bt[k]
<1> DEFINE L == Len(template)
           N == Len(uri)
           holds == [k \in 0..L |-> at[k] = bt[k]]
<1>1. L \in Nat /\ N \in Nat /\ DOMAIN template = 1..L
  BY LenProperties
<1>2. /\ at \in [0..L -> 0..N] /\ bt \in [0..L -> 0..N] /\ at[0] = 0 /\ bt[0] = 0 /\ at[L] = N /\ bt[L] = N
  BY DEF Cut
<1>3. ASSUME NEW k \in 1..L, at[k - 1] = bt[k - 1] PROVE at[k] = bt[k]
  <2>1. CASE template[k] \notin Params
    <3>1. PICK j \in 0..L : j = k - 1 /\ k \in j..L /\ k \in j..k /\ \A q \in j + 1..k : q = k
      BY <1>1
    <3>2. \A q \in j + 1..k : template[q] \notin Params
      BY <2>1, <3>1
    <3>3. k \in j..L
      BY <3>1
    <3>4. \A q \in j..k : at[q] = at[j] + (q - j)
      BY <3>2, <3>3, LiteralRun
    <3>5. \A q \in j..k : bt[q] = bt[j] + (q - j)
      BY <3>2, <3>3, LiteralRun
    <3> QED BY <1>3, <3>1, <3>4, <3>5
  <2>2. CASE template[k] \in Params
    <3> DEFINE Q == {q \in k + 1..L : template[q] = Slash}
    <3>1. Q \in SUBSET Nat
      BY <1>1
    <3>2. ASSUME NEW m \in k..L, \A q \in Q : m <= q
          PROVE  \A q \in k + 1..m : template[q] \notin Params
      <4> SUFFICES ASSUME NEW q \in k + 1..m, template[q] \in Params PROVE FALSE
        OBVIOUS
      <4>1. k \in 1..L /\ q \in 1..L /\ k < q
        BY <1>1
      <4>2. PICK z \in k..q : template[z] = Slash
        BY <1>1, <2>2, <4>1 DEF Separated
      <4>3. z # k /\ z # q
        BY <2>2, <4>2, TokensAssumption
      <4>4. z \in Q /\ z < m
        BY <1>1, <4>2, <4>3
      <4> QED BY <1>1, <3>1, <3>2, <4>4
    <3>3. CASE Q = {}
      <4>1. L \in k..L /\ k \in 0..L /\ L \in 0..L
        BY <1>1
      <4>2. \A q \in k + 1..L : template[q] \notin Params
        BY <3>2, <3>3, <4>1
      <4>3. at[L] = at[k] + (L - k) /\ bt[L] = bt[k] + (L - k)
        BY <4>1, <4>2, LiteralRun
      <4>4. at[k] \in Nat /\ bt[k] \in Nat
        BY <1>2, <4>1, SMTT(30)
      <4> QED BY <1>1, <1>2, <4>3, <4>4
    <3>4. CASE Q # {}
      <4>1. PICK s \in Q : \A q \in Q : s <= q
        <5> HIDE DEF Q
        <5> QED BY <3>1, <3>4, LeastNatural
      <4>2. s \in k + 1..L /\ s \in k..L /\ template[s] = Slash
        BY <1>1
      <4>3. \A q \in k + 1..s : template[q] \notin Params
        <5> HIDE DEF Q
        <5> QED BY <3>2, <4>1, <4>2
      <4>4. \A q \in k + 1..s - 1 : template[q] # Slash
        <5> SUFFICES ASSUME NEW q \in k + 1..s - 1, template[q] = Slash PROVE FALSE
          OBVIOUS
        <5>1. q \in Q /\ q < s /\ q \in Nat /\ s \in Nat
          BY <1>1, <4>2
        <5> QED BY <4>1, <5>1
      <4> HIDE DEF Q
      <4>5. /\ at[s] = at[k] + (s - k) /\ at[k - 1] < at[s] /\ uri[at[s]] = Slash
            /\ \A p \in at[k - 1] + 1..at[s] - 1 : uri[p] # Slash
        BY <2>2, <4>2, <4>3, <4>4, FirstSlash
      <4>6. /\ bt[s] = bt[k] + (s - k) /\ bt[k - 1] < bt[s] /\ uri[bt[s]] = Slash
            /\ \A p \in bt[k - 1] + 1..bt[s] - 1 : uri[p] # Slash
        BY <2>2, <4>2, <4>3, <4>4, FirstSlash
      <4>7. PICK a \in Nat, b \in Nat, c \in Nat : a = at[s] /\ b = bt[s] /\ c = at[k - 1]
        <5>1. s \in 0..L /\ k - 1 \in 0..L
          BY <1>1, <4>2
        <5>2. \A q \in 0..L : at[q] \in Nat /\ bt[q] \in Nat
          BY <1>2
        <5> QED BY <5>1, <5>2
      <4>8. a = b
        <5>1. CASE a < b
          <6>1. a \in c + 1..b - 1
            BY <4>5, <4>7, <5>1
          <6> QED BY <1>3, <4>5, <4>6, <4>7, <6>1
        <5>2. CASE b < a
          <6>1. b \in c + 1..a - 1
            BY <1>3, <4>6, <4>7, <5>2
          <6> QED BY <4>5, <4>6, <4>7, <6>1
        <5> QED BY <5>1, <5>2
      <4>9. at[k] \in Nat /\ bt[k] \in Nat
        BY <1>1, <1>2
      <4> QED BY <4>2, <4>5, <4>6, <4>7, <4>8, <4>9
    <3> QED BY <3>3, <3>4
  <2> QED BY <2>1, <2>2
<1>4. \A k \in 0..L : holds[k]
  <2>1. holds \in [0..L -> BOOLEAN] /\ holds[0]
    <3>1. 0 \in 0..L /\ \A k \in 0..L : (at[k] = bt[k]) \in BOOLEAN
      BY <1>1
    <3> QED BY <1>2, <3>1
  <2>2. \A k \in 1..L : holds[k - 1] => holds[k]
    <3>1. \A k \in 1..L : k \in 0..L /\ k - 1 \in 0..L
      BY <1>1
    <3> QED BY <1>3, <3>1
  <2> HIDE DEF holds
  <2> QED BY <1>1, <2>1, <2>2, Stepwise
<1> QED BY <1>4

\* Texts one after the other make up a text.
Laid(u, s, at) ==
  /\ at \in [0..Len(s) -> 0..Len(u)] /\ at[0] = 0 /\ at[Len(s)] = Len(u)
  /\ \A k \in 1..Len(s) : /\ at[k] = at[k - 1] + Len(s[k])
                          /\ \A p \in 1..Len(s[k]) : s[k][p] = u[at[k - 1] + p]

LEMMA FlattenLays ==
  ASSUME NEW T, NEW s \in Seq(Seq(T))
  PROVE  \E at : Laid(FlattenSeq(s), s, at)
<1> DEFINE n == Len(s)
<1>1. PICK upTo : Flattening(upTo, s, T)
  BY FlattenUnfolds
<1>2. /\ upTo \in [0..n -> Seq(T)] /\ upTo[0] = <<>> /\ FlattenSeq(s) = upTo[n]
      /\ \A i \in 1..n : upTo[i] = upTo[i - 1] \o s[i]
  BY <1>1 DEF Flattening
<1>3. n \in Nat /\ \A i \in 1..n : s[i] \in Seq(T)
  BY LenProperties, ElementOfSeq
<1> DEFINE at == [k \in 0..n |-> Len(upTo[k])]
<1>4. at \in [0..n -> Nat] /\ at[0] = 0
  BY <1>2, <1>3, LenProperties, EmptySeq
<1>5. ASSUME NEW k \in 1..n
      PROVE  /\ at[k] = at[k - 1] + Len(s[k]) /\ Len(s[k]) \in Nat
             /\ \A p \in 1..at[k - 1] : upTo[k][p] = upTo[k - 1][p]
             /\ \A p \in 1..Len(s[k]) : upTo[k][at[k - 1] + p] = s[k][p]
  <2>1. k - 1 \in 0..n /\ k \in 0..n
    BY <1>3
  <2>2. PICK x \in Seq(T), y \in Seq(T) : x = upTo[k - 1] /\ y = s[k]
    BY <1>2, <1>3, <2>1
  <2>3. /\ upTo[k] = x \o y /\ Len(x \o y) = Len(x) + Len(y) /\ Len(x) \in Nat /\ Len(y) \in Nat
        /\ \A i \in 1..Len(x) + Len(y) : (x \o y)[i] = IF i <= Len(x) THEN x[i] ELSE y[i - Len(x)]
    <3>1. upTo[k] = x \o y
      BY <1>2, <2>2
    <3>2. Len(x) \in Nat /\ Len(y) \in Nat
      BY LenProperties
    <3>3. /\ Len(x \o y) = Len(x) + Len(y)
          /\ \A i \in 1..Len(x) + Len(y) : (x \o y)[i] = IF i <= Len(x) THEN x[i] ELSE y[i - Len(x)]
      BY ConcatProperties
    <3> QED BY <3>1, <3>2, <3>3
  <2>4. at[k - 1] = Len(x) /\ at[k] = Len(x) + Len(y)
    BY <2>1, <2>2, <2>3
  <2>5. \A p \in 1..Len(x) : (x \o y)[p] = x[p]
    BY <2>3
  <2>6. \A p \in 1..Len(y) : (x \o y)[Len(x) + p] = y[p]
    <3> SUFFICES ASSUME NEW p \in 1..Len(y) PROVE (x \o y)[Len(x) + p] = y[p]
      OBVIOUS
    <3>1. Len(x) + p \in 1..Len(x) + Len(y) /\ ~(Len(x) + p <= Len(x)) /\ (Len(x) + p) - Len(x) = p
      BY <2>3
    <3> QED BY <2>3, <3>1
  <2> HIDE DEF at
  <2> QED BY <2>2, <2>3, <2>4, <2>5, <2>6
<1> HIDE DEF at
<1> DEFINE Prefix(m) == \A k \in 0..m : at[k] <= at[m] /\ \A p \in 1..at[k] : upTo[m][p] = upTo[k][p]
           holds == [m \in 0..n |-> Prefix(m)]
<1>6. \A m \in 0..n : holds[m]
  <2>1. holds \in [0..n -> BOOLEAN] /\ holds[0]
    <3>1. \A m \in 0..n : Prefix(m) \in BOOLEAN
      OBVIOUS
    <3>2. Prefix(0)
      BY <1>4
    <3>3. 0 \in 0..n
      BY <1>3
    <3> HIDE DEF Prefix
    <3> QED BY <3>1, <3>2, <3>3
  <2>2. ASSUME NEW m \in 1..n, Prefix(m - 1) PROVE Prefix(m)
    <3> SUFFICES ASSUME NEW k \in 0..m PROVE at[k] <= at[m] /\ \A p \in 1..at[k] : upTo[m][p] = upTo[k][p]
      OBVIOUS
    <3>1. m - 1 \in 0..n /\ m \in 0..n /\ (k = m \/ k \in 0..m - 1) /\ k \in 0..n
      BY <1>3
    <3>2. at[m - 1] \in Nat /\ at[k] \in Nat /\ at[m] \in Nat
      BY <1>4, <3>1
    <3>3. CASE k = m
      BY <3>2, <3>3
    <3>4. CASE k \in 0..m - 1
      <4>1. at[k] <= at[m - 1] /\ \A p \in 1..at[k] : upTo[m - 1][p] = upTo[k][p]
        BY <2>2, <3>4
      <4>2. at[m - 1] <= at[m] /\ \A p \in 1..at[m - 1] : upTo[m][p] = upTo[m - 1][p]
        BY <1>5, <3>2, SMTT(30)
      <4>3. \A p \in 1..at[k] : p \in 1..at[m - 1]
        BY <3>2, <4>1
      <4> QED BY <3>2, <4>1, <4>2, <4>3
    <3> QED BY <3>1, <3>3, <3>4
  <2>3. \A m \in 1..n : holds[m - 1] => holds[m]
    <3>1. \A m \in 1..n : m \in 0..n /\ m - 1 \in 0..n
      BY <1>3
    <3> HIDE DEF Prefix
    <3> QED BY <2>2, <3>1
  <2> HIDE DEF holds
  <2> QED BY <1>3, <2>1, <2>3, Stepwise
<1>7. Prefix(n)
  <2>1. n \in 0..n
    BY <1>3
  <2> HIDE DEF Prefix
  <2> QED BY <1>6, <2>1
<1>8. Len(FlattenSeq(s)) = at[n] /\ n \in 0..n
  BY <1>2, <1>3 DEF at
<1>9. at \in [0..n -> 0..at[n]]
  <2>1. \A k \in 0..n : at[k] \in Nat /\ at[k] <= at[n]
    BY <1>4, <1>7
  <2>2. \A k \in 0..n : at[k] \in 0..at[n]
    BY <1>8, <2>1
  <2> QED BY <1>4, <2>2
<1>10. ASSUME NEW k \in 1..n, NEW p \in 1..Len(s[k])
       PROVE  s[k][p] = FlattenSeq(s)[at[k - 1] + p]
  <2>1. k \in 0..n /\ k - 1 \in 0..n
    BY <1>3
  <2>2. at[k - 1] \in Nat /\ at[k] = at[k - 1] + Len(s[k]) /\ Len(s[k]) \in Nat
    BY <1>4, <1>5, <2>1
  <2>3. at[k - 1] + p \in 1..at[k]
    BY <2>2
  <2>4. upTo[n][at[k - 1] + p] = upTo[k][at[k - 1] + p]
    BY <1>7, <2>1, <2>3
  <2>5. upTo[k][at[k - 1] + p] = s[k][p]
    BY <1>5
  <2> QED BY <1>2, <2>4, <2>5
<1>11. Laid(FlattenSeq(s), s, at)
  BY <1>4, <1>5, <1>8, <1>9, <1>10 DEF Laid
<1> QED BY <1>11

LEMMA LaidFlatten ==
  ASSUME NEW T, NEW s \in Seq(Seq(T)), NEW u \in Seq(T), NEW at, Laid(u, s, at)
  PROVE  FlattenSeq(s) = u
<1> DEFINE n == Len(s)
<1>1. PICK upTo : Flattening(upTo, s, T)
  BY FlattenUnfolds
<1>2. /\ upTo \in [0..n -> Seq(T)] /\ upTo[0] = <<>> /\ FlattenSeq(s) = upTo[n]
      /\ \A i \in 1..n : upTo[i] = upTo[i - 1] \o s[i]
  BY <1>1 DEF Flattening
<1>3. n \in Nat /\ \A i \in 1..n : s[i] \in Seq(T)
  BY LenProperties, ElementOfSeq
<1>4. /\ at \in [0..n -> 0..Len(u)] /\ at[0] = 0 /\ at[n] = Len(u)
      /\ \A k \in 1..n : at[k] = at[k - 1] + Len(s[k]) /\ \A p \in 1..Len(s[k]) : s[k][p] = u[at[k - 1] + p]
  BY DEF Laid
<1> DEFINE Same(k) == Len(upTo[k]) = at[k] /\ \A p \in 1..at[k] : upTo[k][p] = u[p]
           holds == [k \in 0..n |-> Same(k)]
<1>5. Same(0)
  <2>1. Len(<<>>) = 0
    BY EmptySeq
  <2> QED BY <1>2, <1>4, <2>1
<1>6. ASSUME NEW k \in 1..n, Same(k - 1) PROVE Same(k)
  <2>1. k - 1 \in 0..n /\ k \in 0..n
    BY <1>3
  <2>2. PICK x \in Seq(T), y \in Seq(T) : x = upTo[k - 1] /\ y = s[k]
    BY <1>2, <1>3, <2>1
  <2>3. /\ upTo[k] = x \o y /\ Len(x \o y) = Len(x) + Len(y) /\ Len(x) \in Nat /\ Len(y) \in Nat
        /\ \A i \in 1..Len(x) + Len(y) : (x \o y)[i] = IF i <= Len(x) THEN x[i] ELSE y[i - Len(x)]
    <3>1. upTo[k] = x \o y
      BY <1>2, <2>2
    <3>2. Len(x) \in Nat /\ Len(y) \in Nat
      BY LenProperties
    <3>3. /\ Len(x \o y) = Len(x) + Len(y)
          /\ \A i \in 1..Len(x) + Len(y) : (x \o y)[i] = IF i <= Len(x) THEN x[i] ELSE y[i - Len(x)]
      BY ConcatProperties
    <3> QED BY <3>1, <3>2, <3>3
  <2>4. at[k - 1] = Len(x) /\ at[k] = Len(x) + Len(y)
    BY <1>4, <1>6, <2>2
  <2>5. ASSUME NEW p \in 1..Len(x) + Len(y) PROVE (x \o y)[p] = u[p]
    <3>1. CASE p <= Len(x)
      <4>1. p \in 1..Len(x)
        BY <2>3, <3>1
      <4> QED BY <1>6, <2>2, <2>3, <2>4, <3>1, <4>1
    <3>2. CASE ~(p <= Len(x))
      <4>1. p - Len(x) \in 1..Len(y) /\ Len(x) + (p - Len(x)) = p
        BY <2>3, <3>2
      <4>2. y[p - Len(x)] = u[Len(x) + (p - Len(x))]
        BY <1>4, <2>2, <2>4, <4>1
      <4> QED BY <2>3, <3>2, <4>1, <4>2
    <3> QED BY <3>1, <3>2
  <2> QED BY <2>3, <2>4, <2>5
<1>7. \A k \in 0..n : holds[k]
  <2>1. \A k \in 0..n : Same(k) \in BOOLEAN
    OBVIOUS
  <2>2. 0 \in 0..n /\ \A k \in 1..n : k \in 0..n /\ k - 1 \in 0..n
    BY <1>3
  <2>3. holds \in [0..n -> BOOLEAN] /\ holds[0] /\ \A k \in 1..n : holds[k - 1] => holds[k]
    <3> HIDE DEF Same
    <3> QED BY <1>5, <1>6, <2>1, <2>2
  <2> HIDE DEF holds
  <2> QED BY <1>3, <2>3, Stepwise
<1>8. Same(n)
  <2>1. n \in 0..n
    BY <1>3
  <2> HIDE DEF Same
  <2> QED BY <1>7, <2>1
<1>9. PICK v \in Seq(T) : v = upTo[n]
  <2>1. n \in 0..n
    BY <1>3
  <2> QED BY <1>2, <2>1
<1>10. Len(v) = Len(u) /\ \A p \in 1..Len(v) : v[p] = u[p]
  BY <1>4, <1>8, <1>9
<1>11. v = u
  BY <1>10, SeqEqual
<1> QED BY <1>2, <1>9, <1>11

\* What Fill puts together.
Part(template, values, k) == IF template[k] \in Params THEN values[Slot(template, k)] ELSE <<template[k]>>
Parts(template, values) == [k \in DOMAIN template |-> Part(template, values, k)]

Filling(template, values, T) ==
  /\ values \in Seq(Seq(T)) /\ Len(values) = Len(Only(template, Params))
  /\ \A k \in DOMAIN values : Segment(values[k])

\* A segment has a token, and none is a slash.
LEMMA SegmentTokens ==
  ASSUME NEW T, NEW x \in Seq(T)
  PROVE  Segment(x) <=> Len(x) > 0 /\ \A p \in 1..Len(x) : x[p] # Slash
<1>1. DOMAIN x = 1..Len(x) /\ Len(x) \in Nat
  BY LenProperties
<1>2. x # <<>> <=> Len(x) > 0
  BY EmptySeq, <1>1
<1>3. Slash \notin Range(x) <=> \A p \in 1..Len(x) : x[p] # Slash
  BY <1>1 DEF Range
<1> QED BY <1>2, <1>3 DEF Segment

LEMMA PartsMade ==
  ASSUME NEW T, NEW template \in Seq(T), NEW values \in Seq(Seq(T)),
         Len(values) = Slot(template, Len(template))
  PROVE  /\ Parts(template, values) \in Seq(Seq(T)) /\ Len(Parts(template, values)) = Len(template)
         /\ \A k \in 1..Len(template) : Parts(template, values)[k] = Part(template, values, k)
         /\ \A k \in 1..Len(template) : template[k] \in Params => Slot(template, k) \in 1..Len(values)
         /\ Fill(template, values) = FlattenSeq(Parts(template, values))
<1> DEFINE L == Len(template)
<1>1. L \in Nat /\ DOMAIN template = 1..L /\ \A k \in 1..L : template[k] \in T
  BY LenProperties, ElementOfSeq
<1>2. ASSUME NEW k \in 1..L, template[k] \in Params PROVE Slot(template, k) \in 1..Len(values)
  <2>1. k - 1 \in 0..L /\ k \in 0..L /\ L \in 0..L /\ k <= L
    BY <1>1
  <2>2. Slot(template, k) = Slot(template, k - 1) + 1 /\ Slot(template, k - 1) \in Nat /\ Slot(template, L) \in Nat
    BY <1>2, <2>1, SlotSteps
  <2>3. Slot(template, k) <= Slot(template, L)
    BY <2>1, SlotsGrow
  <2> QED BY <2>2, <2>3
<1>3. ASSUME NEW k \in 1..L PROVE Part(template, values, k) \in Seq(T)
  <2>1. CASE template[k] \in Params
    <3>1. values[Slot(template, k)] \in Seq(T)
      BY <1>2, <2>1, ElementOfSeq
    <3> QED BY <2>1, <3>1 DEF Part
  <2>2. CASE template[k] \notin Params
    <3>1. <<template[k]>> \in Seq(T)
      BY <1>1
    <3> QED BY <2>2, <3>1 DEF Part
  <2> QED BY <2>1, <2>2
<1>4. /\ Parts(template, values) \in Seq(Seq(T)) /\ Len(Parts(template, values)) = L
      /\ \A k \in 1..L : Parts(template, values)[k] = Part(template, values, k)
  <2>1. Parts(template, values) = [k \in 1..L |-> Part(template, values, k)]
    BY <1>1 DEF Parts
  <2> QED BY <1>1, <1>3, <2>1
<1>5. Fill(template, values) = FlattenSeq(Parts(template, values))
  BY DEF Fill, Parts, Part
<1> QED BY <1>2, <1>4, <1>5

\* A URI made from values in segments is cut into them.
LEMMA FillCut ==
  ASSUME NEW T, NEW template \in Seq(T), NEW values, Filling(template, values, T)
  PROVE  /\ Fill(template, values) \in Seq(T)
         /\ \E at : /\ Cut(Fill(template, values), template, 1, 1, at)
                    /\ PiecesOf(Fill(template, values), template, 1, at, values)
<1> DEFINE L == Len(template)
           parts == Parts(template, values)
<1>1. L \in Nat /\ 0 \in 0..L /\ L \in 0..L
  BY LenProperties
<1>2. values \in Seq(Seq(T)) /\ Len(values) = Slot(template, L) /\ \A k \in 1..Len(values) : Segment(values[k])
  BY SlotSteps, LenProperties DEF Filling
<1>3. /\ parts \in Seq(Seq(T)) /\ Len(parts) = L
      /\ \A k \in 1..L : parts[k] = Part(template, values, k)
      /\ \A k \in 1..L : template[k] \in Params => Slot(template, k) \in 1..Len(values)
      /\ Fill(template, values) = FlattenSeq(parts)
  BY <1>2, PartsMade
<1> HIDE DEF parts
<1>4. PICK uri \in Seq(T) : uri = Fill(template, values) /\ uri = FlattenSeq(parts)
  BY <1>3, FlattenElements
<1>5. PICK at : Laid(uri, parts, at)
  BY <1>3, <1>4, FlattenLays
<1>6. /\ at \in [0..L -> 0..Len(uri)] /\ at[0] = 0 /\ at[L] = Len(uri)
      /\ \A k \in 1..L : /\ at[k] = at[k - 1] + Len(parts[k])
                         /\ \A p \in 1..Len(parts[k]) : parts[k][p] = uri[at[k - 1] + p]
  BY <1>3, <1>5 DEF Laid
<1>7. \A k \in 0..L : at[k] \in Nat
  <2>1. at \in [0..L -> 0..Len(uri)]
    BY <1>6
  <2>2. \A k \in 0..L : at[k] \in 0..Len(uri)
    BY <2>1
  <2> QED BY <2>2
<1>8. ASSUME NEW k \in 1..L, template[k] \in Params
      PROVE  /\ values[Slot(template, k)] = SubSeq(uri, at[k - 1] + 1, at[k])
             /\ at[k - 1] < at[k] /\ \A p \in at[k - 1] + 1..at[k] : uri[p] # Slash
  <2>1. PICK x \in Seq(T) : x = values[Slot(template, k)] /\ x = parts[k]
    <3>1. values[Slot(template, k)] \in Seq(T)
      BY <1>2, <1>3, <1>8, ElementOfSeq
    <3> QED BY <1>3, <1>8, <3>1 DEF Part
  <2>2. Segment(x)
    BY <1>2, <1>3, <1>8, <2>1
  <2>3. Len(x) \in Nat /\ Len(x) > 0 /\ \A p \in 1..Len(x) : x[p] # Slash
    BY <2>2, SegmentTokens, LenProperties
  <2>4. PICK a \in Nat, b \in Nat : a = at[k - 1] /\ b = at[k]
    BY <1>1, <1>7, SMTT(30)
  <2>5. b = a + Len(x) /\ \A p \in 1..Len(x) : x[p] = uri[a + p]
    BY <1>6, <2>1, <2>4
  <2>6. a < b
    BY <2>3, <2>5
  <2>7. ASSUME NEW p \in a + 1..b PROVE uri[p] # Slash
    <3>1. p - a \in 1..Len(x) /\ a + (p - a) = p
      BY <2>3, <2>5
    <3> QED BY <2>3, <2>5, <3>1
  <2>8. x = SubSeq(uri, a + 1, b)
    <3>1. a + 1 \in 1..Len(uri) /\ b \in a + 1..Len(uri)
      <4>1. b \in 0..Len(uri)
        <5>1. k \in 0..L
          BY <1>1
        <5> QED BY <1>6, <2>4, <5>1
      <4> QED BY <2>6, <4>1
    <3>2. \A p \in a + 1..b : p \in 1..Len(uri)
      BY <3>1
    <3>3. \A p \in a + 1..b : uri[p] \in T
      BY <3>2, ElementOfSeq
    <3>4. /\ SubSeq(uri, a + 1, b) \in Seq(T)
          /\ Len(SubSeq(uri, a + 1, b)) = IF a + 1 <= b THEN b - (a + 1) + 1 ELSE 0
          /\ \A p \in 1..b - (a + 1) + 1 : SubSeq(uri, a + 1, b)[p] = uri[(a + 1) + p - 1]
      BY <3>3, SubSeqProperties
    <3>5. PICK y \in Seq(T) : /\ y = SubSeq(uri, a + 1, b) /\ Len(y) = Len(x)
                              /\ \A p \in 1..Len(x) : y[p] = uri[(a + 1) + p - 1]
      <4>1. b - (a + 1) + 1 = Len(x) /\ a + 1 <= b
        BY <2>3, <2>5
      <4> QED BY <3>4, <4>1
    <3>6. \A p \in 1..Len(x) : x[p] = y[p]
      <4>1. \A p \in 1..Len(x) : (a + 1) + p - 1 = a + p
        BY <2>3
      <4> QED BY <2>5, <3>5, <4>1
    <3>7. x = y
      BY <3>5, <3>6, SeqEqual
    <3> QED BY <3>5, <3>7
  <2> QED BY <2>1, <2>4, <2>6, <2>7, <2>8
<1>9. ASSUME NEW k \in 1..L, template[k] \notin Params
      PROVE  at[k] = at[k - 1] + 1 /\ uri[at[k]] = template[k]
  <2>1. parts[k] = <<template[k]>> /\ Len(<<template[k]>>) = 1 /\ <<template[k]>>[1] = template[k]
    BY <1>3, <1>9 DEF Part
  <2>2. at[k] = at[k - 1] + 1
    BY <1>6, <2>1
  <2>3. parts[k][1] = uri[at[k - 1] + 1]
    <3>1. 1 \in 1..Len(parts[k])
      BY <2>1
    <3>2. \A p \in 1..Len(parts[k]) : parts[k][p] = uri[at[k - 1] + p]
      BY <1>6
    <3> QED BY <3>1, <3>2
  <2> QED BY <2>1, <2>2, <2>3
<1>10. \A k \in 1..L : Piece(uri, template[k], at[k - 1], at[k])
  <2> SUFFICES ASSUME NEW k \in 1..L PROVE Piece(uri, template[k], at[k - 1], at[k])
    OBVIOUS
  <2>1. at[k - 1] \in Nat
    BY <1>1, <1>7
  <2>2. CASE template[k] \in Params
    BY <1>8, <2>2 DEF Piece
  <2>3. CASE template[k] \notin Params
    <3>1. at[k - 1] < at[k]
      BY <1>9, <2>1, <2>3
    <3> QED BY <1>9, <2>3, <3>1 DEF Piece
  <2> QED BY <2>2, <2>3
<1>11. Cut(uri, template, 1, 1, at)
  BY <1>6, <1>10 DEF Cut
<1>12. PiecesOf(uri, template, 1, at, values)
  <2>1. Slot(template, 1 - 1) = 0 /\ Slot(template, L) \in Nat
    BY <1>1, SlotSteps
  <2>2. Len(values) = Slot(template, L) - Slot(template, 1 - 1)
    BY <1>2, <2>1
  <2>3. \A k \in 1..L : k \in 0..L
    BY <1>1
  <2>4. \A k \in 1..L : Slot(template, k) - Slot(template, 1 - 1) = Slot(template, k)
    <3>1. \A k \in 0..L : Slot(template, k) \in Nat
      BY SlotSteps
    <3> QED BY <2>1, <2>3, <3>1
  <2> QED BY <1>8, <2>2, <2>4 DEF PiecesOf
<1> QED BY <1>4, <1>11, <1>12

\* The values of the parameters put back make up the URI.
LEMMA CutFill ==
  ASSUME NEW T, NEW uri \in Seq(T), NEW template \in Seq(T), NEW at, Cut(uri, template, 1, 1, at),
         NEW values \in Seq(Seq(T)), PiecesOf(uri, template, 1, at, values)
  PROVE  /\ Filling(template, values, T) /\ Fill(template, values) = uri
         /\ \A m \in DOMAIN values : values[m] \in SubSeqs(uri)
<1> DEFINE L == Len(template)
           N == Len(uri)
           parts == Parts(template, values)
<1>1. L \in Nat /\ N \in Nat /\ 0 \in 0..L /\ L \in 0..L /\ DOMAIN values = 1..Len(values)
  BY LenProperties
<1>2. /\ at \in [0..L -> 0..N] /\ at[0] = 0 /\ at[L] = N
      /\ \A k \in 1..L : Piece(uri, template[k], at[k - 1], at[k])
  BY DEF Cut
<1>3. \A k \in 0..L : at[k] \in 0..N /\ Slot(template, k) \in Nat
  BY <1>2, SlotSteps
<1>4. Slot(template, 1 - 1) = 0 /\ Slot(template, L) = Len(Only(template, Params))
  BY SlotSteps
<1>5. Len(values) = Slot(template, L)
  BY <1>1, <1>3, <1>4 DEF PiecesOf
<1>6. \A k \in 1..L : k \in 0..L /\ k - 1 \in 0..L
  BY <1>1
<1>7. ASSUME NEW k \in 1..L, template[k] \in Params
      PROVE  values[Slot(template, k)] = SubSeq(uri, at[k - 1] + 1, at[k])
  <2>1. Slot(template, k) - Slot(template, 1 - 1) = Slot(template, k)
    BY <1>3, <1>4, <1>6
  <2> QED BY <1>7, <2>1 DEF PiecesOf
<1>8. ASSUME NEW k \in 1..L, template[k] \in Params
      PROVE  /\ SubSeq(uri, at[k - 1] + 1, at[k]) \in Seq(T)
             /\ Segment(SubSeq(uri, at[k - 1] + 1, at[k]))
             /\ SubSeq(uri, at[k - 1] + 1, at[k]) \in SubSeqs(uri)
             /\ at[k] = at[k - 1] + Len(SubSeq(uri, at[k - 1] + 1, at[k]))
             /\ \A p \in 1..Len(SubSeq(uri, at[k - 1] + 1, at[k])) : SubSeq(uri, at[k - 1] + 1, at[k])[p] = uri[at[k - 1] + p]
  <2>1. PICK a \in 0..N, b \in 0..N : a = at[k - 1] /\ b = at[k]
    BY <1>3, <1>6
  <2>2. a < b /\ \A p \in a + 1..b : uri[p] # Slash
    <3>1. Piece(uri, template[k], a, b)
      BY <1>2, <2>1
    <3> QED BY <1>8, <3>1 DEF Piece
  <2>3. a + 1 \in 1..N /\ b \in a + 1..N
    BY <1>1, <2>2
  <2>4. SubSeq(uri, a + 1, b) \in Seq(T) /\ ParamTakes(SubSeq(uri, a + 1, b))
    BY <2>2, <2>3, PartTaken
  <2>5. Segment(SubSeq(uri, a + 1, b))
    BY <2>4 DEF ParamTakes, Segment
  <2>6. SubSeq(uri, a + 1, b) \in SubSeqs(uri)
    BY DEF SubSeqs
  <2>7. \A p \in a + 1..b : uri[p] \in T
    <3>1. \A p \in a + 1..b : p \in 1..N
      BY <1>1
    <3> QED BY <3>1, ElementOfSeq
  <2>8. /\ Len(SubSeq(uri, a + 1, b)) = IF a + 1 <= b THEN b - (a + 1) + 1 ELSE 0
        /\ \A p \in 1..b - (a + 1) + 1 : SubSeq(uri, a + 1, b)[p] = uri[(a + 1) + p - 1]
    <3>1. a + 1 \in Int /\ b \in Int
      BY <1>1
    <3> QED BY <2>7, <3>1, SubSeqProperties
  <2>9. Len(SubSeq(uri, a + 1, b)) = b - a /\ b - (a + 1) + 1 = b - a /\ b = a + (b - a)
    BY <1>1, <2>2, <2>8
  <2>10. \A p \in 1..b - a : SubSeq(uri, a + 1, b)[p] = uri[a + p]
    <3>1. \A p \in 1..b - a : (a + 1) + p - 1 = a + p
      BY <1>1
    <3> QED BY <2>8, <2>9, <3>1
  <2> QED BY <2>1, <2>4, <2>5, <2>6, <2>9, <2>10
<1>9. ASSUME NEW m \in 1..Len(values)
      PROVE  Segment(values[m]) /\ values[m] \in SubSeqs(uri)
  <2>1. PICK k \in 1..L : template[k] \in Params /\ Slot(template, k) = m
    BY <1>5, SlotsGrow
  <2> QED BY <1>7, <1>8, <2>1
<1>10. Filling(template, values, T)
  BY <1>1, <1>4, <1>5, <1>9 DEF Filling
<1>11. /\ parts \in Seq(Seq(T)) /\ Len(parts) = L
       /\ \A k \in 1..L : parts[k] = Part(template, values, k)
       /\ Fill(template, values) = FlattenSeq(parts)
  BY <1>5, PartsMade
<1> HIDE DEF parts
<1>12. ASSUME NEW k \in 1..L
       PROVE  at[k] = at[k - 1] + Len(parts[k]) /\ \A p \in 1..Len(parts[k]) : parts[k][p] = uri[at[k - 1] + p]
  <2>1. CASE template[k] \in Params
    <3>1. parts[k] = SubSeq(uri, at[k - 1] + 1, at[k])
      BY <1>7, <1>11, <2>1 DEF Part
    <3> QED BY <1>8, <2>1, <3>1, ZenonT(40)
  <2>2. CASE template[k] \notin Params
    <3>1. parts[k] = <<template[k]>> /\ Len(parts[k]) = 1 /\ parts[k][1] = template[k]
      <4>1. parts[k] = <<template[k]>>
        BY <1>11, <2>2 DEF Part
      <4>2. Len(<<template[k]>>) = 1 /\ <<template[k]>>[1] = template[k]
        OBVIOUS
      <4> QED BY <4>1, <4>2
    <3>2. at[k] = at[k - 1] + 1 /\ uri[at[k]] = template[k]
      <4>1. Piece(uri, template[k], at[k - 1], at[k])
        BY <1>2
      <4> QED BY <2>2, <4>1 DEF Piece
    <3>3. \A p \in 1..Len(parts[k]) : p = 1
      BY <3>1
    <3> QED BY <3>1, <3>2, <3>3
  <2> QED BY <2>1, <2>2
<1>13. Laid(uri, parts, at)
  BY <1>2, <1>11, <1>12 DEF Laid
<1>14. Fill(template, values) = uri
  BY <1>11, <1>13, LaidFlatten
<1> QED BY <1>1, <1>9, <1>10, <1>14

\* The values that a URI was made from are the values that are found in it.
LEMMA ExtractFilled ==
  ASSUME NEW T, NEW template \in Seq(T), Separated(template), NEW values, Filling(template, values, T)
  PROVE  ExtractURIParams(Fill(template, values), template) = values /\ values # NoMatch
<1> DEFINE L == Len(template)
<1>1. L \in Nat /\ 0 \in 0..L /\ L \in 0..L
  BY LenProperties
<1>2. PICK uri \in Seq(T) : uri = Fill(template, values)
  BY FillCut
<1>3. PICK at : Cut(uri, template, 1, 1, at) /\ PiecesOf(uri, template, 1, at, values)
  BY <1>2, FillCut
<1>4. PICK got : got = ExtractURIParams(uri, template)
  OBVIOUS
<1>5. got # NoMatch
  <2>1. at \in [0..L -> 0..Len(uri)]
    BY <1>3 DEF Cut
  <2> QED BY <1>3, <1>4, <2>1, Matched
<1>6. got \in Seq(Seq(T))
  BY <1>4, <1>5, Matched
<1>7. PICK bt : Cut(uri, template, 1, 1, bt) /\ PiecesOf(uri, template, 1, bt, got)
  BY <1>4, <1>5, Matched
<1>8. \A k \in 0..L : at[k] = bt[k]
  BY <1>3, <1>7, CutsAgree
<1>9. /\ Len(values) = Slot(template, L) - Slot(template, 1 - 1)
      /\ Len(got) = Slot(template, L) - Slot(template, 1 - 1)
      /\ \A k \in 1..L : template[k] \in Params =>
           /\ values[Slot(template, k) - Slot(template, 1 - 1)] = SubSeq(uri, at[k - 1] + 1, at[k])
           /\ got[Slot(template, k) - Slot(template, 1 - 1)] = SubSeq(uri, bt[k - 1] + 1, bt[k])
  BY <1>3, <1>7 DEF PiecesOf
<1>10. Slot(template, 1 - 1) = 0 /\ \A k \in 0..L : Slot(template, k) \in Nat
  BY SlotSteps
<1>11. Len(got) = Len(values) /\ Len(values) = Slot(template, L)
  BY <1>1, <1>9, <1>10
<1>12. ASSUME NEW m \in 1..Len(values) PROVE got[m] = values[m]
  <2>1. PICK k \in 1..L : template[k] \in Params /\ Slot(template, k) = m
    BY <1>11, SlotsGrow
  <2>2. k \in 0..L /\ k - 1 \in 0..L
    BY <1>1
  <2>3. Slot(template, k) - Slot(template, 1 - 1) = m
    BY <1>10, <2>1, <2>2
  <2>4. at[k] = bt[k] /\ at[k - 1] = bt[k - 1]
    BY <1>8, <2>2
  <2> QED BY <1>9, <2>1, <2>3, <2>4
<1>13. values \in Seq(Seq(T))
  BY DEF Filling
<1>14. got = values
  BY <1>6, <1>11, <1>12, <1>13, SeqEqual
<1> QED BY <1>2, <1>4, <1>5, <1>14

\* What matches the template of a resource is a URI of the resource.
LEMMA MatchedStands ==
  ASSUME NEW T, NEW uri \in Seq(T), NEW r, r.template \in Seq(T), IsTemplate(r),
         ExtractURIParams(uri, r.template) # NoMatch
  PROVE  StandsFor(r, uri)
<1>1. PICK template \in Seq(T) : template = r.template
  OBVIOUS
<1>2. PICK values \in Seq(Seq(T)) : \E at : Cut(uri, template, 1, 1, at) /\ PiecesOf(uri, template, 1, at, values)
  BY <1>1, Matched
<1>3. /\ Filling(template, values, T) /\ Fill(template, values) = uri
      /\ \A m \in DOMAIN values : values[m] \in SubSeqs(uri)
  BY <1>2, CutFill
<1>4. /\ DOMAIN values = 1..Len(Only(template, Params))
      /\ \A m \in DOMAIN values : Segment(values[m])
      /\ values = [m \in DOMAIN values |-> values[m]]
  BY <1>3, LenProperties DEF Filling
<1>5. values \in [1..Len(Only(template, Params)) -> {text \in SubSeqs(uri) : Segment(text)}]
  BY <1>3, <1>4
<1> QED BY <1>1, <1>3, <1>5 DEF StandsFor

-----------------------------------------------------------------------------
(* Resources on a server *)

\* A resource with its tokens in T: what the application lists of it, and what it does not.
ResourceKnown(r, T) ==
  /\ r.uri \in Seq(T) /\ r.template \in Seq(T) /\ IsSequence(r.instances)
  /\ \A values \in Range(r.instances) \cup r.unlisted :
       values \in Seq(Seq(T)) /\ Len(values) = Len(Only(r.template, Params))

ResourceTokens(r) ==
  Range(r.uri) \cup Range(r.template)
    \cup UNION {UNION {Range(text) : text \in Range(values)} : values \in Range(r.instances) \cup r.unlisted}

\* The resources of a project have some tokens.
LEMMA TokensKnown ==
  ASSUME ProjectKnown
  PROVE  \E T : \A r \in Range(project.resources) : ResourceKnown(r, T)
<1> DEFINE T == UNION {ResourceTokens(r) : r \in Range(project.resources)}
<1>1. ASSUME NEW r \in Range(project.resources) PROVE ResourceKnown(r, T)
  <2>1. /\ IsSequence(r.uri) /\ IsSequence(r.template) /\ IsSequence(r.instances)
        /\ \A values \in Range(r.instances) \cup r.unlisted :
             /\ IsSequence(values) /\ Len(values) = Len(Only(r.template, Params))
             /\ \A text \in Range(values) : IsSequence(text)
    BY ProjectsAssumption DEF ProjectKnown
  <2>2. ResourceTokens(r) \subseteq T
    OBVIOUS
  <2>3. /\ Range(r.uri) \subseteq T /\ Range(r.template) \subseteq T
        /\ \A values \in Range(r.instances) \cup r.unlisted : \A text \in Range(values) : Range(text) \subseteq T
    <3> HIDE DEF T
    <3>1. Range(r.uri) \subseteq T /\ Range(r.template) \subseteq T
      BY <2>2 DEF ResourceTokens
    <3>2. ASSUME NEW values \in Range(r.instances) \cup r.unlisted, NEW text \in Range(values)
          PROVE  Range(text) \subseteq T
      <4>1. Range(text) \subseteq UNION {Range(x) : x \in Range(values)}
        OBVIOUS
      <4>2. UNION {Range(x) : x \in Range(values)} \subseteq ResourceTokens(r)
        BY DEF ResourceTokens
      <4> QED BY <2>2, <4>1, <4>2
    <3> QED BY <3>1, <3>2
  <2> HIDE DEF T
  <2>4. r.uri \in Seq(T) /\ r.template \in Seq(T)
    BY <2>1, <2>3, SeqMonotonic DEF IsSequence
  <2>5. ASSUME NEW values \in Range(r.instances) \cup r.unlisted PROVE values \in Seq(Seq(T))
    <3>1. \A text \in Range(values) : text \in Seq(T)
      <4> SUFFICES ASSUME NEW text \in Range(values) PROVE text \in Seq(T)
        OBVIOUS
      <4>1. text \in Seq(Range(text)) /\ Range(text) \subseteq T
        BY <2>1, <2>3 DEF IsSequence
      <4> QED BY <4>1, SeqMonotonic
    <3>2. values \in Seq(Range(values)) /\ Range(values) \subseteq Seq(T)
      BY <2>1, <3>1 DEF IsSequence
    <3> QED BY <3>2, SeqMonotonic
  <2> QED BY <2>1, <2>4, <2>5 DEF ResourceKnown
<1> HIDE DEF T
<1> QED BY <1>1

\* The entries that the Register functions add are of their resources, and a resource
\* that is not a template has one.
LEMMA EntriesOf ==
  ASSUME NEW T, NEW R, \A r \in R : ResourceKnown(r, T), NEW resources \in Seq(R)
  PROVE  /\ IsSequence(Entries(resources))
         /\ \A e \in Range(Entries(resources)) : e.of \in Range(resources)
         /\ \A r \in Range(resources) :
              ~IsTemplate(r) => \E e \in Range(Entries(resources)) : e.uri = r.uri /\ e.of = r
<1> DEFINE part(r) == IF IsTemplate(r)
                        THEN [k \in DOMAIN r.instances |-> [uri |-> Fill(r.template, r.instances[k]), of |-> r]]
                        ELSE <<[uri |-> r.uri, of |-> r]>>
           parts == [i \in DOMAIN resources |-> part(resources[i])]
           E == UNION {Range(part(r)) : r \in R}
<1>1. DOMAIN resources = 1..Len(resources) /\ Len(resources) \in Nat
      /\ \A i \in 1..Len(resources) : resources[i] \in R
  BY LenProperties, ElementOfSeq
<1>2. ASSUME NEW r \in R
      PROVE  part(r) \in Seq(Range(part(r))) /\ (\A e \in Range(part(r)) : e.of = r)
             /\ (~IsTemplate(r) => \E e \in Range(part(r)) : e.uri = r.uri /\ e.of = r)
  <2>1. CASE IsTemplate(r)
    <3>1. r.instances \in Seq(Range(r.instances))
      BY DEF ResourceKnown, IsSequence
    <3>2. DOMAIN r.instances = 1..Len(r.instances) /\ Len(r.instances) \in Nat
      BY <3>1, LenProperties
    <3> DEFINE p == [k \in DOMAIN r.instances |-> [uri |-> Fill(r.template, r.instances[k]), of |-> r]]
    <3>3. DOMAIN p = 1..Len(r.instances) /\ p = [k \in 1..Len(r.instances) |-> p[k]]
          /\ \A k \in DOMAIN p : p[k].of = r
      BY <3>2
    <3>4. part(r) = p
      BY <2>1
    <3> HIDE DEF p
    <3>5. \A k \in 1..Len(r.instances) : p[k] \in Range(p)
      BY <3>3 DEF Range
    <3>6. p \in Seq(Range(p))
      BY <3>2, <3>3, <3>5, SMTT(30)
    <3>7. \A e \in Range(p) : e.of = r
      BY <3>3 DEF Range
    <3> QED BY <2>1, <3>4, <3>6, <3>7
  <2>2. CASE ~IsTemplate(r)
    <3> DEFINE e == [uri |-> r.uri, of |-> r]
    <3>1. part(r) = <<e>> /\ e.uri = r.uri /\ e.of = r
      BY <2>2
    <3> HIDE DEF e
    <3>2. <<e>> \in Seq({e}) /\ Range(<<e>>) = {e}
      BY DEF Range
    <3> QED BY <2>2, <3>1, <3>2
  <2> QED BY <2>1, <2>2
<1>3. Entries(resources) = FlattenSeq(parts)
  BY DEF Entries
<1> HIDE DEF part
<1>4. parts \in Seq(Seq(E)) /\ Len(parts) = Len(resources)
      /\ \A i \in 1..Len(parts) : parts[i] = part(resources[i])
  <2>1. \A i \in 1..Len(resources) : part(resources[i]) \in Seq(E)
    <3> SUFFICES ASSUME NEW i \in 1..Len(resources) PROVE part(resources[i]) \in Seq(E)
      OBVIOUS
    <3>1. PICK r \in R : r = resources[i]
      BY <1>1
    <3>2. part(r) \in Seq(Range(part(r))) /\ Range(part(r)) \subseteq E
      BY <1>2
    <3> HIDE DEF E
    <3> QED BY <3>1, <3>2, SeqMonotonic
  <2> HIDE DEF E
  <2>2. parts \in Seq(Seq(E))
    BY <1>1, <2>1
  <2>3. Len(parts) = Len(resources)
    BY <1>1, <2>2, LenProperties
  <2> QED BY <1>1, <2>2, <2>3
<1> HIDE DEF parts, E
<1>5. /\ Entries(resources) \in Seq(E)
      /\ Range(Entries(resources)) = UNION {Range(parts[i]) : i \in 1..Len(parts)}
  BY <1>3, <1>4, FlattenElements
<1>6. IsSequence(Entries(resources))
  <2>1. PICK s \in Seq(E) : s = Entries(resources)
    BY <1>5
  <2>2. DOMAIN s = 1..Len(s) /\ Len(s) \in Nat
    BY LenProperties
  <2>3. \A i \in 1..Len(s) : s[i] \in Range(s)
    BY <2>2 DEF Range
  <2>4. s \in Seq(Range(s))
    BY <2>2, <2>3
  <2> QED BY <2>1, <2>4 DEF IsSequence
<1>7. ASSUME NEW e \in Range(Entries(resources)) PROVE e.of \in Range(resources)
  <2>1. PICK i \in 1..Len(parts) : e \in Range(parts[i])
    BY <1>5
  <2>2. PICK r \in R : r = resources[i]
    BY <1>1, <1>4
  <2>3. e.of = r
    BY <1>2, <1>4, <2>1, <2>2
  <2> QED BY <1>1, <1>4, <2>2, <2>3 DEF Range
<1>8. ASSUME NEW r \in Range(resources), ~IsTemplate(r)
      PROVE  \E e \in Range(Entries(resources)) : e.uri = r.uri /\ e.of = r
  <2>1. PICK i \in 1..Len(resources) : resources[i] = r
    BY <1>1 DEF Range
  <2>2. PICK e \in Range(part(r)) : e.uri = r.uri /\ e.of = r
    BY <1>1, <1>2, <1>8, <2>1
  <2>3. e \in Range(parts[i])
    BY <1>4, <2>1, <2>2
  <2> QED BY <1>4, <1>5, <2>2, <2>3
<1> QED BY <1>6, <1>7, <1>8

\* The first of some positions is one of them.
LEMMA FirstPosition ==
  ASSUME NEW T, NEW s \in Seq(T), NEW found \in SUBSET DOMAIN s, found # {}
  PROVE  Min(found) \in found
<1>1. DOMAIN s = 1..Len(s) /\ Len(s) \in Nat
  BY LenProperties
<1>2. found \in SUBSET Nat
  BY <1>1
<1>3. PICK n \in found : \A y \in found : n <= y
  BY <1>2, LeastNatural
<1> QED BY <1>3 DEF Min

\* What has been added are resources of the project.
LEMMA AddedResources ==
  ASSUME RegisteredKnown
  PROVE  Added("resources") \in Seq(Range(project.resources))
<1> DEFINE R == Range(project.resources)
           parts == [i \in DOMAIN registered |-> IF registered[i].what = "resources" THEN registered[i].added ELSE <<>>]
<1>1. registered \in Seq(Range(registered))
  BY DEF RegisteredKnown, IsSequence
<1>2. DOMAIN registered = 1..Len(registered) /\ Len(registered) \in Nat
  BY <1>1, LenProperties
<1>3. parts \in Seq(Seq(R))
  <2>1. \A i \in 1..Len(registered) : parts[i] \in Seq(R)
    <3> SUFFICES ASSUME NEW i \in 1..Len(registered) PROVE parts[i] \in Seq(R)
      OBVIOUS
    <3>1. registered[i] \in Range(registered)
      BY <1>2 DEF Range
    <3> HIDE DEF R
    <3>2. <<>> \in Seq(R)
      BY EmptySeq
    <3> QED BY <1>2, <3>1, <3>2 DEF RegisteredKnown, R
  <2> HIDE DEF R
  <2> QED BY <1>2, <2>1
<1>4. Added("resources") = FlattenSeq(parts)
  BY DEF Added
<1> HIDE DEF parts, R
<1>5. FlattenSeq(parts) \in Seq(R)
  BY <1>3, FlattenElements
<1> QED BY <1>4, <1>5 DEF R

\* The handler of the resource that a URI was made from finds the values in it.
LEMMA HandlerFinds ==
  ASSUME NEW T, NEW r, ResourceKnown(r, T), NEW values \in Range(r.instances) \cup r.unlisted,
         Separated(r.template), \A text \in Range(values) : Segment(text),
         NEW uri, uri = IF IsTemplate(r) THEN Fill(r.template, values) ELSE r.uri
  PROVE  /\ uri \in Seq(T)
         /\ readHandler(r, uri) = [tag |-> "read", message |-> r.message, values |-> values]
         /\ IsTemplate(r) => ExtractURIParams(uri, r.template) # NoMatch
<1>1. PICK template, vs : template = r.template /\ vs = values /\ template \in Seq(T)
                          /\ vs \in Seq(Seq(T)) /\ Len(vs) = Len(Only(template, Params))
  BY DEF ResourceKnown
<1>2. DOMAIN vs = 1..Len(vs) /\ Len(vs) \in Nat
  BY <1>1, LenProperties
<1>3. Filling(template, vs, T)
  <2>1. \A k \in DOMAIN vs : vs[k] \in Range(vs)
    BY DEF Range
  <2>2. \A k \in DOMAIN vs : Segment(vs[k])
    BY <1>1, <2>1
  <2> QED BY <1>1, <2>2 DEF Filling
<1>4. CASE IsTemplate(r)
  <2>1. uri = Fill(template, vs)
    BY <1>1, <1>4
  <2>2. Separated(template)
    BY <1>1
  <2>3. ExtractURIParams(uri, template) = vs /\ vs # NoMatch
    BY <1>1, <1>3, <2>1, <2>2, ExtractFilled
  <2>4. uri \in Seq(T)
    BY <1>1, <1>3, <2>1, FillCut
  <2>5. PICK found : found = ExtractURIParams(uri, r.template)
    OBVIOUS
  <2>6. found = values /\ found # NoMatch
    BY <1>1, <2>3, <2>5
  <2>7. readHandler(r, uri) = IF found = NoMatch THEN Raised ELSE [tag |-> "read", message |-> r.message, values |-> found]
    BY <1>4, <2>5 DEF readHandler
  <2> QED BY <2>4, <2>5, <2>6, <2>7
<1>5. CASE ~IsTemplate(r)
  <2>1. template = <<>> /\ Len(template) = 0
    BY <1>1, <1>5, EmptySeq DEF IsTemplate
  <2>2. Slot(template, 0) = 0
    BY <1>1, SlotSteps
  <2>3. Slot(template, Len(template)) = Len(Only(template, Params))
    BY <1>1, SlotSteps
  <2>4. vs = <<>>
    BY <1>1, <2>1, <2>2, <2>3, EmptySeq
  <2>5. vs # NoMatch
    BY <2>4, NothingMatched
  <2>6. uri \in Seq(T)
    BY <1>5 DEF ResourceKnown
  <2>7. readHandler(r, uri) = IF <<>> = NoMatch THEN Raised ELSE [tag |-> "read", message |-> r.message, values |-> <<>>]
    BY <1>5, Zenon DEF readHandler
  <2>8. readHandler(r, uri) = [tag |-> "read", message |-> r.message, values |-> vs]
    BY <2>4, <2>5, <2>7
  <2> QED BY <1>1, <1>5, <2>6, <2>8
<1> QED BY <1>4, <1>5

\* The entries and the templates that resources/read looks for, and what they are of.
EntriesAt(entries, uri) == {i \in DOMAIN entries : entries[i].uri = uri}
TemplatesAt(templates, uri) == {i \in DOMAIN templates : ExtractURIParams(uri, templates[i].template) # NoMatch}
MadeOf(r, values) == IF IsTemplate(r) THEN Fill(r.template, values) ELSE r.uri
AllKnown(R, T) == \A r \in R : ResourceKnown(r, T)
Listing(entries, uri) == {e.of : e \in {e \in Range(entries) : e.uri = uri}}
Reached(resource, listing, added, uri) ==
  \/ listing = {resource}
  \/ listing = {} /\ \A r \in Range(added) : StandsFor(r, uri) => r = resource

\* resources/read takes the first entry of a URI, and the first template that fits it
\* if there is no entry.
LEMMA ReadTakesFirst ==
  ASSUME NEW resources, NEW uri, NEW entries, entries = Entries(resources),
         NEW templates, templates = Templates(resources),
         NEW listed, listed = EntriesAt(entries, uri), NEW fitting, fitting = TemplatesAt(templates, uri)
  PROVE  /\ listed # {} => handleResourcesRead(resources, uri) = readHandler(entries[Min(listed)].of, uri)
         /\ listed = {} /\ fitting # {} =>
              handleResourcesRead(resources, uri) = readHandler(templates[Min(fitting)], uri)
<1>1. handleResourcesRead(resources, uri) =
        CASE listed # {} -> readHandler(entries[Min(listed)].of, uri)
          [] listed = {} /\ fitting # {} -> readHandler(templates[Min(fitting)], uri)
          [] OTHER -> Raised
  BY Zenon DEF handleResourcesRead, EntriesAt, TemplatesAt
<1>2. PICK entered, fitted : entered = readHandler(entries[Min(listed)].of, uri)
                             /\ fitted = readHandler(templates[Min(fitting)], uri)
  OBVIOUS
<1>3. handleResourcesRead(resources, uri) =
        CASE listed # {} -> entered [] listed = {} /\ fitting # {} -> fitted [] OTHER -> Raised
  BY <1>1, <1>2, Zenon
<1>4. PICK got : got = handleResourcesRead(resources, uri)
  OBVIOUS
<1>5. got = CASE listed # {} -> entered [] listed = {} /\ fitting # {} -> fitted [] OTHER -> Raised
  BY <1>3, <1>4, Zenon
<1>6. (listed # {} => got = entered) /\ (listed = {} /\ fitting # {} => got = fitted)
  BY ONLY <1>5
<1> QED BY <1>2, <1>4, <1>6

\* A URI that is listed for one resource, or for none and stands for one, is read from it.
LEMMA ReadFinds ==
  ASSUME NEW T, NEW R, AllKnown(R, T), NEW added \in Seq(R),
         NEW resource, resource \in Range(added),
         NEW values, values \in Range(resource.instances) \cup resource.unlisted,
         Separated(resource.template), \A text \in Range(values) : Segment(text),
         NEW uri, uri = MadeOf(resource, values),
         NEW listing, listing = Listing(Entries(added), uri), Reached(resource, listing, added, uri)
  PROVE  handleResourcesRead(added, uri) = [tag |-> "read", message |-> resource.message, values |-> values]
<1>1. resource \in R /\ ResourceKnown(resource, T) /\ Range(added) \subseteq R
  BY RangeOfSeq DEF AllKnown
<1>2. uri \in Seq(T)
  BY <1>1, HandlerFinds DEF MadeOf
<1>3. readHandler(resource, uri) = [tag |-> "read", message |-> resource.message, values |-> values]
  BY <1>1, HandlerFinds DEF MadeOf
<1>4. IsTemplate(resource) => ExtractURIParams(uri, resource.template) # NoMatch
  BY <1>1, HandlerFinds DEF MadeOf
<1>5. PICK entries, templates, listed, fitting :
        /\ entries = Entries(added) /\ templates = Templates(added)
        /\ listed = EntriesAt(entries, uri) /\ fitting = TemplatesAt(templates, uri)
  OBVIOUS
<1>6. /\ listed # {} => handleResourcesRead(added, uri) = readHandler(entries[Min(listed)].of, uri)
      /\ listed = {} /\ fitting # {} => handleResourcesRead(added, uri) = readHandler(templates[Min(fitting)], uri)
  BY <1>5, ReadTakesFirst
<1>7. entries \in Seq(Range(entries))
  BY <1>5, EntriesOf DEF IsSequence, AllKnown
<1>8. templates \in Seq(R) /\ \A t \in Range(templates) : t \in Range(added) /\ IsTemplate(t)
  <2> DEFINE wanted == {r \in Range(added) : IsTemplate(r)}
  <2>1. templates = Only(added, wanted)
    BY <1>5 DEF Templates
  <2>2. Only(added, wanted) \in Seq(R) /\ Range(Only(added, wanted)) = Range(added) \cap wanted
    <3> HIDE DEF wanted
    <3> QED BY OnlyElements
  <2> QED BY <2>1, <2>2
<1>9. \A r \in Range(added) : IsTemplate(r) => r \in Range(templates)
  <2> DEFINE wanted == {r \in Range(added) : IsTemplate(r)}
  <2>1. templates = Only(added, wanted)
    BY <1>5 DEF Templates
  <2>2. Range(Only(added, wanted)) = Range(added) \cap wanted
    <3> HIDE DEF wanted
    <3> QED BY OnlyElements
  <2> QED BY <2>1, <2>2
<1>10. listed # {} <=> listing # {}
  BY <1>5 DEF Range, EntriesAt, Listing
<1>11. CASE listing = {resource}
  <2>1. Min(listed) \in listed
    <3>1. listed # {} /\ listed \in SUBSET DOMAIN entries
      BY <1>5, <1>10, <1>11 DEF EntriesAt
    <3> QED BY <1>7, <3>1, FirstPosition
  <2>2. PICK i \in DOMAIN entries : i = Min(listed) /\ entries[i].uri = uri
    BY <1>5, <2>1 DEF EntriesAt
  <2>3. entries[i] \in Range(Entries(added))
    BY <1>5, <2>2 DEF Range
  <2>4. entries[i].of \in listing
    BY <2>2, <2>3 DEF Listing
  <2>5. handleResourcesRead(added, uri) = readHandler(entries[Min(listed)].of, uri)
    BY <1>6, <2>1
  <2>6. entries[Min(listed)].of = resource
    BY <1>11, <2>2, <2>4
  <2> QED BY <1>3, <2>5, <2>6
<1>12. CASE listing = {} /\ \A r \in Range(added) : StandsFor(r, uri) => r = resource
  <2>1. IsTemplate(resource)
    <3> SUFFICES ASSUME ~IsTemplate(resource) PROVE FALSE
      OBVIOUS
    <3>1. \E e \in Range(Entries(added)) : e.uri = resource.uri /\ e.of = resource
      BY EntriesOf DEF AllKnown
    <3>2. uri = resource.uri
      BY DEF MadeOf
    <3> QED BY <1>12, <3>1, <3>2 DEF Listing
  <2>2. fitting # {}
    <3>1. resource \in Range(templates)
      BY <1>9, <2>1
    <3>2. PICK i \in DOMAIN templates : templates[i] = resource
      BY <3>1 DEF Range
    <3>3. i \in fitting
      BY <1>4, <1>5, <2>1, <3>2 DEF TemplatesAt
    <3> QED BY <3>3
  <2>3. Min(fitting) \in fitting
    <3>1. fitting \in SUBSET DOMAIN templates
      BY <1>5 DEF TemplatesAt
    <3> QED BY <1>8, <2>2, <3>1, FirstPosition
  <2>4. PICK i \in DOMAIN templates : i = Min(fitting) /\ ExtractURIParams(uri, templates[i].template) # NoMatch
    BY <1>5, <2>3 DEF TemplatesAt
  <2>5. PICK t : t = templates[i] /\ t \in Range(templates)
    BY <2>4 DEF Range
  <2>6. t \in R /\ t \in Range(added) /\ IsTemplate(t) /\ t.template \in Seq(T)
    BY <1>1, <1>8, <2>5 DEF ResourceKnown, AllKnown
  <2>7. ExtractURIParams(uri, t.template) # NoMatch
    BY <2>4, <2>5
  <2>8. StandsFor(t, uri)
    BY <1>2, <2>6, <2>7, MatchedStands
  <2>9. t = resource
    BY <1>12, <2>6, <2>8
  <2>10. handleResourcesRead(added, uri) = readHandler(templates[Min(fitting)], uri)
    BY <1>6, <1>10, <1>12, <2>2
  <2>11. templates[Min(fitting)] = resource
    BY <2>4, <2>5, <2>9
  <2> QED BY <1>3, <2>10, <2>11
<1> QED BY <1>11, <1>12 DEF Reached

\* A client that reads a URI reaches the resource the URI was made from, with the values
\* that the URI was made from, when the server lists the URI for that resource alone or
\* does not list it and it stands for no other resource.
THEOREM ResourcesRead == ServingSpec => []ResourcesReadAsListed
<1>1. IInv /\ ServingInv => ResourcesReadAsListed
  <2> DEFINE added == Added("resources")
             listed == {e \in Range(Entries(added)) : e.uri = request.uri}
             listing == {e.of : e \in listed}
  <2> SUFFICES ASSUME IInv, ServingInv, request.step = "read",
                      Separated(request.resource.template), \A text \in Range(request.values) : Segment(text),
                      \/ listing = {request.resource}
                      \/ listing = {} /\ \A r \in Range(added) : StandsFor(r, request.uri) => r = request.resource
               PROVE  request.got = [tag |-> "read", message |-> request.resource.message, values |-> request.values]
    BY DEF ResourcesReadAsListed
  <2>1. PICK T : \A r \in Range(project.resources) : ResourceKnown(r, T)
    BY TokensKnown DEF IInv
  <2>2. added \in Seq(Range(project.resources))
    BY AddedResources DEF ServingInv
  <2>3. PICK all, a, resource, values, uri :
          /\ all = Range(project.resources) /\ a = added
          /\ resource = request.resource /\ values = request.values /\ uri = request.uri
    OBVIOUS
  <2>4. /\ resource \in Range(a) /\ values \in Range(resource.instances) \cup resource.unlisted
        /\ uri = MadeOf(resource, values) /\ request.got = handleResourcesRead(a, uri)
    BY <2>3, Zenon DEF ServingInv, Reading, MadeOf
  <2>5. PICK ls : ls = Listing(Entries(a), uri)
    OBVIOUS
  <2>6. Reached(resource, ls, a, uri)
    BY <2>3, <2>5 DEF Listing, Reached
  <2>7. AllKnown(all, T) /\ a \in Seq(all)
    BY <2>1, <2>2, <2>3 DEF AllKnown
  <2>8. Separated(resource.template) /\ \A text \in Range(values) : Segment(text)
    BY <2>3
  <2>9. handleResourcesRead(a, uri) = [tag |-> "read", message |-> resource.message, values |-> values]
    BY <2>4, <2>5, <2>6, <2>7, <2>8, ReadFinds
  <2> QED BY <2>3, <2>4, <2>9
<1> QED BY <1>1, ServingInvariant, PTL
=============================================================================
