------------------------- MODULE StorePersistProofs --------------------------
(***************************************************************************)
(* Theorems about StorePersist.                                            *)
(***************************************************************************)
EXTENDS StorePersist, LoopTheorems, FunctionTheorems, FiniteSetTheorems,
        SequenceTheorems, TLAPS

-----------------------------------------------------------------------------
(* Lists. *)

LEMMA ToSetIs ==
  ASSUME NEW S, NEW s \in Seq(S)
  PROVE  /\ DOMAIN s = 1 .. Len(s) /\ Len(s) \in Nat
         /\ \A i \in 1 .. Len(s) : s[i] \in S /\ s[i] \in ToSet(s)
         /\ \A x \in ToSet(s) : x \in S /\ \E i \in 1 .. Len(s) : s[i] = x
  BY DEF ToSet

LEMMA Joined ==
  ASSUME NEW S, NEW s \in Seq(S), NEW t \in Seq(S)
  PROVE  /\ s \o t \in Seq(S) /\ Len(s \o t) = Len(s) + Len(t)
         /\ \A i \in 1 .. Len(s) : (s \o t)[i] = s[i]
         /\ \A i \in 1 .. Len(t) : (s \o t)[Len(s) + i] = t[i]
         /\ ToSet(s \o t) = ToSet(s) \cup ToSet(t)
  <1>1. s \o t \in Seq(S) /\ Len(s \o t) = Len(s) + Len(t)
    OBVIOUS
  <1>2. \A i \in 1 .. Len(s) : (s \o t)[i] = s[i]
    OBVIOUS
  <1>3. \A i \in 1 .. Len(t) : (s \o t)[Len(s) + i] = t[i]
    OBVIOUS
  <1>4. ASSUME NEW x \in ToSet(s \o t) PROVE x \in ToSet(s) \cup ToSet(t)
    <2>1. PICK i \in 1 .. Len(s) + Len(t) : (s \o t)[i] = x
      BY <1>1, ToSetIs
    <2>2. CASE i \in 1 .. Len(s)
      BY <1>2, <2>1, <2>2, ToSetIs
    <2>3. CASE i \notin 1 .. Len(s)
      <3>1. Len(s) \in Nat /\ Len(t) \in Nat
        OBVIOUS
      <3>2. i - Len(s) \in 1 .. Len(t) /\ Len(s) + (i - Len(s)) = i
        BY <2>3, <3>1
      <3> QED  BY <1>3, <2>1, <3>2, ToSetIs
    <2> QED  BY <2>2, <2>3
  <1>5. ToSet(s) \subseteq ToSet(s \o t)
    <2>1. ASSUME NEW i \in 1 .. Len(s) PROVE s[i] \in ToSet(s \o t)
      <3>1. i \in 1 .. Len(s \o t)
        BY <1>1
      <3> QED  BY <1>1, <1>2, <3>1, ToSetIs
    <2> QED  BY <2>1, ToSetIs
  <1>6. ToSet(t) \subseteq ToSet(s \o t)
    <2>1. ASSUME NEW i \in 1 .. Len(t) PROVE t[i] \in ToSet(s \o t)
      <3>1. Len(s) + i \in 1 .. Len(s \o t)
        BY <1>1
      <3> QED  BY <1>1, <1>3, <3>1, ToSetIs
    <2> QED  BY <2>1, ToSetIs
  <1> QED  BY <1>1, <1>2, <1>3, <1>4, <1>5, <1>6

LEMMA Appended ==
  ASSUME NEW S, NEW s \in Seq(S), NEW x \in S
  PROVE  /\ Append(s, x) \in Seq(S) /\ Len(Append(s, x)) = Len(s) + 1
         /\ \A i \in 1 .. Len(s) : Append(s, x)[i] = s[i]
         /\ Append(s, x)[Len(s) + 1] = x
         /\ ToSet(Append(s, x)) = ToSet(s) \cup {x}
  <1>1. /\ Append(s, x) \in Seq(S) /\ Len(Append(s, x)) = Len(s) + 1
        /\ \A i \in 1 .. Len(s) : Append(s, x)[i] = s[i]
        /\ Append(s, x)[Len(s) + 1] = x
    OBVIOUS
  <1>2. ASSUME NEW y \in ToSet(Append(s, x)) PROVE y \in ToSet(s) \cup {x}
    <2>1. PICK i \in 1 .. Len(s) + 1 : Append(s, x)[i] = y
      BY <1>1, ToSetIs
    <2>2. CASE i \in 1 .. Len(s)
      BY <1>1, <2>1, <2>2, ToSetIs
    <2>3. CASE i = Len(s) + 1
      BY <1>1, <2>1, <2>3
    <2> QED  BY <2>2, <2>3
  <1>3. ASSUME NEW i \in 1 .. Len(s) PROVE s[i] \in ToSet(Append(s, x))
    <2>1. i \in 1 .. Len(Append(s, x))
      BY <1>1
    <2> QED  BY <1>1, <2>1, ToSetIs
  <1>4. x \in ToSet(Append(s, x))
    <2>1. Len(s) + 1 \in 1 .. Len(Append(s, x))
      BY <1>1
    <2>2. Append(s, x)[Len(s) + 1] \in ToSet(Append(s, x))
      BY <1>1, <2>1, ToSetIs
    <2> QED  BY <1>1, <2>2
  <1> QED  BY <1>1, <1>2, <1>3, <1>4, ToSetIs

-----------------------------------------------------------------------------
(* What Kept keeps. *)

KeptTurns(s, T, out) ==
  /\ out[0] = <<>>
  /\ \A i \in 1 .. Len(s) :
       out[i] = IF s[i] \in T THEN Append(out[i - 1], s[i]) ELSE out[i - 1]

LEMMA KeptRuns ==
  ASSUME NEW S, NEW s \in Seq(S), NEW T
  PROVE  \E out \in [0 .. Len(s) -> Seq(S)] :
           KeptTurns(s, T, out) /\ Kept(s, T) = out[Len(s)]
  <1> DEFINE step == [i \in 1 .. Len(s) |->
                        [v \in Seq(S) |-> IF s[i] \in T THEN Append(v, s[i]) ELSE v]]
             Goes(g) == g = [i \in 0 .. Len(s) |->
                              IF i = 0 THEN <<>>
                              ELSE IF s[i] \in T THEN Append(g[i - 1], s[i]) ELSE g[i - 1]]
             out == CHOOSE g : Goes(g)
  <1>1. Len(s) \in Nat /\ <<>> \in Seq(S)
    OBVIOUS
  <1>2. step \in [1 .. Len(s) -> [Seq(S) -> Seq(S)]]
    OBVIOUS
  <1>3. \E f \in [0 .. Len(s) -> Seq(S)] :
          f[0] = <<>> /\ \A i \in 1 .. Len(s) : f[i] = step[i][f[i - 1]]
    <2> DEFINE N == Len(s)
               V == Seq(S)
               base == <<>>
    <2>1. N \in Nat /\ base \in V /\ step \in [1 .. N -> [V -> V]]
      BY <1>1, <1>2
    <2> HIDE DEF step, N, V, base, Goes, out
    <2>2. \E f \in [0 .. N -> V] : IsHistory(f, N, base, step)
      BY <2>1, Iterates
    <2> QED  BY <2>2 DEF IsHistory, N, V, base
  <1>4. PICK f \in [0 .. Len(s) -> Seq(S)] :
          f[0] = <<>> /\ \A i \in 1 .. Len(s) : f[i] = step[i][f[i - 1]]
    BY <1>3
  <1>5. ASSUME NEW i \in 1 .. Len(s)
        PROVE  f[i] = IF s[i] \in T THEN Append(f[i - 1], s[i]) ELSE f[i - 1]
    <2>1. f[i - 1] \in Seq(S)
      BY <1>1, <1>4
    <2> QED  BY <1>4, <2>1
  <1>6. Goes(f)
    <2>1. ASSUME NEW i \in 0 .. Len(s)
          PROVE  f[i] = IF i = 0 THEN <<>>
                        ELSE IF s[i] \in T THEN Append(f[i - 1], s[i]) ELSE f[i - 1]
      <3>1. i # 0 => i \in 1 .. Len(s)
        BY <1>1
      <3> QED  BY <1>4, <1>5, <3>1
    <2> QED  BY <1>4, <2>1
  <1>7. Goes(out)
    <2> HIDE DEF Goes
    <2> QED  BY <1>6
  <1> HIDE DEF out
  <1>8. out[0] = <<>>
    BY <1>1, <1>7
  <1>9. ASSUME NEW i \in 1 .. Len(s)
        PROVE  out[i] = IF s[i] \in T THEN Append(out[i - 1], s[i]) ELSE out[i - 1]
    <2>1. i \in 0 .. Len(s) /\ i # 0
      BY <1>1
    <2>2. out[i] = [j \in 0 .. Len(s) |->
                      IF j = 0 THEN <<>>
                      ELSE IF s[j] \in T THEN Append(out[j - 1], s[j]) ELSE out[j - 1]][i]
      BY <1>7, Zenon
    <2> QED  BY <2>1, <2>2
  <1> DEFINE Typed == {i \in 0 .. Len(s) : out[i] \in Seq(S)}
  <1>10. 0 \in Typed
    BY <1>1, <1>8
  <1>11. ASSUME NEW i \in 1 .. Len(s), i - 1 \in Typed PROVE i \in Typed
    <2>1. out[i - 1] \in Seq(S) /\ i \in 0 .. Len(s) /\ s[i] \in S
      BY <1>1, <1>11
    <2>2. Append(out[i - 1], s[i]) \in Seq(S)
      BY <2>1
    <2>3. out[i] = Append(out[i - 1], s[i]) \/ out[i] = out[i - 1]
      BY <1>9
    <2>4. out[i] \in Seq(S)
      BY <2>1, <2>2, <2>3
    <2> QED  BY <2>1, <2>4
  <1>12. \A i \in 0 .. Len(s) : i \in Typed
    <2> HIDE DEF Typed
    <2> QED  BY <1>1, <1>10, <1>11, Climbs
  <1>13. out \in [0 .. Len(s) -> Seq(S)]
    <2>1. out = [i \in 0 .. Len(s) |-> out[i]]
      BY <1>7
    <2> QED  BY <1>12, <2>1
  <1>14. Kept(s, T) = out[Len(s)]
    BY DEF Kept, out
  <1> QED  BY <1>8, <1>9, <1>13, <1>14 DEF KeptTurns

(* What is true of out at every turn is true of what is kept. *)
LEMMA KeptElements ==
  ASSUME NEW S, NEW s \in Seq(S), NEW T
  PROVE  Kept(s, T) \in Seq(S) /\ ToSet(Kept(s, T)) = ToSet(s) \cap T
  <1>1. PICK out \in [0 .. Len(s) -> Seq(S)] :
          KeptTurns(s, T, out) /\ Kept(s, T) = out[Len(s)]
    BY KeptRuns
  <1> DEFINE Before(n) == {s[i] : i \in 1 .. n} \cap T
             Good      == {n \in 0 .. Len(s) : ToSet(out[n]) = Before(n)}
  <1>2. Len(s) \in Nat
    OBVIOUS
  <1>3. ToSet(out[0]) = Before(0)
    <2>1. out[0] = <<>>
      BY <1>1 DEF KeptTurns
    <2> QED  BY <2>1 DEF ToSet
  <1>4. ASSUME NEW n \in 1 .. Len(s), n - 1 \in Good PROVE n \in Good
    <2>1. n - 1 \in 0 .. Len(s) /\ n \in 0 .. Len(s) /\ s[n] \in S /\ out[n - 1] \in Seq(S)
      BY <1>1, <1>2
    <2>2. \A x : x \in Before(n) <=> (x \in Before(n - 1) \/ (x = s[n] /\ x \in T))
      <3>1. \A i \in 1 .. n : i \in 1 .. n - 1 \/ i = n
        OBVIOUS
      <3>2. \A i \in 1 .. n - 1 : i \in 1 .. n
        OBVIOUS
      <3> QED  BY <3>1, <3>2
    <2>3. CASE s[n] \in T
      <3>1. out[n] = Append(out[n - 1], s[n])
        BY <1>1, <2>3 DEF KeptTurns
      <3>2. ToSet(out[n]) = ToSet(out[n - 1]) \cup {s[n]}
        BY <2>1, <3>1, Appended
      <3> QED  BY <1>4, <2>1, <2>2, <2>3, <3>2
    <2>4. CASE s[n] \notin T
      <3>1. out[n] = out[n - 1]
        BY <1>1, <2>4 DEF KeptTurns
      <3> QED  BY <1>4, <2>1, <2>2, <2>4, <3>1
    <2> QED  BY <2>3, <2>4
  <1>5. \A n \in 0 .. Len(s) : n \in Good
    <2>1. 0 \in Good
      BY <1>2, <1>3
    <2> HIDE DEF Good
    <2> QED  BY <1>2, <1>4, <2>1, Climbs
  <1>6. Len(s) \in 0 .. Len(s)
    BY <1>2
  <1>7. ToSet(out[Len(s)]) = Before(Len(s))
    BY <1>5, <1>6
  <1>8. Before(Len(s)) = ToSet(s) \cap T
    BY DEF ToSet
  <1> QED  BY <1>1, <1>6, <1>7, <1>8

LEMMA KeptInjective ==
  ASSUME NEW S, NEW s \in Seq(S), NEW T, IsInjective(s)
  PROVE  IsInjective(Kept(s, T))
  <1>1. PICK out \in [0 .. Len(s) -> Seq(S)] :
          KeptTurns(s, T, out) /\ Kept(s, T) = out[Len(s)]
    BY KeptRuns
  <1> DEFINE Good == {n \in 0 .. Len(s) : /\ IsInjective(out[n])
                                          /\ \A x \in ToSet(out[n]) : \E i \in 1 .. n : s[i] = x}
  <1>2. Len(s) \in Nat /\ \A i, j \in 1 .. Len(s) : s[i] = s[j] => i = j
    BY ToSetIs DEF IsInjective
  <1>3. 0 \in Good
    <2>1. out[0] = <<>>
      BY <1>1 DEF KeptTurns
    <2>2. IsInjective(out[0]) /\ ToSet(out[0]) = {}
      BY <2>1 DEF ToSet, IsInjective
    <2> QED  BY <1>2, <2>2
  <1>4. ASSUME NEW n \in 1 .. Len(s), n - 1 \in Good PROVE n \in Good
    <2>0. n - 1 \in 0 .. Len(s) /\ n \in 0 .. Len(s) /\ s[n] \in S
      OBVIOUS
    <2>1. n - 1 \in 0 .. Len(s) /\ n \in 0 .. Len(s) /\ s[n] \in S /\ out[n - 1] \in Seq(S)
      BY <1>1, <2>0
    <2> DEFINE o == out[n - 1]
               p == out[n]
    <2>2. IsInjective(o) /\ \A x \in ToSet(o) : \E i \in 1 .. n - 1 : s[i] = x
      BY <1>4
    <2>3. \A i \in 1 .. n - 1 : i \in 1 .. n /\ i \in 1 .. Len(s) /\ i # n
      BY <1>2
    <2>4. CASE s[n] \in T
      <3>1. p = Append(o, s[n])
        BY <1>1, <2>4 DEF KeptTurns
      <3> HIDE DEF o, p
      <3>2. o \in Seq(S)
        BY <2>1 DEF o
      <3>3. /\ p \in Seq(S) /\ Len(p) = Len(o) + 1 /\ p[Len(o) + 1] = s[n]
            /\ \A i \in 1 .. Len(o) : p[i] = o[i]
            /\ ToSet(p) = ToSet(o) \cup {s[n]}
        BY <2>1, <3>1, <3>2, Appended
      <3>4. s[n] \notin ToSet(o)
        BY <1>2, <2>2, <2>3
      <3>5. ASSUME NEW i \in 1 .. Len(p), NEW j \in 1 .. Len(p), p[i] = p[j] PROVE i = j
        <4>1. \A k \in 1 .. Len(p) : k \in 1 .. Len(o) \/ k = Len(o) + 1
          BY <3>2, <3>3
        <4>2. \A k \in 1 .. Len(o) : p[k] \in ToSet(o) /\ p[k] = o[k]
          BY <3>2, <3>3, ToSetIs
        <4>3. \A k, l \in 1 .. Len(o) : o[k] = o[l] => k = l
          BY <2>2, <3>2, ToSetIs DEF IsInjective
        <4>4. CASE i \in 1 .. Len(o) /\ j \in 1 .. Len(o)
          BY <3>5, <4>2, <4>3, <4>4
        <4>5. CASE i = Len(o) + 1 /\ j \in 1 .. Len(o)
          BY <3>3, <3>4, <3>5, <4>2, <4>5
        <4>6. CASE i \in 1 .. Len(o) /\ j = Len(o) + 1
          BY <3>3, <3>4, <3>5, <4>2, <4>6
        <4> QED  BY <4>1, <4>4, <4>5, <4>6
      <3>6. IsInjective(p)
        BY <3>3, <3>5, ToSetIs DEF IsInjective
      <3>7. \A x \in ToSet(p) : \E i \in 1 .. n : s[i] = x
        BY <2>2, <2>3, <3>3
      <3> QED  BY <2>1, <3>6, <3>7 DEF p
    <2>5. CASE s[n] \notin T
      <3>1. p = o
        BY <1>1, <2>5 DEF KeptTurns
      <3> HIDE DEF o
      <3> QED  BY <2>1, <2>2, <2>3, <3>1
    <2> QED  BY <2>4, <2>5
  <1>5. \A n \in 0 .. Len(s) : n \in Good
    <2> HIDE DEF Good
    <2> QED  BY <1>2, <1>3, <1>4, Climbs
  <1> QED  BY <1>1, <1>2, <1>5

(* All of them are kept, or none. *)
LEMMA KeptAll ==
  ASSUME NEW S, NEW s \in Seq(S), NEW T, ToSet(s) \subseteq T
  PROVE  Kept(s, T) = s
  <1>1. PICK out \in [0 .. Len(s) -> Seq(S)] :
          KeptTurns(s, T, out) /\ Kept(s, T) = out[Len(s)]
    BY KeptRuns
  <1> DEFINE Good == {n \in 0 .. Len(s) : Len(out[n]) = n /\ \A i \in 1 .. n : out[n][i] = s[i]}
  <1>2. Len(s) \in Nat
    OBVIOUS
  <1>3. 0 \in Good
    <2>1. out[0] = <<>>
      BY <1>1 DEF KeptTurns
    <2> QED  BY <1>2, <2>1
  <1>4. ASSUME NEW n \in 1 .. Len(s), n - 1 \in Good PROVE n \in Good
    <2>1. n - 1 \in 0 .. Len(s) /\ n \in 0 .. Len(s) /\ s[n] \in S /\ out[n - 1] \in Seq(S)
      BY <1>1, <1>2
    <2>2. s[n] \in T
      BY ToSetIs
    <2>3. out[n] = Append(out[n - 1], s[n])
      BY <1>1, <2>2 DEF KeptTurns
    <2>4. Len(out[n - 1]) = n - 1 /\ \A i \in 1 .. n - 1 : out[n - 1][i] = s[i]
      BY <1>4
    <2>5. Len(out[n]) = n /\ out[n][n] = s[n] /\ \A i \in 1 .. n - 1 : out[n][i] = out[n - 1][i]
      <3>1. /\ Len(Append(out[n - 1], s[n])) = Len(out[n - 1]) + 1
            /\ \A i \in 1 .. Len(out[n - 1]) : Append(out[n - 1], s[n])[i] = out[n - 1][i]
            /\ Append(out[n - 1], s[n])[Len(out[n - 1]) + 1] = s[n]
        BY <2>1, Appended
      <3>2. (n - 1) + 1 = n
        OBVIOUS
      <3> QED  BY <2>3, <2>4, <3>1, <3>2
    <2>6. ASSUME NEW i \in 1 .. n PROVE out[n][i] = s[i]
      <3>1. i \in 1 .. n - 1 \/ i = n
        OBVIOUS
      <3> QED  BY <2>4, <2>5, <3>1
    <2> QED  BY <2>1, <2>5, <2>6
  <1>5. \A n \in 0 .. Len(s) : n \in Good
    <2> HIDE DEF Good
    <2> QED  BY <1>2, <1>3, <1>4, Climbs
  <1>6. /\ out[Len(s)] \in Seq(S) /\ Len(out[Len(s)]) = Len(s)
        /\ \A i \in 1 .. Len(s) : out[Len(s)][i] = s[i]
    BY <1>1, <1>2, <1>5
  <1> QED  BY <1>1, <1>6

LEMMA KeptNone ==
  ASSUME NEW S, NEW s \in Seq(S), NEW T, ToSet(s) \cap T = {}
  PROVE  Kept(s, T) = <<>>
  <1>1. Kept(s, T) \in Seq(S) /\ ToSet(Kept(s, T)) = {}
    BY KeptElements
  <1>2. \A t \in Seq(S) : ToSet(t) = {} => t = <<>>
    <2> SUFFICES ASSUME NEW t \in Seq(S), ToSet(t) = {} PROVE t = <<>>
      OBVIOUS
    <2>1. Len(t) \in Nat /\ 1 \notin 1 .. Len(t)
      BY ToSetIs
    <2>2. Len(t) = 0
      BY <2>1
    <2> QED  BY <2>2
  <1> QED  BY <1>1, <1>2

-----------------------------------------------------------------------------
(* Lists of items with an id. *)

HaveIds(S, I) == \A x \in S : x.id \in I

LEMMA IdsAre ==
  ASSUME NEW S, NEW I, HaveIds(S, I), NEW items \in Seq(S)
  PROVE  /\ IdsOf(items) \in Seq(I) /\ Len(IdsOf(items)) = Len(items)
         /\ \A i \in 1 .. Len(items) : IdsOf(items)[i] = items[i].id
         /\ ToSet(IdsOf(items)) = Ids(items) /\ Ids(items) \subseteq I
         /\ \A i \in 1 .. Len(items) : items[i].id \in Ids(items)
         /\ \A x \in ToSet(items) : x.id \in Ids(items)
         /\ \A id \in Ids(items) : \E i \in 1 .. Len(items) : items[i].id = id
  <1>1. DOMAIN items = 1 .. Len(items) /\ Len(items) \in Nat
        /\ \A i \in 1 .. Len(items) : items[i] \in S
    OBVIOUS
  <1>2. IdsOf(items) = [i \in 1 .. Len(items) |-> items[i].id]
    BY <1>1 DEF IdsOf
  <1>3. IdsOf(items) \in Seq(I) /\ Len(IdsOf(items)) = Len(items)
    <2>1. \A i \in 1 .. Len(items) : items[i].id \in I
      BY <1>1 DEF HaveIds
    <2> QED  BY <1>1, <1>2, <2>1
  <1>4. ToSet(IdsOf(items)) = Ids(items)
    BY <1>1, <1>2 DEF ToSet, Ids
  <1>5. Ids(items) \subseteq I
    BY <1>1 DEF Ids, HaveIds
  <1>6. \A i \in 1 .. Len(items) : items[i].id \in Ids(items)
    BY <1>1 DEF Ids
  <1>7. \A x \in ToSet(items) : x.id \in Ids(items)
    BY <1>1, <1>6 DEF ToSet
  <1>8. \A id \in Ids(items) : \E i \in 1 .. Len(items) : items[i].id = id
    BY <1>1 DEF Ids
  <1> QED  BY <1>2, <1>3, <1>4, <1>5, <1>6, <1>7, <1>8

LEMMA DistinctIs ==
  ASSUME NEW S, NEW items \in Seq(S)
  PROVE  Distinct(items) <=>
           \A i, j \in 1 .. Len(items) : items[i].id = items[j].id => i = j
  BY DEF Distinct, IsInjective, IdsOf

(* The item with an id. *)
LEMMA ItemIs ==
  ASSUME NEW S, NEW items \in Seq(S), Distinct(items)
  PROVE  /\ \A i \in 1 .. Len(items) : /\ IndexOf(items, items[i].id) = i
                                        /\ ItemWith(items, items[i].id) = items[i]
         /\ \A x \in ToSet(items) : ItemWith(items, x.id) = x
         /\ \A id \in Ids(items) :
              /\ IndexOf(items, id) \in 1 .. Len(items) /\ items[IndexOf(items, id)].id = id
              /\ ItemWith(items, id) \in S /\ ItemWith(items, id).id = id
              /\ ItemWith(items, id) \in ToSet(items)
  <1>1. DOMAIN items = 1 .. Len(items)
    OBVIOUS
  <1>2. \A i, j \in 1 .. Len(items) : items[i].id = items[j].id => i = j
    BY DistinctIs
  <1>3. ASSUME NEW i \in 1 .. Len(items)
        PROVE  IndexOf(items, items[i].id) = i
    <2>1. \E k \in 1 .. Len(items) : items[k].id = items[i].id
      OBVIOUS
    <2> QED  BY <1>1, <1>2, <2>1 DEF IndexOf
  <1>4. ASSUME NEW i \in 1 .. Len(items)
        PROVE  ItemWith(items, items[i].id) = items[i]
    BY <1>3 DEF ItemWith
  <1>5. \A x \in ToSet(items) : ItemWith(items, x.id) = x
    BY <1>4, ToSetIs
  <1>6. ASSUME NEW id \in Ids(items)
        PROVE  /\ IndexOf(items, id) \in 1 .. Len(items) /\ items[IndexOf(items, id)].id = id
               /\ ItemWith(items, id) \in S /\ ItemWith(items, id).id = id
               /\ ItemWith(items, id) \in ToSet(items)
    <2>1. PICK i \in 1 .. Len(items) : items[i].id = id
      BY <1>1 DEF Ids
    <2>2. IndexOf(items, id) = i /\ ItemWith(items, id) = items[i]
      BY <1>3, <1>4, <2>1
    <2> QED  BY <2>1, <2>2, ToSetIs
  <1> QED  BY <1>3, <1>4, <1>5, <1>6

(* A list whose items are those of another, where ids says. *)
LEMMA Picked ==
  ASSUME NEW S, NEW I, HaveIds(S, I), NEW items \in Seq(S), Distinct(items),
         NEW ids \in Seq(I), IsInjective(ids), ToSet(ids) \subseteq Ids(items),
         NEW r, r = [i \in DOMAIN ids |-> ItemWith(items, ids[i])]
  PROVE  /\ r \in Seq(S) /\ Len(r) = Len(ids) /\ IdsOf(r) = ids /\ Distinct(r)
         /\ \A i \in 1 .. Len(ids) : r[i] = ItemWith(items, ids[i])
         /\ \A id \in ToSet(ids) : ItemWith(r, id) = ItemWith(items, id)
  <1>1. DOMAIN ids = 1 .. Len(ids) /\ Len(ids) \in Nat
        /\ \A i \in 1 .. Len(ids) : ids[i] \in Ids(items)
    BY ToSetIs
  <1>2. \A i \in 1 .. Len(ids) :
          ItemWith(items, ids[i]) \in S /\ ItemWith(items, ids[i]).id = ids[i]
    BY <1>1, ItemIs
  <1>3. /\ r \in Seq(S) /\ Len(r) = Len(ids)
        /\ \A i \in 1 .. Len(ids) : r[i] = ItemWith(items, ids[i])
    BY <1>1, <1>2
  <1>4. IdsOf(r) = ids
    <2>1. IdsOf(r) = [i \in 1 .. Len(ids) |-> r[i].id]
      BY <1>1, <1>3 DEF IdsOf
    <2>2. \A i \in 1 .. Len(ids) : IdsOf(r)[i] = ids[i]
      BY <1>2, <1>3, <2>1
    <2> QED  BY <1>1, <2>1, <2>2
  <1>5. Distinct(r)
    BY <1>4 DEF Distinct
  <1>6. ASSUME NEW id \in ToSet(ids) PROVE ItemWith(r, id) = ItemWith(items, id)
    <2>1. PICK i \in 1 .. Len(ids) : ids[i] = id
      BY ToSetIs
    <2>2. r[i].id = id
      BY <1>2, <1>3, <2>1
    <2>3. ItemWith(r, r[i].id) = r[i]
      BY <1>3, <1>5, <2>1, ItemIs
    <2> QED  BY <1>3, <2>1, <2>2, <2>3
  <1> QED  BY <1>3, <1>4, <1>5, <1>6

LEMMA ApartInjective ==
  ASSUME NEW I, NEW s \in Seq(I), NEW t \in Seq(I), IsInjective(s), IsInjective(t),
         ToSet(s) \cap ToSet(t) = {}
  PROVE  IsInjective(s \o t)
  <1>1. /\ s \o t \in Seq(I) /\ Len(s \o t) = Len(s) + Len(t)
        /\ \A i \in 1 .. Len(s) : (s \o t)[i] = s[i]
        /\ \A i \in 1 .. Len(t) : (s \o t)[Len(s) + i] = t[i]
    BY Joined
  <1>2. Len(s) \in Nat /\ Len(t) \in Nat
    OBVIOUS
  <1>3. /\ \A i \in 1 .. Len(s) : s[i] \in ToSet(s)
        /\ \A i \in 1 .. Len(t) : t[i] \in ToSet(t)
    BY ToSetIs
  <1>4. /\ \A i, j \in 1 .. Len(s) : s[i] = s[j] => i = j
        /\ \A i, j \in 1 .. Len(t) : t[i] = t[j] => i = j
    BY ToSetIs DEF IsInjective
  <1> DEFINE u == s \o t
  <1> HIDE DEF u
  <1>5. ASSUME NEW i \in 1 .. Len(u), NEW j \in 1 .. Len(u), u[i] = u[j] PROVE i = j
    <2>1. \A k \in 1 .. Len(u) : k \in 1 .. Len(s) \/ k - Len(s) \in 1 .. Len(t)
      BY <1>1, <1>2 DEF u
    <2>2. \A k \in 1 .. Len(s) : u[k] = s[k]
      BY <1>1 DEF u
    <2>3. \A k \in 1 .. Len(u) : k - Len(s) \in 1 .. Len(t) => u[k] = t[k - Len(s)]
      <3>1. \A k \in 1 .. Len(u) : Len(s) + (k - Len(s)) = k
        BY <1>2
      <3> QED  BY <1>1, <3>1 DEF u
    <2>4. CASE i \in 1 .. Len(s) /\ j \in 1 .. Len(s)
      BY <1>4, <1>5, <2>2, <2>4
    <2>5. CASE i - Len(s) \in 1 .. Len(t) /\ j - Len(s) \in 1 .. Len(t)
      <3>1. i - Len(s) = j - Len(s)
        BY <1>4, <1>5, <2>3, <2>5
      <3> QED  BY <1>2, <3>1
    <2>6. CASE i \in 1 .. Len(s) /\ j - Len(s) \in 1 .. Len(t)
      BY <1>3, <1>5, <2>2, <2>3, <2>6
    <2>7. CASE i - Len(s) \in 1 .. Len(t) /\ j \in 1 .. Len(s)
      BY <1>3, <1>5, <2>2, <2>3, <2>7
    <2> QED  BY <2>1, <2>4, <2>5, <2>6, <2>7
  <1> QED  BY <1>1, <1>5, ToSetIs DEF IsInjective, u

(* Putting items in an order loses none, repeats none, changes none. *)
Rearranged(S, items, order, r) ==
  /\ r \in Seq(S) /\ Distinct(r) /\ Ids(r) = Ids(items)
  /\ \A id \in Ids(items) : ItemWith(r, id) = ItemWith(items, id)
  /\ IdsOf(r) = Kept(order, Ids(items)) \o Kept(IdsOf(items), Ids(items) \ ToSet(order))
  /\ ToSet(order) = Ids(items) => IdsOf(r) = order

LEMMA Ordered ==
  ASSUME NEW S, NEW I, HaveIds(S, I), NEW items \in Seq(S), Distinct(items),
         NEW order \in Seq(I), IsInjective(order)
  PROVE  Rearranged(S, items, order, InOrder(items, order))
  <1> DEFINE named == Kept(order, Ids(items))
             rest  == Kept(IdsOf(items), Ids(items) \ ToSet(order))
             ids   == named \o rest
             r     == InOrder(items, order)
  <1>1. /\ IdsOf(items) \in Seq(I) /\ ToSet(IdsOf(items)) = Ids(items)
        /\ IsInjective(IdsOf(items))
    BY IdsAre DEF Distinct
  <1>2. /\ named \in Seq(I) /\ IsInjective(named)
        /\ ToSet(named) = ToSet(order) \cap Ids(items)
    BY KeptElements, KeptInjective
  <1>3. /\ rest \in Seq(I) /\ IsInjective(rest)
        /\ ToSet(rest) = Ids(items) \ ToSet(order)
    <2>1. rest \in Seq(I) /\ ToSet(rest) = Ids(items) \cap (Ids(items) \ ToSet(order))
      BY <1>1, KeptElements
    <2>2. IsInjective(rest)
      BY <1>1, KeptInjective
    <2> QED  BY <2>1, <2>2
  <1>4. r = [i \in DOMAIN ids |-> ItemWith(items, ids[i])]
    BY DEF InOrder
  <1>5. ToSet(order) = Ids(items) => ids = order
    <2> SUFFICES ASSUME ToSet(order) = Ids(items) PROVE ids = order
      OBVIOUS
    <2>1. named = order
      BY KeptAll
    <2>2. rest = <<>>
      BY <1>1, KeptNone
    <2>3. order \o <<>> = order
      OBVIOUS
    <2> QED  BY <2>1, <2>2, <2>3, Zenon
  <1> HIDE DEF named, rest
  <1>6. ids \in Seq(I) /\ IsInjective(ids) /\ ToSet(ids) = Ids(items)
    <2>1. ToSet(named) \cap ToSet(rest) = {}
      BY <1>2, <1>3
    <2>2. ids \in Seq(I) /\ ToSet(ids) = ToSet(named) \cup ToSet(rest)
      BY <1>2, <1>3, Joined
    <2>3. IsInjective(ids)
      BY <1>2, <1>3, <2>1, ApartInjective
    <2> QED  BY <1>2, <1>3, <2>2, <2>3
  <1> HIDE DEF ids, r
  <1>7. /\ r \in Seq(S) /\ IdsOf(r) = ids /\ Distinct(r)
        /\ \A id \in ToSet(ids) : ItemWith(r, id) = ItemWith(items, id)
    BY <1>4, <1>6, Picked
  <1>8. Ids(r) = Ids(items)
    BY <1>6, <1>7, IdsAre
  <1>9. ids = Kept(order, Ids(items)) \o Kept(IdsOf(items), Ids(items) \ ToSet(order))
    BY DEF ids, named, rest
  <1> QED  BY <1>5, <1>6, <1>7, <1>8, <1>9 DEF Rearranged, r

-----------------------------------------------------------------------------
(* What a boot makes of the files. *)

Present(table) == {id \in FileId : table[id] # Missing}

LEMMA FileFacts ==
  /\ HaveIds(File, FileId) /\ HaveIds(File, Nat) /\ FileId \subseteq Nat \ {0}
  /\ Missing \notin File
  <1>1. FileId \subseteq Nat \ {0}
    BY ReconcileAssumption, ToSetIs DEF FileId
  <1>2. \A f \in File : f.id \in FileId
    BY DEF File
  <1>3. Missing.id = 0
    BY DEF Missing
  <1> QED  BY <1>1, <1>2, <1>3 DEF HaveIds

LEMMA TableFacts ==
  ASSUME NEW table \in Tables
  PROVE  /\ table \in [FileId -> File \cup {Missing}]
         /\ \A id \in Present(table) : table[id] \in File /\ table[id].id = id
  BY DEF Tables, Present

(* The order that a boot gives the files of P. *)
FileOrderOf(P, order) == Kept(order, P) \o Kept(Kept(FileIds, P), P \ ToSet(order))

LEMMA FilesListed ==
  ASSUME NEW table \in Tables, NEW l, l = ListFiles(table)
  PROVE  /\ IdsOf(l) = Kept(FileIds, Present(table))
         /\ l \in Seq(File) /\ Distinct(l) /\ Ids(l) = Present(table)
         /\ \A id \in Present(table) : ItemWith(l, id) = table[id]
  <1> DEFINE present == Kept(FileIds, Present(table))
  <1>1. /\ present \in Seq(Nat \ {0}) /\ ToSet(present) = Present(table)
        /\ IsInjective(present)
    <2>1. /\ present \in Seq(Nat \ {0}) /\ ToSet(present) = FileId \cap Present(table)
          /\ IsInjective(present)
      BY ReconcileAssumption, KeptElements, KeptInjective DEF FileId
    <2> QED  BY <2>1 DEF Present
  <1>2. l = [i \in DOMAIN present |-> table[present[i]]]
    BY DEF ListFiles, Present
  <1> HIDE DEF present
  <1>3. /\ DOMAIN present = 1 .. Len(present) /\ Len(present) \in Nat
        /\ \A i \in 1 .. Len(present) : present[i] \in Present(table)
    BY <1>1, ToSetIs
  <1>4. /\ l \in Seq(File) /\ Len(l) = Len(present)
        /\ \A i \in 1 .. Len(present) : l[i] = table[present[i]] /\ l[i].id = present[i]
    BY <1>2, <1>3, TableFacts
  <1>5. IdsOf(l) = present
    <2>1. IdsOf(l) = [i \in 1 .. Len(present) |-> l[i].id]
      BY <1>3, <1>4 DEF IdsOf
    <2> QED  BY <1>1, <1>4, <2>1
  <1>6. Distinct(l)
    BY <1>1, <1>5 DEF Distinct
  <1>7. Ids(l) = Present(table)
    BY <1>1, <1>4, <1>5, IdsAre, FileFacts
  <1>8. ASSUME NEW id \in Present(table) PROVE ItemWith(l, id) = table[id]
    <2>1. PICK i \in 1 .. Len(present) : present[i] = id
      BY <1>1, ToSetIs
    <2>2. ItemWith(l, l[i].id) = l[i]
      BY <1>4, <1>6, <2>1, ItemIs
    <2> QED  BY <1>4, <2>1, <2>2
  <1> QED  BY <1>4, <1>5, <1>6, <1>7, <1>8 DEF present

LEMMA FilesRead ==
  ASSUME NEW table \in Tables, NEW ui, ui.fileOrder \in Seq(Nat), IsInjective(ui.fileOrder),
         NEW r, r = ReconcileFiles(table, ui)
  PROVE  /\ r \in Seq(File) /\ Distinct(r) /\ Ids(r) = Present(table)
         /\ \A id \in Present(table) : ItemWith(r, id) = table[id]
         /\ IdsOf(r) = FileOrderOf(Present(table), ui.fileOrder)
  <1> DEFINE l == ListFiles(table)
             order == ui.fileOrder
  <1>1. /\ IdsOf(l) = Kept(FileIds, Present(table))
        /\ l \in Seq(File) /\ Distinct(l) /\ Ids(l) = Present(table)
        /\ \A id \in Present(table) : ItemWith(l, id) = table[id]
    BY FilesListed
  <1>2. r = InOrder(l, order) /\ order \in Seq(Nat) /\ IsInjective(order)
    BY DEF ReconcileFiles
  <1> HIDE DEF l, order
  <1>3. /\ r \in Seq(File) /\ Distinct(r) /\ Ids(r) = Ids(l)
        /\ \A id \in Ids(l) : ItemWith(r, id) = ItemWith(l, id)
        /\ IdsOf(r) = Kept(order, Ids(l)) \o Kept(IdsOf(l), Ids(l) \ ToSet(order))
    <2>1. HaveIds(File, Nat)
      BY FileFacts
    <2>2. l \in Seq(File) /\ Distinct(l)
      BY <1>1
    <2>3. Rearranged(File, l, order, InOrder(l, order))
      BY <1>2, <2>1, <2>2, Ordered
    <2> QED  BY <1>2, <2>3 DEF Rearranged
  <1> QED  BY <1>1, <1>3 DEF order, FileOrderOf

(* A list in which no id comes twice is as long as it has ids. *)
LEMMA AsManyIds ==
  ASSUME NEW S, NEW items \in Seq(S), Distinct(items)
  PROVE  IsFiniteSet(Ids(items)) /\ Cardinality(Ids(items)) = Len(items)
  <1>1. Len(items) \in Nat /\ DOMAIN items = 1 .. Len(items)
    OBVIOUS
  <1> DEFINE f == [i \in 1 .. Len(items) |-> items[i].id]
  <1>2. f \in Bijection(1 .. Len(items), Ids(items))
    <2>1. \A i \in 1 .. Len(items) : f[i] \in Ids(items)
      BY <1>1 DEF Ids
    <2>2. \A i, j \in 1 .. Len(items) : f[i] = f[j] => i = j
      BY DistinctIs
    <2>3. \A id \in Ids(items) : \E i \in 1 .. Len(items) : f[i] = id
      BY <1>1 DEF Ids
    <2>4. f \in [1 .. Len(items) -> Ids(items)]
      BY <2>1
    <2> HIDE DEF f
    <2> QED  BY <2>2, <2>3, <2>4, Fun_IsBij
  <1>3. IsFiniteSet(1 .. Len(items)) /\ Cardinality(1 .. Len(items)) = Len(items)
    BY <1>1, FS_Interval
  <1>4. 1 .. Len(items) # {} \/ Len(items) = 0
    BY <1>1
  <1> HIDE DEF f
  <1> QED  BY <1>2, <1>3, FS_Bijection, Fun_ExistsBij

-----------------------------------------------------------------------------
(* What a boot makes of the sections. *)

(* r is s with x in place k. *)
To(k, i)   == IF i < k THEN i ELSE i + 1
From(k, i) == IF i < k THEN i ELSE i - 1
Insertion(S, s, k, x, r) ==
  /\ r \in Seq(S) /\ Len(r) = Len(s) + 1 /\ r[k] = x
  /\ \A i \in 1 .. Len(s) : r[To(k, i)] = s[i]
  /\ \A i \in 1 .. Len(s) + 1 : i # k => From(k, i) \in 1 .. Len(s) /\ r[i] = s[From(k, i)]

LEMMA Inserted ==
  ASSUME NEW S, NEW s \in Seq(S), NEW k \in 1 .. Len(s) + 1, NEW x \in S
  PROVE  Insertion(S, s, k, x, InsertAt(s, k, x))
  <1> DEFINE before == SubSeq(s, 1, k - 1)
             behind == SubSeq(s, k, Len(s))
             one    == <<x>>
             r      == InsertAt(s, k, x)
  <1>0. Len(s) \in Nat /\ \A i \in 1 .. Len(s) : s[i] \in S
    OBVIOUS
  <1>1. /\ before \in Seq(S) /\ Len(before) = k - 1
        /\ \A i \in 1 .. k - 1 : before[i] = s[i]
    BY <1>0
  <1>2. /\ behind \in Seq(S) /\ Len(behind) = Len(s) + 1 - k
        /\ \A i \in 1 .. Len(s) + 1 - k : behind[i] = s[k + i - 1]
    BY <1>0
  <1>3. one \in Seq(S) /\ Len(one) = 1 /\ one[1] = x
    OBVIOUS
  <1>4. r = before \o one \o behind
    BY DEF InsertAt
  <1> HIDE DEF before, behind, one, r
  <1> DEFINE front == before \o one
  <1>5. /\ front \in Seq(S) /\ Len(front) = k
        /\ \A i \in 1 .. k - 1 : front[i] = s[i]
        /\ front[k] = x
    <2>1. /\ front \in Seq(S) /\ Len(front) = Len(before) + Len(one)
          /\ \A i \in 1 .. Len(before) : front[i] = before[i]
          /\ \A i \in 1 .. Len(one) : front[Len(before) + i] = one[i]
      <3>1. before \in Seq(S) /\ one \in Seq(S)
        BY <1>1, <1>3
      <3>2. /\ before \o one \in Seq(S) /\ Len(before \o one) = Len(before) + Len(one)
            /\ \A i \in 1 .. Len(before) : (before \o one)[i] = before[i]
            /\ \A i \in 1 .. Len(one) : (before \o one)[Len(before) + i] = one[i]
        BY <3>1, Joined
      <3> QED  BY <3>2
    <2> HIDE DEF front
    <2>2. (k - 1) + 1 = k /\ 1 \in 1 .. 1
      BY <1>0
    <2>3. Len(front) = k /\ \A i \in 1 .. k - 1 : front[i] = s[i]
      BY <1>1, <1>3, <2>1, <2>2
    <2>4. front[k] = x
      BY <1>1, <1>3, <2>1, <2>2
    <2> QED  BY <2>1, <2>3, <2>4
  <1> HIDE DEF front
  <1>6. /\ r \in Seq(S) /\ Len(r) = Len(s) + 1
        /\ \A i \in 1 .. k : r[i] = front[i]
        /\ \A i \in 1 .. Len(s) + 1 - k : r[k + i] = behind[i]
    <2>1. r = front \o behind
      BY <1>4 DEF front
    <2>2. /\ front \o behind \in Seq(S) /\ Len(front \o behind) = Len(front) + Len(behind)
          /\ \A i \in 1 .. Len(front) : (front \o behind)[i] = front[i]
          /\ \A i \in 1 .. Len(behind) : (front \o behind)[Len(front) + i] = behind[i]
      BY <1>2, <1>5, Joined
    <2>3. k + (Len(s) + 1 - k) = Len(s) + 1
      BY <1>0
    <2> QED  BY <1>2, <1>5, <2>1, <2>2, <2>3
  <1>7. /\ r[k] = x
        /\ \A i \in 1 .. k - 1 : r[i] = s[i]
        /\ \A i \in k .. Len(s) : r[i + 1] = s[i]
    <2>1. r[k] = x /\ \A i \in 1 .. k - 1 : r[i] = s[i]
      <3>1. k \in 1 .. k /\ \A i \in 1 .. k - 1 : i \in 1 .. k
        BY <1>0
      <3> QED  BY <1>5, <1>6, <3>1
    <2>2. ASSUME NEW i \in k .. Len(s) PROVE r[i + 1] = s[i]
      <3>1. i + 1 - k \in 1 .. Len(s) + 1 - k /\ k + (i + 1 - k) = i + 1
            /\ k + (i + 1 - k) - 1 = i
        BY <1>0
      <3> QED  BY <1>2, <1>6, <3>1
    <2> QED  BY <2>1, <2>2
  <1>8. ASSUME NEW i \in 1 .. Len(s)
        PROVE  r[To(k, i)] = s[i]
    <2> USE DEF To
    <2>1. CASE i < k
      <3>1. i \in 1 .. k - 1
        BY <1>0, <2>1
      <3> QED  BY <1>7, <2>1, <3>1
    <2>2. CASE ~(i < k)
      <3>1. i \in k .. Len(s)
        BY <1>0, <2>2
      <3> QED  BY <1>7, <2>2, <3>1
    <2> QED  BY <2>1, <2>2
  <1>9. ASSUME NEW i \in 1 .. Len(s) + 1, i # k
        PROVE  From(k, i) \in 1 .. Len(s) /\ r[i] = s[From(k, i)]
    <2> USE DEF From
    <2>1. CASE i < k
      <3>1. i \in 1 .. k - 1 /\ i \in 1 .. Len(s)
        BY <1>0, <2>1
      <3> QED  BY <1>7, <2>1, <3>1
    <2>2. CASE ~(i < k)
      <3>1. i - 1 \in k .. Len(s) /\ i - 1 \in 1 .. Len(s) /\ (i - 1) + 1 = i
        BY <1>0, <1>9, <2>2
      <3> QED  BY <1>7, <2>2, <3>1
    <2> QED  BY <2>1, <2>2
  <1> QED  BY <1>6, <1>7, <1>8, <1>9 DEF Insertion, r

(* An item more. *)
LEMMA OneMore ==
  ASSUME NEW S, NEW s \in Seq(S), Distinct(s), NEW k \in 1 .. Len(s) + 1,
         NEW x \in S, x.id \notin Ids(s), NEW r, r = InsertAt(s, k, x)
  PROVE  /\ r \in Seq(S) /\ Distinct(r) /\ Ids(r) = Ids(s) \cup {x.id}
         /\ ItemWith(r, x.id) = x
         /\ \A id \in Ids(s) : ItemWith(r, id) = ItemWith(s, id)
  <1>0. Len(s) \in Nat /\ DOMAIN s = 1 .. Len(s)
    OBVIOUS
  <1>1. /\ r \in Seq(S) /\ Len(r) = Len(s) + 1 /\ r[k] = x
        /\ \A i \in 1 .. Len(s) : r[To(k, i)] = s[i]
        /\ \A i \in 1 .. Len(s) + 1 : i # k => From(k, i) \in 1 .. Len(s) /\ r[i] = s[From(k, i)]
    BY Inserted DEF Insertion
  <1>2. \A i \in 1 .. Len(s) : To(k, i) \in 1 .. Len(s) + 1
    BY <1>0 DEF To
  <1>3. \A i, j \in 1 .. Len(s) + 1 : i # k /\ j # k /\ From(k, i) = From(k, j) => i = j
    BY <1>0 DEF From
  <1>4. \A i \in 1 .. Len(s) : s[i].id \in Ids(s)
    BY <1>0 DEF Ids
  <1>5. \A i, j \in 1 .. Len(s) : s[i].id = s[j].id => i = j
    BY DistinctIs
  <1>6. \A i \in 1 .. Len(r) : i # k => r[i].id # x.id
    BY <1>1, <1>4
  <1>7. ASSUME NEW i \in 1 .. Len(r), NEW j \in 1 .. Len(r), r[i].id = r[j].id PROVE i = j
    <2>1. CASE i = k \/ j = k
      BY <1>1, <1>6, <1>7, <2>1
    <2>2. CASE i # k /\ j # k
      BY <1>1, <1>3, <1>5, <1>7, <2>2
    <2> QED  BY <2>1, <2>2
  <1>8. Distinct(r)
    BY <1>1, <1>7, DistinctIs
  <1>9. DOMAIN r = 1 .. Len(s) + 1
    BY <1>1
  <1>10. Ids(r) = Ids(s) \cup {x.id}
    <2>1. ASSUME NEW id \in Ids(r) PROVE id \in Ids(s) \cup {x.id}
      <3>1. PICK i \in 1 .. Len(s) + 1 : r[i].id = id
        BY <1>9 DEF Ids
      <3> QED  BY <1>1, <1>4, <3>1
    <2>2. ASSUME NEW id \in Ids(s) PROVE id \in Ids(r)
      <3>1. PICK i \in 1 .. Len(s) : s[i].id = id
        BY <1>0 DEF Ids
      <3>2. r[To(k, i)].id = id /\ To(k, i) \in 1 .. Len(s) + 1
        BY <1>1, <1>2, <3>1
      <3> QED  BY <1>9, <3>2 DEF Ids
    <2>3. x.id \in Ids(r)
      BY <1>1, <1>9 DEF Ids
    <2> QED  BY <2>1, <2>2, <2>3
  <1>11. ItemWith(r, x.id) = x
    <2>1. k \in 1 .. Len(r)
      BY <1>1
    <2>2. ItemWith(r, r[k].id) = r[k]
      BY <1>1, <1>8, <2>1, ItemIs
    <2> QED  BY <1>1, <2>2
  <1>12. ASSUME NEW id \in Ids(s) PROVE ItemWith(r, id) = ItemWith(s, id)
    <2>1. PICK i \in 1 .. Len(s) : s[i].id = id
      BY <1>0 DEF Ids
    <2>2. To(k, i) \in 1 .. Len(r) /\ r[To(k, i)] = s[i]
      BY <1>1, <1>2
    <2>3. ItemWith(r, r[To(k, i)].id) = r[To(k, i)]
      <3>1. \A j \in 1 .. Len(r) : ItemWith(r, r[j].id) = r[j]
        BY <1>1, <1>8, ItemIs
      <3> QED  BY <2>2, <3>1
    <2>4. ItemWith(s, s[i].id) = s[i]
      BY ItemIs
    <2> QED  BY <2>1, <2>2, <2>3, <2>4
  <1> QED  BY <1>1, <1>8, <1>10, <1>11, <1>12

LEMMA SectionFacts ==
  /\ HaveIds(Section, STRING)
  /\ \A id \in STRING : NewSection(id) \in Section /\ NewSection(id).id = id
  /\ \A i \in 1 .. Len(Registry) : Registry[i] \in STRING /\ Registry[i] \in ToSet(Registry)
  /\ \A id \in ToSet(Registry) : id \in STRING /\ \E i \in 1 .. Len(Registry) : Registry[i] = id
  /\ Len(Registry) \in Nat
  <1>1. \A x \in Section : x.id \in STRING
    BY DEF Section
  <1>2. NoConfig \in [Settings \cup {"view"} -> Nat]
    BY DEF NoConfig, Unset
  <1>3. ASSUME NEW id \in STRING PROVE NewSection(id) \in Section /\ NewSection(id).id = id
    <2>1. (id \in DefaultFolded) \in BOOLEAN
      OBVIOUS
    <2> QED  BY <1>2, <2>1 DEF NewSection, Section
  <1>4. Registry \in Seq(STRING)
    BY ReconcileAssumption
  <1> QED  BY <1>1, <1>3, <1>4, ToSetIs DEF HaveIds

LEMMA Placed ==
  ASSUME NEW out \in Seq(Section), NEW id \in STRING, id \notin Ids(out)
  PROVE  \E k \in 1 .. Len(out) + 1 : WithSection(out, id) = InsertAt(out, k, NewSection(id))
  <1> DEFINE later == {i \in 1 .. Len(out) : Rank(out[i].id) > Rank(id)}
             after == IF later # {} THEN Min(later) ELSE 0
  <1>1. WithSection(out, id) =
          InsertAt(out, IF after = 0 THEN Len(out) + 1 ELSE after, NewSection(id))
    BY DEF WithSection, SelectInSeq
  <1>2. after = 0 \/ after \in 1 .. Len(out)
    <2> SUFFICES ASSUME later # {} PROVE Min(later) \in later
      OBVIOUS
    <2>1. later \subseteq Nat
      OBVIOUS
    <2> HIDE DEF later
    <2>2. \E n \in later : \A m \in later : n <= m
      BY <2>1, Least
    <2> QED  BY <2>2 DEF Min
  <1>3. Len(out) \in Nat
    OBVIOUS
  <1> HIDE DEF after
  <1> DEFINE k == IF after = 0 THEN Len(out) + 1 ELSE after
  <1>4. k \in 1 .. Len(out) + 1 /\ WithSection(out, id) = InsertAt(out, k, NewSection(id))
    BY <1>1, <1>2, <1>3
  <1> QED  BY <1>4

(* r is out with a section for id. *)
Covers(out, id, r) ==
  /\ r \in Seq(Section) /\ Distinct(r) /\ Ids(r) = Ids(out) \cup {id}
  /\ \A x \in Ids(out) : ItemWith(r, x) = ItemWith(out, x)
  /\ id \notin Ids(out) => ItemWith(r, id) = NewSection(id)
  /\ id \in Ids(out) => r = out

LEMMA SectionAdded ==
  ASSUME NEW out \in Seq(Section), Distinct(out), NEW id \in STRING
  PROVE  Covers(out, id, WithSection(out, id))
  <1>1. CASE id \in Ids(out)
    <2>1. WithSection(out, id) = out
      BY <1>1 DEF WithSection
    <2> QED  BY <1>1, <2>1 DEF Covers
  <1>2. CASE id \notin Ids(out)
    <2> DEFINE x == NewSection(id)
    <2>1. x \in Section /\ x.id = id
      BY SectionFacts
    <2>2. PICK k \in 1 .. Len(out) + 1 : WithSection(out, id) = InsertAt(out, k, x)
      BY <1>2, Placed
    <2> HIDE DEF x
    <2>3. x.id \notin Ids(out)
      BY <1>2, <2>1
    <2> DEFINE r == InsertAt(out, k, x)
    <2>4. /\ r \in Seq(Section) /\ Distinct(r) /\ Ids(r) = Ids(out) \cup {x.id}
          /\ ItemWith(r, x.id) = x
          /\ \A y \in Ids(out) : ItemWith(r, y) = ItemWith(out, y)
      BY <2>1, <2>3, OneMore
    <2> HIDE DEF r
    <2>5. Covers(out, id, r)
      BY <1>2, <2>1, <2>4 DEF Covers, x
    <2> QED  BY <2>2, <2>5 DEF r
  <1> QED  BY <1>1, <1>2

(* Some of the items. *)
LEMMA KeptItems ==
  ASSUME NEW S, NEW I, HaveIds(S, I), NEW items \in Seq(S), Distinct(items), NEW T
  PROVE  /\ Kept(items, T) \in Seq(S) /\ Distinct(Kept(items, T))
         /\ Ids(Kept(items, T)) = {x.id : x \in ToSet(items) \cap T}
         /\ \A id \in Ids(Kept(items, T)) :
              id \in Ids(items) /\ ItemWith(Kept(items, T), id) = ItemWith(items, id)
  <1> DEFINE k == Kept(items, T)
  <1>1. k \in Seq(S) /\ ToSet(k) = ToSet(items) \cap T
    BY KeptElements
  <1>2. IsInjective(items)
    <2>1. \A i, j \in 1 .. Len(items) : items[i] = items[j] => i = j
      BY DistinctIs
    <2> QED  BY <2>1, ToSetIs DEF IsInjective
  <1>3. IsInjective(k)
    BY <1>2, KeptInjective
  <1>4. \A x \in ToSet(items) : ItemWith(items, x.id) = x
    BY ItemIs
  <1> HIDE DEF k
  <1>5. /\ DOMAIN k = 1 .. Len(k)
        /\ \A i \in 1 .. Len(k) : k[i] \in ToSet(items) /\ k[i] \in ToSet(k)
    BY <1>1, ToSetIs
  <1>6. Distinct(k)
    <2>1. ASSUME NEW i \in 1 .. Len(k), NEW j \in 1 .. Len(k), k[i].id = k[j].id PROVE i = j
      <3>1. k[i] = k[j]
        BY <1>4, <1>5, <2>1, Zenon
      <3> QED  BY <1>3, <1>5, <3>1 DEF IsInjective
    <2> QED  BY <1>1, <2>1, DistinctIs
  <1>7. Ids(k) = {x.id : x \in ToSet(k)}
    BY <1>5 DEF Ids, ToSet
  <1>8. ASSUME NEW id \in Ids(k)
        PROVE  id \in Ids(items) /\ ItemWith(k, id) = ItemWith(items, id)
    <2>1. PICK x \in ToSet(k) : x.id = id
      BY <1>7
    <2>2. ItemWith(k, x.id) = x
      BY <1>1, <1>6, ItemIs
    <2>3. x \in ToSet(items) /\ ItemWith(items, x.id) = x
      BY <1>1, <1>4
    <2>4. x.id \in Ids(items)
      BY <2>3, IdsAre
    <2> QED  BY <2>1, <2>2, <2>3, <2>4
  <1> QED  BY <1>1, <1>6, <1>7, <1>8 DEF k

(* One of each section. *)
Complete(secs) ==
  /\ secs \in Seq(Section) /\ Distinct(secs) /\ Ids(secs) = ToSet(Registry)

(* What a boot makes of the stored sections. *)
Restored(stored, secs) ==
  /\ Complete(secs)
  /\ \A id \in ToSet(Registry) :
       ItemWith(secs, id) = IF id \in Ids(stored) THEN ItemWith(stored, id) ELSE NewSection(id)
  /\ Complete(stored) => secs = stored

(* After n sections of the registry. *)
Upto(n) == {Registry[i] : i \in 1 .. n}
Reading(base, n, secs) ==
  /\ secs \in Seq(Section) /\ Distinct(secs) /\ Ids(secs) = Ids(base) \cup Upto(n)
  /\ \A id \in Ids(base) : ItemWith(secs, id) = ItemWith(base, id)
  /\ \A id \in Upto(n) : id \notin Ids(base) => ItemWith(secs, id) = NewSection(id)
  /\ Ids(base) = ToSet(Registry) => secs = base

LEMMA ReadOn ==
  ASSUME NEW base \in Seq(Section), NEW n \in 1 .. Len(Registry), NEW secs,
         Reading(base, n - 1, secs)
  PROVE  Reading(base, n, WithSection(secs, Registry[n]))
  <1> DEFINE id == Registry[n]
             r  == WithSection(secs, id)
  <1>1. id \in STRING /\ id \in ToSet(Registry) /\ Len(Registry) \in Nat
    BY SectionFacts
  <1>2. Upto(n) = Upto(n - 1) \cup {id}
    <2>1. \A i \in 1 .. n : i \in 1 .. n - 1 \/ i = n
      BY <1>1
    <2>2. n \in 1 .. n /\ \A i \in 1 .. n - 1 : i \in 1 .. n
      BY <1>1
    <2> QED  BY <2>1, <2>2 DEF Upto
  <1>3. Covers(secs, id, r)
    BY <1>1, SectionAdded DEF Reading
  <1> HIDE DEF id, r
  <1>4. r \in Seq(Section) /\ Distinct(r) /\ Ids(r) = Ids(base) \cup Upto(n)
    BY <1>2, <1>3 DEF Reading, Covers
  <1>5. \A x \in Ids(base) : ItemWith(r, x) = ItemWith(base, x)
    BY <1>3 DEF Reading, Covers
  <1>6. ASSUME NEW x \in Upto(n), x \notin Ids(base) PROVE ItemWith(r, x) = NewSection(x)
    <2>1. CASE x \in Upto(n - 1)
      BY <1>3, <1>6, <2>1 DEF Reading, Covers
    <2>2. CASE x \notin Upto(n - 1)
      BY <1>2, <1>3, <1>6, <2>2 DEF Reading, Covers
    <2> QED  BY <2>1, <2>2
  <1>7. Ids(base) = ToSet(Registry) => r = base
    BY <1>1, <1>3 DEF Reading, Covers
  <1> QED  BY <1>4, <1>5, <1>6, <1>7 DEF Reading, r, id

LEMMA SectionsRead ==
  ASSUME NEW stored \in Seq(Section), Distinct(stored)
  PROVE  Restored(stored, ReconcileSections(stored))
  <1> DEFINE known == {s \in ToSet(stored) : s.id \in ToSet(Registry)}
             base  == Kept(stored, known)
             N     == Len(Registry)
             Goes(g) == g = [i \in 0 .. Len(Registry) |->
                              IF i = 0 THEN Kept(stored, known)
                              ELSE WithSection(g[i - 1], Registry[i])]
             out   == CHOOSE g : Goes(g)
  <1>0. N \in Nat /\ \A i \in 1 .. N : Registry[i] \in STRING /\ Registry[i] \in ToSet(Registry)
    BY SectionFacts
  <1>1. /\ base \in Seq(Section) /\ Distinct(base)
        /\ Ids(base) = Ids(stored) \cap ToSet(Registry)
        /\ \A id \in Ids(base) : ItemWith(base, id) = ItemWith(stored, id)
    <2>1. /\ base \in Seq(Section) /\ Distinct(base)
          /\ Ids(base) = {x.id : x \in ToSet(stored) \cap known}
          /\ \A id \in Ids(base) : ItemWith(base, id) = ItemWith(stored, id)
      BY SectionFacts, KeptItems
    <2>2. Ids(stored) = {x.id : x \in ToSet(stored)}
      BY DEF Ids, ToSet
    <2> HIDE DEF base
    <2> QED  BY <2>1, <2>2
  <1>2. Complete(stored) => base = stored
    <2> SUFFICES ASSUME Complete(stored) PROVE ToSet(stored) \subseteq known
      BY KeptAll
    <2>1. \A x \in ToSet(stored) : x.id \in Ids(stored)
      BY SectionFacts, IdsAre
    <2> QED  BY <2>1 DEF Complete
  <1>3. \E f : Goes(f)
    <2> DEFINE V     == {l \in Seq(Section) : Distinct(l)}
               step  == [i \in 1 .. N |-> [v \in V |-> WithSection(v, Registry[i])]]
    <2>1. base \in V
      BY <1>1
    <2>2. step \in [1 .. N -> [V -> V]]
      <3>1. ASSUME NEW i \in 1 .. N, NEW v \in V PROVE WithSection(v, Registry[i]) \in V
        BY <1>0, SectionAdded DEF Covers
      <3> QED  BY <3>1
    <2>3. \E f \in [0 .. N -> V] : IsHistory(f, N, base, step)
      <3> HIDE DEF V, step, base, N, Goes, out
      <3> QED  BY <1>0, <2>1, <2>2, Iterates
    <2>4. PICK f \in [0 .. N -> V] : IsHistory(f, N, base, step)
      BY <2>3
    <2>5. ASSUME NEW i \in 0 .. N
          PROVE  f[i] = IF i = 0 THEN base ELSE WithSection(f[i - 1], Registry[i])
      <3>1. CASE i = 0
        BY <2>4, <3>1 DEF IsHistory
      <3>2. CASE i # 0
        <4>1. i \in 1 .. N /\ i - 1 \in 0 .. N
          BY <1>0, <3>2
        <4>2. f[i - 1] \in V
          BY <4>1
        <4>3. f[i] = step[i][f[i - 1]]
          BY <2>4, <4>1 DEF IsHistory
        <4> HIDE DEF V, base
        <4>4. step[i][f[i - 1]] = WithSection(f[i - 1], Registry[i])
          BY <4>1, <4>2
        <4> QED  BY <3>2, <4>3, <4>4
      <3> QED  BY <3>1, <3>2
    <2>6. f = [i \in 0 .. N |-> IF i = 0 THEN base ELSE WithSection(f[i - 1], Registry[i])]
      <3> HIDE DEF base
      <3> QED  BY <2>5
    <2> QED  BY <2>6
  <1>4. Goes(out)
    <2> HIDE DEF Goes
    <2> QED  BY <1>3
  <1>5. ReconcileSections(stored) = out[Len(Registry)]
    BY DEF ReconcileSections
  <1> HIDE DEF out, base, known
  <1>6. ASSUME NEW i \in 0 .. N
        PROVE  out[i] = IF i = 0 THEN base ELSE WithSection(out[i - 1], Registry[i])
    BY <1>4, Zenon DEF base
  <1> DEFINE Good == {n \in 0 .. N : Reading(base, n, out[n])}
  <1>7. 0 \in Good
    <2>1. Upto(0) = {} /\ 0 \in 0 .. N
      BY <1>0 DEF Upto
    <2>2. out[0] = base
      BY <1>6, <2>1
    <2> QED  BY <1>1, <2>1, <2>2 DEF Reading
  <1>8. ASSUME NEW n \in 1 .. N, n - 1 \in Good PROVE n \in Good
    <2>1. n \in 0 .. N /\ n # 0 /\ n \in 1 .. Len(Registry)
      BY <1>0
    <2>2. out[n] = WithSection(out[n - 1], Registry[n])
      BY <1>6, <2>1
    <2>3. Reading(base, n - 1, out[n - 1])
      BY <1>8
    <2>4. Reading(base, n, WithSection(out[n - 1], Registry[n]))
      BY <1>1, <2>1, <2>3, ReadOn
    <2> QED  BY <2>1, <2>2, <2>4
  <1>9. Reading(base, Len(Registry), out[Len(Registry)])
    <2>1. \A n \in 0 .. N : n \in Good
      <3> HIDE DEF Good
      <3> QED  BY <1>0, <1>7, <1>8, Climbs
    <2> QED  BY <1>0, <2>1
  <1>10. Upto(Len(Registry)) = ToSet(Registry)
    <2>1. DOMAIN Registry = 1 .. Len(Registry)
      BY ReconcileAssumption
    <2> QED  BY <2>1 DEF Upto, ToSet
  <1> DEFINE r == out[Len(Registry)]
  <1>11. /\ Complete(r)
         /\ \A id \in ToSet(Registry) :
              ItemWith(r, id) = IF id \in Ids(stored) THEN ItemWith(stored, id) ELSE NewSection(id)
    BY <1>1, <1>9, <1>10 DEF Reading, Complete
  <1>12. Complete(stored) => r = stored
    <2> SUFFICES ASSUME Complete(stored) PROVE r = stored
      OBVIOUS
    <2>1. Ids(base) = ToSet(Registry) /\ base = stored
      BY <1>1, <1>2 DEF Complete
    <2> QED  BY <1>9, <2>1 DEF Reading
  <1> QED  BY <1>5, <1>11, <1>12 DEF Restored

-----------------------------------------------------------------------------
(* The inductive invariant.  What memory, the tables and the queues hold is well     *)
(* formed. *)

Values     == [Settings -> Byte]
FullRecord == [sections : {l \in Seq(Section) : Complete(l)},
               fileOrder : {o \in Seq(Nat) : IsInjective(o)},
               theme : Themes, flush : Nat \ {0}]
SaveData   == [settings : Values, changed : SUBSET Settings, prev : Values,
               places : [{"memory", "io"} -> Nat]]
UiWrite    == [state : FullRecord, save : SaveData \cup {NoSave}]
FileWrite  == {w \in [id : FileId, file : File \cup {Missing}] :
                 w.file # Missing => w.file.id = w.id}
KnownBp    == {b \in Breakpoint : b.kind \in KnownKinds}

MemoryTyped ==
  /\ Complete(sections)
  /\ files \in Seq(File) /\ Distinct(files)
  /\ breakpoints \in Seq(KnownBp)
  /\ theme \in Themes /\ flush \in Nat \ {0}
  /\ bus \in Values /\ pending \in Values
  /\ paused \in BOOLEAN /\ backend \in {"idb", "memory"}

TablesTyped ==
  /\ uiTable = [idb |-> uiTable.idb, memory |-> uiTable.memory] /\ Written(uiTable.idb)
  /\ fileTable \in [idb : Tables, memory : Tables]
  /\ bpTable \in [idb : Seq(Breakpoint), memory : Seq(Breakpoint)]

HistoryTyped ==
  /\ lost \in [ui : BOOLEAN, files : SUBSET FileId, breakpoints : BOOLEAN]
  /\ overtaken \in BOOLEAN

UiTyped ==
  /\ uiTable = [idb |-> uiTable.idb, memory |-> uiTable.memory] /\ Written(uiTable.idb)
  /\ uiQueue \in Seq(UiWrite)
  /\ backend = "memory" => uiQueue = <<>>

FilesTyped ==
  /\ fileTable \in [idb : Tables, memory : Tables]
  /\ fileQueue \in Seq(FileWrite)
  /\ backend = "memory" => fileQueue = <<>>

BpsTyped ==
  /\ bpTable \in [idb : Seq(Breakpoint), memory : Seq(Breakpoint)]
  /\ bpQueue \in Seq(Seq(KnownBp))
  /\ backend = "memory" => bpQueue = <<>>

(* A setting that the page does not hold came from the defaults. *)
Held(secs, s) == ItemWith(secs, SectionOf[s]).config[s]
DefaultsHeld  == \A s \in Settings : Held(sections, s) \in Byte \/ bus[s] = DefaultBus[s]

(* Every save in flight boots what the user saved. *)
SettingsOf(secs) == [s \in Settings |-> SettingIn(secs, s, DefaultBus[s])]
SavesTell ==
  \A i \in Saves(uiQueue) : SettingsOf(uiQueue[i].state.sections) = uiQueue[i].save.settings

(* The oldest save in flight would give back the settings of the bus, and  *)
(* without one they are the ones shown.                                    *)
BusShown ==
  ~overtaken =>
    /\ Saves(uiQueue) = {} => Live = bus
    /\ \A i \in Saves(uiQueue) :
         (\A j \in Saves(uiQueue) : i <= j) => uiQueue[i].save.prev = bus

(* What a record says of the page. *)
Says(r, secs, fs, th, n) ==
  /\ SanitizeTheme(r.theme) = th /\ SanitizeUiConfig(r.flush) = n
  /\ Shown(ReconcileSections(r.sections)) = Shown(secs)
  /\ IdsOf(fs) = FileOrderOf(Ids(fs), r.fileOrder)
Matches(r) == Says(r, sections, files, theme, flush)

(* The last record in flight, or else the stored one, says what the page   *)
(* shows.                                                                  *)
Mirrored ==
  backend = "idb" /\ ~overtaken =>
    /\ uiQueue # <<>> => /\ Matches(uiQueue[Len(uiQueue)].state)
                         /\ SettingsOf(uiQueue[Len(uiQueue)].state.sections) = Live
    /\ uiQueue = <<>> /\ ~lost.ui => Matches(uiTable.idb) /\ SettingsOf(uiTable.idb.sections) = Live

(* When a save is the last record in flight, the sections are where it     *)
(* found them, and the record before it says what its failure goes back to.*)
LastSave ==
  LET n == Len(uiQueue)
      w == uiQueue[n]
      r == IF n > 1 THEN uiQueue[n - 1].state ELSE uiTable.idb
  IN  ~overtaken /\ n \in Saves(uiQueue) =>
        /\ w.save.places = [memory |-> IndexOf(sections, "memory"), io |-> IndexOf(sections, "io")]
        /\ \A s \in Settings \ w.save.changed : Live[s] = w.save.prev[s]
        /\ n > 1 \/ ~lost.ui => Matches(r) /\ SettingsOf(r.sections) = w.save.prev

(* The last write of a file in flight, or else its stored copy, is the     *)
(* file of the page.                                                       *)
InMemory(id) == IF id \in Ids(files) THEN ItemWith(files, id) ELSE Missing
FilesMirrored ==
  backend = "idb" =>
    \A id \in FileId :
      /\ \A i \in DOMAIN fileQueue :
           /\ fileQueue[i].id = id
           /\ \A j \in DOMAIN fileQueue : j > i => fileQueue[j].id # id
           => fileQueue[i].file = InMemory(id)
      /\ id \notin Ids(fileQueue) /\ id \notin lost.files => fileTable.idb[id] = InMemory(id)

BreakpointsMirrored ==
  backend = "idb" =>
    /\ bpQueue # <<>> => bpQueue[Len(bpQueue)] = breakpoints
    /\ bpQueue = <<>> /\ ~lost.breakpoints => ReconcileBreakpoints(bpTable.idb) = breakpoints

UiInv    == UiTyped /\ DefaultsHeld /\ SavesTell /\ BusShown /\ Mirrored /\ LastSave
FilesInv == FilesTyped /\ FilesMirrored
BpsInv   == BpsTyped /\ BreakpointsMirrored
Inv      == MemoryTyped /\ HistoryTyped /\ UiInv /\ FilesInv /\ BpsInv

-----------------------------------------------------------------------------
(* What the verbs do to lists. *)

(* Items that stay where they are. *)
LEMMA Updated ==
  ASSUME NEW S, NEW I, HaveIds(S, I), NEW items \in Seq(S), Distinct(items),
         NEW r \in Seq(S), IdsOf(r) = IdsOf(items)
  PROVE  /\ Len(r) = Len(items) /\ Distinct(r) /\ Ids(r) = Ids(items)
         /\ \A id \in Ids(items) : /\ IndexOf(r, id) = IndexOf(items, id)
                                   /\ ItemWith(r, id) = r[IndexOf(items, id)]
  <1>1. Len(IdsOf(r)) = Len(r) /\ Len(IdsOf(items)) = Len(items)
        /\ ToSet(IdsOf(r)) = Ids(r) /\ ToSet(IdsOf(items)) = Ids(items)
        /\ (\A i \in 1 .. Len(r) : IdsOf(r)[i] = r[i].id)
        /\ (\A i \in 1 .. Len(items) : IdsOf(items)[i] = items[i].id)
    BY IdsAre
  <1>2. Len(r) = Len(items) /\ Ids(r) = Ids(items)
    BY <1>1
  <1>3. Distinct(r)
    BY DEF Distinct
  <1>4. ASSUME NEW id \in Ids(items)
        PROVE  /\ IndexOf(r, id) = IndexOf(items, id)
               /\ ItemWith(r, id) = r[IndexOf(items, id)]
    <2> DEFINE i == IndexOf(items, id)
    <2>1. i \in 1 .. Len(items) /\ items[i].id = id
      BY ItemIs
    <2> HIDE DEF i
    <2>2. i \in 1 .. Len(r) /\ r[i].id = id
      BY <1>1, <1>2, <2>1
    <2>3. IndexOf(r, r[i].id) = i
      BY <1>3, <2>2, ItemIs
    <2> QED  BY <2>2, <2>3 DEF i, ItemWith
  <1> QED  BY <1>2, <1>3, <1>4

LEMMA SettingFacts ==
  /\ \A s \in Settings : SectionOf[s] \in {"memory", "io"}
  /\ {"appShell", "memory", "io"} \subseteq ToSet(Registry)
  /\ \A s \in Settings : s \in Settings \cup {"view"} /\ s # "view"
  BY ReconcileAssumption DEF Settings, SectionOf

LEMMA SettingIs ==
  ASSUME NEW secs, Complete(secs), NEW s \in Settings, NEW e
  PROVE  SettingIn(secs, s, e) = IF Held(secs, s) \in Byte THEN Held(secs, s) ELSE e
  <1>1. SectionOf[s] \in Ids(secs)
    BY SettingFacts DEF Complete
  <1> QED  BY <1>1 DEF SettingIn, ConfigOf, Held

(* The settings stay with their sections. *)
SameSettings(secs, r) ==
  Complete(r) /\ \A s \in Settings : Held(r, s) = Held(secs, s)

LEMMA SettingsStay ==
  ASSUME NEW secs, Complete(secs), NEW r \in Seq(Section), IdsOf(r) = IdsOf(secs),
         \A i \in 1 .. Len(secs) : \A s \in Settings : r[i].config[s] = secs[i].config[s]
  PROVE  SameSettings(secs, r)
  <1>1. secs \in Seq(Section) /\ Distinct(secs) /\ Ids(secs) = ToSet(Registry)
    BY DEF Complete
  <1>2. HaveIds(Section, STRING)
    BY SectionFacts
  <1>3. /\ Len(r) = Len(secs) /\ Distinct(r) /\ Ids(r) = Ids(secs)
        /\ \A id \in Ids(secs) : ItemWith(r, id) = r[IndexOf(secs, id)]
    BY <1>1, <1>2, Updated
  <1>4. Complete(r)
    BY <1>1, <1>3 DEF Complete
  <1>5. ASSUME NEW s \in Settings PROVE Held(r, s) = Held(secs, s)
    <2> DEFINE id == SectionOf[s]
               i == IndexOf(secs, id)
    <2>1. id \in Ids(secs)
      BY <1>1, SettingFacts
    <2> HIDE DEF id
    <2>2. i \in 1 .. Len(secs) /\ ItemWith(r, id) = r[i] /\ ItemWith(secs, id) = secs[i]
      BY <1>1, <1>3, <2>1, ItemIs DEF ItemWith
    <2> QED  BY <2>2 DEF Held, id
  <1> QED  BY <1>4, <1>5 DEF SameSettings

LEMMA FoldStays ==
  ASSUME NEW secs, Complete(secs), NEW i \in 1 .. Len(secs), NEW b \in BOOLEAN,
         NEW r, r = [secs EXCEPT ![i].folded = b]
  PROVE  SameSettings(secs, r) /\ IdsOf(r) = IdsOf(secs)
  <1>1. secs \in Seq(Section) /\ DOMAIN secs = 1 .. Len(secs)
        /\ \A j \in 1 .. Len(secs) : secs[j] \in Section
    BY DEF Complete
  <1>2. \A x \in Section : /\ [x EXCEPT !.folded = b] \in Section
                           /\ [x EXCEPT !.folded = b].id = x.id
                           /\ [x EXCEPT !.folded = b].config = x.config
    BY DEF Section
  <1>3. r = [j \in 1 .. Len(secs) |-> IF j = i THEN [secs[i] EXCEPT !.folded = b] ELSE secs[j]]
    BY <1>1
  <1>4. \A j \in 1 .. Len(secs) :
          r[j] \in Section /\ r[j].id = secs[j].id /\ r[j].config = secs[j].config
    BY <1>1, <1>2, <1>3
  <1>5. r \in Seq(Section) /\ Len(r) = Len(secs) /\ DOMAIN r = 1 .. Len(secs)
    BY <1>1, <1>3, <1>4
  <1>6. IdsOf(r) = IdsOf(secs)
    BY <1>1, <1>4, <1>5 DEF IdsOf
  <1>7. \A j \in 1 .. Len(secs) : \A s \in Settings : r[j].config[s] = secs[j].config[s]
    BY <1>4
  <1>8. SameSettings(secs, r)
    BY <1>5, <1>6, <1>7, SettingsStay
  <1> QED  BY <1>6, <1>8

LEMMA ViewStays ==
  ASSUME NEW secs, Complete(secs), NEW i \in 1 .. Len(secs),
         NEW r, r = [secs EXCEPT ![i].config.view = 1]
  PROVE  SameSettings(secs, r) /\ IdsOf(r) = IdsOf(secs)
  <1>1. secs \in Seq(Section) /\ DOMAIN secs = 1 .. Len(secs)
        /\ \A j \in 1 .. Len(secs) : secs[j] \in Section
    BY DEF Complete
  <1>2. ASSUME NEW x \in Section
        PROVE  /\ [x EXCEPT !.config.view = 1] \in Section
               /\ [x EXCEPT !.config.view = 1].id = x.id
               /\ \A s \in Settings : [x EXCEPT !.config.view = 1].config[s] = x.config[s]
    <2> DEFINE c == [x.config EXCEPT !["view"] = 1]
    <2>1. c \in [Settings \cup {"view"} -> Nat] /\ \A s \in Settings : c[s] = x.config[s]
      BY SettingFacts DEF Section
    <2>2. [x EXCEPT !.config.view = 1] = [x EXCEPT !.config = c]
      OBVIOUS
    <2> HIDE DEF c
    <2>3. [x EXCEPT !.config = c] \in Section /\ [x EXCEPT !.config = c].id = x.id
          /\ [x EXCEPT !.config = c].config = c
      BY <2>1 DEF Section
    <2> QED  BY <2>1, <2>2, <2>3
  <1>3. r = [j \in 1 .. Len(secs) |->
               IF j = i THEN [secs[i] EXCEPT !.config.view = 1] ELSE secs[j]]
    BY <1>1
  <1>4. \A j \in 1 .. Len(secs) :
          /\ r[j] \in Section /\ r[j].id = secs[j].id
          /\ \A s \in Settings : r[j].config[s] = secs[j].config[s]
    <2> DEFINE y == [secs[i] EXCEPT !.config.view = 1]
    <2>1. /\ y \in Section /\ y.id = secs[i].id
          /\ \A s \in Settings : y.config[s] = secs[i].config[s]
      BY <1>1, <1>2
    <2>2. \A j \in 1 .. Len(secs) : r[j] = IF j = i THEN y ELSE secs[j]
      BY <1>3
    <2> HIDE DEF y
    <2> QED  BY <1>1, <2>1, <2>2
  <1>5. r \in Seq(Section) /\ Len(r) = Len(secs) /\ DOMAIN r = 1 .. Len(secs)
    BY <1>1, <1>3, <1>4
  <1>6. IdsOf(r) = IdsOf(secs)
    BY <1>1, <1>4, <1>5 DEF IdsOf
  <1>7. SameSettings(secs, r)
    BY <1>4, <1>5, <1>6, SettingsStay
  <1> QED  BY <1>6, <1>7

LEMMA OrdersAre ==
  ASSUME NEW S, NEW I, HaveIds(S, I), NEW items \in Seq(S), Distinct(items),
         NEW order \in Orders(items)
  PROVE  order \in Seq(I) /\ IsInjective(order)
  <1>1. Cardinality(Ids(items)) = Len(items) /\ Len(items) \in Nat
    BY AsManyIds
  <1>2. /\ order \in [1 .. Len(items) -> Ids(items)]
        /\ \A i, j \in 1 .. Len(items) : i # j => order[i] # order[j]
    BY <1>1 DEF Orders, SetToSeqs
  <1>3. Ids(items) \subseteq I
    BY IdsAre
  <1>4. order \in Seq(I) /\ DOMAIN order = 1 .. Len(items)
    BY <1>1, <1>2, <1>3
  <1> QED  BY <1>2, <1>4 DEF IsInjective

LEMMA DragStays ==
  ASSUME NEW secs, Complete(secs), NEW order \in Orders(secs)
  PROVE  SameSettings(secs, InOrder(secs, order))
  <1> DEFINE r == InOrder(secs, order)
  <1>1. secs \in Seq(Section) /\ Distinct(secs) /\ Ids(secs) = ToSet(Registry)
    BY DEF Complete
  <1>2. HaveIds(Section, STRING)
    BY SectionFacts
  <1>3. order \in Seq(STRING) /\ IsInjective(order)
    BY <1>1, <1>2, OrdersAre
  <1>4. Rearranged(Section, secs, order, r)
    BY <1>1, <1>2, <1>3, Ordered
  <1> HIDE DEF r
  <1>5. Complete(r)
    BY <1>1, <1>4 DEF Rearranged, Complete
  <1>6. \A s \in Settings : Held(r, s) = Held(secs, s)
    <2>1. \A s \in Settings : SectionOf[s] \in Ids(secs)
      BY <1>1, SettingFacts
    <2> QED  BY <1>4, <2>1 DEF Rearranged, Held
  <1> QED  BY <1>5, <1>6 DEF SameSettings, r

(* Where the two sections that hold the settings are. *)
PlacesIn(secs) == [memory |-> IndexOf(secs, "memory"), io |-> IndexOf(secs, "io")]

LEMMA PlacesAre ==
  ASSUME NEW secs, Complete(secs)
  PROVE  /\ \A s \in Settings : /\ PlacesIn(secs)[SectionOf[s]] = IndexOf(secs, SectionOf[s])
                                /\ IndexOf(secs, SectionOf[s]) \in 1 .. Len(secs)
                                /\ Held(secs, s) = secs[IndexOf(secs, SectionOf[s])].config[s]
         /\ PlacesIn(secs) \in [{"memory", "io"} -> Nat]
  <1>1. secs \in Seq(Section) /\ Distinct(secs) /\ Ids(secs) = ToSet(Registry)
    BY DEF Complete
  <1>2. \A s \in Settings : PlacesIn(secs)[SectionOf[s]] = IndexOf(secs, SectionOf[s])
    BY DEF Settings, SectionOf, PlacesIn
  <1>3. \A id \in {"memory", "io"} : IndexOf(secs, id) \in 1 .. Len(secs)
    BY <1>1, SettingFacts, ItemIs
  <1>4. \A s \in Settings : Held(secs, s) = secs[IndexOf(secs, SectionOf[s])].config[s]
    BY DEF Held, ItemWith
  <1>5. PlacesIn(secs) \in [{"memory", "io"} -> Nat]
    BY <1>1, <1>3 DEF PlacesIn
  <1> QED  BY <1>2, <1>3, <1>4, <1>5, SettingFacts

(* Writing settings at the given places. *)
Wrote(secs, set, places, values, r) ==
  /\ Complete(r) /\ IdsOf(r) = IdsOf(secs) /\ Shown(r) = Shown(secs)
  /\ \A s \in Settings : Held(r, s) = Held(secs, s) \/ Held(r, s) \in Byte
  /\ \A s \in Settings \ set : Held(r, s) = Held(secs, s)
  /\ places = PlacesIn(secs) => \A s \in set : Held(r, s) = values[s]

LEMMA SettingsWritten ==
  ASSUME NEW secs, Complete(secs), NEW set \in SUBSET Settings,
         NEW places \in [{"memory", "io"} -> Nat], NEW values \in Values
  PROVE  Wrote(secs, set, places, values, WithSettings(secs, set, places, values))
  <1> DEFINE r == WithSettings(secs, set, places, values)
  <1>0. r = WithSettings(secs, set, places, values) /\ values \in [Settings -> Byte]
    BY DEF Values
  <1> HIDE DEF r
  <1> DEFINE c(i) == [k \in Settings \cup {"view"} |->
                       IF k \in set /\ places[SectionOf[k]] = i THEN values[k]
                       ELSE secs[i].config[k]]
  <1>1. /\ secs \in Seq(Section) /\ DOMAIN secs = 1 .. Len(secs) /\ Distinct(secs)
        /\ \A j \in 1 .. Len(secs) : secs[j] \in Section
        /\ Ids(secs) = ToSet(Registry)
    BY DEF Complete
  <1>2. \A x \in Section : \A d \in [Settings \cup {"view"} -> Nat] :
          /\ [x EXCEPT !.config = d] \in Section
          /\ [x EXCEPT !.config = d].id = x.id
          /\ [x EXCEPT !.config = d].folded = x.folded
          /\ [x EXCEPT !.config = d].config = d
    BY DEF Section
  <1>3. \A x \in Section : DOMAIN x.config = Settings \cup {"view"}
    BY DEF Section
  <1>4. \A b \in Byte : b \in Nat
    BY ReconcileAssumption
  <1>5. \A i \in 1 .. Len(secs) : c(i) \in [Settings \cup {"view"} -> Nat]
    <2> SUFFICES ASSUME NEW i \in 1 .. Len(secs), NEW k \in Settings \cup {"view"}
                 PROVE  c(i)[k] \in Nat
      OBVIOUS
    <2>1. secs[i].config[k] \in Nat
      BY <1>1 DEF Section
    <2>2. k \in set => values[k] \in Nat
      BY <1>0, <1>4
    <2> QED  BY <2>1, <2>2
  <1>6. \A i \in 1 .. Len(secs) : r[i] = [secs[i] EXCEPT !.config = c(i)]
    BY <1>0, <1>1, <1>3 DEF WithSettings
  <1>7. \A i \in 1 .. Len(secs) : \A k \in Settings \cup {"view"} :
          c(i)[k] = IF k \in set /\ places[SectionOf[k]] = i THEN values[k]
                    ELSE secs[i].config[k]
    OBVIOUS
  <1> HIDE DEF c
  <1>8. \A i \in 1 .. Len(secs) :
          /\ r[i] \in Section /\ r[i].id = secs[i].id /\ r[i].folded = secs[i].folded
          /\ r[i].config = c(i)
    <2> SUFFICES ASSUME NEW i \in 1 .. Len(secs)
                 PROVE  /\ r[i] \in Section /\ r[i].id = secs[i].id
                        /\ r[i].folded = secs[i].folded /\ r[i].config = c(i)
      OBVIOUS
    <2>1. secs[i] \in Section /\ c(i) \in [Settings \cup {"view"} -> Nat]
      BY <1>1, <1>5
    <2> DEFINE y == [secs[i] EXCEPT !.config = c(i)]
    <2>2. r[i] = y
      BY <1>6
    <2>3. y \in Section /\ y.id = secs[i].id /\ y.folded = secs[i].folded /\ y.config = c(i)
      BY <1>2, <2>1
    <2> HIDE DEF y
    <2> QED  BY <2>2, <2>3
  <1>9. r \in Seq(Section) /\ Len(r) = Len(secs) /\ DOMAIN r = 1 .. Len(secs)
    <2>1. r = [i \in 1 .. Len(secs) |-> r[i]]
      BY <1>0, <1>1 DEF WithSettings
    <2>2. Len(secs) \in Nat
      BY <1>1
    <2> QED  BY <1>8, <2>1, <2>2
  <1>10. IdsOf(r) = IdsOf(secs)
    BY <1>1, <1>8, <1>9 DEF IdsOf
  <1>11. HaveIds(Section, STRING)
    BY SectionFacts
  <1>12. /\ Distinct(r) /\ Ids(r) = Ids(secs)
         /\ \A id \in Ids(secs) : /\ IndexOf(r, id) = IndexOf(secs, id)
                                  /\ ItemWith(r, id) = r[IndexOf(secs, id)]
    BY <1>1, <1>9, <1>10, <1>11, Updated
  <1>13. Complete(r)
    BY <1>1, <1>9, <1>12 DEF Complete
  <1>14. Shown(r) = Shown(secs)
    <2>1. \A i \in 1 .. Len(secs) : c(i)["view"] = secs[i].config["view"]
      BY <1>7, SettingFacts
    <2>2. "view" \notin set
      BY SettingFacts
    <2> QED  BY <1>1, <1>8, <1>9, <2>1 DEF Shown
  <1>15. \A s \in Settings :
           Held(r, s) = IF s \in set /\ places[SectionOf[s]] = IndexOf(secs, SectionOf[s])
                        THEN values[s] ELSE Held(secs, s)
    <2> SUFFICES ASSUME NEW s \in Settings
                 PROVE  Held(r, s) =
                          IF s \in set /\ places[SectionOf[s]] = IndexOf(secs, SectionOf[s])
                          THEN values[s] ELSE Held(secs, s)
      OBVIOUS
    <2> DEFINE i == IndexOf(secs, SectionOf[s])
    <2>1. i \in 1 .. Len(secs) /\ Held(secs, s) = secs[i].config[s]
      BY PlacesAre
    <2>2. ItemWith(r, SectionOf[s]) = r[i]
      BY <1>1, <1>12, SettingFacts
    <2> HIDE DEF i
    <2>3. Held(r, s) = c(i)[s]
      BY <1>8, <2>1, <2>2 DEF Held
    <2>4. s \in Settings \cup {"view"}
      OBVIOUS
    <2> QED  BY <1>7, <2>1, <2>3, <2>4 DEF i
  <1>16. places = PlacesIn(secs) =>
           \A s \in Settings : places[SectionOf[s]] = IndexOf(secs, SectionOf[s])
    BY PlacesAre
  <1>17. /\ \A s \in Settings : Held(r, s) = Held(secs, s) \/ Held(r, s) \in Byte
         /\ \A s \in Settings \ set : Held(r, s) = Held(secs, s)
         /\ places = PlacesIn(secs) => \A s \in set : Held(r, s) = values[s]
    BY <1>0, <1>15, <1>16
  <1> QED  BY <1>0, <1>10, <1>13, <1>14, <1>17 DEF Wrote

LEMMA WithFoldStays ==
  ASSUME NEW secs, Complete(secs)
  PROVE  SameSettings(secs, WithFold(secs)) /\ IdsOf(WithFold(secs)) = IdsOf(secs)
  <1>1. IndexOf(secs, "appShell") \in 1 .. Len(secs)
    BY SettingFacts, ItemIs DEF Complete
  <1> QED  BY <1>1, FoldStays DEF WithFold

LEMMA Removed ==
  ASSUME NEW S, NEW s \in Seq(S), NEW k \in 1 .. Len(s)
  PROVE  /\ RemoveAt(s, k) \in Seq(S) /\ Len(RemoveAt(s, k)) = Len(s) - 1
         /\ \A i \in 1 .. k - 1 : RemoveAt(s, k)[i] = s[i]
         /\ \A i \in k .. Len(s) - 1 : RemoveAt(s, k)[i] = s[i + 1]
  <1> DEFINE before == SubSeq(s, 1, k - 1)
             behind == SubSeq(s, k + 1, Len(s))
  <1>0. Len(s) \in Nat /\ k \in Nat /\ k <= Len(s) /\ 1 <= k
    OBVIOUS
  <1>1. /\ before \in Seq(S) /\ Len(before) = k - 1
        /\ \A i \in 1 .. k - 1 : before[i] = s[i]
    BY <1>0
  <1>2. /\ behind \in Seq(S) /\ Len(behind) = Len(s) - k
        /\ \A i \in 1 .. Len(s) - k : behind[i] = s[k + i]
    <2>1. \A i \in k + 1 .. Len(s) : s[i] \in S
      BY <1>0
    <2>2. behind = [i \in 1 .. (Len(s) - k) |-> s[k + i]]
      BY <1>0
    <2>3. \A i \in 1 .. Len(s) - k : s[k + i] \in S
      BY <1>0
    <2> HIDE DEF behind
    <2> QED  BY <1>0, <2>2, <2>3
  <1> HIDE DEF before, behind
  <1>3. RemoveAt(s, k) = before \o behind
    BY DEF RemoveAt, before, behind
  <1>4. /\ before \o behind \in Seq(S) /\ Len(before \o behind) = Len(before) + Len(behind)
        /\ \A i \in 1 .. Len(before) : (before \o behind)[i] = before[i]
        /\ \A i \in 1 .. Len(behind) : (before \o behind)[Len(before) + i] = behind[i]
    <2>1. before \in Seq(S) /\ behind \in Seq(S)
      BY <1>1, <1>2
    <2> QED  BY <2>1, Joined
  <1> DEFINE r == before \o behind
  <1>5. r \in Seq(S) /\ Len(r) = Len(s) - 1 /\ \A i \in 1 .. k - 1 : r[i] = s[i]
    <2> HIDE DEF r
    <2> QED  BY <1>0, <1>1, <1>2, <1>4 DEF r
  <1>6. ASSUME NEW i \in k .. Len(s) - 1 PROVE r[i] = s[i + 1]
    <2> DEFINE j == i - (k - 1)
    <2>1. j \in 1 .. Len(s) - k /\ (k - 1) + j = i /\ k + j = i + 1
      BY <1>0
    <2> HIDE DEF j
    <2>2. r[(k - 1) + j] = behind[j]
      BY <1>1, <1>2, <1>4, <2>1
    <2> HIDE DEF r
    <2> QED  BY <1>2, <2>1, <2>2
  <1> QED  BY <1>3, <1>5, <1>6

(* An item fewer. *)
LEMMA OneFewer ==
  ASSUME NEW S, NEW s \in Seq(S), Distinct(s), NEW id \in Ids(s),
         NEW r, r = RemoveAt(s, IndexOf(s, id))
  PROVE  /\ r \in Seq(S) /\ Distinct(r) /\ Ids(r) = Ids(s) \ {id}
         /\ \A x \in Ids(r) : ItemWith(r, x) = ItemWith(s, x)
  <1> DEFINE k == IndexOf(s, id)
             from(i) == IF i < k THEN i ELSE i + 1
  <1>0. Len(s) \in Nat /\ DOMAIN s = 1 .. Len(s)
    OBVIOUS
  <1>1. k \in 1 .. Len(s) /\ s[k].id = id
    BY ItemIs
  <1> HIDE DEF k
  <1>2. /\ r \in Seq(S) /\ Len(r) = Len(s) - 1
        /\ \A i \in 1 .. k - 1 : r[i] = s[i]
        /\ \A i \in k .. Len(s) - 1 : r[i] = s[i + 1]
    BY <1>1, Removed DEF k
  <1>3. \A i \in 1 .. Len(r) : from(i) \in 1 .. Len(s) /\ from(i) # k /\ r[i] = s[from(i)]
    <2> SUFFICES ASSUME NEW i \in 1 .. Len(r)
                 PROVE  from(i) \in 1 .. Len(s) /\ from(i) # k /\ r[i] = s[from(i)]
      OBVIOUS
    <2>1. CASE i < k
      <3>1. i \in 1 .. k - 1
        BY <1>0, <1>1, <1>2, <2>1
      <3> QED  BY <1>0, <1>1, <1>2, <2>1, <3>1
    <2>2. CASE ~(i < k)
      <3>1. i \in k .. Len(s) - 1
        BY <1>0, <1>1, <1>2, <2>2
      <3> QED  BY <1>0, <1>1, <1>2, <2>2, <3>1
    <2> QED  BY <2>1, <2>2
  <1>4. \A i, j \in 1 .. Len(r) : from(i) = from(j) => i = j
    BY <1>0, <1>1, <1>2
  <1>5. \A j \in 1 .. Len(s) : j # k => \E i \in 1 .. Len(r) : from(i) = j
    <2> SUFFICES ASSUME NEW j \in 1 .. Len(s), j # k
                 PROVE  \E i \in 1 .. Len(r) : from(i) = j
      OBVIOUS
    <2>1. CASE j < k
      <3>1. j \in 1 .. Len(r) /\ from(j) = j
        BY <1>0, <1>1, <1>2, <2>1
      <3> QED  BY <3>1
    <2>2. CASE ~(j < k)
      <3>1. j - 1 \in 1 .. Len(r) /\ from(j - 1) = j
        BY <1>0, <1>1, <1>2, <2>2
      <3> QED  BY <3>1
    <2> QED  BY <2>1, <2>2
  <1> HIDE DEF from
  <1>6. \A i, j \in 1 .. Len(s) : s[i].id = s[j].id => i = j
    BY DistinctIs
  <1>7. Distinct(r)
    <2>1. \A i, j \in 1 .. Len(r) : r[i].id = r[j].id => i = j
      BY <1>3, <1>4, <1>6
    <2> QED  BY <1>2, <2>1, DistinctIs
  <1>8. DOMAIN r = 1 .. Len(r)
    BY <1>2
  <1>9. Ids(r) = Ids(s) \ {id}
    <2>1. ASSUME NEW x \in Ids(r) PROVE x \in Ids(s) \ {id}
      <3>1. PICK i \in 1 .. Len(r) : r[i].id = x
        BY <1>8 DEF Ids
      <3>2. from(i) \in 1 .. Len(s) /\ s[from(i)].id = x /\ from(i) # k
        BY <1>3, <3>1
      <3>3. x # id
        BY <1>1, <1>6, <3>2
      <3> QED  BY <1>0, <3>2, <3>3 DEF Ids
    <2>2. ASSUME NEW x \in Ids(s) \ {id} PROVE x \in Ids(r)
      <3>1. PICK j \in 1 .. Len(s) : s[j].id = x
        BY <1>0 DEF Ids
      <3>2. PICK i \in 1 .. Len(r) : from(i) = j
        BY <1>1, <1>5, <3>1
      <3>3. r[i].id = x
        BY <1>3, <3>1, <3>2
      <3> QED  BY <1>8, <3>3 DEF Ids
    <2> QED  BY <2>1, <2>2
  <1>10. ASSUME NEW x \in Ids(r) PROVE ItemWith(r, x) = ItemWith(s, x)
    <2>1. PICK i \in 1 .. Len(r) : r[i].id = x
      BY <1>8 DEF Ids
    <2>2. from(i) \in 1 .. Len(s) /\ r[i] = s[from(i)]
      BY <1>3
    <2>3. ItemWith(r, r[i].id) = r[i]
      BY <1>2, <1>7, ItemIs
    <2>4. ItemWith(s, s[from(i)].id) = s[from(i)]
      BY <2>2, ItemIs
    <2> QED  BY <2>1, <2>2, <2>3, <2>4
  <1> QED  BY <1>2, <1>7, <1>9, <1>10

(* r has the items of s, and x. *)
Extended(S, s, x, r) ==
  /\ r \in Seq(S) /\ Distinct(r) /\ Ids(r) = Ids(s) \cup {x.id}
  /\ ItemWith(r, x.id) = x
  /\ \A id \in Ids(s) : ItemWith(r, id) = ItemWith(s, id)

LEMMA OneAtTheEnd ==
  ASSUME NEW S, NEW s \in Seq(S), Distinct(s), NEW x \in S, x.id \notin Ids(s)
  PROVE  Extended(S, s, x, Append(s, x))
  <1> DEFINE k == Len(s) + 1
             r == Append(s, x)
  <1>1. Len(s) \in Nat
    OBVIOUS
  <1>2. k \in 1 .. Len(s) + 1
    BY <1>1
  <1>3. InsertAt(s, k, x) = r
    <2>1. Insertion(S, s, k, x, InsertAt(s, k, x))
      BY <1>2, Inserted
    <2> DEFINE q == InsertAt(s, k, x)
    <2>2. q \in Seq(S) /\ Len(q) = Len(s) + 1 /\ q[Len(s) + 1] = x
          /\ \A i \in 1 .. Len(s) : q[i] = s[i]
      <3>1. \A i \in 1 .. Len(s) : To(k, i) = i
        BY <1>1 DEF To
      <3> QED  BY <2>1, <3>1 DEF Insertion
    <2> HIDE DEF q
    <2>3. /\ r \in Seq(S) /\ Len(r) = Len(s) + 1 /\ r[Len(s) + 1] = x
          /\ \A i \in 1 .. Len(s) : r[i] = s[i]
      BY Appended
    <2>4. \A i \in 1 .. Len(s) + 1 : q[i] = r[i]
      BY <1>1, <2>2, <2>3
    <2> QED  BY <2>2, <2>3, <2>4 DEF q
  <1> HIDE DEF k
  <1>4. r = InsertAt(s, k, x)
    BY <1>3
  <1> HIDE DEF r
  <1>5. /\ r \in Seq(S) /\ Distinct(r) /\ Ids(r) = Ids(s) \cup {x.id}
        /\ ItemWith(r, x.id) = x
        /\ \A id \in Ids(s) : ItemWith(r, id) = ItemWith(s, id)
    BY <1>2, <1>4, OneMore
  <1> QED  BY <1>5 DEF Extended, r

LEMMA SameItems ==
  ASSUME NEW S, NEW I, HaveIds(S, I), NEW items \in Seq(S), Distinct(items),
         NEW r \in Seq(S), IdsOf(r) = IdsOf(items),
         \A id \in Ids(items) : ItemWith(r, id) = ItemWith(items, id)
  PROVE  r = items
  <1>1. /\ Len(r) = Len(items)
        /\ \A id \in Ids(items) : ItemWith(r, id) = r[IndexOf(items, id)]
    BY Updated
  <1>2. ASSUME NEW i \in 1 .. Len(items) PROVE r[i] = items[i]
    <2>1. IndexOf(items, items[i].id) = i /\ ItemWith(items, items[i].id) = items[i]
      BY ItemIs
    <2>2. items[i].id \in Ids(items)
      BY DEF Ids
    <2> QED  BY <1>1, <2>1, <2>2
  <1> QED  BY <1>1, <1>2

-----------------------------------------------------------------------------
(* Records of the page. *)

LEMMA LiveIs ==
  ASSUME MemoryTyped, DefaultsHeld
  PROVE  SettingsOf(sections) = Live /\ Live \in Values
  <1>1. Complete(sections) /\ bus \in Values /\ DefaultBus \in Values
    BY PersistAssumption DEF MemoryTyped, Values
  <1>2. \A s \in Settings :
          /\ SettingIn(sections, s, DefaultBus[s]) = SettingIn(sections, s, bus[s])
          /\ SettingIn(sections, s, bus[s]) \in Byte
    <2> SUFFICES ASSUME NEW s \in Settings
                 PROVE  /\ SettingIn(sections, s, DefaultBus[s]) = SettingIn(sections, s, bus[s])
                        /\ SettingIn(sections, s, bus[s]) \in Byte
      OBVIOUS
    <2>1. /\ SettingIn(sections, s, bus[s]) =
               IF Held(sections, s) \in Byte THEN Held(sections, s) ELSE bus[s]
          /\ SettingIn(sections, s, DefaultBus[s]) =
               IF Held(sections, s) \in Byte THEN Held(sections, s) ELSE DefaultBus[s]
      BY <1>1, SettingIs
    <2>2. bus[s] \in Byte
      BY <1>1 DEF Values
    <2> QED  BY <2>1, <2>2 DEF DefaultsHeld
  <1> QED  BY <1>2 DEF SettingsOf, Live, Values

(* The same order of the same files. *)
LEMMA OwnOrder ==
  ASSUME NEW fs \in Seq(File), Distinct(fs)
  PROVE  /\ IdsOf(fs) = FileOrderOf(Ids(fs), IdsOf(fs))
         /\ IdsOf(fs) \in Seq(Nat) /\ IsInjective(IdsOf(fs))
  <1> DEFINE o == IdsOf(fs)
             P == Ids(fs)
  <1>1. o \in Seq(Nat) /\ ToSet(o) = P
    BY FileFacts, IdsAre
  <1>2. IsInjective(o)
    BY DEF Distinct
  <1> HIDE DEF o, P
  <1>3. Kept(o, P) = o
    BY <1>1, KeptAll
  <1>4. Kept(Kept(FileIds, P), P \ ToSet(o)) = <<>>
    <2>1. Kept(FileIds, P) \in Seq(Nat \ {0})
      BY ReconcileAssumption, KeptElements
    <2>2. ToSet(Kept(FileIds, P)) \cap (P \ ToSet(o)) = {}
      BY <1>1
    <2> QED  BY <2>1, <2>2, KeptNone
  <1>5. o \o <<>> = o
    BY <1>1
  <1>6. FileOrderOf(P, o) = o
    BY <1>3, <1>4, <1>5, Zenon DEF FileOrderOf
  <1> QED  BY <1>1, <1>2, <1>6 DEF o, P

LEMMA RecordMatches ==
  ASSUME MemoryTyped, DefaultsHeld,
         NEW r, r = Record(sections, files, theme, flush)
  PROVE  r \in FullRecord /\ Matches(r) /\ SettingsOf(r.sections) = Live
  <1>1. /\ r.sections = sections /\ r.fileOrder = IdsOf(files)
        /\ r.theme = theme /\ r.flush = flush
    BY DEF Record
  <1>2. /\ Complete(sections) /\ files \in Seq(File) /\ Distinct(files)
        /\ theme \in Themes /\ flush \in Nat \ {0}
    BY DEF MemoryTyped
  <1>3. /\ IdsOf(files) = FileOrderOf(Ids(files), IdsOf(files))
        /\ IdsOf(files) \in Seq(Nat) /\ IsInjective(IdsOf(files))
    BY <1>2, OwnOrder
  <1>4. r \in FullRecord
    <2>1. sections \in {l \in Seq(Section) : Complete(l)}
      BY <1>2 DEF Complete
    <2> QED  BY <1>2, <1>3, <2>1 DEF FullRecord, Record
  <1>5. ReconcileSections(sections) = sections
    <2>1. Restored(sections, ReconcileSections(sections))
      BY <1>2, SectionsRead DEF Complete
    <2> QED  BY <1>2, <2>1 DEF Restored
  <1>6. SanitizeTheme(theme) = theme /\ SanitizeUiConfig(flush) = flush
    BY <1>2 DEF SanitizeTheme, SanitizeUiConfig
  <1>7. Matches(r)
    BY <1>1, <1>3, <1>5, <1>6, Zenon DEF Matches, Says
  <1> QED  BY <1>1, <1>4, <1>7, LiveIs

-----------------------------------------------------------------------------
(* A page that has just booted. *)

FreshPage(ui, table, list) ==
  LET b == Booted(ui, table, list)
  IN  /\ Written(ui) /\ table \in Tables /\ list \in Seq(Breakpoint)
      /\ backend \in {"idb", "memory"} /\ paused = TRUE
      /\ sections = b.sections /\ files = b.files /\ breakpoints = b.breakpoints
      /\ theme = b.theme /\ flush = b.flush /\ bus = b.bus /\ pending = b.bus
      /\ uiQueue = Healing(ui, b) /\ fileQueue = <<>> /\ bpQueue = <<>>
      /\ lost = NothingLost /\ overtaken = FALSE
      /\ TablesTyped
      /\ backend = "idb" => uiTable.idb = ui /\ fileTable.idb = table /\ bpTable.idb = list
      /\ backend = "memory" => ui = NoRecord

LEMMA BreakpointsRead ==
  ASSUME NEW list \in Seq(Breakpoint)
  PROVE  /\ ReconcileBreakpoints(list) \in Seq(KnownBp)
         /\ list \in Seq(KnownBp) => ReconcileBreakpoints(list) = list
  <1> DEFINE K == {b \in ToSet(list) : b.kind \in KnownKinds}
             r == Kept(list, K)
  <1>1. r \in Seq(Breakpoint) /\ ToSet(r) = ToSet(list) \cap K
    BY KeptElements
  <1>2. ReconcileBreakpoints(list) = r
    BY DEF ReconcileBreakpoints
  <1>3. r \in Seq(KnownBp)
    <2>1. \A x \in ToSet(r) : x \in Breakpoint /\ x.kind \in KnownKinds
      BY <1>1, ToSetIs
    <2> HIDE DEF r
    <2>2. \A i \in 1 .. Len(r) : r[i] \in KnownBp
      BY <1>1, <2>1, ToSetIs DEF KnownBp
    <2> QED  BY <1>1, <2>2
  <1>4. list \in Seq(KnownBp) => r = list
    <2> SUFFICES ASSUME list \in Seq(KnownBp) PROVE ToSet(list) \subseteq K
      BY KeptAll
    <2> QED  BY ToSetIs DEF KnownBp
  <1> QED  BY <1>2, <1>3, <1>4

LEMMA BootedSettings ==
  ASSUME NEW ui, Written(ui), sections = ReconcileSections(ui.sections),
         bus = SettingsOf(ui.sections)
  PROVE  bus \in Values /\ DefaultsHeld /\ Live = bus
  <1>1. Restored(ui.sections, sections)
    BY SectionsRead DEF Written
  <1>2. DefaultBus \in Values /\ \A s \in Settings : DefaultBus[s] \in Byte
    BY PersistAssumption DEF Values
  <1>3. ASSUME NEW s \in Settings
        PROVE  /\ bus[s] \in Byte
               /\ Held(sections, s) \in Byte \/ bus[s] = DefaultBus[s]
               /\ SettingIn(sections, s, bus[s]) = bus[s]
    <2> DEFINE id == SectionOf[s]
    <2>1. bus[s] = SettingIn(ui.sections, s, DefaultBus[s])
      BY DEF SettingsOf
    <2>2. SettingIn(sections, s, bus[s]) =
            IF Held(sections, s) \in Byte THEN Held(sections, s) ELSE bus[s]
      BY <1>1, SettingIs DEF Restored
    <2>3. id \in ToSet(Registry)
      BY SettingFacts
    <2>4. Unset \notin Byte
      BY ReconcileAssumption DEF Unset
    <2>5. CASE id \in Ids(ui.sections)
      <3>1. Held(sections, s) = ItemWith(ui.sections, id).config[s]
        BY <1>1, <2>3, <2>5 DEF Restored, Held
      <3>2. bus[s] = IF Held(sections, s) \in Byte THEN Held(sections, s) ELSE DefaultBus[s]
        BY <2>1, <2>5, <3>1 DEF SettingIn, ConfigOf
      <3> QED  BY <1>2, <2>2, <3>2
    <2>6. CASE id \notin Ids(ui.sections)
      <3>1. ConfigOf(ui.sections, id) = NoConfig
        BY <2>6 DEF ConfigOf
      <3>2. NoConfig[s] = Unset
        BY DEF NoConfig
      <3>3. bus[s] = DefaultBus[s]
        BY <2>1, <2>4, <3>1, <3>2 DEF SettingIn
      <3>4. Held(sections, s) = NoConfig[s]
        <4>1. ItemWith(sections, id) = NewSection(id)
          BY <1>1, <2>3, <2>6 DEF Restored
        <4>2. NewSection(id).config = NoConfig
          BY DEF NewSection
        <4> QED  BY <4>1, <4>2, Zenon DEF Held
      <3> QED  BY <1>2, <2>2, <2>4, <3>2, <3>3, <3>4
    <2> QED  BY <2>5, <2>6
  <1>4. bus \in Values
    BY <1>3 DEF SettingsOf, Values
  <1>5. Live = bus
    BY <1>3, <1>4 DEF Live, Values
  <1> QED  BY <1>3, <1>4, <1>5 DEF DefaultsHeld

LEMMA FreshIsSound ==
  ASSUME NEW ui, NEW table, NEW list, FreshPage(ui, table, list)
  PROVE  Inv
  <1> DEFINE b == Booted(ui, table, list)
             rec == Record(sections, files, theme, flush)
  <1>1. /\ Written(ui) /\ table \in Tables /\ list \in Seq(Breakpoint)
        /\ backend \in {"idb", "memory"} /\ paused = TRUE
        /\ sections = ReconcileSections(ui.sections) /\ files = ReconcileFiles(table, ui)
        /\ breakpoints = ReconcileBreakpoints(list)
        /\ theme = SanitizeTheme(ui.theme) /\ flush = SanitizeUiConfig(ui.flush)
        /\ bus = SettingsOf(ui.sections) /\ pending = bus
    BY DEF FreshPage, Booted, SettingsOf
  <1>2. /\ fileQueue = <<>> /\ bpQueue = <<>>
        /\ lost = NothingLost /\ overtaken = FALSE /\ TablesTyped
        /\ backend = "idb" => uiTable.idb = ui /\ fileTable.idb = table /\ bpTable.idb = list
        /\ backend = "memory" => ui = NoRecord
    BY DEF FreshPage
  <1>3. uiQueue = <<>> \/ (uiQueue = <<Unwaited(rec)>> /\ NeedsHealing(ui))
    BY DEF FreshPage, Healing, Booted
  <1>4. bus \in Values /\ DefaultsHeld /\ Live = bus
    BY <1>1, BootedSettings
  <1>5. Restored(ui.sections, sections)
    BY <1>1, SectionsRead DEF Written
  <1>6. /\ files \in Seq(File) /\ Distinct(files) /\ Ids(files) = Present(table)
        /\ \A id \in Present(table) : ItemWith(files, id) = table[id]
        /\ IdsOf(files) = FileOrderOf(Present(table), ui.fileOrder)
    BY <1>1, FilesRead DEF Written
  <1>7. breakpoints \in Seq(KnownBp)
    BY <1>1, BreakpointsRead
  <1>8. theme \in Themes /\ flush \in Nat \ {0}
    BY <1>1, ReconcileAssumption DEF SanitizeTheme, SanitizeUiConfig
  <1>9. MemoryTyped
    BY <1>1, <1>4, <1>5, <1>6, <1>7, <1>8 DEF MemoryTyped, Restored
  <1>10. rec \in FullRecord /\ Matches(rec) /\ SettingsOf(rec.sections) = Live
    BY <1>4, <1>9, RecordMatches
  <1> HIDE DEF rec
  <1>11. \A w : w = Unwaited(rec) => w \in UiWrite /\ w.state = rec /\ w.save = NoSave
    BY <1>10 DEF Unwaited, UiWrite
  <1>12. /\ uiQueue \in Seq(UiWrite) /\ Saves(uiQueue) = {}
         /\ uiQueue # <<>> => uiQueue[Len(uiQueue)].state = rec
    <2>1. CASE uiQueue = <<>>
      BY <2>1 DEF Saves
    <2>2. CASE uiQueue = <<Unwaited(rec)>>
      <3> DEFINE w == Unwaited(rec)
      <3>1. w \in UiWrite /\ w.state = rec /\ w.save = NoSave
        BY <1>11
      <3> HIDE DEF w
      <3>2. uiQueue = <<w>>
        BY <2>2 DEF w
      <3> QED  BY <3>1, <3>2 DEF Saves
    <2> QED  BY <1>3, <2>1, <2>2
  <1>13. Matches(ui) /\ SettingsOf(ui.sections) = Live
    <2>1. IdsOf(files) = FileOrderOf(Ids(files), ui.fileOrder)
      BY <1>6
    <2> QED  BY <1>1, <1>4, <2>1 DEF Matches, Says
  <1>14. HistoryTyped /\ UiTyped /\ FilesTyped /\ BpsTyped
    <2>1. HistoryTyped
      BY <1>2 DEF NothingLost, HistoryTyped
    <2>2. backend = "memory" => uiQueue = <<>>
      <3>1. NoRecord.theme = NoTheme
        BY DEF NoRecord
      <3>2. ~NeedsHealing(NoRecord)
        BY <3>1 DEF NeedsHealing
      <3> QED  BY <1>2, <1>3, <3>2
    <2>3. fileQueue \in Seq(FileWrite) /\ bpQueue \in Seq(Seq(KnownBp))
      BY <1>2
    <2> QED  BY <1>2, <1>12, <2>1, <2>2, <2>3 DEF TablesTyped, UiTyped, FilesTyped, BpsTyped
  <1>15. SavesTell /\ BusShown
    BY <1>4, <1>12 DEF SavesTell, BusShown
  <1>16. Mirrored
    BY <1>2, <1>10, <1>12, <1>13 DEF Mirrored
  <1>17. LastSave
    BY <1>12 DEF LastSave
  <1>18. FilesMirrored
    <2>1. DOMAIN fileQueue = {}
      BY <1>2
    <2>2. ASSUME NEW id \in FileId PROVE table[id] = InMemory(id)
      BY <1>6 DEF InMemory, Present
    <2> QED  BY <1>2, <2>1, <2>2 DEF FilesMirrored
  <1>19. BreakpointsMirrored
    BY <1>1, <1>2 DEF BreakpointsMirrored
  <1> QED  BY <1>4, <1>9, <1>14, <1>15, <1>16, <1>17, <1>18, <1>19
           DEF Inv, UiInv, FilesInv, BpsInv

JustBooted == \E ui, table, list : FreshPage(ui, table, list)

LEMMA FreshHolds ==
  ASSUME JustBooted
  PROVE  Inv
  BY FreshIsSound DEF JustBooted

LEMMA FreshHoldsNext ==
  ASSUME JustBooted'
  PROVE  Inv'
  BY FreshHolds, PTL

LEMMA NoFilesIsTable ==
  /\ NoFiles \in Tables
  /\ Written(NoRecord)
  <1>1. NoFiles \in Tables
    BY DEF NoFiles, Tables
  <1>2. /\ <<>> \in Seq(Section) /\ <<>> \in Seq(Nat)
        /\ IsInjective(<<>>) /\ IdsOf(<<>>) = <<>>
    BY DEF IsInjective, IdsOf
  <1>3. Distinct(<<>>)
    BY <1>2, Zenon DEF Distinct
  <1>4. NoRecord.sections = <<>> /\ NoRecord.fileOrder = <<>>
    BY DEF NoRecord
  <1>5. Written(NoRecord)
    BY <1>2, <1>3, <1>4, Zenon DEF Written
  <1> QED  BY <1>1, <1>5

LEMMA Starts ==
  ASSUME Init
  PROVE  Inv
  <1>1. PICK ui \in UiRecords, table \in FileTables, list \in BpLists :
          LET b == Booted(ui, table, list)
          IN  /\ uiTable   = [idb |-> ui, memory |-> NoRecord]
              /\ fileTable = [idb |-> table, memory |-> NoFiles]
              /\ bpTable   = [idb |-> list, memory |-> <<>>]
              /\ backend = "idb" /\ paused = TRUE
              /\ sections = b.sections /\ files = b.files /\ breakpoints = b.breakpoints
              /\ theme = b.theme /\ flush = b.flush /\ bus = b.bus /\ pending = b.bus
              /\ uiQueue = Healing(ui, b) /\ fileQueue = <<>> /\ bpQueue = <<>>
              /\ lost = NothingLost /\ overtaken = FALSE
              /\ verbs = 0 /\ faults = 0 /\ boots = 0
    BY DEF Init
  <1>2. Written(ui) /\ table \in Tables /\ list \in Seq(Breakpoint)
    BY PersistAssumption
  <1>3. uiTable.idb = ui /\ fileTable.idb = table /\ bpTable.idb = list
    BY <1>1
  <1>4. TablesTyped
    <2>1. uiTable = [idb |-> uiTable.idb, memory |-> uiTable.memory]
      BY <1>1
    <2>2. fileTable \in [idb : Tables, memory : Tables]
      BY <1>1, <1>2, NoFilesIsTable
    <2>3. bpTable \in [idb : Seq(Breakpoint), memory : Seq(Breakpoint)]
      <3>1. <<>> \in Seq(Breakpoint)
        OBVIOUS
      <3> QED  BY <1>1, <1>2, <3>1
    <2> QED  BY <1>2, <1>3, <2>1, <2>2, <2>3 DEF TablesTyped
  <1>5. FreshPage(ui, table, list)
    BY <1>1, <1>2, <1>3, <1>4 DEF FreshPage
  <1> QED  BY <1>5, FreshHolds DEF JustBooted

LEMMA Reloads ==
  ASSUME TablesTyped, NEW ui, Written(ui), Reload(ui)
  PROVE  Inv'
  <1> DEFINE Boots(where) ==
        LET found == IF where = "idb" THEN ui ELSE NoRecord
            b == IF where = "idb" THEN Booted(ui, fileTable.idb, bpTable.idb)
                                  ELSE Booted(NoRecord, NoFiles, <<>>)
        IN  /\ backend' = where /\ paused' = TRUE
            /\ sections' = b.sections /\ files' = b.files /\ breakpoints' = b.breakpoints
            /\ theme' = b.theme /\ flush' = b.flush /\ bus' = b.bus /\ pending' = b.bus
            /\ uiTable'   = [idb |-> ui, memory |-> NoRecord]
            /\ fileTable' = [fileTable EXCEPT !.memory = NoFiles]
            /\ bpTable'   = [bpTable EXCEPT !.memory = <<>>]
            /\ uiQueue' = Healing(found, b) /\ fileQueue' = <<>> /\ bpQueue' = <<>>
  <1>1. PICK where \in {"idb", "memory"} : Boots(where)
    BY DEF Reload
  <1>2. lost' = NothingLost /\ overtaken' = FALSE
    BY DEF Reload
  <1>3. /\ uiTable'.idb = ui /\ fileTable'.idb = fileTable.idb /\ bpTable'.idb = bpTable.idb
        /\ fileTable.idb \in Tables /\ bpTable.idb \in Seq(Breakpoint)
    BY <1>1 DEF TablesTyped
  <1>4. TablesTyped'
    <2>1. uiTable' = [idb |-> uiTable'.idb, memory |-> uiTable'.memory]
      BY <1>1
    <2>2. fileTable' \in [idb : Tables, memory : Tables]
      BY <1>1, <1>3, NoFilesIsTable DEF TablesTyped
    <2>3. bpTable' \in [idb : Seq(Breakpoint), memory : Seq(Breakpoint)]
      <3>1. <<>> \in Seq(Breakpoint)
        OBVIOUS
      <3> QED  BY <1>1, <1>3, <3>1 DEF TablesTyped
    <2> QED  BY <1>3, <2>1, <2>2, <2>3 DEF TablesTyped
  <1>5. CASE where = "idb"
    <2>1. PICK table, list : table = fileTable.idb /\ list = bpTable.idb
      OBVIOUS
    <2>2. FreshPage(ui, table, list)'
      BY <1>1, <1>2, <1>3, <1>4, <1>5, <2>1 DEF FreshPage
    <2> QED  BY <2>2, FreshHoldsNext DEF JustBooted
  <1>6. CASE where = "memory"
    <2>1. PICK found, table, list : found = NoRecord /\ table = NoFiles /\ list = <<>>
      OBVIOUS
    <2>2. Written(found) /\ table \in Tables /\ list \in Seq(Breakpoint)
      BY <2>1, NoFilesIsTable
    <2>3. FreshPage(found, table, list)'
      BY <1>1, <1>2, <1>3, <1>4, <1>6, <2>1, <2>2 DEF FreshPage
    <2> QED  BY <2>3, FreshHoldsNext DEF JustBooted
  <1> QED  BY <1>5, <1>6

-----------------------------------------------------------------------------
(* Verbs that change one thing. *)

(* A write joins the queue. *)
LEMMA Queued ==
  ASSUME NEW S, NEW q \in Seq(S), NEW w \in S, NEW r, r = q \o <<w>>
  PROVE  /\ r \in Seq(S) /\ Len(r) = Len(q) + 1 /\ DOMAIN r = 1 .. Len(q) + 1
         /\ \A i \in 1 .. Len(q) : r[i] = q[i]
         /\ r[Len(q) + 1] = w
  <1>1. q \o <<w>> = Append(q, w)
    OBVIOUS
  <1>2. r = Append(q, w)
    BY <1>1
  <1> QED  BY <1>2, Appended

LEMMA NoNewSave ==
  ASSUME NEW q \in Seq(UiWrite), NEW w \in UiWrite, w.save = NoSave,
         NEW r, r = q \o <<w>>
  PROVE  /\ Saves(r) = Saves(q) /\ Len(r) \notin Saves(r)
         /\ \A i \in Saves(r) : r[i] = q[i]
  <1>1. /\ r \in Seq(UiWrite) /\ Len(r) = Len(q) + 1 /\ DOMAIN r = 1 .. Len(q) + 1
        /\ \A i \in 1 .. Len(q) : r[i] = q[i]
        /\ r[Len(q) + 1] = w
    BY Queued
  <1>2. DOMAIN q = 1 .. Len(q) /\ Len(q) \in Nat
    OBVIOUS
  <1>3. \A i \in 1 .. Len(q) + 1 : i \in 1 .. Len(q) \/ i = Len(q) + 1
    BY <1>2
  <1>4. \A i \in 1 .. Len(q) : i \in 1 .. Len(q) + 1
    BY <1>2
  <1> QED  BY <1>1, <1>2, <1>3, <1>4 DEF Saves

LEMMA SameLive ==
  ASSUME Complete(sections), SameSettings(sections, sections'), bus' = bus
  PROVE  Live' = Live /\ (DefaultsHeld => DefaultsHeld')
  <1>1. Complete(sections')
    BY DEF SameSettings
  <1>2. \A s \in Settings : Held(sections', s) = Held(sections, s)
    BY DEF SameSettings
  <1>3. \A s \in Settings : SettingIn(sections', s, bus[s]) = SettingIn(sections, s, bus[s])
    <2> SUFFICES ASSUME NEW s \in Settings
                 PROVE  SettingIn(sections', s, bus[s]) = SettingIn(sections, s, bus[s])
      OBVIOUS
    <2>1. SettingIn(sections', s, bus[s]) =
            IF Held(sections', s) \in Byte THEN Held(sections', s) ELSE bus[s]
      BY <1>1, SettingIs
    <2>2. SettingIn(sections, s, bus[s]) =
            IF Held(sections, s) \in Byte THEN Held(sections, s) ELSE bus[s]
      BY SettingIs
    <2> QED  BY <1>2, <2>1, <2>2
  <1>4. Live' = Live
    BY <1>3 DEF Live
  <1>5. DefaultsHeld => DefaultsHeld'
    BY <1>2 DEF DefaultsHeld
  <1> QED  BY <1>4, <1>5

Own == Record(sections, files, theme, flush)
OwnMatches == Own \in FullRecord /\ Matches(Own) /\ SettingsOf(Own.sections) = Live

LEMMA OwnHolds ==
  ASSUME MemoryTyped, DefaultsHeld
  PROVE  OwnMatches
  BY RecordMatches DEF OwnMatches, Own

LEMMA OwnHoldsNext ==
  ASSUME MemoryTyped', DefaultsHeld'
  PROVE  OwnMatches'
  BY OwnHolds, PTL

(* A verb that writes the record of the page. *)
LEMMA Persisted ==
  ASSUME MemoryTyped, UiInv, MemoryTyped', SameSettings(sections, sections'),
         UNCHANGED <<page, history>>, PersistUi
  PROVE  UiInv'
  <1>1. bus' = bus /\ backend' = backend /\ lost' = lost /\ overtaken' = overtaken
    BY DEF page, history
  <1>2. Live' = Live /\ DefaultsHeld'
    BY <1>1, SameLive DEF MemoryTyped, UiInv
  <1>3. OwnMatches'
    BY <1>2, OwnHoldsNext
  <1>0. PICK r : r = Own'
    OBVIOUS
  <1> DEFINE w == Unwaited(r)
  <1>4. /\ r \in FullRecord /\ SettingsOf(r.sections) = Live'
        /\ Says(r, sections', files', theme', flush')
    BY <1>0, <1>3 DEF OwnMatches, SettingsOf, Matches
  <1>5. SaveUi(<<w>>)
    BY <1>0 DEF PersistUi, Own
  <1>6. w \in UiWrite /\ w.state = r /\ w.save = NoSave
    BY <1>4 DEF Unwaited, UiWrite
  <1> HIDE DEF w
  <1>7. CASE backend = "idb"
    <2>1. uiQueue' = uiQueue \o <<w>> /\ uiTable' = uiTable
      BY <1>5, <1>7 DEF SaveUi
    <2>2. uiQueue \in Seq(UiWrite) /\ Len(uiQueue) \in Nat
      BY DEF UiInv, UiTyped
    <2>3. /\ uiQueue' \in Seq(UiWrite) /\ Len(uiQueue') = Len(uiQueue) + 1
          /\ uiQueue'[Len(uiQueue) + 1] = w
      BY <1>6, <2>1, <2>2, Queued
    <2>4. /\ Saves(uiQueue') = Saves(uiQueue) /\ Len(uiQueue') \notin Saves(uiQueue')
          /\ \A i \in Saves(uiQueue') : uiQueue'[i] = uiQueue[i]
      BY <1>6, <2>1, <2>2, NoNewSave
    <2>5. UiTyped'
      BY <1>1, <1>7, <2>1, <2>3 DEF UiInv, UiTyped
    <2>6. SavesTell'
      BY <2>4 DEF UiInv, SavesTell, SettingsOf
    <2>7. BusShown'
      BY <1>1, <1>2, <2>4 DEF UiInv, BusShown
    <2>8. uiQueue' # <<>>
      BY <2>2, <2>3
    <2>9. Mirrored'
      <3>1. uiQueue'[Len(uiQueue')] = w
        BY <2>3
      <3> QED  BY <1>4, <1>6, <2>8, <3>1 DEF Mirrored, SettingsOf, Matches
    <2>10. LastSave'
      BY <2>4 DEF LastSave
    <2> QED  BY <1>2, <2>5, <2>6, <2>7, <2>9, <2>10 DEF UiInv
  <1>8. CASE backend = "memory"
    <2>1. uiQueue' = uiQueue /\ uiTable' = [uiTable EXCEPT !.memory = Last(<<w>>).state]
      BY <1>5, <1>8 DEF SaveUi
    <2>2. uiQueue = <<>>
      BY <1>8 DEF UiInv, UiTyped
    <2>3. Saves(uiQueue') = {}
      BY <2>1, <2>2 DEF Saves
    <2>4. UiTyped'
      BY <1>1, <2>1 DEF UiInv, UiTyped
    <2>5. BusShown'
      BY <1>1, <1>2, <2>1, <2>3 DEF UiInv, BusShown
    <2>6. SavesTell' /\ LastSave'
      BY <2>3 DEF SavesTell, LastSave
    <2>7. Mirrored'
      BY <1>1, <1>8 DEF Mirrored
    <2> QED  BY <1>2, <2>4, <2>5, <2>6, <2>7 DEF UiInv
  <1> QED  BY <1>7, <1>8 DEF MemoryTyped

(* A step that leaves the sections, the settings and the record alone. *)
LEMMA UiUntouched ==
  ASSUME UiInv, UNCHANGED <<sections, look, bus, backend, uiStore, overtaken>>,
         lost'.ui = lost.ui, IdsOf(files') = IdsOf(files), Ids(files') = Ids(files)
  PROVE  UiInv'
  <1>1. /\ sections' = sections /\ theme' = theme /\ flush' = flush /\ bus' = bus
        /\ backend' = backend /\ uiTable' = uiTable /\ uiQueue' = uiQueue
        /\ overtaken' = overtaken
    BY DEF look, uiStore
  <1>2. Live' = Live
    BY <1>1 DEF Live
  <1>3. \A r : Says(r, sections', files', theme', flush') <=> Says(r, sections, files, theme, flush)
    BY <1>1 DEF Says
  <1>4. UiTyped' /\ DefaultsHeld' /\ SavesTell' /\ BusShown'
    BY <1>1, <1>2 DEF UiInv, UiTyped, DefaultsHeld, SavesTell, BusShown, SettingsOf
  <1>5. Mirrored'
    BY <1>1, <1>2, <1>3 DEF UiInv, Mirrored, Matches, SettingsOf
  <1>6. LastSave'
    <2> DEFINE n == Len(uiQueue)
               w == uiQueue[n]
               r == IF n > 1 THEN uiQueue[n - 1].state ELSE uiTable.idb
    <2>1. ~overtaken /\ n \in Saves(uiQueue) =>
            /\ w.save.places = [memory |-> IndexOf(sections, "memory"), io |-> IndexOf(sections, "io")]
            /\ \A s \in Settings \ w.save.changed : Live[s] = w.save.prev[s]
            /\ n > 1 \/ ~lost.ui =>
                 Says(r, sections, files, theme, flush) /\ SettingsOf(r.sections) = w.save.prev
      BY DEF UiInv, LastSave, Matches
    <2>2. ~overtaken' /\ n \in Saves(uiQueue) =>
            /\ w.save.places = [memory |-> IndexOf(sections', "memory"), io |-> IndexOf(sections', "io")]
            /\ \A s \in Settings \ w.save.changed : Live'[s] = w.save.prev[s]
            /\ n > 1 \/ ~lost'.ui =>
                 Says(r, sections', files', theme', flush') /\ SettingsOf(r.sections) = w.save.prev
      BY <1>1, <1>2, <1>3, <2>1
    <2> QED  BY <1>1, <2>2 DEF LastSave, Matches, SettingsOf
  <1> QED  BY <1>4, <1>5, <1>6 DEF UiInv

LEMMA FilesUntouched ==
  ASSUME FilesInv, UNCHANGED <<files, backend, fileStore>>, lost'.files = lost.files
  PROVE  FilesInv'
  BY DEF FilesInv, FilesTyped, FilesMirrored, InMemory, fileStore

LEMMA BpsUntouched ==
  ASSUME BpsInv, UNCHANGED <<breakpoints, backend, bpStore>>,
         lost'.breakpoints = lost.breakpoints
  PROVE  BpsInv'
  BY DEF BpsInv, BpsTyped, BreakpointsMirrored, bpStore

(* Files that come to other places. *)
LEMMA FilesMoved ==
  ASSUME FilesInv, UNCHANGED <<backend, fileStore>>, lost'.files = lost.files,
         \A id \in FileId : InMemory(id)' = InMemory(id)
  PROVE  FilesInv'
  <1>1. FilesTyped'
    BY DEF FilesInv, FilesTyped, fileStore
  <1>2. FilesMirrored'
    BY DEF FilesInv, FilesMirrored, fileStore
  <1> QED  BY <1>1, <1>2 DEF FilesInv

(* A file that is written, or deleted. *)
LEMMA FileSaved ==
  ASSUME FilesInv, UNCHANGED <<backend, lost>>, backend \in {"idb", "memory"},
         NEW id \in FileId, NEW f \in File \cup {Missing}, f # Missing => f.id = id,
         SaveFile(id, f), InMemory(id)' = f,
         \A x \in FileId \ {id} : InMemory(x)' = InMemory(x)
  PROVE  FilesInv'
  <1> DEFINE w == [id |-> id, file |-> f]
  <1>1. w \in FileWrite /\ w.id = id /\ w.file = f
    BY DEF FileWrite
  <1> HIDE DEF w
  <1>2. CASE backend = "idb"
    <2>1. fileQueue' = Append(fileQueue, w) /\ fileTable' = fileTable
      BY <1>2 DEF SaveFile, w
    <2>2. fileQueue \in Seq(FileWrite) /\ Len(fileQueue) \in Nat
          /\ DOMAIN fileQueue = 1 .. Len(fileQueue)
      BY DEF FilesInv, FilesTyped
    <2>3. /\ fileQueue' \in Seq(FileWrite) /\ DOMAIN fileQueue' = 1 .. Len(fileQueue) + 1
          /\ \A i \in 1 .. Len(fileQueue) : fileQueue'[i] = fileQueue[i]
          /\ fileQueue'[Len(fileQueue) + 1] = w
      <3>1. /\ fileQueue' \in Seq(FileWrite) /\ Len(fileQueue') = Len(fileQueue) + 1
            /\ \A i \in 1 .. Len(fileQueue) : fileQueue'[i] = fileQueue[i]
            /\ fileQueue'[Len(fileQueue) + 1] = w
        BY <1>1, <2>1, <2>2, Appended
      <3> QED  BY <3>1
    <2>4. \A i \in 1 .. Len(fileQueue) + 1 : i \in 1 .. Len(fileQueue) \/ i = Len(fileQueue) + 1
      BY <2>2
    <2>5. /\ \A i \in 1 .. Len(fileQueue) : i \in 1 .. Len(fileQueue) + 1 /\ Len(fileQueue) + 1 > i
          /\ Len(fileQueue) + 1 \in 1 .. Len(fileQueue) + 1
      BY <2>2
    <2>6. FilesTyped'
      BY <1>2, <2>1, <2>3 DEF FilesInv, FilesTyped
    <2>7. ASSUME NEW x \in FileId, NEW i \in DOMAIN fileQueue', fileQueue'[i].id = x,
                 \A j \in DOMAIN fileQueue' : j > i => fileQueue'[j].id # x
          PROVE  fileQueue'[i].file = InMemory(x)'
      <3>1. CASE x = id
        <4>1. i = Len(fileQueue) + 1
          BY <1>1, <2>3, <2>4, <2>5, <2>7, <3>1
        <4> QED  BY <1>1, <2>3, <3>1, <4>1
      <3>2. CASE x # id
        <4>1. i \in 1 .. Len(fileQueue)
          BY <1>1, <2>3, <2>4, <2>7, <3>2
        <4>2. \A j \in DOMAIN fileQueue : j > i => fileQueue[j].id # x
          BY <2>2, <2>3, <2>5, <2>7
        <4>3. fileQueue[i].file = InMemory(x)
          BY <1>2, <2>2, <2>3, <2>7, <4>1, <4>2 DEF FilesInv, FilesMirrored
        <4> QED  BY <2>3, <3>2, <4>1, <4>3
      <3> QED  BY <3>1, <3>2
    <2>8. ASSUME NEW x \in FileId, x \notin Ids(fileQueue'), x \notin lost'.files
          PROVE  fileTable'.idb[x] = InMemory(x)'
      <3>1. x # id
        BY <1>1, <2>3, <2>5, <2>8 DEF Ids
      <3>2. x \notin Ids(fileQueue)
        BY <2>2, <2>3, <2>5, <2>8 DEF Ids
      <3>3. fileTable.idb[x] = InMemory(x)
        BY <1>2, <2>8, <3>2 DEF FilesInv, FilesMirrored
      <3> QED  BY <2>1, <3>1, <3>3
    <2>9. FilesMirrored'
      BY <2>7, <2>8 DEF FilesMirrored
    <2> QED  BY <2>6, <2>9 DEF FilesInv
  <1>3. CASE backend = "memory"
    <2>1. fileQueue' = fileQueue /\ fileTable' = [fileTable EXCEPT !.memory[id] = f]
      BY <1>3 DEF SaveFile
    <2>2. fileTable.memory \in Tables /\ fileTable.idb \in Tables
      BY DEF FilesInv, FilesTyped
    <2>3. [fileTable.memory EXCEPT ![id] = f] \in Tables
      BY <2>2 DEF Tables
    <2>4. fileTable' \in [idb : Tables, memory : Tables]
      <3> DEFINE m == [fileTable.memory EXCEPT ![id] = f]
      <3>1. fileTable' = [fileTable EXCEPT !.memory = m]
        BY <2>1
      <3> HIDE DEF m
      <3> QED  BY <2>3, <3>1 DEF FilesInv, FilesTyped, m
    <2>5. FilesTyped'
      BY <2>1, <2>4 DEF FilesInv, FilesTyped
    <2>6. FilesMirrored'
      BY <1>3 DEF FilesMirrored
    <2> QED  BY <2>5, <2>6 DEF FilesInv
  <1> QED  BY <1>2, <1>3

LEMMA BpsSaved ==
  ASSUME BpsInv, UNCHANGED <<backend, lost>>, backend \in {"idb", "memory"},
         NEW list \in Seq(KnownBp), breakpoints' = list, SaveBreakpoints(list)
  PROVE  BpsInv'
  <1>1. list \in Seq(Breakpoint)
    BY DEF KnownBp
  <1>2. CASE backend = "idb"
    <2>1. bpQueue' = Append(bpQueue, list) /\ bpTable' = bpTable
      BY <1>2 DEF SaveBreakpoints
    <2>2. bpQueue \in Seq(Seq(KnownBp)) /\ Len(bpQueue) \in Nat
      BY DEF BpsInv, BpsTyped
    <2>3. /\ bpQueue' \in Seq(Seq(KnownBp)) /\ Len(bpQueue') = Len(bpQueue) + 1
          /\ bpQueue'[Len(bpQueue) + 1] = list
      BY <2>1, <2>2, Appended
    <2>4. bpQueue' # <<>>
      BY <2>2, <2>3
    <2> QED  BY <1>2, <2>1, <2>3, <2>4 DEF BpsInv, BpsTyped, BreakpointsMirrored
  <1>3. CASE backend = "memory"
    <2>1. bpQueue' = bpQueue /\ bpTable' = [bpTable EXCEPT !.memory = list]
      BY <1>3 DEF SaveBreakpoints
    <2> QED  BY <1>1, <1>3, <2>1 DEF BpsInv, BpsTyped, BreakpointsMirrored
  <1> QED  BY <1>2, <1>3

-----------------------------------------------------------------------------
(* The verbs. *)

LEMMA UiVerb ==
  ASSUME Inv, MemoryTyped', SameSettings(sections, sections'),
         UNCHANGED <<page, history, files, breakpoints, fileStore, bpStore>>, PersistUi
  PROVE  Inv'
  <1>1. UiInv'
    BY Persisted DEF Inv
  <1>2. backend' = backend /\ lost' = lost /\ overtaken' = overtaken
    BY DEF page, history
  <1>3. FilesInv' /\ BpsInv'
    BY <1>2, FilesUntouched, BpsUntouched DEF Inv
  <1>4. HistoryTyped'
    BY <1>2 DEF Inv, HistoryTyped
  <1> QED  BY <1>1, <1>3, <1>4 DEF Inv

LEMMA PageStays ==
  ASSUME MemoryTyped, UNCHANGED <<page, paused>>
  PROVE  bus' \in Values /\ paused' \in BOOLEAN /\ backend' \in {"idb", "memory"}
  BY DEF MemoryTyped, page

LEMMA SelfSame ==
  ASSUME MemoryTyped
  PROVE  SameSettings(sections, sections)
  BY DEF MemoryTyped, SameSettings

LEMMA ToggleKeeps ==
  ASSUME Inv, NEW id \in Ids(sections), ToggleSectionFold(id), UNCHANGED <<page, history>>
  PROVE  Inv'
  <1> DEFINE i == IndexOf(sections, id)
  <1>1. Complete(sections) /\ sections \in Seq(Section) /\ Distinct(sections)
    BY DEF Inv, MemoryTyped, Complete
  <1>2. i \in 1 .. Len(sections)
    BY <1>1, ItemIs
  <1> HIDE DEF i
  <1>3. sections[i].folded \in BOOLEAN
    <2>1. \A x \in Section : x.folded \in BOOLEAN
      BY DEF Section
    <2>2. sections[i] \in Section
      BY <1>1, <1>2
    <2> QED  BY <2>1, <2>2
  <1> DEFINE b == ~sections[i].folded
  <1>4. b \in BOOLEAN
    BY <1>3
  <1>5. sections' = [sections EXCEPT ![i].folded = b]
    BY DEF ToggleSectionFold, i
  <1> HIDE DEF b
  <1>6. SameSettings(sections, sections')
    BY <1>1, <1>2, <1>4, <1>5, FoldStays
  <1>7. UNCHANGED <<files, breakpoints, look, pending, fileStore, bpStore, paused>> /\ PersistUi
    BY DEF ToggleSectionFold
  <1>8. MemoryTyped'
    BY <1>6, <1>7, PageStays DEF Inv, MemoryTyped, SameSettings, look
  <1> QED  BY <1>6, <1>7, <1>8, UiVerb

LEMMA ViewKeeps ==
  ASSUME Inv, NEW id \in Ids(sections), UpdateSectionConfig(id), UNCHANGED <<page, history>>
  PROVE  Inv'
  <1> DEFINE i == IndexOf(sections, id)
  <1>1. Complete(sections) /\ sections \in Seq(Section) /\ Distinct(sections)
    BY DEF Inv, MemoryTyped, Complete
  <1>2. i \in 1 .. Len(sections)
    BY <1>1, ItemIs
  <1>3. sections' = [sections EXCEPT ![i].config.view = 1]
    BY DEF UpdateSectionConfig
  <1> HIDE DEF i
  <1>4. SameSettings(sections, sections')
    BY <1>1, <1>2, <1>3, ViewStays
  <1>5. UNCHANGED <<files, breakpoints, look, pending, fileStore, bpStore, paused>> /\ PersistUi
    BY DEF UpdateSectionConfig
  <1>6. MemoryTyped'
    BY <1>4, <1>5, PageStays DEF Inv, MemoryTyped, SameSettings, look
  <1> QED  BY <1>4, <1>5, <1>6, UiVerb

LEMMA DragKeeps ==
  ASSUME Inv, NEW order \in Orders(sections), ReorderSections(order), UNCHANGED <<page, history>>
  PROVE  Inv'
  <1>1. SameSettings(sections, sections')
    BY DragStays DEF Inv, MemoryTyped, ReorderSections
  <1>2. UNCHANGED <<files, breakpoints, look, pending, fileStore, bpStore, paused>> /\ PersistUi
    BY DEF ReorderSections
  <1>3. MemoryTyped'
    BY <1>1, <1>2, PageStays DEF Inv, MemoryTyped, SameSettings, look
  <1> QED  BY <1>1, <1>2, <1>3, UiVerb

LEMMA LookKeeps ==
  ASSUME Inv, UNCHANGED <<page, history>>,
         (\E t \in Themes : SetTheme(t)) \/ (\E n \in 1 .. 2 : SetUiConfig(n))
  PROVE  Inv'
  <1>1. /\ UNCHANGED <<sections, files, breakpoints, pending, fileStore, bpStore, paused>>
        /\ PersistUi
    BY DEF SetTheme, SetUiConfig
  <1>2. theme' \in Themes /\ flush' \in Nat \ {0}
    <2>1. ASSUME NEW t \in Themes, SetTheme(t) PROVE theme' \in Themes /\ flush' = flush
      BY <2>1, ReconcileAssumption DEF SetTheme, SanitizeTheme
    <2>2. ASSUME NEW n \in 1 .. 2, SetUiConfig(n) PROVE theme' = theme /\ flush' \in Nat \ {0}
      BY <2>2 DEF SetUiConfig
    <2>3. theme \in Themes /\ flush \in Nat \ {0}
      BY DEF Inv, MemoryTyped
    <2> QED  BY <2>1, <2>2, <2>3
  <1>3. MemoryTyped'
    BY <1>1, <1>2, PageStays DEF Inv, MemoryTyped
  <1>4. SameSettings(sections, sections')
    BY <1>1, SelfSame DEF Inv
  <1> QED  BY <1>1, <1>3, <1>4, UiVerb

LEMMA DiscardKeeps ==
  ASSUME Inv, Discard, UNCHANGED <<page, history>>
  PROVE  Inv'
  <1>1. /\ sections' = WithFold(sections) /\ pending' = Live
        /\ UNCHANGED <<files, look, breakpoints, fileStore, bpStore, paused>> /\ PersistUi
    BY DEF Discard
  <1>2. SameSettings(sections, sections')
    BY <1>1, WithFoldStays DEF Inv, MemoryTyped
  <1>3. Live \in Values
    BY LiveIs DEF Inv, UiInv
  <1>4. MemoryTyped'
    BY <1>1, <1>2, <1>3, PageStays DEF Inv, MemoryTyped, SameSettings, look
  <1> QED  BY <1>1, <1>2, <1>4, UiVerb

(* Files. *)

LEMMA AddKeeps ==
  ASSUME Inv, NEW id \in FileId, AddFile(id), UNCHANGED <<page, history>>
  PROVE  Inv'
  <1> DEFINE f == [id |-> id, autoload |-> FALSE]
  <1>1. /\ id \notin Ids(files) /\ files' = Append(files, f) /\ SaveFile(id, f)
        /\ UNCHANGED <<sections, look, breakpoints, pending, bpStore, paused>> /\ PersistUi
    BY DEF AddFile, Fresh
  <1>2. f \in File /\ f.id = id
    BY DEF File
  <1> HIDE DEF f
  <1>3. files \in Seq(File) /\ Distinct(files) /\ backend \in {"idb", "memory"}
    BY DEF Inv, MemoryTyped
  <1>4. /\ files' \in Seq(File) /\ Distinct(files') /\ Ids(files') = Ids(files) \cup {id}
        /\ ItemWith(files', id) = f
        /\ \A x \in Ids(files) : ItemWith(files', x) = ItemWith(files, x)
    <2>1. f.id \notin Ids(files) /\ files' = Append(files, f)
      BY <1>1, <1>2
    <2>2. /\ files' \in Seq(File) /\ Distinct(files') /\ Ids(files') = Ids(files) \cup {f.id}
          /\ ItemWith(files', f.id) = f
          /\ \A x \in Ids(files) : ItemWith(files', x) = ItemWith(files, x)
      <3>1. Extended(File, files, f, Append(files, f))
        BY <1>2, <1>3, <2>1, OneAtTheEnd
      <3> QED  BY <2>1, <3>1 DEF Extended
    <2> QED  BY <1>2, <2>2
  <1>5. MemoryTyped'
    BY <1>1, <1>4, PageStays DEF Inv, MemoryTyped, look
  <1>6. UiInv'
    BY <1>1, <1>5, SelfSame, Persisted DEF Inv
  <1>7. backend' = backend /\ lost' = lost /\ overtaken' = overtaken
    BY DEF page, history
  <1>8. InMemory(id)' = f /\ \A x \in FileId \ {id} : InMemory(x)' = InMemory(x)
    BY <1>4 DEF InMemory
  <1>9. FilesInv'
    BY <1>1, <1>2, <1>3, <1>7, <1>8, FileSaved DEF Inv
  <1>10. BpsInv' /\ HistoryTyped'
    BY <1>1, <1>7, BpsUntouched DEF Inv, HistoryTyped
  <1> QED  BY <1>5, <1>6, <1>9, <1>10 DEF Inv

LEMMA RemoveKeeps ==
  ASSUME Inv, NEW id \in FileId, RemoveFile(id), UNCHANGED <<page, history>>
  PROVE  Inv'
  <1>1. /\ id \in Ids(files) /\ files' = RemoveAt(files, IndexOf(files, id))
        /\ SaveFile(id, Missing)
        /\ UNCHANGED <<sections, look, breakpoints, pending, bpStore, paused>> /\ PersistUi
    BY DEF RemoveFile
  <1>2. files \in Seq(File) /\ Distinct(files) /\ backend \in {"idb", "memory"}
    BY DEF Inv, MemoryTyped
  <1>3. /\ files' \in Seq(File) /\ Distinct(files') /\ Ids(files') = Ids(files) \ {id}
        /\ \A x \in Ids(files') : ItemWith(files', x) = ItemWith(files, x)
    BY <1>1, <1>2, OneFewer
  <1>4. MemoryTyped'
    BY <1>1, <1>3, PageStays DEF Inv, MemoryTyped, look
  <1>5. UiInv'
    BY <1>1, <1>4, SelfSame, Persisted DEF Inv
  <1>6. backend' = backend /\ lost' = lost /\ overtaken' = overtaken
    BY DEF page, history
  <1>7. InMemory(id)' = Missing /\ \A x \in FileId \ {id} : InMemory(x)' = InMemory(x)
    BY <1>3 DEF InMemory
  <1>8. FilesInv'
    <2>1. PICK f \in {Missing} : f = Missing
      OBVIOUS
    <2>2. f \in File \cup {Missing} /\ (f # Missing => f.id = id)
          /\ SaveFile(id, f) /\ InMemory(id)' = f
      BY <1>1, <1>7, <2>1
    <2> QED  BY <1>2, <1>6, <1>7, <2>2, FileSaved DEF Inv
  <1>9. BpsInv' /\ HistoryTyped'
    BY <1>1, <1>6, BpsUntouched DEF Inv, HistoryTyped
  <1> QED  BY <1>4, <1>5, <1>8, <1>9 DEF Inv

LEMMA AutoloadKeeps ==
  ASSUME Inv, NEW id \in FileId, SetFileAutoload(id), UNCHANGED <<page, history>>
  PROVE  Inv'
  <1> DEFINE i == IndexOf(files, id)
             y == [files[i] EXCEPT !.autoload = ~files[i].autoload]
  <1>1. /\ id \in Ids(files) /\ files' = [files EXCEPT ![i].autoload = ~@]
        /\ SaveFile(id, ItemWith(files', id))
        /\ UNCHANGED <<sections, breakpoints, look, pending, uiStore, bpStore, paused>>
    BY DEF SetFileAutoload
  <1>2. /\ files \in Seq(File) /\ Distinct(files) /\ backend \in {"idb", "memory"}
        /\ DOMAIN files = 1 .. Len(files) /\ Len(files) \in Nat
    BY DEF Inv, MemoryTyped
  <1>3. i \in 1 .. Len(files) /\ files[i].id = id /\ files[i] \in File
    BY <1>1, <1>2, ItemIs
  <1>4. y \in File /\ y.id = id
    <2>1. \A x \in File : [x EXCEPT !.autoload = ~x.autoload] \in File
                          /\ [x EXCEPT !.autoload = ~x.autoload].id = x.id
      BY DEF File
    <2> HIDE DEF i
    <2> QED  BY <1>3, <2>1
  <1>5. files' = [files EXCEPT ![i] = y]
    BY <1>1
  <1> HIDE DEF i, y
  <1>6. /\ files' \in Seq(File) /\ DOMAIN files' = 1 .. Len(files)
        /\ \A j \in 1 .. Len(files) : files'[j] = IF j = i THEN y ELSE files[j]
    BY <1>2, <1>3, <1>4, <1>5
  <1>7. IdsOf(files') = IdsOf(files)
    <2>1. \A j \in 1 .. Len(files) : files'[j].id = files[j].id
      BY <1>3, <1>4, <1>6
    <2> QED  BY <1>2, <1>6, <2>1 DEF IdsOf
  <1>8. /\ Distinct(files') /\ Ids(files') = Ids(files)
        /\ \A x \in Ids(files) : ItemWith(files', x) = files'[IndexOf(files, x)]
    BY <1>2, <1>6, <1>7, FileFacts, Updated
  <1>9. ItemWith(files', id) = y
    BY <1>1, <1>3, <1>6, <1>8 DEF i
  <1>10. ASSUME NEW x \in Ids(files), x # id PROVE ItemWith(files', x) = ItemWith(files, x)
    <2>1. IndexOf(files, x) \in 1 .. Len(files) /\ files[IndexOf(files, x)].id = x
      BY <1>2, ItemIs
    <2>2. IndexOf(files, x) # i
      BY <1>3, <1>10, <2>1
    <2> QED  BY <1>6, <1>8, <2>1, <2>2 DEF ItemWith
  <1>11. backend' = backend /\ lost' = lost /\ overtaken' = overtaken /\ bus' = bus
    BY DEF page, history
  <1>12. MemoryTyped'
    BY <1>1, <1>6, <1>8, PageStays DEF Inv, MemoryTyped, look
  <1>13. UiInv'
    BY <1>1, <1>7, <1>8, <1>11, UiUntouched DEF Inv
  <1>14. FilesInv'
    <2>1. InMemory(id)' = y /\ \A x \in FileId \ {id} : InMemory(x)' = InMemory(x)
      BY <1>1, <1>8, <1>9, <1>10 DEF InMemory
    <2>2. SaveFile(id, y) /\ y \in File \cup {Missing}
      BY <1>1, <1>4, <1>9
    <2> QED  BY <1>2, <1>4, <1>11, <2>1, <2>2, FileSaved DEF Inv
  <1>15. BpsInv' /\ HistoryTyped'
    BY <1>1, <1>11, BpsUntouched DEF Inv, HistoryTyped
  <1> QED  BY <1>12, <1>13, <1>14, <1>15 DEF Inv

LEMMA ReorderFilesKeeps ==
  ASSUME Inv, NEW order \in Orders(files), ReorderFiles(order), UNCHANGED <<page, history>>
  PROVE  Inv'
  <1>1. /\ files' = InOrder(files, order)
        /\ UNCHANGED <<sections, look, breakpoints, pending, fileStore, bpStore, paused>>
        /\ PersistUi
    BY DEF ReorderFiles
  <1>2. files \in Seq(File) /\ Distinct(files)
    BY DEF Inv, MemoryTyped
  <1>3. HaveIds(File, Nat)
    BY FileFacts
  <1>4. order \in Seq(Nat) /\ IsInjective(order)
    BY <1>2, <1>3, OrdersAre
  <1>5. Rearranged(File, files, order, files')
    BY <1>1, <1>2, <1>3, <1>4, Ordered
  <1>6. MemoryTyped'
    BY <1>1, <1>5, PageStays DEF Inv, MemoryTyped, look, Rearranged
  <1>7. UiInv'
    BY <1>1, <1>6, SelfSame, Persisted DEF Inv
  <1>8. backend' = backend /\ lost' = lost /\ overtaken' = overtaken
    BY DEF page, history
  <1>9. \A id \in FileId : InMemory(id)' = InMemory(id)
    BY <1>5 DEF InMemory, Rearranged
  <1>10. FilesInv' /\ BpsInv' /\ HistoryTyped'
    BY <1>1, <1>8, <1>9, FilesMoved, BpsUntouched DEF Inv, HistoryTyped
  <1> QED  BY <1>6, <1>7, <1>10 DEF Inv

(* Breakpoints, and what is not kept. *)

LEMMA SyncKeeps ==
  ASSUME Inv, NEW list \in Seq(KnownBp), SyncBreakpoints(list), UNCHANGED <<page, history>>
  PROVE  Inv'
  <1>1. /\ breakpoints' = list /\ SaveBreakpoints(list)
        /\ UNCHANGED <<sections, files, look, pending, uiStore, fileStore, paused>>
    BY DEF SyncBreakpoints
  <1>2. backend' = backend /\ lost' = lost /\ overtaken' = overtaken /\ bus' = bus
    BY DEF page, history
  <1>3. MemoryTyped'
    BY <1>1, PageStays DEF Inv, MemoryTyped, look
  <1>4. UiInv' /\ FilesInv' /\ HistoryTyped'
    BY <1>1, <1>2, UiUntouched, FilesUntouched DEF Inv, HistoryTyped
  <1>5. BpsInv'
    BY <1>1, <1>2, BpsSaved DEF Inv, MemoryTyped
  <1> QED  BY <1>3, <1>4, <1>5 DEF Inv

LEMMA BreakpointsKeep ==
  ASSUME Inv, NEW id \in BpId, ChangeBreakpoints(id), UNCHANGED <<page, history>>
  PROVE  Inv'
  <1>1. breakpoints \in Seq(KnownBp) /\ DOMAIN breakpoints = 1 .. Len(breakpoints)
    BY DEF Inv, MemoryTyped
  <1>2. CASE SyncBreakpoints(Append(breakpoints, [id |-> id, kind |-> "pc-range", enabled |-> TRUE]))
    <2> DEFINE x == [id |-> id, kind |-> "pc-range", enabled |-> TRUE]
    <2>1. x \in KnownBp
      <3>1. "pc-range" \in KnownKinds
        BY DEF KnownKinds
      <3>2. x \in Breakpoint /\ x.kind = "pc-range"
        BY <3>1 DEF Breakpoint
      <3> HIDE DEF x
      <3> QED  BY <3>1, <3>2 DEF KnownBp
    <2> HIDE DEF x
    <2>2. Append(breakpoints, x) \in Seq(KnownBp)
      BY <1>1, <2>1
    <2> QED  BY <1>2, <2>2, SyncKeeps DEF x
  <1>3. ASSUME id \in Ids(breakpoints) PROVE IndexOf(breakpoints, id) \in 1 .. Len(breakpoints)
    <2>1. \E i \in DOMAIN breakpoints : breakpoints[i].id = id
      BY <1>3 DEF Ids
    <2> QED  BY <1>1, <2>1 DEF IndexOf
  <1> DEFINE at == IndexOf(breakpoints, id)
  <1>4. CASE id \in Ids(breakpoints) /\ SyncBreakpoints(RemoveAt(breakpoints, at))
    <2>1. RemoveAt(breakpoints, at) \in Seq(KnownBp)
      BY <1>1, <1>3, <1>4, Removed
    <2> QED  BY <1>4, <2>1, SyncKeeps
  <1>5. CASE id \in Ids(breakpoints) /\ SyncBreakpoints([breakpoints EXCEPT ![at].enabled = ~@])
    <2> DEFINE x == breakpoints[at]
               y == [x EXCEPT !.enabled = ~x.enabled]
    <2>1. x \in KnownBp
      BY <1>1, <1>3, <1>5
    <2>2. \A z \in KnownBp : [z EXCEPT !.enabled = ~z.enabled] \in KnownBp
      BY DEF KnownBp, Breakpoint
    <2>3. y \in KnownBp
      BY <2>1, <2>2
    <2>4. [breakpoints EXCEPT ![at].enabled = ~@] = [breakpoints EXCEPT ![at] = y]
      OBVIOUS
    <2> HIDE DEF y
    <2>5. [breakpoints EXCEPT ![at] = y] \in Seq(KnownBp)
      BY <1>1, <1>3, <1>5, <2>3
    <2> QED  BY <1>5, <2>4, <2>5, SyncKeeps
  <1> QED  BY <1>2, <1>4, <1>5 DEF ChangeBreakpoints

LEMMA StageKeeps ==
  ASSUME Inv, Stage
  PROVE  Inv'
  <1>1. /\ UNCHANGED <<sections, files, breakpoints, look, uiStore, fileStore, bpStore>>
        /\ pending' \in Values /\ paused' \in BOOLEAN
    <2>1. pending \in Values /\ paused \in BOOLEAN
      BY DEF Inv, MemoryTyped
    <2>2. ASSUME RunOrPause
          PROVE  /\ UNCHANGED <<sections, files, breakpoints, look, uiStore, fileStore, bpStore>>
                 /\ pending' = pending /\ paused' = ~paused
      BY <2>2 DEF RunOrPause
    <2>3. ASSUME NEW s \in Staged, NEW v \in Byte, SetPending(s, v)
          PROVE  /\ UNCHANGED <<sections, files, breakpoints, look, uiStore, fileStore, bpStore>>
                 /\ pending' \in Values /\ paused' = paused
      <3>1. s \in Settings
        BY PersistAssumption
      <3>2. [pending EXCEPT ![s] = v] \in Values
        BY <2>1, <3>1 DEF Values
      <3> QED  BY <2>3, <3>2 DEF SetPending
    <2> QED  BY <2>1, <2>2, <2>3 DEF Stage
  <1>2. UNCHANGED <<page, history>>
    BY DEF Stage
  <1>3. backend' = backend /\ lost' = lost /\ overtaken' = overtaken /\ bus' = bus
    BY <1>2 DEF page, history
  <1>4. MemoryTyped'
    BY <1>1, <1>3 DEF Inv, MemoryTyped, look
  <1>5. UiInv' /\ FilesInv' /\ BpsInv' /\ HistoryTyped'
    BY <1>1, <1>3, UiUntouched, FilesUntouched, BpsUntouched DEF Inv, HistoryTyped
  <1> QED  BY <1>4, <1>5 DEF Inv

LEMMA EditKeeps ==
  ASSUME Inv, Edit
  PROVE  Inv'
  <1>1. UNCHANGED <<page, history>>
    BY DEF Edit
  <1>2. CASE \E id \in Ids(sections) : ToggleSectionFold(id) \/ UpdateSectionConfig(id)
    BY <1>1, <1>2, ToggleKeeps, ViewKeeps
  <1>3. CASE \E order \in Orders(sections) \ {IdsOf(sections)} : ReorderSections(order)
    BY <1>1, <1>3, DragKeeps
  <1>4. CASE (\E t \in Themes : SetTheme(t)) \/ (\E n \in 1 .. 2 : SetUiConfig(n))
    BY <1>1, <1>4, LookKeeps
  <1>5. CASE \E id \in FileId : AddFile(id) \/ RemoveFile(id) \/ SetFileAutoload(id)
    BY <1>1, <1>5, AddKeeps, RemoveKeeps, AutoloadKeeps
  <1>6. CASE \E order \in Orders(files) \ {IdsOf(files)} : ReorderFiles(order)
    BY <1>1, <1>6, ReorderFilesKeeps
  <1>7. CASE \E id \in BpId : ChangeBreakpoints(id)
    BY <1>1, <1>7, BreakpointsKeep
  <1>8. CASE Discard
    BY <1>1, <1>8, DiscardKeeps
  <1> QED  BY <1>2, <1>3, <1>4, <1>5, <1>6, <1>7, <1>8 DEF Edit

-----------------------------------------------------------------------------
(* The Save button. *)

LEMMA FullRecordFacts ==
  /\ \A r \in FullRecord : Written(r)
  /\ \A w \in UiWrite : /\ w.state \in FullRecord /\ w.save \in SaveData \cup {NoSave}
                        /\ w.save # NoSave => w.save \in SaveData
  <1>1. ASSUME NEW r \in FullRecord PROVE Written(r)
    <2>1. r.sections \in {l \in Seq(Section) : Complete(l)}
          /\ r.fileOrder \in {o \in Seq(Nat) : IsInjective(o)}
      BY DEF FullRecord
    <2> QED  BY <2>1 DEF Written, Complete
  <1>2. \A w \in UiWrite : w.state \in FullRecord /\ w.save \in SaveData \cup {NoSave}
    BY DEF UiWrite
  <1> QED  BY <1>1, <1>2

Two(q, v, w, r) ==
  /\ r \in Seq(UiWrite) /\ Len(r) = Len(q) + 2 /\ DOMAIN r = 1 .. Len(q) + 2
  /\ r[Len(q) + 1] = v /\ r[Len(q) + 2] = w
  /\ Saves(r) = Saves(q) \cup {Len(q) + 2}
  /\ \A i \in Saves(q) : r[i] = q[i] /\ i \in 1 .. Len(q)

LEMMA TwoQueued ==
  ASSUME NEW q \in Seq(UiWrite), NEW v \in UiWrite, NEW w \in UiWrite,
         v.save = NoSave, w.save # NoSave
  PROVE  Two(q, v, w, q \o <<v, w>>)
  <1> DEFINE r == q \o <<v, w>>
  <1>0. Len(q) \in Nat /\ DOMAIN q = 1 .. Len(q)
    OBVIOUS
  <1> DEFINE m == Append(q, v)
  <1>1. /\ m \in Seq(UiWrite) /\ Len(m) = Len(q) + 1
        /\ \A i \in 1 .. Len(q) : m[i] = q[i]
        /\ m[Len(q) + 1] = v
    BY Appended
  <1>2. r = Append(m, w)
    <2>1. q \o <<v, w>> = Append(Append(q, v), w)
      OBVIOUS
    <2> QED  BY <2>1
  <1> HIDE DEF m, r
  <1>3. /\ r \in Seq(UiWrite) /\ Len(r) = Len(m) + 1
        /\ \A i \in 1 .. Len(m) : r[i] = m[i]
        /\ r[Len(m) + 1] = w
    BY <1>1, <1>2, Appended
  <1>4. (Len(q) + 1) + 1 = Len(q) + 2 /\ Len(q) + 1 \in 1 .. Len(q) + 1
        /\ \A i \in 1 .. Len(q) : i \in 1 .. Len(q) + 1
    BY <1>0
  <1>5. /\ Len(r) = Len(q) + 2 /\ DOMAIN r = 1 .. Len(q) + 2
        /\ r[Len(q) + 1] = v /\ r[Len(q) + 2] = w
        /\ \A i \in 1 .. Len(q) : r[i] = q[i]
    BY <1>1, <1>3, <1>4
  <1>6. \A i \in 1 .. Len(q) + 2 : i \in 1 .. Len(q) \/ i = Len(q) + 1 \/ i = Len(q) + 2
    BY <1>0
  <1>7. /\ \A i \in 1 .. Len(q) : i \in 1 .. Len(q) + 2
        /\ Len(q) + 2 \in 1 .. Len(q) + 2
    BY <1>0
  <1>8. Saves(r) = Saves(q) \cup {Len(q) + 2}
    BY <1>0, <1>5, <1>6, <1>7 DEF Saves
  <1>9. Two(q, v, w, r)
    BY <1>0, <1>3, <1>5, <1>8 DEF Saves, Two
  <1> QED  BY <1>9 DEF r

LEMMA SamePlaces ==
  ASSUME NEW secs, Complete(secs), NEW r, Complete(r), IdsOf(r) = IdsOf(secs)
  PROVE  PlacesIn(r) = PlacesIn(secs)
  <1>1. HaveIds(Section, STRING)
    BY SectionFacts
  <1>2. \A id \in Ids(secs) : IndexOf(r, id) = IndexOf(secs, id)
    BY <1>1, Updated DEF Complete
  <1>3. "memory" \in Ids(secs) /\ "io" \in Ids(secs)
    BY SettingFacts DEF Complete
  <1> QED  BY <1>2, <1>3 DEF PlacesIn

LEMMA SaveKeeps ==
  ASSUME Inv, Save
  PROVE  Inv'
  <1>1. Complete(sections) /\ pending \in Values /\ bus \in Values
    BY DEF Inv, MemoryTyped
  <1> DEFINE places == PlacesIn(sections)
             F == WithFold(sections)
             r == Record(F, files, theme, flush)
             G == WithSettings(F, Changed, places, pending)
             v == Unwaited(r)
             s4 == [settings |-> pending, changed |-> Changed, prev |-> Live, places |-> places]
             w == [state |-> Record(G, files, theme, flush), save |-> s4]
  <1>2. CASE backend = "memory"
    <2>1. Reload(uiTable.idb)
      BY <1>2 DEF Save
    <2>2. TablesTyped /\ Written(uiTable.idb)
      BY DEF Inv, UiInv, UiTyped, FilesInv, FilesTyped, BpsInv, BpsTyped, TablesTyped
    <2>3. PICK ui : ui = uiTable.idb
      OBVIOUS
    <2> QED  BY <2>1, <2>2, <2>3, Reloads
  <1>3. CASE backend = "idb"
    <2>1. /\ sections' = G /\ SaveUi(<<v, w>>)
          /\ UNCHANGED <<files, breakpoints, look, pending, page, fileStore, bpStore,
                         history, paused>>
      BY <1>3 DEF Save, SavedSections, PlacesIn
    <2>2. uiQueue' = uiQueue \o <<v, w>> /\ uiTable' = uiTable
      BY <1>3, <2>1 DEF SaveUi
    <2>3. /\ backend' = backend /\ bus' = bus /\ lost' = lost /\ overtaken' = overtaken
          /\ theme' = theme /\ flush' = flush
      BY <2>1 DEF page, history, look
    <2>4. SameSettings(sections, F) /\ IdsOf(F) = IdsOf(sections)
      BY <1>1, WithFoldStays
    <2>5. Complete(F) /\ places = PlacesIn(F) /\ places \in [{"memory", "io"} -> Nat]
      BY <1>1, <2>4, SamePlaces, PlacesAre DEF SameSettings
    <2>6. Live \in Values /\ SettingsOf(sections) = Live
      BY LiveIs DEF Inv, UiInv
    <2>7. /\ Changed \in SUBSET Settings
          /\ \A s \in Settings : s \notin Changed => pending[s] = Live[s]
      BY DEF Changed
    <2> DEFINE set == Changed
    <2> HIDE DEF F, places, set
    <2>8. /\ Complete(G) /\ IdsOf(G) = IdsOf(F) /\ Shown(G) = Shown(F)
          /\ \A s \in Settings : Held(G, s) = Held(F, s) \/ Held(G, s) \in Byte
          /\ \A s \in Settings \ Changed : Held(G, s) = Held(F, s)
          /\ \A s \in Changed : Held(G, s) = pending[s]
      <3>1. set \in SUBSET Settings
        BY <2>7 DEF set
      <3>2. Wrote(F, set, places, pending, WithSettings(F, set, places, pending))
        BY <1>1, <2>5, <3>1, SettingsWritten
      <3>3. Wrote(F, set, places, pending, G)
        BY <3>2 DEF set
      <3> HIDE DEF G
      <3> QED  BY <2>5, <3>3 DEF Wrote, set
    <2> HIDE DEF G
    <2>9. MemoryTyped'
      BY <2>1, <2>3, <2>8 DEF Inv, MemoryTyped
    <2>10. DefaultsHeld'
      <3>1. \A s \in Settings : Held(sections', s) = Held(sections, s) \/ Held(sections', s) \in Byte
        BY <2>1, <2>4, <2>8 DEF SameSettings
      <3> QED  BY <2>3, <3>1 DEF Inv, UiInv, DefaultsHeld
    <2>11. Live' = pending
      <3>1. ASSUME NEW s \in Settings PROVE SettingIn(G, s, bus[s]) = pending[s]
        <4>1. SettingIn(G, s, bus[s]) = IF Held(G, s) \in Byte THEN Held(G, s) ELSE bus[s]
          BY <2>8, SettingIs
        <4>2. SettingIn(sections, s, bus[s]) =
                IF Held(sections, s) \in Byte THEN Held(sections, s) ELSE bus[s]
          BY <1>1, SettingIs
        <4>3. Live[s] = SettingIn(sections, s, bus[s])
          BY DEF Live
        <4>4. CASE s \in Changed
          BY <1>1, <2>8, <4>1, <4>4 DEF Values
        <4>5. CASE s \notin Changed
          <5>1. Held(G, s) = Held(sections, s)
            BY <2>4, <2>8, <4>5 DEF SameSettings
          <5> QED  BY <2>7, <4>1, <4>2, <4>3, <4>5, <5>1
        <4> QED  BY <4>4, <4>5
      <3>2. Live' = [s \in Settings |-> SettingIn(G, s, bus[s])]
        BY <2>1, <2>3 DEF Live
      <3> QED  BY <1>1, <3>1, <3>2 DEF Values
    <2>12. OwnMatches'
      BY <2>9, <2>10, OwnHoldsNext
    <2> DEFINE g == Record(G, files, theme, flush)
    <2>13. /\ g \in FullRecord /\ Says(g, sections', files', theme', flush')
           /\ SettingsOf(g.sections) = pending
      <3>1. g = Own'
        BY <2>1, <2>3 DEF Own
      <3> HIDE DEF g
      <3> QED  BY <2>11, <2>12, <3>1 DEF OwnMatches, Matches, SettingsOf
    <2>14. /\ r \in FullRecord /\ Says(r, sections', files', theme', flush')
           /\ SettingsOf(r.sections) = Live
      <3>1. r.sections = F /\ r.fileOrder = g.fileOrder /\ r.theme = g.theme /\ r.flush = g.flush
            /\ g.sections = G
        BY DEF Record
      <3>2. r \in FullRecord
        <4>1. F \in {l \in Seq(Section) : Complete(l)}
          BY <2>5 DEF Complete
        <4>2. r = [sections |-> F, fileOrder |-> g.fileOrder, theme |-> g.theme, flush |-> g.flush]
          BY DEF Record
        <4> HIDE DEF r, g
        <4> QED  BY <2>13, <4>1, <4>2 DEF FullRecord
      <3>3. ReconcileSections(F) = F /\ ReconcileSections(G) = G
        <4>1. Restored(F, ReconcileSections(F)) /\ Restored(G, ReconcileSections(G))
          BY <2>5, <2>8, SectionsRead DEF Complete
        <4> QED  BY <2>5, <2>8, <4>1 DEF Restored
      <3> HIDE DEF r, g
      <3>4. Says(r, sections', files', theme', flush')
        BY <2>8, <2>13, <3>1, <3>3 DEF Says
      <3>5. SettingsOf(F) = SettingsOf(sections)
        <4>1. ASSUME NEW s \in Settings
              PROVE  SettingIn(F, s, DefaultBus[s]) = SettingIn(sections, s, DefaultBus[s])
          <5>1. /\ SettingIn(F, s, DefaultBus[s]) =
                     IF Held(F, s) \in Byte THEN Held(F, s) ELSE DefaultBus[s]
                /\ SettingIn(sections, s, DefaultBus[s]) =
                     IF Held(sections, s) \in Byte THEN Held(sections, s) ELSE DefaultBus[s]
            BY <1>1, <2>5, SettingIs
          <5> QED  BY <2>4, <5>1 DEF SameSettings
        <4> QED  BY <4>1 DEF SettingsOf
      <3> QED  BY <2>6, <3>1, <3>2, <3>4, <3>5
    <2>15. s4 \in SaveData /\ s4 # NoSave
      <3>1. s4 \in SaveData
        BY <1>1, <2>5, <2>6, <2>7 DEF SaveData
      <3>2. pending # <<>>
        <4>1. "memInit" \in DOMAIN pending /\ DOMAIN <<>> = {}
          BY <1>1 DEF Values, Settings
        <4> QED  BY <4>1
      <3> QED  BY <3>1, <3>2 DEF NoSave
    <2>16. v \in UiWrite /\ v.state = r /\ v.save = NoSave
      <3> HIDE DEF r
      <3> QED  BY <2>14 DEF Unwaited, UiWrite
    <2>17. w \in UiWrite /\ w.state = g /\ w.save = s4
      <3>1. w = [state |-> g, save |-> s4]
        OBVIOUS
      <3> HIDE DEF w, g, s4
      <3> QED  BY <2>13, <2>15, <3>1 DEF UiWrite
    <2>18. /\ s4.settings = pending /\ s4.changed = Changed /\ s4.prev = Live
           /\ s4.places = places
      OBVIOUS
    <2> HIDE DEF s4, w, v, r, g
    <2>19. uiQueue \in Seq(UiWrite) /\ Len(uiQueue) \in Nat
      BY DEF Inv, UiInv, UiTyped
    <2> DEFINE n == Len(uiQueue)
    <2>20. /\ uiQueue' \in Seq(UiWrite) /\ Len(uiQueue') = n + 2
           /\ uiQueue'[n + 1] = v /\ uiQueue'[n + 2] = w
           /\ Saves(uiQueue') = Saves(uiQueue) \cup {n + 2}
           /\ \A i \in Saves(uiQueue) : uiQueue'[i] = uiQueue[i] /\ i \in 1 .. n
      <3>1. v \in UiWrite /\ w \in UiWrite /\ v.save = NoSave /\ w.save # NoSave
        BY <2>15, <2>16, <2>17
      <3>2. Two(uiQueue, v, w, uiQueue \o <<v, w>>)
        BY <2>19, <3>1, TwoQueued
      <3> QED  BY <2>2, <3>2 DEF Two
    <2> HIDE DEF n
    <2>21. n \in Nat /\ n + 2 > 1 /\ (n + 2) - 1 = n + 1 /\ \A i \in 1 .. n : ~(n + 2 <= i)
      BY <2>19 DEF n
    <2>22. UiTyped'
      BY <1>3, <2>2, <2>3, <2>20 DEF Inv, UiInv, UiTyped
    <2>23. SavesTell'
      BY <2>13, <2>17, <2>18, <2>20 DEF Inv, UiInv, SavesTell, SettingsOf
    <2>24. BusShown'
      <3> SUFFICES ASSUME ~overtaken', NEW i \in Saves(uiQueue'),
                          \A j \in Saves(uiQueue') : i <= j
                   PROVE  uiQueue'[i].save.prev = bus'
        BY <2>20 DEF BusShown
      <3>1. CASE Saves(uiQueue) = {}
        <4>1. i = n + 2 /\ Live = bus
          BY <2>3, <2>20, <3>1 DEF Inv, UiInv, BusShown
        <4> QED  BY <2>3, <2>17, <2>18, <2>20, <4>1
      <3>2. CASE Saves(uiQueue) # {}
        <4>1. i \in Saves(uiQueue)
          BY <2>20, <2>21, <3>2
        <4>2. uiQueue[i].save.prev = bus
          BY <2>3, <2>20, <4>1 DEF Inv, UiInv, BusShown
        <4> QED  BY <2>3, <2>20, <4>1, <4>2
      <3> QED  BY <3>1, <3>2
    <2>25. Mirrored'
      <3>1. uiQueue' # <<>>
        BY <2>20, <2>21
      <3>2. uiQueue'[Len(uiQueue')].state = g
        BY <2>17, <2>20
      <3> QED  BY <2>11, <2>13, <3>1, <3>2 DEF Mirrored, Matches, SettingsOf
    <2>26. LastSave'
      <3>1. PlacesIn(sections') = places
        BY <2>1, <2>5, <2>8, SamePlaces
      <3>2. \A s \in Settings \ Changed : Live'[s] = Live[s]
        BY <2>7, <2>11
      <3>3. Len(uiQueue') = n + 2 /\ (n + 2) - 1 = n + 1 /\ n + 2 > 1
        BY <2>20, <2>21
      <3>4. /\ w.save.places = [memory |-> IndexOf(sections', "memory"),
                                io |-> IndexOf(sections', "io")]
            /\ \A s \in Settings \ w.save.changed : Live'[s] = w.save.prev[s]
            /\ Says(v.state, sections', files', theme', flush')
            /\ SettingsOf(v.state.sections) = w.save.prev
        BY <2>14, <2>16, <2>17, <2>18, <3>1, <3>2 DEF PlacesIn
      <3> QED  BY <2>20, <3>3, <3>4 DEF LastSave, Matches, SettingsOf
    <2>27. UiInv'
      BY <2>10, <2>22, <2>23, <2>24, <2>25, <2>26 DEF UiInv
    <2>28. FilesInv' /\ BpsInv' /\ HistoryTyped'
      BY <2>1, <2>3, FilesUntouched, BpsUntouched DEF Inv, HistoryTyped
    <2> QED  BY <2>9, <2>27, <2>28 DEF Inv
  <1> QED  BY <1>2, <1>3 DEF Inv, MemoryTyped

-----------------------------------------------------------------------------
(* IndexedDB. *)

(* A queue and what is left of it behind its head. *)
Shifted(q, t) ==
  /\ Len(q) \in Nat \ {0} /\ Len(t) = Len(q) - 1
  /\ DOMAIN q = 1 .. Len(q) /\ DOMAIN t = 1 .. Len(t)
  /\ \A i \in DOMAIN t : i + 1 \in DOMAIN q /\ t[i] = q[i + 1]
  /\ \A i \in DOMAIN q \ {1} : i - 1 \in DOMAIN t /\ q[i] = t[i - 1]

LEMMA TailIs ==
  ASSUME NEW S, NEW q \in Seq(S), q # <<>>
  PROVE  /\ Tail(q) \in Seq(S) /\ Shifted(q, Tail(q))
         /\ Head(q) = q[1] /\ Head(q) \in S /\ 1 \in DOMAIN q
         /\ Tail(q) = <<>> <=> Len(q) = 1
  <1>1. Len(q) \in Nat \ {0} /\ DOMAIN q = 1 .. Len(q)
    OBVIOUS
  <1>2. Tail(q) \in Seq(S) /\ Len(Tail(q)) = Len(q) - 1
        /\ \A i \in 1 .. Len(q) - 1 : Tail(q)[i] = q[i + 1]
    BY <1>1
  <1> DEFINE t == Tail(q)
  <1>3. t \in Seq(S) /\ Len(t) = Len(q) - 1 /\ DOMAIN t = 1 .. Len(t)
        /\ \A i \in 1 .. Len(q) - 1 : t[i] = q[i + 1]
    BY <1>2
  <1> HIDE DEF t
  <1>4. \A i \in DOMAIN t : i + 1 \in DOMAIN q /\ t[i] = q[i + 1]
    BY <1>1, <1>3
  <1>5. \A i \in DOMAIN q \ {1} : i - 1 \in DOMAIN t /\ q[i] = t[i - 1]
    <2> SUFFICES ASSUME NEW i \in DOMAIN q \ {1}
                 PROVE  i - 1 \in DOMAIN t /\ q[i] = t[i - 1]
      OBVIOUS
    <2>1. i \in Int /\ i - 1 \in 1 .. Len(q) - 1 /\ (i - 1) + 1 = i
      BY <1>1
    <2> QED  BY <1>3, <2>1
  <1>6. Shifted(q, t)
    BY <1>1, <1>3, <1>4, <1>5 DEF Shifted
  <1>7. Head(q) = q[1] /\ 1 \in DOMAIN q
    BY <1>1
  <1>8. Head(q) \in S
    BY <1>7
  <1>9. t = <<>> <=> Len(q) = 1
    BY <1>1, <1>3
  <1> QED  BY <1>3, <1>6, <1>7, <1>8, <1>9 DEF t

LEMMA SavesBehind ==
  ASSUME NEW q, NEW t, Shifted(q, t)
  PROVE  /\ \A i \in Saves(t) : i + 1 \in Saves(q) /\ t[i] = q[i + 1]
         /\ \A i \in Saves(q) \ {1} : i - 1 \in Saves(t) /\ q[i] = t[i - 1]
  BY DEF Shifted, Saves

(* The record at the head of the queue has ended and left the page alone.  *)
LEMMA Dequeued ==
  ASSUME UiInv, uiQueue # <<>>, backend = "idb", uiQueue[1].save = NoSave,
         uiQueue' = Tail(uiQueue),
         UNCHANGED <<sections, files, look, page, overtaken>>,
         uiTable' = [idb |-> uiTable'.idb, memory |-> uiTable'.memory],
         Written(uiTable'.idb),
         lost'.ui \/ uiTable'.idb = uiQueue[1].state
  PROVE  UiInv'
  <1> DEFINE q == uiQueue
             t == Tail(uiQueue)
             n == Len(uiQueue)
  <1>1. q \in Seq(UiWrite)
    BY DEF UiInv, UiTyped
  <1>2. /\ t \in Seq(UiWrite) /\ Shifted(q, t) /\ 1 \in DOMAIN q
        /\ t = <<>> <=> Len(q) = 1
    BY <1>1, TailIs
  <1>3. uiQueue' = t /\ sections' = sections /\ theme' = theme /\ flush' = flush
        /\ files' = files /\ bus' = bus /\ backend' = backend /\ overtaken' = overtaken
    BY DEF look, page
  <1>4. Live' = Live
    BY <1>3 DEF Live
  <1>5. \A r : Says(r, sections', files', theme', flush') <=> Says(r, sections, files, theme, flush)
    BY <1>3 DEF Says
  <1> HIDE DEF t
  <1>6. /\ \A i \in Saves(t) : i + 1 \in Saves(q) /\ t[i] = q[i + 1]
        /\ \A i \in Saves(q) : i # 1 /\ i - 1 \in Saves(t) /\ q[i] = t[i - 1]
    <2>1. /\ \A i \in Saves(t) : i + 1 \in Saves(q) /\ t[i] = q[i + 1]
          /\ \A i \in Saves(q) \ {1} : i - 1 \in Saves(t) /\ q[i] = t[i - 1]
      BY <1>2, SavesBehind
    <2>2. 1 \notin Saves(q)
      BY DEF Saves
    <2> QED  BY <2>1, <2>2
  <1>7. n \in Nat \ {0} /\ Len(t) = n - 1 /\ DOMAIN t = 1 .. n - 1 /\ DOMAIN q = 1 .. n
    BY <1>2 DEF Shifted
  <1>8. UiTyped'
    BY <1>2, <1>3 DEF UiTyped
  <1>9. DefaultsHeld'
    BY <1>3 DEF UiInv, DefaultsHeld
  <1>10. SavesTell'
    <2>1. ASSUME NEW i \in Saves(t)
          PROVE  SettingsOf(t[i].state.sections) = t[i].save.settings
      <3>1. i + 1 \in Saves(q) /\ t[i] = q[i + 1]
        BY <1>6
      <3>2. SettingsOf(q[i + 1].state.sections) = q[i + 1].save.settings
        BY <3>1 DEF UiInv, SavesTell
      <3> QED  BY <3>1, <3>2
    <2> QED  BY <1>3, <2>1 DEF SavesTell, SettingsOf
  <1>11. BusShown'
    <2>1. CASE overtaken
      BY <1>3, <2>1 DEF BusShown
    <2>2. CASE ~overtaken
      <3>1. Saves(t) = {} => Live' = bus'
        BY <1>3, <1>4, <1>6, <2>2 DEF UiInv, BusShown
      <3>2. ASSUME NEW i \in Saves(t), \A j \in Saves(t) : i <= j
            PROVE  t[i].save.prev = bus'
        <4>1. i + 1 \in Saves(q) /\ t[i] = q[i + 1] /\ i \in Int
          BY <1>6, <1>7 DEF Saves
        <4>2. ASSUME NEW j \in Saves(q) PROVE i + 1 <= j
          <5>1. j \in Int /\ i <= j - 1
            BY <1>6, <1>7, <3>2 DEF Saves
          <5> QED  BY <4>1, <5>1
        <4>3. q[i + 1].save.prev = bus
          BY <2>2, <4>1, <4>2 DEF UiInv, BusShown
        <4> QED  BY <1>3, <4>1, <4>3
      <3> QED  BY <1>3, <3>1, <3>2 DEF BusShown
    <2> QED  BY <2>1, <2>2
  <1>12. Mirrored'
    <2>1. CASE overtaken
      BY <1>3, <2>1 DEF Mirrored
    <2>2. CASE ~overtaken
      <3>1. Says(q[n].state, sections', files', theme', flush')
            /\ SettingsOf(q[n].state.sections) = Live'
        BY <1>4, <1>5, <2>2 DEF UiInv, Mirrored, Matches
      <3>2. CASE t = <<>>
        <4>1. n = 1
          BY <1>2, <3>2
        <4> QED  BY <1>3, <3>1, <3>2, <4>1 DEF Mirrored, Matches, SettingsOf
      <3>3. CASE t # <<>>
        <4>1. t[n - 1] = q[n]
          <5>1. n - 1 \in DOMAIN t /\ (n - 1) + 1 = n
            BY <1>2, <1>7, <3>3
          <5> QED  BY <1>2, <5>1 DEF Shifted
        <4> QED  BY <1>3, <1>7, <3>1, <3>3, <4>1 DEF Mirrored, Matches, SettingsOf
      <3> QED  BY <3>2, <3>3
    <2> QED  BY <2>1, <2>2
  <1>13. LastSave'
    <2> DEFINE r == IF n - 1 > 1 THEN t[(n - 1) - 1].state ELSE uiTable'.idb
    <2>1. CASE ~overtaken /\ n - 1 \in Saves(t)
      <3>1. n \in Saves(q) /\ t[n - 1] = q[n] /\ n - 1 \in 1 .. n - 1 /\ n > 1
        <4>1. (n - 1) + 1 = n /\ n - 1 \in 1 .. n - 1
          BY <1>7, <2>1 DEF Saves
        <4> QED  BY <1>6, <1>7, <2>1, <4>1
      <3>2. /\ q[n].save.places = [memory |-> IndexOf(sections, "memory"),
                                   io |-> IndexOf(sections, "io")]
            /\ \A s \in Settings \ q[n].save.changed : Live[s] = q[n].save.prev[s]
            /\ Says(q[n - 1].state, sections, files, theme, flush)
            /\ SettingsOf(q[n - 1].state.sections) = q[n].save.prev
        BY <2>1, <3>1 DEF UiInv, LastSave, Matches
      <3>3. n - 1 > 1 \/ ~lost'.ui => r = q[n - 1].state
        <4>1. CASE n - 1 > 1
          <5>1. (n - 1) - 1 \in DOMAIN t /\ ((n - 1) - 1) + 1 = n - 1
            BY <1>7, <4>1
          <5>2. t[(n - 1) - 1] = q[n - 1]
            BY <1>2, <5>1 DEF Shifted
          <5> QED  BY <4>1, <5>2
        <4>2. CASE ~(n - 1 > 1) /\ ~lost'.ui
          <5>1. n - 1 = 1
            BY <1>7, <3>1, <4>2
          <5> QED  BY <4>2, <5>1
        <4> QED  BY <4>1, <4>2
      <3> HIDE DEF r
      <3>4. n - 1 > 1 \/ ~lost'.ui =>
              Says(r, sections', files', theme', flush')
              /\ SettingsOf(r.sections) = t[n - 1].save.prev
        BY <1>5, <3>1, <3>2, <3>3
      <3>5. Len(uiQueue') = n - 1 /\ uiQueue' = t
        BY <1>3, <1>7
      <3>6. r = IF n - 1 > 1 THEN t[(n - 1) - 1].state ELSE uiTable'.idb
        BY DEF r
      <3>7. /\ t[n - 1].save.places = [memory |-> IndexOf(sections', "memory"),
                                       io |-> IndexOf(sections', "io")]
            /\ \A s \in Settings \ t[n - 1].save.changed : Live'[s] = t[n - 1].save.prev[s]
        BY <1>3, <1>4, <3>1, <3>2
      <3> HIDE DEF n
      <3> QED  BY <3>4, <3>5, <3>6, <3>7 DEF LastSave, Matches, SettingsOf
    <2>2. CASE ~(~overtaken /\ n - 1 \in Saves(t))
      <3>1. Len(uiQueue') = n - 1 /\ uiQueue' = t /\ overtaken' = overtaken
        BY <1>3, <1>7
      <3>2. ~(~overtaken' /\ Len(uiQueue') \in Saves(uiQueue'))
        <4>1. overtaken = overtaken'
          BY <3>1
        <4>2. overtaken \/ n - 1 \notin Saves(t)
          BY <2>2
        <4> HIDE DEF n
        <4> QED  BY <3>1, <4>1, <4>2, Zenon
      <3> QED  BY <3>2 DEF LastSave
    <2> QED  BY <2>1, <2>2
  <1> QED  BY <1>8, <1>9, <1>10, <1>11, <1>12, <1>13 DEF UiInv

LEMMA UiWriteLandsKeeps ==
  ASSUME Inv, UiWriteLands
  PROVE  Inv'
  <1>1. uiQueue \in Seq(UiWrite) /\ uiQueue # <<>> /\ backend = "idb"
    BY DEF Inv, UiInv, UiTyped, MemoryTyped, UiWriteLands
  <1>2. Head(uiQueue) = uiQueue[1] /\ Head(uiQueue) \in UiWrite
    BY <1>1, TailIs
  <1>3. Written(Head(uiQueue).state)
    BY <1>2, FullRecordFacts
  <1>4. CASE Head(uiQueue).save # NoSave
    <2>1. PICK ui : ui = Head(uiQueue).state
      OBVIOUS
    <2>2. Reload(ui) /\ Written(ui)
      BY <1>3, <1>4, <2>1 DEF UiWriteLands
    <2>3. TablesTyped
      BY DEF Inv, UiInv, UiTyped, FilesInv, FilesTyped, BpsInv, BpsTyped, TablesTyped
    <2> QED  BY <2>2, <2>3, Reloads
  <1>5. CASE Head(uiQueue).save = NoSave
    <2>1. /\ uiTable' = [uiTable EXCEPT !.idb = Head(uiQueue).state]
          /\ uiQueue' = Tail(uiQueue) /\ lost' = [lost EXCEPT !.ui = FALSE]
          /\ UNCHANGED <<sections, files, breakpoints, look, pending, page, fileStore,
                         bpStore, overtaken, paused, verbs, faults, boots>>
      BY <1>5 DEF UiWriteLands
    <2>2. uiTable' = [idb |-> uiTable'.idb, memory |-> uiTable'.memory]
          /\ uiTable'.idb = uiQueue[1].state /\ Written(uiTable'.idb)
      BY <1>2, <1>3, <2>1 DEF Inv, UiInv, UiTyped
    <2>3. UiInv'
      BY <1>1, <1>2, <1>5, <2>1, <2>2, Dequeued DEF Inv
    <2>4. lost'.files = lost.files /\ lost'.breakpoints = lost.breakpoints
          /\ lost' \in [ui : BOOLEAN, files : SUBSET FileId, breakpoints : BOOLEAN]
      BY <2>1 DEF Inv, HistoryTyped
    <2>5. FilesInv' /\ BpsInv'
      BY <2>1, <2>4, FilesUntouched, BpsUntouched DEF Inv, page
    <2>6. MemoryTyped' /\ HistoryTyped'
      BY <2>1, <2>4 DEF Inv, MemoryTyped, HistoryTyped, look, page
    <2> QED  BY <2>3, <2>5, <2>6 DEF Inv
  <1> QED  BY <1>4, <1>5

(* A save that failed puts values that a byte can hold where the settings  *)
(* belong. *)
LEMMA UndoneSettings ==
  ASSUME Inv, UiWriteFails, Head(uiQueue).save # NoSave
  PROVE  /\ uiQueue[1].save \in SaveData /\ Head(uiQueue) = uiQueue[1]
         /\ 1 \in Saves(uiQueue)
         /\ Wrote(sections, uiQueue[1].save.changed, uiQueue[1].save.places,
                  uiQueue[1].save.prev, sections')
  <1>1. uiQueue \in Seq(UiWrite) /\ uiQueue # <<>>
    BY DEF Inv, UiInv, UiTyped, UiWriteFails
  <1>2. Head(uiQueue) = uiQueue[1] /\ Head(uiQueue) \in UiWrite /\ 1 \in DOMAIN uiQueue
    BY <1>1, TailIs
  <1> DEFINE d == uiQueue[1].save
  <1>3. d \in SaveData
    BY <1>2, FullRecordFacts
  <1>4. d.changed \in SUBSET Settings /\ d.places \in [{"memory", "io"} -> Nat]
        /\ d.prev \in Values
    BY <1>3 DEF SaveData
  <1>5. sections' = WithSettings(sections, d.changed, d.places, d.prev)
    BY <1>2 DEF UiWriteFails, Undone
  <1>6. Complete(sections)
    BY DEF Inv, MemoryTyped
  <1> DEFINE set == d.changed
             places == d.places
             values == d.prev
  <1>7. set \in SUBSET Settings /\ places \in [{"memory", "io"} -> Nat] /\ values \in Values
        /\ sections' = WithSettings(sections, set, places, values)
    BY <1>4, <1>5
  <1>8. 1 \in Saves(uiQueue)
    BY <1>2 DEF Saves
  <1> HIDE DEF set, places, values
  <1>9. Wrote(sections, set, places, values, WithSettings(sections, set, places, values))
    BY <1>6, <1>7, SettingsWritten
  <1>10. Wrote(sections, set, places, values, sections')
    BY <1>7, <1>9
  <1> QED  BY <1>2, <1>3, <1>8, <1>10 DEF set, places, values

(* Nothing was written behind it: the settings are those of the bus again. *)
LEMMA FailedSave ==
  ASSUME Inv, UiWriteFails, Head(uiQueue).save # NoSave, ~overtaken'
  PROVE  /\ ~overtaken /\ uiQueue' = <<>> /\ bus' = bus
         /\ Live' = bus /\ pending' = bus /\ Changed' = {}
         /\ ~lost.ui => Matches(uiTable.idb) /\ SettingsOf(uiTable.idb.sections) = bus
  <1> DEFINE d == uiQueue[1].save
  <1>1. /\ d \in SaveData /\ Head(uiQueue) = uiQueue[1] /\ 1 \in Saves(uiQueue)
        /\ Wrote(sections, d.changed, d.places, d.prev, sections')
    BY UndoneSettings
  <1>2. /\ uiQueue \in Seq(UiWrite) /\ uiQueue # <<>> /\ uiQueue' = Tail(uiQueue)
        /\ overtaken' = (overtaken \/ Tail(uiQueue) # <<>>) /\ pending' = d.prev
    BY <1>1 DEF Inv, UiInv, UiTyped, UiWriteFails
  <1>3. ~overtaken /\ Tail(uiQueue) = <<>>
    BY <1>2
  <1>4. bus' = bus
    BY DEF UiWriteFails, page
  <1>5. Len(uiQueue) = 1 /\ Shifted(uiQueue, Tail(uiQueue))
    BY <1>2, <1>3, TailIs
  <1>6. DOMAIN uiQueue = 1 .. 1
    BY <1>5 DEF Shifted
  <1>7. d.prev = bus
    <2>1. \A j \in Saves(uiQueue) : 1 <= j
      BY <1>6 DEF Saves
    <2> QED  BY <1>1, <1>3, <2>1 DEF Inv, UiInv, BusShown
  <1>8. /\ d.places = [memory |-> IndexOf(sections, "memory"), io |-> IndexOf(sections, "io")]
        /\ \A s \in Settings \ d.changed : Live[s] = d.prev[s]
        /\ ~lost.ui => Matches(uiTable.idb) /\ SettingsOf(uiTable.idb.sections) = d.prev
    BY <1>1, <1>3, <1>5 DEF Inv, UiInv, LastSave
  <1>9. Live' = bus
    <2>1. Complete(sections) /\ Complete(sections') /\ bus \in Values
      BY <1>1 DEF Inv, MemoryTyped, Wrote
    <2>2. ASSUME NEW s \in Settings PROVE SettingIn(sections', s, bus[s]) = bus[s]
      <3>1. SettingIn(sections', s, bus[s]) =
              IF Held(sections', s) \in Byte THEN Held(sections', s) ELSE bus[s]
        BY <2>1, SettingIs
      <3>2. CASE s \in d.changed
        <4>1. Held(sections', s) = bus[s]
          BY <1>1, <1>7, <1>8, <3>2 DEF Wrote, PlacesIn
        <4> QED  BY <3>1, <4>1
      <3>3. CASE s \notin d.changed
        <4>1. Held(sections', s) = Held(sections, s)
          BY <1>1, <3>3 DEF Wrote
        <4>2. SettingIn(sections, s, bus[s]) =
                IF Held(sections, s) \in Byte THEN Held(sections, s) ELSE bus[s]
          BY <2>1, SettingIs
        <4>3. Live[s] = SettingIn(sections, s, bus[s])
          BY DEF Live
        <4>4. Live[s] = bus[s]
          BY <1>7, <1>8, <3>3
        <4> QED  BY <3>1, <4>1, <4>2, <4>3, <4>4
      <3> QED  BY <3>2, <3>3
    <2>3. Live' = [s \in Settings |-> SettingIn(sections', s, bus[s])]
      BY <1>4 DEF Live
    <2> QED  BY <2>1, <2>2, <2>3 DEF Values
  <1>10. Changed' = {}
    BY <1>2, <1>7, <1>9 DEF Changed
  <1> QED  BY <1>2, <1>3, <1>4, <1>7, <1>8, <1>9, <1>10

LEMMA UiWriteFailsKeeps ==
  ASSUME Inv, UiWriteFails
  PROVE  Inv'
  <1>1. uiQueue \in Seq(UiWrite) /\ uiQueue # <<>> /\ backend = "idb"
    BY DEF Inv, UiInv, UiTyped, MemoryTyped, UiWriteFails
  <1>2. Head(uiQueue) = uiQueue[1] /\ Head(uiQueue) \in UiWrite
        /\ Tail(uiQueue) \in Seq(UiWrite) /\ Shifted(uiQueue, Tail(uiQueue))
    BY <1>1, TailIs
  <1>3. /\ uiQueue' = Tail(uiQueue) /\ uiTable' = uiTable
        /\ UNCHANGED <<files, breakpoints, look, page, fileStore, bpStore, paused>>
        /\ bus' = bus /\ backend' = backend /\ theme' = theme /\ flush' = flush
    BY DEF UiWriteFails, page, look
  <1>4. CASE Head(uiQueue).save = NoSave
    <2>1. lost' = [lost EXCEPT !.ui = TRUE] /\ UNCHANGED <<sections, pending, overtaken>>
      BY <1>4 DEF UiWriteFails
    <2>2. uiTable' = [idb |-> uiTable'.idb, memory |-> uiTable'.memory]
          /\ Written(uiTable'.idb) /\ lost'.ui
      BY <1>3, <2>1 DEF Inv, UiInv, UiTyped, HistoryTyped
    <2>3. UiInv'
      BY <1>1, <1>2, <1>3, <1>4, <2>1, <2>2, Dequeued DEF Inv
    <2>4. lost'.files = lost.files /\ lost'.breakpoints = lost.breakpoints
          /\ lost' \in [ui : BOOLEAN, files : SUBSET FileId, breakpoints : BOOLEAN]
      BY <2>1 DEF Inv, HistoryTyped
    <2>5. FilesInv' /\ BpsInv'
      BY <1>3, <2>4, FilesUntouched, BpsUntouched DEF Inv
    <2>6. MemoryTyped' /\ HistoryTyped'
      BY <1>3, <2>1, <2>4 DEF Inv, MemoryTyped, HistoryTyped
    <2> QED  BY <2>3, <2>5, <2>6 DEF Inv
  <1>5. CASE Head(uiQueue).save # NoSave
    <2> DEFINE d == uiQueue[1].save
    <2>1. /\ d \in SaveData /\ 1 \in Saves(uiQueue)
          /\ Wrote(sections, d.changed, d.places, d.prev, sections')
      BY <1>5, UndoneSettings
    <2>2. lost' = lost /\ overtaken' \in BOOLEAN /\ pending' = d.prev
      BY <1>2, <1>5 DEF Inv, HistoryTyped, UiWriteFails
    <2>3. MemoryTyped'
      BY <1>3, <2>1, <2>2 DEF Inv, MemoryTyped, Wrote, SaveData
    <2>4. HistoryTyped' /\ FilesInv' /\ BpsInv'
      BY <1>3, <2>2, FilesUntouched, BpsUntouched DEF Inv, HistoryTyped
    <2>5. DefaultsHeld'
      <3>1. \A s \in Settings : Held(sections', s) = Held(sections, s) \/ Held(sections', s) \in Byte
        BY <2>1 DEF Wrote
      <3> QED  BY <1>3, <3>1 DEF Inv, UiInv, DefaultsHeld
    <2>6. UiTyped'
      BY <1>1, <1>2, <1>3 DEF Inv, UiInv, UiTyped
    <2> DEFINE t == Tail(uiQueue)
    <2>7. SavesTell'
      <3>1. ASSUME NEW i \in Saves(t)
            PROVE  SettingsOf(t[i].state.sections) = t[i].save.settings
        <4>1. i + 1 \in Saves(uiQueue) /\ t[i] = uiQueue[i + 1]
          BY <1>2, SavesBehind
        <4>2. SettingsOf(uiQueue[i + 1].state.sections) = uiQueue[i + 1].save.settings
          BY <4>1 DEF Inv, UiInv, SavesTell
        <4> HIDE DEF t
        <4> QED  BY <4>1, <4>2
      <3> HIDE DEF t
      <3>2. uiQueue' = t
        BY <1>3 DEF t
      <3> QED  BY <3>1, <3>2 DEF SavesTell, SettingsOf
    <2>8. BusShown' /\ Mirrored' /\ LastSave'
      <3>1. CASE overtaken'
        BY <3>1 DEF BusShown, Mirrored, LastSave
      <3>2. CASE ~overtaken'
        <4>1. /\ uiQueue' = <<>> /\ Live' = bus
              /\ ~lost.ui => Matches(uiTable.idb) /\ SettingsOf(uiTable.idb.sections) = bus
          BY <1>5, <3>2, FailedSave
        <4>2. Saves(<<>>) = {}
          BY DEF Saves
        <4>3. BusShown'
          BY <1>3, <4>1, <4>2 DEF BusShown
        <4>4. LastSave'
          <5>1. ~(Len(uiQueue') \in Saves(uiQueue'))
            BY <4>1, <4>2
          <5> QED  BY <5>1 DEF LastSave
        <4>5. Says(uiTable.idb, sections', files', theme', flush') <=>
                Says(uiTable.idb, sections, files, theme, flush)
          BY <1>3, <2>1 DEF Says, Wrote
        <4>6. ~lost'.ui => Says(uiTable'.idb, sections', files', theme', flush')
                           /\ SettingsOf(uiTable'.idb.sections) = Live'
          BY <1>3, <2>2, <4>1, <4>5 DEF Matches
        <4>7. Mirrored'
          BY <4>1, <4>6 DEF Mirrored, Matches, SettingsOf
        <4> QED  BY <4>3, <4>4, <4>7
      <3> QED  BY <3>1, <3>2
    <2> QED  BY <2>3, <2>4, <2>5, <2>6, <2>7, <2>8 DEF Inv, UiInv
  <1> QED  BY <1>4, <1>5

LEMMA FileWriteEndsKeeps ==
  ASSUME Inv, FileWriteEnds
  PROVE  Inv'
  <1> DEFINE q == fileQueue
             t == Tail(fileQueue)
             w == Head(fileQueue)
  <1>1. q \in Seq(FileWrite) /\ q # <<>> /\ backend = "idb"
    BY DEF Inv, FilesInv, FilesTyped, MemoryTyped, FileWriteEnds
  <1>2. /\ t \in Seq(FileWrite) /\ Shifted(q, t) /\ w = q[1] /\ w \in FileWrite
        /\ 1 \in DOMAIN q
    BY <1>1, TailIs
  <1>3. w.id \in FileId /\ w.file \in File \cup {Missing} /\ (w.file # Missing => w.file.id = w.id)
    BY <1>2 DEF FileWrite
  <1>4. /\ fileQueue' = t
        /\ UNCHANGED <<sections, files, breakpoints, look, pending, page, uiStore, bpStore,
                       overtaken, paused>>
        /\ bus' = bus /\ backend' = backend /\ theme' = theme /\ flush' = flush
    BY DEF FileWriteEnds, page, look
  <1>5. \/ /\ fileTable' = [fileTable EXCEPT !.idb[w.id] = w.file]
           /\ lost' = [lost EXCEPT !.files = @ \ {w.id}]
        \/ /\ fileTable' = fileTable
           /\ lost' = [lost EXCEPT !.files = @ \cup {w.id}]
    BY DEF FileWriteEnds
  <1> HIDE DEF t, w
  <1>6. /\ lost' \in [ui : BOOLEAN, files : SUBSET FileId, breakpoints : BOOLEAN]
        /\ lost'.ui = lost.ui /\ lost'.breakpoints = lost.breakpoints
    BY <1>3, <1>5 DEF Inv, HistoryTyped
  <1>7. fileTable.idb \in Tables /\ fileTable.memory \in Tables
        /\ fileTable = [idb |-> fileTable.idb, memory |-> fileTable.memory]
    BY DEF Inv, FilesInv, FilesTyped
  <1>8. fileTable' \in [idb : Tables, memory : Tables]
        /\ \A x \in FileId \ {w.id} : fileTable'.idb[x] = fileTable.idb[x]
    <2>1. CASE fileTable' = fileTable
      BY <1>7, <2>1
    <2>2. CASE fileTable' = [fileTable EXCEPT !.idb[w.id] = w.file]
      <3> DEFINE m == [fileTable.idb EXCEPT ![w.id] = w.file]
      <3>1. m \in Tables /\ \A x \in FileId \ {w.id} : m[x] = fileTable.idb[x]
        BY <1>3, <1>7 DEF Tables
      <3>2. fileTable' = [fileTable EXCEPT !.idb = m]
        BY <2>2
      <3> HIDE DEF m
      <3>3. fileTable' = [idb |-> m, memory |-> fileTable.memory]
        BY <1>7, <3>2
      <3> QED  BY <1>7, <3>1, <3>3
    <2> QED  BY <1>5, <2>1, <2>2
  <1>9. fileTable'.idb[w.id] = w.file \/ w.id \in lost'.files
    <2>1. CASE /\ fileTable' = fileTable
               /\ lost' = [lost EXCEPT !.files = @ \cup {w.id}]
      BY <2>1 DEF Inv, HistoryTyped
    <2>2. CASE fileTable' = [fileTable EXCEPT !.idb[w.id] = w.file]
      BY <1>3, <1>7, <2>2 DEF Tables
    <2> QED  BY <1>5, <2>1, <2>2
  <1>10. \A x \in FileId \ {w.id} : x \notin lost'.files => x \notin lost.files
    BY <1>5 DEF Inv, HistoryTyped
  <1>11. FilesTyped'
    BY <1>1, <1>2, <1>4, <1>8 DEF FilesTyped
  <1>12. \A x : InMemory(x)' = InMemory(x)
    BY <1>4 DEF InMemory
  <1>13. ASSUME NEW x \in FileId, NEW i \in DOMAIN t, t[i].id = x,
                \A j \in DOMAIN t : j > i => t[j].id # x
         PROVE  t[i].file = InMemory(x)
    <2>1. i + 1 \in DOMAIN q /\ t[i] = q[i + 1] /\ i \in Nat \ {0}
      BY <1>2 DEF Shifted
    <2>2. ASSUME NEW j \in DOMAIN q, j > i + 1 PROVE q[j].id # x
      <3>1. j \in Nat /\ j # 1 /\ j - 1 > i
        BY <1>2, <2>1, <2>2 DEF Shifted
      <3>2. j - 1 \in DOMAIN t /\ q[j] = t[j - 1]
        BY <1>2, <3>1 DEF Shifted
      <3> QED  BY <1>13, <3>1, <3>2
    <2> QED  BY <1>1, <1>13, <2>1, <2>2 DEF Inv, FilesInv, FilesMirrored
  <1>14. ASSUME NEW x \in FileId, x \notin Ids(t), x \notin lost'.files
         PROVE  fileTable'.idb[x] = InMemory(x)
    <2>1. ASSUME NEW j \in DOMAIN q, j > 1 PROVE q[j].id # x
      <3>1. j - 1 \in DOMAIN t /\ q[j] = t[j - 1]
        BY <1>2, <2>1 DEF Shifted
      <3> QED  BY <1>14, <3>1 DEF Ids
    <2>2. CASE x = w.id
      <3>1. q[1].file = InMemory(x)
        BY <1>1, <1>2, <2>1, <2>2 DEF Inv, FilesInv, FilesMirrored
      <3> QED  BY <1>2, <1>9, <1>14, <2>2, <3>1
    <2>3. CASE x # w.id
      <3>1. x \notin Ids(q)
        <4>1. \A j \in DOMAIN q : j = 1 \/ j > 1
          BY <1>2 DEF Shifted
        <4> QED  BY <1>2, <2>1, <2>3, <4>1 DEF Ids
      <3>2. fileTable.idb[x] = InMemory(x)
        BY <1>1, <1>10, <1>14, <2>3, <3>1 DEF Inv, FilesInv, FilesMirrored
      <3> QED  BY <1>8, <2>3, <3>2
    <2> QED  BY <2>2, <2>3
  <1>15. FilesMirrored'
    BY <1>4, <1>12, <1>13, <1>14 DEF FilesMirrored
  <1>16. UiInv' /\ BpsInv'
    BY <1>4, <1>6, UiUntouched, BpsUntouched DEF Inv
  <1>17. MemoryTyped' /\ HistoryTyped'
    BY <1>4, <1>6 DEF Inv, MemoryTyped, HistoryTyped
  <1> QED  BY <1>11, <1>15, <1>16, <1>17 DEF Inv, FilesInv

LEMMA BpWriteEndsKeeps ==
  ASSUME Inv, BpWriteEnds
  PROVE  Inv'
  <1> DEFINE q == bpQueue
             t == Tail(bpQueue)
             w == Head(bpQueue)
  <1>1. q \in Seq(Seq(KnownBp)) /\ q # <<>> /\ backend = "idb"
    BY DEF Inv, BpsInv, BpsTyped, MemoryTyped, BpWriteEnds
  <1>2. /\ t \in Seq(Seq(KnownBp)) /\ Shifted(q, t) /\ w = q[1] /\ w \in Seq(KnownBp)
        /\ t = <<>> <=> Len(q) = 1
    BY <1>1, TailIs
  <1>3. w \in Seq(Breakpoint)
    BY <1>2 DEF KnownBp
  <1>4. /\ bpQueue' = t
        /\ UNCHANGED <<sections, files, breakpoints, look, pending, page, uiStore, fileStore,
                       overtaken, paused>>
        /\ bus' = bus /\ backend' = backend /\ theme' = theme /\ flush' = flush
    BY DEF BpWriteEnds, page, look
  <1>5. \/ /\ bpTable' = [bpTable EXCEPT !.idb = w]
           /\ lost' = [lost EXCEPT !.breakpoints = FALSE]
        \/ /\ bpTable' = bpTable
           /\ lost' = [lost EXCEPT !.breakpoints = TRUE]
    BY DEF BpWriteEnds
  <1> HIDE DEF t, w
  <1>6. /\ lost' \in [ui : BOOLEAN, files : SUBSET FileId, breakpoints : BOOLEAN]
        /\ lost'.ui = lost.ui /\ lost'.files = lost.files
    BY <1>5 DEF Inv, HistoryTyped
  <1>7. /\ bpTable' \in [idb : Seq(Breakpoint), memory : Seq(Breakpoint)]
        /\ bpTable'.idb = w \/ lost'.breakpoints
    BY <1>3, <1>5 DEF Inv, BpsInv, BpsTyped, HistoryTyped
  <1>8. BpsTyped'
    BY <1>1, <1>2, <1>4, <1>7 DEF BpsTyped
  <1>9. q[Len(q)] = breakpoints
    BY <1>1 DEF Inv, BpsInv, BreakpointsMirrored
  <1>10. t # <<>> => t[Len(t)] = breakpoints
    <2>1. t # <<>> => Len(t) \in DOMAIN t /\ Len(t) + 1 = Len(q)
      BY <1>2 DEF Shifted
    <2> QED  BY <1>2, <1>9, <2>1 DEF Shifted
  <1>11. t = <<>> /\ ~lost'.breakpoints => ReconcileBreakpoints(bpTable'.idb) = breakpoints
    <2> SUFFICES ASSUME t = <<>>, ~lost'.breakpoints
                 PROVE  ReconcileBreakpoints(bpTable'.idb) = breakpoints
      OBVIOUS
    <2>1. bpTable'.idb = w /\ w = breakpoints
      BY <1>2, <1>7, <1>9
    <2>2. ReconcileBreakpoints(w) = w
      BY <1>2, <1>3, BreakpointsRead
    <2> QED  BY <2>1, <2>2
  <1>12. BreakpointsMirrored'
    BY <1>4, <1>10, <1>11 DEF BreakpointsMirrored
  <1>13. UiInv' /\ FilesInv'
    BY <1>4, <1>6, UiUntouched, FilesUntouched DEF Inv
  <1>14. MemoryTyped' /\ HistoryTyped'
    BY <1>4, <1>6 DEF Inv, MemoryTyped, HistoryTyped
  <1> QED  BY <1>8, <1>12, <1>13, <1>14 DEF Inv, BpsInv

-----------------------------------------------------------------------------
(* Every step. *)

LEMMA NextKeeps ==
  ASSUME Inv, [Next]_vars
  PROVE  Inv'
  <1>1. CASE Stage
    BY <1>1, StageKeeps
  <1>2. CASE Verb
    BY <1>2, EditKeeps, SaveKeeps DEF Verb
  <1>3. CASE ColdBoot
    <2>1. PICK ui : ui = uiTable.idb
      OBVIOUS
    <2>2. Reload(ui) /\ Written(ui) /\ TablesTyped
      BY <1>3, <2>1 DEF ColdBoot, Inv, UiInv, UiTyped, FilesInv, FilesTyped, BpsInv, BpsTyped,
                        TablesTyped
    <2> QED  BY <2>2, Reloads
  <1>4. CASE UiWriteLands
    BY <1>4, UiWriteLandsKeeps
  <1>5. CASE UiWriteFails
    BY <1>5, UiWriteFailsKeeps
  <1>6. CASE FileWriteEnds
    BY <1>6, FileWriteEndsKeeps
  <1>7. CASE BpWriteEnds
    BY <1>7, BpWriteEndsKeeps
  <1>8. CASE UNCHANGED vars
    <2>1. /\ UNCHANGED <<sections, files, breakpoints, look, pending, page, uiStore, fileStore,
                         bpStore, history, paused>>
          /\ bus' = bus /\ backend' = backend /\ theme' = theme /\ flush' = flush
          /\ lost' = lost /\ overtaken' = overtaken
      BY <1>8 DEF vars, page, history, look
    <2>2. UiInv' /\ FilesInv' /\ BpsInv'
      BY <2>1, UiUntouched, FilesUntouched, BpsUntouched DEF Inv
    <2>3. MemoryTyped' /\ HistoryTyped'
      BY <2>1 DEF Inv, MemoryTyped, HistoryTyped
    <2> QED  BY <2>2, <2>3 DEF Inv
  <1> QED  BY <1>1, <1>2, <1>3, <1>4, <1>5, <1>6, <1>7, <1>8 DEF Next

(* Memory, tables and queues stay well formed, and agree with each other, through    *)
(* verbs, landed and failed writes, saves and reloads in any order. *)
THEOREM PersistInvariant == Spec => []Inv
  <1>1. Init => Inv
    BY Starts
  <1>2. Inv /\ [Next]_vars => Inv'
    BY NextKeeps
  <1> QED  BY <1>1, <1>2, PTL DEF Spec

(* What the store holds is of the kinds that its parts expect: three settings that   *)
(* a byte can hold, known files and breakpoints, a known theme. *)
THEOREM PersistTypes == Spec => []TypeOK
  <1>1. Inv => TypeOK
    <2> SUFFICES ASSUME Inv PROVE TypeOK
      OBVIOUS
    <2>1. MemoryTyped /\ DefaultsHeld
      BY DEF Inv, UiInv
    <2>2. Live \in Values /\ bus \in Values /\ pending \in Values
      BY <2>1, LiveIs DEF MemoryTyped
    <2>3. \A i \in DOMAIN files : files[i].id \in FileId
      <3>1. \A i \in DOMAIN files : files[i] \in File
        BY <2>1 DEF MemoryTyped
      <3> QED  BY <3>1 DEF File
    <2>4. \A i \in DOMAIN breakpoints : breakpoints[i].id \in BpId
      <3>1. \A i \in DOMAIN breakpoints : breakpoints[i] \in KnownBp
        BY <2>1 DEF MemoryTyped
      <3> QED  BY <3>1 DEF KnownBp, Breakpoint
    <2> QED  BY <2>1, <2>2, <2>3, <2>4 DEF TypeOK, MemoryTyped, Values
  <1> QED  BY <1>1, PersistInvariant, PTL

LEMMA RegistryIsListed ==
  Cardinality(ToSet(Registry)) = Len(Registry)
  <1> DEFINE r == [i \in 1 .. Len(Registry) |-> NewSection(Registry[i])]
  <1>1. Registry \in Seq(STRING) /\ Len(Registry) \in Nat /\ IsInjective(Registry)
        /\ DOMAIN Registry = 1 .. Len(Registry)
    BY ReconcileAssumption
  <1>2. \A i \in 1 .. Len(Registry) : r[i] \in Section /\ r[i].id = Registry[i]
    BY <1>1, SectionFacts DEF NewSection
  <1>3. r \in Seq(Section) /\ Len(r) = Len(Registry) /\ DOMAIN r = 1 .. Len(Registry)
    BY <1>1, <1>2
  <1> HIDE DEF r
  <1>4. IdsOf(r) = Registry
    BY <1>1, <1>2, <1>3 DEF IdsOf
  <1>5. Distinct(r) /\ Ids(r) = ToSet(Registry)
    BY <1>1, <1>2, <1>3, <1>4, ToSetIs DEF Distinct, Ids
  <1> QED  BY <1>3, <1>5, AsManyIds

(* However old the stored record and however the user drags, the page shows every    *)
(* section of the registry once. *)
THEOREM PersistEverySectionOnce == Spec => []EverySectionOnce
  <1>1. Inv => EverySectionOnce
    <2> SUFFICES ASSUME Inv PROVE EverySectionOnce
      OBVIOUS
    <2>1. sections \in Seq(Section) /\ Distinct(sections) /\ Ids(sections) = ToSet(Registry)
      BY DEF Inv, MemoryTyped, Complete
    <2>2. Cardinality(ToSet(Registry)) = Len(sections)
      BY <2>1, AsManyIds
    <2>3. Cardinality(ToSet(Registry)) = Len(Registry)
      BY RegistryIsListed
    <2> QED  BY <2>1, <2>2, <2>3 DEF EverySectionOnce
  <1> QED  BY <1>1, PersistInvariant, PTL

(* A file and the order of the files are stored apart: whichever of the two writes   *)
(* a reload cut off, the next page shows every stored file once. *)
THEOREM PersistTornSaveKeepsFiles == Spec => []TornSaveKeepsFiles
  <1>1. Inv => TornSaveKeepsFiles
    <2> SUFFICES ASSUME Inv PROVE TornSaveKeepsFiles
      OBVIOUS
    <2>1. PICK table, ui, b : table = fileTable.idb /\ ui = uiTable.idb
                              /\ b = ReconcileFiles(table, ui)
      OBVIOUS
    <2>2. table \in Tables /\ ui.fileOrder \in Seq(Nat) /\ IsInjective(ui.fileOrder)
      BY <2>1 DEF Inv, FilesInv, FilesTyped, UiInv, UiTyped, Written
    <2>3. b \in Seq(File) /\ Distinct(b) /\ Ids(b) = Present(table)
      BY <2>1, <2>2, FilesRead
    <2>4. Cardinality(Ids(b)) = Len(b)
      BY <2>3, AsManyIds
    <2> QED  BY <2>1, <2>3, <2>4 DEF TornSaveKeepsFiles, Present
  <1> QED  BY <1>1, PersistInvariant, PTL

(* A reload shows what the page shows: when the writes of a table have ended and the *)
(* last of them did not fail, booting from it gives back what memory holds. *)
THEOREM PersistReloadIsIdentity == Spec => []ReloadIsIdentity
  <1>1. Inv => ReloadIsIdentity
    <2> SUFFICES ASSUME Inv, backend = "idb" PROVE ReloadIsIdentity
      BY DEF ReloadIsIdentity
    <2>1. PICK table, ui, b : table = fileTable.idb /\ ui = uiTable.idb
                              /\ b = ReconcileFiles(table, ui)
      OBVIOUS
    <2>2. table \in Tables /\ ui.fileOrder \in Seq(Nat) /\ IsInjective(ui.fileOrder)
      BY <2>1 DEF Inv, FilesInv, FilesTyped, UiInv, UiTyped, Written
    <2>3. ASSUME uiQueue = <<>>, ~lost.ui, ~overtaken
          PROVE  Says(ui, sections, files, theme, flush) /\ SettingsOf(ui.sections) = Live
      BY <2>1, <2>3 DEF Inv, UiInv, Mirrored, Matches
    <2>4. ASSUME fileQueue = <<>>, lost.files = {},
                 IdsOf(files) = FileOrderOf(Ids(files), ui.fileOrder)
          PROVE  b = files
      <3>1. files \in Seq(File) /\ Distinct(files) /\ HaveIds(File, Nat) /\ HaveIds(File, FileId)
            /\ Missing \notin File
        BY FileFacts DEF Inv, MemoryTyped
      <3>2. \A id \in Ids(files) : ItemWith(files, id) \in File /\ id \in FileId
        <4>1. \A id \in Ids(files) : ItemWith(files, id) \in File /\ ItemWith(files, id).id = id
          BY <3>1, ItemIs
        <4>2. \A x \in File : x.id \in FileId
          BY DEF File
        <4> QED  BY <4>1, <4>2
      <3>3. \A id \in FileId : table[id] = InMemory(id)
        BY <2>1, <2>4 DEF Inv, FilesInv, FilesMirrored, Ids
      <3>4. Present(table) = Ids(files)
        BY <3>1, <3>2, <3>3 DEF Present, InMemory
      <3>5. b \in Seq(File) /\ IdsOf(b) = FileOrderOf(Present(table), ui.fileOrder)
            /\ \A id \in Present(table) : ItemWith(b, id) = table[id]
        BY <2>1, <2>2, FilesRead
      <3>6. IdsOf(b) = IdsOf(files)
        BY <2>4, <3>4, <3>5
      <3>7. \A id \in Ids(files) : ItemWith(b, id) = ItemWith(files, id)
        BY <3>2, <3>3, <3>4, <3>5 DEF InMemory
      <3> QED  BY <3>1, <3>5, <3>6, <3>7, SameItems
    <2>5. bpQueue = <<>> /\ ~lost.breakpoints => ReconcileBreakpoints(bpTable.idb) = breakpoints
      BY DEF Inv, BpsInv, BreakpointsMirrored
    <2> QED  BY <2>1, <2>3, <2>4, <2>5 DEF ReloadIsIdentity, Booted, Says, SettingsOf
  <1> QED  BY <1>1, PersistInvariant, PTL

(* The page that a save reloads builds its bus from what the user saved, whatever    *)
(* was written before it and whatever is still in flight. *)
THEOREM PersistSavedSettingsAreBooted == Spec => SavedSettingsAreBooted
  <1>1. ASSUME Inv, UiWriteLands, Head(uiQueue).save # NoSave, backend' = "idb"
        PROVE  bus' = Head(uiQueue).save.settings
    <2>1. uiQueue \in Seq(UiWrite) /\ uiQueue # <<>>
      BY <1>1 DEF Inv, UiInv, UiTyped, UiWriteLands
    <2>2. Head(uiQueue) = uiQueue[1] /\ 1 \in DOMAIN uiQueue
      BY <2>1, TailIs
    <2>3. SettingsOf(uiQueue[1].state.sections) = uiQueue[1].save.settings
      BY <1>1, <2>2 DEF Inv, UiInv, SavesTell, Saves
    <2>4. bus' = SettingsOf(uiQueue[1].state.sections)
      BY <1>1, <2>2 DEF UiWriteLands, Reload, Booted, SettingsOf
    <2> QED  BY <2>2, <2>3, <2>4
  <1>2. Inv /\ [Next]_vars =>
          [(UiWriteLands /\ Head(uiQueue).save # NoSave /\ backend' = "idb")
             => bus' = Head(uiQueue).save.settings]_vars
    BY <1>1
  <1> QED  BY <1>2, PersistInvariant, PTL DEF Spec, SavedSettingsAreBooted

(* A save that fails is undone: the settings shown are those of the bus again, and   *)
(* nothing is left to save. *)
THEOREM PersistFailedSaveIsUndone == Spec => FailedSaveIsUndone
  <1>1. Inv /\ [Next]_vars =>
          [(UiWriteFails /\ Head(uiQueue).save # NoSave /\ ~overtaken')
             => Live' = bus /\ Changed' = {}]_vars
    BY FailedSave
  <1> QED  BY <1>1, PersistInvariant, PTL DEF Spec, FailedSaveIsUndone

=============================================================================
