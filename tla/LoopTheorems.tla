---------------------------- MODULE LoopTheorems ----------------------------
(***************************************************************************)
(* What is true of every loop that gets nearer to its end at each turn,    *)
(* and of every ascending table: the induction that the proofs about the   *)
(* rings' binary searches share.                                           *)
(*                                                                         *)
(* An induction over n is by the least counterexample; that one exists is  *)
(* the library's theorem about well-founded orders.                        *)
(***************************************************************************)
EXTENDS Integers, WellFoundedInduction, TLAPS

(* A set of numbers that is not empty has a least one. *)
LEMMA Least ==
  ASSUME NEW T, T \subseteq Nat, T # {}
  PROVE  \E n \in T : \A m \in T : n <= m
  <1> DEFINE R == OpToRel(<, Nat)
  <1>1. IsWellFoundedOn(R, Nat)
    BY NatLessThanWellFounded
  <1>2. \A m, n \in Nat : m < n => <<m, n>> \in R
    BY DEF OpToRel
  <1> HIDE DEF R
  <1>3. \E n \in T : \A m \in T : <<m, n>> \notin R
    BY <1>1, WFMin, Zenon
  <1>4. PICK n \in T : \A m \in T : <<m, n>> \notin R
    BY <1>3
  <1>5. ASSUME NEW m \in T PROVE n <= m
    <2>1. m \in Nat /\ n \in Nat
      OBVIOUS
    <2>2. ~(m < n)
      BY <1>2, <1>4, <2>1
    <2> QED  BY <2>1, <2>2
  <1> QED  BY <1>5

(* And one that is bounded has a greatest. *)
LEMMA Greatest ==
  ASSUME NEW N \in Nat, NEW T, T \subseteq 0 .. N, T # {}
  PROVE  \E n \in T : \A m \in T : m <= n
  <1> DEFINE U == {N - n : n \in T}
  <1>1. U \subseteq Nat /\ U # {}
    <2>1. \A n \in T : N - n \in Nat
      OBVIOUS
    <2> QED  BY <2>1
  <1>2. PICK u \in U : \A v \in U : u <= v
    <2> HIDE DEF U
    <2> QED  BY <1>1, Least
  <1>3. PICK n \in T : u = N - n
    OBVIOUS
  <1>4. ASSUME NEW m \in T PROVE m <= n
    <2>1. N - m \in U
      OBVIOUS
    <2>2. N - n <= N - m
      BY <1>2, <1>3, <2>1
    <2>3. m \in 0 .. N /\ n \in 0 .. N
      OBVIOUS
    <2> QED  BY <2>2, <2>3
  <1> QED  BY <1>4

(* A table whose neighbours ascend ascends. *)
LEMMA Ascends ==
  ASSUME NEW n \in Nat, NEW key \in [0 .. n - 1 -> Int],
         \A i \in 0 .. n - 2 : key[i] < key[i + 1]
  PROVE  \A i, j \in 0 .. n - 1 : i < j => key[i] < key[j]
  <1> DEFINE Bad == {j \in 0 .. n - 1 : \E i \in 0 .. j - 1 : ~(key[i] < key[j])}
  <1>0. Bad = {} => \A i, j \in 0 .. n - 1 : i < j => key[i] < key[j]
    <2> SUFFICES ASSUME Bad = {}, NEW i \in 0 .. n - 1, NEW j \in 0 .. n - 1, i < j
                 PROVE  key[i] < key[j]
      OBVIOUS
    <2>1. j \notin Bad
      <3> HIDE DEF Bad
      <3> QED  OBVIOUS
    <2>2. i \in 0 .. j - 1
      OBVIOUS
    <2> QED  BY <2>1, <2>2
  <1> SUFFICES ASSUME Bad # {} PROVE FALSE
    BY <1>0
  <1>1. PICK j \in Bad : \A m \in Bad : j <= m
    <2>1. Bad \subseteq Nat
      OBVIOUS
    <2> HIDE DEF Bad
    <2> QED  BY <2>1, Least
  <1>2. PICK i \in 0 .. j - 1 : ~(key[i] < key[j])
    OBVIOUS
  <1>3. j - 1 \in 0 .. n - 2 /\ i \in 0 .. n - 1 /\ (j - 1) + 1 = j
    OBVIOUS
  <1>4. key[j - 1] < key[j]
    BY <1>3
  <1>5. key[i] \in Int /\ key[j - 1] \in Int /\ key[j] \in Int
    BY <1>3
  <1>6. i # j - 1
    BY <1>2, <1>4
  <1>7. j - 1 \notin Bad
    BY <1>1, <1>3
  <1>8. key[i] < key[j - 1]
    BY <1>3, <1>6, <1>7
  <1> QED  BY <1>2, <1>4, <1>5, <1>8

(* A loop over W goes from w to next[w] until it is in stop, and w is at   *)
(* most size[w] turns from there.                                          *)
Descends(W, stop, next, N, size) ==
  /\ N \in Nat
  /\ size \in [W -> 0 .. N]
  /\ \A w \in W \ stop : next[w] \in W /\ size[next[w]] < size[w]

(* f[w] is what the loop that starts at w answers. *)
Runs(f, W, stop, next, result) ==
  \A w \in W : f[w] = IF w \in stop THEN result[w] ELSE f[next[w]]

(* A turn keeps inv, and where the loop stops inv makes its result good. *)
Keeps(inv, stop, next, result, good) ==
  \A w \in inv : IF w \in stop THEN result[w] \in good ELSE next[w] \in inv

(* A loop whose distance to its end falls at every turn has a result.      *)
LEMMA LoopEnds ==
  ASSUME NEW W, NEW stop, NEW next, NEW N, NEW size, Descends(W, stop, next, N, size),
         NEW result, NEW R, \A w \in W \cap stop : result[w] \in R
  PROVE  \E f \in [W -> R] : Runs(f, W, stop, next, result)
  <1> DEFINE Near(n)   == {w \in W : size[w] < n}
             Ends(n)   == \E f \in [Near(n) -> R] : \A w \in Near(n) :
                            f[w] = IF w \in stop THEN result[w] ELSE f[next[w]]
             Bad       == {n \in Nat : ~Ends(n)}
  <1>0. /\ N \in Nat /\ size \in [W -> 0 .. N]
        /\ \A w \in W : IF w \in stop THEN result[w] \in R
                                      ELSE next[w] \in W /\ size[next[w]] < size[w]
    BY DEF Descends
  <1>1. Ends(0)
    <2>1. Near(0) = {}
      BY <1>0
    <2>2. [w \in Near(0) |-> result[w]] \in [Near(0) -> R]
      BY <2>1
    <2> QED  BY <2>1, <2>2
  <1>2. ASSUME NEW n \in Nat, Ends(n) PROVE Ends(n + 1)
    <2>1. PICK f \in [Near(n) -> R] : \A w \in Near(n) :
                 f[w] = IF w \in stop THEN result[w] ELSE f[next[w]]
      BY <1>2
    <2> DEFINE g == [w \in Near(n + 1) |-> IF w \in stop THEN result[w] ELSE f[next[w]]]
    <2>2. ASSUME NEW w \in Near(n + 1), w \notin stop PROVE next[w] \in Near(n)
      <3>1. next[w] \in W /\ size[next[w]] < size[w] /\ size[w] < n + 1
        BY <1>0, <2>2
      <3>2. size[w] \in 0 .. N /\ size[next[w]] \in 0 .. N
        BY <1>0, <3>1
      <3> QED  BY <3>1, <3>2
    <2>3. Near(n) \subseteq Near(n + 1)
      BY <1>0
    <2>4. ASSUME NEW w \in Near(n + 1) PROVE g[w] \in R
      BY <1>0, <2>1, <2>2
    <2>5. ASSUME NEW w \in Near(n + 1) PROVE g[w] = IF w \in stop THEN result[w] ELSE g[next[w]]
      BY <2>1, <2>2, <2>3
    <2>6. g \in [Near(n + 1) -> R]
      BY <2>4
    <2> QED  BY <2>5, <2>6
  <1> HIDE DEF Ends
  <1>3. Bad = {}
    <2> SUFFICES ASSUME Bad # {} PROVE FALSE
      OBVIOUS
    <2>1. PICK n \in Bad : \A m \in Bad : n <= m
      BY Least
    <2>2. n # 0
      BY <1>1
    <2>3. n - 1 \in Nat /\ n - 1 \notin Bad
      BY <2>1, <2>2
    <2>4. Ends(n)
      BY <1>2, <2>3
    <2> QED  BY <2>4
  <1>4. Ends(N + 1)
    BY <1>0, <1>3
  <1>5. Near(N + 1) = W
    BY <1>0
  <1> QED  BY <1>4, <1>5 DEF Ends, Runs

(* What every turn of such a loop keeps holds where it ends. *)
LEMMA LoopKeeps ==
  ASSUME NEW W, NEW stop, NEW next, NEW N, NEW size, Descends(W, stop, next, N, size),
         NEW result, NEW f, Runs(f, W, stop, next, result),
         NEW inv, inv \subseteq W, NEW good, Keeps(inv, stop, next, result, good)
  PROVE  \A w \in inv : f[w] \in good
  <1> DEFINE Bad == {n \in Nat : \E w \in inv : size[w] = n /\ f[w] \notin good}
  <1> USE DEF Descends, Runs, Keeps
  <1>1. Bad = {}
    <2> SUFFICES ASSUME Bad # {} PROVE FALSE
      OBVIOUS
    <2>1. PICK n \in Bad : \A m \in Bad : n <= m
      BY Least
    <2>2. PICK w \in inv : size[w] = n /\ f[w] \notin good
      OBVIOUS
    <2>3. w \in W /\ w \notin stop
      BY <2>2
    <2>4. next[w] \in inv /\ f[next[w]] \notin good
      BY <2>2, <2>3
    <2>5. size[next[w]] \in Nat /\ size[next[w]] < n
      BY <2>2, <2>3, <2>4
    <2>6. size[next[w]] \in Bad
      BY <2>4, <2>5
    <2> QED  BY <2>1, <2>5, <2>6
  <1>2. ASSUME NEW w \in inv PROVE f[w] \in good
    <2>1. size[w] \in Nat
      OBVIOUS
    <2> QED  BY <1>1, <2>1
  <1> QED  BY <1>2

(* Counting up. *)
LEMMA Climbs ==
  ASSUME NEW N \in Nat, NEW T, 0 \in T, \A n \in 1 .. N : n - 1 \in T => n \in T
  PROVE  \A n \in 0 .. N : n \in T
  <1> DEFINE Bad == {n \in 0 .. N : n \notin T}
  <1> SUFFICES ASSUME Bad # {} PROVE FALSE
    OBVIOUS
  <1>1. PICK n \in Bad : \A m \in Bad : n <= m
    <2>1. Bad \subseteq Nat
      OBVIOUS
    <2> HIDE DEF Bad
    <2> QED  BY <2>1, Least
  <1>2. n \in 1 .. N /\ n - 1 \in 0 .. N /\ ~(n <= n - 1)
    OBVIOUS
  <1> QED  BY <1>1, <1>2

(* f is the history of a value that starts at base and that turn i takes   *)
(* from v to step[i][v].                                                   *)
IsHistory(f, N, base, step) ==
  f[0] = base /\ \A i \in 1 .. N : f[i] = step[i][f[i - 1]]

(* There is one. *)
LEMMA Iterates ==
  ASSUME NEW N \in Nat, NEW V, NEW base \in V, NEW step, step \in [1 .. N -> [V -> V]]
  PROVE  \E f \in [0 .. N -> V] : IsHistory(f, N, base, step)
  <1> DEFINE Goes(n, f) == IsHistory(f, n, base, step)
             Has(n) == \E f \in [0 .. n -> V] : Goes(n, f)
             T == {n \in 0 .. N : Has(n)}
  <1> USE DEF IsHistory
  <1>1. 0 \in T
    <2>1. [i \in 0 .. 0 |-> base] \in [0 .. 0 -> V] /\ Goes(0, [i \in 0 .. 0 |-> base])
      OBVIOUS
    <2>2. Has(0)
      BY <2>1
    <2> HIDE DEF Has
    <2> QED  BY <2>2
  <1>2. ASSUME NEW n \in 1 .. N, n - 1 \in T PROVE n \in T
    <2>1. PICK f \in [0 .. n - 1 -> V] : Goes(n - 1, f)
      BY <1>2
    <2> DEFINE g == [i \in 0 .. n |-> IF i = n THEN step[n][f[n - 1]] ELSE f[i]]
    <2>2. n - 1 \in 0 .. n - 1 /\ f[n - 1] \in V /\ step[n] \in [V -> V]
      BY <2>1
    <2>3. g \in [0 .. n -> V]
      <3>1. ASSUME NEW i \in 0 .. n PROVE g[i] \in V
        <4>1. i # n => i \in 0 .. n - 1
          OBVIOUS
        <4> QED  BY <2>1, <2>2, <4>1
      <3> QED  BY <3>1
    <2>4. g[0] = base
      BY <2>1
    <2>5. ASSUME NEW i \in 1 .. n PROVE g[i] = step[i][g[i - 1]]
      <3>1. i - 1 \in 0 .. n /\ i - 1 # n /\ g[i - 1] = f[i - 1]
        OBVIOUS
      <3>2. CASE i = n
        BY <3>1, <3>2
      <3>3. CASE i # n
        <4>1. i \in 1 .. n - 1 /\ g[i] = f[i]
          BY <3>3
        <4> QED  BY <2>1, <3>1, <4>1
      <3> QED  BY <3>2, <3>3
    <2> HIDE DEF g
    <2>6. Has(n)
      BY <2>3, <2>4, <2>5
    <2> HIDE DEF Has
    <2> QED  BY <2>6
  <1> HIDE DEF T
  <1>3. \A n \in 0 .. N : n \in T
    BY <1>1, <1>2, Climbs
  <1> QED  BY <1>3 DEF T
=============================================================================
