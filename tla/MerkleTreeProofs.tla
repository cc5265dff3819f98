--------------------------- MODULE MerkleTreeProofs ----------------------------
(***************************************************************************)
(* Proofs about the Merkle tree for any number of leaves and any hashes:   *)
(* the path of a leaf leads to the root from that leaf and from no other,  *)
(* no path at all leads there from a hash that is not a leaf's, the root   *)
(* of different events tells them and their order, and it is the root of   *)
(* the tree drawn from above.                                              *)
(*                                                                         *)
(* Inductions are over sets: that a property holds up to n is that the set *)
(* of the numbers which have it contains 0 and, with a number, the next    *)
(* (Induction).  It rests on the library's WFMin.                          *)
(***************************************************************************)
EXTENDS MerkleTree, WellFoundedInduction, SequenceTheorems, TLAPS

-------------------------------------------------------------------------------
(* Induction.                                                              *)

\* A set of natural numbers has a least one.
LEMMA LeastNumber ==
    ASSUME NEW T, T \subseteq Nat, T # {}
    PROVE  \E x \in T : \A y \in T : x <= y
<1> DEFINE R == {ss \in Nat \X Nat : ss[1] < ss[2]}
<1>1. IsWellFoundedOn(R, Nat)
  BY NatLessThanWellFounded DEF OpToRel
<1>2. \A x, y \in Nat : y < x => <<y, x>> \in R
  OBVIOUS
<1>3. \E x \in T : \A y \in T : ~(<<y, x>> \in R)
  <2> HIDE DEF R
  <2>1. QED
    BY <1>1, WFMin
<1>4. PICK x \in T : \A y \in T : ~(<<y, x>> \in R)
  BY <1>3
<1>5. \A y \in T : ~(y < x)
  BY <1>2, <1>4
<1>6. \A y \in T : x <= y
  BY <1>5
<1>7. QED
  BY <1>6

\* What holds of 0 and, with a number below n, of the next holds up to n.
LEMMA Induction ==
    ASSUME NEW n \in Nat, NEW T, 0 \in T, \A k \in 0 .. n - 1 : k \in T => k + 1 \in T
    PROVE  \A k \in 0 .. n : k \in T
<1> DEFINE Bad == {k \in 0 .. n : k \notin T}
<1> SUFFICES ASSUME Bad # {} PROVE FALSE
  OBVIOUS
<1>1. PICK x \in Bad : \A y \in Bad : x <= y
  BY LeastNumber, Bad \subseteq Nat
<1>2. x \in 1 .. n /\ x \notin T
  BY <1>1
<1>3. x - 1 \in 0 .. n - 1 /\ (x - 1) + 1 = x
  BY <1>2
<1>4. x - 1 \notin Bad
  BY <1>1, <1>3
<1>5. x - 1 \in T
  BY <1>3, <1>4
<1>6. QED
  BY <1>2, <1>3, <1>5

-------------------------------------------------------------------------------
(* The recursive functions satisfy their equations.                        *)

IsClimb(f, leafHash, path, n) ==
    f = [i \in 0 .. n |-> IF i = 0 THEN leafHash ELSE Turn(path, i, f[i - 1])]

LEMMA ClimbExists ==
    ASSUME NEW leafHash, NEW path, NEW n \in Nat
    PROVE  \E f : IsClimb(f, leafHash, path, n)
<1> DEFINE T == {k \in 0 .. n : \E f : IsClimb(f, leafHash, path, k)}
<1>1. 0 \in T
  <2>1. IsClimb([i \in 0 .. 0 |-> leafHash], leafHash, path, 0)
    BY DEF IsClimb
  <2>2. QED
    BY <2>1
<1>2. ASSUME NEW k \in 0 .. n - 1, k \in T
      PROVE  k + 1 \in T
  <2>1. PICK f : IsClimb(f, leafHash, path, k)
    BY <1>2
  <2> DEFINE g == [i \in 0 .. k + 1 |->
                      IF i = k + 1 THEN Turn(path, k + 1, f[k]) ELSE f[i]]
  <2>2. ASSUME NEW i \in 0 .. k + 1
        PROVE  g[i] = IF i = 0 THEN leafHash ELSE Turn(path, i, g[i - 1])
    <3>1. CASE i = k + 1
      BY <3>1
    <3>2. CASE i = 0
      BY <2>1, <3>2 DEF IsClimb
    <3>3. CASE i \in 1 .. k
      <4>1. f[i] = Turn(path, i, f[i - 1])
        BY <2>1, <3>3 DEF IsClimb
      <4>2. g[i] = f[i] /\ g[i - 1] = f[i - 1]
        BY <3>3
      <4>3. QED
        BY <3>3, <4>1, <4>2
    <3>4. QED
      BY <3>1, <3>2, <3>3
  <2>3. g = [i \in 0 .. k + 1 |-> g[i]]
    OBVIOUS
  <2>4. IsClimb(g, leafHash, path, k + 1)
    <3> HIDE DEF g
    <3>1. QED
      BY <2>2, <2>3 DEF IsClimb
  <2>5. QED
    BY <2>4
<1>3. \A k \in 0 .. n : k \in T
  <2> HIDE DEF T
  <2>1. QED
    BY <1>1, <1>2, Induction
<1>4. QED
  BY <1>3

LEMMA ClimbDef ==
    ASSUME NEW leafHash, NEW path, Len(path.hashes) \in Nat
    PROVE  /\ Climb(leafHash, path)[0] = leafHash
           /\ \A i \in 1 .. Len(path.hashes) :
                 Climb(leafHash, path)[i] = Turn(path, i, Climb(leafHash, path)[i - 1])
<1> DEFINE n == Len(path.hashes)
           C == Climb(leafHash, path)
<1>1. C = CHOOSE f : IsClimb(f, leafHash, path, n)
  BY DEF Climb, IsClimb
<1>2. \E f : IsClimb(f, leafHash, path, n)
  BY ClimbExists
<1>3. IsClimb(C, leafHash, path, n)
  <2> HIDE DEF C
  <2>1. QED
    BY <1>1, <1>2
<1>4. QED
  <2>1. n \in Nat
    OBVIOUS
  <2> HIDE DEF C, n
  <2>2. C = [i \in 0 .. n |-> IF i = 0 THEN leafHash ELSE Turn(path, i, C[i - 1])]
    BY <1>3 DEF IsClimb
  <2>3. C[0] = leafHash
    BY <2>1, <2>2
  <2>4. \A i \in 1 .. n : C[i] = Turn(path, i, C[i - 1])
    BY <2>1, <2>2
  <2>5. QED
    BY <2>3, <2>4 DEF C, n

IsTrees(f, leafHashes, n) ==
    f = [i \in 0 .. n |-> IF i = 0 THEN Bottom(leafHashes) ELSE Grow(f[i - 1])]

LEMMA TreesExist ==
    ASSUME NEW leafHashes, NEW n \in Nat
    PROVE  \E f : IsTrees(f, leafHashes, n)
<1> DEFINE T == {k \in 0 .. n : \E f : IsTrees(f, leafHashes, k)}
<1>1. 0 \in T
  <2>1. IsTrees([i \in 0 .. 0 |-> Bottom(leafHashes)], leafHashes, 0)
    BY DEF IsTrees
  <2>2. QED
    BY <2>1
<1>2. ASSUME NEW k \in 0 .. n - 1, k \in T
      PROVE  k + 1 \in T
  <2>1. PICK f : IsTrees(f, leafHashes, k)
    BY <1>2
  <2> DEFINE g == [i \in 0 .. k + 1 |->
                      IF i = k + 1 THEN Grow(f[k]) ELSE f[i]]
  <2>2. ASSUME NEW i \in 0 .. k + 1
        PROVE  g[i] = IF i = 0 THEN Bottom(leafHashes) ELSE Grow(g[i - 1])
    <3>1. CASE i = k + 1
      BY <3>1
    <3>2. CASE i = 0
      BY <2>1, <3>2 DEF IsTrees
    <3>3. CASE i \in 1 .. k
      <4>1. f[i] = Grow(f[i - 1])
        BY <2>1, <3>3 DEF IsTrees
      <4>2. g[i] = f[i] /\ g[i - 1] = f[i - 1]
        BY <3>3
      <4>3. QED
        BY <3>3, <4>1, <4>2
    <3>4. QED
      BY <3>1, <3>2, <3>3
  <2>3. g = [i \in 0 .. k + 1 |-> g[i]]
    OBVIOUS
  <2>4. IsTrees(g, leafHashes, k + 1)
    <3> HIDE DEF g
    <3>1. QED
      BY <2>2, <2>3 DEF IsTrees
  <2>5. QED
    BY <2>4
<1>3. \A k \in 0 .. n : k \in T
  <2> HIDE DEF T
  <2>1. QED
    BY <1>1, <1>2, Induction
<1>4. QED
  BY <1>3

LEMMA TreesDef ==
    ASSUME NEW leafHashes, Len(leafHashes) \in Nat
    PROVE  /\ Trees(leafHashes)[0] = Bottom(leafHashes)
           /\ \A i \in 1 .. Len(leafHashes) :
                 Trees(leafHashes)[i] = Grow(Trees(leafHashes)[i - 1])
<1> DEFINE n == Len(leafHashes)
           F == Trees(leafHashes)
<1>1. F = CHOOSE f : IsTrees(f, leafHashes, n)
  BY DEF Trees, IsTrees
<1>2. \E f : IsTrees(f, leafHashes, n)
  BY TreesExist
<1>3. IsTrees(F, leafHashes, n)
  <2> HIDE DEF F
  <2>1. QED
    BY <1>1, <1>2
<1>4. QED
  <2>1. n \in Nat
    OBVIOUS
  <2> HIDE DEF F, n
  <2>2. F = [i \in 0 .. n |-> IF i = 0 THEN Bottom(leafHashes) ELSE Grow(F[i - 1])]
    BY <1>3 DEF IsTrees
  <2>3. F[0] = Bottom(leafHashes)
    BY <2>1, <2>2
  <2>4. \A i \in 1 .. n : F[i] = Grow(F[i - 1])
    BY <2>1, <2>2
  <2>5. QED
    BY <2>3, <2>4 DEF F, n

-------------------------------------------------------------------------------
(* Paths.                                                                  *)

IsPath(path) ==
    /\ \E S : path.hashes \in Seq(S)
    /\ path.positions \in Seq({"L", "R"})
    /\ Len(path.hashes) = Len(path.positions)

\* Where the path leads from a leaf.
End(leafHash, path) == Climb(leafHash, path)[Len(path.hashes)]

\* Two paths that agree up to n lead through the same hashes up to n.
LEMMA ClimbAgrees ==
    ASSUME NEW leafHash, NEW p, NEW q, NEW n \in Nat,
           Len(p.hashes) \in Nat, Len(q.hashes) \in Nat,
           n <= Len(p.hashes), n <= Len(q.hashes),
           \A i \in 1 .. n : p.hashes[i] = q.hashes[i] /\ p.positions[i] = q.positions[i]
    PROVE  Climb(leafHash, p)[n] = Climb(leafHash, q)[n]
<1> DEFINE T == {k \in 0 .. n : Climb(leafHash, p)[k] = Climb(leafHash, q)[k]}
<1>1. 0 \in T
  BY ClimbDef
<1>2. ASSUME NEW k \in 0 .. n - 1, k \in T PROVE k + 1 \in T
  <2>1. k + 1 \in 1 .. Len(p.hashes) /\ k + 1 \in 1 .. Len(q.hashes) /\ k + 1 \in 1 .. n
    OBVIOUS
  <2>2. /\ Climb(leafHash, p)[k + 1] = Turn(p, k + 1, Climb(leafHash, p)[(k + 1) - 1])
        /\ Climb(leafHash, q)[k + 1] = Turn(q, k + 1, Climb(leafHash, q)[(k + 1) - 1])
    BY <2>1, ClimbDef
  <2>3. (k + 1) - 1 = k /\ Climb(leafHash, p)[k] = Climb(leafHash, q)[k]
    BY <1>2
  <2>4. \A h : Turn(p, k + 1, h) = Turn(q, k + 1, h)
    BY <2>1 DEF Turn
  <2>5. QED
    BY <2>1, <2>2, <2>3, <2>4
<1>3. \A k \in 0 .. n : k \in T
  <2> HIDE DEF T
  <2>1. QED
    BY <1>1, <1>2, Induction
<1>4. QED
  BY <1>3

\* The path q is p and one place more.
OneMore(p, q, hash, side) ==
    \E n \in Nat :
        /\ Len(p.hashes) = n /\ Len(q.hashes) = n + 1
        /\ \A i \in 1 .. n : p.hashes[i] = q.hashes[i] /\ p.positions[i] = q.positions[i]
        /\ q.hashes[n + 1] = hash /\ q.positions[n + 1] = side

LEMMA ClimbOneMore ==
    ASSUME NEW p, NEW q, NEW hash, NEW side, OneMore(p, q, hash, side), NEW leafHash
    PROVE  End(leafHash, q) = IF side = "L" THEN HashPair(hash, End(leafHash, p))
                              ELSE HashPair(End(leafHash, p), hash)
<1>1. PICK n \in Nat :
          /\ Len(p.hashes) = n /\ Len(q.hashes) = n + 1
          /\ \A i \in 1 .. n : p.hashes[i] = q.hashes[i] /\ p.positions[i] = q.positions[i]
          /\ q.hashes[n + 1] = hash /\ q.positions[n + 1] = side
  BY DEF OneMore
<1>2. Climb(leafHash, p)[n] = Climb(leafHash, q)[n]
  <2>1. /\ Len(p.hashes) \in Nat /\ n <= Len(p.hashes)
        /\ Len(q.hashes) \in Nat /\ n <= Len(q.hashes)
    BY <1>1
  <2>2. QED
    BY <1>1, <2>1, ClimbAgrees
<1>3. Climb(leafHash, q)[n + 1] = Turn(q, n + 1, Climb(leafHash, q)[(n + 1) - 1])
  <2>1. Len(q.hashes) \in Nat /\ n + 1 \in 1 .. Len(q.hashes)
    BY <1>1
  <2>2. \A i \in 1 .. Len(q.hashes) :
            Climb(leafHash, q)[i] = Turn(q, i, Climb(leafHash, q)[i - 1])
    BY <2>1, ClimbDef
  <2>3. QED
    BY <2>1, <2>2
<1>4. (n + 1) - 1 = n
  OBVIOUS
<1>5. End(leafHash, q) = Turn(q, n + 1, End(leafHash, p))
  BY <1>1, <1>2, <1>3, <1>4 DEF End
<1>6. QED
  BY <1>1, <1>5 DEF Turn

\* A path that has been pushed one sibling is one place longer.
LEMMA PathPushed ==
    ASSUME NEW p, IsPath(p), NEW hash, NEW side \in {"L", "R"}, NEW q,
           q = Pushed(p, hash, side)
    PROVE  /\ IsPath(q)
           /\ OneMore(p, q, hash, side)
<1>0. q.hashes = Append(p.hashes, hash) /\ q.positions = Append(p.positions, side)
  BY DEF Pushed
<1>1. PICK S : p.hashes \in Seq(S)
  BY DEF IsPath
<1>2. PICK n \in Nat : Len(p.hashes) = n /\ Len(p.positions) = n
  BY <1>1 DEF IsPath
<1>3. /\ q.hashes \in Seq(S \cup {hash}) /\ Len(q.hashes) = n + 1
      /\ \A i \in 1 .. n : q.hashes[i] = p.hashes[i]
      /\ q.hashes[n + 1] = hash
  <2>1. PICK s \in Seq(S \cup {hash}) : s = p.hashes
    BY <1>1, SeqMonotonic
  <2>2. /\ Append(s, hash) \in Seq(S \cup {hash})
        /\ Len(Append(s, hash)) = Len(s) + 1
        /\ \A i \in 1 .. Len(s) : Append(s, hash)[i] = s[i]
        /\ Append(s, hash)[Len(s) + 1] = hash
    BY AppendProperties
  <2>3. QED
    BY <1>0, <1>2, <2>1, <2>2
<1>4. /\ q.positions \in Seq({"L", "R"}) /\ Len(q.positions) = n + 1
      /\ \A i \in 1 .. n : q.positions[i] = p.positions[i]
      /\ q.positions[n + 1] = side
  <2>1. PICK s \in Seq({"L", "R"}) : s = p.positions
    BY DEF IsPath
  <2>2. /\ Append(s, side) \in Seq({"L", "R"})
        /\ Len(Append(s, side)) = Len(s) + 1
        /\ \A i \in 1 .. Len(s) : Append(s, side)[i] = s[i]
        /\ Append(s, side)[Len(s) + 1] = side
    BY AppendProperties
  <2>3. QED
    BY <1>0, <1>2, <2>1, <2>2
<1>5. IsPath(q)
  BY <1>3, <1>4 DEF IsPath
<1>6. OneMore(p, q, hash, side)
  BY <1>2, <1>3, <1>4 DEF OneMore
<1>7. QED
  BY <1>5, <1>6

\* It leads one node further.
LEMMA ClimbPushed ==
    ASSUME NEW p, IsPath(p), NEW hash, NEW side \in {"L", "R"}, NEW q,
           q = Pushed(p, hash, side)
    PROVE  /\ IsPath(q)
           /\ \A leafHash : End(leafHash, q) =
                 IF side = "L" THEN HashPair(hash, End(leafHash, p))
                 ELSE HashPair(End(leafHash, p), hash)
<1>1. IsPath(q) /\ OneMore(p, q, hash, side)
  BY PathPushed
<1>2. \A leafHash : End(leafHash, q) = IF side = "L" THEN HashPair(hash, End(leafHash, p))
                                      ELSE HashPair(End(leafHash, p), hash)
  BY <1>1, ClimbOneMore
<1>3. QED
  BY <1>1, <1>2

-------------------------------------------------------------------------------
(* Levels.                                                                 *)

IsLevel(level, m) == m \in Nat \ {0} /\ Len(level) = m /\ DOMAIN level = 1 .. m

Half(m) == (m + 1) \div 2

LEMMA HalfProperties ==
    ASSUME NEW m \in Nat, m >= 2
    PROVE  /\ Half(m) \in 1 .. m - 1
           /\ \A j \in 1 .. Half(m) : 2 * j - 1 \in 1 .. m /\ (2 * j - 1 < m => 2 * j \in 1 .. m)
           /\ \A i \in 1 .. m : Half(i) \in 1 .. Half(m)
           /\ \A i \in 1 .. m : i % 2 = 1 => 2 * Half(i) - 1 = i
           /\ \A i \in 1 .. m : i % 2 # 1 => 2 * Half(i) - 1 = i - 1 /\ i - 1 \in 1 .. m /\ i - 1 < m
           /\ \A j \in 1 .. Half(m) : Half(2 * j - 1) = j /\ Half(2 * j) = j
BY DEF Half

\* The two nodes that are paired under the j-th node of the next level.
LEMMA NextLevelShape ==
    ASSUME NEW tree, NEW m \in Nat, m >= 2, IsLevel(tree.level, m),
           NEW next, next = NextLevel(tree)
    PROVE  /\ IsLevel(next.level, Half(m))
           /\ \A j \in 1 .. Half(m) :
                 /\ next.level[j].hash = HashPair(tree.level[2 * j - 1].hash,
                                                 RightOf(tree.level, 2 * j - 1).hash)
                 /\ next.level[j].indices = tree.level[2 * j - 1].indices
                                            \cup RightOf(tree.level, 2 * j - 1).indices
<1>1. Half(m) \in Nat \ {0}
  <2>1. Half(m) \in 1 .. m - 1
    BY HalfProperties
  <2>2. QED
    BY <2>1
<1>2. Len(tree.level) = m
  BY DEF IsLevel
<1>3. next.level = [j \in 1 .. Half(m) |->
                      [hash |-> HashPair(tree.level[2 * j - 1].hash,
                                         RightOf(tree.level, 2 * j - 1).hash),
                       indices |-> tree.level[2 * j - 1].indices
                                   \cup RightOf(tree.level, 2 * j - 1).indices]]
  BY <1>2 DEF NextLevel, Half
<1>4. DOMAIN next.level = 1 .. Half(m) /\ Len(next.level) = Half(m)
  BY <1>1, <1>3
<1>5. QED
  BY <1>1, <1>3, <1>4 DEF IsLevel

\* A turn of the loop leaves the top as it is and halves any other level.
LEMMA GrowSize ==
    ASSUME NEW tree, NEW m \in Nat \ {0}, IsLevel(tree.level, m), NEW next, next = Grow(tree)
    PROVE  \/ m = 1 /\ next = tree
           \/ m >= 2 /\ next = NextLevel(tree) /\ IsLevel(next.level, Half(m))
<1>1. CASE m = 1
  BY <1>1 DEF Grow, IsLevel
<1>2. CASE m >= 2
  <2>1. next = NextLevel(tree)
    BY <1>2 DEF Grow, IsLevel
  <2>2. IsLevel(next.level, Half(m))
    BY <1>2, <2>1, NextLevelShape
  <2>3. QED
    BY <1>2, <2>1, <2>2
<1>3. QED
  BY <1>1, <1>2

-------------------------------------------------------------------------------
(* The tree after every turn.                                              *)

Level(leafHashes, k) == Trees(leafHashes)[k].level

\* The loop ends: a level has one node or one less, at least, than the last.
LevelOK(leafHashes, n, k) ==
    \E m \in Nat \ {0} : IsLevel(Level(leafHashes, k), m) /\ (m = 1 \/ m + k <= n)

LEMMA LevelSizes ==
    ASSUME NEW S, NEW leafHashes \in Seq(S), leafHashes # <<>>, NEW n, n = Len(leafHashes)
    PROVE  \A k \in 0 .. n : LevelOK(leafHashes, n, k)
<1> DEFINE T == {k \in 0 .. n : LevelOK(leafHashes, n, k)}
<1>1. n \in Nat \ {0} /\ DOMAIN leafHashes = 1 .. n
  BY EmptySeq, LenProperties
<1>2. /\ Trees(leafHashes)[0] = Bottom(leafHashes)
      /\ \A i \in 1 .. n : Trees(leafHashes)[i] = Grow(Trees(leafHashes)[i - 1])
  BY <1>1, TreesDef
<1>3. 0 \in T
  <2>1. Level(leafHashes, 0) = [i \in 1 .. n |-> [hash |-> leafHashes[i], indices |-> {i}]]
    BY <1>1, <1>2 DEF Level, Bottom
  <2>2. IsLevel(Level(leafHashes, 0), n)
    BY <1>1, <2>1 DEF IsLevel
  <2>3. QED
    BY <1>1, <2>2 DEF LevelOK
<1>4. ASSUME NEW k \in 0 .. n - 1, k \in T PROVE k + 1 \in T
  <2>1. k + 1 \in 1 .. n /\ (k + 1) - 1 = k
    BY <1>1
  <2>2. Trees(leafHashes)[k + 1] = Grow(Trees(leafHashes)[k])
    BY <1>2, <2>1
  <2>3. PICK tree : tree = Trees(leafHashes)[k]
    OBVIOUS
  <2>4. PICK next : next = Grow(tree)
    OBVIOUS
  <2>5. PICK m \in Nat \ {0} : IsLevel(tree.level, m) /\ (m = 1 \/ m + k <= n)
    BY <1>4, <2>3 DEF LevelOK, Level
  <2>6. \/ m = 1 /\ next = tree
        \/ m >= 2 /\ IsLevel(next.level, Half(m))
    BY <2>4, <2>5, GrowSize
  <2>7. \E h \in Nat \ {0} : IsLevel(next.level, h) /\ (h = 1 \/ h + (k + 1) <= n)
    <3>1. CASE m = 1
      BY <2>5, <2>6, <3>1
    <3>2. CASE m >= 2
      <4>1. Half(m) \in 1 .. m - 1
        BY <3>2, HalfProperties
      <4>2. Half(m) \in Nat \ {0} /\ Half(m) + (k + 1) <= n
        BY <1>1, <2>5, <3>2, <4>1
      <4>3. QED
        BY <2>6, <3>2, <4>2
    <3>3. QED
      BY <3>1, <3>2
  <2>8. LevelOK(leafHashes, n, k + 1)
    BY <2>2, <2>3, <2>4, <2>7 DEF LevelOK, Level
  <2>9. QED
    BY <2>1, <2>8
<1>5. \A k \in 0 .. n : k \in T
  <2> HIDE DEF T
  <2>1. QED
    BY <1>1, <1>3, <1>4, Induction
<1>6. QED
  BY <1>5

-------------------------------------------------------------------------------
(* The path of a leaf.                                                     *)

\* The leaf x is below one node of the level, and its path leads there.
LeafOK(leafHash, x, tree, m) ==
    \E i \in 1 .. m :
        /\ x \in tree.level[i].indices
        /\ \A j \in 1 .. m : x \in tree.level[j].indices => j = i
        /\ IsPath(tree.proofs[x])
        /\ End(leafHash, tree.proofs[x]) = tree.level[i].hash

LEMMA LeafStep ==
    ASSUME NEW tree, NEW m \in Nat, m >= 2, IsLevel(tree.level, m),
           NEW x \in DOMAIN tree.proofs, NEW leafHash, LeafOK(leafHash, x, tree, m),
           NEW next, next = NextLevel(tree)
    PROVE  LeafOK(leafHash, x, next, Half(m))
<1>1. PICK i \in 1 .. m :
          /\ x \in tree.level[i].indices
          /\ \A j \in 1 .. m : x \in tree.level[j].indices => j = i
          /\ IsPath(tree.proofs[x])
          /\ End(leafHash, tree.proofs[x]) = tree.level[i].hash
  BY DEF LeafOK
<1>2. PICK level : level = tree.level
  OBVIOUS
<1>3. DOMAIN level = 1 .. m /\ Len(level) = m
  BY <1>2 DEF IsLevel
<1>4. i = CHOOSE j \in DOMAIN level : x \in level[j].indices
  BY <1>1, <1>2, <1>3
<1>5. next.proofs[x] = PushSibling(tree.proofs[x], level, i)
  BY <1>2, <1>4 DEF NextLevel
<1>6. /\ Half(m) \in 1 .. m - 1
      /\ \A j \in 1 .. Half(m) : 2 * j - 1 \in 1 .. m /\ (2 * j - 1 < m => 2 * j \in 1 .. m)
      /\ Half(i) \in 1 .. Half(m)
      /\ i % 2 = 1 => 2 * Half(i) - 1 = i
      /\ i % 2 # 1 => 2 * Half(i) - 1 = i - 1 /\ i - 1 \in 1 .. m /\ i - 1 < m
      /\ \A j \in 1 .. Half(m) : Half(2 * j - 1) = j /\ Half(2 * j) = j
  BY HalfProperties
<1>7. \A j \in 1 .. Half(m) :
          /\ next.level[j].hash = HashPair(level[2 * j - 1].hash, RightOf(level, 2 * j - 1).hash)
          /\ next.level[j].indices = level[2 * j - 1].indices \cup RightOf(level, 2 * j - 1).indices
  BY <1>2, NextLevelShape
<1>8. /\ x \in next.level[Half(i)].indices
      /\ IsPath(next.proofs[x])
      /\ End(leafHash, next.proofs[x]) = next.level[Half(i)].hash
  <2>1. CASE i % 2 = 1
    <3>1. next.level[Half(i)].hash = HashPair(level[i].hash, RightOf(level, i).hash)
      BY <1>6, <1>7, <2>1
    <3>2. next.level[Half(i)].indices = level[i].indices \cup RightOf(level, i).indices
      BY <1>6, <1>7, <2>1
    <3>3. PICK hash : hash = RightOf(level, i).hash
      OBVIOUS
    <3>4. next.proofs[x] = Pushed(tree.proofs[x], hash, "R")
      BY <1>5, <2>1, <3>3 DEF PushSibling
    <3>5. PICK p, q : p = tree.proofs[x] /\ q = next.proofs[x]
      OBVIOUS
    <3>6. q = Pushed(p, hash, "R") /\ IsPath(p)
      BY <1>1, <3>4, <3>5
    <3>7. IsPath(q) /\ End(leafHash, q) = HashPair(End(leafHash, p), hash)
      BY <3>6, ClimbPushed
    <3>8. QED
      BY <1>1, <1>2, <3>1, <3>2, <3>3, <3>5, <3>7
  <2>2. CASE i % 2 # 1
    <3>1. i - 1 \in 1 .. m /\ i - 1 < m /\ (i - 1) + 1 = i
      BY <1>6, <2>2
    <3>2. RightOf(level, i - 1) = level[i]
      BY <1>3, <3>1 DEF RightOf
    <3>3. next.level[Half(i)].hash = HashPair(level[i - 1].hash, level[i].hash)
      BY <1>6, <1>7, <2>2, <3>2
    <3>4. next.level[Half(i)].indices = level[i - 1].indices \cup level[i].indices
      BY <1>6, <1>7, <2>2, <3>2
    <3>5. PICK hash : hash = level[i - 1].hash
      OBVIOUS
    <3>6. next.proofs[x] = Pushed(tree.proofs[x], hash, "L")
      BY <1>5, <2>2, <3>5 DEF PushSibling
    <3>7. PICK p, q : p = tree.proofs[x] /\ q = next.proofs[x]
      OBVIOUS
    <3>8. q = Pushed(p, hash, "L") /\ IsPath(p)
      BY <1>1, <3>6, <3>7
    <3>9. IsPath(q) /\ End(leafHash, q) = HashPair(hash, End(leafHash, p))
      BY <3>8, ClimbPushed
    <3>10. QED
      BY <1>1, <1>2, <3>3, <3>4, <3>5, <3>7, <3>9
  <2>3. QED
    BY <2>1, <2>2
<1>9. ASSUME NEW j \in 1 .. Half(m), x \in next.level[j].indices PROVE j = Half(i)
  <2>1. 2 * j - 1 \in 1 .. m /\ (2 * j - 1 < m => 2 * j \in 1 .. m)
        /\ Half(2 * j - 1) = j /\ Half(2 * j) = j
    BY <1>6
  <2>2. x \in level[2 * j - 1].indices \/ x \in RightOf(level, 2 * j - 1).indices
    BY <1>7, <1>9
  <2>3. \/ RightOf(level, 2 * j - 1) = level[2 * j - 1]
        \/ 2 * j - 1 < m /\ RightOf(level, 2 * j - 1) = level[2 * j]
    BY <1>3, <2>1 DEF RightOf
  <2>4. i = 2 * j - 1 \/ i = 2 * j
    BY <1>1, <1>2, <2>1, <2>2, <2>3
  <2>5. QED
    BY <2>1, <2>4
<1>10. QED
  BY <1>6, <1>8, <1>9 DEF LeafOK

LeavesOK(leafHashes, n, tree) ==
    /\ DOMAIN tree.proofs = 1 .. n
    /\ \A m \in Nat \ {0} : IsLevel(tree.level, m) =>
          \A x \in 1 .. n : LeafOK(leafHashes[x], x, tree, m)

LEMMA BottomLeaves ==
    ASSUME NEW n \in Nat \ {0}, NEW leafHashes, DOMAIN leafHashes = 1 .. n
    PROVE  LeavesOK(leafHashes, n, Bottom(leafHashes))
<1>1. PICK tree : tree = Bottom(leafHashes)
  OBVIOUS
<1>2. /\ tree.level = [i \in 1 .. n |-> [hash |-> leafHashes[i], indices |-> {i}]]
      /\ tree.proofs = [i \in 1 .. n |-> [hashes |-> <<>>, positions |-> <<>>]]
  BY <1>1 DEF Bottom
<1>3. ASSUME NEW m \in Nat \ {0}, IsLevel(tree.level, m), NEW x \in 1 .. n
      PROVE  LeafOK(leafHashes[x], x, tree, m)
  <2>1. 1 .. m = 1 .. n
    BY <1>2, <1>3 DEF IsLevel
  <2>2. tree.level[x].hash = leafHashes[x] /\ \A j \in 1 .. n : tree.level[j].indices = {j}
    BY <1>2
  <2>3. PICK path : path = tree.proofs[x]
    OBVIOUS
  <2>4. path.hashes = <<>> /\ path.positions = <<>>
    BY <1>2, <2>3
  <2>5. IsPath(path) /\ Len(path.hashes) = 0
    <3>1. <<>> \in Seq({"L", "R"}) /\ Len(<<>>) = 0
      BY EmptySeq
    <3>2. QED
      BY <2>4, <3>1 DEF IsPath
  <2>6. End(leafHashes[x], path) = leafHashes[x]
    BY <2>5, ClimbDef DEF End
  <2>7. QED
    BY <2>1, <2>2, <2>3, <2>5, <2>6 DEF LeafOK
<1>4. QED
  BY <1>1, <1>2, <1>3 DEF LeavesOK

LEMMA GrowLeaves ==
    ASSUME NEW leafHashes, NEW n \in Nat, NEW tree, LeavesOK(leafHashes, n, tree),
           NEW m \in Nat \ {0}, IsLevel(tree.level, m), NEW next, next = Grow(tree)
    PROVE  LeavesOK(leafHashes, n, next)
<1>1. CASE m = 1 /\ next = tree
  BY <1>1
<1>2. CASE m >= 2 /\ next = NextLevel(tree) /\ IsLevel(next.level, Half(m))
  <2>1. DOMAIN next.proofs = DOMAIN tree.proofs /\ DOMAIN tree.proofs = 1 .. n
    BY <1>2 DEF NextLevel, LeavesOK
  <2>2. \A x \in 1 .. n : LeafOK(leafHashes[x], x, tree, m)
    BY DEF LeavesOK
  <2>3. ASSUME NEW x \in 1 .. n PROVE LeafOK(leafHashes[x], x, next, Half(m))
    BY <1>2, <2>1, <2>2, LeafStep
  <2>4. \A h \in Nat \ {0} : IsLevel(next.level, h) => h = Half(m)
    BY <1>2 DEF IsLevel
  <2>5. QED
    BY <2>1, <2>3, <2>4 DEF LeavesOK
<1>3. QED
  BY <1>1, <1>2, GrowSize

LEMMA LeavesClimb ==
    ASSUME NEW S, NEW leafHashes \in Seq(S), leafHashes # <<>>, NEW n, n = Len(leafHashes)
    PROVE  \A k \in 0 .. n : LeavesOK(leafHashes, n, Trees(leafHashes)[k])
<1> DEFINE T == {k \in 0 .. n : LeavesOK(leafHashes, n, Trees(leafHashes)[k])}
<1>1. n \in Nat \ {0} /\ DOMAIN leafHashes = 1 .. n
  BY EmptySeq, LenProperties
<1>2. /\ Trees(leafHashes)[0] = Bottom(leafHashes)
      /\ \A i \in 1 .. n : Trees(leafHashes)[i] = Grow(Trees(leafHashes)[i - 1])
  BY <1>1, TreesDef
<1>3. 0 \in T
  BY <1>1, <1>2, BottomLeaves
<1>4. ASSUME NEW k \in 0 .. n - 1, k \in T PROVE k + 1 \in T
  <2>1. k + 1 \in 1 .. n /\ (k + 1) - 1 = k
    BY <1>1
  <2>2. PICK tree, next : /\ tree = Trees(leafHashes)[k]
                          /\ next = Trees(leafHashes)[k + 1]
                          /\ next = Grow(tree)
    BY <1>2, <2>1
  <2>3. PICK m \in Nat \ {0} : IsLevel(tree.level, m)
    BY <1>1, <2>2, LevelSizes DEF LevelOK, Level
  <2>4. LeavesOK(leafHashes, n, tree)
    BY <1>4, <2>2
  <2>5. LeavesOK(leafHashes, n, next)
    BY <1>1, <2>2, <2>3, <2>4, GrowLeaves
  <2>6. LeavesOK(leafHashes, n, Trees(leafHashes)[k + 1]) /\ k + 1 \in 0 .. n
    BY <2>1, <2>2, <2>5
  <2>7. QED
    BY <2>6
<1>5. \A k \in 0 .. n : k \in T
  <2> HIDE DEF T
  <2>1. QED
    BY <1>1, <1>3, <1>4, Induction
<1>6. QED
  BY <1>5

\* The last level is the root alone.
LEMMA TopLevel ==
    ASSUME NEW S, NEW leafHashes \in Seq(S), leafHashes # <<>>, NEW n, n = Len(leafHashes)
    PROVE  n \in Nat \ {0} /\ IsLevel(Level(leafHashes, n), 1)
<1>1. n \in Nat \ {0}
  BY EmptySeq
<1>2. PICK m \in Nat \ {0} : IsLevel(Level(leafHashes, n), m) /\ (m = 1 \/ m + n <= n)
  BY <1>1, LevelSizes DEF LevelOK
<1>3. m = 1
  BY <1>1, <1>2
<1>4. QED
  BY <1>1, <1>2, <1>3

-------------------------------------------------------------------------------
(* Verification.                                                           *)

\* Two hashes that a path leads to the same place are one.
LEMMA ClimbInjective ==
    ASSUME NEW p, Len(p.hashes) \in Nat, NEW a, NEW b, End(a, p) = End(b, p)
    PROVE  a = b
<1>1. PICK n \in Nat : n = Len(p.hashes)
  OBVIOUS
<1> DEFINE T == {k \in 0 .. n : Climb(a, p)[k] = Climb(b, p)[k] => a = b}
<1>2. /\ Climb(a, p)[0] = a
      /\ \A i \in 1 .. n : Climb(a, p)[i] = Turn(p, i, Climb(a, p)[i - 1])
  BY <1>1, ClimbDef
<1>3. /\ Climb(b, p)[0] = b
      /\ \A i \in 1 .. n : Climb(b, p)[i] = Turn(p, i, Climb(b, p)[i - 1])
  BY <1>1, ClimbDef
<1>4. 0 \in T
  BY <1>2, <1>3
<1>5. ASSUME NEW k \in 0 .. n - 1, k \in T PROVE k + 1 \in T
  <2>1. k + 1 \in 1 .. n /\ (k + 1) - 1 = k
    OBVIOUS
  <2>2. /\ Climb(a, p)[k + 1] = Turn(p, k + 1, Climb(a, p)[k])
        /\ Climb(b, p)[k + 1] = Turn(p, k + 1, Climb(b, p)[k])
    BY <1>2, <1>3, <2>1
  <2>3. \A g, h : Turn(p, k + 1, g) = Turn(p, k + 1, h) => g = h
    BY DEF Turn, HashPair
  <2>4. QED
    BY <1>5, <2>1, <2>2, <2>3
<1>6. \A k \in 0 .. n : k \in T
  <2> HIDE DEF T
  <2>1. QED
    BY <1>4, <1>5, Induction
<1>7. n \in T
  <2> HIDE DEF T
  <2>1. QED
    BY <1>6
<1>8. QED
  BY <1>1, <1>7 DEF End

\* A leaf's path is one, and leads to the root.
LEMMA BuiltPaths ==
    ASSUME NEW S, NEW leafHashes \in Seq(S), leafHashes # <<>>, NEW x \in DOMAIN leafHashes
    PROVE  /\ IsPath(Build(leafHashes).proofs[x])
           /\ End(leafHashes[x], Build(leafHashes).proofs[x]) = Build(leafHashes).rootHash
<1>1. PICK n : n = Len(leafHashes)
  OBVIOUS
<1>2. n \in Nat \ {0} /\ IsLevel(Level(leafHashes, n), 1) /\ x \in 1 .. n
  BY <1>1, TopLevel, LenProperties
<1>3. PICK top : top = Trees(leafHashes)[n]
  OBVIOUS
<1>4. LeafOK(leafHashes[x], x, top, 1)
  <2>1. LeavesOK(leafHashes, n, top)
    BY <1>1, <1>2, <1>3, LeavesClimb
  <2>2. IsLevel(top.level, 1)
    BY <1>2, <1>3 DEF Level
  <2>3. QED
    BY <1>2, <2>1, <2>2 DEF LeavesOK
<1>5. Build(leafHashes).proofs[x] = top.proofs[x]
      /\ Build(leafHashes).rootHash = top.level[1].hash
  BY <1>1, <1>3 DEF Build
<1>6. QED
  BY <1>4, <1>5 DEF LeafOK

\* The path that the tree gives a leaf leads from the hash of this leaf to the
\* root, and from no other hash: what verifyMerkleProof accepts along a path that
\* buildMerkleTree has made is the leaf it was made for, whatever the number of
\* leaves, even if some of them are equal.
THEOREM PathsVerify ==
    ASSUME NEW S, NEW leafHashes \in Seq(S), leafHashes # <<>>,
           NEW x \in DOMAIN leafHashes, NEW h
    PROVE  Verify(h, Build(leafHashes).proofs[x], Build(leafHashes).rootHash)
              <=> h = leafHashes[x]
<1>1. PICK path, root : path = Build(leafHashes).proofs[x] /\ root = Build(leafHashes).rootHash
  OBVIOUS
<1>2. IsPath(path) /\ End(leafHashes[x], path) = root
  BY <1>1, BuiltPaths
<1>3. Len(path.hashes) \in Nat /\ Len(path.hashes) = Len(path.positions)
  BY <1>2 DEF IsPath
<1>4. End(h, path) = root => h = leafHashes[x]
  BY <1>2, <1>3, ClimbInjective
<1>5. Verify(h, path, root) <=> h = leafHashes[x]
  BY <1>2, <1>3, <1>4 DEF Verify, End
<1>6. QED
  BY <1>1, <1>5

-------------------------------------------------------------------------------
(* From the root down.                                                     *)

\* The number of turns after which the loop has ended.
IsDepth(leafHashes, n, d) ==
    /\ d \in 0 .. n
    /\ Trees(leafHashes)[n] = Trees(leafHashes)[d]
    /\ IsLevel(Level(leafHashes, d), 1)
    /\ \A k \in 0 .. d - 1 :
          /\ \E m \in Nat : m >= 2 /\ IsLevel(Level(leafHashes, k), m)
          /\ Trees(leafHashes)[k + 1] = NextLevel(Trees(leafHashes)[k])

LEMMA DepthExists ==
    ASSUME NEW S, NEW leafHashes \in Seq(S), leafHashes # <<>>, NEW n, n = Len(leafHashes)
    PROVE  \E d : IsDepth(leafHashes, n, d)
<1>1. n \in Nat \ {0} /\ IsLevel(Level(leafHashes, n), 1)
  BY TopLevel
<1> DEFINE Tops == {k \in 0 .. n : IsLevel(Level(leafHashes, k), 1)}
<1>2. PICK d \in Tops : \A k \in Tops : d <= k
  <2>1. n \in Tops
    BY <1>1
  <2>2. QED
    BY <2>1, LeastNumber, Tops \subseteq Nat
<1>3. \A i \in 1 .. n : Trees(leafHashes)[i] = Grow(Trees(leafHashes)[i - 1])
  BY <1>1, TreesDef
<1>4. ASSUME NEW k \in 0 .. d - 1
      PROVE  /\ \E m \in Nat : m >= 2 /\ IsLevel(Level(leafHashes, k), m)
             /\ Trees(leafHashes)[k + 1] = NextLevel(Trees(leafHashes)[k])
  <2>1. k \in 0 .. n /\ k + 1 \in 1 .. n /\ (k + 1) - 1 = k /\ ~(d <= k)
    BY <1>1, <1>2
  <2>2. PICK m \in Nat \ {0} : IsLevel(Level(leafHashes, k), m)
    BY <2>1, LevelSizes DEF LevelOK
  <2>3. m # 1
    BY <1>2, <2>1, <2>2
  <2>4. PICK tree, next : tree = Trees(leafHashes)[k] /\ next = Trees(leafHashes)[k + 1]
                          /\ next = Grow(tree)
    BY <1>3, <2>1
  <2>5. m >= 2 /\ next = NextLevel(tree)
    BY <2>2, <2>3, <2>4, GrowSize DEF Level
  <2>6. QED
    BY <2>2, <2>4, <2>5
<1>5. Trees(leafHashes)[n] = Trees(leafHashes)[d]
  <2> DEFINE T == {k \in 0 .. n - d : Trees(leafHashes)[d + k] = Trees(leafHashes)[d]}
  <2>1. d \in 0 .. n /\ n - d \in Nat /\ d + 0 = d
    BY <1>1, <1>2
  <2>2. 0 \in T
    BY <2>1
  <2>3. ASSUME NEW k \in 0 .. (n - d) - 1, k \in T PROVE k + 1 \in T
    <3>1. d + (k + 1) \in 1 .. n /\ (d + (k + 1)) - 1 = d + k /\ k + 1 \in 0 .. n - d
      BY <1>1, <2>1
    <3>2. Trees(leafHashes)[d + (k + 1)] = Grow(Trees(leafHashes)[d + k])
      BY <1>3, <3>1
    <3>3. Grow(Trees(leafHashes)[d]) = Trees(leafHashes)[d]
      BY <1>2 DEF Grow, IsLevel, Level
    <3>4. Trees(leafHashes)[d + k] = Trees(leafHashes)[d]
      BY <2>3
    <3>5. QED
      BY <3>1, <3>2, <3>3, <3>4
  <2>4. \A k \in 0 .. n - d : k \in T
    <3> HIDE DEF T
    <3>1. QED
      BY <2>1, <2>2, <2>3, Induction
  <2>5. n - d \in T /\ d + (n - d) = n
    <3>1. n - d \in 0 .. n - d /\ d + (n - d) = n
      BY <1>1, <2>1
    <3>2. QED
      BY <2>4, <3>1
  <2>6. QED
    BY <2>5
<1>6. QED
  BY <1>2, <1>4, <1>5 DEF IsDepth

\* The hashes of the nodes of a level.
Hashes(leafHashes, k) ==
    {Level(leafHashes, k)[i].hash : i \in DOMAIN Level(leafHashes, k)}

LEMMA BottomHashes ==
    ASSUME NEW S, NEW leafHashes \in Seq(S), leafHashes # <<>>
    PROVE  /\ IsLevel(Level(leafHashes, 0), Len(leafHashes))
           /\ \A i \in 1 .. Len(leafHashes) : Level(leafHashes, 0)[i].hash = leafHashes[i]
<1>1. PICK n : n = Len(leafHashes)
  OBVIOUS
<1>2. n \in Nat \ {0} /\ DOMAIN leafHashes = 1 .. n
  BY <1>1, EmptySeq, LenProperties
<1>3. Trees(leafHashes)[0] = Bottom(leafHashes)
  BY <1>1, <1>2, TreesDef
<1>4. Level(leafHashes, 0) = [i \in 1 .. n |-> [hash |-> leafHashes[i], indices |-> {i}]]
  BY <1>2, <1>3 DEF Level, Bottom
<1>5. QED
  BY <1>1, <1>2, <1>4 DEF IsLevel

\* The nodes of a level are made of pairs of the level of m nodes below.
PairsOf(level, m, next) ==
    /\ m >= 2 /\ IsLevel(level, m) /\ IsLevel(next, Half(m))
    /\ \A j \in 1 .. Half(m) :
          next[j].hash = HashPair(level[2 * j - 1].hash, RightOf(level, 2 * j - 1).hash)

LEMMA LevelBelow ==
    ASSUME NEW leafHashes, NEW n \in Nat, NEW d, IsDepth(leafHashes, n, d), NEW k \in 0 .. d - 1
    PROVE  \E m \in Nat : PairsOf(Level(leafHashes, k), m, Level(leafHashes, k + 1))
<1>1. PICK m \in Nat : m >= 2 /\ IsLevel(Level(leafHashes, k), m)
  BY DEF IsDepth
<1>2. PICK tree, next : /\ tree = Trees(leafHashes)[k]
                        /\ next = Trees(leafHashes)[k + 1]
                        /\ next = NextLevel(tree)
  BY DEF IsDepth
<1>3. IsLevel(tree.level, m)
  BY <1>1, <1>2 DEF Level
<1>4. /\ IsLevel(next.level, Half(m))
      /\ \A j \in 1 .. Half(m) : next.level[j].hash =
            HashPair(tree.level[2 * j - 1].hash, RightOf(tree.level, 2 * j - 1).hash)
  BY <1>1, <1>2, <1>3, NextLevelShape
<1>5. QED
  BY <1>1, <1>2, <1>3, <1>4 DEF Level, PairsOf

\* The j-th of them has the hashes of two nodes below.
LEMMA NodeBelow ==
    ASSUME NEW m \in Nat, NEW level, NEW next, PairsOf(level, m, next), NEW j \in 1 .. Half(m)
    PROVE  /\ 2 * j - 1 \in 1 .. m
           /\ \/ /\ 2 * j \in 1 .. m
                 /\ next[j].hash = HashPair(level[2 * j - 1].hash, level[2 * j].hash)
              \/ /\ 2 * j - 1 = m
                 /\ next[j].hash = HashPair(level[m].hash, level[m].hash)
<1>1. m >= 2 /\ Len(level) = m
  BY DEF PairsOf, IsLevel
<1>2. 2 * j - 1 \in 1 .. m /\ (2 * j - 1 < m => 2 * j \in 1 .. m)
  BY <1>1, HalfProperties
<1>3. (2 * j - 1) + 1 = 2 * j
  OBVIOUS
<1>4. next[j].hash = HashPair(level[2 * j - 1].hash, RightOf(level, 2 * j - 1).hash)
  BY DEF PairsOf
<1>5. CASE 2 * j - 1 < m
  <2>1. RightOf(level, 2 * j - 1) = level[2 * j]
    BY <1>1, <1>3, <1>5 DEF RightOf
  <2>2. QED
    BY <1>2, <1>4, <1>5, <2>1
<1>6. CASE ~(2 * j - 1 < m)
  <2>1. 2 * j - 1 = m
    BY <1>2, <1>6
  <2>2. RightOf(level, 2 * j - 1) = level[m]
    BY <1>1, <1>6, <2>1 DEF RightOf
  <2>3. QED
    BY <1>2, <1>4, <2>1, <2>2
<1>7. QED
  BY <1>5, <1>6

LEMMA HashesBelow ==
    ASSUME NEW leafHashes, NEW n \in Nat, NEW d, IsDepth(leafHashes, n, d), NEW k \in 0 .. d - 1,
           NEW g \in Hashes(leafHashes, k + 1)
    PROVE  \E a, b \in Hashes(leafHashes, k) : g = HashPair(a, b)
<1>1. PICK level, next : level = Level(leafHashes, k) /\ next = Level(leafHashes, k + 1)
  OBVIOUS
<1>2. PICK m \in Nat : PairsOf(level, m, next)
  BY <1>1, LevelBelow
<1>3. PICK j \in 1 .. Half(m) : g = next[j].hash
  BY <1>1, <1>2 DEF Hashes, IsLevel, PairsOf
<1>4. /\ 2 * j - 1 \in 1 .. m
      /\ \/ /\ 2 * j \in 1 .. m
            /\ next[j].hash = HashPair(level[2 * j - 1].hash, level[2 * j].hash)
         \/ /\ 2 * j - 1 = m
            /\ next[j].hash = HashPair(level[m].hash, level[m].hash)
  BY <1>2, NodeBelow
<1>5. \A i \in 1 .. m : level[i].hash \in Hashes(leafHashes, k)
  BY <1>1, <1>2 DEF Hashes, IsLevel, PairsOf
<1>6. QED
  BY <1>3, <1>4, <1>5

\* The root is the one hash of the level at this depth.
LEMMA RootAtDepth ==
    ASSUME NEW leafHashes, NEW d, IsDepth(leafHashes, Len(leafHashes), d)
    PROVE  /\ Build(leafHashes).rootHash = Level(leafHashes, d)[1].hash
           /\ IsLevel(Level(leafHashes, d), 1)
           /\ Build(leafHashes).rootHash \in Hashes(leafHashes, d)
<1>1. Build(leafHashes).rootHash = Level(leafHashes, d)[1].hash
  BY DEF Build, Level, IsDepth
<1>2. IsLevel(Level(leafHashes, d), 1)
  BY DEF IsDepth
<1>3. QED
  BY <1>1, <1>2 DEF Hashes, IsLevel

-------------------------------------------------------------------------------
(* No path proves what is not in the tree.                                 *)

LEMMA LeavesAreNotPairs == \A e, g, h : LeafHash(e) # HashPair(g, h)
BY DEF LeafHash, HashPair

AreLeaves(leafHashes) == \A i \in DOMAIN leafHashes : \E e : leafHashes[i] = LeafHash(e)

\* No path whatsoever, not even one that buildMerkleTree never made, leads to the
\* root from the leaf of an event that is not in the batch: the hash of a leaf and
\* that of a pair differ, so a path that verifies is as long as the tree is high
\* and goes through its nodes down to a leaf.
THEOREM PathsProveMembership ==
    ASSUME NEW S, NEW leafHashes \in Seq(S), leafHashes # <<>>, AreLeaves(leafHashes),
           NEW path, Len(path.hashes) \in Nat,
           NEW e, Verify(LeafHash(e), path, Build(leafHashes).rootHash)
    PROVE  \E i \in DOMAIN leafHashes : leafHashes[i] = LeafHash(e)
<1>1. PICK n : n = Len(leafHashes)
  OBVIOUS
<1>2. PICK d : IsDepth(leafHashes, n, d)
  BY <1>1, DepthExists
<1>3. n \in Nat /\ d \in Nat /\ DOMAIN leafHashes = 1 .. n
  <2>1. n \in Nat /\ DOMAIN leafHashes = 1 .. n
    BY <1>1, LenProperties
  <2>2. d \in 0 .. n
    BY <1>2 DEF IsDepth
  <2>3. QED
    BY <2>1, <2>2
<1>4. PICK len \in Nat : len = Len(path.hashes)
  OBVIOUS
<1>5. PICK C : C = Climb(LeafHash(e), path)
  OBVIOUS
<1>6. /\ C[0] = LeafHash(e)
      /\ \A i \in 1 .. len : C[i] = Turn(path, i, C[i - 1])
      /\ C[len] \in Hashes(leafHashes, d)
  <2>1. C[0] = LeafHash(e) /\ \A i \in 1 .. len : C[i] = Turn(path, i, C[i - 1])
    BY <1>4, <1>5, ClimbDef
  <2>2. C[len] = Build(leafHashes).rootHash
    BY <1>4, <1>5 DEF Verify
  <2>3. QED
    BY <1>1, <1>2, <2>1, <2>2, RootAtDepth
<1>7. \A i \in 1 .. len : \E g : C[i] = HashPair(g, C[i - 1]) \/ C[i] = HashPair(C[i - 1], g)
  BY <1>6 DEF Turn
<1>8. \A g \in Hashes(leafHashes, 0) :
          (\E i \in DOMAIN leafHashes : g = leafHashes[i]) /\ \E f : g = LeafHash(f)
  BY <1>1, <1>3, BottomHashes DEF Hashes, IsLevel, AreLeaves
<1>9. \A f, g, h : LeafHash(f) # HashPair(g, h)
  BY LeavesAreNotPairs
<1> DEFINE T == {j \in 0 .. len : j <= d /\ C[len - j] \in Hashes(leafHashes, d - j)}
<1>10. 0 \in T
  BY <1>3, <1>6
<1>11. ASSUME NEW j \in 0 .. len - 1, j \in T PROVE j + 1 \in T
  <2>1. /\ len - j \in 1 .. len /\ (len - j) - 1 = len - (j + 1)
        /\ j <= d /\ C[len - j] \in Hashes(leafHashes, d - j)
    BY <1>11
  <2>2. PICK g : \/ C[len - j] = HashPair(g, C[len - (j + 1)])
                 \/ C[len - j] = HashPair(C[len - (j + 1)], g)
    BY <1>7, <2>1
  <2>3. d # j
    <3>1. SUFFICES ASSUME d = j PROVE FALSE
      OBVIOUS
    <3>2. C[len - j] \in Hashes(leafHashes, 0)
      BY <1>3, <2>1, <3>1
    <3>3. QED
      BY <1>8, <1>9, <2>2, <3>2
  <2>4. d - (j + 1) \in 0 .. d - 1 /\ (d - (j + 1)) + 1 = d - j /\ j + 1 <= d
    BY <1>3, <2>1, <2>3
  <2>5. \E a, b \in Hashes(leafHashes, d - (j + 1)) : C[len - j] = HashPair(a, b)
    <3>1. PICK k \in 0 .. d - 1 : k = d - (j + 1) /\ k + 1 = d - j
      BY <2>4
    <3>2. C[len - j] \in Hashes(leafHashes, k + 1)
      BY <2>1, <3>1
    <3>3. \E a, b \in Hashes(leafHashes, k) : C[len - j] = HashPair(a, b)
      BY <1>2, <1>3, <3>2, HashesBelow
    <3>4. QED
      BY <3>1, <3>3
  <2>6. C[len - (j + 1)] \in Hashes(leafHashes, d - (j + 1))
    BY <2>2, <2>5 DEF HashPair
  <2>7. QED
    BY <2>1, <2>4, <2>6
<1>12. \A j \in 0 .. len : j \in T
  <2> HIDE DEF T
  <2>1. QED
    BY <1>4, <1>10, <1>11, Induction
<1>13. len <= d /\ LeafHash(e) \in Hashes(leafHashes, d - len)
  <2>1. len \in T
    <3> HIDE DEF T
    <3>1. QED
      BY <1>12
  <2>2. len - len = 0
    OBVIOUS
  <2>3. QED
    BY <1>6, <2>1, <2>2
<1>14. d = len
  <2>1. SUFFICES ASSUME d # len PROVE FALSE
    OBVIOUS
  <2>2. PICK k \in 0 .. d - 1 : k + 1 = d - len
    <3>1. d - len - 1 \in 0 .. d - 1 /\ (d - len - 1) + 1 = d - len
      BY <1>3, <1>13, <2>1
    <3>2. QED
      BY <3>1
  <2>3. \E a, b \in Hashes(leafHashes, k) : LeafHash(e) = HashPair(a, b)
    <3>1. PICK g \in Hashes(leafHashes, k + 1) : g = LeafHash(e)
      BY <1>13, <2>2
    <3>2. \E a, b \in Hashes(leafHashes, k) : g = HashPair(a, b)
      BY <1>2, <1>3, HashesBelow
    <3>3. QED
      BY <3>1, <3>2
  <2>4. QED
    BY <1>9, <2>3
<1>15. d - len = 0
  BY <1>3, <1>14
<1>16. QED
  BY <1>8, <1>13, <1>15

-------------------------------------------------------------------------------
(* The root tells the leaves.                                              *)

AllDiffer(level, m) == \A i, j \in 1 .. m : i # j => level[i].hash # level[j].hash

\* The j-th node of the next level is the pair of x and y.
IsPair(level, m, next, j, x, y) ==
    /\ 2 * j - 1 \in 1 .. m /\ next[j].hash = HashPair(x, y) /\ x = level[2 * j - 1].hash
    /\ \/ 2 * j \in 1 .. m /\ y = level[2 * j].hash
       \/ 2 * j - 1 = m /\ x = y

LEMMA PairExists ==
    ASSUME NEW m \in Nat, NEW level, NEW next, PairsOf(level, m, next), NEW j \in 1 .. Half(m)
    PROVE  \E x, y : IsPair(level, m, next, j, x, y)
<1>1. /\ 2 * j - 1 \in 1 .. m
      /\ \/ /\ 2 * j \in 1 .. m
            /\ next[j].hash = HashPair(level[2 * j - 1].hash, level[2 * j].hash)
         \/ /\ 2 * j - 1 = m
            /\ next[j].hash = HashPair(level[m].hash, level[m].hash)
  BY NodeBelow
<1>2. PICK x : x = level[2 * j - 1].hash
  OBVIOUS
<1>3. CASE 2 * j \in 1 .. m /\ next[j].hash = HashPair(level[2 * j - 1].hash, level[2 * j].hash)
  <2>1. IsPair(level, m, next, j, x, level[2 * j].hash)
    BY <1>1, <1>2, <1>3 DEF IsPair
  <2>2. QED
    BY <2>1
<1>4. CASE 2 * j - 1 = m /\ next[j].hash = HashPair(level[m].hash, level[m].hash)
  <2>1. IsPair(level, m, next, j, x, x)
    BY <1>1, <1>2, <1>4 DEF IsPair
  <2>2. QED
    BY <2>1
<1>5. QED
  BY <1>1, <1>3, <1>4

LEMMA PairInjective ==
    ASSUME NEW x, NEW y, NEW v, NEW w, HashPair(x, y) = HashPair(v, w)
    PROVE  x = v /\ y = w
BY DEF HashPair

\* Different leaves give different nodes on every level.
LEMMA NodesDiffer ==
    ASSUME NEW S, NEW leafHashes \in Seq(S), leafHashes # <<>>,
           \A i, j \in DOMAIN leafHashes : i # j => leafHashes[i] # leafHashes[j],
           NEW d, IsDepth(leafHashes, Len(leafHashes), d),
           NEW k \in 0 .. d, NEW m \in Nat \ {0}, IsLevel(Level(leafHashes, k), m)
    PROVE  AllDiffer(Level(leafHashes, k), m)
<1>1. PICK n : n = Len(leafHashes)
  OBVIOUS
<1>2. n \in Nat /\ d \in Nat /\ DOMAIN leafHashes = 1 .. n
  <2>1. n \in Nat /\ DOMAIN leafHashes = 1 .. n
    BY <1>1, LenProperties
  <2>2. d \in 0 .. n
    BY <1>1 DEF IsDepth
  <2>3. QED
    BY <2>1, <2>2
<1> DEFINE OK(q) == \A h \in Nat \ {0} : IsLevel(Level(leafHashes, q), h) =>
                        AllDiffer(Level(leafHashes, q), h)
           T == {q \in 0 .. d : OK(q)}
<1>3. 0 \in T
  <2>1. /\ IsLevel(Level(leafHashes, 0), n)
        /\ \A i \in 1 .. n : Level(leafHashes, 0)[i].hash = leafHashes[i]
    BY <1>1, BottomHashes
  <2>2. AllDiffer(Level(leafHashes, 0), n)
    BY <1>2, <2>1 DEF AllDiffer
  <2>3. OK(0)
    BY <2>1, <2>2 DEF IsLevel
  <2>4. QED
    BY <1>2, <2>3
<1>4. ASSUME NEW q \in 0 .. d - 1, q \in T PROVE q + 1 \in T
  <2>1. PICK level, next : level = Level(leafHashes, q) /\ next = Level(leafHashes, q + 1)
    OBVIOUS
  <2>2. PICK h \in Nat : PairsOf(level, h, next)
    BY <1>1, <1>2, <2>1, LevelBelow
  <2>3. AllDiffer(level, h) /\ h \in Nat \ {0}
    BY <1>4, <2>1, <2>2 DEF PairsOf
  <2>4. ASSUME NEW i \in 1 .. Half(h), NEW j \in 1 .. Half(h), i # j
        PROVE  next[i].hash # next[j].hash
    <3>1. PICK x, y : IsPair(level, h, next, i, x, y)
      BY <2>2, PairExists
    <3>2. PICK v, w : IsPair(level, h, next, j, v, w)
      BY <2>2, PairExists
    <3>3. 2 * i - 1 # 2 * j - 1
      <4>1. Half(h) \in 1 .. h - 1
        BY <2>2, HalfProperties DEF PairsOf
      <4>2. i \in Int /\ j \in Int
        OBVIOUS
      <4>3. QED
        BY <2>4, <4>2
    <3>4. level[2 * i - 1].hash # level[2 * j - 1].hash
      BY <2>3, <3>1, <3>2, <3>3 DEF AllDiffer, IsPair
    <3>5. QED
      BY <3>1, <3>2, <3>4, PairInjective DEF IsPair
  <2>5. AllDiffer(next, Half(h)) /\ IsLevel(next, Half(h))
    BY <2>2, <2>4 DEF AllDiffer, PairsOf
  <2>6. OK(q + 1)
    BY <2>1, <2>5 DEF IsLevel
  <2>7. q + 1 \in 0 .. d
    BY <1>2
  <2>8. QED
    BY <2>6, <2>7
<1>5. \A q \in 0 .. d : q \in T
  <2> HIDE DEF T
  <2>1. QED
    BY <1>2, <1>3, <1>4, Induction
<1>6. QED
  BY <1>5

\* Two levels of the same hashes.
SameHashes(level, other) ==
    \E m \in Nat \ {0} :
        /\ IsLevel(level, m) /\ IsLevel(other, m)
        /\ \A i \in 1 .. m : level[i].hash = other[i].hash

\* If they are made of pairs, and no node is its own right neighbour but the
\* last one, the levels below are the same too.
LEMMA SameBelow ==
    ASSUME NEW a, NEW aNext, NEW m \in Nat, PairsOf(a, m, aNext), AllDiffer(a, m),
           NEW b, NEW bNext, NEW h \in Nat, PairsOf(b, h, bNext), AllDiffer(b, h),
           SameHashes(aNext, bNext)
    PROVE  SameHashes(a, b)
<1>1. m >= 2 /\ h >= 2 /\ IsLevel(a, m) /\ IsLevel(b, h)
      /\ IsLevel(aNext, Half(m)) /\ IsLevel(bNext, Half(h))
  BY DEF PairsOf
<1>2. Half(m) = Half(h) /\ \A j \in 1 .. Half(m) : aNext[j].hash = bNext[j].hash
  BY <1>1 DEF SameHashes, IsLevel
<1>3. ASSUME NEW j \in 1 .. Half(m)
      PROVE  /\ a[2 * j - 1].hash = b[2 * j - 1].hash
             /\ \/ /\ 2 * j \in 1 .. m /\ 2 * j \in 1 .. h
                   /\ a[2 * j].hash = b[2 * j].hash
                \/ 2 * j - 1 = m /\ 2 * j - 1 = h
  <2>1. PICK x, y : IsPair(a, m, aNext, j, x, y)
    BY PairExists
  <2>2. PICK v, w : IsPair(b, h, bNext, j, v, w)
    BY <1>2, PairExists
  <2>3. x = v /\ y = w
    BY <1>2, <2>1, <2>2, PairInjective DEF IsPair
  <2>4. 2 * j - 1 # 2 * j
    OBVIOUS
  <2>5. 2 * j \in 1 .. m /\ y = a[2 * j].hash => x # y
    BY <2>1, <2>4 DEF IsPair, AllDiffer
  <2>6. 2 * j \in 1 .. h /\ w = b[2 * j].hash => v # w
    BY <2>2, <2>4 DEF IsPair, AllDiffer
  <2>7. /\ x = a[2 * j - 1].hash
        /\ \/ 2 * j \in 1 .. m /\ y = a[2 * j].hash
           \/ 2 * j - 1 = m /\ x = y
    BY <2>1 DEF IsPair
  <2>8. /\ v = b[2 * j - 1].hash
        /\ \/ 2 * j \in 1 .. h /\ w = b[2 * j].hash
           \/ 2 * j - 1 = h /\ v = w
    BY <2>2 DEF IsPair
  <2>9. QED
    BY <2>3, <2>5, <2>6, <2>7, <2>8, Zenon
<1>4. /\ \A i \in 1 .. m : Half(i) \in 1 .. Half(m)
      /\ \A i \in 1 .. m : i = 2 * Half(i) - 1 \/ i = 2 * Half(i)
  BY <1>1 DEF Half
<1>5. m = h
  <2>1. Half(m) \in 1 .. Half(m)
    BY <1>1 DEF Half
  <2>2. \/ 2 * Half(m) \in 1 .. m /\ 2 * Half(m) \in 1 .. h
        \/ 2 * Half(m) - 1 = m /\ 2 * Half(m) - 1 = h
    BY <1>3, <2>1
  <2>3. 2 * Half(m) \in {m, m + 1} /\ 2 * Half(h) \in {h, h + 1}
    BY <1>1 DEF Half
  <2>4. QED
    BY <1>2, <2>2, <2>3
<1>6. ASSUME NEW i \in 1 .. m PROVE a[i].hash = b[i].hash
  <2>1. PICK j \in 1 .. Half(m) : i = 2 * j - 1 \/ i = 2 * j
    BY <1>4
  <2>2. 2 * j - 1 = m => i = 2 * j - 1
    BY <2>1
  <2>3. QED
    BY <1>3, <2>1, <2>2
<1>7. QED
  BY <1>1, <1>5, <1>6 DEF SameHashes

\* What the next theorem is about, with the trees in the order of their heights.
LEMMA RootBindsInOrder ==
    ASSUME NEW S, NEW es \in Seq(S), es # <<>>, AreLeaves(es),
           \A i, j \in DOMAIN es : i # j => es[i] # es[j],
           NEW fs \in Seq(S), fs # <<>>, AreLeaves(fs),
           \A i, j \in DOMAIN fs : i # j => fs[i] # fs[j],
           Build(es).rootHash = Build(fs).rootHash,
           NEW c \in Nat, IsDepth(es, Len(es), c),
           NEW d \in Nat, IsDepth(fs, Len(fs), d), c <= d
    PROVE  es = fs
<1>1. Len(es) \in Nat /\ Len(fs) \in Nat
  BY LenProperties
<1> DEFINE T == {j \in 0 .. c : SameHashes(Level(es, c - j), Level(fs, d - j))}
<1>2. 0 \in T
  <2>1. /\ Build(es).rootHash = Level(es, c)[1].hash
        /\ IsLevel(Level(es, c), 1)
    BY RootAtDepth
  <2>2. /\ Build(fs).rootHash = Level(fs, d)[1].hash
        /\ IsLevel(Level(fs, d), 1)
    BY RootAtDepth
  <2>3. SameHashes(Level(es, c), Level(fs, d))
    <3>1. PICK a, b : a = Level(es, c) /\ b = Level(fs, d)
      OBVIOUS
    <3>2. a[1].hash = b[1].hash
      BY <2>1, <2>2, <3>1, Zenon
    <3>3. \A i \in 1 .. 1 : a[i].hash = b[i].hash
      <4>1. \A i \in 1 .. 1 : i = 1
        OBVIOUS
      <4>2. QED
        BY <3>2, <4>1, Zenon
    <3>4. QED
      BY <2>1, <2>2, <3>1, <3>3 DEF SameHashes
  <2>4. c - 0 = c /\ d - 0 = d
    OBVIOUS
  <2>5. QED
    BY <2>3, <2>4
<1>3. ASSUME NEW j \in 0 .. c - 1, j \in T PROVE j + 1 \in T
  <2>1. PICK k \in 0 .. c - 1 : k = c - (j + 1) /\ k + 1 = c - j
    <3>1. c - (j + 1) \in 0 .. c - 1 /\ (c - (j + 1)) + 1 = c - j
      OBVIOUS
    <3>2. QED
      BY <3>1
  <2>2. PICK l \in 0 .. d - 1 : l = d - (j + 1) /\ l + 1 = d - j
    <3>1. d - (j + 1) \in 0 .. d - 1 /\ (d - (j + 1)) + 1 = d - j
      OBVIOUS
    <3>2. QED
      BY <3>1
  <2>3. PICK a, aNext : a = Level(es, k) /\ aNext = Level(es, k + 1)
    OBVIOUS
  <2>4. PICK b, bNext : b = Level(fs, l) /\ bNext = Level(fs, l + 1)
    OBVIOUS
  <2>5. PICK m \in Nat : PairsOf(a, m, aNext)
    BY <1>1, <2>3, LevelBelow
  <2>6. PICK h \in Nat : PairsOf(b, h, bNext)
    BY <1>1, <2>4, LevelBelow
  <2>7. AllDiffer(a, m)
    <3>1. m \in Nat \ {0} /\ IsLevel(Level(es, k), m) /\ k \in 0 .. c
      BY <2>3, <2>5 DEF PairsOf
    <3>2. QED
      BY <2>3, <3>1, NodesDiffer
  <2>8. AllDiffer(b, h)
    <3>1. h \in Nat \ {0} /\ IsLevel(Level(fs, l), h) /\ l \in 0 .. d
      BY <2>4, <2>6 DEF PairsOf
    <3>2. QED
      BY <2>4, <3>1, NodesDiffer
  <2>9. SameHashes(aNext, bNext)
    BY <1>3, <2>1, <2>2, <2>3, <2>4
  <2>10. SameHashes(a, b)
    BY <2>5, <2>6, <2>7, <2>8, <2>9, SameBelow
  <2>11. QED
    BY <2>1, <2>2, <2>3, <2>4, <2>10
<1>4. \A j \in 0 .. c : j \in T
  <2> HIDE DEF T
  <2>1. QED
    BY <1>2, <1>3, Induction
<1>5. SameHashes(Level(es, 0), Level(fs, d - c))
  <2>1. c \in T /\ c - c = 0
    <3>1. c \in 0 .. c
      OBVIOUS
    <3>2. c \in T
      <4> HIDE DEF T
      <4>1. QED
        BY <1>4, <3>1
    <3>3. QED
      BY <3>2
  <2>2. QED
    BY <2>1
<1>6. /\ IsLevel(Level(es, 0), Len(es))
      /\ \A i \in 1 .. Len(es) : Level(es, 0)[i].hash = es[i]
  BY BottomHashes
<1>7. d = c
  <2>1. SUFFICES ASSUME d # c PROVE FALSE
    OBVIOUS
  <2>2. PICK k \in 0 .. d - 1 : k + 1 = d - c
    <3>1. d - c - 1 \in 0 .. d - 1 /\ (d - c - 1) + 1 = d - c
      BY <2>1
    <3>2. QED
      BY <3>1
  <2>3. PICK m \in Nat \ {0} :
            /\ IsLevel(Level(es, 0), m) /\ IsLevel(Level(fs, d - c), m)
            /\ \A i \in 1 .. m : Level(es, 0)[i].hash = Level(fs, d - c)[i].hash
    BY <1>5 DEF SameHashes
  <2>4. PICK g \in Hashes(fs, k + 1) : g = Level(es, 0)[1].hash
    <3>1. 1 \in 1 .. m
      OBVIOUS
    <3>2. Level(es, 0)[1].hash = Level(fs, k + 1)[1].hash /\ 1 \in DOMAIN Level(fs, k + 1)
      BY <2>2, <2>3, <3>1 DEF IsLevel
    <3>3. QED
      BY <3>2 DEF Hashes
  <2>5. \E a, b \in Hashes(fs, k) : g = HashPair(a, b)
    BY <1>1, HashesBelow
  <2>6. 1 \in DOMAIN es /\ g = es[1]
    BY <1>6, <2>4, LenProperties DEF IsLevel
  <2>7. \E e : g = LeafHash(e)
    BY <2>6 DEF AreLeaves
  <2>8. QED
    BY <2>5, <2>7, LeavesAreNotPairs
<1>8. /\ IsLevel(Level(fs, 0), Len(fs))
      /\ \A i \in 1 .. Len(fs) : Level(fs, 0)[i].hash = fs[i]
  BY BottomHashes
<1>9. d - c = 0
  BY <1>7
<1>10. Len(es) = Len(fs) /\ \A i \in 1 .. Len(es) : es[i] = fs[i]
  BY <1>5, <1>6, <1>8, <1>9 DEF SameHashes, IsLevel
<1>11. QED
  BY <1>10, SeqEqual

\* The root of a batch tells its events and their order: two batches of different
\* events, of any number, that have the same root are the same batch.  Without the
\* condition this is false, for the last node of an odd level is paired with
\* itself: three leaves have the root of the four of which the last is repeated.
THEOREM RootBinds ==
    ASSUME NEW S, NEW es \in Seq(S), es # <<>>, AreLeaves(es),
           \A i, j \in DOMAIN es : i # j => es[i] # es[j],
           NEW fs \in Seq(S), fs # <<>>, AreLeaves(fs),
           \A i, j \in DOMAIN fs : i # j => fs[i] # fs[j],
           Build(es).rootHash = Build(fs).rootHash
    PROVE  es = fs
<1>1. PICK c : IsDepth(es, Len(es), c)
  BY DepthExists
<1>2. PICK d : IsDepth(fs, Len(fs), d)
  BY DepthExists
<1>3. c \in Nat /\ d \in Nat
  BY <1>1, <1>2, LenProperties DEF IsDepth
<1>4. CASE c <= d
  BY <1>1, <1>2, <1>3, <1>4, RootBindsInOrder
<1>5. CASE d <= c
  <2>1. fs = es
    BY <1>1, <1>2, <1>3, <1>5, RootBindsInOrder
  <2>2. QED
    BY <2>1
<1>6. QED
  BY <1>3, <1>4, <1>5

-------------------------------------------------------------------------------
(* The reference definition of the root.                                   *)

IsPowers(f, n) == f = [i \in 0 .. n |-> IF i = 0 THEN 1 ELSE 2 * f[i - 1]]

\* As ClimbExists, for the powers of two.
LEMMA PowersExist ==
    ASSUME NEW n \in Nat
    PROVE  \E f : IsPowers(f, n)
<1> DEFINE T == {k \in 0 .. n : \E f : IsPowers(f, k)}
<1>1. 0 \in T
  <2>1. IsPowers([i \in 0 .. 0 |-> 1], 0)
    BY DEF IsPowers
  <2>2. QED
    BY <2>1
<1>2. ASSUME NEW k \in 0 .. n - 1, k \in T
      PROVE  k + 1 \in T
  <2>1. PICK f : IsPowers(f, k)
    BY <1>2
  <2> DEFINE g == [i \in 0 .. k + 1 |->
                      IF i = k + 1 THEN 2 * f[k] ELSE f[i]]
  <2>2. ASSUME NEW i \in 0 .. k + 1
        PROVE  g[i] = IF i = 0 THEN 1 ELSE 2 * g[i - 1]
    <3>1. CASE i = k + 1
      BY <3>1
    <3>2. CASE i = 0
      BY <2>1, <3>2 DEF IsPowers
    <3>3. CASE i \in 1 .. k
      <4>1. f[i] = 2 * f[i - 1]
        BY <2>1, <3>3 DEF IsPowers
      <4>2. g[i] = f[i] /\ g[i - 1] = f[i - 1]
        BY <3>3
      <4>3. QED
        BY <3>3, <4>1, <4>2
    <3>4. QED
      BY <3>1, <3>2, <3>3
  <2>3. g = [i \in 0 .. k + 1 |-> g[i]]
    OBVIOUS
  <2>4. IsPowers(g, k + 1)
    <3> HIDE DEF g
    <3>1. QED
      BY <2>2, <2>3 DEF IsPowers
  <2>5. QED
    BY <2>4
<1>3. \A k \in 0 .. n : k \in T
  <2> HIDE DEF T
  <2>1. QED
    BY <1>1, <1>2, Induction
<1>4. QED
  BY <1>3

LEMMA PowersDef ==
    ASSUME NEW n \in Nat
    PROVE  /\ PowersOfTwo(n)[0] = 1
           /\ \A i \in 1 .. n : PowersOfTwo(n)[i] = 2 * PowersOfTwo(n)[i - 1]
<1> DEFINE F == PowersOfTwo(n)
<1>1. F = CHOOSE f : IsPowers(f, n)
  BY DEF PowersOfTwo, IsPowers
<1>2. IsPowers(F, n)
  <2> HIDE DEF F
  <2>1. QED
    BY <1>1, PowersExist
<1>3. QED
  <2> HIDE DEF F
  <2>1. F = [i \in 0 .. n |-> IF i = 0 THEN 1 ELSE 2 * F[i - 1]]
    BY <1>2 DEF IsPowers
  <2>2. QED
    BY <2>1 DEF F

LEMMA PowersType ==
    ASSUME NEW n \in Nat
    PROVE  \A k \in 0 .. n : PowersOfTwo(n)[k] \in Nat \ {0}
<1> DEFINE T == {k \in 0 .. n : PowersOfTwo(n)[k] \in Nat \ {0}}
<1>1. 0 \in T
  BY PowersDef
<1>2. ASSUME NEW k \in 0 .. n - 1, k \in T PROVE k + 1 \in T
  <2>1. k + 1 \in 1 .. n /\ (k + 1) - 1 = k
    OBVIOUS
  <2>2. PowersOfTwo(n)[k + 1] = 2 * PowersOfTwo(n)[k]
    BY <2>1, PowersDef
  <2>3. PICK p \in Nat \ {0} : p = PowersOfTwo(n)[k]
    BY <1>2
  <2>4. 2 * p \in Nat \ {0}
    OBVIOUS
  <2>5. QED
    BY <2>1, <2>2, <2>3, <2>4
<1>3. \A k \in 0 .. n : k \in T
  <2> HIDE DEF T
  <2>1. QED
    BY <1>1, <1>2, Induction
<1>4. QED
  BY <1>3

Leafs(leafHashes) == [i \in 0 .. Len(leafHashes) - 1 |-> leafHashes[i + 1]]

IsNodes(f, leafHashes, n) ==
    f = [i \in 0 .. n |-> IF i = 0 THEN Leafs(leafHashes) ELSE Layer(leafHashes, i, f[i - 1])]

\* As ClimbExists, for the nodes of the reference.
LEMMA NodesExist ==
    ASSUME NEW leafHashes, NEW n \in Nat
    PROVE  \E f : IsNodes(f, leafHashes, n)
<1> DEFINE T == {k \in 0 .. n : \E f : IsNodes(f, leafHashes, k)}
<1>1. 0 \in T
  <2>1. IsNodes([i \in 0 .. 0 |-> Leafs(leafHashes)], leafHashes, 0)
    BY DEF IsNodes
  <2>2. QED
    BY <2>1
<1>2. ASSUME NEW k \in 0 .. n - 1, k \in T
      PROVE  k + 1 \in T
  <2>1. PICK f : IsNodes(f, leafHashes, k)
    BY <1>2
  <2> DEFINE g == [i \in 0 .. k + 1 |->
                      IF i = k + 1 THEN Layer(leafHashes, k + 1, f[k]) ELSE f[i]]
  <2>2. ASSUME NEW i \in 0 .. k + 1
        PROVE  g[i] = IF i = 0 THEN Leafs(leafHashes) ELSE Layer(leafHashes, i, g[i - 1])
    <3>1. CASE i = k + 1
      BY <3>1
    <3>2. CASE i = 0
      BY <2>1, <3>2 DEF IsNodes
    <3>3. CASE i \in 1 .. k
      <4>1. f[i] = Layer(leafHashes, i, f[i - 1])
        BY <2>1, <3>3 DEF IsNodes
      <4>2. g[i] = f[i] /\ g[i - 1] = f[i - 1]
        BY <3>3
      <4>3. QED
        BY <3>3, <4>1, <4>2
    <3>4. QED
      BY <3>1, <3>2, <3>3
  <2>3. g = [i \in 0 .. k + 1 |-> g[i]]
    OBVIOUS
  <2>4. IsNodes(g, leafHashes, k + 1)
    <3> HIDE DEF g
    <3>1. QED
      BY <2>2, <2>3 DEF IsNodes
  <2>5. QED
    BY <2>4
<1>3. \A k \in 0 .. n : k \in T
  <2> HIDE DEF T
  <2>1. QED
    BY <1>1, <1>2, Induction
<1>4. QED
  BY <1>3

LEMMA NodesDef ==
    ASSUME NEW leafHashes, NEW d \in Nat, d = Height(Len(leafHashes))
    PROVE  IsNodes(Nodes(leafHashes), leafHashes, d)
<1> DEFINE F == Nodes(leafHashes)
<1>1. F = CHOOSE f : IsNodes(f, leafHashes, d)
  BY DEF Nodes, IsNodes, Leafs
<1> HIDE DEF F
<1>2. IsNodes(F, leafHashes, d)
  BY <1>1, NodesExist
<1>3. QED
  BY <1>2 DEF F

\* A level of m nodes of width p has room for n leaves, and none of them is empty.
Fits(m, p, n) == (m - 1) * p < n /\ n <= m * p

LEMMA MultiplyOrder ==
    ASSUME NEW a \in Nat, NEW b \in Nat, NEW p \in Nat, a <= b
    PROVE  a * p \in Nat /\ b * p \in Nat /\ a * p <= b * p
<1>1. PICK c \in Nat : b = a + c
  <2>1. b - a \in Nat /\ b = a + (b - a)
    OBVIOUS
  <2>2. QED
    BY <2>1
<1>2. a * p \in Nat /\ c * p \in Nat /\ (a + c) * p = a * p + c * p
  BY Z3
<1>3. QED
  BY <1>1, <1>2

LEMMA MultiplyBelow ==
    ASSUME NEW a \in Nat, NEW b \in Nat, NEW p \in Nat, NEW n \in Nat, a <= b, b * p < n
    PROVE  a * p < n
<1>1. a * p \in Nat /\ b * p \in Nat /\ a * p <= b * p
  BY MultiplyOrder
<1>2. \A q, w \in Nat : q <= w /\ w < n => q < n
  OBVIOUS
<1>3. QED
  BY <1>1, <1>2, Zenon

\* The next level, of half as many nodes, each twice as wide.
LEMMA FitsHalf ==
    ASSUME NEW m \in Nat, m >= 2, NEW p \in Nat \ {0}, NEW n \in Nat, Fits(m, p, n)
    PROVE  Fits(Half(m), 2 * p, n)
<1>1. PICK h \in Nat : h = Half(m) /\ h >= 1 /\ m <= h * 2 /\ (h - 1) * 2 <= m - 1
  BY DEF Half
<1>2. m * p <= (h * 2) * p
  BY <1>1, MultiplyOrder
<1>3. ((h - 1) * 2) * p <= (m - 1) * p /\ (m - 1) * p \in Nat /\ ((h - 1) * 2) * p \in Nat
  <2>1. (h - 1) * 2 \in Nat /\ m - 1 \in Nat
    BY <1>1
  <2>2. QED
    BY <1>1, <2>1, MultiplyOrder
<1>4. (h * 2) * p = h * (2 * p) /\ ((h - 1) * 2) * p = (h - 1) * (2 * p)
  BY Z3
<1>5. m * p \in Nat /\ (h * 2) * p \in Nat
  BY <1>1, MultiplyOrder
<1>6. (h - 1) * (2 * p) < n /\ n <= h * (2 * p)
  BY <1>2, <1>3, <1>4, <1>5 DEF Fits
<1>7. QED
  BY <1>1, <1>6 DEF Fits

\* The m nodes of a level are the first m nodes of width p of the reference.
DrawnAs(level, m, p, n, nodes) ==
    /\ IsLevel(level, m) /\ m <= n /\ Fits(m, p, n)
    /\ \A i \in 1 .. m : level[i].hash = nodes[i - 1]

LEMMA DrawnAbove ==
    ASSUME NEW leafHashes, NEW n \in Nat, n = Len(leafHashes), NEW k \in Nat,
           NEW p \in Nat \ {0}, p = PowersOfTwo(n)[k],
           NEW m \in Nat, NEW level, NEW next, PairsOf(level, m, next),
           NEW nodes, DrawnAs(level, m, p, n, nodes),
           NEW above, above = Layer(leafHashes, k + 1, nodes)
    PROVE  DrawnAs(next, Half(m), 2 * p, n, above)
<1>1. PICK h \in Nat : h = Half(m) /\ h \in 1 .. m - 1
  <2>1. Half(m) \in 1 .. m - 1
    BY HalfProperties DEF PairsOf
  <2>2. QED
    BY <2>1
<1>2. m >= 2 /\ IsLevel(next, h) /\ h <= n
  BY <1>1 DEF PairsOf, DrawnAs
<1>3. Fits(h, 2 * p, n)
  BY <1>1, <1>2, FitsHalf DEF DrawnAs
<1>4. \A i \in 0 .. n - 1 : above[i] = IF (2 * i + 1) * p < n
                                      THEN HashPair(nodes[2 * i], nodes[2 * i + 1])
                                      ELSE HashPair(nodes[2 * i], nodes[2 * i])
  <2>1. (k + 1) - 1 = k
    OBVIOUS
  <2>2. QED
    BY <2>1 DEF Layer
<1>5. ASSUME NEW j \in 1 .. h PROVE next[j].hash = above[j - 1]
  <2>1. PICK i \in 0 .. n - 1 : i = j - 1 /\ 2 * j - 1 = 2 * i + 1 /\ 2 * j = 2 * i + 2
    <3>1. /\ j - 1 \in 0 .. n - 1
          /\ 2 * j - 1 = 2 * (j - 1) + 1 /\ 2 * j = 2 * (j - 1) + 2
      BY <1>2
    <3>2. QED
      BY <3>1
  <2>2. PICK x, y : IsPair(level, m, next, j, x, y)
    BY <1>1, PairExists
  <2>3. x = nodes[2 * i]
    <3>1. 2 * i + 1 \in 1 .. m /\ x = level[2 * i + 1].hash /\ (2 * i + 1) - 1 = 2 * i
      BY <2>1, <2>2 DEF IsPair
    <3>2. QED
      BY <3>1 DEF DrawnAs
  <2>4. (m - 1) * p < n /\ n <= m * p
    BY DEF DrawnAs, Fits
  <2>5. CASE 2 * j \in 1 .. m /\ y = level[2 * j].hash
    <3>1. y = nodes[2 * i + 1]
      <4>1. 2 * i + 2 \in 1 .. m /\ y = level[2 * i + 2].hash /\ (2 * i + 2) - 1 = 2 * i + 1
        BY <2>1, <2>5
      <4>2. QED
        BY <4>1 DEF DrawnAs
    <3>2. (2 * i + 1) * p < n
      <4>1. 2 * i + 1 \in Nat /\ m - 1 \in Nat /\ 2 * i + 1 <= m - 1
        BY <2>1, <2>5
      <4>2. QED
        BY <2>4, <4>1, MultiplyBelow
    <3>3. above[i] = HashPair(x, y)
      BY <1>4, <2>3, <3>1, <3>2
    <3>4. QED
      BY <2>1, <2>2, <3>3 DEF IsPair
  <2>6. CASE 2 * j - 1 = m /\ x = y
    <3>1. 2 * i + 1 = m
      BY <2>1, <2>6
    <3>2. m * p \in Nat
      BY MultiplyOrder
    <3>3. ~((2 * i + 1) * p < n)
      <4>1. \A q \in Nat : n <= q => ~(q < n)
        OBVIOUS
      <4>2. ~(m * p < n)
        BY <2>4, <3>2, <4>1, Zenon
      <4>3. QED
        BY <3>1, <4>2, Zenon
    <3>4. above[i] = HashPair(x, y)
      BY <1>4, <2>3, <2>6, <3>3
    <3>5. QED
      BY <2>1, <2>2, <3>4 DEF IsPair
  <2>7. QED
    BY <2>2, <2>5, <2>6 DEF IsPair
<1>6. QED
  BY <1>1, <1>2, <1>3, <1>5 DEF DrawnAs

\* Every level of the tree is drawn.
LEMMA LevelsDrawn ==
    ASSUME NEW S, NEW leafHashes \in Seq(S), leafHashes # <<>>, NEW n, n = Len(leafHashes),
           NEW d, IsDepth(leafHashes, n, d), NEW F, IsNodes(F, leafHashes, d)
    PROVE  \A k \in 0 .. d : \E m \in Nat :
              DrawnAs(Level(leafHashes, k), m, PowersOfTwo(n)[k], n, F[k])
<1>1. n \in Nat \ {0} /\ d \in Nat /\ d <= n
  <2>1. n \in Nat \ {0}
    BY EmptySeq, LenProperties
  <2>2. d \in 0 .. n
    BY DEF IsDepth
  <2>3. QED
    BY <2>1, <2>2
<1>2. F[0] = Leafs(leafHashes) /\ \A i \in 1 .. d : F[i] = Layer(leafHashes, i, F[i - 1])
  <2>1. F = [i \in 0 .. d |->
                IF i = 0 THEN Leafs(leafHashes) ELSE Layer(leafHashes, i, F[i - 1])]
    BY DEF IsNodes
  <2>2. 0 \in 0 .. d /\ \A i \in 1 .. d : i \in 0 .. d /\ i # 0
    BY <1>1
  <2>3. \A i \in 0 .. d :
            F[i] = IF i = 0 THEN Leafs(leafHashes) ELSE Layer(leafHashes, i, F[i - 1])
    BY <2>1, Zenon
  <2> HIDE <2>1
  <2>4. QED
    BY <2>2, <2>3, Zenon
<1> DEFINE Drawn(k) == \E m \in Nat :
                          DrawnAs(Level(leafHashes, k), m, PowersOfTwo(n)[k], n, F[k])
           T == {k \in 0 .. d : Drawn(k)}
<1>3. 0 \in T
  <2>1. PICK level, nodes : level = Level(leafHashes, 0) /\ nodes = F[0]
    OBVIOUS
  <2>2. IsLevel(level, n) /\ \A i \in 1 .. n : level[i].hash = leafHashes[i]
    BY <2>1, BottomHashes
  <2>3. \A i \in 1 .. n : nodes[i - 1] = leafHashes[i]
    <3>1. \A i \in 1 .. n : i - 1 \in 0 .. n - 1 /\ (i - 1) + 1 = i
      BY <1>1
    <3>2. QED
      BY <1>1, <1>2, <2>1, <3>1 DEF Leafs
  <2>4. Fits(n, 1, n)
    BY <1>1 DEF Fits
  <2>5. DrawnAs(level, n, 1, n, nodes)
    BY <1>1, <2>2, <2>3, <2>4 DEF DrawnAs
  <2>6. PowersOfTwo(n)[0] = 1
    BY <1>1, PowersDef
  <2>7. QED
    BY <1>1, <2>1, <2>5, <2>6
<1>4. ASSUME NEW k \in 0 .. d - 1, k \in T PROVE k + 1 \in T
  <2>1. k + 1 \in 1 .. d /\ k + 1 \in 1 .. n /\ k \in 0 .. n /\ (k + 1) - 1 = k
    BY <1>1
  <2>2. PICK p \in Nat \ {0} : p = PowersOfTwo(n)[k]
    BY <1>1, <2>1, PowersType
  <2>3. PowersOfTwo(n)[k + 1] = 2 * p
    BY <1>1, <2>1, <2>2, PowersDef
  <2>4. PICK level, next, nodes, above :
            /\ level = Level(leafHashes, k) /\ next = Level(leafHashes, k + 1)
            /\ nodes = F[k] /\ above = F[k + 1]
    OBVIOUS
  <2>5. PICK m \in Nat : PairsOf(level, m, next)
    BY <1>1, <2>4, LevelBelow
  <2>6. PICK h \in Nat : DrawnAs(level, h, p, n, nodes)
    BY <1>4, <2>2, <2>4
  <2>7. h = m
    BY <2>5, <2>6 DEF PairsOf, DrawnAs, IsLevel
  <2>8. above = Layer(leafHashes, k + 1, nodes)
    BY <1>2, <2>1, <2>4
  <2>9. DrawnAs(next, Half(m), 2 * p, n, above)
    BY <1>1, <2>1, <2>2, <2>5, <2>6, <2>7, <2>8, DrawnAbove
  <2>10. Half(m) \in Nat
    BY <2>5 DEF PairsOf, IsLevel
  <2>11. Drawn(k + 1)
    BY <2>3, <2>4, <2>9, <2>10
  <2>12. QED
    BY <1>1, <2>1, <2>11
<1>5. \A k \in 0 .. d : k \in T
  <2> HIDE DEF T
  <2>1. QED
    BY <1>1, <1>3, <1>4, Induction
<1>6. QED
  BY <1>5

\* The number of turns of the loop is the height of the reference.
LEMMA DepthIsHeight ==
    ASSUME NEW S, NEW leafHashes \in Seq(S), leafHashes # <<>>, NEW n, n = Len(leafHashes),
           NEW d, IsDepth(leafHashes, n, d)
    PROVE  d = Height(n)
<1>1. n \in Nat \ {0} /\ d \in Nat /\ d \in 0 .. n
  <2>1. n \in Nat \ {0}
    BY EmptySeq, LenProperties
  <2>2. d \in 0 .. n
    BY DEF IsDepth
  <2>3. QED
    BY <2>1, <2>2
<1>2. PICK F : IsNodes(F, leafHashes, d)
  BY <1>1, NodesExist
<1>3. \A k \in 0 .. d : \E m \in Nat :
          DrawnAs(Level(leafHashes, k), m, PowersOfTwo(n)[k], n, F[k])
  BY <1>2, LevelsDrawn
<1> DEFINE Room(k) == n <= PowersOfTwo(n)[k]
<1>4. Room(d)
  <2>1. PICK p \in Nat \ {0} : p = PowersOfTwo(n)[d]
    BY <1>1, PowersType
  <2>2. PICK m \in Nat : DrawnAs(Level(leafHashes, d), m, p, n, F[d])
    BY <1>1, <1>3, <2>1
  <2>3. m = 1
    BY <2>2 DEF DrawnAs, IsDepth, IsLevel
  <2>4. n <= p
    BY <2>2, <2>3 DEF DrawnAs, Fits
  <2>5. QED
    BY <2>1, <2>4
<1>5. ASSUME NEW k \in 0 .. d - 1 PROVE ~Room(k)
  <2>1. k \in 0 .. n /\ k \in 0 .. d
    BY <1>1
  <2>2. PICK p \in Nat \ {0} : p = PowersOfTwo(n)[k]
    BY <1>1, <2>1, PowersType
  <2>3. PICK m \in Nat : DrawnAs(Level(leafHashes, k), m, p, n, F[k])
    BY <1>3, <2>1, <2>2
  <2>4. m >= 2
    BY <2>3 DEF DrawnAs, IsDepth, IsLevel
  <2>5. PICK a \in Nat : a = m - 1 /\ 1 <= a
    BY <2>4
  <2>6. 1 * p <= a * p /\ a * p \in Nat
    BY <2>5, MultiplyOrder
  <2>7. a * p < n
    BY <2>3, <2>5 DEF DrawnAs, Fits
  <2>8. p < n
    BY <1>1, <2>6, <2>7
  <2>9. QED
    BY <1>1, <2>2, <2>8
<1>6. \A g \in 0 .. n : Room(g) => d <= g
  <2>1. SUFFICES ASSUME NEW g \in 0 .. n, Room(g), ~(d <= g) PROVE FALSE
    OBVIOUS
  <2>2. g \in 0 .. d - 1
    BY <1>1, <2>1
  <2>3. QED
    BY <1>5, <2>1, <2>2
<1>7. Height(n) = CHOOSE h \in 0 .. n : Room(h) /\ \A g \in 0 .. n : Room(g) => h <= g
  BY DEF Height
<1>8. Height(n) \in 0 .. n /\ Room(Height(n)) /\ \A g \in 0 .. n : Room(g) => Height(n) <= g
  <2> HIDE DEF Room
  <2>1. QED
    BY <1>1, <1>4, <1>6, <1>7
<1>9. d <= Height(n) /\ Height(n) <= d
  BY <1>1, <1>4, <1>6, <1>8
<1>10. QED
  BY <1>1, <1>8, <1>9

\* The root that buildMerkleTree computes level by level from the leaves up, with its
\* rule for the odd node out, is the root of the tree drawn from above: of the least
\* height that has room for the leaves, where a node with no leaf under its right half
\* is its left half paired with itself.  This is so for any number of leaves.
THEOREM RootIsReference ==
    ASSUME NEW S, NEW leafHashes \in Seq(S), leafHashes # <<>>
    PROVE  Build(leafHashes).rootHash = Reference(leafHashes)
<1>1. PICK n : n = Len(leafHashes)
  OBVIOUS
<1>2. PICK d : IsDepth(leafHashes, n, d)
  BY <1>1, DepthExists
<1>3. d = Height(n) /\ d \in Nat
  <2>1. n \in Nat
    BY <1>1, LenProperties
  <2>2. d \in 0 .. n
    BY <1>2 DEF IsDepth
  <2>3. QED
    BY <1>1, <1>2, <2>1, <2>2, DepthIsHeight
<1>4. PICK F : F = Nodes(leafHashes)
  OBVIOUS
<1>5. IsNodes(F, leafHashes, d)
  BY <1>1, <1>3, <1>4, NodesDef
<1>6. PICK m \in Nat : DrawnAs(Level(leafHashes, d), m, PowersOfTwo(n)[d], n, F[d])
  <2>1. d \in 0 .. d
    BY <1>3
  <2>2. QED
    BY <1>1, <1>2, <1>5, <2>1, LevelsDrawn
<1>7. /\ Build(leafHashes).rootHash = Level(leafHashes, d)[1].hash
      /\ IsLevel(Level(leafHashes, d), 1)
  BY <1>1, <1>2, RootAtDepth
<1>8. Level(leafHashes, d)[1].hash = F[d][0]
  <2>1. 1 \in 1 .. m /\ 1 - 1 = 0
    BY <1>6, <1>7 DEF DrawnAs, IsLevel
  <2>2. QED
    BY <1>6, <2>1 DEF DrawnAs
<1>9. QED
  BY <1>1, <1>3, <1>4, <1>7, <1>8 DEF Reference

\* TreeCorrect, which the runs evaluate for up to nine leaves, for any number of
\* different leaves: buildMerkleTree computes the reference root, and each of its
\* paths verifies its own leaf and no other.
THEOREM TreesAreCorrect == \A n \in Nat \ {0} : TreeCorrect(n)
<1> SUFFICES ASSUME NEW n \in Nat \ {0} PROVE TreeCorrect(n)
  OBVIOUS
<1>1. PICK leafHashes : leafHashes = [i \in 1 .. n |-> LeafHash(i)]
  OBVIOUS
<1>2. PICK S : S = {LeafHash(i) : i \in 1 .. n}
  OBVIOUS
<1>3. leafHashes \in Seq(S) /\ leafHashes # <<>> /\ DOMAIN leafHashes = 1 .. n
  <2>1. leafHashes \in [1 .. n -> S]
    BY <1>1, <1>2
  <2>2. leafHashes \in Seq(S) /\ Len(leafHashes) = n
    BY <2>1
  <2>3. QED
    BY <2>1, <2>2, EmptySeq
<1>4. Build(leafHashes).rootHash = Reference(leafHashes)
  BY <1>3, RootIsReference
<1>5. ASSUME NEW i \in 1 .. n, NEW j \in 1 .. n
      PROVE  Verify(leafHashes[j], Build(leafHashes).proofs[i], Build(leafHashes).rootHash)
                <=> i = j
  <2>1. Verify(leafHashes[j], Build(leafHashes).proofs[i], Build(leafHashes).rootHash)
           <=> leafHashes[j] = leafHashes[i]
    BY <1>3, PathsVerify
  <2>2. leafHashes[j] = leafHashes[i] <=> i = j
    BY <1>1 DEF LeafHash
  <2>3. QED
    BY <2>1, <2>2
<1>6. QED
  BY <1>1, <1>4, <1>5 DEF TreeCorrect
===============================================================================
