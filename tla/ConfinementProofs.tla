------------------------- MODULE ConfinementProofs -------------------------
(***************************************************************************)
(* Proof that a lookup which starts in a top-level entry of the unpacked   *)
(* tree never leaves it, for every set of names, depth, set of targets and *)
(* number of objects.  The chain: what validate_path() accepts climbs no   *)
(* further than it was allowed to (AcceptedTargetBounded); a bound on the  *)
(* components still to resolve survives each kind of component             *)
(* (BoundedPop, BoundedTail, BoundedPush); ConfinementInv is inductive.    *)
(***************************************************************************)
EXTENDS Confinement, FiniteSetTheorems, SequenceTheorems, TLAPS

(***************************************************************************)
(* Paths and components                                                    *)
(***************************************************************************)

(* A stored path is a non-empty sequence of names, no longer than MaxDepth.*)
LEMMA PathFacts ==
    ASSUME NEW p \in Paths
    PROVE  /\ p \in Seq(Names)
           /\ Len(p) \in 1..MaxDepth
           /\ p # <<>>
           /\ \A i \in 1..Len(p) : p[i] \in Names /\ IsName(p[i])
<1>1. PICK n \in 1..MaxDepth : p \in [1..n -> Names]
  BY DEF Paths
<1>2. n \in Nat /\ MaxDepth \in Nat
  BY PathRulesAssumption
<1>3. p \in Seq(Names) /\ Len(p) = n
  BY <1>1, <1>2
<1>4. \A i \in 1..Len(p) : p[i] \in Names
  BY <1>3
<1>5. \A c \in Names : IsName(c)
  BY PathRulesAssumption DEF IsName, DotDot, Dot, Root
<1> QED
  BY <1>1, <1>2, <1>3, <1>4, <1>5

(* A non-empty sequence of names that is not too long is a stored path.    *)
LEMMA PathIntro ==
    ASSUME NEW s \in Seq(Names), Len(s) \in 1..MaxDepth
    PROVE  s \in Paths
<1>1. s \in [1..Len(s) -> Names]
  OBVIOUS
<1> QED
  BY <1>1 DEF Paths

(***************************************************************************)
(* What the validator accepts                                              *)
(***************************************************************************)

(* A path of which a component is refused is refused.                      *)
LEMMA AcceptedComponents ==
    ASSUME NEW s \in Seq(Components), NEW k, NEW flags, NEW U,
           ValidatePath(s, FALSE, k, flags, U) >= 0,
           NEW i \in 1..Len(s)
    PROVE  /\ s[1] # Root
           /\ ComponentError(s, i, k, flags, U) = 0
<1>1. s # <<>>
  OBVIOUS
<1>2. s[1] # Root
  BY <1>1 DEF ValidatePath, ENOLINK
<1>3. {j \in 1..Len(s) : ComponentError(s, j, k, flags, U) # 0} = {}
  BY <1>1, <1>2 DEF ValidatePath, ENOLINK, EILSEQ
<1> QED
  BY <1>2, <1>3

(* validate_path() counts the components of a stored path it accepts.      *)
LEMMA AcceptedDepth ==
    ASSUME NEW p \in Paths, NEW flags, NEW U,
           ValidatePath(p, FALSE, 0, flags, U) >= 0
    PROVE  ValidatePath(p, FALSE, 0, flags, U) = Len(p)
<1>1. {i \in 1..Len(p) : IsName(p[i])} = 1..Len(p)
  BY PathFacts
<1>2. Cardinality(1..Len(p)) = Len(p)
  BY PathFacts, FS_Interval, PathRulesAssumption
<1>3. p \in Seq(Components) /\ p # <<>> /\ 1 \in 1..Len(p)
  BY PathFacts, PathRulesAssumption DEF Components
<1>4. \A i \in 1..Len(p) : p[1] # Root /\ ComponentError(p, i, 0, flags, U) = 0
  BY <1>3, AcceptedComponents
<1> QED
  BY <1>1, <1>2, <1>3, <1>4 DEF ValidatePath

(* validate_path() accepts no more ".." than it was told to, and none      *)
(* after a name: an accepted target is Bounded.                            *)
LEMMA AcceptedTargetBounded ==
    ASSUME NEW t \in Seq(Components), NEW k \in Int, NEW flags, NEW U,
           \A i \in 2..Len(t) : t[i] # Root,
           ValidatePath(t, FALSE, k, flags, U) >= 0
    PROVE  Bounded(t, k)
<1> SUFFICES ASSUME NEW i \in 1..Len(t)
             PROVE  /\ t[i] # Root
                    /\ t[i] = DotDot =>
                         /\ \A j \in 1..(i - 1) : ~IsName(t[j])
                         /\ Cardinality({j \in 1..i : t[j] = DotDot}) <= k
  BY DEF Bounded
<1>1. t[1] # Root /\ ComponentError(t, i, k, flags, U) = 0
  BY AcceptedComponents
<1>2. t[i] # Root
  BY <1>1
<1>3. ASSUME t[i] = DotDot
      PROVE  /\ \A j \in 1..(i - 1) : ~IsName(t[j])
             /\ ~(Cardinality({j \in 1..i : t[j] = DotDot}) > k)
  BY <1>1, <1>3 DEF ComponentError, ENOLINK
<1>4. Cardinality({j \in 1..i : t[j] = DotDot}) \in Nat
  <2>1. IsFiniteSet(1..i)
    BY FS_Interval
  <2> QED
    BY <2>1, FS_Subset, FS_CardinalityType
<1> QED
  BY <1>2, <1>3, <1>4

(***************************************************************************)
(* How a bound on the remaining components changes along a lookup          *)
(***************************************************************************)

(* The positions of ".." in the tail, moved by one.                        *)
LEMMA ShiftCount ==
    ASSUME NEW s \in Seq(Components), s # <<>>, NEW i \in 1..Len(Tail(s))
    PROVE  LET A == {j \in 1..(i + 1) : s[j] = DotDot}
               B == {j \in 1..i : Tail(s)[j] = DotDot}
           IN  /\ Cardinality(B) \in Nat
               /\ Cardinality(A) = IF s[1] = DotDot THEN Cardinality(B) + 1
                                                    ELSE Cardinality(B)
<1> DEFINE A == {j \in 1..(i + 1) : s[j] = DotDot}
           B == {j \in 1..i : Tail(s)[j] = DotDot}
           f == [j \in B |-> j + 1]
<1>0. Len(s) \in Nat /\ Len(Tail(s)) = Len(s) - 1
      /\ \A j \in 1..Len(Tail(s)) : Tail(s)[j] = s[j + 1]
  BY HeadTailProperties, LenProperties
<1>1. IsFiniteSet(1..(i + 1)) /\ IsFiniteSet(1..i)
  BY <1>0, FS_Interval
<1>2. IsFiniteSet(A) /\ IsFiniteSet(B)
  BY <1>1, FS_Subset
<1>3. Cardinality(A) \in Nat /\ Cardinality(B) \in Nat
  BY <1>2, FS_CardinalityType
<1>4. f \in [B -> A \ {1}]
  BY <1>0
<1>5. \A x, y \in B : f[x] = f[y] => x = y
  BY <1>0
<1>6. \A a \in A \ {1} : \E b \in B : f[b] = a
  <2> SUFFICES ASSUME NEW a \in A \ {1} PROVE \E b \in B : f[b] = a
    OBVIOUS
  <2>1. a - 1 \in 1..i
    BY <1>0
  <2>2. Tail(s)[a - 1] = s[a]
    BY <1>0, <2>1
  <2>3. a - 1 \in B
    BY <2>1, <2>2
  <2>4. f[a - 1] = a
    BY <1>0, <2>3
  <2> QED
    BY <2>3, <2>4
<1>7. ExistsBijection(B, A \ {1})
  <2> HIDE DEF A, B, f
  <2>1. f \in Bijection(B, A \ {1})
    BY <1>4, <1>5, <1>6 DEF Bijection, Injection, Surjection, IsInjective
  <2> QED
    BY <2>1 DEF ExistsBijection
<1>8. Cardinality(A \ {1}) = Cardinality(B)
  <2> HIDE DEF A, B
  <2> QED BY <1>2, <1>7, FS_Bijection
<1>9. 1 \in A <=> s[1] = DotDot
  BY <1>0
<1>10. Cardinality(A \ {1}) = IF 1 \in A THEN Cardinality(A) - 1 ELSE Cardinality(A)
  <2> HIDE DEF A
  <2> QED BY <1>2, FS_RemoveElement
<1>11. Cardinality(A) = IF s[1] = DotDot THEN Cardinality(B) + 1 ELSE Cardinality(B)
  <2> HIDE DEF A, B
  <2> QED BY <1>3, <1>8, <1>9, <1>10
<1> QED
  BY <1>3, <1>11, Zenon

(* Resolving a leading ".." uses up one of those allowed.                  *)
LEMMA BoundedPop ==
    ASSUME NEW s \in Seq(Components), s # <<>>, NEW k \in Int, Bounded(s, k)
    PROVE  /\ s[1] = DotDot => k >= 1 /\ Bounded(Tail(s), k - 1)
           /\ s[1] # DotDot => Bounded(Tail(s), k)
<1>0. Len(s) \in Nat /\ Len(Tail(s)) = Len(s) - 1 /\ 1 \in 1..Len(s)
      /\ \A j \in 1..Len(Tail(s)) : Tail(s)[j] = s[j + 1]
  BY HeadTailProperties, LenProperties
<1>1. ASSUME s[1] = DotDot PROVE k >= 1
  <2>1. Cardinality({j \in 1..1 : s[j] = DotDot}) <= k
    BY <1>0, <1>1 DEF Bounded
  <2>2. {j \in 1..1 : s[j] = DotDot} = {1}
    BY <1>1
  <2> QED
    BY <2>1, <2>2, FS_Singleton
<1>2. ASSUME NEW i \in 1..Len(Tail(s))
      PROVE  /\ Tail(s)[i] # Root
             /\ Tail(s)[i] = DotDot =>
                  /\ \A j \in 1..(i - 1) : ~IsName(Tail(s)[j])
                  /\ Cardinality({j \in 1..i : Tail(s)[j] = DotDot}) <=
                       IF s[1] = DotDot THEN k - 1 ELSE k
  <2> DEFINE A == {j \in 1..(i + 1) : s[j] = DotDot}
             B == {j \in 1..i : Tail(s)[j] = DotDot}
  <2>1. i + 1 \in 1..Len(s) /\ Tail(s)[i] = s[i + 1]
    BY <1>0
  <2>2. s[i + 1] # Root
    BY <2>1 DEF Bounded
  <2>3. ASSUME s[i + 1] = DotDot
        PROVE  Cardinality(A) <= k /\ \A j \in 1..i : ~IsName(s[j])
    BY <2>1, <2>3 DEF Bounded
  <2>4. /\ Cardinality(B) \in Nat
        /\ Cardinality(A) = IF s[1] = DotDot THEN Cardinality(B) + 1
                                             ELSE Cardinality(B)
    BY ShiftCount
  <2>5. ASSUME s[i + 1] = DotDot PROVE \A j \in 1..(i - 1) : ~IsName(Tail(s)[j])
    BY <1>0, <2>3, <2>5
  <2> HIDE DEF A, B
  <2>6. ASSUME s[i + 1] = DotDot
        PROVE  Cardinality(B) <= IF s[1] = DotDot THEN k - 1 ELSE k
    BY <2>3, <2>4, <2>6
  <2> QED
    BY <2>1, <2>2, <2>5, <2>6 DEF B
<1> QED
  BY <1>1, <1>2 DEF Bounded

(* After a name no ".." is left, so that any bound holds.                  *)
LEMMA BoundedTail ==
    ASSUME NEW s \in Seq(Components), s # <<>>, NEW k \in Int, Bounded(s, k),
           IsName(s[1])
    PROVE  /\ \A i \in 1..Len(Tail(s)) : Tail(s)[i] \notin {DotDot, Root}
           /\ \A m : Bounded(Tail(s), m)
<1>0. Len(s) \in Nat /\ Len(Tail(s)) = Len(s) - 1
      /\ \A j \in 1..Len(Tail(s)) : Tail(s)[j] = s[j + 1]
  BY HeadTailProperties, LenProperties
<1>1. \A i \in 1..Len(Tail(s)) : Tail(s)[i] \notin {DotDot, Root}
  <2> SUFFICES ASSUME NEW i \in 1..Len(Tail(s))
               PROVE  s[i + 1] # DotDot /\ s[i + 1] # Root
    BY <1>0
  <2>1. i + 1 \in 1..Len(s) /\ 1 \in 1..((i + 1) - 1)
    BY <1>0
  <2> QED
    BY <2>1 DEF Bounded
<1> QED
  BY <1>1 DEF Bounded

(* Following a link puts its target in front of a rest without "..".       *)
LEMMA BoundedPush ==
    ASSUME NEW t \in Seq(Components), NEW s \in Seq(Components), NEW k \in Int,
           Bounded(t, k),
           \A i \in 1..Len(s) : s[i] \notin {DotDot, Root}
    PROVE  Bounded(t \o s, k)
<1>0. /\ Len(t) \in Nat /\ Len(s) \in Nat
      /\ Len(t \o s) = Len(t) + Len(s)
      /\ \A i \in 1..(Len(t) + Len(s)) :
            (t \o s)[i] = IF i <= Len(t) THEN t[i] ELSE s[i - Len(t)]
  BY ConcatProperties, LenProperties
<1> DEFINE u == t \o s
           Up(v, i) == {j \in 1..i : v[j] = DotDot}
<1> SUFFICES ASSUME NEW i \in 1..Len(u)
             PROVE  /\ u[i] # Root
                    /\ u[i] = DotDot => /\ \A j \in 1..(i - 1) : ~IsName(u[j])
                                       /\ Cardinality(Up(u, i)) <= k
  BY DEF Bounded
<1>1. CASE i <= Len(t)
  <2>1. i \in 1..Len(t) /\ \A j \in 1..i : u[j] = t[j]
    BY <1>0, <1>1
  <2>2. Up(u, i) = Up(t, i)
    BY <2>1
  <2>3. u[i] = t[i] /\ \A j \in 1..(i - 1) : u[j] = t[j]
    BY <2>1
  <2>4. /\ t[i] # Root
        /\ t[i] = DotDot => /\ \A j \in 1..(i - 1) : ~IsName(t[j])
                           /\ Cardinality(Up(t, i)) <= k
    BY <2>1 DEF Bounded
  <2> HIDE DEF u, Up
  <2> QED
    BY <2>2, <2>3, <2>4
<1>2. CASE i > Len(t)
  <2>1. i - Len(t) \in 1..Len(s) /\ u[i] = s[i - Len(t)]
    BY <1>0, <1>2
  <2>2. u[i] # DotDot /\ u[i] # Root
    BY <2>1
  <2> HIDE DEF u, Up
  <2> QED
    BY <2>2
<1>3. i <= Len(t) \/ i > Len(t)
  BY <1>0
<1> HIDE DEF u, Up
<1> QED
  BY <1>1, <1>2, <1>3

(***************************************************************************)
(* What process_one_file_link() stores                                     *)
(***************************************************************************)

(* validate_path() returns a count or one of its two errors.               *)
LEMMA ValidatePathValue ==
    ASSUME NEW s \in Seq(Components), NEW k, NEW flags, NEW U
    PROVE  ValidatePath(s, FALSE, k, flags, U) \in Nat \cup {-67, -84}
<1>1. IsFiniteSet(1..Len(s))
  BY FS_Interval, LenProperties
<1>2. Cardinality({i \in 1..Len(s) : IsName(s[i])}) \in Nat
  BY <1>1, FS_Subset, FS_CardinalityType
<1> QED
  BY <1>2 DEF ValidatePath, ENOLINK, EILSEQ

(* A link that is stored lies at least two deep and climbs at most to the  *)
(* top-level entry above it (unicode.c:284-298).                           *)
LEMMA StoredLinkBounded ==
    ASSUME NEW tree, NEW p \in Paths, NEW target \in Targets,
           LinkError(tree, p, target, Flags) = 0
    PROVE  /\ Len(p) >= 2
           /\ Bounded(target, Len(p) - 2)
           /\ OpendirSafe(tree, p) = 0
           /\ ~Exists(tree, p)
<1> DEFINE depth == ValidatePath(p, FALSE, 0, Flags, UnsafeNames)
           tflags == IF "NON_CANONICAL_SYMLINKS" \in Flags
                     THEN Flags \cup {"NON_CANONICAL_PATHS", "TRAILING_SLASH"}
                     ELSE Flags \cup {"TRAILING_SLASH"}
           res == ValidatePath(target, FALSE, depth - 2, tflags, UnsafeNames)
           rc == ValidateSymbolicLink(p, target, Flags)
<1>1. p \in Seq(Components) /\ target \in Seq(Components) /\ Len(p) \in Nat
  BY PathFacts, ConfinementAssumption, PathRulesAssumption DEF Components
<1>2. depth \in Nat \cup {-67, -84} /\ res \in Nat \cup {-67, -84}
  BY <1>1, ValidatePathValue, ZenonT(60)
<1>3. "UNSAFE_SYMLINKS" \notin Flags
  BY ConfinementAssumption
<1>4. rc = IF depth < 0 THEN -EILSEQ
           ELSE IF depth < 2 THEN -ENOLINK
           ELSE IF res \in {-ENOLINK, -EILSEQ} THEN res ELSE 0
  BY <1>3 DEF ValidateSymbolicLink
<1>5. rc = 0
  <2> HIDE DEF depth, res, rc
  <2>1. rc \in Int
    BY <1>2, <1>4 DEF EILSEQ, ENOLINK
  <2> QED
    BY <2>1 DEF LinkError, rc
<1>6. depth >= 2 /\ res >= 0
  <2> HIDE DEF depth, res, rc
  <2> QED BY <1>2, <1>4, <1>5 DEF EILSEQ, ENOLINK
<1>7. depth = Len(p)
  <2>1. depth >= 0
    <3> HIDE DEF depth
    <3> QED BY <1>2, <1>6
  <2> QED
    BY <2>1, AcceptedDepth
<1>8. \A i \in 2..Len(target) : target[i] # Root
  BY ConfinementAssumption
<1>9. Bounded(target, Len(p) - 2)
  <2> HIDE DEF tflags, depth
  <2>1. ValidatePath(target, FALSE, Len(p) - 2, tflags, UnsafeNames) >= 0
    BY <1>6, <1>7
  <2>2. Len(p) - 2 \in Int
    BY <1>1
  <2> QED
    BY <1>1, <1>8, <2>1, <2>2, AcceptedTargetBounded
<1>10. OpendirSafe(tree, p) = 0 /\ ~Exists(tree, p)
  <2> HIDE DEF rc
  <2>1. LinkError(tree, p, target, Flags) =
          IF OpendirSafe(tree, p) # 0 THEN OpendirSafe(tree, p)
          ELSE IF target = <<>> THEN ENOENT
          ELSE CreateError(tree, p)
    BY <1>5, Zenon DEF LinkError, rc
  <2>2. OpendirSafe(tree, p) = 0
    BY <2>1
  <2> QED
    BY <2>1, <2>2 DEF CreateError, EEXIST, ENOENT
<1> HIDE DEF depth
<1> QED
  BY <1>6, <1>7, <1>9, <1>10

(***************************************************************************)
(* The invariant                                                           *)
(***************************************************************************)

(* The receiving directory is empty and no lookup is under way.            *)
LEMMA InitInv == Init => ConfinementInv
<1> SUFFICES ASSUME Init PROVE ConfinementInv
  OBVIOUS
<1>1. \A p \in Paths : dst[p] = Absent
  BY DEF Init, EmptyTree
<1>2. Absent \in Node /\ Absent.kind = "none"
  BY DEF Absent, MkNode, Node
<1>3. TypeOK
  BY <1>1, <1>2 DEF Init, TypeOK, EmptyTree, NoHome
<1>4. NoTopLevelLink /\ LinksBounded
  BY <1>1, <1>2 DEF NoTopLevelLink, LinksBounded
<1>5. Confined /\ LookupBounded
  BY DEF Init, Confined, LookupBounded, Looking
<1> QED
  BY <1>3, <1>4, <1>5 DEF ConfinementInv

(* Storing an object leaves the invariant, whatever arrives.               *)
LEMMA StoreInv ==
    ASSUME ConfinementInv, NEW p \in Paths, NEW node \in Node,
           dst' = Put(dst, p, node), UNCHANGED lookupVars,
           node.kind = "link" => Len(p) >= 2 /\ Bounded(node.target, Len(p) - 2)
    PROVE  ConfinementInv'
<1> USE DEF ConfinementInv
<1>1. /\ dst' \in [Paths -> Node]
      /\ \A q \in Paths : dst'[q] = IF q = p THEN node ELSE dst[q]
  BY DEF TypeOK, Put
<1>2. TypeOK'
  BY <1>1 DEF TypeOK, lookupVars
<1>3. NoTopLevelLink'
  BY <1>1 DEF NoTopLevelLink
<1>4. LinksBounded'
  BY <1>1 DEF LinksBounded
<1>5. Confined' /\ LookupBounded'
  BY DEF Confined, LookupBounded, Looking, lookupVars
<1> QED
  BY <1>2, <1>3, <1>4, <1>5

(* The directory a lookup has reached, or the outside.                     *)
LEMMA PosFacts ==
    ASSUME TypeOK
    PROVE  /\ pos \in Seq(Names)
           /\ Len(pos) \in Nat
           /\ Len(pos) <= MaxDepth
<1>0. MaxDepth \in Nat
  BY PathRulesAssumption
<1>1. CASE pos = <<>>
  <2>1. <<>> \in Seq(Names) /\ Len(<<>>) = 0
    BY EmptySeq
  <2> QED
    BY <1>0, <1>1, <2>1
<1>2. CASE pos \in Paths
  BY <1>0, <1>2, PathFacts
<1> QED
  BY <1>1, <1>2 DEF TypeOK

(* Each step of a lookup leaves the invariant.                             *)
LEMMA LookupStartInv ==
    ASSUME ConfinementInv, NEW p \in Paths, LookupStart(p)
    PROVE  ConfinementInv'
<1> USE DEF ConfinementInv
<1>1. p \in Seq(Names) /\ p # <<>> /\ p[1] \in Names /\ Names \subseteq Components
  BY PathFacts DEF Components
<1>2. /\ Tail(p) \in Seq(Names)
      /\ \A i \in 1..Len(Tail(p)) : Tail(p)[i] \in Names
  BY <1>1, HeadTailProperties, ElementOfSeq
<1>3. \A k : Bounded(Tail(p), k)
  <2>1. \A c \in Names : c # DotDot /\ c # Root
    BY PathRulesAssumption DEF DotDot, Root
  <2> QED
    BY <1>2, <2>1 DEF Bounded
<1>4. <<p[1]>> \in Paths
  <2>1. <<p[1]>> \in Seq(Names) /\ Len(<<p[1]>>) = 1
    BY <1>1
  <2>2. 1 \in 1..MaxDepth
    BY PathRulesAssumption
  <2> QED
    BY <2>1, <2>2, PathIntro
<1>5. TypeOK'
  <2>1. Tail(p) \in Seq(Components)
    BY <1>1, <1>2, SeqMonotonic
  <2> QED
    BY <1>1, <1>4, <2>1 DEF TypeOK, LookupStart
<1>6. Confined'
  BY <1>1 DEF Confined, LookupStart
<1>7. LookupBounded'
  BY <1>3 DEF LookupBounded, LookupStart
<1>8. NoTopLevelLink' /\ LinksBounded'
  BY DEF NoTopLevelLink, LinksBounded, LookupStart
<1> QED
  BY <1>5, <1>6, <1>7, <1>8

(* A component "." or ".." of a lookup.                                    *)
LEMMA LookupSpecialInv ==
    ASSUME ConfinementInv, LookupSpecial
    PROVE  ConfinementInv'
<1> USE DEF ConfinementInv
<1>1. /\ rest \in Seq(Components) /\ rest # <<>>
      /\ Head(rest) = rest[1] /\ Tail(rest) \in Seq(Components)
      /\ rest' = Tail(rest) /\ 1 \in 1..Len(rest)
  BY DEF TypeOK, LookupSpecial, Looking
<1>2. pos \in Seq(Names) /\ Len(pos) \in Nat /\ Len(pos) <= MaxDepth
  BY PosFacts
<1>3. Bounded(rest, Len(pos) - 1) /\ Len(pos) - 1 \in Int
  BY <1>2 DEF LookupBounded, LookupSpecial
<1>4. rest[1] # Root
  BY <1>1, <1>3 DEF Bounded
<1>5. NoTopLevelLink' /\ LinksBounded'
  BY DEF NoTopLevelLink, LinksBounded, LookupSpecial
<1>6. CASE rest[1] = DotDot
  <2>1. Len(pos) - 1 >= 1 /\ Bounded(Tail(rest), (Len(pos) - 1) - 1)
    BY <1>1, <1>3, <1>6, BoundedPop
  <2>2. pos # <<>> /\ pos' = SubSeq(pos, 1, Len(pos) - 1)
    BY <1>1, <1>2, <1>4, <1>6, <2>1 DEF LookupSpecial
  <2>3. /\ pos' \in Seq(Names) /\ Len(pos') = Len(pos) - 1
        /\ pos'[1] = pos[1]
    BY <1>2, <2>1, <2>2
  <2>4. pos' \in Paths
    <3>1. Len(pos') \in 1..MaxDepth
      BY <1>2, <2>1, <2>3, PathRulesAssumption
    <3> QED
      BY <2>3, <3>1, PathIntro
  <2>5. TypeOK'
    BY <1>1, <2>4 DEF TypeOK, LookupSpecial
  <2>6. Confined'
    <3>1. pos' # <<>>
      BY <2>4, PathFacts
    <3> QED
      BY <2>2, <2>3, <3>1 DEF Confined, LookupSpecial
  <2>7. LookupBounded'
    BY <1>1, <2>1, <2>3 DEF LookupBounded
  <2> QED
    BY <1>5, <2>5, <2>6, <2>7
<1>7. CASE rest[1] # DotDot
  <2>1. pos' = pos
    BY <1>1, <1>4, <1>7 DEF LookupSpecial
  <2>2. Bounded(Tail(rest), Len(pos) - 1)
    BY <1>1, <1>3, <1>7, BoundedPop
  <2>3. TypeOK' /\ Confined'
    BY <1>1, <2>1 DEF TypeOK, Confined, LookupSpecial
  <2>4. LookupBounded'
    BY <1>1, <2>1, <2>2 DEF LookupBounded
  <2> QED
    BY <1>5, <2>3, <2>4
<1> QED
  BY <1>6, <1>7

(* The entry that the next component names: the component is a name.       *)
LEMMA EntryFacts ==
    ASSUME ConfinementInv, Looking, Entry \in Paths
    PROVE  /\ IsName(rest[1])
           /\ Len(Entry) = Len(pos) + 1
           /\ pos # <<>> => Entry[1] = pos[1]
           /\ Entry # <<>>
<1>1. rest \in Seq(Components) /\ rest # <<>> /\ Head(rest) = rest[1]
      /\ rest[1] \in Components
  BY DEF ConfinementInv, TypeOK, Looking
<1>2. pos \in Seq(Names) /\ Len(pos) \in Nat
  BY PosFacts DEF ConfinementInv
<1>3. pos \in Seq(Components)
  BY <1>2, SeqMonotonic DEF Components
<1>4. /\ Len(Entry) = Len(pos) + 1
      /\ Entry[Len(pos) + 1] = rest[1]
      /\ \A i \in 1..Len(pos) : Entry[i] = pos[i]
  BY <1>1, <1>3, AppendProperties DEF Entry
<1>5. pos # <<>> => 1 \in 1..Len(pos)
  BY <1>2
<1>6. IsName(Entry[Len(pos) + 1])
  BY <1>2, <1>4, PathFacts
<1> QED
  BY <1>4, <1>5, <1>6, PathFacts

(* A component that names a directory.                                     *)
LEMMA LookupDirInv ==
    ASSUME ConfinementInv, LookupDir
    PROVE  ConfinementInv'
<1> USE DEF ConfinementInv
<1>1. Looking /\ Entry \in Paths /\ pos' = Entry /\ rest' = Tail(rest)
  BY DEF LookupDir
<1>2. rest \in Seq(Components) /\ rest # <<>> /\ Tail(rest) \in Seq(Components)
  BY <1>1 DEF TypeOK, Looking
<1>3. Bounded(rest, Len(pos) - 1) /\ Len(pos) - 1 \in Int
  BY <1>1, PosFacts DEF LookupBounded
<1>4. \A m : Bounded(Tail(rest), m)
  BY <1>1, <1>2, <1>3, EntryFacts, BoundedTail
<1>5. TypeOK'
  BY <1>1, <1>2 DEF TypeOK, LookupDir
<1>6. Confined'
  BY <1>1, EntryFacts DEF Confined, LookupDir
<1>7. LookupBounded'
  BY <1>1, <1>4 DEF LookupBounded
<1>8. NoTopLevelLink' /\ LinksBounded'
  BY DEF NoTopLevelLink, LinksBounded, LookupDir
<1> QED
  BY <1>5, <1>6, <1>7, <1>8

(* A component that names a link: its target is followed.                  *)
LEMMA LookupLinkInv ==
    ASSUME ConfinementInv, LookupLink
    PROVE  ConfinementInv'
<1> USE DEF ConfinementInv
<1>1. /\ Looking /\ Entry \in Paths
      /\ rest' = dst[Entry].target \o Tail(rest)
      /\ UNCHANGED <<dst, home, pos>>
  BY DEF LookupLink
<1>2. rest \in Seq(Components) /\ rest # <<>> /\ Tail(rest) \in Seq(Components)
  BY <1>1 DEF TypeOK, Looking
<1>3. Bounded(rest, Len(pos) - 1) /\ Len(pos) - 1 \in Int /\ Len(pos) \in Nat
  BY <1>1, PosFacts DEF LookupBounded
<1>4. \A i \in 1..Len(Tail(rest)) : Tail(rest)[i] \notin {DotDot, Root}
  BY <1>1, <1>2, <1>3, EntryFacts, BoundedTail
<1>5. dst[Entry].target \in Seq(Components)
  BY <1>1 DEF TypeOK, Node
<1>6. Bounded(dst[Entry].target, Len(pos) - 1)
  <2>1. Bounded(dst[Entry].target, Len(Entry) - 2)
    BY <1>1 DEF LinksBounded, LookupLink
  <2>2. Len(Entry) - 2 = Len(pos) - 1
    BY <1>1, <1>3, EntryFacts
  <2> QED
    BY <2>1, <2>2
<1>7. Bounded(rest', Len(pos') - 1)
  BY <1>1, <1>2, <1>3, <1>4, <1>5, <1>6, BoundedPush
<1>8. rest' \in Seq(Components)
  BY <1>1, <1>2, <1>5, ConcatProperties
<1>9. TypeOK'
  BY <1>1, <1>8 DEF TypeOK, LookupLink
<1>10. Confined' /\ LookupBounded' /\ NoTopLevelLink' /\ LinksBounded'
  BY <1>1, <1>7 DEF Confined, LookupBounded, NoTopLevelLink, LinksBounded
<1> QED
  BY <1>9, <1>10

(* The end of a lookup.                                                    *)
LEMMA LookupStopInv ==
    ASSUME ConfinementInv, LookupStop
    PROVE  ConfinementInv'
<1> USE DEF ConfinementInv, LookupStop
<1>1. TypeOK'
  BY DEF TypeOK
<1>2. Confined' /\ LookupBounded' /\ NoTopLevelLink' /\ LinksBounded'
  BY DEF Confined, LookupBounded, Looking, NoTopLevelLink, LinksBounded
<1> QED
  BY <1>1, <1>2

(* Every step, the stores of unpack.c and the lookups, keeps the invariant.*)
LEMMA NextInv == ConfinementInv /\ [Next]_vars => ConfinementInv'
<1> SUFFICES ASSUME ConfinementInv, [Next]_vars PROVE ConfinementInv'
  OBVIOUS
<1>1. ASSUME NEW p \in Paths, StoreReg(p) PROVE ConfinementInv'
  <2>1. MkNode("reg", "final", 0, <<>>, <<>>) \in Node
    BY DEF MkNode, Node
  <2>2. MkNode("reg", "final", 0, <<>>, <<>>).kind # "link"
    BY DEF MkNode
  <2> QED
    BY <1>1, <2>1, <2>2, StoreInv DEF StoreReg
<1>2. ASSUME NEW p \in Paths, StoreDir(p) PROVE ConfinementInv'
  <2> DEFINE node == MkNode("dir", IF Exists(dst, p) THEN "final" ELSE "rwx",
                            0, <<>>, <<>>)
  <2>1. node \in Node /\ node.kind # "link"
    BY DEF MkNode, Node
  <2>2. dst' = Put(dst, p, node) /\ UNCHANGED lookupVars
    BY <1>2 DEF StoreDir
  <2> HIDE DEF node
  <2> QED
    BY <2>1, <2>2, StoreInv
<1>3. ASSUME NEW p \in Paths, NEW target \in Targets, StoreLink(p, target)
      PROVE  ConfinementInv'
  <2> DEFINE node == MkNode("link", "final", Len(target), <<>>, target)
  <2>1. target \in Seq(Components) /\ Len(target) \in Nat
    BY ConfinementAssumption
  <2>2. node \in Node /\ node.target = target
    BY <2>1 DEF MkNode, Node
  <2>3. dst' = Put(dst, p, node) /\ UNCHANGED lookupVars
    BY <1>3 DEF StoreLink
  <2>4. Len(p) >= 2 /\ Bounded(target, Len(p) - 2)
    BY <1>3, StoredLinkBounded DEF StoreLink
  <2> HIDE DEF node
  <2> QED
    BY <2>2, <2>3, <2>4, StoreInv
<1>4. ASSUME NEW p \in Paths, LookupStart(p) PROVE ConfinementInv'
  BY <1>4, LookupStartInv
<1>5. CASE LookupSpecial
  BY <1>5, LookupSpecialInv
<1>6. CASE LookupDir
  BY <1>6, LookupDirInv
<1>7. CASE LookupLink
  BY <1>7, LookupLinkInv
<1>8. CASE LookupStop
  BY <1>8, LookupStopInv
<1>9. CASE UNCHANGED vars
  <2>1. TypeOK'
    BY <1>9 DEF ConfinementInv, TypeOK, vars
  <2>2. Confined' /\ LookupBounded' /\ NoTopLevelLink' /\ LinksBounded'
    BY <1>9 DEF ConfinementInv, Confined, LookupBounded, Looking,
                NoTopLevelLink, LinksBounded, vars
  <2> QED
    BY <2>1, <2>2 DEF ConfinementInv
<1> QED
  BY <1>1, <1>2, <1>3, <1>4, <1>5, <1>6, <1>7, <1>8, <1>9 DEF Next

(* The invariant holds in every reachable state, for every stream of       *)
(* entries that reaches process_one_file() (unpack.c).                     *)
THEOREM ConfinementInvariant == Spec => []ConfinementInv
  BY InitInv, NextInv, PTL DEF Spec

(* No link stored by process_one_file_link() (unpack.c:290) ever leads a   *)
(* lookup out of the top-level entry it started in.                        *)
THEOREM Confinement_Safe == Spec => []Confined
<1>1. ConfinementInv => Confined
  BY DEF ConfinementInv
<1> QED
  BY <1>1, ConfinementInvariant, PTL

(***************************************************************************)
(* Objects are stored in directories only                                  *)
(***************************************************************************)

(* opendir_safe() reaches only real directories.                           *)
LEMMA OpendirSafeZero ==
    ASSUME NEW tree, NEW p \in Paths, OpendirSafe(tree, p) = 0
    PROVE  \A n \in 1..(Len(p) - 1) : tree[SubSeq(p, 1, n)].kind = "dir"
  BY DEF OpendirSafe, ENOENT, ENOTDIR

(* A proper prefix of a stored path is a stored path.                      *)
LEMMA PrefixIsPath ==
    ASSUME NEW p \in Paths, NEW n \in 1..(Len(p) - 1)
    PROVE  SubSeq(p, 1, n) \in Paths
<1>1. p \in Seq(Names) /\ Len(p) \in 1..MaxDepth /\ MaxDepth \in Nat
  BY PathFacts, PathRulesAssumption
<1>2. SubSeq(p, 1, n) \in Seq(Names) /\ Len(SubSeq(p, 1, n)) = n
  BY <1>1
<1>3. n \in 1..MaxDepth
  BY <1>1
<1> QED
  BY <1>2, <1>3, PathIntro

(* Storing a node where nothing or a directory was, below directories.     *)
LEMMA StoreParents ==
    ASSUME TypeOK, ParentsAreDirs, NEW p \in Paths, NEW node \in Node,
           dst' = Put(dst, p, node), OpendirSafe(dst, p) = 0,
           dst[p].kind = "dir" => node.kind = "dir",
           dst[p].kind \in {"none", "dir"}
    PROVE  ParentsAreDirs'
<1>1. \A q \in Paths : dst'[q] = IF q = p THEN node ELSE dst[q]
  BY DEF TypeOK, Put
<1>2. \A q \in Paths : dst[q].kind = "dir" => dst'[q].kind = "dir"
  BY <1>1
<1>3. ASSUME NEW q \in Paths, dst'[q].kind # "none", NEW n \in 1..(Len(q) - 1)
      PROVE  dst[SubSeq(q, 1, n)].kind = "dir"
  <2>1. CASE q = p
    BY <2>1, OpendirSafeZero
  <2>2. CASE q # p
    BY <1>1, <1>3, <2>2 DEF ParentsAreDirs, Exists
  <2> QED
    BY <2>1, <2>2
<1> QED
  BY <1>2, <1>3, PrefixIsPath DEF ParentsAreDirs, Exists

(* A file or a directory is created only below real directories, the       *)
(* latter where nothing or a directory is.                                 *)
LEMMA CheckedNames ==
    ASSUME NEW tree, NEW p
    PROVE  /\ RegError(tree, p, Flags) = 0 => OpendirSafe(tree, p) = 0
           /\ DirError(tree, p, Flags) = 0 => /\ OpendirSafe(tree, p) = 0
                                             /\ tree[p].kind \in {"none", "dir"}
<1> DEFINE rc == ValidateFileName(p, Flags)
<1>1. rc = 0 \/ rc = -84
  BY DEF ValidateFileName, EILSEQ
<1>2. /\ RegError(tree, p, Flags) = IF rc # 0 THEN -rc ELSE OpendirSafe(tree, p)
      /\ DirError(tree, p, Flags) =
           IF rc # 0 THEN rc
           ELSE IF OpendirSafe(tree, p) # 0 THEN OpendirSafe(tree, p)
           ELSE IF tree[p].kind \in {"none", "dir"} THEN 0 ELSE 20
  BY Zenon DEF RegError, DirError, ENOTDIR
<1> HIDE DEF rc
<1>3. RegError(tree, p, Flags) = 0 => rc = 0
  BY <1>1, <1>2
<1>4. DirError(tree, p, Flags) = 0 => rc = 0
  BY <1>1, <1>2
<1> QED
  BY <1>2, <1>3, <1>4

(* Every store and lookup leaves all parents directories.                  *)
LEMMA NextParents == TypeOK /\ ParentsAreDirs /\ [Next]_vars => ParentsAreDirs'
<1> SUFFICES ASSUME TypeOK, ParentsAreDirs, [Next]_vars PROVE ParentsAreDirs'
  OBVIOUS
<1>1. ASSUME NEW p \in Paths, StoreReg(p) PROVE ParentsAreDirs'
  <2>1. MkNode("reg", "final", 0, <<>>, <<>>) \in Node
    BY DEF MkNode, Node
  <2>2. OpendirSafe(dst, p) = 0
    BY <1>1, CheckedNames DEF StoreReg
  <2>3. dst[p].kind = "none"
    BY <1>1 DEF StoreReg, CreateError, Exists, EEXIST
  <2> QED
    BY <1>1, <2>1, <2>2, <2>3, StoreParents DEF StoreReg
<1>2. ASSUME NEW p \in Paths, StoreDir(p) PROVE ParentsAreDirs'
  <2> DEFINE node == MkNode("dir", IF Exists(dst, p) THEN "final" ELSE "rwx",
                            0, <<>>, <<>>)
  <2>1. node \in Node /\ node.kind = "dir"
    BY DEF MkNode, Node
  <2>2. OpendirSafe(dst, p) = 0 /\ dst[p].kind \in {"none", "dir"}
    BY <1>2, CheckedNames DEF StoreDir
  <2>3. dst' = Put(dst, p, node)
    BY <1>2 DEF StoreDir
  <2> HIDE DEF node
  <2> QED
    BY <2>1, <2>2, <2>3, StoreParents
<1>3. ASSUME NEW p \in Paths, NEW target \in Targets, StoreLink(p, target)
      PROVE  ParentsAreDirs'
  <2> DEFINE node == MkNode("link", "final", Len(target), <<>>, target)
  <2>1. target \in Seq(Components) /\ Len(target) \in Nat
    BY ConfinementAssumption
  <2>2. node \in Node
    BY <2>1 DEF MkNode, Node
  <2>3. dst' = Put(dst, p, node)
    BY <1>3 DEF StoreLink
  <2>4. OpendirSafe(dst, p) = 0 /\ dst[p].kind = "none"
    BY <1>3, StoredLinkBounded DEF StoreLink, Exists
  <2> HIDE DEF node
  <2> QED
    BY <2>2, <2>3, <2>4, StoreParents
<1>4. CASE UNCHANGED dst
  BY <1>4 DEF ParentsAreDirs, Exists
<1> QED
  BY <1>1, <1>2, <1>3, <1>4 DEF Next, vars, LookupStart, LookupSpecial,
     LookupDir, LookupLink, LookupStop

(* opendir_safe() (unpack.c:160) never lets an object be stored through a  *)
(* link: every ancestor of every object is a directory of the tree.        *)
THEOREM Parents_Safe == Spec => []ParentsAreDirs
<1>1. Init => ParentsAreDirs
  <2> SUFFICES ASSUME Init PROVE ParentsAreDirs
    OBVIOUS
  <2>1. \A p \in Paths : dst[p].kind = "none"
    BY DEF Init, EmptyTree, Absent, MkNode
  <2> QED
    BY <2>1 DEF ParentsAreDirs, Exists
<1>2. ConfinementInv => TypeOK
  BY DEF ConfinementInv
<1> QED
  BY <1>1, <1>2, NextParents, ConfinementInvariant, PTL DEF Spec
=============================================================================
