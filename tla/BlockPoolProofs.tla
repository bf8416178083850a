--------------------------- MODULE BlockPoolProofs ---------------------------
(***************************************************************************)
(* Proofs about BlockPool for every set of blocks, requests and prompts:   *)
(* it implements PinPool, its queue holds no block twice, its free count   *)
(* is exact, and what no other prompt starts with stays cached while its   *)
(* context sleeps.                                                         *)
(*                                                                         *)
(* Sound is the invariant of the sequences themselves: queue, blocks and   *)
(* dict are what they claim to be, without a repetition.  Together with    *)
(* what is proved of PinPool (see Facts), through the refinement, it is    *)
(* inductive.  HeldContent says what the held blocks cache, and            *)
(* AsleepPinned what is pinned of a sleeper.                               *)
(*                                                                         *)
(* A fold over a sequence is the table of its values, built up one element *)
(* at a time (FoldTable); what holds of it at every place is shown with a  *)
(* least counterexample (UpTo).                                            *)
(***************************************************************************)
EXTENDS BlockPool, FiniteSetTheorems, WellFoundedInduction, TLAPS

-----------------------------------------------------------------------------
(* Facts about numbers and sequences.                                      *)

\* A nonempty set of natural numbers has a least element.
LEMMA NatHasMin ==
  ASSUME NEW T, T \subseteq Nat, T # {}
  PROVE  \E x \in T : \A y \in T : x <= y
<1>1. PICK x \in T : \A y \in T : ~(<<y, x>> \in OpToRel(<, Nat))
  BY NatLessThanWellFounded, WFMin
<1>2. \A y \in T : <<y, x>> \in OpToRel(<, Nat) <=> y < x
  BY DEF OpToRel
<1>3. \A y \in T : ~(y < x)
  BY <1>1, <1>2
<1> QED
  BY <1>3

\* A set that contains 0, and with each number its successor up to n, contains
\* all numbers up to n.
LEMMA UpTo ==
  ASSUME NEW n \in Nat, NEW S, 0 \in S,
         \A k \in 0 .. n : k \in S /\ k < n => k + 1 \in S
  PROVE  \A k \in 0 .. n : k \in S
<1> DEFINE missing == {k \in 0 .. n : k \notin S}
<1> SUFFICES ASSUME missing # {} PROVE FALSE
  OBVIOUS
<1>0. missing \subseteq Nat
  OBVIOUS
<1>1. PICK x \in missing : \A y \in missing : x <= y
  <2> HIDE DEF missing
  <2> QED
    BY <1>0, NatHasMin
<1>2. x \in 0 .. n /\ x # 0 /\ x \notin S
  OBVIOUS
<1>3. x - 1 \in 0 .. n /\ x - 1 \in S
  BY <1>1, <1>2
<1>4. x \in S
  BY <1>2, <1>3
<1> QED
  BY <1>2, <1>4

\* The largest element of a set of numbers up to n that has n itself.
LEMMA MaxIsLast ==
  ASSUME NEW n \in Nat, NEW S \in SUBSET (1 .. n), n \in S
  PROVE  Max(S) = n
<1>1. \A y \in S : n >= y
  OBVIOUS
<1>2. \A x \in S : (\A y \in S : x >= y) => x = n
  OBVIOUS
<1> QED
  BY <1>1, <1>2 DEF Max

\* A nonempty set of numbers up to n has a largest element.
LEMMA MaxOfPlaces ==
  ASSUME NEW n \in Nat, NEW S \in SUBSET (0 .. n), S # {}
  PROVE  Max(S) \in S /\ \A y \in S : Max(S) >= y
<1> DEFINE low == {n - x : x \in S}
<1>1. low \subseteq Nat /\ low # {}
  <2>1. \A x \in S : n - x \in Nat
    OBVIOUS
  <2> QED
    BY <2>1
<1>2. PICK m \in low : \A y \in low : m <= y
  <2> HIDE DEF low
  <2> QED
    BY <1>1, NatHasMin
<1>3. PICK x \in S : m = n - x
  BY <1>2
<1>4. \A y \in S : x >= y
  <2> TAKE y \in S
  <2>1. n - y \in low
    OBVIOUS
  <2>2. m <= n - y /\ x \in Int /\ y \in Int
    BY <2>1, <1>2
  <2> HIDE DEF low
  <2> QED
    BY <2>2, <1>3
<1> QED
  BY <1>4 DEF Max

\* A finite set as a sequence.
LEMMA SetToSeqFacts ==
  ASSUME NEW S, IsFiniteSet(S)
  PROVE  SetToSeq(S) \in Seq(S) /\ IsInjective(SetToSeq(S)) /\ ToSet(SetToSeq(S)) = S
<1> DEFINE n == Cardinality(S)
           f == SetToSeq(S)
<1>1. n \in Nat /\ IsFiniteSet(1 .. n) /\ Cardinality(1 .. n) = n
  BY FS_CardinalityType, FS_Interval
<1>2. \E g : g \in Bijection(1 .. n, S)
  BY <1>1, FS_SameCardinalityBij DEF ExistsBijection
<1>3. \E g \in [1 .. n -> S] : IsInjective(g)
  BY <1>2 DEF Bijection, Injection, IsInjective
<1>4. f \in [1 .. n -> S] /\ IsInjective(f)
  BY <1>3 DEF SetToSeq
<1> HIDE DEF f
<1>5. f \in Injection(1 .. n, S)
  BY <1>4 DEF Injection
<1>6. f \in Surjection(1 .. n, S)
  BY <1>1, <1>5, FS_Injection
<1>7. ToSet(f) = S
  BY <1>4, <1>6 DEF Surjection, ToSet
<1>8. f \in Seq(S)
  BY <1>1, <1>4
<1> QED
  BY <1>4, <1>7, <1>8 DEF f

\* What is folded over each set of places of a sequence: op takes what the places
\* before the last one give, and the element at the last one.
IsFoldTable(g, A, base, op, s) ==
  /\ g \in [SUBSET (1 .. Len(s)) -> A]
  /\ g[{}] = base
  /\ \A P \in SUBSET (1 .. Len(s)) : P # {} => g[P] = op[<<g[P \ {Max(P)}], s[Max(P)]>>]

\* There is such a table for every base and step.
LEMMA FoldTable ==
  ASSUME NEW A, NEW T, NEW base \in A, NEW op \in [A \X T -> A], NEW s \in Seq(T)
  PROVE  \E g : IsFoldTable(g, A, base, op, s)
<1> DEFINE Table(k, g) ==
             /\ g \in [SUBSET (1 .. k) -> A]
             /\ \A S \in SUBSET (1 .. k) :
                  g[S] = IF S = {} THEN base ELSE op[<<g[S \ {Max(S)}], s[Max(S)]>>]
           good == {k \in Nat : \E g : Table(k, g)}
<1>1. 0 \in good
  <2> DEFINE g == [S \in SUBSET (1 .. 0) |-> base]
  <2>1. 1 .. 0 = {}
    OBVIOUS
  <2>2. Table(0, g)
    BY <2>1
  <2> QED
    BY <2>2
<1>2. ASSUME NEW k \in 0 .. Len(s), k \in good, k < Len(s) PROVE k + 1 \in good
  <2>1. PICK g : Table(k, g)
    BY <1>2
  <2> DEFINE h == [S \in SUBSET (1 .. k + 1) |->
                     IF k + 1 \in S THEN op[<<g[S \ {k + 1}], s[k + 1]>>] ELSE g[S]]
  <2>2. ASSUME NEW S \in SUBSET (1 .. k + 1)
        PROVE  /\ h[S] \in A
               /\ h[S] = IF S = {} THEN base ELSE op[<<h[S \ {Max(S)}], s[Max(S)]>>]
    <3>1. CASE k + 1 \in S
      <4>1. Max(S) = k + 1
        BY <3>1, MaxIsLast
      <4>2. S \ {k + 1} \in SUBSET (1 .. k) /\ S \ {k + 1} \in SUBSET (1 .. k + 1)
        OBVIOUS
      <4>3. h[S \ {k + 1}] = g[S \ {k + 1}] /\ g[S \ {k + 1}] \in A
        BY <4>2, <2>1
      <4>4. s[k + 1] \in T
        BY <1>2
      <4>5. h[S] = op[<<g[S \ {k + 1}], s[k + 1]>>]
        BY <3>1
      <4>6. <<g[S \ {k + 1}], s[k + 1]>> \in A \X T
        BY <4>3, <4>4
      <4> HIDE DEF h
      <4> QED
        BY <3>1, <4>1, <4>3, <4>5, <4>6
    <3>2. CASE k + 1 \notin S
      <4>1. S \in SUBSET (1 .. k)
        BY <3>2
      <4>2. S \ {Max(S)} \in SUBSET (1 .. k) /\ k + 1 \notin S \ {Max(S)}
        BY <3>2, <4>1
      <4>3. h[S] = g[S] /\ h[S \ {Max(S)}] = g[S \ {Max(S)}]
        BY <3>2, <4>2
      <4>4. h[S] \in A
        BY <2>1, <4>1, <4>3
      <4>5. g[S] = IF S = {} THEN base ELSE op[<<g[S \ {Max(S)}], s[Max(S)]>>]
        BY <2>1, <4>1
      <4> HIDE DEF h
      <4> QED
        BY <4>3, <4>4, <4>5
    <3> QED
      BY <3>1, <3>2
  <2>3. Table(k + 1, h)
    <3>1. h \in [SUBSET (1 .. k + 1) -> A]
      BY <2>2
    <3> QED
      BY <2>2, <3>1
  <2>4. k + 1 \in Nat
    OBVIOUS
  <2> HIDE DEF h
  <2>5. \E f : Table(k + 1, f)
    BY <2>3
  <2> HIDE DEF Table
  <2> QED
    BY <2>4, <2>5
<1>3. Len(s) \in good
  <2>1. Len(s) \in Nat
    OBVIOUS
  <2>2. \A k \in 0 .. Len(s) : k \in good /\ k < Len(s) => k + 1 \in good
    BY <1>2
  <2> HIDE DEF good
  <2>3. \A k \in 0 .. Len(s) : k \in good
    BY <1>1, <2>1, <2>2, UpTo
  <2> QED
    BY <2>1, <2>3
<1>4. PICK g : Table(Len(s), g)
  BY <1>3
<1>5. IsFoldTable(g, A, base, op, s)
  BY <1>4 DEF IsFoldTable
<1> QED
  BY <1>5

-----------------------------------------------------------------------------
(* Sequences without repetitions.                                          *)

\* What a sequence contains after an append.
LEMMA ToSetAppend ==
  ASSUME NEW T, NEW s \in Seq(T), NEW x \in T
  PROVE  /\ Append(s, x) \in Seq(T)
         /\ ToSet(Append(s, x)) = ToSet(s) \cup {x}
<1>1. Append(s, x) \in Seq(T) /\ Len(Append(s, x)) = Len(s) + 1
  OBVIOUS
<1>2. \A i \in 1 .. Len(s) + 1 : Append(s, x)[i] = IF i <= Len(s) THEN s[i] ELSE x
  OBVIOUS
<1>3. Len(s) + 1 \in 1 .. Len(s) + 1 /\ ~(Len(s) + 1 <= Len(s)) /\ Len(s) \in Nat
  OBVIOUS
<1>4. ToSet(Append(s, x)) = {Append(s, x)[i] : i \in 1 .. Len(s) + 1}
  BY <1>1 DEF ToSet
<1>5. ToSet(s) = {s[i] : i \in 1 .. Len(s)}
  BY DEF ToSet
<1> QED
  BY <1>1, <1>2, <1>3, <1>4, <1>5

\* Appending something new repeats nothing.
LEMMA InjectiveAppend ==
  ASSUME NEW T, NEW s \in Seq(T), NEW x \in T, IsInjective(s), x \notin ToSet(s)
  PROVE  IsInjective(Append(s, x))
BY DEF ToSet, IsInjective

\* The places of a concatenation.
LEMMA ConcatPlaces ==
  ASSUME NEW T, NEW s \in Seq(T), NEW t \in Seq(T)
  PROVE  /\ s \o t \in Seq(T)
         /\ Len(s \o t) = Len(s) + Len(t)
         /\ DOMAIN (s \o t) = 1 .. Len(s) + Len(t)
         /\ \A i \in 1 .. Len(s) : i \in DOMAIN (s \o t) /\ (s \o t)[i] = s[i]
         /\ \A i \in 1 .. Len(t) :
              Len(s) + i \in DOMAIN (s \o t) /\ (s \o t)[Len(s) + i] = t[i]
         /\ \A i \in DOMAIN (s \o t) :
              \/ i \in 1 .. Len(s)
              \/ i - Len(s) \in 1 .. Len(t) /\ (s \o t)[i] = t[i - Len(s)]
OBVIOUS

\* What a concatenation contains.
LEMMA ToSetConcat ==
  ASSUME NEW T, NEW s \in Seq(T), NEW t \in Seq(T)
  PROVE  ToSet(s \o t) = ToSet(s) \cup ToSet(t)
<1>1. DOMAIN s = 1 .. Len(s) /\ DOMAIN t = 1 .. Len(t)
  OBVIOUS
<1>2. ASSUME NEW x \in ToSet(s \o t) PROVE x \in ToSet(s) \cup ToSet(t)
  <2>1. PICK i \in DOMAIN (s \o t) : x = (s \o t)[i]
    BY DEF ToSet
  <2>2. CASE i \in 1 .. Len(s)
    BY <1>1, <2>1, <2>2, ConcatPlaces DEF ToSet
  <2>3. CASE i - Len(s) \in 1 .. Len(t) /\ (s \o t)[i] = t[i - Len(s)]
    BY <1>1, <2>1, <2>3 DEF ToSet
  <2> QED
    BY <2>2, <2>3, ConcatPlaces
<1>3. ASSUME NEW x \in ToSet(s) PROVE x \in ToSet(s \o t)
  <2>1. PICK i \in 1 .. Len(s) : x = s[i]
    BY <1>1 DEF ToSet
  <2>2. i \in DOMAIN (s \o t) /\ (s \o t)[i] = x
    BY <2>1, ConcatPlaces
  <2> QED
    BY <2>2 DEF ToSet
<1>4. ASSUME NEW x \in ToSet(t) PROVE x \in ToSet(s \o t)
  <2>1. PICK i \in 1 .. Len(t) : x = t[i]
    BY <1>1 DEF ToSet
  <2>2. Len(s) + i \in DOMAIN (s \o t) /\ (s \o t)[Len(s) + i] = x
    BY <2>1, ConcatPlaces
  <2> QED
    BY <2>2 DEF ToSet
<1> QED
  BY <1>2, <1>3, <1>4

\* Two sequences without repetitions that have nothing in common.
LEMMA InjectiveConcat ==
  ASSUME NEW T, NEW s \in Seq(T), NEW t \in Seq(T), IsInjective(s), IsInjective(t),
         ToSet(s) \cap ToSet(t) = {}
  PROVE  IsInjective(s \o t)
<1> SUFFICES ASSUME NEW i \in DOMAIN (s \o t), NEW j \in DOMAIN (s \o t),
                    (s \o t)[i] = (s \o t)[j]
             PROVE  i = j
  BY DEF IsInjective
<1>1. DOMAIN s = 1 .. Len(s) /\ DOMAIN t = 1 .. Len(t) /\ Len(s) \in Nat /\ i \in Int /\ j \in Int
  BY ConcatPlaces
<1> DEFINE First(k) == k \in 1 .. Len(s) /\ (s \o t)[k] = s[k]
           Second(k) == k - Len(s) \in 1 .. Len(t) /\ (s \o t)[k] = t[k - Len(s)]
<1>2. (First(i) \/ Second(i)) /\ (First(j) \/ Second(j))
  BY ConcatPlaces
<1>3. CASE First(i) /\ First(j)
  BY <1>1, <1>3 DEF IsInjective
<1>4. CASE Second(i) /\ Second(j)
  <2>1. i - Len(s) = j - Len(s)
    BY <1>1, <1>4 DEF IsInjective
  <2> QED
    BY <1>1, <2>1
<1>5. CASE First(i) /\ Second(j)
  BY <1>1, <1>5 DEF ToSet
<1>6. CASE Second(i) /\ First(j)
  BY <1>1, <1>6 DEF ToSet
<1> QED
  BY <1>2, <1>3, <1>4, <1>5, <1>6

\* A part of a sequence.
LEMMA SubSeqFacts ==
  ASSUME NEW T, NEW s \in Seq(T), NEW m \in Nat, NEW n \in Nat, m >= 1, n <= Len(s)
  PROVE  /\ SubSeq(s, m, n) \in Seq(T)
         /\ ToSet(SubSeq(s, m, n)) = {s[i] : i \in m .. n}
         /\ IsInjective(s) => IsInjective(SubSeq(s, m, n))
<1> DEFINE len == IF m <= n THEN n - m + 1 ELSE 0
           part == SubSeq(s, m, n)
<1>1. /\ part \in Seq(T) /\ DOMAIN part = 1 .. len /\ len \in Nat
      /\ \A i \in 1 .. len : part[i] = s[m + i - 1] /\ m + i - 1 \in m .. n
  <2>1. \A i \in 1 .. len : m + i - 1 \in m .. n /\ m + i - 1 \in 1 .. Len(s)
    OBVIOUS
  <2>2. len \in Nat /\ Len(part) = len /\ part \in Seq(T)
    OBVIOUS
  <2>3. DOMAIN part = 1 .. len
    BY <2>2
  <2>4. \A i \in 1 .. len : part[i] = s[m + i - 1]
    OBVIOUS
  <2> QED
    BY <2>1, <2>2, <2>3, <2>4
<1>2. \A i \in m .. n : i - m + 1 \in 1 .. len /\ m + (i - m + 1) - 1 = i /\ i \in 1 .. Len(s)
  OBVIOUS
<1>3. DOMAIN s = 1 .. Len(s)
  OBVIOUS
<1> HIDE DEF part, len
<1>4. ToSet(part) = {s[i] : i \in m .. n}
  <2>1. ASSUME NEW i \in m .. n PROVE s[i] \in ToSet(part)
    <3>1. part[i - m + 1] = s[i] /\ i - m + 1 \in DOMAIN part
      BY <1>1, <1>2
    <3> QED
      BY <3>1 DEF ToSet
  <2>2. ASSUME NEW x \in ToSet(part) PROVE x \in {s[i] : i \in m .. n}
    BY <1>1 DEF ToSet
  <2> QED
    BY <2>1, <2>2
<1>5. IsInjective(s) => IsInjective(part)
  <2> SUFFICES ASSUME IsInjective(s), NEW i \in 1 .. len, NEW j \in 1 .. len, part[i] = part[j]
               PROVE  i = j
    BY <1>1 DEF IsInjective
  <2>1. m + i - 1 = m + j - 1
    BY <1>1, <1>2, <1>3 DEF IsInjective
  <2> QED
    BY <2>1, <1>1
<1> QED
  BY <1>1, <1>4, <1>5 DEF part

\* A sequence without repetitions falls into two parts that share nothing.
LEMMA SplitFacts ==
  ASSUME NEW T, NEW s \in Seq(T), NEW n \in 0 .. Len(s), IsInjective(s)
  PROVE  ToSet(SubSeq(s, n + 1, Len(s))) = ToSet(s) \ ToSet(SubSeq(s, 1, n))
<1>1. /\ Len(s) \in Nat /\ DOMAIN s = 1 .. Len(s) /\ n \in Nat /\ n + 1 \in Nat
      /\ n <= Len(s) /\ 1 <= n + 1
  OBVIOUS
<1>2. ToSet(SubSeq(s, n + 1, Len(s))) = {s[i] : i \in n + 1 .. Len(s)}
  BY <1>1, SubSeqFacts
<1>3. ToSet(SubSeq(s, 1, n)) = {s[i] : i \in 1 .. n}
  BY <1>1, SubSeqFacts
<1>4. ToSet(s) = {s[i] : i \in 1 .. Len(s)}
  BY <1>1 DEF ToSet
<1>5. \A i \in 1 .. n, j \in n + 1 .. Len(s) :
        i \in 1 .. Len(s) /\ j \in 1 .. Len(s) /\ s[i] # s[j]
  BY <1>1 DEF IsInjective
<1>6. \A i \in 1 .. Len(s) : i \in 1 .. n \/ i \in n + 1 .. Len(s)
  BY <1>1
<1> QED
  BY <1>2, <1>3, <1>4, <1>5, <1>6

\* The same elements the other way round.
LEMMA ReverseFacts ==
  ASSUME NEW T, NEW s \in Seq(T)
  PROVE  /\ Reverse(s) \in Seq(T)
         /\ ToSet(Reverse(s)) = ToSet(s)
         /\ IsInjective(s) => IsInjective(Reverse(s))
<1> DEFINE back == Reverse(s)
<1>1. /\ Len(s) \in Nat /\ DOMAIN s = 1 .. Len(s)
      /\ \A i \in 1 .. Len(s) :
           Len(s) - i + 1 \in 1 .. Len(s) /\ Len(s) - (Len(s) - i + 1) + 1 = i
  OBVIOUS
<1>2. /\ back \in Seq(T) /\ DOMAIN back = 1 .. Len(s)
      /\ \A i \in 1 .. Len(s) : back[i] = s[Len(s) - i + 1]
  BY <1>1 DEF Reverse
<1> HIDE DEF back
<1>3. ToSet(back) = ToSet(s)
  <2>1. ASSUME NEW i \in 1 .. Len(s) PROVE s[i] \in ToSet(back)
    <3>1. back[Len(s) - i + 1] = s[i] /\ Len(s) - i + 1 \in DOMAIN back
      BY <1>1, <1>2
    <3> QED
      BY <3>1 DEF ToSet
  <2>2. ASSUME NEW x \in ToSet(back) PROVE x \in ToSet(s)
    BY <1>1, <1>2 DEF ToSet
  <2> QED
    BY <1>1, <2>1, <2>2 DEF ToSet
<1>4. IsInjective(s) => IsInjective(back)
  <2> SUFFICES ASSUME IsInjective(s), NEW i \in 1 .. Len(s), NEW j \in 1 .. Len(s),
                      back[i] = back[j]
               PROVE  i = j
    BY <1>2 DEF IsInjective
  <2>1. Len(s) - i + 1 = Len(s) - j + 1
    BY <1>1, <1>2 DEF IsInjective
  <2> QED
    BY <2>1, <1>1
<1> QED
  BY <1>2, <1>3, <1>4 DEF back

\* Without repetitions the length is the number of elements.
LEMMA InjectiveLength ==
  ASSUME NEW T, NEW s \in Seq(T), IsInjective(s)
  PROVE  IsFiniteSet(ToSet(s)) /\ Cardinality(ToSet(s)) = Len(s)
<1>1. Len(s) \in Nat /\ DOMAIN s = 1 .. Len(s)
  OBVIOUS
<1>2. s \in Bijection(1 .. Len(s), ToSet(s))
  BY <1>1 DEF Bijection, Injection, Surjection, IsInjective, ToSet
<1>3. ExistsBijection(1 .. Len(s), ToSet(s))
  BY <1>2 DEF ExistsBijection
<1>4. IsFiniteSet(1 .. Len(s)) /\ Cardinality(1 .. Len(s)) = Len(s)
  BY <1>1, FS_Interval
<1> QED
  BY <1>3, <1>4, FS_Bijection

-----------------------------------------------------------------------------
(* The pool that this one implements.                                      *)

\* What is proved of PinPool, of the pool that this one implements
Facts == INSTANCE PinPoolProofs WITH
  free_block_queue <- Queued, hashed <- ReusableBlocks, req_to_blocks <- Held,
  pinned_by_request <- Withheld

-----------------------------------------------------------------------------
(* The inductive invariant of the sequences.                               *)

QueueSound == free_block_queue \in Seq(Blocks) /\ QueuedOnce

HeldSound ==
  /\ DOMAIN req_to_blocks = Requests
  /\ \A r \in Requests : req_to_blocks[r] \in Seq(Blocks) /\ IsInjective(req_to_blocks[r])

Entry == [req : Requests, kept : Seq(Blocks)]

\* The keys of the dict are different, and its values not empty.
DictSound ==
  /\ pinned_by_request \in Seq(Entry)
  /\ \A i \in DOMAIN pinned_by_request :
       /\ pinned_by_request[i].kept # << >>
       /\ IsInjective(pinned_by_request[i].kept)
       /\ \A j \in DOMAIN pinned_by_request :
            pinned_by_request[i].req = pinned_by_request[j].req => i = j

\* A request that has finished holds no block, so that it does not grow.
Departed == \A r \in finished : req_to_blocks[r] = << >>

Sound == QueueSound /\ HeldSound /\ DictSound /\ Departed /\ DOMAIN block_hash = Blocks

-----------------------------------------------------------------------------
(* Among, element by element.                                              *)

\* The selections from longer and longer parts of s.
AreSelections(f, T, s, S) ==
  /\ f \in [0 .. Len(s) -> Seq(T)]
  /\ f[0] = << >>
  /\ \A k \in 1 .. Len(s) : f[k] = IF s[k] \in S THEN Append(f[k - 1], s[k]) ELSE f[k - 1]

\* Among takes the elements one after the other.
LEMMA AmongSteps ==
  ASSUME NEW T, NEW s \in Seq(T), NEW S
  PROVE  \E f : AreSelections(f, T, s, S) /\ Among(s, S) = f[Len(s)]
<1> DEFINE step == [p \in Seq(T) \X T |-> IF p[2] \in S THEN Append(p[1], p[2]) ELSE p[1]]
           places == SUBSET (1 .. Len(s))
           Rec(t) == t = [P \in SUBSET DOMAIN s |->
                            IF P = {} THEN << >>
                            ELSE IF s[Max(P)] \in S
                                 THEN Append(t[P \ {Max(P)}], s[Max(P)])
                                 ELSE t[P \ {Max(P)}]]
           table == CHOOSE t : Rec(t)
<1>1. << >> \in Seq(T) /\ step \in [Seq(T) \X T -> Seq(T)]
  <2>1. ASSUME NEW p \in Seq(T) \X T
        PROVE  (IF p[2] \in S THEN Append(p[1], p[2]) ELSE p[1]) \in Seq(T)
    OBVIOUS
  <2> QED
    BY <2>1
<1>2. PICK g : IsFoldTable(g, Seq(T), << >>, step, s)
  <2> HIDE DEF step
  <2> QED
    BY <1>1, FoldTable
<1>3. ASSUME NEW P \in places, P # {}
      PROVE  Max(P) \in P /\ Max(P) \in 1 .. Len(s)
  <2>1. Len(s) \in Nat
    OBVIOUS
  <2>2. P \in SUBSET (0 .. Len(s))
    OBVIOUS
  <2> QED
    BY <1>3, <2>1, <2>2, MaxOfPlaces
<1>4. Rec(g)
  <2>1. DOMAIN s = 1 .. Len(s)
    OBVIOUS
  <2>2. ASSUME NEW P \in places
        PROVE  g[P] = IF P = {} THEN << >>
                      ELSE IF s[Max(P)] \in S THEN Append(g[P \ {Max(P)}], s[Max(P)])
                                              ELSE g[P \ {Max(P)}]
    <3>1. CASE P = {}
      BY <3>1, <1>2 DEF IsFoldTable
    <3>2. CASE P # {}
      <4>1. s[Max(P)] \in T
        <5>1. Max(P) \in 1 .. Len(s)
          BY <3>2, <1>3
        <5> HIDE DEF places
        <5> QED
          BY <5>1
      <4>2. P \ {Max(P)} \in places
        OBVIOUS
      <4>3. <<g[P \ {Max(P)}], s[Max(P)]>> \in Seq(T) \X T
        BY <4>1, <4>2, <1>2 DEF IsFoldTable
      <4>4. g[P] = step[<<g[P \ {Max(P)}], s[Max(P)]>>]
        BY <3>2, <1>2 DEF IsFoldTable
      <4> QED
        BY <3>2, <4>3, <4>4
    <3> QED
      BY <3>1, <3>2
  <2>3. g = [P \in places |-> g[P]]
    BY <1>2 DEF IsFoldTable
  <2> QED
    BY <2>1, <2>2, <2>3
<1>5. Rec(table)
  <2> HIDE DEF Rec
  <2> QED
    BY <1>4
<1>6. Among(s, S) = table[DOMAIN s]
  BY DEF Among, FoldLeft, MapThenFoldSet
<1> DEFINE f == [k \in 0 .. Len(s) |-> table[1 .. k]]
<1>7. table = [P \in places |-> IF P = {} THEN << >>
                              ELSE IF s[Max(P)] \in S
                                   THEN Append(table[P \ {Max(P)}], s[Max(P)])
                                   ELSE table[P \ {Max(P)}]]
  <2>1. DOMAIN s = 1 .. Len(s)
    OBVIOUS
  <2> HIDE DEF table
  <2> QED
    BY <2>1, <1>5
<1> HIDE DEF table
<1>8. f[0] = << >>
  <2>1. 1 .. 0 = {} /\ 0 \in 0 .. Len(s)
    OBVIOUS
  <2> QED
    BY <2>1, <1>7
<1>9. ASSUME NEW k \in 1 .. Len(s)
      PROVE  f[k] = IF s[k] \in S THEN Append(f[k - 1], s[k]) ELSE f[k - 1]
  <2>1. 1 .. k \in places /\ k \in 1 .. k /\ k \in 0 .. Len(s) /\ k - 1 \in 0 .. Len(s)
    <3>1. \A i \in 1 .. k : i \in 1 .. Len(s)
      OBVIOUS
    <3>2. k \in 1 .. k /\ k \in 0 .. Len(s) /\ k - 1 \in 0 .. Len(s)
      OBVIOUS
    <3> QED
      BY <3>1, <3>2
  <2>2. Max(1 .. k) = k
    BY MaxIsLast
  <2>3. (1 .. k) \ {k} = 1 .. k - 1
    OBVIOUS
  <2>4. table[1 .. k] = IF s[k] \in S THEN Append(table[1 .. k - 1], s[k]) ELSE table[1 .. k - 1]
    BY <1>7, <2>1, <2>2, <2>3
  <2> QED
    BY <2>1, <2>4
<1>10. f[Len(s)] = Among(s, S)
  <2>1. DOMAIN s = 1 .. Len(s) /\ Len(s) \in 0 .. Len(s)
    OBVIOUS
  <2> QED
    BY <1>6, <2>1
<1>11. \A k \in 0 .. Len(s) : f[k] \in Seq(T)
  <2> DEFINE good == {k \in 0 .. Len(s) : f[k] \in Seq(T)}
  <2>1. 0 \in good
    BY <1>8
  <2>2. \A k \in 0 .. Len(s) : k \in good /\ k < Len(s) => k + 1 \in good
    <3> SUFFICES ASSUME NEW k \in 0 .. Len(s), f[k] \in Seq(T), k < Len(s)
                 PROVE  f[k + 1] \in Seq(T)
      OBVIOUS
    <3>1. k + 1 \in 1 .. Len(s) /\ (k + 1) - 1 = k
      OBVIOUS
    <3>2. f[k + 1] = IF s[k + 1] \in S THEN Append(f[k], s[k + 1]) ELSE f[k]
      <4> HIDE DEF f
      <4>1. f[k + 1] = IF s[k + 1] \in S THEN Append(f[(k + 1) - 1], s[k + 1])
                                        ELSE f[(k + 1) - 1]
        BY <1>9, <3>1
      <4> QED
        BY <3>1, <4>1
    <3>3. s[k + 1] \in T
      BY <3>1
    <3> HIDE DEF f
    <3> QED
      BY <3>2, <3>3
  <2>3. Len(s) \in Nat
    OBVIOUS
  <2> HIDE DEF good
  <2>4. \A k \in 0 .. Len(s) : k \in good
    BY <2>1, <2>2, <2>3, UpTo
  <2> USE DEF good
  <2> QED
    BY <2>4
<1>12. f \in [0 .. Len(s) -> Seq(T)]
  BY <1>11
<1>13. AreSelections(f, T, s, S)
  <2> HIDE DEF f
  <2> QED
    BY <1>8, <1>9, <1>12 DEF AreSelections
<1> HIDE DEF f
<1> QED
  BY <1>10, <1>13

\* Among returns the elements that are in the set, and repeats none that was not
\* repeated before.
LEMMA AmongFacts ==
  ASSUME NEW T, NEW s \in Seq(T), NEW S
  PROVE  /\ Among(s, S) \in Seq(T)
         /\ ToSet(Among(s, S)) = ToSet(s) \cap S
         /\ IsInjective(s) => IsInjective(Among(s, S))
<1>0. PICK f : AreSelections(f, T, s, S) /\ Among(s, S) = f[Len(s)]
  BY AmongSteps
<1>1. /\ f \in [0 .. Len(s) -> Seq(T)]
      /\ f[0] = << >>
      /\ \A k \in 1 .. Len(s) :
           f[k] = IF s[k] \in S THEN Append(f[k - 1], s[k]) ELSE f[k - 1]
      /\ Among(s, S) = f[Len(s)]
  BY <1>0 DEF AreSelections
<1> DEFINE before(k) == {s[i] : i \in 1 .. k}
           good == {k \in 0 .. Len(s) :
                      /\ ToSet(f[k]) = before(k) \cap S
                      /\ IsInjective(s) => IsInjective(f[k])}
<1>2. 0 \in good
  BY <1>1 DEF ToSet, IsInjective
<1>3. \A k \in 0 .. Len(s) : k \in good /\ k < Len(s) => k + 1 \in good
  <2> SUFFICES ASSUME NEW k \in 0 .. Len(s), k \in good, k < Len(s)
               PROVE  k + 1 \in good
    OBVIOUS
  <2>1. k + 1 \in 1 .. Len(s) /\ k + 1 \in 0 .. Len(s) /\ s[k + 1] \in T /\ f[k] \in Seq(T)
    BY <1>1
  <2>2. f[k + 1] = IF s[k + 1] \in S THEN Append(f[k], s[k + 1]) ELSE f[k]
    <3>1. (k + 1) - 1 = k
      OBVIOUS
    <3> QED
      BY <1>1, <2>1, <3>1
  <2>3. before(k + 1) = before(k) \cup {s[k + 1]}
    OBVIOUS
  <2>4. IsInjective(s) => s[k + 1] \notin before(k)
    BY DEF IsInjective
  <2>5. CASE s[k + 1] \in S
    <3>1. ToSet(f[k + 1]) = ToSet(f[k]) \cup {s[k + 1]}
      BY <2>1, <2>2, <2>5, ToSetAppend
    <3>2. IsInjective(s) => IsInjective(f[k + 1])
      BY <2>1, <2>2, <2>4, <2>5, InjectiveAppend
    <3> HIDE DEF before
    <3> QED
      BY <2>1, <2>3, <2>5, <3>1, <3>2
  <2>6. CASE s[k + 1] \notin S
    BY <2>1, <2>2, <2>3, <2>6
  <2> QED
    BY <2>5, <2>6
<1>4. \A k \in 0 .. Len(s) : k \in good
  <2>1. Len(s) \in Nat
    OBVIOUS
  <2> HIDE DEF good
  <2> QED
    BY <1>2, <1>3, <2>1, UpTo
<1>5. Len(s) \in good /\ Among(s, S) \in Seq(T)
  <2>1. Len(s) \in 0 .. Len(s)
    OBVIOUS
  <2> HIDE DEF good
  <2> QED
    BY <1>1, <1>4, <2>1
<1>6. before(Len(s)) = ToSet(s)
  BY DEF ToSet
<1> QED
  BY <1>1, <1>5, <1>6

-----------------------------------------------------------------------------
(* The walk of ss_unpin_all.                                               *)

Walker == [queue : Seq(Blocks), pinned : SUBSET Blocks]

Started == [queue |-> free_block_queue, pinned |-> pinned_block_ids]

\* What ss_unpin_all has done after each entry.
AreWalks(f) ==
  /\ f \in [0 .. Len(pinned_by_request) -> Walker]
  /\ f[0] = Started
  /\ \A k \in 1 .. Len(pinned_by_request) : f[k] = Unpin(f[k - 1], pinned_by_request[k])

\* An entry takes blocks to the queue.
LEMMA UnpinType ==
  ASSUME NEW acc \in Walker, NEW e \in Entry
  PROVE  Unpin(acc, e) \in Walker
<1> DEFINE live == Among(e.kept, {b \in acc.pinned : Idle(b)})
<1>1. e.kept \in Seq(Blocks) /\ acc.queue \in Seq(Blocks) /\ acc.pinned \subseteq Blocks
  BY DEF Walker, Entry
<1>2. live \in Seq(Blocks)
  BY <1>1, AmongFacts
<1>3. Unpin(acc, e) = [queue |-> acc.queue \o live, pinned |-> acc.pinned \ ToSet(live)]
  BY DEF Unpin
<1> HIDE DEF live
<1>4. acc.queue \o live \in Seq(Blocks)
  BY <1>1, <1>2, ConcatPlaces
<1> QED
  BY <1>1, <1>3, <1>4 DEF Walker

\* ss_unpin_all walks the entries one after the other.
LEMMA UnpinSteps ==
  ASSUME DictSound, QueueSound, pinned_block_ids \subseteq Blocks
  PROVE  \E f : /\ AreWalks(f)
                /\ FoldLeft(Unpin, Started, pinned_by_request) = f[Len(pinned_by_request)]
<1> DEFINE s == pinned_by_request
           step == [p \in Walker \X Entry |-> Unpin(p[1], p[2])]
           places == SUBSET (1 .. Len(s))
           Rec(t) == t = [P \in SUBSET DOMAIN s |->
                            IF P = {} THEN Started ELSE Unpin(t[P \ {Max(P)}], s[Max(P)])]
           table == CHOOSE t : Rec(t)
<1>s. s \in Seq(Entry) /\ Len(s) \in Nat /\ DOMAIN s = 1 .. Len(s)
  BY DEF DictSound
<1>1. Started \in Walker /\ step \in [Walker \X Entry -> Walker]
  <2>1. ASSUME NEW p \in Walker \X Entry PROVE Unpin(p[1], p[2]) \in Walker
    BY UnpinType
  <2>2. Started \in Walker
    BY DEF Started, Walker, QueueSound
  <2> QED
    BY <2>1, <2>2
<1> HIDE DEF s
<1>2. PICK g : IsFoldTable(g, Walker, Started, step, s)
  <2> HIDE DEF step
  <2> QED
    BY <1>s, <1>1, FoldTable
<1>3. ASSUME NEW P \in places, P # {}
      PROVE  Max(P) \in P /\ Max(P) \in 1 .. Len(s)
  <2>1. P \in SUBSET (0 .. Len(s))
    BY <1>s
  <2> QED
    BY <1>s, <1>3, <2>1, MaxOfPlaces
<1>4. Rec(g)
  <2>1. ASSUME NEW P \in places
        PROVE  g[P] = IF P = {} THEN Started ELSE Unpin(g[P \ {Max(P)}], s[Max(P)])
    <3>1. CASE P = {}
      BY <3>1, <1>2 DEF IsFoldTable
    <3>2. CASE P # {}
      <4>1. s[Max(P)] \in Entry
        <5>1. Max(P) \in 1 .. Len(s)
          BY <3>2, <1>3
        <5> HIDE DEF places
        <5> QED
          BY <5>1, <1>s
      <4>2. P \ {Max(P)} \in places
        OBVIOUS
      <4>3. <<g[P \ {Max(P)}], s[Max(P)]>> \in Walker \X Entry
        BY <4>1, <4>2, <1>2 DEF IsFoldTable
      <4>4. g[P] = step[<<g[P \ {Max(P)}], s[Max(P)]>>]
        BY <3>2, <1>2 DEF IsFoldTable
      <4> QED
        BY <3>2, <4>3, <4>4
    <3> QED
      BY <3>1, <3>2
  <2>2. g = [P \in places |-> g[P]]
    BY <1>2 DEF IsFoldTable
  <2> QED
    BY <1>s, <2>1, <2>2
<1>5. Rec(table)
  <2> HIDE DEF Rec
  <2> QED
    BY <1>4
<1>6. FoldLeft(Unpin, Started, s) = table[DOMAIN s]
  BY DEF FoldLeft, MapThenFoldSet
<1> DEFINE f == [k \in 0 .. Len(s) |-> table[1 .. k]]
<1>7. table = [P \in places |-> IF P = {} THEN Started
                              ELSE Unpin(table[P \ {Max(P)}], s[Max(P)])]
  <2> HIDE DEF table
  <2> QED
    BY <1>s, <1>5
<1> HIDE DEF table
<1>8. f[0] = Started
  <2>1. 1 .. 0 = {} /\ 0 \in 0 .. Len(s)
    BY <1>s
  <2> QED
    BY <2>1, <1>7
<1>9. ASSUME NEW k \in 1 .. Len(s) PROVE f[k] = Unpin(f[k - 1], s[k])
  <2>1. 1 .. k \in places /\ k \in 1 .. k /\ k \in 0 .. Len(s) /\ k - 1 \in 0 .. Len(s)
    <3>1. \A i \in 1 .. k : i \in 1 .. Len(s)
      BY <1>s
    <3>2. k \in 1 .. k /\ k \in 0 .. Len(s) /\ k - 1 \in 0 .. Len(s)
      BY <1>s
    <3> QED
      BY <3>1, <3>2
  <2>2. Max(1 .. k) = k
    BY <1>s, MaxIsLast
  <2>3. (1 .. k) \ {k} = 1 .. k - 1
    BY <1>s
  <2>4. table[1 .. k] = Unpin(table[1 .. k - 1], s[k])
    BY <1>7, <2>1, <2>2, <2>3
  <2> QED
    BY <2>1, <2>4
<1>10. f[Len(s)] = FoldLeft(Unpin, Started, s)
  <2>1. DOMAIN s = 1 .. Len(s) /\ Len(s) \in 0 .. Len(s)
    BY <1>s
  <2> QED
    BY <1>6, <2>1
<1>11. \A k \in 0 .. Len(s) : f[k] \in Walker
  <2> DEFINE good == {k \in 0 .. Len(s) : f[k] \in Walker}
  <2>1. 0 \in good
    BY <1>s, <1>1, <1>8
  <2>2. \A k \in 0 .. Len(s) : k \in good /\ k < Len(s) => k + 1 \in good
    <3> SUFFICES ASSUME NEW k \in 0 .. Len(s), f[k] \in Walker, k < Len(s)
                 PROVE  f[k + 1] \in Walker
      BY <1>s
    <3>1. k + 1 \in 1 .. Len(s) /\ (k + 1) - 1 = k
      BY <1>s
    <3> HIDE DEF f
    <3>2. f[k + 1] = Unpin(f[(k + 1) - 1], s[k + 1])
      BY <1>9, <3>1
    <3>3. s[k + 1] \in Entry
      BY <3>1, <1>s
    <3> QED
      BY <3>1, <3>2, <3>3, UnpinType
  <2> HIDE DEF good
  <2>4. \A k \in 0 .. Len(s) : k \in good
    BY <1>s, <2>1, <2>2, UpTo
  <2> USE DEF good
  <2> QED
    BY <2>4
<1>12. f \in [0 .. Len(s) -> Walker]
  BY <1>11
<1>13. AreWalks(f)
  <2> HIDE DEF f
  <2> QED
    BY <1>8, <1>9, <1>12 DEF AreWalks, s
<1> HIDE DEF f
<1> QED
  BY <1>10, <1>13 DEF s

\* What a walk has taken to the queue by entry k.
Taken(k) ==
  {b \in pinned_block_ids : Idle(b) /\ \E i \in 1 .. k : b \in ToSet(pinned_by_request[i].kept)}

\* ss_unpin_all queues the idle pinned blocks of all entries, each of them once.
LEMMA UnpinFacts ==
  ASSUME Sound, pinned_block_ids \subseteq Blocks, Queued \cap pinned_block_ids = {},
         ss_unpin_all
  PROVE  /\ QueueSound'
         /\ Queued' = Queued \cup Taken(Len(pinned_by_request))
<1> DEFINE s == pinned_by_request
<1>s. s \in Seq(Entry) /\ Len(s) \in Nat /\ DOMAIN s = 1 .. Len(s)
  BY DEF Sound, DictSound
<1>0. PICK f : AreWalks(f) /\ FoldLeft(Unpin, Started, s) = f[Len(s)]
  BY UnpinSteps DEF Sound
<1> HIDE DEF s
<1>1. /\ f \in [0 .. Len(s) -> Walker] /\ f[0] = Started
      /\ \A k \in 1 .. Len(s) : f[k] = Unpin(f[k - 1], s[k])
  BY <1>0 DEF AreWalks, s
<1> DEFINE Good(acc, k) ==
             /\ acc.queue \in Seq(Blocks) /\ IsInjective(acc.queue)
             /\ ToSet(acc.queue) = Queued \cup Taken(k)
             /\ acc.pinned = pinned_block_ids \ Taken(k)
           good == {k \in 0 .. Len(s) : Good(f[k], k)}
<1>2. 0 \in good
  <2>1. Taken(0) = {}
    BY DEF Taken
  <2> QED
    BY <1>s, <1>1, <2>1 DEF Started, Sound, QueueSound, QueuedOnce, Queued
<1>3. \A k \in 0 .. Len(s) : k \in good /\ k < Len(s) => k + 1 \in good
  <2> SUFFICES ASSUME NEW k \in 0 .. Len(s), Good(f[k], k), k < Len(s)
               PROVE  k + 1 \in good
    OBVIOUS
  <2>1. k + 1 \in 1 .. Len(s) /\ (k + 1) - 1 = k /\ k \in Nat
    BY <1>s
  <2>2. f[k + 1] = Unpin(f[k], s[k + 1]) /\ s[k + 1] \in Entry
    <3>1. f[k + 1] = Unpin(f[(k + 1) - 1], s[k + 1])
      BY <1>1, <2>1
    <3> QED
      BY <1>s, <2>1, <3>1
  <2> DEFINE acc == f[k]
             kept == s[k + 1].kept
             live == Among(kept, {b \in acc.pinned : Idle(b)})
  <2>3. kept \in Seq(Blocks) /\ IsInjective(kept)
    <3>1. k + 1 \in DOMAIN s
      BY <1>s, <2>1
    <3> QED
      BY <2>2, <3>1 DEF Entry, Sound, DictSound, s
  <2>4. /\ live \in Seq(Blocks) /\ IsInjective(live)
        /\ ToSet(live) = ToSet(kept) \cap {b \in acc.pinned : Idle(b)}
    BY <2>3, AmongFacts
  <2>5. f[k + 1] = [queue |-> acc.queue \o live, pinned |-> acc.pinned \ ToSet(live)]
    BY <2>2 DEF Unpin
  <2>6. Taken(k + 1) = Taken(k) \cup {b \in pinned_block_ids : Idle(b) /\ b \in ToSet(kept)}
    <3>1. \A i \in 1 .. k + 1 : i \in 1 .. k \/ i = k + 1
      BY <2>1
    <3>2. \A i \in 1 .. k : i \in 1 .. k + 1
      BY <2>1
    <3>3. k + 1 \in 1 .. k + 1
      BY <2>1
    <3> QED
      BY <3>1, <3>2, <3>3 DEF Taken, s
  <2> HIDE DEF live, acc, kept
  <2>7. Good(acc, k)
    BY DEF acc
  <2>8. ToSet(live) \cap ToSet(acc.queue) = {}
    BY <2>4, <2>7
  <2>9. /\ acc.queue \o live \in Seq(Blocks) /\ IsInjective(acc.queue \o live)
        /\ ToSet(acc.queue \o live) = ToSet(acc.queue) \cup ToSet(live)
    BY <2>4, <2>7, <2>8, ConcatPlaces, InjectiveConcat, ToSetConcat
  <2>10. Taken(k + 1) = Taken(k) \cup ToSet(live)
    BY <2>4, <2>6, <2>7
  <2>11. Good(f[k + 1], k + 1)
    BY <2>5, <2>7, <2>9, <2>10
  <2>12. k + 1 \in 0 .. Len(s)
    BY <1>s, <2>1
  <2> HIDE DEF Good
  <2> QED
    BY <2>11, <2>12
<1>4. Good(f[Len(s)], Len(s))
  <2> HIDE DEF good
  <2>1. \A k \in 0 .. Len(s) : k \in good
    BY <1>s, <1>2, <1>3, UpTo
  <2>2. Len(s) \in good
    BY <1>s, <2>1
  <2> QED
    BY <2>2 DEF good
<1>5. free_block_queue' = f[Len(s)].queue
  BY <1>0 DEF ss_unpin_all, s, Started
<1> QED
  BY <1>4, <1>5 DEF QueueSound, QueuedOnce, Queued, s

-----------------------------------------------------------------------------
(* What PinPool sees.                                                      *)

\* The instances take the cardinality and the finite sets of the library.
LEMMA SameCardinality ==
  ASSUME NEW S
  PROVE  /\ Pool!Cardinality(S) = Cardinality(S) /\ Facts!Cardinality(S) = Cardinality(S)
         /\ Pool!IsFiniteSet(S) <=> IsFiniteSet(S)
         /\ Facts!IsFiniteSet(S) <=> IsFiniteSet(S)
BY DEF Cardinality, Pool!Cardinality, Facts!Cardinality, IsFiniteSet, Pool!IsFiniteSet,
       Facts!IsFiniteSet

\* The entry of a request in the dict.
LEMMA EntryFacts ==
  ASSUME DictSound, NEW i \in DOMAIN pinned_by_request
  PROVE  /\ pinned_by_request[i] \in Entry
         /\ EntryOf(pinned_by_request[i].req) = {pinned_by_request[i]}
         /\ Withheld[pinned_by_request[i].req] = ToSet(pinned_by_request[i].kept)
         /\ ToSet(pinned_by_request[i].kept) # {}
<1> DEFINE e == pinned_by_request[i]
<1>0. e \in Entry /\ e.kept # << >>
  BY DEF DictSound
<1>1. e \in Entry /\ e.req \in Requests /\ e.kept \in Seq(Blocks) /\ e.kept # << >>
  BY <1>0 DEF Entry
<1>2. EntryOf(e.req) = {e}
  BY <1>1 DEF EntryOf, DictSound, ToSet
<1>3. ToSet(e.kept) # {}
  <2> DEFINE kept == e.kept
  <2>0. kept \in Seq(Blocks) /\ kept # << >>
    BY <1>1
  <2> HIDE DEF kept
  <2>1. 1 \in DOMAIN kept
    BY <2>0
  <2> QED
    BY <2>1 DEF ToSet, kept
<1>4. Withheld[e.req] = ToSet(e.kept)
  BY <1>1, <1>2 DEF Withheld
<1> QED
  BY <1>1, <1>2, <1>3, <1>4

\* A request without an entry has nothing withheld.
LEMMA NoEntry ==
  ASSUME NEW r \in Requests, EntryOf(r) = {}
  PROVE  Withheld[r] = {}
BY DEF Withheld

\* The number of keys of the dict is its length.
LEMMA DictLength ==
  ASSUME DictSound
  PROVE  Cardinality(Pool!PinnedRequests) = Len(pinned_by_request)
<1> DEFINE keys == [i \in DOMAIN pinned_by_request |-> pinned_by_request[i].req]
<1>1. /\ pinned_by_request \in Seq(Entry) /\ Len(pinned_by_request) \in Nat
      /\ DOMAIN pinned_by_request = 1 .. Len(pinned_by_request)
      /\ \A i \in DOMAIN pinned_by_request : pinned_by_request[i].req \in Requests
  <2>1. pinned_by_request \in Seq(Entry)
    BY DEF DictSound
  <2>2. \A i \in DOMAIN pinned_by_request : pinned_by_request[i] \in Entry
    BY <2>1
  <2> QED
    BY <2>1, <2>2 DEF Entry
<1>2. /\ keys \in Seq(Requests) /\ Len(keys) = Len(pinned_by_request)
      /\ DOMAIN keys = DOMAIN pinned_by_request
  BY <1>1
<1>3. IsInjective(keys)
  BY <1>1 DEF IsInjective, DictSound
<1>4. ToSet(keys) = Pool!PinnedRequests
  <2>1. ASSUME NEW i \in DOMAIN pinned_by_request PROVE keys[i] \in Pool!PinnedRequests
    BY <1>1, EntryFacts DEF Pool!PinnedRequests
  <2>2. ASSUME NEW r \in Pool!PinnedRequests PROVE r \in ToSet(keys)
    <3>1. r \in Requests /\ EntryOf(r) # {}
      BY NoEntry DEF Pool!PinnedRequests
    <3>2. PICK i \in DOMAIN pinned_by_request : pinned_by_request[i].req = r
      BY <3>1 DEF EntryOf, ToSet
    <3>3. keys[i] = r /\ i \in DOMAIN keys
      BY <1>2, <3>2
    <3> HIDE DEF keys
    <3> QED
      BY <3>3 DEF ToSet
  <2> HIDE DEF keys
  <2> QED
    BY <1>2, <2>1, <2>2 DEF ToSet
<1> HIDE DEF keys
<1> QED
  BY <1>2, <1>3, <1>4, InjectiveLength

\* The pool and its sets agree on whether to pin.
LEMMA ShouldPinAgrees ==
  ASSUME DictSound
  PROVE  ss_should_pin <=> Pool!ss_should_pin
BY DictLength, SameCardinality DEF ss_should_pin, Pool!ss_should_pin

\* The blocks left without a user, in the order they are given.
LEMMA LastUsedFacts ==
  ASSUME HeldSound, NEW r \in Requests
  PROVE  /\ LastUsedBy(r) \in Seq(Blocks) /\ IsInjective(LastUsedBy(r))
         /\ ToSet(LastUsedBy(r)) = Pool!LastUsedBy(r)
<1>1. req_to_blocks[r] \in Seq(Blocks) /\ IsInjective(req_to_blocks[r]) /\ Held[r] = ToSet(req_to_blocks[r])
  BY DEF HeldSound, Held
<1>2. ToSet(req_to_blocks[r]) \subseteq Blocks
  BY <1>1 DEF ToSet
<1> DEFINE back == Reverse(req_to_blocks[r])
<1>3. back \in Seq(Blocks) /\ IsInjective(back) /\ ToSet(back) = ToSet(req_to_blocks[r])
  BY <1>1, ReverseFacts
<1> HIDE DEF back
<1>4. LET last == Among(back, {b \in Blocks : ref_cnt[b] = 1})
      IN  /\ last \in Seq(Blocks) /\ IsInjective(last)
          /\ ToSet(last) = ToSet(back) \cap {b \in Blocks : ref_cnt[b] = 1}
  BY <1>3, AmongFacts
<1>5. ToSet(back) \cap {b \in Blocks : ref_cnt[b] = 1} = Pool!LastUsedBy(r)
  BY <1>1, <1>2, <1>3 DEF Pool!LastUsedBy
<1> QED
  BY <1>4, <1>5 DEF LastUsedBy, back

-----------------------------------------------------------------------------
(* Admission.                                                              *)

\* The prompt of a request, its number of blocks and the part that can be hit.
LEMMA PromptFacts ==
  ASSUME NEW r \in Requests
  PROVE  /\ PromptOf[r] \in Seq(ToSet(PromptOf[r]))
         /\ Len(PromptOf[r]) \in Nat /\ HitLimit(r) \in 0 .. Len(PromptOf[r])
         /\ NumBlocks(r) = HitLimit(r) + 1
<1>1. PromptOf[r] \in Seq(ToSet(PromptOf[r])) /\ Len(PromptOf[r]) > 0
  BY PromptAssumption
<1>2. Len(PromptOf[r]) \in Nat
  BY <1>1
<1> QED
  BY <1>1, <1>2 DEF HitLimit, NumBlocks

\* Different numbers of blocks are different keys, and none is None.
LEMMA KeyFacts ==
  ASSUME NEW r \in Requests, NEW i \in 1 .. Len(PromptOf[r])
  PROVE  /\ SubSeq(PromptOf[r], 1, i) # None
         /\ Len(SubSeq(PromptOf[r], 1, i)) = i
<1>1. PromptOf[r] \in Seq(ToSet(PromptOf[r])) /\ Len(PromptOf[r]) \in Nat
  BY PromptFacts
<1> DEFINE T == ToSet(PromptOf[r])
<1> HIDE DEF T
<1>2. PromptOf[r] \in Seq(T)
  BY <1>1 DEF T
<1>3. SubSeq(PromptOf[r], 1, i) \in Seq(T) /\ Len(SubSeq(PromptOf[r], 1, i)) = i
  BY <1>1, <1>2
<1> QED
  BY <1>1, <1>3 DEF None

\* The hits of an admission are different blocks with content, and leave at
\* least one block to be computed.
LEMMA HitFacts ==
  ASSUME DOMAIN block_hash = Blocks, NEW r \in Requests, NEW hit \in ComputedBlocks(r)
  PROVE  /\ HitLength(r) \in 0 .. HitLimit(r)
         /\ hit \in Seq(Blocks) /\ Len(hit) = HitLength(r) /\ IsInjective(hit)
         /\ ToSet(hit) \subseteq ReusableBlocks
         /\ NumBlocks(r) - Len(hit) \in Nat /\ NumBlocks(r) - Len(hit) >= 1
<1>1. HitLimit(r) \in 0 .. Len(PromptOf[r]) /\ NumBlocks(r) = HitLimit(r) + 1
      /\ Len(PromptOf[r]) \in Nat
  BY PromptFacts
<1> DEFINE cached == {i \in 1 .. HitLimit(r) :
                        \A j \in 1 .. i : Cached(SubSeq(PromptOf[r], 1, j)) # {}}
<1>2. HitLength(r) \in 0 .. HitLimit(r)
  <2> DEFINE lengths == {0} \cup cached
  <2>1. lengths \in SUBSET (0 .. HitLimit(r)) /\ lengths # {} /\ HitLimit(r) \in Nat
    BY <1>1
  <2>2. HitLength(r) = Max(lengths)
    BY DEF HitLength
  <2> HIDE DEF lengths
  <2> QED
    BY <2>1, <2>2, MaxOfPlaces
<1>3. /\ hit \in [1 .. HitLength(r) -> Blocks]
      /\ \A i \in 1 .. HitLength(r) : block_hash[hit[i]] = SubSeq(PromptOf[r], 1, i)
  BY DEF ComputedBlocks
<1>4. hit \in Seq(Blocks) /\ Len(hit) = HitLength(r) /\ DOMAIN hit = 1 .. HitLength(r)
  BY <1>1, <1>2, <1>3
<1>5. \A i \in 1 .. HitLength(r) : i \in 1 .. Len(PromptOf[r])
  BY <1>1, <1>2
<1>6. IsInjective(hit)
  <2> SUFFICES ASSUME NEW i \in 1 .. HitLength(r), NEW j \in 1 .. HitLength(r), hit[i] = hit[j]
               PROVE  i = j
    BY <1>4 DEF IsInjective
  <2>1. Len(SubSeq(PromptOf[r], 1, i)) = i /\ Len(SubSeq(PromptOf[r], 1, j)) = j
    BY <1>5, KeyFacts
  <2> QED
    BY <1>3, <2>1
<1>7. ToSet(hit) \subseteq ReusableBlocks
  <2> SUFFICES ASSUME NEW i \in 1 .. HitLength(r) PROVE hit[i] \in ReusableBlocks
    BY <1>4 DEF ToSet
  <2>1. hit[i] \in Blocks /\ block_hash[hit[i]] # None
    BY <1>3, <1>5, KeyFacts
  <2> QED
    BY <2>1 DEF ReusableBlocks, Reusable
<1> QED
  BY <1>1, <1>2, <1>4, <1>6, <1>7

\* What an admission does: it touches hit and takes new from the queue.
Admits(r, hit, new) ==
  /\ hit \in ComputedBlocks(r) /\ hit \in Seq(Blocks)
  /\ new \in Seq(Blocks) /\ IsInjective(new) /\ Len(new) = NumBlocks(r) - Len(hit)
  /\ ToSet(hit) \subseteq ReusableBlocks
  /\ ToSet(new) \subseteq Queued \ ToSet(hit) /\ ToSet(new) # {}
  /\ IsInjective(hit \o new) /\ hit \o new \in Seq(Blocks)
  /\ ToSet(hit \o new) = ToSet(hit) \cup ToSet(new)
  /\ touch(hit)
  /\ free_block_queue' \in Seq(Blocks) /\ IsInjective(free_block_queue')
  /\ Queued' = Queued \ (ToSet(hit) \cup ToSet(new))
  /\ ref_cnt' = [b \in Blocks |-> IF b \in ToSet(hit) \cup ToSet(new)
                                  THEN ref_cnt[b] + 1 ELSE ref_cnt[b]]
  /\ block_hash' = Rehash(r, hit, new)
  /\ req_to_blocks' = [req_to_blocks EXCEPT ![r] = hit \o new]

\* An admission finds hits and new blocks.
LEMMA AdmitFacts ==
  ASSUME Sound, NEW r \in Requests, Admit(r)
  PROVE  \E hit, new : Admits(r, hit, new)
<1>1. PICK hit \in ComputedBlocks(r) :
        LET queue == AfterTouch(hit)
            need == NumBlocks(r) - Len(hit)
            new == SubSeq(queue, 1, need)
        IN /\ need <= Len(queue)
           /\ touch(hit)
           /\ free_block_queue' = SubSeq(queue, need + 1, Len(queue))
           /\ ref_cnt' = [b \in Blocks |->
                            IF b \in ToSet(hit \o new) THEN ref_cnt[b] + 1 ELSE ref_cnt[b]]
           /\ block_hash' = Rehash(r, hit, new)
           /\ req_to_blocks' = [req_to_blocks EXCEPT ![r] = hit \o new]
  BY DEF Admit
<1> DEFINE queue == AfterTouch(hit)
           need == NumBlocks(r) - Len(hit)
           new == SubSeq(queue, 1, need)
           rest == SubSeq(queue, need + 1, Len(queue))
           H == ToSet(hit)
           W == ToSet(new)
<1>2. /\ hit \in Seq(Blocks) /\ IsInjective(hit) /\ H \subseteq ReusableBlocks
      /\ need \in Nat /\ need >= 1
  BY HitFacts DEF Sound
<1>3. /\ queue \in Seq(Blocks) /\ IsInjective(queue)
      /\ ToSet(queue) = Queued \ H
  <2>1. free_block_queue \in Seq(Blocks) /\ IsInjective(free_block_queue)
    BY DEF Sound, QueueSound, QueuedOnce
  <2>2. ToSet(free_block_queue) \subseteq Blocks
    BY <2>1 DEF ToSet
  <2> QED
    BY <2>1, <2>2, AmongFacts DEF AfterTouch, Queued
<1>4. need <= Len(queue) /\ Len(queue) \in Nat
  BY <1>1, <1>3
<1> HIDE DEF queue, need
<1>5. /\ new \in Seq(Blocks) /\ IsInjective(new)
      /\ W = {queue[i] : i \in 1 .. need}
      /\ rest \in Seq(Blocks) /\ IsInjective(rest)
      /\ ToSet(rest) = ToSet(queue) \ W
  <2>1. need \in 0 .. Len(queue) /\ need + 1 \in Nat /\ need + 1 >= 1 /\ 1 \in Nat
    BY <1>2, <1>4
  <2>2. ToSet(rest) = ToSet(queue) \ W
    BY <1>3, <2>1, SplitFacts
  <2>3. /\ new \in Seq(Blocks) /\ IsInjective(new)
        /\ W = {queue[i] : i \in 1 .. need}
    BY <1>2, <1>3, <1>4, <2>1, SubSeqFacts
  <2>4. Len(queue) <= Len(queue)
    BY <1>4
  <2>5. rest \in Seq(Blocks) /\ IsInjective(rest)
    BY <1>3, <1>4, <2>1, <2>4, SubSeqFacts
  <2> QED
    BY <2>2, <2>3, <2>5
<1>6. W \subseteq Queued \ H /\ W # {}
  <2>1. \A i \in 1 .. need : i \in 1 .. Len(queue)
    BY <1>2, <1>4
  <2>2. W \subseteq ToSet(queue)
    BY <1>3, <1>5, <2>1 DEF ToSet
  <2>3. 1 \in 1 .. need
    BY <1>2
  <2> QED
    BY <1>3, <1>5, <2>2, <2>3
<1>7. /\ hit \o new \in Seq(Blocks) /\ IsInjective(hit \o new)
      /\ ToSet(hit \o new) = H \cup W
  <2>1. H \cap W = {}
    BY <1>6
  <2> HIDE DEF new
  <2>2. hit \o new \in Seq(Blocks)
    BY <1>2, <1>5, ConcatPlaces
  <2>3. ToSet(hit \o new) = H \cup W
    BY <1>2, <1>5, ToSetConcat
  <2>4. IsInjective(hit \o new)
    BY <1>2, <1>5, <2>1, InjectiveConcat
  <2> QED
    BY <2>2, <2>3, <2>4
<1>8. /\ touch(hit)
      /\ free_block_queue' = rest
      /\ ref_cnt' = [b \in Blocks |-> IF b \in H \cup W THEN ref_cnt[b] + 1 ELSE ref_cnt[b]]
      /\ block_hash' = Rehash(r, hit, new)
      /\ req_to_blocks' = [req_to_blocks EXCEPT ![r] = hit \o new]
  BY <1>1, <1>7 DEF queue, need
<1>9. Queued' = Queued \ (H \cup W)
  BY <1>3, <1>5, <1>8 DEF Queued
<1>10. Len(new) = need
  BY <1>2, <1>3, <1>4
<1>11. hit \in ComputedBlocks(r)
  OBVIOUS
<1> HIDE DEF new, rest
<1>12. Admits(r, hit, new)
  BY <1>2, <1>5, <1>6, <1>7, <1>8, <1>9, <1>10, <1>11 DEF Admits, need
<1> QED
  BY <1>12

\* An admission is an allocation of PinPool: of the hits, of the new blocks, and
\* with those of the new blocks cached anew that are full.
LEMMA AdmitSteps ==
  ASSUME Sound, Facts!Owned, NEW r \in Requests, Admit(r)
  PROVE  Sound' /\ Pool!Next
<1>1. PICK hit, new : Admits(r, hit, new)
  BY AdmitFacts
<1> DEFINE H == ToSet(hit)
           W == ToSet(new)
           full == {b \in W : block_hash'[b] # None}
<1>2. H \subseteq ReusableBlocks /\ W \subseteq Queued \ H /\ W # {}
  BY <1>1 DEF Admits
<1>3. hit \o new \in Seq(Blocks) /\ IsInjective(hit \o new) /\ ToSet(hit \o new) = H \cup W
  BY <1>1 DEF Admits
<1>4. /\ touch(hit)
      /\ ref_cnt' = [b \in Blocks |-> IF b \in H \cup W THEN ref_cnt[b] + 1 ELSE ref_cnt[b]]
      /\ block_hash' = Rehash(r, hit, new)
      /\ req_to_blocks' = [req_to_blocks EXCEPT ![r] = hit \o new]
  BY <1>1 DEF Admits
<1>5. /\ r \notin finished /\ req_to_blocks[r] = << >>
      /\ UNCHANGED <<pinned_by_request, ctrl, finished, repinned>>
  BY DEF Admit
<1>6. H \subseteq Blocks /\ W \subseteq Blocks
  <2>1. Queued \subseteq Blocks
    BY DEF Sound, QueueSound, Queued, ToSet
  <2> QED
    BY <1>2, <2>1 DEF ReusableBlocks
<1> HIDE DEF H, W
<1>7. Sound'
  <2>1. QueueSound'
    BY <1>1 DEF QueueSound, QueuedOnce, Admits
  <2>2. HeldSound'
    BY <1>3, <1>4 DEF HeldSound, Sound
  <2>3. DictSound'
    BY <1>5 DEF DictSound, Sound
  <2>4. DOMAIN block_hash' = Blocks
    BY <1>4 DEF Rehash
  <2>5. Departed'
    BY <1>4, <1>5 DEF Departed, Sound, HeldSound
  <2> QED
    BY <2>1, <2>2, <2>3, <2>4, <2>5 DEF Sound
<1>8. Queued' = Queued \ (H \cup W)
  BY <1>1 DEF Admits, H, W
<1>9. Held[r] = {} /\ Held' = [Held EXCEPT ![r] = @ \cup H \cup W]
  <2>1. Held[r] = {}
    BY <1>5 DEF Held, ToSet
  <2>2. \A q \in Requests : Held'[q] = IF q = r THEN H \cup W ELSE Held[q]
    BY <1>3, <1>4 DEF Held, Sound, HeldSound
  <2> QED
    BY <2>1, <2>2 DEF Held
<1>10. ReusableBlocks' = (ReusableBlocks \ W) \cup full
  <2>1. \A b \in Blocks \ W : block_hash'[b] = block_hash[b]
    BY <1>4 DEF Rehash, W
  <2> QED
    BY <1>6, <2>1 DEF ReusableBlocks, Reusable
<1>11. Withheld' = Withheld
  BY <1>5 DEF Withheld, EntryOf
<1>12. Pool!Touch(H)
  BY <1>4 DEF touch, Pool!Touch, Idle, Pool!Idle, H, Queued
<1>13. ref_cnt' = Pool!WithUser(H, W)
  BY <1>4 DEF Pool!WithUser
<1>14. Pool!Allocate(r, H, W, full)
  <2>1. full \subseteq Held[r] \cup W
    OBVIOUS
  <2>2. H \cup W # {}
    BY <1>2
  <2>3. H \subseteq ReusableBlocks /\ W \subseteq Queued \ H
    BY <1>2
  <2> HIDE DEF full
  <2> QED
    BY <1>5, <1>8, <1>9, <1>10, <1>11, <1>12, <1>13, <2>1, <2>2, <2>3 DEF Pool!Allocate
<1>15. /\ H \in SUBSET ReusableBlocks /\ W \in SUBSET Queued
       /\ full \in SUBSET (Held[r] \cup W)
  BY <1>2
<1> HIDE DEF full
<1>16. Pool!Next
  BY <1>14, <1>15 DEF Pool!Next
<1> QED
  BY <1>7, <1>16

\* The assumption of PinPool follows from this module's.
LEMMA PoolAssumed == Pool!PoolAssumption /\ Facts!PoolAssumption
BY PromptAssumption, SameCardinality DEF Pool!PoolAssumption, Facts!PoolAssumption

\* What is queued or pinned is held by no request.
LEMMA IdleUnheld ==
  ASSUME Facts!Owned, NEW r \in Requests, NEW b \in Queued \cup pinned_block_ids
  PROVE  b \notin ToSet(req_to_blocks[r])
<1>1. b \in Blocks /\ Facts!Idle(b)
  BY DEF Facts!Owned, Facts!TypeOK, Facts!OneOwner
<1>2. b \notin Held[r]
  BY <1>1, PoolAssumed, Facts!IdleMeansUnheld DEF Facts!Owned
<1> QED
  BY <1>2 DEF Held

\* A decoding request takes the head of the queue.
LEMMA GrowSteps ==
  ASSUME Sound, Facts!Owned, NEW r \in Requests, Grow(r)
  PROVE  Sound' /\ Pool!Next
<1> DEFINE b == Head(free_block_queue)
           rest == Tail(free_block_queue)
<1>1. /\ free_block_queue' = rest
      /\ ref_cnt' = WithUser(b)
      /\ block_hash' = [block_hash EXCEPT ![b] = None]
      /\ req_to_blocks' = [req_to_blocks EXCEPT ![r] = Append(@, b)]
      /\ UNCHANGED <<pinned_block_ids, pinned_by_request, ctrl, finished, repinned>>
      /\ req_to_blocks[r] # << >>
  BY DEF Grow
<1>2. free_block_queue \in Seq(Blocks) /\ free_block_queue # << >> /\ IsInjective(free_block_queue)
  BY DEF Grow, Sound, QueueSound, QueuedOnce
<1>3. /\ b \in Blocks /\ b \in Queued
      /\ rest \in Seq(Blocks) /\ IsInjective(rest)
      /\ ToSet(rest) = Queued \ {b}
  <2> DEFINE q == free_block_queue
  <2>1. q \in Seq(Blocks) /\ q # << >> /\ IsInjective(q)
    BY <1>2
  <2> HIDE DEF q
  <2>2. Len(q) \in Nat /\ Len(q) >= 1 /\ 1 \in 0 .. Len(q) /\ 1 \in DOMAIN q
    BY <2>1
  <2>3. Tail(q) = SubSeq(q, 1 + 1, Len(q)) /\ Head(q) = q[1] /\ 1 \in 1 .. 1 /\ 1 + 1 >= 1
    BY <2>1, <2>2
  <2>4. ToSet(SubSeq(q, 1 + 1, Len(q))) = ToSet(q) \ ToSet(SubSeq(q, 1, 1))
    BY <2>1, <2>2, SplitFacts
  <2>5. ToSet(SubSeq(q, 1, 1)) = {q[i] : i \in 1 .. 1}
    BY <2>1, <2>2, SubSeqFacts
  <2>6. {q[i] : i \in 1 .. 1} = {q[1]}
    OBVIOUS
  <2>7. SubSeq(q, 1 + 1, Len(q)) \in Seq(Blocks) /\ IsInjective(SubSeq(q, 1 + 1, Len(q)))
    <3>1. Len(q) <= Len(q) /\ 1 + 1 \in Nat
      BY <2>2
    <3> QED
      BY <2>1, <2>2, <2>3, <3>1, SubSeqFacts
  <2>8. q[1] \in Blocks /\ q[1] \in ToSet(q)
    BY <2>1, <2>2 DEF ToSet
  <2> QED
    BY <2>3, <2>4, <2>5, <2>6, <2>7, <2>8 DEF Queued, q
<1> HIDE DEF b, rest
<1>4. b \notin ToSet(req_to_blocks[r])
  BY <1>3, IdleUnheld
<1>5. req_to_blocks[r] \in Seq(Blocks) /\ IsInjective(req_to_blocks[r])
  BY DEF Sound, HeldSound
<1>6. /\ Append(req_to_blocks[r], b) \in Seq(Blocks)
      /\ IsInjective(Append(req_to_blocks[r], b))
      /\ ToSet(Append(req_to_blocks[r], b)) = ToSet(req_to_blocks[r]) \cup {b}
  BY <1>3, <1>4, <1>5, ToSetAppend, InjectiveAppend
<1>7. r \notin finished
  BY <1>1 DEF Sound, Departed
<1>8. Sound'
  <2>1. QueueSound'
    BY <1>1, <1>3 DEF QueueSound, QueuedOnce
  <2>2. HeldSound'
    BY <1>1, <1>6 DEF HeldSound, Sound
  <2>3. DictSound'
    BY <1>1 DEF DictSound, Sound
  <2>4. DOMAIN block_hash' = Blocks
    BY <1>1 DEF Sound
  <2>5. Departed'
    BY <1>1, <1>7 DEF Departed, Sound, HeldSound
  <2> QED
    BY <2>1, <2>2, <2>3, <2>4, <2>5 DEF Sound
<1>9. Queued' = Queued \ ({} \cup {b})
  BY <1>1, <1>3 DEF Queued
<1>10. Held' = [Held EXCEPT ![r] = @ \cup {} \cup {b}]
  <2>1. \A q \in Requests : Held'[q] = IF q = r THEN Held[r] \cup {b} ELSE Held[q]
    BY <1>1, <1>6 DEF Held, Sound, HeldSound
  <2> QED
    BY <2>1 DEF Held
<1>11. ReusableBlocks' = (ReusableBlocks \ {b}) \cup {}
  BY <1>1, <1>3 DEF ReusableBlocks, Reusable, Sound
<1>12. Withheld' = Withheld
  BY <1>1 DEF Withheld, EntryOf
<1>13. Pool!Touch({})
  BY <1>1 DEF Pool!Touch
<1>14. ref_cnt' = Pool!WithUser({}, {b})
  <2>1. ref_cnt \in [Blocks -> Nat]
    BY DEF Facts!Owned, Facts!TypeOK
  <2>2. ref_cnt' = [c \in Blocks |-> IF c = b THEN ref_cnt[c] + 1 ELSE ref_cnt[c]]
    BY <1>1, <1>3, <2>1 DEF WithUser
  <2> QED
    BY <2>2 DEF Pool!WithUser
<1>15. Pool!Allocate(r, {}, {b}, {})
  BY <1>1, <1>3, <1>7, <1>9, <1>10, <1>11, <1>12, <1>13, <1>14 DEF Pool!Allocate
<1>16. {} \in SUBSET ReusableBlocks /\ {b} \in SUBSET Queued /\ {} \in SUBSET (Held[r] \cup {b})
  BY <1>3
<1>17. Pool!Next
  BY <1>15, <1>16 DEF Pool!Next
<1> QED
  BY <1>8, <1>17

-----------------------------------------------------------------------------
(* Release.                                                                *)

\* An entry stored in the dict replaces the one of its request, or is added.
LEMMA StoreFacts ==
  ASSUME DictSound, NEW r \in Requests, NEW kept \in Seq(Blocks), IsInjective(kept),
         kept # << >>,
         pinned_by_request' = Store(pinned_by_request, [req |-> r, kept |-> kept])
  PROVE  DictSound' /\ Withheld' = [Withheld EXCEPT ![r] = ToSet(kept)]
<1> DEFINE entry == [req |-> r, kept |-> kept]
           dict == pinned_by_request
<1>1. entry \in Entry /\ entry.req = r /\ entry.kept = kept
  BY DEF Entry
<1>2. /\ dict \in Seq(Entry) /\ Len(dict) \in Nat /\ DOMAIN dict = 1 .. Len(dict)
      /\ \A i \in DOMAIN dict :
           /\ dict[i] \in Entry /\ dict[i].kept # << >> /\ IsInjective(dict[i].kept)
           /\ \A j \in DOMAIN dict : dict[i].req = dict[j].req => i = j
  BY DEF DictSound
<1>3. dict' = IF \E i \in DOMAIN dict : dict[i].req = r
              THEN [i \in DOMAIN dict |-> IF dict[i].req = r THEN entry ELSE dict[i]]
              ELSE Append(dict, entry)
  BY <1>1 DEF Store
<1> HIDE DEF entry
\* The entries afterwards
<1>4. /\ dict' \in Seq(Entry)
      /\ \A i \in DOMAIN dict' :
           \/ dict'[i] = entry
           \/ i \in DOMAIN dict /\ dict'[i] = dict[i] /\ dict[i].req # r
      /\ \E i \in DOMAIN dict' : dict'[i] = entry
      /\ \A i \in DOMAIN dict : dict[i].req # r => i \in DOMAIN dict' /\ dict'[i] = dict[i]
      /\ \A i \in DOMAIN dict', j \in DOMAIN dict' : dict'[i] = entry /\ dict'[j] = entry => i = j
  <2>1. CASE \E i \in DOMAIN dict : dict[i].req = r
    <3>1. dict' = [i \in DOMAIN dict |-> IF dict[i].req = r THEN entry ELSE dict[i]]
      BY <1>3, <2>1
    <3>2. DOMAIN dict' = 1 .. Len(dict)
      BY <1>2, <3>1
    <3>3. dict' \in Seq(Entry)
      <4>1. dict' \in [1 .. Len(dict) -> Entry]
        BY <1>1, <1>2, <3>1
      <4> QED
        BY <1>2, <4>1
    <3>4. \A i \in DOMAIN dict : dict'[i] = IF dict[i].req = r THEN entry ELSE dict[i]
      BY <3>1
    <3>5. DOMAIN dict' = DOMAIN dict
      BY <3>1
    <3> HIDE DEF dict
    <3> QED
      BY <1>1, <1>2, <2>1, <3>3, <3>4, <3>5
  <2>2. CASE ~\E i \in DOMAIN dict : dict[i].req = r
    <3>1. dict' = Append(dict, entry)
      BY <1>3, <2>2
    <3>2. /\ dict' \in Seq(Entry) /\ DOMAIN dict' = 1 .. Len(dict) + 1
          /\ dict'[Len(dict) + 1] = entry
          /\ \A i \in DOMAIN dict : i \in DOMAIN dict' /\ dict'[i] = dict[i]
      BY <1>1, <1>2, <3>1
    <3>3. \A i \in DOMAIN dict' : i \in DOMAIN dict \/ i = Len(dict) + 1
      BY <1>2, <3>2
    <3>4. Len(dict) + 1 \in DOMAIN dict'
      BY <1>2, <3>2
    <3> HIDE DEF dict
    <3> QED
      BY <1>1, <1>2, <2>2, <3>2, <3>3, <3>4
  <2> QED
    BY <2>1, <2>2
<1>5. DictSound'
  <2>1. \A i \in DOMAIN dict' :
           /\ dict'[i].kept # << >> /\ IsInjective(dict'[i].kept)
           /\ \A j \in DOMAIN dict' : dict'[i].req = dict'[j].req => i = j
    <3> HIDE DEF dict
    <3> QED
      BY <1>1, <1>2, <1>4
  <2> QED
    BY <1>4, <2>1 DEF DictSound
\* What the dict says of each request afterwards
<1>6. ASSUME NEW q \in Requests
      PROVE  EntryOf(q)' = IF q = r THEN {entry} ELSE EntryOf(q)
  <2>1. EntryOf(q)' = {e \in ToSet(dict') : e.req = q} /\ EntryOf(q) = {e \in ToSet(dict) : e.req = q}
    BY DEF EntryOf, ToSet
  <2>2. /\ \A e : e \in ToSet(dict') <=> \E i \in DOMAIN dict' : e = dict'[i]
        /\ \A e : e \in ToSet(dict) <=> \E i \in DOMAIN dict : e = dict[i]
    BY DEF ToSet
  <2> HIDE DEF dict
  <2>3. CASE q = r
    BY <1>1, <1>4, <2>1, <2>2, <2>3
  <2>4. CASE q # r
    BY <1>1, <1>4, <2>1, <2>2, <2>4
  <2> QED
    BY <2>3, <2>4
<1>7. \A q \in Requests : Withheld'[q] = IF q = r THEN ToSet(kept) ELSE Withheld[q]
  <2> SUFFICES ASSUME NEW q \in Requests
               PROVE  Withheld'[q] = IF q = r THEN ToSet(kept) ELSE Withheld[q]
    OBVIOUS
  <2>1. Withheld'[q] = UNION {ToSet(e.kept) : e \in EntryOf(q)'}
    BY DEF Withheld, ToSet
  <2>2. Withheld[q] = UNION {ToSet(e.kept) : e \in EntryOf(q)}
    BY DEF Withheld
  <2> QED
    BY <1>1, <1>6, <2>1, <2>2
<1> QED
  BY <1>5, <1>7 DEF Withheld

\* A request has an entry exactly when PinPool has something withheld for it.
LEMMA HasEntry ==
  ASSUME DictSound, NEW r \in Requests
  PROVE  EntryOf(r) # {} <=> Withheld[r] # {}
<1>1. ASSUME EntryOf(r) # {} PROVE Withheld[r] # {}
  <2>1. PICK i \in DOMAIN pinned_by_request : pinned_by_request[i].req = r
    BY <1>1 DEF EntryOf, ToSet
  <2> QED
    BY <2>1, EntryFacts
<1> QED
  BY <1>1, NoEntry

\* A release of the sequences is a release of the sets.
LEMMA ReleaseSteps ==
  ASSUME Sound, Facts!Owned, NEW r \in Requests, Release(r)
  PROVE  /\ Pool!Release(r)
         /\ QueueSound' /\ HeldSound' /\ DictSound' /\ DOMAIN block_hash' = Blocks
         /\ \A q \in Requests : req_to_blocks'[q] = IF q = r THEN << >> ELSE req_to_blocks[q]
<1> DEFINE last == LastUsedBy(r)
           kept == Among(last, ReusableBlocks)
           passed == Among(last, Blocks \ ReusableBlocks)
<1>1. /\ last \in Seq(Blocks) /\ IsInjective(last) /\ ToSet(last) = Pool!LastUsedBy(r)
      /\ Pool!LastUsedBy(r) \subseteq ToSet(req_to_blocks[r])
      /\ ToSet(last) \subseteq Blocks
  <2>1. last \in Seq(Blocks) /\ IsInjective(last) /\ ToSet(last) = Pool!LastUsedBy(r)
    BY LastUsedFacts DEF Sound
  <2>2. ToSet(last) \subseteq Blocks
    BY <2>1 DEF ToSet
  <2> QED
    BY <2>1, <2>2 DEF Pool!LastUsedBy, Held
<1>2. /\ req_to_blocks[r] # << >> /\ Held[r] # {}
      /\ ref_cnt' = Pool!WithoutUser(r)
      /\ req_to_blocks' = [req_to_blocks EXCEPT ![r] = << >>]
      /\ UNCHANGED <<block_hash, ctrl>>
  <2>1. req_to_blocks[r] # << >> /\ req_to_blocks[r] \in Seq(Blocks)
    BY DEF Release, Sound, HeldSound
  <2>2. 1 \in DOMAIN req_to_blocks[r]
    <3> DEFINE s == req_to_blocks[r]
    <3>1. s \in Seq(Blocks) /\ s # << >>
      BY <2>1
    <3> HIDE DEF s
    <3>2. 1 \in DOMAIN s
      BY <3>1
    <3> QED
      BY <3>2 DEF s
  <2>3. Held[r] # {}
    BY <2>2 DEF Held, ToSet
  <2>4. ref_cnt' = Pool!WithoutUser(r)
    BY DEF Release, Pool!WithoutUser, Held
  <2> QED
    BY <2>1, <2>3, <2>4 DEF Release
<1>3. /\ free_block_queue \in Seq(Blocks) /\ IsInjective(free_block_queue)
      /\ ToSet(last) \cap ToSet(free_block_queue) = {}
  <2>1. free_block_queue \in Seq(Blocks) /\ IsInjective(free_block_queue)
    BY DEF Sound, QueueSound, QueuedOnce
  <2>2. \A b \in Queued : b \notin ToSet(req_to_blocks[r])
    BY IdleUnheld
  <2> QED
    BY <1>1, <2>1, <2>2 DEF Queued
<1>4. \A q \in Requests : req_to_blocks'[q] = IF q = r THEN << >> ELSE req_to_blocks[q]
  BY <1>2 DEF Sound, HeldSound
<1>5. HeldSound' /\ DOMAIN block_hash' = Blocks
  <2>1. << >> \in Seq(Blocks) /\ IsInjective(<< >>)
    BY DEF IsInjective
  <2>2. HeldSound'
    BY <1>2, <1>4, <2>1 DEF HeldSound, Sound
  <2> QED
    BY <1>2, <2>2 DEF Sound
<1>6. Held' = [Held EXCEPT ![r] = {}]
  <2>1. \A q \in Requests : Held'[q] = IF q = r THEN {} ELSE Held[q]
    BY <1>4 DEF Held, ToSet
  <2> QED
    BY <2>1 DEF Held
<1>7. ReusableBlocks' = ReusableBlocks
  BY <1>2 DEF ReusableBlocks, Reusable
<1>8. CASE ss_should_pin
  <2>1. /\ kept \in Seq(Blocks) /\ IsInjective(kept)
        /\ ToSet(kept) = Pool!LastUsedBy(r) \cap ReusableBlocks
        /\ passed \in Seq(Blocks) /\ IsInjective(passed)
        /\ ToSet(passed) = Pool!LastUsedBy(r) \ ReusableBlocks
    BY <1>1, AmongFacts
  <2>2. Pin(r, kept, passed)
    BY <1>8 DEF Release, ss_pin_request
  <2> HIDE DEF last, kept, passed
  <2>3. /\ passed \o free_block_queue \in Seq(Blocks) /\ IsInjective(passed \o free_block_queue)
        /\ ToSet(passed \o free_block_queue) = ToSet(passed) \cup ToSet(free_block_queue)
    BY <1>1, <1>3, <2>1, ConcatPlaces, InjectiveConcat, ToSetConcat
  <2>4. QueueSound' /\ Queued' = Queued \cup ToSet(passed)
    BY <2>2, <2>3 DEF Pin, QueueSound, QueuedOnce, Queued
  <2>5. kept = << >> <=> ToSet(kept) = {}
    <3>1. ASSUME kept # << >> PROVE ToSet(kept) # {}
      <4>1. 1 \in DOMAIN kept
        BY <2>1, <3>1
      <4> QED
        BY <4>1 DEF ToSet
    <3> QED
      BY <3>1 DEF ToSet
  <2>6. /\ DictSound'
        /\ Withheld' = IF ToSet(kept) = {} THEN Withheld ELSE [Withheld EXCEPT ![r] = ToSet(kept)]
    <3>1. CASE kept = << >>
      <4>1. pinned_by_request' = pinned_by_request
        BY <2>2, <3>1 DEF Pin
      <4>2. DictSound' /\ Withheld' = Withheld
        BY <4>1 DEF DictSound, Sound, Withheld, EntryOf
      <4> QED
        BY <2>5, <3>1, <4>2
    <3>2. CASE kept # << >>
      <4>1. pinned_by_request' = Store(pinned_by_request, [req |-> r, kept |-> kept])
        BY <2>2, <3>2 DEF Pin
      <4> QED
        BY <2>1, <2>5, <3>2, <4>1, StoreFacts DEF Sound
    <3> QED
      BY <3>1, <3>2
  <2>7. EntryOf(r) # {} <=> Withheld[r] # {}
    BY HasEntry DEF Sound
  <2>8. Pool!Pin(r, ToSet(kept), ToSet(passed))
    BY <2>2, <2>4, <2>5, <2>6, <2>7 DEF Pool!Pin, Pin
  <2>9. Pool!ss_pin_request(r)
    BY <2>1, <2>8 DEF Pool!ss_pin_request
  <2>10. Pool!ss_should_pin
    BY <1>8, ShouldPinAgrees DEF Sound
  <2>11. Pool!Release(r)
    BY <1>2, <1>6, <1>7, <2>9, <2>10 DEF Pool!Release
  <2> QED
    BY <1>4, <1>5, <2>4, <2>6, <2>11
<1>9. CASE ~ss_should_pin
  <2>1. /\ free_block_queue' = free_block_queue \o last
        /\ UNCHANGED <<pinned_block_ids, pinned_by_request, repinned>>
    BY <1>9 DEF Release, free_blocks
  <2> HIDE DEF last
  <2>2. /\ free_block_queue \o last \in Seq(Blocks) /\ IsInjective(free_block_queue \o last)
        /\ ToSet(free_block_queue \o last) = ToSet(free_block_queue) \cup ToSet(last)
    BY <1>1, <1>3, ConcatPlaces, InjectiveConcat, ToSetConcat
  <2>3. QueueSound' /\ Queued' = Queued \cup Pool!LastUsedBy(r)
    BY <1>1, <2>1, <2>2 DEF QueueSound, QueuedOnce, Queued
  <2>4. DictSound' /\ Withheld' = Withheld
    BY <2>1 DEF DictSound, Sound, Withheld, EntryOf
  <2>5. ~Pool!ss_should_pin
    BY <1>9, ShouldPinAgrees DEF Sound
  <2>6. Pool!Release(r)
    BY <1>2, <1>6, <1>7, <2>1, <2>3, <2>4, <2>5 DEF Pool!Release, Pool!free_blocks
  <2> QED
    BY <1>4, <1>5, <2>3, <2>4, <2>6
<1> QED
  BY <1>8, <1>9

-----------------------------------------------------------------------------
(* The other operations.                                                   *)

\* A finish is a finish of PinPool.
LEMMA FinishSteps ==
  ASSUME Sound, Facts!Owned, NEW r \in Requests, Finish(r)
  PROVE  Sound' /\ Pool!Next
<1>1. Release(r) /\ finished' = finished \cup {r}
  BY DEF Finish
<1>2. Departed'
  BY <1>1, ReleaseSteps DEF Departed, Sound, Facts!Owned, Facts!TypeOK
<1>3. Pool!Finish(r)
  BY <1>1, ReleaseSteps DEF Pool!Finish
<1> QED
  BY <1>1, <1>2, <1>3, ReleaseSteps DEF Sound, Pool!Next

\* A preemption is a preemption of PinPool.
LEMMA PreemptSteps ==
  ASSUME Sound, Facts!Owned, NEW r \in Requests, Preempt(r)
  PROVE  Sound' /\ Pool!Next
<1>1. Release(r) /\ finished' = finished /\ r \in Preemptible
  BY DEF Preempt
<1>2. Departed'
  BY <1>1, ReleaseSteps DEF Departed, Sound, Facts!Owned, Facts!TypeOK
<1>3. Pool!Preempt(r)
  BY <1>1, ReleaseSteps DEF Pool!Preempt
<1> QED
  BY <1>1, <1>2, <1>3, ReleaseSteps DEF Sound, Pool!Next

\* The walk of ss_unpin_all takes exactly the live blocks of PinPool.
LEMMA TakenIsLive ==
  ASSUME Sound, pinned_block_ids \subseteq Blocks
  PROVE  Taken(Len(pinned_by_request)) = Pool!Live
<1>1. /\ DOMAIN pinned_by_request = 1 .. Len(pinned_by_request)
      /\ \A i \in DOMAIN pinned_by_request : pinned_by_request[i].req \in Requests
  <2>1. pinned_by_request \in Seq(Entry)
    BY DEF Sound, DictSound
  <2>2. \A i \in DOMAIN pinned_by_request : pinned_by_request[i] \in Entry
    BY <2>1
  <2> QED
    BY <2>1, <2>2 DEF Entry
<1>2. ASSUME NEW b,
             NEW i \in DOMAIN pinned_by_request, b \in ToSet(pinned_by_request[i].kept)
      PROVE  b \in UNION {Withheld[r] : r \in Requests}
  BY <1>1, <1>2, EntryFacts DEF Sound
<1>3. ASSUME NEW b, NEW r \in Requests, b \in Withheld[r]
      PROVE  \E i \in DOMAIN pinned_by_request : b \in ToSet(pinned_by_request[i].kept)
  <2>1. EntryOf(r) # {}
    BY <1>3, NoEntry
  <2>2. PICK i \in DOMAIN pinned_by_request : pinned_by_request[i].req = r
    BY <2>1 DEF EntryOf, ToSet
  <2>3. Withheld[r] = ToSet(pinned_by_request[i].kept)
    BY <2>2, EntryFacts DEF Sound
  <2> QED
    BY <1>3, <2>3
<1> QED
  BY <1>1, <1>2, <1>3 DEF Taken, Pool!Live, Idle, Pool!Idle

\* A reset of the sequences is a reset of the sets.
LEMMA ResetSteps ==
  ASSUME Sound, Facts!Owned, ResetPrefixCache
  PROVE  Sound' /\ Pool!Next
<1>1. /\ pinned_block_ids \subseteq Blocks /\ Queued \cap pinned_block_ids = {}
      /\ ss_unpin_all /\ pinned_block_ids' = {} /\ pinned_by_request' = << >>
      /\ UNCHANGED <<ref_cnt, req_to_blocks, ctrl, finished, repinned>>
      /\ block_hash' = IF Len(free_block_queue') = Cardinality(Blocks)
                       THEN [b \in Blocks |-> None] ELSE block_hash
  BY DEF Facts!Owned, Facts!TypeOK, Facts!OneOwner, ResetPrefixCache, ss_unpin_all
<1>2. QueueSound' /\ Queued' = Queued \cup Pool!Live
  BY <1>1, UnpinFacts, TakenIsLive
<1>3. Sound'
  <2>1. HeldSound' /\ Departed'
    BY <1>1 DEF Sound, HeldSound, Departed
  <2>2. DictSound'
    BY <1>1 DEF DictSound
  <2> QED
    BY <1>1, <1>2, <2>1, <2>2 DEF Sound
<1>4. Held' = Held
  BY <1>1 DEF Held
<1>5. Withheld' = [r \in Requests |-> {}]
  BY <1>1 DEF Withheld, EntryOf, ToSet
<1>6. Pool!NumUsed(Queued') = 1 <=> Len(free_block_queue') = Cardinality(Blocks)
  <2>1. Cardinality(Queued') = Len(free_block_queue') /\ Len(free_block_queue') \in Nat
    <3>1. free_block_queue' \in Seq(Blocks) /\ IsInjective(free_block_queue')
      BY <1>2 DEF QueueSound, QueuedOnce
    <3> QED
      BY <3>1, InjectiveLength DEF Queued
  <2>2. Cardinality(Blocks) \in Nat
    BY PromptAssumption, FS_CardinalityType
  <2>3. ASSUME NEW free
        PROVE  Pool!NumUsed(free) = (Cardinality(Blocks) + 1) - Cardinality(free)
    BY SameCardinality DEF Pool!NumUsed, Pool!num_gpu_blocks
  <2> QED
    BY <2>1, <2>2, <2>3
<1>7. ReusableBlocks' = IF Pool!NumUsed(Queued') = 1 THEN {} ELSE ReusableBlocks
  <2>1. CASE Len(free_block_queue') = Cardinality(Blocks)
    <3>1. \A b \in Blocks : block_hash'[b] = None
      BY <1>1, <2>1
    <3> QED
      BY <1>6, <2>1, <3>1 DEF ReusableBlocks, Reusable
  <2>2. CASE Len(free_block_queue') # Cardinality(Blocks)
    <3>1. block_hash' = block_hash
      BY <1>1, <2>2
    <3> QED
      BY <1>6, <2>2, <3>1 DEF ReusableBlocks, Reusable
  <2> QED
    BY <2>1, <2>2
<1>8. Pool!ResetPrefixCache
  BY <1>1, <1>2, <1>4, <1>5, <1>7 DEF Pool!ResetPrefixCache, Pool!ss_unpin_all
<1> QED
  BY <1>3, <1>8 DEF Pool!Next

\* The control file changes no block.
LEMMA ControlSteps ==
  ASSUME Sound, NEW c \in Controls, SetControl(c)
  PROVE  Sound' /\ Pool!Next
<1>1. Pool!SetControl(c) /\ c \in Pool!Controls
  BY DEF SetControl, poolVars, Pool!SetControl, Pool!poolVars, Controls, Pool!Controls,
         Queued, ReusableBlocks, Reusable, Held, Withheld, EntryOf
<1>2. Sound'
  BY DEF SetControl, poolVars, Sound, QueueSound, QueuedOnce, HeldSound, DictSound,
         Departed
<1> QED
  BY <1>1, <1>2 DEF Pool!Next

\* A step that changes nothing.
LEMMA StutterSteps ==
  ASSUME UNCHANGED vars
  PROVE  (Sound => Sound') /\ UNCHANGED Pool!vars
BY DEF vars, poolVars, Pool!vars, Pool!poolVars, Queued, ReusableBlocks, Reusable, Held,
       Withheld, EntryOf, Sound, QueueSound, QueuedOnce, HeldSound, DictSound, Departed

\* The pool starts with every block queued once.
LEMMA InitSound == Init => Sound /\ Pool!Init
<1> SUFFICES ASSUME Init PROVE Sound /\ Pool!Init
  OBVIOUS
<1>1. /\ free_block_queue \in Seq(Blocks) /\ IsInjective(free_block_queue)
      /\ Queued = Blocks
  BY PromptAssumption, SetToSeqFacts DEF Init, Queued
<1>2. << >> \in Seq(Blocks) /\ IsInjective(<< >>) /\ ToSet(<< >>) = {}
  BY DEF IsInjective, ToSet
<1>3. HeldSound /\ Held = [r \in Requests |-> {}]
  BY <1>2 DEF Init, HeldSound, Held
<1>4. DictSound /\ Withheld = [r \in Requests |-> {}]
  BY <1>2 DEF Init, DictSound, Withheld, EntryOf
<1>5. ReusableBlocks = {}
  BY DEF Init, ReusableBlocks, Reusable
<1>6. Sound
  BY <1>1, <1>3, <1>4 DEF Sound, QueueSound, QueuedOnce, Departed, Init
<1> QED
  BY <1>1, <1>3, <1>4, <1>5, <1>6 DEF Init, Pool!Init

\* The two names of the instance are one specification.
LEMMA SamePool == (Pool!Init <=> Facts!Init) /\ ([Pool!Next]_Pool!vars <=> [Facts!Next]_Facts!vars)
<1>1. Pool!Init <=> Facts!Init
  BY DEF Pool!Init, Facts!Init
<1>2. ASSUME NEW r, NEW hit, NEW new, NEW full
      PROVE  Pool!Allocate(r, hit, new, full) <=> Facts!Allocate(r, hit, new, full)
  BY DEF Pool!Allocate, Facts!Allocate, Pool!Touch, Facts!Touch, Pool!WithUser,
         Facts!WithUser, Pool!Idle, Facts!Idle
<1>3. ASSUME NEW r PROVE Pool!Release(r) <=> Facts!Release(r)
  <2>1. Pool!ss_should_pin <=> Facts!ss_should_pin
    BY SameCardinality DEF Pool!ss_should_pin, Facts!ss_should_pin, Pool!PinnedRequests,
       Facts!PinnedRequests
  <2>2. Pool!LastUsedBy(r) = Facts!LastUsedBy(r)
    BY DEF Pool!LastUsedBy, Facts!LastUsedBy
  <2>3. Pool!ss_pin_request(r) <=> Facts!ss_pin_request(r)
    BY <2>2 DEF Pool!ss_pin_request, Facts!ss_pin_request, Pool!Pin, Facts!Pin
  <2>4. Pool!free_blocks(r) <=> Facts!free_blocks(r)
    BY <2>2 DEF Pool!free_blocks, Facts!free_blocks
  <2>5. Pool!WithoutUser(r) = Facts!WithoutUser(r)
    BY DEF Pool!WithoutUser, Facts!WithoutUser
  <2> QED
    BY <2>1, <2>3, <2>4, <2>5 DEF Pool!Release, Facts!Release
<1>4. ASSUME NEW r
      PROVE  /\ Pool!Finish(r) <=> Facts!Finish(r)
             /\ Pool!Preempt(r) <=> Facts!Preempt(r)
  BY <1>3 DEF Pool!Finish, Facts!Finish, Pool!Preempt, Facts!Preempt
<1>5. Pool!ResetPrefixCache <=> Facts!ResetPrefixCache
  BY SameCardinality DEF Pool!ResetPrefixCache, Facts!ResetPrefixCache, Pool!ss_unpin_all,
     Facts!ss_unpin_all, Pool!Live, Facts!Live, Pool!Idle, Facts!Idle, Pool!NumUsed,
     Facts!NumUsed, Pool!num_gpu_blocks, Facts!num_gpu_blocks
<1>6. ASSUME NEW c PROVE Pool!SetControl(c) <=> Facts!SetControl(c)
  BY DEF Pool!SetControl, Facts!SetControl, Pool!poolVars, Facts!poolVars
<1>7. Pool!Next <=> Facts!Next
  <2>1. Pool!Controls = Facts!Controls
    BY DEF Pool!Controls, Facts!Controls
  <2> QED
    BY <1>2, <1>4, <1>5, <1>6, <2>1 DEF Pool!Next, Facts!Next
<1>8. UNCHANGED Pool!vars <=> UNCHANGED Facts!vars
  BY DEF Pool!vars, Facts!vars, Pool!poolVars, Facts!poolVars
<1> QED
  BY <1>1, <1>7, <1>8

-----------------------------------------------------------------------------
(* The theorems.                                                           *)

\* Every step of the sequences keeps them sound, and is a step of PinPool.
LEMMA NextSound ==
  Sound /\ Facts!Owned /\ [Next]_vars => (Sound /\ Facts!Owned)' /\ [Pool!Next]_Pool!vars
<1> SUFFICES ASSUME Sound, Facts!Owned, [Next]_vars
             PROVE  Sound' /\ Facts!Owned' /\ [Pool!Next]_Pool!vars
  OBVIOUS
<1>1. Sound' /\ [Pool!Next]_Pool!vars
  <2>1. ASSUME NEW r \in Requests, Admit(r) PROVE Sound' /\ Pool!Next
    BY <2>1, AdmitSteps
  <2>2. ASSUME NEW r \in Requests, Grow(r) PROVE Sound' /\ Pool!Next
    BY <2>2, GrowSteps
  <2>3. ASSUME NEW r \in Requests, Finish(r) PROVE Sound' /\ Pool!Next
    BY <2>3, FinishSteps
  <2>4. ASSUME NEW r \in Requests, Preempt(r) PROVE Sound' /\ Pool!Next
    BY <2>4, PreemptSteps
  <2>5. CASE ResetPrefixCache
    BY <2>5, ResetSteps
  <2>6. ASSUME NEW c \in Controls, SetControl(c) PROVE Sound' /\ Pool!Next
    BY <2>6, ControlSteps
  <2>7. CASE UNCHANGED vars
    BY <2>7, StutterSteps
  <2> QED
    BY <2>1, <2>2, <2>3, <2>4, <2>5, <2>6, <2>7 DEF Next
<1>2. Facts!Owned'
  BY <1>1, SamePool, PoolAssumed, Facts!NextOwned
<1> QED
  BY <1>1, <1>2

\* The inductive invariant of the pool.
LEMMA SoundAlways == Spec => [](Sound /\ Facts!Owned)
<1>1. Init => Sound /\ Facts!Owned
  BY InitSound, SamePool, PoolAssumed, Facts!InitOwned
<1>2. Sound /\ Facts!Owned /\ [Next]_vars => (Sound /\ Facts!Owned)'
  BY NextSound
<1> QED
  BY <1>1, <1>2, PTL DEF Spec

\* The pool of sequences implements the pool of sets: every admission, decode
\* step, release, preemption and reset, the walk of ss_unpin_all included, is the
\* call of PinPool that it refines, for every set of blocks, requests and prompts.
THEOREM PinPoolImplemented == Spec => ImplementsPinPool
<1>1. Init => Pool!Init
  BY InitSound
<1>2. Sound /\ Facts!Owned /\ [Next]_vars => [Pool!Next]_Pool!vars
  BY NextSound
<1> QED
  BY <1>1, <1>2, SoundAlways, PTL DEF Spec, ImplementsPinPool, Pool!Spec

\* The free queue never holds a block twice, however often a block was pinned,
\* touched and pinned again under another entry before the reset.
THEOREM QueuedOnceCorrect == Spec => []QueuedOnce
BY SoundAlways, PTL DEF Sound, QueueSound

\* The length of the free queue is the number of blocks without a user and
\* without a pin, until an entry of the dict is overwritten.
THEOREM FreeCountCorrect == Spec => []FreeCountExact
<1>1. ASSUME Sound, Facts!Owned, Facts!NoBlockLost PROVE FreeCountExact
  <2> SUFFICES ASSUME repinned = {}
               PROVE  Len(free_block_queue)
                        = Cardinality({b \in Blocks : Idle(b) /\ b \notin pinned_block_ids})
    BY DEF FreeCountExact
  <2>1. Queued = {b \in Blocks : Idle(b) /\ b \notin pinned_block_ids}
    BY <1>1 DEF Facts!NoBlockLost, Facts!Owned, Facts!OneOwner, Facts!TypeOK, Facts!Idle,
                Idle
  <2>2. free_block_queue \in Seq(Blocks) /\ IsInjective(free_block_queue)
    BY <1>1 DEF Sound, QueueSound, QueuedOnce
  <2> QED
    BY <2>1, <2>2, InjectiveLength DEF Queued
<1>2. Spec => []Facts!NoBlockLost
  <2>1. Spec => Facts!Spec
    BY PinPoolImplemented, SamePool, PTL DEF ImplementsPinPool, Pool!Spec, Facts!Spec
  <2>2. Facts!Spec => []Facts!NoBlockLost
    BY PoolAssumed, Facts!NothingLost
  <2> QED
    BY <2>1, <2>2, PTL
<1> QED
  BY <1>1, <1>2, SoundAlways, PTL

-----------------------------------------------------------------------------
(* What the blocks cache.                                                  *)

\* What block j of a request caches: the prompt up to it, and nothing behind the
\* prompt.
Content(r, j) == IF j <= Len(PromptOf[r]) THEN SubSeq(PromptOf[r], 1, j) ELSE None

HeldContent ==
  \A r \in Requests :
    /\ req_to_blocks[r] # << >> => Len(req_to_blocks[r]) >= Len(PromptOf[r])
    /\ \A j \in DOMAIN req_to_blocks[r] : block_hash[req_to_blocks[r][j]] = Content(r, j)

\* An admission caches the whole prompt, hit or recomputed.
LEMMA AdmitContent ==
  ASSUME Sound, Facts!Owned, HeldContent, NEW r \in Requests, Admit(r)
  PROVE  HeldContent'
<1>1. PICK hit, new : Admits(r, hit, new)
  BY AdmitFacts
<1> DEFINE blocks == hit \o new
           p == PromptOf[r]
<1>2. /\ hit \in Seq(Blocks) /\ new \in Seq(Blocks) /\ IsInjective(new)
      /\ ToSet(hit) \subseteq ReusableBlocks /\ ToSet(new) \subseteq Queued \ ToSet(hit)
      /\ block_hash' = Rehash(r, hit, new)
      /\ Len(hit) = HitLength(r) /\ Len(new) = NumBlocks(r) - Len(hit)
      /\ \A i \in 1 .. HitLength(r) : block_hash[hit[i]] = SubSeq(p, 1, i)
      /\ HitLength(r) \in 0 .. HitLimit(r)
  BY <1>1, HitFacts DEF Admits, ComputedBlocks, Sound
<1>3. /\ HitLimit(r) \in 0 .. Len(p) /\ NumBlocks(r) = HitLimit(r) + 1 /\ Len(p) \in Nat
      /\ NumBlocks(r) >= Len(p) /\ HitLimit(r) \in Nat
  <2>1. NumBlocks(r) >= Len(p)
    BY PromptFacts DEF NumBlocks
  <2> QED
    BY <2>1, PromptFacts
<1>4. /\ DOMAIN blocks = 1 .. NumBlocks(r) /\ Len(blocks) = NumBlocks(r)
      /\ \A i \in 1 .. Len(hit) : blocks[i] = hit[i]
      /\ \A i \in 1 .. Len(new) : blocks[Len(hit) + i] = new[i]
      /\ \A i \in DOMAIN blocks :
           \/ i \in 1 .. Len(hit)
           \/ \E n \in 1 .. Len(new) : i = Len(hit) + n
  <2>0. Len(hit) \in Nat /\ Len(new) \in Nat
    BY <1>2
  <2>1. Len(hit) + Len(new) = NumBlocks(r)
    BY <1>2, <1>3, <2>0
  <2>2. blocks \in Seq(Blocks)
    BY <1>2, ConcatPlaces
  <2>3. \A i \in 1 .. NumBlocks(r) :
           \/ i \in 1 .. Len(hit)
           \/ \E n \in 1 .. Len(new) : i = Len(hit) + n
    <3> SUFFICES ASSUME NEW i \in 1 .. NumBlocks(r), i \notin 1 .. Len(hit)
                 PROVE  \E n \in 1 .. Len(new) : i = Len(hit) + n
      OBVIOUS
    <3>1. i - Len(hit) \in 1 .. Len(new) /\ i = Len(hit) + (i - Len(hit))
      BY <1>3, <2>0, <2>1
    <3> QED
      BY <3>1
  <2>4. hit \in Seq(Blocks) /\ new \in Seq(Blocks)
    BY <1>2
  <2>5. DOMAIN blocks = 1 .. Len(hit) + Len(new) /\ Len(blocks) = Len(hit) + Len(new)
    BY <2>4, ConcatPlaces
  <2>6. \A i \in 1 .. Len(hit) : blocks[i] = hit[i]
    BY <2>4, ConcatPlaces
  <2>7. \A i \in 1 .. Len(new) : blocks[Len(hit) + i] = new[i]
    BY <2>4, ConcatPlaces
  <2> HIDE DEF blocks
  <2> QED
    BY <2>1, <2>3, <2>5, <2>6, <2>7
<1>5. req_to_blocks' = [req_to_blocks EXCEPT ![r] = blocks]
  BY <1>1 DEF Admits
<1> HIDE DEF blocks
<1>6. \A j \in DOMAIN blocks : block_hash'[blocks[j]] = Content(r, j)
  <2> SUFFICES ASSUME NEW j \in 1 .. NumBlocks(r) PROVE block_hash'[blocks[j]] = Content(r, j)
    BY <1>4
  <2>1. CASE j \in 1 .. Len(hit)
    <3>1. hit[j] \in ToSet(hit) /\ blocks[j] = hit[j]
      BY <1>2, <1>4, <2>1 DEF ToSet
    <3>2. hit[j] \in Blocks /\ hit[j] \notin ToSet(new)
      BY <1>2, <3>1 DEF ReusableBlocks
    <3>3. block_hash'[hit[j]] = block_hash[hit[j]]
      BY <1>2, <3>2 DEF Rehash
    <3>4. j <= Len(p)
      BY <1>2, <1>3, <2>1
    <3> QED
      BY <1>2, <2>1, <3>1, <3>3, <3>4 DEF Content
  <2>2. CASE \E n \in 1 .. Len(new) : j = Len(hit) + n
    <3>1. PICK n \in 1 .. Len(new) : j = Len(hit) + n
      BY <2>2
    <3>2. blocks[j] = new[n] /\ n \in DOMAIN new /\ new[n] \in Blocks /\ new[n] \in ToSet(new)
      BY <1>2, <1>4, <3>1 DEF ToSet
    <3>3. (CHOOSE i \in DOMAIN new : new[i] = new[n]) = n
      BY <1>2, <3>2 DEF IsInjective
    <3>4. block_hash'[new[n]]
            = LET pos == Len(hit) + CHOOSE i \in DOMAIN new : new[i] = new[n]
              IN IF pos <= Len(p) THEN SubSeq(p, 1, pos) ELSE None
      BY <1>2, <3>2 DEF Rehash
    <3> QED
      BY <3>1, <3>2, <3>3, <3>4 DEF Content
  <2> QED
    BY <1>4, <2>1, <2>2
<1>7. ASSUME NEW q \in Requests, q # r, NEW j \in DOMAIN req_to_blocks[q]
      PROVE  block_hash'[req_to_blocks[q][j]] = block_hash[req_to_blocks[q][j]]
  <2>1. req_to_blocks[q][j] \in ToSet(req_to_blocks[q]) /\ req_to_blocks[q][j] \in Blocks
    BY DEF Sound, HeldSound, ToSet
  <2>2. req_to_blocks[q][j] \notin ToSet(new)
    BY <1>2, <2>1, IdleUnheld
  <2> QED
    BY <1>2, <2>1, <2>2 DEF Rehash
<1> HIDE DEF p
<1>8. Len(blocks) >= Len(PromptOf[r])
  BY <1>3, <1>4 DEF p
<1>9. \A q \in Requests : req_to_blocks'[q] = IF q = r THEN blocks ELSE req_to_blocks[q]
  BY <1>5 DEF Sound, HeldSound
<1> SUFFICES ASSUME NEW q \in Requests
             PROVE  /\ req_to_blocks'[q] # << >> => Len(req_to_blocks'[q]) >= Len(PromptOf[q])
                    /\ \A j \in DOMAIN req_to_blocks'[q] :
                         block_hash'[req_to_blocks'[q][j]] = Content(q, j)
  BY DEF HeldContent, Content
<1>10. CASE q = r
  BY <1>6, <1>8, <1>9, <1>10
<1>11. CASE q # r
  BY <1>7, <1>9, <1>11 DEF HeldContent
<1> QED
  BY <1>10, <1>11

\* A decoding request adds a block that caches nothing.
LEMMA GrowContent ==
  ASSUME Sound, Facts!Owned, HeldContent, NEW r \in Requests, Grow(r)
  PROVE  HeldContent'
<1> DEFINE b == Head(free_block_queue)
           s == req_to_blocks[r]
<1>1. b \in Blocks /\ b \in Queued
  <2> DEFINE q == free_block_queue
  <2>1. q \in Seq(Blocks) /\ q # << >>
    BY DEF Grow, Sound, QueueSound
  <2> HIDE DEF q
  <2>2. Head(q) = q[1] /\ 1 \in DOMAIN q /\ Head(q) \in Blocks
    BY <2>1
  <2> QED
    BY <2>2 DEF Queued, ToSet, q
<1>2. /\ block_hash' = [block_hash EXCEPT ![b] = None]
      /\ req_to_blocks' = [req_to_blocks EXCEPT ![r] = Append(s, b)]
      /\ s # << >> /\ s \in Seq(Blocks) /\ Len(s) >= Len(PromptOf[r])
      /\ Len(s) \in Nat /\ Len(PromptOf[r]) \in Nat
      /\ \A j \in DOMAIN s : block_hash[s[j]] = Content(r, j)
  BY PromptFacts DEF Grow, Sound, HeldSound, HeldContent
<1> HIDE DEF b
<1>3. ASSUME NEW q \in Requests, NEW j \in DOMAIN req_to_blocks[q]
      PROVE  block_hash'[req_to_blocks[q][j]] = block_hash[req_to_blocks[q][j]]
  <2>1. req_to_blocks[q][j] \in ToSet(req_to_blocks[q]) /\ req_to_blocks[q][j] \in Blocks
    BY DEF Sound, HeldSound, ToSet
  <2>2. req_to_blocks[q][j] # b
    BY <1>1, <2>1, IdleUnheld
  <2> QED
    BY <1>2, <2>1, <2>2 DEF Sound
<1>4. \A q \in Requests : req_to_blocks'[q] = IF q = r THEN Append(s, b) ELSE req_to_blocks[q]
  BY <1>2 DEF Sound, HeldSound
<1>5. /\ Len(Append(s, b)) >= Len(PromptOf[r])
      /\ \A j \in DOMAIN Append(s, b) : block_hash'[Append(s, b)[j]] = Content(r, j)
  <2>1. block_hash'[b] = None
    BY <1>1, <1>2 DEF Sound
  <2>2. \A j \in DOMAIN s : block_hash'[s[j]] = Content(r, j)
    BY <1>2, <1>3
  <2> HIDE DEF s
  <2>3. /\ DOMAIN s = 1 .. Len(s) /\ DOMAIN Append(s, b) = 1 .. Len(s) + 1
        /\ Len(Append(s, b)) = Len(s) + 1
        /\ Append(s, b)[Len(s) + 1] = b /\ \A j \in DOMAIN s : Append(s, b)[j] = s[j]
    BY <1>1, <1>2
  <2>4. ~(Len(s) + 1 <= Len(PromptOf[r]))
    BY <1>2
  <2>5. \A j \in 1 .. Len(s) + 1 : j \in 1 .. Len(s) \/ j = Len(s) + 1
    BY <1>2
  <2>6. Len(s) + 1 >= Len(PromptOf[r])
    BY <1>2
  <2> QED
    BY <2>1, <2>2, <2>3, <2>4, <2>5, <2>6 DEF Content
<1> SUFFICES ASSUME NEW q \in Requests
             PROVE  /\ req_to_blocks'[q] # << >> => Len(req_to_blocks'[q]) >= Len(PromptOf[q])
                    /\ \A j \in DOMAIN req_to_blocks'[q] :
                         block_hash'[req_to_blocks'[q][j]] = Content(q, j)
  BY DEF HeldContent, Content
<1> HIDE DEF s
<1>6. CASE q = r
  BY <1>4, <1>5, <1>6
<1>7. CASE q # r
  BY <1>3, <1>4, <1>7 DEF HeldContent
<1> QED
  BY <1>6, <1>7

\* A release leaves the other requests what they hold.
LEMMA ReleaseContent ==
  ASSUME Sound, Facts!Owned, HeldContent, NEW r \in Requests, Release(r)
  PROVE  HeldContent'
<1>1. /\ \A q \in Requests : req_to_blocks'[q] = IF q = r THEN << >> ELSE req_to_blocks[q]
      /\ block_hash' = block_hash
  BY ReleaseSteps DEF Release
<1> QED
  BY <1>1 DEF HeldContent, Content

\* The reset empties the cache only when no request holds a block.
LEMMA ResetContent ==
  ASSUME Sound, Facts!Owned, HeldContent, ResetPrefixCache
  PROVE  HeldContent'
<1>1. req_to_blocks' = req_to_blocks
  BY DEF ResetPrefixCache
<1>2. CASE Len(free_block_queue') = Cardinality(Blocks)
  <2>1. Facts!Owned' /\ Sound'
    BY ResetSteps, SamePool, PoolAssumed, Facts!NextOwned
  <2>2. Queued' = Blocks
    <3>1. free_block_queue' \in Seq(Blocks) /\ IsInjective(free_block_queue')
      BY <2>1 DEF Sound, QueueSound, QueuedOnce
    <3>2. Queued' = ToSet(free_block_queue') /\ Queued' \subseteq Blocks
      BY <3>1 DEF Queued, ToSet
    <3>3. Cardinality(Queued') = Cardinality(Blocks) /\ IsFiniteSet(Blocks)
      BY <1>2, <3>1, <3>2, InjectiveLength, PromptAssumption
    <3> QED
      BY <3>2, <3>3, FS_Subset
  <2>3. ASSUME NEW q \in Requests PROVE req_to_blocks[q] = << >>
    <3> DEFINE s == req_to_blocks[q]
    <3>1. s \in Seq(Blocks)
      BY DEF Sound, HeldSound
    <3>2. ASSUME NEW b \in ToSet(s) PROVE FALSE
      <4>1. b \in Blocks
        BY <3>1, <3>2 DEF ToSet
      <4>2. b \in Queued'
        BY <2>2, <4>1
      <4>3. Idle(b)'
        BY <2>1, <4>2 DEF Facts!Owned, Facts!OneOwner, Facts!Idle, Idle
      <4>4. Facts!Idle(b)
        BY <4>3 DEF ResetPrefixCache, Idle, Facts!Idle
      <4>5. b \notin Held[q]
        BY <4>1, <4>4, PoolAssumed, Facts!IdleMeansUnheld DEF Facts!Owned
      <4> QED
        BY <3>2, <4>5 DEF Held
    <3> HIDE DEF s
    <3>3. 1 \notin DOMAIN s
      BY <3>2 DEF ToSet
    <3>4. s = << >>
      BY <3>1, <3>3
    <3> QED
      BY <3>4 DEF s
  <2> QED
    BY <1>1, <2>3 DEF HeldContent, Content
<1>3. CASE Len(free_block_queue') # Cardinality(Blocks)
  BY <1>1, <1>3 DEF ResetPrefixCache, HeldContent, Content
<1> QED
  BY <1>2, <1>3

\* Every step keeps what the held blocks cache.
LEMMA NextContent == Sound /\ Facts!Owned /\ HeldContent /\ [Next]_vars => HeldContent'
<1> SUFFICES ASSUME Sound, Facts!Owned, HeldContent, [Next]_vars PROVE HeldContent'
  OBVIOUS
<1>1. ASSUME NEW r \in Requests, Admit(r) PROVE HeldContent'
  BY <1>1, AdmitContent
<1>2. ASSUME NEW r \in Requests, Grow(r) PROVE HeldContent'
  BY <1>2, GrowContent
<1>3. ASSUME NEW r \in Requests, Release(r) PROVE HeldContent'
  BY <1>3, ReleaseContent
<1>4. CASE ResetPrefixCache
  BY <1>4, ResetContent
<1>5. ASSUME NEW c \in Controls, SetControl(c) PROVE HeldContent'
  BY <1>5 DEF SetControl, poolVars, HeldContent, Content
<1>6. CASE UNCHANGED vars
  BY <1>6 DEF vars, poolVars, HeldContent, Content
<1> QED
  BY <1>1, <1>2, <1>3, <1>4, <1>5, <1>6 DEF Next, Finish, Preempt

-----------------------------------------------------------------------------
(* What a sleeper keeps.                                                   *)

Private(r, key) == \A q \in Requests \ {r} : ~IsPrefix(key, PromptOf[q])

\* A request that was pinned when it finished has a pinned block for each part
\* of its prompt that no other prompt starts with.
AsleepPinned ==
  \A r \in Requests \ Preemptible : Withheld[r] # {} =>
    /\ r \in finished
    /\ \A i \in 1 .. Len(PromptOf[r]) :
         Private(r, SubSeq(PromptOf[r], 1, i)) =>
           \E b \in pinned_block_ids : block_hash[b] = SubSeq(PromptOf[r], 1, i)

\* A key that two prompts have is a prefix of either.
LEMMA SharedKey ==
  ASSUME NEW r \in Requests, NEW q \in Requests, NEW i \in 1 .. Len(PromptOf[r]),
         NEW j \in 1 .. Len(PromptOf[q]),
         SubSeq(PromptOf[q], 1, j) = SubSeq(PromptOf[r], 1, i)
  PROVE  IsPrefix(SubSeq(PromptOf[r], 1, i), PromptOf[q])
<1>1. /\ PromptOf[r] \in Seq(ToSet(PromptOf[r])) /\ PromptOf[q] \in Seq(ToSet(PromptOf[q]))
      /\ Len(PromptOf[q]) \in Nat
  BY PromptFacts
<1> DEFINE S == ToSet(PromptOf[q])
           t == PromptOf[q]
<1>2. t \in Seq(S)
  BY <1>1
<1> HIDE DEF S
<1>3. j <= Len(t) /\ Len(SubSeq(t, 1, j)) = j
  BY KeyFacts
<1> HIDE DEF t
<1>4. j \in Nat /\ j >= 1 /\ Len(t) \in Nat
  BY <1>2 DEF t
<1>5. SubSeq(SubSeq(t, 1, j), 1, j) = SubSeq(t, 1, j)
  <2> DEFINE u == SubSeq(t, 1, j)
  <2>1. u \in Seq(S) /\ Len(u) = j
    BY <1>2, <1>3, <1>4
  <2> HIDE DEF u
  <2>2. SubSeq(u, 1, Len(u)) = u
    BY <2>1
  <2> QED
    BY <2>1, <2>2 DEF u
<1>6. IsPrefix(SubSeq(t, 1, j), t)
  BY <1>3, <1>5 DEF IsPrefix
<1> QED
  BY <1>6 DEF t

\* A held block that caches a private part of a prompt has one user.
LEMMA PrivateHasOneUser ==
  ASSUME Sound, Facts!Owned, HeldContent, NEW r \in Requests, req_to_blocks[r] # << >>,
         NEW i \in 1 .. Len(PromptOf[r]), Private(r, SubSeq(PromptOf[r], 1, i))
  PROVE  /\ i \in DOMAIN req_to_blocks[r]
         /\ req_to_blocks[r][i] \in Pool!LastUsedBy(r) \cap ReusableBlocks
         /\ block_hash[req_to_blocks[r][i]] = SubSeq(PromptOf[r], 1, i)
<1> DEFINE b == req_to_blocks[r][i]
           key == SubSeq(PromptOf[r], 1, i)
<1>1. /\ i \in DOMAIN req_to_blocks[r] /\ b \in Blocks /\ b \in ToSet(req_to_blocks[r])
      /\ block_hash[b] = Content(r, i)
  <2>1. /\ req_to_blocks[r] \in Seq(Blocks) /\ Len(req_to_blocks[r]) >= Len(PromptOf[r])
        /\ Len(PromptOf[r]) \in Nat
    BY PromptFacts DEF Sound, HeldSound, HeldContent
  <2>2. i \in DOMAIN req_to_blocks[r] /\ b \in Blocks
    <3> DEFINE s == req_to_blocks[r]
    <3>1. s \in Seq(Blocks) /\ Len(s) >= Len(PromptOf[r]) /\ Len(PromptOf[r]) \in Nat
      BY <2>1
    <3> HIDE DEF s
    <3>2. i \in DOMAIN s /\ s[i] \in Blocks
      BY <3>1
    <3> QED
      BY <3>2 DEF s
  <2> QED
    BY <2>2 DEF HeldContent, ToSet
<1>2. block_hash[b] = key /\ key # None
  <2>1. i <= Len(PromptOf[r])
    BY PromptFacts
  <2> QED
    BY <1>1, <2>1, KeyFacts DEF Content
<1>3. ASSUME NEW q \in Requests, b \in Held[q]
      PROVE  q = r
  <2>1. PICK j \in DOMAIN req_to_blocks[q] : req_to_blocks[q][j] = b
    BY <1>3 DEF Held, ToSet
  <2>2. Content(q, j) = key
    BY <1>2, <2>1 DEF HeldContent
  <2>3. j \in Nat /\ j >= 1
    BY <2>1 DEF Sound, HeldSound
  <2>4. j \in 1 .. Len(PromptOf[q]) /\ SubSeq(PromptOf[q], 1, j) = key
    BY <1>2, <2>2, <2>3, PromptFacts DEF Content
  <2>5. IsPrefix(key, PromptOf[q])
    BY <2>4, SharedKey
  <2> QED
    BY <2>5 DEF Private
<1> HIDE DEF b, key
<1>4. ref_cnt[b] = 1
  <2>1. Facts!Holders(b) = {r}
    BY <1>1, <1>3 DEF Facts!Holders, Held
  <2>2. ref_cnt[b] = Facts!Cardinality(Facts!Holders(b))
    BY <1>1 DEF Facts!Owned, Facts!RefCntCountsHolders
  <2>3. Cardinality({r}) = 1
    BY FS_Singleton
  <2> QED
    BY <2>1, <2>2, <2>3, SameCardinality
<1>5. b \in Pool!LastUsedBy(r) \cap ReusableBlocks
  BY <1>1, <1>2, <1>4 DEF Pool!LastUsedBy, Held, ReusableBlocks, Reusable
<1> QED
  BY <1>1, <1>2, <1>5 DEF b, key

\* No admission of another request touches what a sleeper has of its own.
LEMMA AdmitAsleep ==
  ASSUME Sound, Facts!Owned, AsleepPinned, NEW q \in Requests, Admit(q)
  PROVE  AsleepPinned'
<1>1. PICK hit, new : Admits(q, hit, new)
  BY AdmitFacts
<1>2. /\ q \notin finished /\ Withheld' = Withheld /\ finished' = finished
  BY DEF Admit, Withheld, EntryOf
<1>3. /\ pinned_block_ids' = pinned_block_ids \ {b \in ToSet(hit) : Idle(b)}
      /\ block_hash' = Rehash(q, hit, new)
      /\ ToSet(new) \subseteq Queued
      /\ \A n \in DOMAIN hit :
           n \in 1 .. Len(PromptOf[q]) /\ block_hash[hit[n]] = SubSeq(PromptOf[q], 1, n)
  <2>1. /\ hit \in [1 .. HitLength(q) -> Blocks]
        /\ \A n \in 1 .. HitLength(q) : block_hash[hit[n]] = SubSeq(PromptOf[q], 1, n)
    BY <1>1 DEF Admits, ComputedBlocks
  <2>2. HitLength(q) \in 0 .. HitLimit(q)
    BY <1>1, HitFacts DEF Admits, Sound
  <2>3. \A n \in 1 .. HitLength(q) : n \in 1 .. Len(PromptOf[q])
    BY <2>2, PromptFacts
  <2> QED
    BY <1>1, <2>1, <2>3 DEF Admits, touch
<1> SUFFICES ASSUME NEW r \in Requests \ Preemptible, Withheld[r] # {},
                    NEW i \in 1 .. Len(PromptOf[r]), Private(r, SubSeq(PromptOf[r], 1, i))
             PROVE  \E b \in pinned_block_ids' : block_hash'[b] = SubSeq(PromptOf[r], 1, i)
  BY <1>2 DEF AsleepPinned, Private
<1>4. PICK b \in pinned_block_ids : block_hash[b] = SubSeq(PromptOf[r], 1, i)
  BY DEF AsleepPinned
<1>5. q # r
  BY <1>2 DEF AsleepPinned
<1>6. b \notin ToSet(hit)
  <2> SUFFICES ASSUME NEW n \in DOMAIN hit, b = hit[n] PROVE FALSE
    BY DEF ToSet
  <2>1. n \in 1 .. Len(PromptOf[q]) /\ SubSeq(PromptOf[q], 1, n) = SubSeq(PromptOf[r], 1, i)
    BY <1>3, <1>4
  <2>2. IsPrefix(SubSeq(PromptOf[r], 1, i), PromptOf[q])
    BY <2>1, SharedKey
  <2> QED
    BY <1>5, <2>2 DEF Private
<1>7. b \in Blocks /\ b \notin ToSet(new)
  BY <1>3 DEF Facts!Owned, Facts!TypeOK, Facts!OneOwner
<1>8. b \in pinned_block_ids' /\ block_hash'[b] = block_hash[b]
  BY <1>3, <1>6, <1>7 DEF Rehash
<1> QED
  BY <1>4, <1>8

\* A decoding request takes no pinned block.
LEMMA GrowAsleep ==
  ASSUME Sound, Facts!Owned, AsleepPinned, NEW q \in Requests, Grow(q)
  PROVE  AsleepPinned'
<1> DEFINE h == Head(free_block_queue)
<1>1. h \in Queued
  <2> DEFINE s == free_block_queue
  <2>1. s \in Seq(Blocks) /\ s # << >>
    BY DEF Grow, Sound, QueueSound
  <2> HIDE DEF s
  <2>2. Head(s) = s[1] /\ 1 \in DOMAIN s
    BY <2>1
  <2> QED
    BY <2>2 DEF Queued, ToSet, s
<1>2. /\ Withheld' = Withheld /\ finished' = finished /\ pinned_block_ids' = pinned_block_ids
      /\ block_hash' = [block_hash EXCEPT ![h] = None]
  BY DEF Grow, Withheld, EntryOf
<1> HIDE DEF h
<1>3. \A b \in pinned_block_ids : block_hash'[b] = block_hash[b]
  BY <1>1, <1>2 DEF Facts!Owned, Facts!OneOwner, Facts!TypeOK, Sound
<1> QED
  BY <1>2, <1>3 DEF AsleepPinned, Private

\* A release adds pins; the one that pins a request pins all it has of its own.
LEMMA ReleaseAsleep ==
  ASSUME Sound, Facts!Owned, HeldContent, AsleepPinned, NEW q \in Requests, Release(q),
         finished \subseteq finished', q \notin Preemptible => q \in finished'
  PROVE  AsleepPinned'
<1>1. Pool!Release(q) /\ block_hash' = block_hash /\ req_to_blocks[q] # << >>
  BY ReleaseSteps DEF Release
<1>2. /\ pinned_block_ids \subseteq pinned_block_ids'
      /\ \A r \in Requests \ {q} : Withheld'[r] = Withheld[r]
      /\ Withheld'[q] # Withheld[q] =>
           pinned_block_ids' = pinned_block_ids \cup (Pool!LastUsedBy(q) \cap ReusableBlocks)
  <2>1. Withheld \in [Requests -> SUBSET Blocks]
    BY DEF Facts!Owned, Facts!TypeOK
  <2>2. CASE Pool!ss_pin_request(q)
    BY <2>1, <2>2 DEF Pool!ss_pin_request, Pool!Pin
  <2>3. CASE Pool!free_blocks(q)
    BY <2>1, <2>3 DEF Pool!free_blocks
  <2> QED
    BY <1>1, <2>2, <2>3 DEF Pool!Release
<1> SUFFICES ASSUME NEW r \in Requests \ Preemptible, Withheld'[r] # {}
             PROVE  /\ r \in finished'
                    /\ \A i \in 1 .. Len(PromptOf[r]) :
                         Private(r, SubSeq(PromptOf[r], 1, i)) =>
                           \E b \in pinned_block_ids' :
                             block_hash'[b] = SubSeq(PromptOf[r], 1, i)
  BY DEF AsleepPinned, Private
<1>3. CASE Withheld[r] # {}
  BY <1>1, <1>2, <1>3 DEF AsleepPinned
<1>4. CASE Withheld[r] = {}
  <2>1. r = q /\ pinned_block_ids' = pinned_block_ids \cup (Pool!LastUsedBy(q) \cap ReusableBlocks)
    BY <1>2, <1>4
  <2> QED
    BY <1>1, <2>1, PrivateHasOneUser
<1> QED
  BY <1>3, <1>4

\* The reset forgets every sleeper.
LEMMA ResetAsleep ==
  ASSUME ResetPrefixCache
  PROVE  AsleepPinned'
<1>1. Withheld' = [r \in Requests |-> {}]
  BY DEF ResetPrefixCache, ss_unpin_all, Withheld, EntryOf, ToSet
<1> QED
  BY <1>1 DEF AsleepPinned

\* Every step keeps what a sleeper has pinned.
LEMMA NextAsleep ==
  Sound /\ Facts!Owned /\ HeldContent /\ AsleepPinned /\ [Next]_vars => AsleepPinned'
<1> SUFFICES ASSUME Sound, Facts!Owned, HeldContent, AsleepPinned, [Next]_vars
             PROVE  AsleepPinned'
  OBVIOUS
<1>1. ASSUME NEW r \in Requests, Admit(r) PROVE AsleepPinned'
  BY <1>1, AdmitAsleep
<1>2. ASSUME NEW r \in Requests, Grow(r) PROVE AsleepPinned'
  BY <1>2, GrowAsleep
<1>3. ASSUME NEW r \in Requests, Finish(r) PROVE AsleepPinned'
  BY <1>3, ReleaseAsleep DEF Finish
<1>4. ASSUME NEW r \in Requests, Preempt(r) PROVE AsleepPinned'
  BY <1>4, ReleaseAsleep DEF Preempt
<1>5. CASE ResetPrefixCache
  BY <1>5, ResetAsleep
<1>6. ASSUME NEW c \in Controls, SetControl(c) PROVE AsleepPinned'
  BY <1>6 DEF SetControl, poolVars, AsleepPinned, Private, Withheld, EntryOf
<1>7. CASE UNCHANGED vars
  BY <1>7 DEF vars, poolVars, AsleepPinned, Private, Withheld, EntryOf
<1> QED
  BY <1>1, <1>2, <1>3, <1>4, <1>5, <1>6, <1>7 DEF Next

\* What is left of enforced residency, for every load: a context that was pinned
\* when it finished keeps the part of its prompt that no other prompt starts with.
THEOREM PrivateSuffixCorrect == Spec => []PrivateSuffixStays
<1> DEFINE Inv == Sound /\ Facts!Owned /\ HeldContent /\ AsleepPinned
<1>1. Init => Inv
  <2> SUFFICES ASSUME Init PROVE Inv
    OBVIOUS
  <2>1. Sound /\ Facts!Owned
    BY InitSound, SamePool, PoolAssumed, Facts!InitOwned
  <2>2. HeldContent
    BY DEF Init, HeldContent
  <2>3. Withheld = [r \in Requests |-> {}]
    BY DEF Init, Withheld, EntryOf, ToSet
  <2> QED
    BY <2>1, <2>2, <2>3 DEF AsleepPinned
<1>2. Inv /\ [Next]_vars => Inv'
  BY NextSound, NextContent, NextAsleep
<1>3. Inv => PrivateSuffixStays
  <2> SUFFICES ASSUME Inv, NEW r \in Requests, Sleeping(r), NEW i \in 1 .. Len(PromptOf[r]),
                      Private(r, SubSeq(PromptOf[r], 1, i))
               PROVE  Cached(SubSeq(PromptOf[r], 1, i)) # {}
    BY DEF PrivateSuffixStays, Private
  <2>1. Withheld[r] # {} /\ r \notin Preemptible
    BY HasEntry DEF Sleeping, Sound
  <2>2. PICK b \in pinned_block_ids : block_hash[b] = SubSeq(PromptOf[r], 1, i)
    BY <2>1 DEF AsleepPinned
  <2>3. b \in Blocks
    BY DEF Facts!Owned, Facts!TypeOK
  <2> QED
    BY <2>2, <2>3 DEF Cached
<1> QED
  BY <1>1, <1>2, <1>3, PTL DEF Spec
=============================================================================
